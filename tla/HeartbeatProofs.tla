--------------------------- MODULE HeartbeatProofs --------------------------
(***************************************************************************)
(* Proofs about RuntimeLifecycle, Heartbeat and LiveHeartbeat, for any     *)
(* controllers, number of Starts, metrics and parameter sets.              *)
(*                                                                         *)
(* First the lifecycle: the busy flags exclude overlapping ticks, the      *)
(* WaitGroup counts the live goroutines exactly, a Stop that returns has   *)
(* joined the generation it cancelled, no Stop is parked for nothing, and  *)
(* as long as Stops take turns none leaks a goroutine, panics or waits for *)
(* one that has not been told to end. Then the ticks: the steps of         *)
(* Heartbeat are steps of RuntimeLifecycle or stutter, so that all this    *)
(* holds of them as well, and with it what the status says is true; and    *)
(* each step brings its tick nearer to its end.  Last LiveHeartbeat, which *)
(* implements Heartbeat and LiveApply at once: what the status accepts is  *)
(* what the router runs with.                                              *)
(***************************************************************************)
EXTENDS LiveHeartbeat, FiniteSetTheorems, TLAPS

-----------------------------------------------------------------------------
(* The lifecycle *)

(* The goroutines of a generation exist as soon as it is started.          *)
Launched ==
  \A k \in Kinds, g \in Gens : loop[k][g] = "absent" <=> starts < g

(* The cancel function of a running Runtime is that of some generation.    *)
CancelSet == running => cancel \in 1..starts

(* A Stop past its first critical section holds such a cancel function.    *)
StoppingStarted ==
  \A c \in Controllers : call[c] # "ready" => stopping[c] \in 1..starts

(* A Stop whose wait is over has seen the counter at zero after its        *)
(* generation had been launched: that generation is gone for good.         *)
Joined ==
  \A c \in Controllers :
    call[c] \in {"woken", "finishing"} =>
      \A k \in Kinds : loop[k][stopping[c]] = "exited"

(* The inductive invariant.  WaitGroupExact is what makes the wait of Stop *)
(* mean something, BusyFlagOwned is what makes the compare-and-swap        *)
(* exclude other ticks.                                                    *)
IInv ==
  /\ TypeOK
  /\ WaitGroupExact
  /\ BusyFlagOwned
  /\ TickExclusion
  /\ Launched
  /\ CancelSet
  /\ StoppingStarted
  /\ Joined

-----------------------------------------------------------------------------
(* There are finitely many goroutines.                                     *)
LEMMA FiniteGoroutines ==
  ASSUME NEW S \in SUBSET (Kinds \X Gens)
  PROVE  IsFiniteSet(S) /\ Cardinality(S) \in Nat
<1>1. IsFiniteSet(Kinds)
  <2>1. Kinds = {"metrics"} \cup {"prediction"}
    BY DEF Kinds
  <2> QED
    BY <2>1, FS_Singleton, FS_AddElement
<1>2. IsFiniteSet(Gens)
  BY MaxStartsAssumption, FS_Interval DEF Gens
<1>3. IsFiniteSet(Kinds \X Gens)
  BY <1>1, <1>2, FS_Product
<1> QED
  BY <1>3, FS_Subset, FS_CardinalityType

(* The initial states satisfy the invariant.                               *)
LEMMA InitIInv == Init => IInv
<1> SUFFICES ASSUME Init PROVE IInv
  OBVIOUS
<1> USE MaxStartsAssumption DEF Init
<1>1. Goroutines = {}
  BY DEF Goroutines, Live, Kinds
<1>2. WaitGroupExact
  BY <1>1, FS_EmptySet DEF WaitGroupExact
<1>3. TypeOK
  <2>1. 0 \in 0..MaxStarts
    OBVIOUS
  <2>2. loop \in [Kinds -> [Gens -> LoopStates]]
    BY DEF LoopStates
  <2>3. call \in [Controllers -> CallStates]
    BY DEF CallStates
  <2>4. stopping \in [Controllers -> 0..MaxStarts] /\ busy \in [Kinds -> BOOLEAN]
    BY <2>1
  <2> QED
    BY <2>1, <2>2, <2>3, <2>4 DEF TypeOK
<1>4. BusyFlagOwned /\ TickExclusion /\ Launched
  BY DEF BusyFlagOwned, TickExclusion, Launched, Gens
<1>5. CancelSet /\ StoppingStarted /\ Joined
  BY DEF CancelSet, StoppingStarted, Joined
<1> QED
  BY <1>2, <1>3, <1>4, <1>5 DEF IInv

(* A successful Start adds the two goroutines of a generation that did not *)
(* exist.                                                                  *)
LEMMA LaunchKeepsIInv ==
  ASSUME IInv, NEW c \in Controllers, Launch(c), ~running
  PROVE  IInv'
<1> DEFINE n == starts + 1
<1> USE MaxStartsAssumption DEF IInv
<1>1. n \in Gens /\ starts \in Nat
  BY DEF TypeOK, Launch, Gens
<1>2. \A k \in Kinds, g \in Gens :
        loop'[k][g] = IF g = n THEN "select" ELSE loop[k][g]
  BY <1>1 DEF TypeOK, Launch
<1>3. \A k \in Kinds : loop[k][n] = "absent"
  BY <1>1 DEF Launched
<1>4. WaitGroupExact'
  <2> DEFINE one == Goroutines \cup {<<"metrics", n>>}
             two == one \cup {<<"prediction", n>>}
  <2>1. Goroutines' = two
    BY <1>1, <1>2, <1>3 DEF Goroutines, Live, Kinds
  <2>2. <<"metrics", n>> \notin Goroutines /\ <<"prediction", n>> \notin one
    BY <1>3 DEF Goroutines, Live, Kinds
  <2>3. IsFiniteSet(Goroutines) /\ Cardinality(Goroutines) \in Nat
    BY FiniteGoroutines DEF Goroutines
  <2>4. IsFiniteSet(one) /\ Cardinality(one) = Cardinality(Goroutines) + 1
    BY <2>2, <2>3, FS_AddElement
  <2>5. Cardinality(two) = Cardinality(one) + 1
    BY <2>2, <2>4, FS_AddElement
  <2>6. wg' = wg + 2
    BY DEF Launch
  <2> HIDE DEF one, two
  <2> QED
    BY <2>1, <2>3, <2>4, <2>5, <2>6 DEF WaitGroupExact
<1>5. TypeOK'
  <2>1. loop' \in [Kinds -> [Gens -> LoopStates]]
    BY <1>1 DEF TypeOK, Launch, LoopStates
  <2> QED
    BY <2>1 DEF TypeOK, Launch
<1>6. BusyFlagOwned' /\ TickExclusion'
  BY <1>1, <1>2, <1>3 DEF BusyFlagOwned, TickExclusion, Launch
<1>7. Launched'
  BY <1>1, <1>2 DEF Launched, Launch, Gens
<1>8. CancelSet'
  BY <1>1 DEF CancelSet, Launch
<1>9. StoppingStarted'
  BY <1>1 DEF StoppingStarted, Launch
<1>10. Joined'
  <2> SUFFICES ASSUME NEW d \in Controllers, call[d] \in {"woken", "finishing"},
                      NEW k \in Kinds
               PROVE  loop'[k][stopping[d]] = "exited"
    BY DEF Joined, Launch
  <2>1. stopping[d] \in Gens /\ stopping[d] # n
    BY <1>1 DEF StoppingStarted, TypeOK, Gens
  <2> QED
    BY <1>2, <2>1 DEF Joined
<1> QED
  BY <1>4, <1>5, <1>6, <1>7, <1>8, <1>9, <1>10

(* A loop that exits takes itself off the WaitGroup.  When it was the last *)
(* one, every generation started so far is gone, whichever of them the     *)
(* woken Stops had cancelled.                                              *)
LEMMA LoopExitKeepsIInv ==
  ASSUME IInv, NEW k \in Kinds, NEW g \in Gens, LoopExit(k, g)
  PROVE  IInv'
<1> USE MaxStartsAssumption DEF IInv
<1>1. \A j \in Kinds, h \in Gens :
        loop'[j][h] = IF j = k /\ h = g THEN "exited" ELSE loop[j][h]
  BY DEF TypeOK, LoopExit
<1>2. Goroutines' = Goroutines \ {<<k, g>>}
  BY <1>1 DEF Goroutines, Live
<1>3. <<k, g>> \in Goroutines
  BY DEF Goroutines, Live, LoopExit
<1>4. IsFiniteSet(Goroutines) /\ Cardinality(Goroutines) \in Nat
  BY FiniteGoroutines DEF Goroutines
<1>5. WaitGroupExact'
  BY <1>2, <1>3, <1>4, FS_RemoveElement DEF WaitGroupExact, LoopExit
<1>6. wg' \in Nat
  <2>1. Goroutines' \in SUBSET (Kinds \X Gens)
    BY DEF Goroutines
  <2>2. Cardinality(Goroutines') \in Nat
    BY <2>1, FiniteGoroutines
  <2> QED
    BY <1>5, <2>2 DEF WaitGroupExact
<1>7. TypeOK'
  <2>1. loop' \in [Kinds -> [Gens -> LoopStates]]
    BY DEF TypeOK, LoopExit, LoopStates
  <2>2. call' \in [Controllers -> CallStates]
    BY DEF TypeOK, LoopExit, CallStates
  <2> QED
    BY <1>6, <2>1, <2>2 DEF TypeOK, LoopExit
<1>8. BusyFlagOwned' /\ TickExclusion' /\ Launched'
  BY <1>1 DEF BusyFlagOwned, TickExclusion, Launched, LoopExit
<1>9. CancelSet' /\ StoppingStarted'
  BY DEF CancelSet, StoppingStarted, LoopExit
<1>10. Joined'
  <2> SUFFICES ASSUME NEW d \in Controllers, call'[d] \in {"woken", "finishing"},
                      NEW j \in Kinds
               PROVE  loop'[j][stopping[d]] = "exited"
    BY DEF Joined, LoopExit
  <2>1. stopping[d] \in Gens /\ ~(starts < stopping[d])
    BY DEF StoppingStarted, TypeOK, Gens, LoopExit
  <2>2. CASE call[d] \in {"woken", "finishing"}
    BY <1>1, <2>1, <2>2 DEF Joined
  <2>3. CASE wg = 1 /\ call[d] = "blocked"
    <3>1. Cardinality(Goroutines') = 0
      BY <1>5, <2>3 DEF WaitGroupExact, LoopExit
    <3>2. Goroutines' = {}
      BY <1>2, <1>4, <3>1, FS_EmptySet, FS_RemoveElement
    <3>3. loop'[j][stopping[d]] \notin {"select", "tick"}
      <4>1. <<j, stopping[d]>> \notin Goroutines'
        BY <3>2
      <4> QED
        BY <2>1, <4>1 DEF Goroutines, Live
    <3>4. loop'[j][stopping[d]] # "absent"
      BY <1>8, <2>1 DEF Launched, LoopExit
    <3>5. loop'[j][stopping[d]] \in LoopStates
      BY <1>7, <2>1 DEF TypeOK
    <3> QED
      BY <3>3, <3>4, <3>5 DEF LoopStates
  <2> QED
    BY <2>2, <2>3 DEF LoopExit
<1> QED
  BY <1>5, <1>7, <1>8, <1>9, <1>10

(* The steps of a tick: a tick only begins where no other one is.          *)
LEMMA TickKeepsIInv ==
  ASSUME IInv, NEW k \in Kinds, NEW g \in Gens,
         TickBegin(k, g) \/ TickEnd(k, g)
  PROVE  IInv'
<1> USE MaxStartsAssumption DEF IInv
<1>1. PICK next \in {"tick", "select"} :
        /\ loop' = [loop EXCEPT ![k][g] = next]
        /\ busy' = [busy EXCEPT ![k] = (next = "tick")]
        /\ loop[k][g] = IF next = "tick" THEN "select" ELSE "tick"
        /\ next = "tick" => ~busy[k]
  BY DEF TickBegin, TickEnd
<1>2. UNCHANGED <<running, cancel, cancelled, starts, wg, call, stopping, panicked>>
  BY DEF TickBegin, TickEnd
<1>3. \A j \in Kinds, h \in Gens :
        loop'[j][h] = IF j = k /\ h = g THEN next ELSE loop[j][h]
  BY <1>1 DEF TypeOK
<1>4. \A j \in Kinds : busy'[j] = IF j = k THEN next = "tick" ELSE busy[j]
  BY <1>1 DEF TypeOK
<1>5. TypeOK'
  <2>1. loop' \in [Kinds -> [Gens -> LoopStates]]
    BY <1>1 DEF TypeOK, LoopStates
  <2>2. busy' \in [Kinds -> BOOLEAN]
    BY <1>1 DEF TypeOK
  <2> QED
    BY <1>2, <2>1, <2>2 DEF TypeOK
<1>6. WaitGroupExact'
  <2>1. Goroutines' = Goroutines
    BY <1>1, <1>3 DEF Goroutines, Live
  <2> QED
    BY <1>2, <2>1 DEF WaitGroupExact
<1>7. TickExclusion'
  BY <1>1, <1>3 DEF TickExclusion, BusyFlagOwned
<1>8. BusyFlagOwned'
  <2> SUFFICES ASSUME NEW j \in Kinds
               PROVE  busy'[j] <=> \E h \in Gens : loop'[j][h] = "tick"
    BY DEF BusyFlagOwned
  <2>1. CASE j # k
    BY <1>3, <1>4, <2>1 DEF BusyFlagOwned
  <2>2. CASE j = k /\ next = "tick"
    BY <1>3, <1>4, <2>2
  <2>3. CASE j = k /\ next = "select"
    <3>1. \A h \in Gens : loop'[j][h] # "tick"
      BY <1>1, <1>3, <2>3 DEF TickExclusion
    <3> QED
      BY <1>4, <2>3, <3>1
  <2> QED
    BY <2>1, <2>2, <2>3
<1>9. Launched' /\ CancelSet' /\ StoppingStarted'
  BY <1>1, <1>2, <1>3 DEF Launched, CancelSet, StoppingStarted
<1>10. Joined'
  <2> SUFFICES ASSUME NEW d \in Controllers, call[d] \in {"woken", "finishing"},
                      NEW j \in Kinds
               PROVE  loop'[j][stopping[d]] = "exited"
    BY <1>2 DEF Joined
  <2>1. stopping[d] \in Gens
    BY DEF StoppingStarted, TypeOK, Gens
  <2> QED
    BY <1>1, <1>3, <2>1 DEF Joined
<1> QED
  BY <1>5, <1>6, <1>7, <1>8, <1>9, <1>10

(* The steps that leave loops, flags and counter alone: those of Stop and  *)
(* the end of a parent context.                                            *)
LEMMA StopKeepsIInv ==
  ASSUME IInv, NEW c \in Controllers, StopEnter(c) \/ StopStep(c)
  PROVE  IInv'
<1> USE MaxStartsAssumption DEF IInv
<1>1. UNCHANGED <<cancel, starts, wg, loop, busy>>
  BY DEF StopEnter, StopStep, StopCancel, StopWait, StopResume, StopFinish
<1>2. WaitGroupExact' /\ BusyFlagOwned' /\ TickExclusion' /\ Launched'
  BY <1>1 DEF WaitGroupExact, Goroutines, Live, BusyFlagOwned, TickExclusion, Launched
<1>3. CASE StopEnter(c)
  <2>1. cancel \in 1..starts
    BY <1>3 DEF StopEnter, CancelSet
  <2>2. TypeOK'
    BY <1>3 DEF StopEnter, TypeOK, CallStates
  <2>3. CancelSet' /\ StoppingStarted' /\ Joined'
    BY <1>3, <2>1 DEF StopEnter, CancelSet, StoppingStarted, Joined, TypeOK
  <2> QED
    BY <1>2, <2>2, <2>3
<1>4. CASE StopCancel(c)
  <2>1. stopping[c] \in Gens
    BY <1>4 DEF StopCancel, StoppingStarted, TypeOK, Gens
  <2>2. TypeOK'
    BY <1>4, <2>1 DEF StopCancel, TypeOK, CallStates
  <2>3. CancelSet' /\ StoppingStarted' /\ Joined'
    BY <1>4 DEF StopCancel, CancelSet, StoppingStarted, Joined, TypeOK
  <2> QED
    BY <1>2, <2>2, <2>3
<1>5. CASE StopWait(c)
  <2>1. TypeOK'
    BY <1>5 DEF StopWait, TypeOK, CallStates
  <2>2. CancelSet' /\ StoppingStarted'
    BY <1>5 DEF StopWait, CancelSet, StoppingStarted, TypeOK
  <2>3. ASSUME wg = 0, NEW k \in Kinds PROVE loop[k][stopping[c]] = "exited"
    <3>1. stopping[c] \in Gens /\ ~(starts < stopping[c])
      BY <1>5 DEF StopWait, StoppingStarted, TypeOK, Gens
    <3>2. Goroutines = {}
      BY <2>3, FiniteGoroutines, FS_EmptySet DEF WaitGroupExact, Goroutines
    <3>3. loop[k][stopping[c]] \notin {"select", "tick"}
      <4>1. <<k, stopping[c]>> \notin Goroutines
        BY <3>2
      <4> QED
        BY <3>1, <4>1 DEF Goroutines, Live
    <3>4. loop[k][stopping[c]] \in LoopStates
      BY <3>1 DEF TypeOK
    <3> QED
      BY <3>1, <3>3, <3>4 DEF LoopStates, Launched
  <2>4. Joined'
    BY <1>5, <2>3 DEF StopWait, Joined, TypeOK
  <2> QED
    BY <1>2, <2>1, <2>2, <2>4
<1>6. CASE StopResume(c)
  <2>1. TypeOK'
    BY <1>6 DEF StopResume, TypeOK, CallStates
  <2>2. CancelSet' /\ StoppingStarted' /\ Joined'
    BY <1>6 DEF StopResume, CancelSet, StoppingStarted, Joined, TypeOK
  <2> QED
    BY <1>2, <2>1, <2>2
<1>7. CASE StopFinish(c)
  <2>1. TypeOK'
    <3>1. stopping' \in [Controllers -> 0..MaxStarts]
      BY <1>7 DEF StopFinish, TypeOK
    <3> QED
      BY <1>7, <3>1 DEF StopFinish, TypeOK, CallStates
  <2>2. CancelSet' /\ StoppingStarted' /\ Joined'
    BY <1>7 DEF StopFinish, CancelSet, StoppingStarted, Joined, TypeOK
  <2> QED
    BY <1>2, <2>1, <2>2
<1> QED
  BY <1>3, <1>4, <1>5, <1>6, <1>7 DEF StopStep

(* The parent context may end at any time.                                 *)
LEMMA ParentDoneKeepsIInv ==
  ASSUME IInv, NEW g \in Gens, ParentDone(g)
  PROVE  IInv'
BY DEF ParentDone, IInv, TypeOK, WaitGroupExact, Goroutines, Live,
       BusyFlagOwned, TickExclusion, Launched, CancelSet, StoppingStarted, Joined

(* A step of nothing keeps the invariant.                                  *)
LEMMA StutterKeepsIInv == ASSUME IInv, UNCHANGED vars PROVE IInv'
BY DEF vars, IInv, TypeOK, WaitGroupExact, Goroutines, Live,
       BusyFlagOwned, TickExclusion, Launched, CancelSet, StoppingStarted, Joined

(* Every step keeps the invariant.                                         *)
LEMMA NextKeepsIInv == IInv /\ [Next]_vars => IInv'
<1> SUFFICES ASSUME IInv, [Next]_vars PROVE IInv'
  OBVIOUS
<1>1. ASSUME NEW c \in Controllers, Start(c) PROVE IInv'
  BY <1>1, LaunchKeepsIInv DEF Start
<1>2. ASSUME NEW c \in Controllers, StopEnter(c) \/ StopStep(c) PROVE IInv'
  BY <1>2, StopKeepsIInv
<1>3. ASSUME NEW g \in Gens, ParentDone(g) PROVE IInv'
  BY <1>3, ParentDoneKeepsIInv
<1>4. ASSUME NEW k \in Kinds, NEW g \in Gens, LoopExit(k, g) PROVE IInv'
  BY <1>4, LoopExitKeepsIInv
<1>5. ASSUME NEW k \in Kinds, NEW g \in Gens, TickBegin(k, g) \/ TickEnd(k, g)
      PROVE  IInv'
  BY <1>5, TickKeepsIInv
<1>6. CASE UNCHANGED vars
  BY <1>6, StutterKeepsIInv
<1> QED
  BY <1>1, <1>2, <1>3, <1>4, <1>5, <1>6 DEF Next, Lifecycle

(* The invariant holds in every reachable state.                           *)
THEOREM InductiveInvariant == Spec => []IInv
BY InitIInv, NextKeepsIInv, PTL DEF Spec

(* Every reachable state is well typed; in particular the WaitGroup        *)
(* counter is never negative, so that wg.Done cannot panic.                *)
THEOREM TypeCorrect == Spec => []TypeOK
<1>1. IInv => TypeOK
  BY DEF IInv
<1> QED
  BY <1>1, InductiveInvariant, PTL

(* No two ticks of one kind overlap, however many generations of loops run *)
(* at once (runtime.go:52-56).                                             *)
THEOREM TicksExclude == Spec => []TickExclusion
<1>1. IInv => TickExclusion
  BY DEF IInv
<1> QED
  BY <1>1, InductiveInvariant, PTL

(* A set busy flag always belongs to a tick in progress.                   *)
THEOREM BusyFlagsOwned == Spec => []BusyFlagOwned
<1>1. IInv => BusyFlagOwned
  BY DEF IInv
<1> QED
  BY <1>1, InductiveInvariant, PTL

(* The WaitGroup counts the live goroutines.                               *)
THEOREM WaitGroupCounts == Spec => []WaitGroupExact
<1>1. IInv => WaitGroupExact
  BY DEF IInv
<1> QED
  BY <1>1, InductiveInvariant, PTL

(* A Stop that returns leaves no goroutine of the generation it cancelled, *)
(* whatever other controllers do meanwhile (runtime.go:135-137).           *)
THEOREM StopsJoin == Spec => StopJoins
<1>1. IInv /\ [Next]_vars =>
        [\A c \in Controllers :
           call[c] = "finishing" /\ call'[c] = "ready" =>
             \A k \in Kinds : ~Live(k, stopping[c])]_vars
  BY DEF IInv, Joined, Live
<1> QED
  BY <1>1, InductiveInvariant, PTL DEF Spec, StopJoins

-----------------------------------------------------------------------------
(* Controllers that take turns *)

(* No two controllers are inside Stop at once.  A Start may be called at   *)
(* any time: a Stop in progress keeps running set, and Start refuses.      *)
StopsTakeTurns ==
  \A c, d \in Controllers : call[c] # "ready" /\ call[d] # "ready" => c = d

(* What the lifecycle keeps as long as they do.  The counter is zero when  *)
(* the wait of Stop is over and stays there: no Start can come between it  *)
(* and the second critical section.                                        *)
TurnsInv ==
  /\ ~running => wg = 0
  /\ \A c \in Controllers : call[c] # "ready" => running
  /\ \A c \in Controllers : call[c] \in {"woken", "finishing"} => wg = 0
  /\ ~panicked

(* While calls of Stop take turns, no step leads out of the invariant.     *)
LEMMA NextKeepsTurns ==
  ASSUME IInv, IInv', StopsTakeTurns, TurnsInv, [Next]_vars
  PROVE  TurnsInv'
<1> USE DEF TurnsInv
<1>1. wg \in Nat /\ wg' \in Nat /\ call \in [Controllers -> CallStates]
  BY DEF IInv, TypeOK
<1>2. ASSUME NEW c \in Controllers, Start(c) PROVE TurnsInv'
  BY <1>1, <1>2 DEF Start, Launch
<1>3. ASSUME NEW c \in Controllers, StopEnter(c) PROVE TurnsInv'
  BY <1>1, <1>3 DEF StopEnter
<1>4. ASSUME NEW c \in Controllers, StopCancel(c) PROVE TurnsInv'
  BY <1>1, <1>4 DEF StopCancel
<1>5. ASSUME NEW c \in Controllers, StopWait(c) PROVE TurnsInv'
  BY <1>1, <1>5 DEF StopWait
<1>6. ASSUME NEW c \in Controllers, StopResume(c) PROVE TurnsInv'
  BY <1>1, <1>6 DEF StopResume
<1>7. ASSUME NEW c \in Controllers, StopFinish(c) PROVE TurnsInv'
  <2>1. wg' = 0 /\ ~panicked'
    BY <1>7 DEF StopFinish
  <2>2. \A d \in Controllers : call'[d] = "ready"
    BY <1>1, <1>7 DEF StopFinish, StopsTakeTurns
  <2> QED
    BY <2>1, <2>2
<1>8. ASSUME NEW g \in Gens, ParentDone(g) PROVE TurnsInv'
  BY <1>1, <1>8 DEF ParentDone
<1>9. ASSUME NEW k \in Kinds, NEW g \in Gens, LoopExit(k, g) PROVE TurnsInv'
  <2>1. wg' = wg - 1 /\ wg # 0 /\ UNCHANGED <<running, panicked>>
    BY <1>1, <1>9 DEF LoopExit
  <2>2. \A c \in Controllers :
          /\ call'[c] # "ready" => call[c] # "ready"
          /\ call'[c] \in {"woken", "finishing"} => wg = 1
    BY <1>9, <2>1 DEF LoopExit
  <2> QED
    BY <1>1, <2>1, <2>2
<1>10. ASSUME NEW k \in Kinds, NEW g \in Gens, TickBegin(k, g) \/ TickEnd(k, g)
       PROVE  TurnsInv'
  BY <1>10 DEF TickBegin, TickEnd
<1>11. CASE UNCHANGED vars
  BY <1>11 DEF vars
<1> QED
  BY <1>2, <1>3, <1>4, <1>5, <1>6, <1>7, <1>8, <1>9, <1>10, <1>11
  DEF Next, Lifecycle, StopStep

(* A behaviour in which calls of Stop take turns keeps both invariants.    *)
LEMMA TurnsKept == Spec /\ []StopsTakeTurns => [](IInv /\ TurnsInv)
<1>1. Init => TurnsInv
  BY DEF Init, TurnsInv
<1>2. IInv /\ StopsTakeTurns /\ TurnsInv /\ [Next]_vars => TurnsInv'
  BY NextKeepsIInv, NextKeepsTurns
<1> QED
  BY <1>1, <1>2, InductiveInvariant, PTL DEF Spec

(* As long as no two Stops overlap, a Runtime that is not running has left *)
(* no background goroutine behind, for any number of controllers and of    *)
(* restarts (runtime.go:135-137).                                          *)
THEOREM TurnsMeanQuiet == Spec /\ []StopsTakeTurns => []StoppedMeansQuiet
<1>1. IInv /\ TurnsInv => StoppedMeansQuiet
  BY FiniteGoroutines, FS_EmptySet
  DEF IInv, TurnsInv, WaitGroupExact, StoppedMeansQuiet, Goroutines
<1> QED
  BY <1>1, TurnsKept, PTL

(* Nor does the WaitGroup panic then (runtime.go:135-137).                 *)
THEOREM TurnsMeanNoPanic == Spec /\ []StopsTakeTurns => []NoPanic
<1>1. TurnsInv => NoPanic
  BY DEF TurnsInv, NoPanic
<1> QED
  BY <1>1, TurnsKept, PTL

(* One controller always takes turns with itself: an owner who alone calls *)
(* Start and Stop needs no assumption.                                     *)
THEOREM OneOwnerShutsDown ==
  ASSUME NEW c, Controllers = {c}
  PROVE  Spec => [](StoppedMeansQuiet /\ NoPanic)
<1>1. StopsTakeTurns
  BY DEF StopsTakeTurns
<1> QED
  BY <1>1, TurnsMeanQuiet, TurnsMeanNoPanic, PTL

-----------------------------------------------------------------------------
(* What a Stop waits for *)

(* A parked Stop has goroutines to wait for.                               *)
NoWakeupLost == \A c \in Controllers : call[c] = "blocked" => wg # 0

(* And if Stops take turns, they are those of the generation it has        *)
(* cancelled: each earlier one was gone before the next Start.             *)
WaitsForCancelled ==
  /\ \A k \in Kinds, g \in Gens : Live(k, g) => g = starts
  /\ running => cancel = starts
  /\ \A c \in Controllers : call[c] # "ready" => stopping[c] = starts
  /\ \A c \in Controllers : call[c] \in {"joining", "blocked"} => stopping[c] \in cancelled

(* What a parked Stop waits for: goroutines whose context is done.         *)
ParkedForDone ==
  \A c \in Controllers :
    call[c] = "blocked" =>
      Goroutines # {} /\ \A l \in Goroutines : l[2] \in cancelled

(* The Done that brings the counter to zero wakes everybody.               *)
LEMMA NextKeepsWakeups ==
  ASSUME IInv, NoWakeupLost, [Next]_vars PROVE NoWakeupLost'
<1> USE DEF NoWakeupLost
<1>1. wg \in Nat /\ call \in [Controllers -> CallStates]
  BY DEF IInv, TypeOK
<1>2. ASSUME NEW c \in Controllers, Start(c) \/ StopEnter(c) \/ StopStep(c)
      PROVE  NoWakeupLost'
  BY <1>1, <1>2 DEF Start, Launch, StopEnter, StopStep, StopCancel, StopWait, StopResume,
                    StopFinish
<1>3. ASSUME NEW k \in Kinds, NEW g \in Gens, LoopExit(k, g) PROVE NoWakeupLost'
  BY <1>1, <1>3 DEF LoopExit
<1>4. ASSUME NEW k \in Kinds, NEW g \in Gens,
             ParentDone(g) \/ TickBegin(k, g) \/ TickEnd(k, g)
      PROVE  NoWakeupLost'
  BY <1>4 DEF ParentDone, TickBegin, TickEnd
<1>5. CASE UNCHANGED vars
  BY <1>5 DEF vars
<1>6. Kinds # {}
  BY DEF Kinds
<1> QED
  BY <1>2, <1>3, <1>4, <1>5, <1>6 DEF Next, Lifecycle

(* No Stop is parked for nothing, whoever calls Stop and Start when: the   *)
(* wait of runtime.go:135-137 does not outlast the goroutines.             *)
THEOREM WakeupsAreKept == Spec => []NoWakeupLost
<1>1. Init => NoWakeupLost
  BY DEF Init, NoWakeupLost
<1> QED
  BY <1>1, NextKeepsWakeups, InductiveInvariant, PTL DEF Spec

(* While calls of Stop take turns, no step leads out of it.                *)
LEMMA NextKeepsWaits ==
  ASSUME IInv, IInv', StopsTakeTurns, TurnsInv, WaitsForCancelled, [Next]_vars
  PROVE  WaitsForCancelled'
<1> USE DEF WaitsForCancelled
<1>1. /\ wg \in Nat /\ call \in [Controllers -> CallStates] /\ starts \in 0..MaxStarts
      /\ stopping \in [Controllers -> 0..MaxStarts]
      /\ loop \in [Kinds -> [Gens -> LoopStates]]
  BY DEF IInv, TypeOK
<1>2. ASSUME NEW c \in Controllers, Start(c) PROVE WaitsForCancelled'
  <2>1. \A k \in Kinds, g \in Gens : ~Live(k, g)
    <3>1. wg = 0
      BY <1>2 DEF Start, TurnsInv
    <3>2. IsFiniteSet(Goroutines)
      BY FiniteGoroutines DEF Goroutines
    <3>3. Cardinality(Goroutines) = 0
      BY <3>1, Zenon DEF IInv, WaitGroupExact
    <3>4. Goroutines = {}
      BY <3>2, <3>3, FS_EmptySet
    <3> SUFFICES ASSUME NEW k \in Kinds, NEW g \in Gens, Live(k, g) PROVE FALSE
      OBVIOUS
    <3>5. <<k, g>> \in Goroutines
      BY DEF Goroutines
    <3> QED
      BY <3>4, <3>5
  <2>2. \A d \in Controllers : call'[d] = "ready"
    BY <1>2 DEF Start, Launch, TurnsInv
  <2>3. \A k \in Kinds, g \in Gens : g # starts' => loop'[k][g] = loop[k][g]
    BY <1>1, <1>2 DEF Start, Launch
  <2>4. cancel' = starts'
    BY <1>2 DEF Start, Launch
  <2> QED
    BY <2>1, <2>2, <2>3, <2>4 DEF Live
<1>3. ASSUME NEW c \in Controllers, StopEnter(c) PROVE WaitsForCancelled'
  BY <1>1, <1>3 DEF StopEnter, Live
<1>4. ASSUME NEW c \in Controllers, StopCancel(c) PROVE WaitsForCancelled'
  BY <1>1, <1>4 DEF StopCancel, Live
<1>5. ASSUME NEW c \in Controllers, StopWait(c) PROVE WaitsForCancelled'
  BY <1>1, <1>5 DEF StopWait, Live
<1>6. ASSUME NEW c \in Controllers, StopResume(c) \/ StopFinish(c) PROVE WaitsForCancelled'
  BY <1>1, <1>6 DEF StopResume, StopFinish, Live
<1>7. ASSUME NEW k \in Kinds, NEW g \in Gens, LoopExit(k, g) PROVE WaitsForCancelled'
  <2>1. \A j \in Kinds, h \in Gens : Live(j, h)' => Live(j, h)
    BY <1>1, <1>7 DEF LoopExit, Live
  <2>2. UNCHANGED <<running, cancel, cancelled, starts, stopping>>
    BY <1>7 DEF LoopExit
  <2>3. \A d \in Controllers :
          /\ call'[d] # "ready" => call[d] # "ready"
          /\ call'[d] \in {"joining", "blocked"} => call[d] \in {"joining", "blocked"}
    BY <1>7 DEF LoopExit
  <2> QED
    BY <2>1, <2>2, <2>3
<1>8. ASSUME NEW g \in Gens, ParentDone(g) PROVE WaitsForCancelled'
  BY <1>1, <1>8 DEF ParentDone, Live
<1>9. ASSUME NEW k \in Kinds, NEW g \in Gens, TickBegin(k, g) \/ TickEnd(k, g)
      PROVE  WaitsForCancelled'
  <2>1. \A j \in Kinds, h \in Gens : Live(j, h)' => Live(j, h)
    BY <1>1, <1>9 DEF TickBegin, TickEnd, Live
  <2>2. UNCHANGED <<running, cancel, cancelled, starts, call, stopping>>
    BY <1>9 DEF TickBegin, TickEnd
  <2> QED
    BY <2>1, <2>2
<1>10. CASE UNCHANGED vars
  BY <1>10 DEF vars, Live
<1> QED
  BY <1>2, <1>3, <1>4, <1>5, <1>6, <1>7, <1>8, <1>9, <1>10
  DEF Next, Lifecycle, StopStep

(* As long as no two Stops overlap, every goroutine a parked Stop waits    *)
(* for has been told to end (runtime.go:127-137): only a tick that does    *)
(* not return can keep it waiting.  StopUnlessWedged of LiveHeartbeat adds *)
(* what TLC checks, that with a live router each of those does end unless  *)
(* the event loop is wedged under it.                                      *)
THEOREM ParkedStopsCanEnd == Spec /\ []StopsTakeTurns => []ParkedForDone
<1>1. Init => WaitsForCancelled
  BY DEF Init, WaitsForCancelled, Live
<1>2. IInv /\ IInv' /\ StopsTakeTurns /\ TurnsInv /\ WaitsForCancelled /\ [Next]_vars
        => WaitsForCancelled'
  BY NextKeepsWaits
<1>3. IInv /\ NoWakeupLost /\ WaitsForCancelled => ParkedForDone
  <2> SUFFICES ASSUME IInv, NoWakeupLost, WaitsForCancelled,
                      NEW c \in Controllers, call[c] = "blocked"
               PROVE  Goroutines # {} /\ \A l \in Goroutines : l[2] \in cancelled
    BY DEF ParkedForDone
  <2>1. Goroutines # {}
    BY FS_EmptySet DEF IInv, WaitGroupExact, NoWakeupLost
  <2>2. starts \in cancelled
    BY DEF WaitsForCancelled
  <2> QED
    BY <2>1, <2>2 DEF WaitsForCancelled, Goroutines
<1> QED
  BY <1>1, <1>2, <1>3, TurnsKept, WakeupsAreKept, PTL DEF Spec

-----------------------------------------------------------------------------
(* The ticks *)

(* The types of what Heartbeat adds to the lifecycle.                      *)
PipelineTypes ==
  /\ config \in Configs
  /\ snapshot \in Samples \cup {Nothing}
  /\ manager \in Params \cup {InitialParams}
  /\ status \in [metrics : Samples \cup {Nothing},
                 parameters : Params \cup {Nothing},
                 report : {Accepted, Rejected}]
  /\ tick \in [Kinds -> [Gens -> Locals]]

(* Only a goroutine inside a tick has locals in use, and they are those of *)
(* its kind.                                                               *)
InTick == \A k \in Kinds, g \in Gens : tick[k][g].at # "idle" => loop[k][g] = "tick"

(* Whatever is judged, applied or reported was predicted.                  *)
Predicted ==
  \A g \in Gens :
    tick["prediction"][g].at \in {"judge", "judged", "apply", "store", "report"}
      => tick["prediction"][g].params \in Params

(* A success is stored before it is reported, and one that has yet to be   *)
(* reported is about the parameters in force.                              *)
ReportIsTrue ==
  \A g \in Gens :
    LET t == tick["prediction"][g]
    IN  /\ t.report = Accepted => t.at \in {"report", "release"}
        /\ t.at = "report" /\ t.report = Accepted => manager = t.params

(* Metrics that have yet to be published are those in the store.           *)
PublishIsTrue ==
  \A g \in Gens :
    tick["metrics"][g].at = "publish" => tick["metrics"][g].metrics = snapshot

(* The inductive invariant, on top of that of the lifecycle.               *)
PipelineInv ==
  /\ PipelineTypes
  /\ InTick
  /\ Predicted
  /\ ReportIsTrue
  /\ PublishIsTrue
  /\ AcceptedMeansInForce
  /\ VerdictIsFresh
  /\ StatusShowsStore

-----------------------------------------------------------------------------
(* The refinement *)

(* A step of Heartbeat is a step of the lifecycle or leaves it alone.      *)
LEMMA StepImplementsLifecycle == [PipelineNext]_allVars => [Next]_vars
<1> SUFFICES ASSUME [PipelineNext]_allVars PROVE [Next]_vars
  OBVIOUS
<1>1. CASE UNCHANGED allVars
  BY <1>1 DEF allVars
<1>2. CASE Lifecycle
  BY <1>2 DEF Next
<1>3. ASSUME NEW field, Configure(field) PROVE UNCHANGED vars
  BY <1>3 DEF Configure
<1>4. ASSUME NEW k \in Kinds, NEW g \in Gens, Begin(k, g) \/ End(k, g) PROVE Next
  BY <1>4 DEF Begin, End, Next
<1>5. ASSUME NEW g \in Gens, MetricsStep(g) PROVE UNCHANGED vars
  BY <1>5 DEF MetricsStep, Refresh, Publish, Abandon
<1>6. ASSUME NEW g \in Gens, PredictionStep(g) PROVE UNCHANGED vars
  BY <1>6 DEF PredictionStep, Deliberate, ReadConfig, Generate, Round, Predict, Abandon,
              ReadBase, Judge, ApplyLive, Store, Report
<1> QED
  BY <1>1, <1>2, <1>3, <1>4, <1>5, <1>6 DEF PipelineNext

(* Heartbeat implements the lifecycle, fairness apart: every behaviour of  *)
(* the detailed ticks is one of Start, Stop and opaque ticks.              *)
THEOREM HeartbeatImplementsLifecycle == PipelineSpec => ImplementsLifecycle
<1>1. PipelineInit => Init
  BY DEF PipelineInit
<1> QED
  BY <1>1, StepImplementsLifecycle, PTL DEF PipelineSpec, ImplementsLifecycle, Spec

-----------------------------------------------------------------------------
(* Before the first start the pipeline is at rest.                         *)
LEMMA PipelineInitially == PipelineInit => PipelineInv
<1> SUFFICES ASSUME PipelineInit PROVE PipelineInv
  OBVIOUS
<1>1. Idle \in Locals /\ Unconfigured \in Configs
  BY DEF Idle, Locals, Places, Unconfigured, Configs, Accepted, Rejected
<1>2. \A k \in Kinds, g \in Gens : tick[k][g] = Idle
  BY DEF PipelineInit
<1>3. "metrics" \in Kinds /\ "prediction" \in Kinds
  BY DEF Kinds
<1>4. PipelineTypes
  BY <1>1 DEF PipelineInit, PipelineTypes
<1>5. InTick /\ Predicted /\ ReportIsTrue /\ PublishIsTrue
  BY <1>2, <1>3 DEF InTick, Predicted, ReportIsTrue, PublishIsTrue, Idle, Accepted,
                    Rejected
<1>6. AcceptedMeansInForce /\ VerdictIsFresh /\ StatusShowsStore
  BY <1>2, <1>3 DEF PipelineInit, AcceptedMeansInForce, VerdictIsFresh, StatusShowsStore,
                    Idle, Accepted, Rejected
<1> QED
  BY <1>4, <1>5, <1>6 DEF PipelineInv

(* Of each kind there is one tick at most with locals in use.              *)
LEMMA Alone ==
  ASSUME IInv, InTick, NEW k \in Kinds, NEW g \in Gens, NEW h \in Gens,
         tick[k][g].at # "idle", tick[k][h].at # "idle"
  PROVE  g = h
BY DEF IInv, TickExclusion, InTick

(* The steps outside of the ticks.                                         *)
LEMMA LifecycleKeeps ==
  ASSUME IInv, PipelineInv, Lifecycle, UNCHANGED pipeline
  PROVE  PipelineInv'
<1>1. UNCHANGED <<config, snapshot, manager, status, tick>>
  BY DEF pipeline
<1>2. \A k \in Kinds, g \in Gens : loop[k][g] = "tick" => loop'[k][g] = "tick"
  <2>1. ASSUME NEW c \in Controllers, StopEnter(c) \/ StopStep(c) PROVE UNCHANGED loop
    BY <2>1 DEF StopEnter, StopStep, StopCancel, StopWait, StopResume, StopFinish
  <2>2. ASSUME NEW c \in Controllers, Start(c), NEW k \in Kinds, NEW g \in Gens,
               loop[k][g] = "tick"
        PROVE  loop'[k][g] = "tick"
    <3>1. ~(starts < g)
      BY <2>2 DEF IInv, Launched
    <3>2. starts \in Nat /\ g \in Nat
      BY MaxStartsAssumption DEF IInv, TypeOK, Gens
    <3>3. loop'[k] = [loop[k] EXCEPT ![starts + 1] = "select"]
      BY <2>2 DEF Start, Launch
    <3>4. loop[k] \in [Gens -> LoopStates]
      BY DEF IInv, TypeOK
    <3> QED
      BY <2>2, <3>1, <3>2, <3>3, <3>4
  <2>3. ASSUME NEW h \in Gens, ParentDone(h) PROVE UNCHANGED loop
    BY <2>3 DEF ParentDone
  <2>4. ASSUME NEW j \in Kinds, NEW h \in Gens, LoopExit(j, h),
               NEW k \in Kinds, NEW g \in Gens, loop[k][g] = "tick"
        PROVE  loop'[k][g] = "tick"
    BY <2>4 DEF LoopExit, IInv, TypeOK
  <2> QED
    BY <2>1, <2>2, <2>3, <2>4 DEF Lifecycle
<1> QED
  BY <1>1, <1>2 DEF PipelineInv, PipelineTypes, InTick, Predicted, ReportIsTrue,
     PublishIsTrue, AcceptedMeansInForce, VerdictIsFresh, StatusShowsStore

(* A coordinator or evaluator may be attached at any time.                 *)
LEMMA ConfigureKeeps ==
  ASSUME PipelineInv, NEW field \in {"coordinator", "evaluator"}, Configure(field)
  PROVE  PipelineInv'
<1>1. UNCHANGED <<loop, snapshot, manager, status, tick>>
  BY DEF Configure, vars
<1>2. config' \in Configs
  BY DEF Configure, PipelineInv, PipelineTypes, Configs
<1> QED
  BY <1>1, <1>2 DEF PipelineInv, PipelineTypes, InTick, Predicted, ReportIsTrue,
     PublishIsTrue, AcceptedMeansInForce, VerdictIsFresh, StatusShowsStore

(* What moving on does to the locals of a tick.                            *)
LEMMA MovedLocals ==
  ASSUME NEW t \in Locals, NEW place \in Places
  PROVE  /\ [t EXCEPT !.at = place] \in Locals
         /\ [t EXCEPT !.at = place].at = place
         /\ [t EXCEPT !.at = place].metrics = t.metrics
         /\ [t EXCEPT !.at = place].coordinator = t.coordinator
         /\ [t EXCEPT !.at = place].base = t.base
         /\ [t EXCEPT !.at = place].params = t.params
         /\ [t EXCEPT !.at = place].report = t.report
BY DEF Locals

(* A tick begins with nothing read.                                        *)
LEMMA BeginKeeps ==
  ASSUME PipelineInv, IInv, NEW k \in Kinds, NEW g \in Gens, Begin(k, g)
  PROVE  PipelineInv'
<1> DEFINE place == IF k = "metrics" THEN "refresh" ELSE "configure"
<1>1. UNCHANGED <<config, snapshot, manager, status>>
      /\ tick' = [tick EXCEPT ![k][g].at = place]
      /\ loop[k][g] = "select" /\ loop' = [loop EXCEPT ![k][g] = "tick"]
  BY DEF Begin, TickBegin
<1>2. tick \in [Kinds -> [Gens -> Locals]]
  BY DEF PipelineInv, PipelineTypes
<1>3. place \in Places \ {"publish", "judge", "judged", "apply", "store", "report"}
  BY DEF Places
<1> HIDE DEF place
<1> DEFINE new == [tick[k][g] EXCEPT !.at = place]
<1>4. /\ tick' \in [Kinds -> [Gens -> Locals]]
      /\ \A j \in Kinds, h \in Gens :
           tick'[j][h] = IF j = k /\ h = g THEN new ELSE tick[j][h]
      /\ new.at = place /\ new.report = tick[k][g].report
  <2>1. tick[k][g] \in Locals /\ place \in Places
    BY <1>2, <1>3
  <2>2. new \in Locals /\ new.at = place /\ new.report = tick[k][g].report
    BY <2>1, MovedLocals
  <2>3. tick' = [tick EXCEPT ![k][g] = new]
    BY <1>1
  <2> HIDE DEF new
  <2> QED
    BY <1>2, <2>2, <2>3
<1> HIDE DEF new
<1>5. PipelineTypes'
  BY <1>1, <1>4 DEF PipelineInv, PipelineTypes
<1>6. InTick'
  BY <1>1, <1>4 DEF PipelineInv, InTick, IInv, TypeOK
<1>7. Predicted' /\ PublishIsTrue' /\ VerdictIsFresh'
  BY <1>1, <1>3, <1>4 DEF PipelineInv, Predicted, PublishIsTrue, VerdictIsFresh, Kinds
<1>10. ReportIsTrue'
  <2>1. k = "prediction" => new.report # Accepted
    BY <1>1, <1>4 DEF PipelineInv, InTick, ReportIsTrue
  <2> QED
    BY <1>1, <1>3, <1>4, <2>1 DEF PipelineInv, ReportIsTrue, Kinds
<1>8. \A j \in Kinds, h \in Gens :
        tick[j][h].at \in {"report", "publish"} => tick'[j][h].at = tick[j][h].at
  BY <1>1, <1>4 DEF PipelineInv, InTick
<1>9. AcceptedMeansInForce' /\ StatusShowsStore'
  BY <1>1, <1>8 DEF PipelineInv, AcceptedMeansInForce, StatusShowsStore, Kinds
<1> QED
  BY <1>5, <1>6, <1>7, <1>9, <1>10 DEF PipelineInv

(* A tick ends with nothing kept but the status.                           *)
LEMMA EndKeeps ==
  ASSUME PipelineInv, IInv, NEW k \in Kinds, NEW g \in Gens, End(k, g)
  PROVE  PipelineInv'
<1>1. /\ UNCHANGED <<config, snapshot, manager, status>>
      /\ tick' = [tick EXCEPT ![k][g] = Idle]
      /\ loop' = [loop EXCEPT ![k][g] = "select"]
      /\ tick[k][g].at = "release"
  BY DEF End, TickEnd, At
<1>2. Idle \in Locals /\ Idle.at = "idle" /\ Idle.report # Accepted
  BY DEF Idle, Locals, Places, Accepted, Rejected
<1>3. /\ tick' \in [Kinds -> [Gens -> Locals]]
      /\ \A j \in Kinds, h \in Gens :
           tick'[j][h] = IF j = k /\ h = g THEN Idle ELSE tick[j][h]
  BY <1>1, <1>2 DEF PipelineInv, PipelineTypes
<1>4. PipelineTypes'
  BY <1>1, <1>3 DEF PipelineInv, PipelineTypes
<1>5. InTick'
  BY <1>1, <1>2, <1>3 DEF PipelineInv, InTick, IInv, TypeOK
<1>6. Predicted' /\ ReportIsTrue' /\ PublishIsTrue' /\ VerdictIsFresh'
  BY <1>1, <1>2, <1>3 DEF PipelineInv, Predicted, ReportIsTrue, PublishIsTrue,
     VerdictIsFresh, Kinds
<1>7. AcceptedMeansInForce' /\ StatusShowsStore'
  BY <1>1, <1>3 DEF PipelineInv, AcceptedMeansInForce, StatusShowsStore, Kinds
<1> QED
  BY <1>4, <1>5, <1>6, <1>7 DEF PipelineInv

-----------------------------------------------------------------------------
(* A step inside a prediction tick: what it may make of its locals, of the *)
(* manager and of the status.  Nobody else is in such a tick, so that      *)
(* nobody else is concerned.                                               *)
LEMMA PredictionMoves ==
  ASSUME IInv, PipelineInv, NEW g \in Gens, NEW new \in Locals,
         tick["prediction"][g].at # "idle",
         tick' = [tick EXCEPT !["prediction"][g] = new],
         UNCHANGED <<loop, config, snapshot>>,
         manager' \in Params \cup {InitialParams},
         status' \in [metrics : {status.metrics}, parameters : Params \cup {Nothing},
                      report : {Accepted, Rejected}],
         new.at \in {"judge", "judged", "apply", "store", "report"}
           => new.params \in Params,
         new.report = Accepted => new.at \in {"report", "release"},
         new.at = "report" /\ new.report = Accepted => manager' = new.params,
         new.at \in {"judged", "apply", "store"} /\ new.coordinator
           => new.base = manager',
         status'.report = Accepted /\ new.at # "report"
           => manager' = status'.parameters
  PROVE  PipelineInv'
<1>1. "prediction" \in Kinds /\ "metrics" \in Kinds
  BY DEF Kinds
<1>2. /\ tick' \in [Kinds -> [Gens -> Locals]]
      /\ tick'["prediction"][g] = new
      /\ \A j \in Kinds, h \in Gens :
           tick'[j][h] = IF j = "prediction" /\ h = g THEN new ELSE tick[j][h]
  <2>1. tick \in [Kinds -> [Gens -> Locals]]
    BY DEF PipelineInv, PipelineTypes
  <2> QED
    BY <1>1, <2>1
<1>3. \A h \in Gens : tick'["metrics"][h] = tick["metrics"][h]
  BY <1>1, <1>2
<1>4. \A h \in Gens : h # g => tick'["prediction"][h].at = "idle"
  BY <1>1, <1>2, Alone DEF PipelineInv
<1>5. status'.metrics = status.metrics
  OBVIOUS
<1>6. PipelineTypes'
  BY <1>2 DEF PipelineInv, PipelineTypes
<1>7. InTick'
  BY <1>2 DEF PipelineInv, InTick
<1>8. Predicted' /\ VerdictIsFresh'
  BY <1>2, <1>4 DEF Predicted, VerdictIsFresh
<1>11. ReportIsTrue'
  <2>1. \A h \in Gens : h # g => tick'["prediction"][h] = tick["prediction"][h]
    BY <1>1, <1>2
  <2> QED
    BY <1>2, <1>4, <2>1 DEF PipelineInv, ReportIsTrue
<1>9. PublishIsTrue' /\ StatusShowsStore'
  BY <1>3, <1>5 DEF PipelineInv, PublishIsTrue, StatusShowsStore
<1>10. AcceptedMeansInForce'
  BY <1>2 DEF AcceptedMeansInForce
<1> QED
  BY <1>6, <1>7, <1>8, <1>9, <1>10, <1>11 DEF PipelineInv

(* The same for a metrics tick.                                            *)
LEMMA MetricsMoves ==
  ASSUME IInv, PipelineInv, NEW g \in Gens, NEW new \in Locals,
         tick["metrics"][g].at # "idle",
         tick' = [tick EXCEPT !["metrics"][g] = new],
         UNCHANGED <<loop, config, manager>>,
         snapshot' \in Samples \cup {Nothing},
         status' \in [metrics : Samples \cup {Nothing},
                      parameters : {status.parameters}, report : {status.report}],
         new.at = "publish" => new.metrics = snapshot',
         new.at # "publish" => status'.metrics = snapshot'
  PROVE  PipelineInv'
<1>1. "prediction" \in Kinds /\ "metrics" \in Kinds
  BY DEF Kinds
<1>2. /\ tick' \in [Kinds -> [Gens -> Locals]]
      /\ tick'["metrics"][g] = new
      /\ \A j \in Kinds, h \in Gens :
           tick'[j][h] = IF j = "metrics" /\ h = g THEN new ELSE tick[j][h]
  <2>1. tick \in [Kinds -> [Gens -> Locals]]
    BY DEF PipelineInv, PipelineTypes
  <2> QED
    BY <1>1, <2>1
<1>3. \A h \in Gens : tick'["prediction"][h] = tick["prediction"][h]
  BY <1>1, <1>2
<1>4. \A h \in Gens : h # g => tick'["metrics"][h].at = "idle"
  BY <1>1, <1>2, Alone DEF PipelineInv
<1>5. status'.parameters = status.parameters /\ status'.report = status.report
  OBVIOUS
<1>6. PipelineTypes'
  <2>1. status.parameters \in Params \cup {Nothing} /\ status.report \in {Accepted, Rejected}
    BY DEF PipelineInv, PipelineTypes
  <2>2. status' \in [metrics : Samples \cup {Nothing},
                     parameters : Params \cup {Nothing}, report : {Accepted, Rejected}]
    BY <2>1
  <2> QED
    BY <1>2, <2>2 DEF PipelineInv, PipelineTypes
<1>7. InTick'
  BY <1>2 DEF PipelineInv, InTick
<1>8. Predicted' /\ ReportIsTrue' /\ VerdictIsFresh' /\ AcceptedMeansInForce'
  BY <1>3, <1>5 DEF PipelineInv, Predicted, ReportIsTrue, VerdictIsFresh,
     AcceptedMeansInForce
<1>9. PublishIsTrue'
  BY <1>2, <1>4 DEF PublishIsTrue
<1>10. StatusShowsStore'
  BY <1>2 DEF StatusShowsStore
<1> QED
  BY <1>6, <1>7, <1>8, <1>9, <1>10 DEF PipelineInv

(* The record of a status with some fields replaced.                       *)
LEMMA StatusFields ==
  ASSUME PipelineTypes
  PROVE  /\ status \in [metrics : {status.metrics}, parameters : Params \cup {Nothing},
                        report : {Accepted, Rejected}]
         /\ status \in [metrics : Samples \cup {Nothing},
                        parameters : {status.parameters}, report : {status.report}]
         /\ status.metrics \in Samples \cup {Nothing}
BY DEF PipelineTypes

(* What a tick holds is typed.                                             *)
LEMMA LocalsOf ==
  ASSUME PipelineTypes, NEW k \in Kinds, NEW g \in Gens
  PROVE  tick[k][g] \in Locals
BY DEF PipelineTypes

(* The steps of a metrics tick keep the invariant.                         *)
LEMMA MetricsKeeps ==
  ASSUME IInv, PipelineInv, NEW g \in Gens, MetricsStep(g)
  PROVE  PipelineInv'
<1> DEFINE t == tick["metrics"][g]
<1>1. /\ "metrics" \in Kinds /\ t \in Locals /\ PipelineTypes
      /\ {"publish", "release"} \subseteq Places
  <2>1. "metrics" \in Kinds
    BY DEF Kinds
  <2> QED
    BY <2>1, LocalsOf DEF PipelineInv, Places
<1>2. CASE Refresh(g)
  <2>1. PICK m \in Samples :
          /\ snapshot' = m
          /\ tick' = [tick EXCEPT !["metrics"][g].metrics = m,
                                  !["metrics"][g].at = "publish"]
    BY <1>2 DEF Refresh
  <2> DEFINE new == [t EXCEPT !.metrics = m, !.at = "publish"]
  <2>2. new \in Locals /\ new.at = "publish" /\ new.metrics = m
    BY <1>1 DEF Locals
  <2>3. tick' = [tick EXCEPT !["metrics"][g] = new]
    BY <1>1, <2>1 DEF PipelineTypes
  <2>4. t.at # "idle" /\ UNCHANGED <<loop, config, manager, status>>
    BY <1>2 DEF Refresh, At, vars
  <2> HIDE DEF new
  <2> QED
    BY <1>1, <2>1, <2>2, <2>3, <2>4, StatusFields, MetricsMoves
<1>3. CASE Publish(g)
  <2> DEFINE new == [t EXCEPT !.at = "release"]
  <2>1. new \in Locals /\ new.at = "release"
    BY <1>1, MovedLocals
  <2>2. tick' = [tick EXCEPT !["metrics"][g] = new] /\ t.at = "publish"
    BY <1>3 DEF Publish, GoTo, At
  <2>3. t.metrics = snapshot
    BY <2>2 DEF PipelineInv, PublishIsTrue
  <2>4. snapshot \in Samples \cup {Nothing}
    BY <1>1 DEF PipelineTypes
  <2>5. /\ status' = [status EXCEPT !.metrics = t.metrics]
        /\ UNCHANGED <<loop, config, manager, snapshot>>
    BY <1>3 DEF Publish, vars
  <2>6. /\ status' \in [metrics : Samples \cup {Nothing},
                        parameters : {status.parameters}, report : {status.report}]
        /\ status'.metrics = snapshot
    BY <1>1, <2>3, <2>4, <2>5 DEF PipelineTypes
  <2> HIDE DEF new
  <2> QED
    BY <2>1, <2>2, <2>4, <2>5, <2>6, MetricsMoves
<1>4. CASE Abandon("metrics", g, "refresh")
  <2> DEFINE new == [t EXCEPT !.at = "release"]
  <2>1. new \in Locals /\ new.at = "release"
    BY <1>1, MovedLocals
  <2>2. tick' = [tick EXCEPT !["metrics"][g] = new] /\ t.at = "refresh"
    BY <1>4 DEF Abandon, GoTo, At
  <2>3. UNCHANGED <<loop, config, manager, snapshot, status>>
    BY <1>4 DEF Abandon, vars
  <2>4. snapshot \in Samples \cup {Nothing}
    BY <1>1 DEF PipelineTypes
  <2>5. status.metrics = snapshot
    <3>1. ASSUME NEW h \in Gens, tick["metrics"][h].at = "publish" PROVE FALSE
      <4>1. h = g
        BY <1>1, <2>2, <3>1, Alone DEF PipelineInv
      <4> QED
        BY <2>2, <3>1, <4>1
    <3> QED
      BY <3>1 DEF PipelineInv, StatusShowsStore
  <2> HIDE DEF new
  <2> QED
    BY <1>1, <2>1, <2>2, <2>3, <2>4, <2>5, StatusFields, MetricsMoves
<1> QED
  BY <1>2, <1>3, <1>4 DEF MetricsStep

(* The steps of a prediction tick keep the invariant.                      *)
LEMMA PredictionKeeps ==
  ASSUME IInv, PipelineInv, NEW g \in Gens, PredictionStep(g)
  PROVE  PipelineInv'
<1> DEFINE t == tick["prediction"][g]
<1>1. "prediction" \in Kinds /\ t \in Locals /\ PipelineTypes
  <2>1. "prediction" \in Kinds
    BY DEF Kinds
  <2> QED
    BY <2>1, LocalsOf DEF PipelineInv
<1>2. manager \in Params \cup {InitialParams}
  BY <1>1 DEF PipelineTypes
<1>3. ASSUME t.at # "report"
      PROVE  status.report = Accepted => manager = status.parameters
  <2>1. ASSUME t.at # "idle", NEW h \in Gens, tick["prediction"][h].at = "report"
        PROVE  FALSE
    <3>1. h = g
      BY <1>1, <2>1, Alone DEF PipelineInv
    <3> QED
      BY <1>3, <2>1, <3>1
  <2>2. PredictionStep(g) => t.at # "idle"
    BY DEF PredictionStep, Deliberate, ReadConfig, Generate, Round, Predict, Abandon, ReadBase,
           Judge, ApplyLive, Store, Report, At
  <2> QED
    BY <2>1, <2>2 DEF PipelineInv, AcceptedMeansInForce
(* A step that only moves on, to a place that promises nothing new.        *)
<1>4. ASSUME NEW place \in Places \ {"idle"}, GoTo("prediction", g, place),
             t.at \notin {"idle", "report", "release"},
             UNCHANGED <<loop, config, snapshot, manager, status>>,
             place \in {"judge", "judged", "apply", "store", "report"}
               => t.at \in {"judge", "judged", "apply", "store"},
             place \in {"judged", "apply", "store"} => t.at \in {"judged", "apply"}
      PROVE  PipelineInv'
  <2> DEFINE new == [t EXCEPT !.at = place]
  <2>1. /\ new \in Locals /\ new.at = place /\ new.params = t.params
        /\ new.report = t.report /\ new.base = t.base /\ new.coordinator = t.coordinator
    BY <1>1, MovedLocals
  <2>2. tick' = [tick EXCEPT !["prediction"][g] = new]
    BY <1>4 DEF GoTo
  <2>3. new.at \in {"judge", "judged", "apply", "store", "report"} => new.params \in Params
    BY <1>4, <2>1 DEF PipelineInv, Predicted
  <2>4. new.at \in {"judged", "apply", "store"} /\ new.coordinator => new.base = manager'
    BY <1>4, <2>1 DEF PipelineInv, VerdictIsFresh
  <2>5. new.report # Accepted
    <3>1. t.report = Accepted => t.at \in {"report", "release"}
      BY DEF PipelineInv, ReportIsTrue
    <3> QED
      BY <1>4, <2>1, <3>1
  <2> HIDE DEF new
  <2> QED
    BY <1>1, <1>2, <1>3, <1>4, <2>1, <2>2, <2>3, <2>4, <2>5, StatusFields,
       PredictionMoves
(* A step that writes other locals too.                                    *)
<1>5. ASSUME NEW new \in Locals,
             tick' = [tick EXCEPT !["prediction"][g] = new],
             t.at \notin {"idle", "report", "release"}, new.at # "report",
             new.report = t.report,
             UNCHANGED <<loop, config, snapshot, manager, status>>,
             new.at \in {"judge", "judged", "apply", "store", "report"}
               => new.params \in Params,
             new.at \in {"judged", "apply", "store"} /\ new.coordinator
               => new.base = manager
      PROVE  PipelineInv'
  <2>1. t.report # Accepted
    BY <1>5 DEF PipelineInv, ReportIsTrue
  <2> QED
    BY <1>1, <1>2, <1>3, <1>5, <2>1, StatusFields, PredictionMoves
<1>6. CASE ReadConfig(g)
  <2> DEFINE place == IF ~config.coordinator THEN "predict"
                      ELSE IF config.evaluator THEN "train" ELSE "unevaluated"
             new == [t EXCEPT !.coordinator = config.coordinator, !.at = place]
  <2>1. place \in Places /\ config.coordinator \in BOOLEAN
        /\ place \in {"predict", "train", "unevaluated"}
    BY <1>1 DEF Places, PipelineTypes, Configs
  <2>2. tick' = [tick EXCEPT !["prediction"][g].coordinator = config.coordinator,
                             !["prediction"][g].at = place]
        /\ t.at = "configure" /\ UNCHANGED <<loop, config, snapshot, manager, status>>
    BY <1>6 DEF ReadConfig, At, vars
  <2> HIDE DEF place
  <2>3. new \in Locals /\ new.at = place /\ new.report = t.report
    BY <1>1, <2>1 DEF Locals
  <2>4. tick' = [tick EXCEPT !["prediction"][g] = new]
    BY <1>1, <2>2 DEF PipelineTypes
  <2> HIDE DEF new
  <2> QED
    BY <1>5, <2>1, <2>2, <2>3, <2>4
<1>7. CASE Generate(g)
  <2>1. GoTo("prediction", g, "round") /\ t.at = "train"
        /\ UNCHANGED <<loop, config, snapshot, manager, status>>
    BY <1>7 DEF Generate, At, vars
  <2> QED
    BY <1>4, <2>1 DEF Places
<1>8. CASE Round(g)
  <2>1. GoTo("prediction", g, "predict") /\ t.at = "round"
        /\ UNCHANGED <<loop, config, snapshot, manager, status>>
    BY <1>8 DEF Round, At, vars
  <2> QED
    BY <1>4, <2>1 DEF Places
<1>9. CASE Predict(g)
  <2> DEFINE place == IF t.coordinator THEN "judge" ELSE "apply"
  <2>1. PICK p \in Params :
          tick' = [tick EXCEPT !["prediction"][g].params = p,
                               !["prediction"][g].at = place]
    BY <1>9 DEF Predict
  <2> DEFINE new == [t EXCEPT !.params = p, !.at = place]
  <2>2. place \in Places /\ (t.coordinator => place = "judge") /\ place \in {"judge", "apply"}
    BY DEF Places
  <2>3. t.at = "predict" /\ UNCHANGED <<loop, config, snapshot, manager, status>>
    BY <1>9 DEF Predict, At, vars
  <2> HIDE DEF place
  <2>4. new \in Locals /\ new.at = place /\ new.report = t.report /\ new.params = p
        /\ new.coordinator = t.coordinator
    BY <1>1, <2>2 DEF Locals
  <2>5. tick' = [tick EXCEPT !["prediction"][g] = new]
    BY <1>1, <2>1 DEF PipelineTypes
  <2> HIDE DEF new
  <2> QED
    BY <1>5, <2>2, <2>3, <2>4, <2>5
<1>10. CASE ReadBase(g)
  <2> DEFINE new == [t EXCEPT !.base = manager, !.at = "judged"]
  <2>1. /\ tick' = [tick EXCEPT !["prediction"][g].base = manager,
                                !["prediction"][g].at = "judged"]
        /\ t.at = "judge" /\ UNCHANGED <<loop, config, snapshot, manager, status>>
    BY <1>10 DEF ReadBase, At, vars
  <2>2. t.params \in Params /\ "judged" \in Places
    BY <2>1 DEF PipelineInv, Predicted, Places
  <2>3. new \in Locals /\ new.at = "judged" /\ new.report = t.report
        /\ new.params = t.params /\ new.base = manager
    BY <1>1, <1>2, <2>2 DEF Locals
  <2>4. tick' = [tick EXCEPT !["prediction"][g] = new]
    BY <1>1, <2>1 DEF PipelineTypes
  <2> HIDE DEF new
  <2> QED
    BY <1>5, <2>1, <2>2, <2>3, <2>4
<1>11. CASE Judge(g)
  <2>1. PICK place \in {"apply", "report"} : GoTo("prediction", g, place)
    BY <1>11 DEF Judge
  <2>2. t.at = "judged" /\ UNCHANGED <<loop, config, snapshot, manager, status>>
    BY <1>11 DEF Judge, At, vars
  <2> QED
    BY <1>4, <2>1, <2>2 DEF Places
<1>12. CASE ApplyLive(g)
  <2>1. PICK place \in {"store", "report"} : GoTo("prediction", g, place)
    BY <1>12 DEF ApplyLive
  <2>2. t.at = "apply" /\ UNCHANGED <<loop, config, snapshot, manager, status>>
    BY <1>12 DEF ApplyLive, At, vars
  <2> QED
    BY <1>4, <2>1, <2>2 DEF Places
<1>13. ASSUME NEW place \in {"unevaluated", "train", "round"},
              Abandon("prediction", g, place)
       PROVE  PipelineInv'
  <2>1. GoTo("prediction", g, "release") /\ t.at = place
        /\ UNCHANGED <<loop, config, snapshot, manager, status>>
    BY <1>13 DEF Abandon, At, vars
  <2> QED
    BY <1>4, <2>1 DEF Places
<1>14. CASE Store(g)
  <2> DEFINE new == [t EXCEPT !.report = Accepted, !.at = "report"]
  <2>1. /\ tick' = [tick EXCEPT !["prediction"][g].report = Accepted,
                                !["prediction"][g].at = "report"]
        /\ t.at = "store" /\ manager' = t.params
        /\ UNCHANGED <<loop, config, snapshot, status>>
    BY <1>14 DEF Store, At, vars
  <2>2. t.params \in Params /\ "report" \in Places
    BY <2>1 DEF PipelineInv, Predicted, Places
  <2>3. new \in Locals /\ new.at = "report" /\ new.params = t.params
    BY <1>1, <2>2 DEF Locals
  <2>4. tick' = [tick EXCEPT !["prediction"][g] = new]
    BY <1>1, <2>1 DEF PipelineTypes
  <2> HIDE DEF new
  <2> QED
    BY <1>1, <2>1, <2>2, <2>3, <2>4, StatusFields, PredictionMoves
<1>15. CASE Report(g)
  <2> DEFINE new == [t EXCEPT !.at = "release"]
  <2>1. /\ tick' = [tick EXCEPT !["prediction"][g] = new]
        /\ t.at = "report"
        /\ status' = [status EXCEPT !.parameters = t.params, !.report = t.report]
        /\ UNCHANGED <<loop, config, snapshot, manager>>
    BY <1>15 DEF Report, GoTo, At, vars
  <2>2. "release" \in Places
    BY DEF Places
  <2>3. new \in Locals /\ new.at = "release"
    BY <1>1, <2>2, MovedLocals
  <2>4. t.params \in Params \cup {Nothing} /\ t.report \in {Accepted, Rejected}
    BY <1>1 DEF Locals
  <2>5. /\ status' \in [metrics : {status.metrics}, parameters : Params \cup {Nothing},
                        report : {Accepted, Rejected}]
        /\ status'.report = t.report /\ status'.parameters = t.params
    BY <1>1, <2>1, <2>4 DEF PipelineTypes
  <2>6. t.report = Accepted => manager = t.params
    BY <2>1 DEF PipelineInv, ReportIsTrue
  <2> HIDE DEF new
  <2> QED
    BY <1>2, <2>1, <2>3, <2>5, <2>6, PredictionMoves
<1> QED
  BY <1>6, <1>7, <1>8, <1>9, <1>10, <1>11, <1>12, <1>13, <1>14, <1>15
  DEF PredictionStep, Deliberate

-----------------------------------------------------------------------------
(* A step of nothing keeps the invariant.                                  *)
LEMMA PipelineStutterKeeps ==
  ASSUME PipelineInv, UNCHANGED allVars
  PROVE  PipelineInv'
BY DEF allVars, vars, pipeline, PipelineInv, PipelineTypes, InTick, Predicted,
   ReportIsTrue, PublishIsTrue, AcceptedMeansInForce, VerdictIsFresh, StatusShowsStore

(* Every step keeps the invariant.                                         *)
LEMMA PipelineStepKeeps == IInv /\ PipelineInv /\ [PipelineNext]_allVars => PipelineInv'
<1> SUFFICES ASSUME IInv, PipelineInv, [PipelineNext]_allVars PROVE PipelineInv'
  OBVIOUS
<1> QED
  BY LifecycleKeeps, ConfigureKeeps, BeginKeeps, EndKeeps, MetricsKeeps,
     PredictionKeeps, PipelineStutterKeeps DEF PipelineNext

(* The invariant holds in every reachable state, together with that of the *)
(* lifecycle the ticks implement.                                          *)
THEOREM PipelineInvariant == PipelineSpec => [](IInv /\ PipelineInv)
BY HeartbeatImplementsLifecycle, InductiveInvariant, PipelineInitially,
   PipelineStepKeeps, PTL DEF ImplementsLifecycle, PipelineSpec

(* Every reachable state of the Runtime with its ticks is well typed.      *)
THEOREM PipelineTypeCorrect == PipelineSpec => []PipelineTypeOK
<1>1. IInv /\ PipelineInv => PipelineTypeOK
  BY DEF IInv, PipelineInv, PipelineTypes, PipelineTypeOK
<1> QED
  BY <1>1, PipelineInvariant, PTL

(* Ticks of one kind exclude each other in the detailed heartbeat, too     *)
(* (runtime.go:52-56).                                                     *)
THEOREM PipelineTicksExclude == PipelineSpec => []TickExclusion
BY HeartbeatImplementsLifecycle, TicksExclude, PTL DEF ImplementsLifecycle

(* A Stop that returns has joined its generation, whatever its ticks were  *)
(* doing (runtime.go:135-137).                                             *)
THEOREM PipelineStopsJoin == PipelineSpec => StopJoins
BY HeartbeatImplementsLifecycle, StopsJoin DEF ImplementsLifecycle

(* Nor does what its ticks were doing keep a Runtime whose controllers     *)
(* take turns from a leak-free shutdown (runtime.go:135-137).              *)
THEOREM PipelineShutsDown ==
  PipelineSpec /\ []StopsTakeTurns => [](StoppedMeansQuiet /\ NoPanic /\ ParkedForDone)
BY HeartbeatImplementsLifecycle, TurnsMeanQuiet, TurnsMeanNoPanic, ParkedStopsCanEnd,
   PTL DEF ImplementsLifecycle

(* What is reported as accepted is in force, for any number of controllers *)
(* and restarts and whatever fails (runtime.go:322-331).                   *)
THEOREM AcceptedAreInForce == PipelineSpec => []AcceptedMeansInForce
<1>1. IInv /\ PipelineInv => AcceptedMeansInForce
  BY DEF PipelineInv
<1> QED
  BY <1>1, PipelineInvariant, PTL

(* A deployment is decided against the parameters it replaces              *)
(* (runtime.go:313-322).                                                   *)
THEOREM VerdictsAreFresh == PipelineSpec => []VerdictIsFresh
<1>1. IInv /\ PipelineInv => VerdictIsFresh
  BY DEF PipelineInv
<1> QED
  BY <1>1, PipelineInvariant, PTL

(* The reported metrics are the stored ones, also after a failed refresh   *)
(* (runtime.go:236-245).                                                   *)
THEOREM StatusAlwaysShowsStore == PipelineSpec => []StatusShowsStore
<1>1. IInv /\ PipelineInv => StatusShowsStore
  BY DEF PipelineInv
<1> QED
  BY <1>1, PipelineInvariant, PTL

-----------------------------------------------------------------------------
(* How far a tick is from its end *)

(* How many steps a tick has before it at most, from the place where it is *)
Ahead(place) ==
  IF place = "configure" THEN 10
  ELSE IF place \in {"unevaluated", "train"} THEN 9
  ELSE IF place = "round" THEN 8
  ELSE IF place = "predict" THEN 7
  ELSE IF place = "judge" THEN 6
  ELSE IF place = "judged" THEN 5
  ELSE IF place = "apply" THEN 4
  ELSE IF place \in {"store", "refresh"} THEN 3
  ELSE IF place \in {"report", "publish"} THEN 2
  ELSE IF place = "release" THEN 1 ELSE 0

TickStep(k, g) ==
  End(k, g) \/ (IF k = "metrics" THEN MetricsStep(g) ELSE PredictionStep(g))

OthersRest(k, g) ==
  \A j \in Kinds, h \in Gens : <<j, h>> # <<k, g>> => tick'[j][h] = tick[j][h]

(* A step of a tick moves that tick, towards its end, and no other.        *)
LEMMA TickStepMoves ==
  ASSUME PipelineTypes, NEW k \in Kinds, NEW g \in Gens, TickStep(k, g)
  PROVE  Ahead(tick'[k][g].at) < Ahead(tick[k][g].at) /\ OthersRest(k, g)
<1>1. /\ tick \in [Kinds -> [Gens -> Locals]] /\ Kinds = {"metrics", "prediction"}
  BY DEF PipelineTypes, Kinds
<1>2. tick[k][g] \in Locals /\ Idle.at = "idle"
  BY <1>1 DEF Idle
<1>3. ASSUME NEW place \in Places, GoTo(k, g, place)
      PROVE  tick'[k][g].at = place /\ OthersRest(k, g)
  BY <1>1, <1>2, <1>3 DEF GoTo, OthersRest, Locals
<1>4. CASE End(k, g)
  <2>1. tick[k][g].at = "release" /\ tick'[k][g] = Idle /\ OthersRest(k, g)
    BY <1>1, <1>4 DEF End, At, OthersRest
  <2> QED
    BY <1>2, <2>1 DEF Ahead
<1>5. CASE k = "metrics" /\ MetricsStep(g)
  <2>1. CASE Refresh(g)
    <3>1. /\ tick[k][g].at = "refresh" /\ tick'[k][g].at = "publish" /\ OthersRest(k, g)
      BY <1>1, <1>2, <1>5, <2>1 DEF Refresh, At, OthersRest, Locals
    <3> QED
      BY <3>1 DEF Ahead
  <2>2. CASE Publish(g) \/ Abandon("metrics", g, "refresh")
    <3>1. tick[k][g].at \in {"publish", "refresh"} /\ GoTo(k, g, "release")
      BY <1>5, <2>2 DEF Publish, Abandon, At
    <3>2. tick'[k][g].at = "release" /\ OthersRest(k, g)
      BY <1>3, <3>1 DEF Places
    <3> QED
      BY <3>1, <3>2 DEF Ahead
  <2> QED
    BY <1>5, <2>1, <2>2 DEF MetricsStep
<1>6. CASE k = "prediction" /\ PredictionStep(g)
  <2>1. CASE ReadConfig(g)
    <3>1. /\ tick[k][g].at = "configure" /\ OthersRest(k, g)
          /\ tick'[k][g].at \in {"predict", "train", "unevaluated"}
      BY <1>1, <1>2, <1>6, <2>1 DEF ReadConfig, At, OthersRest, Locals
    <3> QED
      BY <3>1 DEF Ahead
  <2>2. CASE Predict(g)
    <3>1. /\ tick[k][g].at = "predict" /\ OthersRest(k, g)
          /\ tick'[k][g].at \in {"judge", "apply"}
      BY <1>1, <1>2, <1>6, <2>2 DEF Predict, At, OthersRest, Locals
    <3> QED
      BY <3>1 DEF Ahead
  <2>3. CASE ReadBase(g)
    <3>1. tick[k][g].at = "judge" /\ OthersRest(k, g) /\ tick'[k][g].at = "judged"
      BY <1>1, <1>2, <1>6, <2>3 DEF ReadBase, At, OthersRest, Locals
    <3> QED
      BY <3>1 DEF Ahead
  <2>4. CASE Store(g)
    <3>1. tick[k][g].at = "store" /\ OthersRest(k, g) /\ tick'[k][g].at = "report"
      BY <1>1, <1>2, <1>6, <2>4 DEF Store, At, OthersRest, Locals
    <3> QED
      BY <3>1 DEF Ahead
  <2>5. CASE \/ Generate(g) \/ Round(g) \/ Judge(g) \/ ApplyLive(g) \/ Report(g)
             \/ \E place \in {"unevaluated", "train", "round"} :
                  Abandon("prediction", g, place)
    <3>1. PICK place \in Places :
            GoTo(k, g, place) /\ Ahead(place) < Ahead(tick[k][g].at)
      <4>1. CASE Generate(g)
        BY <1>6, <4>1 DEF Generate, At, Places, Ahead
      <4>2. CASE Round(g)
        BY <1>6, <4>2 DEF Round, At, Places, Ahead
      <4>3. CASE Judge(g)
        BY <1>6, <4>3 DEF Judge, At, Places, Ahead
      <4>4. CASE ApplyLive(g)
        BY <1>6, <4>4 DEF ApplyLive, At, Places, Ahead
      <4>5. CASE Report(g)
        BY <1>6, <4>5 DEF Report, At, Places, Ahead
      <4>6. CASE \E place \in {"unevaluated", "train", "round"} :
                   Abandon("prediction", g, place)
        BY <1>6, <4>6 DEF Abandon, At, Places, Ahead
      <4> QED
        BY <2>5, <4>1, <4>2, <4>3, <4>4, <4>5, <4>6
    <3> QED
      BY <1>3, <3>1
  <2> QED
    BY <1>6, <2>1, <2>2, <2>3, <2>4, <2>5 DEF PredictionStep, Deliberate
<1> QED
  BY <1>1, <1>4, <1>5, <1>6 DEF TickStep

(* Whatever happens, a tick that has begun only moves by its own steps,    *)
(* and each of them brings it nearer to its end.                           *)
TicksAdvance ==
  \A k \in Kinds, g \in Gens :
    /\ TickStep(k, g) => Ahead(tick'[k][g].at) < Ahead(tick[k][g].at)
    /\ tick[k][g].at # "idle" /\ ~TickStep(k, g) => tick'[k][g] = tick[k][g]

(* A tick can take at most ten steps, whatever fails, and nothing that the *)
(* other goroutines do sets it back (runtime.go:220-342): one that does    *)
(* not end is waiting in one of its calls for ever.                        *)
THEOREM TicksAlwaysAdvance == PipelineSpec => [][TicksAdvance]_allVars
<1>1. IInv /\ PipelineInv /\ [PipelineNext]_allVars => [TicksAdvance]_allVars
  <2> SUFFICES ASSUME IInv, PipelineInv, PipelineNext, NEW k \in Kinds, NEW g \in Gens
               PROVE  /\ TickStep(k, g) => Ahead(tick'[k][g].at) < Ahead(tick[k][g].at)
                      /\ tick[k][g].at # "idle" /\ ~TickStep(k, g) =>
                           tick'[k][g] = tick[k][g]
    BY DEF TicksAdvance
  <2>1. PipelineTypes /\ InTick
    BY DEF PipelineInv
  <2>2. TickStep(k, g) => Ahead(tick'[k][g].at) < Ahead(tick[k][g].at)
    BY <2>1, TickStepMoves
  <2>3. ASSUME tick[k][g].at # "idle", ~TickStep(k, g) PROVE tick'[k][g] = tick[k][g]
    <3>1. CASE \E j \in Kinds, h \in Gens : TickStep(j, h)
      <4>1. PICK j \in Kinds, h \in Gens : TickStep(j, h)
        BY <3>1
      <4>2. <<j, h>> # <<k, g>>
        BY <2>3, <4>1
      <4> QED
        BY <2>1, <4>1, <4>2, TickStepMoves DEF OthersRest
    <3>2. CASE \E j \in Kinds, h \in Gens : Begin(j, h)
      <4>1. PICK j \in Kinds, h \in Gens : Begin(j, h)
        BY <3>2
      <4>2. loop[j][h] = "select" /\ loop[k][g] = "tick"
        BY <2>1, <2>3, <4>1 DEF Begin, TickBegin, InTick
      <4>3. j # k \/ h # g
        BY <4>2
      <4> QED
        BY <2>1, <4>1, <4>3 DEF Begin, PipelineTypes
    <3>3. CASE (Lifecycle /\ UNCHANGED pipeline)
               \/ \E field \in {"coordinator", "evaluator"} : Configure(field)
      BY <3>3 DEF pipeline, Configure
    <3>4. \A h \in Gens : /\ MetricsStep(h) => TickStep("metrics", h)
                          /\ PredictionStep(h) => TickStep("prediction", h)
      BY DEF TickStep
    <3>5. "metrics" \in Kinds /\ "prediction" \in Kinds
      BY DEF Kinds
    <3>6. \A j \in Kinds, h \in Gens : End(j, h) => TickStep(j, h)
      BY DEF TickStep
    <3> QED
      BY <3>1, <3>2, <3>3, <3>4, <3>5, <3>6 DEF PipelineNext
  <2> QED
    BY <2>2, <2>3
<1> QED
  BY <1>1, PipelineInvariant, PTL DEF PipelineSpec
-----------------------------------------------------------------------------
(* A Runtime on a live router *)

R == INSTANCE LiveApplyProofs WITH Appliers <- Gens, Initial <- InitialParams

(* A call of the router belongs to a tick that is about to store the same  *)
(* set.                                                                    *)
CallsAreTicks ==
  \A g \in Gens :
    apply[g].at # "idle" =>
      /\ tick["prediction"][g].at \in {"apply", "store"}
      /\ apply[g].params = tick["prediction"][g].params

(* A tick only stores what the router has answered for.                    *)
StoreIsAnswered ==
  \A g \in Gens : tick["prediction"][g].at = "store" => apply[g].at = "answered"

Taken(g) == apply[g].at \in {"awaiting", "answered"}   \* the router has taken the set

(* As long as the PubSub lasts, the router runs with what the manager has  *)
(* stored or is about to store, or neither has been given anything yet.    *)
LiveAgrees ==
  ~closed =>
    /\ (\A g \in Gens : ~Taken(g)) =>
         manager = router \/ (manager = InitialParams /\ router = Defaults)
    /\ \A g \in Gens : Taken(g) => router = apply[g].params

(* After the first set that the router takes, it has left its defaults.    *)
LeftDefaults ==
  \/ status.report = Accepted
  \/ \E g \in Gens : tick["prediction"][g].report = Accepted \/ Taken(g)
  => router # Defaults

(* The inductive invariant of the composition, on top of those of its      *)
(* parts.                                                                  *)
LiveInv == CallsAreTicks /\ StoreIsAnswered /\ LiveAgrees /\ LeftDefaults

Parts == IInv /\ PipelineInv /\ R!IInv

-----------------------------------------------------------------------------
(* A step of the composition is a step of Heartbeat or leaves it alone:    *)
(* the live calls are what ApplyLive, Store and Refresh leave open.        *)
LEMMA LiveStepOfPipeline == [LiveNext]_liveVars => [PipelineNext]_allVars
<1> SUFFICES ASSUME [LiveNext]_liveVars PROVE [PipelineNext]_allVars
  OBVIOUS
<1>1. CASE UNCHANGED liveVars
  BY <1>1 DEF liveVars
<1>2. CASE RuntimeStep
  BY <1>2, LiveAssumption DEF RuntimeStep, PipelineNext, MetricsStep, PredictionStep
<1>3. CASE Alongside(RouterStep)
  BY <1>3 DEF Alongside
<1>4. ASSUME NEW g \in Gens, LiveCall(g) PROVE [PipelineNext]_allVars
  <2>1. CASE RefreshLive(g) \/ RefreshFails(g)
    BY <1>4, <2>1 DEF RefreshLive, RefreshFails, PipelineNext, MetricsStep
  <2>2. CASE CallLive(g) \/ UpdateLive(g)
    BY <2>2 DEF CallLive, UpdateLive, Router!Call, Router!Update, allButManager,
                allVars, pipeline
  <2>3. CASE ReadLive(g)
    <3>1. manager' = manager /\ UNCHANGED allButManager
      BY <2>3 DEF ReadLive, Router!Read
    <3>2. CASE UNCHANGED tick
      BY <3>1, <3>2 DEF allButManager, allVars, pipeline
    <3>3. CASE GoTo("prediction", g, "report")
      BY <2>3, <3>1, <3>3 DEF ReadLive, Applying, ApplyLive, allButManager,
                              PipelineNext, PredictionStep
    <3> QED
      BY <2>3, <3>2, <3>3 DEF ReadLive
  <2>4. CASE ReturnLive(g)
    BY <2>4 DEF ReturnLive, Applying, ApplyLive, allButManager, PipelineNext,
                PredictionStep
  <2>5. CASE StoreLive(g)
    BY <2>5 DEF StoreLive, PipelineNext, PredictionStep
  <2>6. CASE GiveUpLive(g)
    BY <2>6 DEF GiveUpLive, Applying, ApplyLive, allButManager, Router!GiveUp,
                PipelineNext, PredictionStep
  <2> QED
    BY <1>4, <2>1, <2>2, <2>3, <2>4, <2>5, <2>6 DEF LiveCall
<1> QED
  BY <1>1, <1>2, <1>3, <1>4 DEF LiveNext

(* With a live router the ticks are still those of Heartbeat, so that      *)
(* everything proved of those holds here.                                  *)
THEOREM LiveImplementsHeartbeat == LiveSpec => PipelineSpec
<1>1. LiveInit => PipelineInit
  BY DEF LiveInit
<1> QED
  BY <1>1, LiveStepOfPipeline, PTL DEF LiveSpec, PipelineSpec

(* What the Runtime does by itself leaves the router, its calls and the    *)
(* stored set alone.                                                       *)
LEMMA RuntimeSparesRouter == RuntimeStep => UNCHANGED <<live, manager>>
BY DEF RuntimeStep, pipeline, Configure, Begin, End, Publish, Deliberate, ReadConfig,
       Generate, Round, Predict, Abandon, ReadBase, Judge, Report

(* A step of the composition is a step of LiveApply or leaves it alone:    *)
(* what a tick applies is one of Params.                                   *)
LEMMA LiveStepOfRouter ==
  PipelineInv /\ [LiveNext]_liveVars => [Router!Next]_Router!vars
<1> SUFFICES ASSUME PipelineInv, [LiveNext]_liveVars PROVE [Router!Next]_Router!vars
  OBVIOUS
<1>1. CASE UNCHANGED liveVars
  BY <1>1 DEF liveVars, allVars, pipeline, live, Router!vars
<1>2. CASE RuntimeStep
  BY <1>2, RuntimeSparesRouter DEF live, Router!vars
<1>3. CASE Alongside(RouterStep)
  BY <1>3 DEF Alongside, RouterStep, Router!Next
<1>4. ASSUME NEW g \in Gens, LiveCall(g) PROVE [Router!Next]_Router!vars
  <2>1. CASE RefreshLive(g) \/ RefreshFails(g) \/ ReturnLive(g)
    BY <2>1 DEF RefreshLive, RefreshFails, ReturnLive, Refresh, Abandon, live, Router!vars
  <2>2. CASE CallLive(g)
    <3>1. tick["prediction"][g].params \in Params
      BY <2>2 DEF CallLive, Applying, At, PipelineInv, Predicted
    <3> QED
      BY <2>2, <3>1 DEF CallLive, Router!Next
  <2>3. CASE ReadLive(g) \/ UpdateLive(g) \/ StoreLive(g) \/ GiveUpLive(g)
    BY <2>3 DEF ReadLive, UpdateLive, StoreLive, GiveUpLive, Router!Next
  <2> QED
    BY <1>4, <2>1, <2>2, <2>3 DEF LiveCall
<1> QED
  BY <1>1, <1>2, <1>3, <1>4 DEF LiveNext

(* R only adds theorems to Router.                                         *)
LEMMA RouterOfProofs ==
  (Router!Init <=> R!Init) /\ ([Router!Next]_Router!vars <=> [R!Next]_R!vars)
<1>1. Router!Init <=> R!Init
  BY DEF Router!Init, R!Init, Router!NoCall, R!NoCall
<1>2. ASSUME NEW a \in Gens
      PROVE  /\ \A p \in Params : Router!Call(a, p) <=> R!Call(a, p)
             /\ Router!Read(a) <=> R!Read(a)
             /\ Router!Update(a) <=> R!Update(a)
             /\ Router!Store(a) <=> R!Store(a)
             /\ Router!GiveUp(a) <=> R!GiveUp(a)
  BY DEF Router!Call, R!Call, Router!Read, R!Read, Router!Update, R!Update,
         Router!Store, R!Store, Router!GiveUp, R!GiveUp, Router!NoCall, R!NoCall
<1>3. Router!Thunk <=> R!Thunk
  BY DEF Router!Thunk, R!Thunk, Router!Offer, R!Offer, Router!Drain, R!Drain,
         Router!Resend, R!Resend, Router!Deliver, R!Deliver
<1>4. /\ Router!StopLoop <=> R!StopLoop
      /\ Router!TimerFires <=> R!TimerFires
      /\ Router!Beat <=> R!Beat
      /\ Router!Receive <=> R!Receive
      /\ Router!TimerExits <=> R!TimerExits
      /\ Router!Close <=> R!Close
  BY DEF Router!StopLoop, R!StopLoop, Router!TimerFires, R!TimerFires, Router!Beat,
         R!Beat, Router!Receive, R!Receive, Router!TimerExits, R!TimerExits,
         Router!Close, R!Close
<1>5. Router!Next <=> R!Next
  BY <1>2, <1>3, <1>4 DEF Router!Next, R!Next
<1> QED
  BY <1>1, <1>5 DEF Router!vars, R!vars

(* And the calls of the ticks are calls as LiveApply describes them.       *)
THEOREM LiveImplementsApply == LiveSpec => Router!Spec
<1>1. LiveInit => Router!Init
  BY DEF LiveInit
<1> QED
  BY <1>1, LiveStepOfRouter, LiveImplementsHeartbeat, PipelineInvariant, PTL
  DEF LiveSpec, Router!Spec

(* So what is proved of those holds as well.                               *)
LEMMA LivePartsInvariant == LiveSpec => []Parts
<1>1. LiveInit => R!Init
  BY RouterOfProofs DEF LiveInit
<1>2. PipelineInv /\ [LiveNext]_liveVars => [R!Next]_R!vars
  BY LiveStepOfRouter, RouterOfProofs
<1>3. R!LiveApplyAssumption
  BY LiveAssumption DEF R!LiveApplyAssumption
<1>4. R!Spec => []R!IInv
  BY <1>3, R!InductiveInvariant
<1> QED
  BY <1>1, <1>2, <1>4, LiveImplementsHeartbeat, PipelineInvariant, PTL
  DEF LiveSpec, R!Spec, Parts

-----------------------------------------------------------------------------
(* What a status says of the router *)

(* What a step of the Runtime itself does to prediction ticks and status:  *)
(* nobody in ApplyParameters is moved, and nothing is accepted.            *)
RestOf(g) ==
  LET t == tick["prediction"][g]
      u == tick'["prediction"][g]
  IN  \/ u = t
      \/ /\ t.at \notin {"apply", "store"} /\ u.at # "store"
         /\ u.report = Accepted => t.report = Accepted

LEMMA RuntimeAcceptsNothing ==
  ASSUME Parts, RuntimeStep
  PROVE  /\ \A g \in Gens : RestOf(g)
         /\ status'.report = Accepted =>
              \/ status.report = Accepted
              \/ \E g \in Gens : tick["prediction"][g].report = Accepted
<1>1. /\ tick \in [Kinds -> [Gens -> Locals]] /\ Kinds = {"metrics", "prediction"}
      /\ InTick
      /\ status \in [metrics : Samples \cup {Nothing}, parameters : Params \cup {Nothing},
                     report : {Accepted, Rejected}]
  BY DEF Parts, PipelineInv, PipelineTypes, Kinds
<1>2. Idle.at = "idle" /\ Idle.report # Accepted
  BY DEF Idle, Accepted, Rejected
<1>3. CASE \/ Lifecycle /\ UNCHANGED pipeline
           \/ \E field \in Attached : Configure(field)
  BY <1>3 DEF pipeline, Configure, RestOf
<1>4. ASSUME NEW k \in Kinds, NEW h \in Gens, Begin(k, h) \/ End(k, h)
      PROVE  /\ status' = status
             /\ \A g \in Gens : RestOf(g)
  <2>1. CASE Begin(k, h)
    <3>1. tick[k][h].at = "idle"
      BY <1>1, <2>1 DEF Begin, TickBegin, InTick
    <3>2. \A g \in Gens : <<k, h>> # <<"prediction", g>> =>
                            tick'["prediction"][g] = tick["prediction"][g]
      BY <1>1, <2>1 DEF Begin
    <3>3. /\ tick'[k][h].at \in {"refresh", "configure"}
          /\ tick'[k][h].report = tick[k][h].report
      BY <1>1, <2>1 DEF Begin, Locals
    <3> QED
      BY <2>1, <3>1, <3>2, <3>3 DEF Begin, RestOf
  <2>2. CASE End(k, h)
    <3>1. tick[k][h].at = "release" /\ tick'[k][h] = Idle
      BY <1>1, <2>2 DEF End, At
    <3>2. \A g \in Gens : <<k, h>> # <<"prediction", g>> =>
                            tick'["prediction"][g] = tick["prediction"][g]
      BY <1>1, <2>2 DEF End
    <3> QED
      BY <1>2, <2>2, <3>1, <3>2 DEF End, RestOf
  <2> QED
    BY <1>4, <2>1, <2>2
<1>5. ASSUME NEW h \in Gens, Publish(h)
      PROVE  status'.report = status.report /\ \A g \in Gens : RestOf(g)
  <2>1. \A g \in Gens : tick'["prediction"][g] = tick["prediction"][g]
    BY <1>1, <1>5 DEF Publish, GoTo
  <2>2. status'.report = status.report
    BY <1>1, <1>5 DEF Publish
  <2> QED
    BY <2>1, <2>2 DEF RestOf
<1>6. ASSUME NEW h \in Gens, Deliberate(h)
      PROVE  status' = status /\ \A g \in Gens : RestOf(g)
  <2> DEFINE t == tick["prediction"][h]
             Moved(u) == /\ tick' = [tick EXCEPT !["prediction"][h] = u]
                         /\ t.at \notin {"apply", "store"} /\ u.at # "store"
                         /\ u.report = t.report
  <2>0. t \in Locals
    BY <1>1
  <2>1. \E u : Moved(u)
    <3>1. CASE ReadConfig(h)
      <4> DEFINE u == [t EXCEPT !.coordinator = config.coordinator,
                               !.at = IF ~config.coordinator THEN "predict"
                                      ELSE IF config.evaluator THEN "train"
                                      ELSE "unevaluated"]
      <4>1. Moved(u)
        BY <1>1, <2>0, <3>1 DEF ReadConfig, At, Locals
      <4> QED
        BY <4>1
    <3>2. ASSUME NEW place \in Places \ {"store"}, GoTo("prediction", h, place),
                 t.at \notin {"apply", "store"}
          PROVE  \E u : Moved(u)
      <4>1. Moved([t EXCEPT !.at = place])
        BY <1>1, <2>0, <3>2 DEF GoTo, Locals
      <4> QED
        BY <4>1
    <3>3. CASE Generate(h) \/ Round(h) \/ Judge(h)
      BY <3>2, <3>3 DEF Generate, Round, Judge, At, Places
    <3>4. CASE \E place \in {"unevaluated", "train", "round"} :
                 Abandon("prediction", h, place)
      BY <3>2, <3>4 DEF Abandon, At, Places
    <3>5. CASE Predict(h)
      <4>1. PICK p \in Params :
              tick' = [tick EXCEPT
                !["prediction"][h].params = p,
                !["prediction"][h].at = IF tick["prediction"][h].coordinator
                                        THEN "judge" ELSE "apply"]
        BY <3>5 DEF Predict
      <4>2. Moved([t EXCEPT !.params = p,
                            !.at = IF t.coordinator THEN "judge" ELSE "apply"])
        BY <1>1, <2>0, <3>5, <4>1 DEF Predict, At, Locals
      <4> QED
        BY <4>2
    <3>6. CASE ReadBase(h)
      <4>1. Moved([t EXCEPT !.base = manager, !.at = "judged"])
        BY <1>1, <2>0, <3>6 DEF ReadBase, At, Locals
      <4> QED
        BY <4>1
    <3> HIDE DEF Moved
    <3> QED
      BY <1>6, <3>1, <3>3, <3>4, <3>5, <3>6 DEF Deliberate
  <2>2. PICK u : Moved(u)
    BY <2>1
  <2>3. status' = status
    BY <1>6 DEF Deliberate, ReadConfig, Generate, Round, Predict, Abandon,
                ReadBase, Judge
  <2>4. \A g \in Gens \ {h} : tick'["prediction"][g] = tick["prediction"][g]
    BY <1>1, <2>2
  <2>5. tick'["prediction"][h] = u
    BY <1>1, <2>2
  <2> QED
    BY <2>2, <2>3, <2>4, <2>5 DEF RestOf
<1>7. ASSUME NEW h \in Gens, Report(h)
      PROVE  /\ status'.report = tick["prediction"][h].report
             /\ \A g \in Gens : RestOf(g)
  <2>1. \A g \in Gens \ {h} : tick'["prediction"][g] = tick["prediction"][g]
    BY <1>1, <1>7 DEF Report, GoTo
  <2>2. /\ tick["prediction"][h].at = "report" /\ tick'["prediction"][h].at = "release"
        /\ tick'["prediction"][h].report = tick["prediction"][h].report
    BY <1>1, <1>7 DEF Report, GoTo, At, Locals
  <2>3. status'.report = tick["prediction"][h].report
    BY <1>1, <1>7 DEF Report
  <2> QED
    BY <2>1, <2>2, <2>3 DEF RestOf
<1> QED
  BY <1>3, <1>4, <1>5, <1>6, <1>7 DEF RuntimeStep, pipeline, Configure

LEMMA RuntimeKeepsLive ==
  ASSUME Parts, LiveInv, RuntimeStep
  PROVE  LiveInv'
<1>1. /\ apply' = apply /\ router' = router /\ closed' = closed /\ manager' = manager
      /\ \A g \in Gens : RestOf(g)
  BY RuntimeSparesRouter, RuntimeAcceptsNothing DEF live
<1>2. CallsAreTicks' /\ StoreIsAnswered'
  BY <1>1 DEF LiveInv, CallsAreTicks, StoreIsAnswered, RestOf
<1>3. LiveAgrees'
  BY <1>1 DEF LiveInv, LiveAgrees, Taken
<1>4. LeftDefaults'
  BY <1>1, RuntimeAcceptsNothing DEF LiveInv, LeftDefaults, RestOf, Taken
<1> QED
  BY <1>2, <1>3, <1>4 DEF LiveInv

(* The router by itself: an answer is for a call that waits for it.        *)
LEMMA RouterKeepsLive ==
  ASSUME Parts, LiveInv, Alongside(RouterStep)
  PROVE  LiveInv'
<1>1. UNCHANGED <<tick, status, manager, router>>
  BY DEF Alongside, allVars, pipeline, RouterStep, Router!Thunk, Router!Offer,
         Router!Deliver, Router!Drain, Router!Resend, Router!StopLoop,
         Router!TimerFires, Router!Beat, Router!Receive, Router!TimerExits, Router!Close
<1>2. closed => closed'
  BY DEF Alongside, RouterStep, Router!Thunk, Router!Offer,
         Router!Deliver, Router!Drain, Router!Resend, Router!StopLoop,
         Router!TimerFires, Router!Beat, Router!Receive, Router!TimerExits, Router!Close
<1>3. \A g \in Gens : \/ apply'[g] = apply[g]
                      \/ /\ apply[g].at = "awaiting" /\ apply'[g].at = "answered"
                         /\ apply'[g].params = apply[g].params
  <2>1. CASE Router!Deliver
    <3>1. eval.for # Empty => apply[eval.for].at = "awaiting"
      BY DEF Parts, R!IInv, R!Awaited
    <3>2. \A g \in Gens : g # Empty
      BY LiveAssumption
    <3>3. apply \in [Gens -> [at : {"idle", "reading", "updating", "awaiting", "answered"},
                              params : Params \cup {InitialParams}]]
      BY DEF Parts, R!IInv, R!TypeOK
    <3> QED
      BY <2>1, <3>1, <3>2, <3>3 DEF Router!Deliver
  <2>2. CASE apply' = apply
    BY <2>2
  <2> QED
    BY <2>1, <2>2 DEF Alongside, RouterStep, Router!Thunk, Router!Offer,
         Router!Drain, Router!Resend, Router!StopLoop,
         Router!TimerFires, Router!Beat, Router!Receive, Router!TimerExits, Router!Close
<1>4. CallsAreTicks' /\ StoreIsAnswered'
  BY <1>1, <1>3 DEF LiveInv, CallsAreTicks, StoreIsAnswered
<1>5. \A g \in Gens : (Taken(g))' <=> Taken(g)
  BY <1>3 DEF Taken
<1>6. LiveAgrees'
  BY <1>1, <1>2, <1>3, <1>5 DEF LiveInv, LiveAgrees
<1>7. LeftDefaults'
  BY <1>1, <1>5 DEF LiveInv, LeftDefaults
<1> QED
  BY <1>4, <1>6, <1>7 DEF LiveInv

(* The ticks that are applying, storing or reporting exclude each other.   *)
LEMMA OneApplies ==
  ASSUME Parts, LiveInv, NEW g \in Gens, NEW h \in Gens \ {g},
         tick["prediction"][g].at \in {"apply", "store"}
  PROVE  apply[h].at = "idle" /\ tick["prediction"][h].at \notin {"apply", "store"}
<1>1. "prediction" \in Kinds
  BY DEF Kinds
<1>2. loop["prediction"][g] = "tick"
  BY <1>1 DEF Parts, PipelineInv, InTick
<1>3. tick["prediction"][h].at # "idle" => loop["prediction"][h] = "tick"
  BY <1>1 DEF Parts, PipelineInv, InTick
<1>4. tick["prediction"][h].at = "idle"
  BY <1>1, <1>2, <1>3 DEF Parts, IInv, TickExclusion
<1> QED
  BY <1>4 DEF LiveInv, CallsAreTicks

(* The calls a tick makes.                                                 *)
LEMMA CallKeepsLive ==
  ASSUME Parts, LiveInv, NEW g \in Gens, LiveCall(g)
  PROVE  LiveInv'
<1>1. /\ tick \in [Kinds -> [Gens -> Locals]] /\ Kinds = {"metrics", "prediction"}
      /\ tick["prediction"][g] \in Locals
  BY DEF Parts, PipelineInv, PipelineTypes, Kinds
<1>2. apply \in [Gens -> [at : {"idle", "reading", "updating", "awaiting", "answered"},
                          params : Params \cup {InitialParams}]]
  BY DEF Parts, R!IInv, R!TypeOK
<1>3. \A h \in Gens : apply[h].at \in {"updating", "awaiting", "answered"} =>
                        apply[h].params \in RouterValid /\ apply[h].params # Defaults
  BY LiveAssumption DEF Parts, R!IInv, R!Passed
<1>4. CASE RefreshLive(g) \/ RefreshFails(g)
  <2>1. UNCHANGED <<live, manager, status>>
    BY <1>4 DEF RefreshLive, RefreshFails, Refresh, Abandon
  <2>2. \A h \in Gens : tick'["prediction"][h] = tick["prediction"][h]
    BY <1>1, <1>4 DEF RefreshLive, RefreshFails, Refresh, Abandon, GoTo
  <2> QED
    BY <2>1, <2>2 DEF live, LiveInv, CallsAreTicks, StoreIsAnswered, LiveAgrees,
                      LeftDefaults, Taken
<1>5. CASE CallLive(g)
  <2>1. UNCHANGED <<tick, status, manager, router, closed>>
    BY <1>5 DEF CallLive, Router!Call, allButManager
  <2>2. /\ apply[g].at = "idle" /\ tick["prediction"][g].at = "apply"
        /\ apply'[g] = [at |-> "reading", params |-> tick["prediction"][g].params]
        /\ \A h \in Gens \ {g} : apply'[h] = apply[h]
    BY <1>2, <1>5 DEF CallLive, Applying, At, Router!Call
  <2> QED
    BY <2>1, <2>2 DEF LiveInv, CallsAreTicks, StoreIsAnswered, LiveAgrees, LeftDefaults,
                      Taken
<1>6. CASE ReadLive(g)
  <2>1. UNCHANGED <<status, manager, router, closed>>
    BY <1>6 DEF ReadLive, Router!Read, allButManager
  <2>2. /\ apply[g].at = "reading" /\ tick["prediction"][g].at = "apply"
        /\ \A h \in Gens \ {g} : apply'[h] = apply[h]
    BY <1>2, <1>6 DEF ReadLive, Applying, At, Router!Read
  <2>3. \/ apply'[g].at = "idle"
        \/ /\ apply'[g].at = "updating" /\ apply'[g].params = apply[g].params
           /\ tick' = tick
    BY <1>2, <1>6 DEF ReadLive, Router!Read, Router!NoCall
  <2>4. \/ tick' = tick
        \/ /\ apply'[g].at = "idle" /\ tick'["prediction"][g].at = "report"
           /\ tick'["prediction"][g].report = tick["prediction"][g].report
           /\ \A h \in Gens \ {g} : tick'["prediction"][h] = tick["prediction"][h]
    BY <1>1, <1>6 DEF ReadLive, GoTo, Locals
  <2>5. CallsAreTicks' /\ StoreIsAnswered'
    BY <2>2, <2>3, <2>4 DEF LiveInv, CallsAreTicks, StoreIsAnswered
  <2>6. LiveAgrees' /\ LeftDefaults'
    BY <2>1, <2>2, <2>3, <2>4 DEF LiveInv, LiveAgrees, LeftDefaults, Taken
  <2> QED
    BY <2>5, <2>6 DEF LiveInv
<1>7. CASE UpdateLive(g)
  <2>1. UNCHANGED <<tick, status, manager, closed>> /\ router' = apply[g].params
    BY <1>7 DEF UpdateLive, Router!Update, allButManager
  <2>2. /\ apply[g].at = "updating" /\ tick["prediction"][g].at = "apply"
        /\ apply'[g].at = "awaiting" /\ apply'[g].params = apply[g].params
        /\ \A h \in Gens \ {g} : apply'[h] = apply[h]
    BY <1>2, <1>7 DEF UpdateLive, Applying, At, Router!Update
  <2>3. \A h \in Gens \ {g} : apply[h].at = "idle"
    BY <2>2, OneApplies
  <2>4. router' # Defaults
    BY <1>3, <2>1, <2>2
  <2> QED
    BY <2>1, <2>2, <2>3, <2>4
    DEF LiveInv, CallsAreTicks, StoreIsAnswered, LiveAgrees, LeftDefaults, Taken
<1>8. CASE ReturnLive(g)
  <2>1. UNCHANGED <<status, manager, live>>
    BY <1>8 DEF ReturnLive, allButManager
  <2>2. /\ apply[g].at = "answered"
        /\ tick'["prediction"][g].at = "store"
        /\ tick'["prediction"][g].params = tick["prediction"][g].params
        /\ tick'["prediction"][g].report = tick["prediction"][g].report
        /\ \A h \in Gens \ {g} : tick'["prediction"][h] = tick["prediction"][h]
    BY <1>1, <1>8 DEF ReturnLive, GoTo, Locals
  <2> QED
    BY <2>1, <2>2 DEF live, LiveInv, CallsAreTicks, StoreIsAnswered, LiveAgrees,
                      LeftDefaults, Taken
<1>9. CASE StoreLive(g)
  <2>1. /\ UNCHANGED <<status, router, closed>> /\ manager' = apply[g].params
        /\ tick["prediction"][g].at = "store"
    BY <1>9 DEF StoreLive, Store, At, Router!Store
  <2>2. /\ apply[g].at = "answered" /\ apply'[g].at = "idle"
        /\ \A h \in Gens \ {g} : apply'[h] = apply[h]
    BY <1>2, <1>9 DEF StoreLive, Router!Store, Router!NoCall
  <2>3. /\ tick'["prediction"][g].at = "report"
        /\ \A h \in Gens \ {g} : tick'["prediction"][h] = tick["prediction"][h]
    BY <1>1, <1>9 DEF StoreLive, Store, Locals
  <2>4. \A h \in Gens \ {g} : apply[h].at = "idle"
    BY <2>1, OneApplies
  <2>5. router # Defaults /\ (~closed => router = apply[g].params)
    BY <2>2 DEF LiveInv, LeftDefaults, LiveAgrees, Taken
  <2> QED
    BY <2>1, <2>2, <2>3, <2>4, <2>5
    DEF LiveInv, CallsAreTicks, StoreIsAnswered, LiveAgrees, LeftDefaults, Taken
<1>10. CASE GiveUpLive(g)
  <2>1. UNCHANGED <<status, manager, router, closed>> /\ closed
    BY <1>10 DEF GiveUpLive, Router!GiveUp, allButManager
  <2>2. apply'[g].at = "idle" /\ \A h \in Gens \ {g} : apply'[h] = apply[h]
    BY <1>2, <1>10 DEF GiveUpLive, Router!GiveUp, Router!NoCall
  <2>3. /\ tick'["prediction"][g].at = "report"
        /\ tick'["prediction"][g].report = tick["prediction"][g].report
        /\ \A h \in Gens \ {g} : tick'["prediction"][h] = tick["prediction"][h]
    BY <1>1, <1>10 DEF GiveUpLive, GoTo, Locals
  <2> QED
    BY <2>1, <2>2, <2>3
    DEF LiveInv, CallsAreTicks, StoreIsAnswered, LiveAgrees, LeftDefaults, Taken
<1> QED
  BY <1>4, <1>5, <1>6, <1>7, <1>8, <1>9, <1>10 DEF LiveCall

(* Every step of the composition keeps its invariant.                      *)
LEMMA LiveStepKeeps == Parts /\ LiveInv /\ [LiveNext]_liveVars => LiveInv'
<1> SUFFICES ASSUME Parts, LiveInv, [LiveNext]_liveVars PROVE LiveInv'
  OBVIOUS
<1>1. CASE UNCHANGED liveVars
  BY <1>1 DEF liveVars, allVars, pipeline, live, LiveInv, CallsAreTicks, StoreIsAnswered,
              LiveAgrees, LeftDefaults, Taken
<1> QED
  BY <1>1, RuntimeKeepsLive, RouterKeepsLive, CallKeepsLive DEF LiveNext

LEMMA LiveInitially == LiveInit => LiveInv
<1> SUFFICES ASSUME LiveInit PROVE LiveInv
  OBVIOUS
<1>1. \A g \in Gens : /\ apply[g].at = "idle"
                      /\ tick["prediction"][g].at = "idle"
                      /\ tick["prediction"][g].report # Accepted
  BY DEF LiveInit, Router!Init, Router!NoCall, PipelineInit, Kinds, Idle, Accepted, Rejected
<1>2. /\ status.report # Accepted
      /\ manager = InitialParams /\ router = Defaults
  BY DEF LiveInit, Router!Init, PipelineInit, Accepted, Rejected
<1> QED
  BY <1>1, <1>2 DEF LiveInv, CallsAreTicks, StoreIsAnswered, LiveAgrees, LeftDefaults, Taken

(* The status is well typed, and so is the router under it.                *)
THEOREM LiveTypeCorrect == LiveSpec => [](PipelineTypeOK /\ Router!TypeOK)
<1>1. Parts => Router!TypeOK
  BY DEF Parts, R!IInv, R!TypeOK, Router!TypeOK
<1> QED
  BY <1>1, LivePartsInvariant, LiveImplementsHeartbeat, PipelineTypeCorrect, PTL

(* However many controllers start and stop the Runtime, however many       *)
(* generations of loops overlap and whatever fails in their ticks, an      *)
(* accepted LastReport is about the set the router runs with               *)
(* (runtime.go:20-21, parameters.go:160-169).  Alone, ApplyParameters only *)
(* promises this to a single caller (OneCallerAgrees): the busy flag makes *)
(* the ticks one.                                                          *)
THEOREM AcceptedAreLive == LiveSpec => []AcceptedMeansLive
<1>1. Parts /\ LiveInv => AcceptedMeansLive
  <2> SUFFICES ASSUME Parts, LiveInv, ~closed, status.report = Accepted,
                      \A g \in Gens : tick["prediction"][g].at
                                        \notin {"apply", "store", "report"}
               PROVE  router = status.parameters
    BY DEF AcceptedMeansLive
  <2>1. \A g \in Gens : ~Taken(g)
    BY DEF LiveInv, CallsAreTicks, Taken
  <2>2. router = manager
    BY <2>1 DEF LiveInv, LiveAgrees, LeftDefaults
  <2>3. manager = status.parameters
    BY DEF Parts, PipelineInv, AcceptedMeansInForce
  <2> QED
    BY <2>2, <2>3
<1> QED
  BY <1>1, LiveInitially, LiveStepKeeps, LivePartsInvariant, PTL DEF LiveSpec
=============================================================================
