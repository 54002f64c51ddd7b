-------------------------- MODULE RuntimeLifecycle --------------------------
(***************************************************************************)
(* The lifecycle of the heartbeat Runtime (runtime.go): Start and Stop     *)
(* called by any number of controller goroutines, the two background loops *)
(* each Start launches, their context, their WaitGroup and the busy flags  *)
(* that keep the ticks of one kind from overlapping.                       *)
(*                                                                         *)
(* A step is one critical section of Runtime.mu, one atomic operation, one *)
(* WaitGroup operation or one select of a loop.  What a tick does is left  *)
(* to module Heartbeat, which refines the states "select" and "tick".      *)
(*                                                                         *)
(* The n-th successful Start creates generation n: its context, its cancel *)
(* function and its two goroutines are all named by n.                     *)
(***************************************************************************)
EXTENDS Naturals, FiniteSets

CONSTANTS
  Controllers,   \* goroutines that call Start and Stop
  Ending,        \* the Starts given a context that may end by itself
  MaxStarts      \* bound: number of successful Starts explored

ASSUME MaxStartsAssumption == MaxStarts \in Nat

Kinds == {"metrics", "prediction"}    \* metricsLoop and predictionLoop
Gens  == 1..MaxStarts

VARIABLES
  running,     \* Runtime.running (and status.Running, always written with it)
  cancel,      \* Runtime.cancel: the generation it cancels, 0 for nil
  cancelled,   \* generations whose loop context is done
  starts,      \* number of successful Starts so far
  wg,          \* counter of Runtime.wg
  call,        \* where each controller is inside Stop, "ready" outside of it
  stopping,    \* the generation whose cancel function a Stop call has read
  loop,        \* loop[k][g]: where the k-goroutine of generation g is
  busy,        \* metricsBusy and predictionBusy
  panicked     \* the WaitGroup has panicked: the process is gone

vars == <<running, cancel, cancelled, starts, wg, call, stopping, loop, busy,
          panicked>>

CallStates == {"ready", "cancelling", "joining", "blocked", "woken",
               "finishing"}
LoopStates == {"absent", "select", "tick", "exited"}

Live(k, g) == loop[k][g] \in {"select", "tick"}
Goroutines == {l \in Kinds \X Gens : Live(l[1], l[2])}

TypeOK ==
  /\ running \in BOOLEAN
  /\ cancel \in 0..MaxStarts
  /\ cancelled \subseteq Gens
  /\ starts \in 0..MaxStarts
  /\ wg \in Nat
  /\ call \in [Controllers -> CallStates]
  /\ stopping \in [Controllers -> 0..MaxStarts]
  /\ loop \in [Kinds -> [Gens -> LoopStates]]
  /\ busy \in [Kinds -> BOOLEAN]
  /\ panicked \in BOOLEAN

Init ==
  /\ running = FALSE
  /\ cancel = 0
  /\ cancelled = {}
  /\ starts = 0
  /\ wg = 0
  /\ call = [c \in Controllers |-> "ready"]
  /\ stopping = [c \in Controllers |-> 0]
  /\ loop = [k \in Kinds |-> [g \in Gens |-> "absent"]]
  /\ busy = [k \in Kinds |-> FALSE]
  /\ panicked = FALSE

-----------------------------------------------------------------------------
(* The callers' side *)

\* Mutant: wg.Add(1) for the two goroutines.
LaunchAddOne(c) ==
  /\ ~panicked
  /\ starts < MaxStarts
  /\ call[c] = "ready"
  /\ starts' = starts + 1
  /\ cancel' = starts + 1
  /\ running' = TRUE
  /\ wg' = wg + 1
  /\ loop' = [k \in Kinds |-> [loop[k] EXCEPT ![starts + 1] = "select"]]
  /\ UNCHANGED <<cancelled, call, stopping, busy, panicked>>

(* The body of Start once its guard has passed: a fresh context, running   *)
(* set, wg.Add(2) and the two goroutines, all under mu.                    *)
Launch(c) ==
  /\ ~panicked
  /\ starts < MaxStarts
  /\ call[c] = "ready"
  /\ starts' = starts + 1
  /\ cancel' = starts + 1
  /\ running' = TRUE
  /\ wg' = wg + 2
  /\ loop' = [k \in Kinds |-> [loop[k] EXCEPT ![starts + 1] = "select"]]
  /\ UNCHANGED <<cancelled, call, stopping, busy, panicked>>

(* Start.  A Start that finds running set returns errRuntimeAlreadyRunning *)
(* and changes nothing.                                                    *)
Start(c) == ~running /\ Launch(c)

(* Stop, first critical section: read the cancel function.  A Stop that    *)
(* finds running unset returns and changes nothing.                        *)
StopEnter(c) ==
  /\ ~panicked
  /\ call[c] = "ready"
  /\ running
  /\ call' = [call EXCEPT ![c] = "cancelling"]
  /\ stopping' = [stopping EXCEPT ![c] = cancel]
  /\ UNCHANGED <<running, cancel, cancelled, starts, wg, loop, busy, panicked>>

\* Mutant: the cancel function is never called.
StopCancelForgotten(c) ==
  /\ ~panicked
  /\ call[c] = "cancelling"
  /\ call' = [call EXCEPT ![c] = "joining"]
  /\ UNCHANGED <<running, cancel, cancelled, starts, wg, stopping, loop, busy,
                 panicked>>

(* Stop calls the cancel function it has read, outside of mu.              *)
StopCancel(c) ==
  /\ ~panicked
  /\ call[c] = "cancelling"
  /\ cancelled' = cancelled \cup {stopping[c]}
  /\ call' = [call EXCEPT ![c] = "joining"]
  /\ UNCHANGED <<running, cancel, starts, wg, stopping, loop, busy, panicked>>

\* Mutant: Stop does not wait.
StopWaitSkipped(c) ==
  /\ ~panicked
  /\ call[c] = "joining"
  /\ call' = [call EXCEPT ![c] = "finishing"]
  /\ UNCHANGED <<running, cancel, cancelled, starts, wg, stopping, loop, busy,
                 panicked>>

(* wg.Wait: returns at once on a zero counter, parks the caller otherwise. *)
StopWait(c) ==
  /\ ~panicked
  /\ call[c] = "joining"
  /\ call' = [call EXCEPT ![c] = IF wg = 0 THEN "finishing" ELSE "blocked"]
  /\ UNCHANGED <<running, cancel, cancelled, starts, wg, stopping, loop, busy,
                 panicked>>

(* A parked Wait resumes.  The WaitGroup panics when its counter has been  *)
(* raised again before every Wait of the previous use has returned.        *)
StopResume(c) ==
  /\ ~panicked
  /\ call[c] = "woken"
  /\ panicked' = (wg # 0)
  /\ call' = [call EXCEPT ![c] = "finishing"]
  /\ UNCHANGED <<running, cancel, cancelled, starts, wg, stopping, loop, busy>>

(* Stop, second critical section: running is cleared, whoever set it.      *)
StopFinish(c) ==
  /\ ~panicked
  /\ call[c] = "finishing"
  /\ running' = FALSE
  /\ call' = [call EXCEPT ![c] = "ready"]
  /\ stopping' = [stopping EXCEPT ![c] = 0]
  /\ UNCHANGED <<cancel, cancelled, starts, wg, loop, busy, panicked>>

(* The context given to a Start ends by itself: its owner cancels it or    *)
(* its deadline passes.  The loop context derived from it is done too.  A  *)
(* background context never ends.                                          *)
ParentDone(g) ==
  /\ ~panicked
  /\ g \in (1..starts) \cap Ending
  /\ g \notin cancelled
  /\ cancelled' = cancelled \cup {g}
  /\ UNCHANGED <<running, cancel, starts, wg, call, stopping, loop, busy,
                 panicked>>

-----------------------------------------------------------------------------
(* The loops *)

\* Mutant: the compare-and-swap of the busy flag is a plain store.
TickBeginUnguarded(k, g) ==
  /\ ~panicked
  /\ loop[k][g] = "select"
  /\ busy' = [busy EXCEPT ![k] = TRUE]
  /\ loop' = [loop EXCEPT ![k][g] = "tick"]
  /\ UNCHANGED <<running, cancel, cancelled, starts, wg, call, stopping,
                 panicked>>

(* The ticker case of the select, with the compare-and-swap a tick opens   *)
(* with.  It may be taken although the context is done: a select with both *)
(* cases ready picks either.  A failed swap skips the tick: no change.     *)
TickBegin(k, g) ==
  /\ ~panicked
  /\ loop[k][g] = "select"
  /\ ~busy[k]
  /\ busy' = [busy EXCEPT ![k] = TRUE]
  /\ loop' = [loop EXCEPT ![k][g] = "tick"]
  /\ UNCHANGED <<running, cancel, cancelled, starts, wg, call, stopping,
                 panicked>>

\* Mutant: the busy flag is not cleared.
TickEndStillBusy(k, g) ==
  /\ ~panicked
  /\ loop[k][g] = "tick"
  /\ loop' = [loop EXCEPT ![k][g] = "select"]
  /\ UNCHANGED <<running, cancel, cancelled, starts, wg, call, stopping, busy,
                 panicked>>

(* The deferred store that clears the busy flag; back to the select.       *)
TickEnd(k, g) ==
  /\ ~panicked
  /\ loop[k][g] = "tick"
  /\ busy' = [busy EXCEPT ![k] = FALSE]
  /\ loop' = [loop EXCEPT ![k][g] = "select"]
  /\ UNCHANGED <<running, cancel, cancelled, starts, wg, call, stopping,
                 panicked>>

(* The ctx.Done case of the select and the deferred wg.Done: the Done that *)
(* brings the counter to zero wakes every parked Wait.                     *)
LoopExit(k, g) ==
  /\ ~panicked
  /\ loop[k][g] = "select"
  /\ g \in cancelled
  /\ loop' = [loop EXCEPT ![k][g] = "exited"]
  /\ wg' = wg - 1
  /\ call' = [c \in Controllers |->
                IF wg = 1 /\ call[c] = "blocked" THEN "woken" ELSE call[c]]
  /\ UNCHANGED <<running, cancel, cancelled, starts, stopping, busy, panicked>>

-----------------------------------------------------------------------------
StopStep(c) == StopCancel(c) \/ StopWait(c) \/ StopResume(c) \/ StopFinish(c)

Lifecycle ==
  \/ \E c \in Controllers : Start(c) \/ StopEnter(c) \/ StopStep(c)
  \/ \E g \in Gens : ParentDone(g)
  \/ \E k \in Kinds, g \in Gens : LoopExit(k, g)

Next ==
  \/ Lifecycle
  \/ \E k \in Kinds, g \in Gens : TickBegin(k, g) \/ TickEnd(k, g)

Spec == Init /\ [][Next]_vars

-----------------------------------------------------------------------------
(* Safety *)

(* Whatever the controllers do, even when two generations of loops run at  *)
(* once, no two ticks of one kind overlap: the busy flags of               *)
(* runtime.go:52-56 skip the second.                                       *)
TickExclusion ==
  \A k \in Kinds : \A g, h \in Gens :
    loop[k][g] = "tick" /\ loop[k][h] = "tick" => g = h

(* A set busy flag always belongs to a tick in progress: no path out of a  *)
(* tick, and no restart, leaves a flag behind that would silence all later *)
(* ticks of its kind.                                                      *)
BusyFlagOwned ==
  \A k \in Kinds : busy[k] <=> \E g \in Gens : loop[k][g] = "tick"

(* The WaitGroup counts the goroutines that are alive, so that Wait cannot *)
(* return early nor hang on goroutines that are gone.                      *)
WaitGroupExact == wg = Cardinality(Goroutines)

(* A Stop that returns leaves no goroutine of the generation it cancelled, *)
(* under any interleaving of callers: the join of runtime.go:135-137.      *)
StopJoins ==
  [][\A c \in Controllers :
       call[c] = "finishing" /\ call'[c] = "ready" =>
         \A k \in Kinds : ~Live(k, stopping[c])]_vars

(* The leak-free shutdown of runtime.go:135-137: once the Runtime is not   *)
(* running no background goroutine is left.  It needs the controllers to   *)
(* take turns: see the run with two of them.                               *)
StoppedMeansQuiet == ~running => Goroutines = {}

(* runtime.go:135-137 says Stop is safe: it never ends in a panic of the   *)
(* WaitGroup.  It needs the controllers to take turns, too.                *)
NoPanic == ~panicked
=============================================================================
