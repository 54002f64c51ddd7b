--------------------------- MODULE LiveApplyProofs --------------------------
(***************************************************************************)
(* Proofs about LiveApply, for any number of callers and all sets of       *)
(* parameters: the newest heartbeat interval is never lost, the            *)
(* manager only records sets the router has accepted, and nothing but the  *)
(* wedge of the event loop, which never ends, keeps a caller waiting.      *)
(***************************************************************************)
EXTENDS LiveApply, TLAPS

Running == {"offer", "drain", "resend"}     \* eval is inside an update thunk

(* A caller past the router's validation carries a set the router accepts. *)
Passed ==
  \A a \in Appliers :
    apply[a].at \in {"updating", "awaiting", "answered"} =>
      apply[a].params \in RouterValid

(* The caller a thunk answers is waiting for the answer.                   *)
Awaited == eval.for # Empty => apply[eval.for].at = "awaiting"

(* Inside an update thunk the router has already been given a set.         *)
Assigned == eval.at \in Running => router \in RouterValid

(* The inductive invariant: the last three say what a thunk puts into the  *)
(* channel, and on whose behalf.                                           *)
IInv ==
  /\ TypeOK
  /\ NewestIntervalInForce
  /\ RecordedWasLive
  /\ Passed
  /\ Awaited
  /\ Assigned

-----------------------------------------------------------------------------
(* Before the first call nothing is on its way to the router.              *)
LEMMA InitIInv == Init => IInv
<1> SUFFICES ASSUME Init PROVE IInv
  OBVIOUS
<1>1. TypeOK
  BY DEF Init, TypeOK, NoCall
<1>2. NewestIntervalInForce /\ RecordedWasLive
  BY DEF Init, NewestIntervalInForce, RecordedWasLive
<1>3. Passed /\ Awaited /\ Assigned
  BY DEF Init, Passed, Awaited, Assigned, Running, NoCall
<1> QED
  BY <1>1, <1>2, <1>3 DEF IInv

(* The steps of a caller.                                                  *)
LEMMA CallerKeepsIInv ==
  ASSUME IInv, NEW a \in Appliers,
         \/ \E p \in Params : Call(a, p)
         \/ Read(a) \/ Update(a) \/ Store(a) \/ GiveUp(a)
  PROVE  IInv'
<1> USE LiveApplyAssumption DEF IInv
<1>1. CASE \E p \in Params : Call(a, p)
  <2>1. PICK p \in Params : Call(a, p)
    BY <1>1
  <2>2. TypeOK'
    BY <2>1 DEF Call, TypeOK
  <2>3. NewestIntervalInForce' /\ RecordedWasLive' /\ Assigned'
    BY <2>1 DEF Call, NewestIntervalInForce, RecordedWasLive, Assigned
  <2>4. Passed' /\ Awaited'
    BY <2>1 DEF Call, TypeOK, Passed, Awaited
  <2> QED
    BY <2>2, <2>3, <2>4
<1>2. CASE Read(a)
  <2>1. TypeOK'
    BY <1>2 DEF Read, TypeOK, NoCall
  <2>2. NewestIntervalInForce' /\ RecordedWasLive' /\ Assigned'
    BY <1>2 DEF Read, NewestIntervalInForce, RecordedWasLive, Assigned
  <2>3. Passed' /\ Awaited'
    BY <1>2 DEF Read, TypeOK, Passed, Awaited, NoCall
  <2> QED
    BY <2>1, <2>2, <2>3
<1>3. CASE Update(a)
  <2>1. apply[a].params \in RouterValid
    BY <1>3 DEF Update, Passed
  <2>2. TypeOK'
    BY <1>3, <2>1 DEF Update, TypeOK
  <2>3. NewestIntervalInForce' /\ RecordedWasLive' /\ Assigned'
    BY <1>3, <2>1 DEF Update, NewestIntervalInForce, RecordedWasLive, Assigned
  <2>4. Passed' /\ Awaited'
    BY <1>3, <2>1 DEF Update, TypeOK, Passed, Awaited
  <2> QED
    BY <2>2, <2>3, <2>4
<1>4. CASE Store(a)
  <2>1. apply[a].params \in RouterValid
    BY <1>4 DEF Store, Passed
  <2>2. TypeOK'
    BY <1>4, <2>1 DEF Store, TypeOK, NoCall
  <2>3. NewestIntervalInForce' /\ RecordedWasLive' /\ Assigned'
    BY <1>4, <2>1 DEF Store, NewestIntervalInForce, RecordedWasLive, Assigned
  <2>4. Passed' /\ Awaited'
    BY <1>4 DEF Store, TypeOK, Passed, Awaited, NoCall
  <2> QED
    BY <2>2, <2>3, <2>4
<1>5. CASE GiveUp(a)
  <2>1. TypeOK'
    BY <1>5 DEF GiveUp, TypeOK, NoCall
  <2>2. eval'.at = eval.at /\ eval'.for = IF eval.for = a THEN Empty ELSE eval.for
    BY <1>5 DEF GiveUp, TypeOK
  <2>3. NewestIntervalInForce' /\ RecordedWasLive' /\ Assigned'
    BY <1>5, <2>2 DEF GiveUp, NewestIntervalInForce, RecordedWasLive, Assigned
  <2>4. Passed' /\ Awaited'
    BY <1>5, <2>2 DEF GiveUp, TypeOK, Passed, Awaited, NoCall
  <2> QED
    BY <2>1, <2>3, <2>4
<1> QED
  BY <1>1, <1>2, <1>3, <1>4, <1>5

(* The end of an update thunk: what has been put into the channel is what  *)
(* the router runs with, and the caller that is answered carries it.       *)
LEMMA DeliverKeepsIInv ==
  ASSUME IInv, eval.at \in Running, Deliver
  PROVE  IInv'
<1> USE LiveApplyAssumption DEF IInv
<1>1. router \in RouterValid
  BY DEF Assigned
<1>2. TypeOK'
  BY <1>1 DEF Deliver, TypeOK
<1>3. NewestIntervalInForce' /\ RecordedWasLive' /\ Assigned'
  BY <1>1 DEF Deliver, NewestIntervalInForce, RecordedWasLive, Assigned, Running
<1>4. Passed'
  <2> SUFFICES ASSUME NEW a \in Appliers,
                      apply'[a].at \in {"updating", "awaiting", "answered"}
               PROVE  apply'[a].params \in RouterValid
    BY DEF Passed
  <2>1. CASE a = eval.for
    <3>1. apply[a].at = "awaiting" /\ apply'[a].params = apply[a].params
      BY <2>1 DEF Deliver, TypeOK, Awaited
    <3> QED
      BY <3>1 DEF Passed
  <2>2. CASE a # eval.for
    BY <2>2 DEF Deliver, Passed
  <2> QED
    BY <2>1, <2>2
<1>5. Awaited'
  BY DEF Deliver, Awaited
<1> QED
  BY <1>2, <1>3, <1>4, <1>5

(* The steps of the event loop.                                            *)
LEMMA LoopKeepsIInv ==
  ASSUME IInv, Thunk \/ StopLoop
  PROVE  IInv'
<1> USE LiveApplyAssumption DEF IInv
<1>1. CASE \/ Offer /\ Deliver
           \/ Resend
  BY <1>1, DeliverKeepsIInv DEF Offer, Resend, Running
<1>2. CASE Offer /\ ~Deliver
  <2>1. eval' = [eval EXCEPT !.at = "drain"] /\ eval.at = "offer"
        /\ UNCHANGED <<manager, router, pending, timer, apply, closed>>
    BY <1>2 DEF Offer
  <2> QED
    BY <2>1 DEF TypeOK, NewestIntervalInForce, RecordedWasLive, Passed, Awaited,
                Assigned, Running
<1>3. CASE Drain
  BY <1>3 DEF Drain, TypeOK, NewestIntervalInForce, RecordedWasLive, Passed,
              Awaited, Assigned, Running
<1>4. CASE StopLoop
  BY <1>4 DEF StopLoop, TypeOK, NewestIntervalInForce, RecordedWasLive, Passed,
              Awaited, Assigned, Running
<1> QED
  BY <1>1, <1>2, <1>3, <1>4 DEF Thunk

(* The steps of the heartbeat timer, and the end of the PubSub.            *)
LEMMA TimerKeepsIInv ==
  ASSUME IInv,
         \/ TimerFires \/ Beat \/ Receive \/ TimerExits
         \/ Close
  PROVE  IInv'
<1> USE LiveApplyAssumption DEF IInv
<1>1. CASE TimerFires \/ Beat \/ TimerExits
  BY <1>1 DEF TimerFires, Beat, TimerExits, TypeOK, NewestIntervalInForce,
              RecordedWasLive, Passed, Awaited, Assigned
<1>2. CASE Receive
  BY <1>2 DEF Receive, TypeOK, NewestIntervalInForce, RecordedWasLive, Passed,
              Awaited, Assigned, Running
<1>3. CASE Close
  BY <1>3 DEF Close, TypeOK, NewestIntervalInForce, RecordedWasLive, Passed,
              Awaited, Assigned
<1> QED
  BY <1>1, <1>2, <1>3

(* Every step keeps the invariant.                                         *)
LEMMA NextKeepsIInv == IInv /\ [Next]_vars => IInv'
<1> SUFFICES ASSUME IInv, [Next]_vars PROVE IInv'
  OBVIOUS
<1>1. CASE UNCHANGED vars
  BY <1>1 DEF vars, IInv, TypeOK, NewestIntervalInForce, RecordedWasLive, Passed,
              Awaited, Assigned
<1> QED
  BY <1>1, CallerKeepsIInv, LoopKeepsIInv, TimerKeepsIInv DEF Next

(* The invariant holds in every reachable state.                           *)
THEOREM InductiveInvariant == Spec => []IInv
BY InitIInv, NextKeepsIInv, PTL DEF Spec

(* Every reachable state is well typed; in particular the router only ever *)
(* runs with its defaults or with a set that passed its own validation.    *)
THEOREM TypeCorrect == Spec => []TypeOK
<1>1. IInv => TypeOK
  BY DEF IInv
<1> QED
  BY <1>1, InductiveInvariant, PTL

(* However updates, reads and timer interleave, the newest interval is in  *)
(* the channel or in use (gossipsub.go:731-737).                           *)
THEOREM NewestIntervalKept == Spec => []NewestIntervalInForce
<1>1. IInv => NewestIntervalInForce
  BY DEF IInv
<1> QED
  BY <1>1, InductiveInvariant, PTL

(* The manager only records what the router has accepted                   *)
(* (parameters.go:160-167).                                                *)
THEOREM RecordsOnlyLive == Spec => []RecordedWasLive
<1>1. IInv => RecordedWasLive
  BY DEF IInv
<1> QED
  BY <1>1, InductiveInvariant, PTL

-----------------------------------------------------------------------------
(* With one caller and before the PubSub ends: between calls manager and   *)
(* router agree, and from the update on the router runs with what the      *)
(* manager is about to record.                                             *)
Agreed ==
  ~closed => \A a \in Appliers :
    /\ apply[a].at \in {"idle", "reading", "updating"} =>
         manager = router \/ (manager = Initial /\ router = Defaults)
    /\ apply[a].at \in {"awaiting", "answered"} => router = apply[a].params

(* Agreed is kept when there is no second caller that could move the       *)
(* router between the update of one call and its store.                    *)
LEMMA NextKeepsAgreed ==
  ASSUME NEW a, Appliers = {a}, IInv, Agreed, [Next]_vars
  PROVE  Agreed'
<1> USE DEF IInv
<1>1. CASE \/ \E p \in Params : Call(a, p)
           \/ Read(a)
  BY <1>1 DEF Call, Read, TypeOK, Agreed, NoCall
<1>2. CASE Update(a)
  BY <1>2 DEF Update, TypeOK, Agreed
<1>3. CASE Store(a)
  BY <1>3 DEF Store, TypeOK, Agreed, NoCall
<1>4. CASE GiveUp(a) \/ Close
  BY <1>4 DEF GiveUp, Close, Agreed
<1>5. CASE Deliver
  <2>1. CASE eval.for = a
    <3>1. apply[a].at = "awaiting"
      BY <2>1, LiveApplyAssumption DEF Awaited
    <3>2. apply'[a].at = "answered" /\ apply'[a].params = apply[a].params
      BY <1>5, <2>1 DEF Deliver, TypeOK
    <3> QED
      BY <1>5, <3>1, <3>2 DEF Deliver, Agreed
  <2>2. CASE eval.for # a
    BY <1>5, <2>2 DEF Deliver, Agreed
  <2> QED
    BY <2>1, <2>2
<1>6. CASE (Offer /\ ~Deliver) \/ Drain \/ StopLoop
  BY <1>6 DEF Offer, Drain, StopLoop, Agreed
<1>7. CASE TimerFires \/ Beat \/ Receive \/ TimerExits \/ UNCHANGED vars
  BY <1>7 DEF TimerFires, Beat, Receive, TimerExits, vars, Agreed
<1> QED
  BY <1>1, <1>2, <1>3, <1>4, <1>5, <1>6, <1>7 DEF Next, Thunk, Offer, Resend

(* With one caller the live application is all or nothing                  *)
(* (parameters.go:157-169).                                                *)
THEOREM OneCallerAgrees ==
  ASSUME NEW a, Appliers = {a}
  PROVE  Spec => []ManagerMatchesRouter
<1>1. Init => Agreed
  BY DEF Init, Agreed, NoCall
<1>2. IInv /\ Agreed /\ [Next]_vars => Agreed'
  BY NextKeepsAgreed
<1>3. Agreed => ManagerMatchesRouter
  BY DEF Agreed, ManagerMatchesRouter
<1> QED
  BY <1>1, <1>2, <1>3, InductiveInvariant, PTL DEF Spec

-----------------------------------------------------------------------------
(* Callers that wait, and the event loop that has to answer them *)

(* Somebody is working on every answer a caller waits for.                 *)
AnswersAreDue ==
  \A a \in Appliers :
    apply[a].at = "awaiting" => eval.for = a /\ eval.at \in Running

(* The event loop is the only sender: what it has emptied stays empty.     *)
ResendHasRoom == eval.at = "resend" => pending = Empty

(* A caller is entered in the thunk it waits for, and only the answer or   *)
(* the end of the PubSub takes it out again.                               *)
LEMMA NextKeepsAnswers ==
  ASSUME IInv, AnswersAreDue, ResendHasRoom, [Next]_vars
  PROVE  AnswersAreDue' /\ ResendHasRoom'
<1> USE LiveApplyAssumption DEF AnswersAreDue, ResendHasRoom
<1>1. apply \in [Appliers -> [at : {"idle", "reading", "updating", "awaiting", "answered"},
                              params : Params \cup {Initial}]]
      /\ \A a \in Appliers : a # Empty
  BY DEF IInv, TypeOK
<1>2. ASSUME NEW a \in Appliers,
             \/ \E p \in Params : Call(a, p)
             \/ Read(a) \/ Store(a) \/ GiveUp(a)
      PROVE  AnswersAreDue' /\ ResendHasRoom'
  <2>1. /\ apply'[a].at # "awaiting"
        /\ \A b \in Appliers \ {a} : apply'[b] = apply[b]
    BY <1>1, <1>2 DEF Call, Read, Store, GiveUp, NoCall
  <2>2. /\ pending' = pending /\ eval'.at = eval.at
        /\ \A b \in Appliers \ {a} : eval.for = b => eval'.for = b
    BY <1>2 DEF IInv, TypeOK, Call, Read, Store, GiveUp
  <2> QED
    BY <2>1, <2>2
<1>3. ASSUME NEW a \in Appliers, Update(a) PROVE AnswersAreDue' /\ ResendHasRoom'
  BY <1>1, <1>3 DEF Update, Running
<1>4. CASE Deliver
  BY <1>1, <1>4 DEF Deliver, Running
<1>5. CASE (Offer /\ ~Deliver) \/ Drain \/ StopLoop
  <2>1. apply' = apply /\ eval'.for = eval.for
    BY <1>5 DEF IInv, TypeOK, Offer, Drain, StopLoop
  <2>2. /\ eval.at \in Running => eval'.at \in Running
        /\ eval'.at = "resend" => pending' = Empty
    BY <1>5 DEF IInv, TypeOK, Offer, Drain, StopLoop, Running
  <2> QED
    BY <2>1, <2>2
<1>6. CASE TimerFires \/ Beat \/ TimerExits \/ Close \/ UNCHANGED vars
  BY <1>6 DEF TimerFires, Beat, TimerExits, Close, vars
<1>7. CASE Receive
  BY <1>7 DEF Receive
<1> QED
  BY <1>2, <1>3, <1>4, <1>5, <1>6, <1>7 DEF Next, Thunk, Offer, Resend

OnlyWedgeBlocks ==
  \A a \in Appliers :
    apply[a].at = "awaiting" =>
      \/ eval.at = "offer"
      \/ eval.at = "drain" /\ pending # Empty
      \/ eval.at = "resend" /\ pending = Empty
      \/ Wedged

(* Whoever waits for an answer has a thunk that can take its next step: a  *)
(* select with a default, a receive from a full or a send into an empty    *)
(* channel.  Of all the places of gossipsub.go:731-737 only one can keep   *)
(* it waiting: the receive of the default branch, once the timer has been  *)
(* faster.                                                                 *)
THEOREM AnswersOrWedge == Spec => []OnlyWedgeBlocks
<1>1. Init => AnswersAreDue /\ ResendHasRoom
  BY DEF Init, AnswersAreDue, ResendHasRoom, NoCall
<1>2. AnswersAreDue /\ ResendHasRoom => OnlyWedgeBlocks
  BY DEF AnswersAreDue, ResendHasRoom, OnlyWedgeBlocks, Running, Wedged
<1> QED
  BY <1>1, <1>2, NextKeepsAnswers, InductiveInvariant, PTL DEF Spec

(* And there nothing ever comes to the rescue, for any number of callers:  *)
(* the wedged event loop is the only sender on that channel, and the end   *)
(* of the PubSub is not among what the receive waits for                   *)
(* (gossipsub.go:731-737).                                                 *)
THEOREM WedgeIsForEver == Spec => [][Wedged => Wedged']_vars
<1>1. IInv /\ [Next]_vars => [Wedged => Wedged']_vars
  <2> SUFFICES ASSUME IInv, Next, Wedged PROVE Wedged'
    OBVIOUS
  <2>1. eval.at = "drain" /\ pending = Empty
        /\ eval = [at |-> eval.at, for |-> eval.for]
    BY DEF IInv, TypeOK, Wedged
  <2>2. ASSUME NEW a \in Appliers,
               \/ \E p \in Params : Call(a, p)
               \/ Read(a) \/ Update(a) \/ Store(a) \/ GiveUp(a)
        PROVE  Wedged'
    BY <2>1, <2>2 DEF Call, Read, Update, Store, GiveUp, Wedged
  <2>3. CASE Thunk \/ StopLoop \/ TimerFires \/ Beat \/ Receive \/ TimerExits \/ Close
    BY <2>1, <2>3 DEF Thunk, Offer, Drain, Resend, StopLoop, TimerFires, Beat, Receive,
                      TimerExits, Close, Wedged
  <2> QED
    BY <2>2, <2>3 DEF Next
<1> QED
  BY <1>1, InductiveInvariant, PTL DEF Spec

=============================================================================
