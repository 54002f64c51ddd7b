------------------------------ MODULE LiveApply -----------------------------
(***************************************************************************)
(* How accepted parameters reach a running GossipSub router: callers of    *)
(* ParameterManager.ApplyParameters (parameters.go), the adapter between   *)
(* them and the router (gossipsub_adapter.go), and the parts of the local  *)
(* go-libp2p-pubsub fork they use: the PubSub event loop that runs the     *)
(* thunks sent on the unbuffered channel eval, the heartbeat timer, and    *)
(* the one-place channel heartbeatIntervalUpdate between the two.          *)
(*                                                                         *)
(* A parameter set is an opaque value and stands for its own heartbeat     *)
(* interval.                                                               *)
(***************************************************************************)
EXTENDS Naturals

CONSTANTS
  Appliers,       \* goroutines that call ApplyParameters
  Params,         \* the sets ParameterManager.Validate accepts
  RouterValid,    \* those GossipSubParams.validate accepts as well
  Initial,        \* what the ParameterManager is created with
  Defaults,       \* what the router is created with
  Empty           \* an empty channel; no caller

ASSUME LiveApplyAssumption ==
  /\ RouterValid \subseteq Params
  /\ Defaults \notin Params
  /\ Empty \notin Params \cup {Defaults} \cup Appliers

VARIABLES
  manager,    \* ParameterManager.parameters
  router,     \* GossipSubRouter.params
  pending,    \* the content of heartbeatIntervalUpdate
  eval,       \* the PubSub event loop: where it is in an update thunk
  timer,      \* the goroutine heartbeatTimer
  apply,      \* the calls of ApplyParameters
  closed      \* the PubSub context is done

vars == <<manager, router, pending, eval, timer, apply, closed>>

NoCall == [at |-> "idle", params |-> Initial]

TypeOK ==
  /\ manager \in Params \cup {Initial}
  /\ router \in RouterValid \cup {Defaults}
  /\ pending \in RouterValid \cup {Empty}
  /\ eval \in [at : {"idle", "offer", "drain", "resend", "stopped"},
               for : Appliers \cup {Empty}]
  /\ timer \in [at : {"initial", "beating", "waiting", "exited"},
                interval : RouterValid \cup {Defaults}]
  /\ apply \in [Appliers -> [at : {"idle", "reading", "updating", "awaiting",
                                   "answered"},
                             params : Params \cup {Initial}]]
  /\ closed \in BOOLEAN

Init ==
  /\ manager = Initial
  /\ router = Defaults
  /\ pending = Empty
  /\ eval = [at |-> "idle", for |-> Empty]
  /\ timer = [at |-> "initial", interval |-> Defaults]
  /\ apply = [a \in Appliers |-> NoCall]
  /\ closed = FALSE

-----------------------------------------------------------------------------
(* The callers of ApplyParameters *)

(* Validation has passed and the applier has been read.  A set that        *)
(* validation refuses changes nothing.                                     *)
Call(a, p) ==
  /\ apply[a].at = "idle"
  /\ apply' = [apply EXCEPT ![a] = [at |-> "reading", params |-> p]]
  /\ UNCHANGED <<manager, router, pending, eval, timer, closed>>

\* Mutant: an error of the applier is not looked at.
ReadIgnoringErrors(a) ==
  /\ apply[a].at = "reading"
  /\ eval.at = "idle"
  /\ apply' = [apply EXCEPT ![a].at =
                 IF apply[a].params \in RouterValid THEN "updating"
                 ELSE "answered"]
  /\ UNCHANGED <<manager, router, pending, eval, timer, closed>>

(* GossipSubRouter.GossipSubParams: the event loop takes and runs the      *)
(* thunk that reads the active parameters.  The adapter overwrites the     *)
(* adaptive fields; if the result fails the router's own validation, the   *)
(* call returns an error without touching manager or router.               *)
Read(a) ==
  /\ apply[a].at = "reading"
  /\ eval.at = "idle"
  /\ apply' = [apply EXCEPT ![a] =
                 IF @.params \in RouterValid THEN [@ EXCEPT !.at = "updating"]
                 ELSE NoCall]
  /\ UNCHANGED <<manager, router, pending, eval, timer, closed>>

(* UpdateGossipSubParams: the event loop takes the thunk and assigns the   *)
(* parameters.                                                             *)
Update(a) ==
  /\ apply[a].at = "updating"
  /\ eval.at = "idle"
  /\ router' = apply[a].params
  /\ eval' = [at |-> "offer", for |-> a]
  /\ apply' = [apply EXCEPT ![a].at = "awaiting"]
  /\ UNCHANGED <<manager, pending, timer, closed>>

(* The result is there: the manager stores the set, under its own lock.    *)
Store(a) ==
  /\ apply[a].at = "answered"
  /\ manager' = apply[a].params
  /\ apply' = [apply EXCEPT ![a] = NoCall]
  /\ UNCHANGED <<router, pending, eval, timer, closed>>

\* Mutant: the wait for the answer does not watch the context.
GiveUpBeforeAnswer(a) ==
  /\ closed
  /\ apply[a].at \in {"reading", "updating"}
  /\ apply' = [apply EXCEPT ![a] = NoCall]
  /\ UNCHANGED <<manager, router, pending, eval, timer, closed>>

(* Every select of the two router calls also watches the PubSub context:   *)
(* the call fails, even if its thunk is running or has been answered.      *)
GiveUp(a) ==
  /\ closed
  /\ apply[a].at # "idle"
  /\ apply' = [apply EXCEPT ![a] = NoCall]
  /\ eval' = [eval EXCEPT !.for = IF eval.for = a THEN Empty ELSE eval.for]
  /\ UNCHANGED <<manager, router, pending, timer, closed>>

-----------------------------------------------------------------------------
(* The update thunk, in the event loop *)

(* Put the interval into the channel, answer, and return to the loop.      *)
Deliver ==
  /\ pending' = router
  /\ eval' = [at |-> "idle", for |-> Empty]
  /\ apply' = [a \in Appliers |->
                 IF a = eval.for THEN [apply[a] EXCEPT !.at = "answered"]
                 ELSE apply[a]]
  /\ UNCHANGED <<manager, router, timer, closed>>

\* Mutant: an interval that finds the channel full is dropped.
OfferOrDrop ==
  /\ eval.at = "offer"
  /\ \/ pending = Empty /\ Deliver
     \/ /\ pending # Empty
        /\ eval' = [at |-> "idle", for |-> Empty]
        /\ apply' = [a \in Appliers |->
                 IF a = eval.for THEN [apply[a] EXCEPT !.at = "answered"]
                 ELSE apply[a]]
        /\ UNCHANGED <<manager, router, pending, timer, closed>>

(* The select with a default: send if there is room, else take the default *)
(* branch.  The decision and the receive that follows are two steps.       *)
Offer ==
  /\ eval.at = "offer"
  /\ \/ pending = Empty /\ Deliver
     \/ /\ pending # Empty
        /\ eval' = [eval EXCEPT !.at = "drain"]
        /\ UNCHANGED <<manager, router, pending, timer, apply, closed>>

(* The receive of the default branch.  It has no alternative: on a channel *)
(* that has become empty meanwhile it waits for a sender, and the event    *)
(* loop is the only one.                                                   *)
Drain ==
  /\ eval.at = "drain"
  /\ pending # Empty
  /\ pending' = Empty
  /\ eval' = [eval EXCEPT !.at = "resend"]
  /\ UNCHANGED <<manager, router, timer, apply, closed>>

(* The send of the default branch.                                         *)
Resend ==
  /\ eval.at = "resend"
  /\ pending = Empty
  /\ Deliver

(* The event loop sees its context done.                                   *)
StopLoop ==
  /\ closed
  /\ eval.at = "idle"
  /\ eval' = [eval EXCEPT !.at = "stopped"]
  /\ UNCHANGED <<manager, router, pending, timer, apply, closed>>

-----------------------------------------------------------------------------
(* heartbeatTimer *)

(* The initial delay, or the timer of the current interval, expires.       *)
TimerFires ==
  /\ timer.at \in {"initial", "waiting"}
  /\ timer' = [timer EXCEPT !.at = "beating"]
  /\ UNCHANGED <<manager, router, pending, eval, apply, closed>>

(* The event loop takes and runs the heartbeat thunk; the timer is reset.  *)
Beat ==
  /\ timer.at = "beating"
  /\ eval.at = "idle"
  /\ timer' = [timer EXCEPT !.at = "waiting"]
  /\ UNCHANGED <<manager, router, pending, eval, apply, closed>>

\* Mutant: the channel is only watched during the initial delay.
ReceiveInitially ==
  /\ timer.at = "initial"
  /\ pending # Empty
  /\ timer' = [timer EXCEPT !.interval = pending]
  /\ pending' = Empty
  /\ UNCHANGED <<manager, router, eval, apply, closed>>

(* A new interval arrives; the timer is reset to it.                       *)
Receive ==
  /\ timer.at = "waiting"
  /\ pending # Empty
  /\ timer' = [timer EXCEPT !.interval = pending]
  /\ pending' = Empty
  /\ UNCHANGED <<manager, router, eval, apply, closed>>

TimerExits ==
  /\ closed
  /\ timer.at # "exited"
  /\ timer' = [timer EXCEPT !.at = "exited"]
  /\ UNCHANGED <<manager, router, pending, eval, apply, closed>>

(* The context of the PubSub ends.                                         *)
Close ==
  /\ ~closed
  /\ closed' = TRUE
  /\ UNCHANGED <<manager, router, pending, eval, timer, apply>>

-----------------------------------------------------------------------------
Thunk == Offer \/ Drain \/ Resend

Next ==
  \/ \E a \in Appliers : \/ \E p \in Params : Call(a, p)
                         \/ Read(a) \/ Update(a) \/ Store(a) \/ GiveUp(a)
  \/ Thunk \/ StopLoop
  \/ TimerFires \/ Beat \/ Receive \/ TimerExits
  \/ Close

Spec == Init /\ [][Next]_vars

(* The event loop runs a thunk it has taken, and a call that can go on     *)
(* does.  Senders on eval are served in turn and a select picks among its  *)
(* ready cases at random, so what can happen again and again happens:      *)
(* strong fairness of the rendezvous with the loop and of the receive.     *)
Fairness ==
  /\ WF_vars(Thunk) /\ WF_vars(TimerFires) /\ WF_vars(TimerExits)
  /\ SF_vars(Beat) /\ SF_vars(Receive) /\ SF_vars(StopLoop)
  /\ \A a \in Appliers : /\ SF_vars(Read(a)) /\ SF_vars(Update(a))
                         /\ WF_vars(Store(a)) /\ WF_vars(GiveUp(a))

FairSpec == Spec /\ Fairness

-----------------------------------------------------------------------------
(* The event loop is inside a thunk it will never leave: it took the       *)
(* default branch on a full channel that the timer then emptied.           *)
Wedged == eval.at = "drain" /\ pending = Empty

(* Between updates, the newest interval is never lost: it is in the        *)
(* channel, or the timer already uses it (gossipsub.go:731-737 and 1725),  *)
(* however many updates the timer has missed and whatever the callers      *)
(* did.                                                                    *)
NewestIntervalInForce ==
  eval.at \in {"idle", "stopped"} =>
    router = IF pending # Empty THEN pending ELSE timer.interval

(* A set the router refuses is never recorded as current, so the manager   *)
(* never reports parameters no router has run with (parameters.go:160-167).*)
RecordedWasLive == manager \in RouterValid \cup {Initial}

(* With one caller and a live PubSub, a finished ApplyParameters leaves    *)
(* manager and router agreeing, whether it was accepted or not: the        *)
(* "live application" is all or nothing (parameters.go:157-169).  Two      *)
(* callers, or a PubSub that shuts down, can break it.                     *)
ManagerMatchesRouter ==
  (\A a \in Appliers : apply[a].at = "idle") /\ ~closed =>
    manager = router \/ (manager = Initial /\ router = Defaults)

(* An interval that has been put into the channel is picked up, unless the *)
(* event loop is wedged or the PubSub ends.                                *)
IntervalPickedUp == pending # Empty ~> pending = Empty \/ Wedged \/ closed

(* Ending the PubSub releases every caller of ApplyParameters, even from a *)
(* wedged event loop: the calls are made with a background context, so     *)
(* this is their only way out.                                             *)
ClosingReleasesCallers ==
  \A a \in Appliers : closed /\ apply[a].at # "idle" ~> apply[a].at = "idle"

(* COMPARISON.md:327 says the adaptation cycle runs independently of       *)
(* message publishing and does not block normal operations: the event      *)
(* loop, which also serves publishing, comes back from every update.       *)
EventLoopReturns ==
  eval.at \in {"offer", "drain", "resend"} ~> eval.at \in {"idle", "stopped"}
=============================================================================
