---------------------------- MODULE LiveHeartbeat ---------------------------
(***************************************************************************)
(* A Runtime on a running GossipSub router: Heartbeat, whose prediction    *)
(* ticks apply their parameters through the adapter, composed with         *)
(* LiveApply, whose callers are those ticks.  The metrics come from        *)
(* LiveGossipProbe (live_probe.go), which asks the same event loop.        *)
(*                                                                         *)
(* The two share the ParameterManager.  The call of generation g in        *)
(* Router is the ApplyParameters its prediction tick is in.                *)
(***************************************************************************)
EXTENDS Heartbeat

CONSTANTS
  RouterValid,      \* the sets GossipSubParams.validate accepts
  Defaults,         \* what the router is created with
  Empty,            \* an empty channel; no caller
  Attached          \* what the owner configures: a coordinator, an evaluator

ASSUME LiveAssumption ==
  /\ RouterValid \subseteq Params
  /\ Defaults \notin Params
  /\ Empty \notin Params \cup {Defaults} \cup Gens
  /\ Attached \subseteq {"coordinator", "evaluator"}

VARIABLES router, pending, eval, timer, apply, closed    \* as in LiveApply

Router == INSTANCE LiveApply WITH Appliers <- Gens, Initial <- InitialParams

live     == <<router, pending, eval, timer, apply, closed>>
allButManager == <<vars, config, snapshot, status>>
liveVars == <<allVars, live>>

LiveInit == PipelineInit /\ Router!Init

-----------------------------------------------------------------------------
(* The calls a tick makes of the router *)

(* RefreshMetrics with the live probe: it succeeds if the event loop has   *)
(* listed the peers and read the parameters for it.                        *)
RefreshLive(g) ==
  /\ eval.at = "idle"
  /\ Refresh(g)
  /\ UNCHANGED live

(* It fails for any reason of any probe, at any time.                      *)
RefreshFails(g) ==
  /\ Abandon("metrics", g, "refresh")
  /\ UNCHANGED live

Applying(g) == At("prediction", g, "apply")

(* ApplyParameters begins; a smoothed set passes its validation            *)
(* (SmoothedIsValid of ParameterPipeline).                                 *)
CallLive(g) ==
  /\ Applying(g)
  /\ Router!Call(g, tick["prediction"][g].params)
  /\ UNCHANGED <<allButManager, tick>>

(* The adapter reads the active parameters.  A set that the router's       *)
(* validation refuses ends the call.                                       *)
ReadLive(g) ==
  /\ Applying(g)
  /\ Router!Read(g)
  /\ IF apply'[g].at = "idle" THEN GoTo("prediction", g, "report")
                              ELSE UNCHANGED tick
  /\ UNCHANGED allButManager

(* The router takes the set.                                               *)
UpdateLive(g) ==
  /\ Applying(g)
  /\ Router!Update(g)
  /\ UNCHANGED <<allButManager, tick>>

(* The call returns without an error ...                                   *)
ReturnLive(g) ==
  /\ Applying(g)
  /\ apply[g].at = "answered"
  /\ GoTo("prediction", g, "store")
  /\ UNCHANGED <<allButManager, manager, live>>

(* ... and the manager stores the set.                                     *)
StoreLive(g) == Store(g) /\ Router!Store(g)

(* The end of the PubSub makes the call fail, wherever it waits.           *)
GiveUpLive(g) ==
  /\ Applying(g)
  /\ Router!GiveUp(g)
  /\ GoTo("prediction", g, "report")
  /\ UNCHANGED allButManager

-----------------------------------------------------------------------------
(* What the Runtime does by itself, and the router by itself *)

RuntimeStep ==
  /\ \/ Lifecycle /\ UNCHANGED pipeline
     \/ \E field \in Attached : Configure(field)
     \/ \E k \in Kinds, g \in Gens : Begin(k, g) \/ End(k, g)
     \/ \E g \in Gens : Publish(g) \/ Deliberate(g) \/ Report(g)
  /\ UNCHANGED live

\* A step of the router while the process is there.
Alongside(A) == ~panicked /\ A /\ UNCHANGED allVars

RouterStep ==
  \/ Router!Thunk \/ Router!StopLoop
  \/ Router!TimerFires \/ Router!Beat \/ Router!Receive \/ Router!TimerExits
  \/ Router!Close

LiveCall(g) ==
  \/ RefreshLive(g) \/ RefreshFails(g)
  \/ CallLive(g) \/ ReadLive(g) \/ UpdateLive(g) \/ ReturnLive(g) \/ StoreLive(g)
  \/ GiveUpLive(g)

LiveNext == RuntimeStep \/ Alongside(RouterStep) \/ \E g \in Gens : LiveCall(g)

LiveSpec == LiveInit /\ [][LiveNext]_liveVars

(* What a goroutine does without waiting for the event loop, the return of *)
(* its call at the end of the PubSub included.                             *)
Unhindered(g) ==
  \/ /\ Publish(g) \/ Deliberate(g) \/ Report(g) \/ (\E k \in Kinds : End(k, g))
     /\ UNCHANGED live
  \/ CallLive(g) \/ ReturnLive(g) \/ StoreLive(g) \/ GiveUpLive(g)
  \/ closed /\ RefreshFails(g)

(* What it needs the event loop for, which must be there to take it.       *)
Answered(g) == RefreshLive(g) \/ ReadLive(g) \/ UpdateLive(g)

(* As far as a Stop depends on it: the Go scheduler runs a goroutine that  *)
(* can go on, the event loop goes on in its thunk and serves one of those  *)
(* that send to it again and again, and a select in which a done context   *)
(* is ready again and again picks it in the end.  Each of these is one     *)
(* condition on all goroutines together, which lets the ticks of one loop  *)
(* hold up those of the other as long as they go on.  Nothing is asked of  *)
(* the timer.                                                              *)
LiveFairness ==
  /\ WF_liveVars(\E c \in Controllers : StopStep(c) /\ UNCHANGED <<pipeline, live>>)
  /\ SF_liveVars(\E k \in Kinds, g \in Gens :
                   LoopExit(k, g) /\ UNCHANGED <<pipeline, live>>)
  /\ WF_liveVars(\E g \in Gens : Unhindered(g))
  /\ SF_liveVars(\E g \in Gens : Answered(g))
  /\ WF_liveVars(Alongside(Router!Thunk))

FairLiveSpec == LiveSpec /\ LiveFairness

-----------------------------------------------------------------------------
(* An accepted LastReport is about the router, not only about the manager: *)
(* once the tick that wrote it is over, the router runs with               *)
(* LastParameters, through refused sets, failing ticks and restarts,       *)
(* however many generations there are (runtime.go:20-21 with               *)
(* parameters.go:160-169).  Until the PubSub ends.                         *)
AcceptedMeansLive ==
  /\ ~closed
  /\ status.report = Accepted
  /\ \A g \in Gens : tick["prediction"][g].at \notin {"apply", "store", "report"}
  => router = status.parameters

(* A Stop returns, unless the event loop is wedged under a tick it waits   *)
(* for; and even then once the PubSub ends.                                *)
StopUnlessWedged ==
  \A c \in Controllers :
    call[c] # "ready" ~> call[c] = "ready" \/ [](Router!Wedged /\ ~closed)
=============================================================================
