------------------------------ MODULE Heartbeat -----------------------------
(***************************************************************************)
(* What the ticks of the heartbeat Runtime do (runtime.go), inside the     *)
(* lifecycle of module RuntimeLifecycle: tickMetrics refreshes the cached  *)
(* snapshot, tickPrediction trains, predicts, smooths, judges and applies  *)
(* parameters, and both report through RuntimeStatus.                      *)
(*                                                                         *)
(* A step is one critical section, one atomic operation or one call into   *)
(* another component.  Metrics and parameters are opaque values; what the  *)
(* collector, the coordinator, the evaluator, the predictors and the live  *)
(* router answer is arbitrary here.                                        *)
(***************************************************************************)
EXTENDS RuntimeLifecycle

CONSTANTS
  Samples,          \* metrics the collector may return
  Params,           \* parameter sets a smoothed prediction may be
  InitialParams,    \* what the ParameterManager starts with
  Nothing           \* the zero value of a metrics or parameter field

ASSUME ParamsAssumption == Nothing \notin Samples \cup Params \cup {InitialParams}

VARIABLES
  config,     \* is a coordinator / an evaluator configured
  snapshot,   \* SnapshotStore.metrics
  manager,    \* ParameterManager.parameters
  status,     \* RuntimeStatus without Running, and without LastError,
              \* which no step reads
  tick        \* tick[k][g]: the locals of the tick that goroutine runs

pipeline == <<config, snapshot, manager, status, tick>>
allVars  == <<vars, pipeline>>

Configs == [coordinator : BOOLEAN, evaluator : BOOLEAN]
Places  == {"idle", "refresh", "publish",
            "configure", "unevaluated", "train", "round", "predict", "judge",
            "judged", "apply", "store", "report",
            "release"}
Accepted  == "accepted"
Rejected  == "rejected"

\* The locals of a tick: where it is, the metrics it collected, whether it
\* found a coordinator, the parameters the deployment guard compared with,
\* the smoothed prediction and the report on it.
Locals == [at : Places, metrics : Samples \cup {Nothing}, coordinator : BOOLEAN,
           base : Params \cup {InitialParams, Nothing},
           params : Params \cup {Nothing}, report : {Accepted, Rejected}]

Unconfigured == [coordinator |-> FALSE, evaluator |-> FALSE]
Idle == [at |-> "idle", metrics |-> Nothing, coordinator |-> FALSE,
         base |-> Nothing, params |-> Nothing, report |-> Rejected]

PipelineTypeOK ==
  /\ TypeOK
  /\ config \in Configs
  /\ snapshot \in Samples \cup {Nothing}
  /\ manager \in Params \cup {InitialParams}
  /\ status \in [metrics : Samples \cup {Nothing},
                 parameters : Params \cup {Nothing},
                 report : {Accepted, Rejected}]
  /\ tick \in [Kinds -> [Gens -> Locals]]

PipelineInit ==
  /\ Init
  /\ config = Unconfigured
  /\ snapshot = Nothing
  /\ manager = InitialParams
  /\ status = [metrics |-> Nothing, parameters |-> Nothing, report |-> Rejected]
  /\ tick = [k \in Kinds |-> [g \in Gens |-> Idle]]

At(k, g, place) ==
  /\ ~panicked
  /\ loop[k][g] = "tick"
  /\ tick[k][g].at = place

GoTo(k, g, place) == tick' = [tick EXCEPT ![k][g].at = place]

-----------------------------------------------------------------------------
(* ConfigureFederatedLearning and ConfigureTrainingData: two critical      *)
(* sections, callable at any time, also while the loops run.  They attach  *)
(* a coordinator and an evaluator; nobody calls them to take one away.     *)
Configure(field) ==
  /\ ~panicked
  /\ config' = [config EXCEPT ![field] = TRUE]
  /\ UNCHANGED <<vars, snapshot, manager, status, tick>>

\* Mutant: the compare-and-swap of the busy flag is a plain store.
BeginUnguarded(k, g) ==
  /\ TickBeginUnguarded(k, g)
  /\ tick' = [tick EXCEPT ![k][g].at =
                IF k = "metrics" THEN "refresh" ELSE "configure"]
  /\ UNCHANGED <<config, snapshot, manager, status>>

(* The first step of a tick that found its busy flag clear.                *)
Begin(k, g) ==
  /\ TickBegin(k, g)
  /\ tick' = [tick EXCEPT ![k][g].at =
                IF k = "metrics" THEN "refresh" ELSE "configure"]
  /\ UNCHANGED <<config, snapshot, manager, status>>

\* Mutant: the return leaves the busy flag set.
EndStillBusy(k, g) ==
  /\ At(k, g, "release")
  /\ TickEndStillBusy(k, g)
  /\ tick' = [tick EXCEPT ![k][g] = Idle]
  /\ UNCHANGED <<config, snapshot, manager, status>>

(* The return of a tick: its locals are gone.                              *)
End(k, g) ==
  /\ At(k, g, "release")
  /\ TickEnd(k, g)
  /\ tick' = [tick EXCEPT ![k][g] = Idle]
  /\ UNCHANGED <<config, snapshot, manager, status>>

-----------------------------------------------------------------------------
(* tickMetrics *)

(* RefreshMetrics succeeds: the new metrics are in the store before the    *)
(* status knows of them.                                                   *)
Refresh(g) ==
  /\ At("metrics", g, "refresh")
  /\ \E m \in Samples :
       /\ snapshot' = m
       /\ tick' = [tick EXCEPT !["metrics"][g].metrics = m,
                               !["metrics"][g].at = "publish"]
  /\ UNCHANGED <<vars, config, manager, status>>

(* The critical section at the end of a successful refresh.                *)
Publish(g) ==
  /\ At("metrics", g, "publish")
  /\ status' = [status EXCEPT !.metrics = tick["metrics"][g].metrics]
  /\ GoTo("metrics", g, "release")
  /\ UNCHANGED <<vars, config, snapshot, manager>>

\* Mutant: a failed refresh stores the zero metrics it was given.
PublishZero(k, g, place) ==
  /\ At(k, g, place)
  /\ status' = [status EXCEPT !.metrics = Nothing]
  /\ GoTo(k, g, "release")
  /\ UNCHANGED <<vars, config, snapshot, manager>>

(* A call of the tick fails, or the evaluator is missing: the tick records *)
(* the error in LastError and nothing else.  The store keeps the previous  *)
(* metrics, the status the previous report.                                *)
Abandon(k, g, place) ==
  /\ At(k, g, place)
  /\ GoTo(k, g, "release")
  /\ UNCHANGED <<vars, config, snapshot, manager, status>>

-----------------------------------------------------------------------------
(* tickPrediction *)

(* The read-locked section: coordinator and evaluator are read together    *)
(* and used for the rest of the tick.                                      *)
ReadConfig(g) ==
  /\ At("prediction", g, "configure")
  /\ tick' = [tick EXCEPT
       !["prediction"][g].coordinator = config.coordinator,
       !["prediction"][g].at = IF ~config.coordinator THEN "predict"
                               ELSE IF config.evaluator THEN "train"
                               ELSE "unevaluated"]
  /\ UNCHANGED <<vars, config, snapshot, manager, status>>

(* GenerateTrainingSample succeeds ...                                     *)
Generate(g) ==
  /\ At("prediction", g, "train")
  /\ GoTo("prediction", g, "round")
  /\ UNCHANGED <<vars, config, snapshot, manager, status>>

(* ... and so do AppendTrainingSample and RunRound.                        *)
Round(g) ==
  /\ At("prediction", g, "round")
  /\ GoTo("prediction", g, "predict")
  /\ UNCHANGED <<vars, config, snapshot, manager, status>>

(* Predict and Smooth.  The smoother's own state is in ParameterPipeline.   *)
Predict(g) ==
  /\ At("prediction", g, "predict")
  /\ \E p \in Params :
       tick' = [tick EXCEPT
            !["prediction"][g].params = p,
            !["prediction"][g].at = IF tick["prediction"][g].coordinator
                                    THEN "judge" ELSE "apply"]
  /\ UNCHANGED <<vars, config, snapshot, manager, status>>

(* The deployment guard reads the current parameters ...                   *)
ReadBase(g) ==
  /\ At("prediction", g, "judge")
  /\ tick' = [tick EXCEPT !["prediction"][g].base = manager,
                          !["prediction"][g].at = "judged"]
  /\ UNCHANGED <<vars, config, snapshot, manager, status>>

(* ... and, two evaluations later, lets the candidate through or not.      *)
Judge(g) ==
  /\ At("prediction", g, "judged")
  /\ \E place \in {"apply", "report"} : GoTo("prediction", g, place)
  /\ UNCHANGED <<vars, config, snapshot, manager, status>>

(* ApplyParameters up to its last critical section: validation and the     *)
(* live application, either of which may refuse.                           *)
ApplyLive(g) ==
  /\ At("prediction", g, "apply")
  /\ \E place \in {"store", "report"} : GoTo("prediction", g, place)
  /\ UNCHANGED <<vars, config, snapshot, manager, status>>

\* Mutant: ApplyParameters reports success and stores nothing.
StoreForgotten(g) ==
  /\ At("prediction", g, "store")
  /\ tick' = [tick EXCEPT !["prediction"][g].report = Accepted,
                          !["prediction"][g].at = "report"]
  /\ UNCHANGED <<vars, config, snapshot, manager, status>>

(* The last critical section of ApplyParameters.                           *)
Store(g) ==
  /\ At("prediction", g, "store")
  /\ manager' = tick["prediction"][g].params
  /\ tick' = [tick EXCEPT !["prediction"][g].report = Accepted,
                          !["prediction"][g].at = "report"]
  /\ UNCHANGED <<vars, config, snapshot, status>>

(* The critical section at the end.                                        *)
Report(g) ==
  /\ At("prediction", g, "report")
  /\ status' = [status EXCEPT
                  !.parameters = tick["prediction"][g].params,
                  !.report = tick["prediction"][g].report]
  /\ GoTo("prediction", g, "release")
  /\ UNCHANGED <<vars, config, snapshot, manager>>

-----------------------------------------------------------------------------
MetricsStep(g) ==
  Refresh(g) \/ Publish(g) \/ Abandon("metrics", g, "refresh")

(* What leads to a smoothed prediction and a verdict on it.                *)
Deliberate(g) ==
  \/ ReadConfig(g) \/ Generate(g) \/ Round(g) \/ Predict(g)
  \/ \E place \in {"unevaluated", "train", "round"} :
       Abandon("prediction", g, place)
  \/ ReadBase(g) \/ Judge(g)

PredictionStep(g) == Deliberate(g) \/ ApplyLive(g) \/ Store(g) \/ Report(g)

PipelineNext ==
  \/ Lifecycle /\ UNCHANGED pipeline
  \/ \E field \in {"coordinator", "evaluator"} : Configure(field)
  \/ \E k \in Kinds, g \in Gens : Begin(k, g) \/ End(k, g)
  \/ \E g \in Gens : MetricsStep(g) \/ PredictionStep(g)

PipelineSpec == PipelineInit /\ [][PipelineNext]_allVars

-----------------------------------------------------------------------------
(* The parameters an accepted LastReport is about are the ones in force:   *)
(* runtime.go:20-21 offers the status as a snapshot of what the loop did.  *)
(* Only between the store of ApplyParameters and the report on it may the  *)
(* two differ.                                                             *)
AcceptedMeansInForce ==
  status.report = Accepted /\ (\A g \in Gens : tick["prediction"][g].at # "report")
    => manager = status.parameters

(* No candidate is deployed on a verdict about parameters that are no      *)
(* longer in force: from the guard's read of the current parameters to the *)
(* store, nobody else replaces them (runtime.go:313-322).                  *)
VerdictIsFresh ==
  \A g \in Gens :
    LET t == tick["prediction"][g]
    IN  t.at \in {"judged", "apply", "store"} /\ t.coordinator
          => t.base = manager

(* Outside of a refresh, the metrics the status shows are the ones the     *)
(* predictions read: a refresh that fails disturbs neither.                *)
StatusShowsStore ==
  (\A g \in Gens : tick["metrics"][g].at # "publish")
    => status.metrics = snapshot

(* Each step of a tick that another goroutine can tell is one that         *)
(* RuntimeLifecycle allows, and the rest of it is invisible there, in any  *)
(* interleaving of callers and generations.                                *)
ImplementsLifecycle == Spec
=============================================================================
