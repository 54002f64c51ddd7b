----------------------------- MODULE Evaluation -----------------------------
(***************************************************************************)
(* The evaluation harness: the runner's loop over network sizes, seeds and *)
(* implementations (runner.go), one run of an implementation with its      *)
(* federated rounds and its guardrails (implementation.go), and the two    *)
(* tables that are made of the results (raw_dataset.go, raw_trace.go).     *)
(*                                                                         *)
(* A round of the coordinator (FederatedRound) succeeds or fails; what a   *)
(* trained network answers is arbitrary.  The three federated              *)
(* implementations differ only in how they weigh participants.             *)
(***************************************************************************)
EXTENDS ControlledOutcome, SequencesExt

CONSTANTS
  PeerCounts,      \* ExperimentConfig.PeerCounts, as given
  DefaultPeers,    \* ExperimentConfig.Peers, when there are no PeerCounts
  Repetitions,     \* seeds per network size
  Seed,            \* the first seed
  FLRounds,
  SomeOutputs,     \* what the trained network may answer
  Unreported

ASSUME EvaluationAssumption ==
  /\ PeerCounts \in Seq(Int) /\ DefaultPeers \in Nat /\ DefaultPeers > 0
  /\ Repetitions \in Nat /\ Repetitions > 0 /\ Seed \in Int /\ FLRounds \in Nat
  /\ SomeOutputs \subseteq Outputs
  /\ \A i \in 1..Repetitions : Seed + i - 1 \in DOMAIN Jitter

(* defaultParameters: mesh 8/4/12, factor 0.25, one second.                *)
Default == [mesh |-> 8, low |-> 4, high |-> 12, factor |-> 5, beat |-> 4]

(* The harness runs with the default bounds, which these satisfy.          *)
ASSUME DefaultAssumption == Valid(Default)

VARIABLES
  cell,         \* which run of the grid is in progress, or was the last
  stage,        \* where it is
  round,        \* rounds attempted
  parameters,   \* "parameters" of runFederatedRounds, then of run
  trace,        \* metrics.FLRoundTrace
  manager,      \* the adapter's ParameterManager
  row,          \* what the dataset says the run deployed
  results       \* the results collected so far

vars == <<cell, stage, round, parameters, trace, manager, row, results>>

-----------------------------------------------------------------------------
(* The grid of runs *)

Names == <<"gossipsub", "heuristic", "fl", "fedgreen", "trustaware">>
Dataset == {"gossipsub", "fedgreen", "trustaware"}

\* Mutant: the same network size may be listed twice.
CountsRepeated ==
  LET kept == SelectSeq(PeerCounts, LAMBDA n : n > 0)
  IN  IF kept = <<>> THEN <<DefaultPeers>> ELSE kept

(* The loop of ExperimentConfig.normalize over the first i sizes: of the   *)
(* positive ones each is kept where it is seen first.                      *)
Kept[i \in 0..Len(PeerCounts)] ==
  IF i = 0 THEN <<>>
  ELSE IF PeerCounts[i] > 0 /\ PeerCounts[i] \notin Range(Kept[i - 1])
       THEN Append(Kept[i - 1], PeerCounts[i]) ELSE Kept[i - 1]

(* The choice of runExperiments between these sizes and Peers.             *)
Counts ==
  LET kept == Kept[Len(PeerCounts)]
  IN  IF kept = <<>> THEN <<DefaultPeers>> ELSE kept

SeedOf(repetition) == Seed + repetition - 1

(* The loops of runExperiments and runExperimentsSingle, unrolled.         *)
Runs == Len(Counts) * Repetitions * Len(Names)

Cell(k) ==
  LET n == k - 1
  IN  [peers |-> Counts[(n \div Len(Names)) \div Repetitions + 1],
       seed  |-> SeedOf(((n \div Len(Names)) % Repetitions) + 1),
       name  |-> Names[(n % Len(Names)) + 1]]

Setting(k) == [peers |-> Cell(k).peers, seed |-> Cell(k).seed]
Here == Setting(cell)
Name == Cell(cell).name

-----------------------------------------------------------------------------
(* One run *)

Init ==
  /\ cell = 1
  /\ stage = "start"
  /\ round = 0
  /\ parameters = Default
  /\ trace = <<>>
  /\ manager = InitialManager
  /\ row = Unreported
  /\ results = <<>>

(* start and the beginning of run, for a new adapter.                      *)
Start ==
  /\ stage = "start"
  /\ stage' = IF Name = "gossipsub" THEN "measure"
              ELSE IF Name = "heuristic" THEN "decide" ELSE "rounds"
  /\ UNCHANGED <<cell, round, parameters, trace, manager, row, results>>

(* RunRound fails, or no sample could be generated: the round leaves no    *)
(* trace.                                                                  *)
RoundFails ==
  /\ stage = "rounds" /\ round < FLRounds
  /\ round' = round + 1
  /\ UNCHANGED <<cell, stage, parameters, trace, manager, row, results>>

(* The predictor refuses the global model: run returns the error, and with *)
(* it the whole experiment, which has no results then.                     *)
ImportFails ==
  /\ stage = "rounds" /\ round < FLRounds
  /\ stage' = "failed"
  /\ results' = <<>>
  /\ UNCHANGED <<cell, round, parameters, trace, manager, row>>

(* The end of a round with its candidate and the verdict on it.            *)
Record(candidate, accepted) ==
  /\ trace' = Append(trace, [current |-> parameters, candidate |-> candidate,
                             accepted |-> accepted])
  /\ parameters' = IF accepted THEN candidate ELSE parameters

\* Mutant: only the previous parameters guard the next ones.
RoundDecidesAlone ==
  /\ stage = "rounds" /\ round < FLRounds
  /\ \E output \in SomeOutputs :
       \E candidate \in BestNeighbors(Here, parameters, output) :
         Record(candidate, Accepts(Here, parameters, candidate))
  /\ round' = round + 1
  /\ UNCHANGED <<cell, stage, manager, row, results>>

\* Mutant: the trace tells the verdict of the first guardrail.
RoundDecidesFirst ==
  /\ stage = "rounds" /\ round < FLRounds
  /\ \E output \in SomeOutputs :
       \E candidate \in BestNeighbors(Here, parameters, output) :
         LET first == Accepts(Here, parameters, candidate)
         IN  /\ trace' = Append(trace, [current |-> parameters,
                                        candidate |-> candidate, accepted |-> first])
             /\ parameters' = IF first /\ Accepts(Here, Default, candidate)
                              THEN candidate ELSE parameters
  /\ round' = round + 1
  /\ UNCHANGED <<cell, stage, manager, row, results>>

(* A round that was aggregated and imported: the prediction, the best      *)
(* neighbour, the guardrails against the parameters of the round before    *)
(* and against those of the run's start.                                   *)
RoundDecides ==
  /\ stage = "rounds" /\ round < FLRounds
  /\ \E output \in SomeOutputs :
       \E candidate \in BestNeighbors(Here, parameters, output) :
         Record(candidate, /\ Accepts(Here, parameters, candidate)
                           /\ Accepts(Here, Default, candidate))
  /\ round' = round + 1
  /\ UNCHANGED <<cell, stage, manager, row, results>>

RoundsEnd ==
  /\ stage = "rounds" /\ round = FLRounds
  /\ stage' = "decide"
  /\ UNCHANGED <<cell, round, parameters, trace, manager, row, results>>

(* optimizerPrediction: of the thresholds only those for few peers and for *)
(* latency can be met by a workload.                                       *)
HeuristicPrediction ==
  Heuristic([busy |-> FALSE, lonely |-> Here.peers <= 5, duplicates |-> FALSE,
             slow |-> Workload.latency >= 1000, distrusted |-> FALSE])

Predicted == IF Name = "heuristic" THEN HeuristicPrediction ELSE parameters

\* Mutant: the prediction is applied before it is judged.
DecideAfterwards ==
  /\ stage = "decide"
  /\ manager' = IF Valid(Predicted) THEN Predicted ELSE manager
  /\ parameters' = IF Accepts(Here, Default, Predicted) THEN Predicted ELSE Default
  /\ stage' = "measure"
  /\ UNCHANGED <<cell, round, trace, row, results>>

(* The guardrail of run.  The error of ApplyParameters is discarded.       *)
Decide ==
  /\ stage = "decide"
  /\ IF Accepts(Here, Default, Predicted)
     THEN /\ parameters' = Predicted
          /\ manager' = IF Valid(Predicted) THEN Predicted ELSE manager
     ELSE parameters' = Default /\ UNCHANGED manager
  /\ stage' = "measure"
  /\ UNCHANGED <<cell, round, trace, row, results>>

(* What the tables show of parameters.                                     *)
Shows == [mesh : Nat, factor : Nat, beat : Nat]
ASSUME UnreportedAssumption == Unreported \notin Shows

Shown(p) == [mesh |-> p.mesh, factor |-> p.factor, beat |-> p.beat]

Accepted(t) == {i \in DOMAIN t : t[i].accepted}

(* The candidate of the last accepted round.                               *)
LastAccepted(t) ==
  IF Accepted(t) = {} THEN Default ELSE t[Max(Accepted(t))].candidate

(* toRawRow: the mesh degree from the metrics, the other two parameters    *)
(* from the trace.                                                         *)
RawRow == [mesh |-> parameters.mesh, factor |-> LastAccepted(trace).factor,
           beat |-> LastAccepted(trace).beat]

(* The end of run, where the outcome of the parameters is measured, and    *)
(* what the dataset will say of it.                                        *)
Measure ==
  /\ stage = "measure"
  /\ row' = IF Name \in Dataset THEN RawRow ELSE Shown(parameters)
  /\ stage' = "reported"
  /\ UNCHANGED <<cell, round, parameters, trace, manager, results>>

(* The runner keeps the result and goes on with the next implementation.   *)
Collect ==
  /\ stage = "reported"
  /\ results' = Append(results, Cell(cell))
  /\ IF cell < Runs
     THEN /\ cell' = cell + 1
          /\ stage' = "start"
          /\ round' = 0
          /\ parameters' = Default
          /\ trace' = <<>>
          /\ manager' = InitialManager
          /\ row' = Unreported
     ELSE /\ stage' = "finished"
          /\ UNCHANGED <<cell, round, parameters, trace, manager, row>>

Next ==
  \/ Start \/ RoundFails \/ ImportFails \/ RoundDecides \/ RoundsEnd
  \/ Decide \/ Measure \/ Collect

Spec == Init /\ [][Next]_vars

-----------------------------------------------------------------------------
Stages == {"start", "rounds", "decide", "measure", "reported", "finished", "failed"}
Federated == {"fl", "fedgreen", "trustaware"}

EvaluationTypeOK ==
  /\ cell \in 1..Runs
  /\ stage \in Stages
  /\ round \in 0..FLRounds
  /\ parameters \in Fields
  /\ trace \in Seq([current : Fields, candidate : Fields, accepted : BOOLEAN])
  /\ manager \in Fields
  /\ row \in Shows \cup {Unreported}
  /\ results \in Seq({Cell(k) : k \in 1..Runs})

(* However many small steps the rounds accept, what they have arrived at   *)
(* is one step the guardrail accepts from the start of the run             *)
(* ("prevents a sequence of individually small, individually-accepted      *)
(* per-round steps from cumulatively drifting", implementation.go:253-258). *)
DriftBounded == parameters = Default \/ Accepts(Here, Default, parameters)

(* The dataset takes two of the deployed parameters from the trace and one *)
(* from the metrics, and yet tells one configuration: the one the run was  *)
(* measured with.  "The last accepted round's candidate is exactly what    *)
(* run()'s outer parameters variable ends up holding"                      *)
(* (raw_dataset.go:160-164).                                               *)
DatasetMatchesRun == row # Unreported => row = Shown(parameters)

(* What a row of the trace table says was deployed after its round.        *)
DeployedAfter(entry) == IF entry.accepted THEN entry.candidate ELSE entry.current

(* The trace table is one trajectory: it starts with the defaults, each    *)
(* round starts with what the table says was deployed after the one        *)
(* before, and it ends with what the run was measured with                 *)
(* (raw_trace.go:66-85).                                                   *)
TrajectoryConnects ==
  /\ trace # <<>> => trace[1].current = Default
  /\ \A i \in DOMAIN trace : i > 1 =>
       trace[i].current = DeployedAfter(trace[i - 1])
  /\ trace # <<>> => parameters = DeployedAfter(trace[Len(trace)])

(* A set that is reported as deployed was also taken by the parameter      *)
(* manager, and one that was not deployed never was, although the error of *)
(* ApplyParameters is discarded (implementation.go:140-148).               *)
AppliedIsReported ==
  row # Unreported =>
    \/ manager = parameters
    \/ manager = InitialManager /\ parameters = Default

(* In the results an adaptive implementation never loses to the baseline   *)
(* for the same network and seed: the guardrail compares sets as if the    *)
(* defaults were deployed, the results measure each as deployed itself,    *)
(* and the difference never makes a set worse (implementation.go:152).     *)
AdaptationPays ==
  row # Unreported =>
    Objective(Aggregate(Here, parameters, parameters.mesh))
      <= Objective(Aggregate(Here, Default, Default.mesh))

(* The sizes that were asked for: the positive ones of the list, or the    *)
(* single default where it has none.                                       *)
Asked ==
  LET positive == {n \in Range(PeerCounts) : n > 0}
  IN  IF positive = {} THEN {DefaultPeers} ELSE positive

(* An experiment that finishes has for each network size that was asked    *)
(* for, each seed and each compared implementation exactly one row:        *)
(* validateRawDataset never finds a gap or a duplicate                     *)
(* (raw_dataset.go:287-329).                                               *)
DatasetComplete ==
  stage = "finished" =>
    \A peers \in Asked : \A i \in 1..Repetitions : \A name \in Dataset :
      Cardinality({k \in DOMAIN results :
        results[k] = [peers |-> peers, seed |-> Seed + i - 1, name |-> name]}) = 1

-----------------------------------------------------------------------------
(* A run is a guarded deployment, whatever happened in its rounds.         *)

InForce == IF stage \in {"measure", "reported", "finished"} THEN parameters ELSE Default

MayReplace(setting, p) == Accepts(setting, Default, p)

Promise == INSTANCE GuardedDeployment WITH
  Settings <- {Setting(k) : k \in 1..Runs},
  Sets     <- Fields,
  Default  <- Default,
  Safe     <- MayReplace,
  Seen     <- Shown,
  setting  <- Here,
  inForce  <- InForce,
  reported <- row

(* Every run deploys at most one set, one the guardrail accepts against    *)
(* the defaults, and its dataset row is what is in force                   *)
(* (implementation.go:127-149, raw_dataset.go:152-172).                    *)
ImplementsDeployment == Promise!DeploymentSpec
=============================================================================
