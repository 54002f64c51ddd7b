# FedGreenSub: specifications, model checking and proofs

FedGreenSub adapts the parameters of a GossipSub router to what a node observes:
it collects metrics, optionally trains a small network together with other
participants, predicts parameters, smooths them and applies them to the running
router. This directory holds TLA+ modules for that loop and for the harness that
evaluates it, TLC configurations that check them on small instances, and theorems
that TLAPS has checked for every value of the constants.

The program's own logic is in `internal/fedgreensub`; paths below without a
directory are relative to it. `third_party/go-libp2p-pubsub` is a fork of the
library with one addition that matters here, runtime parameter updates;
`evaluation/comparison` is the experiment around the library.

Run a model with `tlc -config X.cfg M` and a proof with `tlapm M.tla`, in this
directory.

## 1. The system

| component | state | operations | talks to | correct when |
|---|---|---|---|---|
| **Runtime** (`runtime.go`) | running, cancel, WaitGroup, two busy flags, RuntimeStatus, coordinator/evaluator/predictor | Start, Stop, Configure\*, the loops metricsLoop and predictionLoop with tickMetrics and tickPrediction | everything below, by calls from its two goroutines | no tick overlaps another of its kind; Stop joins the goroutines and returns; the status tells what is in force |
| **Config** (`config.go`) | none after construction | options, NewConfig, normalize | every constructor | bounds in order, the last legal request wins, normalizing twice is normalizing once |
| **Optimizer, SnapshotStore** (`optimizer.go`) | cached metrics | RefreshMetrics, Snapshot, Update, Latest | collector, trust | a failed refresh leaves the cached metrics alone; what is stored is of one moment |
| **Collector** (`collector.go`, `live_probe.go`, `metrics.go`) | previous counters and times | Collect | the probes of the system and of the router | rates tile time and traffic, whatever fails in between |
| **Trust** (`trust.go`, `trust_features.go`, `peer_selection.go`) | six averages per peer | Observe, Score, Remove, AggregateTrustFeatures, RankPeers | Optimizer | scores stay in [0, 1], move gradually, and rank conduct the right way round |
| **Predictors** (`heuristic.go`, `inference.go`, `learning.go`) | network of the learned one | Predict, ImportModelState | Optimizer, ParameterManager | predictions are within the configured bounds |
| **ParameterSmoother** (`smoothing.go`) | last smoothed set, primed | Smooth, Reset | Runtime | output is valid, comes nearer to the prediction, does not overshoot |
| **ParameterManager** (`parameters.go`) | current parameters, applier | Validate, ApplyParameters, CurrentParameters | live applier | only valid sets are stored, only if the router took them |
| **GossipSub adapter and router** (`gossipsub_adapter.go`; `gossipsub.go`, `pubsub.go` of the fork) | router parameters, event loop, heartbeat timer, one-place interval channel | GossipSubParams, UpdateGossipSubParams | thunks on the event loop | updates are atomic, none is lost, the loop always comes back |
| **Federated coordinator** (`coordinator.go`, `dataset.go`, `trainer.go`) | global model, round, participants and their windows | Register, AppendTrainingSample, AppendParticipantTrainingSample, RunRound | trainers, aggregator | a round merges only fresh updates, everyone gets the result, a failed round changes nothing that matters |
| **Aggregation** (`aggregation.go`, `model_validation.go`) | none | FedAvg, EnergyWeightedFedAvg, TrustWeightedFedAvg | coordinator | weights are finite, not negative, not all zero |
| **Training targets** (`target.go`, `target_generation.go`) | none | CandidateParameters, SelectBestCandidate, ParametersTarget, GenerateTrainingSample | evaluator | candidates are safe, the choice is the best and its target can be learned |
| **TinyNetwork, trainer** (`tiny_network.go`, `learning.go`) | four weight arrays, version | Forward, Train, Weights, SetWeights | predictors, trainers, the harness | nobody sees half a model; no update is lost |
| **Energy** (`energy.go`) | its weights | SetWeights, EstimateEnergy | Optimizer, harness | arithmetic |
| **Evaluation harness** (`runner.go`, `implementations/`, `raw_dataset.go`, `raw_trace.go`) | results, one adapter per run | runExperiments, run, runFederatedRounds, the tables | the library as a client | every deployment is guarded, and the tables tell what was deployed |

What is hard here, and hard to reach with a test:

* *Interleavings.* Start and Stop have no owner; Stop uses two critical sections
  with a cancel and a wait in between. Two loops share a status and a pair of
  flags with the loops of the previous generation. The live application hops
  between the caller, the event loop and the timer goroutine. A network that is
  in use is trained and replaced at the same time.
* *State read before and used after.* The deployment guard judges a set against
  parameters it read earlier; RunRound changes every trainer before it knows
  whether there will be a new global model; a sample is stamped before its probes
  are read; the dataset puts a row together from two sources.
* *Partial failure.* The manager follows the router; every step of a tick, of a
  round and of a refresh may fail on its own and leaves what the earlier steps did.
* *Long legal sequences.* Small accepted steps that drift, options that contradict
  each other, scores after any number of observations.
* *Numeric edges.* Rounding in the moving average, clamps at the ends of the
  range, two validations with different rules, ties with a tolerance.
* *Liveness.* Stop waits for ticks; ApplyParameters waits for the event loop with
  a background context; the event loop waits on a channel; a training needs the
  lock of its network.

`PROJECT.json` lists the hazards at their lines, with the properties that are
about each.

## 2. The modules

The `MC...` modules only give constants to TLC and the `...Proofs` modules hold
theorems; every other module models code, or states what code promises
(GuardedDeployment).

**RuntimeLifecycle** - `runtime.go`, lines 85-266, without what a tick does. The
n-th successful Start creates *generation* n; `cancelled` is the set of
generations whose context is done, `loop[k][g]` is where the metrics or the
prediction goroutine of a generation is, `wg` is the WaitGroup's counter.
`Start` is one critical section. `Stop` is `StopEnter` (read `cancel` under the
lock), `StopCancel`, `StopWait` and, when it had to park, `StopResume`, and
`StopFinish` (clear `running` under the lock); other goroutines run between any
two. `StopResume` panics if the counter was raised again before the wait
returned, as sync.WaitGroup does. `ParentDone` ends the caller's context, for the
Starts in `Ending`; the others were given a background context. `TickBegin` is
the select together with the compare-and-swap of the busy flag; a swap that fails
changes nothing.

**Heartbeat** EXTENDS RuntimeLifecycle and refines "a tick is in progress" into
the steps of tickMetrics and tickPrediction: one action per critical section and
per call into another component, `tick[k][g]` being the locals of the function.
Metrics and parameter sets are opaque; whatever the collector, evaluator,
coordinator, predictor or router answers is arbitrary, failures included
(`Abandon` is every early return that records an error; the error itself,
LastError, is left out). `Configure` models ConfigureFederatedLearning and
ConfigureTrainingData, at any time. It attaches and never detaches: a caller that
passes nil leaves the tick with fewer steps, which it also has before anything is
attached.

**LiveApply** - ApplyParameters with a live router. `apply[a]` is a call:
"reading" (the thunk that returns the active parameters), "updating" (the thunk
that assigns new ones), "awaiting", "answered", then `Store`. `eval` is the event
loop, which inside an update thunk goes through the select of
`gossipsub.go:732-738` in three steps: `Offer`, `Drain`, `Resend`. `timer` is
heartbeatTimer, `pending` the one-place channel. Once the PubSub is closed every
caller may give up at every select.

**LiveHeartbeat** composes the two: a Runtime on a running router. It EXTENDS
Heartbeat and takes LiveApply as an INSTANCE whose callers are the prediction ticks
and whose manager is the Runtime's. `ApplyLive`, one step of Heartbeat with any
outcome, becomes the call itself (`CallLive`, `ReadLive`, `UpdateLive`,
`ReturnLive`, `StoreLive`, `GiveUpLive`), which returns only if the event loop
answers or the PubSub ends; `RefreshLive` needs the event loop too, since
LiveGossipProbe asks it for the peers and the parameters. A Stop waits for such a
tick, whatever it waits for.

**GossipParameters** - the numbers without a state: parameter sets, `Valid`
(ParameterManager.Validate), `Heuristic`, `Around` and `Decode` (of
ParametersFromModelOutput), `Candidates`. Mesh degrees are exact; factors and
intervals are integers on a grid. Three modules build on it.

**ParameterPipeline** - what a prediction tick produces: a prediction, `Smooth`
(`Blend`, then the clamps `Safe`), the guard, `RouterAccepts`
(GossipSubParams.validate on the fields the adapter sets). One tick is one step,
because only the prediction loop uses the smoother and ApplyParameters. Each tick
may see any metrics. The output of the network is arbitrary within its span; a
failing inference gives the zero set, which the code smooths and deploys like any
other. `Configure` is ConfigureFederatedLearning between two ticks: the predictor
changes in either direction and the smoother keeps its history.

**FederatedRound** - the coordinator. RunRound is `Begin`, one `PassOver`,
`Reject` or `Contribute` per participant in any order (the code ranges over a
map), and `Fail` or `Commit`. A model is known by the round whose global model it
started from and by whether it was trained since, a sample by its number.
`Register` brings a window that is empty, was filled by the caller or is seeded
from the participant's Dataset (`Seeded`). The
lock is held throughout, so observations and registrations wait for the end.
`MergeWeight` and `ReportedWeight` are the two places that compute the weights,
in whole numbers instead of floats.

**Configuration** - DefaultConfig, the options, `normalize` (`Normalize`), and the
constructors that each normalize again (`Construct`). The three pairs of bounds
have the same options and repair; the single fields fall into classes by their
legal range. `request` is a history variable: the last option given for a pair.

**MetricsCollector** - Collect: `CollectBegin` reads the clock, `SystemSample` or
`SystemFails` the first probe, `GossipSample` or `GossipFails` the second; traffic
and time go on in between and the counter may be reset (by a router that is
replaced). A rate is the pair of what was counted and the time it took. The
variable `history` records what really happened, for the properties.

**PeerTrust** - the trust manager: evidence per observation, six averages, score,
Remove, and the ranking. `Good`, `Bad` and `Kind` classify an observation by what
was seen, not by the evidence the code makes of it. **Sensing** EXTENDS both and is
RefreshMetrics: Collect, then `ReadTrust` (a copy of the scores under the lock,
the features from the copy), then `StoreMetrics`, while observations arrive. It
describes an Optimizer with its trust manager configured; without one the
features stay at zero.

**TargetSelection** - GenerateTrainingSample as a scan: `Generate`, one `Evaluate`
per candidate with a valid score, in the order of the loops or any other, `Choose`.
`CandidateLess` is the comparison with its tolerance, `Target` the encoding and
`Learned` what a network that has learned the target would propose.
**NetworkTraining** - a network that goroutines share. Writers (`backward`,
SetWeights) hold the lock and write array after array; a reader is one step. The
content of an array is known by its *lineage*: the import it goes back to and the
updates of each trainer since. **LocalTraining** EXTENDS both: observations
become samples, callers add samples (bad ones too), then two calls of Train, a
reader and an importer work on one network.

**ControlledOutcome** - how the harness computes an outcome: profile, energy,
delivery, latency, objective, and the guardrail `Accepts`, in integers on a grid;
the jitter of a seed is a constant. **Evaluation** - the grid of runs (`Cell` is
the unrolled loops), one run with its federated rounds (`RoundFails`,
`ImportFails`, `RoundDecides`), the guardrail and the discarded error of
ApplyParameters (`Decide`), and the rows of the dataset and the trace.
**GuardedDeployment** is the abstract promise: a run deploys at most one set, a safe
one, and reports the set in force.

How they fit: Heartbeat implements RuntimeLifecycle, LiveHeartbeat implements
Heartbeat and LiveApply, and Evaluation implements GuardedDeployment; all four are
proved, the first and the last also checked. These are refinements of safety: what
a step may do, not that it comes. The actions `Refresh`, `Generate`, `Round` and
`Predict` of Heartbeat are what Sensing, TargetSelection, FederatedRound with
NetworkTraining, and ParameterPipeline are about; each side leaves the answer of the
other open, so that any answer is covered.

## 3. What TLC checks

Twelve runs. A passing run exhausts its state space; the three "violation" runs
show a disagreement between the code and what the repository says of it. A type
or helper invariant that is proved for all constants (section 4) is not also
checked by a run, except TypeOK of LocalTraining, which the mutant of the target's
clamp breaks.

| run | question | properties |
|---|---|---|
| heartbeat_restart | two controllers, three generations, both loops, any answer from every call of a tick | TickExclusion, StopJoins, AcceptedMeansInForce, VerdictIsFresh, StatusShowsStore; ImplementsLifecycle |
| runtime_stopped_quiet | two controllers | **violated**: StoppedMeansQuiet |
| apply | one caller, two sets the router accepts and one it refuses, a PubSub that may end | ManagerMatchesRouter, NewestIntervalInForce, IntervalPickedUp, ClosingReleasesCallers |
| apply_wedge | the same | **violated**: EventLoopReturns |
| live | a Runtime with one owner, two Starts and Stops at any time, on a router that refuses one of two sets, may wedge and may be closed; fairness | StopUnlessWedged, AcceptedMeansLive; StoppedMeansQuiet (a stopped Runtime has no goroutine and generations never overlap in it), NoPanic |
| pipeline | both predictors and a switch between them, any metrics at every tick, rejections, failed inference | SmoothedIsValid, DerivedAreValid, NoRunaway, Damped |
| pipeline_live | a router with the library's other two degrees | **violated**: ValidIsStored |
| federated_round | four participants: one with an invalid resource weight, one with a network of another shape, one whose contribution has no weight; windows that are filled when they are registered | UpdatesAreFresh, NobodyStale, LeftoversMeanFailure, WeightsAgree |
| configuration | three options with any values, NewConfig, the constructors | BuiltIsSound, LastRequestHonoured, ComponentsAgree |
| sensing | refreshes with failing probes, a clock that stands still, a reset, observations of two peers | RatesTile, LoadIsRecent, ConductShows, FeaturesAgree |
| evaluation | the whole grid of a small experiment | TrajectoryConnects, AppliedIsReported, AdaptationPays, DatasetComplete, ImplementsDeployment |
| local_training | samples, two trainings, a reader, an importer | TypeOK, ChosenIsBest, TargetIsLearnable, ModelsAreWhole, UpdatesAreKept, TrainingEnds |

Each property of a passing run has a *mutant*: an operator, next to the definition
it would replace, with a plausible mistake in it, for which TLC finds the property
violated.

### What the code does otherwise than documented

* **Two Stops and a Start** (runtime_stopped_quiet). Both Stops have passed the
  first critical section; one finishes, a Start succeeds, and the other Stop then
  clears `running`. The new loops live on behind `running = false`: no Stop can
  reach them, and the next Start adds two more.
  FedGreenSub_Phase_Status.txt:82 promises "clean, leak-free shutdown; Stop is
  idempotent".
* **The event loop can wait for ever** (apply_wedge). `gossipsub.go:735` receives
  from a channel that was full at line 733. If heartbeatTimer takes the value in
  between, nobody but the event loop itself could ever send another. Publishing
  stops with it, against COMPARISON.md:327. So does the Runtime: ApplyParameters
  calls the router with a background context (`parameters.go:161`), so that the tick
  never ends and a Stop waits for it until the PubSub is closed. The run live shows
  that this is the only way a Stop hangs (StopUnlessWedged); without its second
  disjunct TLC finds the hanging Stop.
* **Two validations** (pipeline_live). With a live router the sets that Validate
  accepts and GossipSubParams.validate refuses, such as mesh degree 5 for a busy
  processor, are not stored; parameters.go:139-140 says that valid ones are.

Seen while modelling, and not given a run of their own:

*Runtime.*
* With two controllers NoPanic fails as well: the second Start raises the counter
  of a WaitGroup on which the other Stop has yet to wake up.
* When the context given to Start ends, both loops exit and `running` stays true
  until somebody calls Stop.
* LastError is shared: a successful metrics tick clears the error of a prediction
  tick (`runtime.go:244`).
* tickPrediction drops the global model RunRound returns (`runtime.go:287`); only
  the evaluation harness calls ImportModelState. The learned predictor of a plain
  Runtime therefore never learns.

*Parameters and router.*
* From above, with the default alpha 1/4, the mesh degree stops two away from a
  constant prediction (8/4 + 30/4 = 9.5 rounds to 10); smoothing_test.go:81 says
  within one, which is true from below.
* A learned predictor whose inference fails predicts the zero set
  (`learning.go:109-120`), which is smoothed, clamped to the minimum and applied.
* ManagerMatchesRouter fails with two callers of ApplyParameters: they may store
  in the other order than the router took their sets.
* The adapter reads FanoutTTL and PruneBackoff in one thunk and writes them back in
  another (`gossipsub_adapter.go:23`); a concurrent change in between is lost. A
  shutdown between the assignment of gs.params and the answer makes a call fail
  although the router has changed (`gossipsub.go:750`).
* A NaN gossip factor would pass Validate and every clamp (`parameters.go:98`); no
  producer of the repository makes one.

*Configuration.*
* A minimum that is illegal is repaired to its default at the end, where it wins
  over a lower legal maximum that was requested after it; LastRequestHonoured is
  about legal requests.
* MaxGossipFactor may exceed 1, which the router refuses (`config.go:173`).

*Sensing.*
* A connected peer that sends only invalid messages settles at about 0.64, ahead
  of an unknown one at 0.5: it is "mixed", and ConductShows says nothing of it.
* The load may cover less than the rates next to it: if only the probe of the
  router fails, the next rates span two intervals and the load one. LoadIsRecent
  claims the direction that holds.
* A peer score of exactly 0 is taken for a missing one (`trust.go:128`).
* No Collector sets PacketLossRate, so that the trust rule of `heuristic.go:62`
  cannot fire on live metrics.
* Two concurrent callers of RefreshMetrics could store in the other order than
  they have collected; only the metrics loop calls it.

*Learning.*
* Near ties can chain, so that the chosen target can depend on the order of the
  scan although `target.go:64` says it never does; ChosenIsBest claims
  independence where ties are exact, and a bounded loss otherwise.
* An import during a training mixes the returned weights with the loss of another
  model (`learning.go:32`).
* TinyNetwork never sets the connectivity metadata the weights use, so the score
  is one half for every participant, and the configured TrustAggregationWeight is
  not read: RunRound passes the literal 1.

*Evaluation.*
* With the harness's workload the heuristic implementation never deploys anything
  but the defaults.
* ENERGY_SCALING.md:70-84 reports FedGreenSub at more than twice the baseline's
  modelled cost, the opposite of AdaptationPays. Its figures predate the
  guardrail; the newer energy_scaling_summary.csv and analysis_report.md agree with
  the property.
* The results measure a set with its own mesh degree as the deployed one, the
  guardrail with the default's: the loss of delivery the guardrail models never
  shows in a reported result.

### Bounds, and why they are enough

* *RuntimeLifecycle, Heartbeat*: generations only interact through `running`, `wg`
  and the busy flags. Two that are alive at once need a third Start (the second
  survives behind `running = false`), so heartbeat_restart has three and two
  controllers, the least that can interleave. Two parameter sets, one of which is
  what the manager starts with, tell a stale value from the current one. The safety
  properties are proved for all numbers.
* *LiveHeartbeat*: one controller and two Starts, the least with a restart. One of
  the two sets is refused by the router, so that calls succeed, fail and give up;
  the router starts with a third. Contexts end by Stop only (`Ending` is empty): that
  one of them ends by itself makes no goroutine wait. No coordinator or
  evaluator is attached: their steps do not wait for the router either, and
  heartbeat_restart attaches both at any time.
* *LiveApply*: a third valid set would be told from the other two by no property;
  the channel has one place, so two updates in a row already find it full.
* *ParameterPipeline*: the rules of `heuristic.go` on a grid of 0.05 and 250 ms on
  which they are exact; mesh degrees 3..9, so that both ends of the range and a
  part away from both (a correction is two at most) occur; two gossip factors and
  two intervals, whose rules are those of the mesh degree. pipeline_live has the full
  default bounds.
* *FederatedRound*: windows of two samples, three samples in all, observed or
  seeded (a window overflows), two rounds (a participant can be rejected in one and
  contribute to the next), a cap of one (exceeded by a full window). `Garbled` is empty: a
  contribution with unsound metadata makes a merge fail, which `Fail` is always
  free to do.
* *Configuration*: three options on two pairs (the third pair of the code is
  another interval like the heartbeat's) with values below, at, inside and above
  every limit: a request, one that contradicts it, and one more. One field of each
  class.
* *Sensing*: two peers (a ranking), four observations that differ in every aspect,
  and three events in all, of clock, traffic and observations together, with any
  number of refreshes and failures between them: a first sample, a failed one
  and a third. Parts of one twentieth, in which the default weights are exact.
* *Evaluation*: sizes <<2, 0, 4, 2>> (an illegal one and a repeated one), two
  seeds, all five implementations, three rounds (two small steps and a third that
  drifts), seven outputs at and between the ends of the range, the default bounds.
* *LocalTraining*: two deployed sets (inside the bounds, and at one of them), three
  scores of which neighbours are within the tolerance and the outer two are not,
  so that ties chain; three candidates; two trainings, of two epochs and of one,
  one import, one reader, two samples of which any may be bad.

### Fairness

Only apply, live and local_training use it. None of them assumes that the event
loop answers.

*live.* `LiveFairness` has five conditions, each about all goroutines together and
therefore weaker than one per goroutine. Some Stop that can take a step takes one,
some goroutine that can go on without the event loop goes on, and so does the event
loop inside a thunk (weak fairness: the Go scheduler runs what can run). A select
with a done context and a firing ticker chooses at random, so that some loop whose
context is done again and again when it selects ends (strong fairness of LoopExit).
The event loop, if it comes back to its select again and again, serves some tick
that sends to it (strong fairness of `Answered`); if it is wedged it never does, and
nothing is promised. The timer is not asked to do anything.

*apply.* The event loop's rendezvous and the timer's receive are fair in the same
way, because a select chooses at random among what is ready.

*local_training.* Each trainer goes on, and so does an importer that holds the
lock; weak fairness is enough, as imports are bounded and a sync.RWMutex does not
starve a writer.

Nothing obliges anyone to call Start, Stop, ApplyParameters, Train or an import, a
ticker to fire or a context to end. The other modules, Evaluation and Heartbeat
among them, state safety only.

Deadlock is not checked where the system may stop: a Runtime at its last Start
that was stopped, a closed PubSub, an experiment that is over or has failed. The
other runs check it.

## 4. What is proved

The theorems hold for all values of the constants within the ASSUMEs of the
module; TLC evaluates those on every run. Every safety invariant and every action
property of the passing runs is stated by one; StoppedMeansQuiet and NoPanic
under the condition that Stops take turns, which a single owner meets, and
ManagerMatchesRouter for a single caller, as the run has it. TLC checked the
inductive invariants on small instances before they were proved.

* **HeartbeatProofs**, first about RuntimeLifecycle, for any set of controllers and
  any number of starts: TypeCorrect, TicksExclude, BusyFlagsOwned,
  WaitGroupCounts, StopsJoin. TickExclusion is not inductive alone: a set flag *is*
  a tick in progress (BusyFlagOwned), so a compare-and-swap that succeeds finds no
  other tick. StopJoins needs that the WaitGroup counts the live goroutines, and
  that a Stop past its wait, or woken from it, has none of its own generation
  left: later Starts can only create later generations.

  What runtime_stopped_quiet refutes is true as long as no two Stops overlap
  (`StopsTakeTurns`, the condition of TurnsMeanQuiet and TurnsMeanNoPanic). Any
  number of controllers may call Start meanwhile; a single one needs no
  condition (OneOwnerShutsDown). `TurnsInv` says what overlapping Stops break:
  a stopped Runtime has its WaitGroup at zero, and the counter stays there from
  the end of a Stop's wait to its second critical section. Overlapping Stops are
  therefore not only enough for the leak but needed for it. WakeupsAreKept holds
  whoever stops: a parked Stop is never left behind at a counter of zero.
  ParkedStopsCanEnd adds that every goroutine a parked Stop waits for has been
  cancelled; the two are the safety part of StopUnlessWedged.

  Then about Heartbeat: HeartbeatImplementsLifecycle, each step of a tick is
  TickBegin, TickEnd or invisible, so that the above carries over
  (PipelineTicksExclude, PipelineStopsJoin, PipelineShutsDown). On top,
  PipelineInv: at most one tick of a kind is anywhere in its steps (`InTick`), what
  a tick holds as its base is still in force because nobody else stores
  (`VerdictIsFresh`), and what it is about to report or publish is true
  (`ReportIsTrue`, `PublishIsTrue`). From it AcceptedAreInForce, VerdictsAreFresh,
  StatusAlwaysShowsStore and PipelineTypeCorrect, for any controllers, samples and
  parameter sets. Exclusion is what makes this true: two prediction ticks could
  break each of them. TicksAlwaysAdvance: `Ahead` counts
  the steps a tick has before it, at most ten; each step of a tick lowers its
  number, and nobody else's changes it. A tick that does not end is therefore
  waiting inside one of its calls.

  Last, about LiveHeartbeat: every step of it is a step of Heartbeat or none
  there (LiveImplementsHeartbeat, so that all of the above holds of a Runtime on
  a live router), and a step of LiveApply or none there (LiveImplementsApply).
  The ticks are many callers, one per generation, but a call in progress belongs
  to a tick in "apply", and the busy flag lets only one tick be there.
  AcceptedAreLive follows: between the router's taking a set and the tick's
  report nobody else calls, and a refused or failed call leaves the router with
  what the manager has (AcceptedMeansLive), for any generations and sets.
* **LiveApplyProofs** - any callers and parameter sets: TypeCorrect,
  NewestIntervalKept, RecordsOnlyLive; OneCallerAgrees for a single one. The
  invariant adds that a caller past the router's validation carries a set it
  accepts, that the caller a thunk answers is waiting for it, and that a running
  thunk has assigned the router's parameters. AnswersOrWedge looks at who waits: a
  caller that awaits an answer has a thunk on the event loop (`AnswersAreDue`), its
  last send finds room because the event loop is the only sender
  (`ResendHasRoom`), so only the receive of `gossipsub.go:735` can block it.
  WedgeIsForEver: once it does, no step of anybody frees it. The run apply_wedge
  shows that this happens; the theorem, that it is final for any callers and sets.
* **ParameterPipelineProofs**, first about Configuration, for any fields, rules,
  values and number of options: ConfigTypeCorrect, BuiltConfigsAreSound,
  LastRequestWins, AllComponentsAgree. The heart is that normalize leaves a
  Config on which it changes nothing, shown part by part; and that an option
  leaves the pair it was given for as the last request asks, which the repair
  keeps if the request was legal. Then about ParameterPipeline, for all bounds,
  EMA weights and rules: TypeCorrect, SmoothingIsSafe, DerivedAreSafe,
  SmootherStaysNear (a tick leaves the smoother within two of the parameters in
  force or no further than it was, whatever predictor its history is from),
  LearnedRaises, SmoothingDamps. They rest on lemmas about `Clamp`, `Round` and
  `Ema`: a blend lies between its arguments, a clamped value within its bounds,
  and a weight of at most 1/4 makes nothing of a step of two downwards.
* **FederatedRoundProofs** - any participants, weights, window size and number of
  rounds: TypeCorrect, MergesFreshUpdates, NobodyLeftBehind,
  SuccessLeavesNothing, ReportsMergedWeights. The invariant adds that the last
  sample of a window is the last its participant was given, that a trainer which
  cannot import keeps its first weights, and that nothing is collected between
  rounds. The weights agree because the two formulas for the trust factor do.
* **SensingProofs** - any traffic, clock, peers, weights and EMA weight:
  RatesAlwaysTile and RatesNeverOvercount (what was counted plus what is still
  to be counted is the traffic), LoadAlwaysRecent (the probe's last time is never
  before the collector's), ConductAlwaysShows (an average of only good evidence
  never falls below one half; the rounding of a blend keeps to the side it is on),
  BetterConductNeverHurt and TrustIsGradual (the blend is monotone and moves by
  its weight), FeaturesAlwaysAgree (the sum of the scores is bounded peer by peer,
  by a threshold for the trusted and by the minimum for the others), and the two
  type invariants.
* **EvaluationProofs** - any grid, rounds, workload, jitter and network outputs:
  TypeCorrect, DriftIsBounded, TrajectoryIsConnected, DatasetIsRun,
  ReportIsApplied, EvaluationImplementsDeployment. RunInv says what each stage of
  a run has done, TraceInv that the last accepted entry of the trace is the
  parameters of the run. Drift is bounded because the second guardrail compares
  with the defaults. The refinement maps the decision to Deploy and the measurement
  to Report. These never expand `Accepts`. AdaptationAlwaysPays does: a set that
  was deployed has an objective no worse than the defaults' where the guardrail
  measured it, and with its own mesh degree in place of the defaults' only delivery
  and latency change, for the better or not at all (OwnMeshIsNoWorse).
  DatasetIsComplete: the division of the run's number into size, seed and
  implementation is one-to-one and onto, the loop of normalize leaves every
  positive size exactly once (CountsAreSizes, by induction over the list), and the
  results are the runs done so far in order (`ResultsInv`).
* **LocalTrainingProofs** - any deployed parameters, scores, tolerance, candidates,
  trainers, epochs, windows and imports: TypeCorrect; NobodySeesHalfAModel and
  NoUpdateIsLost from TrainingInv: each array is either what the writer started
  from (`Settled`) or already what it is making of it (`Rewritten`), which of them
  `toWrite` tells, a model outside of the lock is whole, and the network's version
  and each training's progress account for every update (`Accounted`).
  ScanFindsBest from ScanInv: every candidate after the first costs the choice one
  tolerance at most (`NearOptimal`), and where no two are nearly tied it is
  exactly the least of them, whatever their order
  (`OrderIndependent`). TargetsAreLearnable is arithmetic on the encoding and
  its clamps. TrainingShrinks is what TrainingEnds rests on: `Left` counts the
  steps a training still has, samples and epochs included; each of its steps
  lowers it, and nothing anybody else does changes it.
* **SumTheorems** - what those proofs share: sums over finite sets, which
  Functions defines by a recursive fold (SumRemove, SumMonotone, SumStrict,
  SumChange, SumOfTwo), induction over numbers and over finite sets, and
  products and quotients. The induction theorems of the library take an operator
  as a parameter, which no prover here can instantiate. The principle of the
  least element takes a set, so inductions are stated about the set of
  counterexamples and its least member.

Assumptions on constants, with where the code establishes them: the bounds of
GossipParameters are what Config.normalize leaves (`config.go:101-179`), which
BuiltConfigsAreSound proves; the router's valid sets are among the manager's in
LiveApply because the sets the manager refuses are never sent; scores and
resources of FederatedRound are in tenths because they are clamped or checked to
lie in [0, 1]; a unit of PeerTrust is a multiple of 20 so that its literal
fractions are exact; workload and jitter of ControlledOutcome are integers on its
grid and every seed of the experiment has its jitter, as a seed always makes one
(`implementation.go:460`); the trainers of NetworkTraining are finitely many.

Only model-checked is liveness under fairness: StopUnlessWedged, IntervalPickedUp,
ClosingReleasesCallers and TrainingEnds. It needs ENABLED, which is out of the
prover's reach here. WakeupsAreKept, ParkedStopsCanEnd, TicksAlwaysAdvance,
AnswersOrWedge and TrainingShrinks are the
parts of these arguments that are about single steps. A model that is proved
about has no RECURSIVE operator: the one loop whose result matters
(`Kept` of Evaluation) is a recursive function.

## 5. What is not modelled

* The reports of the evaluation (`raw_summary.go`, `results.go`,
  `energy_report.go`, `main.go`): statistics, CSV and JSON over finished results.
* Float arithmetic: what TinyNetwork computes, the weighted mean of an
  aggregation, memory in the energy estimate. Where the result matters it is
  arbitrary or on a grid.
* Counters of the router beyond what a GossipProbe may supply. MetricsCollector
  describes any such probe; the one of the repository (`live_probe.go:36`) supplies
  peers and parameters but no counters, so that its rates are zero.
* The message counters, trust figures and timings in the metrics of a run.
* How a seed makes its jitter: a constant of Evaluation.
* NaN in parameter sets and in objectives: no producer of the repository makes one.
* The refusal of an update that would change construction parameters
  (`gossipsub.go:727-730`): the adapter writes those back as it has read them.
* An evaluator that returns other Parameters than the candidate it was asked about
  (`target_generation.go:30-32`): TargetSelection takes it to echo the candidate, as
  the evaluator of the harness does.
* The steps inside an error path of TinyNetwork: backward and SetWeights take
  the lock, refuse and release it in one step, between which nothing changes.
* ControlledOutcome has one jitter per seed; the code draws it per seed and
  participant, and on bandwidth and availability as well
  (`implementation.go:460-466`). Its objectives are compared exactly, as its grid is
  of integers, where the code allows 1e-9; and its models are finite, so that a run
  never meets the zero set of a failed inference.
* The dataset stores the heartbeat in whole milliseconds (`raw_dataset.go:166-167`);
  the intervals of Evaluation are multiples of one.
* Which model the output of a backward pass came from: UpdatesAreKept counts updates
  and does not tell whether another model computed what was learned.
* Nil receivers, nil contexts, logging, timings, losses, the copies getters make.
* The rest of the vendored router.
* FanoutTTL and PruneBackoff, which neither predictor changes.

## 6. Plan

Done, in this order of importance: RuntimeLifecycle, Heartbeat, LiveApply, their
composition LiveHeartbeat, ParameterPipeline, FederatedRound; then Configuration,
MetricsCollector with PeerTrust and Sensing, Evaluation, TargetSelection with
NetworkTraining; the proofs above, by which every safety and action property of
the runs is a theorem.

Left:

1. Aggregation as an operator of its own: a merged model lies between its
   contributions.
2. An abstract atomic register that ApplyParameters implements with one caller,
   and an abstract federated round.
3. With the abstract register, what OneCallerAgrees leaves open: which of the
   callers' orders the stored set may follow when there are several.
