SPECIFICATION Spec
CONSTANTS
  MinMesh = 3
  MaxMesh = 16
  MinFactor = 2
  MaxFactor = 10
  MinBeat = 2
  MaxBeat = 40
  Rules <- DefaultRules
  FactorSpan = 1
  Workload <- Clean
  Jitter <- TwoJitters
  PeerCounts <- TwoSizes
  DefaultPeers = 20
  Repetitions = 2
  Seed = 42
  FLRounds = 3
  SomeOutputs <- MixedOutputs
  Unreported = Unreported
CHECK_DEADLOCK FALSE
INVARIANTS
  TrajectoryConnects
  AppliedIsReported
  AdaptationPays
  DatasetComplete
PROPERTIES
  ImplementsDeployment
