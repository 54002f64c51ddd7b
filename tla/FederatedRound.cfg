SPECIFICATION Spec
CONSTANTS
  Participants <- Some
  Incompatible = {"old"}
  BadResource = {"broken"}
  Garbled = {}
  Resource <- SomeResource
  Trust <- SomeTrust
  Connectivity <- SomeConnectivity
  Unknown = Unknown
  Own = Own
  Limit = 2
  Cap = 1
  MaxSamples = 3
  MaxRounds = 2
INVARIANTS
  UpdatesAreFresh
  NobodyStale
  LeftoversMeanFailure
  WeightsAgree
