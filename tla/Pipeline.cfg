SPECIFICATION Spec
CONSTANTS
  MinMesh = 3
  MaxMesh = 9
  MinFactor = 2
  MaxFactor = 3
  MinBeat = 2
  MaxBeat = 3
  AlphaNum = 1
  AlphaDen = 4
  Rules <- DefaultRules
  Predictors = {"heuristic", "learned"}
  Failing = TRUE
  Guarded = TRUE
  FactorSpan = 1
  Live = FALSE
  Dscore = 4
  Dout = 2
INVARIANTS
  SmoothedIsValid
  DerivedAreValid
PROPERTIES
  NoRunaway
  Damped
