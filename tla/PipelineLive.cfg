SPECIFICATION Spec
CONSTANTS
  MinMesh = 3
  MaxMesh = 16
  MinFactor = 2
  MaxFactor = 10
  MinBeat = 2
  MaxBeat = 40
  AlphaNum = 1
  AlphaDen = 4
  Rules <- DefaultRules
  Predictors = {"heuristic"}
  Failing = FALSE
  Guarded = FALSE
  FactorSpan = 1
  Live = TRUE
  Dscore = 4
  Dout = 2
PROPERTIES
  ValidIsStored
