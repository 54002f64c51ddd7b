SPECIFICATION Spec
CONSTANTS
  MinMesh = 4
  MaxMesh = 5
  MinFactor = 4
  MaxFactor = 5
  MinBeat = 9
  MaxBeat = 30
  Rules <- SomeRules
  FactorSpan = 1
  Deployed <- InForce
  Scores <- SomeScores
  Tolerance = 1
  MaxOffered = 3
  Trainers = {t1, t2}
  Readers = {r1}
  Epochs <- TwoAndOne
  MaxImports = 1
  Nobody = Nobody
  Given = {"badWeight", "badTargets", "badFeatures"}
  MaxObserved = 2
INVARIANTS
  TypeOK
  ChosenIsBest
  TargetIsLearnable
  ModelsAreWhole
  UpdatesAreKept
PROPERTIES
  TrainingEnds
