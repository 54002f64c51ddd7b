SPECIFICATION Spec
CONSTANTS
  Controllers = {c1, c2}
  Ending = {1,2}
  MaxStarts = 2
SYMMETRY Symmetric
INVARIANTS
  StoppedMeansQuiet
CHECK_DEADLOCK FALSE
