\* Two goroutines call Start and Stop in any interleaving.
SPECIFICATION PipelineSpec
CONSTANTS
  Controllers = {c1, c2}
  Ending = {1}
  MaxStarts = 3
  Samples = {m1}
  Params = {p0, p1}
  InitialParams = p0
  Nothing = Nothing
SYMMETRY Symmetric
INVARIANTS
  TickExclusion
  AcceptedMeansInForce
  VerdictIsFresh
  StatusShowsStore
PROPERTIES
  StopJoins
  ImplementsLifecycle
\* After MaxStarts Starts a stopped Runtime has nothing left to do; a panic
\* ends the process.
CHECK_DEADLOCK FALSE
