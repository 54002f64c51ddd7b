\* One owner that stops and starts again, heuristic predictions, a set the
\* router refuses, and a PubSub that may end.
SPECIFICATION FairLiveSpec
CONSTANTS
  Controllers = {c1}
  Ending = {}
  MaxStarts = 2
  Samples = {m1}
  Params = {p0, p1}
  InitialParams = p0
  Nothing = Nothing
  RouterValid = {p0}
  Defaults = d0
  Empty = Empty
  Attached = {}
INVARIANTS
  StoppedMeansQuiet
  NoPanic
  AcceptedMeansLive
PROPERTIES
  StopUnlessWedged
\* A stopped Runtime on a closed PubSub has nothing left to do.
CHECK_DEADLOCK FALSE
