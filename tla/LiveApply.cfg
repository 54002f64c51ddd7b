SPECIFICATION FairSpec
CONSTANTS
  Appliers = {a1}
  Params = {p1, p2, p3}
  RouterValid = {p1, p2}
  Initial = p0
  Defaults = d0
  Empty = Empty
INVARIANTS
  ManagerMatchesRouter
  NewestIntervalInForce
PROPERTIES
  IntervalPickedUp
  ClosingReleasesCallers
\* Once the PubSub is closed and everyone has left, nothing happens any more.
CHECK_DEADLOCK FALSE
