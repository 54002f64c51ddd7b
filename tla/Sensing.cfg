SPECIFICATION Spec
CONSTANTS
  MaxTraffic = 2
  MaxClock = 3
  Peers = {p1, p2}
  Observations <- SomeObservations
  Absent = Absent
  Unit = 20
  EmaNum = 1
  EmaDen = 4
  Weight <- DefaultWeight
  GossipWeight = 1
  TrustWeight = 1
  MaxObservations = 3
  TrustedThreshold = 220
  MaxEvents = 3
SYMMETRY Symmetric
INVARIANTS
  RatesTile
  LoadIsRecent
  ConductShows
  FeaturesAgree
