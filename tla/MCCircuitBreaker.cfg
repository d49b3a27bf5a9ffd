CONSTANTS
  Calls = {c1, c2, c3}
  FailureThreshold = 2
  HalfOpenMax = 2
  MaxRetries = 1
SPECIFICATION FairSpec
INVARIANTS
  ClosedBelowThreshold
  ProbesInFlight
PROPERTIES
  OpenLeftByProbe
  CallEnds
  Recovers
