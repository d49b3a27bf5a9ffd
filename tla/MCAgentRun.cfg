CONSTANTS
  Stages = 2
  MaxIterations = 3
  Gates = TRUE
  MaxCalls = 2
  MaxRuns = 2
SPECIFICATION FairSpec
CHECK_DEADLOCK FALSE
INVARIANTS
  UsageCounted
  BlockedNeverWritten
  RequestWellFormed
PROPERTIES
  RunEnds
