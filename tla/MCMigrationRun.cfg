CONSTANTS
  Objects = {a, b, c}
  Registered = {a, b}
  Graphs <- MCGraphs
SPECIFICATION FairSpec
CHECK_DEADLOCK FALSE
INVARIANTS
  DependenciesFirst
  PlanIsClosed
  ReportCountsAll
PROPERTIES
  JobSpec
  RunEnds
