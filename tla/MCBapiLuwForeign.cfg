CONSTANTS
  Committers = {c1, c2}
  Partners = {}
  Retries = 1
  Threshold = 2
SPECIFICATION FairSpec
CHECK_DEADLOCK FALSE
INVARIANT RolledBackOnError
