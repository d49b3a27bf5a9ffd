CONSTANTS
  Requests = {r1, r2, r3}
  PoolSize = 1
  None = None
SPECIFICATION FairSpec
CHECK_DEADLOCK FALSE
INVARIANT NoneLost
