CONSTANTS
  Requests = {r1, r2, r3, r4}
  PoolSize = 2
  None = None
SPECIFICATION FairSpec
CHECK_DEADLOCK FALSE
INVARIANTS
  LeaseExclusive
  NobodyWaitsBesideIdle
  WaiterAccounted
PROPERTIES
  AcquireSettles
  DrainCloses
  LeaseSpec
