CONSTANTS
  Requests = {r1, r2, b1}
  Batches = {b1}
  Foreign = {r2}
  Retries = 1
  MaxSessions = 2
SPECIFICATION FairSpec
CHECK_DEADLOCK FALSE
INVARIANTS
  TokenMatchesCookie
  RejectedIsDropped
  EffectsAccounted
PROPERTIES
  RequestsEnd
