CONSTANTS
  Calls = {c1}
  Batches <- MCBatches
  Names <- MCNames
  MaxRequests = 2
  MaxChanges = 2
SPECIFICATION SafetySpec
CHECK_DEADLOCK FALSE
INVARIANTS
  ApprovedMeetsWeakest
  BlockedFailsStrictest
