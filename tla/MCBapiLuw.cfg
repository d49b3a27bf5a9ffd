CONSTANTS
  Committers = {c1, c2}
  Partners = {p1}
  Retries = 1
  Threshold = 2
SPECIFICATION FairSpec
CHECK_DEADLOCK FALSE
INVARIANTS
  CommittedOnce
  SuccessIsCommitted
  FailureIsUndone
  LeftoverBehindBreaker
PROPERTIES
  CallersFinish
