CONSTANTS
  Ids = {i1, i2}
  Users = {u1, u2, u3, u4}
  Operations = {"generate", "load_staging", "unclassified"}
  OperationTiers <- MCOperationTiers
  DefaultTier = 4
SPECIFICATION Spec
CHECK_DEADLOCK FALSE
INVARIANTS
  FourEyes
  NoSilentApproval
PROPERTIES
  DecisionFinal
