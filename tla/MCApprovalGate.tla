--------------------------- MODULE MCApprovalGate ---------------------------
(* ApprovalGate with two requests, four people, one operation of tier 2,   *)
(* one of tier 3 and one that is not classified.                           *)
EXTENDS ApprovalGate

MCOperationTiers == [o \in {"generate", "load_staging"} |-> IF o = "generate" THEN 2 ELSE 3]
=============================================================================
