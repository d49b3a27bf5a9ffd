---------------------------- MODULE ApprovalGate ----------------------------
(***************************************************************************)
(* Approval of gated operations: lib/security/approval-gate.js, with the   *)
(* tiers of tier-manager.js and tier-config.js.  Several people act on     *)
(* the same request, and its time to live runs out in between.             *)
(***************************************************************************)
EXTENDS Naturals, FiniteSets, SequencesExt

CONSTANTS Ids,            (* the requests that are ever created            *)
          Users,
          Operations,     (* the operation names callers use               *)
          OperationTiers, (* OPERATION_TIERS: known operations to 1..4     *)
          DefaultTier     (* options.defaultTier, 4                        *)

ASSUME TiersAssumption ==
  /\ OperationTiers \in [DOMAIN OperationTiers -> 1..4]
  /\ DefaultTier \in 1..4
ASSUME PeopleAssumption == Operations # {} /\ Users # {}

VARIABLES
  status,      (* status[i]: "none" before the request exists              *)
  operation,   (* the fields operation, requestedBy and approvals          *)
  requestedBy,
  approvals,
  overdue      (* the requests whose expiresAt has passed                  *)

vars == <<status, operation, requestedBy, approvals, overdue>>

Resolved == {"approved", "rejected", "expired", "cancelled"}

GetTier(o) == IF o \in DOMAIN OperationTiers THEN OperationTiers[o] ELSE DefaultTier

RequiresApproval(o) == GetTier(o) >= 3

RequiredApprovers(o) == IF GetTier(o) = 4 THEN 2 ELSE IF GetTier(o) = 3 THEN 1 ELSE 0

AnyOperation == CHOOSE o \in Operations : TRUE
AnyUser == CHOOSE u \in Users : TRUE

Init ==
  /\ status = [i \in Ids |-> "none"]
  /\ operation = [i \in Ids |-> AnyOperation]
  /\ requestedBy = [i \in Ids |-> AnyUser]
  /\ approvals = [i \in Ids |-> <<>>]
  /\ overdue = {}

-----------------------------------------------------------------------------
(* An operation of tier 1 or 2 is approved on the spot and not recorded.   *)
RequestApproval(i, u, o) ==
  /\ status[i] = "none" /\ RequiresApproval(o)
  /\ status' = [status EXCEPT ![i] = "pending"]
  /\ operation' = [operation EXCEPT ![i] = o]
  /\ requestedBy' = [requestedBy EXCEPT ![i] = u]
  /\ approvals' = [approvals EXCEPT ![i] = <<>>]
  /\ UNCHANGED overdue

MayApproveTwice(i, u) == requestedBy[i] # u

(* No self-approval, and each user once.                                   *)
MayApprove(i, u) == requestedBy[i] # u /\ u \notin ToSet(approvals[i])

MoreThanEnough(i) == Len(approvals'[i]) > RequiredApprovers(operation[i])

Enough(i) == Len(approvals'[i]) >= RequiredApprovers(operation[i])

(* The expiry date is not looked at.                                       *)
Approve(i, u) ==
  /\ status[i] = "pending" /\ MayApprove(i, u)
  /\ approvals' = [approvals EXCEPT ![i] = Append(@, u)]
  /\ status' = [status EXCEPT ![i] = IF Enough(i) THEN "approved" ELSE @]
  /\ UNCHANGED <<operation, requestedBy, overdue>>

RejectResolved(i, u) ==
  /\ status[i] # "none"
  /\ status' = [status EXCEPT ![i] = "rejected"]
  /\ UNCHANGED <<operation, requestedBy, approvals, overdue>>

(* Anybody may reject, the requester included.                             *)
Reject(i, u) ==
  /\ status[i] = "pending"
  /\ status' = [status EXCEPT ![i] = "rejected"]
  /\ UNCHANGED <<operation, requestedBy, approvals, overdue>>

Cancel(i, u) ==
  /\ status[i] = "pending" /\ requestedBy[i] = u
  /\ status' = [status EXCEPT ![i] = "cancelled"]
  /\ UNCHANGED <<operation, requestedBy, approvals, overdue>>

CheckApprovalStatus(i) ==
  /\ status[i] = "pending" /\ i \in overdue
  /\ status' = [status EXCEPT ![i] = "expired"]
  /\ UNCHANGED <<operation, requestedBy, approvals, overdue>>

(* Expires every overdue request, whatever the filters select.             *)
ListPendingApprovals ==
  /\ status' = [i \in Ids |->
                  IF status[i] = "pending" /\ i \in overdue THEN "expired" ELSE status[i]]
  /\ UNCHANGED <<operation, requestedBy, approvals, overdue>>

(* expirationMs have passed since i was created.                           *)
TimePasses(i) ==
  /\ status[i] # "none" /\ i \notin overdue
  /\ overdue' = overdue \union {i}
  /\ UNCHANGED <<status, operation, requestedBy, approvals>>

Act(i, u) == Approve(i, u) \/ Reject(i, u) \/ Cancel(i, u)

Next ==
  \/ \E i \in Ids, u \in Users :
       Act(i, u) \/ \E o \in Operations : RequestApproval(i, u, o)
  \/ \E i \in Ids : CheckApprovalStatus(i) \/ TimePasses(i)
  \/ ListPendingApprovals

Spec == Init /\ [][Next]_vars

-----------------------------------------------------------------------------
(* Properties                                                              *)

TypeOK ==
  /\ status \in [Ids -> {"none", "pending"} \union Resolved]
  /\ operation \in [Ids -> Operations]
  /\ requestedBy \in [Ids -> Users]
  /\ approvals \in [Ids -> Seq(Users)]
  /\ overdue \in SUBSET Ids

(* An approved operation was approved by as many different people as its   *)
(* tier asks for, two for an operation nobody classified, and the          *)
(* requester is none of them.                                              *)
FourEyes ==
  \A i \in Ids : status[i] = "approved" =>
    /\ Cardinality(ToSet(approvals[i])) >= RequiredApprovers(operation[i])
    /\ requestedBy[i] \notin ToSet(approvals[i])

(* A request that has all its approvals is not left pending, where it      *)
(* could still be rejected, cancelled or expire.                           *)
NoSilentApproval ==
  \A i \in Ids : status[i] = "pending" =>
    Len(approvals[i]) < RequiredApprovers(operation[i])

(* What was decided stays decided, whoever acts on the request later and   *)
(* whatever the clock says.                                                *)
DecisionFinal ==
  [][\A i \in Ids : status[i] \in Resolved =>
       status'[i] = status[i] /\ approvals'[i] = approvals[i]]_vars
=============================================================================
