----------------------------- MODULE GateProofs -----------------------------
(***************************************************************************)
(* Proofs about the two gates that operations pass: ApprovalGate, for any  *)
(* users, requests and tier table, and below it SafetyGates, for any       *)
(* artifacts, calls and names.                                             *)
(***************************************************************************)
EXTENDS ApprovalGate, SafetyGates, FiniteSetTheorems, TLAPS

(* approvals.length is the number of different approvers, the requester is *)
(* not among them, and the status tells whether there are enough of them.  *)
Approvers(i) ==
  /\ IsFiniteSet(ToSet(approvals[i]))
  /\ Cardinality(ToSet(approvals[i])) = Len(approvals[i])
  /\ requestedBy[i] \notin ToSet(approvals[i]) \/ status[i] = "none"
  /\ status[i] = "none" => approvals[i] = <<>>
  /\ status[i] = "approved" => Len(approvals[i]) >= RequiredApprovers(operation[i])
  /\ status[i] = "pending" => Len(approvals[i]) < RequiredApprovers(operation[i])

IInv == TypeOK /\ \A i \in Ids : Approvers(i)

(* The number of approvers a tier asks for is 0, 1 or 2, and positive when *)
(* the operation requires approval.                                        *)
LEMMA RequiredType ==
  ASSUME NEW o
  PROVE  /\ RequiredApprovers(o) \in 0..2
         /\ RequiresApproval(o) => RequiredApprovers(o) > 0
  BY TiersAssumption DEF RequiredApprovers, RequiresApproval, GetTier

(* Appending to a sequence adds the element to its set of elements.        *)
LEMMA ToSetAppend ==
  ASSUME NEW S, NEW s \in Seq(S), NEW u \in S
  PROVE  ToSet(Append(s, u)) = ToSet(s) \union {u}
  <1> DEFINE t == Append(s, u)
  <1>1. DOMAIN s = 1..Len(s) /\ DOMAIN t = 1..(Len(s) + 1) /\ Len(s) \in Nat
    OBVIOUS
  <1>2. t[Len(s) + 1] = u /\ \A n \in 1..Len(s) : t[n] = s[n]
    OBVIOUS
  <1>3. ASSUME NEW x \in ToSet(t) PROVE x \in ToSet(s) \union {u}
    <2>1. PICK n \in 1..(Len(s) + 1) : x = t[n]
      BY <1>1 DEF ToSet
    <2>2. CASE n = Len(s) + 1
      BY <2>1, <2>2, <1>2
    <2>3. CASE n \in 1..Len(s)
      BY <2>1, <2>3, <1>1, <1>2 DEF ToSet
    <2> QED
      BY <2>1, <2>2, <2>3, <1>1
  <1>4. ASSUME NEW x \in ToSet(s) PROVE x \in ToSet(t)
    <2>1. PICK n \in 1..Len(s) : x = s[n]
      BY <1>1 DEF ToSet
    <2>2. n \in DOMAIN t /\ t[n] = x
      BY <2>1, <1>1, <1>2
    <2> QED
      BY <2>2 DEF ToSet
  <1>5. Len(s) + 1 \in DOMAIN t /\ t[Len(s) + 1] = u
    BY <1>1, <1>2
  <1>6. u \in ToSet(t)
    BY <1>5 DEF ToSet
  <1> HIDE DEF t
  <1>7. ToSet(t) = ToSet(s) \union {u}
    BY <1>3, <1>4, <1>6
  <1> QED
    BY <1>7 DEF t

(* The empty sequence has no elements.                                     *)
LEMMA ToSetEmpty == ToSet(<<>>) = {} /\ IsFiniteSet({}) /\ Cardinality({}) = 0
  <1>1. ToSet(<<>>) = {}
    BY DEF ToSet
  <1> QED
    BY <1>1, FS_EmptySet

(* The initial states satisfy the invariant.                               *)
LEMMA InitIInv == Init => IInv
  <1> SUFFICES ASSUME Init PROVE IInv
    OBVIOUS
  <1>1. TypeOK
    BY PeopleAssumption DEF Init, TypeOK, AnyOperation, AnyUser
  <1>2. ASSUME NEW i \in Ids PROVE Approvers(i)
    BY ToSetEmpty DEF Init, Approvers
  <1> QED
    BY <1>1, <1>2 DEF IInv

(* A request that no step touches keeps what it has.                       *)
LEMMA Untouched ==
  ASSUME NEW i \in Ids, Approvers(i),
         status'[i] = status[i] \/ status'[i] \in Resolved \ {"approved"},
         status[i] = "none" => status'[i] = "none",
         approvals'[i] = approvals[i],
         operation'[i] = operation[i], requestedBy'[i] = requestedBy[i]
  PROVE  Approvers(i)'
  BY DEF Approvers, Resolved, RequiredApprovers, GetTier

(* A new request has no approvals yet, and its operation needs some.       *)
LEMMA RequestStep ==
  ASSUME IInv, NEW i \in Ids, NEW u \in Users, NEW o \in Operations,
         RequestApproval(i, u, o)
  PROVE  IInv'
  <1>1. TypeOK'
    BY DEF IInv, TypeOK, RequestApproval
  <1>2. ASSUME NEW j \in Ids, j # i PROVE Approvers(j)'
    <2>1. Approvers(j)
      BY DEF IInv
    <2> QED
      BY <1>2, <2>1, Untouched DEF IInv, TypeOK, RequestApproval
  <1>3. Approvers(i)'
    <2>1. approvals'[i] = <<>> /\ status'[i] = "pending" /\ operation'[i] = o
          /\ requestedBy'[i] = u
      BY DEF IInv, TypeOK, RequestApproval
    <2>2. RequiredApprovers(o) \in 0..2 /\ RequiredApprovers(o) > 0
      BY RequiredType DEF RequestApproval
    <2>3. RequiredApprovers(operation[i])' = RequiredApprovers(o)
      BY <2>1 DEF RequiredApprovers, GetTier
    <2> QED
      BY <2>1, <2>2, <2>3, ToSetEmpty DEF Approvers
  <1> QED
    BY <1>1, <1>2, <1>3 DEF IInv

(* An approval adds one person who was not there, and decides the request  *)
(* exactly when that is enough.                                            *)
LEMMA ApproveStep ==
  ASSUME IInv, NEW i \in Ids, NEW u \in Users, Approve(i, u)
  PROVE  IInv'
  <1> DEFINE s == approvals[i]
  <1>1. s \in Seq(Users) /\ u \notin ToSet(s) /\ requestedBy[i] # u /\ Approvers(i)
        /\ status[i] = "pending"
    BY DEF IInv, TypeOK, Approve, MayApprove
  <1>2. approvals'[i] = Append(s, u) /\ approvals' \in [Ids -> Seq(Users)]
    BY <1>1 DEF IInv, TypeOK, Approve
  <1>3. status'[i] = IF Enough(i) THEN "approved" ELSE "pending"
    BY <1>1 DEF IInv, TypeOK, Approve
  <1>4. TypeOK'
    <2>1. status' \in [Ids -> {"none", "pending"} \union Resolved]
      BY <1>1 DEF IInv, TypeOK, Approve, Resolved
    <2> QED
      BY <2>1, <1>2 DEF IInv, TypeOK, Approve
  <1>5. ASSUME NEW j \in Ids, j # i PROVE Approvers(j)'
    <2>1. Approvers(j)
      BY DEF IInv
    <2>2. status'[j] = status[j] /\ approvals'[j] = approvals[j]
          /\ operation'[j] = operation[j] /\ requestedBy'[j] = requestedBy[j]
      BY <1>5 DEF IInv, TypeOK, Approve
    <2> QED
      BY <2>1, <2>2, Untouched
  <1>6. Approvers(i)'
    <2>1. ToSet(Append(s, u)) = ToSet(s) \union {u}
      BY <1>1, ToSetAppend
    <2>2. IsFiniteSet(ToSet(s)) /\ Cardinality(ToSet(s)) = Len(s)
      BY <1>1 DEF Approvers
    <2>3. IsFiniteSet(ToSet(s) \union {u})
          /\ Cardinality(ToSet(s) \union {u}) = Len(s) + 1
      BY <1>1, <2>2, FS_AddElement
    <2>4. Len(Append(s, u)) = Len(s) + 1 /\ Len(s) \in Nat /\ Append(s, u) # <<>>
      BY <1>1
    <2>5. requestedBy[i] \notin ToSet(s)
      BY <1>1 DEF Approvers
    <2>6. requestedBy'[i] = requestedBy[i] /\ operation'[i] = operation[i]
      BY DEF Approve
    <2>7. RequiredApprovers(operation[i])' = RequiredApprovers(operation[i])
          /\ RequiredApprovers(operation[i]) \in 0..2
      BY <2>6, RequiredType DEF RequiredApprovers, GetTier
    <2>8. Enough(i) <=> Len(s) + 1 >= RequiredApprovers(operation[i])
      BY <1>2, <2>4 DEF Enough
    <2>9. status'[i] = "approved" <=> Len(s) + 1 >= RequiredApprovers(operation[i])
      BY <1>3, <2>8
    <2>10. status'[i] \in {"approved", "pending"}
      BY <1>3
    <2>11. (IsFiniteSet(ToSet(approvals[i]))
            /\ Cardinality(ToSet(approvals[i])) = Len(approvals[i])
            /\ requestedBy[i] \notin ToSet(approvals[i]))'
      BY <1>1, <1>2, <2>1, <2>3, <2>4, <2>5, <2>6
    <2> QED
      BY <1>2, <2>4, <2>7, <2>9, <2>10, <2>11 DEF Approvers
  <1> QED
    BY <1>4, <1>5, <1>6 DEF IInv

(* What rejecting, cancelling, expiring and the clock have in common: they *)
(* add no approval, and move nothing but a pending request.                *)
Closing ==
  /\ UNCHANGED <<operation, requestedBy, approvals>>
  /\ overdue' \in SUBSET Ids
  /\ status' \in [Ids -> {"none", "pending"} \union Resolved]
  /\ \A i \in Ids : \/ status'[i] = status[i]
                    \/ status[i] = "pending" /\ status'[i] \in Resolved \ {"approved"}

(* All the steps but two are closing steps.                                *)
LEMMA ClosingSteps ==
  ASSUME TypeOK, [Next]_vars
  PROVE  \/ Closing
         \/ \E i \in Ids, u \in Users, o \in Operations : RequestApproval(i, u, o)
         \/ \E i \in Ids, u \in Users : Approve(i, u)
  <1>1. ASSUME NEW i \in Ids, NEW u \in Users, Reject(i, u) PROVE Closing
    BY <1>1 DEF Reject, TypeOK, Resolved, Closing
  <1>2. ASSUME NEW i \in Ids, NEW u \in Users, Cancel(i, u) PROVE Closing
    BY <1>2 DEF Cancel, TypeOK, Resolved, Closing
  <1>3. ASSUME NEW i \in Ids, CheckApprovalStatus(i) PROVE Closing
    BY <1>3 DEF CheckApprovalStatus, TypeOK, Resolved, Closing
  <1>4. ASSUME NEW i \in Ids, TimePasses(i) PROVE Closing
    BY <1>4 DEF TimePasses, TypeOK, Resolved, Closing
  <1>5. CASE ListPendingApprovals
    BY <1>5 DEF ListPendingApprovals, TypeOK, Resolved, Closing
  <1>6. CASE UNCHANGED vars
    BY <1>6 DEF vars, TypeOK, Resolved, Closing
  <1> QED
    BY <1>1, <1>2, <1>3, <1>4, <1>5, <1>6 DEF Next, Act

(* Closing steps preserve the invariant.                                   *)
LEMMA CloseStep ==
  ASSUME IInv, Closing
  PROVE  IInv'
  <1>1. TypeOK'
    BY DEF IInv, TypeOK, Closing
  <1>2. ASSUME NEW i \in Ids PROVE Approvers(i)'
    <2>1. Approvers(i)
      BY DEF IInv
    <2>2. status[i] = "none" => status'[i] = "none"
      BY DEF Closing
    <2>3. status'[i] = status[i] \/ status'[i] \in Resolved \ {"approved"}
      BY DEF Closing
    <2> QED
      BY <2>1, <2>2, <2>3, Untouched DEF Closing
  <1> QED
    BY <1>1, <1>2 DEF IInv

(* Every step preserves the invariant.                                     *)
LEMMA NextIInv == IInv /\ [Next]_vars => IInv'
  <1> SUFFICES ASSUME IInv, [Next]_vars PROVE IInv'
    OBVIOUS
  <1>1. ASSUME NEW i \in Ids, NEW u \in Users, NEW o \in Operations,
               RequestApproval(i, u, o)
        PROVE  IInv'
    BY <1>1, RequestStep
  <1>2. ASSUME NEW i \in Ids, NEW u \in Users, Approve(i, u) PROVE IInv'
    BY <1>2, ApproveStep
  <1>3. CASE Closing
    BY <1>3, CloseStep
  <1>4. TypeOK
    BY DEF IInv
  <1> QED
    BY <1>1, <1>2, <1>3, <1>4, ClosingSteps

(* The inductive invariant holds in every behaviour.                       *)
THEOREM Invariance == Spec => []IInv
  BY InitIInv, NextIInv, PTL DEF Spec

(* Every variable keeps its type.                                          *)
THEOREM TypeCorrect == Spec => []TypeOK
  <1>1. IInv => TypeOK
    BY DEF IInv
  <1> QED
    BY <1>1, Invariance, PTL

(* Approved operations have the approvers their tier asks for.             *)
THEOREM TwoPairsOfEyes == Spec => []FourEyes
  <1>1. IInv => FourEyes
    BY DEF IInv, Approvers, FourEyes
  <1> QED
    BY <1>1, Invariance, PTL

(* The last approval decides a request.                                    *)
THEOREM LastApprovalDecides == Spec => []NoSilentApproval
  <1>1. IInv => NoSilentApproval
    BY DEF IInv, Approvers, NoSilentApproval
  <1> QED
    BY <1>1, Invariance, PTL

(* The step behind DecisionFinal.                                          *)
LEMMA DecisionStep ==
  ASSUME TypeOK, [Next]_vars, NEW i \in Ids, status[i] \in Resolved
  PROVE  status'[i] = status[i] /\ approvals'[i] = approvals[i]
  <1>1. ASSUME NEW j \in Ids, NEW u \in Users, NEW o \in Operations,
               RequestApproval(j, u, o)
        PROVE  status'[i] = status[i] /\ approvals'[i] = approvals[i]
    BY <1>1 DEF RequestApproval, TypeOK, Resolved
  <1>2. ASSUME NEW j \in Ids, NEW u \in Users, Approve(j, u)
        PROVE  status'[i] = status[i] /\ approvals'[i] = approvals[i]
    BY <1>2 DEF Approve, TypeOK, Resolved
  <1>3. ASSUME Closing
        PROVE  status'[i] = status[i] /\ approvals'[i] = approvals[i]
    BY <1>3 DEF Closing, Resolved
  <1> QED
    BY <1>1, <1>2, <1>3, ClosingSteps

(* A decision is never changed.                                            *)
THEOREM DecisionsFinal == Spec => DecisionFinal
  <1>1. TypeOK /\ [Next]_vars =>
          [\A i \in Ids : status[i] \in Resolved =>
             status'[i] = status[i] /\ approvals'[i] = approvals[i]]_vars
    BY DecisionStep
  <1> QED
    BY <1>1, TypeCorrect, PTL DEF Spec, DecisionFinal

-----------------------------------------------------------------------------
(***************************************************************************)
(* The safety gates.                                                       *)
(***************************************************************************)
(* The gates that come with the product.                                   *)
BuiltIn == GateNames \ {"custom"}

(* What a built-in gate says of an artifact at a level, reviewed or not.   *)
Strictly(level) == IF level = "strict" THEN "failed" ELSE "warning"

Says(gate, a, level, reviewed) ==
  CASE gate = "live-mode-audit" -> "passed"
    [] gate = "syntax-check" -> IF a.syntax = "clean" THEN "passed" ELSE "failed"
    [] gate = "atc-check" -> IF a.atc = "critical" THEN "failed"
                             ELSE IF a.atc = "minor" THEN Strictly(level) ELSE "passed"
    [] gate = "naming-convention" -> IF a.naming = "error" THEN "failed"
                                     ELSE IF a.naming = "warning" THEN Strictly(level) ELSE "passed"
    [] gate = "transport-required" ->
         IF a.transport = "none" /\ level = "permissive" /\ a.kind # "configuration" THEN "warning"
         ELSE IF a.transport = "valid" THEN "passed" ELSE "failed"
    [] gate = "unit-test-coverage" -> IF a.tests THEN "passed" ELSE Strictly(level)
    [] gate = "human-approval" ->
         IF level = "permissive" \/ reviewed THEN "passed"
         ELSE IF level = "moderate" THEN "warning" ELSE "pending_review"

(* A result of the artifact that c validates is what its gate says at one  *)
(* of the levels in force, with the approvals of one moment since c began. *)
Grounded(c, g) ==
  LET a == Head(queue[c]) IN
    /\ Applicable(g.name, a) /\ g.required = Required(g.name)
    /\ \E level \in during[c], reviewed \in BOOLEAN :
         /\ knew[c] => reviewed
         /\ reviewed => IsApproved(a.name)
         /\ g.status = Says(g.name, a, level, reviewed)

Running(c) ==
  LET a == Head(queue[c]) IN
    /\ queue[c] # <<>> /\ strictness \in during[c]
    /\ knew[c] => IsApproved(a.name)
    /\ \A n \in BuiltIn :
         Applicable(n, a) =>
           \/ [name |-> n, required |-> Required(n)] \in todo[c]
           \/ \E g \in results[c] : g.name = n
    /\ \A gate \in todo[c] :
         gate.name # "custom" =>
           Applicable(gate.name, a) /\ gate.required = Required(gate.name)
    /\ \A g \in results[c] : g.name # "custom" => Grounded(c, g)

ChecksInv ==
  \A c \in Calls : IF during[c] = {} THEN todo[c] = {} /\ results[c] = {} ELSE Running(c)

SafetyInv == SafetyTypeOK /\ ChecksInv /\ ApprovedMeetsWeakest /\ BlockedFailsStrictest

-----------------------------------------------------------------------------
(* The gates                                                               *)

LEMMA GateNamesAre ==
  GateNames = {"live-mode-audit", "syntax-check", "atc-check", "naming-convention",
               "transport-required", "unit-test-coverage", "custom", "human-approval"}
  <1>1. DOMAIN ByPriority = 1..8
    BY DEF ByPriority
  <1> QED
    BY <1>1 DEF GateNames, ByPriority

LEMMA GatesAre ==
  ASSUME NEW n \in BuiltIn
  PROVE  n \in {"live-mode-audit", "syntax-check", "atc-check", "naming-convention",
                "transport-required", "unit-test-coverage", "human-approval"}
  BY GateNamesAre DEF BuiltIn

LEMMA HeadIsArtifact ==
  ASSUME SafetyTypeOK, NEW c \in Calls, queue[c] # <<>>
  PROVE  Head(queue[c]) \in Artifacts
  BY DEF SafetyTypeOK

(* A built-in gate has one outcome.                                        *)
LEMMA OutcomeIs ==
  ASSUME SafetyTypeOK, NEW a \in Artifacts, NEW n \in BuiltIn
  PROVE  /\ Outcomes(n, a) = {Says(n, a, strictness, IsApproved(a.name))}
         /\ Says(n, a, strictness, IsApproved(a.name)) \in Statuses
  <1> DEFINE r == IsApproved(a.name)
  <1>1. /\ strictness \in {"strict", "moderate", "permissive"}
        /\ a.syntax \in {"clean", "broken"} /\ a.atc \in {"clean", "minor", "critical"}
        /\ a.naming \in {"good", "warning", "error"} /\ a.transport \in {"valid", "invalid", "none"}
        /\ a.tests \in BOOLEAN
    BY DEF SafetyTypeOK, Levels, Artifacts
  <1>2. FailsIfStrict = Strictly(strictness) /\ Strictly(strictness) \in {"failed", "warning"}
    BY DEF FailsIfStrict, Strictly
  <1>3. CASE n = "live-mode-audit"
    BY <1>3 DEF Outcomes, Says, Statuses
  <1>4. CASE n = "syntax-check"
    BY <1>1, <1>4 DEF Outcomes, Says, Statuses, CheckSyntax
  <1>5. CASE n = "atc-check"
    BY <1>1, <1>2, <1>5 DEF Outcomes, Says, Statuses, CheckAtc
  <1>6. CASE n = "naming-convention"
    BY <1>1, <1>2, <1>6 DEF Outcomes, Says, Statuses, CheckNamingConvention
  <1>7. CASE n = "transport-required"
    BY <1>1, <1>7 DEF Outcomes, Says, Statuses, CheckTransportRequired
  <1>8. CASE n = "unit-test-coverage"
    BY <1>1, <1>2, <1>8 DEF Outcomes, Says, Statuses, CheckUnitTestCoverage
  <1>9. CASE n = "human-approval"
    <2> HIDE DEF r
    <2>1. CheckHumanApproval(a) = Says(n, a, strictness, IsApproved(a.name))
      BY <1>1, <1>9 DEF Says, CheckHumanApproval
    <2>2. Outcomes(n, a) = {CheckHumanApproval(a)}
      BY <1>9 DEF Outcomes
    <2>3. Says(n, a, strictness, IsApproved(a.name)) \in Statuses
      BY <1>1, <1>9 DEF Says, Statuses
    <2> QED
      BY <2>1, <2>2, <2>3
  <1> QED
    BY <1>3, <1>4, <1>5, <1>6, <1>7, <1>8, <1>9, GatesAre

(* The configuration of a built-in gate is fixed.                          *)
LEMMA BuiltInFixed ==
  ASSUME NEW n \in BuiltIn, NEW a \in Artifacts
  PROVE  /\ Required(n)' = Required(n)
         /\ Applicable(n, a)' = Applicable(n, a)
         /\ Required(n) = (n \notin {"live-mode-audit", "unit-test-coverage"})
  <1>1. n # "custom"
    BY DEF BuiltIn
  <1>2. Required(n) = (n \notin {"live-mode-audit", "unit-test-coverage"})
    BY <1>1 DEF Required
  <1>3. Required(n)' = (n \notin {"live-mode-audit", "unit-test-coverage"})
    BY <1>1 DEF Required
  <1>4. Applicable(n, a)' = Applicable(n, a)
    BY GatesAre DEF Applicable
  <1> QED
    BY <1>2, <1>3, <1>4

LEMMA GatesForType ==
  ASSUME NEW a
  PROVE  GatesFor(a) \in SUBSET [name : GateNames, required : BOOLEAN]
  <1>1. ASSUME NEW n
        PROVE  Required(n) \in BOOLEAN
    BY Zenon DEF Required
  <1> QED
    BY <1>1 DEF GatesFor

-----------------------------------------------------------------------------
(* What a verdict says about its artifact                                  *)

LEMMA Levelled ==
  ASSUME NEW D \in SUBSET Levels, NEW level \in D
  PROVE  /\ Weakest(D) \in Levels /\ Strictest(D) \in Levels
         /\ Weakest(D) = "strict" => level = "strict"
         /\ level = "permissive" => Weakest(D) = "permissive"
         /\ level = "strict" => Strictest(D) = "strict"
         /\ Strictest(D) = "permissive" => level = "permissive"
  BY DEF Levels, Weakest, Strictest

(* All gates have run and no required one has objected.                    *)
LEMMA NoObjection ==
  ASSUME SafetyTypeOK, NEW c \in Calls, during[c] # {}, Running(c),
         todo[c] = {}, ~HasRequiredFailure(c)
  PROVE  Meets(Weakest(during[c]), Head(queue[c]), IsApproved(Head(queue[c]).name))
  <1> DEFINE a == Head(queue[c])
             W == Weakest(during[c])
  <1>1. a \in Artifacts
    BY HeadIsArtifact DEF Running
  <1>2. ASSUME NEW n \in BuiltIn, Applicable(n, a),
               n \notin {"live-mode-audit", "unit-test-coverage"}
        PROVE  \E level \in during[c], reviewed \in BOOLEAN :
                 /\ reviewed => IsApproved(a.name)
                 /\ Says(n, a, level, reviewed) \notin {"failed", "pending_review"}
    <2>1. PICK g \in results[c] : g.name = n
      BY <1>2 DEF Running
    <2>2. Grounded(c, g)
      BY <2>1 DEF Running, BuiltIn
    <2>3. g.required
      BY <1>1, <1>2, <2>1, <2>2, BuiltInFixed DEF Grounded
    <2>4. g.status \notin {"failed", "pending_review"}
      BY <2>3 DEF HasRequiredFailure
    <2> QED
      BY <2>1, <2>2, <2>4 DEF Grounded
  <1>3. during[c] \in SUBSET Levels
    BY DEF SafetyTypeOK
  <1>4. /\ a.syntax \in {"clean", "broken"} /\ a.atc \in {"clean", "minor", "critical"}
        /\ a.naming \in {"good", "warning", "error"} /\ a.transport \in {"valid", "invalid", "none"}
        /\ a.kind \in {"code", "interface", "include", "configuration", "other"}
    BY <1>1 DEF Artifacts
  <1>5. {"syntax-check", "atc-check", "naming-convention", "transport-required", "human-approval"}
          \subseteq BuiltIn
    BY GateNamesAre DEF BuiltIn
  <1> HIDE DEF a
  <1>6. a.syntax = "clean" \/ a.kind \in {"configuration", "other"}
    <2> SUFFICES ASSUME a.kind \in {"code", "interface", "include"} PROVE a.syntax = "clean"
      BY <1>4
    <2>1. Applicable("syntax-check", a)
      BY DEF Applicable
    <2>2. PICK level \in during[c], reviewed \in BOOLEAN :
            Says("syntax-check", a, level, reviewed) \notin {"failed", "pending_review"}
      BY <1>2, <1>5, <2>1
    <2> QED
      BY <2>2 DEF Says
  <1>7. ASSUME a.kind \in {"code", "interface"}
        PROVE  a.atc \in (IF W = "strict" THEN {"clean"} ELSE {"clean", "minor"})
    <2>1. Applicable("atc-check", a)
      BY <1>7 DEF Applicable
    <2>2. PICK level \in during[c], reviewed \in BOOLEAN :
            Says("atc-check", a, level, reviewed) \notin {"failed", "pending_review"}
      BY <1>2, <1>5, <2>1
    <2>3. a.atc # "critical" /\ (a.atc = "minor" => level # "strict")
      BY <2>2 DEF Says, Strictly
    <2> QED
      BY <1>3, <1>4, <2>3, Levelled
  <1>8. a.naming \in (IF W = "strict" THEN {"good"} ELSE {"good", "warning"})
    <2>1. Applicable("naming-convention", a)
      BY DEF Applicable
    <2>2. PICK level \in during[c], reviewed \in BOOLEAN :
            Says("naming-convention", a, level, reviewed) \notin {"failed", "pending_review"}
      BY <1>2, <1>5, <2>1
    <2>3. a.naming # "error" /\ (a.naming = "warning" => level # "strict")
      BY <2>2 DEF Says, Strictly
    <2> QED
      BY <1>3, <1>4, <2>3, Levelled
  <1>9. \/ a.transport = "valid"
        \/ a.transport = "none" /\ W = "permissive" /\ a.kind # "configuration"
    <2>1. Applicable("transport-required", a)
      BY DEF Applicable
    <2>2. PICK level \in during[c], reviewed \in BOOLEAN :
            Says("transport-required", a, level, reviewed) \notin {"failed", "pending_review"}
      BY <1>2, <1>5, <2>1
    <2>3. \/ a.transport = "valid"
          \/ a.transport = "none" /\ level = "permissive" /\ a.kind # "configuration"
      BY <2>2 DEF Says
    <2> QED
      BY <1>3, <2>3, Levelled
  <1>10. W = "strict" => IsApproved(a.name)
    <2>1. Applicable("human-approval", a)
      BY DEF Applicable
    <2>2. PICK level \in during[c], reviewed \in BOOLEAN :
            /\ reviewed => IsApproved(a.name)
            /\ Says("human-approval", a, level, reviewed) \notin {"failed", "pending_review"}
      BY <1>2, <1>5, <2>1
    <2>3. level = "strict" => reviewed
      BY <2>2 DEF Says
    <2> QED
      BY <1>3, <2>2, <2>3, Levelled
  <1>11. Meets(W, a, IsApproved(a.name))
    BY <1>6, <1>7, <1>8, <1>9, <1>10 DEF Meets
  <1> QED
    BY <1>11 DEF a

(* A required gate has objected.                                           *)
LEMMA Objection ==
  ASSUME SafetyTypeOK, NEW c \in Calls, during[c] # {}, Running(c),
         NEW g \in results[c], g.required, g.status \in {"failed", "pending_review"}, g.name # "custom"
  PROVE  ~Meets(Strictest(during[c]), Head(queue[c]), knew[c])
  <1> DEFINE a == Head(queue[c])
             S == Strictest(during[c])
  <1>1. a \in Artifacts
    BY HeadIsArtifact DEF Running
  <1>2. /\ a.syntax \in {"clean", "broken"} /\ a.atc \in {"clean", "minor", "critical"}
        /\ a.naming \in {"good", "warning", "error"} /\ a.transport \in {"valid", "invalid", "none"}
    BY <1>1 DEF Artifacts
  <1>3. during[c] \in SUBSET Levels /\ g.name \in BuiltIn
    BY DEF SafetyTypeOK, GateResults, BuiltIn
  <1>4. Grounded(c, g)
    BY DEF Running
  <1>5. g.name \notin {"live-mode-audit", "unit-test-coverage"} /\ Applicable(g.name, a)
    BY <1>1, <1>3, <1>4, BuiltInFixed DEF Grounded
  <1>6. PICK level \in during[c], reviewed \in BOOLEAN :
          (knew[c] => reviewed) /\ g.status = Says(g.name, a, level, reviewed)
    BY <1>4 DEF Grounded
  <1>7. /\ level = "strict" => S = "strict"
        /\ S = "permissive" => level = "permissive"
        /\ level \in Levels
    BY <1>3, Levelled
  <1> HIDE DEF a, S
  <1>8. CASE g.name = "syntax-check"
    BY <1>2, <1>5, <1>6, <1>8 DEF Says, Applicable, Meets, a, S
  <1>9. CASE g.name = "atc-check"
    <2>1. a.kind \in {"code", "interface"}
      BY <1>5, <1>9 DEF Applicable
    <2>2. a.atc = "critical" \/ (a.atc = "minor" /\ level = "strict")
      BY <1>2, <1>6, <1>9 DEF Says, Strictly
    <2>3. a.atc \notin (IF S = "strict" THEN {"clean"} ELSE {"clean", "minor"})
      BY <1>7, <2>2
    <2> QED
      BY <2>1, <2>3 DEF Meets, a, S
  <1>10. CASE g.name = "naming-convention"
    <2>1. a.naming = "error" \/ (a.naming = "warning" /\ level = "strict")
      BY <1>2, <1>6, <1>10 DEF Says, Strictly
    <2>2. a.naming \notin (IF S = "strict" THEN {"good"} ELSE {"good", "warning"})
      BY <1>7, <2>1
    <2> QED
      BY <2>2 DEF Meets, a, S
  <1>11. CASE g.name = "transport-required"
    <2>1. a.transport # "valid" /\ ~(a.transport = "none" /\ level = "permissive" /\ a.kind # "configuration")
      BY <1>2, <1>6, <1>11 DEF Says
    <2> QED
      BY <1>7, <2>1 DEF Meets, a, S
  <1>12. CASE g.name = "human-approval"
    <2>1. level = "strict" /\ ~reviewed
      BY <1>6, <1>7, <1>12 DEF Says, Levels
    <2> QED
      BY <1>6, <1>7, <2>1 DEF Meets, a, S
  <1> QED
    BY <1>3, <1>5, <1>8, <1>9, <1>10, <1>11, <1>12, GatesAre

-----------------------------------------------------------------------------
(* What the other calls and the people leave as it is                      *)

LEMMA IdsOfRequests ==
  ASSUME SafetyTypeOK
  PROVE  DOMAIN requested = 1..Len(requested) /\ DOMAIN requested \subseteq RequestIds
  BY BoundsAssumption DEF SafetyTypeOK, RequestIds

(* What is approved stays approved.                                        *)
LEMMA ApprovedGrows ==
  ASSUME SafetyTypeOK, [SafetyNext]_safetyVars, NEW name, IsApproved(name)
  PROVE  IsApproved(name)'
  <1>1. PICK i \in DOMAIN requested : requested[i] = name /\ approval[i] = "approved"
    BY DEF IsApproved
  <1>2. /\ DOMAIN requested = 1..Len(requested) /\ i \in RequestIds
        /\ approval \in [RequestIds -> {"pending", "approved", "rejected"}]
        /\ requested \in Seq(Names)
    BY <1>1, IdsOfRequests DEF SafetyTypeOK
  <1>3. CASE UNCHANGED reviews
    BY <1>1, <1>3 DEF reviews, IsApproved
  <1>4. ASSUME NEW n \in Names, RequestApprovalFor(n)
        PROVE  IsApproved(name)'
    <2>1. i \in DOMAIN requested' /\ requested'[i] = name
      BY <1>1, <1>2, <1>4 DEF RequestApprovalFor
    <2>2. approval'[i] = "approved"
      BY <1>1, <1>4 DEF RequestApprovalFor
    <2> QED
      BY <2>1, <2>2 DEF IsApproved
  <1>5. ASSUME NEW j \in RequestIds, ApproveArtifact(j) \/ RejectArtifact(j)
        PROVE  IsApproved(name)'
    <2>1. requested' = requested /\ approval'[i] = "approved"
      BY <1>1, <1>2, <1>5 DEF ApproveArtifact, RejectArtifact
    <2> QED
      BY <1>1, <2>1 DEF IsApproved
  <1>6. CASE UNCHANGED safetyVars
    BY <1>3, <1>6 DEF safetyVars
  <1>7. ASSUME NEW c \in Calls,
               (\E b \in Batches : Validate(c, b)) \/ ValidateNext(c)
               \/ RunGate(c) \/ Finish(c)
        PROVE  UNCHANGED reviews
    BY <1>7 DEF Validate, ValidateNext, Begin, RunGate, Finish
  <1>8. ASSUME (\E level \in Levels : SetStrictness(level))
               \/ \E kind \in {"optional", "required"} : RegisterGate(kind)
        PROVE  UNCHANGED reviews
    BY <1>8 DEF SetStrictness, RegisterGate
  <1> QED
    BY <1>3, <1>4, <1>5, <1>6, <1>7, <1>8 DEF SafetyNext

(* A validation stays sound while others act: the levels in force and the  *)
(* approvals only grow.                                                    *)
LEMMA RunningStays ==
  ASSUME SafetyTypeOK, [SafetyNext]_safetyVars, NEW c \in Calls, Running(c),
         queue'[c] = queue[c], todo'[c] = todo[c], results'[c] = results[c], knew'[c] = knew[c],
         during[c] \subseteq during'[c], strictness' \in during'[c]
  PROVE  Running(c)'
  <1>1. PICK a : a = Head(queue[c])
    OBVIOUS
  <1>2. a \in Artifacts /\ a = Head(queue'[c]) /\ queue[c] # <<>>
    BY <1>1, HeadIsArtifact DEF Running
  <1>3. IsApproved(a.name) => IsApproved(a.name)'
    BY ApprovedGrows
  <1>4. \A n \in BuiltIn :
          Required(n)' = Required(n) /\ Applicable(n, a)' = Applicable(n, a)
    BY <1>2, BuiltInFixed
  <1>5. \A n \in BuiltIn :
          Applicable(n, a)' =>
            \/ [name |-> n, required |-> Required(n)'] \in todo'[c]
            \/ \E g \in results'[c] : g.name = n
    BY <1>1, <1>4 DEF Running
  <1>6. ASSUME NEW gate \in todo'[c], gate.name # "custom"
        PROVE  Applicable(gate.name, a)' /\ gate.required = Required(gate.name)'
    <2>1. gate.name \in BuiltIn
      BY <1>6 DEF SafetyTypeOK, BuiltIn
    <2>2. Applicable(gate.name, a) /\ gate.required = Required(gate.name)
      BY <1>1, <1>6 DEF Running
    <2> QED
      BY <1>4, <2>1, <2>2
  <1>7. ASSUME NEW g \in results'[c], g.name # "custom"
        PROVE  Grounded(c, g)'
    <2>1. g.name \in BuiltIn
      BY <1>7 DEF SafetyTypeOK, BuiltIn, GateResults
    <2>2. Grounded(c, g)
      BY <1>7 DEF Running
    <2>3. Applicable(g.name, a)' /\ g.required = Required(g.name)'
      BY <1>1, <1>4, <2>1, <2>2 DEF Grounded
    <2>4. PICK level \in during[c], reviewed \in BOOLEAN :
            /\ knew[c] => reviewed
            /\ reviewed => IsApproved(a.name)
            /\ g.status = Says(g.name, a, level, reviewed)
      BY <1>1, <2>2 DEF Grounded
    <2>5. /\ level \in during'[c] /\ knew'[c] => reviewed
          /\ reviewed => IsApproved(a.name)'
      BY <1>3, <2>4
    <2> QED
      BY <1>2, <2>3, <2>4, <2>5 DEF Grounded
  <1>8. knew'[c] => IsApproved(a.name)'
    BY <1>1, <1>3 DEF Running
  <1> QED
    BY <1>2, <1>5, <1>6, <1>7, <1>8 DEF Running

(* A verdict that satisfies the policy goes on satisfying it.              *)
LEMMA VerdictsStay ==
  ASSUME SafetyTypeOK, [SafetyNext]_safetyVars,
         ApprovedMeetsWeakest, BlockedFailsStrictest,
         NEW v \in Verdicts
  PROVE  /\ v.approved =>
              Meets(Weakest(v.during), v.artifact, IsApproved(v.artifact.name)')
         /\ ~v.approved => v.vetoed \/ ~Meets(Strictest(v.during), v.artifact, v.knew)
  <1>1. IsApproved(v.artifact.name) => IsApproved(v.artifact.name)'
    BY ApprovedGrows
  <1>2. ASSUME v.approved
        PROVE  Meets(Weakest(v.during), v.artifact, IsApproved(v.artifact.name)')
    <2>1. Meets(Weakest(v.during), v.artifact, IsApproved(v.artifact.name))
      BY <1>2 DEF ApprovedMeetsWeakest
    <2> QED
      BY <1>1, <2>1 DEF Meets
  <1> QED
    BY <1>2 DEF BlockedFailsStrictest

LEMMA SameVerdicts ==
  ASSUME SafetyTypeOK, [SafetyNext]_safetyVars,
         ApprovedMeetsWeakest, BlockedFailsStrictest,
         audit' = audit
  PROVE  ApprovedMeetsWeakest' /\ BlockedFailsStrictest'
  <1>1. Verdicts' = Verdicts
    BY DEF Verdicts
  <1>2. ASSUME NEW v \in Verdicts'
        PROVE  /\ v.approved =>
                    Meets(Weakest(v.during), v.artifact, IsApproved(v.artifact.name)')
               /\ ~v.approved => v.vetoed \/ ~Meets(Strictest(v.during), v.artifact, v.knew)
    BY <1>1, <1>2, VerdictsStay
  <1>3. ApprovedMeetsWeakest'
    BY <1>2 DEF ApprovedMeetsWeakest, Meets
  <1>4. BlockedFailsStrictest'
    BY <1>2 DEF BlockedFailsStrictest, Meets
  <1> QED
    BY <1>3, <1>4

(* A call that is left alone stays idle or stays sound.                    *)
LEMMA OthersStay ==
  ASSUME SafetyTypeOK, [SafetyNext]_safetyVars, ChecksInv, NEW d \in Calls,
         queue'[d] = queue[d], todo'[d] = todo[d], results'[d] = results[d], knew'[d] = knew[d],
         during'[d] = during[d], strictness' = strictness
  PROVE  IF during'[d] = {} THEN todo'[d] = {} /\ results'[d] = {} ELSE Running(d)'
  <1>1. CASE during[d] = {}
    BY <1>1 DEF ChecksInv
  <1>2. CASE during[d] # {}
    <2>1. Running(d)
      BY <1>2 DEF ChecksInv
    <2>2. strictness \in during[d]
      BY <2>1 DEF Running
    <2> QED
      BY <1>2, <2>1, <2>2, RunningStays
  <1> QED
    BY <1>1, <1>2

-----------------------------------------------------------------------------
(* The steps                                                               *)

LEMMA BeginStep ==
  ASSUME SafetyInv, [SafetyNext]_safetyVars,
         NEW c \in Calls, NEW artifacts \in Seq(Artifacts),
         artifacts # <<>>, during[c] = {}, Begin(c, artifacts)
  PROVE  SafetyInv'
  <1> USE DEF SafetyInv
  <1>1. PICK a : a = Head(artifacts)
    OBVIOUS
  <1>2. a \in Artifacts
    BY <1>1
  <1>3. /\ queue' = [queue EXCEPT ![c] = artifacts]
        /\ todo' = [todo EXCEPT ![c] = GatesFor(a)]
        /\ during' = [during EXCEPT ![c] = {strictness}]
        /\ knew' = [knew EXCEPT ![c] = IsApproved(a.name)]
        /\ UNCHANGED <<strictness, changes, custom, requested, approval, results, audit>>
    BY <1>1 DEF Begin, reviews
  <1>4. SafetyTypeOK'
    <2>1. GatesFor(a) \in SUBSET [name : GateNames, required : BOOLEAN]
      BY GatesForType
    <2>2. IsApproved(a.name) \in BOOLEAN
      BY Zenon DEF IsApproved
    <2>3. knew' \in [Calls -> BOOLEAN]
      BY <1>3, <2>2 DEF SafetyTypeOK
    <2>4. todo' \in [Calls -> SUBSET [name : GateNames, required : BOOLEAN]]
      BY <1>3, <2>1 DEF SafetyTypeOK
    <2>5. queue' \in [Calls -> Seq(Artifacts)]
      BY <1>3 DEF SafetyTypeOK
    <2>6. during' \in [Calls -> SUBSET Levels]
      BY <1>3 DEF SafetyTypeOK
    <2> QED
      BY <1>3, <2>3, <2>4, <2>5, <2>6 DEF SafetyTypeOK
  <1>5. Running(c)'
    <2>1. /\ queue'[c] = artifacts /\ todo'[c] = GatesFor(a) /\ during'[c] = {strictness}
          /\ results'[c] = {} /\ strictness' = strictness
      BY <1>3 DEF SafetyTypeOK, ChecksInv
    <2>2. \A n \in BuiltIn :
          Required(n)' = Required(n) /\ Applicable(n, a)' = Applicable(n, a)
      BY <1>2, BuiltInFixed
    <2>3. knew'[c] => IsApproved(a.name)'
      BY <1>3 DEF SafetyTypeOK, IsApproved
    <2>4. \A n \in BuiltIn :
            Applicable(n, a)' => [name |-> n, required |-> Required(n)'] \in todo'[c]
      <3>1. SUFFICES ASSUME NEW n \in BuiltIn, Applicable(n, a)
                     PROVE  [name |-> n, required |-> Required(n)] \in GatesFor(a)
        BY <2>1, <2>2
      <3> QED
        BY <3>1 DEF GatesFor, BuiltIn
    <2>5. ASSUME NEW gate \in todo'[c], gate.name # "custom"
          PROVE  Applicable(gate.name, a)' /\ gate.required = Required(gate.name)'
      <3>1. PICK n \in GateNames :
              Applicable(n, a) /\ gate = [name |-> n, required |-> Required(n)]
        BY <2>1, <2>5 DEF GatesFor
      <3>2. n \in BuiltIn /\ gate.name = n /\ gate.required = Required(n)
        BY <2>5, <3>1 DEF BuiltIn
      <3> QED
        BY <2>2, <3>1, <3>2
    <2> QED
      BY <1>1, <2>1, <2>3, <2>4, <2>5 DEF Running
  <1>6. ASSUME NEW d \in Calls, d # c
        PROVE  IF during'[d] = {} THEN todo'[d] = {} /\ results'[d] = {} ELSE Running(d)'
    <2>1. /\ queue'[d] = queue[d] /\ todo'[d] = todo[d] /\ results'[d] = results[d]
          /\ knew'[d] = knew[d] /\ during'[d] = during[d] /\ strictness' = strictness
      BY <1>3, <1>6 DEF SafetyTypeOK
    <2> QED
      BY <2>1, OthersStay
  <1>7. during'[c] # {}
    BY <1>3 DEF SafetyTypeOK
  <1>8. ChecksInv'
    BY <1>5, <1>6, <1>7 DEF ChecksInv
  <1>9. ApprovedMeetsWeakest' /\ BlockedFailsStrictest'
    BY <1>3, SameVerdicts
  <1> QED
    BY <1>4, <1>8, <1>9

LEMMA RunGateStep ==
  ASSUME SafetyInv, [SafetyNext]_safetyVars, NEW c \in Calls, RunGate(c)
  PROVE  SafetyInv'
  <1> USE DEF SafetyInv
  <1>0. PICK gate \in todo[c] :
          /\ \E outcome \in Outcomes(gate.name, Head(queue[c])) :
               results' = [results EXCEPT ![c] = @ \union
                 {[name |-> gate.name, required |-> gate.required, status |-> outcome]}]
          /\ todo' = [todo EXCEPT ![c] = @ \ {gate}]
          /\ UNCHANGED <<strictness, changes, custom, requested, approval, queue, audit, during, knew>>
    BY DEF RunGate, reviews
  <1>1. PICK outcome \in Outcomes(gate.name, Head(queue[c])) :
          /\ results' = [results EXCEPT ![c] = @ \union
               {[name |-> gate.name, required |-> gate.required, status |-> outcome]}]
          /\ todo' = [todo EXCEPT ![c] = @ \ {gate}]
          /\ UNCHANGED <<strictness, changes, custom, requested, approval, queue, audit, during, knew>>
    BY <1>0
  <1>2. PICK a : a = Head(queue[c])
    OBVIOUS
  <1>3. during[c] # {} /\ Running(c)
    BY DEF ChecksInv
  <1>4. a \in Artifacts /\ queue[c] # <<>>
    BY <1>2, <1>3, HeadIsArtifact DEF Running
  <1>5. gate \in [name : GateNames, required : BOOLEAN]
    BY DEF SafetyTypeOK
  <1>6. \A n \in BuiltIn :
          Required(n)' = Required(n) /\ Applicable(n, a)' = Applicable(n, a)
    BY <1>4, BuiltInFixed
  <1>7. PICK new : new = [name |-> gate.name, required |-> gate.required, status |-> outcome]
    OBVIOUS
  <1>8. ASSUME gate.name # "custom"
        PROVE  /\ outcome = Says(gate.name, a, strictness, IsApproved(a.name))
               /\ outcome \in Statuses
    <2>1. gate.name \in BuiltIn
      BY <1>5, <1>8 DEF BuiltIn
    <2> QED
      BY <1>2, <1>4, <2>1, OutcomeIs
  <1>9. outcome \in Statuses
    <2>1. CASE gate.name = "custom"
      BY <2>1 DEF Outcomes
    <2> QED
      BY <1>8, <2>1
  <1>10. /\ results'[c] = results[c] \union {new} /\ todo'[c] = todo[c] \ {gate}
         /\ queue'[c] = queue[c] /\ during'[c] = during[c] /\ knew'[c] = knew[c] /\ strictness' = strictness
         /\ new.name = gate.name /\ new.required = gate.required /\ new.status = outcome
    BY <1>1, <1>7 DEF SafetyTypeOK
  <1>11. SafetyTypeOK'
    <2>1. new \in GateResults
      BY <1>5, <1>7, <1>9 DEF GateResults
    <2>2. results' \in [Calls -> SUBSET GateResults]
      BY <1>1, <1>7, <2>1 DEF SafetyTypeOK
    <2>3. todo' \in [Calls -> SUBSET [name : GateNames, required : BOOLEAN]]
      BY <1>1 DEF SafetyTypeOK
    <2> QED
      BY <1>1, <2>2, <2>3 DEF SafetyTypeOK
  <1>12. \A name : IsApproved(name)' = IsApproved(name)
    BY <1>1 DEF IsApproved
  <1>13. Running(c)'
    <2>1. knew'[c] => IsApproved(a.name)'
      BY <1>2, <1>3, <1>10, <1>12 DEF Running
    <2>2. \A n \in BuiltIn :
            Applicable(n, a)' =>
              \/ [name |-> n, required |-> Required(n)'] \in todo'[c]
              \/ \E g \in results'[c] : g.name = n
      <3>1. SUFFICES ASSUME NEW n \in BuiltIn, Applicable(n, a)
                     PROVE  \/ [name |-> n, required |-> Required(n)] \in todo'[c]
                            \/ \E g \in results'[c] : g.name = n
        BY <1>6
      <3>2. \/ [name |-> n, required |-> Required(n)] \in todo[c]
            \/ \E g \in results[c] : g.name = n
        BY <1>2, <1>3, <3>1 DEF Running
      <3>3. CASE [name |-> n, required |-> Required(n)] = gate
        <4>1. new.name = n /\ new \in results'[c]
          BY <1>10, <3>3
        <4> QED
          BY <4>1
      <3> QED
        BY <1>10, <3>2, <3>3
    <2>3. ASSUME NEW g \in todo'[c], g.name # "custom"
          PROVE  Applicable(g.name, a)' /\ g.required = Required(g.name)'
      <3>1. g \in todo[c] /\ g.name \in BuiltIn
        BY <1>10, <2>3 DEF SafetyTypeOK, BuiltIn
      <3> QED
        BY <1>2, <1>3, <1>6, <2>3, <3>1 DEF Running
    <2>4. ASSUME NEW g \in results'[c], g.name # "custom"
          PROVE  Grounded(c, g)'
      <3>1. g.name \in BuiltIn
        BY <1>5, <1>10, <2>4 DEF SafetyTypeOK, BuiltIn, GateResults
      <3>2. CASE g \in results[c]
        <4>1. Grounded(c, g)
          BY <1>3, <2>4, <3>2 DEF Running
        <4>2. PICK level \in during[c], reviewed \in BOOLEAN :
                /\ knew[c] => reviewed
                /\ reviewed => IsApproved(a.name)
                /\ g.status = Says(g.name, a, level, reviewed)
          BY <1>2, <4>1 DEF Grounded
        <4>3. Applicable(g.name, a)' /\ g.required = Required(g.name)'
          BY <1>2, <1>6, <3>1, <4>1 DEF Grounded
        <4>4. level \in during'[c] /\ (knew'[c] => reviewed) /\ (reviewed => IsApproved(a.name)')
          BY <1>10, <1>12, <4>2
        <4> QED
          BY <1>2, <1>10, <4>2, <4>3, <4>4 DEF Grounded
      <3>3. CASE g = new
        <4>1. PICK r \in BOOLEAN : r = IsApproved(a.name)
          BY Zenon DEF IsApproved
        <4>2. g.status = Says(g.name, a, strictness, r)
          BY <1>8, <1>10, <2>4, <3>3, <4>1
        <4>3. Applicable(g.name, a)' /\ g.required = Required(g.name)'
          BY <1>2, <1>3, <1>6, <1>10, <2>4, <3>1, <3>3 DEF Running
        <4>4. strictness \in during'[c] /\ (knew'[c] => r) /\ (r => IsApproved(a.name)')
          BY <1>2, <1>3, <1>10, <1>12, <4>1 DEF Running
        <4> QED
          BY <1>2, <1>10, <4>2, <4>3, <4>4 DEF Grounded
      <3> QED
        BY <1>10, <3>2, <3>3
    <2>5. queue'[c] # <<>> /\ strictness' \in during'[c] /\ a = Head(queue'[c])
      BY <1>2, <1>3, <1>10 DEF Running
    <2> QED
      BY <2>1, <2>2, <2>3, <2>4, <2>5 DEF Running
  <1>14. ASSUME NEW d \in Calls, d # c
         PROVE  IF during'[d] = {} THEN todo'[d] = {} /\ results'[d] = {} ELSE Running(d)'
    <2>1. /\ queue'[d] = queue[d] /\ todo'[d] = todo[d] /\ results'[d] = results[d]
          /\ knew'[d] = knew[d] /\ during'[d] = during[d] /\ strictness' = strictness
      BY <1>1, <1>14 DEF SafetyTypeOK
    <2> QED
      BY <2>1, OthersStay
  <1>15. ChecksInv'
    BY <1>3, <1>10, <1>13, <1>14 DEF ChecksInv
  <1>16. ApprovedMeetsWeakest' /\ BlockedFailsStrictest'
    BY <1>1, SameVerdicts
  <1> QED
    BY <1>11, <1>15, <1>16

LEMMA FinishStep ==
  ASSUME SafetyInv, [SafetyNext]_safetyVars, NEW c \in Calls, Finish(c)
  PROVE  SafetyInv'
  <1> USE DEF SafetyInv
  <1>1. PICK e : e = [artifact |-> Head(queue[c]), approved |-> ~HasRequiredFailure(c),
                      status |-> OverallStatus(c), during |-> during[c], knew |-> knew[c],
                      vetoed |-> \E g \in results[c] :
                        g.name = "custom" /\ g.required /\ g.status \in {"failed", "pending_review"}]
    OBVIOUS
  <1>2. /\ during[c] # {} /\ todo[c] = {}
        /\ audit' = [audit EXCEPT ![c] = Append(@, e)]
        /\ queue' = [queue EXCEPT ![c] = Tail(@)]
        /\ results' = [results EXCEPT ![c] = {}]
        /\ during' = [during EXCEPT ![c] = {}]
        /\ knew' = [knew EXCEPT ![c] = FALSE]
        /\ UNCHANGED <<strictness, changes, custom, requested, approval, todo>>
    BY <1>1 DEF Finish, reviews
  <1>3. Running(c)
    BY <1>2 DEF ChecksInv
  <1>4. queue[c] # <<>> /\ Head(queue[c]) \in Artifacts
    BY <1>3, HeadIsArtifact DEF Running
  <1>5. /\ e.artifact = Head(queue[c]) /\ e.during = during[c] /\ e.knew = knew[c]
        /\ e.approved = ~HasRequiredFailure(c)
        /\ e.vetoed = \E g \in results[c] :
                         g.name = "custom" /\ g.required /\ g.status \in {"failed", "pending_review"}
    BY <1>1
  <1>6. SafetyTypeOK'
    <2>1. e \in Entries
      <3>1. (~HasRequiredFailure(c)) \in BOOLEAN
        BY Zenon DEF HasRequiredFailure
      <3>2. (\E g \in results[c] :
               g.name = "custom" /\ g.required /\ g.status \in {"failed", "pending_review"}) \in BOOLEAN
        BY Zenon
      <3>3. OverallStatus(c) \in {"pending_review", "rejected", "approved_with_warnings", "approved"}
        BY Zenon DEF OverallStatus
      <3>4. during[c] \in SUBSET Levels /\ knew[c] \in BOOLEAN
        BY DEF SafetyTypeOK
      <3> QED
        BY <1>1, <1>4, <3>1, <3>2, <3>3, <3>4 DEF Entries
    <2>2. audit' \in [Calls -> Seq(Entries)]
      BY <1>2, <2>1 DEF SafetyTypeOK
    <2>3. queue' \in [Calls -> Seq(Artifacts)]
      BY <1>2, <1>4 DEF SafetyTypeOK
    <2>4. results' \in [Calls -> SUBSET GateResults] /\ during' \in [Calls -> SUBSET Levels]
          /\ knew' \in [Calls -> BOOLEAN]
      BY <1>2 DEF SafetyTypeOK
    <2> QED
      BY <1>2, <2>2, <2>3, <2>4 DEF SafetyTypeOK
  <1>7. ChecksInv'
    <2>1. during'[c] = {} /\ todo'[c] = {} /\ results'[c] = {}
      BY <1>2 DEF SafetyTypeOK
    <2>2. ASSUME NEW d \in Calls, d # c
          PROVE  IF during'[d] = {} THEN todo'[d] = {} /\ results'[d] = {} ELSE Running(d)'
      <3>1. /\ queue'[d] = queue[d] /\ todo'[d] = todo[d] /\ results'[d] = results[d]
            /\ knew'[d] = knew[d] /\ during'[d] = during[d] /\ strictness' = strictness
        BY <1>2, <2>2 DEF SafetyTypeOK
      <3> QED
        BY <3>1, OthersStay
    <2> QED
      BY <2>1, <2>2 DEF ChecksInv
  <1>8. \A v \in Verdicts' : v \in Verdicts \/ v = e
    <2>1. SUFFICES ASSUME NEW d \in Calls, NEW k \in DOMAIN audit'[d]
                   PROVE  audit'[d][k] \in Verdicts \/ audit'[d][k] = e
      BY DEF Verdicts
    <2>2. CASE d = c
      <3>1. audit[c] \in Seq(Entries) /\ audit'[c] = Append(audit[c], e)
        BY <1>2 DEF SafetyTypeOK
      <3>2. (k \in DOMAIN audit[c] /\ audit'[c][k] = audit[c][k]) \/ audit'[c][k] = e
        BY <2>2, <3>1
      <3> QED
        BY <2>2, <3>2 DEF Verdicts
    <2>3. CASE d # c
      BY <1>2, <2>3 DEF SafetyTypeOK, Verdicts
    <2> QED
      BY <2>2, <2>3
  <1>9. \A name : IsApproved(name)' = IsApproved(name)
    BY <1>2 DEF IsApproved
  <1>10. e.approved =>
           Meets(Weakest(e.during), e.artifact, IsApproved(e.artifact.name)')
    <2>1. SUFFICES ASSUME ~HasRequiredFailure(c)
                   PROVE  Meets(Weakest(e.during), e.artifact, IsApproved(e.artifact.name)')
      BY <1>5
    <2>2. Meets(Weakest(during[c]), Head(queue[c]), IsApproved(Head(queue[c]).name))
      BY <1>2, <1>3, <2>1, NoObjection
    <2>3. Meets(Weakest(e.during), e.artifact, IsApproved(e.artifact.name))
      BY <1>5, <2>2
    <2> QED
      BY <1>9, <2>3 DEF Meets
  <1>11. ~e.approved => e.vetoed \/ ~Meets(Strictest(e.during), e.artifact, e.knew)
    <2>1. SUFFICES ASSUME HasRequiredFailure(c), ~e.vetoed
                   PROVE  ~Meets(Strictest(during[c]), Head(queue[c]), knew[c])
      BY <1>5
    <2>2. PICK g \in results[c] : g.required /\ g.status \in {"failed", "pending_review"}
      BY <2>1 DEF HasRequiredFailure
    <2>3. g.name # "custom"
      BY <1>5, <2>1, <2>2
    <2> QED
      BY <1>2, <1>3, <2>2, <2>3, Objection
  <1>12. ApprovedMeetsWeakest'
    <2>1. \A v \in Verdicts' :
             v.approved =>
               Meets(Weakest(v.during), v.artifact, IsApproved(v.artifact.name)')
      BY <1>8, <1>10, VerdictsStay
    <2> QED
      BY <2>1 DEF ApprovedMeetsWeakest, Meets
  <1>13. BlockedFailsStrictest'
    <2>1. \A v \in Verdicts' :
             ~v.approved => v.vetoed \/ ~Meets(Strictest(v.during), v.artifact, v.knew)
      BY <1>8, <1>11, VerdictsStay
    <2> QED
      BY <2>1 DEF BlockedFailsStrictest, Meets
  <1> QED
    BY <1>6, <1>7, <1>12, <1>13

LEMMA SetStrictnessStep ==
  ASSUME SafetyInv, [SafetyNext]_safetyVars,
         NEW level \in Levels, SetStrictness(level)
  PROVE  SafetyInv'
  <1> USE DEF SafetyInv
  <1>1. /\ strictness' = level /\ changes' = changes + 1
        /\ during' = [c \in Calls |-> IF during[c] = {} THEN {} ELSE during[c] \union {level}]
        /\ UNCHANGED <<custom, requested, approval, queue, todo, results, audit, knew>>
    BY DEF SetStrictness, reviews
  <1>2. SafetyTypeOK'
    <2>1. during' \in [Calls -> SUBSET Levels]
      BY <1>1 DEF SafetyTypeOK
    <2> QED
      BY <1>1, <2>1 DEF SafetyTypeOK
  <1>3. ChecksInv'
    <2>1. SUFFICES ASSUME NEW c \in Calls
                   PROVE  IF during'[c] = {} THEN todo'[c] = {} /\ results'[c] = {} ELSE Running(c)'
      BY DEF ChecksInv
    <2>2. CASE during[c] = {}
      BY <1>1, <2>2 DEF ChecksInv
    <2>3. CASE during[c] # {}
      <3>1. Running(c)
        BY <2>3 DEF ChecksInv
      <3>2. during[c] \subseteq during'[c] /\ strictness' \in during'[c] /\ during'[c] # {}
        BY <1>1, <2>3
      <3> QED
        BY <1>1, <3>1, <3>2, RunningStays
    <2> QED
      BY <2>2, <2>3
  <1>4. ApprovedMeetsWeakest' /\ BlockedFailsStrictest'
    BY <1>1, SameVerdicts
  <1> QED
    BY <1>2, <1>3, <1>4

(* The people who approve and the registry of gates.                       *)
LEMMA OutsideStep ==
  ASSUME SafetyInv, [SafetyNext]_safetyVars,
         UNCHANGED <<strictness, checks>>, SafetyTypeOK'
  PROVE  SafetyInv'
  <1> USE DEF SafetyInv
  <1>1. ChecksInv'
    <2>1. ASSUME NEW d \in Calls
          PROVE  IF during'[d] = {} THEN todo'[d] = {} /\ results'[d] = {} ELSE Running(d)'
      BY OthersStay DEF checks
    <2> QED
      BY <2>1 DEF ChecksInv
  <1>2. ApprovedMeetsWeakest' /\ BlockedFailsStrictest'
    BY SameVerdicts DEF checks
  <1> QED
    BY <1>1, <1>2

-----------------------------------------------------------------------------
(* The theorems                                                            *)

LEMMA InitSafety ==
  ASSUME SafetyInit
  PROVE  SafetyInv
  <1>1. SafetyTypeOK
    BY BoundsAssumption DEF SafetyInit, SafetyTypeOK, Levels
  <1>2. ChecksInv
    BY DEF SafetyInit, ChecksInv
  <1>3. Verdicts = {}
    BY DEF SafetyInit, Verdicts
  <1> QED
    BY <1>1, <1>2, <1>3 DEF SafetyInv, ApprovedMeetsWeakest, BlockedFailsStrictest

LEMMA NextSafety ==
  ASSUME SafetyInv, [SafetyNext]_safetyVars
  PROVE  SafetyInv'
  <1>1. ASSUME NEW c \in Calls, NEW b \in Batches, Validate(c, b)
        PROVE  SafetyInv'
    <2>1. b \in Seq(Artifacts) /\ b # <<>>
      BY BatchesAssumption
    <2>2. during[c] = {}
      BY <1>1 DEF Validate, SafetyInv, ChecksInv, Running
    <2> QED
      BY <1>1, <2>1, <2>2, BeginStep DEF Validate
  <1>2. ASSUME NEW c \in Calls, ValidateNext(c)
        PROVE  SafetyInv'
    <2>1. queue[c] \in Seq(Artifacts)
      BY DEF SafetyInv, SafetyTypeOK
    <2>2. PICK b : b = queue[c]
      OBVIOUS
    <2> QED
      BY <1>2, <2>1, <2>2, BeginStep DEF ValidateNext
  <1>3. ASSUME NEW kind \in {"optional", "required"}, RegisterGate(kind)
        PROVE  SafetyInv'
    <2>1. SafetyTypeOK'
      BY <1>3 DEF RegisterGate, SafetyInv, SafetyTypeOK, reviews, checks
    <2> QED
      BY <1>3, <2>1, OutsideStep DEF RegisterGate
  <1>4. ASSUME NEW name \in Names, RequestApprovalFor(name)
        PROVE  SafetyInv'
    <2>1. requested' \in Seq(Names) /\ Len(requested') <= MaxRequests
      BY <1>4, BoundsAssumption DEF RequestApprovalFor, SafetyInv, SafetyTypeOK
    <2>2. SafetyTypeOK'
      BY <1>4, <2>1 DEF RequestApprovalFor, SafetyInv, SafetyTypeOK, checks
    <2> QED
      BY <1>4, <2>2, OutsideStep DEF RequestApprovalFor
  <1>5. ASSUME NEW i \in RequestIds, ApproveArtifact(i) \/ RejectArtifact(i)
        PROVE  SafetyInv'
    <2>1. SafetyTypeOK'
      BY <1>5 DEF ApproveArtifact, RejectArtifact, SafetyInv, SafetyTypeOK, checks
    <2> QED
      BY <1>5, <2>1, OutsideStep DEF ApproveArtifact, RejectArtifact
  <1>6. CASE UNCHANGED safetyVars
    <2>1. SafetyTypeOK'
      BY <1>6 DEF safetyVars, SafetyInv, SafetyTypeOK, reviews, checks
    <2> QED
      BY <1>6, <2>1, OutsideStep DEF safetyVars
  <1> QED
    BY <1>1, <1>2, <1>3, <1>4, <1>5, <1>6, RunGateStep, FinishStep, SetStrictnessStep DEF SafetyNext

(* A validation in progress has for each applicable built-in gate a result *)
(* or the gate still ahead, and each result is what that gate says at a    *)
(* level in force since it began: with this the two verdicts are           *)
(* inductive, whatever artifacts, names and calls there are.               *)
THEOREM SafetyInvariance == SafetySpec => []SafetyInv
  <1>1. SafetyInit => SafetyInv
    BY InitSafety
  <1>2. SafetyInv /\ [SafetyNext]_safetyVars => SafetyInv'
    BY NextSafety
  <1> QED
    BY <1>1, <1>2, PTL DEF SafetySpec

(* The variables of the safety gates have their types.                     *)
THEOREM SafetyTypeCorrect == SafetySpec => []SafetyTypeOK
  <1>1. SafetyInv => SafetyTypeOK
    BY DEF SafetyInv
  <1> QED
    BY <1>1, SafetyInvariance, PTL

(* What validateArtifact() approved satisfies the weakest level that was   *)
(* in force while it was validated.                                        *)
THEOREM ApprovalMeetsPolicy == SafetySpec => []ApprovedMeetsWeakest
  <1>1. SafetyInv => ApprovedMeetsWeakest
    BY DEF SafetyInv
  <1> QED
    BY <1>1, SafetyInvariance, PTL

(* What validateArtifact() held back fails the strictest level that was in *)
(* force while it was validated, or a required custom gate objected.       *)
THEOREM BlockingIsJustified == SafetySpec => []BlockedFailsStrictest
  <1>1. SafetyInv => BlockedFailsStrictest
    BY DEF SafetyInv
  <1> QED
    BY <1>1, SafetyInvariance, PTL

(* approveArtifact() cannot be taken back: neither a refusal nor a later   *)
(* request under the same name ends what isApproved() finds.               *)
THEOREM ApprovalsStay ==
  SafetySpec =>
    [][\A name \in Names : IsApproved(name) => IsApproved(name)']_safetyVars
  <1>1. SafetyInv /\ [SafetyNext]_safetyVars =>
          [\A name \in Names : IsApproved(name) => IsApproved(name)']_safetyVars
    BY ApprovedGrows DEF SafetyInv
  <1> QED
    BY <1>1, SafetyInvariance, PTL DEF SafetySpec
=============================================================================
