---------------------------- MODULE SafetyGates ----------------------------
(***************************************************************************)
(* The safety gates of lib/ai/safety-gates.js and their use by the bridge  *)
(* of lib/mcp/safety-gates-bridge.js in live mode: concurrent validations  *)
(* await one gate after the other, while the level of strictness is        *)
(* changed, approvals are requested, granted and refused, and a custom     *)
(* gate is registered.                                                     *)
(*                                                                         *)
(* An artifact is reduced to what the built-in gates find in it: its name, *)
(* its kind ("code" for programs, classes and function modules, "other"    *)
(* for the types no gate names), what the gates would object to, and       *)
(* whether it has tests.  Without a source it is clean and needs no tests. *)
(***************************************************************************)
EXTENDS Naturals, Sequences

CONSTANTS Calls,       (* validations                                      *)
          Batches,     (* the sequences of artifacts they may be about     *)
          Names,       (* names approvals are requested for                *)
          MaxRequests, (* bound: approval requests                         *)
          MaxChanges   (* bound: changes of the strictness                 *)

Artifacts ==
  [name : STRING,
   kind : {"code", "interface", "include", "configuration", "other"},
   syntax : {"clean", "broken"},
   atc : {"clean", "minor", "critical"},
   naming : {"good", "warning", "error"},
   transport : {"valid", "invalid", "none"},
   tests : BOOLEAN]

ASSUME BatchesAssumption == Batches \subseteq Seq(Artifacts) \ {<<>>}
ASSUME BoundsAssumption == MaxRequests \in Nat /\ MaxChanges \in Nat

Levels == {"strict", "moderate", "permissive"}
Statuses == {"passed", "failed", "warning", "pending_review"}
RequestIds == 1..MaxRequests

VARIABLES
  strictness, (* this.strictness                                           *)
  changes,    (* how often it was changed                                  *)
  custom,     (* the custom gate: "none", "optional" or "required"         *)
  requested,  (* _approvals: the names of the requests, in their order     *)
  approval,   (* approval[i]: "pending", "approved" or "rejected"          *)
  queue,      (* queue[c]: the artifacts c has still to validate           *)
  todo,       (* todo[c]: the gates the first of them has still to pass    *)
  results,    (* results[c]: gateResults of the first of them              *)
  audit,      (* audit[c]: the entries of c in _auditLog                   *)
  during,     (* during[c]: history, levels in force since it began; empty *)
              (* when it has not                                           *)
  knew        (* knew[c]: history, whether it was approved before it began *)

reviews == <<requested, approval>>
checks == <<queue, todo, results, audit, during, knew>>
safetyVars == <<strictness, changes, custom, reviews, checks>>

SafetyInit ==
  /\ strictness \in Levels /\ changes = 0
  /\ custom = "none"
  /\ requested = <<>> /\ approval = [i \in RequestIds |-> "pending"]
  /\ queue = [c \in Calls |-> <<>>]
  /\ todo = [c \in Calls |-> {}]
  /\ results = [c \in Calls |-> {}]
  /\ audit = [c \in Calls |-> <<>>]
  /\ during = [c \in Calls |-> {}]
  /\ knew = [c \in Calls |-> FALSE]

-----------------------------------------------------------------------------
(* What the gates say of an artifact at the time they run.                 *)

IsApproved(name) ==
  \E i \in DOMAIN requested : requested[i] = name /\ approval[i] = "approved"

FailsIfStrict == IF strictness = "strict" THEN "failed" ELSE "warning"

CheckSyntax(a) == IF a.syntax = "clean" THEN "passed" ELSE "failed"

CheckAtc(a) ==
  CASE a.atc = "critical" -> "failed"
    [] a.atc = "minor" -> FailsIfStrict
    [] a.atc = "clean" -> "passed"

CheckNamingConvention(a) ==
  CASE a.naming = "error" -> "failed"
    [] a.naming = "warning" -> FailsIfStrict
    [] a.naming = "good" -> "passed"

CheckTransportRequired(a) ==
  CASE a.transport = "none" /\ strictness = "permissive" /\ a.kind # "configuration" -> "warning"
    [] a.transport = "valid" -> "passed"
    [] OTHER -> "failed"

CheckUnitTestCoverage(a) == IF a.tests THEN "passed" ELSE FailsIfStrict

IsRequested(name) == \E i \in DOMAIN requested : requested[i] = name

ReviewIfAsked(a) ==
  IF strictness = "permissive" \/ IsRequested(a.name) THEN "passed"
  ELSE IF strictness = "moderate" THEN "warning" ELSE "pending_review"

CheckHumanApproval(a) ==
  IF strictness = "permissive" \/ IsApproved(a.name) THEN "passed"
  ELSE IF strictness = "moderate" THEN "warning" ELSE "pending_review"

(* A custom gate says what it likes, or throws, which counts as a failure. *)
Outcomes(gate, a) ==
  CASE gate = "live-mode-audit" -> {"passed"}
    [] gate = "syntax-check" -> {CheckSyntax(a)}
    [] gate = "atc-check" -> {CheckAtc(a)}
    [] gate = "naming-convention" -> {CheckNamingConvention(a)}
    [] gate = "transport-required" -> {CheckTransportRequired(a)}
    [] gate = "unit-test-coverage" -> {CheckUnitTestCoverage(a)}
    [] gate = "custom" -> Statuses
    [] gate = "human-approval" -> {CheckHumanApproval(a)}

-----------------------------------------------------------------------------
(* The gates by priority; the custom one has that of the unit tests and    *)
(* was registered later.                                                   *)
ByPriority ==
  <<"live-mode-audit", "syntax-check", "atc-check", "naming-convention",
    "transport-required", "unit-test-coverage", "custom", "human-approval">>

GateNames == {ByPriority[k] : k \in DOMAIN ByPriority}

Precedes(m, n) ==
  \E j, k \in DOMAIN ByPriority : j < k /\ ByPriority[j] = m /\ ByPriority[k] = n

Required(gate) ==
  gate \notin {"live-mode-audit", "unit-test-coverage"} /\ (gate = "custom" => custom = "required")

Applicable(gate, a) ==
  CASE gate = "syntax-check" -> a.kind \in {"code", "interface", "include"}
    [] gate = "atc-check" -> a.kind \in {"code", "interface"}
    [] gate = "unit-test-coverage" -> a.kind = "code"
    [] gate = "custom" -> custom # "none"
    [] OTHER -> TRUE

(* sortedGates, which is computed once.                                    *)
GatesFor(a) ==
  {[name |-> n, required |-> Required(n)] : n \in {n \in GateNames : Applicable(n, a)}}

(* validateArtifact() of the first artifact of a list begins.              *)
Begin(c, artifacts) ==
  /\ queue' = [queue EXCEPT ![c] = artifacts]
  /\ todo' = [todo EXCEPT ![c] = GatesFor(Head(artifacts))]
  /\ during' = [during EXCEPT ![c] = {strictness}]
  /\ knew' = [knew EXCEPT ![c] = IsApproved(Head(artifacts).name)]
  /\ UNCHANGED <<strictness, changes, custom, reviews, results, audit>>

Validate(c, artifacts) ==
  /\ queue[c] = <<>> /\ audit[c] = <<>>
  /\ Begin(c, artifacts)

(* validateBatch() goes on after the await.                                *)
ValidateNext(c) ==
  /\ queue[c] # <<>> /\ during[c] = {}
  /\ Begin(c, queue[c])

(* The next gate by priority.                                              *)
RunGate(c) ==
  \E gate \in todo[c] :
    /\ \A other \in todo[c] : ~Precedes(other.name, gate.name)
    /\ \E status \in Outcomes(gate.name, Head(queue[c])) :
         results' = [results EXCEPT ![c] = @ \union
           {[name |-> gate.name, required |-> gate.required, status |-> status]}]
    /\ todo' = [todo EXCEPT ![c] = @ \ {gate}]
    /\ UNCHANGED <<strictness, changes, custom, reviews, queue, audit, during, knew>>

HasAnyFailure(c) == \E g \in results[c] : g.status \in {"failed", "pending_review"}

HasRequiredFailure(c) ==
  \E g \in results[c] : g.required /\ g.status \in {"failed", "pending_review"}

OverallStatus(c) ==
  LET has(status) == \E g \in results[c] : g.status = status
  IN  IF HasRequiredFailure(c)
      THEN IF has("pending_review") THEN "pending_review" ELSE "rejected"
      ELSE IF has("failed") \/ has("warning") THEN "approved_with_warnings" ELSE "approved"

(* The verdict and its audit entry.                                        *)
Finish(c) ==
  /\ during[c] # {} /\ todo[c] = {}
  /\ audit' = [audit EXCEPT ![c] = Append(@,
       [artifact |-> Head(queue[c]), approved |-> ~HasRequiredFailure(c),
        status |-> OverallStatus(c), during |-> during[c], knew |-> knew[c],
        vetoed |-> \E g \in results[c] :
                     g.name = "custom" /\ g.required /\ g.status \in {"failed", "pending_review"}])]
  /\ queue' = [queue EXCEPT ![c] = Tail(@)]
  /\ results' = [results EXCEPT ![c] = {}]
  /\ during' = [during EXCEPT ![c] = {}]
  /\ knew' = [knew EXCEPT ![c] = FALSE]
  /\ UNCHANGED <<strictness, changes, custom, reviews, todo>>

-----------------------------------------------------------------------------
SetStrictness(level) ==
  /\ changes < MaxChanges /\ level # strictness
  /\ strictness' = level /\ changes' = changes + 1
  /\ during' = [c \in Calls |-> IF during[c] = {} THEN {} ELSE during[c] \union {level}]
  /\ UNCHANGED <<custom, reviews, queue, todo, results, audit, knew>>

RegisterGate(kind) ==
  /\ custom # kind /\ custom' = kind
  /\ UNCHANGED <<strictness, changes, reviews, checks>>

(* The bridge requests approvals under the name of its tool.               *)
RequestApprovalFor(name) ==
  /\ Len(requested) < MaxRequests
  /\ requested' = Append(requested, name)
  /\ UNCHANGED <<strictness, changes, custom, approval, checks>>

ApproveArtifact(i) ==
  /\ i \in DOMAIN requested /\ approval[i] = "pending"
  /\ approval' = [approval EXCEPT ![i] = "approved"]
  /\ UNCHANGED <<strictness, changes, custom, requested, checks>>

RejectArtifact(i) ==
  /\ i \in DOMAIN requested /\ approval[i] = "pending"
  /\ approval' = [approval EXCEPT ![i] = "rejected"]
  /\ UNCHANGED <<strictness, changes, custom, requested, checks>>

SafetyNext ==
  \/ \E c \in Calls : (\E b \in Batches : Validate(c, b)) \/ ValidateNext(c) \/ RunGate(c) \/ Finish(c)
  \/ \E level \in Levels : SetStrictness(level)
  \/ \E kind \in {"optional", "required"} : RegisterGate(kind)
  \/ \E name \in Names : RequestApprovalFor(name)
  \/ \E i \in RequestIds : ApproveArtifact(i) \/ RejectArtifact(i)

SafetySpec == SafetyInit /\ [][SafetyNext]_safetyVars

-----------------------------------------------------------------------------
(* Properties                                                              *)

GateResults == [name : GateNames, required : BOOLEAN, status : Statuses]

Entries ==
  [artifact : Artifacts, approved : BOOLEAN, during : SUBSET Levels, knew : BOOLEAN, vetoed : BOOLEAN,
   status : {"pending_review", "rejected", "approved_with_warnings", "approved"}]

SafetyTypeOK ==
  /\ strictness \in Levels /\ changes \in Nat /\ custom \in {"none", "optional", "required"}
  /\ requested \in Seq(Names) /\ Len(requested) <= MaxRequests
  /\ approval \in [RequestIds -> {"pending", "approved", "rejected"}]
  /\ queue \in [Calls -> Seq(Artifacts)]
  /\ todo \in [Calls -> SUBSET [name : GateNames, required : BOOLEAN]]
  /\ results \in [Calls -> SUBSET GateResults]
  /\ audit \in [Calls -> Seq(Entries)]
  /\ during \in [Calls -> SUBSET Levels] /\ knew \in [Calls -> BOOLEAN]

(* The policy, as a whole: what an artifact has to be at a level, reviewed *)
(* or not.                                                                 *)
Meets(level, a, reviewed) ==
  /\ a.syntax = "clean" \/ a.kind \in {"configuration", "other"}
  /\ a.kind \in {"code", "interface"} => a.atc \in (IF level = "strict" THEN {"clean"} ELSE {"clean", "minor"})
  /\ a.naming \in (IF level = "strict" THEN {"good"} ELSE {"good", "warning"})
  /\ \/ a.transport = "valid"
     \/ a.transport = "none" /\ level = "permissive" /\ a.kind # "configuration"
  /\ level = "strict" => reviewed

Weakest(levels) ==
  IF "permissive" \in levels THEN "permissive"
  ELSE IF "moderate" \in levels THEN "moderate" ELSE "strict"

Strictest(levels) ==
  IF "strict" \in levels THEN "strict"
  ELSE IF "moderate" \in levels THEN "moderate" ELSE "permissive"

Verdicts == UNION {{audit[c][k] : k \in DOMAIN audit[c]} : c \in Calls}

(* The gates of one validation may see different levels and a growing set  *)
(* of approvals; still an approved artifact satisfies the weakest level    *)
(* that was in force meanwhile, as a whole.                                *)
ApprovedMeetsWeakest ==
  \A v \in Verdicts :
    v.approved => Meets(Weakest(v.during), v.artifact, IsApproved(v.artifact.name))

(* An artifact that is held back fails the strictest level in force, or    *)
(* the required custom gate objects: nothing else ever blocks a write.     *)
BlockedFailsStrictest ==
  \A v \in Verdicts :
    ~v.approved => v.vetoed \/ ~Meets(Strictest(v.during), v.artifact, v.knew)
=============================================================================
