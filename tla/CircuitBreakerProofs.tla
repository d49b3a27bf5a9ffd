------------------------ MODULE CircuitBreakerProofs ------------------------
(***************************************************************************)
(* Proofs about CircuitBreaker, for any number of callers, threshold,      *)
(* number of probes and number of retries.                                 *)
(***************************************************************************)
EXTENDS CircuitBreaker, FiniteSetTheorems, TLAPS

USE CallsFinite, ThresholdAssumption, HalfOpenAssumption, RetriesAssumption

(* The three invariants are inductive together: that a half-open breaker   *)
(* counts its probes rests on the count being zero when it opens.          *)
IInv == TypeOK /\ ClosedBelowThreshold /\ ProbesInFlight

(* The calls in flight are finitely many.                                  *)
LEMMA FlightFinite ==
  ASSUME TypeOK
  PROVE  IsFiniteSet(InFlight) /\ Cardinality(InFlight) \in Nat
  <1>1. IsFiniteSet(InFlight)
    BY FS_Subset DEF InFlight
  <1> QED
    BY <1>1, FS_CardinalityType

(* The count of a failure stays within its bound.                          *)
LEMMA CountedType ==
  ASSUME TypeOK
  PROVE  Counted \in 0..FailureThreshold
  BY DEF TypeOK, Counted

(* Admitting a call adds it to the calls in flight.                        *)
LEMMA FlightGrows ==
  ASSUME TypeOK, NEW c \in Calls, pc[c] = "idle", Start(c)
  PROVE  InFlight' = InFlight \union {c}
         /\ c \notin InFlight
         /\ Cardinality(InFlight') = Cardinality(InFlight) + 1
  <1>1. InFlight' = InFlight \union {c}
    BY DEF TypeOK, Start, InFlight
  <1>2. c \notin InFlight
    BY DEF InFlight
  <1>3. Cardinality(InFlight \union {c}) = Cardinality(InFlight) + 1
    BY <1>2, FlightFinite, FS_AddElement
  <1> QED
    BY <1>1, <1>2, <1>3

(* The initial states satisfy the invariant.                               *)
LEMMA InitIInv == Init => IInv
  BY DEF Init, IInv, TypeOK, ClosedBelowThreshold, ProbesInFlight

(* Admission: the only step that counts a probe also puts it in flight.    *)
LEMMA ExecuteStep ==
  ASSUME IInv, NEW c \in Calls, Execute(c)
  PROVE  IInv'
  <1> USE DEF IInv
  <1>1. TypeOK'
    BY DEF TypeOK, Execute, Start, AdmitClosed, AdmitOpen, AdmitHalfOpen
  <1>2. ClosedBelowThreshold'
    BY DEF ClosedBelowThreshold, Execute, Start, AdmitClosed, AdmitOpen, AdmitHalfOpen
  <1>3. Cardinality(InFlight') = Cardinality(InFlight) + 1
        /\ Cardinality(InFlight) \in Nat
    BY FlightGrows, FlightFinite DEF Execute
  <1>4. ProbesInFlight'
    BY <1>3 DEF TypeOK, ProbesInFlight, Execute, AdmitClosed, AdmitOpen, AdmitHalfOpen
  <1> QED
    BY <1>1, <1>2, <1>4

(* A call that settles in the half-open state ends that state: the probes  *)
(* still in flight are not counted any longer.                             *)
LEMMA OutcomeStep ==
  ASSUME IInv, NEW c \in Calls, AttemptSucceeds(c) \/ AttemptFails(c)
  PROVE  IInv'
  <1> USE DEF IInv
  <1>1. CASE AttemptSucceeds(c)
    BY <1>1 DEF TypeOK, ClosedBelowThreshold, ProbesInFlight, AttemptSucceeds, OnSuccess
  <1>2. CASE AttemptFails(c)
    <2>1. Counted \in 0..FailureThreshold
      BY CountedType
    <2>a. state' \in {"closed", "open", "half-open"} /\ halfOpenAttempts' \in Nat
      BY <1>2 DEF TypeOK, AttemptFails, OnFailure
    <2>b. failureCount' \in 0..FailureThreshold /\ elapsed' = FALSE
      BY <1>2, <2>1 DEF AttemptFails, OnFailure
    <2>c. pc' \in [Calls -> {"idle", "running", "sleeping", "refused"}]
      BY <1>2 DEF TypeOK, AttemptFails
    <2>2. TypeOK'
      BY <1>2, <2>a, <2>b, <2>c DEF TypeOK, AttemptFails
    <2>3. ClosedBelowThreshold' /\ ProbesInFlight'
      BY <1>2, <2>1
         DEF TypeOK, ClosedBelowThreshold, ProbesInFlight, AttemptFails, OnFailure
    <2> QED
      BY <2>2, <2>3
  <1> QED
    BY <1>1, <1>2

(* The steps that leave the breaker and the set of calls in flight alone.  *)
LEMMA QuietStep ==
  ASSUME IInv, TypeOK', InFlight' = InFlight,
         UNCHANGED <<state, failureCount, halfOpenAttempts>>
  PROVE  IInv'
  BY DEF IInv, ClosedBelowThreshold, ProbesInFlight

(* Retry steps: the policy sleeps and wakes up with the call in flight.    *)
LEMMA RetryStep ==
  ASSUME IInv, NEW c \in Calls, AttemptRetried(c) \/ WakeUp(c)
  PROVE  IInv'
  <1>1. TypeOK'
    BY DEF IInv, TypeOK, AttemptRetried, WakeUp
  <1>2. InFlight' = InFlight
    BY DEF IInv, TypeOK, AttemptRetried, WakeUp, InFlight
  <1> QED
    BY <1>1, <1>2, QuietStep DEF AttemptRetried, WakeUp

(* A refusal, or a caller that has handled one, puts nothing in flight;    *)
(* an open breaker never refuses once the timeout has passed.              *)
LEMMA RefusalStep ==
  ASSUME IInv, NEW c \in Calls, Refuse(c) \/ Recall(c)
  PROVE  IInv'
  <1>1. TypeOK'
    BY DEF IInv, TypeOK, Refuse, Recall
  <1>2. InFlight' = InFlight
    BY DEF IInv, TypeOK, Refuse, Recall, InFlight
  <1>3. UNCHANGED <<state, failureCount, halfOpenAttempts>>
    BY DEF IInv, ProbesInFlight, Refuse, Recall
  <1> QED
    BY <1>1, <1>2, <1>3, QuietStep

(* Every step preserves the invariant.                                     *)
LEMMA NextIInv == IInv /\ [Next]_vars => IInv'
  <1> SUFFICES ASSUME IInv, [Next]_vars PROVE IInv'
    OBVIOUS
  <1>1. ASSUME NEW c \in Calls, Execute(c) PROVE IInv'
    BY <1>1, ExecuteStep
  <1>2. ASSUME NEW c \in Calls, Refuse(c) \/ Recall(c) PROVE IInv'
    BY <1>2, RefusalStep
  <1>3. ASSUME NEW c \in Calls, AttemptRetried(c) \/ WakeUp(c) PROVE IInv'
    BY <1>3, RetryStep
  <1>4. ASSUME NEW c \in Calls, AttemptSucceeds(c) \/ AttemptFails(c) PROVE IInv'
    BY <1>4, OutcomeStep
  <1>5. CASE Reset
    BY <1>5 DEF IInv, TypeOK, ClosedBelowThreshold, ProbesInFlight, Reset
  <1>6. CASE Elapse
    <2>1. TypeOK' /\ InFlight' = InFlight
      BY <1>6 DEF IInv, TypeOK, Elapse, InFlight
    <2> QED
      BY <1>6, <2>1, QuietStep DEF Elapse
  <1>7. CASE ServerChanges
    <2>1. TypeOK' /\ InFlight' = InFlight
      BY <1>7 DEF IInv, TypeOK, ServerChanges, InFlight
    <2> QED
      BY <1>7, <2>1, QuietStep DEF ServerChanges
  <1>8. CASE UNCHANGED vars
    <2>1. TypeOK' /\ InFlight' = InFlight
      BY <1>8 DEF IInv, TypeOK, vars, InFlight
    <2> QED
      BY <1>8, <2>1, QuietStep DEF vars
  <1> QED
    BY <1>1, <1>2, <1>3, <1>4, <1>5, <1>6, <1>7, <1>8 DEF Next, Settle

(* The inductive invariant holds in every behaviour.                       *)
THEOREM Invariance == Spec => []IInv
  BY InitIInv, NextIInv, PTL DEF Spec

(* Every variable keeps its type.                                          *)
THEOREM TypeCorrect == Spec => []TypeOK
  <1>1. IInv => TypeOK
    BY DEF IInv
  <1> QED
    BY <1>1, Invariance, PTL

(* While the breaker is closed the failure count is under the threshold.   *)
THEOREM OpensInTime == Spec => []ClosedBelowThreshold
  <1>1. IInv => ClosedBelowThreshold
    BY DEF IInv
  <1> QED
    BY <1>1, Invariance, PTL

(* The half-open state always waits for a probe that is really in flight   *)
(* and never admits more than halfOpenMax of them.                         *)
THEOREM NeverStuckHalfOpen == Spec => []ProbesInFlight
  <1>1. IInv => ProbesInFlight
    BY DEF IInv
  <1> QED
    BY <1>1, Invariance, PTL

(* The step behind OpenLeftByProbe.                                        *)
LEMMA OpenStep ==
  ASSUME IInv, [Next]_vars, state = "open", state' # "open"
  PROVE  Reset \/ (elapsed /\ state' = "half-open" /\ InFlight' # InFlight)
  <1>1. ASSUME NEW c \in Calls, Execute(c)
        PROVE  elapsed /\ state' = "half-open" /\ InFlight' # InFlight
    <2>1. c \in InFlight' /\ c \notin InFlight
      BY <1>1, FlightGrows DEF Execute, IInv
    <2>2. elapsed /\ state' = "half-open"
      BY <1>1 DEF Execute, AdmitClosed, AdmitOpen, AdmitHalfOpen
    <2> QED
      BY <2>1, <2>2
  <1>2. ASSUME NEW c \in Calls, Refuse(c) \/ Recall(c) PROVE FALSE
    BY <1>2 DEF IInv, TypeOK, ProbesInFlight, Refuse, Recall
  <1>3. ASSUME NEW c \in Calls, Settle(c) PROVE FALSE
    BY <1>3 DEF Settle, AttemptSucceeds, AttemptRetried, WakeUp, AttemptFails,
                OnSuccess, OnFailure
  <1>4. Elapse \/ ServerChanges \/ UNCHANGED vars => FALSE
    BY DEF Elapse, ServerChanges, vars
  <1> QED
    BY <1>1, <1>2, <1>3, <1>4 DEF Next

(* Only a first probe or reset() ends the open state.                      *)
THEOREM LateSuccessIgnored == Spec => OpenLeftByProbe
  <1>1. IInv /\ [Next]_vars =>
          [state = "open" /\ state' # "open" =>
             Reset \/ (elapsed /\ state' = "half-open" /\ InFlight' # InFlight)]_vars
    BY OpenStep
  <1> QED
    BY <1>1, Invariance, PTL DEF Spec, OpenLeftByProbe
=============================================================================
