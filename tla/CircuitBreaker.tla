--------------------------- MODULE CircuitBreaker ---------------------------
(***************************************************************************)
(* RetryPolicy, CircuitBreaker and ResilientExecutor, lib/resilience.js.   *)
(*                                                                         *)
(* One breaker is shared by every call in flight of an OData or Infor      *)
(* client, so a call admitted in one state may settle in another.          *)
(* MaxRetries = 0 is the bare breaker of the RFC and OData clients.        *)
(***************************************************************************)
EXTENDS Naturals, FiniteSets

CONSTANTS Calls,            (* callers that may be in flight together      *)
          FailureThreshold, (* options.failureThreshold                    *)
          HalfOpenMax,      (* options.halfOpenMax                         *)
          MaxRetries        (* options.maxRetries of the retry policy      *)

ASSUME CallsFinite == IsFiniteSet(Calls)
ASSUME ThresholdAssumption == FailureThreshold \in Nat \ {0}
ASSUME HalfOpenAssumption == HalfOpenMax \in Nat \ {0}
ASSUME RetriesAssumption == MaxRetries \in Nat

VARIABLES
  state,            (* _state                                              *)
  failureCount,     (* _failureCount, counted no further than the          *)
                    (* threshold: it is only compared with it              *)
  halfOpenAttempts, (* _halfOpenAttempts                                   *)
  elapsed,          (* what _shouldAttemptReset() would answer             *)
  pc,               (* pc[c]: the await at which call c is suspended       *)
  attempt,          (* attempt[c]: the loop variable of the retry policy   *)
  serverUp          (* the remote system answers without an error          *)

vars == <<state, failureCount, halfOpenAttempts, elapsed, pc, attempt, serverUp>>

Init ==
  /\ state = "closed"
  /\ failureCount = 0
  /\ halfOpenAttempts = 0
  /\ elapsed = TRUE
  /\ pc = [c \in Calls |-> "idle"]
  /\ attempt = [c \in Calls |-> 0]
  /\ serverUp \in BOOLEAN

InFlight == {c \in Calls : pc[c] \in {"running", "sleeping"}}

-----------------------------------------------------------------------------
(* execute(): the checks before fn() is awaited                            *)

Start(c) ==
  /\ pc' = [pc EXCEPT ![c] = "running"]
  /\ attempt' = [attempt EXCEPT ![c] = 0]
  /\ UNCHANGED <<failureCount, elapsed, serverUp>>

AdmitClosed(c) ==
  /\ state = "closed"
  /\ UNCHANGED <<state, halfOpenAttempts>>

(* The reset timeout has passed: this call is the first probe.  The count  *)
(* of attempts is compared, not cleared.                                   *)
AdmitOpen(c) ==
  /\ state = "open" /\ elapsed
  /\ halfOpenAttempts < HalfOpenMax
  /\ state' = "half-open"
  /\ halfOpenAttempts' = halfOpenAttempts + 1

AdmitUnlimited(c) ==
  /\ state = "half-open"
  /\ halfOpenAttempts' = halfOpenAttempts + 1
  /\ UNCHANGED state

AdmitHalfOpen(c) ==
  /\ state = "half-open"
  /\ halfOpenAttempts < HalfOpenMax
  /\ halfOpenAttempts' = halfOpenAttempts + 1
  /\ UNCHANGED state

Execute(c) ==
  /\ pc[c] = "idle"
  /\ Start(c)
  /\ AdmitClosed(c) \/ AdmitOpen(c) \/ AdmitHalfOpen(c)

(* CircuitBreakerOpenError.  An open breaker whose timeout has passed goes *)
(* to half-open even when it then refuses the call.                        *)
Refuse(c) ==
  /\ pc[c] = "idle"
  /\ \/ state = "open" /\ ~elapsed /\ UNCHANGED state
     \/ /\ state = "half-open" \/ (state = "open" /\ elapsed)
        /\ halfOpenAttempts >= HalfOpenMax
        /\ state' = "half-open"
  /\ pc' = [pc EXCEPT ![c] = "refused"]
  /\ UNCHANGED <<failureCount, halfOpenAttempts, elapsed, attempt, serverUp>>

(* The caller has handled the refusal and may call again.                  *)
Recall(c) ==
  /\ pc[c] = "refused"
  /\ pc' = [pc EXCEPT ![c] = "idle"]
  /\ UNCHANGED <<state, failureCount, halfOpenAttempts, elapsed, attempt, serverUp>>

-----------------------------------------------------------------------------
(* fn() settled                                                            *)

OnSuccessUnguarded ==
  /\ state' = "closed" /\ failureCount' = 0 /\ halfOpenAttempts' = 0

(* In the open state a late success clears the count and nothing else.     *)
OnSuccess ==
  /\ failureCount' = 0
  /\ IF state = "half-open"
     THEN state' = "closed" /\ halfOpenAttempts' = 0
     ELSE UNCHANGED <<state, halfOpenAttempts>>

Counted == IF failureCount < FailureThreshold THEN failureCount + 1 ELSE failureCount

OnFailureKeepsAttempts ==
  /\ failureCount' = Counted
  /\ elapsed' = FALSE
  /\ UNCHANGED halfOpenAttempts
  /\ state' = IF state = "half-open" \/ Counted >= FailureThreshold THEN "open" ELSE state

OnFailureLate ==
  /\ failureCount' = Counted
  /\ elapsed' = FALSE
  /\ IF state = "half-open"
     THEN state' = "open" /\ halfOpenAttempts' = 0
     ELSE /\ state' = IF failureCount >= FailureThreshold THEN "open" ELSE state
          /\ UNCHANGED halfOpenAttempts

(* Whoever fails, and whenever it was admitted, the time of the failure is *)
(* recorded: a late failure also prolongs the open state.                  *)
OnFailure ==
  /\ failureCount' = Counted
  /\ elapsed' = FALSE
  /\ IF state = "half-open"
     THEN state' = "open" /\ halfOpenAttempts' = 0
     ELSE /\ state' = IF Counted >= FailureThreshold THEN "open" ELSE state
          /\ UNCHANGED halfOpenAttempts

AttemptSucceeds(c) ==
  /\ pc[c] = "running"
  /\ OnSuccess
  /\ pc' = [pc EXCEPT ![c] = "idle"]
  /\ UNCHANGED <<elapsed, attempt, serverUp>>

RetryForever(c) ==
  /\ pc[c] = "running" /\ ~serverUp
  /\ pc' = [pc EXCEPT ![c] = "sleeping"]
  /\ UNCHANGED <<state, failureCount, halfOpenAttempts, elapsed, attempt, serverUp>>

(* A retryable error: the policy sleeps, the breaker hears nothing of it.  *)
AttemptRetried(c) ==
  /\ pc[c] = "running" /\ ~serverUp
  /\ attempt[c] < MaxRetries
  /\ pc' = [pc EXCEPT ![c] = "sleeping"]
  /\ attempt' = [attempt EXCEPT ![c] = @ + 1]
  /\ UNCHANGED <<state, failureCount, halfOpenAttempts, elapsed, serverUp>>

WakeUp(c) ==
  /\ pc[c] = "sleeping"
  /\ pc' = [pc EXCEPT ![c] = "running"]
  /\ UNCHANGED <<state, failureCount, halfOpenAttempts, elapsed, attempt, serverUp>>

(* The last attempt, or an error that _isRetryable() does not match.       *)
AttemptFails(c) ==
  /\ pc[c] = "running" /\ ~serverUp
  /\ OnFailure
  /\ pc' = [pc EXCEPT ![c] = "idle"]
  /\ UNCHANGED <<attempt, serverUp>>

Settle(c) ==
  AttemptSucceeds(c) \/ AttemptRetried(c) \/ WakeUp(c) \/ AttemptFails(c)

-----------------------------------------------------------------------------
(* reset(): the operator closes the breaker whatever is in flight.         *)
Reset ==
  /\ state' = "closed" /\ failureCount' = 0 /\ halfOpenAttempts' = 0
  /\ elapsed' = TRUE
  /\ UNCHANGED <<pc, attempt, serverUp>>

(* resetTimeoutMs have passed since the last failure.                      *)
Elapse ==
  /\ ~elapsed /\ elapsed' = TRUE
  /\ UNCHANGED <<state, failureCount, halfOpenAttempts, pc, attempt, serverUp>>

ServerChanges ==
  /\ serverUp' = ~serverUp
  /\ UNCHANGED <<state, failureCount, halfOpenAttempts, elapsed, pc, attempt>>

Next ==
  \/ \E c \in Calls : Execute(c) \/ Refuse(c) \/ Recall(c) \/ Settle(c)
  \/ Reset \/ Elapse \/ ServerChanges

(* An awaited call settles, a timer fires and time passes; whether anybody *)
(* calls is left open.                                                     *)
Fairness == WF_vars(Elapse) /\ \A c \in Calls : WF_vars(Settle(c))

Spec == Init /\ [][Next]_vars
FairSpec == Spec /\ Fairness

-----------------------------------------------------------------------------
(* Properties                                                              *)

TypeOK ==
  /\ state \in {"closed", "open", "half-open"}
  /\ failureCount \in 0..FailureThreshold
  /\ halfOpenAttempts \in Nat
  /\ elapsed \in BOOLEAN
  /\ pc \in [Calls -> {"idle", "running", "sleeping", "refused"}]
  /\ attempt \in [Calls -> 0..MaxRetries]
  /\ serverUp \in BOOLEAN

(* A closed breaker has seen fewer failures than the threshold since the   *)
(* last success, whichever late outcomes and resets came in between.       *)
ClosedBelowThreshold == state = "closed" => failureCount < FailureThreshold

(* The half-open breaker is never stuck: it waits for at least one and at  *)
(* most halfOpenMax probes, all of them still in flight, and outside the   *)
(* half-open state no attempt is left counted from an earlier period.      *)
ProbesInFlight ==
  IF state = "half-open"
  THEN halfOpenAttempts \in 1..HalfOpenMax /\ halfOpenAttempts <= Cardinality(InFlight)
  ELSE halfOpenAttempts = 0

(* An open breaker is left by the first probe after the timeout or by an   *)
(* explicit reset(), never by the late success of a call admitted earlier. *)
OpenLeftByProbe ==
  [][state = "open" /\ state' # "open" =>
       Reset \/ (elapsed /\ state' = "half-open" /\ InFlight' # InFlight)]_vars

(* No call is retried for ever.                                            *)
CallEnds == \A c \in Calls : c \in InFlight ~> c \notin InFlight

(* When the server stays up and callers keep calling, the breaker closes   *)
(* for good.                                                               *)
Recovers ==
  <>[]serverUp /\ (\A c \in Calls : WF_vars(Execute(c)) /\ WF_vars(Recall(c)))
    => <>[](state = "closed")
=============================================================================
