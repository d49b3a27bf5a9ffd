------------------------------ MODULE BapiLuw ------------------------------
(***************************************************************************)
(* BAPI calls followed by an explicit commit, over one pooled RFC client:  *)
(* callWithCommit() of lib/rfc/function-caller.js, createBusinessPartner() *)
(* of lib/greenfield/bapi-catalog.js and RfcClient.call() of               *)
(* lib/rfc/client.js.                                                      *)
(*                                                                         *)
(* The pool lends the client to one caller at a time (LeasePool); the SAP  *)
(* session behind it lives on from caller to caller, with its logical unit *)
(* of work (LUW).  The session is external: it executes the calls it is    *)
(* sent in order, also those the client has stopped waiting for, and its   *)
(* work is lost when it dies before a commit.  Any call may fail there.    *)
(***************************************************************************)
EXTENDS Naturals, SequencesExt

CONSTANTS Committers, (* callers of callWithCommit: one BAPI               *)
          Partners,   (* callers of createBusinessPartner: two BAPIs       *)
          Retries,    (* RfcClient retries                                 *)
          Threshold   (* circuitBreakerThreshold                           *)

ASSUME CallersAssumption == Committers \cap Partners = {}
ASSUME RetriesAssumption == Retries \in Nat
ASSUME ThresholdAssumption == Threshold \in Nat \ {0}

Callers == Committers \union Partners

(* The program of a caller: its BAPIs, COMMIT, and ROLLBACK in the catch.  *)
Bapis(c) == IF c \in Partners THEN 2 ELSE 1
CommitStep(c) == Bapis(c) + 1
RollbackStep(c) == Bapis(c) + 2

(* The changes BAPI s of caller c makes in the database.                   *)
Items == {i \in Callers \X {1, 2} : i[2] <= Bapis(i[1])}
NoWork == [i \in Items |-> 0]

VARIABLES
  pc,        (* pc[c]: "new", "calling", "awaiting", "ok" or "failed"      *)
  step,      (* step[c]: the call of its program c is at                   *)
  attempt,   (* attempt[c]: the loop variable of RfcClient.call            *)
  trail,     (* trail[c]: history, what happened to c (see Properties)     *)
  connected, (* _connected                                                 *)
  breaker,   (* _circuitBreaker._state                                     *)
  failures,  (* _circuitBreaker._failureCount, up to Threshold             *)
  alive,     (* the session behind _client exists                          *)
  queue,     (* calls sent to the session and not yet executed             *)
  luw,       (* luw[i]: how often i is in the open unit of work            *)
  committed  (* committed[i]: how often i was committed                    *)

client == <<connected, breaker, failures>>
session == <<alive, queue, luw, committed>>
vars == <<pc, step, attempt, trail, client, session>>

Active == {c \in Callers : pc[c] \in {"calling", "awaiting"}}

Init ==
  /\ pc = [c \in Callers |-> "new"]
  /\ step = [c \in Callers |-> 1]
  /\ attempt = [c \in Callers |-> 0]
  /\ trail = [c \in Callers |-> {}]
  /\ connected = TRUE /\ breaker = "closed" /\ failures = 0
  /\ alive = TRUE /\ queue = <<>>
  /\ luw = NoWork /\ committed = NoWork

-----------------------------------------------------------------------------
(* The pool (what LeasePool promises)                                      *)

NewSession == alive' = TRUE /\ queue' = <<>> /\ luw' = NoWork /\ UNCHANGED committed

(* A client that came back disconnected was closed; a new one, with a      *)
(* circuit breaker of its own, takes its place.                            *)
Acquire(c) ==
  /\ pc[c] = "new" /\ Active = {}
  /\ pc' = [pc EXCEPT ![c] = "calling"]
  /\ IF connected
     THEN UNCHANGED <<client, session>>
     ELSE connected' = TRUE /\ breaker' = "closed" /\ failures' = 0 /\ NewSession
  /\ UNCHANGED <<step, attempt, trail>>

-----------------------------------------------------------------------------
(* The end of one RfcClient.call()                                         *)

Goto(c, s) ==
  /\ pc' = [pc EXCEPT ![c] = "calling"]
  /\ step' = [step EXCEPT ![c] = s]
  /\ attempt' = [attempt EXCEPT ![c] = 0]

End(c, result) ==
  /\ pc' = [pc EXCEPT ![c] = result]
  /\ UNCHANGED <<step, attempt>>

Resolve(c, s) ==
  CASE step[c] = CommitStep(c) -> End(c, "ok")
    [] step[c] = RollbackStep(c) -> End(c, "failed")
    [] OTHER -> Goto(c, s)

ThrowOnly(c) == End(c, "failed")

(* The catch block rolls back, and ignores a rollback that fails.          *)
Throw(c) ==
  IF step[c] = RollbackStep(c) THEN End(c, "failed") ELSE Goto(c, RollbackStep(c))

BreakerSuccess == breaker' = "closed" /\ failures' = 0

BreakerFailure ==
  /\ failures' = IF failures < Threshold THEN failures + 1 ELSE failures
  /\ breaker' = IF breaker = "half-open" \/ failures' >= Threshold THEN "open" ELSE breaker

Mark(c, what) == trail' = [trail EXCEPT ![c] = @ \union {what}]

-----------------------------------------------------------------------------
(* One attempt of RfcClient.call()                                         *)

Reopen(c) ==
  /\ pc[c] = "calling" /\ ~connected
  /\ connected' = TRUE
  /\ NewSession
  /\ Mark(c, "reopened")
  /\ UNCHANGED <<pc, step, attempt, breaker, failures>>

ReopenFails(c) ==
  /\ pc[c] = "calling" /\ ~connected
  /\ Throw(c)
  /\ UNCHANGED <<trail, client, session>>

(* An open breaker lets the call through when its timeout has passed.      *)
Send(c) ==
  /\ pc[c] = "calling" /\ connected
  /\ breaker' = IF breaker = "open" THEN "half-open" ELSE breaker
  /\ queue' = IF alive THEN Append(queue, <<c, step[c]>>) ELSE queue
  /\ pc' = [pc EXCEPT ![c] = "awaiting"]
  /\ IF step[c] = CommitStep(c) THEN Mark(c, "commitSent") ELSE UNCHANGED trail
  /\ UNCHANGED <<step, attempt, connected, failures, alive, luw, committed>>

(* CircuitBreakerOpenError: nothing is sent, not even a ROLLBACK.          *)
Refused(c) ==
  /\ pc[c] = "calling" /\ connected /\ breaker = "open"
  /\ Throw(c)
  /\ IF step[c] = RollbackStep(c) THEN Mark(c, "rollbackRefused") ELSE UNCHANGED trail
  /\ UNCHANGED <<client, session>>

RetriedTimeout(c) ==
  /\ pc[c] = "awaiting"
  /\ BreakerFailure
  /\ IF attempt[c] < Retries
     THEN /\ pc' = [pc EXCEPT ![c] = "calling"]
          /\ attempt' = [attempt EXCEPT ![c] = @ + 1]
          /\ UNCHANGED step
     ELSE Throw(c)
  /\ UNCHANGED <<trail, connected, session>>

(* _callWithTimeout gave up.  The RfcError is not retried, the connection  *)
(* is kept, and the session still has the call.                            *)
Timeout(c) ==
  /\ pc[c] = "awaiting"
  /\ BreakerFailure
  /\ Throw(c)
  /\ UNCHANGED <<trail, connected, session>>

RetryUncounted(c) ==
  /\ pc[c] = "awaiting" /\ ~alive
  /\ BreakerFailure
  /\ pc' = [pc EXCEPT ![c] = "calling"]
  /\ connected' = FALSE
  /\ UNCHANGED <<step, attempt, trail, session>>

(* A transient error: all but the last attempt reconnect and try again,    *)
(* whatever work the lost session had done for this caller.                *)
Transient(c) ==
  /\ pc[c] = "awaiting" /\ ~alive
  /\ BreakerFailure
  /\ IF attempt[c] < Retries
     THEN /\ pc' = [pc EXCEPT ![c] = "calling"]
          /\ attempt' = [attempt EXCEPT ![c] = @ + 1]
          /\ connected' = FALSE
          /\ UNCHANGED step
     ELSE Throw(c) /\ UNCHANGED connected
  /\ UNCHANGED <<trail, session>>

-----------------------------------------------------------------------------
(* The session executes the call at the head of its queue                  *)

Work(c, s, n) == luw' = [luw EXCEPT ![<<c, s>>] = @ + n] /\ UNCHANGED committed

Commit ==
  /\ committed' = [i \in Items |-> committed[i] + luw[i]]
  /\ luw' = NoWork

Rollback == luw' = NoWork /\ UNCHANGED committed

(* The caller that still waits for the call gets its answer.               *)
Answered(c) == pc[c] = "awaiting" /\ Len(queue) = 1

Answer(c, reply) == IF Answered(c) THEN reply ELSE UNCHANGED <<pc, step, attempt, breaker, failures>>

Pop == alive /\ queue # <<>> /\ queue' = Tail(queue) /\ UNCHANGED <<connected, alive>>

ServeWork(c, s) ==
  /\ Pop /\ Head(queue) = <<c, s>> /\ s <= Bapis(c)
  /\ Work(c, s, 1)
  /\ Answer(c, Resolve(c, s + 1) /\ BreakerSuccess)
  /\ UNCHANGED trail

ServeMessageUnchecked(c, s) ==
  /\ Pop /\ Head(queue) = <<c, s>> /\ s <= Bapis(c)
  /\ \E n \in {0, 1} : Work(c, s, n)
  /\ Answer(c, Resolve(c, CommitStep(c)) /\ BreakerSuccess)
  /\ UNCHANGED trail

(* RETURN of a BAPI holds an error.  callWithCommit throws; the business   *)
(* partner code does not look, and without a number it skips the role.     *)
ServeMessage(c, s) ==
  /\ Pop /\ Head(queue) = <<c, s>> /\ s <= Bapis(c)
  /\ \E n \in {0, 1} : Work(c, s, n)
  /\ Answer(c, /\ IF c \in Partners THEN Resolve(c, CommitStep(c)) ELSE Throw(c)
               /\ BreakerSuccess)
  /\ UNCHANGED trail

(* COMMIT has undone the work and says so in RETURN, which nobody reads.   *)
CommitUnread(c) ==
  /\ Pop /\ Head(queue) = <<c, CommitStep(c)>>
  /\ Rollback
  /\ Answer(c, Resolve(c, 0) /\ BreakerSuccess)
  /\ IF Answered(c) THEN Mark(c, "commitFailed") ELSE UNCHANGED trail

(* ROLLBACK has left the work in place, and its RETURN is not read either. *)
RollbackUnread(c) ==
  /\ Pop /\ Head(queue) = <<c, RollbackStep(c)>>
  /\ UNCHANGED <<luw, committed>>
  /\ Answer(c, Resolve(c, 0) /\ BreakerSuccess)
  /\ Mark(c, "rollbackFailed")

(* The function module raises an exception: nothing is done, and the work  *)
(* of before stays.                                                        *)
ServeException(c, s) ==
  /\ Pop /\ Head(queue) = <<c, s>>
  /\ UNCHANGED <<luw, committed>>
  /\ Answer(c, Throw(c) /\ BreakerFailure)
  /\ IF s = RollbackStep(c) THEN Mark(c, "rollbackFailed") ELSE UNCHANGED trail

ServeCommit(c) ==
  /\ Pop /\ Head(queue) = <<c, CommitStep(c)>>
  /\ Commit
  /\ Answer(c, Resolve(c, 0) /\ BreakerSuccess)
  /\ UNCHANGED trail

ServeRollback(c) ==
  /\ Pop /\ Head(queue) = <<c, RollbackStep(c)>>
  /\ Rollback
  /\ Answer(c, Resolve(c, 0) /\ BreakerSuccess)
  /\ UNCHANGED trail

Serve ==
  \E c \in Callers :
    \/ \E s \in 1..4 : ServeWork(c, s) \/ ServeMessage(c, s) \/ ServeException(c, s)
    \/ ServeCommit(c) \/ CommitUnread(c) \/ ServeRollback(c) \/ RollbackUnread(c)

(* The connection breaks.  The call being executed may be done all the     *)
(* same, only its answer is lost; what is not committed is undone.         *)
SessionDies ==
  /\ alive /\ alive' = FALSE
  /\ queue' = <<>> /\ luw' = NoWork
  /\ \/ UNCHANGED committed
     \/ /\ queue # <<>> /\ Head(queue)[2] = CommitStep(Head(queue)[1])
        /\ committed' = [i \in Items |-> committed[i] + luw[i]]
  /\ UNCHANGED <<pc, step, attempt, trail, client>>

-----------------------------------------------------------------------------
Call(c) ==
  \/ Reopen(c) \/ ReopenFails(c) \/ Send(c) \/ Refused(c)
  \/ Timeout(c) \/ Transient(c)

Next == (\E c \in Callers : Acquire(c) \/ Call(c)) \/ Serve \/ SessionDies

(* The pool serves its queue, timers fire and promises settle; the server  *)
(* may stay silent for ever.                                               *)
Fairness == \A c \in Callers : WF_vars(Acquire(c)) /\ WF_vars(Call(c))

Spec == Init /\ [][Next]_vars
FairSpec == Spec /\ Fairness

-----------------------------------------------------------------------------
(* Properties                                                              *)

Marks == {"reopened", "commitSent", "commitFailed", "rollbackRefused", "rollbackFailed"}

TypeOK ==
  /\ pc \in [Callers -> {"new", "calling", "awaiting", "ok", "failed"}]
  /\ step \in [Callers -> 1..4]
  /\ attempt \in [Callers -> 0..Retries]
  /\ trail \in [Callers -> SUBSET Marks]
  /\ connected \in BOOLEAN /\ alive \in BOOLEAN
  /\ breaker \in {"closed", "open", "half-open"}
  /\ failures \in 0..Threshold
  /\ queue \in Seq(Callers \X (1..4))
  /\ luw \in [Items -> Nat] /\ committed \in [Items -> Nat]

(* Retries, reconnects and calls executed after their timeout never commit *)
(* the work of one call twice.                                             *)
CommittedOnce == \A i \in Items : committed[i] <= 1

(* callWithCommit returns normally only when its work was committed,       *)
(* unless the client reconnected on the way or COMMIT itself reported an   *)
(* error, which is not read.                                               *)
SuccessIsCommitted ==
  \A c \in Committers :
    pc[c] = "ok" /\ trail[c] \cap {"reopened", "commitFailed"} = {} => committed[<<c, 1>>] = 1

(* A caller told of a failure has nothing committed, unless its COMMIT was *)
(* sent (its outcome is then unknown) or its ROLLBACK was refused or       *)
(* failed.                                                                 *)
FailureIsUndone ==
  \A i \in Items :
    pc[i[1]] = "failed" /\ trail[i[1]] \cap {"commitSent", "rollbackRefused", "rollbackFailed"} = {}
      => committed[i] = 0

(* Work is left behind in the session of an idle client only when the open *)
(* breaker kept the ROLLBACK from being sent, or a ROLLBACK failed.        *)
Clean ==
  IF queue = <<>> THEN luw = NoWork
  ELSE LET last == Last(queue) IN last[2] = RollbackStep(last[1])

LeftoverBehindBreaker ==
  Active = {} /\ ~Clean => breaker = "open" \/ \E c \in Callers : "rollbackFailed" \in trail[c]

(* Every caller gets the client and gives it back, however often the       *)
(* session dies.                                                           *)
CallersFinish == <>(\A c \in Callers : pc[c] \in {"ok", "failed"})

(* "Call a BAPI with explicit commit." (function-caller.js:70).  Fails,    *)
(* even where no COMMIT reports an error: a COMMIT that is retried runs in *)
(* a new session, which has no work in it.                                 *)
SuccessMeansCommitted ==
  \A c \in Committers : pc[c] = "ok" /\ "commitFailed" \notin trail[c] => committed[<<c, 1>>] = 1

(* "should rollback on error" (test/lib/rfc/function-caller.test.js).      *)
(* Fails, even where the server refuses no ROLLBACK: with the breaker      *)
(* open, the COMMIT of the next caller takes the failed caller's work      *)
(* along.                                                                  *)
RolledBackOnError ==
  \A i \in Items :
    pc[i[1]] = "failed" /\ trail[i[1]] \cap {"commitSent", "rollbackFailed"} = {}
      => committed[i] = 0
=============================================================================
