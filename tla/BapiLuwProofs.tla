---------------------------- MODULE BapiLuwProofs ----------------------------
(***************************************************************************)
(* Proofs about BapiLuw, for any callers of both kinds, any number of      *)
(* retries and any threshold of the breaker.                               *)
(***************************************************************************)
EXTENDS BapiLuw, SequenceTheorems, TLAPS

(* What a caller has gone through agrees with the step it is at.           *)
ProgramInv ==
  \A c \in Callers :
    /\ step[c] <= RollbackStep(c)
    /\ pc[c] = "new" => step[c] = 1
    /\ pc[c] = "ok" => "commitSent" \in trail[c] /\ step[c] = CommitStep(c)
    /\ "commitSent" \in trail[c] => step[c] >= CommitStep(c)
    /\ "rollbackRefused" \in trail[c] \/ "rollbackFailed" \in trail[c] => pc[c] = "failed"

(* A lost session has neither calls nor work, and a closed connection no   *)
(* session.                                                                *)
SessionInv == (~connected => ~alive) /\ (~alive => queue = <<>> /\ luw = NoWork)

Places == 1..Len(queue)

(* What is in the queue was sent, once, at a step that is past.            *)
QueueInv ==
  /\ \A j \in Places :
       /\ pc[queue[j][1]] # "new" /\ queue[j][2] <= step[queue[j][1]]
       /\ pc[queue[j][1]] = "calling" => queue[j][2] < step[queue[j][1]]
       /\ queue[j][2] = CommitStep(queue[j][1]) => "commitSent" \in trail[queue[j][1]]
  /\ \A j, k \in Places : queue[j] = queue[k] => j = k

(* What follows the work of the active caller in the session is its own,   *)
(* ends with the call it waits for, and its COMMIT comes alone.            *)
OwnerInv ==
  \A c \in Active :
    /\ \A d \in Active : d = c
    /\ \A j, k \in Places : j <= k /\ queue[j][1] = c => queue[k][1] = c
    /\ \A i \in Items : i[1] = c /\ luw[i] # 0 => \A k \in Places : queue[k][1] = c
    /\ pc[c] = "awaiting" /\ alive => queue # <<>> /\ queue[Len(queue)] = <<c, step[c]>>
    /\ step[c] = CommitStep(c) => Len(queue) <= (IF pc[c] = "calling" THEN 0 ELSE 1)
    /\ step[c] = CommitStep(c) /\ alive /\ c \in Committers /\ "reopened" \notin trail[c]
         => luw[<<c, 1>>] = 1

Kept(c) == trail[c] \cap {"commitSent", "rollbackRefused", "rollbackFailed"} = {}

(* The rollback of c comes after place p, and no commit before it.         *)
UndoneAfter(p, c) ==
  \E k \in (p + 1)..Len(queue) :
    /\ queue[k] = <<c, RollbackStep(c)>>
    /\ \A j \in (p + 1)..k : queue[j][2] # CommitStep(queue[j][1])

(* A piece of work is at one place: to be sent, in the queue, in the unit  *)
(* of work or in the database; that of a caller that failed is on its way  *)
(* out.                                                                    *)
WorkInv ==
  \A i \in Items :
    /\ luw[i] + committed[i] <= 1
    /\ \A j \in Places : queue[j] = i => luw[i] = 0 /\ committed[i] = 0
    /\ step[i[1]] < i[2] \/ (step[i[1]] = i[2] /\ pc[i[1]] \in {"new", "calling"})
         => luw[i] = 0 /\ committed[i] = 0
    /\ Kept(i[1]) => committed[i] = 0
    /\ Kept(i[1]) /\ pc[i[1]] = "failed" =>
         /\ luw[i] # 0 => UndoneAfter(0, i[1])
         /\ \A p \in Places : queue[p] = i => UndoneAfter(p, i[1])

IInv ==
  /\ TypeOK /\ ProgramInv /\ SessionInv /\ QueueInv /\ OwnerInv /\ WorkInv
  /\ SuccessIsCommitted /\ LeftoverBehindBreaker

-----------------------------------------------------------------------------
(* The parts of the model                                                  *)

LEMMA ProgramFacts ==
  ASSUME NEW c \in Callers
  PROVE  /\ Bapis(c) \in {1, 2} /\ CommitStep(c) = Bapis(c) + 1 /\ RollbackStep(c) = Bapis(c) + 2
         /\ CommitStep(c) \in 2..3 /\ RollbackStep(c) \in 3..4
         /\ RollbackStep(c) = CommitStep(c) + 1
  BY DEF Bapis, CommitStep, RollbackStep

LEMMA CommitterFacts ==
  ASSUME NEW c \in Committers
  PROVE  c \in Callers /\ c \notin Partners /\ Bapis(c) = 1 /\ <<c, 1>> \in Items
  BY CallersAssumption DEF Callers, Bapis, Items

LEMMA ItemFacts ==
  ASSUME NEW i \in Items
  PROVE  /\ i[1] \in Callers /\ i[2] \in 1..2 /\ i[2] <= Bapis(i[1]) /\ i = <<i[1], i[2]>>
         /\ i[2] < CommitStep(i[1]) /\ i[2] < RollbackStep(i[1])
  <1>1. i[1] \in Callers /\ i[2] \in 1..2 /\ i[2] <= Bapis(i[1]) /\ i = <<i[1], i[2]>>
    BY DEF Items
  <1> QED
    BY <1>1, ProgramFacts

LEMMA ItemIsIn ==
  ASSUME NEW c \in Callers, NEW s \in 1..4, s <= Bapis(c)
  PROVE  <<c, s>> \in Items
  <1>1. s \in {1, 2}
    BY ProgramFacts
  <1> QED
    BY <1>1 DEF Items

LEMMA CallerFacts ==
  ASSUME TypeOK, NEW c \in Callers
  PROVE  /\ pc[c] \in {"new", "calling", "awaiting", "ok", "failed"}
         /\ step[c] \in 1..4 /\ attempt[c] \in 0..Retries
         /\ c \in Active <=> pc[c] \in {"calling", "awaiting"}
  BY DEF TypeOK, Active

LEMMA PlaceFacts ==
  ASSUME TypeOK, NEW j \in Places
  PROVE  /\ queue[j] \in Callers \X (1..4) /\ queue[j][1] \in Callers /\ queue[j][2] \in 1..4
         /\ queue[j] = <<queue[j][1], queue[j][2]>>
  <1>1. queue[j] \in Callers \X (1..4)
    BY DEF TypeOK, Places
  <1> QED
    BY <1>1

LEMMA NoWorkFacts == NoWork \in [Items -> Nat] /\ \A i \in Items : NoWork[i] = 0
  BY DEF NoWork

LEMMA UndoneSame ==
  ASSUME queue' = queue, NEW p, NEW c PROVE UndoneAfter(p, c)' <=> UndoneAfter(p, c)
  BY DEF UndoneAfter, RollbackStep, Bapis

LEMMA InitInv == Init => IInv
  <1> SUFFICES ASSUME Init PROVE IInv
    OBVIOUS
  <1>1. queue = <<>> /\ queue \in Seq(Callers \X (1..4)) /\ Places = {} /\ Active = {}
    BY DEF Init, Places, Active
  <1>2. TypeOK
    BY <1>1, NoWorkFacts, RetriesAssumption, ThresholdAssumption DEF Init, TypeOK
  <1>3. ProgramInv
    BY ProgramFacts DEF Init, ProgramInv
  <1>4. SessionInv /\ QueueInv /\ OwnerInv
    BY <1>1 DEF Init, SessionInv, QueueInv, OwnerInv
  <1>5. WorkInv
    BY <1>1, NoWorkFacts, ItemFacts DEF Init, WorkInv
  <1>6. SuccessIsCommitted /\ LeftoverBehindBreaker
    BY <1>1, CommitterFacts DEF Init, SuccessIsCommitted, LeftoverBehindBreaker, Clean
  <1> QED
    BY <1>2, <1>3, <1>4, <1>5, <1>6 DEF IInv

-----------------------------------------------------------------------------
(* Steps of the active caller that leave the session alone                 *)

(* A call fails: on to the rollback, or out.  The rollback that failed was *)
(* sent, or there is no session any more, or the breaker refused it.       *)
LEMMA ThrowInv ==
  ASSUME IInv, NEW c \in Active, Throw(c), UNCHANGED <<connected, session>>,
         breaker' \in {"closed", "open", "half-open"}, failures' \in 0..Threshold,
         \/ trail' = trail /\ (step[c] = RollbackStep(c) => ~alive \/ pc[c] = "awaiting")
         \/ step[c] = RollbackStep(c) /\ breaker' = "open" /\ Mark(c, "rollbackRefused")
  PROVE  IInv'
  <1> DEFINE last == step[c] = RollbackStep(c)
  <1>1. /\ TypeOK /\ ProgramInv /\ SessionInv /\ QueueInv /\ OwnerInv /\ WorkInv
        /\ SuccessIsCommitted
    BY DEF IInv
  <1>2. c \in Callers /\ pc[c] \in {"calling", "awaiting"} /\ \A d \in Active : d = c
    BY <1>1 DEF Active, OwnerInv
  <1>3. /\ alive' = alive /\ queue' = queue /\ luw' = luw /\ committed' = committed
        /\ connected' = connected /\ Places' = Places
    BY DEF session, Places
  <1>4. /\ last => step' = step /\ pc' = [pc EXCEPT ![c] = "failed"] /\ attempt' = attempt
        /\ ~last => /\ step' = [step EXCEPT ![c] = RollbackStep(c)]
                    /\ pc' = [pc EXCEPT ![c] = "calling"]
                    /\ attempt' = [attempt EXCEPT ![c] = 0]
    BY DEF Throw, End, Goto
  <1>5. trail' = trail \/ (last /\ trail' = [trail EXCEPT ![c] = @ \union {"rollbackRefused"}])
    BY DEF Mark
  <1>6. /\ pc' \in [Callers -> {"new", "calling", "awaiting", "ok", "failed"}]
        /\ step' \in [Callers -> 1..4] /\ attempt' \in [Callers -> 0..Retries]
        /\ pc'[c] = (IF last THEN "failed" ELSE "calling") /\ step'[c] = RollbackStep(c)
        /\ \A d \in Callers : d # c => pc'[d] = pc[d] /\ step'[d] = step[d]
    <2>1. 0 \in 0..Retries /\ RollbackStep(c) \in 1..4
      BY <1>2, ProgramFacts, RetriesAssumption
    <2>2. /\ pc \in [Callers -> {"new", "calling", "awaiting", "ok", "failed"}]
          /\ step \in [Callers -> 1..4] /\ attempt \in [Callers -> 0..Retries]
      BY <1>1 DEF TypeOK
    <2>3. CASE last
      BY <1>2, <1>4, <2>2, <2>3
    <2>4. CASE ~last
      BY <1>2, <1>4, <2>1, <2>2, <2>4
    <2> QED
      BY <2>3, <2>4
  <1>7. /\ trail' \in [Callers -> SUBSET Marks]
        /\ \A d \in Callers : d # c => trail'[d] = trail[d]
        /\ trail'[c] = trail[c] \/ (last /\ trail'[c] = trail[c] \union {"rollbackRefused"})
    <2>1. trail \in [Callers -> SUBSET Marks]
      BY <1>1 DEF TypeOK
    <2>2. CASE trail' = trail
      BY <2>1, <2>2
    <2>3. CASE last /\ trail' = [trail EXCEPT ![c] = trail[c] \union {"rollbackRefused"}]
      <3>1. trail[c] \union {"rollbackRefused"} \in SUBSET Marks
        BY <1>2, <2>1 DEF Marks
      <3> QED
        BY <1>2, <2>1, <2>3, <3>1
    <2> QED
      BY <1>5, <2>2, <2>3
  <1>8. Active' = IF last THEN {} ELSE {c}
    BY <1>2, <1>6 DEF Active
  <1>9. TypeOK'
    BY <1>1, <1>3, <1>6, <1>7 DEF TypeOK
  <1>10. ProgramInv'
    <2> SUFFICES ASSUME NEW d \in Callers
                 PROVE  /\ step'[d] <= RollbackStep(d)
                        /\ pc'[d] = "new" => step'[d] = 1
                        /\ pc'[d] = "ok" => "commitSent" \in trail'[d] /\ step'[d] = CommitStep(d)
                        /\ "commitSent" \in trail'[d] => step'[d] >= CommitStep(d)
                        /\ "rollbackRefused" \in trail'[d] \/ "rollbackFailed" \in trail'[d] => pc'[d] = "failed"
      BY DEF ProgramInv
    <2>1. CASE d = c
      <3>1. "rollbackRefused" \notin trail[c] /\ "rollbackFailed" \notin trail[c]
        BY <1>1, <1>2 DEF ProgramInv
      <3> QED
        BY <1>6, <1>7, <2>1, <3>1, ProgramFacts
    <2>2. CASE d # c
      BY <1>1, <1>6, <1>7, <2>2 DEF ProgramInv
    <2> QED
      BY <2>1, <2>2
  <1>11. SessionInv'
    BY <1>1, <1>3 DEF SessionInv
  <1>12. QueueInv'
    <2>1. ASSUME NEW j \in Places
          PROVE  /\ pc'[queue[j][1]] # "new" /\ queue[j][2] <= step'[queue[j][1]]
                 /\ pc'[queue[j][1]] = "calling" => queue[j][2] < step'[queue[j][1]]
                 /\ queue[j][2] = CommitStep(queue[j][1]) => "commitSent" \in trail'[queue[j][1]]
      <3>1. queue[j][1] \in Callers /\ queue[j][2] \in 1..4
        BY <1>1, PlaceFacts
      <3>2. /\ pc[queue[j][1]] # "new" /\ queue[j][2] <= step[queue[j][1]]
            /\ pc[queue[j][1]] = "calling" => queue[j][2] < step[queue[j][1]]
            /\ queue[j][2] = CommitStep(queue[j][1]) => "commitSent" \in trail[queue[j][1]]
        BY <1>1 DEF QueueInv
      <3>3. CASE queue[j][1] = c
        <4>1. step[c] \in 1..4 /\ step[c] <= RollbackStep(c) /\ RollbackStep(c) \in 3..4
          BY <1>1, <1>2, CallerFacts, ProgramFacts DEF ProgramInv
        <4> QED
          BY <1>6, <1>7, <3>1, <3>2, <3>3, <4>1
      <3>4. CASE queue[j][1] # c
        BY <1>6, <1>7, <3>1, <3>2, <3>4
      <3> QED
        BY <3>3, <3>4
    <2> QED
      BY <1>1, <1>3, <2>1 DEF QueueInv
  <1>13. OwnerInv'
    <2>1. CASE last
      BY <1>8, <2>1 DEF OwnerInv
    <2>2. CASE ~last
      <3>1. /\ \A j, k \in Places : j <= k /\ queue[j][1] = c => queue[k][1] = c
            /\ \A i \in Items : i[1] = c /\ luw[i] # 0 => \A k \in Places : queue[k][1] = c
        BY <1>1 DEF OwnerInv
      <3>2. Active' = {c} /\ pc'[c] = "calling" /\ step'[c] # CommitStep(c)
        BY <1>2, <1>6, <1>8, <2>2, ProgramFacts
      <3> QED
        BY <1>3, <3>1, <3>2 DEF OwnerInv
    <2> QED
      BY <2>1, <2>2
  <1>14. WorkInv'
    <2> SUFFICES ASSUME NEW i \in Items
                 PROVE  /\ luw[i] + committed[i] <= 1
                        /\ \A j \in Places : queue[j] = i => luw[i] = 0 /\ committed[i] = 0
                        /\ step'[i[1]] < i[2] \/ (step'[i[1]] = i[2] /\ pc'[i[1]] \in {"new", "calling"})
                             => luw[i] = 0 /\ committed[i] = 0
                        /\ Kept(i[1])' => committed[i] = 0
                        /\ Kept(i[1])' /\ pc'[i[1]] = "failed" =>
                             /\ luw[i] # 0 => UndoneAfter(0, i[1])
                             /\ \A p \in Places : queue[p] = i => UndoneAfter(p, i[1])
      BY <1>3, UndoneSame DEF WorkInv
    <2>1. /\ luw[i] + committed[i] <= 1
          /\ \A j \in Places : queue[j] = i => luw[i] = 0 /\ committed[i] = 0
          /\ step[i[1]] < i[2] \/ (step[i[1]] = i[2] /\ pc[i[1]] \in {"new", "calling"})
               => luw[i] = 0 /\ committed[i] = 0
          /\ Kept(i[1]) => committed[i] = 0
          /\ Kept(i[1]) /\ pc[i[1]] = "failed" =>
               /\ luw[i] # 0 => UndoneAfter(0, i[1])
               /\ \A p \in Places : queue[p] = i => UndoneAfter(p, i[1])
      BY <1>1 DEF WorkInv
    <2>2. CASE i[1] # c
      <3>1. i[1] \in Callers
        BY ItemFacts
      <3>2. pc'[i[1]] = pc[i[1]] /\ step'[i[1]] = step[i[1]] /\ (Kept(i[1])' => Kept(i[1]))
        BY <1>6, <1>7, <2>2, <3>1 DEF Kept
      <3> QED
        BY <2>1, <3>2
    <2>3. CASE i[1] = c
      <3>1. Kept(c)' => Kept(c) /\ trail' = trail
        <4>1. trail'[c] = trail[c] \/ "rollbackRefused" \in trail'[c]
          BY <1>7
        <4>2. trail' = trail \/ "rollbackRefused" \in trail'[c]
          BY <1>1, <1>2, <1>5 DEF TypeOK
        <4> QED
          BY <4>1, <4>2 DEF Kept
      <3>2. i[2] \in 1..2 /\ ~(step'[i[1]] < i[2]) /\ step'[i[1]] # i[2] /\ i[2] # RollbackStep(c)
        BY <1>2, <1>6, <2>3, ItemFacts, ProgramFacts
      <3>3. ASSUME Kept(c)', pc'[c] = "failed"
            PROVE  /\ luw[i] # 0 => UndoneAfter(0, i[1])
                   /\ \A p \in Places : queue[p] = i => UndoneAfter(p, i[1])
        <4>1. last /\ trail' = trail /\ Kept(c)
          BY <1>6, <3>1, <3>3
        <4>2. ~alive \/ pc[c] = "awaiting"
          <5>1. "rollbackRefused" \notin trail[c]
            BY <4>1 DEF Kept
          <5> QED
            BY <1>1, <1>2, <4>1, <5>1 DEF Mark, TypeOK
        <4>3. CASE ~alive
          BY <1>1, <4>3, NoWorkFacts DEF SessionInv, Places
        <4>4. CASE alive
          <5>1. queue # <<>> /\ queue[Len(queue)] = <<c, RollbackStep(c)>>
            BY <1>1, <4>1, <4>2, <4>4 DEF OwnerInv
          <5>2. PICK L \in Nat : L = Len(queue) /\ L > 0
            BY <1>1, <5>1 DEF TypeOK
          <5>3. ASSUME NEW p \in 0..(L - 1), \A k \in Places : k > p => queue[k][1] = c
                PROVE  UndoneAfter(p, i[1])
            <6>1. ASSUME NEW j \in (p + 1)..L PROVE queue[j][2] # CommitStep(queue[j][1])
              <7>1. j \in Places /\ j > p
                BY <5>2 DEF Places
              <7>2. queue[j][1] = c
                BY <5>3, <7>1
              <7> QED
                BY <1>1, <4>1, <7>1, <7>2 DEF QueueInv, Kept
            <6>2. L \in (p + 1)..Len(queue) /\ queue[L] = <<i[1], RollbackStep(i[1])>>
              BY <2>3, <5>1, <5>2
            <6> QED
              BY <6>1, <6>2 DEF UndoneAfter
          <5>4. ASSUME luw[i] # 0 PROVE UndoneAfter(0, i[1])
            <6>1. \A k \in Places : queue[k][1] = c
              BY <1>1, <2>3, <5>4 DEF OwnerInv
            <6>2. 0 \in 0..(L - 1)
              BY <5>2
            <6> QED
              BY <5>3, <6>1, <6>2
          <5>5. ASSUME NEW p \in Places, queue[p] = i PROVE UndoneAfter(p, i[1])
            <6>1. \A k \in Places : k > p => queue[k][1] = c
              <7>1. \A j, k \in Places : j <= k /\ queue[j][1] = c => queue[k][1] = c
                BY <1>1 DEF OwnerInv
              <7>2. ASSUME NEW k \in Places, k > p PROVE p <= k
                BY <5>2, <7>2 DEF Places
              <7> QED
                BY <2>3, <5>5, <7>1, <7>2
            <6>2. p # L
              BY <3>2, <5>1, <5>2, <5>5
            <6>3. p \in 0..(L - 1)
              BY <5>2, <6>2 DEF Places
            <6> QED
              BY <5>3, <6>1, <6>3
          <5> QED
            BY <5>4, <5>5
        <4> QED
          BY <4>3, <4>4
      <3> QED
        BY <2>1, <2>3, <3>1, <3>2, <3>3
    <2> QED
      BY <2>2, <2>3
  <1>15. SuccessIsCommitted'
    <2> SUFFICES ASSUME NEW d \in Committers, pc'[d] = "ok", trail'[d] \cap {"reopened", "commitFailed"} = {}
                 PROVE  committed[<<d, 1>>] = 1
      BY <1>3 DEF SuccessIsCommitted
    <2>1. d # c /\ d \in Callers
      BY <1>6, CommitterFacts
    <2> QED
      BY <1>1, <1>6, <1>7, <2>1 DEF SuccessIsCommitted
  <1>16. LeftoverBehindBreaker'
    <2> SUFFICES ASSUME last, ~Clean', breaker' # "open" PROVE FALSE
      BY <1>8 DEF LeftoverBehindBreaker
    <2>1. ~Clean
      BY <1>3 DEF Clean
    <2>2. ~alive \/ pc[c] = "awaiting"
      OBVIOUS
    <2>3. CASE ~alive
      BY <1>1, <2>1, <2>3 DEF SessionInv, Clean
    <2>4. CASE alive
      <3>1. queue # <<>> /\ queue[Len(queue)] = <<c, RollbackStep(c)>>
        BY <1>1, <2>2, <2>4 DEF OwnerInv
      <3>2. RollbackStep(c) > Bapis(c)
        BY <1>2, ProgramFacts
      <3> QED
        BY <2>1, <3>1, <3>2 DEF Clean, Last
    <2> QED
      BY <2>3, <2>4
  <1> QED
    BY <1>9, <1>10, <1>11, <1>12, <1>13, <1>14, <1>15, <1>16 DEF IInv

(* The caller goes on at its step with an empty session, or without one.   *)
LEMMA FreshInv ==
  ASSUME IInv, NEW c \in Callers, c \in Active \/ (pc[c] = "new" /\ Active = {}),
         pc' = [pc EXCEPT ![c] = "calling"], step' = step, attempt' \in [Callers -> 0..Retries],
         trail' = trail \/ Mark(c, "reopened"),
         connected' \in BOOLEAN, alive' \in BOOLEAN, ~connected' => ~alive',
         breaker' \in {"closed", "open", "half-open"}, failures' \in 0..Threshold,
         queue' = <<>>, luw' = NoWork, committed' = committed,
         step[c] = CommitStep(c) => ~alive' \/ "reopened" \in trail'[c]
  PROVE  IInv'
  <1>1. TypeOK /\ ProgramInv /\ QueueInv /\ OwnerInv /\ WorkInv /\ SuccessIsCommitted
    BY DEF IInv
  <1>2. pc[c] \in {"new", "calling", "awaiting"} /\ \A d \in Active : d = c
    BY <1>1 DEF Active, OwnerInv
  <1>3. Places' = {} /\ queue' \in Seq(Callers \X (1..4))
    BY DEF Places
  <1>4. /\ pc' \in [Callers -> {"new", "calling", "awaiting", "ok", "failed"}] /\ pc'[c] = "calling"
        /\ \A d \in Callers : d # c => pc'[d] = pc[d]
    BY <1>1 DEF TypeOK
  <1>5. /\ trail' \in [Callers -> SUBSET Marks]
        /\ \A d \in Callers : /\ d # c => trail'[d] = trail[d]
                              /\ trail'[d] = trail[d] \/ trail'[d] = trail[d] \union {"reopened"}
    <2>1. trail \in [Callers -> SUBSET Marks]
      BY <1>1 DEF TypeOK
    <2>2. CASE trail' = trail
      BY <2>1, <2>2
    <2>3. CASE trail' = [trail EXCEPT ![c] = trail[c] \union {"reopened"}]
      <3>1. trail[c] \union {"reopened"} \in SUBSET Marks
        BY <2>1 DEF Marks
      <3> QED
        BY <2>1, <2>3, <3>1
    <2> QED
      BY <2>2, <2>3 DEF Mark
  <1>6. Active' = {c}
    BY <1>2, <1>4 DEF Active
  <1>7. TypeOK'
    BY <1>1, <1>3, <1>4, <1>5, NoWorkFacts DEF TypeOK
  <1>8. ProgramInv'
    <2> SUFFICES ASSUME NEW d \in Callers
                 PROVE  /\ step[d] <= RollbackStep(d)
                        /\ pc'[d] = "new" => step[d] = 1
                        /\ pc'[d] = "ok" => "commitSent" \in trail'[d] /\ step[d] = CommitStep(d)
                        /\ "commitSent" \in trail'[d] => step[d] >= CommitStep(d)
                        /\ "rollbackRefused" \in trail'[d] \/ "rollbackFailed" \in trail'[d] => pc'[d] = "failed"
      BY DEF ProgramInv
    <2>1. /\ "commitSent" \in trail'[d] <=> "commitSent" \in trail[d]
          /\ "rollbackRefused" \in trail'[d] <=> "rollbackRefused" \in trail[d]
          /\ "rollbackFailed" \in trail'[d] <=> "rollbackFailed" \in trail[d]
      BY <1>5
    <2>2. "rollbackRefused" \notin trail[c] /\ "rollbackFailed" \notin trail[c]
      BY <1>1, <1>2 DEF ProgramInv
    <2> QED
      BY <1>1, <1>4, <2>1, <2>2 DEF ProgramInv
  <1>9. SessionInv' /\ QueueInv'
    BY <1>3 DEF SessionInv, QueueInv
  <1>10. OwnerInv'
    <2>1. luw'[<<c, 1>>] = 1 \/ ~(step[c] = CommitStep(c) /\ alive' /\ "reopened" \notin trail'[c])
      OBVIOUS
    <2>2. Len(queue') = 0
      OBVIOUS
    <2> QED
      BY <1>3, <1>4, <1>6, <2>1, <2>2 DEF OwnerInv
  <1>11. WorkInv'
    <2> SUFFICES ASSUME NEW i \in Items
                 PROVE  /\ NoWork[i] + committed[i] <= 1
                        /\ step[i[1]] < i[2] \/ (step[i[1]] = i[2] /\ pc'[i[1]] \in {"new", "calling"})
                             => NoWork[i] = 0 /\ committed[i] = 0
                        /\ Kept(i[1])' => committed[i] = 0
                        /\ NoWork[i] = 0
      BY <1>3 DEF WorkInv
    <2>1. /\ luw[i] + committed[i] <= 1
          /\ step[i[1]] < i[2] \/ (step[i[1]] = i[2] /\ pc[i[1]] \in {"new", "calling"})
               => committed[i] = 0
          /\ Kept(i[1]) => committed[i] = 0
      BY <1>1 DEF WorkInv
    <2>2. NoWork[i] = 0 /\ luw[i] \in Nat /\ committed[i] \in Nat /\ i[1] \in Callers
      BY <1>1, NoWorkFacts, ItemFacts DEF TypeOK
    <2>3. NoWork[i] + committed[i] <= 1
      BY <2>1, <2>2
    <2>4. Kept(i[1])' => Kept(i[1])
      BY <1>5, <2>2 DEF Kept
    <2>5. ASSUME i[1] = c, step[i[1]] = i[2] PROVE committed[i] = 0
      <3>1. step[c] < CommitStep(c)
        BY <2>5, ItemFacts
      <3>2. step[c] \in 1..4 /\ CommitStep(c) \in 2..3
        BY <1>1, CallerFacts, ProgramFacts
      <3>3. "commitSent" \notin trail[c]
        BY <1>1, <3>1, <3>2 DEF ProgramInv
      <3>4. "rollbackRefused" \notin trail[c] /\ "rollbackFailed" \notin trail[c]
        BY <1>1, <1>2 DEF ProgramInv
      <3> QED
        BY <2>1, <2>5, <3>3, <3>4 DEF Kept
    <2>6. i[1] # c => pc'[i[1]] = pc[i[1]]
      BY <1>4, <2>2
    <2> QED
      BY <2>1, <2>2, <2>3, <2>4, <2>5, <2>6
  <1>12. SuccessIsCommitted'
    <2> SUFFICES ASSUME NEW d \in Committers, pc'[d] = "ok", trail'[d] \cap {"reopened", "commitFailed"} = {}
                 PROVE  committed[<<d, 1>>] = 1
      BY DEF SuccessIsCommitted
    <2>1. d # c /\ d \in Callers
      BY <1>4, CommitterFacts
    <2> QED
      BY <1>1, <1>4, <1>5, <2>1 DEF SuccessIsCommitted
  <1>13. LeftoverBehindBreaker'
    BY <1>6 DEF LeftoverBehindBreaker
  <1> QED
    BY <1>7, <1>8, <1>9, <1>10, <1>11, <1>12, <1>13 DEF IInv

(* A caller that leases a client with an open session starts in it.        *)
LEMMA EnterInv ==
  ASSUME IInv, NEW c \in Callers, pc[c] = "new", Active = {},
         pc' = [pc EXCEPT ![c] = "calling"],
         UNCHANGED <<step, attempt, trail, client, session>>
  PROVE  IInv'
  <1>1. TypeOK /\ ProgramInv /\ SessionInv /\ QueueInv /\ WorkInv /\ SuccessIsCommitted
    BY DEF IInv
  <1>2. /\ step' = step /\ attempt' = attempt /\ trail' = trail
        /\ connected' = connected /\ breaker' = breaker /\ failures' = failures
        /\ alive' = alive /\ queue' = queue /\ luw' = luw /\ committed' = committed
        /\ Places' = Places
    BY DEF client, session, Places
  <1>3. /\ pc' \in [Callers -> {"new", "calling", "awaiting", "ok", "failed"}] /\ pc'[c] = "calling"
        /\ \A d \in Callers : d # c => pc'[d] = pc[d]
    BY <1>1 DEF TypeOK
  <1>4. Active' = {c}
    BY <1>3 DEF Active
  <1>5. step[c] = 1 /\ CommitStep(c) \in 2..3
    BY <1>1, ProgramFacts DEF ProgramInv
  <1>6. \A j \in Places : queue[j][1] # c
    BY <1>1 DEF QueueInv
  <1>7. \A i \in Items : i[1] = c => luw[i] = 0 /\ committed[i] = 0
    <2> SUFFICES ASSUME NEW i \in Items, i[1] = c PROVE luw[i] = 0 /\ committed[i] = 0
      OBVIOUS
    <2>1. i[2] \in 1..2
      BY ItemFacts
    <2>2. step[i[1]] < i[2] \/ step[i[1]] = i[2]
      BY <1>5, <2>1
    <2> QED
      BY <1>1, <2>2 DEF WorkInv
  <1>8. TypeOK' /\ SessionInv'
    BY <1>1, <1>2, <1>3 DEF TypeOK, SessionInv
  <1>9. ProgramInv'
    <2>1. "rollbackRefused" \notin trail[c] /\ "rollbackFailed" \notin trail[c]
      BY <1>1 DEF ProgramInv
    <2> QED
      BY <1>1, <1>2, <1>3, <2>1 DEF ProgramInv
  <1>10. QueueInv'
    <2>1. ASSUME NEW j \in Places
          PROVE  pc'[queue[j][1]] = pc[queue[j][1]]
      BY <1>1, <1>3, <1>6, PlaceFacts
    <2> QED
      BY <1>1, <1>2, <2>1 DEF QueueInv
  <1>11. OwnerInv'
    BY <1>2, <1>3, <1>4, <1>5, <1>6, <1>7 DEF OwnerInv
  <1>12. WorkInv'
    <2>1. ASSUME NEW i \in Items
          PROVE  /\ step'[i[1]] < i[2] \/ (step'[i[1]] = i[2] /\ pc'[i[1]] \in {"new", "calling"})
                      => luw[i] = 0 /\ committed[i] = 0
                 /\ pc'[i[1]] = "failed" => pc[i[1]] = "failed"
      <3>1. i[1] \in Callers
        BY ItemFacts
      <3> QED
        BY <1>1, <1>2, <1>3, <1>7, <3>1 DEF WorkInv
    <2> QED
      BY <1>1, <1>2, <2>1, UndoneSame DEF WorkInv, Kept
  <1>13. SuccessIsCommitted'
    BY <1>1, <1>2, <1>3, CommitterFacts DEF SuccessIsCommitted
  <1>14. LeftoverBehindBreaker'
    BY <1>4 DEF LeftoverBehindBreaker
  <1> QED
    BY <1>8, <1>9, <1>10, <1>11, <1>12, <1>13, <1>14 DEF IInv

LEMMA AcquireInv == ASSUME IInv, NEW c \in Callers, Acquire(c) PROVE IInv'
  <1>1. CASE connected
    BY <1>1, EnterInv DEF Acquire
  <1>2. CASE ~connected
    <2>1. step[c] = 1 /\ CommitStep(c) \in 2..3
      BY ProgramFacts DEF Acquire, IInv, ProgramInv
    <2>2. 0 \in 0..Threshold /\ attempt \in [Callers -> 0..Retries]
      BY ThresholdAssumption DEF IInv, TypeOK
    <2>3. /\ pc[c] = "new" /\ Active = {} /\ pc' = [pc EXCEPT ![c] = "calling"]
          /\ step' = step /\ attempt' \in [Callers -> 0..Retries] /\ trail' = trail
          /\ connected' \in BOOLEAN /\ alive' \in BOOLEAN /\ connected'
          /\ breaker' \in {"closed", "open", "half-open"} /\ failures' \in 0..Threshold
          /\ queue' = <<>> /\ luw' = NoWork /\ committed' = committed
      BY <1>2, <2>2 DEF Acquire, NewSession
    <2>4. step[c] # CommitStep(c)
      BY <2>1
    <2> QED
      BY <2>3, <2>4, FreshInv
  <1> QED
    BY <1>1, <1>2

LEMMA ReopenInv == ASSUME IInv, NEW c \in Callers, Reopen(c) PROVE IInv'
  <1>1. /\ attempt' \in [Callers -> 0..Retries] /\ breaker' \in {"closed", "open", "half-open"}
        /\ failures' \in 0..Threshold /\ pc' = [pc EXCEPT ![c] = "calling"]
    BY DEF IInv, TypeOK, Reopen
  <1>2. "reopened" \in trail'[c]
    BY DEF IInv, TypeOK, Reopen, Mark
  <1> QED
    BY <1>1, <1>2, FreshInv DEF Reopen, NewSession, Active

LEMMA BreakerFailureFacts ==
  ASSUME TypeOK, BreakerFailure
  PROVE  breaker' \in {"closed", "open", "half-open"} /\ failures' \in 0..Threshold
  BY ThresholdAssumption DEF TypeOK, BreakerFailure

LEMMA TransientInv == ASSUME IInv, NEW c \in Callers, Transient(c) PROVE IInv'
  <1>1. TypeOK /\ c \in Active /\ pc[c] = "awaiting" /\ ~alive
    BY DEF IInv, Active, Transient
  <1>2. breaker' \in {"closed", "open", "half-open"} /\ failures' \in 0..Threshold
    BY <1>1, BreakerFailureFacts DEF Transient
  <1>3. CASE attempt[c] < Retries
    <2>1. attempt' \in [Callers -> 0..Retries]
      <3>1. attempt[c] + 1 \in 0..Retries
        BY <1>1, <1>3, RetriesAssumption DEF TypeOK
      <3> QED
        BY <1>1, <1>3, <3>1 DEF TypeOK, Transient
    <2>2. queue = <<>> /\ luw = NoWork
      BY <1>1 DEF IInv, SessionInv
    <2>3. /\ pc' = [pc EXCEPT ![c] = "calling"] /\ step' = step /\ trail' = trail
          /\ connected' \in BOOLEAN /\ ~alive' /\ alive' \in BOOLEAN
          /\ queue' = <<>> /\ luw' = NoWork /\ committed' = committed
      BY <1>1, <1>3, <2>2 DEF Transient, session, TypeOK
    <2> QED
      BY <1>1, <1>2, <2>1, <2>3, FreshInv
  <1>4. CASE ~(attempt[c] < Retries)
    BY <1>1, <1>2, <1>4, ThrowInv DEF Transient
  <1> QED
    BY <1>3, <1>4

LEMMA TimeoutInv == ASSUME IInv, NEW c \in Callers, Timeout(c) PROVE IInv'
  <1>1. TypeOK /\ c \in Active /\ pc[c] = "awaiting"
    BY DEF IInv, Active, Timeout
  <1>2. breaker' \in {"closed", "open", "half-open"} /\ failures' \in 0..Threshold
    BY <1>1, BreakerFailureFacts DEF Timeout
  <1> QED
    BY <1>1, <1>2, ThrowInv DEF Timeout

LEMMA ReopenFailsInv == ASSUME IInv, NEW c \in Callers, ReopenFails(c) PROVE IInv'
  <1>1. c \in Active /\ ~alive
    BY DEF IInv, SessionInv, Active, ReopenFails
  <1>2. breaker' \in {"closed", "open", "half-open"} /\ failures' \in 0..Threshold
    BY DEF IInv, TypeOK, ReopenFails, client
  <1> QED
    BY <1>1, <1>2, ThrowInv DEF ReopenFails, client

LEMMA RefusedInv == ASSUME IInv, NEW c \in Callers, Refused(c) PROVE IInv'
  <1>1. c \in Active
    BY DEF Active, Refused
  <1>2. breaker' \in {"closed", "open", "half-open"} /\ failures' \in 0..Threshold /\ breaker' = "open"
    BY DEF IInv, TypeOK, Refused, client
  <1> QED
    BY <1>1, <1>2, ThrowInv DEF Refused, client

(* What will be undone stays so when the queue grows.                      *)
LEMMA UndoneKept ==
  ASSUME TypeOK, NEW p \in Nat, NEW e \in Callers, UndoneAfter(p, e), Len(queue') \in Nat, Len(queue') >= Len(queue),
         \A j \in Places : queue'[j] = queue[j]
  PROVE  UndoneAfter(p, e)'
  <1>1. PICK L \in Nat : L = Len(queue)
    BY DEF TypeOK
  <1>2. PICK k \in (p + 1)..L :
          /\ queue[k] = <<e, RollbackStep(e)>>
          /\ \A j \in (p + 1)..k : queue[j][2] # CommitStep(queue[j][1])
    BY <1>1 DEF UndoneAfter
  <1>3. \A j \in (p + 1)..k : queue'[j] = queue[j]
    BY <1>1, <1>2 DEF Places
  <1>4. k \in (p + 1)..k /\ k \in (p + 1)..Len(queue')
    BY <1>1, <1>2
  <1>5. queue'[k] = <<e, RollbackStep(e)>>
    BY <1>2, <1>3, <1>4
  <1>6. \A j \in (p + 1)..k : queue'[j][2] # CommitStep(queue'[j][1])
    BY <1>2, <1>3
  <1> QED
    BY <1>4, <1>5, <1>6 DEF UndoneAfter

LEMMA SendInv == ASSUME IInv, NEW c \in Callers, Send(c) PROVE IInv'
  <1>1. /\ TypeOK /\ ProgramInv /\ SessionInv /\ QueueInv /\ OwnerInv /\ WorkInv
        /\ SuccessIsCommitted
    BY DEF IInv
  <1>2. c \in Active /\ pc[c] = "calling" /\ \A d \in Active : d = c
    BY <1>1 DEF Send, Active, OwnerInv
  <1>3. /\ step' = step /\ attempt' = attempt /\ connected' = connected /\ failures' = failures
        /\ alive' = alive /\ luw' = luw /\ committed' = committed
        /\ pc' = [pc EXCEPT ![c] = "awaiting"]
        /\ queue' = IF alive THEN Append(queue, <<c, step[c]>>) ELSE queue
    BY DEF Send
  <1>4. /\ pc' \in [Callers -> {"new", "calling", "awaiting", "ok", "failed"}] /\ pc'[c] = "awaiting"
        /\ \A d \in Callers : d # c => pc'[d] = pc[d]
    BY <1>1, <1>3 DEF TypeOK
  <1>5. /\ trail' \in [Callers -> SUBSET Marks]
        /\ \A d \in Callers : d # c => trail'[d] = trail[d]
        /\ trail'[c] = IF step[c] = CommitStep(c) THEN trail[c] \union {"commitSent"} ELSE trail[c]
    <2>1. trail \in [Callers -> SUBSET Marks]
      BY <1>1 DEF TypeOK
    <2>2. CASE step[c] # CommitStep(c)
      BY <2>1, <2>2 DEF Send
    <2>3. CASE step[c] = CommitStep(c)
      <3>1. trail' = [trail EXCEPT ![c] = trail[c] \union {"commitSent"}]
        BY <2>3 DEF Send, Mark
      <3>2. trail[c] \union {"commitSent"} \in SUBSET Marks
        BY <2>1 DEF Marks
      <3> QED
        BY <2>1, <2>3, <3>1, <3>2
    <2> QED
      BY <2>2, <2>3
  <1>6. PICK L \in Nat : L = Len(queue)
    BY <1>1 DEF TypeOK
  <1>7. /\ queue' \in Seq(Callers \X (1..4))
        /\ Len(queue') = IF alive THEN L + 1 ELSE L
        /\ \A j \in 1..L : queue'[j] = queue[j]
        /\ alive => queue'[L + 1] = <<c, step[c]>>
    <2>1. queue \in Seq(Callers \X (1..4)) /\ <<c, step[c]>> \in Callers \X (1..4)
      BY <1>1 DEF TypeOK
    <2> QED
      BY <1>3, <1>6, <2>1, AppendProperties
  <1>8. Active' = {c}
    BY <1>2, <1>4 DEF Active
  <1>9. TypeOK'
    <2>1. breaker' \in {"closed", "open", "half-open"}
      BY <1>1 DEF TypeOK, Send
    <2> QED
      BY <1>1, <1>3, <1>4, <1>5, <1>7, <2>1 DEF TypeOK
  <1>10. ProgramInv'
    <2> SUFFICES ASSUME NEW d \in Callers
                 PROVE  /\ step[d] <= RollbackStep(d)
                        /\ pc'[d] = "new" => step[d] = 1
                        /\ pc'[d] = "ok" => "commitSent" \in trail'[d] /\ step[d] = CommitStep(d)
                        /\ "commitSent" \in trail'[d] => step[d] >= CommitStep(d)
                        /\ "rollbackRefused" \in trail'[d] \/ "rollbackFailed" \in trail'[d] => pc'[d] = "failed"
      BY <1>3 DEF ProgramInv
    <2>1. CASE d = c
      <3>1. "rollbackRefused" \notin trail'[c] /\ "rollbackFailed" \notin trail'[c]
        BY <1>1, <1>2, <1>5 DEF ProgramInv
      <3>2. "commitSent" \in trail'[c] => step[c] >= CommitStep(c)
        BY <1>1, <1>5, CallerFacts, ProgramFacts DEF ProgramInv
      <3> QED
        BY <1>1, <1>4, <2>1, <3>1, <3>2 DEF ProgramInv
    <2>2. CASE d # c
      BY <1>1, <1>4, <1>5, <2>2 DEF ProgramInv
    <2> QED
      BY <2>1, <2>2
  <1>11. SessionInv'
    BY <1>1, <1>3 DEF SessionInv
  <1>12. ASSUME NEW j \in Places'
         PROVE  \/ j \in Places /\ queue'[j] = queue[j]
                \/ alive /\ j = L + 1 /\ queue'[j] = <<c, step[c]>>
    BY <1>6, <1>7 DEF Places
  <1>13. \A j \in Places : queue[j] # <<c, step[c]>>
    <2> SUFFICES ASSUME NEW j \in Places, queue[j] = <<c, step[c]>> PROVE FALSE
      OBVIOUS
    <2>1. step[c] < step[c] /\ step[c] \in 1..4
      BY <1>1, <1>2 DEF QueueInv, TypeOK
    <2> QED
      BY <2>1
  <1>14. QueueInv'
    <2>1. ASSUME NEW j \in Places'
          PROVE  /\ pc'[queue'[j][1]] # "new" /\ queue'[j][2] <= step[queue'[j][1]]
                 /\ pc'[queue'[j][1]] = "calling" => queue'[j][2] < step[queue'[j][1]]
                 /\ queue'[j][2] = CommitStep(queue'[j][1]) => "commitSent" \in trail'[queue'[j][1]]
      <3>1. CASE j \in Places /\ queue'[j] = queue[j]
        <4>1. queue[j][1] \in Callers
          BY <1>1, <3>1, PlaceFacts
        <4>2. /\ pc[queue[j][1]] # "new" /\ queue[j][2] <= step[queue[j][1]]
              /\ pc[queue[j][1]] = "calling" => queue[j][2] < step[queue[j][1]]
              /\ queue[j][2] = CommitStep(queue[j][1]) => "commitSent" \in trail[queue[j][1]]
          BY <1>1, <3>1 DEF QueueInv
        <4>3. trail[queue[j][1]] \subseteq trail'[queue[j][1]]
          BY <1>5, <4>1
        <4>4. pc'[queue[j][1]] = IF queue[j][1] = c THEN "awaiting" ELSE pc[queue[j][1]]
          BY <1>4, <4>1
        <4> QED
          BY <3>1, <4>2, <4>3, <4>4
      <3>2. CASE queue'[j] = <<c, step[c]>>
        <4>1. step[c] <= step[c]
          BY <1>1, CallerFacts
        <4> QED
          BY <1>4, <1>5, <3>2, <4>1
      <3> QED
        BY <1>12, <3>1, <3>2
    <2>2. ASSUME NEW j \in Places', NEW k \in Places', queue'[j] = queue'[k]
          PROVE  j = k
      BY <1>1, <1>12, <1>13, <2>2 DEF QueueInv
    <2> QED
      BY <1>3, <2>1, <2>2 DEF QueueInv
  <1>15. OwnerInv'
    <2>1. /\ \A j, k \in Places : j <= k /\ queue[j][1] = c => queue[k][1] = c
          /\ \A i \in Items : i[1] = c /\ luw[i] # 0 => \A k \in Places : queue[k][1] = c
          /\ step[c] = CommitStep(c) => L <= 0
          /\ step[c] = CommitStep(c) /\ alive /\ c \in Committers /\ "reopened" \notin trail[c]
               => luw[<<c, 1>>] = 1
      BY <1>1, <1>2, <1>6 DEF OwnerInv
    <2>2. ASSUME NEW j \in Places', NEW k \in Places', j <= k, queue'[j][1] = c
          PROVE  queue'[k][1] = c
      <3>1. CASE queue'[k] = <<c, step[c]>>
        BY <3>1
      <3>2. CASE k \in Places /\ queue'[k] = queue[k]
        <4>1. j \in Places
          BY <1>6, <2>2, <3>2 DEF Places
        <4>2. queue[j][1] = c
          BY <1>6, <1>7, <2>2, <4>1 DEF Places
        <4> QED
          BY <2>1, <2>2, <3>2, <4>1, <4>2
      <3> QED
        BY <1>12, <3>1, <3>2
    <2>3. ASSUME NEW i \in Items, i[1] = c, luw[i] # 0, NEW k \in Places'
          PROVE  queue'[k][1] = c
      BY <1>12, <2>1, <2>3
    <2>4. alive => queue' # <<>> /\ queue'[Len(queue')] = <<c, step[c]>>
      BY <1>7
    <2>5. step[c] = CommitStep(c) => Len(queue') <= 1
      BY <1>7, <2>1
    <2>6. "reopened" \notin trail'[c] => "reopened" \notin trail[c]
      BY <1>5
    <2>7. step[c] = CommitStep(c) => Len(queue') <= (IF pc'[c] = "calling" THEN 0 ELSE 1)
      BY <1>4, <2>5
    <2>8. step[c] = CommitStep(c) /\ alive /\ c \in Committers /\ "reopened" \notin trail'[c]
            => luw[<<c, 1>>] = 1
      BY <2>1, <2>6
    <2>9. \A d \in Active' : d = c
      BY <1>8
    <2> QED
      BY <1>3, <2>2, <2>3, <2>4, <2>7, <2>8, <2>9 DEF OwnerInv
  <1>16. WorkInv'
    <2> SUFFICES ASSUME NEW i \in Items
                 PROVE  /\ luw[i] + committed[i] <= 1
                        /\ \A j \in Places' : queue'[j] = i => luw[i] = 0 /\ committed[i] = 0
                        /\ step[i[1]] < i[2] \/ (step[i[1]] = i[2] /\ pc'[i[1]] \in {"new", "calling"})
                             => luw[i] = 0 /\ committed[i] = 0
                        /\ Kept(i[1])' => committed[i] = 0
                        /\ Kept(i[1])' /\ pc'[i[1]] = "failed" =>
                             /\ luw[i] # 0 => UndoneAfter(0, i[1])'
                             /\ \A p \in Places' : queue'[p] = i => UndoneAfter(p, i[1])'
      BY <1>3 DEF WorkInv
    <2>1. /\ luw[i] + committed[i] <= 1
          /\ \A j \in Places : queue[j] = i => luw[i] = 0 /\ committed[i] = 0
          /\ step[i[1]] < i[2] \/ (step[i[1]] = i[2] /\ pc[i[1]] \in {"new", "calling"})
               => luw[i] = 0 /\ committed[i] = 0
          /\ Kept(i[1]) => committed[i] = 0
          /\ Kept(i[1]) /\ pc[i[1]] = "failed" =>
               /\ luw[i] # 0 => UndoneAfter(0, i[1])
               /\ \A p \in Places : queue[p] = i => UndoneAfter(p, i[1])
      BY <1>1 DEF WorkInv
    <2>2. i[1] \in Callers
      BY ItemFacts
    <2>3. /\ Kept(i[1])' => Kept(i[1])
          /\ pc'[i[1]] = (IF i[1] = c THEN "awaiting" ELSE pc[i[1]])
      BY <1>4, <1>5, <2>2 DEF Kept
    <2>4. ASSUME NEW j \in Places', queue'[j] = i PROVE luw[i] = 0 /\ committed[i] = 0
      <3>1. CASE j \in Places /\ queue'[j] = queue[j]
        BY <2>1, <2>4, <3>1
      <3>2. CASE queue'[j] = <<c, step[c]>>
        <4>1. i[1] = c /\ i[2] = step[c]
          BY <2>4, <3>2
        <4> QED
          BY <1>2, <2>1, <4>1
      <3> QED
        BY <1>12, <3>1, <3>2
    <2>5. ASSUME Kept(i[1])', pc'[i[1]] = "failed"
          PROVE  /\ luw[i] # 0 => UndoneAfter(0, i[1])'
                 /\ \A p \in Places' : queue'[p] = i => UndoneAfter(p, i[1])'
      <3>1. i[1] # c /\ pc[i[1]] = "failed" /\ Kept(i[1])
        BY <2>3, <2>5
      <3>2. Len(queue') \in Nat /\ Len(queue') >= Len(queue) /\ \A j \in Places : queue'[j] = queue[j]
        BY <1>6, <1>7 DEF Places
      <3>3. luw[i] # 0 => UndoneAfter(0, i[1])'
        BY <1>1, <2>1, <3>1, <3>2, ItemFacts, UndoneKept
      <3>4. ASSUME NEW p \in Places', queue'[p] = i PROVE UndoneAfter(p, i[1])'
        <4>1. p \in Places /\ queue[p] = i
          BY <1>12, <3>1, <3>4
        <4>2. p \in Nat
          BY <1>6, <4>1 DEF Places
        <4> QED
          BY <1>1, <2>1, <3>1, <3>2, <4>1, <4>2, ItemFacts, UndoneKept
      <3> QED
        BY <3>3, <3>4
    <2>6. step[i[1]] < i[2] \/ (step[i[1]] = i[2] /\ pc'[i[1]] \in {"new", "calling"})
            => luw[i] = 0 /\ committed[i] = 0
      BY <2>1, <2>3
    <2> QED
      BY <2>1, <2>3, <2>4, <2>5, <2>6
  <1>17. SuccessIsCommitted'
    <2> SUFFICES ASSUME NEW d \in Committers, pc'[d] = "ok", trail'[d] \cap {"reopened", "commitFailed"} = {}
                 PROVE  committed[<<d, 1>>] = 1
      BY <1>3 DEF SuccessIsCommitted
    <2>1. d # c /\ d \in Callers
      BY <1>4, CommitterFacts
    <2> QED
      BY <1>1, <1>4, <1>5, <2>1 DEF SuccessIsCommitted
  <1>18. LeftoverBehindBreaker'
    BY <1>8 DEF LeftoverBehindBreaker
  <1> QED
    BY <1>9, <1>10, <1>11, <1>14, <1>15, <1>16, <1>17, <1>18 DEF IInv

-----------------------------------------------------------------------------
(* Steps of the session                                                    *)

(* What the session does for the call of step s of a caller, and what of   *)
(* it the history keeps.                                                   *)
Done(c, s) ==
  \/ s <= Bapis(c) /\ \E n \in {0, 1} : Work(c, s, n)
  \/ s = CommitStep(c) /\ Commit
  \/ s = RollbackStep(c) /\ Rollback

Undone(c, s) ==
  /\ s = CommitStep(c) /\ Rollback
  /\ IF Answered(c) THEN Mark(c, "commitFailed") ELSE UNCHANGED trail

Ignored(c, s) ==
  /\ UNCHANGED <<luw, committed>>
  /\ IF s = RollbackStep(c) THEN Mark(c, "rollbackFailed") ELSE UNCHANGED trail

Effect(c, s) == (Done(c, s) /\ UNCHANGED trail) \/ Undone(c, s) \/ Ignored(c, s)

LEMMA HeadFacts ==
  ASSUME TypeOK, queue # <<>>
  PROVE  /\ 1 \in Places /\ Head(queue) = queue[1]
         /\ Tail(queue) \in Seq(Callers \X (1..4)) /\ Len(Tail(queue)) = Len(queue) - 1
         /\ \A j \in 1..(Len(queue) - 1) : Tail(queue)[j] = queue[j + 1]
  <1>1. queue \in Seq(Callers \X (1..4)) /\ Len(queue) \in Nat /\ Len(queue) > 0
    BY DEF TypeOK
  <1>2. 1 \in Places /\ Head(queue) = queue[1]
    BY <1>1 DEF Places
  <1> QED
    BY <1>1, <1>2, HeadTailProperties

(* A commit takes the work of nobody who was not told of it.               *)
LEMMA CommitFacts ==
  ASSUME IInv, queue # <<>>, NEW c \in Callers, Head(queue) = <<c, CommitStep(c)>>, NEW i \in Items
  PROVE  /\ committed[i] + luw[i] \in Nat /\ committed[i] + luw[i] <= 1
         /\ committed[i] = 1 => committed[i] + luw[i] = 1
         /\ luw[i] = 1 => committed[i] + luw[i] = 1
         /\ luw[i] = 0 /\ committed[i] = 0 => committed[i] + luw[i] = 0
         /\ Kept(i[1]) => committed[i] + luw[i] = 0
  <1>1. TypeOK /\ ProgramInv /\ QueueInv /\ OwnerInv /\ WorkInv
    BY DEF IInv
  <1>2. luw[i] \in Nat /\ committed[i] \in Nat /\ luw[i] + committed[i] <= 1 /\ i[1] \in Callers
    BY <1>1, ItemFacts DEF TypeOK, WorkInv
  <1>3. 1 \in Places /\ queue[1] = <<c, CommitStep(c)>>
    BY <1>1, HeadFacts
  <1>4. ASSUME Kept(i[1]) PROVE luw[i] = 0 /\ committed[i] = 0
    <2>1. committed[i] = 0
      BY <1>1, <1>4 DEF WorkInv
    <2>2. "commitSent" \in trail[c] /\ c # i[1]
      BY <1>1, <1>3, <1>4 DEF QueueInv, Kept
    <2>3. CASE pc[i[1]] = "new"
      <3>1. step[i[1]] = 1 /\ i[2] \in 1..2
        BY <1>1, <1>2, <2>3, ItemFacts DEF ProgramInv
      <3>2. step[i[1]] < i[2] \/ step[i[1]] = i[2]
        BY <3>1
      <3> QED
        BY <1>1, <2>3, <3>2 DEF WorkInv
    <2>4. CASE i[1] \in Active
      <3>1. luw[i] # 0 => queue[1][1] = i[1]
        BY <1>1, <1>3, <2>4 DEF OwnerInv
      <3> QED
        BY <1>3, <2>1, <2>2, <3>1
    <2>5. CASE pc[i[1]] = "failed"
      <3>1. luw[i] # 0 => UndoneAfter(0, i[1])
        BY <1>1, <1>4, <2>5 DEF WorkInv
      <3>2. ~UndoneAfter(0, i[1])
        <4> SUFFICES ASSUME NEW k \in 1..Len(queue),
                            \A j \in 1..k : queue[j][2] # CommitStep(queue[j][1])
                     PROVE  FALSE
          BY DEF UndoneAfter
        <4>1. 1 \in 1..k
          OBVIOUS
        <4> QED
          BY <1>3, <4>1
      <3> QED
        BY <2>1, <3>1, <3>2
    <2>6. pc[i[1]] # "ok"
      BY <1>1, <1>2, <1>4 DEF ProgramInv, Kept
    <2> QED
      BY <1>1, <1>2, <2>3, <2>4, <2>5, <2>6, CallerFacts
  <1> QED
    BY <1>2, <1>4

(* The session after one call, as the callers see it that have not learned *)
(* of it.                                                                  *)
LEMMA ServedFacts ==
  ASSUME IInv, Pop, NEW c \in Callers, NEW s \in 1..4, Head(queue) = <<c, s>>, Effect(c, s),
         NEW i \in Items
  PROVE  /\ luw'[i] \in Nat /\ committed'[i] \in Nat /\ luw'[i] + committed'[i] <= 1
         /\ luw'[i] # 0 => luw[i] # 0 \/ i = <<c, s>>
         /\ i # <<c, s>> /\ luw[i] = 0 /\ committed[i] = 0 => luw'[i] = 0 /\ committed'[i] = 0
         /\ committed[i] = 1 => committed'[i] = 1
         /\ Kept(i[1]) => committed'[i] = 0
         /\ Commit => (luw[i] = 1 => committed'[i] = 1)
         /\ Rollback => luw'[i] = 0
  <1>1. TypeOK /\ QueueInv /\ WorkInv /\ queue # <<>>
    BY DEF IInv, Pop
  <1>2. luw[i] \in Nat /\ committed[i] \in Nat /\ luw[i] + committed[i] <= 1
    BY <1>1 DEF TypeOK, WorkInv
  <1>3. Kept(i[1]) => committed[i] = 0
    BY <1>1 DEF WorkInv
  <1>4. luw \in [Items -> Nat]
    BY <1>1 DEF TypeOK
  <1>5. /\ Commit => /\ committed'[i] = committed[i] + luw[i]
                     /\ luw[i] = 1 => committed'[i] = 1
        /\ Rollback => luw'[i] = 0 /\ committed'[i] = committed[i]
    <2>1. Commit => committed'[i] = committed[i] + luw[i]
      BY DEF Commit
    <2>2. luw[i] = 1 => committed[i] + luw[i] = 1
      BY <1>2
    <2> QED
      BY <2>1, <2>2, NoWorkFacts DEF Rollback
  <1>6. CASE s <= Bapis(c) /\ \E n \in {0, 1} : Work(c, s, n)
    <2>1. PICK n \in {0, 1} : Work(c, s, n)
      BY <1>6
    <2>2. committed' = committed /\ luw' = [luw EXCEPT ![<<c, s>>] = luw[<<c, s>>] + n]
      BY <2>1 DEF Work
    <2>3. CASE i = <<c, s>>
      <3>1. luw[i] = 0 /\ committed[i] = 0
        BY <1>1, <2>3, HeadFacts DEF WorkInv
      <3>2. luw'[i] = luw[i] + n
        BY <1>4, <2>2, <2>3
      <3>3. luw'[i] \in {0, 1} /\ committed'[i] = 0
        BY <2>2, <3>1, <3>2
      <3> QED
        BY <1>5, <2>3, <3>1, <3>3
    <2>4. CASE i # <<c, s>>
      <3>1. luw'[i] = luw[i] /\ committed'[i] = committed[i]
        BY <1>4, <2>2, <2>4
      <3> QED
        BY <1>2, <1>3, <1>5, <2>4, <3>1
    <2> QED
      BY <2>3, <2>4
  <1>7. CASE s = CommitStep(c) /\ Commit
    <2>1. committed'[i] = committed[i] + luw[i] /\ luw'[i] = 0
      BY <1>7, NoWorkFacts DEF Commit
    <2>2. /\ committed[i] + luw[i] \in Nat /\ committed[i] + luw[i] <= 1
          /\ committed[i] = 1 => committed[i] + luw[i] = 1
          /\ luw[i] = 1 => committed[i] + luw[i] = 1
          /\ luw[i] = 0 /\ committed[i] = 0 => committed[i] + luw[i] = 0
          /\ Kept(i[1]) => committed[i] + luw[i] = 0
      BY <1>1, <1>7, CommitFacts
    <2>3. 0 + committed'[i] = committed'[i]
      BY <2>1, <2>2
    <2> QED
      BY <1>5, <2>1, <2>2, <2>3
  <1>8. CASE Rollback
    <2>1. committed'[i] = committed[i] /\ luw'[i] = 0
      BY <1>5, <1>8
    <2>2. luw'[i] + committed'[i] <= 1
      BY <1>2, <2>1
    <2> QED
      BY <1>2, <1>3, <1>5, <2>1, <2>2
  <1>9. CASE UNCHANGED <<luw, committed>>
    BY <1>2, <1>3, <1>5, <1>9
  <1> QED
    BY <1>6, <1>7, <1>8, <1>9 DEF Effect, Done, Undone, Ignored

LEMMA ServedTypes ==
  ASSUME IInv, Pop, NEW c \in Callers, NEW s \in 1..4, Head(queue) = <<c, s>>, Effect(c, s)
  PROVE  /\ luw' \in [Items -> Nat] /\ committed' \in [Items -> Nat]
         /\ queue' \in Seq(Callers \X (1..4)) /\ Len(queue') = Len(queue) - 1
         /\ \A j \in Places' : j + 1 \in Places /\ queue'[j] = queue[j + 1]
         /\ 1 \in Places /\ queue[1] = <<c, s>>
         /\ connected' = connected /\ alive' = alive /\ alive
  <1>1. TypeOK /\ queue # <<>> /\ queue' = Tail(queue)
    BY DEF IInv, Pop
  <1>2. luw \in [Items -> Nat] /\ committed \in [Items -> Nat] /\ Len(queue) \in Nat
    BY <1>1 DEF TypeOK
  <1>3. luw' = [i \in Items |-> luw'[i]] /\ committed' = [i \in Items |-> committed'[i]]
    BY <1>2 DEF Effect, Done, Undone, Ignored, Work, Commit, Rollback, NoWork
  <1>4. \A i \in Items : luw'[i] \in Nat /\ committed'[i] \in Nat
    BY ServedFacts
  <1>5. luw' \in [Items -> Nat] /\ committed' \in [Items -> Nat]
    BY <1>3, <1>4
  <1>6. \A j \in Places' : j + 1 \in Places /\ queue'[j] = queue[j + 1]
    BY <1>1, <1>2, HeadFacts DEF Places
  <1> QED
    BY <1>1, <1>5, <1>6, HeadFacts DEF Pop

(* The history of the caller the call belongs to.                          *)
LEMMA ServedTrail ==
  ASSUME IInv, Pop, NEW c \in Callers, NEW s \in 1..4, Head(queue) = <<c, s>>, Effect(c, s)
  PROVE  /\ trail' \in [Callers -> SUBSET Marks]
         /\ \A d \in Callers : trail[d] \subseteq trail'[d] /\ (d # c => trail'[d] = trail[d])
         /\ \A w \in {"reopened", "commitSent", "rollbackRefused"} :
              \A d \in Callers : w \in trail'[d] => w \in trail[d]
         /\ s # RollbackStep(c) => ("rollbackFailed" \in trail'[c] => "rollbackFailed" \in trail[c])
         /\ s = RollbackStep(c) => luw' = NoWork \/ "rollbackFailed" \in trail'[c]
  <1>1. trail \in [Callers -> SUBSET Marks]
    BY DEF IInv, TypeOK
  <1>2. CASE trail' = trail
    <2>1. ASSUME s = RollbackStep(c) PROVE luw' = NoWork \/ "rollbackFailed" \in trail'[c]
      <3>1. s # CommitStep(c) /\ ~(s <= Bapis(c))
        BY <2>1, ProgramFacts
      <3>2. Rollback \/ Mark(c, "rollbackFailed")
        BY <2>1, <3>1 DEF Effect, Done, Undone, Ignored
      <3>3. Mark(c, "rollbackFailed") => "rollbackFailed" \in trail'[c]
        BY <1>1 DEF Mark
      <3> QED
        BY <3>2, <3>3 DEF Rollback
    <2> QED
      BY <1>1, <1>2, <2>1
  <1>3. ASSUME NEW w \in {"commitFailed", "rollbackFailed"}, Mark(c, w),
               w = "commitFailed" <=> s # RollbackStep(c)
        PROVE  /\ trail' \in [Callers -> SUBSET Marks]
               /\ \A d \in Callers : trail'[d] = IF d = c THEN trail[d] \union {w} ELSE trail[d]
    <2>1. trail[c] \union {w} \in SUBSET Marks
      BY <1>1 DEF Marks
    <2> QED
      BY <1>1, <1>3, <2>1 DEF Mark
  <1>4. CASE trail' # trail
    <2>1. PICK w \in {"commitFailed", "rollbackFailed"} :
            Mark(c, w) /\ (w = "commitFailed" <=> s # RollbackStep(c))
      BY <1>4, ProgramFacts DEF Effect, Undone, Ignored
    <2> QED
      BY <1>3, <2>1
  <1> QED
    BY <1>2, <1>4

LEMMA UndoneShifted ==
  ASSUME IInv, Pop, NEW c \in Callers, NEW s \in 1..4, Head(queue) = <<c, s>>, Effect(c, s),
         NEW p \in Nat, NEW e \in Callers, UndoneAfter(p + 1, e)
  PROVE  UndoneAfter(p, e)'
  <1>1. /\ Len(queue') = Len(queue) - 1
        /\ \A j \in Places' : j + 1 \in Places /\ queue'[j] = queue[j + 1]
    BY ServedTypes
  <1>2. PICK L \in Nat : L = Len(queue)
    BY DEF IInv, TypeOK
  <1>3. PICK k \in (p + 1 + 1)..L :
          /\ queue[k] = <<e, RollbackStep(e)>>
          /\ \A j \in (p + 1 + 1)..k : queue[j][2] # CommitStep(queue[j][1])
    BY <1>2 DEF UndoneAfter
  <1>4. k - 1 \in (p + 1)..Len(queue') /\ k - 1 \in Places' /\ (k - 1) + 1 = k
    BY <1>1, <1>2, <1>3 DEF Places
  <1>5. queue'[k - 1] = queue[k]
    BY <1>1, <1>4
  <1>6. ASSUME NEW j \in (p + 1)..(k - 1)
        PROVE  queue'[j][2] # CommitStep(queue'[j][1])
    <2>1. j \in Places' /\ j + 1 \in (p + 1 + 1)..k
      BY <1>1, <1>2, <1>3 DEF Places
    <2> QED
      BY <1>1, <1>3, <2>1
  <1> QED
    BY <1>3, <1>4, <1>5, <1>6 DEF UndoneAfter

(* What is on its way out goes on.                                         *)
LEMMA ServedUndone ==
  ASSUME IInv, Pop, NEW c \in Callers, NEW s \in 1..4, Head(queue) = <<c, s>>, Effect(c, s),
         NEW i \in Items, Kept(i[1])', pc[i[1]] = "failed"
  PROVE  /\ luw'[i] # 0 => UndoneAfter(0, i[1])'
         /\ \A p \in Places' : queue'[p] = i => UndoneAfter(p, i[1])'
  <1>0. i[1] \in Callers /\ Kept(i[1])
    BY ItemFacts, ServedTrail DEF Kept
  <1>1. /\ \A j \in Places' : j + 1 \in Places /\ queue'[j] = queue[j + 1]
        /\ 1 \in Places /\ queue[1] = <<c, s>> /\ Len(queue') = Len(queue) - 1
    BY ServedTypes
  <1>2. PICK L \in Nat : L = Len(queue)
    BY DEF IInv, TypeOK
  <1>3. /\ luw[i] # 0 => UndoneAfter(0, i[1])
        /\ \A p \in Places : queue[p] = i => UndoneAfter(p, i[1])
    BY <1>0 DEF IInv, WorkInv
  <1>4. ASSUME luw'[i] # 0 PROVE UndoneAfter(0, i[1])'
    <2>1. <<c, s>> # <<i[1], RollbackStep(i[1])>> /\ (luw[i] # 0 \/ i = <<c, s>>)
      <3>1. ASSUME c = i[1], s = RollbackStep(c) PROVE FALSE
        <4>1. luw' # NoWork
          BY <1>4, NoWorkFacts
        <4>2. "rollbackFailed" \in trail'[c]
          BY <3>1, <4>1, ServedTrail
        <4> QED
          BY <3>1, <4>2 DEF Kept
      <3> QED
        BY <1>4, <3>1, ServedFacts
    <2>2. UndoneAfter(1, i[1])
      <3>1. CASE luw[i] # 0
        <4>1. PICK k \in (0 + 1)..L :
                /\ queue[k] = <<i[1], RollbackStep(i[1])>>
                /\ \A j \in (0 + 1)..k : queue[j][2] # CommitStep(queue[j][1])
          BY <1>2, <1>3, <3>1 DEF UndoneAfter
        <4>2. k # 1
          BY <1>1, <2>1, <4>1
        <4>3. k \in (1 + 1)..Len(queue) /\ \A j \in (1 + 1)..k : j \in (0 + 1)..k
          BY <1>2, <4>1, <4>2
        <4> QED
          BY <4>1, <4>3 DEF UndoneAfter
      <3>2. CASE i = <<c, s>>
        BY <1>1, <1>3, <3>2
      <3> QED
        BY <2>1, <3>1, <3>2
    <2>3. 0 \in Nat /\ UndoneAfter(0 + 1, i[1])
      BY <2>2
    <2> QED
      BY <1>0, <2>3, UndoneShifted
  <1>5. ASSUME NEW p \in Places', queue'[p] = i PROVE UndoneAfter(p, i[1])'
    <2>1. p \in Nat
      BY <1>1, <1>2 DEF Places
    <2>2. UndoneAfter(p + 1, i[1])
      BY <1>1, <1>3, <1>5
    <2> QED
      BY <1>0, <2>1, <2>2, UndoneShifted
  <1> QED
    BY <1>4, <1>5

(* Nobody waits for the call any more, or it is not the last one.          *)
LEMMA UnansweredInv ==
  ASSUME IInv, Pop, NEW c \in Callers, NEW s \in 1..4, Head(queue) = <<c, s>>, Effect(c, s),
         ~Answered(c), UNCHANGED <<pc, step, attempt, breaker, failures>>
  PROVE  IInv'
  <1>1. /\ TypeOK /\ ProgramInv /\ SessionInv /\ QueueInv /\ OwnerInv /\ WorkInv
        /\ SuccessIsCommitted /\ LeftoverBehindBreaker
    BY DEF IInv
  <1>2. /\ pc' = pc /\ step' = step /\ attempt' = attempt /\ breaker' = breaker
        /\ failures' = failures /\ Active' = Active
    BY DEF Active
  <1>3. /\ luw' \in [Items -> Nat] /\ committed' \in [Items -> Nat]
        /\ queue' \in Seq(Callers \X (1..4)) /\ Len(queue') = Len(queue) - 1
        /\ \A j \in Places' : j + 1 \in Places /\ queue'[j] = queue[j + 1]
        /\ 1 \in Places /\ queue[1] = <<c, s>>
        /\ connected' = connected /\ alive' = alive /\ alive
    BY ServedTypes
  <1>4. PICK L \in Nat : L = Len(queue) /\ L > 0
    BY <1>1, <1>3 DEF TypeOK, Places
  <1>5. /\ trail' \in [Callers -> SUBSET Marks]
        /\ \A d \in Callers : trail[d] \subseteq trail'[d] /\ (d # c => trail'[d] = trail[d])
        /\ \A d \in Callers : /\ "reopened" \in trail'[d] => "reopened" \in trail[d]
                              /\ "commitSent" \in trail'[d] => "commitSent" \in trail[d]
                              /\ "rollbackRefused" \in trail'[d] => "rollbackRefused" \in trail[d]
        /\ s # RollbackStep(c) => ("rollbackFailed" \in trail'[c] => "rollbackFailed" \in trail[c])
        /\ s = RollbackStep(c) => luw' = NoWork \/ "rollbackFailed" \in trail'[c]
    BY ServedTrail
  <1>6. TypeOK' /\ SessionInv'
    BY <1>1, <1>2, <1>3, <1>5 DEF TypeOK, SessionInv
  <1>7. QueueInv'
    <2>1. ASSUME NEW j \in Places', NEW k \in Places', queue'[j] = queue'[k] PROVE j = k
      <3>1. j + 1 = k + 1
        BY <1>1, <1>3, <2>1 DEF QueueInv
      <3>2. j \in Nat /\ k \in Nat
        BY <1>3, <1>4 DEF Places
      <3> QED
        BY <3>1, <3>2
    <2>2. ASSUME NEW j \in Places'
          PROVE  /\ pc[queue'[j][1]] # "new" /\ queue'[j][2] <= step[queue'[j][1]]
                 /\ pc[queue'[j][1]] = "calling" => queue'[j][2] < step[queue'[j][1]]
                 /\ queue'[j][2] = CommitStep(queue'[j][1]) => "commitSent" \in trail'[queue'[j][1]]
      <3>1. PICK k \in Places : queue'[j] = queue[k]
        BY <1>3
      <3>2. /\ pc[queue[k][1]] # "new" /\ queue[k][2] <= step[queue[k][1]]
            /\ pc[queue[k][1]] = "calling" => queue[k][2] < step[queue[k][1]]
            /\ queue[k][2] = CommitStep(queue[k][1]) => "commitSent" \in trail[queue[k][1]]
        BY <1>1 DEF QueueInv
      <3>3. trail[queue[k][1]] \subseteq trail'[queue[k][1]]
        BY <1>1, <1>5, PlaceFacts
      <3> QED
        BY <3>1, <3>2, <3>3
    <2> QED
      BY <1>2, <2>1, <2>2 DEF QueueInv
  <1>8. ASSUME NEW d \in Active, pc[d] = "awaiting"
        PROVE  L > 1 /\ queue[L] = <<d, step[d]>>
    <2>1. queue[L] = <<d, step[d]>>
      BY <1>1, <1>3, <1>4, <1>8 DEF OwnerInv
    <2>2. L # 1
      BY <1>3, <1>4, <1>8, <2>1 DEF Answered
    <2> QED
      BY <1>4, <2>1, <2>2
  <1>9. pc[c] # "new" /\ s <= step[c] /\ (pc[c] = "calling" => s < step[c])
    <2>1. /\ pc[queue[1][1]] # "new" /\ queue[1][2] <= step[queue[1][1]]
          /\ pc[queue[1][1]] = "calling" => queue[1][2] < step[queue[1][1]]
      BY <1>1, <1>3 DEF QueueInv
    <2>2. queue[1][1] = c /\ queue[1][2] = s
      BY <1>3
    <2> QED
      BY <2>1, <2>2
  <1>10. ASSUME s = RollbackStep(c) PROVE pc[c] = "failed"
    <2>1. step[c] \in 1..4 /\ s <= step[c] /\ step[c] <= s
      BY <1>1, <1>10, <1>9, CallerFacts DEF ProgramInv
    <2>2. step[c] = s /\ pc[c] # "calling" /\ pc[c] # "ok"
      <3>1. step[c] = s
        BY <2>1
      <3> QED
        BY <1>1, <1>10, <1>9, <3>1, ProgramFacts DEF ProgramInv
    <2>3. pc[c] # "awaiting"
      <3> SUFFICES ASSUME pc[c] = "awaiting" PROVE FALSE
        OBVIOUS
      <3>1. c \in Active
        BY DEF Active
      <3>2. L > 1 /\ queue[L] = queue[1]
        BY <1>3, <1>8, <2>2, <3>1
      <3>3. L \in Places
        BY <1>4 DEF Places
      <3>4. L = 1
        BY <1>1, <1>3, <3>2, <3>3 DEF QueueInv
      <3> QED
        BY <3>2, <3>4
    <2> QED
      BY <1>1, <1>9, <2>2, <2>3, CallerFacts
  <1>11. ProgramInv'
    <2> SUFFICES ASSUME NEW d \in Callers
                 PROVE  /\ step[d] <= RollbackStep(d)
                        /\ pc[d] = "new" => step[d] = 1
                        /\ pc[d] = "ok" => "commitSent" \in trail'[d] /\ step[d] = CommitStep(d)
                        /\ "commitSent" \in trail'[d] => step[d] >= CommitStep(d)
                        /\ "rollbackRefused" \in trail'[d] \/ "rollbackFailed" \in trail'[d] => pc[d] = "failed"
      BY <1>2 DEF ProgramInv
    <2>1. "rollbackFailed" \in trail'[d] => "rollbackFailed" \in trail[d] \/ pc[d] = "failed"
      BY <1>5, <1>10
    <2> QED
      BY <1>1, <1>5, <2>1 DEF ProgramInv
  <1>12. OwnerInv'
    <2> SUFFICES ASSUME NEW d \in Active
                 PROVE  /\ \A e \in Active : e = d
                        /\ \A j, k \in Places' : j <= k /\ queue'[j][1] = d => queue'[k][1] = d
                        /\ \A i \in Items : i[1] = d /\ luw'[i] # 0 => \A k \in Places' : queue'[k][1] = d
                        /\ pc[d] = "awaiting" => queue' # <<>> /\ queue'[Len(queue')] = <<d, step[d]>>
                        /\ step[d] # CommitStep(d)
      BY <1>2, <1>3, <1>5 DEF OwnerInv
    <2>1. /\ \A e \in Active : e = d
          /\ \A j, k \in Places : j <= k /\ queue[j][1] = d => queue[k][1] = d
          /\ \A i \in Items : i[1] = d /\ luw[i] # 0 => \A k \in Places : queue[k][1] = d
          /\ step[d] = CommitStep(d) => L <= (IF pc[d] = "calling" THEN 0 ELSE 1)
      BY <1>1, <1>4 DEF OwnerInv
    <2>2. ASSUME NEW j \in Places', NEW k \in Places', j <= k, queue'[j][1] = d PROVE queue'[k][1] = d
      <3>1. j + 1 <= k + 1
        BY <1>3, <1>4, <2>2 DEF Places
      <3> QED
        BY <1>3, <2>1, <2>2, <3>1
    <2>3. ASSUME NEW i \in Items, i[1] = d, luw'[i] # 0, NEW k \in Places' PROVE queue'[k][1] = d
      <3>1. CASE luw[i] # 0
        BY <1>3, <2>1, <2>3, <3>1
      <3>2. CASE i = <<c, s>>
        <4>1. c = d /\ 1 <= k + 1
          BY <1>3, <1>4, <2>3, <3>2 DEF Places
        <4> QED
          BY <1>3, <2>1, <4>1
      <3> QED
        BY <2>3, <3>1, <3>2, ServedFacts
    <2>4. ASSUME pc[d] = "awaiting" PROVE queue' # <<>> /\ queue'[Len(queue')] = <<d, step[d]>>
      <3>1. Len(queue') = L - 1 /\ L - 1 \in Places' /\ (L - 1) + 1 = L
        BY <1>3, <1>4, <1>8, <2>4 DEF Places
      <3>2. queue'[L - 1] = queue[L]
        BY <1>3, <3>1
      <3>3. Len(queue') > 0
        BY <1>4, <1>8, <2>4, <3>1
      <3> QED
        BY <1>8, <2>4, <3>1, <3>2, <3>3
    <2>5. step[d] # CommitStep(d)
      <3>1. pc[d] = "calling" \/ (pc[d] = "awaiting" /\ L > 1)
        BY <1>8 DEF Active
      <3> QED
        BY <1>4, <2>1, <3>1
    <2> QED
      BY <2>1, <2>2, <2>3, <2>4, <2>5
  <1>13. WorkInv'
    <2> SUFFICES ASSUME NEW i \in Items
                 PROVE  /\ luw'[i] + committed'[i] <= 1
                        /\ \A j \in Places' : queue'[j] = i => luw'[i] = 0 /\ committed'[i] = 0
                        /\ step[i[1]] < i[2] \/ (step[i[1]] = i[2] /\ pc[i[1]] \in {"new", "calling"})
                             => luw'[i] = 0 /\ committed'[i] = 0
                        /\ Kept(i[1])' => committed'[i] = 0
                        /\ Kept(i[1])' /\ pc[i[1]] = "failed" =>
                             /\ luw'[i] # 0 => UndoneAfter(0, i[1])'
                             /\ \A p \in Places' : queue'[p] = i => UndoneAfter(p, i[1])'
      BY <1>2, <1>3 DEF WorkInv
    <2>1. /\ luw'[i] + committed'[i] <= 1
          /\ i # <<c, s>> /\ luw[i] = 0 /\ committed[i] = 0 => luw'[i] = 0 /\ committed'[i] = 0
          /\ Kept(i[1])' => committed'[i] = 0
      <3>1. Kept(i[1])' => Kept(i[1])
        BY <1>5, ItemFacts DEF Kept
      <3> QED
        BY <3>1, ServedFacts
    <2>2. ASSUME NEW j \in Places', queue'[j] = i PROVE luw'[i] = 0 /\ committed'[i] = 0
      <3>1. queue[j + 1] = i /\ j + 1 \in Places /\ j + 1 # 1
        BY <1>3, <1>4, <2>2 DEF Places
      <3>2. i # <<c, s>>
        BY <1>1, <1>3, <3>1 DEF QueueInv
      <3> QED
        BY <1>1, <2>1, <3>1, <3>2 DEF WorkInv
    <2>3. ASSUME step[i[1]] < i[2] \/ (step[i[1]] = i[2] /\ pc[i[1]] \in {"new", "calling"})
          PROVE  luw'[i] = 0 /\ committed'[i] = 0
      <3>1. luw[i] = 0 /\ committed[i] = 0
        BY <1>1, <2>3 DEF WorkInv
      <3>2. i # <<c, s>>
        <4> SUFFICES ASSUME i = <<c, s>> PROVE FALSE
          OBVIOUS
        <4>1. /\ pc[c] # "new" /\ s <= step[c] /\ (pc[c] = "calling" => s < step[c])
              /\ step[c] < s \/ (step[c] = s /\ pc[c] \in {"new", "calling"})
              /\ step[c] \in 1..4
          BY <1>1, <1>9, <2>3, CallerFacts
        <4> QED
          BY <4>1
      <3> QED
        BY <2>1, <3>1, <3>2
    <2> QED
      BY <2>1, <2>2, <2>3, ServedUndone
  <1>14. SuccessIsCommitted'
    <2> SUFFICES ASSUME NEW d \in Committers, pc[d] = "ok",
                        trail'[d] \cap {"reopened", "commitFailed"} = {}
                 PROVE  committed'[<<d, 1>>] = 1
      BY <1>2 DEF SuccessIsCommitted
    <2>1. <<d, 1>> \in Items /\ trail[d] \cap {"reopened", "commitFailed"} = {}
      BY <1>5, CommitterFacts
    <2>2. committed[<<d, 1>>] = 1
      BY <1>1, <2>1 DEF SuccessIsCommitted
    <2> QED
      BY <2>1, <2>2, ServedFacts
  <1>15. LeftoverBehindBreaker'
    <2> SUFFICES ASSUME Active = {}, Clean, ~Clean'
                 PROVE  "rollbackFailed" \in trail'[c]
      BY <1>1, <1>2, <1>5 DEF LeftoverBehindBreaker
    <2>1. queue # <<>> /\ queue[L][2] = RollbackStep(queue[L][1])
      BY <1>3, <1>4 DEF Clean, Last, Pop
    <2>2. CASE L = 1
      <3>1. queue' = <<>> /\ s = RollbackStep(c)
        BY <1>3, <1>4, <2>1, <2>2
      <3> QED
        BY <1>5, <3>1 DEF Clean
    <2>3. CASE L > 1
      <3>1. Len(queue') = L - 1 /\ L - 1 \in Places' /\ (L - 1) + 1 = L /\ Len(queue') > 0
        BY <1>3, <1>4, <2>3 DEF Places
      <3>2. queue'[L - 1] = queue[L] /\ queue' # <<>>
        BY <1>3, <3>1
      <3> QED
        BY <2>1, <3>1, <3>2 DEF Clean, Last
    <2> QED
      BY <1>4, <2>2, <2>3
  <1> QED
    BY <1>6, <1>7, <1>12, <1>13, <1>14, <1>15, <1>11 DEF IInv

(* Where the program of a caller goes on after an answer.                  *)
Advance(c, s) ==
  \/ /\ s <= Bapis(c)
     /\ \E t \in {s + 1, CommitStep(c), RollbackStep(c)} :
          Goto(c, t) /\ (t = CommitStep(c) /\ c \in Committers => luw'[<<c, 1>>] = 1)
  \/ /\ s = CommitStep(c) /\ End(c, "ok")
     /\ luw' = NoWork /\ (Commit \/ "commitFailed" \in trail'[c])
  \/ s = CommitStep(c) /\ Goto(c, RollbackStep(c))
  \/ s = RollbackStep(c) /\ End(c, "failed")

(* The caller gets the answer; nothing is left in the queue.               *)
LEMMA AnsweredInv ==
  ASSUME IInv, Pop, NEW c \in Callers, NEW s \in 1..4, Head(queue) = <<c, s>>, Effect(c, s),
         Answered(c), Advance(c, s),
         breaker' \in {"closed", "open", "half-open"}, failures' \in 0..Threshold
  PROVE  IInv'
  <1>1. /\ TypeOK /\ ProgramInv /\ SessionInv /\ QueueInv /\ OwnerInv /\ WorkInv
        /\ SuccessIsCommitted
    BY DEF IInv
  <1>2. /\ luw' \in [Items -> Nat] /\ committed' \in [Items -> Nat]
        /\ queue' \in Seq(Callers \X (1..4)) /\ Len(queue') = Len(queue) - 1
        /\ 1 \in Places /\ queue[1] = <<c, s>>
        /\ connected' = connected /\ alive' = alive /\ alive
    BY ServedTypes
  <1>3. c \in Active /\ pc[c] = "awaiting" /\ Len(queue) = 1 /\ \A d \in Active : d = c
    BY <1>1 DEF Answered, Active, OwnerInv
  <1>4. queue' = <<>> /\ Places' = {}
    BY <1>2, <1>3 DEF Places
  <1>5. step[c] = s
    <2>1. queue[1] = <<c, step[c]>>
      BY <1>1, <1>2, <1>3 DEF OwnerInv
    <2> QED
      BY <1>2, <2>1
  <1>6. PICK t \in 1..4, place \in {"calling", "ok", "failed"} :
          /\ pc' = [pc EXCEPT ![c] = place]
          /\ step' = [step EXCEPT ![c] = t]
          /\ attempt' \in [Callers -> 0..Retries]
          /\ s <= t /\ t <= RollbackStep(c)
          /\ place = "calling" =>
               /\ s < t
               /\ t = CommitStep(c) /\ c \in Committers => luw'[<<c, 1>>] = 1
          /\ place = "ok" => /\ s = CommitStep(c) /\ luw' = NoWork
                             /\ Commit \/ "commitFailed" \in trail'[c]
          /\ place = "failed" => s = RollbackStep(c)
          /\ place # "calling" => t = s
    <2>1. attempt \in [Callers -> 0..Retries] /\ 0 \in 0..Retries /\ step = [step EXCEPT ![c] = s]
      BY <1>1, <1>5, RetriesAssumption DEF TypeOK
    <2>2. /\ CommitStep(c) = Bapis(c) + 1 /\ RollbackStep(c) = Bapis(c) + 2 /\ Bapis(c) \in {1, 2}
      BY ProgramFacts
    <2>3. CASE /\ s <= Bapis(c)
               /\ \E t \in {s + 1, CommitStep(c), RollbackStep(c)} :
                    Goto(c, t) /\ (t = CommitStep(c) /\ c \in Committers => luw'[<<c, 1>>] = 1)
      <3>1. PICK t \in {s + 1, CommitStep(c), RollbackStep(c)} :
              Goto(c, t) /\ (t = CommitStep(c) /\ c \in Committers => luw'[<<c, 1>>] = 1)
        BY <2>3
      <3>2. t \in 1..4 /\ s < t /\ s <= t /\ t <= RollbackStep(c)
        BY <2>2, <2>3
      <3>3. attempt' \in [Callers -> 0..Retries]
        BY <2>1, <3>1 DEF Goto
      <3> USE <3>2
      <3> WITNESS t \in 1..4, "calling" \in {"calling", "ok", "failed"}
      <3> QED
        BY <2>3, <3>1, <3>2, <3>3 DEF Goto
    <2>4. CASE s = CommitStep(c) /\ Goto(c, RollbackStep(c))
      <3>1. RollbackStep(c) \in 1..4 /\ s < RollbackStep(c) /\ s <= RollbackStep(c)
            /\ RollbackStep(c) <= RollbackStep(c) /\ RollbackStep(c) # CommitStep(c)
        BY <2>2, <2>4
      <3>2. attempt' \in [Callers -> 0..Retries]
        BY <2>1, <2>4 DEF Goto
      <3> USE <3>1
      <3> WITNESS RollbackStep(c) \in 1..4, "calling" \in {"calling", "ok", "failed"}
      <3> QED
        BY <2>4, <3>2 DEF Goto
    <2>6. CASE /\ s = CommitStep(c) /\ End(c, "ok")
               /\ luw' = NoWork /\ (Commit \/ "commitFailed" \in trail'[c])
      <3>1. s <= s /\ s <= RollbackStep(c)
        BY <2>2, <2>6
      <3> WITNESS s \in 1..4, "ok" \in {"calling", "ok", "failed"}
      <3> QED
        BY <2>1, <2>6, <3>1 DEF End
    <2>5. CASE s = RollbackStep(c) /\ End(c, "failed")
      <3>1. s <= s /\ s <= RollbackStep(c)
        BY <2>2, <2>5
      <3> WITNESS s \in 1..4, "failed" \in {"calling", "ok", "failed"}
      <3> QED
        BY <2>1, <2>5, <3>1 DEF End
    <2> QED
      BY <2>3, <2>4, <2>5, <2>6 DEF Advance
  <1>7. /\ pc' \in [Callers -> {"new", "calling", "awaiting", "ok", "failed"}] /\ pc'[c] = place
        /\ step' \in [Callers -> 1..4] /\ step'[c] = t
        /\ \A d \in Callers : d # c => pc'[d] = pc[d] /\ step'[d] = step[d]
    BY <1>1, <1>6 DEF TypeOK
  <1>8. Active' = IF place = "calling" THEN {c} ELSE {}
    BY <1>3, <1>6, <1>7 DEF Active
  <1>9. /\ trail' \in [Callers -> SUBSET Marks]
        /\ \A d \in Callers : trail[d] \subseteq trail'[d] /\ (d # c => trail'[d] = trail[d])
        /\ \A d \in Callers : /\ "reopened" \in trail'[d] => "reopened" \in trail[d]
                              /\ "commitSent" \in trail'[d] => "commitSent" \in trail[d]
                              /\ "rollbackRefused" \in trail'[d] => "rollbackRefused" \in trail[d]
    BY ServedTrail
  <1>10. /\ s # RollbackStep(c) => ("rollbackFailed" \in trail'[c] => "rollbackFailed" \in trail[c])
         /\ s = RollbackStep(c) => luw' = NoWork \/ "rollbackFailed" \in trail'[c]
    BY ServedTrail
  <1>11. TypeOK'
    BY <1>1, <1>2, <1>6, <1>7, <1>9 DEF TypeOK
  <1>12. ProgramInv'
    <2> SUFFICES ASSUME NEW d \in Callers
                 PROVE  /\ step'[d] <= RollbackStep(d)
                        /\ pc'[d] = "new" => step'[d] = 1
                        /\ pc'[d] = "ok" => "commitSent" \in trail'[d] /\ step'[d] = CommitStep(d)
                        /\ "commitSent" \in trail'[d] => step'[d] >= CommitStep(d)
                        /\ "rollbackRefused" \in trail'[d] \/ "rollbackFailed" \in trail'[d] => pc'[d] = "failed"
      BY DEF ProgramInv
    <2>1. CASE d = c
      <3>1. /\ "rollbackRefused" \notin trail[c] /\ "rollbackFailed" \notin trail[c]
            /\ "commitSent" \in trail[c] => s >= CommitStep(c)
        BY <1>1, <1>3, <1>5 DEF ProgramInv
      <3>2. s = CommitStep(c) => "commitSent" \in trail[c]
        <4>1. queue[1][2] = CommitStep(queue[1][1]) => "commitSent" \in trail[queue[1][1]]
          BY <1>1, <1>2 DEF QueueInv
        <4> QED
          BY <1>2, <4>1
      <3>3. "commitSent" \in trail[c] => t >= CommitStep(c)
        BY <1>6, <3>1, ProgramFacts
      <3>4. s = RollbackStep(c) => pc'[c] = "failed"
        BY <1>6, <1>7, ProgramFacts
      <3>5. "rollbackRefused" \in trail'[c] \/ "rollbackFailed" \in trail'[c] => pc'[c] = "failed"
        BY <1>2, <1>9, <1>10, <3>1, <3>4
      <3>6. pc'[c] = "ok" => "commitSent" \in trail'[c] /\ step'[c] = CommitStep(c)
        BY <1>6, <1>7, <1>9, <3>2
      <3> QED
        BY <1>6, <1>7, <1>9, <2>1, <3>3, <3>5, <3>6
    <2>2. CASE d # c
      BY <1>1, <1>7, <1>9, <2>2 DEF ProgramInv
    <2> QED
      BY <2>1, <2>2
  <1>13. SessionInv' /\ QueueInv'
    BY <1>1, <1>2, <1>4 DEF SessionInv, QueueInv
  <1>14. OwnerInv'
    <2>1. CASE place = "calling"
      <3>1. Active' = {c} /\ pc'[c] = "calling" /\ Len(queue') = 0
        BY <1>4, <1>7, <1>8, <2>1
      <3>2. step'[c] = CommitStep(c) /\ c \in Committers => luw'[<<c, 1>>] = 1
        BY <1>6, <1>7, <2>1
      <3> QED
        BY <1>4, <3>1, <3>2 DEF OwnerInv
    <2>2. CASE place # "calling"
      BY <1>8, <2>2 DEF OwnerInv
    <2> QED
      BY <2>1, <2>2
  <1>15. WorkInv'
    <2> SUFFICES ASSUME NEW i \in Items
                 PROVE  /\ luw'[i] + committed'[i] <= 1
                        /\ step'[i[1]] < i[2] \/ (step'[i[1]] = i[2] /\ pc'[i[1]] \in {"new", "calling"})
                             => luw'[i] = 0 /\ committed'[i] = 0
                        /\ Kept(i[1])' => committed'[i] = 0
                        /\ Kept(i[1])' /\ pc'[i[1]] = "failed" /\ luw'[i] # 0 => UndoneAfter(0, i[1])'
      BY <1>2, <1>4 DEF WorkInv
    <2>1. /\ luw'[i] + committed'[i] <= 1
          /\ i # <<c, s>> /\ luw[i] = 0 /\ committed[i] = 0 => luw'[i] = 0 /\ committed'[i] = 0
          /\ Kept(i[1])' => committed'[i] = 0
      <3>1. Kept(i[1])' => Kept(i[1])
        BY <1>9, ItemFacts DEF Kept
      <3> QED
        BY <3>1, ServedFacts
    <2>2. i[1] \in Callers /\ i[2] \in 1..2
      BY ItemFacts
    <2>3. ASSUME step'[i[1]] < i[2] \/ (step'[i[1]] = i[2] /\ pc'[i[1]] \in {"new", "calling"})
          PROVE  luw'[i] = 0 /\ committed'[i] = 0
      <3>1. CASE i[1] = c
        <4>1. place = "calling"
          <5>1. i[2] < CommitStep(c) /\ i[2] < RollbackStep(c)
            BY <3>1, ItemFacts
          <5>2. CommitStep(c) \in 2..3 /\ RollbackStep(c) \in 3..4
            BY ProgramFacts
          <5> QED
            BY <1>6, <1>7, <2>2, <2>3, <3>1, <5>1, <5>2
        <4>2. s < i[2]
          BY <1>6, <1>7, <2>2, <2>3, <3>1, <4>1
        <4>3. step[i[1]] < i[2] /\ i # <<c, s>>
          BY <1>5, <2>2, <3>1, <4>2
        <4> QED
          BY <1>1, <2>1, <4>3 DEF WorkInv
      <3>2. CASE i[1] # c
        BY <1>1, <1>7, <2>1, <2>2, <2>3, <3>2 DEF WorkInv
      <3> QED
        BY <3>1, <3>2
    <2>4. ASSUME Kept(i[1])', pc'[i[1]] = "failed", luw'[i] # 0 PROVE UndoneAfter(0, i[1])'
      <3>1. i[1] # c
        <4> SUFFICES ASSUME i[1] = c PROVE FALSE
          OBVIOUS
        <4>1. s = RollbackStep(c) /\ luw' # NoWork
          BY <1>6, <1>7, <2>4, NoWorkFacts
        <4>2. "rollbackFailed" \in trail'[c]
          BY <1>10, <4>1
        <4> QED
          BY <2>4, <4>2 DEF Kept
      <3>2. pc[i[1]] = "failed"
        BY <1>7, <2>2, <2>4, <3>1
      <3> QED
        BY <2>4, <3>2, ServedUndone
    <2> QED
      BY <2>1, <2>3, <2>4
  <1>16. SuccessIsCommitted'
    <2> SUFFICES ASSUME NEW d \in Committers, pc'[d] = "ok",
                        trail'[d] \cap {"reopened", "commitFailed"} = {}
                 PROVE  committed'[<<d, 1>>] = 1
      BY DEF SuccessIsCommitted
    <2>1. d \in Callers /\ <<d, 1>> \in Items
      BY CommitterFacts
    <2>2. trail[d] \cap {"reopened", "commitFailed"} = {}
      BY <1>9, <2>1
    <2>3. CASE d = c
      <3>1. s = CommitStep(c) /\ Commit
        BY <1>6, <1>7, <2>3
      <3>2. luw[<<c, 1>>] = 1
        BY <1>1, <1>2, <1>3, <1>5, <2>2, <2>3, <3>1 DEF OwnerInv
      <3> QED
        BY <2>1, <2>3, <3>1, <3>2, ServedFacts
    <2>4. CASE d # c
      <3>1. committed[<<d, 1>>] = 1
        BY <1>1, <1>7, <2>1, <2>2, <2>4 DEF SuccessIsCommitted
      <3> QED
        BY <2>1, <3>1, ServedFacts
    <2> QED
      BY <2>3, <2>4
  <1>17. LeftoverBehindBreaker'
    <2>1. CASE place = "calling"
      BY <1>8, <2>1 DEF LeftoverBehindBreaker
    <2>2. CASE place # "calling"
      <3>1. luw' = NoWork \/ "rollbackFailed" \in trail'[c]
        BY <1>6, <1>10, <2>2
      <3> QED
        BY <1>4, <3>1 DEF LeftoverBehindBreaker, Clean
    <2> QED
      BY <2>1, <2>2
  <1> QED
    BY <1>11, <1>12, <1>13, <1>14, <1>15, <1>16, <1>17 DEF IInv

LEMMA BreakerSuccessFacts ==
  ASSUME BreakerSuccess
  PROVE  breaker' \in {"closed", "open", "half-open"} /\ failures' \in 0..Threshold
  BY ThresholdAssumption DEF BreakerSuccess

(* An answer, of any kind, to the step the caller is at.                   *)
LEMMA ServeInv ==
  ASSUME IInv, Pop, NEW c \in Callers, NEW s \in 1..4, Head(queue) = <<c, s>>, Effect(c, s),
         IF Answered(c)
         THEN Advance(c, s) /\ (BreakerSuccess \/ BreakerFailure)
         ELSE UNCHANGED <<pc, step, attempt, breaker, failures>>
  PROVE  IInv'
  <1>1. CASE Answered(c)
    <2>1. breaker' \in {"closed", "open", "half-open"} /\ failures' \in 0..Threshold
      BY <1>1, BreakerSuccessFacts, BreakerFailureFacts DEF IInv
    <2> QED
      BY <1>1, <2>1, AnsweredInv
  <1>2. CASE ~Answered(c)
    BY <1>2, UnansweredInv
  <1> QED
    BY <1>1, <1>2

LEMMA AnsweredStep ==
  ASSUME IInv, NEW c \in Callers, NEW s \in 1..4, Pop, Head(queue) = <<c, s>>, Answered(c)
  PROVE  step[c] = s
  <1>1. queue[Len(queue)] = <<c, step[c]>> /\ Len(queue) = 1
    BY DEF IInv, OwnerInv, Answered, Active, Pop
  <1>2. queue[1] = <<c, s>>
    BY HeadFacts DEF IInv, Pop
  <1> QED
    BY <1>1, <1>2

LEMMA ServeBapiInv ==
  ASSUME IInv, NEW c \in Callers, NEW s \in 1..4, ServeWork(c, s) \/ ServeMessage(c, s)
  PROVE  IInv'
  <1>1. Pop /\ Head(queue) = <<c, s>> /\ s <= Bapis(c)
    BY Zenon DEF ServeWork, ServeMessage
  <1>2. Effect(c, s)
    BY <1>1 DEF ServeWork, ServeMessage, Effect, Done
  <1>3. s # CommitStep(c) /\ s # RollbackStep(c) /\ CommitStep(c) # RollbackStep(c)
    BY <1>1, ProgramFacts
  <1>4. ASSUME Answered(c) PROVE Advance(c, s) /\ BreakerSuccess
    <2>1. step[c] = s
      BY <1>1, <1>4, AnsweredStep
    <2>2. \A t : Resolve(c, t) => Goto(c, t)
      BY <1>3, <2>1 DEF Resolve
    <2>3. Throw(c) => Goto(c, RollbackStep(c))
      BY <1>3, <2>1 DEF Throw
    <2>4. CASE ServeWork(c, s)
      <3>1. Goto(c, s + 1) /\ BreakerSuccess /\ Work(c, s, 1)
        BY <1>4, <2>2, <2>4 DEF ServeWork, Answer
      <3>2. ASSUME c \in Committers PROVE luw'[<<c, 1>>] = 1
        <4>1. s = 1 /\ <<c, 1>> \in Items
          BY <1>1, <3>2, CommitterFacts
        <4>2. luw[<<c, 1>>] = 0
          BY <1>1, <4>1, HeadFacts DEF IInv, WorkInv, Pop
        <4>3. luw' = [luw EXCEPT ![<<c, 1>>] = luw[<<c, 1>>] + 1] /\ luw \in [Items -> Nat]
          BY <3>1, <4>1 DEF Work, IInv, TypeOK
        <4> QED
          BY <4>1, <4>2, <4>3
      <3> QED
        BY <1>1, <3>1, <3>2 DEF Advance
    <2>5. CASE ServeMessage(c, s)
      <3>1. CASE c \in Partners
        <4>1. Goto(c, CommitStep(c)) /\ BreakerSuccess /\ c \notin Committers
          BY <1>4, <2>2, <2>5, <3>1, CallersAssumption DEF ServeMessage, Answer
        <4> QED
          BY <1>1, <4>1 DEF Advance
      <3>2. CASE c \notin Partners
        <4>1. Goto(c, RollbackStep(c)) /\ BreakerSuccess
          BY <1>4, <2>3, <2>5, <3>2 DEF ServeMessage, Answer
        <4> QED
          BY <1>1, <1>3, <4>1 DEF Advance
      <3> QED
        BY <3>1, <3>2
    <2> QED
      BY <2>4, <2>5
  <1>5. ~Answered(c) => UNCHANGED <<pc, step, attempt, breaker, failures>>
    BY DEF ServeWork, ServeMessage, Answer
  <1> QED
    BY <1>1, <1>2, <1>4, <1>5, ServeInv

LEMMA ServeExceptionInv ==
  ASSUME IInv, NEW c \in Callers, NEW s \in 1..4, ServeException(c, s)
  PROVE  IInv'
  <1>1. Pop /\ Head(queue) = <<c, s>> /\ Effect(c, s)
    BY DEF ServeException, Effect, Ignored
  <1>2. ASSUME Answered(c) PROVE Advance(c, s) /\ BreakerFailure
    <2>1. step[c] = s /\ Throw(c) /\ BreakerFailure
      BY <1>1, <1>2, AnsweredStep DEF ServeException, Answer
    <2>2. \/ s = RollbackStep(c) /\ End(c, "failed")
          \/ s # RollbackStep(c) /\ Goto(c, RollbackStep(c))
      BY <2>1 DEF Throw
    <2>3. s <= RollbackStep(c)
      BY <1>1, <2>1 DEF IInv, ProgramInv
    <2>4. s = RollbackStep(c) \/ s = CommitStep(c) \/ s <= Bapis(c)
      BY <2>3, ProgramFacts
    <2>5. RollbackStep(c) # CommitStep(c)
      BY ProgramFacts
    <2> QED
      BY <2>1, <2>2, <2>4, <2>5 DEF Advance
  <1>3. ~Answered(c) => UNCHANGED <<pc, step, attempt, breaker, failures>>
    BY DEF ServeException, Answer
  <1> QED
    BY <1>1, <1>2, <1>3, ServeInv

LEMMA ServeEndInv ==
  ASSUME IInv, NEW c \in Callers,
         ServeCommit(c) \/ CommitUnread(c) \/ ServeRollback(c) \/ RollbackUnread(c)
  PROVE  IInv'
  <1>1. CommitStep(c) \in 1..4 /\ RollbackStep(c) \in 1..4 /\ CommitStep(c) # RollbackStep(c)
    BY ProgramFacts
  <1>2. CASE ServeCommit(c) \/ CommitUnread(c)
    <2>1. Pop /\ Head(queue) = <<c, CommitStep(c)>> /\ Effect(c, CommitStep(c))
      BY <1>2 DEF ServeCommit, CommitUnread, Effect, Done, Undone
    <2>2. ASSUME Answered(c) PROVE Advance(c, CommitStep(c)) /\ BreakerSuccess
      <3>1. step[c] = CommitStep(c)
        BY <1>1, <2>1, <2>2, AnsweredStep
      <3>2. Resolve(c, 0) /\ BreakerSuccess
        BY <1>2, <2>2 DEF ServeCommit, CommitUnread, Answer
      <3>3. luw' = NoWork /\ (Commit \/ Mark(c, "commitFailed"))
        BY <1>2, <2>2 DEF ServeCommit, CommitUnread, Commit, Rollback
      <3>4. Mark(c, "commitFailed") => "commitFailed" \in trail'[c]
        BY DEF Mark, IInv, TypeOK
      <3> QED
        BY <3>1, <3>2, <3>3, <3>4 DEF Resolve, Advance
    <2>3. ~Answered(c) => UNCHANGED <<pc, step, attempt, breaker, failures>>
      BY <1>2 DEF ServeCommit, CommitUnread, Answer
    <2> QED
      BY <1>1, <2>1, <2>2, <2>3, ServeInv
  <1>3. CASE ServeRollback(c) \/ RollbackUnread(c)
    <2>1. Pop /\ Head(queue) = <<c, RollbackStep(c)>> /\ Effect(c, RollbackStep(c))
      BY <1>3 DEF ServeRollback, RollbackUnread, Effect, Done, Ignored
    <2>2. ASSUME Answered(c) PROVE Advance(c, RollbackStep(c)) /\ BreakerSuccess
      <3>1. step[c] = RollbackStep(c)
        BY <1>1, <2>1, <2>2, AnsweredStep
      <3>2. Resolve(c, 0) /\ BreakerSuccess
        BY <1>3, <2>2 DEF ServeRollback, RollbackUnread, Answer
      <3> QED
        BY <1>1, <3>1, <3>2 DEF Resolve, Advance
    <2>3. ~Answered(c) => UNCHANGED <<pc, step, attempt, breaker, failures>>
      BY <1>3 DEF ServeRollback, RollbackUnread, Answer
    <2> QED
      BY <1>1, <2>1, <2>2, <2>3, ServeInv
  <1> QED
    BY <1>2, <1>3

(* The session ends, perhaps with the commit it was about to execute.      *)
LEMMA SessionDiesInv == ASSUME IInv, SessionDies PROVE IInv'
  <1>1. /\ TypeOK /\ ProgramInv /\ SessionInv /\ QueueInv /\ OwnerInv /\ WorkInv
        /\ SuccessIsCommitted
    BY DEF IInv
  <1>2. /\ pc' = pc /\ step' = step /\ attempt' = attempt /\ trail' = trail
        /\ connected' = connected /\ breaker' = breaker /\ failures' = failures
        /\ alive' = FALSE /\ queue' = <<>> /\ luw' = NoWork
        /\ Active' = Active /\ Places' = {}
    BY DEF SessionDies, client, Active, Places
  <1>3. committed \in [Items -> Nat]
    BY <1>1 DEF TypeOK
  <1>4. /\ committed' \in [Items -> Nat]
        /\ \A i \in Items :
             /\ committed'[i] <= 1
             /\ committed[i] = 1 => committed'[i] = 1
             /\ luw[i] = 0 /\ committed[i] = 0 => committed'[i] = 0
             /\ Kept(i[1]) => committed'[i] = 0
    <2>1. CASE committed' = committed
      <3>1. ASSUME NEW i \in Items PROVE committed[i] <= 1 /\ (Kept(i[1]) => committed[i] = 0)
        <4>1. /\ luw[i] + committed[i] <= 1 /\ luw[i] \in Nat /\ committed[i] \in Nat
              /\ Kept(i[1]) => committed[i] = 0
          BY <1>1 DEF WorkInv, TypeOK
        <4> QED
          BY <4>1
      <3> QED
        BY <1>3, <2>1, <3>1
    <2>2. CASE /\ queue # <<>> /\ Head(queue)[2] = CommitStep(Head(queue)[1])
               /\ committed' = [i \in Items |-> committed[i] + luw[i]]
      <3>1. PICK c \in Callers : Head(queue) = <<c, CommitStep(c)>>
        <4>1. 1 \in Places /\ Head(queue) = queue[1]
          BY <1>1, <2>2, HeadFacts
        <4>2. queue[1][1] \in Callers /\ queue[1] = <<queue[1][1], queue[1][2]>>
          BY <1>1, <4>1, PlaceFacts
        <4> QED
          BY <2>2, <4>1, <4>2
      <3>2. \A i \in Items :
              /\ committed[i] + luw[i] \in Nat /\ committed[i] + luw[i] <= 1
              /\ committed[i] = 1 => committed[i] + luw[i] = 1
              /\ luw[i] = 0 /\ committed[i] = 0 => committed[i] + luw[i] = 0
              /\ Kept(i[1]) => committed[i] + luw[i] = 0
        BY <2>2, <3>1, CommitFacts
      <3> QED
        BY <2>2, <3>2
    <2> QED
      BY <2>1, <2>2 DEF SessionDies
  <1>5. TypeOK'
    <2>1. queue' \in Seq(Callers \X (1..4)) /\ luw' \in [Items -> Nat]
      BY <1>2, NoWorkFacts
    <2> QED
      BY <1>1, <1>2, <1>4, <2>1 DEF TypeOK
  <1>6. ProgramInv' /\ SessionInv' /\ QueueInv'
    BY <1>1, <1>2 DEF ProgramInv, SessionInv, QueueInv
  <1>7. OwnerInv'
    <2>1. \A c : Len(queue') <= (IF pc[c] = "calling" THEN 0 ELSE 1)
      <3>1. Len(queue') = 0
        BY <1>2
      <3> QED
        BY <3>1
    <2>2. \A c, d \in Active : d = c
      BY <1>1 DEF OwnerInv
    <2>3. \A i \in Items : luw'[i] = 0
      BY <1>2, NoWorkFacts
    <2> QED
      BY <1>2, <2>1, <2>2, <2>3 DEF OwnerInv
  <1>8. WorkInv'
    <2> SUFFICES ASSUME NEW i \in Items
                 PROVE  /\ NoWork[i] + committed'[i] <= 1 /\ NoWork[i] = 0
                        /\ step[i[1]] < i[2] \/ (step[i[1]] = i[2] /\ pc[i[1]] \in {"new", "calling"})
                             => committed'[i] = 0
                        /\ Kept(i[1]) => committed'[i] = 0
      BY <1>2 DEF WorkInv, Kept
    <2>1. NoWork[i] = 0 /\ committed'[i] \in Nat /\ committed'[i] <= 1
      BY <1>4, NoWorkFacts
    <2>2. NoWork[i] + committed'[i] <= 1
      BY <2>1
    <2> QED
      BY <1>1, <1>4, <2>1, <2>2 DEF WorkInv
  <1>9. SuccessIsCommitted'
    <2> SUFFICES ASSUME NEW d \in Committers, pc[d] = "ok", trail[d] \cap {"reopened", "commitFailed"} = {}
                 PROVE  committed'[<<d, 1>>] = 1
      BY <1>2 DEF SuccessIsCommitted
    <2>1. committed[<<d, 1>>] = 1 /\ <<d, 1>> \in Items
      BY <1>1, CommitterFacts DEF SuccessIsCommitted
    <2> QED
      BY <1>4, <2>1
  <1>10. LeftoverBehindBreaker'
    BY <1>2 DEF LeftoverBehindBreaker, Clean
  <1> QED
    BY <1>5, <1>6, <1>7, <1>8, <1>9, <1>10 DEF IInv

LEMMA StutterInv == ASSUME IInv, UNCHANGED vars PROVE IInv'
  <1>1. /\ pc' = pc /\ step' = step /\ attempt' = attempt /\ trail' = trail
        /\ connected' = connected /\ breaker' = breaker /\ failures' = failures
        /\ alive' = alive /\ queue' = queue /\ luw' = luw /\ committed' = committed
    BY DEF vars, client, session
  <1>2. Places' = Places /\ Active' = Active
    BY <1>1 DEF Places, Active
  <1>3. TypeOK' /\ ProgramInv' /\ SessionInv' /\ QueueInv' /\ OwnerInv'
    BY <1>1, <1>2 DEF IInv, TypeOK, ProgramInv, SessionInv, QueueInv, OwnerInv
  <1>4. WorkInv'
    BY <1>1, <1>2, UndoneSame DEF IInv, WorkInv, Kept
  <1>5. SuccessIsCommitted' /\ LeftoverBehindBreaker'
    BY <1>1, <1>2 DEF IInv, SuccessIsCommitted, LeftoverBehindBreaker, Clean
  <1> QED
    BY <1>3, <1>4, <1>5 DEF IInv

-----------------------------------------------------------------------------
(* The theorems                                                            *)

LEMMA StepInv == IInv /\ [Next]_vars => IInv'
  <1> SUFFICES ASSUME IInv, [Next]_vars PROVE IInv'
    OBVIOUS
  <1>1. ASSUME NEW c \in Callers, Acquire(c) \/ Call(c) PROVE IInv'
    BY <1>1, AcquireInv, ReopenInv, ReopenFailsInv, SendInv, RefusedInv, TimeoutInv, TransientInv
       DEF Call
  <1>2. CASE Serve
    BY <1>2, ServeBapiInv, ServeExceptionInv, ServeEndInv DEF Serve
  <1>3. CASE SessionDies
    BY <1>3, SessionDiesInv
  <1>4. CASE UNCHANGED vars
    BY <1>4, StutterInv
  <1> QED
    BY <1>1, <1>2, <1>3, <1>4 DEF Next

(* The strengthened invariant holds in every reachable state.              *)
THEOREM Invariance == Spec => []IInv
  BY InitInv, StepInv, PTL DEF Spec

(* Every variable keeps its type.                                          *)
THEOREM TypeCorrect == Spec => []TypeOK
  <1>1. IInv => TypeOK
    BY DEF IInv
  <1> QED
    BY <1>1, Invariance, PTL

(* However calls are retried, time out and are executed late, RfcClient    *)
(* never commits the work of one call twice.                               *)
THEOREM NothingTwice == Spec => []CommittedOnce
  <1>1. IInv => CommittedOnce
    <2> SUFFICES ASSUME IInv, NEW i \in Items PROVE committed[i] <= 1
      BY DEF CommittedOnce
    <2>1. luw[i] + committed[i] <= 1 /\ luw[i] \in Nat /\ committed[i] \in Nat
      BY DEF IInv, WorkInv, TypeOK
    <2> QED
      BY <2>1
  <1> QED
    BY <1>1, Invariance, PTL

(* callWithCommit() that returns has committed its work, unless the client *)
(* reconnected on the way or its COMMIT was answered with an error that    *)
(* callWithCommit() does not read.                                         *)
THEOREM ReturnedIsCommitted == Spec => []SuccessIsCommitted
  <1>1. IInv => SuccessIsCommitted
    BY DEF IInv
  <1> QED
    BY <1>1, Invariance, PTL

(* A caller that failed before its COMMIT has nothing in the database,     *)
(* unless the breaker refused its ROLLBACK or the server failed to do it.  *)
THEOREM FailedIsUndone == Spec => []FailureIsUndone
  <1>1. IInv => FailureIsUndone
    BY DEF IInv, WorkInv, FailureIsUndone, Kept
  <1> QED
    BY <1>1, Invariance, PTL

(* Where no ROLLBACK fails in the server, an idle client of the pool has   *)
(* work left in its session only while its breaker is open.                *)
THEOREM LeftoversAreBehindBreaker == Spec => []LeftoverBehindBreaker
  <1>1. IInv => LeftoverBehindBreaker
    BY DEF IInv
  <1> QED
    BY <1>1, Invariance, PTL
=============================================================================
