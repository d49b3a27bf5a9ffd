------------------------------- MODULE JobRun -------------------------------
(***************************************************************************)
(* What a run of concurrent jobs promises whoever starts it, whatever      *)
(* queues, waves and counters it is built from: the jobs selected at the   *)
(* beginning are started once each, never too many together, the run is    *)
(* over when the last of them has settled; before that it can only be      *)
(* aborted as a whole.  ForensicRun and MigrationRun implement it.         *)
(***************************************************************************)
EXTENDS Naturals, FiniteSets

CONSTANT Jobs

VARIABLES phase,   (* "new", "running", "over" or "aborted"                *)
          job,     (* job[j]: "out", "waiting", "running" or "settled"     *)
          limit    (* how many jobs may run together                       *)

jobVars == <<phase, job, limit>>

AllOut == [j \in Jobs |-> "out"]

Init ==
  /\ phase = "new"
  /\ job = AllOut
  /\ limit \in Nat

(* The jobs of N go into the places that are free.                         *)
Started(N, jobs) ==
  /\ \A j \in N : jobs[j] = "waiting"
  /\ job' = [j \in Jobs |-> IF j \in N THEN "running" ELSE jobs[j]]
  /\ Cardinality({j \in Jobs : job'[j] = "running"}) <= limit'

Begin(S, N) ==
  /\ phase = "new" /\ phase' = "running"
  /\ limit' \in Nat
  /\ Started(N, [j \in Jobs |-> IF j \in S THEN "waiting" ELSE "out"])

Start(N) ==
  /\ phase = "running" /\ UNCHANGED <<phase, limit>>
  /\ Started(N, job)

(* A job settles, and others take its place at once.                       *)
Settle(j, N) ==
  /\ phase = "running" /\ UNCHANGED <<phase, limit>>
  /\ job[j] = "running"
  /\ Started(N, [job EXCEPT ![j] = "settled"])

Over ==
  /\ phase = "running" /\ phase' = "over"
  /\ \A j \in Jobs : job[j] \in {"out", "settled"}
  /\ UNCHANGED <<job, limit>>

Abort ==
  /\ phase' = "aborted" /\ job' = AllOut
  /\ UNCHANGED limit

Restart ==
  /\ phase = "aborted" /\ phase' = "new"
  /\ UNCHANGED <<job, limit>>

Next ==
  \/ \E S, N \in SUBSET Jobs : Begin(S, N)
  \/ \E N \in SUBSET Jobs : Start(N)
  \/ \E j \in Jobs, N \in SUBSET Jobs : Settle(j, N)
  \/ Over \/ Abort \/ Restart

Spec == Init /\ [][Next]_jobVars
=============================================================================
