---------------------------- MODULE ForensicRun ----------------------------
(***************************************************************************)
(* The forensic extraction: run() and resume() of                          *)
(* extraction/forensic-orchestrator.js, extract() of base-extractor.js and *)
(* the files of checkpoint-manager.js.                                     *)
(*                                                                         *)
(* The module extractors run concurrently, at most Concurrency at a time;  *)
(* the process may stop at any point and be started again.                 *)
(***************************************************************************)
EXTENDS Naturals, FiniteSets, SequencesExt

CONSTANTS Order,      (* the module extractors as ExtractorRegistry lists them *)
          SystemInfo, (* SYSTEM_INFO                                           *)
          Dictionary, (* DATA_DICTIONARY                                       *)
          Concurrency (* options.concurrency                                   *)

Modules == ToSet(Order)
Extractors == Modules \union {SystemInfo, Dictionary}

ASSUME OrderAssumption ==
  /\ Order \in Seq(Modules) /\ IsInjective(Order)
  /\ SystemInfo # Dictionary /\ {SystemInfo, Dictionary} \cap Modules = {}
ASSUME ConcurrencyAssumption == Concurrency \in Nat \ {0}

VARIABLES
  phase,      (* where run() is: "idle" before it, "down" after a crash    *)
  entries,    (* the extractors options.modules left in                    *)
  queue,      (* run()'s queue                                             *)
  stage,      (* stage[e]: "idle", "extracting", or "saved" when only the  *)
              (* rest of extract() is left                                 *)
  completed,  (* run()'s counter of settled entries                        *)
  results,    (* _results: "none", "data", "error", "cached"               *)
  checkpoint  (* the file <e>/_complete.json: "none", "complete", "torn"   *)

vars == <<phase, entries, queue, stage, completed, results, checkpoint>>

Phases == {"idle", "system-info", "data-dictionary", "module-extraction",
           "reporting", "complete", "failed", "down"}

Running == {e \in Extractors : stage[e] # "idle"}

Init ==
  /\ phase = "idle"
  /\ entries = {} /\ queue = <<>> /\ completed = 0
  /\ stage = [e \in Extractors |-> "idle"]
  /\ results = [e \in Extractors |-> "none"]
  /\ checkpoint = [e \in Extractors |-> "none"]

-----------------------------------------------------------------------------
(* run(): phase 1 starts.  The module filter is applied in phase 3.        *)
Begin(S) ==
  /\ phase' = "system-info"
  /\ entries' = S
  /\ stage' = [stage EXCEPT ![SystemInfo] = "extracting"]
  /\ UNCHANGED <<queue, completed, checkpoint>>

Run(S) ==
  /\ phase = "idle"
  /\ Begin(S)
  /\ UNCHANGED results

(* The files are read; whatever they say, run() starts from the beginning. *)
Resume ==
  /\ phase = "idle"
  /\ \A e \in Extractors : checkpoint[e] # "torn"
  /\ results' = [e \in Extractors |->
                   IF checkpoint[e] = "complete" THEN "cached" ELSE results[e]]
  /\ Begin(Modules)

(* JSON.parse of a file that was being written when the process stopped    *)
(* throws, and so does every later resume().                               *)
ResumeFails ==
  /\ phase = "idle"
  /\ \E e \in Extractors : checkpoint[e] = "torn"
  /\ phase' = "failed"
  /\ UNCHANGED <<entries, queue, stage, completed, results, checkpoint>>

-----------------------------------------------------------------------------
(* extract() of one extractor                                              *)

SaveSkipped(e) ==
  /\ stage[e] = "extracting"
  /\ stage' = [stage EXCEPT ![e] = "saved"]
  /\ UNCHANGED <<phase, entries, queue, completed, results, checkpoint>>

Save(e) ==
  /\ stage[e] = "extracting"
  /\ stage' = [stage EXCEPT ![e] = "saved"]
  /\ checkpoint' = [checkpoint EXCEPT ![e] = "complete"]
  /\ UNCHANGED <<phase, entries, queue, completed, results>>

(* extract() ends, or the process does, before the save or in the middle   *)
(* of its writeFileSync().                                                 *)
Abandoned(e) ==
  /\ stage[e] = "extracting"
  /\ checkpoint' \in {checkpoint, [checkpoint EXCEPT ![e] = "torn"]}

(* extract() resolves once its checkpoint is saved, and rejects otherwise. *)
Settles(e, r) ==
  IF r = "data" THEN stage[e] = "saved" /\ UNCHANGED checkpoint ELSE Abandoned(e)

OverRoom(q, st) ==
  LET free == Concurrency + 1 - Cardinality({e \in Extractors : st[e] # "idle"})
  IN  IF free < Len(q) THEN free ELSE Len(q)

(* runNext(): q is the queue and st the state of the extractors before it. *)
Room(q, st) ==
  LET free == Concurrency - Cardinality({e \in Extractors : st[e] # "idle"})
  IN  IF free < Len(q) THEN free ELSE Len(q)

StartUnshifted(n, q, st) ==
  /\ stage' = [e \in Extractors |->
                 IF e \in ToSet(SubSeq(q, 1, n)) THEN "extracting" ELSE st[e]]
  /\ queue' = q

StartFirst(n, q, st) ==
  /\ stage' = [e \in Extractors |->
                 IF e \in ToSet(SubSeq(q, 1, n)) THEN "extracting" ELSE st[e]]
  /\ queue' = SubSeq(q, n + 1, Len(q))

(* Nothing but the list of S in the order of the registry.                 *)
InOrder(S) ==
  {q \in [1..Cardinality(S) -> S] :
     /\ ToSet(q) = S
     /\ \A i, j \in DOMAIN q :
          i < j => \E a, b \in DOMAIN Order : a < b /\ Order[a] = q[i] /\ Order[b] = q[j]}

NoNext(q, st) == stage' = st /\ queue' = q

RunNext(q, st) == StartFirst(Room(q, st), q, st)

-----------------------------------------------------------------------------
(* The phases of run()                                                     *)

SystemInfoDone ==
  /\ phase = "system-info" /\ Settles(SystemInfo, "data")
  /\ phase' = "data-dictionary"
  /\ results' = [results EXCEPT ![SystemInfo] = "data"]
  /\ stage' = [stage EXCEPT ![SystemInfo] = "idle", ![Dictionary] = "extracting"]
  /\ UNCHANGED <<entries, queue, completed>>

(* An error in one of the first two phases ends the run.                   *)
EarlyFailure(e) ==
  /\ e \in {SystemInfo, Dictionary} /\ Settles(e, "error")
  /\ phase' = "failed"
  /\ stage' = [stage EXCEPT ![e] = "idle"]
  /\ UNCHANGED <<entries, queue, completed, results>>

(* Phase 3: the queue is filled, and the first extractors start at once.   *)
DictionaryDone ==
  /\ phase = "data-dictionary" /\ Settles(Dictionary, "data")
  /\ phase' = "module-extraction"
  /\ results' = [results EXCEPT ![Dictionary] = "data"]
  /\ \E q \in InOrder(entries) : RunNext(q, [stage EXCEPT ![Dictionary] = "idle"])
  /\ UNCHANGED <<entries, completed>>

(* A module extractor settled: an error is kept as its result, the next    *)
(* extractor of the queue takes its place.                                 *)
ModuleSettles(e, r) ==
  /\ phase = "module-extraction" /\ Settles(e, r)
  /\ results' = [results EXCEPT ![e] = r]
  /\ completed' = completed + 1
  /\ RunNext(queue, [stage EXCEPT ![e] = "idle"])
  /\ UNCHANGED <<phase, entries>>

AllCounted == phase = "module-extraction" /\ completed = Len(Order)

NoneWaiting == phase = "module-extraction" /\ queue = <<>>

AllSettled == phase = "module-extraction" /\ Running = {}

(* while (running.size > 0) await Promise.race(running)                    *)
ModulesDone ==
  /\ AllSettled
  /\ phase' = "reporting"
  /\ UNCHANGED <<entries, queue, stage, completed, results, checkpoint>>

(* Phases 4 to 7 read _results only.                                       *)
Report(outcome) ==
  /\ phase = "reporting"
  /\ phase' = outcome
  /\ UNCHANGED <<entries, queue, stage, completed, results, checkpoint>>

-----------------------------------------------------------------------------
(* The process stops; a file that is being written may stay incomplete.    *)
Crash ==
  /\ phase \notin {"idle", "down"}
  /\ phase' = "down"
  /\ entries' = {} /\ queue' = <<>> /\ completed' = 0
  /\ stage' = [e \in Extractors |-> "idle"]
  /\ results' = [e \in Extractors |-> "none"]
  /\ UNCHANGED checkpoint \/ \E e \in Extractors : Abandoned(e)

Restart ==
  /\ phase = "down" /\ phase' = "idle"
  /\ UNCHANGED <<entries, queue, stage, completed, results, checkpoint>>

Settle(e) ==
  \/ Save(e) \/ EarlyFailure(e)
  \/ \E r \in {"data", "error"} : ModuleSettles(e, r)

Next ==
  \/ \E S \in SUBSET Modules : Run(S)
  \/ Resume \/ ResumeFails
  \/ \E e \in Extractors : Settle(e)
  \/ SystemInfoDone \/ DictionaryDone \/ ModulesDone
  \/ \E outcome \in {"complete", "failed"} : Report(outcome)
  \/ Crash \/ Restart

(* An extractor's promise settles and the orchestrator goes on; nobody has *)
(* to start it.                                                            *)
Fairness ==
  /\ \A e \in Extractors : WF_vars(Settle(e))
  /\ WF_vars(SystemInfoDone) /\ WF_vars(DictionaryDone) /\ WF_vars(ModulesDone)
  /\ WF_vars(\E outcome \in {"complete", "failed"} : Report(outcome))

Spec == Init /\ [][Next]_vars
FairSpec == Spec /\ Fairness

-----------------------------------------------------------------------------
(* Properties                                                              *)

TypeOK ==
  /\ phase \in Phases
  /\ entries \in SUBSET Modules
  /\ queue \in Seq(Modules)
  /\ stage \in [Extractors -> {"idle", "extracting", "saved"}]
  /\ completed \in Nat
  /\ results \in [Extractors -> {"none", "data", "error", "cached"}]
  /\ checkpoint \in [Extractors -> {"none", "complete", "torn"}]

(* Never more than options.concurrency extractors run together, and while  *)
(* some are queued none of the places is left empty.                       *)
FullyUsed ==
  phase = "module-extraction" =>
    /\ Cardinality(Running) <= Concurrency
    /\ queue # <<>> => Cardinality(Running) = Concurrency

(* Every selected extractor is queued, running or settled, never two of    *)
(* them, and the progress counts the settled ones.                         *)
EachOnce ==
  phase = "module-extraction" =>
    /\ Running \cap ToSet(queue) = {} /\ IsInjective(queue)
    /\ completed + Cardinality(Running) + Len(queue) = Cardinality(entries)

(* The process mining starts on the results of all selected extractors.    *)
ReportSeesAll ==
  phase \in {"reporting", "complete"} =>
    \A e \in entries \union {SystemInfo, Dictionary} : results[e] \in {"data", "error"}

(* What a run reports as data was saved before, so a crash after the       *)
(* report finds every successful extractor on disk.                        *)
DataIsOnDisk == \A e \in Extractors : results[e] = "data" => checkpoint[e] = "complete"

(* The run, seen by whoever starts it: the first two phases are jobs like  *)
(* the modules, and the analysis begins when the run is over.              *)
JobPhase ==
  CASE phase = "idle" -> "new"
    [] phase \in {"reporting", "complete"} -> "over"
    [] phase \in {"failed", "down"} -> "aborted"
    [] OTHER -> "running"

JobState(e) ==
  IF JobPhase \in {"new", "aborted"} \/ e \notin entries \union {SystemInfo, Dictionary} THEN "out"
  ELSE IF stage[e] # "idle" THEN "running"
  ELSE IF results[e] \in {"data", "error"} THEN "settled" ELSE "waiting"

JobStates == [e \in Extractors |-> JobState(e)]

AsJobs == INSTANCE JobRun
            WITH Jobs <- Extractors, phase <- JobPhase, job <- JobStates, limit <- Concurrency

(* Each selected extractor is started once and settles before the analysis *)
(* begins, never too many of them together, and a run that fails or        *)
(* crashes starts over as a whole.                                         *)
JobSpec == AsJobs!Spec

(* A run ends, in a report or in an error.                                 *)
RunEnds ==
  phase \in {"system-info", "data-dictionary", "module-extraction", "reporting"}
    ~> phase \in {"complete", "failed", "down"}
=============================================================================
