---------------------------- MODULE MigrationRun ----------------------------
(***************************************************************************)
(* A migration run: the object list that extraction/migration-bridge.js    *)
(* plans, the waves of migration/dependency-graph.js, runAll() of          *)
(* migration/objects/registry.js, and run() of base-migration-object.js.   *)
(*                                                                         *)
(* The objects of a wave run concurrently; a wave starts when the previous *)
(* one has settled.  The graph may be any, cycles included.                *)
(***************************************************************************)
EXTENDS Naturals, FiniteSets

CONSTANTS Objects,    (* ids the dependency graph knows                    *)
          Registered, (* those the registry has a class for                *)
          Graphs      (* dependency graphs: Graph[o] is migrated before o  *)

ASSUME ObjectsAssumption == IsFiniteSet(Objects) /\ Registered \subseteq Objects
ASSUME GraphsAssumption == Graphs \subseteq [Objects -> SUBSET Objects]

VARIABLES
  deps,      (* dependencies, fixed before the run                         *)
  bridged,   (* the object list comes from a plan of the bridge            *)
  parallel,  (* options.parallel                                           *)
  phase,     (* "new", "planning", "planned", "running", "done", or        *)
             (* "rejected": runAll() threw                                 *)
  requested, (* requestedIds; allNeeded while planning                     *)
  left,      (* planning: the objectIds still to be traversed              *)
  pending,   (* planning: calls the traversal at hand has yet to make      *)
  visited,   (* planning: its visited set                                  *)
  wave,      (* the wave at hand                                           *)
  settled,   (* the objects of the waves before it                         *)
  stage,     (* stage[o]: "idle", "extracting", "loading" or "ended"       *)
  result,    (* result[o]: the status in resultMap, or "none"              *)
  completed, failed   (* runAll()'s counters                               *)

traversal == <<left, pending, visited>>
plan == <<deps, bridged, parallel, requested, traversal>>
counters == <<completed, failed>>
vars == <<plan, phase, wave, settled, stage, result, counters>>

Failures == {"error", "validation_failed"}
Successes == {"completed", "completed_with_errors"}

Init ==
  /\ deps \in Graphs
  /\ bridged = FALSE /\ parallel = TRUE /\ phase = "new"
  /\ requested = {} /\ left = {} /\ pending = {} /\ visited = {}
  /\ wave = {} /\ settled = {}
  /\ stage = [o \in Objects |-> "idle"]
  /\ result = [o \in Objects |-> "none"]
  /\ completed = 0 /\ failed = 0

-----------------------------------------------------------------------------
(* plan(): _addPrerequisites() calls getTransitiveDependencies() for each  *)
(* object of the first list, and adds what it returns.  All of it is one   *)
(* synchronous stretch, here in steps of one call each; the order of the   *)
(* recursive calls is left open, and they are a set, since the second of   *)
(* two equal calls returns nothing.                                        *)

(* S is what the active modules map to, without those the user excluded;   *)
(* one of these may come back as a prerequisite.                           *)
Plan(S) ==
  /\ phase = "new" /\ phase' = "planning"
  /\ requested' = S /\ left' = S /\ bridged' = TRUE
  /\ UNCHANGED <<deps, parallel, pending, visited, wave, settled, stage, result, counters>>

(* The next object of the first list, with a visited set of its own.       *)
Traverse(o) ==
  /\ phase = "planning" /\ pending = {} /\ o \in left
  /\ left' = left \ {o} /\ pending' = {o} /\ visited' = {}
  /\ UNCHANGED <<deps, bridged, parallel, requested, phase, wave, settled, stage, result, counters>>

VisitDirect(o) ==
  /\ phase = "planning" /\ o \in pending
  /\ pending' = pending \ {o}
  /\ visited' = visited \union {o}
  /\ requested' = requested \union deps[o]
  /\ UNCHANGED <<deps, bridged, parallel, left, phase, wave, settled, stage, result, counters>>

(* A call of getTransitiveDependencies(): nothing for a visited object,    *)
(* else the direct dependencies, and a call for each of them.  What it     *)
(* finds is added at once; the code adds it when the outermost call        *)
(* returns, and does not read the list before.                             *)
Visit(o) ==
  /\ phase = "planning" /\ o \in pending
  /\ LET direct == IF o \in visited THEN {} ELSE deps[o] IN
       /\ pending' = (pending \ {o}) \union direct
       /\ requested' = requested \union direct
  /\ visited' = visited \union {o}
  /\ UNCHANGED <<deps, bridged, parallel, left, phase, wave, settled, stage, result, counters>>

Planned ==
  /\ phase = "planning" /\ left = {} /\ pending = {}
  /\ phase' = "planned" /\ visited' = {}
  /\ UNCHANGED <<deps, bridged, parallel, requested, left, pending, wave, settled, stage, result, counters>>

-----------------------------------------------------------------------------
(* getExecutionWaves(): done are the objects of the earlier waves.  The    *)
(* code computes all waves first; neither list nor graph changes later.    *)

ReadyOnSome(done) ==
  {o \in requested \ done :
     deps[o] \cap requested = {} \/ deps[o] \cap requested \cap done # {}}

Ready(done) == {o \in requested \ done : deps[o] \cap requested \subseteq done}

ReadyOnly(done) == Ready(done)

(* An empty wave means a cycle: what is left is forced into one wave.      *)
NextWave(done) == IF Ready(done) = {} THEN requested \ done ELSE Ready(done)

-----------------------------------------------------------------------------
(* runAll()                                                                *)

RunAll(S, par) ==
  /\ phase = "new" /\ phase' = "running"
  /\ requested' = S /\ parallel' = par
  /\ UNCHANGED <<deps, bridged, traversal, wave, settled, stage, result, counters>>

(* The objects of a plan.                                                  *)
RunPlan(par) ==
  /\ phase = "planned" /\ phase' = "running"
  /\ parallel' = par
  /\ UNCHANGED <<deps, bridged, requested, traversal, wave, settled, stage, result, counters>>

(* createObject() throws for an id without a class, and runAll() rejects;  *)
(* in a parallel wave the other objects have started all the same.         *)
Start(S) ==
  /\ stage' = [o \in Objects |->
                 IF o \in S THEN (IF o \in Registered THEN "extracting" ELSE "ended")
                 ELSE stage[o]]
  /\ phase' = IF S \subseteq Registered THEN "running" ELSE "rejected"

WaveOver == \A o \in wave : stage[o] = "ended"

(* Promise.all() over the wave, or the first of it.                        *)
StartWave ==
  /\ phase = "running" /\ WaveOver
  /\ LET done == settled \union wave IN
       /\ requested \ done # {}
       /\ settled' = done
       /\ wave' = NextWave(done)
       /\ IF parallel THEN Start(wave') ELSE \E o \in wave' : Start({o})
  /\ UNCHANGED <<plan, result, counters>>

StartNextAtOnce(o) ==
  /\ phase = "running" /\ ~parallel
  /\ o \in wave /\ stage[o] = "idle"
  /\ Start({o})
  /\ UNCHANGED <<plan, wave, settled, result, counters>>

(* The next of a wave that runs one by one.                                *)
StartNext(o) ==
  /\ phase = "running" /\ ~parallel
  /\ o \in wave /\ stage[o] = "idle"
  /\ \A x \in wave : stage[x] \in {"idle", "ended"}
  /\ Start({o})
  /\ UNCHANGED <<plan, wave, settled, result, counters>>

Finish ==
  /\ phase = "running" /\ WaveOver
  /\ requested \subseteq settled \union wave
  /\ phase' = "done"
  /\ UNCHANGED <<plan, wave, settled, stage, result, counters>>

-----------------------------------------------------------------------------
(* run() of one object; the rest of a rejected run goes on, unobserved.    *)

Uncounted(o, status) ==
  /\ stage' = [stage EXCEPT ![o] = "ended"]
  /\ result' = [result EXCEPT ![o] = status]
  /\ failed' = IF status = "error" THEN failed + 1 ELSE failed
  /\ completed' = IF status \in Successes THEN completed + 1 ELSE completed
  /\ UNCHANGED <<plan, phase, wave, settled>>

Settle(o, status) ==
  /\ stage' = [stage EXCEPT ![o] = "ended"]
  /\ result' = [result EXCEPT ![o] = status]
  /\ IF status \in Failures
     THEN failed' = failed + 1 /\ UNCHANGED completed
     ELSE completed' = completed + 1 /\ UNCHANGED failed
  /\ UNCHANGED <<plan, phase, wave, settled>>

(* extract() resolved with records that transform() and validate() accept. *)
ToLoad(o) ==
  /\ stage[o] = "extracting"
  /\ stage' = [stage EXCEPT ![o] = "loading"]
  /\ UNCHANGED <<plan, phase, wave, settled, result, counters>>

(* No records, validation errors, or an exception.                         *)
NotLoaded(o) ==
  /\ stage[o] = "extracting"
  /\ \E status \in {"completed", "validation_failed", "error"} : Settle(o, status)

Loaded(o) ==
  /\ stage[o] = "loading"
  /\ \E status \in {"completed", "completed_with_errors", "error"} : Settle(o, status)

Proceed(o) == ToLoad(o) \/ NotLoaded(o) \/ Loaded(o)

-----------------------------------------------------------------------------
Next ==
  \/ \E S \in SUBSET Objects : Plan(S)
  \/ \E o \in Objects : Traverse(o) \/ Visit(o)
  \/ Planned
  \/ \E par \in BOOLEAN : RunPlan(par) \/ \E S \in SUBSET Objects : RunAll(S, par)
  \/ StartWave \/ Finish
  \/ \E o \in Objects : StartNext(o) \/ Proceed(o)

(* plan() does not pause.  The promises of the gateway settle, and their   *)
(* continuations run.                                                      *)
Fairness ==
  /\ WF_vars(Planned \/ \E o \in Objects : Traverse(o) \/ Visit(o))
  /\ WF_vars(StartWave) /\ WF_vars(Finish)
  /\ \A o \in Objects : WF_vars(StartNext(o)) /\ WF_vars(Proceed(o))

Spec == Init /\ [][Next]_vars
FairSpec == Spec /\ Fairness

-----------------------------------------------------------------------------
(* Properties                                                              *)

TypeOK ==
  /\ deps \in [Objects -> SUBSET Objects]
  /\ bridged \in BOOLEAN /\ parallel \in BOOLEAN
  /\ phase \in {"new", "planning", "planned", "running", "done", "rejected"}
  /\ left \subseteq Objects /\ pending \subseteq Objects /\ visited \subseteq Objects
  /\ requested \subseteq Objects /\ wave \subseteq Objects /\ settled \subseteq Objects
  /\ stage \in [Objects -> {"idle", "extracting", "loading", "ended"}]
  /\ result \in [Objects -> Failures \union Successes \union {"none"}]
  /\ completed \in Nat /\ failed \in Nat

(* o waits for a cycle: it belongs to a set of requested objects each of   *)
(* which has a dependency in the set.                                      *)
Circular(o) ==
  \E S \in SUBSET requested : o \in S /\ \A x \in S : deps[x] \cap S # {}

(* An object starts when all its dependencies on the list have settled,    *)
(* and is let off only if it depends on a cycle.                           *)
DependenciesFirst ==
  \A o \in Objects :
    stage[o] # "idle" =>
      Circular(o) \/ \A d \in deps[o] \cap requested : stage[d] = "ended"

(* The traversals, each with its visited set and whatever cycles it meets, *)
(* leave none of the dependencies of its objects out of the list of a      *)
(* plan, so there DependenciesFirst is about all of them.                  *)
PlanIsClosed ==
  bridged /\ phase # "planning" => \A o \in requested : deps[o] \subseteq requested

(* A run that reports has run every object of its list once, and its two   *)
(* counters split the list into what failed and what did not.              *)
ReportCountsAll ==
  phase = "done" =>
    /\ \A o \in requested : result[o] # "none"
    /\ completed = Cardinality({o \in requested : result[o] \in Successes})
    /\ failed = Cardinality({o \in requested : result[o] \in Failures})

(* The run, seen by the caller of runAll(): the waves and whether an       *)
(* object is extracted or loaded do not show, nor does the plan.           *)
JobPhase ==
  CASE phase \in {"new", "planning", "planned"} -> "new"
    [] phase = "running" -> "running"
    [] phase = "done" -> "over"
    [] phase = "rejected" -> "aborted"

JobState(o) ==
  IF JobPhase \in {"new", "aborted"} \/ o \notin requested THEN "out"
  ELSE CASE stage[o] = "idle" -> "waiting" [] stage[o] = "ended" -> "settled" [] OTHER -> "running"

JobStates == [o \in Objects |-> JobState(o)]

Together == IF parallel THEN Cardinality(Objects) ELSE 1

AsJobs == INSTANCE JobRun
            WITH Jobs <- Objects, phase <- JobPhase, job <- JobStates, limit <- Together

(* Each object of the list is started once, one at a time unless the run   *)
(* is parallel, and all have settled when runAll() returns its report.     *)
JobSpec == AsJobs!Spec

(* Every plan and every run ends, whatever the graph: a cycle does not     *)
(* stop it.                                                                *)
RunEnds == phase \in {"planning", "running"} ~> phase \in {"planned", "done", "rejected"}
=============================================================================
