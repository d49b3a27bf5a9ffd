------------------------- MODULE MigrationRunProofs -------------------------
(***************************************************************************)
(* Proofs about MigrationRun, for every set of objects and every graph.    *)
(***************************************************************************)
EXTENDS MigrationRun, FiniteSetTheorems, TLAPS

USE ObjectsAssumption, GraphsAssumption

(* Nothing has happened before the run but for the plan.                   *)
Fresh ==
  /\ phase = "new" => requested = {} /\ bridged = FALSE
  /\ phase \in {"new", "planning", "planned"} =>
       settled = {} /\ wave = {} /\ \A o \in Objects : stage[o] = "idle"

(* The loop invariant of _addPrerequisites(): an object whose dependencies *)
(* are not all on the list has its traversal or its call yet to come; what *)
(* is visited has its dependencies on the list.                            *)
Traversed ==
  /\ phase = "new" => traversal = <<{}, {}, {}>>
  /\ phase = "planning" =>
       /\ left \union pending \subseteq requested
       /\ \A o \in requested : o \in left \union pending \/ deps[o] \subseteq requested
       /\ \A o \in visited : deps[o] \subseteq requested

(* What has started belongs to a wave, and the earlier waves are over.     *)
Staged ==
  /\ settled \union wave \subseteq requested
  /\ \A o \in Objects : stage[o] # "idle" => o \in settled \union wave
  /\ \A o \in settled : stage[o] = "ended"

(* The dependencies of a wave are in the earlier ones.                     *)
Layered ==
  \A o \in settled \union wave : Circular(o) \/ deps[o] \cap requested \subseteq settled

(* An object has a result exactly when it has ended, except for the one    *)
(* whose constructor made the run reject.                                  *)
Resulted ==
  \A o \in Objects :
    /\ result[o] # "none" => stage[o] = "ended"
    /\ stage[o] = "ended" /\ phase # "rejected" => result[o] # "none"

Succeeded == {o \in requested : result[o] \in Successes}
Failed == {o \in requested : result[o] \in Failures}

Counted == completed = Cardinality(Succeeded) /\ failed = Cardinality(Failed)

AllRun == phase = "done" => \A o \in requested : result[o] # "none"

IInv ==
  /\ TypeOK /\ Fresh /\ Staged /\ Layered /\ Resulted
  /\ Counted /\ AllRun /\ PlanIsClosed /\ Traversed

-----------------------------------------------------------------------------
(* The initial states satisfy the invariant.                               *)
LEMMA InitIInv == Init => IInv
  <1> SUFFICES ASSUME Init PROVE IInv
    OBVIOUS
  <1>1. TypeOK /\ Fresh /\ Staged /\ Layered /\ Resulted /\ AllRun /\ PlanIsClosed
    BY DEF Init, TypeOK, Fresh, Staged, Layered, Resulted, AllRun, PlanIsClosed
  <1>4. Traversed
    BY DEF Init, Traversed, traversal
  <1>2. Succeeded = {} /\ Failed = {}
    BY DEF Init, Succeeded, Failed
  <1>3. Counted
    BY <1>2, FS_EmptySet DEF Init, Counted
  <1> QED
    BY <1>1, <1>3, <1>4 DEF IInv

(* Every object that starts in a wave has its dependencies in the earlier  *)
(* waves, or the objects that are left form a circular set.                *)
LEMMA WaveJustified ==
  ASSUME TypeOK, NEW done \in SUBSET Objects, NEW o \in NextWave(done)
  PROVE  Circular(o) \/ deps[o] \cap requested \subseteq done
  <1>1. CASE Ready(done) # {}
    BY <1>1 DEF NextWave, Ready
  <1>2. CASE Ready(done) = {}
    <2>1. \A x \in requested \ done : deps[x] \cap (requested \ done) # {}
      BY <1>2 DEF Ready
    <2>2. o \in requested \ done
      BY <1>2 DEF NextWave
    <2> QED
      BY <2>1, <2>2 DEF Circular, TypeOK
  <1> QED
    BY <1>1, <1>2

(* The steps that only change stage, within what the waves allow.          *)
LEMMA CountsKept ==
  ASSUME IInv, UNCHANGED <<requested, result, counters>>
  PROVE  Counted'
  BY DEF IInv, Counted, Succeeded, Failed, counters

(* Before a run, nothing has started.                                      *)
LEMMA NothingStarted ==
  ASSUME IInv, phase \in {"new", "planning", "planned"}
  PROVE  /\ settled = {} /\ wave = {}
         /\ \A o \in Objects : stage[o] = "idle" /\ result[o] = "none"
         /\ Succeeded = {} /\ Failed = {}
         /\ requested' \subseteq Objects /\ UNCHANGED result => Succeeded' = {} /\ Failed' = {}
  <1> USE DEF IInv
  <1>1. \A o \in Objects : stage[o] = "idle" /\ result[o] = "none"
    BY DEF Fresh, Resulted
  <1>2. settled = {} /\ wave = {}
    BY DEF Fresh
  <1> QED
    BY <1>1, <1>2 DEF Succeeded, Failed, Successes, Failures, TypeOK

(* A run or a plan begins, or the plan is a step further: only the list,   *)
(* the traversal and options.parallel change.                              *)
LEMMA BeforeStep ==
  ASSUME IInv, phase \in {"new", "planning", "planned"},
         phase' \in {"planning", "planned", "running"},
         bridged' \in BOOLEAN, parallel' \in BOOLEAN, requested' \subseteq Objects,
         left' \subseteq Objects, pending' \subseteq Objects, visited' \subseteq Objects,
         UNCHANGED <<deps, wave, settled, stage, result, counters>>
  PROVE  /\ TypeOK' /\ Fresh' /\ Staged' /\ Layered' /\ Resulted' /\ Counted' /\ AllRun'
  <1> USE DEF IInv
  <1>1. TypeOK'
    BY DEF TypeOK, counters
  <1>2. Fresh' /\ Staged' /\ Layered' /\ Resulted' /\ AllRun'
    BY NothingStarted DEF Fresh, Staged, Layered, Resulted, AllRun, TypeOK
  <1>3. Counted'
    BY NothingStarted DEF Counted, counters
  <1> QED
    BY <1>1, <1>2, <1>3

(* A run or a plan begins.                                                 *)
LEMMA BeginStep ==
  ASSUME IInv, NEW S \in SUBSET Objects, NEW par \in BOOLEAN,
         RunAll(S, par) \/ RunPlan(par) \/ Plan(S)
  PROVE  IInv'
  <1> USE DEF IInv
  <1>1. TypeOK' /\ Fresh' /\ Staged' /\ Layered' /\ Resulted' /\ Counted' /\ AllRun'
    BY BeforeStep DEF RunAll, RunPlan, Plan, TypeOK, traversal
  <1>2. PlanIsClosed'
    BY DEF RunAll, RunPlan, Plan, PlanIsClosed, Fresh
  <1>3. Traversed'
    BY DEF RunAll, RunPlan, Plan, Traversed, traversal
  <1> QED
    BY <1>1, <1>2, <1>3

(* A traversal begins, makes a call, or all are over.                      *)
LEMMA PlanningStep ==
  ASSUME IInv, Planned \/ \E o \in Objects : Traverse(o) \/ Visit(o)
  PROVE  IInv'
  <1> USE DEF IInv
  <1>1. TypeOK' /\ Fresh' /\ Staged' /\ Layered' /\ Resulted' /\ Counted' /\ AllRun'
    <2>1. /\ phase = "planning" /\ phase' \in {"planning", "planned"}
          /\ UNCHANGED <<deps, bridged, parallel, wave, settled, stage, result, counters>>
      BY DEF Planned, Traverse, Visit
    <2>2. /\ requested' \subseteq Objects /\ left' \subseteq Objects
          /\ pending' \subseteq Objects /\ visited' \subseteq Objects
      BY DEF Planned, Traverse, Visit, TypeOK
    <2>3. bridged' \in BOOLEAN /\ parallel' \in BOOLEAN
      BY <2>1 DEF TypeOK
    <2> QED
      BY <2>1, <2>2, <2>3, BeforeStep
  <1>2. PlanIsClosed'
    BY DEF Planned, Traverse, Visit, PlanIsClosed, Traversed
  <1>3. Traversed'
    <2>1. CASE Planned
      BY <2>1 DEF Planned, Traversed
    <2>2. ASSUME NEW o \in Objects, Traverse(o)
          PROVE  Traversed'
      BY <2>2 DEF Traverse, Traversed
    <2>3. ASSUME NEW o \in Objects, Visit(o)
          PROVE  Traversed'
      <3> DEFINE direct == IF o \in visited THEN {} ELSE deps[o]
      <3>1. /\ pending' = (pending \ {o}) \union direct
            /\ requested' = requested \union direct
            /\ visited' = visited \union {o}
            /\ o \in pending /\ phase = "planning" /\ phase' = "planning"
            /\ UNCHANGED <<deps, left>>
        BY <2>3 DEF Visit
      <3>2. deps[o] \subseteq requested \union direct
        BY <3>1 DEF Traversed
      <3> QED
        BY <3>1, <3>2 DEF Traversed
    <2> QED
      BY <2>1, <2>2, <2>3
  <1> QED
    BY <1>1, <1>2, <1>3

(* A wave starts, or the next object of one.                               *)
LEMMA StartStep ==
  ASSUME IInv, StartWave \/ \E o \in Objects : StartNext(o)
  PROVE  IInv'
  <1> USE DEF IInv
  <1> DEFINE done == settled \union wave
  <1>1. PICK S \in SUBSET Objects : Start(S) /\ S \subseteq wave' /\ S \cap settled' = {}
                                    /\ (\A x \in S : stage[x] = "idle")
    <2>1. CASE StartWave
      <3>1. wave' = NextWave(done) /\ settled' = done /\ wave' \subseteq requested \ done
        BY <2>1 DEF StartWave, NextWave, Ready
      <3>2. wave' \in SUBSET Objects
        BY <3>1 DEF TypeOK
      <3>3. \A x \in wave' : stage[x] = "idle"
        BY <3>1, <3>2 DEF Staged
      <3>4. CASE parallel
        <4>1. Start(wave')
          BY <2>1, <3>4 DEF StartWave
        <4> QED
          BY <3>1, <3>2, <3>3, <4>1
      <3>5. CASE ~parallel
        <4>1. PICK o \in wave' : Start({o})
          BY <2>1, <3>5 DEF StartWave
        <4>2. {o} \in SUBSET Objects /\ {o} \subseteq wave' /\ {o} \cap settled' = {}
              /\ \A x \in {o} : stage[x] = "idle"
          BY <3>1, <3>2, <3>3
        <4> QED
          BY <4>1, <4>2
      <3> QED
        BY <3>4, <3>5
    <2>2. ASSUME NEW o \in Objects, StartNext(o)
          PROVE  Start({o}) /\ {o} \subseteq wave' /\ {o} \cap settled' = {} /\ stage[o] = "idle"
      BY <2>2 DEF StartNext, Staged
    <2> QED
      BY <2>1, <2>2
  <1>2. phase = "running" /\ UNCHANGED <<plan, result, counters>>
    BY DEF StartWave, StartNext
  <1>3. /\ settled' \union wave' \subseteq requested
        /\ settled \union wave \subseteq settled' \union wave'
        /\ \A o \in settled' : stage[o] = "ended"
    <2>1. CASE StartWave
      BY <2>1 DEF StartWave, WaveOver, NextWave, Ready, Staged
    <2>2. CASE \E o \in Objects : StartNext(o)
      BY <2>2 DEF StartNext, Staged
    <2> QED
      BY <2>1, <2>2
  <1>4. TypeOK'
    BY <1>1, <1>2, <1>3 DEF TypeOK, Start, plan, traversal, counters
  <1>5. Fresh' /\ AllRun' /\ PlanIsClosed' /\ Traversed'
    BY <1>1, <1>2 DEF Start, Fresh, AllRun, PlanIsClosed, Traversed, plan
  <1>6. Staged'
    BY <1>1, <1>2, <1>3 DEF Staged, Start, plan, TypeOK
  <1>7. Layered'
    <2>1. CASE StartWave
      <3>1. settled' = done /\ wave' = NextWave(done) /\ done \in SUBSET Objects
        BY <2>1 DEF StartWave, TypeOK
      <3>2. \A o \in NextWave(done) : Circular(o) \/ deps[o] \cap requested \subseteq done
        BY <3>1, WaveJustified
      <3>3. \A o \in done : Circular(o) \/ deps[o] \cap requested \subseteq done
        BY DEF Layered
      <3> QED
        BY <1>2, <3>1, <3>2, <3>3 DEF Layered, Circular, plan
    <2>2. CASE \E o \in Objects : StartNext(o)
      BY <1>2, <2>2 DEF StartNext, Layered, Circular, plan
    <2> QED
      BY <2>1, <2>2
  <1>8. Resulted'
    <2> SUFFICES ASSUME NEW o \in Objects
                 PROVE  /\ result'[o] # "none" => stage'[o] = "ended"
                        /\ stage'[o] = "ended" /\ phase' # "rejected" => result'[o] # "none"
      BY DEF Resulted
    <2>1. CASE o \in S
      <3>1. result[o] = "none"
        BY <1>1, <2>1 DEF Resulted
      <3> QED
        BY <1>1, <1>2, <2>1, <3>1 DEF Start, TypeOK
    <2>2. CASE o \notin S
      BY <1>1, <1>2, <2>2 DEF Start, Resulted, TypeOK
    <2> QED
      BY <2>1, <2>2
  <1>9. Counted'
    BY <1>2, CountsKept DEF plan, counters
  <1> QED
    BY <1>4, <1>5, <1>6, <1>7, <1>8, <1>9

(* The run reports.                                                        *)
LEMMA FinishStep ==
  ASSUME IInv, Finish
  PROVE  IInv'
  <1> USE DEF IInv
  <1>1. \A o \in requested : stage[o] = "ended"
    BY DEF Finish, WaveOver, Staged
  <1>2. AllRun'
    BY <1>1 DEF Finish, AllRun, Resulted, TypeOK, plan
  <1>3. TypeOK' /\ Fresh' /\ Staged' /\ Layered' /\ Resulted' /\ PlanIsClosed' /\ Traversed'
    BY DEF Finish, TypeOK, Fresh, Staged, Layered, Circular, Resulted, PlanIsClosed,
           Traversed, traversal, plan, counters
  <1>4. Counted'
    BY CountsKept DEF Finish, plan
  <1> QED
    BY <1>2, <1>3, <1>4

(* An object goes from extract() to load().                                *)
LEMMA LoadStep ==
  ASSUME IInv, NEW o \in Objects, ToLoad(o)
  PROVE  IInv'
  <1> USE DEF IInv
  <1>1. TypeOK' /\ Fresh' /\ Staged' /\ Layered' /\ Resulted' /\ AllRun' /\ PlanIsClosed' /\ Traversed'
    BY DEF ToLoad, TypeOK, Fresh, Staged, Layered, Circular, Resulted, AllRun, PlanIsClosed,
           Traversed, traversal, plan, counters
  <1>2. Counted'
    BY CountsKept DEF ToLoad, plan
  <1> QED
    BY <1>1, <1>2

(* An object settles and one of the counters takes it in.                  *)
LEMMA SettleStep ==
  ASSUME IInv, NEW o \in Objects, stage[o] \in {"extracting", "loading"},
         NEW status \in Failures \union Successes, Settle(o, status)
  PROVE  IInv'
  <1> USE DEF IInv
  <1>1. o \in requested /\ result[o] = "none" /\ o \notin settled
    BY DEF Staged, Resulted
  <1>2. TypeOK' /\ Fresh' /\ Staged' /\ Layered' /\ Resulted' /\ PlanIsClosed' /\ Traversed'
    BY <1>1 DEF Settle, TypeOK, Fresh, Staged, Layered, Circular, Resulted, PlanIsClosed,
           Traversed, traversal, plan, Failures, Successes
  <1>3. phase # "done" /\ AllRun'
    BY <1>1 DEF AllRun, Settle
  <1>4. IsFiniteSet(Succeeded) /\ IsFiniteSet(Failed)
        /\ o \notin Succeeded /\ o \notin Failed
    BY <1>1, FS_Subset DEF Succeeded, Failed, TypeOK, Successes, Failures
  <1>5. CASE status \in Failures
    <2>1. Failed' = Failed \union {o} /\ Succeeded' = Succeeded
      BY <1>1, <1>5 DEF Settle, Failed, Succeeded, TypeOK, Successes, Failures, plan
    <2>2. Cardinality(Failed \union {o}) = Cardinality(Failed) + 1
      BY <1>4, FS_AddElement
    <2>3. Counted'
      BY <1>5, <2>1, <2>2 DEF Counted, Settle
    <2> QED
      BY <1>2, <1>3, <2>3
  <1>6. CASE status \notin Failures
    <2>1. Succeeded' = Succeeded \union {o} /\ Failed' = Failed
      BY <1>1, <1>6 DEF Settle, Failed, Succeeded, TypeOK, Successes, Failures, plan
    <2>2. Cardinality(Succeeded \union {o}) = Cardinality(Succeeded) + 1
      BY <1>4, FS_AddElement
    <2>3. Counted'
      BY <1>6, <2>1, <2>2 DEF Counted, Settle
    <2> QED
      BY <1>2, <1>3, <2>3
  <1> QED
    BY <1>5, <1>6

(* Every step preserves the invariant.                                     *)
LEMMA NextIInv == IInv /\ [Next]_vars => IInv'
  <1> SUFFICES ASSUME IInv, [Next]_vars PROVE IInv'
    OBVIOUS
  <1>1. ASSUME NEW S \in SUBSET Objects, NEW par \in BOOLEAN,
               RunAll(S, par) \/ RunPlan(par) \/ Plan(S)
        PROVE  IInv'
    BY <1>1, BeginStep
  <1>6. CASE Planned \/ \E o \in Objects : Traverse(o) \/ Visit(o)
    BY <1>6, PlanningStep
  <1>2. CASE StartWave \/ \E o \in Objects : StartNext(o)
    BY <1>2, StartStep
  <1>3. CASE Finish
    BY <1>3, FinishStep
  <1>4. ASSUME NEW o \in Objects, Proceed(o)
        PROVE  IInv'
    <2>1. CASE ToLoad(o)
      BY <2>1, LoadStep
    <2>2. CASE NotLoaded(o)
      BY <2>2, SettleStep DEF NotLoaded, Failures, Successes
    <2>3. CASE Loaded(o)
      BY <2>3, SettleStep DEF Loaded, Failures, Successes
    <2> QED
      BY <1>4, <2>1, <2>2, <2>3 DEF Proceed
  <1>5. CASE UNCHANGED vars
    <2>1. Counted'
      BY <1>5, CountsKept DEF vars, plan
    <2> QED
      BY <1>5, <2>1 DEF vars, plan, traversal, counters, IInv, TypeOK, Fresh, Staged, Layered,
         Circular, Resulted, AllRun, PlanIsClosed, Traversed
  <1> QED
    BY <1>1, <1>2, <1>3, <1>4, <1>5, <1>6 DEF Next

(* The strengthened invariant holds in every reachable state.              *)
THEOREM Invariance == Spec => []IInv
  BY InitIInv, NextIInv, PTL DEF Spec

-----------------------------------------------------------------------------
(* Every variable keeps its type, for any number of objects.               *)
THEOREM TypeCorrect == Spec => []TypeOK
  <1>1. IInv => TypeOK
    BY DEF IInv
  <1> QED
    BY <1>1, Invariance, PTL

(* No object starts before its dependencies have settled, on any graph,    *)
(* unless it depends on a cycle.                                           *)
THEOREM DependenciesComeFirst == Spec => []DependenciesFirst
  <1>1. IInv => DependenciesFirst
    BY DEF IInv, Staged, Layered, DependenciesFirst
  <1> QED
    BY <1>1, Invariance, PTL

(* The traversals of a plan leave no dependency out, on any graph, cyclic  *)
(* ones included.                                                          *)
THEOREM PlansAreClosed == Spec => []PlanIsClosed
  <1>1. IInv => PlanIsClosed
    BY DEF IInv
  <1> QED
    BY <1>1, Invariance, PTL

(* The counters of a finished run add up to its list.                      *)
THEOREM ReportIsComplete == Spec => []ReportCountsAll
  <1>1. IInv => ReportCountsAll
    BY DEF IInv, AllRun, Counted, Succeeded, Failed, ReportCountsAll
  <1> QED
    BY <1>1, Invariance, PTL

-----------------------------------------------------------------------------
(* The refinement: every step of MigrationRun is a step of JobRun or       *)
(* leaves it alone.                                                        *)

Active(o) == stage[o] \in {"extracting", "loading"}

(* Without options.parallel the objects run one after the other.           *)
OneByOne == ~parallel => \A o, x \in Objects : Active(o) /\ Active(x) => o = x

JobInv == IInv /\ OneByOne

RunningJobs == {o \in Objects : JobStates[o] = "running"}

WithinLimit == Together \in Nat /\ Cardinality(RunningJobs) <= Together

LEMMA OneByOneStep == IInv /\ OneByOne /\ [Next]_vars => OneByOne'
  <1> SUFFICES ASSUME IInv, OneByOne, [Next]_vars PROVE OneByOne'
    OBVIOUS
  <1> USE DEF IInv
  <1>1. ASSUME phase \in {"new", "planning", "planned"}, UNCHANGED stage
        PROVE  OneByOne'
    BY <1>1 DEF Fresh, OneByOne, Active
  <1>2. CASE StartWave
    <2>1. \A x \in Objects : ~Active(x)
      BY <1>2 DEF StartWave, WaveOver, Staged, Active
    <2>2. parallel' = parallel
      BY <1>2 DEF StartWave, plan
    <2>3. CASE ~parallel
      <3>1. PICK o \in wave' : Start({o})
        BY <1>2, <2>3 DEF StartWave
      <3>2. \A x \in Objects : Active(x)' => x = o
        BY <2>1, <3>1 DEF Start, Active
      <3> QED
        BY <3>2 DEF OneByOne
    <2> QED
      BY <2>2, <2>3 DEF OneByOne
  <1>3. ASSUME NEW o \in Objects, StartNext(o)
        PROVE  OneByOne'
    <2>1. \A x \in Objects : ~Active(x)
      BY <1>3 DEF StartNext, Staged, Active
    <2>2. \A x \in Objects : Active(x)' => x = o
      BY <1>3, <2>1 DEF StartNext, Start, Active
    <2> QED
      BY <2>2 DEF OneByOne
  <1>4. ASSUME NEW o \in Objects, Proceed(o)
        PROVE  OneByOne'
    <2>1. parallel' = parallel
      BY <1>4 DEF Proceed, ToLoad, NotLoaded, Loaded, Settle, plan
    <2>2. \A x \in Objects : Active(x)' => Active(x)
      BY <1>4 DEF Proceed, ToLoad, NotLoaded, Loaded, Settle, Active, TypeOK
    <2> QED
      BY <2>1, <2>2 DEF OneByOne
  <1>5. CASE Finish \/ UNCHANGED vars
    BY <1>5 DEF Finish, vars, plan, OneByOne, Active
  <1> QED
    BY <1>1, <1>2, <1>3, <1>4, <1>5 DEF Next, Plan, Traverse, Visit, Planned, RunPlan, RunAll

LEMMA Within == JobInv => WithinLimit
  <1> SUFFICES ASSUME JobInv PROVE WithinLimit
    OBVIOUS
  <1>1. /\ IsFiniteSet(RunningJobs) /\ Cardinality(RunningJobs) <= Cardinality(Objects)
        /\ Cardinality(Objects) \in Nat
    BY FS_Subset, FS_CardinalityType DEF RunningJobs
  <1>2. CASE ~parallel
    <2>1. \A o \in RunningJobs : o \in Objects /\ Active(o)
      BY DEF RunningJobs, JobStates, JobState, JobInv, IInv, TypeOK, Active
    <2>2. CASE RunningJobs = {}
      BY <1>2, <2>2, FS_EmptySet DEF WithinLimit, Together
    <2>3. ASSUME NEW o \in RunningJobs
          PROVE  WithinLimit
      <3>1. RunningJobs = {o}
        BY <1>2, <2>1, <2>3 DEF JobInv, OneByOne
      <3> QED
        BY <1>2, <3>1, FS_Singleton DEF WithinLimit, Together
    <2> QED
      BY <2>2, <2>3
  <1> QED
    BY <1>1, <1>2 DEF WithinLimit, Together

LEMMA InitJobs == Init => AsJobs!Init
  BY FS_CardinalityType DEF Init, AsJobs!Init, AsJobs!AllOut, JobPhase, JobStates, JobState, Together

(* An instance has its own copy of Cardinality.                            *)
LEMMA SameCardinality ==
  ASSUME NEW S
  PROVE  AsJobs!Cardinality(S) = Cardinality(S)
  BY DEF Cardinality, AsJobs!Cardinality

(* With as many objects at work as may be, what is left of AsJobs!Started  *)
(* is which of them have just started.                                     *)
LEMMA StartedJobs ==
  ASSUME NEW N \in SUBSET Objects, NEW jobs \in [Objects -> {"out", "waiting", "running", "settled"}],
         \A o \in N : jobs[o] = "waiting", WithinLimit',
         JobStates' = [o \in Objects |-> IF o \in N THEN "running" ELSE jobs[o]]
  PROVE  AsJobs!Started(N, jobs)
  <1>1. AsJobs!Cardinality({o \in Objects : JobStates'[o] = "running"}) <= Together'
    BY SameCardinality DEF WithinLimit, RunningJobs
  <1> QED
    BY <1>1 DEF AsJobs!Started

LEMMA BeginJobs ==
  ASSUME JobInv, WithinLimit', NEW S \in SUBSET Objects, NEW par \in BOOLEAN,
         RunAll(S, par) \/ RunPlan(par)
  PROVE  AsJobs!Next
  <1> DEFINE jobs == [o \in Objects |-> IF o \in requested' THEN "waiting" ELSE "out"]
  <1>1. /\ phase \in {"new", "planned"} /\ phase' = "running" /\ requested' \in SUBSET Objects
        /\ \A o \in Objects : stage[o] = "idle" /\ stage'[o] = "idle"
    BY DEF JobInv, IInv, Fresh, TypeOK, RunAll, RunPlan
  <1>2. JobStates' = [o \in Objects |-> IF o \in {} THEN "running" ELSE jobs[o]]
    BY <1>1 DEF JobStates, JobState, JobPhase
  <1>3. AsJobs!Started({}, jobs)
    BY <1>2, StartedJobs
  <1>4. JobPhase = "new" /\ JobPhase' = "running" /\ Together' \in Nat
    BY <1>1 DEF JobPhase, WithinLimit
  <1>5. AsJobs!Begin(requested', {})
    BY <1>3, <1>4 DEF AsJobs!Begin
  <1> QED
    BY <1>1, <1>5 DEF AsJobs!Next

(* A plan does not show.                                                   *)
LEMMA PlanJobs ==
  ASSUME JobInv, NEW S \in SUBSET Objects,
         Plan(S) \/ Planned \/ \E o \in Objects : Traverse(o) \/ Visit(o)
  PROVE  UNCHANGED AsJobs!jobVars
  <1>1. phase \in {"new", "planning"} /\ phase' \in {"planning", "planned"} /\ UNCHANGED parallel
    BY DEF Plan, Planned, Traverse, Visit
  <1>2. JobPhase' = JobPhase /\ Together' = Together
    BY <1>1 DEF JobPhase, Together
  <1>3. JobStates' = JobStates
    BY <1>1 DEF JobStates, JobState, JobPhase
  <1> QED
    BY <1>2, <1>3 DEF AsJobs!jobVars

(* A wave or one of its objects starts; an object without a class aborts   *)
(* the run.                                                                *)
LEMMA StartJobs ==
  ASSUME JobInv, WithinLimit', NEW S \in SUBSET Objects, Start(S),
         phase = "running", UNCHANGED <<requested, parallel>>,
         \A o \in S : o \in requested /\ stage[o] = "idle"
  PROVE  AsJobs!Next
  <1>1. Together' = Together /\ JobPhase = "running"
    BY DEF Together, JobPhase
  <1>2. CASE S \subseteq Registered
    <2>1. phase' = "running" /\ JobPhase' = "running"
      BY <1>2 DEF Start, JobPhase
    <2>2. JobStates \in [Objects -> {"out", "waiting", "running", "settled"}]
      BY DEF JobStates, JobState, JobInv, IInv, TypeOK
    <2>3. \A o \in S : JobStates[o] = "waiting"
      BY <1>1 DEF JobStates, JobState
    <2>4. JobStates' = [o \in Objects |-> IF o \in S THEN "running" ELSE JobStates[o]]
      BY <1>1, <1>2, <2>1 DEF JobStates, JobState, Start
    <2>5. AsJobs!Started(S, JobStates)
      BY <2>2, <2>3, <2>4, StartedJobs
    <2>6. AsJobs!Start(S)
      BY <1>1, <2>1, <2>5 DEF AsJobs!Start
    <2> QED
      BY <2>6 DEF AsJobs!Next
  <1>3. CASE ~(S \subseteq Registered)
    <2>1. phase' = "rejected" /\ JobPhase' = "aborted"
      BY <1>3 DEF Start, JobPhase
    <2>2. JobStates' = AsJobs!AllOut
      BY <2>1 DEF JobStates, JobState, AsJobs!AllOut
    <2> QED
      BY <1>1, <2>1, <2>2 DEF AsJobs!Abort, AsJobs!Next
  <1> QED
    BY <1>2, <1>3

LEMMA SettleJobs ==
  ASSUME JobInv, WithinLimit', NEW o \in Objects, Active(o),
         NEW status \in Failures \union Successes, Settle(o, status)
  PROVE  AsJobs!Next \/ UNCHANGED AsJobs!jobVars
  <1>1. /\ o \in requested /\ phase \in {"running", "rejected"}
    BY DEF JobInv, IInv, Staged, Resulted, AllRun, Fresh, Active, TypeOK
  <1>2. /\ UNCHANGED <<requested, parallel, phase>>
        /\ stage' = [stage EXCEPT ![o] = "ended"] /\ stage \in [Objects -> {"idle", "extracting", "loading", "ended"}]
    BY DEF Settle, plan, JobInv, IInv, TypeOK
  <1>3. Together' = Together /\ JobPhase' = JobPhase
    BY <1>2 DEF Together, JobPhase
  <1>4. CASE phase = "rejected"
    <2>1. JobStates' = JobStates
      BY <1>2, <1>4 DEF JobStates, JobState, JobPhase
    <2> QED
      BY <1>3, <2>1 DEF AsJobs!jobVars
  <1>5. CASE phase = "running"
    <2> DEFINE jobs == [JobStates EXCEPT ![o] = "settled"]
    <2>1. JobStates[o] = "running" /\ JobPhase = "running"
      BY <1>1, <1>2, <1>5 DEF JobStates, JobState, JobPhase, Active
    <2>2. JobStates \in [Objects -> {"out", "waiting", "running", "settled"}]
      BY <1>2 DEF JobStates, JobState
    <2>3. JobStates' = [x \in Objects |-> IF x \in {} THEN "running" ELSE jobs[x]]
      BY <1>1, <1>2, <1>3, <1>5, <2>1 DEF JobStates, JobState
    <2>4. AsJobs!Started({}, jobs)
      <3>1. jobs \in [Objects -> {"out", "waiting", "running", "settled"}]
        BY <2>2
      <3> HIDE DEF jobs
      <3> QED
        BY <2>3, <3>1, StartedJobs
    <2>5. AsJobs!Settle(o, {})
      BY <1>3, <2>1, <2>4 DEF AsJobs!Settle
    <2> QED
      BY <2>5 DEF AsJobs!Next
  <1> QED
    BY <1>1, <1>4, <1>5

LEMMA FinishJobs ==
  ASSUME JobInv, Finish
  PROVE  AsJobs!Next
  <1>1. \A o \in requested : stage[o] = "ended"
    BY DEF JobInv, IInv, Finish, WaveOver, Staged
  <1>2. phase = "running" /\ phase' = "done" /\ UNCHANGED <<requested, parallel, stage>>
    BY DEF Finish, plan
  <1>3. \A o \in Objects : JobStates[o] \in {"out", "settled"}
    BY <1>1 DEF JobStates, JobState
  <1>4. JobStates' = JobStates /\ JobPhase = "running" /\ JobPhase' = "over" /\ Together' = Together
    BY <1>2 DEF JobStates, JobState, JobPhase, Together
  <1> QED
    BY <1>3, <1>4 DEF AsJobs!Over, AsJobs!Next

LEMMA NextJobs == JobInv /\ WithinLimit' /\ [Next]_vars => [AsJobs!Next]_AsJobs!jobVars
  <1> SUFFICES ASSUME JobInv, WithinLimit', [Next]_vars PROVE [AsJobs!Next]_AsJobs!jobVars
    OBVIOUS
  <1>1. ASSUME NEW S \in SUBSET Objects, NEW par \in BOOLEAN, RunAll(S, par) \/ RunPlan(par)
        PROVE  AsJobs!Next
    BY <1>1, BeginJobs
  <1>8. ASSUME NEW S \in SUBSET Objects,
               Plan(S) \/ Planned \/ \E o \in Objects : Traverse(o) \/ Visit(o)
        PROVE  UNCHANGED AsJobs!jobVars
    BY <1>8, PlanJobs
  <1>2. CASE StartWave
    <2> DEFINE done == settled \union wave
    <2>1. wave' \in SUBSET Objects /\ \A o \in wave' : o \in requested /\ stage[o] = "idle"
      BY <1>2 DEF StartWave, NextWave, Ready, JobInv, IInv, Staged, TypeOK
    <2>2. PICK S \in SUBSET wave' : Start(S)
      <3>1. CASE parallel
        BY <1>2, <3>1 DEF StartWave
      <3>2. CASE ~parallel
        BY <1>2, <3>2 DEF StartWave
      <3> QED
        BY <3>1, <3>2
    <2>3. phase = "running" /\ UNCHANGED <<requested, parallel>>
      BY <1>2 DEF StartWave, plan
    <2> QED
      BY <2>1, <2>2, <2>3, StartJobs
  <1>3. ASSUME NEW o \in Objects, StartNext(o)
        PROVE  AsJobs!Next
    <2>1. /\ Start({o}) /\ phase = "running" /\ UNCHANGED <<requested, parallel>>
          /\ o \in requested /\ stage[o] = "idle" /\ {o} \in SUBSET Objects
      BY <1>3 DEF StartNext, plan, JobInv, IInv, Staged
    <2> QED
      BY <2>1, StartJobs
  <1>4. CASE Finish
    BY <1>4, FinishJobs
  <1>5. ASSUME NEW o \in Objects, ToLoad(o)
        PROVE  UNCHANGED AsJobs!jobVars
    <2>1. JobStates' = JobStates
      BY <1>5 DEF ToLoad, plan, JobStates, JobState, JobPhase, JobInv, IInv, TypeOK
    <2> QED
      BY <1>5, <2>1 DEF ToLoad, plan, AsJobs!jobVars, JobPhase, Together
  <1>6. ASSUME NEW o \in Objects, NotLoaded(o) \/ Loaded(o)
        PROVE  AsJobs!Next \/ UNCHANGED AsJobs!jobVars
    <2>1. Active(o)
      BY <1>6 DEF NotLoaded, Loaded, Active
    <2>2. PICK status \in Failures \union Successes : Settle(o, status)
      BY <1>6 DEF NotLoaded, Loaded, Failures, Successes
    <2> QED
      BY <2>1, <2>2, SettleJobs
  <1>7. CASE UNCHANGED vars
    BY <1>7 DEF vars, plan, AsJobs!jobVars, JobPhase, JobStates, JobState, Together
  <1> QED
    BY <1>1, <1>2, <1>3, <1>4, <1>5, <1>6, <1>7, <1>8 DEF Next, Proceed

(* runAll() and the waves implement JobRun: each object of the list is     *)
(* started once, one at a time unless the run is parallel, and runAll()    *)
(* reports when all have settled.                                          *)
THEOREM Implementation == Spec => JobSpec
  <1>1. Init => OneByOne
    BY DEF Init, OneByOne
  <1>2. Spec => []JobInv
    BY <1>1, InitIInv, NextIInv, OneByOneStep, PTL DEF Spec, JobInv
  <1> QED
    BY <1>2, InitJobs, NextJobs, Within, PTL DEF Spec, JobSpec, AsJobs!Spec
=============================================================================
