------------------------- MODULE ForensicRunProofs -------------------------
(***************************************************************************)
(* Proofs about ForensicRun, for any list of extractors, any choice of     *)
(* modules and any concurrency.                                            *)
(***************************************************************************)
EXTENDS ForensicRun, FiniteSetTheorems, TLAPS

Opening == {"system-info", "data-dictionary"}
Early == {"idle", "down"} \union Opening
Fresh(e) == results[e] \in {"none", "cached"}
Settled(e) == results[e] \in {"data", "error"}
Queued == ToSet(queue)

(* Which extractors run in a phase.                                        *)
RunningWhere ==
  /\ phase = "system-info" => Running = {SystemInfo}
  /\ phase = "data-dictionary" => Running = {Dictionary}
  /\ phase = "module-extraction" => Running \subseteq Modules
  /\ phase \notin Opening \union {"module-extraction"} => Running = {}

(* The queue exists in phase 3 only, and nothing is counted before it.     *)
QueueWhere ==
  /\ phase # "module-extraction" => queue = <<>>
  /\ phase \in Early => completed = 0

(* An extractor has no result of this run before it settles.               *)
ResultsWhere ==
  /\ phase \in {"idle", "down", "system-info"} => \A e \in Extractors : Fresh(e)
  /\ phase = "data-dictionary" =>
       Settled(SystemInfo) /\ \A e \in Extractors \ {SystemInfo} : Fresh(e)
  /\ \A e \in Running \union Queued : Fresh(e)

(* From phase 3 on every extractor of the run is queued, running or        *)
(* settled.                                                                *)
NobodyForgotten ==
  phase \in {"module-extraction", "reporting", "complete"} =>
    \A e \in entries \union {SystemInfo, Dictionary} :
      Settled(e) \/ e \in Running \union Queued

SavedIsOnDisk == \A e \in Extractors : stage[e] = "saved" => checkpoint[e] = "complete"

IInv ==
  /\ TypeOK /\ RunningWhere /\ QueueWhere /\ ResultsWhere
  /\ NobodyForgotten /\ SavedIsOnDisk /\ DataIsOnDisk
  /\ FullyUsed /\ EachOnce

-----------------------------------------------------------------------------
(* Lists without repetitions                                               *)

(* A sequence has finitely many elements, as many as it is long if none is *)
(* repeated.                                                               *)
LEMMA ToSetFinite ==
  ASSUME NEW S, NEW q \in Seq(S)
  PROVE  /\ IsFiniteSet(ToSet(q)) /\ ToSet(q) \subseteq S
         /\ IsInjective(q) => Cardinality(ToSet(q)) = Len(q)
  <1>1. q \in [1..Len(q) -> ToSet(q)] /\ Len(q) \in Nat /\ DOMAIN q = 1..Len(q)
    BY DEF ToSet
  <1>2. q \in Surjection(1..Len(q), ToSet(q))
    BY <1>1 DEF Surjection, ToSet
  <1>3. IsFiniteSet(1..Len(q)) /\ Cardinality(1..Len(q)) = Len(q)
    <2>1. ASSUME NEW k \in Nat PROVE IsFiniteSet(1..k) /\ Cardinality(1..k) = k
      <3>1. 1 \in Int /\ k \in Int
        OBVIOUS
      <3>2. IsFiniteSet(1..k) /\ Cardinality(1..k) = IF 1 > k THEN 0 ELSE k - 1 + 1
        BY <3>1, FS_Interval
      <3> QED
        BY <3>2
    <2> QED
      BY <1>1, <2>1
  <1>4. IsFiniteSet(ToSet(q))
    BY <1>2, <1>3, FS_Surjection
  <1>5. ToSet(q) \subseteq S
    BY <1>1 DEF ToSet
  <1>6. ASSUME IsInjective(q) PROVE Cardinality(ToSet(q)) = Len(q)
    <2>1. q \in Injection(1..Len(q), ToSet(q))
      BY <1>1, <1>6 DEF Injection
    <2> QED
      BY <2>1, <1>2, <1>3, FS_Surjection
  <1> QED
    BY <1>4, <1>5, <1>6

(* A list without repetitions falls into its first n elements and the      *)
(* rest.                                                                   *)
LEMMA FrontAndRest ==
  ASSUME NEW S, NEW q \in Seq(S), IsInjective(q), NEW n \in 0..Len(q)
  PROVE  LET f == SubSeq(q, 1, n)
             r == SubSeq(q, n + 1, Len(q))
         IN
         /\ f \in Seq(S) /\ r \in Seq(S) /\ Len(f) = n /\ Len(r) = Len(q) - n
         /\ IsInjective(f) /\ IsInjective(r)
         /\ ToSet(f) \union ToSet(r) = ToSet(q) /\ ToSet(f) \cap ToSet(r) = {}
  <1> DEFINE f == SubSeq(q, 1, n)
             r == SubSeq(q, n + 1, Len(q))
  <1>1. /\ f \in Seq(S) /\ Len(f) = n /\ DOMAIN f = 1..n
        /\ \A i \in 1..n : f[i] = q[i]
    OBVIOUS
  <1>2. /\ r \in Seq(S) /\ Len(r) = Len(q) - n /\ DOMAIN r = 1..(Len(q) - n)
        /\ \A i \in 1..(Len(q) - n) : r[i] = q[n + i]
    OBVIOUS
  <1>3. DOMAIN q = 1..Len(q) /\ Len(q) \in Nat /\ n \in Nat /\ n <= Len(q)
    OBVIOUS
  <1>q. \A a, b \in 1..Len(q) : q[a] = q[b] => a = b
    BY <1>3 DEF IsInjective
  <1>r. \A i \in 1..(Len(q) - n) : n + i \in 1..Len(q) /\ n + i \notin 1..n
    BY <1>3
  <1> HIDE DEF f, r
  <1>4. IsInjective(f)
    BY <1>1, <1>3 DEF IsInjective
  <1>5. IsInjective(r)
    <2> SUFFICES ASSUME NEW i \in 1..(Len(q) - n), NEW j \in 1..(Len(q) - n), r[i] = r[j]
                 PROVE  i = j
      BY <1>2 DEF IsInjective
    <2>1. q[n + i] = q[n + j]
      BY <1>2
    <2>2. n + i = n + j
      BY <2>1, <1>q, <1>r
    <2> QED
      BY <2>2, <1>3
  <1>6. ToSet(f) \union ToSet(r) \subseteq ToSet(q)
    <2>1. 1..n \subseteq 1..Len(q)
      BY <1>3
    <2> QED
      BY <1>1, <1>2, <1>3, <1>r, <2>1 DEF ToSet
  <1>7. ToSet(q) \subseteq ToSet(f) \union ToSet(r)
    <2> SUFFICES ASSUME NEW i \in 1..Len(q) PROVE q[i] \in ToSet(f) \union ToSet(r)
      BY <1>3 DEF ToSet
    <2>1. CASE i <= n
      BY <2>1, <1>1 DEF ToSet
    <2>2. CASE i > n
      <3>1. i - n \in 1..(Len(q) - n) /\ n + (i - n) = i
        BY <2>2, <1>3
      <3>2. r[i - n] = q[i]
        BY <3>1, <1>2
      <3> QED
        BY <3>1, <3>2, <1>2 DEF ToSet
    <2> QED
      BY <2>1, <2>2, <1>3
  <1>8. ToSet(f) \cap ToSet(r) = {}
    <2> SUFFICES ASSUME NEW i \in 1..n, NEW j \in 1..(Len(q) - n), f[i] = r[j]
                 PROVE  FALSE
      BY <1>1, <1>2 DEF ToSet
    <2>1. q[i] = q[n + j] /\ i \in 1..Len(q)
      BY <1>1, <1>2, <1>3
    <2>2. i = n + j
      BY <2>1, <1>q, <1>r
    <2> QED
      BY <2>2, <1>r
  <1> QED
    BY <1>1, <1>2, <1>4, <1>5, <1>6, <1>7, <1>8 DEF f, r

-----------------------------------------------------------------------------
(* runNext()                                                               *)

Stages == {"idle", "extracting", "saved"}
Busy(st) == {e \in Extractors : st[e] # "idle"}

LEMMA ExtractorsFinite == IsFiniteSet(Modules) /\ IsFiniteSet(Extractors)
  <1>1. IsFiniteSet(Modules)
    BY OrderAssumption, ToSetFinite DEF Modules
  <1>2. IsFiniteSet({SystemInfo, Dictionary})
    <2>1. IsFiniteSet({SystemInfo})
      BY FS_Singleton
    <2>2. IsFiniteSet({SystemInfo} \union {Dictionary})
      BY <2>1, FS_AddElement
    <2>3. {SystemInfo} \union {Dictionary} = {SystemInfo, Dictionary}
      OBVIOUS
    <2> QED
      BY <2>2, <2>3
  <1> QED
    BY <1>1, <1>2, FS_Union DEF Extractors

(* After runNext() the extractors of the queue and those at work are the   *)
(* same together, none is both, and no place is left while some wait.      *)
LEMMA RunNextFills ==
  ASSUME NEW q \in Seq(Modules), IsInjective(q), NEW st \in [Extractors -> Stages],
         Busy(st) \subseteq Modules, Busy(st) \cap ToSet(q) = {},
         Cardinality(Busy(st)) <= Concurrency, RunNext(q, st)
  PROVE  /\ queue' \in Seq(Modules) /\ IsInjective(queue')
         /\ stage' \in [Extractors -> Stages]
         /\ Running' \union ToSet(queue') = Busy(st) \union ToSet(q)
         /\ Running' \subseteq Modules /\ Running' \cap ToSet(queue') = {}
         /\ Cardinality(Running') + Len(queue') = Cardinality(Busy(st)) + Len(q)
         /\ Cardinality(Running') <= Concurrency
         /\ queue' # <<>> => Cardinality(Running') = Concurrency
         /\ \A e \in Extractors : stage'[e] = "saved" => st[e] = "saved"
  <1> DEFINE n == Room(q, st)
             front == SubSeq(q, 1, n)
             rest == SubSeq(q, n + 1, Len(q))
             m == Cardinality(Busy(st))
  <1>1. IsFiniteSet(Busy(st)) /\ m \in Nat
    BY ExtractorsFinite, FS_Subset, FS_CardinalityType
  <1>2. n \in 0..Len(q) /\ m + n <= Concurrency /\ (n = Len(q) \/ m + n = Concurrency)
    <2>1. n = IF Concurrency - m < Len(q) THEN Concurrency - m ELSE Len(q)
      BY DEF Room, Busy
    <2>2. Len(q) \in Nat /\ m <= Concurrency
      OBVIOUS
    <2> HIDE DEF n, m
    <2> QED
      BY <1>1, <2>1, <2>2, ConcurrencyAssumption
  <1>3. /\ stage' = [e \in Extractors |-> IF e \in ToSet(front) THEN "extracting" ELSE st[e]]
        /\ queue' = rest
    BY DEF RunNext, StartFirst
  <1> HIDE DEF n
  <1>4. /\ front \in Seq(Modules) /\ rest \in Seq(Modules)
        /\ Len(front) = n /\ Len(rest) = Len(q) - n
        /\ IsInjective(front) /\ IsInjective(rest)
        /\ ToSet(front) \union ToSet(rest) = ToSet(q) /\ ToSet(front) \cap ToSet(rest) = {}
    BY <1>2, FrontAndRest
  <1>5. IsFiniteSet(ToSet(front)) /\ Cardinality(ToSet(front)) = n /\ ToSet(front) \subseteq Modules
    BY <1>4, ToSetFinite
  <1> HIDE DEF front, rest
  <1>6. Running' = Busy(st) \union ToSet(front)
    BY <1>3, <1>5 DEF Running, Busy, Extractors
  <1>7. Busy(st) \cap ToSet(front) = {} /\ Busy(st) \cap ToSet(rest) = {}
    BY <1>4
  <1>8. Cardinality(Running') = m + n
    <2>1. Cardinality(Busy(st) \union ToSet(front)) = m + n - Cardinality({})
      BY <1>1, <1>5, <1>7, FS_Union
    <2> QED
      BY <2>1, <1>1, <1>2, <1>6, FS_EmptySet
  <1>9. stage' \in [Extractors -> Stages] /\ \A e \in Extractors : stage'[e] = "saved" => st[e] = "saved"
    BY <1>3 DEF Stages
  <1>10. Running' \union ToSet(queue') = Busy(st) \union ToSet(q) /\ Running' \cap ToSet(queue') = {}
    BY <1>3, <1>4, <1>6, <1>7
  <1>11. /\ Cardinality(Running') + Len(queue') = m + Len(q)
         /\ Cardinality(Running') <= Concurrency
         /\ queue' # <<>> => Cardinality(Running') = Concurrency
    <2>1. Len(q) \in Nat /\ Len(queue') = Len(q) - n
      BY <1>3, <1>4
    <2>2. n = Len(q) => queue' = <<>>
      BY <1>3, <1>4, <2>1
    <2> HIDE DEF m
    <2> QED
      BY <1>1, <1>2, <1>8, <2>1, <2>2, ConcurrencyAssumption
  <1> QED
    BY <1>3, <1>4, <1>5, <1>6, <1>9, <1>10, <1>11

-----------------------------------------------------------------------------
(* The steps                                                               *)

LEMMA InitInv == Init => IInv
  <1> SUFFICES ASSUME Init PROVE IInv
    OBVIOUS
  <1>1. Running = {} /\ Queued = {}
    BY DEF Init, Running, Queued, ToSet
  <1> QED
    BY <1>1 DEF Init, IInv, TypeOK, Phases, RunningWhere, QueueWhere, ResultsWhere, Fresh,
                NobodyForgotten, SavedIsOnDisk, DataIsOnDisk, FullyUsed, EachOnce, Opening, Early

LEMMA BeginInv ==
  ASSUME IInv, phase = "idle", NEW S \in SUBSET Modules, Begin(S),
         results' \in [Extractors -> {"none", "cached"}]
  PROVE  IInv'
  <1>1. SystemInfo \in Extractors
    BY DEF Extractors
  <1>2. Running' = {SystemInfo} /\ Queued' = {} /\ Queued = {}
    <2>1. Running = {} /\ stage \in [Extractors -> Stages]
      BY DEF IInv, TypeOK, RunningWhere, Opening, Stages
    <2>2. Running' = {SystemInfo}
      BY <1>1, <2>1 DEF Begin, Running
    <2> QED
      BY <2>2 DEF IInv, QueueWhere, Begin, Queued, ToSet
  <1>3. TypeOK'
    BY <1>1 DEF IInv, TypeOK, Begin, Phases
  <1>4. SavedIsOnDisk' /\ DataIsOnDisk'
    BY <1>1 DEF IInv, TypeOK, SavedIsOnDisk, DataIsOnDisk, Begin
  <1>5. RunningWhere' /\ QueueWhere' /\ ResultsWhere'
    BY <1>2 DEF IInv, RunningWhere, QueueWhere, ResultsWhere, Fresh, Begin, Opening, Early, Running
  <1>6. NobodyForgotten' /\ FullyUsed' /\ EachOnce'
    BY DEF NobodyForgotten, FullyUsed, EachOnce, Begin
  <1> QED
    BY <1>3, <1>4, <1>5, <1>6 DEF IInv

LEMMA RunInv == ASSUME IInv, NEW S \in SUBSET Modules, Run(S) PROVE IInv'
  <1>1. results' \in [Extractors -> {"none", "cached"}]
    BY DEF IInv, TypeOK, ResultsWhere, Fresh, Run
  <1> QED
    BY <1>1, BeginInv DEF Run

LEMMA ResumeInv == ASSUME IInv, Resume PROVE IInv'
  <1>1. results' \in [Extractors -> {"none", "cached"}]
    BY DEF IInv, TypeOK, ResultsWhere, Fresh, Resume
  <1> QED
    BY <1>1, BeginInv DEF Resume

LEMMA SaveInv == ASSUME IInv, NEW e \in Extractors, Save(e) PROVE IInv'
  <1>1. Running' = Running /\ Queued' = Queued
    BY DEF IInv, TypeOK, Save, Running, Queued
  <1>2. TypeOK' /\ SavedIsOnDisk' /\ DataIsOnDisk'
    BY DEF IInv, TypeOK, Save, SavedIsOnDisk, DataIsOnDisk
  <1>3. RunningWhere' /\ QueueWhere' /\ ResultsWhere' /\ NobodyForgotten'
    BY <1>1 DEF IInv, RunningWhere, QueueWhere, ResultsWhere, NobodyForgotten, Fresh, Settled, Save
  <1>4. FullyUsed' /\ EachOnce'
    BY <1>1 DEF IInv, FullyUsed, EachOnce, Save, Queued
  <1> QED
    BY <1>2, <1>3, <1>4 DEF IInv

(* What the settling of an extractor leaves of the files.                  *)
LEMMA SettlesFiles ==
  ASSUME IInv, NEW e \in Extractors, NEW r \in {"data", "error"}, Settles(e, r)
  PROVE  /\ e \in Running /\ Fresh(e)
         /\ checkpoint' \in [Extractors -> {"none", "complete", "torn"}]
         /\ \A x \in Extractors \ {e} : checkpoint'[x] = checkpoint[x]
         /\ r = "data" => checkpoint'[e] = "complete"
  BY DEF IInv, TypeOK, ResultsWhere, SavedIsOnDisk, Settles, Abandoned, Running

LEMMA EarlyFailureInv == ASSUME IInv, NEW e \in Extractors, EarlyFailure(e) PROVE IInv'
  <1>1. /\ e \in Running /\ Fresh(e)
        /\ checkpoint' \in [Extractors -> {"none", "complete", "torn"}]
        /\ \A x \in Extractors \ {e} : checkpoint'[x] = checkpoint[x]
    BY SettlesFiles DEF EarlyFailure
  <1>2. phase \in Opening /\ Running = {e}
    BY <1>1, OrderAssumption DEF IInv, TypeOK, Phases, RunningWhere, Opening, EarlyFailure
  <1>3. Running' = {} /\ Queued' = Queued
    BY <1>2 DEF IInv, TypeOK, EarlyFailure, Running, Queued
  <1>4. TypeOK'
    BY <1>1 DEF IInv, TypeOK, EarlyFailure, Phases
  <1>5. SavedIsOnDisk' /\ DataIsOnDisk'
    BY <1>1, <1>3 DEF IInv, TypeOK, SavedIsOnDisk, DataIsOnDisk, EarlyFailure, Running, Fresh
  <1>6. RunningWhere' /\ QueueWhere' /\ ResultsWhere'
    BY <1>2, <1>3 DEF IInv, RunningWhere, QueueWhere, ResultsWhere, Fresh, EarlyFailure, Opening, Early
  <1>7. NobodyForgotten' /\ FullyUsed' /\ EachOnce'
    BY DEF NobodyForgotten, FullyUsed, EachOnce, EarlyFailure
  <1> QED
    BY <1>4, <1>5, <1>6, <1>7 DEF IInv

LEMMA SystemInfoDoneInv == ASSUME IInv, SystemInfoDone PROVE IInv'
  <1>0. SystemInfo \in Extractors /\ Dictionary \in Extractors /\ SystemInfo # Dictionary
    BY OrderAssumption DEF Extractors
  <1>1. checkpoint' = checkpoint /\ checkpoint[SystemInfo] = "complete" /\ Running = {SystemInfo}
    BY <1>0 DEF IInv, SavedIsOnDisk, RunningWhere, SystemInfoDone, Settles
  <1>2. Running' = {Dictionary} /\ Queued' = Queued /\ Queued = {}
    <2>1. Running' = {Dictionary}
      BY <1>0, <1>1 DEF IInv, TypeOK, SystemInfoDone, Running
    <2> QED
      BY <2>1 DEF IInv, QueueWhere, SystemInfoDone, Queued, ToSet
  <1>3. TypeOK'
    BY <1>0, <1>1 DEF IInv, TypeOK, SystemInfoDone, Phases
  <1>4. SavedIsOnDisk' /\ DataIsOnDisk'
    BY <1>0, <1>1 DEF IInv, TypeOK, SavedIsOnDisk, DataIsOnDisk, SystemInfoDone
  <1>5. RunningWhere' /\ QueueWhere'
    BY <1>2 DEF IInv, RunningWhere, QueueWhere, SystemInfoDone, Opening, Early
  <1>6. ResultsWhere'
    BY <1>0, <1>2 DEF IInv, TypeOK, ResultsWhere, Fresh, Settled, SystemInfoDone
  <1>7. NobodyForgotten' /\ FullyUsed' /\ EachOnce'
    BY DEF NobodyForgotten, FullyUsed, EachOnce, SystemInfoDone
  <1> QED
    BY <1>3, <1>4, <1>5, <1>6, <1>7 DEF IInv

(* The list of a selection has each of its extractors once.                *)
LEMMA InOrderFacts ==
  ASSUME NEW S \in SUBSET Modules, NEW q \in InOrder(S)
  PROVE  /\ q \in Seq(Modules) /\ IsInjective(q)
         /\ ToSet(q) = S /\ Len(q) = Cardinality(S)
  <1>1. Cardinality(S) \in Nat
    BY ExtractorsFinite, FS_Subset, FS_CardinalityType
  <1>2. /\ q \in [1..Cardinality(S) -> S] /\ ToSet(q) = S
        /\ \A i, j \in 1..Cardinality(S) :
             i < j => \E a, b \in DOMAIN Order : a < b /\ Order[a] = q[i] /\ Order[b] = q[j]
    BY DEF InOrder
  <1>3. q \in Seq(Modules) /\ Len(q) = Cardinality(S)
    BY <1>1, <1>2
  <1>4. DOMAIN Order \subseteq Nat
    BY OrderAssumption
  <1>5. ASSUME NEW i \in 1..Cardinality(S), NEW j \in 1..Cardinality(S), i < j
        PROVE  q[i] # q[j]
    <2>1. PICK a \in DOMAIN Order, b \in DOMAIN Order : a < b /\ Order[a] = q[i] /\ Order[b] = q[j]
      BY <1>2, <1>5
    <2>2. a # b
      BY <2>1, <1>4
    <2> QED
      BY <2>1, <2>2, OrderAssumption DEF IsInjective
  <1>6. IsInjective(q)
    <2> SUFFICES ASSUME NEW i \in 1..Cardinality(S), NEW j \in 1..Cardinality(S), q[i] = q[j]
                 PROVE  i = j
      BY <1>2 DEF IsInjective
    <2>1. i \in Nat /\ j \in Nat
      BY <1>1
    <2> QED
      BY <2>1, <1>5
  <1> QED
    BY <1>2, <1>3, <1>6

LEMMA DictionaryDoneInv == ASSUME IInv, DictionaryDone PROVE IInv'
  <1> DEFINE st == [stage EXCEPT ![Dictionary] = "idle"]
  <1>0. SystemInfo \in Extractors /\ Dictionary \in Extractors /\ SystemInfo # Dictionary
    BY OrderAssumption DEF Extractors
  <1>1. checkpoint' = checkpoint /\ checkpoint[Dictionary] = "complete" /\ Running = {Dictionary}
    BY <1>0 DEF IInv, SavedIsOnDisk, RunningWhere, DictionaryDone, Settles
  <1>2. st \in [Extractors -> Stages] /\ Busy(st) = {}
    BY <1>0, <1>1 DEF IInv, TypeOK, Running, Busy, Stages
  <1>3. PICK q \in InOrder(entries) : RunNext(q, st)
    BY DEF DictionaryDone
  <1>4. /\ q \in Seq(Modules) /\ IsInjective(q)
        /\ ToSet(q) = entries /\ Len(q) = Cardinality(entries)
    BY <1>3, InOrderFacts DEF IInv, TypeOK
  <1>5. Cardinality(Busy(st)) = 0
    BY <1>2, FS_EmptySet
  <1> HIDE DEF st
  <1>6. /\ queue' \in Seq(Modules) /\ IsInjective(queue')
        /\ stage' \in [Extractors -> Stages]
        /\ Running' \union ToSet(queue') = entries
        /\ Running' \subseteq Modules /\ Running' \cap ToSet(queue') = {}
        /\ Cardinality(Running') + Len(queue') = Cardinality(entries)
        /\ Cardinality(Running') <= Concurrency
        /\ queue' # <<>> => Cardinality(Running') = Concurrency
        /\ \A e \in Extractors : stage'[e] = "saved" => st[e] = "saved"
    <2>1. Busy(st) \subseteq Modules /\ Busy(st) \cap ToSet(q) = {} /\ Busy(st) \union ToSet(q) = entries
      BY <1>2, <1>4
    <2>2. Cardinality(Busy(st)) <= Concurrency
      BY <1>5, ConcurrencyAssumption
    <2>3. Cardinality(Busy(st)) + Len(q) = Cardinality(entries)
      BY <1>4, <1>5
    <2> QED
      BY <1>2, <1>3, <1>4, <2>1, <2>2, <2>3, RunNextFills
  <1>7. /\ results' = [results EXCEPT ![Dictionary] = "data"] /\ entries' = entries
        /\ completed' = completed /\ completed = 0 /\ phase' = "module-extraction"
        /\ entries \in SUBSET Modules /\ Dictionary \notin entries
    BY OrderAssumption DEF IInv, TypeOK, QueueWhere, Early, Opening, DictionaryDone
  <1>8. TypeOK'
    BY <1>0, <1>1, <1>6, <1>7 DEF IInv, TypeOK, Phases, Stages
  <1>9. SavedIsOnDisk'
    BY <1>1, <1>2, <1>6 DEF IInv, TypeOK, SavedIsOnDisk, Busy
  <1>10. DataIsOnDisk'
    BY <1>0, <1>1, <1>7 DEF IInv, TypeOK, DataIsOnDisk
  <1>11. RunningWhere' /\ QueueWhere'
    BY <1>6, <1>7 DEF RunningWhere, QueueWhere, Opening, Early
  <1>12. Settled(SystemInfo) /\ \A e \in Extractors \ {SystemInfo} : Fresh(e)
    BY DEF IInv, ResultsWhere, DictionaryDone
  <1>13. ResultsWhere' /\ NobodyForgotten'
    <2>1. \A e \in Running' \union Queued' : results'[e] \in {"none", "cached"}
      BY <1>0, <1>6, <1>7, <1>12, OrderAssumption DEF IInv, TypeOK, Fresh, Queued, Extractors
    <2>2. \A e \in {SystemInfo, Dictionary} : results'[e] \in {"data", "error"}
      BY <1>0, <1>7, <1>12 DEF IInv, TypeOK, Settled
    <2> QED
      BY <1>6, <1>7, <2>1, <2>2 DEF ResultsWhere, NobodyForgotten, Fresh, Settled, Queued
  <1>14. FullyUsed'
    BY <1>6 DEF FullyUsed
  <1>15. EachOnce'
    <2>1. 0 + Cardinality(Running') + Len(queue') = Cardinality(entries)
      <3>1. Cardinality(Running') \in Nat
        BY <1>6, ExtractorsFinite, FS_Subset, FS_CardinalityType
      <3> QED
        BY <1>6, <3>1
    <2> QED
      BY <1>6, <1>7, <2>1 DEF EachOnce
  <1> QED
    BY <1>8, <1>9, <1>10, <1>11, <1>13, <1>14, <1>15 DEF IInv

LEMMA ModuleSettlesInv ==
  ASSUME IInv, NEW e \in Extractors, NEW r \in {"data", "error"}, ModuleSettles(e, r)
  PROVE  IInv'
  <1> DEFINE st == [stage EXCEPT ![e] = "idle"]
  <1>1. /\ e \in Running /\ Fresh(e)
        /\ checkpoint' \in [Extractors -> {"none", "complete", "torn"}]
        /\ \A x \in Extractors \ {e} : checkpoint'[x] = checkpoint[x]
        /\ r = "data" => checkpoint'[e] = "complete"
    BY SettlesFiles DEF ModuleSettles
  <1>2. phase = "module-extraction" /\ phase' = phase /\ entries' = entries /\ completed' = completed + 1
        /\ results' = [results EXCEPT ![e] = r] /\ RunNext(queue, st)
    BY DEF ModuleSettles
  <1>3. Running \subseteq Modules /\ Running \cap Queued = {} /\ IsInjective(queue)
        /\ completed + Cardinality(Running) + Len(queue) = Cardinality(entries)
        /\ Cardinality(Running) <= Concurrency
    BY <1>2 DEF IInv, RunningWhere, EachOnce, FullyUsed, Queued
  <1>4. st \in [Extractors -> Stages] /\ Busy(st) = Running \ {e}
    BY <1>1 DEF IInv, TypeOK, Running, Busy, Stages
  <1>5. /\ IsFiniteSet(Running) /\ Cardinality(Running) \in Nat
        /\ Cardinality(Busy(st)) = Cardinality(Running) - 1 /\ Cardinality(Busy(st)) \in Nat
    BY <1>1, <1>3, <1>4, ExtractorsFinite, FS_Subset, FS_CardinalityType, FS_RemoveElement
  <1> HIDE DEF st
  <1>6. /\ queue' \in Seq(Modules) /\ IsInjective(queue')
        /\ stage' \in [Extractors -> Stages]
        /\ Running' \union ToSet(queue') = (Running \ {e}) \union Queued
        /\ Running' \subseteq Modules /\ Running' \cap ToSet(queue') = {}
        /\ Cardinality(Running') + Len(queue') = Cardinality(Busy(st)) + Len(queue)
        /\ Cardinality(Running') <= Concurrency
        /\ queue' # <<>> => Cardinality(Running') = Concurrency
        /\ \A x \in Extractors : stage'[x] = "saved" => st[x] = "saved"
    <2>1. Busy(st) \subseteq Modules /\ Busy(st) \cap ToSet(queue) = {}
      BY <1>3, <1>4 DEF Queued
    <2>2. Cardinality(Busy(st)) <= Concurrency
      BY <1>3, <1>5, ConcurrencyAssumption
    <2>3. queue \in Seq(Modules)
      BY DEF IInv, TypeOK
    <2> QED
      BY <1>2, <1>3, <1>4, <2>1, <2>2, <2>3, RunNextFills DEF Queued
  <1>7. TypeOK'
    <2>1. completed' \in Nat
      BY <1>2 DEF IInv, TypeOK
    <2>2. results' \in [Extractors -> {"none", "data", "error", "cached"}]
      BY <1>2 DEF IInv, TypeOK
    <2> QED
      BY <1>1, <1>2, <1>6, <2>1, <2>2 DEF IInv, TypeOK, Phases, Stages
  <1>8. SavedIsOnDisk'
    <2> SUFFICES ASSUME NEW x \in Extractors, stage'[x] = "saved"
                 PROVE  checkpoint'[x] = "complete"
      BY DEF SavedIsOnDisk
    <2>1. st[x] = "saved"
      BY <1>6
    <2>2. x # e /\ stage[x] = "saved"
      BY <2>1 DEF IInv, TypeOK, st
    <2> QED
      BY <2>2, <1>1 DEF IInv, SavedIsOnDisk
  <1>9. DataIsOnDisk'
    BY <1>1, <1>2 DEF IInv, TypeOK, DataIsOnDisk
  <1>10. RunningWhere' /\ QueueWhere'
    BY <1>2, <1>6 DEF RunningWhere, QueueWhere, Opening, Early
  <1>11. e \notin Running' \union Queued'
    BY <1>1, <1>3, <1>6 DEF Queued
  <1>12. ResultsWhere'
    <2>1. \A x \in Running' \union Queued' : Fresh(x) /\ x # e /\ x \in Extractors
      <3> SUFFICES ASSUME NEW x \in Running' \union Queued' PROVE Fresh(x) /\ x # e /\ x \in Extractors
        OBVIOUS
      <3>1. x \in Running \union Queued
        BY <1>6 DEF Queued
      <3>2. Queued \subseteq Modules /\ Running \subseteq Modules
        BY <1>3, ToSetFinite DEF IInv, TypeOK, Queued
      <3> QED
        BY <1>11, <3>1, <3>2 DEF IInv, ResultsWhere, Extractors
    <2> QED
      BY <1>2, <2>1 DEF IInv, TypeOK, ResultsWhere, Fresh
  <1>13. NobodyForgotten'
    <2> SUFFICES ASSUME NEW x \in entries \union {SystemInfo, Dictionary}
                 PROVE  results'[x] \in {"data", "error"} \/ x \in Running' \union Queued'
      BY <1>2 DEF NobodyForgotten, Settled
    <2>1. x \in Extractors /\ (Settled(x) \/ x \in Running \union Queued)
      BY <1>2 DEF IInv, TypeOK, NobodyForgotten, Extractors
    <2> QED
      BY <1>2, <1>6, <2>1 DEF IInv, TypeOK, Settled, Queued
  <1>14. FullyUsed'
    BY <1>6 DEF FullyUsed
  <1>15. EachOnce'
    <2>1. completed \in Nat /\ Len(queue) \in Nat /\ Len(queue') \in Nat /\ Cardinality(Running') \in Nat
      BY <1>6, ExtractorsFinite, FS_Subset, FS_CardinalityType DEF IInv, TypeOK
    <2>2. /\ completed + Cardinality(Running) + Len(queue) = Cardinality(entries)
          /\ Cardinality(Busy(st)) = Cardinality(Running) - 1
          /\ Cardinality(Running') + Len(queue') = Cardinality(Busy(st)) + Len(queue)
          /\ Cardinality(Running) \in Nat /\ Cardinality(Busy(st)) \in Nat
      BY <1>3, <1>5, <1>6
    <2>3. completed + 1 + Cardinality(Running') + Len(queue') = Cardinality(entries)
      <3> DEFINE running == Cardinality(Running)
                 left == Cardinality(Busy(st))
                 running1 == Cardinality(Running')
                 waiting == Len(queue)
                 waiting1 == Len(queue')
                 all == Cardinality(entries)
      <3>1. /\ completed \in Nat /\ running \in Nat /\ left \in Nat
            /\ running1 \in Nat /\ waiting \in Nat /\ waiting1 \in Nat
        BY <2>1, <2>2
      <3>2. completed + running + waiting = all /\ left = running - 1 /\ running1 + waiting1 = left + waiting
        BY <2>2
      <3> HIDE DEF running, left, running1, waiting, waiting1, all
      <3>3. completed + 1 + running1 + waiting1 = all
        BY <3>1, <3>2
      <3> QED
        BY <3>3 DEF running1, waiting1, all
    <2> QED
      BY <1>2, <1>6, <2>3 DEF EachOnce
  <1> QED
    BY <1>7, <1>8, <1>9, <1>10, <1>12, <1>13, <1>14, <1>15 DEF IInv

(* The steps that leave extractors and files alone.                        *)
LEMMA ModulesDoneInv == ASSUME IInv, ModulesDone PROVE IInv'
  <1>1. Running' = {} /\ Running = {} /\ Queued' = Queued
    BY DEF ModulesDone, AllSettled, Running, Queued
  <1>2. queue = <<>>
    <2>1. queue # <<>> => Cardinality(Running) = Concurrency
      BY DEF IInv, FullyUsed, ModulesDone, AllSettled
    <2> QED
      BY <1>1, <2>1, FS_EmptySet, ConcurrencyAssumption
  <1>3. TypeOK' /\ SavedIsOnDisk' /\ DataIsOnDisk'
    BY DEF IInv, TypeOK, Phases, SavedIsOnDisk, DataIsOnDisk, ModulesDone
  <1>4. RunningWhere' /\ QueueWhere' /\ ResultsWhere' /\ NobodyForgotten' /\ FullyUsed' /\ EachOnce'
    BY <1>1, <1>2 DEF IInv, RunningWhere, QueueWhere, ResultsWhere, NobodyForgotten, Fresh, Settled,
                      FullyUsed, EachOnce, Opening, Early, ModulesDone, AllSettled
  <1> QED
    BY <1>3, <1>4 DEF IInv

LEMMA ReportInv ==
  ASSUME IInv, NEW outcome \in {"complete", "failed"}, Report(outcome)
  PROVE  IInv'
  <1>1. Running' = Running /\ Queued' = Queued
    BY DEF Report, Running, Queued
  <1>2. TypeOK' /\ SavedIsOnDisk' /\ DataIsOnDisk'
    BY DEF IInv, TypeOK, Phases, SavedIsOnDisk, DataIsOnDisk, Report
  <1>3. RunningWhere' /\ QueueWhere' /\ ResultsWhere' /\ NobodyForgotten' /\ FullyUsed' /\ EachOnce'
    BY <1>1 DEF IInv, RunningWhere, QueueWhere, ResultsWhere, NobodyForgotten, Fresh, Settled,
                FullyUsed, EachOnce, Opening, Early, Report
  <1> QED
    BY <1>2, <1>3 DEF IInv

LEMMA ResumeFailsInv == ASSUME IInv, ResumeFails PROVE IInv'
  <1>1. Running' = Running /\ Queued' = Queued
    BY DEF ResumeFails, Running, Queued
  <1>2. TypeOK' /\ SavedIsOnDisk' /\ DataIsOnDisk'
    BY DEF IInv, TypeOK, Phases, SavedIsOnDisk, DataIsOnDisk, ResumeFails
  <1>3. RunningWhere' /\ QueueWhere' /\ ResultsWhere' /\ NobodyForgotten' /\ FullyUsed' /\ EachOnce'
    BY <1>1 DEF IInv, RunningWhere, QueueWhere, ResultsWhere, NobodyForgotten, Fresh, Settled,
                FullyUsed, EachOnce, Opening, Early, ResumeFails
  <1> QED
    BY <1>2, <1>3 DEF IInv

LEMMA CrashInv == ASSUME IInv, Crash PROVE IInv'
  <1>1. Running' = {} /\ Queued' = {}
    BY DEF Crash, Running, Queued, ToSet
  <1>2. checkpoint' \in [Extractors -> {"none", "complete", "torn"}]
    BY DEF IInv, TypeOK, Crash, Abandoned
  <1>3. TypeOK'
    BY <1>2 DEF IInv, TypeOK, Phases, Crash
  <1>4. SavedIsOnDisk' /\ DataIsOnDisk' /\ NobodyForgotten' /\ FullyUsed' /\ EachOnce'
    BY DEF SavedIsOnDisk, DataIsOnDisk, NobodyForgotten, FullyUsed, EachOnce, Crash
  <1>5. RunningWhere' /\ QueueWhere' /\ ResultsWhere'
    BY <1>1 DEF RunningWhere, QueueWhere, ResultsWhere, Fresh, Opening, Early, Crash
  <1> QED
    BY <1>3, <1>4, <1>5 DEF IInv

LEMMA RestartInv == ASSUME IInv, Restart PROVE IInv'
  <1>1. Running' = Running /\ Queued' = Queued
    BY DEF Restart, Running, Queued
  <1>2. TypeOK' /\ SavedIsOnDisk' /\ DataIsOnDisk'
    BY DEF IInv, TypeOK, Phases, SavedIsOnDisk, DataIsOnDisk, Restart
  <1>3. RunningWhere' /\ QueueWhere' /\ ResultsWhere' /\ NobodyForgotten' /\ FullyUsed' /\ EachOnce'
    BY <1>1 DEF IInv, RunningWhere, QueueWhere, ResultsWhere, NobodyForgotten, Fresh, Settled,
                FullyUsed, EachOnce, Opening, Early, Restart
  <1> QED
    BY <1>2, <1>3 DEF IInv

LEMMA StutterInv == ASSUME IInv, UNCHANGED vars PROVE IInv'
  BY DEF IInv, vars, TypeOK, RunningWhere, QueueWhere, ResultsWhere, NobodyForgotten, SavedIsOnDisk,
         DataIsOnDisk, FullyUsed, EachOnce, Running, Queued, Fresh, Settled

-----------------------------------------------------------------------------
(* The theorems                                                            *)

LEMMA StepInv == IInv /\ [Next]_vars => IInv'
  <1> SUFFICES ASSUME IInv, [Next]_vars PROVE IInv'
    OBVIOUS
  <1>1. CASE \E S \in SUBSET Modules : Run(S)
    BY <1>1, RunInv
  <1>2. CASE Resume \/ ResumeFails
    BY <1>2, ResumeInv, ResumeFailsInv
  <1>3. CASE \E e \in Extractors : Settle(e)
    BY <1>3, SaveInv, EarlyFailureInv, ModuleSettlesInv DEF Settle
  <1>4. CASE SystemInfoDone \/ DictionaryDone \/ ModulesDone
    BY <1>4, SystemInfoDoneInv, DictionaryDoneInv, ModulesDoneInv
  <1>5. CASE \E outcome \in {"complete", "failed"} : Report(outcome)
    BY <1>5, ReportInv
  <1>6. CASE Crash \/ Restart
    BY <1>6, CrashInv, RestartInv
  <1>7. CASE UNCHANGED vars
    BY <1>7, StutterInv
  <1> QED
    BY <1>1, <1>2, <1>3, <1>4, <1>5, <1>6, <1>7 DEF Next

(* run(), resume(), runNext() and extract() keep the inductive invariant.  *)
THEOREM Invariance == Spec => []IInv
  BY InitInv, StepInv, PTL DEF Spec

(* The variables keep their types.                                         *)
THEOREM TypeCorrect == Spec => []TypeOK
  <1>1. IInv => TypeOK
    BY DEF IInv
  <1> QED
    BY Invariance, <1>1, PTL

(* runNext() never exceeds options.concurrency and leaves no place empty   *)
(* while extractors wait.                                                  *)
THEOREM PlacesAreUsed == Spec => []FullyUsed
  <1>1. IInv => FullyUsed
    BY DEF IInv
  <1> QED
    BY Invariance, <1>1, PTL

(* In phase 3 of run() each selected extractor is queued, running or       *)
(* counted, and never two of them.                                         *)
THEOREM EachExtractorOnce == Spec => []EachOnce
  <1>1. IInv => EachOnce
    BY DEF IInv
  <1> QED
    BY Invariance, <1>1, PTL

(* run() reaches the process mining with a result of every extractor.      *)
THEOREM ReportIsFull == Spec => []ReportSeesAll
  <1>1. IInv => ReportSeesAll
    <2> SUFFICES ASSUME IInv, phase \in {"reporting", "complete"},
                        NEW e \in entries \union {SystemInfo, Dictionary}
                 PROVE  results[e] \in {"data", "error"}
      BY DEF ReportSeesAll
    <2>1. Running = {} /\ Queued = {}
      BY DEF IInv, RunningWhere, QueueWhere, Opening, Queued, ToSet
    <2> QED
      BY <2>1 DEF IInv, NobodyForgotten, Settled
  <1> QED
    BY Invariance, <1>1, PTL

(* What run() has as data was saved by extract() before, whatever crashed. *)
THEOREM ReportedIsSaved == Spec => []DataIsOnDisk
  <1>1. IInv => DataIsOnDisk
    BY DEF IInv
  <1> QED
    BY Invariance, <1>1, PTL

-----------------------------------------------------------------------------
(* The refinement: every step of ForensicRun is a step of JobRun or leaves *)
(* it alone.                                                               *)

RunningJobs == {e \in Extractors : JobStates[e] = "running"}

WithinLimit == Cardinality(RunningJobs) <= Concurrency

LEMMA Within == IInv => WithinLimit
  <1> SUFFICES ASSUME IInv PROVE WithinLimit
    OBVIOUS
  <1>1. RunningJobs \subseteq Running
    BY DEF RunningJobs, Running, JobStates, JobState
  <1>2. IsFiniteSet(Running) /\ Cardinality(Running) \in Nat
    BY ExtractorsFinite, FS_Subset, FS_CardinalityType DEF Running
  <1>3. Cardinality(RunningJobs) <= Cardinality(Running) /\ Cardinality(RunningJobs) \in Nat
    BY <1>1, <1>2, FS_Subset, FS_CardinalityType
  <1>4. Cardinality(Running) <= Concurrency
    <2>1. CASE phase = "module-extraction"
      BY <2>1 DEF IInv, FullyUsed
    <2>2. CASE phase \in Opening
      <3>1. Cardinality(Running) = 1
        BY <2>2, FS_Singleton DEF IInv, RunningWhere, Opening
      <3> QED
        BY <3>1, ConcurrencyAssumption
    <2>3. CASE phase \notin Opening \union {"module-extraction"}
      <3>1. Cardinality(Running) = 0
        BY <2>3, FS_EmptySet DEF IInv, RunningWhere
      <3> QED
        BY <3>1, ConcurrencyAssumption
    <2> QED
      BY <2>1, <2>2, <2>3
  <1> QED
    BY <1>2, <1>3, <1>4, ConcurrencyAssumption DEF WithinLimit

(* An instance has its own copy of Cardinality.                            *)
LEMMA SameCardinality ==
  ASSUME NEW S
  PROVE  AsJobs!Cardinality(S) = Cardinality(S)
  BY DEF Cardinality, AsJobs!Cardinality

JobNames == {"out", "waiting", "running", "settled"}

(* With as many extractors at work as may be, what is left of              *)
(* AsJobs!Started is which of them have just started.                      *)
LEMMA StartedJobs ==
  ASSUME NEW N \in SUBSET Extractors, NEW jobs \in [Extractors -> JobNames],
         \A e \in N : jobs[e] = "waiting", WithinLimit',
         JobStates' = [e \in Extractors |-> IF e \in N THEN "running" ELSE jobs[e]]
  PROVE  AsJobs!Started(N, jobs)
  <1>1. AsJobs!Cardinality({e \in Extractors : JobStates'[e] = "running"}) <= Concurrency
    BY SameCardinality DEF WithinLimit, RunningJobs
  <1> QED
    BY <1>1 DEF AsJobs!Started

LEMMA JobTypes == JobStates \in [Extractors -> JobNames]
  BY DEF JobStates, JobState, JobNames

LEMMA SelectedAreExtractors ==
  ASSUME TypeOK
  PROVE  entries \union {SystemInfo, Dictionary} \subseteq Extractors
  BY DEF TypeOK, Extractors

LEMMA InitJobs == Init => AsJobs!Init
  BY ConcurrencyAssumption DEF Init, AsJobs!Init, AsJobs!AllOut, JobPhase, JobStates, JobState

LEMMA BeginJobs ==
  ASSUME IInv, WithinLimit', phase = "idle", NEW S \in SUBSET Modules, Begin(S),
         results' \in [Extractors -> {"none", "cached"}]
  PROVE  AsJobs!Next
  <1> DEFINE all == S \union {SystemInfo, Dictionary}
             jobs == [e \in Extractors |-> IF e \in all THEN "waiting" ELSE "out"]
  <1>1. SystemInfo \in Extractors /\ all \in SUBSET Extractors /\ {SystemInfo} \in SUBSET Extractors
    BY DEF Extractors
  <1>2. /\ \A e \in Extractors : stage[e] = "idle"
        /\ stage' = [stage EXCEPT ![SystemInfo] = "extracting"] /\ entries' = S
        /\ phase' = "system-info" /\ DOMAIN stage = Extractors
    BY DEF IInv, TypeOK, RunningWhere, Running, Opening, Begin
  <1>3. JobPhase = "new" /\ JobPhase' = "running"
    BY <1>2 DEF JobPhase
  <1>4. JobStates' = [e \in Extractors |-> IF e \in {SystemInfo} THEN "running" ELSE jobs[e]]
    BY <1>1, <1>2, <1>3 DEF JobStates, JobState
  <1>5. jobs \in [Extractors -> JobNames] /\ jobs[SystemInfo] = "waiting"
    BY <1>1 DEF JobNames
  <1>6. AsJobs!Started({SystemInfo}, jobs)
    <2> HIDE DEF jobs
    <2> QED
      BY <1>1, <1>4, <1>5, StartedJobs
  <1>7. AsJobs!Begin(all, {SystemInfo})
    BY <1>3, <1>6, ConcurrencyAssumption DEF AsJobs!Begin
  <1> HIDE DEF all
  <1> QED
    BY <1>1, <1>7 DEF AsJobs!Next

(* An extractor of the run settles and those of N start in its place.      *)
LEMMA SettleJobs ==
  ASSUME IInv, WithinLimit', NEW e \in entries \union {SystemInfo, Dictionary},
         phase \in Opening \union {"module-extraction"}, phase' \in Opening \union {"module-extraction"},
         entries' = entries, stage[e] # "idle", results'[e] \in {"data", "error"}, stage'[e] = "idle",
         NEW N \in SUBSET ((entries \union {SystemInfo, Dictionary}) \ {e}),
         \A x \in N : Fresh(x) /\ stage[x] = "idle" /\ stage'[x] # "idle",
         \A x \in Extractors \ {e} : results'[x] = results[x],
         \A x \in Extractors \ (N \union {e}) : stage'[x] = stage[x]
  PROVE  AsJobs!Next
  <1> DEFINE all == entries \union {SystemInfo, Dictionary}
             jobs == [JobStates EXCEPT ![e] = "settled"]
  <1>1. all \subseteq Extractors /\ e \in Extractors /\ N \in SUBSET Extractors
    BY SelectedAreExtractors DEF IInv
  <1>2. JobPhase = "running" /\ JobPhase' = "running"
    BY DEF JobPhase, Opening
  <1>3. /\ \A x \in Extractors :
              JobStates[x] = IF x \notin all THEN "out" ELSE IF stage[x] # "idle" THEN "running"
                             ELSE IF results[x] \in {"data", "error"} THEN "settled" ELSE "waiting"
        /\ \A x \in Extractors :
              JobStates'[x] = IF x \notin all THEN "out" ELSE IF stage'[x] # "idle" THEN "running"
                              ELSE IF results'[x] \in {"data", "error"} THEN "settled" ELSE "waiting"
    BY <1>2 DEF JobStates, JobState
  <1>4. JobStates \in [Extractors -> JobNames]
    BY JobTypes
  <1>5. JobStates' = [x \in Extractors |-> IF x \in N THEN "running" ELSE jobs[x]]
    <2>1. JobStates' = [x \in Extractors |-> JobStates'[x]]
      BY DEF JobStates
    <2>2. ASSUME NEW x \in Extractors
          PROVE  JobStates'[x] = IF x \in N THEN "running" ELSE jobs[x]
      <3>1. CASE x = e
        BY <1>1, <1>3, <1>4, <3>1
      <3>2. CASE x \in N
        BY <1>1, <1>3, <3>2
      <3>3. CASE x \notin N /\ x # e
        BY <1>1, <1>3, <1>4, <3>3
      <3> QED
        BY <3>1, <3>2, <3>3
    <2> QED
      BY <2>1, <2>2, Zenon
  <1>6. \A x \in N : jobs[x] = "waiting"
    BY <1>1, <1>3, <1>4 DEF Fresh
  <1>7. jobs \in [Extractors -> JobNames] /\ JobStates[e] = "running"
    BY <1>1, <1>3, <1>4 DEF JobNames
  <1>8. AsJobs!Started(N, jobs)
    <2> HIDE DEF jobs
    <2> QED
      BY <1>1, <1>5, <1>6, <1>7, StartedJobs
  <1>9. AsJobs!Settle(e, N)
    BY <1>2, <1>7, <1>8 DEF AsJobs!Settle
  <1> QED
    BY <1>1, <1>9 DEF AsJobs!Next

(* runNext() starts some extractors of the queue and drops no other.       *)
LEMMA RunNextStarts ==
  ASSUME NEW q \in Seq(Modules), IsInjective(q), NEW st \in [Extractors -> Stages],
         Cardinality(Busy(st)) <= Concurrency, RunNext(q, st)
  PROVE  \E N \in SUBSET ToSet(q) :
           /\ stage' = [e \in Extractors |-> IF e \in N THEN "extracting" ELSE st[e]]
           /\ ToSet(queue') \subseteq ToSet(q)
  <1> DEFINE n == Room(q, st)
             m == Cardinality(Busy(st))
  <1>1. m \in Nat /\ m <= Concurrency /\ Len(q) \in Nat
    BY ExtractorsFinite, FS_Subset, FS_CardinalityType DEF Busy
  <1>2. n = IF Concurrency - m < Len(q) THEN Concurrency - m ELSE Len(q)
    BY DEF Room, Busy
  <1> HIDE DEF n, m
  <1>3. n \in 0..Len(q)
    BY <1>1, <1>2, ConcurrencyAssumption
  <1>4. ToSet(SubSeq(q, 1, n)) \union ToSet(SubSeq(q, n + 1, Len(q))) = ToSet(q)
    BY <1>3, FrontAndRest
  <1> QED
    BY <1>4 DEF RunNext, StartFirst, n

(* Only selected extractors are queued or run in phase 3.                  *)
Selected == phase = "module-extraction" => Running \union Queued \subseteq entries

JobInv == IInv /\ Selected

LEMMA DictionaryStarts ==
  ASSUME IInv, DictionaryDone
  PROVE  \E N \in SUBSET entries :
           /\ stage' = [e \in Extractors |-> IF e \in N THEN "extracting" ELSE
                          IF e = Dictionary THEN "idle" ELSE stage[e]]
           /\ ToSet(queue') \subseteq entries
           /\ Running = {Dictionary}
  <1> DEFINE st == [stage EXCEPT ![Dictionary] = "idle"]
  <1>1. Dictionary \in Extractors /\ Running = {Dictionary} /\ stage \in [Extractors -> Stages]
    BY DEF IInv, TypeOK, RunningWhere, DictionaryDone, Extractors, Stages
  <1>2. st \in [Extractors -> Stages] /\ Busy(st) = {}
    BY <1>1 DEF Running, Busy, Stages
  <1>3. PICK q \in InOrder(entries) : RunNext(q, st)
    BY DEF DictionaryDone
  <1>4. q \in Seq(Modules) /\ IsInjective(q) /\ ToSet(q) = entries
    BY <1>3, InOrderFacts DEF IInv, TypeOK
  <1>5. Cardinality(Busy(st)) <= Concurrency
    <2>1. Cardinality(Busy(st)) = 0
      BY <1>2, FS_EmptySet
    <2> QED
      BY <2>1, ConcurrencyAssumption
  <1>6. \A e \in Extractors : st[e] = IF e = Dictionary THEN "idle" ELSE stage[e]
    BY <1>1
  <1> HIDE DEF st
  <1>7. PICK N \in SUBSET entries :
          /\ stage' = [e \in Extractors |-> IF e \in N THEN "extracting" ELSE st[e]]
          /\ ToSet(queue') \subseteq entries
    BY <1>2, <1>3, <1>4, <1>5, RunNextStarts
  <1> QED
    BY <1>1, <1>6, <1>7

LEMMA ModuleStarts ==
  ASSUME IInv, NEW e \in Extractors, NEW r \in {"data", "error"}, ModuleSettles(e, r)
  PROVE  \E N \in SUBSET Queued :
           /\ stage' = [x \in Extractors |-> IF x \in N THEN "extracting" ELSE
                          IF x = e THEN "idle" ELSE stage[x]]
           /\ Queued' \subseteq Queued
           /\ e \in Running
  <1> DEFINE st == [stage EXCEPT ![e] = "idle"]
  <1>1. e \in Running /\ stage \in [Extractors -> Stages]
    BY SettlesFiles DEF ModuleSettles, IInv, TypeOK, Stages
  <1>2. st \in [Extractors -> Stages] /\ Busy(st) \subseteq Running
    BY <1>1 DEF Running, Busy, Stages
  <1>3. Cardinality(Running) <= Concurrency /\ queue \in Seq(Modules) /\ IsInjective(queue)
    BY DEF IInv, TypeOK, FullyUsed, EachOnce, ModuleSettles
  <1>4. IsFiniteSet(Running) /\ Cardinality(Running) \in Nat
    BY ExtractorsFinite, FS_Subset, FS_CardinalityType DEF Running
  <1>5. Cardinality(Busy(st)) <= Cardinality(Running) /\ Cardinality(Busy(st)) \in Nat
    BY <1>2, <1>4, FS_Subset, FS_CardinalityType
  <1>6. Cardinality(Busy(st)) <= Concurrency
    BY <1>3, <1>4, <1>5, ConcurrencyAssumption
  <1>7. \A x \in Extractors : st[x] = IF x = e THEN "idle" ELSE stage[x]
    BY <1>1
  <1>8. RunNext(queue, st)
    BY DEF ModuleSettles
  <1> HIDE DEF st
  <1>9. PICK N \in SUBSET ToSet(queue) :
          /\ stage' = [x \in Extractors |-> IF x \in N THEN "extracting" ELSE st[x]]
          /\ ToSet(queue') \subseteq ToSet(queue)
    BY <1>2, <1>3, <1>6, <1>8, RunNextStarts
  <1> QED
    BY <1>1, <1>7, <1>9 DEF Queued

LEMMA SelectedStep == JobInv /\ [Next]_vars => Selected'
  <1> SUFFICES ASSUME JobInv, [Next]_vars, phase' = "module-extraction"
               PROVE  Running' \union Queued' \subseteq entries'
    BY DEF Selected
  <1> USE DEF JobInv
  <1>1. CASE DictionaryDone
    <2>1. PICK N \in SUBSET entries :
            /\ stage' = [e \in Extractors |-> IF e \in N THEN "extracting" ELSE
                           IF e = Dictionary THEN "idle" ELSE stage[e]]
            /\ ToSet(queue') \subseteq entries
            /\ Running = {Dictionary}
      BY <1>1, DictionaryStarts
    <2>2. Running' \subseteq entries
      BY <2>1 DEF Running
    <2> QED
      BY <1>1, <2>1, <2>2 DEF DictionaryDone, Queued
  <1>2. ASSUME NEW e \in Extractors, NEW r \in {"data", "error"}, ModuleSettles(e, r)
        PROVE  Running' \union Queued' \subseteq entries'
    <2>1. PICK N \in SUBSET Queued :
            /\ stage' = [x \in Extractors |-> IF x \in N THEN "extracting" ELSE
                           IF x = e THEN "idle" ELSE stage[x]]
            /\ Queued' \subseteq Queued
            /\ e \in Running
      BY <1>2, ModuleStarts
    <2>2. Running' \subseteq Running \union Queued
      BY <2>1 DEF Running
    <2>3. Running \union Queued \subseteq entries /\ entries' = entries
      BY <1>2 DEF Selected, ModuleSettles
    <2> QED
      BY <2>1, <2>2, <2>3
  <1>3. ASSUME NEW e \in Extractors, Save(e)
        PROVE  Running' \union Queued' \subseteq entries'
    BY <1>3 DEF Save, Running, Queued, Selected, IInv, TypeOK
  <1>4. CASE UNCHANGED vars
    BY <1>4 DEF vars, Running, Queued, Selected
  <1>5. ~((\E S \in SUBSET Modules : Run(S)) \/ Resume \/ ResumeFails \/ SystemInfoDone \/ ModulesDone
          \/ (\E e \in Extractors : EarlyFailure(e))
          \/ (\E outcome \in {"complete", "failed"} : Report(outcome)) \/ Crash \/ Restart)
    BY DEF Run, Resume, Begin, ResumeFails, SystemInfoDone, ModulesDone, EarlyFailure, Report, Crash, Restart
  <1> QED
    BY <1>1, <1>2, <1>3, <1>4, <1>5 DEF Next, Settle

LEMMA PhaseJobs ==
  ASSUME JobInv, WithinLimit', [Next]_vars,
         SystemInfoDone \/ DictionaryDone \/ ModulesDone
  PROVE  AsJobs!Next
  <1> USE DEF JobInv
  <1>0. SystemInfo # Dictionary /\ SystemInfo \in Extractors /\ Dictionary \in Extractors
        /\ \A S \in SUBSET Modules : SystemInfo \notin S /\ Dictionary \notin S
    BY OrderAssumption DEF Extractors
  <1>1. CASE SystemInfoDone
    <2>1. /\ phase = "system-info" /\ phase' = "data-dictionary" /\ entries' = entries
          /\ results' = [results EXCEPT ![SystemInfo] = "data"] /\ stage[SystemInfo] = "saved"
          /\ stage' = [stage EXCEPT ![SystemInfo] = "idle", ![Dictionary] = "extracting"]
      BY <1>1 DEF SystemInfoDone, Settles
    <2>2. /\ Fresh(Dictionary) /\ stage[Dictionary] = "idle"
          /\ DOMAIN stage = Extractors /\ DOMAIN results = Extractors
      BY <1>0, <2>1 DEF IInv, TypeOK, ResultsWhere, RunningWhere, Running
    <2>3. /\ results'[SystemInfo] = "data" /\ stage'[SystemInfo] = "idle"
          /\ \A x \in Extractors \ {SystemInfo} : results'[x] = results[x]
          /\ \A x \in Extractors \ ({Dictionary} \union {SystemInfo}) : stage'[x] = stage[x]
      BY <1>0, <2>1, <2>2
    <2>4. \A x \in {Dictionary} : Fresh(x) /\ stage[x] = "idle" /\ stage'[x] # "idle"
      BY <1>0, <2>1, <2>2
    <2>5. /\ phase \in Opening /\ phase' \in Opening
          /\ {Dictionary} \in SUBSET ((entries \union {SystemInfo, Dictionary}) \ {SystemInfo})
      BY <1>0, <2>1 DEF Opening
    <2> QED
      BY <2>1, <2>3, <2>4, <2>5, SettleJobs
  <1>2. CASE DictionaryDone
    <2>1. PICK N \in SUBSET entries :
            /\ stage' = [e \in Extractors |-> IF e \in N THEN "extracting" ELSE
                           IF e = Dictionary THEN "idle" ELSE stage[e]]
            /\ ToSet(queue') \subseteq entries
            /\ Running = {Dictionary}
      BY <1>2, DictionaryStarts
    <2>2. /\ phase = "data-dictionary" /\ phase' = "module-extraction" /\ entries' = entries
          /\ results' = [results EXCEPT ![Dictionary] = "data"] /\ stage[Dictionary] = "saved"
          /\ entries \in SUBSET Modules /\ DOMAIN results = Extractors
      BY <1>2 DEF DictionaryDone, Settles, IInv, TypeOK
    <2>3. SystemInfo \notin entries /\ Dictionary \notin entries /\ entries \subseteq Extractors
      BY <1>0, <2>2 DEF Extractors
    <2>4. \A x \in N : Fresh(x) /\ stage[x] = "idle" /\ stage'[x] # "idle"
      BY <2>1, <2>2, <2>3 DEF IInv, ResultsWhere, Running
    <2>5. /\ results'[Dictionary] = "data" /\ stage'[Dictionary] = "idle"
          /\ \A x \in Extractors \ {Dictionary} : results'[x] = results[x]
          /\ \A x \in Extractors \ (N \union {Dictionary}) : stage'[x] = stage[x]
      BY <1>0, <2>1, <2>2, <2>3
    <2>6. phase \in Opening /\ N \in SUBSET ((entries \union {SystemInfo, Dictionary}) \ {Dictionary})
      BY <2>1, <2>2, <2>3 DEF Opening
    <2> QED
      BY <2>2, <2>4, <2>5, <2>6, SettleJobs
  <1>3. CASE ModulesDone
    <2>1. /\ phase = "module-extraction" /\ phase' = "reporting" /\ Running = {}
          /\ UNCHANGED <<entries, stage, results>>
      BY <1>3 DEF ModulesDone, AllSettled
    <2>2. queue = <<>>
      <3>1. queue # <<>> => Cardinality(Running) = Concurrency
        BY <2>1 DEF IInv, FullyUsed
      <3> QED
        BY <2>1, <3>1, FS_EmptySet, ConcurrencyAssumption
    <2>3. Queued = {}
      BY <2>2 DEF Queued, ToSet
    <2>4. \A e \in entries \union {SystemInfo, Dictionary} : Settled(e)
      BY <2>1, <2>3 DEF IInv, NobodyForgotten
    <2>5. \A e \in Extractors : JobStates[e] \in {"out", "settled"}
      BY <2>1, <2>4 DEF JobStates, JobState, Settled, Running
    <2>6. JobPhase = "running" /\ JobPhase' = "over"
      BY <2>1 DEF JobPhase
    <2>7. JobStates' = JobStates
      BY <2>1, <2>6 DEF JobStates, JobState
    <2> QED
      BY <2>5, <2>6, <2>7 DEF AsJobs!Over, AsJobs!Next
  <1> QED
    BY <1>1, <1>2, <1>3

LEMMA ModuleJobs ==
  ASSUME JobInv, WithinLimit', NEW e \in Extractors, NEW r \in {"data", "error"}, ModuleSettles(e, r)
  PROVE  AsJobs!Next
  <1> USE DEF JobInv
  <1>1. PICK N \in SUBSET Queued :
          /\ stage' = [x \in Extractors |-> IF x \in N THEN "extracting" ELSE
                         IF x = e THEN "idle" ELSE stage[x]]
          /\ Queued' \subseteq Queued
          /\ e \in Running
    BY ModuleStarts
  <1>2. /\ phase = "module-extraction" /\ phase' = phase /\ entries' = entries
        /\ results' = [results EXCEPT ![e] = r] /\ DOMAIN results = Extractors
    BY DEF ModuleSettles, IInv, TypeOK
  <1>3. Queued \subseteq entries /\ Running \subseteq entries /\ Running \cap Queued = {}
    BY <1>2 DEF Selected, IInv, EachOnce, Queued
  <1>4. entries \subseteq Extractors /\ e \notin N /\ stage[e] # "idle"
    BY <1>1, <1>3 DEF IInv, TypeOK, Extractors, Running
  <1>5. \A x \in N : Fresh(x) /\ stage[x] = "idle" /\ stage'[x] # "idle"
    BY <1>1, <1>3, <1>4 DEF IInv, ResultsWhere, Running
  <1>6. /\ results'[e] = r /\ stage'[e] = "idle"
        /\ \A x \in Extractors \ {e} : results'[x] = results[x]
        /\ \A x \in Extractors \ (N \union {e}) : stage'[x] = stage[x]
    BY <1>1, <1>2, <1>4
  <1> QED
    BY <1>1, <1>2, <1>3, <1>4, <1>5, <1>6, SettleJobs

(* A run that fails or crashes is given up as a whole.                     *)
LEMMA AbortJobs ==
  ASSUME phase' \in {"failed", "down"}
  PROVE  AsJobs!Next
  <1>1. JobPhase' = "aborted"
    BY DEF JobPhase
  <1>2. JobStates' = AsJobs!AllOut
    BY <1>1 DEF JobStates, JobState, AsJobs!AllOut
  <1> QED
    BY <1>1, <1>2 DEF AsJobs!Abort, AsJobs!Next

LEMMA NextJobs == JobInv /\ WithinLimit' /\ [Next]_vars => [AsJobs!Next]_AsJobs!jobVars
  <1> SUFFICES ASSUME JobInv, WithinLimit', [Next]_vars PROVE [AsJobs!Next]_AsJobs!jobVars
    OBVIOUS
  <1> USE DEF JobInv
  <1>1. ASSUME NEW S \in SUBSET Modules, Run(S)
        PROVE  AsJobs!Next
    <2>1. results' \in [Extractors -> {"none", "cached"}]
      BY <1>1 DEF IInv, TypeOK, ResultsWhere, Fresh, Run
    <2> QED
      BY <1>1, <2>1, BeginJobs DEF Run
  <1>2. CASE Resume
    <2>1. results' \in [Extractors -> {"none", "cached"}]
      BY <1>2 DEF IInv, TypeOK, ResultsWhere, Fresh, Resume
    <2> QED
      BY <1>2, <2>1, BeginJobs DEF Resume
  <1>3. CASE ResumeFails \/ Crash \/ (\E e \in Extractors : EarlyFailure(e)) \/ Report("failed")
    BY <1>3, AbortJobs DEF ResumeFails, Crash, EarlyFailure, Report
  <1>4. CASE SystemInfoDone \/ DictionaryDone \/ ModulesDone
    BY <1>4, PhaseJobs
  <1>5. ASSUME NEW e \in Extractors, NEW r \in {"data", "error"}, ModuleSettles(e, r)
        PROVE  AsJobs!Next
    BY <1>5, ModuleJobs
  <1>6. ASSUME NEW e \in Extractors, Save(e)
        PROVE  UNCHANGED AsJobs!jobVars
    <2>1. JobPhase' = JobPhase
      BY <1>6 DEF Save, JobPhase
    <2>2. \A x \in Extractors : stage'[x] = "idle" <=> stage[x] = "idle"
      BY <1>6 DEF Save, IInv, TypeOK
    <2>3. JobStates' = JobStates
      BY <1>6, <2>1, <2>2 DEF Save, JobStates, JobState
    <2> QED
      BY <2>1, <2>3 DEF AsJobs!jobVars
  <1>7. CASE Report("complete")
    <2>1. JobPhase = "over" /\ JobPhase' = "over"
      BY <1>7 DEF Report, JobPhase
    <2>2. JobStates' = JobStates
      BY <1>7, <2>1 DEF Report, JobStates, JobState
    <2> QED
      BY <2>1, <2>2 DEF AsJobs!jobVars
  <1>8. CASE Restart
    <2>1. JobPhase = "aborted" /\ JobPhase' = "new"
      BY <1>8 DEF Restart, JobPhase
    <2>2. JobStates' = JobStates
      BY <2>1 DEF JobStates, JobState
    <2> QED
      BY <2>1, <2>2 DEF AsJobs!Restart, AsJobs!Next
  <1>9. CASE UNCHANGED vars
    BY <1>9 DEF vars, AsJobs!jobVars, JobPhase, JobStates, JobState
  <1> QED
    BY <1>1, <1>2, <1>3, <1>4, <1>5, <1>6, <1>7, <1>8, <1>9 DEF Next, Settle

(* run() and resume() implement JobRun: each selected extractor is started *)
(* once, never more than options.concurrency together, and the analysis    *)
(* begins when all have settled.                                           *)
THEOREM Implementation == Spec => JobSpec
  <1>1. Init => Selected
    BY DEF Init, Selected
  <1>2. Spec => []JobInv
    BY <1>1, InitInv, StepInv, SelectedStep, PTL DEF Spec, JobInv
  <1>3. JobInv => WithinLimit
    BY Within DEF JobInv
  <1> QED
    BY <1>2, <1>3, InitJobs, NextJobs, PTL DEF Spec, JobSpec, AsJobs!Spec
=============================================================================
