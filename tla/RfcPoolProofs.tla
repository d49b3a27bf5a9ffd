-------------------------- MODULE RfcPoolProofs --------------------------
(***************************************************************************)
(* For every set of requests and every pool size: the inductive invariant  *)
(* of RfcPool, its safety properties, and that it implements LeasePool.    *)
(***************************************************************************)
EXTENDS RfcPool, TLAPS

Fresh(k) == conn[k] = "none"

(* A request owns a client exactly while it opens or uses one.             *)
OwnerInv ==
  \A r \in Requests :
    /\ held[r] # None <=> pc[r] \in {"opening", "holding", "releasing"}
    /\ serving[r] # None <=> pc[r] = "releasing"
    /\ pc[r] = "opening" => held[r] = <<r, "acquire">>
    /\ pc[r] = "releasing" => held[r] = <<r, "release">>

(* A client object that its creator has not opened yet is nowhere else.    *)
FreshInv ==
  /\ \A r \in Requests :
       /\ pc[r] \in {"idle", "discarding", "waiting", "opening"}
            => Fresh(<<r, "acquire">>)
       /\ pc[r] # "done" => Fresh(<<r, "release">>)
       /\ pc[r] = "holding" => ~Fresh(held[r])
  /\ \A i \in DOMAIN available : ~Fresh(available[i])
  /\ \A k \in busy : ~Fresh(k)

(* No client is twice in the stack.                                        *)
StackInv ==
  \A i, j \in DOMAIN available : available[i] = available[j] => i = j

IInv ==
  /\ TypeOK
  /\ OwnerInv
  /\ FreshInv
  /\ StackInv
  /\ LeaseExclusive
  /\ NobodyWaitsBesideIdle
  /\ WaiterAccounted

-----------------------------------------------------------------------------
(* Popping the stack leaves its other entries where they were.             *)
LEMMA FrontFacts ==
  ASSUME NEW S, NEW s \in Seq(S), s # <<>>
  PROVE  /\ Len(s) \in Nat /\ Len(s) > 0
         /\ Last(s) \in S /\ Last(s) = s[Len(s)]
         /\ Front(s) \in Seq(S)
         /\ Len(Front(s)) = Len(s) - 1
         /\ \A i \in DOMAIN Front(s) : i \in DOMAIN s /\ i # Len(s) /\ Front(s)[i] = s[i]
  <1>1. Len(s) \in Nat /\ Len(s) > 0 /\ DOMAIN s = 1..Len(s)
    OBVIOUS
  <1>2. Last(s) \in S /\ Last(s) = s[Len(s)]
    BY <1>1 DEF Last
  <1>3. /\ Front(s) \in Seq(S)
        /\ Len(Front(s)) = Len(s) - 1
    BY <1>1 DEF Front
  <1>4. \A i \in 1..(Len(s) - 1) : Front(s)[i] = s[i]
    BY <1>1 DEF Front
  <1>5. DOMAIN Front(s) = 1..(Len(s) - 1)
    BY <1>3
  <1>6. QED
    BY <1>1, <1>2, <1>3, <1>4, <1>5

LEMMA AppendFacts ==
  ASSUME NEW S, NEW s \in Seq(S), NEW e \in S
  PROVE  /\ Append(s, e) \in Seq(S)
         /\ Append(s, e) # <<>>
         /\ DOMAIN Append(s, e) = DOMAIN s \union {Len(s) + 1}
         /\ Append(s, e)[Len(s) + 1] = e
         /\ \A i \in DOMAIN s : Append(s, e)[i] = s[i]
  OBVIOUS

LEMMA TailFacts ==
  ASSUME NEW S, NEW s \in Seq(S), s # <<>>
  PROVE  /\ Head(s) \in S
         /\ Tail(s) \in Seq(S)
         /\ ToSet(s) = {Head(s)} \union ToSet(Tail(s))
  <1>1. Head(s) \in S /\ Tail(s) \in Seq(S) /\ Len(Tail(s)) = Len(s) - 1
    OBVIOUS
  <1>2. Len(s) \in Nat /\ Len(s) > 0
    OBVIOUS
  <1>3. \A i \in 1..(Len(s) - 1) : Tail(s)[i] = s[i + 1]
    OBVIOUS
  <1>4. ASSUME NEW x \in ToSet(s) PROVE x \in {Head(s)} \union ToSet(Tail(s))
    <2>1. PICK i \in 1..Len(s) : s[i] = x
      BY <1>4 DEF ToSet
    <2>2. CASE i = 1
      BY <2>1, <2>2
    <2>3. CASE i # 1
      <3>1. i - 1 \in 1..(Len(s) - 1) /\ (i - 1) + 1 = i
        BY <1>2, <2>3
      <3>2. Tail(s)[i - 1] = x
        BY <1>3, <2>1, <3>1
      <3>3. DOMAIN Tail(s) = 1..(Len(s) - 1)
        BY <1>1
      <3>4. QED
        BY <3>1, <3>2, <3>3 DEF ToSet
    <2>4. QED
      BY <2>2, <2>3
  <1>5. ASSUME NEW x \in {Head(s)} \union ToSet(Tail(s)) PROVE x \in ToSet(s)
    <2>1. CASE x = Head(s)
      BY <1>2, <2>1 DEF ToSet
    <2>2. CASE x \in ToSet(Tail(s))
      <3>1. PICK i \in 1..(Len(s) - 1) : Tail(s)[i] = x
        BY <1>1, <2>2 DEF ToSet
      <3>2. s[i + 1] = x /\ i + 1 \in 1..Len(s)
        BY <1>2, <1>3, <3>1
      <3>3. QED
        BY <3>2 DEF ToSet
    <2>3. QED
      BY <1>5, <2>1, <2>2
  <1>6. QED
    BY <1>1, <1>4, <1>5

-----------------------------------------------------------------------------
LEMMA InitIInv == Init => IInv
  <1> SUFFICES ASSUME Init PROVE IInv
    OBVIOUS
  <1> USE DEF Init
  <1>1. TypeOK
    <2>1. available \in Seq(Clients) /\ waitQueue \in Seq(Requests)
      OBVIOUS
    <2>2. /\ pc \in [Requests -> PC]
          /\ conn \in [Clients -> {"none", "up", "down"}]
      BY DEF PC
    <2>3. /\ held \in [Requests -> Clients \union {None}]
          /\ serving \in [Requests -> Requests \union {None}]
          /\ busy \in SUBSET Clients /\ drained \in BOOLEAN
      OBVIOUS
    <2>4. QED
      BY <2>1, <2>2, <2>3 DEF TypeOK
  <1>2. OwnerInv
    BY DEF OwnerInv
  <1>3. FreshInv
    BY DEF FreshInv, Fresh, Clients
  <1>4. StackInv
    BY DEF StackInv
  <1>5. LeaseExclusive
    BY DEF LeaseExclusive, ToSet
  <1>6. NobodyWaitsBesideIdle /\ WaiterAccounted
    BY DEF NobodyWaitsBesideIdle, WaiterAccounted
  <1>7. QED
    BY <1>1, <1>2, <1>3, <1>4, <1>5, <1>6 DEF IInv

(* A request that may still run the loop of acquire().                     *)
Acquiring(r) == pc[r] \in {"idle", "discarding"}

LEMMA TakeIdleStep ==
  ASSUME IInv, NEW r \in Requests, Acquiring(r), TakeIdle(r), UNCHANGED drained
  PROVE  IInv'
  <1>a. available \in Seq(Clients) /\ available # <<>>
    BY DEF IInv, TypeOK, TakeIdle
  <1> DEFINE k == Last(available)
  <1>b. /\ k \in Clients /\ k # None /\ k = available[Len(available)]
        /\ Len(available) \in DOMAIN available
        /\ available' = Front(available) /\ available' \in Seq(Clients)
        /\ \A i \in DOMAIN available' : /\ i \in DOMAIN available /\ i # Len(available)
                                        /\ available'[i] = available[i]
    BY <1>a, FrontFacts, NoneAssumption DEF TakeIdle, PopIdle
  <1>c. /\ \A q \in Requests : held[q] # k
        /\ \A i \in DOMAIN available' : available'[i] # k
        /\ ~Fresh(k)
    BY <1>a, <1>b DEF IInv, LeaseExclusive, StackInv, FreshInv, ToSet
  <1>d. /\ held' = [held EXCEPT ![r] = k]
        /\ pc' = [pc EXCEPT ![r] = "holding"]
        /\ busy' = busy \union {k}
        /\ UNCHANGED <<serving, conn, waitQueue>>
    BY DEF TakeIdle
  <1>1. TypeOK'
    BY <1>b, <1>d DEF IInv, TypeOK, PC, TakeIdle
  <1>2. OwnerInv'
    BY <1>b, <1>d DEF IInv, TypeOK, OwnerInv, Acquiring
  <1>3. FreshInv'
    BY <1>b, <1>c, <1>d DEF IInv, TypeOK, FreshInv, Fresh, Acquiring
  <1>4. StackInv'
    BY <1>b DEF IInv, StackInv
  <1>5. LeaseExclusive'
    BY <1>b, <1>c, <1>d DEF IInv, TypeOK, LeaseExclusive, ToSet
  <1>6. NobodyWaitsBesideIdle'
    BY <1>a, <1>d DEF IInv, NobodyWaitsBesideIdle
  <1>7. WaiterAccounted'
    BY <1>d DEF IInv, TypeOK, WaiterAccounted
  <1>8. QED
    BY <1>1, <1>2, <1>3, <1>4, <1>5, <1>6, <1>7 DEF IInv

LEMMA DiscardIdleStep ==
  ASSUME IInv, NEW r \in Requests, Acquiring(r), DiscardIdle(r), UNCHANGED drained
  PROVE  IInv'
  <1>a. available \in Seq(Clients) /\ available # <<>>
    BY DEF IInv, TypeOK, DiscardIdle
  <1>b. /\ available' \in Seq(Clients)
        /\ \A i \in DOMAIN available' : /\ i \in DOMAIN available
                                        /\ available'[i] = available[i]
    BY <1>a, FrontFacts DEF DiscardIdle, PopIdle
  <1>c. /\ pc' = [pc EXCEPT ![r] = "discarding"]
        /\ UNCHANGED <<held, serving, conn, busy, waitQueue>>
    BY DEF DiscardIdle
  <1>1. TypeOK'
    BY <1>b, <1>c DEF IInv, TypeOK, PC
  <1>2. OwnerInv'
    BY <1>c DEF IInv, TypeOK, OwnerInv, Acquiring
  <1>3. FreshInv'
    BY <1>b, <1>c DEF IInv, TypeOK, FreshInv, Fresh, Acquiring
  <1>4. StackInv'
    BY <1>b DEF IInv, StackInv
  <1>5. LeaseExclusive'
    BY <1>b, <1>c DEF IInv, LeaseExclusive, ToSet
  <1>6. NobodyWaitsBesideIdle' /\ WaiterAccounted'
    BY <1>a, <1>c DEF IInv, TypeOK, NobodyWaitsBesideIdle, WaiterAccounted
  <1>7. QED
    BY <1>1, <1>2, <1>3, <1>4, <1>5, <1>6 DEF IInv

LEMMA StartOpenStep ==
  ASSUME IInv, NEW r \in Requests, Acquiring(r), StartOpen(r), UNCHANGED drained
  PROVE  IInv'
  <1> DEFINE k == <<r, "acquire">>
  <1>a. /\ held' = [held EXCEPT ![r] = k]
        /\ pc' = [pc EXCEPT ![r] = "opening"]
        /\ UNCHANGED <<serving, conn, available, busy, waitQueue>>
    BY DEF StartOpen
  <1>b. k \in Clients /\ k # None
    BY NoneAssumption DEF Clients
  (* The new client object is with nobody: it is fresh.                    *)
  <1>c. /\ \A q \in Requests : q # r => held[q] # k
        /\ k \notin ToSet(available)
    <2>1. Fresh(k)
      BY DEF IInv, FreshInv, Acquiring
    <2>2. ASSUME NEW q \in Requests, q # r PROVE held[q] # k
      <3>1. CASE pc[q] = "holding"
        BY <2>1, <3>1 DEF IInv, FreshInv
      <3>2. CASE pc[q] = "opening" \/ pc[q] = "releasing"
        BY <2>2, <3>2 DEF IInv, OwnerInv
      <3>3. CASE pc[q] \notin {"opening", "holding", "releasing"}
        BY <1>b, <3>3 DEF IInv, OwnerInv
      <3>4. QED
        BY <3>1, <3>2, <3>3
    <2>3. k \notin ToSet(available)
      BY <2>1 DEF IInv, FreshInv, ToSet
    <2>4. QED
      BY <2>2, <2>3
  <1>1. TypeOK'
    BY <1>a, <1>b DEF IInv, TypeOK, PC
  <1>2. OwnerInv'
    BY <1>a, <1>b DEF IInv, TypeOK, OwnerInv, Acquiring
  <1>3. FreshInv'
    BY <1>a DEF IInv, TypeOK, FreshInv, Fresh, Acquiring
  <1>4. StackInv'
    BY <1>a DEF IInv, StackInv
  <1>5. LeaseExclusive'
    BY <1>a, <1>c DEF IInv, TypeOK, LeaseExclusive
  <1>6. NobodyWaitsBesideIdle' /\ WaiterAccounted'
    BY <1>a DEF IInv, TypeOK, NobodyWaitsBesideIdle, WaiterAccounted
  <1>7. QED
    BY <1>1, <1>2, <1>3, <1>4, <1>5, <1>6 DEF IInv

LEMMA StartWaitStep ==
  ASSUME IInv, NEW r \in Requests, Acquiring(r), StartWait(r), UNCHANGED drained
  PROVE  IInv'
  <1>a. /\ waitQueue' = Append(waitQueue, r)
        /\ pc' = [pc EXCEPT ![r] = "waiting"]
        /\ available = <<>>
        /\ UNCHANGED <<held, serving, conn, available, busy>>
    BY DEF StartWait, NoIdleLeft
  <1>b. waitQueue \in Seq(Requests)
    BY DEF IInv, TypeOK
  <1>c. waitQueue' \in Seq(Requests) /\ ToSet(waitQueue') = ToSet(waitQueue) \union {r}
    <2>1. /\ waitQueue' \in Seq(Requests)
          /\ DOMAIN waitQueue' = DOMAIN waitQueue \union {Len(waitQueue) + 1}
          /\ waitQueue'[Len(waitQueue) + 1] = r
          /\ \A i \in DOMAIN waitQueue : waitQueue'[i] = waitQueue[i]
      BY <1>a, <1>b, AppendFacts
    <2>2. QED
      BY <2>1 DEF ToSet
  <1>1. TypeOK'
    BY <1>a, <1>c DEF IInv, TypeOK, PC
  <1>2. OwnerInv'
    BY <1>a DEF IInv, TypeOK, OwnerInv, Acquiring
  <1>3. FreshInv'
    BY <1>a DEF IInv, TypeOK, FreshInv, Fresh, Acquiring
  <1>4. StackInv'
    BY <1>a DEF IInv, StackInv
  <1>5. LeaseExclusive'
    BY <1>a DEF IInv, LeaseExclusive
  <1>6. NobodyWaitsBesideIdle'
    BY <1>a DEF NobodyWaitsBesideIdle
  <1>7. WaiterAccounted'
    BY <1>a, <1>c DEF IInv, TypeOK, WaiterAccounted
  <1>8. QED
    BY <1>1, <1>2, <1>3, <1>4, <1>5, <1>6, <1>7 DEF IInv

LEMMA AcquireLoopStep ==
  ASSUME IInv, NEW r \in Requests, Acquiring(r), AcquireLoop(r), UNCHANGED drained
  PROVE  IInv'
  BY TakeIdleStep, DiscardIdleStep, StartOpenStep, StartWaitStep DEF AcquireLoop

(* AcquireDrained, AcquireTimeout, OpenFailed: the request gives up.       *)
LEMMA GiveUpStep ==
  ASSUME IInv, NEW r \in Requests,
         AcquireDrained(r) \/ AcquireTimeout(r) \/ OpenFailed(r)
  PROVE  IInv'
  <1>a. /\ pc[r] \in {"idle", "waiting", "opening"}
        /\ pc' = [pc EXCEPT ![r] = "failed"]
        /\ held' = held \/ held' = [held EXCEPT ![r] = None]
        /\ pc[r] = "opening" => held' = [held EXCEPT ![r] = None]
        /\ conn' = conn \/ (pc[r] = "opening" /\ conn' = [conn EXCEPT ![<<r, "acquire">>] = "down"])
        /\ UNCHANGED <<serving, available, busy, waitQueue, drained>>
    BY DEF AcquireDrained, AcquireTimeout, OpenFailed, IInv, OwnerInv
  <1>b. \A q \in Requests : <<q, "acquire">> \in Clients /\ <<q, "release">> \in Clients
    BY DEF Clients
  <1>1. TypeOK'
    BY <1>a, <1>b DEF IInv, TypeOK, PC
  <1>2. OwnerInv'
    BY <1>a DEF IInv, TypeOK, OwnerInv
  <1>3. FreshInv'
    <2>1. \A k \in Clients : ~Fresh(k) => ~Fresh(k)'
      BY <1>a, <1>b DEF IInv, TypeOK, Fresh
    <2>2. \A q \in Requests : q # r => conn'[<<q, "acquire">>] = conn[<<q, "acquire">>]
      BY <1>a, <1>b DEF IInv, TypeOK
    <2>3. \A q \in Requests : conn'[<<q, "release">>] = conn[<<q, "release">>]
      BY <1>a, <1>b DEF IInv, TypeOK
    <2>4. \A q \in Requests : pc'[q] = "holding" => held[q] \in Clients /\ held'[q] = held[q]
      BY <1>a DEF IInv, TypeOK, OwnerInv
    <2>5. \A i \in DOMAIN available : available[i] \in Clients
      BY DEF IInv, TypeOK
    <2>6. QED
      BY <1>a, <2>1, <2>2, <2>3, <2>4, <2>5 DEF IInv, TypeOK, FreshInv, Fresh
  <1>4. StackInv'
    BY <1>a DEF IInv, StackInv
  <1>5. LeaseExclusive'
    <2>1. available' = available /\ None \notin ToSet(available)
      BY <1>a, NoneAssumption DEF IInv, TypeOK, ToSet
    <2>2. QED
      BY <1>a, <2>1 DEF IInv, TypeOK, LeaseExclusive
  <1>6. NobodyWaitsBesideIdle' /\ WaiterAccounted'
    BY <1>a DEF IInv, TypeOK, NobodyWaitsBesideIdle, WaiterAccounted
  <1>7. QED
    BY <1>1, <1>2, <1>3, <1>4, <1>5, <1>6 DEF IInv

(* What is known of the client of a request about to release it.           *)
LEMMA HoldingFacts ==
  ASSUME IInv, NEW r \in Requests, pc[r] = "holding"
  PROVE  /\ held[r] \in Clients /\ held[r] # None /\ ~Fresh(held[r])
         /\ held[r] \notin ToSet(available)
         /\ \A q \in Requests : q # r => held[q] # held[r]
         /\ serving[r] = None
  BY DEF IInv, TypeOK, OwnerInv, FreshInv, LeaseExclusive

LEMMA OpenDoneStep ==
  ASSUME IInv, NEW r \in Requests, OpenDone(r)
  PROVE  IInv'
  <1>a. /\ pc[r] = "opening" /\ held[r] = <<r, "acquire">>
        /\ conn' = [conn EXCEPT ![<<r, "acquire">>] = "up"]
        /\ busy' = busy \union {<<r, "acquire">>}
        /\ pc' = [pc EXCEPT ![r] = "holding"]
        /\ UNCHANGED <<held, serving, available, waitQueue, drained>>
    BY DEF OpenDone, IInv, OwnerInv
  <1>b. \A q \in Requests : <<q, "acquire">> \in Clients /\ <<q, "release">> \in Clients
    BY DEF Clients
  <1>1. TypeOK'
    BY <1>a, <1>b DEF IInv, TypeOK, PC
  <1>2. OwnerInv'
    BY <1>a DEF IInv, TypeOK, OwnerInv
  <1>3. FreshInv'
    <2>1. /\ conn'[<<r, "acquire">>] = "up"
          /\ \A k \in Clients : k # <<r, "acquire">> => conn'[k] = conn[k]
      BY <1>a, <1>b DEF IInv, TypeOK
    <2>2. /\ \A i \in DOMAIN available' : ~Fresh(available[i])'
          /\ \A k \in busy' : ~Fresh(k)'
      <3>1. \A i \in DOMAIN available : available[i] \in Clients
        BY DEF IInv, TypeOK
      <3>2. QED
        BY <1>a, <2>1, <3>1 DEF IInv, TypeOK, FreshInv, Fresh
    <2>3. ASSUME NEW q \in Requests, pc'[q] = "holding" PROVE ~Fresh(held[q])'
      <3>1. CASE q = r
        BY <1>a, <2>1, <3>1 DEF Fresh
      <3>2. CASE q # r
        <4>1. pc[q] = "holding" /\ held[q] \in Clients /\ ~Fresh(held[q])
          BY <1>a, <2>3, <3>2, HoldingFacts DEF IInv, TypeOK
        <4>2. QED
          BY <1>a, <2>1, <4>1 DEF Fresh
      <3>3. QED
        BY <3>1, <3>2
    <2>4. ASSUME NEW q \in Requests
          PROVE /\ pc'[q] \in {"idle", "discarding", "waiting", "opening"}
                     => Fresh(<<q, "acquire">>)'
                /\ pc'[q] # "done" => Fresh(<<q, "release">>)'
      <3>1. /\ pc'[q] \in {"idle", "discarding", "waiting", "opening"}
                 => pc'[q] = pc[q] /\ q # r
            /\ pc'[q] # "done" => pc[q] # "done"
        BY <1>a DEF IInv, TypeOK
      <3>2. QED
        BY <1>b, <2>1, <3>1 DEF IInv, FreshInv, Fresh
    <2>5. QED
      BY <2>2, <2>3, <2>4 DEF FreshInv
  <1>4. StackInv' /\ LeaseExclusive'
    BY <1>a DEF IInv, StackInv, LeaseExclusive
  <1>5. NobodyWaitsBesideIdle' /\ WaiterAccounted'
    BY <1>a DEF IInv, TypeOK, NobodyWaitsBesideIdle, WaiterAccounted
  <1>6. QED
    BY <1>1, <1>2, <1>3, <1>4, <1>5 DEF IInv

-----------------------------------------------------------------------------
(* The releases that close the client: ReleaseDrained and ReleaseDead.     *)
LEMMA ReleaseCloseStep ==
  ASSUME IInv, NEW r \in Requests, ReleaseDrained(r) \/ ReleaseDead(r)
  PROVE  IInv'
  <1>a. /\ pc[r] = "holding"
        /\ conn' = [conn EXCEPT ![held[r]] = "down"]
        /\ busy' = busy \ {held[r]}
        /\ pc' = [pc EXCEPT ![r] = "done"]
        /\ held' = [held EXCEPT ![r] = None]
        /\ UNCHANGED <<serving, available, waitQueue, drained>>
    BY DEF ReleaseDrained, ReleaseDead, Return, Close
  <1>b. held[r] \in Clients /\ ~Fresh(held[r])
    BY <1>a, HoldingFacts
  <1>c. \A k \in Clients : Fresh(k)' <=> Fresh(k)
    BY <1>a, <1>b DEF IInv, TypeOK, Fresh
  <1>1. TypeOK'
    BY <1>a, <1>b DEF IInv, TypeOK, PC
  <1>2. OwnerInv'
    BY <1>a, HoldingFacts DEF IInv, TypeOK, OwnerInv
  <1>3. FreshInv'
    <2>1. \A q \in Requests : <<q, "acquire">> \in Clients /\ <<q, "release">> \in Clients
      BY DEF Clients
    <2>2. \A i \in DOMAIN available : available[i] \in Clients
      BY DEF IInv, TypeOK
    <2>3. \A q \in Requests : pc'[q] = "holding" =>
            pc[q] = "holding" /\ held[q] \in Clients /\ held'[q] = held[q]
      BY <1>a, HoldingFacts DEF IInv, TypeOK
    <2>4. QED
      BY <1>a, <1>c, <2>1, <2>2, <2>3 DEF IInv, TypeOK, FreshInv
  <1>4. StackInv'
    BY <1>a DEF IInv, StackInv
  <1>5. LeaseExclusive'
    <2>1. None \notin ToSet(available)
      BY NoneAssumption DEF IInv, TypeOK, ToSet
    <2>2. QED
      BY <1>a, <2>1 DEF IInv, TypeOK, LeaseExclusive
  <1>6. NobodyWaitsBesideIdle' /\ WaiterAccounted'
    BY <1>a DEF IInv, TypeOK, NobodyWaitsBesideIdle, WaiterAccounted
  <1>7. QED
    BY <1>1, <1>2, <1>3, <1>4, <1>5, <1>6 DEF IInv

LEMMA ReleaseIdleStep ==
  ASSUME IInv, NEW r \in Requests, ReleaseIdle(r)
  PROVE  IInv'
  <1> DEFINE k == held[r]
  <1>a. /\ pc[r] = "holding" /\ waitQueue = <<>>
        /\ available' = Append(available, k)
        /\ busy' = busy \ {k}
        /\ pc' = [pc EXCEPT ![r] = "done"]
        /\ held' = [held EXCEPT ![r] = None]
        /\ UNCHANGED <<serving, conn, waitQueue, drained>>
    BY DEF ReleaseIdle, Return
  <1>b. /\ k \in Clients /\ k # None /\ ~Fresh(k) /\ k \notin ToSet(available)
        /\ \A q \in Requests : q # r => held[q] # k
    BY <1>a, HoldingFacts
  <1>c. available \in Seq(Clients)
    BY DEF IInv, TypeOK
  <1>d. /\ available' \in Seq(Clients)
        /\ DOMAIN available' = DOMAIN available \union {Len(available) + 1}
        /\ available'[Len(available) + 1] = k
        /\ \A i \in DOMAIN available : available'[i] = available[i]
    BY <1>a, <1>b, <1>c, AppendFacts
  <1>1. TypeOK'
    BY <1>a, <1>b, <1>d DEF IInv, TypeOK, PC
  <1>2. OwnerInv'
    BY <1>a, HoldingFacts DEF IInv, TypeOK, OwnerInv
  <1>3. FreshInv'
    BY <1>a, <1>b, <1>d DEF IInv, TypeOK, FreshInv, Fresh
  <1>4. StackInv'
    BY <1>b, <1>d DEF IInv, StackInv, ToSet
  <1>5. LeaseExclusive'
    <2>1. ToSet(available') = ToSet(available) \union {k}
      BY <1>d DEF ToSet
    <2>2. None \notin ToSet(available)
      BY NoneAssumption DEF IInv, TypeOK, ToSet
    <2>3. QED
      BY <1>a, <1>b, <2>1, <2>2 DEF IInv, TypeOK, LeaseExclusive
  <1>6. NobodyWaitsBesideIdle' /\ WaiterAccounted'
    BY <1>a DEF IInv, TypeOK, NobodyWaitsBesideIdle, WaiterAccounted
  <1>7. QED
    BY <1>1, <1>2, <1>3, <1>4, <1>5, <1>6 DEF IInv

(* The head of the queue, once there is one.                               *)
LEMMA HeadFacts ==
  ASSUME IInv, waitQueue # <<>>
  PROVE  /\ Head(waitQueue) \in Requests
         /\ Tail(waitQueue) \in Seq(Requests)
         /\ ToSet(waitQueue) = {Head(waitQueue)} \union ToSet(Tail(waitQueue))
  BY TailFacts DEF IInv, TypeOK

LEMMA ReleaseToWaiterStep ==
  ASSUME IInv, NEW r \in Requests, ReleaseToWaiter(r)
  PROVE  IInv'
  <1> DEFINE k == held[r]
             w == Head(waitQueue)
  <1>a. /\ pc[r] = "holding" /\ waitQueue # <<>>
        /\ waitQueue' = Tail(waitQueue)
        /\ busy' = (busy \ {k}) \union {k}
        /\ UNCHANGED <<serving, conn, available, drained>>
        /\ Deliver(r, w, k)
    BY DEF ReleaseToWaiter
  <1>b. /\ k \in Clients /\ k # None /\ ~Fresh(k) /\ k \notin ToSet(available)
        /\ \A q \in Requests : q # r => held[q] # k
        /\ serving[r] = None
    BY <1>a, HoldingFacts
  <1>c. /\ w \in Requests /\ Tail(waitQueue) \in Seq(Requests)
        /\ ToSet(waitQueue) = {w} \union ToSet(waitQueue')
        /\ available = <<>>
    BY <1>a, HeadFacts DEF IInv, NobodyWaitsBesideIdle
  <1>d. /\ pc[w] = "waiting" =>
             /\ w # r
             /\ pc' = [pc EXCEPT ![r] = "done", ![w] = "holding"]
             /\ held' = [held EXCEPT ![r] = None, ![w] = k]
        /\ pc[w] # "waiting" =>
             /\ pc' = [pc EXCEPT ![r] = "done"]
             /\ held' = [held EXCEPT ![r] = None]
    BY <1>a DEF Deliver
  <1>1. TypeOK'
    BY <1>a, <1>b, <1>c, <1>d DEF IInv, TypeOK, PC
  <1>2. OwnerInv'
    BY <1>a, <1>b, <1>c, <1>d DEF IInv, TypeOK, OwnerInv
  <1>3. FreshInv'
    BY <1>a, <1>b, <1>c, <1>d DEF IInv, TypeOK, FreshInv, Fresh
  <1>4. StackInv'
    BY <1>a DEF IInv, StackInv
  <1>5. LeaseExclusive'
    BY <1>a, <1>b, <1>c, <1>d DEF IInv, TypeOK, LeaseExclusive, ToSet
  <1>6. NobodyWaitsBesideIdle'
    BY <1>a, <1>c DEF NobodyWaitsBesideIdle
  <1>7. WaiterAccounted'
    BY <1>a, <1>c, <1>d DEF IInv, TypeOK, WaiterAccounted
  <1>8. QED
    BY <1>1, <1>2, <1>3, <1>4, <1>5, <1>6, <1>7 DEF IInv

LEMMA ReleaseReopenStep ==
  ASSUME IInv, NEW r \in Requests, ReleaseReopen(r)
  PROVE  IInv'
  <1> DEFINE k == <<r, "release">>
             w == Head(waitQueue)
  <1>a. /\ pc[r] = "holding" /\ waitQueue # <<>>
        /\ waitQueue' = Tail(waitQueue)
        /\ busy' = busy \ {held[r]}
        /\ serving' = [serving EXCEPT ![r] = w]
        /\ held' = [held EXCEPT ![r] = k]
        /\ pc' = [pc EXCEPT ![r] = "releasing"]
        /\ UNCHANGED <<conn, available, drained>>
    BY DEF ReleaseReopen
  <1>b. /\ w \in Requests /\ Tail(waitQueue) \in Seq(Requests)
        /\ ToSet(waitQueue) = {w} \union ToSet(waitQueue')
        /\ available = <<>>
    BY <1>a, HeadFacts DEF IInv, NobodyWaitsBesideIdle
  <1>c. k \in Clients /\ k # None /\ w # None
    BY <1>b, NoneAssumption DEF Clients
  <1>d. \A q \in Requests : q # r => held[q] # k
    <2>1. Fresh(k)
      BY <1>a DEF IInv, FreshInv
    <2>2. ASSUME NEW q \in Requests, q # r PROVE held[q] # k
      <3>1. CASE pc[q] = "holding"
        BY <2>1, <3>1 DEF IInv, FreshInv
      <3>2. CASE pc[q] = "opening" \/ pc[q] = "releasing"
        BY <2>2, <3>2 DEF IInv, OwnerInv
      <3>3. CASE pc[q] \notin {"opening", "holding", "releasing"}
        BY <1>c, <3>3 DEF IInv, OwnerInv
      <3>4. QED
        BY <3>1, <3>2, <3>3
    <2>3. QED
      BY <2>2
  <1>1. TypeOK'
    BY <1>a, <1>b, <1>c DEF IInv, TypeOK, PC
  <1>2. OwnerInv'
    BY <1>a, <1>b, <1>c DEF IInv, TypeOK, OwnerInv
  <1>3. FreshInv'
    BY <1>a DEF IInv, TypeOK, FreshInv, Fresh
  <1>4. StackInv'
    BY <1>a DEF IInv, StackInv
  <1>5. LeaseExclusive'
    BY <1>a, <1>b, <1>d DEF IInv, TypeOK, LeaseExclusive, ToSet
  <1>6. NobodyWaitsBesideIdle'
    BY <1>a, <1>b DEF NobodyWaitsBesideIdle
  <1>7. WaiterAccounted'
    <2>1. serving[r] = None
      BY <1>a, HoldingFacts
    <2>2. QED
      BY <1>a, <1>b, <2>1, NoneAssumption DEF IInv, TypeOK, WaiterAccounted
  <1>8. QED
    BY <1>1, <1>2, <1>3, <1>4, <1>5, <1>6, <1>7 DEF IInv

LEMMA ReopenDoneStep ==
  ASSUME IInv, NEW r \in Requests, ReopenDone(r)
  PROVE  IInv'
  <1> DEFINE k == <<r, "release">>
             w == serving[r]
  <1>a. /\ pc[r] = "releasing" /\ held[r] = k
        /\ conn' = [conn EXCEPT ![k] = "up"]
        /\ busy' = busy \union {k}
        /\ Deliver(r, w, k)
        /\ serving' = [serving EXCEPT ![r] = None]
        /\ UNCHANGED <<available, waitQueue, drained>>
    BY DEF ReopenDone, IInv, OwnerInv
  <1>b. k \in Clients /\ k # None /\ w \in Requests
    BY <1>a, NoneAssumption DEF Clients, IInv, TypeOK, OwnerInv
  <1>c. /\ k \notin ToSet(available)
        /\ \A q \in Requests : q # r => held[q] # k
    BY <1>a, <1>b DEF IInv, LeaseExclusive
  <1>d. /\ pc[w] = "waiting" =>
             /\ w # r
             /\ pc' = [pc EXCEPT ![r] = "done", ![w] = "holding"]
             /\ held' = [held EXCEPT ![r] = None, ![w] = k]
        /\ pc[w] # "waiting" =>
             /\ pc' = [pc EXCEPT ![r] = "done"]
             /\ held' = [held EXCEPT ![r] = None]
    BY <1>a DEF Deliver
  <1>1. TypeOK'
    <2>1. CASE pc[w] = "waiting"
      <3>1. /\ pc' = [[pc EXCEPT ![r] = "done"] EXCEPT ![w] = "holding"]
            /\ held' = [[held EXCEPT ![r] = None] EXCEPT ![w] = k]
        BY <1>d, <2>1
      <3>2. pc' \in [Requests -> PC] /\ held' \in [Requests -> Clients \union {None}]
        BY <1>b, <3>1 DEF IInv, TypeOK, PC
      <3>3. QED
        BY <1>a, <1>b, <3>2 DEF IInv, TypeOK
    <2>2. CASE pc[w] # "waiting"
      <3>1. pc' \in [Requests -> PC] /\ held' \in [Requests -> Clients \union {None}]
        BY <1>b, <1>d, <2>2 DEF IInv, TypeOK, PC
      <3>2. QED
        BY <1>a, <1>b, <3>1 DEF IInv, TypeOK
    <2>3. QED
      BY <2>1, <2>2
  <1>2. OwnerInv'
    BY <1>a, <1>b, <1>d DEF IInv, TypeOK, OwnerInv
  <1>3. FreshInv'
    <2>1. conn'[k] = "up" /\ \A q \in Clients : q # k => conn'[q] = conn[q]
      BY <1>a, <1>b DEF IInv, TypeOK
    <2>2. \A q \in Requests : <<q, "acquire">> \in Clients /\ <<q, "release">> \in Clients
      BY DEF Clients
    <2>3. \A i \in DOMAIN available : available[i] \in Clients
      BY DEF IInv, TypeOK
    <2>4. ASSUME NEW q \in Requests, pc'[q] = "holding" PROVE ~Fresh(held[q])'
      <3>1. CASE pc[q] = "holding"
        <4>1. held'[q] = held[q] /\ held[q] \in Clients /\ ~Fresh(held[q])
          BY <1>a, <1>b, <1>d, <2>4, <3>1, HoldingFacts DEF IInv, TypeOK
        <4>2. QED
          BY <2>1, <4>1 DEF Fresh
      <3>2. CASE pc[q] # "holding"
        <4>1. held'[q] = k
          BY <1>a, <1>b, <1>d, <2>4, <3>2 DEF IInv, TypeOK
        <4>2. QED
          BY <2>1, <4>1 DEF Fresh
      <3>3. QED
        BY <3>1, <3>2
    <2>5. /\ \A i \in DOMAIN available' : ~Fresh(available[i])'
          /\ \A q \in busy' : ~Fresh(q)'
      BY <1>a, <2>1, <2>3 DEF IInv, TypeOK, FreshInv, Fresh
    <2>6. ASSUME NEW q \in Requests
          PROVE /\ pc'[q] \in {"idle", "discarding", "waiting", "opening"}
                     => Fresh(<<q, "acquire">>)'
                /\ pc'[q] # "done" => Fresh(<<q, "release">>)'
      <3>1. pc'[q] \in {"idle", "discarding", "waiting", "opening"} => pc'[q] = pc[q]
        BY <1>a, <1>b, <1>d DEF IInv, TypeOK
      <3>2. pc'[q] # "done" => pc[q] # "done" /\ q # r
        BY <1>a, <1>b, <1>d DEF IInv, TypeOK
      <3>3. QED
        BY <2>1, <2>2, <3>1, <3>2 DEF IInv, FreshInv, Fresh
    <2>7. QED
      BY <2>4, <2>5, <2>6 DEF FreshInv
  <1>4. StackInv'
    BY <1>a DEF IInv, StackInv
  <1>5. LeaseExclusive'
    <2>1. None \notin ToSet(available)
      BY NoneAssumption DEF IInv, TypeOK, ToSet
    <2>2. CASE pc[w] = "waiting"
      <3>1. /\ held'[r] = None /\ held'[w] = k
            /\ \A q \in Requests \ {r, w} : held'[q] = held[q]
        BY <1>b, <1>d, <2>2 DEF IInv, TypeOK
      <3>2. QED
        BY <1>a, <1>b, <1>c, <2>1, <3>1 DEF IInv, LeaseExclusive
    <2>3. CASE pc[w] # "waiting"
      BY <1>a, <1>d, <2>1, <2>3 DEF IInv, TypeOK, LeaseExclusive
    <2>4. QED
      BY <2>2, <2>3
  <1>6. NobodyWaitsBesideIdle'
    BY <1>a DEF IInv, NobodyWaitsBesideIdle
  <1>7. WaiterAccounted'
    <2>1. ASSUME NEW q \in Requests, pc'[q] = "waiting"
          PROVE  q \in ToSet(waitQueue') \/ \E p \in Requests : serving'[p] = q
      <3>1. pc[q] = "waiting" /\ q # w
        BY <1>a, <1>b, <1>d, <2>1 DEF IInv, TypeOK
      <3>2. QED
        BY <1>a, <3>1 DEF IInv, TypeOK, WaiterAccounted
    <2>2. QED
      BY <2>1 DEF WaiterAccounted
  <1>8. QED
    BY <1>1, <1>2, <1>3, <1>4, <1>5, <1>6, <1>7 DEF IInv

LEMMA ReopenFailedStep ==
  ASSUME IInv, NEW r \in Requests, ReopenFailed(r)
  PROVE  IInv'
  <1> DEFINE k == <<r, "release">>
             w == serving[r]
  <1>a. /\ pc[r] = "releasing" /\ held[r] = k
        /\ conn' = [conn EXCEPT ![k] = "down"]
        /\ held' = [held EXCEPT ![r] = None]
        /\ serving' = [serving EXCEPT ![r] = None]
        /\ UNCHANGED <<available, busy, waitQueue, drained>>
    BY DEF ReopenFailed, IInv, OwnerInv
  <1>b. /\ pc' = [q \in Requests |->
                    IF q = r THEN "done"
                    ELSE IF q = w /\ pc[q] = "waiting" THEN "failed" ELSE pc[q]]
    BY DEF ReopenFailed, RejectWaiter
  <1>c. k \in Clients
    BY DEF Clients
  <1>1. TypeOK'
    BY <1>a, <1>b, <1>c DEF IInv, TypeOK, PC
  <1>2. OwnerInv'
    BY <1>a, <1>b DEF IInv, TypeOK, OwnerInv
  <1>3. FreshInv'
    <2>1. conn'[k] = "down" /\ \A q \in Clients : q # k => conn'[q] = conn[q]
      BY <1>a, <1>c DEF IInv, TypeOK
    <2>2. \A q \in Requests : <<q, "acquire">> \in Clients /\ <<q, "release">> \in Clients
      BY DEF Clients
    <2>3. \A i \in DOMAIN available : available[i] \in Clients
      BY DEF IInv, TypeOK
    <2>4. ASSUME NEW q \in Requests, pc'[q] = "holding" PROVE ~Fresh(held[q])'
      <3>1. pc[q] = "holding" /\ q # r
        BY <1>a, <1>b, <2>4
      <3>2. held'[q] = held[q] /\ held[q] \in Clients /\ ~Fresh(held[q])
        BY <1>a, <3>1, HoldingFacts DEF IInv, TypeOK
      <3>3. QED
        BY <2>1, <3>2 DEF Fresh
    <2>5. /\ \A i \in DOMAIN available' : ~Fresh(available[i])'
          /\ \A q \in busy' : ~Fresh(q)'
      BY <1>a, <2>1, <2>3 DEF IInv, TypeOK, FreshInv, Fresh
    <2>6. ASSUME NEW q \in Requests
          PROVE /\ pc'[q] \in {"idle", "discarding", "waiting", "opening"}
                     => Fresh(<<q, "acquire">>)'
                /\ pc'[q] # "done" => Fresh(<<q, "release">>)'
      <3>1. /\ pc'[q] \in {"idle", "discarding", "waiting", "opening"} => pc'[q] = pc[q]
            /\ pc'[q] # "done" => pc[q] # "done" /\ q # r
        BY <1>b
      <3>2. QED
        BY <2>1, <2>2, <3>1 DEF IInv, FreshInv, Fresh
    <2>7. QED
      BY <2>4, <2>5, <2>6 DEF FreshInv
  <1>4. StackInv'
    BY <1>a DEF IInv, StackInv
  <1>5. LeaseExclusive'
    <2>1. None \notin ToSet(available)
      BY NoneAssumption DEF IInv, TypeOK, ToSet
    <2>2. QED
      BY <1>a, <2>1 DEF IInv, TypeOK, LeaseExclusive
  <1>6. NobodyWaitsBesideIdle'
    BY <1>a DEF IInv, NobodyWaitsBesideIdle
  <1>7. WaiterAccounted'
    <2>1. ASSUME NEW q \in Requests, pc'[q] = "waiting"
          PROVE  q \in ToSet(waitQueue') \/ \E p \in Requests : serving'[p] = q
      <3>1. pc[q] = "waiting" /\ q # w
        BY <1>a, <1>b, <2>1
      <3>2. QED
        BY <1>a, <3>1 DEF IInv, TypeOK, WaiterAccounted
    <2>2. QED
      BY <2>1 DEF WaiterAccounted
  <1>8. QED
    BY <1>1, <1>2, <1>3, <1>4, <1>5, <1>6, <1>7 DEF IInv

LEMMA DrainStep ==
  ASSUME IInv, Drain
  PROVE  IInv'
  <1>a. /\ pc' = [r \in Requests |->
                    IF r \in ToSet(waitQueue) /\ pc[r] = "waiting"
                    THEN "failed" ELSE pc[r]]
        /\ waitQueue' = <<>> /\ available' = <<>> /\ busy' = {} /\ drained' = TRUE
        /\ conn' = [k \in Clients |->
                      IF k \in busy \union ToSet(available) THEN "down" ELSE conn[k]]
        /\ UNCHANGED <<held, serving>>
    BY DEF Drain
  <1>1. TypeOK'
    <2>1. pc' \in [Requests -> PC] /\ conn' \in [Clients -> {"none", "up", "down"}]
      BY <1>a DEF IInv, TypeOK, PC
    <2>2. available' \in Seq(Clients) /\ waitQueue' \in Seq(Requests)
      BY <1>a
    <2>3. QED
      BY <1>a, <2>1, <2>2 DEF IInv, TypeOK
  <1>2. OwnerInv'
    BY <1>a DEF IInv, TypeOK, OwnerInv
  <1>3. FreshInv'
    <2>1. \A k \in Clients : Fresh(k)' <=> Fresh(k)
      BY <1>a DEF IInv, TypeOK, FreshInv, Fresh, ToSet
    <2>2. \A q \in Requests : <<q, "acquire">> \in Clients /\ <<q, "release">> \in Clients
      BY DEF Clients
    <2>3. \A q \in Requests :
            pc'[q] = "holding" => pc[q] = "holding" /\ held'[q] = held[q] /\ held[q] \in Clients
      BY <1>a, HoldingFacts
    <2>4. \A q \in Requests :
            /\ pc'[q] \in {"idle", "discarding", "waiting", "opening"} => pc'[q] = pc[q]
            /\ pc'[q] # "done" => pc[q] # "done"
      BY <1>a
    <2>5. QED
      BY <1>a, <2>1, <2>2, <2>3, <2>4 DEF IInv, FreshInv
  <1>4. StackInv' /\ LeaseExclusive'
    BY <1>a DEF IInv, StackInv, LeaseExclusive, ToSet
  <1>5. NobodyWaitsBesideIdle' /\ WaiterAccounted'
    BY <1>a DEF IInv, NobodyWaitsBesideIdle, WaiterAccounted
  <1>6. QED
    BY <1>1, <1>2, <1>3, <1>4, <1>5 DEF IInv

(* HolderCall and IdleDies: a flag flips on a client already opened.       *)
LEMMA FlagStep ==
  ASSUME IInv,
         (\E r \in Requests : HolderCall(r)) \/ (\E k \in Clients : IdleDies(k))
  PROVE  IInv'
  <1>a. /\ UNCHANGED <<pc, held, serving, available, busy, waitQueue, drained>>
        /\ conn' \in [Clients -> {"none", "up", "down"}]
        /\ \A k \in Clients : Fresh(k)' <=> Fresh(k)
    <2>1. ASSUME NEW r \in Requests, HolderCall(r)
          PROVE  /\ conn' \in [Clients -> {"none", "up", "down"}]
                 /\ \A k \in Clients : Fresh(k)' <=> Fresh(k)
      <3>1. held[r] \in Clients /\ ~Fresh(held[r])
        BY <2>1, HoldingFacts DEF HolderCall
      <3>2. QED
        BY <2>1, <3>1 DEF HolderCall, IInv, TypeOK, Fresh
    <2>2. ASSUME NEW k \in Clients, IdleDies(k)
          PROVE  /\ conn' \in [Clients -> {"none", "up", "down"}]
                 /\ \A q \in Clients : Fresh(q)' <=> Fresh(q)
      BY <2>2 DEF IdleDies, IInv, TypeOK, Fresh
    <2>3. QED
      BY <2>1, <2>2 DEF HolderCall, IdleDies
  <1>1. TypeOK'
    BY <1>a DEF IInv, TypeOK
  <1>2. OwnerInv' /\ StackInv' /\ LeaseExclusive'
    BY <1>a DEF IInv, OwnerInv, StackInv, LeaseExclusive
  <1>3. FreshInv'
    <2>1. \A q \in Requests : <<q, "acquire">> \in Clients /\ <<q, "release">> \in Clients
      BY DEF Clients
    <2>2. \A i \in DOMAIN available : available[i] \in Clients
      BY DEF IInv, TypeOK
    <2>3. \A q \in Requests : pc[q] = "holding" => held[q] \in Clients
      BY HoldingFacts
    <2>4. \A k \in busy : k \in Clients
      BY DEF IInv, TypeOK
    <2>5. QED
      BY <1>a, <2>1, <2>2, <2>3, <2>4 DEF IInv, FreshInv
  <1>4. NobodyWaitsBesideIdle' /\ WaiterAccounted'
    BY <1>a DEF IInv, NobodyWaitsBesideIdle, WaiterAccounted
  <1>5. QED
    BY <1>1, <1>2, <1>3, <1>4 DEF IInv

(* IInv is inductive: one case per action of Next.                         *)
LEMMA NextIInv == IInv /\ [Next]_vars => IInv'
  <1> SUFFICES ASSUME IInv, [Next]_vars PROVE IInv'
    OBVIOUS
  <1>1. ASSUME NEW r \in Requests, Acquire(r) \/ AcquireContinue(r) PROVE IInv'
    <2>1. Acquiring(r) /\ AcquireLoop(r) /\ UNCHANGED drained
      BY <1>1 DEF Acquire, AcquireContinue, Acquiring
    <2>2. QED
      BY <2>1, AcquireLoopStep
  <1>2. ASSUME NEW r \in Requests,
               AcquireDrained(r) \/ AcquireTimeout(r) \/ OpenFailed(r)
        PROVE  IInv'
    BY <1>2, GiveUpStep
  <1>3. ASSUME NEW r \in Requests, OpenDone(r) PROVE IInv'
    BY <1>3, OpenDoneStep
  <1>4. ASSUME NEW r \in Requests, Release(r) PROVE IInv'
    BY <1>4, ReleaseCloseStep, ReleaseIdleStep, ReleaseToWaiterStep, ReleaseReopenStep
       DEF Release
  <1>5. ASSUME NEW r \in Requests, ReopenDone(r) \/ ReopenFailed(r) PROVE IInv'
    BY <1>5, ReopenDoneStep, ReopenFailedStep
  <1>6. CASE Drain
    BY <1>6, DrainStep
  <1>7. CASE (\E r \in Requests : HolderCall(r)) \/ (\E k \in Clients : IdleDies(k))
    BY <1>7, FlagStep
  <1>8. CASE UNCHANGED vars
    BY <1>8 DEF vars, IInv, TypeOK, OwnerInv, FreshInv, Fresh, StackInv,
                LeaseExclusive, NobodyWaitsBesideIdle, WaiterAccounted
  <1>9. QED
    BY <1>1, <1>2, <1>3, <1>4, <1>5, <1>6, <1>7, <1>8 DEF Next, Settle

THEOREM Invariance == Spec => []IInv
  BY InitIInv, NextIInv, PTL DEF Spec

(* The variables of the pool keep their types (TypeOK).                    *)
THEOREM TypeCorrect == Spec => []TypeOK
  <1>1. IInv => TypeOK
    BY DEF IInv
  <1>2. QED
    BY <1>1, Invariance, PTL

(* One caller per client, and no client both in use and in the stack:      *)
(* pool.js never lends a connection twice, whatever the order of timeouts, *)
(* hand-overs, failed reopens and a drain.                                 *)
THEOREM ExclusiveLease == Spec => []LeaseExclusive
  <1>1. IInv => LeaseExclusive
    BY DEF IInv
  <1>2. QED
    BY <1>1, Invariance, PTL

(* No waiter is queued while a client is idle (acquire() and release()).   *)
THEOREM NoWaitBesideIdle == Spec => []NobodyWaitsBesideIdle
  <1>1. IInv => NobodyWaitsBesideIdle
    BY DEF IInv
  <1>2. QED
    BY <1>1, Invariance, PTL

(* No suspended acquire() is forgotten by the queue and by every release().*)
THEOREM NoForgottenWaiter == Spec => []WaiterAccounted
  <1>1. IInv => WaiterAccounted
    BY DEF IInv
  <1>2. QED
    BY <1>1, Invariance, PTL

-----------------------------------------------------------------------------
(* The refinement: every step of RfcPool is a step of LeasePool or leaves  *)
(* the phases and the leases alone.                                        *)
LEMMA PhaseFacts ==
  /\ PhaseOf("idle") = "new"
  /\ PhaseOf("discarding") = "pending" /\ PhaseOf("opening") = "pending"
  /\ PhaseOf("waiting") = "pending"
  /\ PhaseOf("holding") = "granted" /\ PhaseOf("failed") = "refused"
  /\ PhaseOf("releasing") = "returned" /\ PhaseOf("done") = "returned"
  BY DEF PhaseOf

(* A step of one request shows in its own phase and lease only.            *)
LEMMA ViewStep ==
  ASSUME TypeOK, NEW r \in Requests, NEW x, pc' = [pc EXCEPT ![r] = x],
         \A q \in Requests : q # r => held'[q] = held[q]
  PROVE  /\ PhaseView' = [PhaseView EXCEPT ![r] = PhaseOf(x)]
         /\ LeaseView' = [LeaseView EXCEPT ![r] = IF x = "holding" THEN held'[r] ELSE None]
         /\ PhaseView[r] = PhaseOf(pc[r])
  <1>1. \A q \in Requests : pc'[q] = IF q = r THEN x ELSE pc[q]
    BY DEF TypeOK
  <1>2. /\ PhaseView[r] = PhaseOf(pc[r])
        /\ \A q \in Requests : q # r => PhaseOf(pc'[q]) = PhaseView[q]
    BY <1>1 DEF PhaseView
  <1>3. PhaseView' = [PhaseView EXCEPT ![r] = PhaseOf(x)]
    <2>1. PhaseView' = [q \in Requests |-> PhaseOf(pc'[q])]
      BY DEF PhaseView
    <2>2. PhaseView = [q \in Requests |-> PhaseView[q]]
      BY DEF PhaseView
    <2>3. QED
      BY <1>1, <1>2, <2>1, <2>2
  <1>4. LeaseView' = [LeaseView EXCEPT ![r] = IF x = "holding" THEN held'[r] ELSE None]
    <2>1. LeaseView' = [q \in Requests |-> IF pc'[q] = "holding" THEN held'[q] ELSE None]
      BY DEF LeaseView
    <2>2. \A q \in Requests : q # r =>
            (IF pc'[q] = "holding" THEN held'[q] ELSE None) = LeaseView[q]
      BY <1>1 DEF LeaseView
    <2>3. LeaseView = [q \in Requests |-> LeaseView[q]]
      BY DEF LeaseView
    <2>4. QED
      BY <1>1, <2>1, <2>2, <2>3
  <1>5. QED
    BY <1>2, <1>3, <1>4

LEMMA NotLeased ==
  ASSUME NEW k, k # None, \A q \in Requests : pc[q] = "holding" => held[q] # k
  PROVE  k \notin Leases!Leased
  BY DEF Leases!Leased, LeaseView

LEMMA AcquireRefines ==
  ASSUME IInv, NEW r \in Requests, Acquiring(r), AcquireLoop(r)
  PROVE  Leases!Next \/ UNCHANGED <<PhaseView, LeaseView>>
  <1>t. TypeOK /\ pc[r] # "holding"
    BY DEF IInv, Acquiring
  <1>1. CASE TakeIdle(r)
    <2> DEFINE k == Last(available)
    <2>1. k \in Clients /\ k \in ToSet(available) /\ k # None
      <3>1. available \in Seq(Clients) /\ available # <<>>
        BY <1>1 DEF IInv, TypeOK, TakeIdle
      <3>2. k \in Clients /\ k = available[Len(available)] /\ Len(available) \in DOMAIN available
        BY <3>1, FrontFacts
      <3>3. QED
        BY <3>2, NoneAssumption DEF ToSet
    <2>2. k \notin Leases!Leased
      BY <2>1, NotLeased DEF IInv, LeaseExclusive
    <2>3. /\ pc' = [pc EXCEPT ![r] = "holding"] /\ held' = [held EXCEPT ![r] = k]
          /\ held'[r] = k
      BY <1>1, <1>t DEF TakeIdle, TypeOK
    <2>4. /\ PhaseView' = [PhaseView EXCEPT ![r] = "granted"]
          /\ LeaseView' = [LeaseView EXCEPT ![r] = k]
          /\ PhaseView[r] \in {"new", "pending"}
      <3>1. \A q \in Requests : q # r => held'[q] = held[q]
        BY <2>3, <1>t DEF TypeOK
      <3>2. /\ PhaseView' = [PhaseView EXCEPT ![r] = PhaseOf("holding")]
            /\ LeaseView' = [LeaseView EXCEPT
                                ![r] = IF "holding" = "holding" THEN held'[r] ELSE None]
            /\ PhaseView[r] = PhaseOf(pc[r])
        BY <1>t, <2>3, <3>1, ViewStep
      <3>3. PhaseOf(pc[r]) \in {"new", "pending"}
        BY PhaseFacts DEF Acquiring
      <3>4. QED
        BY <2>3, <3>2, <3>3, PhaseFacts
    <2>5. Leases!Grant(r, k)
      BY <2>2, <2>4 DEF Leases!Grant
    <2>6. QED
      BY <2>1, <2>5 DEF Leases!Next
  <1>2. CASE DiscardIdle(r) \/ StartOpen(r) \/ StartWait(r)
    <2>1. PICK x \in {"discarding", "opening", "waiting"} : pc' = [pc EXCEPT ![r] = x]
      BY <1>2 DEF DiscardIdle, StartOpen, StartWait
    <2>2. \A q \in Requests : q # r => held'[q] = held[q]
      BY <1>2, <1>t DEF DiscardIdle, StartOpen, StartWait, TypeOK
    <2>3. /\ PhaseView' = [PhaseView EXCEPT ![r] = "pending"]
          /\ LeaseView' = [LeaseView EXCEPT ![r] = None]
          /\ PhaseView[r] = PhaseOf(pc[r])
      <3>1. /\ PhaseView' = [PhaseView EXCEPT ![r] = PhaseOf(x)]
            /\ LeaseView' = [LeaseView EXCEPT
                                ![r] = IF x = "holding" THEN held'[r] ELSE None]
            /\ PhaseView[r] = PhaseOf(pc[r])
        BY <1>t, <2>1, <2>2, ViewStep
      <3>2. PhaseOf(x) = "pending" /\ x # "holding"
        BY PhaseFacts
      <3>3. QED
        BY <3>1, <3>2
    <2>4. UNCHANGED LeaseView
      BY <1>t, <2>3 DEF LeaseView
    <2>5. CASE pc[r] = "idle"
      <3>1. PhaseView[r] = "new"
        BY <2>3, <2>5, PhaseFacts
      <3>2. Leases!Ask(r)
        BY <2>3, <2>4, <3>1 DEF Leases!Ask
      <3>3. QED
        BY <3>2 DEF Leases!Next
    <2>6. CASE pc[r] = "discarding"
      <3>1. PhaseView[r] = "pending"
        BY <2>3, <2>6, PhaseFacts
      <3>2. PhaseView' = PhaseView
        BY <2>3, <3>1 DEF PhaseView
      <3>3. QED
        BY <2>4, <3>2
    <2>7. QED
      BY <2>5, <2>6 DEF Acquiring
  <1>3. QED
    BY <1>1, <1>2 DEF AcquireLoop

LEMMA GiveUpRefines ==
  ASSUME IInv, NEW r \in Requests,
         AcquireDrained(r) \/ AcquireTimeout(r) \/ OpenFailed(r)
  PROVE  Leases!Next
  <1>1. /\ TypeOK /\ pc[r] \in {"idle", "waiting", "opening"}
        /\ pc' = [pc EXCEPT ![r] = "failed"]
        /\ \A q \in Requests : q # r => held'[q] = held[q]
    BY DEF IInv, TypeOK, AcquireDrained, AcquireTimeout, OpenFailed
  <1>2. /\ PhaseView' = [PhaseView EXCEPT ![r] = "refused"]
        /\ LeaseView' = [LeaseView EXCEPT ![r] = None]
        /\ PhaseView[r] \in {"new", "pending"}
    <2>1. /\ PhaseView' = [PhaseView EXCEPT ![r] = PhaseOf("failed")]
          /\ LeaseView' = [LeaseView EXCEPT
                              ![r] = IF "failed" = "holding" THEN held'[r] ELSE None]
          /\ PhaseView[r] = PhaseOf(pc[r])
      BY <1>1, ViewStep
    <2>2. PhaseOf(pc[r]) \in {"new", "pending"}
      BY <1>1, PhaseFacts
    <2>3. QED
      BY <2>1, <2>2, PhaseFacts
  <1>3. UNCHANGED LeaseView
    BY <1>1, <1>2 DEF LeaseView
  <1>4. Leases!Refuse({r})
    BY <1>2, <1>3 DEF Leases!Refuse, PhaseView
  <1>5. QED
    BY <1>4 DEF Leases!Next

LEMMA OpenDoneRefines ==
  ASSUME IInv, NEW r \in Requests, OpenDone(r)
  PROVE  Leases!Next
  <1> DEFINE k == held[r]
  <1>1. /\ TypeOK /\ pc[r] = "opening" /\ k \in Clients /\ k # None
        /\ pc' = [pc EXCEPT ![r] = "holding"] /\ held' = held
        /\ \A q \in Requests : q # r => held'[q] = held[q]
    BY NoneAssumption DEF IInv, TypeOK, OwnerInv, OpenDone
  <1>2. k \notin Leases!Leased
    BY <1>1, NotLeased DEF IInv, LeaseExclusive
  <1>3. /\ PhaseView' = [PhaseView EXCEPT ![r] = "granted"]
        /\ LeaseView' = [LeaseView EXCEPT ![r] = k]
        /\ PhaseView[r] = "pending"
    <2>1. /\ PhaseView' = [PhaseView EXCEPT ![r] = PhaseOf("holding")]
          /\ LeaseView' = [LeaseView EXCEPT
                              ![r] = IF "holding" = "holding" THEN held'[r] ELSE None]
          /\ PhaseView[r] = PhaseOf(pc[r])
      BY <1>1, ViewStep
    <2>2. QED
      BY <1>1, <2>1, PhaseFacts
  <1>4. Leases!Grant(r, k)
    BY <1>2, <1>3 DEF Leases!Grant
  <1>5. QED
    BY <1>1, <1>4 DEF Leases!Next

(* The request of a release is granted before it and returned after it.    *)
LEMMA ReturnView ==
  ASSUME IInv, NEW r \in Requests, NEW x \in {"done", "releasing"},
         pc[r] = "holding", pc' = [pc EXCEPT ![r] = x],
         \A q \in Requests : q # r => held'[q] = held[q]
  PROVE  Leases!Return(r)
  <1>1. /\ PhaseView' = [PhaseView EXCEPT ![r] = PhaseOf(x)]
        /\ LeaseView' = [LeaseView EXCEPT
                            ![r] = IF x = "holding" THEN held'[r] ELSE None]
        /\ PhaseView[r] = PhaseOf(pc[r])
    BY ViewStep DEF IInv
  <1>2. PhaseOf(x) = "returned" /\ x # "holding" /\ PhaseOf(pc[r]) = "granted"
    BY PhaseFacts
  <1>3. QED
    BY <1>1, <1>2 DEF Leases!Return

LEMMA ReleaseRefines ==
  ASSUME IInv, NEW r \in Requests,
         ReleaseDrained(r) \/ ReleaseIdle(r) \/ ReleaseDead(r) \/ ReleaseReopen(r)
  PROVE  Leases!Next
  <1>1. PICK x \in {"done", "releasing"} :
          /\ pc[r] = "holding" /\ pc' = [pc EXCEPT ![r] = x]
          /\ \A q \in Requests : q # r => held'[q] = held[q]
    BY DEF ReleaseDrained, ReleaseIdle, ReleaseDead, ReleaseReopen, Return, IInv, TypeOK
  <1>2. Leases!Return(r)
    BY <1>1, ReturnView
  <1>3. QED
    BY <1>2 DEF Leases!Next

LEMMA ReleaseToWaiterRefines ==
  ASSUME IInv, NEW r \in Requests, ReleaseToWaiter(r)
  PROVE  Leases!Next
  <1> DEFINE k == held[r]
             w == Head(waitQueue)
  <1>1. /\ pc[r] = "holding" /\ Deliver(r, w, k) /\ w \in Requests /\ TypeOK
    BY HeadFacts DEF ReleaseToWaiter, IInv
  <1>2. CASE pc[w] = "waiting"
    <2>1. /\ w # r
          /\ pc' = [[pc EXCEPT ![r] = "done"] EXCEPT ![w] = "holding"]
          /\ held' = [[held EXCEPT ![r] = None] EXCEPT ![w] = k]
      BY <1>1, <1>2 DEF Deliver
    <2>2. /\ pc'[r] = "done" /\ pc'[w] = "holding"
          /\ held'[w] = k
          /\ \A q \in Requests \ {r, w} : pc'[q] = pc[q] /\ held'[q] = held[q]
      BY <1>1, <2>1 DEF TypeOK
    <2>3. PhaseView' = [[PhaseView EXCEPT ![r] = "returned"] EXCEPT ![w] = "granted"]
      <3>1. PhaseView' = [q \in Requests |-> PhaseOf(pc'[q])]
        BY DEF PhaseView
      <3>2. \A q \in Requests :
              PhaseOf(pc'[q]) = IF q = w THEN "granted"
                                ELSE IF q = r THEN "returned" ELSE PhaseView[q]
        <4> SUFFICES ASSUME NEW q \in Requests
                     PROVE  PhaseOf(pc'[q]) = IF q = w THEN "granted"
                              ELSE IF q = r THEN "returned" ELSE PhaseView[q]
          OBVIOUS
        <4>1. CASE q = w
          BY <2>2, <4>1, PhaseFacts
        <4>2. CASE q = r
          BY <2>1, <2>2, <4>2, PhaseFacts
        <4>3. CASE q \notin {r, w}
          BY <2>2, <4>3 DEF PhaseView
        <4>4. QED
          BY <4>1, <4>2, <4>3
      <3>3. PhaseView = [q \in Requests |-> PhaseView[q]]
        BY DEF PhaseView
      <3>4. QED
        BY <1>1, <3>1, <3>2, <3>3
    <2>4. LeaseView' = [[LeaseView EXCEPT ![r] = None] EXCEPT ![w] = LeaseView[r]]
      <3>1. LeaseView' = [q \in Requests |-> IF pc'[q] = "holding" THEN held'[q] ELSE None]
        BY DEF LeaseView
      <3>2. LeaseView[r] = k
        BY <1>1 DEF LeaseView
      <3>3. \A q \in Requests :
              (IF pc'[q] = "holding" THEN held'[q] ELSE None)
                = IF q = w THEN k ELSE IF q = r THEN None ELSE LeaseView[q]
        BY <2>1, <2>2 DEF LeaseView
      <3>4. LeaseView = [q \in Requests |-> LeaseView[q]]
        BY DEF LeaseView
      <3>5. QED
        BY <1>1, <3>1, <3>2, <3>3, <3>4
    <2>5. PhaseView[r] = "granted" /\ PhaseView[w] = "pending"
      BY <1>1, <1>2, PhaseFacts DEF PhaseView
    <2>6. Leases!HandOver(r, w)
      BY <2>3, <2>4, <2>5 DEF Leases!HandOver
    <2>7. QED
      BY <1>1, <2>6 DEF Leases!Next
  <1>3. CASE pc[w] # "waiting"
    <2>1. /\ pc' = [pc EXCEPT ![r] = "done"]
          /\ \A q \in Requests : q # r => held'[q] = held[q]
      BY <1>1, <1>3 DEF Deliver, TypeOK
    <2>2. Leases!Return(r)
      BY <1>1, <2>1, ReturnView
    <2>3. QED
      BY <2>2 DEF Leases!Next
  <1>4. QED
    BY <1>2, <1>3

LEMMA ReopenDoneRefines ==
  ASSUME IInv, NEW r \in Requests, ReopenDone(r)
  PROVE  Leases!Next \/ UNCHANGED <<PhaseView, LeaseView>>
  <1> DEFINE k == held[r]
             w == serving[r]
  <1>1. /\ pc[r] = "releasing" /\ Deliver(r, w, k) /\ w \in Requests /\ TypeOK
        /\ k \in Clients /\ k # None
    BY NoneAssumption DEF ReopenDone, IInv, TypeOK, OwnerInv
  <1>2. CASE pc[w] = "waiting"
    <2>1. /\ w # r
          /\ pc' = [[pc EXCEPT ![r] = "done"] EXCEPT ![w] = "holding"]
          /\ held' = [[held EXCEPT ![r] = None] EXCEPT ![w] = k]
      BY <1>1, <1>2 DEF Deliver
    <2>2. /\ pc'[r] = "done" /\ pc'[w] = "holding"
          /\ held'[w] = k
          /\ \A q \in Requests \ {r, w} : pc'[q] = pc[q] /\ held'[q] = held[q]
      BY <1>1, <2>1 DEF TypeOK
    <2>3. PhaseView' = [PhaseView EXCEPT ![w] = "granted"]
      <3>1. PhaseView' = [q \in Requests |-> PhaseOf(pc'[q])]
        BY DEF PhaseView
      <3>2. \A q \in Requests :
              PhaseOf(pc'[q]) = IF q = w THEN "granted" ELSE PhaseView[q]
        <4> SUFFICES ASSUME NEW q \in Requests
                     PROVE  PhaseOf(pc'[q]) = IF q = w THEN "granted" ELSE PhaseView[q]
          OBVIOUS
        <4>1. CASE q = w
          BY <2>2, <4>1, PhaseFacts
        <4>2. CASE q = r
          <5>1. PhaseView[q] = PhaseOf("releasing")
            BY <1>1, <4>2 DEF PhaseView
          <5>2. QED
            BY <2>1, <2>2, <4>2, <5>1, PhaseFacts
        <4>3. CASE q \notin {r, w}
          BY <2>2, <4>3 DEF PhaseView
        <4>4. QED
          BY <4>1, <4>2, <4>3
      <3>3. PhaseView = [q \in Requests |-> PhaseView[q]]
        BY DEF PhaseView
      <3>4. QED
        BY <1>1, <3>1, <3>2, <3>3
    <2>4. LeaseView' = [LeaseView EXCEPT ![w] = k]
      <3>1. LeaseView' = [q \in Requests |-> IF pc'[q] = "holding" THEN held'[q] ELSE None]
        BY DEF LeaseView
      <3>2. \A q \in Requests :
              (IF pc'[q] = "holding" THEN held'[q] ELSE None)
                = IF q = w THEN k ELSE LeaseView[q]
        BY <1>1, <2>1, <2>2 DEF LeaseView
      <3>3. LeaseView = [q \in Requests |-> LeaseView[q]]
        BY DEF LeaseView
      <3>4. QED
        BY <1>1, <3>1, <3>2, <3>3
    <2>5. PhaseView[w] = "pending"
      BY <1>1, <1>2, PhaseFacts DEF PhaseView
    <2>6. k \notin Leases!Leased
      BY <1>1, NotLeased DEF IInv, LeaseExclusive
    <2>7. Leases!Grant(w, k)
      BY <2>3, <2>4, <2>5, <2>6 DEF Leases!Grant
    <2>8. QED
      BY <1>1, <2>7 DEF Leases!Next
  <1>3. CASE pc[w] # "waiting"
    <2>1. /\ pc' = [pc EXCEPT ![r] = "done"]
          /\ \A q \in Requests : q # r => held'[q] = held[q]
      BY <1>1, <1>3 DEF Deliver, TypeOK
    <2>2. /\ PhaseView' = [PhaseView EXCEPT ![r] = PhaseOf("done")]
          /\ LeaseView' = [LeaseView EXCEPT
                              ![r] = IF "done" = "holding" THEN held'[r] ELSE None]
          /\ PhaseView[r] = PhaseOf(pc[r])
      BY <1>1, <2>1, ViewStep
    <2>3. PhaseView[r] = "returned" /\ PhaseOf("done") = "returned" /\ LeaseView[r] = None
      BY <1>1, PhaseFacts DEF PhaseView, LeaseView
    <2>4. PhaseView' = PhaseView /\ LeaseView' = LeaseView
      BY <2>2, <2>3 DEF PhaseView, LeaseView
    <2>5. QED
      BY <2>4
  <1>4. QED
    BY <1>2, <1>3

LEMMA ReopenFailedRefines ==
  ASSUME IInv, NEW r \in Requests, ReopenFailed(r)
  PROVE  Leases!Next
  <1> DEFINE R == {q \in Requests : q = serving[r] /\ pc[q] = "waiting"}
  <1>1. /\ pc[r] = "releasing" /\ TypeOK
        /\ \A q \in Requests : q # r => held'[q] = held[q]
        /\ pc' = [q \in Requests |->
                    IF q = r THEN "done"
                    ELSE IF q = serving[r] /\ pc[q] = "waiting" THEN "failed" ELSE pc[q]]
    BY DEF ReopenFailed, RejectWaiter, IInv, TypeOK
  <1>2. \A q \in R : PhaseView[q] = "pending"
    BY PhaseFacts DEF PhaseView
  <1>3. PhaseView' = [q \in Requests |-> IF q \in R THEN "refused" ELSE PhaseView[q]]
    <2>1. PhaseView' = [q \in Requests |-> PhaseOf(pc'[q])]
      BY DEF PhaseView
    <2>2. ASSUME NEW q \in Requests
          PROVE  PhaseOf(pc'[q]) = IF q \in R THEN "refused" ELSE PhaseView[q]
      <3>1. CASE q = r
        <4>1. q \notin R /\ PhaseView[q] = PhaseOf("releasing") /\ pc'[q] = "done"
          BY <1>1, <3>1 DEF PhaseView
        <4>2. QED
          BY <4>1, PhaseFacts
      <3>2. CASE q # r /\ q \in R
        BY <1>1, <3>2, PhaseFacts
      <3>3. CASE q # r /\ q \notin R
        BY <1>1, <3>3 DEF PhaseView
      <3>4. QED
        BY <3>1, <3>2, <3>3
    <2>3. QED
      BY <2>1, <2>2
  <1>4. LeaseView' = LeaseView
    <2>1. \A q \in Requests : /\ pc'[q] = "holding" <=> pc[q] = "holding"
                              /\ pc[q] = "holding" => held'[q] = held[q]
      BY <1>1
    <2>2. QED
      BY <2>1 DEF LeaseView
  <1>5. Leases!Refuse(R)
    BY <1>2, <1>3, <1>4 DEF Leases!Refuse
  <1>6. QED
    BY <1>5 DEF Leases!Next

LEMMA DrainRefines ==
  ASSUME IInv, Drain
  PROVE  Leases!Next
  <1> DEFINE R == {q \in Requests : q \in ToSet(waitQueue) /\ pc[q] = "waiting"}
  <1>1. /\ held' = held
        /\ pc' = [q \in Requests |->
                    IF q \in ToSet(waitQueue) /\ pc[q] = "waiting" THEN "failed" ELSE pc[q]]
    BY DEF Drain
  <1>2. \A q \in R : PhaseView[q] = "pending"
    BY PhaseFacts DEF PhaseView
  <1>3. PhaseView' = [q \in Requests |-> IF q \in R THEN "refused" ELSE PhaseView[q]]
    <2>1. PhaseView' = [q \in Requests |-> PhaseOf(pc'[q])]
      BY DEF PhaseView
    <2>2. ASSUME NEW q \in Requests
          PROVE  PhaseOf(pc'[q]) = IF q \in R THEN "refused" ELSE PhaseView[q]
      <3>1. CASE q \in R
        BY <1>1, <3>1, PhaseFacts
      <3>2. CASE q \notin R
        BY <1>1, <3>2 DEF PhaseView
      <3>3. QED
        BY <3>1, <3>2
    <2>3. QED
      BY <2>1, <2>2
  <1>4. LeaseView' = LeaseView
    <2>1. \A q \in Requests : pc'[q] = "holding" <=> pc[q] = "holding"
      BY <1>1
    <2>2. QED
      BY <1>1, <2>1 DEF LeaseView
  <1>5. Leases!Refuse(R)
    BY <1>2, <1>3, <1>4 DEF Leases!Refuse
  <1>6. QED
    BY <1>5 DEF Leases!Next

LEMMA InitRefines == Init => Leases!Init
  <1> SUFFICES ASSUME Init PROVE Leases!Init
    OBVIOUS
  <1>1. \A r \in Requests : pc[r] = "idle"
    BY DEF Init
  <1>2. PhaseView = [r \in Requests |-> "new"]
    BY <1>1, PhaseFacts DEF PhaseView
  <1>3. LeaseView = [r \in Requests |-> None]
    BY <1>1 DEF LeaseView
  <1>4. QED
    BY <1>2, <1>3 DEF Leases!Init

LEMMA NextRefines == IInv /\ [Next]_vars => [Leases!Next]_(Leases!leaseVars)
  <1> SUFFICES ASSUME IInv, [Next]_vars
               PROVE  Leases!Next \/ UNCHANGED <<PhaseView, LeaseView>>
    BY DEF Leases!leaseVars
  <1>1. ASSUME NEW r \in Requests, Acquire(r) \/ AcquireContinue(r)
        PROVE  Leases!Next \/ UNCHANGED <<PhaseView, LeaseView>>
    <2>1. Acquiring(r) /\ AcquireLoop(r)
      BY <1>1 DEF Acquire, AcquireContinue, Acquiring
    <2>2. QED
      BY <2>1, AcquireRefines
  <1>2. ASSUME NEW r \in Requests,
               AcquireDrained(r) \/ AcquireTimeout(r) \/ OpenFailed(r)
        PROVE  Leases!Next
    BY <1>2, GiveUpRefines
  <1>3. ASSUME NEW r \in Requests, OpenDone(r) PROVE Leases!Next
    BY <1>3, OpenDoneRefines
  <1>4. ASSUME NEW r \in Requests, Release(r) PROVE Leases!Next
    BY <1>4, ReleaseRefines, ReleaseToWaiterRefines DEF Release
  <1>5. ASSUME NEW r \in Requests, ReopenDone(r) \/ ReopenFailed(r)
        PROVE  Leases!Next \/ UNCHANGED <<PhaseView, LeaseView>>
    BY <1>5, ReopenDoneRefines, ReopenFailedRefines
  <1>6. CASE Drain
    BY <1>6, DrainRefines
  <1>7. CASE UNCHANGED <<pc, held>>
    BY <1>7 DEF PhaseView, LeaseView
  <1>8. QED
    BY <1>1, <1>2, <1>3, <1>4, <1>5, <1>6, <1>7
       DEF Next, Settle, HolderCall, IdleDies, vars

(* RfcPool implements LeasePool: seen through PhaseView and LeaseView, the *)
(* queue, the timer, reopened clients and drain never grant a connection   *)
(* that is leased, grant one twice to a request or answer it twice.        *)
THEOREM Implementation == Spec => LeaseSpec
  BY InitRefines, NextRefines, Invariance, PTL DEF Spec, LeaseSpec, Leases!Spec
=============================================================================
