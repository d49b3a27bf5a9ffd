--------------------------- MODULE AgentRunProofs ---------------------------
(***************************************************************************)
(* Proofs about AgentRun, for any number of agents, iterations, runs and   *)
(* tool calls in an answer, with and without gates.                        *)
(***************************************************************************)
EXTENDS AgentRun, SequenceTheorems, TLAPS

Acting == {"tools", "gating", "executing"}

(* Every message up to m that calls tools has its results up to m.         *)
AnsweredTo(m) ==
  \A i \in 1..m :
    messages[i].kind = "use" =>
      \A n \in 1..messages[i].calls :
        i + n <= m /\ messages[i + n] = [kind |-> "result", turn |-> messages[i].turn, number |-> n]

(* The message at u calls the tools at hand; its first results are there.  *)
AnsweringAt(u) ==
  /\ AnsweredSoFar \in Nat /\ u + AnsweredSoFar = Len(messages)
  /\ messages[u] = [kind |-> "use", turn |-> iteration, calls |-> AnsweredSoFar + Len(todo)]
  /\ \A n \in 1..AnsweredSoFar : messages[u + n] = Result(n)
  /\ AnsweredTo(u - 1)

Conversation ==
  /\ pc # "idle" => Len(messages) >= 2 /\ messages[1] = System /\ messages[2] = Task
  /\ pc \in {"thinking", "asking"} => AnsweredTo(Len(messages))
  /\ pc \in Acting => \E u \in 3..Len(messages) : AnsweringAt(u)

(* The calls that were blocked or have written are past.                   *)
Before(call) ==
  /\ pc # "idle" /\ call[1] <= iteration
  /\ pc = "asking" => call[1] < iteration
  /\ pc \in Acting => call[1] < iteration \/ call[2] <= AnsweredSoFar

IInv ==
  /\ TypeOK /\ Conversation /\ RequestWellFormed
  /\ UsageCounted /\ (pc = "idle" => agentUsage = 0)
  /\ BlockedNeverWritten /\ \A call \in blocked \union written : Before(call)
  /\ pc \in {"gating", "executing"} => todo # <<>>
  /\ pc # "idle" => stages > 0

-----------------------------------------------------------------------------
(* Agents begin and end                                                    *)

LEMMA OpeningFacts ==
  /\ Opening \in Seq(Message) /\ Len(Opening) = 2
  /\ Opening[1] = System /\ Opening[2] = Task
  BY DEF Opening, Message

LEMMA CallsAreNat == ASSUME NEW m \in Message, m.kind = "use" PROVE m.calls \in Nat
  BY DEF Message, System, Task, Marker

LEMMA EmptyFacts == <<>> \in Seq(Message) /\ <<>> \in Seq(Tools)
  OBVIOUS

LEMMA FirstTwo ==
  ASSUME NEW q \in Seq(Message), Len(q) >= 2
  PROVE  SubSeq(q, 1, 2) = <<q[1], q[2]>>
  <1> DEFINE first == SubSeq(q, 1, 2)
             pair == <<q[1], q[2]>>
  <1>1. q[1] \in Message /\ q[2] \in Message
    OBVIOUS
  <1>2. first \in Seq(Message) /\ Len(first) = 2 /\ first[1] = q[1] /\ first[2] = q[2]
    BY <1>1
  <1>3. pair \in Seq(Message) /\ Len(pair) = 2 /\ pair[1] = q[1] /\ pair[2] = q[2]
    BY <1>1
  <1> HIDE DEF first, pair
  <1>4. \A i \in 1..Len(first) : first[i] = pair[i]
    BY <1>2, <1>3
  <1>5. first = pair
    BY <1>2, <1>3, <1>4, SeqEqual
  <1> QED
    BY <1>5 DEF first, pair

LEMMA InitInv == Init => IInv
  <1> SUFFICES ASSUME Init PROVE IInv
    OBVIOUS
  <1>1. TypeOK
    <2>1. messages \in Seq(Message) /\ sent \in Seq(Message) /\ todo \in Seq(Tools)
      BY EmptyFacts DEF Init
    <2> QED
      BY <2>1 DEF Init, TypeOK
  <1>2. Conversation /\ RequestWellFormed
    BY DEF Init, Conversation, Acting, RequestWellFormed
  <1>3. UsageCounted /\ agentUsage = 0
    BY DEF Init, UsageCounted
  <1>4. BlockedNeverWritten /\ \A call \in blocked \union written : Before(call)
    BY DEF Init, BlockedNeverWritten
  <1> QED
    BY <1>1, <1>2, <1>3, <1>4 DEF IInv, Init

LEMMA StartAgentInv ==
  ASSUME IInv, NEW n \in Nat, StartAgent(n),
         runs' \in Nat, totalUsage' \in Nat, spent' \in Nat, thrown' \in BOOLEAN,
         ~thrown' => totalUsage' = spent'
  PROVE  IInv'
  <1>1. pc' = "idle" \/ (pc' = "thinking" /\ messages' = Opening /\ n > 0)
    BY DEF StartAgent
  <1>2. TypeOK'
    <2>1. messages' \in Seq(Message) /\ sent' \in Seq(Message) /\ todo' \in Seq(Tools)
      BY OpeningFacts, EmptyFacts DEF StartAgent
    <2>2. /\ pc' \in {"idle", "thinking", "asking", "tools", "gating", "executing"}
          /\ stages' \in Nat /\ iteration' \in Nat /\ agentUsage' \in Nat
      BY DEF StartAgent
    <2>3. blocked' \subseteq Nat \X Nat /\ written' \subseteq Nat \X Nat
      BY DEF StartAgent
    <2> QED
      BY <2>1, <2>2, <2>3 DEF TypeOK
  <1>3. Conversation'
    <2>1. CASE pc' = "idle"
      BY <2>1 DEF Conversation, Acting
    <2>2. CASE pc' = "thinking"
      <3>1. messages' = Opening
        BY <2>2, <1>1
      <3>2. AnsweredTo(Len(messages))'
        <4> SUFFICES ASSUME NEW i \in 1..2, Opening[i].kind = "use" PROVE FALSE
          BY <3>1, OpeningFacts DEF AnsweredTo
        <4> QED
          BY OpeningFacts DEF System, Task
      <3> QED
        BY <2>2, <3>1, <3>2, OpeningFacts DEF Conversation, Acting
    <2> QED
      BY <1>1, <2>1, <2>2
  <1>4. RequestWellFormed' /\ UsageCounted' /\ BlockedNeverWritten' /\ agentUsage' = 0
    <2>1. RequestWellFormed'
      BY <1>1 DEF RequestWellFormed
    <2>2. agentUsage' = 0
      BY DEF StartAgent
    <2>3. ASSUME NEW total \in Nat PROVE total + 0 = total
      OBVIOUS
    <2>4. totalUsage' + agentUsage' = totalUsage'
      BY ONLY <2>2, <2>3, totalUsage' \in Nat
    <2>5. BlockedNeverWritten'
      BY DEF BlockedNeverWritten, StartAgent
    <2> QED
      BY <2>1, <2>2, <2>4, <2>5 DEF UsageCounted
  <1>5. blocked' = {} /\ written' = {} /\ stages' = n /\ pc' \notin {"gating", "executing"}
    BY <1>1 DEF StartAgent
  <1> QED
    BY <1>1, <1>2, <1>3, <1>4, <1>5 DEF IInv

LEMMA RunInv == ASSUME IInv, Run PROVE IInv'
  <1>1. PICK n \in {1, Stages} : StartAgent(n)
    BY DEF Run
  <1>2. /\ n \in Nat /\ runs' \in Nat /\ totalUsage' \in Nat /\ spent' \in Nat /\ thrown' \in BOOLEAN
        /\ ~thrown' => totalUsage' = spent'
    BY <1>1, BoundsAssumption DEF Run, IInv, TypeOK, UsageCounted
  <1> QED
    BY <1>1, <1>2, StartAgentInv

LEMMA ReturnInv ==
  ASSUME IInv, pc # "idle", NEW tokens \in Nat, Return(tokens), spent' \in Nat,
         ~thrown => totalUsage + tokens = spent'
  PROVE  IInv'
  <1>1. stages - 1 \in Nat /\ StartAgent(stages - 1)
    BY DEF IInv, TypeOK, Return
  <1>2. /\ runs' \in Nat /\ totalUsage' \in Nat /\ thrown' \in BOOLEAN
        /\ ~thrown' => totalUsage' = spent'
    BY DEF IInv, TypeOK, Return
  <1> QED
    BY <1>1, <1>2, StartAgentInv

LEMMA MaxIterationsReachedInv == ASSUME IInv, MaxIterationsReached PROVE IInv'
  <1>1. agentUsage \in Nat /\ spent' \in Nat /\ (~thrown => totalUsage + agentUsage = spent') /\ pc # "idle"
    BY DEF IInv, TypeOK, UsageCounted, MaxIterationsReached
  <1> QED
    BY <1>1, ReturnInv DEF MaxIterationsReached

LEMMA AnswersTextInv == ASSUME IInv, AnswersText PROVE IInv'
  <1>1. /\ agentUsage + 1 \in Nat /\ spent' \in Nat /\ pc # "idle"
        /\ ~thrown => totalUsage + (agentUsage + 1) = spent'
    BY DEF IInv, TypeOK, UsageCounted, AnswersText
  <1> QED
    BY <1>1, ReturnInv DEF AnswersText

LEMMA ProviderFailsInv == ASSUME IInv, ProviderFails PROVE IInv'
  <1>1. /\ 0 \in Nat /\ runs' \in Nat /\ totalUsage' \in Nat /\ spent' \in Nat /\ thrown' \in BOOLEAN
        /\ ~thrown' => totalUsage' = spent'
    BY DEF IInv, TypeOK, ProviderFails
  <1> QED
    BY <1>1, StartAgentInv DEF ProviderFails

-----------------------------------------------------------------------------
(* The question                                                            *)

(* compressContext() cuts in front of a message and keeps what follows it. *)
LEMMA CompressedWellFormed ==
  ASSUME TypeOK, Len(messages) >= 2, messages[1] = System, messages[2] = Task,
         AnsweredTo(Len(messages)), NEW s \in Compressed
  PROVE  /\ s \in Seq(Message) /\ Len(s) >= 2 /\ s[1] = System /\ s[2] = Task
         /\ \A i \in 1..Len(s) :
              s[i].kind = "use" =>
                \A n \in 1..s[i].calls :
                  i + n \in 1..Len(s) /\ s[i + n] = [kind |-> "result", turn |-> s[i].turn, number |-> n]
  <1> DEFINE L == Len(messages)
  <1>0. messages \in Seq(Message) /\ L \in Nat
    BY DEF TypeOK
  <1>1. CASE s = messages
    <2> SUFFICES ASSUME NEW i \in 1..L, messages[i].kind = "use", NEW n \in 1..messages[i].calls
                 PROVE  i + n \in 1..L
      BY <1>0, <1>1 DEF AnsweredTo
    <2>1. i + n <= L
      BY DEF AnsweredTo
    <2>2. messages[i] \in Message
      BY <1>0
    <2>3. n \in Nat \ {0}
      BY <2>2, CallsAreNat
    <2> QED
      BY <1>0, <2>1, <2>3
  <1>2. ASSUME NEW k \in 4..(L + 1), s = Opening \o <<Marker>> \o SubSeq(messages, k, L)
        PROVE  /\ s \in Seq(Message) /\ Len(s) >= 2 /\ s[1] = System /\ s[2] = Task
               /\ \A i \in 1..Len(s) :
                    s[i].kind = "use" =>
                      \A n \in 1..s[i].calls :
                        i + n \in 1..Len(s)
                        /\ s[i + n] = [kind |-> "result", turn |-> s[i].turn, number |-> n]
    <2> DEFINE tail == SubSeq(messages, k, L)
               front == Opening \o <<Marker>>
    <2>1. /\ tail \in Seq(Message) /\ Len(tail) = L - k + 1
          /\ \A i \in 1..(L - k + 1) : tail[i] = messages[k + i - 1]
      BY <1>0
    <2>2. /\ front \in Seq(Message) /\ Len(front) = 3
          /\ front[1] = System /\ front[2] = Task /\ front[3] = Marker
      BY DEF Opening, Message
    <2> HIDE DEF tail, front
    <2>3. /\ s \in Seq(Message) /\ Len(s) = L - k + 4
          /\ s[1] = System /\ s[2] = Task /\ s[3] = Marker
          /\ \A i \in 4..(L - k + 4) : s[i] = tail[i - 3]
      <3>1. s = front \o tail
        BY <1>2 DEF tail, front
      <3>2. /\ s \in Seq(Message) /\ Len(s) = Len(front) + Len(tail)
            /\ \A i \in 1..(Len(front) + Len(tail)) :
                 s[i] = IF i <= Len(front) THEN front[i] ELSE tail[i - Len(front)]
        BY <2>1, <2>2, <3>1, ConcatProperties
      <3> HIDE DEF L
      <3>3. Len(front) + Len(tail) = L - k + 4 /\ L - k + 4 >= 3 /\ L - k + 4 \in Nat
        BY <1>0, <2>1, <2>2 DEF L
      <3>4. \A i \in 1..(L - k + 4) : s[i] = IF i <= 3 THEN front[i] ELSE tail[i - 3]
        BY <2>2, <3>2, <3>3
      <3> QED
        BY <2>2, <3>2, <3>3, <3>4
    <2>4. \A i \in 4..(L - k + 4) : s[i] = messages[k + i - 4] /\ k + i - 4 \in 1..L
      <3> SUFFICES ASSUME NEW i \in 4..(L - k + 4)
                   PROVE  s[i] = messages[k + i - 4] /\ k + i - 4 \in 1..L
        OBVIOUS
      <3>1. i - 3 \in 1..(L - k + 1) /\ k + (i - 3) - 1 = k + i - 4 /\ k + i - 4 \in 1..L
        BY <1>0
      <3> QED
        BY <2>1, <2>3, <3>1
    <2>5. ASSUME NEW i \in 1..(L - k + 4), s[i].kind = "use", NEW n \in 1..s[i].calls
          PROVE  /\ i + n \in 1..(L - k + 4)
                 /\ s[i + n] = [kind |-> "result", turn |-> s[i].turn, number |-> n]
      <3>1. i >= 4
        BY <1>0, <2>3, <2>5 DEF System, Task, Marker
      <3>2. s[i] = messages[k + i - 4] /\ k + i - 4 \in 1..L
        BY <1>0, <2>4, <3>1
      <3>3. /\ (k + i - 4) + n <= L
            /\ messages[(k + i - 4) + n] = [kind |-> "result", turn |-> s[i].turn, number |-> n]
        BY <2>5, <3>2 DEF AnsweredTo
      <3>4. i + n \in 4..(L - k + 4) /\ k + (i + n) - 4 = (k + i - 4) + n
        BY <1>0, <3>1, <3>3
      <3>5. s[i + n] = messages[k + (i + n) - 4]
        BY <2>4, <3>4
      <3> QED
        BY <1>0, <3>3, <3>4, <3>5
    <2> HIDE DEF L
    <2>6. L - k + 4 >= 3
      BY <1>0 DEF L
    <2> QED
      BY <2>3, <2>5, <2>6
  <1> QED
    BY <1>1, <1>2 DEF Compressed

LEMMA AskInv == ASSUME IInv, Ask PROVE IInv'
  <1>1. Len(messages) >= 2 /\ messages[1] = System /\ messages[2] = Task /\ AnsweredTo(Len(messages))
    BY DEF IInv, Conversation, Ask
  <1>2. /\ sent' \in Seq(Message) /\ Len(sent') >= 2 /\ sent'[1] = System /\ sent'[2] = Task
        /\ \A i \in 1..Len(sent') :
             sent'[i].kind = "use" =>
               \A n \in 1..sent'[i].calls :
                 i + n \in 1..Len(sent')
                 /\ sent'[i + n] = [kind |-> "result", turn |-> sent'[i].turn, number |-> n]
    BY <1>1, CompressedWellFormed DEF IInv, Ask
  <1>3. RequestWellFormed'
    <2>1. SubSeq(sent', 1, 2) = Opening
      BY <1>2, FirstTwo DEF Opening
    <2>2. DOMAIN sent' = 1..Len(sent')
      BY <1>2
    <2> QED
      BY <1>2, <2>1, <2>2 DEF RequestWellFormed
  <1>4. TypeOK'
    BY <1>2 DEF IInv, TypeOK, Ask, usage, effects
  <1>5. Conversation'
    BY <1>1 DEF Conversation, AnsweredTo, Acting, Ask
  <1>6. \A call \in blocked \union written : Before(call)'
    BY DEF IInv, TypeOK, Before, Acting, Ask
  <1>7. UsageCounted' /\ BlockedNeverWritten'
    BY DEF IInv, UsageCounted, BlockedNeverWritten, Ask, usage, effects
  <1> QED
    BY <1>3, <1>4, <1>5, <1>6, <1>7 DEF IInv, Ask, effects

-----------------------------------------------------------------------------
(* The tools of an answer                                                  *)

(* What was answered stays so when the conversation grows.                 *)
LEMMA AnsweredToKept ==
  ASSUME NEW m \in Nat, messages \in Seq(Message), AnsweredTo(m),
         \A i \in 1..m : messages'[i] = messages[i]
  PROVE  \A i \in 1..m :
           messages'[i].kind = "use" =>
             \A n \in 1..messages'[i].calls :
               i + n <= m
               /\ messages'[i + n] = [kind |-> "result", turn |-> messages'[i].turn, number |-> n]
  <1> SUFFICES ASSUME NEW i \in 1..m, messages'[i].kind = "use", NEW n \in 1..messages'[i].calls
               PROVE  /\ i + n <= m
                      /\ messages'[i + n]
                         = [kind |-> "result", turn |-> messages'[i].turn, number |-> n]
    OBVIOUS
  <1>1. messages'[i] = messages[i]
    OBVIOUS
  <1>2. /\ i + n <= m
        /\ messages[i + n] = [kind |-> "result", turn |-> messages'[i].turn, number |-> n]
    BY <1>1 DEF AnsweredTo
  <1>3. n \in Int /\ n >= 1
    OBVIOUS
  <1>4. i + n \in 1..m
    BY <1>2, <1>3
  <1> QED
    BY <1>2, <1>4

LEMMA AnswersToolCallsInv == ASSUME IInv, AnswersToolCalls PROVE IInv'
  <1>1. PICK n \in 1..MaxCalls : \E calls \in [1..n -> Tools] :
          todo' = calls /\ messages' = Append(messages, ToolUse(calls))
    BY DEF AnswersToolCalls
  <1>2. PICK calls \in [1..n -> Tools] :
          todo' = calls /\ messages' = Append(messages, ToolUse(calls))
    BY <1>1
  <1>3. calls \in Seq(Tools) /\ Len(calls) = n /\ n \in Nat
    BY <1>2, BoundsAssumption
  <1>4. /\ messages \in Seq(Message) /\ iteration \in Nat /\ agentUsage \in Nat /\ spent \in Nat
        /\ totalUsage \in Nat /\ stages > 0
        /\ Len(messages) >= 2 /\ messages[1] = System /\ messages[2] = Task
        /\ AnsweredTo(Len(messages))
    BY DEF IInv, TypeOK, Conversation, AnswersToolCalls
  <1>5. ToolUse(calls) = [kind |-> "use", turn |-> iteration, calls |-> n]
    BY <1>3 DEF ToolUse
  <1>6. ToolUse(calls) \in Message
    BY <1>3, <1>4, <1>5 DEF Message
  <1>7. PICK L \in Nat : L = Len(messages)
    BY <1>4
  <1>8. /\ messages' \in Seq(Message) /\ Len(messages') = L + 1
        /\ \A i \in 1..L : messages'[i] = messages[i]
        /\ messages'[L + 1] = [kind |-> "use", turn |-> iteration, calls |-> n]
    BY <1>2, <1>4, <1>5, <1>6, <1>7, AppendProperties
  <1>9. AnsweredSoFar' = 0
    BY <1>8 DEF AnsweredSoFar
  <1>10. pc' = "tools" /\ iteration' = iteration /\ stages' = stages /\ runs' = runs
    BY DEF AnswersToolCalls, place
  <1>11. Conversation'
    <2>1. Len(messages') >= 2 /\ messages'[1] = System /\ messages'[2] = Task
      BY <1>4, <1>7, <1>8
    <2>2. AnsweringAt(L + 1)'
      <3>1. AnsweredSoFar' \in Nat /\ (L + 1) + AnsweredSoFar' = Len(messages')
        BY <1>8, <1>9
      <3>2. messages'[L + 1]
            = [kind |-> "use", turn |-> iteration', calls |-> AnsweredSoFar' + Len(todo')]
        <4>1. AnsweredSoFar' + Len(todo') = n
          BY <1>2, <1>3, <1>9
        <4> QED
          BY <1>8, <1>10, <4>1
      <3>3. \A k \in 1..AnsweredSoFar' : FALSE
        BY <1>9
      <3>4. (L + 1) - 1 = L
        OBVIOUS
      <3>5. AnsweredTo(L)'
        BY <1>4, <1>7, <1>8, AnsweredToKept DEF AnsweredTo
      <3> QED
        BY <3>1, <3>2, <3>3, <3>4, <3>5 DEF AnsweringAt
    <2>3. L + 1 \in 3..Len(messages')
      BY <1>4, <1>7, <1>8
    <2> QED
      BY <1>10, <2>1, <2>2, <2>3 DEF Conversation
  <1>12. TypeOK'
    <2>1. todo' \in Seq(Tools) /\ sent' \in Seq(Message) /\ spent' \in Nat /\ agentUsage' \in Nat
      BY <1>2, <1>3, <1>4, EmptyFacts DEF AnswersToolCalls
    <2> QED
      BY <1>8, <1>10, <2>1 DEF IInv, TypeOK, AnswersToolCalls, effects
  <1>13. UsageCounted' /\ BlockedNeverWritten' /\ RequestWellFormed'
    <2>1. UsageCounted'
      BY <1>4 DEF IInv, UsageCounted, AnswersToolCalls
    <2> QED
      BY <1>10, <2>1 DEF IInv, BlockedNeverWritten, RequestWellFormed, AnswersToolCalls, effects
  <1>14. \A call \in blocked' \union written' : Before(call)'
    BY <1>10 DEF IInv, Before, Acting, AnswersToolCalls, effects
  <1> QED
    BY <1>4, <1>10, <1>11, <1>12, <1>13, <1>14 DEF IInv

(* A step from one tool action to another that only moves pc.              *)
LEMMA MoveInv ==
  ASSUME IInv, pc \in Acting, pc' \in Acting, todo # <<>>,
         UNCHANGED <<place, messages, sent, todo, usage, effects>>
  PROVE  IInv'
  <1>1. /\ runs' = runs /\ stages' = stages /\ iteration' = iteration /\ messages' = messages
        /\ sent' = sent /\ todo' = todo /\ agentUsage' = agentUsage /\ totalUsage' = totalUsage
        /\ spent' = spent /\ thrown' = thrown /\ blocked' = blocked /\ written' = written
    BY DEF place, usage, effects
  <1>2. TypeOK'
    BY <1>1 DEF IInv, TypeOK, Acting
  <1>3. Conversation'
    <2>1. PICK u \in 3..Len(messages) : AnsweringAt(u)
      BY DEF IInv, Conversation
    <2>2. AnsweringAt(u)'
      BY <1>1, <2>1 DEF AnsweringAt, AnsweredSoFar, AnsweredTo, Result
    <2> QED
      BY <1>1, <2>2 DEF IInv, Conversation, Acting
  <1>4. RequestWellFormed' /\ UsageCounted' /\ BlockedNeverWritten'
    BY <1>1 DEF IInv, RequestWellFormed, UsageCounted, BlockedNeverWritten, Acting
  <1>5. \A call \in blocked' \union written' : Before(call)'
    BY <1>1 DEF IInv, Before, Acting, AnsweredSoFar
  <1> QED
    BY <1>1, <1>2, <1>3, <1>4, <1>5 DEF IInv, Acting

LEMMA StartInv == ASSUME IInv, Start PROVE IInv'
  BY MoveInv DEF Start, Acting

LEMMA GatePassesInv == ASSUME IInv, GatePasses PROVE IInv'
  <1>1. todo # <<>>
    BY DEF IInv, GatePasses
  <1> QED
    BY <1>1, MoveInv DEF GatePasses, Acting

LEMMA GateBlockLostInv == ASSUME IInv, GateBlockLost PROVE IInv'
  <1>1. todo # <<>>
    BY DEF IInv, GateBlockLost
  <1> QED
    BY <1>1, MoveInv DEF GateBlockLost, Acting

(* The call at hand is neither among the blocked nor the written ones.     *)
LEMMA CallIsNew ==
  ASSUME IInv, pc \in {"gating", "executing"}
  PROVE  AnsweredSoFar \in Nat /\ CallId \in Nat \X Nat /\ CallId \notin blocked \union written
  <1>1. AnsweredSoFar \in Nat /\ iteration \in Nat
    BY DEF IInv, TypeOK, Conversation, Acting, AnsweringAt
  <1>2. AnsweredSoFar + 1 \in Nat /\ ~(AnsweredSoFar + 1 <= AnsweredSoFar) /\ ~(iteration < iteration)
    BY <1>1
  <1>3. ~Before(CallId)
    BY <1>2 DEF Before, CallId, Acting
  <1>4. CallId \in Nat \X Nat
    BY <1>1, <1>2 DEF CallId
  <1> QED
    BY <1>1, <1>3, <1>4 DEF IInv

(* The result of the call at hand is the next one.                         *)
LEMMA ConcludeInv ==
  ASSUME IInv, pc \in {"gating", "executing"}, Conclude,
         blocked' \subseteq blocked \union {CallId}, written' \subseteq written \union {CallId},
         BlockedNeverWritten'
  PROVE  IInv'
  <1>1. PICK u \in 3..Len(messages) : AnsweringAt(u)
    BY DEF IInv, Conversation, Acting
  <1>2. PICK A \in Nat : A = AnsweredSoFar
    BY <1>1 DEF AnsweringAt
  <1>3. PICK L \in Nat : L = Len(messages)
    BY DEF IInv, TypeOK
  <1>4. /\ messages \in Seq(Message) /\ iteration \in Nat /\ todo \in Seq(Tools) /\ todo # <<>>
        /\ L >= 2 /\ messages[1] = System /\ messages[2] = Task
    BY <1>3 DEF IInv, TypeOK, Conversation
  <1>5. /\ iteration' = iteration /\ stages' = stages /\ runs' = runs /\ pc' = "tools"
        /\ sent' = sent /\ agentUsage' = agentUsage /\ totalUsage' = totalUsage
        /\ spent' = spent /\ thrown' = thrown
    BY DEF Conclude, place, usage
  <1>6. Result(A + 1) = [kind |-> "result", turn |-> iteration, number |-> A + 1]
    BY DEF Result
  <1>7. Result(A + 1) \in Message
    BY <1>4, <1>6 DEF Message
  <1>8. /\ messages' \in Seq(Message) /\ Len(messages') = L + 1
        /\ \A i \in 1..L : messages'[i] = messages[i]
        /\ messages'[L + 1] = Result(A + 1)
    BY <1>2, <1>3, <1>4, <1>7, AppendProperties DEF Conclude
  <1>9. todo' \in Seq(Tools) /\ Len(todo) \in Nat /\ Len(todo') = Len(todo) - 1
    BY <1>4, HeadTailProperties DEF Conclude
  <1>10. AnsweredSoFar' = A + 1
    BY <1>6, <1>8 DEF AnsweredSoFar
  <1>11. AnsweringAt(u)'
    <2>1. /\ u \in Nat /\ u >= 3 /\ u <= L /\ u + A = L
          /\ messages[u] = [kind |-> "use", turn |-> iteration, calls |-> A + Len(todo)]
          /\ \A n \in 1..A : messages[u + n] = Result(n)
          /\ AnsweredTo(u - 1)
      BY <1>1, <1>2, <1>3 DEF AnsweringAt
    <2>2. AnsweredSoFar' \in Nat /\ u + AnsweredSoFar' = Len(messages')
      BY <1>8, <1>10, <2>1
    <2>3. messages'[u]
          = [kind |-> "use", turn |-> iteration', calls |-> AnsweredSoFar' + Len(todo')]
      <3>1. AnsweredSoFar' + Len(todo') = A + Len(todo)
        BY <1>9, <1>10
      <3>2. messages'[u] = messages[u]
        BY <1>8, <2>1
      <3> QED
        BY <1>5, <2>1, <3>1, <3>2
    <2>4. ASSUME NEW n \in 1..(A + 1) PROVE messages'[u + n] = Result(n)
      <3>1. CASE n = A + 1
        <4>1. u + n = L + 1
          BY <2>1, <3>1
        <4> QED
          BY <1>8, <3>1, <4>1
      <3>2. CASE n # A + 1
        <4>1. n \in 1..A /\ u + n \in 1..L
          BY <2>1, <3>2
        <4> QED
          BY <1>8, <2>1, <4>1
      <3> QED
        BY <3>1, <3>2
    <2>5. \A n \in 1..AnsweredSoFar' : messages'[u + n] = Result(n)'
      BY <1>5, <1>10, <2>4 DEF Result
    <2>6. AnsweredTo(u - 1)'
      <3>1. u - 1 \in Nat /\ \A i \in 1..(u - 1) : messages'[i] = messages[i]
        BY <1>8, <2>1
      <3> QED
        BY <1>4, <2>1, <3>1, AnsweredToKept DEF AnsweredTo
    <2> QED
      BY <2>2, <2>3, <2>5, <2>6 DEF AnsweringAt
  <1>12. Conversation'
    <2>1. Len(messages') >= 2 /\ messages'[1] = System /\ messages'[2] = Task
      BY <1>4, <1>8
    <2>2. u \in 3..Len(messages')
      BY <1>1, <1>3, <1>8
    <2> QED
      BY <1>5, <1>11, <2>1, <2>2 DEF Conversation
  <1>13. TypeOK'
    <2>1. blocked' \subseteq Nat \X Nat /\ written' \subseteq Nat \X Nat
      BY CallIsNew DEF IInv, TypeOK
    <2> QED
      BY <1>5, <1>8, <1>9, <2>1 DEF IInv, TypeOK
  <1>14. ASSUME NEW call \in blocked' \union written' PROVE Before(call)'
    <2>1. CASE call = CallId
      BY <1>2, <1>4, <1>5, <1>10, <2>1 DEF CallId, Before, Acting
    <2>2. CASE call \in blocked \union written
      <3>1. call[1] \in Nat /\ call[2] \in Nat /\ Before(call)
        BY <2>2 DEF IInv, TypeOK
      <3>2. call[1] <= iteration /\ (call[1] < iteration \/ call[2] <= A)
        BY <1>2, <3>1 DEF Before, Acting
      <3>3. call[1] < iteration \/ call[2] <= A + 1
        BY <3>1, <3>2
      <3> QED
        BY <1>5, <1>10, <3>2, <3>3 DEF Before, Acting
    <2> QED
      BY <2>1, <2>2
  <1>15. UsageCounted' /\ RequestWellFormed'
    BY <1>5 DEF IInv, UsageCounted, RequestWellFormed
  <1> QED
    BY <1>4, <1>5, <1>12, <1>13, <1>14, <1>15 DEF IInv

LEMMA GateBlocksInv == ASSUME IInv, GateBlocks PROVE IInv'
  <1>1. CallId \notin blocked \union written
    BY CallIsNew DEF GateBlocks
  <1>2. BlockedNeverWritten'
    BY <1>1 DEF IInv, BlockedNeverWritten, GateBlocks
  <1> QED
    BY <1>2, ConcludeInv DEF GateBlocks

LEMMA ExecuteInv == ASSUME IInv, Execute PROVE IInv'
  <1>1. CallId \notin blocked \union written
    BY CallIsNew DEF Execute
  <1>2. BlockedNeverWritten'
    BY <1>1 DEF IInv, BlockedNeverWritten, Execute
  <1>3. written' \subseteq written \union {CallId} /\ blocked' \subseteq blocked \union {CallId}
    BY DEF Execute
  <1> QED
    BY <1>2, <1>3, ConcludeInv DEF Execute

(* When no call is left, all of the message's calls have their results.    *)
LEMMA ToolsDoneInv == ASSUME IInv, ToolsDone PROVE IInv'
  <1>1. /\ runs' = runs /\ stages' = stages /\ iteration' = iteration /\ messages' = messages
        /\ sent' = sent /\ todo' = todo /\ agentUsage' = agentUsage /\ totalUsage' = totalUsage
        /\ spent' = spent /\ thrown' = thrown /\ blocked' = blocked /\ written' = written
        /\ pc = "tools" /\ pc' = "thinking" /\ todo = <<>>
    BY DEF ToolsDone, place, usage, effects
  <1>2. PICK u \in 3..Len(messages) : AnsweringAt(u)
    BY <1>1 DEF IInv, Conversation, Acting
  <1>3. PICK A \in Nat : A = AnsweredSoFar
    BY <1>2 DEF AnsweringAt
  <1>4. PICK L \in Nat : L = Len(messages)
    BY DEF IInv, TypeOK
  <1>5. /\ u \in Nat /\ u >= 3 /\ u <= L /\ u + A = L
        /\ messages[u] = [kind |-> "use", turn |-> iteration, calls |-> A + Len(todo)]
        /\ \A n \in 1..A : messages[u + n] = Result(n)
        /\ AnsweredTo(u - 1)
    BY <1>2, <1>3, <1>4 DEF AnsweringAt
  <1>6. A + Len(todo) = A
    BY <1>1
  <1>7. AnsweredTo(L)
    <2> SUFFICES ASSUME NEW i \in 1..L, messages[i].kind = "use", NEW n \in 1..messages[i].calls
                 PROVE  /\ i + n <= L
                        /\ messages[i + n]
                           = [kind |-> "result", turn |-> messages[i].turn, number |-> n]
      BY DEF AnsweredTo
    <2>1. CASE i < u
      <3>1. i \in 1..(u - 1)
        BY <1>5, <2>1
      <3>2. /\ i + n <= u - 1
            /\ messages[i + n] = [kind |-> "result", turn |-> messages[i].turn, number |-> n]
        BY <1>5, <3>1 DEF AnsweredTo
      <3>3. n \in Int
        OBVIOUS
      <3> QED
        BY <1>5, <3>2, <3>3
    <2>2. CASE i = u
      <3>1. messages[i].calls = A /\ messages[i].turn = iteration
        BY <1>5, <1>6, <2>2
      <3>2. n \in 1..A
        BY <3>1
      <3>3. messages[i + n] = Result(n) /\ i + n <= L
        BY <1>5, <2>2, <3>2
      <3> QED
        BY <3>1, <3>3 DEF Result
    <2>3. CASE i > u
      <3>1. i - u \in 1..A /\ u + (i - u) = i
        BY <1>5, <2>3
      <3>2. messages[i] = Result(i - u)
        BY <1>5, <3>1
      <3> QED
        BY <3>2 DEF Result
    <2> QED
      BY <1>5, <2>1, <2>2, <2>3
  <1>8. Conversation'
    BY <1>1, <1>4, <1>7 DEF IInv, Conversation, Acting, AnsweredTo
  <1>9. TypeOK'
    BY <1>1 DEF IInv, TypeOK
  <1>10. RequestWellFormed' /\ UsageCounted' /\ BlockedNeverWritten'
    BY <1>1 DEF IInv, RequestWellFormed, UsageCounted, BlockedNeverWritten
  <1>11. \A call \in blocked' \union written' : Before(call)'
    BY <1>1 DEF IInv, Before, Acting
  <1> QED
    BY <1>1, <1>8, <1>9, <1>10, <1>11 DEF IInv

-----------------------------------------------------------------------------
(* The theorems                                                            *)

LEMMA StutterInv == ASSUME IInv, UNCHANGED vars PROVE IInv'
  <1>1. /\ runs' = runs /\ stages' = stages /\ iteration' = iteration /\ messages' = messages
        /\ sent' = sent /\ todo' = todo /\ agentUsage' = agentUsage /\ totalUsage' = totalUsage
        /\ spent' = spent /\ thrown' = thrown /\ blocked' = blocked /\ written' = written
        /\ pc' = pc
    BY DEF vars, place, usage, effects
  <1>2. TypeOK'
    BY <1>1 DEF IInv, TypeOK
  <1>3. Conversation'
    BY <1>1 DEF IInv, Conversation, AnsweringAt, AnsweredSoFar, AnsweredTo, Result
  <1>4. RequestWellFormed' /\ UsageCounted' /\ BlockedNeverWritten'
    BY <1>1 DEF IInv, RequestWellFormed, UsageCounted, BlockedNeverWritten
  <1>5. \A call \in blocked' \union written' : Before(call)'
    BY <1>1 DEF IInv, Before, AnsweredSoFar
  <1> QED
    BY <1>1, <1>2, <1>3, <1>4, <1>5 DEF IInv

LEMMA StepInv == IInv /\ [Next]_vars => IInv'
  BY RunInv, MaxIterationsReachedInv, AskInv, ProviderFailsInv, AnswersTextInv, AnswersToolCallsInv,
     StartInv, GatePassesInv, GateBlockLostInv, GateBlocksInv, ExecuteInv, ToolsDoneInv, StutterInv DEF Next, Agent

(* The strengthened invariant holds in every reachable state.              *)
THEOREM Invariance == Spec => []IInv
  BY InitInv, StepInv, PTL DEF Spec

(* Every variable keeps its type, and so does every message.               *)
THEOREM TypeCorrect == Spec => []TypeOK
  <1>1. IInv => TypeOK
    BY DEF IInv
  <1> QED
    BY <1>1, Invariance, PTL

(* As long as no call of the provider has failed, no token is lost from    *)
(* the count of orchestrator.js.                                           *)
THEOREM UsageIsCounted == Spec => []UsageCounted
  <1>1. IInv => UsageCounted
    BY DEF IInv
  <1> QED
    BY <1>1, Invariance, PTL

(* _executeToolWithSafety() carries out no call it reports as blocked.     *)
THEOREM BlockedIsNotWritten == Spec => []BlockedNeverWritten
  <1>1. IInv => BlockedNeverWritten
    BY DEF IInv
  <1> QED
    BY <1>1, Invariance, PTL

(* compressContext() never sends the call of a tool without its results,   *)
(* nor drops the system prompt or the task.                                *)
THEOREM RequestsAreWellFormed == Spec => []RequestWellFormed
  <1>1. IInv => RequestWellFormed
    BY DEF IInv
  <1> QED
    BY <1>1, Invariance, PTL
=============================================================================
