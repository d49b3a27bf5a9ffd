------------------------------ MODULE AgentRun ------------------------------
(***************************************************************************)
(* The live mode of agent/orchestrator.js: run() takes a requirement       *)
(* through the agents of the workflow, or through one of them; an agent    *)
(* asks the model (agent/llm-provider.js), carries out the tools it calls  *)
(* (agent/tools.js, agent/sap-gateway.js), the write tools after a look at *)
(* the safety gates, and asks again with the results, in a conversation    *)
(* that agent/context-builder.js cuts when it grows too long.              *)
(*                                                                         *)
(* The model, the SAP system and the evaluate() of the gates are external; *)
(* every answer of the model is charged with one token.                    *)
(***************************************************************************)
EXTENDS Naturals, Sequences

CONSTANTS Stages,        (* the number of agents in WORKFLOW_ORDER         *)
          MaxIterations, (* options.maxIterations                          *)
          Gates,         (* whether safety gates are given                 *)
          MaxCalls,      (* bound: tool calls in one answer                *)
          MaxRuns        (* bound: calls of run() on one orchestrator      *)

ASSUME BoundsAssumption ==
  /\ Stages \in Nat \ {0} /\ MaxIterations \in Nat /\ MaxCalls \in Nat /\ MaxRuns \in Nat
  /\ Gates \in BOOLEAN

Tools == {"read", "write"}

VARIABLES
  pc,         (* "idle", "thinking", "asking", "tools", "gating",          *)
              (* "executing"; run() is over in "idle"                      *)
  runs,       (* calls of run() so far                                     *)
  stages,     (* agents this run has still to go through, this one too     *)
  iteration,  (* the loop variable of _runLiveAgent                        *)
  messages,   (* the conversation                                          *)
  sent,       (* what is sent of it to the model                           *)
  todo,       (* tool calls of the answer that are still to be carried out *)
  agentUsage, (* tokens of this agent                                      *)
  totalUsage, (* _totalUsage                                               *)
  spent,      (* external: tokens charged                                  *)
  thrown,     (* history: whether a call of the provider has failed        *)
  blocked,    (* history: calls of this agent it was told are blocked      *)
  written     (* external: those that have written to the SAP system       *)

usage == <<agentUsage, totalUsage, spent, thrown>>
effects == <<blocked, written>>
place == <<runs, stages, iteration>>
vars == <<pc, place, messages, sent, todo, usage, effects>>

Init ==
  /\ pc = "idle"
  /\ runs = 0 /\ stages = 0 /\ iteration = 0
  /\ messages = <<>> /\ sent = <<>> /\ todo = <<>>
  /\ agentUsage = 0 /\ totalUsage = 0 /\ spent = 0 /\ thrown = FALSE
  /\ blocked = {} /\ written = {}

-----------------------------------------------------------------------------
(* Messages.  A call is known by where it was made and its number there.   *)
System == [kind |-> "system"]
Task == [kind |-> "task"]
Marker == [kind |-> "omitted"]
ToolUse(calls) == [kind |-> "use", turn |-> iteration, calls |-> Len(calls)]
Result(number) == [kind |-> "result", turn |-> iteration, number |-> number]

Opening == <<System, Task>>

(* The number of the call at the head of todo: the results before it       *)
(* follow the message that calls the tools.                                *)
AnsweredSoFar ==
  IF messages[Len(messages)].kind = "use" THEN 0 ELSE messages[Len(messages)].number
CallId == <<iteration, AnsweredSoFar + 1>>

-----------------------------------------------------------------------------
(* A run, and the agents of it                                             *)

StartAgent(n) ==
  /\ stages' = n
  /\ iteration' = 0 /\ agentUsage' = 0
  /\ IF n = 0
     THEN pc' = "idle" /\ messages' = <<>>
     ELSE pc' = "thinking" /\ messages' = Opening
  /\ sent' = <<>> /\ todo' = <<>>
  /\ blocked' = {} /\ written' = {}

(* run() of one agent or of the whole workflow.                            *)
Run ==
  /\ pc = "idle" /\ runs < MaxRuns
  /\ runs' = runs + 1
  /\ \E n \in {1, Stages} : StartAgent(n)
  /\ UNCHANGED <<totalUsage, spent, thrown>>

ReturnUncounted(tokens) ==
  /\ totalUsage' = totalUsage
  /\ StartAgent(stages - 1)
  /\ UNCHANGED <<runs, thrown>>

(* The agent returns its result, the context of the next one.              *)
Return(tokens) ==
  /\ totalUsage' = totalUsage + tokens
  /\ StartAgent(stages - 1)
  /\ UNCHANGED <<runs, thrown>>

MaxIterationsReached ==
  /\ pc = "thinking" /\ iteration = MaxIterations
  /\ Return(agentUsage)
  /\ UNCHANGED spent

-----------------------------------------------------------------------------
CompressedFront ==
  LET Upto(k) == SubSeq(messages, 3, k)
  IN  {messages} \union {Opening \o Upto(k) \o <<Marker>> : k \in 2..(Len(messages) - 1)}

(* compressContext(): the two opening messages and the end of the rest, as *)
(* much as the budget allows, which depends on the length of the texts.    *)
Compressed ==
  LET From(k) == SubSeq(messages, k, Len(messages))
  IN  {messages} \union {Opening \o <<Marker>> \o From(k) : k \in 4..(Len(messages) + 1)}

Ask ==
  /\ pc = "thinking" /\ iteration < MaxIterations
  /\ iteration' = iteration + 1
  /\ sent' \in Compressed
  /\ pc' = "asking"
  /\ UNCHANGED <<runs, stages, messages, todo, usage, effects>>

AskAgain ==
  /\ pc = "asking" /\ pc' = "thinking"
  /\ thrown' = TRUE
  /\ iteration' = iteration - 1 /\ sent' = <<>>
  /\ UNCHANGED <<runs, stages, messages, todo, agentUsage, totalUsage, spent, effects>>

(* The provider throws, and so does run(): what the agent has spent so far *)
(* is not added to the total.                                              *)
ProviderFails ==
  /\ pc = "asking"
  /\ thrown' = TRUE
  /\ StartAgent(0)
  /\ UNCHANGED <<runs, totalUsage, spent>>

AnswersText ==
  /\ pc = "asking"
  /\ spent' = spent + 1
  /\ Return(agentUsage + 1)

AnswersToolCalls ==
  /\ pc = "asking"
  /\ \E n \in 1..MaxCalls : \E calls \in [1..n -> Tools] :
       todo' = calls /\ messages' = Append(messages, ToolUse(calls))
  /\ spent' = spent + 1 /\ agentUsage' = agentUsage + 1
  /\ sent' = <<>>
  /\ pc' = "tools"
  /\ UNCHANGED <<place, totalUsage, thrown, effects>>

-----------------------------------------------------------------------------
(* _executeToolWithSafety()                                                *)

Start ==
  /\ pc = "tools" /\ todo # <<>>
  /\ pc' = (IF Gates /\ Head(todo) = "write" THEN "gating" ELSE "executing")
  /\ UNCHANGED <<place, messages, sent, todo, usage, effects>>

(* The gates approve, or throw, which is logged and no more.               *)
GatePasses ==
  /\ pc = "gating" /\ pc' = "executing"
  /\ UNCHANGED <<place, messages, sent, todo, usage, effects>>

(* The gates block, but their failures are not a list of failures: to name *)
(* them throws, which ends in the same catch block.                        *)
GateBlockLost ==
  /\ pc = "gating" /\ pc' = "executing"
  /\ UNCHANGED <<place, messages, sent, todo, usage, effects>>

(* The result goes into the conversation, whatever it is.                  *)
Conclude ==
  /\ messages' = Append(messages, Result(AnsweredSoFar + 1))
  /\ todo' = Tail(todo)
  /\ pc' = "tools"
  /\ UNCHANGED <<place, sent, usage>>

GateOnlyLogs ==
  /\ pc = "gating" /\ pc' = "executing"
  /\ blocked' = blocked \union {CallId}
  /\ UNCHANGED <<place, messages, sent, todo, usage, written>>

GateBlocks ==
  /\ pc = "gating"
  /\ blocked' = blocked \union {CallId}
  /\ Conclude
  /\ UNCHANGED written

(* The gateway does as asked; a write that fails in live mode falls back   *)
(* to the mock data and is reported as saved, a tool that throws or an     *)
(* absent gateway as an error.                                             *)
Execute ==
  /\ pc = "executing"
  /\ written' \in {written, written \union (IF Head(todo) = "write" THEN {CallId} ELSE {})}
  /\ Conclude
  /\ UNCHANGED blocked

ToolsDone ==
  /\ pc = "tools" /\ todo = <<>>
  /\ pc' = "thinking"
  /\ UNCHANGED <<place, messages, sent, todo, usage, effects>>

Agent ==
  \/ MaxIterationsReached \/ Ask \/ ProviderFails \/ AnswersText \/ AnswersToolCalls
  \/ Start \/ GatePasses \/ GateBlockLost \/ GateBlocks \/ Execute \/ ToolsDone

Next == Run \/ Agent

(* The provider, the gates and the gateway answer or throw.                *)
Spec == Init /\ [][Next]_vars
FairSpec == Spec /\ WF_vars(Agent)

-----------------------------------------------------------------------------
(* Properties                                                              *)

Message ==
  {System, Task, Marker} \union [kind : {"use"}, turn : Nat, calls : Nat]
    \union [kind : {"result"}, turn : Nat, number : Nat]

TypeOK ==
  /\ pc \in {"idle", "thinking", "asking", "tools", "gating", "executing"}
  /\ runs \in Nat /\ stages \in Nat /\ iteration \in Nat
  /\ messages \in Seq(Message) /\ sent \in Seq(Message) /\ todo \in Seq(Tools)
  /\ agentUsage \in Nat /\ totalUsage \in Nat /\ spent \in Nat /\ thrown \in BOOLEAN
  /\ blocked \subseteq Nat \X Nat /\ written \subseteq Nat \X Nat

(* As long as no call of the provider has failed, the session's total and  *)
(* the running agent's usage account for every token, also those of agents *)
(* that were stopped at the limit of iterations.                           *)
UsageCounted == ~thrown => totalUsage + agentUsage = spent

(* A call that the agent was told is blocked never reaches the SAP system. *)
BlockedNeverWritten == blocked \intersect written = {}

(* Whatever is cut, the model receives the system prompt and the task      *)
(* first, and after every message that calls tools the result of each of   *)
(* them, in order.                                                         *)
RequestWellFormed ==
  pc = "asking" =>
    /\ Len(sent) >= 2 /\ SubSeq(sent, 1, 2) = Opening
    /\ \A i \in DOMAIN sent :
         sent[i].kind = "use" =>
           \A n \in 1..sent[i].calls :
             /\ i + n \in DOMAIN sent
             /\ sent[i + n] = [kind |-> "result", turn |-> sent[i].turn, number |-> n]

(* Every run comes to an end, however long the model goes on to call       *)
(* tools.                                                                  *)
RunEnds == pc # "idle" ~> pc = "idle"
=============================================================================
