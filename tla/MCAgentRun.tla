----------------------------- MODULE MCAgentRun -----------------------------
(* AgentRun with a workflow of two agents, up to three iterations and two  *)
(* tool calls in an answer, and two runs on one orchestrator.              *)
EXTENDS AgentRun
=============================================================================
