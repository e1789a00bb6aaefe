---------------------------- MODULE MCAgentStatus ----------------------------
(* Instances of AgentStatus for TLC. *)
EXTENDS AgentStatus
==============================================================================
