---------------------------- MODULE MCAgentMessages ----------------------------
(***************************************************************************)
(* AgentMessages for TLC: two agents, a short and a long prompt.           *)
(***************************************************************************)
EXTENDS AgentMessages

MCBytes == [p \in Prompts |-> IF p = "short" THEN 2 ELSE 5]
===============================================================================
