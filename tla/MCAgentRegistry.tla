-------------------------- MODULE MCAgentRegistry --------------------------
(* Small instances of AgentRegistry for TLC.                               *)
EXTENDS AgentRegistry, TLC

CONSTANTS a1, o1, o2, c1

============================================================================
