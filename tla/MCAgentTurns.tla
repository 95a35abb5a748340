---------------------------- MODULE MCAgentTurns ----------------------------
(* Bounded instances of AgentTurns.                                        *)
EXTENDS AgentTurns
=============================================================================
