----------------------------- MODULE MCAgentQueue -----------------------------
(* AgentQueue for TLC: constants are given in the .cfg files. *)
EXTENDS AgentQueue
=============================================================================
