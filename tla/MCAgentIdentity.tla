--------------------------- MODULE MCAgentIdentity ---------------------------
(* AgentIdentity for TLC: two hub URLs; the constants are in the .cfg files. *)
EXTENDS AgentIdentity
=============================================================================
