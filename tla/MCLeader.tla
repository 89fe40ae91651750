------------------------------ MODULE MCLeader ------------------------------
\* Instance of Leader for TLC: three replicas.
EXTENDS Leader
=============================================================================
