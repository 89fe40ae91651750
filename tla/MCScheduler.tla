---------------------------- MODULE MCScheduler ----------------------------
\* Instance of Scheduler for TLC: two controller replicas.
EXTENDS Scheduler
=============================================================================
