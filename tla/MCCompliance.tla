---------------------------- MODULE MCCompliance ----------------------------
(* Compliance for TLC: days of two hours; the constants are in the .cfg files. *)
EXTENDS Compliance

Symmetry == Permutations(Replicas)

\* Bound: a behaviour has its clock set back or its statements fail; more than
\* one replica at a time is looked at for two hours and two records.
Bound ==
  /\ setBacks = 0 \/ faults = 0
  /\ Cardinality(up) > 1 =>
       /\ clock <= 4 /\ setBacks = 0 /\ faults = 0
       /\ Len(log) + Cardinality({r \in Replicas : listener[r].at # "idle"}) <= 2
=============================================================================
