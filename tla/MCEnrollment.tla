----------------------------- MODULE MCEnrollment -----------------------------
(* Enrollment for TLC: two concurrent hellos, one token with a single use,
   one machine. *)
EXTENDS Enrollment, TLC

CONSTANTS r1, r2, t1, m1

MCMaxUses == t1 :> 1
Symmetry == Permutations(Requests)
=============================================================================
