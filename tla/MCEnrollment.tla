----------------------------- MODULE MCEnrollment -----------------------------
(* Bounds for Enrollment.  Calls, tokens and machines are each interchangeable *)
(* and only safety is checked, so the symmetry is sound.                       *)
EXTENDS Enrollment, TLC

Symmetry == Permutations(Calls) \cup Permutations(Tokens) \cup Permutations(Machines)
=============================================================================
