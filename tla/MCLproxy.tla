------------------------------ MODULE MCLproxy ------------------------------
(* Lproxy on small sets, for TLC. *)
EXTENDS Lproxy, TLC

CONSTANTS h1, h2, h3, w1, w2, c1, c2, l1, l2

Symmetry ==
  Permutations(Handle) \cup Permutations(Worker) \cup Permutations(Ctx) \cup Permutations(Lib)
=============================================================================
