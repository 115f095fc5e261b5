------------------------------ MODULE MCServer ------------------------------
(* Server on small sets, for TLC. *)
EXTENDS Server, TLC

Symmetry == Permutations(Conn) \cup Permutations(Worker)
=============================================================================
