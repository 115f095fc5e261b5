------------------------------- MODULE MCHdb -------------------------------
(* Hdb on small sets, for TLC. *)
EXTENDS Hdb, TLC

CONSTANTS h1, h2, h3, h4, w1, w2, w3

Symmetry == Permutations(Handle) \cup Permutations(Worker)
=============================================================================
