----------------------------- MODULE MCTransfer -----------------------------
(* Transfer and Supervisor on small sets, for TLC. *)
EXTENDS Transfer, TLC

CONSTANTS here, there, self
=============================================================================
