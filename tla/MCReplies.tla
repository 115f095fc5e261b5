----------------------------- MODULE MCReplies -----------------------------
(* Replies with sizes scaled down, for TLC. *)
EXTENDS Replies, TLC

CONSTANTS w1, w2

TwoAndOne == w1 :> 2 @@ w2 :> 1
=============================================================================
