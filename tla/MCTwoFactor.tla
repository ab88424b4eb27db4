---------------------------- MODULE MCTwoFactor ----------------------------
(* Instances of TwoFactor for TLC. *)
EXTENDS TwoFactor, TLC

Requests == Permutations(Request)
=============================================================================
