-------------------------- MODULE MCOpeningBalance --------------------------
(* Instances of OpeningBalance for TLC. *)
EXTENDS OpeningBalance, TLC

Keys == Permutations(Session) \cup Permutations(EntryId)
=============================================================================
