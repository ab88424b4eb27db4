------------------------- MODULE MCPostingSessions -------------------------
(* Instances of PostingSessions for TLC. *)
EXTENDS PostingSessions, TLC

Keys == Permutations(Session) \cup Permutations(EntryId) \cup Permutations(LineId)
=============================================================================
