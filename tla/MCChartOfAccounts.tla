------------------------- MODULE MCChartOfAccounts -------------------------
(* Instances of ChartOfAccounts for TLC. *)
EXTENDS ChartOfAccounts, TLC

Numbers == Permutations(UserAccount) \cup Permutations(Editor)

\* Bound: while there are lines, one request at most has a row to save.
Sparse == draftOn \cup postedOn # {} => Cardinality({r \in Editor : Open(r)}) <= 1
=============================================================================
