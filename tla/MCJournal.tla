----------------------------- MODULE MCJournal -----------------------------
(* Instances of Journal for TLC. *)
EXTENDS Journal, TLC

CONSTANT MaxDraftLines  \* bound: the lines of all drafts together

SmallDrafts ==
  Cardinality({l \in LineId : line[l] # NoLine /\ status[line[l].entry] = "draft"})
    <= MaxDraftLines

Keys == Permutations(EntryId) \cup Permutations(LineId)
=============================================================================
