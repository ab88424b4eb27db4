-------------------------- MODULE MCRollbackDrill --------------------------
(* Instances of RollbackDrill for TLC. *)
EXTENDS RollbackDrill

CONSTANTS e1, e2, MaxRows

Effects == [e \in Entry |-> IF e = e1 THEN 5 ELSE 0]
AllSpot == [e \in Entry |-> 5]

\* Bounds: rows of the audit log, one mishap to a behaviour, and a verdict ends it.
Bounded == Len(db.log) <= MaxRows /\ faults + restores <= 1 /\ drill.pc \notin {"passed", "failed", "dead"}
=============================================================================
