----------------------------- MODULE Hierarchy -----------------------------
(***************************************************************************)
(* Chains of parents in the table of accounts, and the walk Account.clean  *)
(* does along one.  The chart and the reports have it in common.           *)
(***************************************************************************)
EXTENDS Integers, FiniteSets

CONSTANTS
  Account,    \* account_number, which is unique
  MaxDepth,   \* MAX_HIERARCHY_DEPTH
  NoAccount   \* parent_account IS NULL

\* The n-th ancestor of a, NoAccount above a root; a cycle comes back to a.
Ancestor(par, a, n) ==
  LET up[k \in 0..n] ==
        IF k = 0 THEN a ELSE IF up[k - 1] = NoAccount THEN NoAccount ELSE par[up[k - 1]]
  IN  up[n]

\* Fault: the account itself is not counted.
CleanHierarchyOffByOne(par, p) == Ancestor(par, p, MaxDepth) = NoAccount

\* The walk of Account.clean from the new parent p: it counts the account itself and
\* every node up to a root, in the chart as stored.  A walk that comes back to a node
\* is refused like one that is too long.
CleanHierarchy(par, p) == Ancestor(par, p, MaxDepth - 1) = NoAccount
=============================================================================
