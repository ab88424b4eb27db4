-------------------------- MODULE ChartOfAccounts --------------------------
(***************************************************************************)
(* The account hierarchy.  Pages add and move accounts, each behind        *)
(* Account.clean and then a save of its own; seed_default_coa loads a      *)
(* chart after a count, reset_coa removes one bucket after bucket in one   *)
(* transaction.  All of them overlap.                                      *)
(***************************************************************************)
EXTENDS Hierarchy

CONSTANTS
  SystemAccount, \* the numbers of the system accounts
  Editor,        \* the requests that add or move an account
  MaxLined       \* bound: accounts with lines

ASSUME ChartAssumption ==
  /\ IsFiniteSet(Account) /\ SystemAccount \subseteq Account
  /\ MaxDepth \in Nat \ {0}
  /\ NoAccount \notin Account /\ MaxLined \in Nat

VARIABLES
  exists,    \* the accounts there are
  parent,    \* parent_account of each
  draftOn,   \* accounts that lines of draft entries refer to
  postedOn,  \* accounts that lines of posted entries refer to
  edit,      \* the row each request has cleaned and not saved: [acct, up, insert]
  seeding,   \* seed_default_coa has counted no user account and not written yet
  reset,     \* "idle", "checked" for lines, or "deleting" in its transaction
  buckets,   \* the depths it has read, of the accounts it deletes
  gone,      \* the accounts it has deleted and not committed
  overtaken, \* history: open requests since whose clean the chart has changed
  outrun,    \* history: the chart has changed since reset_coa read its depths
  coaRow     \* the COA row that the last step has written to the audit log

accountVars == <<exists, parent>>
lineVars == <<draftOn, postedOn>>
resetVars == <<reset, buckets, gone>>
chartHistory == <<overtaken, outrun>>
chartVars == <<exists, parent, draftOn, postedOn, edit, seeding, reset, buckets, gone,
               overtaken, outrun, coaRow>>

UserAccount == Account \ SystemAccount
\* Fault: the is_system filter is missing.
UsersAll == exists
Users == exists \cap UserAccount

NoEdit == [acct |-> NoAccount, up |-> NoAccount, insert |-> FALSE]
Open(r) == edit[r].acct # NoAccount

ChartInit ==
  /\ exists = {}
  /\ parent = [a \in Account |-> NoAccount]
  /\ draftOn = {} /\ postedOn = {}
  /\ edit = [r \in Editor |-> NoEdit]
  /\ seeding = FALSE
  /\ reset = "idle" /\ buckets = <<>> /\ gone = {}
  /\ overtaken = {} /\ outrun = FALSE
  /\ coaRow = "none"

NoRow == coaRow' = "none"

\* The chart has changed under everybody who has read it.
ChartChanges ==
  /\ overtaken' = {r \in Editor : edit'[r].acct # NoAccount}
  /\ outrun' = (reset' = "deleting")

-----------------------------------------------------------------------------
\* _validate_hierarchy of the loader, over the whole fixture.
ValidForest(accts, par) ==
  \A a \in accts : /\ par[a] \in accts \cup {NoAccount}
                   /\ Ancestor(par, a, MaxDepth) = NoAccount

\* Account.clean of a new account, or of an edit of parent_account; system accounts have
\* the field too.  It reads the chart as committed.
Clean(r, a, p) ==
  /\ ~Open(r)
  /\ a \in exists \cup UserAccount
  /\ p \in exists \cup {NoAccount}
  /\ CleanHierarchy(parent, p)
  /\ edit' = [edit EXCEPT ![r] = [acct |-> a, up |-> p, insert |-> a \notin exists]]
  /\ overtaken' = overtaken \ {r}
  /\ NoRow /\ UNCHANGED <<accountVars, lineVars, seeding, resetVars, outrun>>

\* Fault: a parent whose delete has not committed is taken for one that stays.
CanSaveUnlocked(r) == Open(r) /\ edit[r].acct \notin gone

\* The rows a save writes and refers to are locked by a reset that has deleted them.
CanSave(r) == Open(r) /\ {edit[r].acct, edit[r].up} \cap gone = {}

\* The save.  The number is unique and the parent a foreign key.  An UPDATE that finds
\* its row gone becomes an INSERT.
Save(r) ==
  LET a == edit[r].acct  p == edit[r].up IN
  /\ CanSave(r)
  /\ p \in exists \cup {a, NoAccount}
  /\ edit[r].insert => a \notin exists
  /\ exists' = exists \cup {a}
  /\ parent' = [parent EXCEPT ![a] = p]
  /\ edit' = [edit EXCEPT ![r] = NoEdit]
  /\ NoRow /\ UNCHANGED <<lineVars, seeding, resetVars>>
  /\ ChartChanges

\* The save is refused by a constraint, or the request ends without one.
GiveUp(r) ==
  /\ Open(r)
  /\ edit' = [edit EXCEPT ![r] = NoEdit]
  /\ overtaken' = overtaken \ {r}
  /\ NoRow /\ UNCHANGED <<accountVars, lineVars, seeding, resetVars, outrun>>

\* seed_default_coa counts user accounts, in front of its transaction.
SeedCount ==
  /\ ~seeding
  /\ IF Users = {} THEN seeding' = TRUE /\ NoRow
     ELSE coaRow' = "coa_seed_refused" /\ UNCHANGED seeding
  /\ UNCHANGED <<accountVars, lineVars, edit, resetVars, chartHistory>>

\* Fault: the parents of the fixture replace all there were.
SeedParentsOnly(f) == f

\* The second pass sets the parents of the fixture's accounts.
SeedParents(f) == [a \in Account |-> IF a \in DOMAIN f THEN f[a] ELSE parent[a]]

\* Its transaction, with a fixture of user accounts f: accounts |-> parent.
Seed(f) ==
  /\ seeding
  /\ ValidForest(DOMAIN f, f)
  /\ DOMAIN f \cap exists = {}
  /\ exists' = exists \cup SystemAccount \cup DOMAIN f
  /\ parent' = SeedParents(f)
  /\ seeding' = FALSE
  /\ coaRow' = "coa_seeded"
  /\ UNCHANGED <<lineVars, edit, resetVars>>
  /\ ChartChanges

\* A number is taken by now, or the command is killed: nothing is written.
SeedFails ==
  /\ seeding
  /\ seeding' = FALSE
  /\ NoRow /\ UNCHANGED <<accountVars, lineVars, edit, resetVars, chartHistory>>

-----------------------------------------------------------------------------
\* Lines are written on an account, their entry is posted, or the draft is dropped.
DraftLine(a) ==
  /\ a \in exists \ gone
  /\ draftOn' = draftOn \cup {a}
  /\ Cardinality(draftOn' \cup postedOn) <= MaxLined
  /\ NoRow /\ UNCHANGED <<accountVars, postedOn, edit, seeding, resetVars, chartHistory>>

PostLines ==
  /\ draftOn # {}
  /\ postedOn' = postedOn \cup draftOn
  /\ draftOn' = {}
  /\ NoRow /\ UNCHANGED <<accountVars, edit, seeding, resetVars, chartHistory>>

DropDrafts ==
  /\ draftOn' = {}
  /\ NoRow /\ UNCHANGED <<accountVars, postedOn, edit, seeding, resetVars, chartHistory>>

-----------------------------------------------------------------------------
\* reset_coa, outside any transaction: no posted entry, no line.
ResetCheck ==
  /\ reset = "idle"
  /\ IF postedOn # {} \/ draftOn # {}
     THEN coaRow' = "coa_reset_refused" /\ UNCHANGED reset
     ELSE reset' = "checked" /\ NoRow
  /\ UNCHANGED <<accountVars, lineVars, edit, seeding, buckets, gone, chartHistory>>

\* Fault: one bucket for all accounts.
DepthFlat(a) == 0

\* _user_account_depth_buckets: the depth of a user account within user accounts; a
\* cycle ends the walk.
Depth(a) ==
  LET above(n) == Ancestor(parent, a, n)
      inTree(n) == \A m \in 1..n : above(m) \in Users /\ \A k \in 0..(m - 1) : above(k) # above(m)
  IN  Cardinality({n \in 0..Cardinality(Account) : inTree(n)})

\* The transaction reads the user accounts and groups them by depth.
ResetRead ==
  /\ reset = "checked"
  /\ reset' = "deleting"
  /\ buckets' = [a \in Users |-> Depth(a)]
  /\ outrun' = FALSE
  /\ NoRow /\ UNCHANGED <<accountVars, lineVars, edit, seeding, gone, overtaken>>

Left == DOMAIN buckets \ gone
Deepest == {a \in Left : \A b \in Left : buckets[b] <= buckets[a]}

\* PROTECT: an account with lines, or with a child that is not gone already, is not
\* deleted, not even along with that child.
Protected(ids) ==
  \/ ids \cap (draftOn \cup postedOn) # {}
  \/ \E c \in exists \ gone : parent[c] \in ids

\* One bucket, the deepest there is left, in one statement.
ResetDelete ==
  /\ reset = "deleting" /\ Left # {}
  /\ ~Protected(Deepest)
  /\ gone' = gone \cup Deepest
  /\ NoRow /\ UNCHANGED <<accountVars, lineVars, edit, seeding, reset, buckets, chartHistory>>

ResetCommit ==
  /\ reset = "deleting" /\ Left = {}
  /\ exists' = exists \ gone
  /\ parent' = [a \in Account |-> IF a \in gone THEN NoAccount ELSE parent[a]]
  /\ edit' = [r \in Editor |-> IF edit[r].acct \in gone THEN [edit[r] EXCEPT !.insert = TRUE] ELSE edit[r]]
  /\ coaRow' = "coa_reset"
  /\ reset' = "idle" /\ buckets' = <<>> /\ gone' = {}
  /\ UNCHANGED <<lineVars, seeding>>
  /\ ChartChanges

\* ProtectedError, or the command is killed: nothing is deleted.
ResetFails ==
  /\ reset # "idle"
  /\ reset' = "idle" /\ buckets' = <<>> /\ gone' = {} /\ outrun' = FALSE
  /\ NoRow /\ UNCHANGED <<accountVars, lineVars, edit, seeding, overtaken>>

EditRequests ==
  \E r \in Editor :
    \/ \E a \in Account, p \in Account \cup {NoAccount} : Clean(r, a, p)
    \/ Save(r) \/ GiveUp(r)

ChartNext ==
  \/ EditRequests
  \/ SeedCount \/ SeedFails
  \/ \E S \in SUBSET UserAccount : \E f \in [S -> S \cup {NoAccount}] : Seed(f)
  \/ \E a \in Account : DraftLine(a)
  \/ PostLines \/ DropDrafts
  \/ ResetCheck \/ ResetRead \/ ResetDelete \/ ResetCommit \/ ResetFails

ChartSpec == ChartInit /\ [][ChartNext]_chartVars

-----------------------------------------------------------------------------
CleanedRow == [acct : Account \cup {NoAccount}, up : Account \cup {NoAccount}, insert : BOOLEAN]

ChartTypeOK ==
  /\ exists \subseteq Account
  /\ parent \in [Account -> Account \cup {NoAccount}]
  /\ draftOn \subseteq Account /\ postedOn \subseteq Account
  /\ edit \in [Editor -> CleanedRow] /\ overtaken \subseteq Editor
  /\ seeding \in BOOLEAN /\ outrun \in BOOLEAN
  /\ reset \in {"idle", "checked", "deleting"}
  /\ DOMAIN buckets \subseteq Account /\ \A a \in DOMAIN buckets : buckets[a] \in Nat
  /\ gone \subseteq DOMAIN buckets
  /\ coaRow \in {"none", "coa_seeded", "coa_seed_refused", "coa_reset", "coa_reset_refused"}

(* No account is deeper than MaxDepth, however the chart was built up.     *)
DepthCapped == \A a \in exists : Ancestor(parent, a, MaxDepth) = NoAccount

(* No account is its own ancestor.                                         *)
Acyclic == \A a \in exists : \A n \in 1..Cardinality(Account) : Ancestor(parent, a, n) # a

(* A chain of parents never has more than MaxDepth different accounts.     *)
NoLongChain ==
  \A a \in exists : Acyclic => Ancestor(parent, a, MaxDepth) = NoAccount

(* Parents and the accounts of lines are accounts there are, although      *)
(* reset_coa checks for lines before the transaction that deletes, reads   *)
(* the chart before it deletes, and edits are saved in between.            *)
NoDangling ==
  /\ draftOn \cup postedOn \subseteq exists
  /\ \A a \in exists : parent[a] \in exists \cup {NoAccount}

\* The request saves now, and moves an account that has children or puts it under itself.
SavesNow(r) == Open(r) /\ edit'[r].acct = NoAccount
MovesTree(r) == edit[r].up = edit[r].acct \/ \E c \in exists : parent[c] = edit[r].acct

(* The cap on depth is only ever broken by a save whose clean is out of    *)
(* date, or by one that moves an account together with what is under it.   *)
(* Saves that overlap nothing, the loader and a reset at any point of      *)
(* either keep it.                                                         *)
CleanMovesKeepCap ==
  [][DepthCapped /\ ~DepthCapped' =>
       \E r \in Editor : SavesNow(r) /\ (r \in overtaken \/ MovesTree(r))]_chartVars

(* The same without the excuse of a clean that is out of date.             *)
OverlapKeepsCap ==
  [][DepthCapped /\ ~DepthCapped' => \E r \in Editor : SavesNow(r) /\ MovesTree(r)]_chartVars

(* While there are no lines, and the chart is the one it has read, has no  *)
(* cycle and no system account under a user account, the next bucket of    *)
(* reset_coa is not refused: deepest first meets no PROTECTed parent.      *)
ResetGetsThrough ==
  (/\ reset = "deleting" /\ ~outrun
   /\ draftOn \cup postedOn = {}
   /\ Acyclic /\ \A a \in exists \cap SystemAccount : parent[a] \notin Users)
  => ~Protected(Deepest)

(* Accounts only disappear in a reset that is logged, and it removes all   *)
(* the accounts it has read and no other: system accounts stay, so do user *)
(* accounts added since, and none of them is under an account that is gone *)
(* by then.                                                                *)
ResetKeepsSystem ==
  [][exists \ exists' # {} =>
       /\ coaRow' = "coa_reset"
       /\ exists \ exists' = DOMAIN buckets
       /\ DOMAIN buckets \cap SystemAccount = {}
       /\ \A a \in exists' : parent'[a] \in exists' \cup {NoAccount}]_chartVars
=============================================================================
