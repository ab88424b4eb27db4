------------------------------ MODULE Journal ------------------------------
(***************************************************************************)
(* The double-entry journal of books/accounting: draft entries are built   *)
(* line by line, posted once, and reversed at most once by a mirror entry. *)
(*                                                                         *)
(* Every operation is one committed transaction here; what happens when    *)
(* the statements of several transactions interleave is the subject of     *)
(* PostingSessions.  A refused operation changes nothing and is a step     *)
(* that is not enabled.                                                    *)
(***************************************************************************)
EXTENDS Integers, Sequences, FiniteSets, Functions

CONSTANTS
  EntryId,        \* primary keys of journal_entry
  LineId,         \* primary keys of journal_line
  Account,        \* the accounts lines refer to
  SystemAccount,  \* those with is_system set: they can never be inactive
  Amount,         \* the positive amounts a line may carry
  NoEntry,        \* reversing_entry_id IS NULL
  NoLine          \* no row with this key

ASSUME SystemAssumption == SystemAccount \subseteq Account
ASSUME AmountAssumption == Amount \subseteq Nat \ {0}
ASSUME NoEntryAssumption == NoEntry \notin EntryId

VARIABLES
  status,     \* "absent", "draft" or "posted", for every entry key
  reversing,  \* reversing_entry_id: the original an entry reverses
  line,       \* the rows of journal_line
  active,     \* the accounts with is_active set
  audit       \* the append-only audit log

vars == <<status, reversing, line, active, audit>>

Money == Amount \cup {0}
LineRow == [entry : EntryId, account : Account, debit : Money, credit : Money]

\* The CHECK constraints of journal_line: exactly one side is positive.
DebitXorCredit(row) ==
  \/ row.debit > 0 /\ row.credit = 0
  \/ row.debit = 0 /\ row.credit > 0

Line == {row \in LineRow : DebitXorCredit(row)}
ASSUME NoLineAssumption == NoLine \notin LineRow

-----------------------------------------------------------------------------
(* The lines of an entry in a line table, and what the services read off   *)
(* them.                                                                   *)

LinesOf(tbl, e) == {l \in LineId : tbl[l] # NoLine /\ tbl[l].entry = e}

DebitOf(tbl, e) == [l \in LinesOf(tbl, e) |-> tbl[l].debit]
CreditOf(tbl, e) == [l \in LinesOf(tbl, e) |-> tbl[l].credit]
Total(f) == FoldFunction(+, 0, f)
Balanced(tbl, e) == Total(DebitOf(tbl, e)) = Total(CreditOf(tbl, e))

AccountsOf(tbl, e) == {tbl[l].account : l \in LinesOf(tbl, e)}

\* _line_snapshot for every line of the entry; NoLine for all the others.
LineData == [account : Account, debit : Money, credit : Money]
Snapshot(tbl, e) ==
  [l \in LineId |->
     IF l \in LinesOf(tbl, e)
     THEN [account |-> tbl[l].account, debit |-> tbl[l].debit, credit |-> tbl[l].credit]
     ELSE NoLine]
ASSUME NoDataAssumption == NoLine \notin LineData

\* Fault: the totals are not compared.
PostableUnbalanced(tbl, e) ==
  /\ Cardinality(LinesOf(tbl, e)) >= 2
  /\ AccountsOf(tbl, e) \subseteq active

\* The validation of post_entry; every failed check refuses the post.
Postable(tbl, e) ==
  /\ Cardinality(LinesOf(tbl, e)) >= 2
  /\ AccountsOf(tbl, e) \subseteq active
  /\ Balanced(tbl, e)

AuditRow == [action : {"post_entry", "reverse_entry"}, entry : EntryId,
             original : EntryId \cup {NoEntry},
             lines : [LineId -> LineData \cup {NoLine}]]

\* Fault: the snapshot is taken before the lines are written.
PostRowEarly(tbl, e, o) == [action |-> "post_entry", entry |-> e, original |-> o,
                            lines |-> Snapshot(line, e)]
PostRow(tbl, e, o) == [action |-> "post_entry", entry |-> e, original |-> o,
                       lines |-> Snapshot(tbl, e)]
ReverseRow(tbl, e, o) == [action |-> "reverse_entry", entry |-> e, original |-> o,
                          lines |-> Snapshot(tbl, e)]

-----------------------------------------------------------------------------
Init ==
  /\ status = [e \in EntryId |-> "absent"]
  /\ reversing = [e \in EntryId |-> NoEntry]
  /\ line = [l \in LineId |-> NoLine]
  /\ active = Account
  /\ audit = << >>

\* JournalEntry.objects.create.  Keys of deleted drafts are used again, which
\* keeps EntryId finite: nothing refers to a deleted draft.
CreateEntry(e) ==
  /\ status[e] = "absent"
  /\ status' = [status EXCEPT ![e] = "draft"]
  /\ UNCHANGED <<reversing, line, active, audit>>

\* JournalEntry.delete: the lines go with the entry (CASCADE), and an
\* entry some reversal points at is PROTECTed.
DeleteEntry(e) ==
  /\ status[e] = "draft"
  /\ \A r \in EntryId : reversing[r] # e
  /\ status' = [status EXCEPT ![e] = "absent"]
  /\ line' = [l \in LineId |-> IF l \in LinesOf(line, e) THEN NoLine ELSE line[l]]
  /\ UNCHANGED <<reversing, active, audit>>

\* Fault: neither save() nor the trigger looks at the status.
WriteLineUnchecked(l, row) ==
  /\ status[row.entry] # "absent"
  /\ line' = [line EXCEPT ![l] = row]
  /\ UNCHANGED <<status, reversing, active, audit>>

\* JournalLine.save and the trigger behind it: both look up the status of the
\* entry the row is saved WITH, never of the entry it had before.
WriteLine(l, row) ==
  /\ status[row.entry] = "draft"
  /\ line' = [line EXCEPT ![l] = row]
  /\ UNCHANGED <<status, reversing, active, audit>>

InsertLine(l, row) == line[l] = NoLine /\ WriteLine(l, row)

\* An edit in place: account, side or amount, the entry stays.
UpdateLine(l, row) ==
  /\ line[l] # NoLine
  /\ row.entry = line[l].entry
  /\ WriteLine(l, row)

\* An edit that gives the line another entry.  No service of this repository
\* does it; save() and the trigger let any caller of the ORM do it.
ReparentLine(l, row) ==
  /\ line[l] # NoLine
  /\ row.entry # line[l].entry
  /\ WriteLine(l, row)

DeleteLine(l) ==
  /\ line[l] # NoLine
  /\ status[line[l].entry] = "draft"
  /\ line' = [line EXCEPT ![l] = NoLine]
  /\ UNCHANGED <<status, reversing, active, audit>>

PostEntry(e) ==
  /\ status[e] = "draft"
  /\ Postable(line, e)
  /\ status' = [status EXCEPT ![e] = "posted"]
  /\ audit' = Append(audit, PostRow(line, e, reversing[e]))
  /\ UNCHANGED <<reversing, line, active>>

\* Fault: the lines are negated.
MirrorNegated(row, r) == [entry |-> r, account |-> row.account,
                          debit |-> 0 - row.debit, credit |-> 0 - row.credit]
\* Fault: the lines are copied.
MirrorCopied(row, r) == [row EXCEPT !.entry = r]

\* What the reversal's line looks like: the sides swapped, the rest kept.
Mirror(row, r) == [entry |-> r, account |-> row.account,
                   debit |-> row.credit, credit |-> row.debit]

\* Fault: an entry may be reversed again.
ReversibleAgain(o) == status[o] = "posted" /\ reversing[o] = NoEntry

\* Fault: a reversal may be reversed.
ReversibleReversal(o) == status[o] = "posted" /\ \A e \in EntryId : reversing[e] # o

\* reverse_entry is for posted entries that are no reversals and have none.
Reversible(o) ==
  /\ status[o] = "posted"
  /\ reversing[o] = NoEntry
  /\ \A e \in EntryId : reversing[e] # o

\* reverse_entry of o as the new entry r; the new lines are the keys of g, and
\* g tells which line of o each of them mirrors.
ReverseEntry(o, r, g) ==
  /\ Reversible(o)
  /\ status[r] = "absent"
  /\ LET tbl == [l \in LineId |-> IF l \in DOMAIN g THEN Mirror(line[g[l]], r) ELSE line[l]]
     IN  /\ Postable(tbl, r)
         /\ line' = tbl
         /\ audit' = audit \o <<PostRow(tbl, r, o), ReverseRow(tbl, r, o)>>
  /\ status' = [status EXCEPT ![r] = "posted"]
  /\ reversing' = [reversing EXCEPT ![r] = o]
  /\ UNCHANGED active

\* Account.save of is_active; clean() keeps system accounts active.
SetActive(a) ==
  /\ active' = active \cup {a}
  /\ UNCHANGED <<status, reversing, line, audit>>

Deactivate(a) ==
  /\ a \notin SystemAccount
  /\ active' = active \ {a}
  /\ UNCHANGED <<status, reversing, line, audit>>

FreeLines == {l \in LineId : line[l] = NoLine}

Next ==
  \/ \E e \in EntryId : CreateEntry(e) \/ DeleteEntry(e) \/ PostEntry(e)
  \/ \E l \in LineId, row \in Line : InsertLine(l, row) \/ UpdateLine(l, row)
  \/ \E l \in LineId : DeleteLine(l)
  \/ \E o, r \in EntryId, new \in SUBSET FreeLines :
       \E g \in Bijection(new, LinesOf(line, o)) : ReverseEntry(o, r, g)
  \/ \E a \in Account : SetActive(a) \/ Deactivate(a)

Spec == Init /\ [][Next]_vars

\* The same journal under every write its own guards let through.
NextReparent == Next \/ \E l \in LineId, row \in Line : ReparentLine(l, row)
SpecReparent == Init /\ [][NextReparent]_vars

-----------------------------------------------------------------------------
(* What a correct journal promises.                                        *)

TypeOK ==
  /\ status \in [EntryId -> {"absent", "draft", "posted"}]
  /\ reversing \in [EntryId -> EntryId \cup {NoEntry}]
  /\ line \in [LineId -> Line \cup {NoLine}]
  /\ active \in SUBSET Account
  /\ audit \in Seq(AuditRow)

Posted == {e \in EntryId : status[e] = "posted"}

(* Every posted entry has at least two lines and its debits equal its      *)
(* credits, however its lines were written before and whatever is written  *)
(* to other entries after.                                                 *)
PostedBalanced ==
  \A e \in Posted : Cardinality(LinesOf(line, e)) >= 2 /\ Balanced(line, e)

(* A posted entry has at most one reversal, its reversal is posted as      *)
(* well, and no reversal is itself reversed: chains cannot form.           *)
ReversalStructure ==
  \A r \in EntryId : reversing[r] # NoEntry =>
    /\ status[r] = "posted"
    /\ status[reversing[r]] = "posted"
    /\ reversing[reversing[r]] = NoEntry
    /\ \A q \in EntryId : reversing[q] = reversing[r] => q = r

(* The lines of a reversal mirror those of its original one for one: same  *)
(* account, the sides swapped, at any time after the reversal was posted.  *)
Mirrors(row, of) == row.account = of.account /\ row.debit = of.credit /\ row.credit = of.debit
ReversalMirrors ==
  \A r \in EntryId : reversing[r] # NoEntry =>
    \E g \in Bijection(LinesOf(line, r), LinesOf(line, reversing[r])) :
      \A l \in LinesOf(line, r) : Mirrors(line[l], line[g[l]])

(* The audit log is the journal's own history: an entry has one post_entry *)
(* row exactly when it is posted, and the lines written into that row are  *)
(* the lines the entry has now.                                            *)
PostRows(e) == {i \in 1..Len(audit) : audit[i].action = "post_entry" /\ audit[i].entry = e}
AuditMatchesJournal ==
  \A e \in EntryId :
    IF status[e] = "posted"
    THEN \E i \in 1..Len(audit) : PostRows(e) = {i} /\ audit[i].lines = Snapshot(line, e)
    ELSE PostRows(e) = {}

\* The foreign key of journal_line, which ReversalMirrors rests on: a row never
\* outlives its entry.
LinesHaveEntry ==
  \A l \in LineId : line[l] # NoLine => status[line[l].entry] # "absent"

(* A posted entry is immutable: no step takes it away, unposts it, changes *)
(* its link to an original, or changes, adds or removes one of its lines.  *)
PostedImmutable ==
  [][\A e \in Posted : /\ status'[e] = "posted"
                       /\ reversing'[e] = reversing[e]
                       /\ Snapshot(line', e) = Snapshot(line, e)]_vars

(* Whoever reads the posted entries only, as every report does, sees an    *)
(* append-only ledger: entries arrive whole, sound and for good, and all   *)
(* the editing, deleting and closing of accounts is invisible.             *)
L == INSTANCE Ledger WITH book <- [e \in Posted |-> Snapshot(line, e)],
                          reverses <- [e \in Posted |-> reversing[e]]
ImplementsLedger == L!Spec
=============================================================================
