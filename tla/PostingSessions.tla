-------------------------- MODULE PostingSessions --------------------------
(***************************************************************************)
(* The posting, reversing and deleting services as concurrent database     *)
(* sessions.  One action is one statement of a READ COMMITTED transaction  *)
(* (or several that no other session can come between with effect); what a *)
(* transaction writes shows in the tables when it commits.  A statement    *)
(* that writes a line is a transaction of its own (autocommit): the        *)
(* trigger sees the entry's status when it runs, the row shows when it     *)
(* commits.                                                                *)
(*                                                                         *)
(* The tables are the variables of Journal, so that a commit can be        *)
(* compared with the operation it stands for.                              *)
(***************************************************************************)
EXTENDS Integers, Sequences, FiniteSets, Functions

CONSTANTS
  Session,
  EntryId, LineId, Account, SystemAccount, Amount, NoEntry, NoLine,  \* see Journal
  MaxOpen,  \* bound: line writes open at a time
  MaxLines  \* bound: lines of a draft

VARIABLES
  status, reversing, line, active, audit,  \* the committed tables
  writing,                                 \* the write of each line that is not committed
  session                                  \* what each session is in the middle of

tables == <<status, reversing, line, active, audit, writing>>
vars == <<tables, session>>

J == INSTANCE Journal

\* What Journal assumes of them.
ASSUME SessionAssumption ==
  /\ SystemAccount \subseteq Account /\ Amount \subseteq Nat \ {0}
  /\ NoEntry \notin EntryId /\ NoLine \notin J!LineRow \cup J!LineData

\* op, pc: the service called and how far it got; entry, inst: the instance it was
\* given and the status that instance was loaded with; lines: what it read of the
\* journal_line table; made: the key of the reversal it inserted.
Idle == [op |-> "none", pc |-> "idle", entry |-> NoEntry, inst |-> "absent",
         lines |-> [l \in LineId |-> NoLine], made |-> NoEntry]

LinesIn(snapshot) == {l \in LineId : snapshot[l] # NoLine}

\* The entry the trigger looked up, and the row that will be there: NoLine for a DELETE.
NoWrite == [entry |-> NoEntry, row |-> NoLine]

Init ==
  /\ J!Init
  /\ session = [s \in Session |-> Idle]
  /\ writing = [l \in LineId |-> NoWrite]

At(s, op, pc) == session[s].op = op /\ session[s].pc = pc
Goto(s, pc) == session' = [session EXCEPT ![s].pc = pc]
\* An exception leaves the service: the transaction is rolled back.
Raise(s) == session' = [session EXCEPT ![s] = Idle] /\ UNCHANGED tables

\* Sessions whose UPDATE or DELETE of the entry's row is not committed yet.
RowLocked(s, e) ==
  \E t \in Session \ {s} : session[t].entry = e /\ session[t].pc = "written"

\* Line writes hold their row until they commit.
Free(l) == writing[l] = NoWrite
FreeLines == {l \in J!FreeLines : Free(l)}

\* Fault: no unique index.
ReversalNeverPending(s, o) == FALSE

\* Reversals of o that are inserted and not committed: an INSERT of a second one
\* waits on the unique index one_reversal_per_original.
ReversalPending(s, o) ==
  \E t \in Session \ {s} : session[t].entry = o /\ session[t].made # NoEntry

\* No write of a line of e is open.
Complete(e) == \A l \in LineId : writing[l].entry # e

\* A key is never given out again while somebody still knows the row that had it.
FreshKey(e) ==
  /\ status[e] = "absent" /\ Complete(e)
  /\ \A t \in Session : session[t].made # e /\ session[t].entry # e

-----------------------------------------------------------------------------
\* The caller fetches the instance it passes on; the tables may change between this
\* and anything the service does with it.
Load(s, op, e) ==
  /\ session[s] = Idle
  /\ status[e] # "absent"
  /\ session' = [session EXCEPT ![s] = [Idle EXCEPT !.op = op, !.pc = "loaded",
                                                    !.entry = e, !.inst = status[e]]]
  /\ UNCHANGED tables

(* post_entry *)

\* The status check is on the instance; the lines and their accounts are one query.
PostValidate(s) ==
  LET e == session[s].entry IN
  /\ At(s, "post", "loaded")
  /\ IF session[s].inst = "draft" /\ J!Postable(line, e)
     THEN /\ session' = [session EXCEPT ![s].pc = "validated",
                                        ![s].lines = J!Snapshot(line, e)]
          /\ UNCHANGED tables
     ELSE Raise(s)

\* JournalEntry.save looks up the stored status first ...
PostSelect(s) ==
  /\ At(s, "post", "validated")
  /\ IF status[session[s].entry] # "posted"
     THEN Goto(s, "saving") /\ UNCHANGED tables
     ELSE Raise(s)

\* Fault: no trigger, the UPDATE takes the row as it is.
PostUpdateBlind(s) ==
  /\ At(s, "post", "saving")
  /\ ~RowLocked(s, session[s].entry)
  /\ Goto(s, "written") /\ UNCHANGED tables

\* ... and then updates.  The UPDATE waits for the row lock; the trigger runs on the
\* row as it is then.  No row: save(update_fields=...) raises.
PostUpdate(s) ==
  LET e == session[s].entry IN
  /\ At(s, "post", "saving")
  /\ ~RowLocked(s, e)
  /\ IF status[e] = "draft" THEN Goto(s, "written") /\ UNCHANGED tables ELSE Raise(s)

\* The audit row tells the lines as they were read for validation.
PostCommit(s) ==
  LET e == session[s].entry IN
  /\ At(s, "post", "written")
  /\ status' = [status EXCEPT ![e] = "posted"]
  /\ audit' = Append(audit, [action |-> "post_entry", entry |-> e,
                             original |-> reversing[e], lines |-> session[s].lines])
  /\ session' = [session EXCEPT ![s] = Idle]
  /\ UNCHANGED <<reversing, line, active, writing>>

(* reverse_entry *)

ReverseCheck(s) ==
  LET o == session[s].entry IN
  /\ At(s, "reverse", "loaded")
  /\ IF session[s].inst = "posted" /\ reversing[o] = NoEntry
          /\ \A e \in EntryId : reversing[e] # o
     THEN Goto(s, "checked") /\ UNCHANGED tables
     ELSE Raise(s)

ReverseInsert(s, r) ==
  LET o == session[s].entry IN
  /\ At(s, "reverse", "checked")
  /\ ~ReversalPending(s, o)
  /\ FreshKey(r)
  /\ IF \A e \in EntryId : reversing[e] # o
     THEN /\ session' = [session EXCEPT ![s].pc = "inserted", ![s].made = r]
          /\ UNCHANGED tables
     ELSE Raise(s)

\* The rest works on rows only this session sees: mirror the original's lines, post
\* the reversal through post_entry, write both audit rows, commit.  What others commit
\* between its reads and its commit, a closed account or a late write of a line of the
\* original, may as well come after it: neither takes notice of the reversal.
ReverseCommit(s, g) ==
  LET o == session[s].entry
      r == session[s].made
      tbl == [l \in LineId |-> IF l \in DOMAIN g THEN J!Mirror(line[g[l]], r) ELSE line[l]]
  IN
  /\ At(s, "reverse", "inserted")
  /\ IF J!Postable(tbl, r)
     THEN /\ status' = [status EXCEPT ![r] = "posted"]
          /\ reversing' = [reversing EXCEPT ![r] = o]
          /\ line' = tbl
          /\ audit' = audit \o <<J!PostRow(tbl, r, o), J!ReverseRow(tbl, r, o)>>
          /\ session' = [session EXCEPT ![s] = Idle]
          /\ UNCHANGED <<active, writing>>
     ELSE Raise(s)

(* JournalEntry.delete: lines first, then the entry, in one transaction *)

DeleteLines(s) ==
  LET e == session[s].entry IN
  /\ At(s, "delete", "loaded")
  /\ IF session[s].inst # "posted" /\ status[e] = "draft"
     THEN /\ \A l \in J!LinesOf(line, e) : Free(l)  \* waits for their rows
          /\ session' = [session EXCEPT ![s].pc = "emptied",
                                        ![s].lines = J!Snapshot(line, e)]
          /\ UNCHANGED tables
     ELSE Raise(s)

\* Fault: no trigger, the DELETE takes a row that was posted meanwhile.
DeleteRowBlind(s) ==
  /\ At(s, "delete", "emptied")
  /\ ~RowLocked(s, session[s].entry)
  /\ Goto(s, "written") /\ UNCHANGED tables

DeleteRow(s) ==
  LET e == session[s].entry IN
  /\ At(s, "delete", "emptied")
  /\ ~RowLocked(s, e)
  /\ IF status[e] = "draft" THEN Goto(s, "written") /\ UNCHANGED tables ELSE Raise(s)

\* The deferred foreign key refuses the commit if a line came in meanwhile.
DeleteCommit(s) ==
  LET e == session[s].entry IN
  /\ At(s, "delete", "written")
  /\ IF J!LinesOf(line, e) = LinesIn(session[s].lines)
     THEN /\ status' = [status EXCEPT ![e] = "absent"]
          /\ line' = [l \in LineId |-> IF l \in J!LinesOf(line, e) THEN NoLine ELSE line[l]]
          /\ session' = [session EXCEPT ![s] = Idle]
          /\ UNCHANGED <<reversing, active, audit, writing>>
     ELSE Raise(s)

\* Keys are unlimited in the database and few in an instance: when they run out the
\* service raises instead of waiting for one.
OutOfKeys(s) ==
  /\ \/ At(s, "reverse", "checked") /\ \A r \in EntryId : ~FreshKey(r)
     \/ At(s, "reverse", "inserted")
          /\ Cardinality(FreeLines) < Cardinality(J!LinesOf(line, session[s].entry))
  /\ Raise(s)

\* The process dies or the connection drops in the middle of a service.
Crash(s) == session[s].pc # "idle" /\ Raise(s)

Step(s) ==
  \/ PostValidate(s) \/ PostSelect(s) \/ PostUpdate(s) \/ PostCommit(s)
  \/ ReverseCheck(s)
  \/ \E r \in EntryId : ReverseInsert(s, r)
  \/ \E new \in SUBSET FreeLines :
       \E g \in Bijection(new, J!LinesOf(line, session[s].entry)) : ReverseCommit(s, g)
  \/ DeleteLines(s) \/ DeleteRow(s) \/ DeleteCommit(s)
  \/ OutOfKeys(s)

-----------------------------------------------------------------------------
(* Drafts are written by statements of their own.                          *)

\* A writer waits for rows a deleting session has not committed.
Deleting(l) ==
  \E t \in Session : session[t].op = "delete" /\ session[t].pc \in {"emptied", "written"}
                       /\ l \in LinesIn(session[t].lines)

\* The foreign key of a row waits (FOR KEY SHARE) for an uncommitted DELETE of its entry.
EntryDeleting(e) == \E t \in Session : At(t, "delete", "written") /\ session[t].entry = e

\* Fault: neither save() nor the trigger looks at the status.
WritableAlways(e) == status[e] # "absent"

\* The status check of JournalLine.save and delete and of the trigger behind them.
Writable(e) == status[e] = "draft"

WithinBounds(l, e) ==
  /\ Cardinality({k \in LineId : ~Free(k)}) < MaxOpen
  /\ Cardinality({k \in LineId : k = l \/ k \in J!LinesOf(line, e) \/ writing[k].entry = e}) <= MaxLines

\* An INSERT, UPDATE or DELETE of a line of e, up to the trigger and the row lock.
BeginWrite(l, e, row) ==
  /\ Free(l) /\ ~Deleting(l)
  /\ row # NoLine => row.entry = e
  /\ IF line[l] = NoLine THEN row # NoLine ELSE line[l].entry = e
  /\ Writable(e) /\ WithinBounds(l, e)
  /\ writing' = [writing EXCEPT ![l] = [entry |-> e, row |-> row]]
  /\ UNCHANGED <<status, reversing, line, active, audit, session>>

\* Its commit, which looks at the status no more; the deferred foreign key needs the entry.
CommitWrite(l) ==
  /\ ~Free(l)
  /\ writing[l].row # NoLine =>
       status[writing[l].entry] # "absent" /\ ~EntryDeleting(writing[l].entry)
  /\ line' = [line EXCEPT ![l] = writing[l].row]
  /\ writing' = [writing EXCEPT ![l] = NoWrite]
  /\ UNCHANGED <<status, reversing, active, audit, session>>

\* It is rolled back: by the foreign key, or the connection drops.
CancelWrite(l) ==
  /\ ~Free(l)
  /\ writing' = [writing EXCEPT ![l] = NoWrite]
  /\ UNCHANGED <<status, reversing, line, active, audit, session>>

CreateDraft(e) == FreshKey(e) /\ J!CreateEntry(e) /\ UNCHANGED <<session, writing>>

\* Account.save of is_active, at any time.
SetAccountActive(a) == (J!SetActive(a) \/ J!Deactivate(a)) /\ UNCHANGED <<session, writing>>

\* What the repository's own callers do: the lines of an entry are written and committed
\* before anyone is handed the entry to post, reverse or delete it.
InUse(e) == \E t \in Session : session[t].entry = e
LoadComplete(s, op, e) == Complete(e) /\ Load(s, op, e)
BeginOwnWrite(l, e, row) == ~InUse(e) /\ BeginWrite(l, e, row)

Rows == J!Line \cup {NoLine}
Common ==
  \/ \E s \in Session : Step(s) \/ Crash(s)
  \/ \E e \in EntryId : CreateDraft(e)
  \/ \E l \in LineId : CommitWrite(l) \/ CancelWrite(l)
  \/ \E a \in Account : SetAccountActive(a)

\* The services as this repository calls them.
NextServices ==
  \/ Common
  \/ \E s \in Session, op \in {"post", "reverse", "delete"}, e \in EntryId : LoadComplete(s, op, e)
  \/ \E l \in LineId, e \in EntryId, row \in Rows : BeginOwnWrite(l, e, row)
SpecServices == Init /\ [][NextServices]_vars

\* The services with every write the tables accept going on at the same time.
NextOpen ==
  \/ Common
  \/ \E s \in Session, op \in {"post", "reverse", "delete"}, e \in EntryId : Load(s, op, e)
  \/ \E l \in LineId, e \in EntryId, row \in Rows : BeginWrite(l, e, row)
SpecOpen == Init /\ [][NextOpen]_vars

-----------------------------------------------------------------------------
PC == {"idle", "loaded", "validated", "saving", "checked", "inserted", "emptied", "written"}

TypeOK ==
  /\ J!TypeOK
  /\ \A s \in Session :
       /\ session[s].op \in {"none", "post", "reverse", "delete"}
       /\ session[s].pc \in PC
       /\ session[s].entry \in EntryId \cup {NoEntry}
       /\ session[s].inst \in {"absent", "draft", "posted"}
       /\ session[s].lines \in [LineId -> J!LineData \cup {NoLine}]
       /\ session[s].made \in EntryId \cup {NoEntry}
  /\ \A l \in LineId : ~Free(l) =>
       /\ writing[l] \in [entry : EntryId, row : Rows]
       /\ writing[l].row # NoLine => writing[l].row.entry = writing[l].entry

(* Every interleaving of the services, with drafts written and accounts    *)
(* closed and opened again meanwhile, is a sequence of whole operations of *)
(* the journal: nothing is half done, and no check has gone stale when its *)
(* transaction commits but the one for closed accounts.  The journal it is *)
(* compared with has its accounts always open.                             *)
JA == INSTANCE Journal WITH active <- Account
ImplementsJournal == JA!Spec

(* Two sessions never hold the row of one entry, and a reversal of an      *)
(* original that is inserted and not committed is the only one the         *)
(* original has or is about to get: what the row lock and the unique index *)
(* give the services, whose own checks are on instances read earlier.      *)
Exclusion ==
  /\ \A s, t \in Session : s # t /\ session[s].entry = session[t].entry =>
       /\ ~(session[s].pc = "written" /\ session[t].pc = "written")
       /\ ~(session[s].made # NoEntry /\ session[t].made # NoEntry)
  /\ \A s \in Session : session[s].made # NoEntry =>
       \A e \in EntryId : reversing[e] # session[s].entry

(* Whatever else is written at the same time, an entry is posted once: it  *)
(* has one post_entry row if it is posted and none if it is not.           *)
PostedOnce ==
  \A e \in EntryId : Cardinality(J!PostRows(e)) = IF status[e] = "posted" THEN 1 ELSE 0

(* A posted entry that no write is open on is immutable, whoever writes    *)
(* lines: the trigger lets no new write begin, and none begun while it was *)
(* a draft is left.                                                        *)
Settled(e) == status[e] = "posted" /\ Complete(e)
SettledImmutable ==
  [][\A e \in EntryId : Settled(e) => /\ Settled(e)'
                                      /\ reversing'[e] = reversing[e]
                                      /\ J!Snapshot(line', e) = J!Snapshot(line, e)]_vars

(* The triggers are there for more: a posted entry is immutable.           *)
PostedImmutable == J!PostedImmutable

(* What post_entry is for: every posted entry balances and has two lines.  *)
PostedBalanced == J!PostedBalanced
=============================================================================
