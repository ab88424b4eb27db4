--------------------------- MODULE PostingProofs ---------------------------
(***************************************************************************)
(* The services as concurrent transactions, proved for any number of       *)
(* sessions, entries and lines: what holds whoever writes lines meanwhile  *)
(* (SpecOpen), and that the services as this repository calls them         *)
(* implement the journal (SpecServices).                                   *)
(***************************************************************************)
EXTENDS PostingSessions, FiniteSetTheorems, TLAPS

-----------------------------------------------------------------------------
(* The invariant.                                                          *)

Snapshots == [LineId -> J!LineData \cup {NoLine}]
SessionRows ==
  [op : {"none", "post", "reverse", "delete"}, pc : PC, entry : EntryId \cup {NoEntry},
   inst : {"absent", "draft", "posted"}, lines : Snapshots, made : EntryId \cup {NoEntry}]

(* How far a session may have got in which service, and who has inserted a *)
(* reversal.                                                               *)
Course(x) ==
  /\ x.op = "none" => x = Idle
  /\ x.op = "post" => x.pc \in {"loaded", "validated", "saving", "written"}
  /\ x.op = "reverse" => x.pc \in {"loaded", "checked", "inserted"}
  /\ x.op = "delete" => x.pc \in {"loaded", "emptied", "written"}
  /\ x.op # "none" => x.entry \in EntryId
  /\ x.made # NoEntry <=> x.pc = "inserted"

(* What a session may rely on at its step, whatever others have committed  *)
(* since: st and rev are the tables of entries and of links.               *)
Relies(x, st, rev) ==
  /\ x.op # "none" /\ x.inst = "posted" => st[x.entry] = "posted"
  /\ x.pc = "written" => st[x.entry] = "draft"
  /\ x.pc \in {"checked", "inserted"} => st[x.entry] = "posted" /\ rev[x.entry] = NoEntry
  /\ x.pc = "inserted" => st[x.made] = "absent" /\ \A e \in EntryId : rev[e] # x.entry

(* What the row lock, the unique index and the key sequence keep apart.    *)
Apart(x, y) ==
  /\ x.pc = "written" /\ y.pc = "written" => x.entry # y.entry
  /\ x.pc = "inserted" /\ y.pc = "inserted" => x.entry # y.entry /\ x.made # y.made
  /\ x.pc = "inserted" => x.made # y.entry
  /\ y.pc = "inserted" => y.made # x.entry

(* An entry has one post_entry row when it is posted and none otherwise.   *)
Logged(e) ==
  IF status[e] = "posted" THEN \E i \in 1..Len(audit) : J!PostRows(e) = {i}
                          ELSE J!PostRows(e) = {}

TablesInv == J!TypeOK /\ J!ReversalStructure /\ \A e \in EntryId : Logged(e)
SessionInv ==
  /\ session \in [Session -> SessionRows]
  /\ \A s \in Session : Course(session[s]) /\ Relies(session[s], status, reversing)
  /\ \A s, t \in Session : s # t => Apart(session[s], session[t])

(* An open write is of one entry: the row it will leave is, and so is the  *)
(* row it replaces.                                                        *)
WriteRows == [entry : EntryId \cup {NoEntry}, row : Rows]
OfOneEntry(l) == ~Free(l) =>
  /\ writing[l].entry \in EntryId
  /\ writing[l].row # NoLine => writing[l].row.entry = writing[l].entry
  /\ line[l] # NoLine => line[l].entry = writing[l].entry
WritesInv == writing \in [LineId -> WriteRows] /\ \A l \in LineId : OfOneEntry(l)
OpenInv == TablesInv /\ SessionInv /\ WritesInv

(* SpecServices only: what a session has validated is what the table still *)
(* holds, as long as the entry is a draft, and nobody writes the lines of  *)
(* an entry that is no draft or is with a session.                         *)
Sound(tbl, e) == J!Cardinality(J!LinesOf(tbl, e)) >= 2 /\ J!Balanced(tbl, e)
Validated(s) ==
  LET x == session[s]
  IN  x.op = "post" /\ x.pc # "loaded" /\ status[x.entry] = "draft"
        => x.lines = J!Snapshot(line, x.entry) /\ Sound(line, x.entry)
Owned(l) == ~Free(l) => status[writing[l].entry] = "draft" /\ ~InUse(writing[l].entry)
ServicesInv ==
  /\ OpenInv /\ J!PostedBalanced
  /\ \A s \in Session : Validated(s)
  /\ \A l \in LineId : Owned(l)

-----------------------------------------------------------------------------
(* Line tables.                                                            *)

(* Nothing that is read off the lines of an entry changes when no row of   *)
(* that entry, before or after, is among the rows that change.             *)
LEMMA OtherLines ==
  ASSUME NEW old, NEW new, NEW e,
         \A l \in LineId : \/ new[l] = old[l]
                           \/ l \notin J!LinesOf(old, e) /\ l \notin J!LinesOf(new, e)
  PROVE  /\ J!LinesOf(new, e) = J!LinesOf(old, e)
         /\ J!Snapshot(new, e) = J!Snapshot(old, e)
         /\ J!Balanced(new, e) <=> J!Balanced(old, e)
         /\ J!AccountsOf(new, e) = J!AccountsOf(old, e)
<1>1. J!LinesOf(new, e) = J!LinesOf(old, e)
  BY DEF J!LinesOf
<1>2. \A l \in J!LinesOf(new, e) : new[l] = old[l]
  BY <1>1 DEF J!LinesOf
<1>3. J!DebitOf(new, e) = J!DebitOf(old, e) /\ J!CreditOf(new, e) = J!CreditOf(old, e)
  BY <1>1, <1>2 DEF J!DebitOf, J!CreditOf
<1>4. J!Snapshot(new, e) = J!Snapshot(old, e)
  BY <1>1, <1>2 DEF J!Snapshot
<1>5. J!AccountsOf(new, e) = J!AccountsOf(old, e)
  BY <1>1, <1>2 DEF J!AccountsOf
<1> QED
  BY <1>1, <1>3, <1>4, <1>5 DEF J!Balanced

(* A snapshot of any entry is one the audit log may hold.                  *)
LEMMA SnapshotType ==
  ASSUME NEW tbl \in [LineId -> J!Line \cup {NoLine}], NEW e
  PROVE  J!Snapshot(tbl, e) \in Snapshots
<1>1. ASSUME NEW l \in J!LinesOf(tbl, e)
      PROVE  [account |-> tbl[l].account, debit |-> tbl[l].debit,
              credit |-> tbl[l].credit] \in J!LineData
  <2>1. tbl[l] \in J!LineRow
    BY <1>1 DEF J!LinesOf, J!Line
  <2> QED
    BY <2>1 DEF J!LineRow, J!LineData
<1> QED
  BY <1>1 DEF J!Snapshot, Snapshots

(* The row reverse_entry writes is a row the CHECK constraints accept.     *)
LEMMA MirrorType ==
  ASSUME NEW row \in J!Line, NEW r \in EntryId
  PROVE  J!Mirror(row, r) \in J!Line /\ J!Mirror(row, r).entry = r
<1>1. row \in J!LineRow /\ J!DebitXorCredit(row)
  BY DEF J!Line
<1>2. J!Mirror(row, r) \in J!LineRow
  BY <1>1 DEF J!LineRow, J!Mirror
<1>3. /\ J!Mirror(row, r).debit = row.credit /\ J!Mirror(row, r).credit = row.debit
      /\ J!Mirror(row, r).entry = r
  BY <1>1 DEF J!LineRow, J!Mirror
<1>4. J!DebitXorCredit(J!Mirror(row, r))
  BY <1>1, <1>3 DEF J!DebitXorCredit
<1> QED
  BY <1>2, <1>3, <1>4 DEF J!Line

(* The line table when a reversal r of o commits.                          *)
Mirrored(g, r) ==
  [l \in LineId |-> IF l \in DOMAIN g THEN J!Mirror(line[g[l]], r) ELSE line[l]]

(* It is well typed, the new rows belong to the reversal and the others    *)
(* are untouched.                                                          *)
LEMMA MirroredType ==
  ASSUME line \in [LineId -> J!Line \cup {NoLine}],
         NEW o \in EntryId, NEW r \in EntryId, NEW new \in SUBSET J!FreeLines,
         NEW g \in Bijection(new, J!LinesOf(line, o))
  PROVE  /\ Mirrored(g, r) \in [LineId -> J!Line \cup {NoLine}]
         /\ \A l \in LineId \ new : Mirrored(g, r)[l] = line[l]
         /\ \A l \in new : line[l] = NoLine /\ Mirrored(g, r)[l].entry = r
<1>1. g \in [new -> J!LinesOf(line, o)]
  BY DEF Bijection, Injection
<1>2. \A l \in new : line[g[l]] \in J!Line
  BY <1>1 DEF J!LinesOf
<1>3. \A l \in new : J!Mirror(line[g[l]], r) \in J!Line /\ J!Mirror(line[g[l]], r).entry = r
  BY <1>2, MirrorType
<1>4. \A l \in new : l \in LineId /\ line[l] = NoLine
  BY DEF J!FreeLines
<1> QED
  BY <1>1, <1>3, <1>4 DEF Mirrored

-----------------------------------------------------------------------------
(* Steps that change no table, and steps that end a session.               *)

(* A session that knows nothing relies on nothing.                         *)
LEMMA IdleIs ==
  /\ Idle \in SessionRows /\ Course(Idle)
  /\ \A st, rev : Relies(Idle, st, rev)
  /\ \A y : Course(y) => Apart(Idle, y)
<1>1. /\ Idle.op = "none" /\ Idle.pc = "idle" /\ Idle.entry = NoEntry /\ Idle.made = NoEntry
      /\ Idle.inst = "absent" /\ Idle.lines = [l \in LineId |-> NoLine]
  BY DEF Idle
<1>2. [l \in LineId |-> NoLine] \in Snapshots
  BY DEF Snapshots
<1>3. Idle \in SessionRows
  BY <1>1, <1>2 DEF SessionRows, PC, Idle
<1> QED
  BY <1>1, <1>3 DEF Course, Relies, Apart

(* Nothing but one session changes.                                        *)
LEMMA SessionMoves ==
  ASSUME OpenInv, NEW s \in Session, NEW x \in SessionRows,
         UNCHANGED tables, session' = [session EXCEPT ![s] = x],
         Course(x), Relies(x, status, reversing),
         \A t \in Session \ {s} : Apart(x, session[t])
  PROVE  OpenInv'
<1>1. TablesInv'
  BY DEF OpenInv, TablesInv, tables, J!TypeOK, J!ReversalStructure, Logged, J!PostRows
<1>5. WritesInv'
  BY DEF OpenInv, WritesInv, OfOneEntry, Free, tables
<1>2. session' \in [Session -> SessionRows]
  BY DEF OpenInv, SessionInv
<1>3. ASSUME NEW t \in Session
      PROVE  Course(session'[t]) /\ Relies(session'[t], status', reversing')
  BY DEF OpenInv, SessionInv, tables
<1>4. ASSUME NEW t \in Session, NEW u \in Session, t # u
      PROVE  Apart(session'[t], session'[u])
  <2>1. CASE t # s /\ u # s
    BY <1>4, <2>1 DEF OpenInv, SessionInv
  <2>2. CASE t = s
    BY <1>4, <2>2 DEF OpenInv, SessionInv
  <2>3. CASE u = s
    <3>1. Apart(x, session[t])
      BY <1>4, <2>3
    <3>2. session'[t] = session[t] /\ session'[u] = x
      BY <1>4, <2>3 DEF OpenInv, SessionInv
    <3> QED
      BY <3>1, <3>2 DEF Apart
  <2> QED
    BY <2>1, <2>2, <2>3
<1> QED
  BY <1>1, <1>2, <1>3, <1>4, <1>5 DEF OpenInv, SessionInv

(* A service that raises.                                                  *)
LEMMA RaiseKeeps ==
  ASSUME OpenInv, NEW s \in Session, Raise(s)
  PROVE  OpenInv'
<1>1. \A t \in Session : Course(session[t])
  BY DEF OpenInv, SessionInv
<1> QED
  BY <1>1, IdleIs, SessionMoves DEF Raise

(* A commit ends its session; the others still have what they rely on.     *)
LEMMA SessionEnds ==
  ASSUME SessionInv, NEW s \in Session, session' = [session EXCEPT ![s] = Idle],
         \A t \in Session \ {s} : Relies(session[t], status', reversing')
  PROVE  SessionInv'
<1>1. session' \in [Session -> SessionRows]
  BY IdleIs DEF SessionInv
<1>2. \A t \in Session : session'[t] = IF t = s THEN Idle ELSE session[t]
  BY DEF SessionInv
<1>3. ASSUME NEW t \in Session
      PROVE  Course(session'[t]) /\ Relies(session'[t], status', reversing')
  BY <1>2, IdleIs DEF SessionInv
<1>4. ASSUME NEW t \in Session, NEW u \in Session, t # u
      PROVE  Apart(session'[t], session'[u])
  <2>1. Apart(Idle, session[t]) /\ Apart(Idle, session[u])
    BY IdleIs DEF SessionInv
  <2> QED
    BY <1>2, <1>4, <2>1 DEF SessionInv, Apart
<1> QED
  BY <1>1, <1>3, <1>4 DEF SessionInv

(* A write of its own transaction moves no session.                        *)
LEMMA SessionsStay ==
  ASSUME SessionInv, UNCHANGED session,
         \A t \in Session : Relies(session[t], status', reversing')
  PROVE  SessionInv'
BY DEF SessionInv

-----------------------------------------------------------------------------
(* Statements that only move their session.                                *)

(* The instance that is fetched is as old as the table.                    *)
LEMMA LoadKeeps ==
  ASSUME OpenInv, NEW s \in Session, NEW op \in {"post", "reverse", "delete"}, NEW e \in EntryId,
         Load(s, op, e)
  PROVE  OpenInv'
<1> DEFINE x == [Idle EXCEPT !.op = op, !.pc = "loaded", !.entry = e, !.inst = status[e]]
<1>1. /\ UNCHANGED tables /\ session' = [session EXCEPT ![s] = x]
      /\ session[s] = Idle /\ status[e] # "absent"
  BY DEF Load
<1>2. /\ x \in SessionRows /\ x.op = op /\ x.pc = "loaded" /\ x.entry = e
      /\ x.inst = status[e] /\ x.made = NoEntry
  <2>1. status[e] \in {"absent", "draft", "posted"}
    BY DEF OpenInv, TablesInv, J!TypeOK
  <2> QED
    BY <2>1, IdleIs DEF SessionRows, PC, Idle
<1> HIDE DEF x
<1>3. Course(x) /\ Relies(x, status, reversing)
  BY <1>2 DEF Course, Relies
<1>4. ASSUME NEW t \in Session \ {s} PROVE Apart(x, session[t])
  <2>1. Relies(session[t], status, reversing)
    BY DEF OpenInv, SessionInv
  <2> QED
    BY <1>1, <1>2, <2>1 DEF Apart, Relies
<1> QED
  BY <1>1, <1>2, <1>3, <1>4, SessionMoves

(* Where every session stands.                                             *)
LEMMA Stands ==
  ASSUME OpenInv, NEW s \in Session
  PROVE  /\ session \in [Session -> SessionRows] /\ session[s] \in SessionRows
         /\ session[s].lines \in Snapshots
         /\ Course(session[s]) /\ Relies(session[s], status, reversing)
         /\ session[s].op # "none" => session[s].entry \in EntryId
<1>1. session[s] \in SessionRows /\ session \in [Session -> SessionRows]
  BY DEF OpenInv, SessionInv
<1>2. session[s].lines \in Snapshots
  BY <1>1 DEF SessionRows
<1>3. Course(session[s]) /\ Relies(session[s], status, reversing)
  BY DEF OpenInv, SessionInv
<1> QED
  BY <1>1, <1>2, <1>3 DEF Course

(* Session s goes on to pc as x, its service, entry and instance the same. *)
Goes(s, pc, x) ==
  /\ x \in SessionRows /\ session' = [session EXCEPT ![s] = x] /\ UNCHANGED tables
  /\ x.op = session[s].op /\ x.entry = session[s].entry /\ x.inst = session[s].inst
  /\ x.made = session[s].made /\ x.pc = pc

(* It keeps the invariant when the new step's conditions hold.             *)
LEMMA GoesOn ==
  ASSUME OpenInv, NEW s \in Session, NEW pc, NEW x, Goes(s, pc, x),
         session[s].op # "none", session[s].pc # "inserted",
         \/ session[s].op = "post" /\ pc \in {"validated", "saving", "written"}
         \/ session[s].op = "reverse" /\ pc = "checked"
         \/ session[s].op = "delete" /\ pc \in {"emptied", "written"},
         pc = "written" => /\ status[session[s].entry] = "draft"
                           /\ ~RowLocked(s, session[s].entry),
         pc = "checked" => status[session[s].entry] = "posted" /\ reversing[session[s].entry] = NoEntry
  PROVE  OpenInv'
<1>1. Course(session[s]) /\ Relies(session[s], status, reversing)
  BY Stands
<1>2. Course(x)
  BY <1>1 DEF Course, Goes
<1>3. Relies(x, status, reversing)
  BY <1>1 DEF Relies, Goes
<1>4. ASSUME NEW t \in Session \ {s} PROVE Apart(x, session[t])
  <2>1. Apart(session[s], session[t])
    BY DEF OpenInv, SessionInv
  <2> QED
    BY <2>1 DEF Apart, RowLocked, Goes
<1> QED
  BY <1>2, <1>3, <1>4, SessionMoves DEF Goes

(* A statement that moves the session only, and one that reads the lines.  *)
LEMMA GotoIs ==
  ASSUME OpenInv, NEW s \in Session, NEW pc \in PC, Goto(s, pc), UNCHANGED tables
  PROVE  \E x : Goes(s, pc, x)
<1>1. session[s] \in SessionRows /\ session \in [Session -> SessionRows]
  BY Stands
<1> DEFINE x == [session[s] EXCEPT !.pc = pc]
<1>2. session' = [session EXCEPT ![s] = x]
  BY <1>1 DEF Goto
<1>3. x \in SessionRows /\ x.op = session[s].op /\ x.entry = session[s].entry
      /\ x.inst = session[s].inst /\ x.made = session[s].made /\ x.pc = pc
  BY <1>1 DEF SessionRows
<1> HIDE DEF x
<1> QED
  BY <1>2, <1>3 DEF Goes

(* The same with the lines read.                                           *)
LEMMA ReadIs ==
  ASSUME OpenInv, NEW s \in Session, NEW pc \in PC, UNCHANGED tables,
         session' = [session EXCEPT ![s].pc = pc,
                                    ![s].lines = J!Snapshot(line, session[s].entry)]
  PROVE  \E x : Goes(s, pc, x)
<1>1. session[s] \in SessionRows /\ session \in [Session -> SessionRows]
  BY Stands
<1> DEFINE read == J!Snapshot(line, session[s].entry)
           x == [session[s] EXCEPT !.pc = pc, !.lines = read]
<1>2. session' = [session EXCEPT ![s] = x]
  BY <1>1
<1>3. line \in [LineId -> J!Line \cup {NoLine}]
  BY DEF OpenInv, TablesInv, J!TypeOK
<1>4. read \in Snapshots
  BY <1>3, SnapshotType
<1>5. x \in SessionRows /\ x.op = session[s].op /\ x.entry = session[s].entry
      /\ x.inst = session[s].inst /\ x.made = session[s].made /\ x.pc = pc
  BY <1>1, <1>4 DEF SessionRows
<1> HIDE DEF x
<1> QED
  BY <1>2, <1>5 DEF Goes

(* post_entry up to its UPDATE.                                            *)
LEMMA PostingKeeps ==
  ASSUME OpenInv, NEW s \in Session, PostValidate(s) \/ PostSelect(s) \/ PostUpdate(s)
  PROVE  OpenInv'
<1>1. CASE Raise(s)
  BY <1>1, RaiseKeeps
<1>2. ASSUME PostValidate(s), ~Raise(s) PROVE OpenInv'
  <2>1. /\ session[s].op = "post" /\ session[s].pc = "loaded" /\ UNCHANGED tables
        /\ session' = [session EXCEPT ![s].pc = "validated",
                                      ![s].lines = J!Snapshot(line, session[s].entry)]
    BY <1>2 DEF PostValidate, At
  <2>2. \E x : Goes(s, "validated", x)
    BY <2>1, ReadIs DEF PC
  <2> QED
    BY <2>1, <2>2, GoesOn
<1>3. ASSUME PostSelect(s), ~Raise(s) PROVE OpenInv'
  <2>1. /\ session[s].op = "post" /\ session[s].pc = "validated" /\ UNCHANGED tables
        /\ Goto(s, "saving")
    BY <1>3 DEF PostSelect, At
  <2>2. \E x : Goes(s, "saving", x)
    BY <2>1, GotoIs DEF PC
  <2> QED
    BY <2>1, <2>2, GoesOn
<1>4. ASSUME PostUpdate(s), ~Raise(s) PROVE OpenInv'
  <2>1. /\ session[s].op = "post" /\ session[s].pc = "saving" /\ UNCHANGED tables
        /\ Goto(s, "written") /\ status[session[s].entry] = "draft"
        /\ ~RowLocked(s, session[s].entry)
    BY <1>4 DEF PostUpdate, At
  <2>2. \E x : Goes(s, "written", x)
    BY <2>1, GotoIs DEF PC
  <2> QED
    BY <2>1, <2>2, GoesOn
<1> QED
  BY <1>1, <1>2, <1>3, <1>4

(* delete() up to its DELETE of the entry, and the checks of reverse_entry. *)
LEMMA DeletingKeeps ==
  ASSUME OpenInv, NEW s \in Session, DeleteLines(s) \/ DeleteRow(s) \/ ReverseCheck(s)
  PROVE  OpenInv'
<1>1. CASE Raise(s)
  BY <1>1, RaiseKeeps
<1>2. ASSUME DeleteLines(s), ~Raise(s) PROVE OpenInv'
  <2>1. /\ session[s].op = "delete" /\ session[s].pc = "loaded" /\ UNCHANGED tables
        /\ session' = [session EXCEPT ![s].pc = "emptied",
                                      ![s].lines = J!Snapshot(line, session[s].entry)]
    BY <1>2 DEF DeleteLines, At
  <2>2. \E x : Goes(s, "emptied", x)
    BY <2>1, ReadIs DEF PC
  <2> QED
    BY <2>1, <2>2, GoesOn
<1>3. ASSUME DeleteRow(s), ~Raise(s) PROVE OpenInv'
  <2>1. /\ session[s].op = "delete" /\ session[s].pc = "emptied" /\ UNCHANGED tables
        /\ Goto(s, "written") /\ status[session[s].entry] = "draft"
        /\ ~RowLocked(s, session[s].entry)
    BY <1>3 DEF DeleteRow, At
  <2>2. \E x : Goes(s, "written", x)
    BY <2>1, GotoIs DEF PC
  <2> QED
    BY <2>1, <2>2, GoesOn
<1>4. ASSUME ReverseCheck(s), ~Raise(s) PROVE OpenInv'
  <2>1. /\ session[s].op = "reverse" /\ session[s].pc = "loaded" /\ UNCHANGED tables
        /\ Goto(s, "checked") /\ session[s].inst = "posted"
        /\ reversing[session[s].entry] = NoEntry
    BY <1>4 DEF ReverseCheck, At
  <2>2. status[session[s].entry] = "posted"
    BY <2>1, Stands DEF Relies
  <2>3. \E x : Goes(s, "checked", x)
    BY <2>1, GotoIs DEF PC
  <2> QED
    BY <2>1, <2>2, <2>3, GoesOn
<1> QED
  BY <1>1, <1>2, <1>3, <1>4

(* The INSERT of a reversal: the key is new, and no other reversal of the  *)
(* original is there or on its way.                                        *)
LEMMA InsertKeeps ==
  ASSUME OpenInv, NEW s \in Session, NEW r \in EntryId, ReverseInsert(s, r)
  PROVE  OpenInv'
<1>1. CASE Raise(s)
  BY <1>1, RaiseKeeps
<1>2. ASSUME ~Raise(s) PROVE OpenInv'
  <2> DEFINE x == [session[s] EXCEPT !.pc = "inserted", !.made = r]
             o == session[s].entry
  <2>1. /\ session[s].op = "reverse" /\ session[s].pc = "checked"
        /\ ~ReversalPending(s, o) /\ FreshKey(r)
        /\ \A e \in EntryId : reversing[e] # o
        /\ session' = [session EXCEPT ![s].pc = "inserted", ![s].made = r]
        /\ UNCHANGED tables
    BY <1>2 DEF ReverseInsert, At
  <2>2. /\ session[s] \in SessionRows /\ Course(session[s])
        /\ Relies(session[s], status, reversing) /\ session \in [Session -> SessionRows]
    BY DEF OpenInv, SessionInv
  <2>3. session' = [session EXCEPT ![s] = x]
    BY <2>1, <2>2
  <2>4. /\ x \in SessionRows /\ x.op = "reverse" /\ x.pc = "inserted" /\ x.entry = o
        /\ x.inst = session[s].inst /\ x.made = r
    BY <2>1, <2>2 DEF SessionRows, PC
  <2>5. r # NoEntry
    BY SessionAssumption
  <2> HIDE DEF x
  <2>6. Course(x)
    BY <2>1, <2>2, <2>4, <2>5 DEF Course
  <2>7. Relies(x, status, reversing)
    BY <2>1, <2>2, <2>4 DEF Relies, FreshKey
  <2>8. ASSUME NEW t \in Session \ {s} PROVE Apart(x, session[t])
    <3>1. Course(session[t]) /\ Apart(session[s], session[t])
      BY DEF OpenInv, SessionInv
    <3>2. session[t].pc = "inserted" => session[t].entry # o
      BY <2>1, <3>1 DEF ReversalPending, Course
    <3>3. session[t].made # r /\ session[t].entry # r
      BY <2>1 DEF FreshKey
    <3> QED
      BY <2>4, <3>1, <3>2, <3>3 DEF Apart
  <2> QED
    BY <2>1, <2>3, <2>4, <2>6, <2>7, <2>8, SessionMoves
<1> QED
  BY <1>1, <1>2
-----------------------------------------------------------------------------
(* The audit log.                                                          *)

(* The types of what the services write into it.                           *)
LEMMA AuditRowIs ==
  J!AuditRow = [action : {"post_entry", "reverse_entry"}, entry : EntryId,
                original : EntryId \cup {NoEntry}, lines : Snapshots]
BY DEF J!AuditRow, Snapshots

(* Writing one audit row, and two.                                         *)
LEMMA AppendRow ==
  ASSUME NEW S, NEW q \in Seq(S), NEW x \in S
  PROVE  /\ Append(q, x) \in Seq(S)
         /\ Len(Append(q, x)) = Len(q) + 1
         /\ \A i \in 1..Len(q) : Append(q, x)[i] = q[i]
         /\ Append(q, x)[Len(q) + 1] = x
  OBVIOUS

(* The two rows reverse_entry leads to.                                    *)
LEMMA AppendTwoRows ==
  ASSUME NEW S, NEW q \in Seq(S), NEW x \in S, NEW y \in S
  PROVE  /\ q \o <<x, y>> \in Seq(S)
         /\ Len(q \o <<x, y>>) = Len(q) + 2
         /\ \A i \in 1..Len(q) : (q \o <<x, y>>)[i] = q[i]
         /\ (q \o <<x, y>>)[Len(q) + 1] = x
         /\ (q \o <<x, y>>)[Len(q) + 2] = y
<1>1. <<x, y>> \in Seq(S) /\ Len(<<x, y>>) = 2 /\ <<x, y>>[1] = x /\ <<x, y>>[2] = y
  OBVIOUS
<1>2. \A t \in Seq(S) : /\ q \o t \in Seq(S)
                        /\ Len(q \o t) = Len(q) + Len(t)
                        /\ \A i \in 1..Len(q) : (q \o t)[i] = q[i]
                        /\ \A i \in 1..Len(t) : (q \o t)[Len(q) + i] = t[i]
  OBVIOUS
<1> QED
  BY <1>1, <1>2

(* The audit log grows by the row of one posted entry and at most one more *)
(* row, which tells of a reversal.                                         *)
Grows(e) ==
  /\ audit' \in Seq(J!AuditRow)
  /\ Len(audit') \in {Len(audit) + 1, Len(audit) + 2}
  /\ \A i \in 1..Len(audit) : audit'[i] = audit[i]
  /\ audit'[Len(audit) + 1].action = "post_entry" /\ audit'[Len(audit) + 1].entry = e
  /\ Len(audit') = Len(audit) + 2 => audit'[Len(audit) + 2].action = "reverse_entry"

(* So an entry that becomes posted gets its first row, and the others keep *)
(* what they have.                                                         *)
LEMMA LogStep ==
  ASSUME TablesInv, NEW e \in EntryId, Grows(e), status[e] # "posted",
         status' = [status EXCEPT ![e] = "posted"]
  PROVE  \A d \in EntryId : Logged(d)'
<1> DEFINE n == Len(audit)
<1>1. n \in Nat /\ audit \in Seq(J!AuditRow) /\ status \in [EntryId -> {"absent", "draft", "posted"}]
  BY DEF TablesInv, J!TypeOK
<1>2. ASSUME NEW d \in EntryId
      PROVE  J!PostRows(d)' = J!PostRows(d) \cup IF d = e THEN {n + 1} ELSE {}
  BY <1>1 DEF Grows, J!PostRows
<1>3. Logged(e)'
  <2>1. J!PostRows(e) = {}
    BY DEF TablesInv, Logged
  <2>2. J!PostRows(e)' = {n + 1} /\ n + 1 \in 1..Len(audit')
    BY <1>1, <1>2, <2>1 DEF Grows
  <2>3. status'[e] = "posted"
    BY <1>1
  <2> QED
    BY <2>2, <2>3 DEF Logged
<1>4. ASSUME NEW d \in EntryId, d # e PROVE Logged(d)'
  <2>1. J!PostRows(d)' = J!PostRows(d) /\ status'[d] = status[d] /\ Logged(d)
    BY <1>1, <1>2, <1>4 DEF TablesInv
  <2>2. 1..n \subseteq 1..Len(audit')
    BY <1>1 DEF Grows
  <2> QED
    BY <2>1, <2>2 DEF Logged
<1> QED
  BY <1>3, <1>4

(* With the audit log untouched, it stays right when no entry is posted    *)
(* that was not and none unposted.                                         *)
LEMMA LogStays ==
  ASSUME TablesInv, UNCHANGED audit,
         \A d \in EntryId : status'[d] = "posted" <=> status[d] = "posted"
  PROVE  \A d \in EntryId : Logged(d)'
<1>1. ASSUME NEW d \in EntryId PROVE Logged(d)'
  <2>1. J!PostRows(d)' = J!PostRows(d) /\ Logged(d)
    BY DEF TablesInv, J!PostRows
  <2> QED
    BY <2>1 DEF Logged
<1> QED
  BY <1>1

-----------------------------------------------------------------------------
(* Commits.                                                                *)

(* What every commit of a session may take for granted.                    *)
LEMMA Tables ==
  ASSUME OpenInv
  PROVE  /\ status \in [EntryId -> {"absent", "draft", "posted"}]
         /\ reversing \in [EntryId -> EntryId \cup {NoEntry}]
         /\ line \in [LineId -> J!Line \cup {NoLine}]
         /\ active \in SUBSET Account /\ audit \in Seq(J!AuditRow)
         /\ J!ReversalStructure /\ TablesInv /\ SessionInv /\ WritesInv
BY DEF OpenInv, TablesInv, J!TypeOK

(* A commit that leaves the rows of open writes alone or takes them away.  *)
LEMMA WritesStay ==
  ASSUME WritesInv, UNCHANGED writing,
         \A l \in LineId : ~Free(l) => line'[l] = line[l] \/ line'[l] = NoLine
  PROVE  WritesInv'
BY DEF WritesInv, OfOneEntry, Free

(* post_entry commits: its row was a draft under its row lock.             *)
LEMMA PostCommitKeeps ==
  ASSUME OpenInv, NEW s \in Session, PostCommit(s)
  PROVE  OpenInv'
<1> DEFINE e == session[s].entry
           row == [action |-> "post_entry", entry |-> e, original |-> reversing[e],
                   lines |-> session[s].lines]
<1>1. /\ session[s].op = "post" /\ session[s].pc = "written"
      /\ status' = [status EXCEPT ![e] = "posted"]
      /\ audit' = Append(audit, row)
      /\ session' = [session EXCEPT ![s] = Idle]
      /\ UNCHANGED <<reversing, line, active, writing>>
  BY DEF PostCommit, At
<1>2. e \in EntryId /\ status[e] = "draft" /\ session[s].lines \in Snapshots
  BY <1>1, Stands DEF Relies
<1>3. row \in J!AuditRow /\ row.action = "post_entry" /\ row.entry = e
  BY <1>2, Tables, AuditRowIs
<1> HIDE DEF row
<1>4. Grows(e)
  <2>1. /\ audit' \in Seq(J!AuditRow) /\ Len(audit') = Len(audit) + 1
        /\ \A i \in 1..Len(audit) : audit'[i] = audit[i]
        /\ audit'[Len(audit) + 1] = row
    BY <1>1, <1>3, Tables, AppendRow
  <2>2. Len(audit) \in Nat
    BY Tables
  <2> QED
    BY <1>3, <2>1, <2>2 DEF Grows
<1> HIDE DEF e
<1>5. TablesInv'
  <2>1. \A d \in EntryId : Logged(d)'
    BY <1>1, <1>2, <1>4, LogStep, Tables
  <2>2. J!TypeOK'
    BY <1>1, <1>2, <1>4, Tables DEF J!TypeOK, Grows
  <2>3. J!ReversalStructure'
    BY <1>1, <1>2, Tables DEF J!ReversalStructure
  <2> QED
    BY <2>1, <2>2, <2>3 DEF TablesInv
<1>6. ASSUME NEW t \in Session \ {s} PROVE Relies(session[t], status', reversing')
  <2>1. Relies(session[t], status, reversing) /\ Course(session[t]) /\ Apart(session[s], session[t])
    BY DEF OpenInv, SessionInv
  <2>2. session[t] \in SessionRows
    BY Stands
  <2> QED
    BY <1>1, <1>2, <2>1, <2>2, Tables DEF Relies, Apart, Course, SessionRows, e
<1>7. WritesInv'
  BY <1>1, Tables, WritesStay
<1> QED
  BY <1>1, <1>5, <1>6, <1>7, Tables, SessionEnds DEF OpenInv

(* delete() commits: its row was a draft under its row lock, so no         *)
(* reversal points at it.                                                  *)
LEMMA DeleteCommitKeeps ==
  ASSUME OpenInv, NEW s \in Session, DeleteCommit(s)
  PROVE  OpenInv'
<1>1. CASE Raise(s)
  BY <1>1, RaiseKeeps
<1>2. ASSUME ~Raise(s) PROVE OpenInv'
  <2> DEFINE e == session[s].entry
  <2>1. /\ session[s].op = "delete" /\ session[s].pc = "written"
        /\ status' = [status EXCEPT ![e] = "absent"]
        /\ line' = [l \in LineId |-> IF l \in J!LinesOf(line, e) THEN NoLine ELSE line[l]]
        /\ session' = [session EXCEPT ![s] = Idle]
        /\ UNCHANGED <<reversing, active, audit, writing>>
    BY <1>2 DEF DeleteCommit, At
  <2>2. e \in EntryId /\ status[e] = "draft"
    BY <2>1, Stands DEF Relies
  <2> HIDE DEF e
  <2>3. TablesInv'
    <3>1. \A d \in EntryId : Logged(d)'
      BY <2>1, <2>2, LogStays, Tables
    <3>2. J!TypeOK'
      BY <2>1, <2>2, Tables DEF J!TypeOK
    <3>3. J!ReversalStructure'
      BY <2>1, <2>2, Tables DEF J!ReversalStructure
    <3> QED
      BY <3>1, <3>2, <3>3 DEF TablesInv
  <2>4. ASSUME NEW t \in Session \ {s} PROVE Relies(session[t], status', reversing')
    <3>1. Relies(session[t], status, reversing) /\ Course(session[t]) /\ Apart(session[s], session[t])
      BY DEF OpenInv, SessionInv
    <3>2. session[t] \in SessionRows
      BY Stands
    <3> QED
      BY <2>1, <2>2, <3>1, <3>2, Tables DEF Relies, Apart, Course, SessionRows, e
  <2>5. WritesInv'
    BY <2>1, Tables, WritesStay
  <2> QED
    BY <2>1, <2>3, <2>4, <2>5, Tables, SessionEnds DEF OpenInv
<1> QED
  BY <1>1, <1>2
(* What a commit of reverse_entry starts from.                             *)
LEMMA ReverseFrom ==
  ASSUME OpenInv, NEW s \in Session, session[s].pc = "inserted"
  PROVE  /\ session[s].entry \in EntryId /\ session[s].made \in EntryId
         /\ status[session[s].entry] = "posted" /\ reversing[session[s].entry] = NoEntry
         /\ status[session[s].made] = "absent"
         /\ \A e \in EntryId : reversing[e] # session[s].entry
<1>1. session[s].op # "none"
  BY Stands DEF Course, Idle
<1> QED
  BY <1>1, Stands DEF Course, Relies, SessionRows

(* reverse_entry commits: its reversal's key is still unused and its       *)
(* original has no reversal but this one.                                  *)
LEMMA ReverseCommitKeeps ==
  ASSUME OpenInv, NEW s \in Session, NEW new \in SUBSET FreeLines,
         NEW g \in Bijection(new, J!LinesOf(line, session[s].entry)), ReverseCommit(s, g)
  PROVE  OpenInv'
<1>1. CASE Raise(s)
  BY <1>1, RaiseKeeps
<1>2. ASSUME ~Raise(s) PROVE OpenInv'
  <2> DEFINE o == session[s].entry
             r == session[s].made
             tbl == Mirrored(g, r)
  <2>1. /\ session[s].pc = "inserted"
        /\ status' = [status EXCEPT ![r] = "posted"]
        /\ reversing' = [reversing EXCEPT ![r] = o]
        /\ line' = tbl
        /\ audit' = audit \o <<J!PostRow(tbl, r, o), J!ReverseRow(tbl, r, o)>>
        /\ session' = [session EXCEPT ![s] = Idle]
        /\ UNCHANGED <<active, writing>>
    BY <1>2 DEF ReverseCommit, At, Mirrored
  <2>2. /\ o \in EntryId /\ r \in EntryId /\ o # r
        /\ status[o] = "posted" /\ reversing[o] = NoEntry
        /\ status[r] = "absent" /\ \A e \in EntryId : reversing[e] # o
    BY <2>1, ReverseFrom
  <2>3. /\ tbl \in [LineId -> J!Line \cup {NoLine}]
        /\ \A l \in LineId \ new : tbl[l] = line[l]
    <3>1. new \in SUBSET J!FreeLines
      BY DEF FreeLines
    <3> QED
      BY <2>2, <3>1, Tables, MirroredType
  <2>9. WritesInv'
    <3>1. \A l \in LineId : ~Free(l) => l \notin new
      BY DEF FreeLines
    <3>2. \A l \in LineId \ new : line'[l] = line[l]
      BY <2>1, <2>3
    <3>3. UNCHANGED writing /\ WritesInv
      BY <2>1, Tables
    <3>4. \A l \in LineId : ~Free(l) => line'[l] = line[l] \/ line'[l] = NoLine
      BY <3>1, <3>2
    <3> QED
      BY <3>3, <3>4, WritesStay
  <2> HIDE DEF tbl
  <2>4. J!Snapshot(tbl, r) \in Snapshots
    BY <2>3, SnapshotType
  <2>5. /\ J!PostRow(tbl, r, o) \in J!AuditRow /\ J!ReverseRow(tbl, r, o) \in J!AuditRow
        /\ J!PostRow(tbl, r, o).action = "post_entry" /\ J!PostRow(tbl, r, o).entry = r
        /\ J!ReverseRow(tbl, r, o).action = "reverse_entry"
    BY <2>2, <2>4, AuditRowIs DEF J!PostRow, J!ReverseRow
  <2>6. Grows(r)
    <3>1. /\ audit' \in Seq(J!AuditRow) /\ Len(audit') = Len(audit) + 2
          /\ \A i \in 1..Len(audit) : audit'[i] = audit[i]
          /\ audit'[Len(audit) + 1] = J!PostRow(tbl, r, o)
          /\ audit'[Len(audit) + 2] = J!ReverseRow(tbl, r, o)
      BY <2>1, <2>5, Tables, AppendTwoRows
    <3> QED
      BY <2>5, <3>1 DEF Grows
  <2> HIDE DEF o, r
  <2>7. TablesInv'
    <3>1. \A d \in EntryId : Logged(d)'
      BY <2>1, <2>2, <2>6, LogStep, Tables
    <3>2. J!TypeOK'
      BY <2>1, <2>2, <2>3, <2>6, Tables DEF J!TypeOK, Grows
    <3>3. J!ReversalStructure'
      <4> SUFFICES ASSUME NEW q \in EntryId, reversing'[q] # NoEntry
                   PROVE  /\ status'[q] = "posted"
                          /\ status'[reversing'[q]] = "posted"
                          /\ reversing'[reversing'[q]] = NoEntry
                          /\ \A p \in EntryId : reversing'[p] = reversing'[q] => p = q
        BY DEF J!ReversalStructure
      <4>1. CASE q = r
        BY <2>1, <2>2, <4>1, Tables
      <4>2. CASE q # r
        <5>1. reversing'[q] = reversing[q] /\ status[q] = "posted"
              /\ status[reversing[q]] = "posted" /\ reversing[reversing[q]] = NoEntry
              /\ \A p \in EntryId : reversing[p] = reversing[q] => p = q
          BY <2>1, <2>2, <4>2, Tables DEF J!ReversalStructure
        <5>2. reversing[q] # r /\ reversing[q] # o /\ reversing[q] \in EntryId
          BY <2>2, <4>2, <5>1, Tables
        <5> QED
          BY <2>1, <2>2, <4>2, <5>1, <5>2, Tables
      <4> QED
        BY <4>1, <4>2
    <3> QED
      BY <3>1, <3>2, <3>3 DEF TablesInv
  <2>8. ASSUME NEW t \in Session \ {s} PROVE Relies(session[t], status', reversing')
    <3>1. Relies(session[t], status, reversing) /\ Course(session[t]) /\ Apart(session[s], session[t])
      BY DEF OpenInv, SessionInv
    <3>2. session[t] \in SessionRows
      BY Stands
    <3>3. session[t].pc = "inserted" => session[t].entry # o /\ session[t].made # r
      BY <2>1, <3>1 DEF Apart, o, r
    <3>4. \A e \in EntryId : (status[e] # "absent" => status'[e] = status[e] /\ reversing'[e] = reversing[e])
                              /\ (e # r => status'[e] = status[e] /\ reversing'[e] = reversing[e])
      BY <2>1, <2>2, Tables
    <3>5. \A e \in EntryId : reversing'[e] = reversing[e] \/ reversing'[e] = o
      BY <2>1, <2>2, Tables
    <3>6. session[t].op # "none" => session[t].entry \in EntryId
      BY <3>1 DEF Course
    <3>7. session[t].pc # "idle" => session[t].op # "none"
      BY <3>1 DEF Course, Idle
    <3>8. session[t].pc = "inserted" => session[t].made \in EntryId
      BY <3>1, <3>2 DEF Course, SessionRows
    <3> QED
      BY <3>1, <3>3, <3>4, <3>5, <3>6, <3>7, <3>8 DEF Relies
  <2> QED
    BY <2>1, <2>7, <2>8, <2>9, Tables, SessionEnds DEF OpenInv
<1> QED
  BY <1>1, <1>2

-----------------------------------------------------------------------------
(* Transactions of one statement.                                          *)

(* A draft is created under a key no session knows.                        *)
LEMMA CreateKeeps ==
  ASSUME OpenInv, NEW e \in EntryId, CreateDraft(e)
  PROVE  OpenInv'
<1>1. /\ status[e] = "absent" /\ status' = [status EXCEPT ![e] = "draft"]
      /\ UNCHANGED <<reversing, line, active, audit, session, writing>>
      /\ \A t \in Session : session[t].made # e /\ session[t].entry # e
  BY DEF CreateDraft, J!CreateEntry, FreshKey
<1>2. TablesInv'
  <2>1. \A d \in EntryId : Logged(d)'
    BY <1>1, LogStays, Tables
  <2>2. J!TypeOK'
    BY <1>1, Tables DEF J!TypeOK
  <2>3. J!ReversalStructure'
    BY <1>1, Tables DEF J!ReversalStructure
  <2> QED
    BY <2>1, <2>2, <2>3 DEF TablesInv
<1>3. ASSUME NEW t \in Session PROVE Relies(session[t], status', reversing')
  <2>1. Relies(session[t], status, reversing) /\ session[t].made # e /\ session[t].entry # e
    BY <1>1, Stands
  <2> QED
    BY <1>1, <2>1, Tables DEF Relies
<1>4. WritesInv'
  BY <1>1, Tables, WritesStay
<1> QED
  BY <1>1, <1>2, <1>3, <1>4, Tables, SessionsStay DEF OpenInv

(* A line is written, or an account opened or closed.                      *)
LEMMA WriteKeeps ==
  ASSUME OpenInv, UNCHANGED <<status, reversing, audit, session>>, WritesInv',
         line' \in [LineId -> J!Line \cup {NoLine}], active' \in SUBSET Account
  PROVE  OpenInv'
<1>1. TablesInv'
  <2>1. \A d \in EntryId : Logged(d)'
    BY LogStays, Tables
  <2>2. J!TypeOK' /\ J!ReversalStructure'
    BY Tables DEF J!TypeOK, J!ReversalStructure
  <2> QED
    BY <2>1, <2>2 DEF TablesInv
<1>2. SessionInv'
  BY Stands, Tables, SessionsStay
<1> QED
  BY <1>1, <1>2 DEF OpenInv

(* A write that begins: it is of one entry, and changes no table.          *)
LEMMA BeginKeeps ==
  ASSUME OpenInv, NEW l \in LineId, NEW e \in EntryId, NEW row \in Rows, BeginWrite(l, e, row)
  PROVE  OpenInv'
<1>1. /\ writing' = [writing EXCEPT ![l] = [entry |-> e, row |-> row]]
      /\ row # NoLine => row.entry = e
      /\ line[l] # NoLine => line[l].entry = e
      /\ UNCHANGED <<status, reversing, line, active, audit, session>>
  BY DEF BeginWrite
<1>2. [entry |-> e, row |-> row] \in WriteRows
  BY DEF WriteRows
<1>3. WritesInv'
  <2>1. writing' \in [LineId -> WriteRows]
    BY <1>1, <1>2, Tables DEF WritesInv
  <2>2. ASSUME NEW k \in LineId, k # l PROVE OfOneEntry(k)'
    <3>1. writing'[k] = writing[k]
      BY <1>1, <2>2, Tables DEF WritesInv
    <3> QED
      BY <1>1, <3>1, Tables DEF WritesInv, OfOneEntry, Free
  <2>3. OfOneEntry(l)'
    <3>1. writing'[l] = [entry |-> e, row |-> row]
      BY <1>1, Tables DEF WritesInv
    <3>2. writing'[l].entry = e /\ writing'[l].row = row
      BY <3>1
    <3> QED
      BY <1>1, <3>2 DEF OfOneEntry
  <2> QED
    BY <2>1, <2>2, <2>3 DEF WritesInv
<1> QED
  BY <1>1, <1>3, Tables, WriteKeeps

(* A write that commits or is rolled back: the row of one key, of the      *)
(* entry the write was of.                                                 *)
LEMMA WriteEnds ==
  ASSUME OpenInv, NEW l \in LineId, CommitWrite(l) \/ CancelWrite(l)
  PROVE  /\ UNCHANGED <<status, reversing, active, audit, session>>
         /\ line' \in [LineId -> J!Line \cup {NoLine}]
         /\ \A k \in LineId \ {l} : line'[k] = line[k] /\ writing'[k] = writing[k]
         /\ writing'[l] = NoWrite /\ writing' \in [LineId -> WriteRows]
         /\ ~Free(l) /\ writing[l].entry \in EntryId
         /\ line[l] # NoLine => line[l].entry = writing[l].entry
         /\ line'[l] # NoLine => line'[l].entry = writing[l].entry
<1>1. ~Free(l) /\ writing' = [writing EXCEPT ![l] = NoWrite]
      /\ UNCHANGED <<status, reversing, active, audit, session>>
  BY DEF CommitWrite, CancelWrite
<1>2. /\ writing[l] \in WriteRows /\ writing \in [LineId -> WriteRows]
      /\ writing[l].entry \in EntryId
      /\ writing[l].row # NoLine => writing[l].row.entry = writing[l].entry
      /\ line[l] # NoLine => line[l].entry = writing[l].entry
  BY <1>1, Tables DEF WritesInv, OfOneEntry
<1>3. writing[l].row \in J!Line \cup {NoLine}
  BY <1>2 DEF WriteRows, Rows
<1>4. NoWrite \in WriteRows
  BY DEF NoWrite, WriteRows, Rows
<1>5. line' = line \/ line' = [line EXCEPT ![l] = writing[l].row]
  BY DEF CommitWrite, CancelWrite
<1>6. line \in [LineId -> J!Line \cup {NoLine}]
  BY Tables
<1>7. /\ line' \in [LineId -> J!Line \cup {NoLine}]
      /\ \A k \in LineId \ {l} : line'[k] = line[k]
      /\ line'[l] = line[l] \/ line'[l] = writing[l].row
  BY <1>3, <1>5, <1>6
<1>8. /\ writing' \in [LineId -> WriteRows] /\ writing'[l] = NoWrite
      /\ \A k \in LineId \ {l} : writing'[k] = writing[k]
  BY <1>1, <1>2, <1>4
<1> QED
  BY <1>1, <1>2, <1>7, <1>8

(* So the invariant holds of the rest.                                     *)
LEMMA EndKeeps ==
  ASSUME OpenInv, NEW l \in LineId, CommitWrite(l) \/ CancelWrite(l)
  PROVE  OpenInv'
<1>1. WritesInv'
  <2>1. ASSUME NEW k \in LineId, k # l PROVE OfOneEntry(k)'
    BY <2>1, WriteEnds, Tables DEF WritesInv, OfOneEntry, Free
  <2>2. OfOneEntry(l)'
    BY WriteEnds DEF OfOneEntry, Free
  <2> QED
    BY <2>1, <2>2, WriteEnds DEF WritesInv
<1> QED
  BY <1>1, WriteEnds, WriteKeeps, Tables

-----------------------------------------------------------------------------
(* The invariant holds whoever writes at the same time.                    *)

(* At the start no session runs and no table has a row.                    *)
LEMMA OpenInit == Init => OpenInv
<1> SUFFICES ASSUME Init PROVE OpenInv
  OBVIOUS
<1>1. /\ status = [e \in EntryId |-> "absent"] /\ reversing = [e \in EntryId |-> NoEntry]
      /\ line = [l \in LineId |-> NoLine] /\ active = Account /\ audit = << >>
      /\ session = [s \in Session |-> Idle] /\ writing = [l \in LineId |-> NoWrite]
  BY DEF Init, J!Init
<1>2. TablesInv
  <2>1. J!TypeOK
    BY <1>1 DEF J!TypeOK
  <2>2. J!ReversalStructure
    BY <1>1 DEF J!ReversalStructure
  <2>3. \A e \in EntryId : Logged(e)
    BY <1>1 DEF Logged, J!PostRows
  <2> QED
    BY <2>1, <2>2, <2>3 DEF TablesInv
<1>3. SessionInv
  BY <1>1, IdleIs DEF SessionInv
<1>4. WritesInv
  <2>1. NoWrite \in WriteRows
    BY DEF NoWrite, WriteRows, Rows
  <2> QED
    BY <1>1, <2>1 DEF WritesInv, OfOneEntry, Free
<1> QED
  BY <1>2, <1>3, <1>4 DEF OpenInv

(* One case per statement of a service.                                    *)
LEMMA StepKeeps ==
  ASSUME OpenInv, NEW s \in Session, Step(s) \/ Crash(s)
  PROVE  OpenInv'
<1>1. CASE PostValidate(s) \/ PostSelect(s) \/ PostUpdate(s)
  BY <1>1, PostingKeeps
<1>2. CASE PostCommit(s)
  BY <1>2, PostCommitKeeps
<1>3. CASE DeleteLines(s) \/ DeleteRow(s) \/ ReverseCheck(s)
  BY <1>3, DeletingKeeps
<1>4. CASE \E r \in EntryId : ReverseInsert(s, r)
  BY <1>4, InsertKeeps
<1>5. CASE \E new \in SUBSET FreeLines :
             \E g \in Bijection(new, J!LinesOf(line, session[s].entry)) : ReverseCommit(s, g)
  BY <1>5, ReverseCommitKeeps
<1>6. CASE DeleteCommit(s)
  BY <1>6, DeleteCommitKeeps
<1>7. CASE OutOfKeys(s) \/ Crash(s)
  BY <1>7, RaiseKeeps DEF OutOfKeys, Crash
<1> QED
  BY <1>1, <1>2, <1>3, <1>4, <1>5, <1>6, <1>7 DEF Step

(* One case per kind of step.                                              *)
LEMMA OpenStep == OpenInv /\ [NextOpen]_vars => OpenInv'
<1> SUFFICES ASSUME OpenInv, [NextOpen]_vars PROVE OpenInv'
  OBVIOUS
<1>1. ASSUME NEW s \in Session, Step(s) \/ Crash(s) PROVE OpenInv'
  BY <1>1, StepKeeps
<1>2. ASSUME NEW s \in Session, NEW op \in {"post", "reverse", "delete"}, NEW e \in EntryId,
             Load(s, op, e)
      PROVE  OpenInv'
  BY <1>2, LoadKeeps
<1>3. ASSUME NEW e \in EntryId, CreateDraft(e) PROVE OpenInv'
  BY <1>3, CreateKeeps
<1>4. ASSUME NEW l \in LineId, CommitWrite(l) \/ CancelWrite(l) PROVE OpenInv'
  BY <1>4, EndKeeps
<1>5. ASSUME NEW a \in Account, SetAccountActive(a) PROVE OpenInv'
  <2>1. UNCHANGED <<status, reversing, line, audit, session, writing>> /\ active' \in SUBSET Account
    BY <1>5, Tables DEF SetAccountActive, J!SetActive, J!Deactivate
  <2> QED
    BY <2>1, WriteKeeps, WritesStay, Tables
<1>6. ASSUME NEW l \in LineId, NEW e \in EntryId, NEW row \in Rows, BeginWrite(l, e, row)
      PROVE  OpenInv'
  BY <1>6, BeginKeeps
<1>7. CASE UNCHANGED vars
  BY <1>7, WriteKeeps, WritesStay, Tables DEF vars, tables
<1> QED
  BY <1>1, <1>2, <1>3, <1>4, <1>5, <1>6, <1>7 DEF NextOpen, Common

(* So it is an invariant.                                                  *)
LEMMA OpenInvariant == SpecOpen => []OpenInv
BY OpenInit, OpenStep, PTL DEF SpecOpen
(* Whoever writes lines meanwhile, every state of the services is well     *)
(* typed.                                                                  *)
THEOREM SessionsTyped == SpecOpen => []TypeOK
<1>1. OpenInv => TypeOK
  <2> SUFFICES ASSUME OpenInv PROVE TypeOK
    OBVIOUS
  <2>1. J!TypeOK
    BY Tables DEF TablesInv
  <2>2. \A s \in Session : session[s] \in SessionRows
    BY Stands
  <2>3. ASSUME NEW l \in LineId, ~Free(l)
        PROVE  /\ writing[l] \in [entry : EntryId, row : Rows]
               /\ writing[l].row # NoLine => writing[l].row.entry = writing[l].entry
    BY <2>3, Tables DEF WritesInv, OfOneEntry, WriteRows
  <2> QED
    BY <2>1, <2>2, <2>3 DEF TypeOK, SessionRows, Snapshots
<1> QED
  BY <1>1, OpenInvariant, PTL

(* Two sessions never hold the row of one entry, and an original has one   *)
(* reversal at most, inserted or committed.                                *)
THEOREM SessionsApart == SpecOpen => []Exclusion
<1>1. OpenInv => Exclusion
  <2> SUFFICES ASSUME OpenInv PROVE Exclusion
    OBVIOUS
  <2>1. ASSUME NEW s \in Session, NEW t \in Session, s # t, session[s].entry = session[t].entry
        PROVE  /\ ~(session[s].pc = "written" /\ session[t].pc = "written")
               /\ ~(session[s].made # NoEntry /\ session[t].made # NoEntry)
    <3>1. Course(session[s]) /\ Course(session[t]) /\ Apart(session[s], session[t])
      BY <2>1, Stands DEF OpenInv, SessionInv
    <3> QED
      BY <2>1, <3>1 DEF Course, Apart
  <2>2. ASSUME NEW s \in Session, session[s].made # NoEntry, NEW e \in EntryId
        PROVE  reversing[e] # session[s].entry
    <3>1. session[s].pc = "inserted"
      BY <2>2, Stands DEF Course
    <3> QED
      BY <3>1, ReverseFrom
  <2> QED
    BY <2>1, <2>2 DEF Exclusion
<1> QED
  BY <1>1, OpenInvariant, PTL

(* An entry is posted once: its one post_entry row is in the audit log     *)
(* exactly as long as it is posted.                                        *)
THEOREM OnePosting == SpecOpen => []PostedOnce
<1>1. OpenInv => PostedOnce
  <2> SUFFICES ASSUME OpenInv, NEW e \in EntryId
               PROVE  Cardinality(J!PostRows(e)) = IF status[e] = "posted" THEN 1 ELSE 0
    BY DEF PostedOnce
  <2>1. Logged(e)
    BY DEF OpenInv, TablesInv
  <2> QED
    BY <2>1, FS_Singleton, FS_EmptySet DEF Logged
<1> QED
  BY <1>1, OpenInvariant, PTL

-----------------------------------------------------------------------------
(* Posted entries are immutable once no write is open on them.             *)

(* A write is of one entry, only a draft's row is deleted, and a           *)
(* reversal's lines are rows that were free.                               *)
Untouched(e) ==
  /\ status'[e] = "posted" /\ reversing'[e] = reversing[e]
  /\ \A l \in LineId : \/ line'[l] = line[l]
                       \/ l \notin J!LinesOf(line, e) /\ l \notin J!LinesOf(line', e)

(* The tables a step of a session leaves alone.                            *)
LEMMA SessionStepTouches ==
  ASSUME OpenInv, NEW s \in Session, Step(s) \/ Crash(s),
         NEW e \in EntryId, status[e] = "posted"
  PROVE  Untouched(e)
<1>1. CASE UNCHANGED tables
  BY <1>1 DEF tables, Untouched
<1>2. CASE PostCommit(s)
  BY <1>2, Tables DEF PostCommit, Untouched
<1>3. CASE DeleteCommit(s) /\ ~UNCHANGED tables
  <2> DEFINE d == session[s].entry
  <2>1. /\ session[s].pc = "written" /\ status' = [status EXCEPT ![d] = "absent"]
        /\ line' = [l \in LineId |-> IF l \in J!LinesOf(line, d) THEN NoLine ELSE line[l]]
        /\ reversing' = reversing
    BY <1>3 DEF DeleteCommit, At, Raise
  <2>2. d # e
    BY <2>1, Stands DEF Relies
  <2>3. \A l \in LineId : \/ line'[l] = line[l]
                          \/ l \notin J!LinesOf(line, e) /\ l \notin J!LinesOf(line', e)
    BY <2>1, <2>2 DEF J!LinesOf
  <2> QED
    BY <2>1, <2>2, <2>3, Tables DEF Untouched
<1>4. ASSUME NEW new \in SUBSET FreeLines,
             NEW g \in Bijection(new, J!LinesOf(line, session[s].entry)),
             ReverseCommit(s, g), ~UNCHANGED tables
      PROVE  Untouched(e)
  <2> DEFINE o == session[s].entry
             r == session[s].made
  <2>1. /\ session[s].pc = "inserted" /\ status' = [status EXCEPT ![r] = "posted"]
        /\ reversing' = [reversing EXCEPT ![r] = o] /\ line' = Mirrored(g, r)
    BY <1>4 DEF ReverseCommit, At, Raise, Mirrored
  <2>2. o \in EntryId /\ r \in EntryId /\ r # e
    BY <2>1, ReverseFrom
  <2>3. /\ \A l \in LineId \ new : line'[l] = line[l]
        /\ \A l \in new : line[l] = NoLine /\ line'[l].entry = r
    BY <1>4, <2>1, <2>2, Tables, MirroredType DEF FreeLines
  <2>4. \A l \in LineId : \/ line'[l] = line[l]
                          \/ l \notin J!LinesOf(line, e) /\ l \notin J!LinesOf(line', e)
    BY <2>2, <2>3 DEF J!LinesOf
  <2> QED
    BY <2>1, <2>2, <2>4, Tables DEF Untouched
<1> QED
  BY <1>1, <1>2, <1>3, <1>4
  DEF Step, Crash, OutOfKeys, Raise, PostValidate, PostSelect, PostUpdate, ReverseCheck,
      ReverseInsert, DeleteLines, DeleteRow, Goto

(* Services write their own rows, and no writes of others.                 *)
LEMMA SessionWrites ==
  ASSUME NEW s \in Session, Step(s) \/ Crash(s)
  PROVE  UNCHANGED <<writing, active>>
BY DEF tables, Step, Crash, OutOfKeys, Raise, PostValidate, PostSelect, PostUpdate, PostCommit,
       ReverseCheck, ReverseInsert, ReverseCommit, DeleteLines, DeleteRow, DeleteCommit, Goto

(* Every step leaves a posted entry without open writes alone.             *)
LEMMA SettledUntouched ==
  ASSUME OpenInv, [NextOpen]_vars, NEW e \in EntryId, Settled(e)
  PROVE  Untouched(e) /\ Complete(e)'
<1>0. status[e] = "posted" /\ Complete(e)
  BY DEF Settled
<1>1. ASSUME NEW s \in Session, Step(s) \/ Crash(s) PROVE Untouched(e) /\ Complete(e)'
  BY <1>0, <1>1, SessionStepTouches, SessionWrites DEF Complete
<1>2. CASE UNCHANGED tables
  BY <1>0, <1>2 DEF tables, Untouched, Complete
<1>3. ASSUME NEW d \in EntryId, CreateDraft(d) PROVE Untouched(e) /\ Complete(e)'
  BY <1>0, <1>3, Tables DEF CreateDraft, J!CreateEntry, Untouched, Complete
<1>4. ASSUME NEW l \in LineId, CommitWrite(l) \/ CancelWrite(l)
      PROVE  Untouched(e) /\ Complete(e)'
  <2>1. writing[l].entry # e
    BY <1>0 DEF Complete
  <2>2. l \notin J!LinesOf(line, e) /\ l \notin J!LinesOf(line', e)
    BY <1>4, <2>1, WriteEnds DEF J!LinesOf
  <2>3. Complete(e)'
    <3>1. NoWrite.entry # e
      BY SessionAssumption DEF NoWrite
    <3> QED
      BY <1>0, <1>4, <3>1, WriteEnds DEF Complete
  <2> QED
    BY <1>0, <1>4, <2>2, <2>3, WriteEnds DEF Untouched
<1>5. ASSUME NEW a \in Account, SetAccountActive(a) PROVE Untouched(e) /\ Complete(e)'
  BY <1>0, <1>5 DEF SetAccountActive, J!SetActive, J!Deactivate, Untouched, Complete
<1>6. ASSUME NEW l \in LineId, NEW d \in EntryId, NEW row \in Rows, BeginWrite(l, d, row)
      PROVE  Untouched(e) /\ Complete(e)'
  <2>1. /\ writing' = [writing EXCEPT ![l] = [entry |-> d, row |-> row]]
        /\ status[d] = "draft" /\ UNCHANGED <<status, reversing, line>>
    BY <1>6 DEF BeginWrite, Writable
  <2>2. d # e
    BY <1>0, <2>1
  <2>3. \A k \in LineId : writing'[k] = IF k = l THEN [entry |-> d, row |-> row] ELSE writing[k]
    BY <2>1, Tables DEF WritesInv
  <2> QED
    BY <1>0, <2>1, <2>2, <2>3 DEF Untouched, Complete
<1>7. CASE UNCHANGED vars
  BY <1>2, <1>7 DEF vars
<1> QED
  BY <1>1, <1>2, <1>3, <1>4, <1>5, <1>6, <1>7 DEF NextOpen, Common, Load

(* Lines of a posted entry that no write is open on never change, whoever  *)
(* wrote lines while it was being posted.                                  *)
THEOREM SettledStays == SpecOpen => SettledImmutable
<1>1. OpenInv /\ [NextOpen]_vars =>
        [\A e \in EntryId : Settled(e) => /\ Settled(e)'
                                          /\ reversing'[e] = reversing[e]
                                          /\ J!Snapshot(line', e) = J!Snapshot(line, e)]_vars
  <2> SUFFICES ASSUME OpenInv, [NextOpen]_vars, NEW e \in EntryId, Settled(e)
               PROVE  /\ Settled(e)' /\ reversing'[e] = reversing[e]
                      /\ J!Snapshot(line', e) = J!Snapshot(line, e)
    OBVIOUS
  <2>1. Untouched(e) /\ Complete(e)'
    BY SettledUntouched
  <2> QED
    BY <2>1, OtherLines DEF Untouched, Settled
<1> QED
  BY <1>1, OpenInvariant, PTL DEF SpecOpen, SettledImmutable
-----------------------------------------------------------------------------
(* The services as this repository calls them: each commit is one whole    *)
(* operation of the journal.                                               *)

(* Their steps are among those of SpecOpen.                                *)
LEMMA ServicesAreOpen == [NextServices]_vars => [NextOpen]_vars
<1> SUFFICES ASSUME NextServices PROVE NextOpen
  OBVIOUS
<1>1. CASE \E s \in Session, op \in {"post", "reverse", "delete"}, e \in EntryId : LoadComplete(s, op, e)
  BY <1>1 DEF NextOpen, LoadComplete
<1>2. CASE \E l \in LineId, e \in EntryId, row \in Rows : BeginOwnWrite(l, e, row)
  BY <1>2 DEF NextOpen, BeginOwnWrite
<1> QED
  BY <1>1, <1>2 DEF NextServices, NextOpen

(* What ServicesInv says of a session that posts, and of posted entries.   *)
LEMMA ServicesFacts ==
  ASSUME ServicesInv
  PROVE  /\ OpenInv /\ J!PostedBalanced
         /\ \A s \in Session : Validated(s)
         /\ \A l \in LineId : Owned(l)
         /\ \A e \in EntryId : status[e] = "posted" => Settled(e)
<1>1. ASSUME NEW e \in EntryId, status[e] = "posted", NEW l \in LineId, writing[l].entry = e
      PROVE  FALSE
  <2>1. ~Free(l)
    BY <1>1, SessionAssumption DEF Free, NoWrite
  <2> QED
    BY <1>1, <2>1 DEF ServicesInv, Owned
<1> QED
  BY <1>1 DEF ServicesInv, Settled, Complete

(* The journal with its accounts always open reads lines as the journal    *)
(* does.                                                                   *)
LEMMA SameReads ==
  ASSUME NEW tbl, NEW e
  PROVE  /\ JA!LinesOf(tbl, e) = J!LinesOf(tbl, e)
         /\ JA!Snapshot(tbl, e) = J!Snapshot(tbl, e)
         /\ JA!Cardinality(JA!LinesOf(tbl, e)) = J!Cardinality(J!LinesOf(tbl, e))
         /\ JA!Balanced(tbl, e) <=> J!Balanced(tbl, e)
<1>1. JA!LinesOf(tbl, e) = J!LinesOf(tbl, e)
  BY DEF JA!LinesOf, J!LinesOf
<1>2. JA!Snapshot(tbl, e) = J!Snapshot(tbl, e)
  BY <1>1 DEF JA!Snapshot, J!Snapshot
<1>3. \A S : JA!Cardinality(S) = J!Cardinality(S)
  BY DEF JA!Cardinality, J!Cardinality
<1>4. JA!DebitOf(tbl, e) = J!DebitOf(tbl, e) /\ JA!CreditOf(tbl, e) = J!CreditOf(tbl, e)
  BY <1>1 DEF JA!DebitOf, J!DebitOf, JA!CreditOf, J!CreditOf
<1>5. \A f : JA!Total(f) = J!Total(f)
  BY DEF JA!Total, J!Total, JA!FoldFunction, J!FoldFunction, JA!FoldFunctionOnSet,
         J!FoldFunctionOnSet, JA!MapThenFoldSet, J!MapThenFoldSet
<1> QED
  BY <1>1, <1>2, <1>3, <1>4, <1>5 DEF JA!Balanced, J!Balanced

(* To it an entry is postable when it balances and has two lines.          *)
LEMMA SoundIsPostable ==
  ASSUME NEW tbl \in [LineId -> J!Line \cup {NoLine}], NEW e, Sound(tbl, e)
  PROVE  JA!Postable(tbl, e)
<1>1. \A l \in JA!LinesOf(tbl, e) : tbl[l].account \in Account
  BY DEF JA!LinesOf, J!Line, J!LineRow
<1>2. JA!AccountsOf(tbl, e) \subseteq Account
  BY <1>1 DEF JA!AccountsOf
<1> QED
  BY <1>2, SameReads DEF JA!Postable, Sound

(* post_entry: what was validated is still so, but for the accounts, and   *)
(* is what the audit row tells.                                            *)
LEMMA PostImplements ==
  ASSUME ServicesInv, NEW s \in Session, PostCommit(s)
  PROVE  /\ session[s].entry \in EntryId /\ JA!PostEntry(session[s].entry)
         /\ Sound(line', session[s].entry)
<1> DEFINE e == session[s].entry
<1>1. /\ session[s].op = "post" /\ session[s].pc = "written"
      /\ status' = [status EXCEPT ![e] = "posted"]
      /\ audit' = Append(audit, [action |-> "post_entry", entry |-> e,
                                 original |-> reversing[e], lines |-> session[s].lines])
      /\ UNCHANGED <<reversing, line, active>>
  BY DEF PostCommit, At
<1>2. e \in EntryId /\ status[e] = "draft"
  BY <1>1, Stands, ServicesFacts DEF Relies
<1>3. session[s].lines = J!Snapshot(line, e) /\ Sound(line, e)
  BY <1>1, <1>2, ServicesFacts DEF Validated
<1> HIDE DEF e
<1>4. JA!PostRow(line, e, reversing[e]) =
        [action |-> "post_entry", entry |-> e, original |-> reversing[e], lines |-> session[s].lines]
  BY <1>3, SameReads DEF JA!PostRow
<1>5. JA!Postable(line, e)
  BY <1>3, SoundIsPostable, Tables, ServicesFacts
<1>6. JA!PostEntry(e)
  BY <1>1, <1>2, <1>4, <1>5 DEF JA!PostEntry
<1>7. Sound(line', e)
  BY <1>1, <1>3
<1> QED
  BY <1>2, <1>6, <1>7 DEF e

(* delete(): the entry is a draft still, and no reversal points at it.     *)
LEMMA DeleteImplements ==
  ASSUME OpenInv, NEW s \in Session, DeleteCommit(s), ~Raise(s)
  PROVE  session[s].entry \in EntryId /\ JA!DeleteEntry(session[s].entry)
<1> DEFINE e == session[s].entry
<1>1. /\ session[s].op = "delete" /\ session[s].pc = "written"
      /\ status' = [status EXCEPT ![e] = "absent"]
      /\ line' = [l \in LineId |-> IF l \in J!LinesOf(line, e) THEN NoLine ELSE line[l]]
      /\ UNCHANGED <<reversing, active, audit>>
  BY DEF DeleteCommit, At
<1>2. e \in EntryId /\ status[e] = "draft"
  BY <1>1, Stands DEF Relies
<1>3. \A r \in EntryId : reversing[r] # e
  BY <1>2, Tables, SessionAssumption DEF J!ReversalStructure
<1> HIDE DEF e
<1>4. JA!DeleteEntry(e)
  BY <1>1, <1>2, <1>3, SameReads DEF JA!DeleteEntry
<1> QED
  BY <1>2, <1>4 DEF e

(* reverse_entry: the original is as reversible at the commit as it was    *)
(* when it was checked, and the reversal's key is unused.                  *)
LEMMA ReverseImplements ==
  ASSUME OpenInv, NEW s \in Session, NEW new \in SUBSET FreeLines,
         NEW g \in Bijection(new, J!LinesOf(line, session[s].entry)),
         ReverseCommit(s, g), ~Raise(s)
  PROVE  /\ session[s].entry \in EntryId /\ session[s].made \in EntryId
         /\ new \in SUBSET JA!FreeLines
         /\ g \in JA!Bijection(new, JA!LinesOf(line, session[s].entry))
         /\ JA!ReverseEntry(session[s].entry, session[s].made, g)
         /\ status' = [status EXCEPT ![session[s].made] = "posted"]
         /\ Sound(line', session[s].made)
<1> DEFINE o == session[s].entry
           r == session[s].made
           tbl == [l \in LineId |-> IF l \in DOMAIN g THEN J!Mirror(line[g[l]], r) ELSE line[l]]
           other == [l \in LineId |-> IF l \in DOMAIN g THEN JA!Mirror(line[g[l]], r) ELSE line[l]]
<1>1. /\ session[s].pc = "inserted" /\ J!Postable(tbl, r)
      /\ status' = [status EXCEPT ![r] = "posted"]
      /\ reversing' = [reversing EXCEPT ![r] = o]
      /\ line' = tbl
      /\ audit' = audit \o <<J!PostRow(tbl, r, o), J!ReverseRow(tbl, r, o)>>
  BY DEF ReverseCommit, At
<1>2. /\ o \in EntryId /\ r \in EntryId /\ status[o] = "posted" /\ reversing[o] = NoEntry
      /\ status[r] = "absent" /\ \A e \in EntryId : reversing[e] # o
  BY <1>1, ReverseFrom
<1>3. new \in SUBSET JA!FreeLines /\ new \in SUBSET J!FreeLines
  BY DEF FreeLines, J!FreeLines, JA!FreeLines
<1>4. g \in JA!Bijection(new, J!LinesOf(line, o))
  BY DEF Bijection, Injection, Surjection, IsInjective,
         JA!Bijection, JA!Injection, JA!Surjection, JA!IsInjective
<1>5. Sound(tbl, r)
  BY <1>1 DEF Sound, J!Postable
<1>6. other = tbl
  BY DEF JA!Mirror, J!Mirror
<1>7. tbl = Mirrored(g, r)
  BY DEF Mirrored
<1>8. tbl \in [LineId -> J!Line \cup {NoLine}]
  BY <1>2, <1>3, <1>7, Tables, MirroredType
<1> HIDE DEF o, r, tbl
<1>9. JA!Postable(tbl, r)
  BY <1>5, <1>8, SoundIsPostable
<1>10. JA!PostRow(tbl, r, o) = J!PostRow(tbl, r, o) /\ JA!ReverseRow(tbl, r, o) = J!ReverseRow(tbl, r, o)
  BY SameReads DEF JA!PostRow, J!PostRow, JA!ReverseRow, J!ReverseRow
<1>11. JA!ReverseEntry(o, r, g)
  <2>1. JA!Reversible(o) /\ status[r] = "absent"
    BY <1>2 DEF JA!Reversible
  <2>2. /\ JA!Postable(other, r) /\ line' = other
        /\ audit' = audit \o <<JA!PostRow(other, r, o), JA!ReverseRow(other, r, o)>>
    BY <1>1, <1>6, <1>9, <1>10
  <2> QED
    BY <1>1, <2>1, <2>2 DEF JA!ReverseEntry
<1>12. JA!LinesOf(line, o) = J!LinesOf(line, o)
  BY SameReads
<1> QED
  BY <1>1, <1>2, <1>3, <1>4, <1>5, <1>11, <1>12 DEF o, r

(* Every step of a session is a step of the journal or changes no table.   *)
LEMMA SessionImplements ==
  ASSUME ServicesInv, NEW s \in Session, Step(s) \/ Crash(s)
  PROVE  JA!Next \/ UNCHANGED tables
<1>1. CASE UNCHANGED tables
  BY <1>1
<1>2. CASE PostCommit(s)
  BY <1>2, PostImplements DEF JA!Next
<1>3. CASE DeleteCommit(s) /\ ~UNCHANGED tables
  <2>1. ~Raise(s)
    BY <1>3 DEF Raise
  <2>2. session[s].entry \in EntryId /\ JA!DeleteEntry(session[s].entry)
    BY <1>3, <2>1, DeleteImplements, ServicesFacts
  <2> QED
    BY <2>2 DEF JA!Next
<1>4. ASSUME NEW new \in SUBSET FreeLines,
             NEW g \in Bijection(new, J!LinesOf(line, session[s].entry)),
             ReverseCommit(s, g), ~UNCHANGED tables
      PROVE  JA!Next
  <2>1. ~Raise(s)
    BY <1>4 DEF Raise
  <2>2. /\ session[s].entry \in EntryId /\ session[s].made \in EntryId
        /\ new \in SUBSET JA!FreeLines
        /\ g \in JA!Bijection(new, JA!LinesOf(line, session[s].entry))
        /\ JA!ReverseEntry(session[s].entry, session[s].made, g)
    BY <1>4, <2>1, ReverseImplements, ServicesFacts
  <2> QED
    BY <2>2 DEF JA!Next
<1> QED
  BY <1>1, <1>2, <1>3, <1>4
  DEF Step, Crash, OutOfKeys, Raise, PostValidate, PostSelect, PostUpdate, ReverseCheck,
      ReverseInsert, DeleteLines, DeleteRow, Goto

(* A write that commits writes a line of a draft.                          *)
LEMMA CommitImplements ==
  ASSUME ServicesInv, NEW l \in LineId, CommitWrite(l)
  PROVE  JA!Next \/ UNCHANGED <<status, reversing, line, audit>>
<1> DEFINE row == writing[l].row
<1>1. /\ ~Free(l) /\ line' = [line EXCEPT ![l] = row]
      /\ UNCHANGED <<status, reversing, audit>>
  BY DEF CommitWrite
<1>2. /\ status[writing[l].entry] = "draft" /\ row \in J!Line \cup {NoLine}
      /\ row # NoLine => row.entry = writing[l].entry
      /\ line[l] # NoLine => line[l].entry = writing[l].entry
      /\ line \in [LineId -> J!Line \cup {NoLine}]
  BY <1>1, ServicesFacts, Tables DEF Owned, WritesInv, OfOneEntry, WriteRows, Rows
<1> HIDE DEF row
<1>3. J!Line = JA!Line
  BY DEF J!Line, JA!Line, J!LineRow, JA!LineRow, J!Money, JA!Money, J!DebitXorCredit, JA!DebitXorCredit
<1>4. CASE row = NoLine /\ line[l] = NoLine
  BY <1>1, <1>2, <1>4
<1>5. CASE row = NoLine /\ line[l] # NoLine
  <2>1. JA!DeleteLine(l)
    BY <1>1, <1>2, <1>5 DEF JA!DeleteLine
  <2> QED
    BY <2>1 DEF JA!Next
<1>6. CASE row # NoLine
  <2>1. JA!WriteLine(l, row) /\ row \in JA!Line
    BY <1>1, <1>2, <1>3, <1>6 DEF JA!WriteLine
  <2>2. JA!InsertLine(l, row) \/ JA!UpdateLine(l, row)
    BY <1>2, <1>6, <2>1 DEF JA!InsertLine, JA!UpdateLine
  <2> QED
    BY <2>1, <2>2 DEF JA!Next
<1> QED
  BY <1>4, <1>5, <1>6

(* So is every step.                                                       *)
LEMMA JournalStep ==
  ASSUME ServicesInv, [NextServices]_vars
  PROVE  [JA!Next]_JA!vars
<1>1. ASSUME NEW s \in Session, Step(s) \/ Crash(s) PROVE [JA!Next]_JA!vars
  BY <1>1, SessionImplements DEF tables, JA!vars
<1>2. ASSUME NEW s \in Session, NEW op \in {"post", "reverse", "delete"}, NEW e \in EntryId,
             LoadComplete(s, op, e)
      PROVE  [JA!Next]_JA!vars
  BY <1>2 DEF LoadComplete, Load, tables, JA!vars
<1>3. ASSUME NEW e \in EntryId, CreateDraft(e) PROVE [JA!Next]_JA!vars
  <2>1. JA!CreateEntry(e)
    BY <1>3 DEF CreateDraft, J!CreateEntry, JA!CreateEntry
  <2> QED
    BY <2>1 DEF JA!Next
<1>4. ASSUME NEW l \in LineId, CommitWrite(l) PROVE [JA!Next]_JA!vars
  BY <1>4, CommitImplements DEF JA!vars
<1>5. ASSUME NEW l \in LineId, CancelWrite(l) PROVE [JA!Next]_JA!vars
  BY <1>5 DEF CancelWrite, JA!vars
<1>6. ASSUME NEW a \in Account, SetAccountActive(a) PROVE [JA!Next]_JA!vars
  BY <1>6 DEF SetAccountActive, J!SetActive, J!Deactivate, JA!vars
<1>7. ASSUME NEW l \in LineId, NEW e \in EntryId, NEW row \in Rows, BeginOwnWrite(l, e, row)
      PROVE  [JA!Next]_JA!vars
  BY <1>7 DEF BeginOwnWrite, BeginWrite, JA!vars
<1>8. CASE UNCHANGED vars
  BY <1>8 DEF vars, tables, JA!vars
<1> QED
  BY <1>1, <1>2, <1>3, <1>4, <1>5, <1>6, <1>7, <1>8 DEF NextServices, Common
-----------------------------------------------------------------------------
(* Nothing that post_entry has validated goes stale.                       *)

(* A row of the table that is not one of e's, before or after.             *)
Elsewhere(e, l) ==
  \/ line'[l] = line[l]
  \/ l \notin J!LinesOf(line, e) /\ l \notin J!LinesOf(line', e)

(* A session that stays where it is keeps what it validated when its entry *)
(* was a draft before and its lines are untouched.                         *)
LEMMA ValidatedStays ==
  ASSUME ServicesInv, NEW t \in Session, session'[t] = session[t],
         session[t].op = "post" /\ status'[session[t].entry] = "draft"
           => /\ status[session[t].entry] = "draft"
              /\ \A l \in LineId : Elsewhere(session[t].entry, l)
  PROVE  Validated(t)'
<1> SUFFICES ASSUME session[t].op = "post", session[t].pc # "loaded",
                    status'[session[t].entry] = "draft"
             PROVE  /\ session[t].lines = J!Snapshot(line', session[t].entry)
                    /\ Sound(line', session[t].entry)
  BY DEF Validated
<1> DEFINE e == session[t].entry
<1>1. session[t].lines = J!Snapshot(line, e) /\ Sound(line, e)
  BY ServicesFacts DEF Validated
<1>2. /\ J!LinesOf(line', e) = J!LinesOf(line, e)
      /\ J!Snapshot(line', e) = J!Snapshot(line, e)
      /\ J!Balanced(line', e) <=> J!Balanced(line, e)
  BY OtherLines DEF Elsewhere
<1> QED
  BY <1>1, <1>2 DEF Sound

(* A step of session s leaves the other sessions' drafts alone, or takes   *)
(* them out of the drafts.                                                 *)
LEMMA OthersValidated ==
  ASSUME ServicesInv, NEW s \in Session, Step(s) \/ Crash(s), NEW t \in Session \ {s}
  PROVE  Validated(t)'
<1> DEFINE e == session[t].entry
           Kept == status'[e] = "draft" => /\ status[e] = "draft"
                                           /\ \A l \in LineId : Elsewhere(e, l)
<1>1. session'[t] = session[t]
  BY Stands, ServicesFacts
  DEF Step, Crash, OutOfKeys, Raise, PostValidate, PostSelect, PostUpdate, PostCommit,
      ReverseCheck, ReverseInsert, ReverseCommit, DeleteLines, DeleteRow, DeleteCommit, Goto
<1>2. ASSUME session[t].op = "post" PROVE Kept
  <2>1. e \in EntryId
    BY <1>2, Stands, ServicesFacts
  <2>2. CASE UNCHANGED tables
    BY <2>2 DEF tables, Elsewhere
  <2>3. CASE PostCommit(s)
    BY <2>1, <2>3, Tables, ServicesFacts DEF PostCommit, Elsewhere
  <2>4. CASE DeleteCommit(s) /\ ~UNCHANGED tables
    <3> DEFINE d == session[s].entry
    <3>1. /\ status' = [status EXCEPT ![d] = "absent"]
          /\ line' = [l \in LineId |-> IF l \in J!LinesOf(line, d) THEN NoLine ELSE line[l]]
      BY <2>4 DEF DeleteCommit, Raise
    <3>2. ASSUME status'[e] = "draft"
          PROVE  status[e] = "draft" /\ \A l \in LineId : Elsewhere(e, l)
      <4>1. d # e /\ status[e] = "draft"
        BY <2>1, <3>1, <3>2, Tables, ServicesFacts
      <4> QED
        BY <3>1, <4>1 DEF J!LinesOf, Elsewhere
    <3> QED
      BY <3>2
  <2>5. ASSUME NEW new \in SUBSET FreeLines,
               NEW g \in Bijection(new, J!LinesOf(line, session[s].entry)),
               ReverseCommit(s, g), ~UNCHANGED tables
        PROVE  Kept
    <3> DEFINE r == session[s].made
    <3>1. /\ session[s].pc = "inserted" /\ status' = [status EXCEPT ![r] = "posted"]
          /\ line' = Mirrored(g, r)
      BY <2>5 DEF ReverseCommit, At, Raise, Mirrored
    <3>2. session[s].entry \in EntryId /\ r \in EntryId
      BY <3>1, ReverseFrom, ServicesFacts
    <3>3. /\ \A l \in LineId \ new : line'[l] = line[l]
          /\ \A l \in new : line[l] = NoLine /\ line'[l].entry = r
      BY <2>5, <3>1, <3>2, Tables, MirroredType, ServicesFacts DEF FreeLines
    <3>4. ASSUME status'[e] = "draft"
          PROVE  status[e] = "draft" /\ \A l \in LineId : Elsewhere(e, l)
      <4>1. r # e /\ status[e] = "draft"
        BY <2>1, <3>1, <3>2, <3>4, Tables, ServicesFacts
      <4> QED
        BY <3>3, <4>1 DEF J!LinesOf, Elsewhere
    <3> QED
      BY <3>4
  <2> QED
    BY <2>2, <2>3, <2>4, <2>5
    DEF Step, Crash, OutOfKeys, Raise, PostValidate, PostSelect, PostUpdate, ReverseCheck,
        ReverseInsert, DeleteLines, DeleteRow, Goto
<1> QED
  BY <1>1, <1>2, ValidatedStays

(* A step of session s itself validates, or carries on with what it        *)
(* validated, or has nothing to do with it.                                *)
LEMMA OwnValidated ==
  ASSUME ServicesInv, NEW s \in Session, Step(s) \/ Crash(s)
  PROVE  Validated(s)'
<1>1. session \in [Session -> SessionRows] /\ session[s] \in SessionRows
  BY Stands, ServicesFacts
<1>2. CASE session'[s] = Idle
  BY <1>2 DEF Validated, Idle
<1>3. CASE session'[s].op # "post"
  BY <1>3 DEF Validated
<1>4. CASE PostValidate(s) /\ session'[s] # Idle
  <2>1. /\ UNCHANGED tables /\ J!Postable(line, session[s].entry)
        /\ session' = [session EXCEPT ![s].pc = "validated",
                                      ![s].lines = J!Snapshot(line, session[s].entry)]
    BY <1>1, <1>4 DEF PostValidate, Raise
  <2>2. session'[s].entry = session[s].entry
        /\ session'[s].lines = J!Snapshot(line, session[s].entry)
    BY <1>1, <2>1 DEF SessionRows
  <2> QED
    BY <2>1, <2>2 DEF Validated, tables, Sound, J!Postable
<1>5. CASE (PostSelect(s) \/ PostUpdate(s)) /\ session'[s] # Idle
  <2>1. /\ UNCHANGED tables /\ session[s].op = "post" /\ session[s].pc # "loaded"
        /\ Goto(s, "saving") \/ Goto(s, "written")
    BY <1>1, <1>5 DEF PostSelect, PostUpdate, At, Raise
  <2>2. session'[s].entry = session[s].entry /\ session'[s].lines = session[s].lines
        /\ session'[s].op = "post"
    BY <1>1, <2>1 DEF SessionRows, Goto
  <2>3. Validated(s)
    BY ServicesFacts
  <2> QED
    BY <2>1, <2>2, <2>3 DEF Validated, tables
<1>6. CASE PostCommit(s) \/ DeleteCommit(s) \/ OutOfKeys(s) \/ Crash(s)
  BY <1>1, <1>2, <1>3, <1>6 DEF PostCommit, DeleteCommit, OutOfKeys, Crash, Raise
<1>7. CASE \E g : ReverseCommit(s, g)
  BY <1>1, <1>2, <1>7 DEF ReverseCommit, Raise
<1>8. CASE ReverseCheck(s) \/ DeleteLines(s) \/ DeleteRow(s) \/ \E r : ReverseInsert(s, r)
  BY <1>1, <1>2, <1>3, <1>8
  DEF ReverseCheck, DeleteLines, DeleteRow, ReverseInsert, Raise, Goto, At, SessionRows
<1> QED
  BY <1>4, <1>5, <1>2, <1>6, <1>7, <1>8 DEF Step
(* Every step keeps every session's validation.                            *)
LEMMA ValidatedStep ==
  ASSUME ServicesInv, [NextServices]_vars, NEW t \in Session
  PROVE  Validated(t)'
<1>2. ASSUME NEW s \in Session, Step(s) \/ Crash(s) PROVE Validated(t)'
  BY <1>2, OwnValidated, OthersValidated
<1>3. CASE UNCHANGED <<status, line>> /\ session'[t] = session[t]
  BY <1>3, ValidatedStays DEF Elsewhere
<1>4. ASSUME NEW s \in Session, NEW op \in {"post", "reverse", "delete"}, NEW e \in EntryId,
             LoadComplete(s, op, e)
      PROVE  Validated(t)'
  <2>1. CASE t = s
    <3> DEFINE x == [Idle EXCEPT !.op = op, !.pc = "loaded", !.entry = e, !.inst = status[e]]
    <3>1. session' = [session EXCEPT ![s] = x]
      BY <1>4 DEF LoadComplete, Load
    <3>2. x.pc = "loaded"
      BY DEF Idle
    <3> HIDE DEF x
    <3>3. session'[t] = x
      BY <2>1, <3>1, Stands, ServicesFacts
    <3> QED
      BY <3>2, <3>3 DEF Validated
  <2>2. CASE t # s
    BY <1>3, <1>4, <2>2, Stands, ServicesFacts DEF LoadComplete, Load, tables
  <2> QED
    BY <2>1, <2>2
<1>5. ASSUME NEW e \in EntryId, CreateDraft(e) PROVE Validated(t)'
  <2>1. /\ session' = session /\ line' = line /\ status' = [status EXCEPT ![e] = "draft"]
        /\ session[t].entry # e
    BY <1>5 DEF CreateDraft, J!CreateEntry, FreshKey
  <2>2. session[t].op = "post" => session[t].entry \in EntryId
    BY Stands, ServicesFacts
  <2> QED
    BY <2>1, <2>2, Tables, ServicesFacts, ValidatedStays DEF Elsewhere
<1>6. ASSUME NEW l \in LineId, CommitWrite(l) \/ CancelWrite(l) PROVE Validated(t)'
  <2>1. session' = session /\ status' = status
    BY <1>6, WriteEnds, ServicesFacts
  <2>2. ASSUME session[t].op = "post" PROVE \A k \in LineId : Elsewhere(session[t].entry, k)
    <3>1. session[t].entry \in EntryId /\ InUse(session[t].entry)
      BY <2>2, Stands, ServicesFacts DEF InUse
    <3>2. writing[l].entry # session[t].entry
      BY <1>6, <3>1, WriteEnds, ServicesFacts DEF Owned
    <3>3. l \notin J!LinesOf(line, session[t].entry) /\ l \notin J!LinesOf(line', session[t].entry)
      BY <1>6, <3>2, WriteEnds, ServicesFacts DEF J!LinesOf
    <3> QED
      BY <1>6, <3>3, WriteEnds, ServicesFacts DEF Elsewhere
  <2> QED
    BY <2>1, <2>2, ValidatedStays
<1>7. ASSUME NEW a \in Account, SetAccountActive(a) PROVE Validated(t)'
  BY <1>3, <1>7 DEF SetAccountActive, J!SetActive, J!Deactivate
<1>8. ASSUME NEW l \in LineId, NEW e \in EntryId, NEW row \in Rows, BeginOwnWrite(l, e, row)
      PROVE  Validated(t)'
  BY <1>3, <1>8 DEF BeginOwnWrite, BeginWrite
<1>9. CASE UNCHANGED vars
  BY <1>3, <1>9 DEF vars, tables
<1> QED
  BY <1>2, <1>4, <1>5, <1>6, <1>7, <1>8, <1>9 DEF NextServices, Common

-----------------------------------------------------------------------------
(* Nobody writes lines of an entry that is not his own draft.              *)

(* The entries sessions are at after a statement are those before it.      *)
LEMMA StepEntries ==
  ASSUME OpenInv, NEW s \in Session, Step(s) \/ Crash(s), NEW t \in Session
  PROVE  session'[t].entry \in {session[t].entry, NoEntry}
<1>1. session \in [Session -> SessionRows]
  BY Stands
<1>2. CASE Raise(s) \/ session' = [session EXCEPT ![s] = Idle]
  BY <1>1, <1>2 DEF Raise, Idle
<1>3. CASE \E pc : Goto(s, pc)
  BY <1>1, <1>3 DEF Goto, SessionRows
<1>4. CASE \E pc, read : session' = [session EXCEPT ![s].pc = pc, ![s].lines = read]
  BY <1>1, <1>4 DEF SessionRows
<1>5. CASE \E pc, r : session' = [session EXCEPT ![s].pc = pc, ![s].made = r]
  BY <1>1, <1>5 DEF SessionRows
<1> QED
  BY <1>2, <1>3, <1>4, <1>5
  DEF Step, Crash, OutOfKeys, PostValidate, PostSelect, PostUpdate, PostCommit,
      ReverseCheck, ReverseInsert, ReverseCommit, DeleteLines, DeleteRow, DeleteCommit

(* A statement leaves a draft no session is at a draft.                    *)
LEMMA StepKeepsDraft ==
  ASSUME OpenInv, NEW s \in Session, Step(s) \/ Crash(s),
         NEW e \in EntryId, status[e] = "draft", ~InUse(e)
  PROVE  status'[e] = "draft"
<1>1. CASE UNCHANGED tables
  BY <1>1 DEF tables
<1>2. CASE PostCommit(s) \/ (DeleteCommit(s) /\ ~UNCHANGED tables)
  <2>1. \E x : status' = [status EXCEPT ![session[s].entry] = x]
    BY <1>2 DEF PostCommit, DeleteCommit, Raise
  <2>2. session[s].entry # e
    BY DEF InUse
  <2> QED
    BY <2>1, <2>2, Tables
<1>3. ASSUME NEW g, ReverseCommit(s, g), ~UNCHANGED tables
      PROVE  status'[e] = "draft"
  <2>1. session[s].pc = "inserted" /\ status' = [status EXCEPT ![session[s].made] = "posted"]
    BY <1>3 DEF ReverseCommit, At, Raise
  <2>2. status[session[s].made] = "absent"
    BY <2>1, ReverseFrom
  <2> QED
    BY <2>1, <2>2, Tables
<1> QED
  BY <1>1, <1>2, <1>3
  DEF Step, Crash, OutOfKeys, Raise, PostValidate, PostSelect, PostUpdate, ReverseCheck,
      ReverseInsert, DeleteLines, DeleteRow, Goto

(* Every step.                                                             *)
LEMMA OwnedStep ==
  ASSUME ServicesInv, [NextServices]_vars, NEW l \in LineId
  PROVE  Owned(l)'
<1> DEFINE e == writing[l].entry
<1>1. ~Free(l) => e \in EntryId /\ e # NoEntry /\ status[e] = "draft" /\ ~InUse(e)
  BY ServicesFacts, Tables, SessionAssumption DEF WritesInv, OfOneEntry, Owned
<1> HIDE DEF e
<1>2. ASSUME writing'[l] = writing[l],
             ~Free(l) => status'[e] = "draft" /\ \A t \in Session : session'[t].entry # e
      PROVE  Owned(l)'
  BY <1>2 DEF Owned, Free, InUse, e
<1>3. ASSUME NEW s \in Session, Step(s) \/ Crash(s) PROVE Owned(l)'
  <2>1. ~Free(l) => status'[e] = "draft"
    BY <1>1, <1>3, StepKeepsDraft, ServicesFacts
  <2>2. ~Free(l) => \A t \in Session : session'[t].entry # e
    BY <1>1, <1>3, StepEntries, ServicesFacts DEF InUse
  <2> QED
    BY <1>2, <1>3, <2>1, <2>2, SessionWrites
<1>4. ASSUME NEW s \in Session, NEW op \in {"post", "reverse", "delete"}, NEW d \in EntryId,
             LoadComplete(s, op, d)
      PROVE  Owned(l)'
  <2> DEFINE x == [Idle EXCEPT !.op = op, !.pc = "loaded", !.entry = d, !.inst = status[d]]
  <2>1. session' = [session EXCEPT ![s] = x] /\ UNCHANGED tables /\ e # d
    BY <1>4 DEF LoadComplete, Load, Complete, e
  <2>2. x.entry = d
    BY DEF Idle
  <2> HIDE DEF x
  <2>3. \A t \in Session : session'[t].entry \in {session[t].entry, d}
    BY <2>1, <2>2, Stands, ServicesFacts
  <2> QED
    BY <1>1, <1>2, <2>1, <2>3 DEF InUse, tables
<1>5. ASSUME NEW d \in EntryId, CreateDraft(d) PROVE Owned(l)'
  <2>1. /\ status[d] = "absent" /\ status' = [status EXCEPT ![d] = "draft"]
        /\ UNCHANGED <<session, writing>>
    BY <1>5 DEF CreateDraft, J!CreateEntry
  <2> QED
    BY <1>1, <1>2, <2>1, Tables, ServicesFacts DEF InUse
<1>6. ASSUME NEW k \in LineId, CommitWrite(k) \/ CancelWrite(k) PROVE Owned(l)'
  <2>1. UNCHANGED <<status, session>>
    BY <1>6, WriteEnds, ServicesFacts
  <2>2. writing'[l] = NoWrite \/ writing'[l] = writing[l]
    BY <1>6, WriteEnds, ServicesFacts
  <2> QED
    BY <1>1, <1>2, <2>1, <2>2 DEF InUse, Owned, Free
<1>7. ASSUME NEW a \in Account, SetAccountActive(a) PROVE Owned(l)'
  BY <1>1, <1>2, <1>7 DEF SetAccountActive, J!SetActive, J!Deactivate, InUse
<1>8. ASSUME NEW k \in LineId, NEW d \in EntryId, NEW row \in Rows, BeginOwnWrite(k, d, row)
      PROVE  Owned(l)'
  <2>1. /\ writing' = [writing EXCEPT ![k] = [entry |-> d, row |-> row]]
        /\ status[d] = "draft" /\ ~InUse(d) /\ UNCHANGED <<status, session>>
    BY <1>8 DEF BeginOwnWrite, BeginWrite, Writable
  <2>2. CASE k # l
    <3>1. writing'[l] = writing[l]
      BY <2>1, <2>2, Tables, ServicesFacts DEF WritesInv
    <3> QED
      BY <1>1, <1>2, <2>1, <3>1 DEF InUse
  <2>3. CASE k = l
    <3>1. writing'[l] = [entry |-> d, row |-> row]
      BY <2>1, <2>3, Tables, ServicesFacts DEF WritesInv
    <3>2. writing'[l].entry = d
      BY <3>1
    <3> QED
      BY <2>1, <3>2 DEF Owned, InUse
  <2> QED
    BY <2>2, <2>3
<1>9. CASE UNCHANGED vars
  BY <1>1, <1>2, <1>9 DEF vars, tables, InUse
<1> QED
  BY <1>3, <1>4, <1>5, <1>6, <1>7, <1>8, <1>9 DEF NextServices, Common

-----------------------------------------------------------------------------
(* Posted entries balance.                                                 *)

(* An entry that a step posts was validated on the lines it has then.      *)
LEMMA NewlyPosted ==
  ASSUME ServicesInv, [NextServices]_vars,
         NEW e \in EntryId, status[e] # "posted", status'[e] = "posted"
  PROVE  Sound(line', e)
<1>1. ASSUME NEW s \in Session, Step(s) \/ Crash(s) PROVE Sound(line', e)
  <2>1. CASE UNCHANGED tables
    BY <2>1 DEF tables
  <2>2. CASE PostCommit(s)
    <3>1. /\ session[s].entry \in EntryId /\ Sound(line', session[s].entry)
          /\ status' = [status EXCEPT ![session[s].entry] = "posted"]
      BY <2>2, PostImplements DEF PostCommit
    <3>2. session[s].entry = e
      BY <3>1, Tables, ServicesFacts
    <3> QED
      BY <3>1, <3>2
  <2>3. CASE DeleteCommit(s) /\ ~UNCHANGED tables
    BY <2>3, Tables, ServicesFacts DEF DeleteCommit, Raise
  <2>4. ASSUME NEW new \in SUBSET FreeLines,
               NEW g \in Bijection(new, J!LinesOf(line, session[s].entry)),
               ReverseCommit(s, g), ~UNCHANGED tables
        PROVE  Sound(line', e)
    <3>1. /\ session[s].made \in EntryId /\ Sound(line', session[s].made)
          /\ status' = [status EXCEPT ![session[s].made] = "posted"]
      BY <2>4, ReverseImplements, ServicesFacts DEF Raise
    <3>2. session[s].made = e
      BY <3>1, Tables, ServicesFacts
    <3> QED
      BY <3>1, <3>2
  <2> QED
    BY <1>1, <2>1, <2>2, <2>3, <2>4
    DEF Step, Crash, OutOfKeys, Raise, PostValidate, PostSelect, PostUpdate, ReverseCheck,
        ReverseInsert, DeleteLines, DeleteRow, Goto
<1>2. ASSUME NEW s \in Session, NEW op \in {"post", "reverse", "delete"}, NEW d \in EntryId,
             LoadComplete(s, op, d)
      PROVE  FALSE
  BY <1>2 DEF LoadComplete, Load, tables
<1>3. ASSUME NEW d \in EntryId, CreateDraft(d) PROVE FALSE
  BY <1>3, Tables, ServicesFacts DEF CreateDraft, J!CreateEntry
<1>4. ASSUME NEW l \in LineId, CommitWrite(l) \/ CancelWrite(l) PROVE FALSE
  BY <1>4, WriteEnds, ServicesFacts
<1>5. ASSUME NEW a \in Account, SetAccountActive(a) PROVE FALSE
  BY <1>5 DEF SetAccountActive, J!SetActive, J!Deactivate
<1>6. ASSUME NEW l \in LineId, NEW d \in EntryId, NEW row \in Rows, BeginOwnWrite(l, d, row)
      PROVE  FALSE
  BY <1>6 DEF BeginOwnWrite, BeginWrite
<1>7. CASE UNCHANGED vars
  BY <1>7 DEF vars, tables
<1> QED
  BY <1>1, <1>2, <1>3, <1>4, <1>5, <1>6, <1>7 DEF NextServices, Common

(* A posted entry keeps its lines, and one that becomes posted balances.   *)
LEMMA BalancedStep ==
  ASSUME ServicesInv, [NextServices]_vars
  PROVE  J!PostedBalanced'
<1> SUFFICES ASSUME NEW e \in EntryId, status'[e] = "posted"
             PROVE  J!Cardinality(J!LinesOf(line', e)) >= 2 /\ J!Balanced(line', e)
  BY DEF J!PostedBalanced, J!Posted
<1>1. CASE status[e] = "posted"
  <2>1. J!Cardinality(J!LinesOf(line, e)) >= 2 /\ J!Balanced(line, e)
    BY <1>1, ServicesFacts DEF J!PostedBalanced, J!Posted
  <2>2. Untouched(e)
    BY <1>1, SettledUntouched, ServicesAreOpen, ServicesFacts
  <2>3. J!LinesOf(line', e) = J!LinesOf(line, e) /\ (J!Balanced(line', e) <=> J!Balanced(line, e))
    BY <2>2, OtherLines DEF Untouched
  <2> QED
    BY <2>1, <2>3
<1>2. CASE status[e] # "posted"
  BY <1>2, NewlyPosted DEF Sound
<1> QED
  BY <1>1, <1>2

(* The invariant of the services.                                          *)
LEMMA ServicesInvariant == SpecServices => []ServicesInv
<1>1. Init => ServicesInv
  <2> SUFFICES ASSUME Init PROVE ServicesInv
    OBVIOUS
  <2>1. J!PostedBalanced
    BY DEF Init, J!Init, J!PostedBalanced, J!Posted
  <2>2. \A s \in Session : Validated(s)
    BY DEF Init, Validated, Idle
  <2>3. \A l \in LineId : Owned(l)
    BY DEF Init, Owned, Free
  <2> QED
    BY <2>1, <2>2, <2>3, OpenInit DEF ServicesInv
<1>2. ServicesInv /\ [NextServices]_vars => ServicesInv'
  <2> SUFFICES ASSUME ServicesInv, [NextServices]_vars PROVE ServicesInv'
    OBVIOUS
  <2>1. OpenInv'
    BY ServicesFacts, ServicesAreOpen, OpenStep
  <2>2. \A s \in Session : Validated(s)'
    BY ValidatedStep
  <2>3. \A l \in LineId : Owned(l)'
    BY OwnedStep
  <2> QED
    BY <2>1, <2>2, <2>3, BalancedStep DEF ServicesInv
<1> QED
  BY <1>1, <1>2, PTL DEF SpecServices

(* As this repository calls the services, every posted entry balances and  *)
(* has two lines, in every state of every interleaving.                    *)
THEOREM ServicesBalance == SpecServices => []PostedBalanced
<1>1. ServicesInv => PostedBalanced
  BY DEF ServicesInv, PostedBalanced
<1> QED
  BY <1>1, ServicesInvariant, PTL

(* Every interleaving of the services, with accounts closed at any moment, *)
(* is a sequence of whole operations of a journal that takes no notice of  *)
(* closed accounts.                                                        *)
THEOREM ServicesRefineJournal == SpecServices => ImplementsJournal
<1>1. Init => JA!Init
  BY DEF Init, J!Init, JA!Init
<1>2. ServicesInv /\ [NextServices]_vars => [JA!Next]_JA!vars
  BY JournalStep
<1> QED
  BY <1>1, <1>2, ServicesInvariant, PTL DEF SpecServices, ImplementsJournal, JA!Spec

(* All that holds whoever writes lines holds of the services too.          *)
THEOREM ServicesApart == SpecServices => [](TypeOK /\ Exclusion)
<1>1. [NextServices]_vars => [NextOpen]_vars
  BY ServicesAreOpen
<1>2. SpecServices => SpecOpen
  BY <1>1, PTL DEF SpecServices, SpecOpen
<1> QED
  BY <1>2, SessionsTyped, SessionsApart, PTL
=============================================================================
