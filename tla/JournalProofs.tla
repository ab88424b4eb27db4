--------------------------- MODULE JournalProofs ---------------------------
(***************************************************************************)
(* What Journal promises, proved for every set of entries, lines, accounts *)
(* and amounts.                                                            *)
(***************************************************************************)
EXTENDS Journal, TLAPS

-----------------------------------------------------------------------------
(* Line tables.                                                            *)

(* Nothing that is read off the lines of an entry changes when no row of   *)
(* that entry, before or after, is among the rows that change.             *)
LEMMA OtherLines ==
  ASSUME NEW old, NEW new, NEW e,
         \A l \in LineId : \/ new[l] = old[l]
                           \/ l \notin LinesOf(old, e) /\ l \notin LinesOf(new, e)
  PROVE  /\ LinesOf(new, e) = LinesOf(old, e)
         /\ \A l \in LinesOf(new, e) : new[l] = old[l]
         /\ DebitOf(new, e) = DebitOf(old, e)
         /\ CreditOf(new, e) = CreditOf(old, e)
         /\ Snapshot(new, e) = Snapshot(old, e)
         /\ Balanced(new, e) <=> Balanced(old, e)
<1>1. LinesOf(new, e) = LinesOf(old, e)
  BY DEF LinesOf
<1>2. \A l \in LinesOf(new, e) : new[l] = old[l]
  BY <1>1 DEF LinesOf
<1>3. DebitOf(new, e) = DebitOf(old, e)
  BY <1>1, <1>2 DEF DebitOf
<1>4. CreditOf(new, e) = CreditOf(old, e)
  BY <1>1, <1>2 DEF CreditOf
<1>5. Snapshot(new, e) = Snapshot(old, e)
  BY <1>1, <1>2 DEF Snapshot
<1>6. Balanced(new, e) <=> Balanced(old, e)
  BY <1>3, <1>4 DEF Balanced
<1> QED
  BY <1>1, <1>2, <1>3, <1>4, <1>5, <1>6

(* A snapshot of any entry is one the audit log may hold.                 *)
LEMMA SnapshotType ==
  ASSUME NEW tbl \in [LineId -> Line \cup {NoLine}], NEW e
  PROVE  Snapshot(tbl, e) \in [LineId -> LineData \cup {NoLine}]
<1>1. ASSUME NEW l \in LinesOf(tbl, e)
      PROVE  [account |-> tbl[l].account, debit |-> tbl[l].debit,
              credit |-> tbl[l].credit] \in LineData
  <2>1. tbl[l] \in LineRow
    BY <1>1 DEF LinesOf, Line
  <2> QED
    BY <2>1 DEF LineRow, LineData
<1> QED
  BY <1>1 DEF Snapshot

(* The row reverse_entry writes is a row the CHECK constraints accept.     *)
LEMMA MirrorType ==
  ASSUME NEW row \in Line, NEW r \in EntryId
  PROVE  Mirror(row, r) \in Line
<1>1. row \in LineRow /\ DebitXorCredit(row)
  BY DEF Line
<1>2. Mirror(row, r) \in LineRow
  BY <1>1 DEF LineRow, Mirror
<1>3. Mirror(row, r).debit = row.credit /\ Mirror(row, r).credit = row.debit
  BY <1>1 DEF LineRow, Mirror
<1>4. DebitXorCredit(Mirror(row, r))
  BY <1>1, <1>3 DEF DebitXorCredit
<1> QED
  BY <1>2, <1>4 DEF Line

(* The line table after reverse_entry.                                     *)
Mirrored(g, r) ==
  [l \in LineId |-> IF l \in DOMAIN g THEN Mirror(line[g[l]], r) ELSE line[l]]

(* It is well typed, the new rows belong to the reversal and the others    *)
(* are untouched.                                                          *)
LEMMA MirroredType ==
  ASSUME line \in [LineId -> Line \cup {NoLine}],
         NEW o \in EntryId, NEW r \in EntryId, NEW new \in SUBSET FreeLines,
         NEW g \in Bijection(new, LinesOf(line, o))
  PROVE  /\ DOMAIN g = new
         /\ \A l \in new : g[l] \in LinesOf(line, o)
         /\ Mirrored(g, r) \in [LineId -> Line \cup {NoLine}]
         /\ \A l \in LineId \ new : Mirrored(g, r)[l] = line[l]
         /\ \A l \in new : line[l] = NoLine /\ Mirrored(g, r)[l].entry = r
<1>1. g \in [new -> LinesOf(line, o)]
  BY DEF Bijection, Injection
<1>2. \A l \in new : line[g[l]] \in Line
  BY <1>1 DEF LinesOf
<1>3. \A l \in new : Mirror(line[g[l]], r) \in Line /\ Mirror(line[g[l]], r).entry = r
  BY <1>2, MirrorType DEF Mirror, Line, LineRow
<1>4. \A l \in new : l \in LineId /\ line[l] = NoLine
  BY DEF FreeLines
<1> QED
  BY <1>1, <1>3, <1>4 DEF Mirrored

-----------------------------------------------------------------------------
(* Types.                                                                  *)

(* Writing one audit row, and two.                                         *)
LEMMA AppendRow ==
  ASSUME NEW S, NEW s \in Seq(S), NEW x \in S
  PROVE  /\ Append(s, x) \in Seq(S)
         /\ Len(Append(s, x)) = Len(s) + 1
         /\ \A i \in 1..Len(s) : Append(s, x)[i] = s[i]
         /\ Append(s, x)[Len(s) + 1] = x
  OBVIOUS

(* The two rows reverse_entry leads to.                                    *)
LEMMA AppendTwoRows ==
  ASSUME NEW S, NEW s \in Seq(S), NEW x \in S, NEW y \in S
  PROVE  /\ s \o <<x, y>> \in Seq(S)
         /\ Len(s \o <<x, y>>) = Len(s) + 2
         /\ \A i \in 1..Len(s) : (s \o <<x, y>>)[i] = s[i]
         /\ (s \o <<x, y>>)[Len(s) + 1] = x
         /\ (s \o <<x, y>>)[Len(s) + 2] = y
<1>1. <<x, y>> \in Seq(S) /\ Len(<<x, y>>) = 2 /\ <<x, y>>[1] = x /\ <<x, y>>[2] = y
  OBVIOUS
<1>2. \A t \in Seq(S) : /\ s \o t \in Seq(S)
                        /\ Len(s \o t) = Len(s) + Len(t)
                        /\ \A i \in 1..Len(s) : (s \o t)[i] = s[i]
                        /\ \A i \in 1..Len(t) : (s \o t)[Len(s) + i] = t[i]
  OBVIOUS
<1> QED
  BY <1>1, <1>2

(* The rows the services build are audit rows.                             *)
LEMMA RowTypes ==
  ASSUME NEW tbl \in [LineId -> Line \cup {NoLine}],
         NEW e \in EntryId, NEW o \in EntryId \cup {NoEntry}
  PROVE  PostRow(tbl, e, o) \in AuditRow /\ ReverseRow(tbl, e, o) \in AuditRow
<1> DEFINE Snapshots == [LineId -> LineData \cup {NoLine}]
<1>1. Snapshot(tbl, e) \in Snapshots
  BY SnapshotType
<1> HIDE DEF Snapshots
<1>2. AuditRow = [action : {"post_entry", "reverse_entry"}, entry : EntryId,
                  original : EntryId \cup {NoEntry}, lines : Snapshots]
  BY DEF AuditRow, Snapshots
<1> QED
  BY <1>1, <1>2 DEF PostRow, ReverseRow

(* TypeOK holds at the start, and every step keeps it.                     *)
LEMMA TypeInit == Init => TypeOK
  BY DEF Init, TypeOK

(* One case per write of the journal, the re-parenting one included.       *)
LEMMA TypeStep == TypeOK /\ [NextReparent]_vars => TypeOK'
<1> SUFFICES ASSUME TypeOK, [NextReparent]_vars PROVE TypeOK'
  OBVIOUS
<1> USE DEF TypeOK
<1>1. ASSUME NEW e \in EntryId, CreateEntry(e) PROVE TypeOK'
  BY <1>1 DEF CreateEntry
<1>2. ASSUME NEW e \in EntryId, DeleteEntry(e) PROVE TypeOK'
  BY <1>2 DEF DeleteEntry
<1>3. ASSUME NEW e \in EntryId, PostEntry(e) PROVE TypeOK'
  <2>1. PostRow(line, e, reversing[e]) \in AuditRow
    BY RowTypes
  <2>2. audit' \in Seq(AuditRow)
    BY <1>3, <2>1, AppendRow DEF PostEntry
  <2> QED
    BY <1>3, <2>2 DEF PostEntry
<1>4. ASSUME NEW l \in LineId, NEW row \in Line, WriteLine(l, row) PROVE TypeOK'
  BY <1>4 DEF WriteLine
<1>5. ASSUME NEW l \in LineId, DeleteLine(l) PROVE TypeOK'
  BY <1>5 DEF DeleteLine
<1>6. ASSUME NEW o \in EntryId, NEW r \in EntryId, NEW new \in SUBSET FreeLines,
             NEW g \in Bijection(new, LinesOf(line, o)), ReverseEntry(o, r, g)
      PROVE TypeOK'
  <2>1. line' = Mirrored(g, r)
    BY <1>6 DEF ReverseEntry, Mirrored
  <2>2. line' \in [LineId -> Line \cup {NoLine}]
    BY <2>1, MirroredType
  <2>3. PostRow(line', r, o) \in AuditRow /\ ReverseRow(line', r, o) \in AuditRow
    BY <2>2, RowTypes
  <2>4. audit' = audit \o <<PostRow(line', r, o), ReverseRow(line', r, o)>>
    BY <1>6 DEF ReverseEntry
  <2>5. audit' \in Seq(AuditRow)
    BY <2>3, <2>4, AppendTwoRows
  <2> QED
    BY <1>6, <2>2, <2>5 DEF ReverseEntry
<1>7. ASSUME NEW a \in Account, SetActive(a) PROVE TypeOK'
  BY <1>7 DEF SetActive
<1>8. ASSUME NEW a \in Account, Deactivate(a) PROVE TypeOK'
  BY <1>8 DEF Deactivate
<1>9. CASE UNCHANGED vars
  BY <1>9 DEF vars
<1> QED
  BY <1>1, <1>2, <1>3, <1>4, <1>5, <1>6, <1>7, <1>8, <1>9
  DEF NextReparent, Next, InsertLine, UpdateLine, ReparentLine

(* Every state of the journal is well typed, re-parenting writes included. *)
THEOREM TypeCorrect == SpecReparent => []TypeOK
BY TypeInit, TypeStep, PTL DEF SpecReparent

(* The journal without re-parenting is one behaviour of the journal with it. *)
LEMMA SpecIsReparent == Spec => SpecReparent
<1>1. [Next]_vars => [NextReparent]_vars
  BY DEF NextReparent
<1> QED
  BY <1>1, PTL DEF Spec, SpecReparent

-----------------------------------------------------------------------------
(* A step leaves the lines of a posted entry alone.                        *)
LEMMA PostedLinesKept ==
  ASSUME TypeOK, [Next]_vars, NEW e \in EntryId, status[e] = "posted"
  PROVE  /\ status'[e] = "posted"
         /\ reversing'[e] = reversing[e]
         /\ LinesOf(line', e) = LinesOf(line, e)
         /\ \A l \in LinesOf(line', e) : line'[l] = line[l]
         /\ Snapshot(line', e) = Snapshot(line, e)
         /\ Balanced(line', e) <=> Balanced(line, e)
<1> DEFINE Same == /\ status'[e] = "posted"
                   /\ reversing'[e] = reversing[e]
           Kept == \A l \in LineId : \/ line'[l] = line[l]
                                     \/ l \notin LinesOf(line, e) /\ l \notin LinesOf(line', e)
<1>1. ASSUME NEW d \in EntryId, CreateEntry(d) PROVE Same /\ Kept
  BY <1>1 DEF CreateEntry, TypeOK
<1>2. ASSUME NEW d \in EntryId, DeleteEntry(d) PROVE Same /\ Kept
  <2>1. d # e
    BY <1>2 DEF DeleteEntry
  <2>2. \A l \in LinesOf(line, d) : line[l].entry = d /\ line'[l] = NoLine
    BY <1>2 DEF DeleteEntry, LinesOf
  <2>3. \A l \in LineId \ LinesOf(line, d) : line'[l] = line[l]
    BY <1>2 DEF DeleteEntry
  <2>4. Kept
    BY <2>1, <2>2, <2>3 DEF LinesOf
  <2> QED
    BY <1>2, <2>1, <2>4 DEF DeleteEntry, TypeOK
<1>3. ASSUME NEW d \in EntryId, PostEntry(d) PROVE Same /\ Kept
  BY <1>3 DEF PostEntry, TypeOK
<1>4. ASSUME NEW l \in LineId, NEW row \in Line, InsertLine(l, row) \/ UpdateLine(l, row)
      PROVE Same /\ Kept
  <2>1. row.entry # e /\ (line[l] = NoLine \/ line[l].entry = row.entry)
    BY <1>4 DEF InsertLine, UpdateLine, WriteLine
  <2>2. line' = [line EXCEPT ![l] = row]
    BY <1>4 DEF InsertLine, UpdateLine, WriteLine
  <2>3. Kept
    BY <2>1, <2>2 DEF LinesOf, TypeOK
  <2> QED
    BY <1>4, <2>3 DEF InsertLine, UpdateLine, WriteLine
<1>5. ASSUME NEW l \in LineId, DeleteLine(l) PROVE Same /\ Kept
  BY <1>5 DEF DeleteLine, LinesOf, TypeOK
<1>6. ASSUME NEW o \in EntryId, NEW r \in EntryId, NEW new \in SUBSET FreeLines,
             NEW g \in Bijection(new, LinesOf(line, o)), ReverseEntry(o, r, g)
      PROVE Same /\ Kept
  <2>1. r # e
    BY <1>6 DEF ReverseEntry
  <2>2. line' = Mirrored(g, r)
    BY <1>6 DEF ReverseEntry, Mirrored
  <2>3. Kept
    <3>1. \A l \in LineId \ new : line'[l] = line[l]
      BY <2>2, MirroredType DEF TypeOK
    <3>2. \A l \in new : line[l] = NoLine /\ line'[l].entry = r
      BY <2>2, MirroredType DEF TypeOK
    <3> QED
      BY <2>1, <3>1, <3>2 DEF LinesOf
  <2> QED
    BY <1>6, <2>1, <2>3 DEF ReverseEntry, TypeOK
<1>7. ASSUME NEW a \in Account, SetActive(a) \/ Deactivate(a) PROVE Same /\ Kept
  BY <1>7 DEF SetActive, Deactivate
<1>8. CASE UNCHANGED vars
  BY <1>8 DEF vars
<1>9. Same /\ Kept
  BY <1>1, <1>2, <1>3, <1>4, <1>5, <1>6, <1>7, <1>8 DEF Next
<1> QED
  BY <1>9, OtherLines

(* Once posted, an entry, its link and its lines never change again.       *)
THEOREM Immutability == Spec => PostedImmutable
<1>1. TypeOK /\ [Next]_vars =>
        [\A e \in Posted : /\ status'[e] = "posted"
                           /\ reversing'[e] = reversing[e]
                           /\ Snapshot(line', e) = Snapshot(line, e)]_vars
  BY PostedLinesKept DEF Posted
<1>2. Spec => []TypeOK
  BY SpecIsReparent, TypeCorrect
<1> QED
  BY <1>1, <1>2, PTL DEF Spec, PostedImmutable

-----------------------------------------------------------------------------
(* Which entries a step posts.                                             *)

(* Only post_entry makes an entry posted, and it has validated the lines.  *)
LEMMA NewlyPosted ==
  ASSUME TypeOK, [Next]_vars, NEW e \in EntryId, status[e] # "posted", status'[e] = "posted"
  PROVE  Cardinality(LinesOf(line', e)) >= 2 /\ Balanced(line', e)
<1>1. ASSUME PostEntry(e) PROVE Cardinality(LinesOf(line', e)) >= 2 /\ Balanced(line', e)
  <2>1. line' = line
    BY <1>1 DEF PostEntry
  <2> QED
    BY <1>1, <2>1 DEF PostEntry, Postable
<1>2. ASSUME NEW o \in EntryId, NEW new \in SUBSET FreeLines,
             NEW g \in Bijection(new, LinesOf(line, o)), ReverseEntry(o, e, g)
      PROVE Cardinality(LinesOf(line', e)) >= 2 /\ Balanced(line', e)
  BY <1>2 DEF ReverseEntry, Postable
<1>3. ASSUME NEW d \in EntryId, PostEntry(d) PROVE d = e
  BY <1>3 DEF PostEntry, TypeOK
<1>4. ASSUME NEW o \in EntryId, NEW r \in EntryId, NEW g, ReverseEntry(o, r, g) PROVE r = e
  BY <1>4 DEF ReverseEntry, TypeOK
<1>5. ASSUME NEW d \in EntryId, CreateEntry(d) \/ DeleteEntry(d) PROVE FALSE
  BY <1>5 DEF CreateEntry, DeleteEntry, TypeOK
<1>6. ASSUME NEW l \in LineId, NEW row \in Line, InsertLine(l, row) \/ UpdateLine(l, row)
      PROVE FALSE
  BY <1>6 DEF InsertLine, UpdateLine, WriteLine
<1>7. ASSUME NEW l \in LineId, DeleteLine(l) PROVE FALSE
  BY <1>7 DEF DeleteLine
<1>8. ASSUME NEW a \in Account, SetActive(a) \/ Deactivate(a) PROVE FALSE
  BY <1>8 DEF SetActive, Deactivate
<1>9. CASE UNCHANGED vars
  BY <1>9 DEF vars
<1> QED
  BY <1>1, <1>2, <1>3, <1>4, <1>5, <1>6, <1>7, <1>8, <1>9 DEF Next

(* An entry that was posted keeps its lines; one that becomes posted was   *)
(* validated on the lines it has after the step.                           *)
LEMMA BalancedStep == TypeOK /\ PostedBalanced /\ [Next]_vars => PostedBalanced'
<1> SUFFICES ASSUME TypeOK, PostedBalanced, [Next]_vars,
                    NEW e \in EntryId, status'[e] = "posted"
             PROVE  Cardinality(LinesOf(line', e)) >= 2 /\ Balanced(line', e)
  BY DEF PostedBalanced, Posted
<1>1. CASE status[e] = "posted"
  <2>1. Cardinality(LinesOf(line, e)) >= 2 /\ Balanced(line, e)
    BY <1>1 DEF PostedBalanced, Posted
  <2> QED
    BY <1>1, <2>1, PostedLinesKept
<1>2. CASE status[e] # "posted"
  BY <1>2, NewlyPosted
<1> QED
  BY <1>1, <1>2

(* In every reachable state every posted entry balances.                   *)
THEOREM BooksBalance == Spec => []PostedBalanced
<1>1. Init => PostedBalanced
  BY DEF Init, PostedBalanced, Posted
<1>2. Spec => []TypeOK
  BY SpecIsReparent, TypeCorrect
<1> QED
  BY <1>1, <1>2, BalancedStep, PTL DEF Spec

-----------------------------------------------------------------------------
(* Reversals, under every write that is let through.                       *)
LEMMA ReversalStep ==
  TypeOK /\ ReversalStructure /\ [NextReparent]_vars => ReversalStructure'
<1> SUFFICES ASSUME TypeOK, ReversalStructure, [NextReparent]_vars PROVE ReversalStructure'
  OBVIOUS
<1>1. ASSUME NEW o \in EntryId, NEW r \in EntryId, NEW g, ReverseEntry(o, r, g)
      PROVE  ReversalStructure'
  <2>1. /\ status[o] = "posted" /\ reversing[o] = NoEntry /\ status[r] = "absent"
        /\ \A e \in EntryId : reversing[e] # o
        /\ status' = [status EXCEPT ![r] = "posted"]
        /\ reversing' = [reversing EXCEPT ![r] = o]
    BY <1>1 DEF ReverseEntry, Reversible
  <2>2. \A q \in EntryId : reversing[q] # r
    BY <2>1, NoEntryAssumption DEF ReversalStructure
  <2> QED
    BY <2>1, <2>2, NoEntryAssumption DEF ReversalStructure, TypeOK
<1>2. ASSUME NEW e \in EntryId, CreateEntry(e) \/ DeleteEntry(e) \/ PostEntry(e)
      PROVE  ReversalStructure'
  <2>1. reversing' = reversing /\ status[e] # "posted"
    BY <1>2 DEF CreateEntry, DeleteEntry, PostEntry
  <2>2. \A d \in EntryId : status[d] = "posted" => status'[d] = "posted"
    BY <1>2 DEF CreateEntry, DeleteEntry, PostEntry, TypeOK
  <2> QED
    BY <2>1, <2>2, NoEntryAssumption DEF ReversalStructure, TypeOK
<1>3. ASSUME UNCHANGED <<status, reversing>> PROVE ReversalStructure'
  BY <1>3 DEF ReversalStructure
<1>4. ASSUME NEW l \in LineId, NEW row \in Line,
             InsertLine(l, row) \/ UpdateLine(l, row) \/ ReparentLine(l, row)
      PROVE  UNCHANGED <<status, reversing>>
  BY <1>4 DEF InsertLine, UpdateLine, ReparentLine, WriteLine
<1>5. ASSUME NEW l \in LineId, DeleteLine(l) PROVE UNCHANGED <<status, reversing>>
  BY <1>5 DEF DeleteLine
<1>6. ASSUME NEW a \in Account, SetActive(a) \/ Deactivate(a)
      PROVE UNCHANGED <<status, reversing>>
  BY <1>6 DEF SetActive, Deactivate
<1>7. CASE UNCHANGED vars
  BY <1>3, <1>7 DEF vars
<1> QED
  BY <1>1, <1>2, <1>3, <1>4, <1>5, <1>6, <1>7 DEF NextReparent, Next

(* One reversal per original and no chains.                                *)
THEOREM ReversalsAreStructured == SpecReparent => []ReversalStructure
<1>1. Init => ReversalStructure
  BY DEF Init, ReversalStructure
<1> QED
  BY <1>1, TypeCorrect, ReversalStep, PTL DEF SpecReparent

-----------------------------------------------------------------------------
(* The audit log.                                                          *)

(* What posting an entry adds to the log: its one post_entry    *)
(* row, at a new position, with the lines the entry has from then on.      *)
LEMMA AuditStep == TypeOK /\ AuditMatchesJournal /\ [Next]_vars => AuditMatchesJournal'
<1> SUFFICES ASSUME TypeOK, AuditMatchesJournal, [Next]_vars, NEW e \in EntryId
             PROVE  IF status'[e] = "posted"
                    THEN \E i \in 1..Len(audit') :
                           PostRows(e)' = {i} /\ audit'[i].lines = Snapshot(line', e)
                    ELSE PostRows(e)' = {}
  BY DEF AuditMatchesJournal
<1> DEFINE Goal == IF status'[e] = "posted"
                   THEN \E i \in 1..Len(audit') :
                          PostRows(e)' = {i} /\ audit'[i].lines = Snapshot(line', e)
                   ELSE PostRows(e)' = {}
<1>1. status[e] # "posted" => PostRows(e) = {}
  BY DEF AuditMatchesJournal
<1>2. ASSUME status[e] = "posted"
      PROVE  \E i \in 1..Len(audit) :
               PostRows(e) = {i} /\ audit[i].lines = Snapshot(line, e)
  BY <1>2 DEF AuditMatchesJournal
<1>3. TypeOK'
  BY TypeStep DEF NextReparent
<1>4. Len(audit) \in Nat /\ Len(audit') \in Nat
  BY <1>3 DEF TypeOK
\* A step that logs nothing about e and does not post it.
<1>5. ASSUME Len(audit') >= Len(audit),
             \A i \in 1..Len(audit) : audit'[i] = audit[i],
             \A i \in (Len(audit) + 1)..Len(audit') : audit'[i].entry # e,
             status[e] # "posted" => status'[e] # "posted"
      PROVE  Goal
  <2>1. PostRows(e)' = PostRows(e)
    BY <1>4, <1>5 DEF PostRows
  <2>2. CASE status[e] = "posted"
    <3>1. PICK i \in 1..Len(audit) :
            PostRows(e) = {i} /\ audit[i].lines = Snapshot(line, e)
      BY <1>2, <2>2
    <3>2. status'[e] = "posted" /\ Snapshot(line', e) = Snapshot(line, e)
      BY <2>2, PostedLinesKept
    <3>3. i \in 1..Len(audit') /\ audit'[i] = audit[i]
      BY <1>4, <1>5, <3>1
    <3> QED
      BY <2>1, <3>1, <3>2, <3>3
  <2>3. CASE status[e] # "posted"
    BY <1>1, <1>5, <2>1, <2>3
  <2> QED
    BY <2>2, <2>3
<1>6. ASSUME audit' = audit, status[e] # "posted" => status'[e] # "posted" PROVE Goal
  BY <1>4, <1>5, <1>6
<1>7. ASSUME NEW d \in EntryId, PostEntry(d) PROVE Goal
  <2> DEFINE row == PostRow(line, d, reversing[d])
  <2>1. row \in AuditRow /\ row.action = "post_entry" /\ row.entry = d
        /\ row.lines = Snapshot(line, d)
    BY RowTypes DEF TypeOK, PostRow
  <2>2. audit' = Append(audit, row) /\ audit \in Seq(AuditRow)
    BY <1>7 DEF PostEntry, TypeOK
  <2> HIDE DEF row
  <2>3. /\ Len(audit') = Len(audit) + 1
        /\ \A i \in 1..Len(audit) : audit'[i] = audit[i]
        /\ audit'[Len(audit) + 1] = row
    BY <2>1, <2>2, AppendRow
  <2>4. CASE d = e
    <3>1. status'[e] = "posted" /\ line' = line /\ status[e] # "posted"
      BY <1>7, <2>4 DEF PostEntry, TypeOK
    <3>2. PostRows(e)' = {Len(audit) + 1}
      BY <1>1, <1>4, <2>1, <2>3, <2>4, <3>1 DEF PostRows
    <3> QED
      BY <1>4, <2>1, <2>3, <2>4, <3>1, <3>2
  <2>5. CASE d # e
    <3>1. status'[e] = status[e]
      BY <1>7, <2>5 DEF PostEntry, TypeOK
    <3>2. \A i \in (Len(audit) + 1)..Len(audit') : audit'[i].entry # e
      BY <1>4, <2>1, <2>3, <2>5
    <3> QED
      BY <1>4, <1>5, <2>3, <3>1, <3>2
  <2> QED
    BY <2>4, <2>5
<1>8. ASSUME NEW o \in EntryId, NEW r \in EntryId, NEW new \in SUBSET FreeLines,
             NEW g \in Bijection(new, LinesOf(line, o)), ReverseEntry(o, r, g)
      PROVE  Goal
  <2> DEFINE p == PostRow(line', r, o)
             q == ReverseRow(line', r, o)
  <2>1. /\ p \in AuditRow /\ p.action = "post_entry" /\ p.entry = r
        /\ p.lines = Snapshot(line', r)
        /\ q \in AuditRow /\ q.action = "reverse_entry" /\ q.entry = r
    <3>1. p \in AuditRow /\ q \in AuditRow
      BY <1>3, RowTypes DEF TypeOK
    <3> QED
      BY <3>1 DEF PostRow, ReverseRow
  <2>2. audit' = audit \o <<p, q>> /\ audit \in Seq(AuditRow)
    BY <1>8 DEF ReverseEntry, TypeOK
  <2> HIDE DEF p, q
  <2>3. /\ Len(audit') = Len(audit) + 2
        /\ \A i \in 1..Len(audit) : audit'[i] = audit[i]
        /\ audit'[Len(audit) + 1] = p
        /\ audit'[Len(audit) + 2] = q
    BY <2>1, <2>2, AppendTwoRows
  <2>4. CASE r = e
    <3>1. status'[e] = "posted" /\ status[e] # "posted"
      BY <1>8, <2>4 DEF ReverseEntry, TypeOK
    <3>2. PostRows(e)' = {Len(audit) + 1}
      BY <1>1, <1>4, <2>1, <2>3, <2>4, <3>1 DEF PostRows
    <3> QED
      BY <1>4, <2>1, <2>3, <2>4, <3>1, <3>2
  <2>5. CASE r # e
    <3>1. status'[e] = status[e]
      BY <1>8, <2>5 DEF ReverseEntry, TypeOK
    <3>2. \A i \in (Len(audit) + 1)..Len(audit') : audit'[i].entry # e
      BY <1>4, <2>1, <2>3, <2>5
    <3> QED
      BY <1>4, <1>5, <2>3, <3>1, <3>2
  <2> QED
    BY <2>4, <2>5
<1>9. ASSUME NEW d \in EntryId, CreateEntry(d) \/ DeleteEntry(d) PROVE Goal
  <2>1. audit' = audit /\ (status[e] # "posted" => status'[e] # "posted")
    BY <1>9 DEF CreateEntry, DeleteEntry, TypeOK
  <2> QED
    BY <1>6, <2>1
<1>10. ASSUME NEW l \in LineId, NEW row \in Line, InsertLine(l, row) \/ UpdateLine(l, row)
       PROVE Goal
  BY <1>6, <1>10 DEF InsertLine, UpdateLine, WriteLine
<1>11. ASSUME NEW l \in LineId, DeleteLine(l) PROVE Goal
  BY <1>6, <1>11 DEF DeleteLine
<1>12. ASSUME NEW a \in Account, SetActive(a) \/ Deactivate(a) PROVE Goal
  BY <1>6, <1>12 DEF SetActive, Deactivate
<1>13. CASE UNCHANGED vars
  BY <1>6, <1>13 DEF vars
<1> QED
  BY <1>7, <1>8, <1>9, <1>10, <1>11, <1>12, <1>13 DEF Next

(* The log holds exactly one post_entry row for every posted entry, none   *)
(* for any other, and it tells the lines the entry has.                    *)
THEOREM AuditIsFaithful == Spec => []AuditMatchesJournal
<1>1. Init => AuditMatchesJournal
  BY DEF Init, AuditMatchesJournal, PostRows
<1>2. Spec => []TypeOK
  BY SpecIsReparent, TypeCorrect
<1> QED
  BY <1>1, <1>2, AuditStep, PTL DEF Spec

-----------------------------------------------------------------------------
(* Reversals mirror their originals.                                       *)

(* No step leaves a line without its entry.                                *)
LEMMA LinesHaveEntryStep == TypeOK /\ LinesHaveEntry /\ [Next]_vars => LinesHaveEntry'
<1> SUFFICES ASSUME TypeOK, LinesHaveEntry, [Next]_vars PROVE LinesHaveEntry'
  OBVIOUS
<1> USE DEF TypeOK, LinesHaveEntry
<1>0. \A l \in LineId : line[l] # NoLine => line[l].entry \in EntryId
  BY DEF Line, LineRow
<1>1. ASSUME NEW e \in EntryId, CreateEntry(e) \/ PostEntry(e) PROVE LinesHaveEntry'
  BY <1>0, <1>1 DEF CreateEntry, PostEntry
<1>2. ASSUME NEW e \in EntryId, DeleteEntry(e) PROVE LinesHaveEntry'
  BY <1>2 DEF DeleteEntry, LinesOf
<1>3. ASSUME NEW l \in LineId, NEW row \in Line, InsertLine(l, row) \/ UpdateLine(l, row)
      PROVE  LinesHaveEntry'
  BY <1>3 DEF InsertLine, UpdateLine, WriteLine
<1>4. ASSUME NEW l \in LineId, DeleteLine(l) PROVE LinesHaveEntry'
  BY <1>4 DEF DeleteLine
<1>5. ASSUME NEW o \in EntryId, NEW r \in EntryId, NEW new \in SUBSET FreeLines,
             NEW g \in Bijection(new, LinesOf(line, o)), ReverseEntry(o, r, g)
      PROVE  LinesHaveEntry'
  <2>1. line' = Mirrored(g, r) /\ status' = [status EXCEPT ![r] = "posted"]
    BY <1>5 DEF ReverseEntry, Mirrored
  <2>2. /\ \A l \in LineId \ new : line'[l] = line[l]
        /\ \A l \in new : line'[l].entry = r
    BY <2>1, MirroredType
  <2> QED
    BY <2>1, <2>2
<1>6. ASSUME NEW a \in Account, SetActive(a) \/ Deactivate(a) PROVE LinesHaveEntry'
  BY <1>6 DEF SetActive, Deactivate
<1>7. CASE UNCHANGED vars
  BY <1>7 DEF vars
<1> QED
  BY <1>1, <1>2, <1>3, <1>4, <1>5, <1>6, <1>7 DEF Next

(* The lines of two posted entries stay mirror images of each other.       *)
LEMMA MirrorKept ==
  ASSUME TypeOK, [Next]_vars, NEW r \in EntryId, NEW o \in EntryId,
         status[r] = "posted", status[o] = "posted",
         NEW g \in Bijection(LinesOf(line, r), LinesOf(line, o)),
         \A l \in LinesOf(line, r) : Mirrors(line[l], line[g[l]])
  PROVE  /\ g \in Bijection(LinesOf(line', r), LinesOf(line', o))
         /\ \A l \in LinesOf(line', r) : Mirrors(line'[l], line'[g[l]])
<1>1. /\ LinesOf(line', r) = LinesOf(line, r)
      /\ \A l \in LinesOf(line', r) : line'[l] = line[l]
  BY PostedLinesKept
<1>2. /\ LinesOf(line', o) = LinesOf(line, o)
      /\ \A l \in LinesOf(line', o) : line'[l] = line[l]
  BY PostedLinesKept
<1>3. \A l \in LinesOf(line, r) : g[l] \in LinesOf(line, o)
  BY DEF Bijection, Injection
<1> QED
  BY <1>1, <1>2, <1>3

(* What reverse_entry writes mirrors the original, and is all r has.       *)
LEMMA MirrorMade ==
  ASSUME TypeOK, LinesHaveEntry, NEW o \in EntryId, NEW r \in EntryId,
         NEW new \in SUBSET FreeLines, NEW g \in Bijection(new, LinesOf(line, o)),
         ReverseEntry(o, r, g)
  PROVE  /\ g \in Bijection(LinesOf(line', r), LinesOf(line', o))
         /\ \A l \in LinesOf(line', r) : Mirrors(line'[l], line'[g[l]])
<1>1. /\ line' = Mirrored(g, r) /\ o # r /\ status[r] = "absent"
  BY DEF ReverseEntry, Reversible, Mirrored
<1>2. /\ DOMAIN g = new
      /\ \A l \in new : g[l] \in LinesOf(line, o)
      /\ line' \in [LineId -> Line \cup {NoLine}]
      /\ \A l \in LineId \ new : line'[l] = line[l]
      /\ \A l \in new : line[l] = NoLine /\ line'[l].entry = r
  BY <1>1, MirroredType DEF TypeOK
<1>3. \A l \in new : l \in LineId /\ line'[l] = Mirror(line[g[l]], r)
  BY <1>1, <1>2 DEF Mirrored, FreeLines
<1>4. \A l \in new : line'[l] # NoLine
  <2>1. \A l \in new : line[g[l]] \in Line
    BY <1>2 DEF LinesOf, TypeOK
  <2> QED
    BY <1>3, <2>1, MirrorType, NoLineAssumption DEF Line
<1>5. LinesOf(line, r) = {}
  BY <1>1 DEF LinesOf, LinesHaveEntry
<1>6. LinesOf(line', r) = new
  BY <1>2, <1>4, <1>5 DEF LinesOf, FreeLines
<1>7. LinesOf(line', o) = LinesOf(line, o) /\ \A l \in LinesOf(line, o) : line'[l] = line[l]
  BY <1>1, <1>2, <1>4 DEF LinesOf
<1>8. ASSUME NEW l \in new PROVE Mirrors(line'[l], line[g[l]])
  <2>1. Mirrors(Mirror(line[g[l]], r), line[g[l]])
    BY DEF Mirror, Mirrors
  <2> QED
    BY <1>3, <2>1
<1> QED
  BY <1>2, <1>6, <1>7, <1>8

(* ReversalMirrors is kept, given the foreign key and the structure of     *)
(* reversals.                                                              *)
LEMMA MirrorStep ==
  TypeOK /\ LinesHaveEntry /\ ReversalStructure /\ ReversalMirrors /\ [Next]_vars
    => ReversalMirrors'
<1> SUFFICES ASSUME TypeOK, LinesHaveEntry, ReversalStructure, ReversalMirrors, [Next]_vars,
                    NEW r \in EntryId, reversing'[r] # NoEntry
             PROVE  \E g \in Bijection(LinesOf(line', r), LinesOf(line', reversing'[r])) :
                      \A l \in LinesOf(line', r) : Mirrors(line'[l], line'[g[l]])
  BY DEF ReversalMirrors
<1>1. CASE reversing[r] # NoEntry
  <2> DEFINE o == reversing[r]
  <2>1. o \in EntryId /\ status[r] = "posted" /\ status[o] = "posted"
    BY <1>1 DEF TypeOK, ReversalStructure
  <2>2. reversing'[r] = o
    BY <2>1, PostedLinesKept
  <2>3. PICK g \in Bijection(LinesOf(line, r), LinesOf(line, o)) :
          \A l \in LinesOf(line, r) : Mirrors(line[l], line[g[l]])
    BY <1>1 DEF ReversalMirrors
  <2> QED
    BY <2>1, <2>2, <2>3, MirrorKept
<1>2. CASE reversing[r] = NoEntry
  <2>1. PICK o \in EntryId, d \in EntryId, new \in SUBSET FreeLines :
          \E g \in Bijection(new, LinesOf(line, o)) : ReverseEntry(o, d, g)
    BY <1>2 DEF Next, vars, CreateEntry, DeleteEntry, PostEntry, InsertLine, UpdateLine,
                WriteLine, DeleteLine, SetActive, Deactivate
  <2>2. PICK g \in Bijection(new, LinesOf(line, o)) : ReverseEntry(o, d, g)
    BY <2>1
  <2>3. d = r /\ reversing'[r] = o
    BY <1>2, <2>2 DEF ReverseEntry, TypeOK
  <2> QED
    BY <2>2, <2>3, MirrorMade
<1> QED
  BY <1>1, <1>2

(* Every reversal mirrors its original line for line.                      *)
THEOREM ReversalsMirror == Spec => []ReversalMirrors
<1>1. Init => LinesHaveEntry /\ ReversalMirrors
  BY DEF Init, LinesHaveEntry, ReversalMirrors
<1>2. Spec => []TypeOK /\ []ReversalStructure
  BY SpecIsReparent, TypeCorrect, ReversalsAreStructured, PTL
<1> QED
  BY <1>1, <1>2, LinesHaveEntryStep, MirrorStep, PTL DEF Spec
-----------------------------------------------------------------------------
(* The append-only ledger: the journal implements it.                      *)

Table == [LineId -> Line \cup {NoLine}]

-----------------------------------------------------------------------------
(* The contents of an entry, as the ledger and as the journal read them.   *)

(* The two modules count in the same way.                                  *)
LEMMA SameCount == ASSUME NEW S PROVE L!Cardinality(S) = Cardinality(S)
  BY Zenon DEF L!Cardinality, Cardinality

(* And add up in the same way.                                             *)
LEMMA SameTotal == ASSUME NEW f PROVE L!FoldFunction(+, 0, f) = Total(f)
  BY Zenon DEF Total, L!FoldFunction, FoldFunction, L!FoldFunctionOnSet, FoldFunctionOnSet,
               L!MapThenFoldSet, MapThenFoldSet

(* A snapshot has the lines of the entry, with their sides and accounts.   *)
LEMMA SnapshotRead ==
  ASSUME NEW tbl \in Table, NEW e
  PROVE  /\ L!Lines(Snapshot(tbl, e)) = LinesOf(tbl, e)
         /\ \A l \in LinesOf(tbl, e) :
              /\ Snapshot(tbl, e)[l].account = tbl[l].account
              /\ Snapshot(tbl, e)[l].debit = tbl[l].debit
              /\ Snapshot(tbl, e)[l].credit = tbl[l].credit
<1> DEFINE data(l) == [account |-> tbl[l].account, debit |-> tbl[l].debit,
                       credit |-> tbl[l].credit]
<1>1. \A l \in LinesOf(tbl, e) : Snapshot(tbl, e)[l] = data(l) /\ l \in LineId
  BY DEF Snapshot, LinesOf
<1>2. \A l \in LineId \ LinesOf(tbl, e) : Snapshot(tbl, e)[l] = NoLine
  BY DEF Snapshot
<1>3. \A l \in LinesOf(tbl, e) : tbl[l] \in LineRow
  BY DEF LinesOf, Table, Line
<1>4. \A l \in LinesOf(tbl, e) : data(l) \in LineData
  BY <1>3 DEF LineRow, LineData
<1>5. L!Lines(Snapshot(tbl, e)) = LinesOf(tbl, e)
  <2> HIDE DEF data
  <2> QED
    BY <1>1, <1>2, <1>4, NoDataAssumption DEF L!Lines
<1>6. \A l \in LinesOf(tbl, e) : /\ data(l).account = tbl[l].account
                                /\ data(l).debit = tbl[l].debit
                                /\ data(l).credit = tbl[l].credit
  OBVIOUS
<1> HIDE DEF data
<1> QED
  BY <1>1, <1>5, <1>6

(* What post_entry validates is what the ledger calls sound.               *)
LEMMA SnapshotSound ==
  ASSUME NEW tbl \in Table, NEW e, Cardinality(LinesOf(tbl, e)) >= 2, Balanced(tbl, e)
  PROVE  L!Sound(Snapshot(tbl, e))
<1> DEFINE c == Snapshot(tbl, e)
<1>1. /\ [l \in L!Lines(c) |-> c[l].debit] = DebitOf(tbl, e)
      /\ [l \in L!Lines(c) |-> c[l].credit] = CreditOf(tbl, e)
  BY SnapshotRead DEF DebitOf, CreditOf
<1>2. L!Cardinality(L!Lines(c)) >= 2
  BY SnapshotRead, SameCount
<1>3. /\ L!FoldFunction(+, 0, DebitOf(tbl, e)) = Total(DebitOf(tbl, e))
      /\ L!FoldFunction(+, 0, CreditOf(tbl, e)) = Total(CreditOf(tbl, e))
  BY SameTotal
<1> QED
  BY <1>1, <1>2, <1>3 DEF L!Sound, Balanced

(* Lines that mirror each other make contents that are opposite.           *)
LEMMA SnapshotOpposite ==
  ASSUME NEW tbl \in Table, NEW r, NEW o, NEW g \in Bijection(LinesOf(tbl, r), LinesOf(tbl, o)),
         \A l \in LinesOf(tbl, r) : Mirrors(tbl[l], tbl[g[l]])
  PROVE  L!Opposite(Snapshot(tbl, r), Snapshot(tbl, o))
<1>1. \A l \in LinesOf(tbl, r) : g[l] \in LinesOf(tbl, o)
  BY DEF Bijection, Injection
<1>2. \A S, T : L!Bijection(S, T) = Bijection(S, T)
  BY Zenon DEF L!Bijection, L!Injection, L!Surjection, L!IsInjective,
               Bijection, Injection, Surjection, IsInjective
<1>3. \A l \in LinesOf(tbl, r) : L!Swapped(Snapshot(tbl, r)[l], Snapshot(tbl, o)[g[l]])
  BY <1>1, SnapshotRead DEF L!Swapped, Mirrors
<1> QED
  BY <1>2, <1>3, SnapshotRead DEF L!Opposite

-----------------------------------------------------------------------------
(* Steps.                                                                  *)

(* Which entries a step posts: at most one, by post_entry or reverse_entry. *)
LEMMA PostedBy ==
  ASSUME TypeOK, [Next]_vars, Posted' # Posted
  PROVE  \E e \in EntryId :
           /\ e \notin Posted /\ Posted' = Posted \cup {e}
           /\ \/ PostEntry(e)
              \/ \E o \in EntryId, new \in SUBSET FreeLines :
                   \E g \in Bijection(new, LinesOf(line, o)) : ReverseEntry(o, e, g)
<1> DEFINE Posts(e) == e \notin Posted /\ Posted' = Posted \cup {e}
<1>1. ASSUME NEW e \in EntryId, PostEntry(e) PROVE Posts(e)
  BY <1>1 DEF PostEntry, Posted, TypeOK
<1>2. ASSUME NEW o \in EntryId, NEW e \in EntryId, NEW g, ReverseEntry(o, e, g) PROVE Posts(e)
  BY <1>2 DEF ReverseEntry, Posted, TypeOK
<1>3. ASSUME NEW e \in EntryId, CreateEntry(e) \/ DeleteEntry(e) PROVE FALSE
  BY <1>3 DEF CreateEntry, DeleteEntry, Posted, TypeOK
<1>4. UNCHANGED status => FALSE
  BY DEF Posted
<1>5. ASSUME NEW l \in LineId, NEW row \in Line, InsertLine(l, row) \/ UpdateLine(l, row)
      PROVE  FALSE
  BY <1>4, <1>5 DEF InsertLine, UpdateLine, WriteLine
<1>6. ASSUME NEW l \in LineId, DeleteLine(l) PROVE FALSE
  BY <1>4, <1>6 DEF DeleteLine
<1>7. ASSUME NEW a \in Account, SetActive(a) \/ Deactivate(a) PROVE FALSE
  BY <1>4, <1>7 DEF SetActive, Deactivate
<1>8. CASE UNCHANGED vars
  BY <1>4, <1>8 DEF vars
<1> HIDE DEF Posts
<1>9. \E e \in EntryId :
        /\ Posts(e)
        /\ \/ PostEntry(e)
           \/ \E o \in EntryId, new \in SUBSET FreeLines :
                \E g \in Bijection(new, LinesOf(line, o)) : ReverseEntry(o, e, g)
  BY <1>1, <1>2, <1>3, <1>5, <1>6, <1>7, <1>8 DEF Next
<1> QED
  BY <1>9 DEF Posts

(* Posting an entry enters it into the ledger.                             *)
LEMMA EnterStep ==
  ASSUME TypeOK, LinesHaveEntry, ReversalStructure, [Next]_vars, Posted' # Posted
  PROVE  L!Next
<1>1. PICK e \in EntryId :
        /\ e \notin Posted /\ Posted' = Posted \cup {e}
        /\ \/ PostEntry(e)
           \/ \E o \in EntryId, new \in SUBSET FreeLines :
                \E g \in Bijection(new, LinesOf(line, o)) : ReverseEntry(o, e, g)
  BY PostedBy
<1>2. TypeOK'
  BY TypeStep DEF NextReparent
<1>3. \A old \in Posted : /\ Snapshot(line', old) = Snapshot(line, old)
                          /\ reversing'[old] = reversing[old]
  BY PostedLinesKept DEF Posted
<1>4. L!Sound(Snapshot(line', e))
  <2>1. status[e] # "posted" /\ status'[e] = "posted"
    BY <1>1 DEF Posted
  <2>2. Cardinality(LinesOf(line', e)) >= 2 /\ Balanced(line', e)
    BY <2>1, NewlyPosted
  <2> QED
    BY <1>2, <2>2, SnapshotSound DEF TypeOK, Table
<1>5. \/ reversing'[e] = NoEntry
      \/ \E o \in Posted :
           /\ reversing'[e] = o
           /\ reversing[o] = NoEntry
           /\ \A other \in Posted : reversing[other] # o
           /\ L!Opposite(Snapshot(line', e), Snapshot(line, o))
  <2>1. CASE PostEntry(e)
    <3>1. reversing' = reversing /\ status[e] # "posted"
      BY <2>1 DEF PostEntry
    <3> QED
      BY <3>1 DEF ReversalStructure
  <2>2. ASSUME NEW o \in EntryId, NEW new \in SUBSET FreeLines,
               NEW g \in Bijection(new, LinesOf(line, o)), ReverseEntry(o, e, g)
        PROVE  /\ o \in Posted
               /\ reversing'[e] = o
               /\ reversing[o] = NoEntry
               /\ \A other \in Posted : reversing[other] # o
               /\ L!Opposite(Snapshot(line', e), Snapshot(line, o))
    <3>1. /\ o \in Posted /\ reversing'[e] = o /\ reversing[o] = NoEntry
          /\ \A other \in Posted : reversing[other] # o
      BY <2>2 DEF ReverseEntry, Reversible, Posted, TypeOK
    <3>2. /\ g \in Bijection(LinesOf(line', e), LinesOf(line', o))
          /\ \A l \in LinesOf(line', e) : Mirrors(line'[l], line'[g[l]])
      BY <2>2, MirrorMade
    <3>3. L!Opposite(Snapshot(line', e), Snapshot(line', o))
      BY <1>2, <3>2, SnapshotOpposite DEF TypeOK, Table
    <3> QED
      BY <1>3, <3>1, <3>3
  <2> QED
    BY <1>1, <2>1, <2>2
<1>6. L!Enter(e)
  BY <1>1, <1>3, <1>4, <1>5 DEF L!Enter
<1> QED
  BY <1>6 DEF L!Next

(* Any other step leaves the ledger as it is.                              *)
LEMMA StutterStep ==
  ASSUME TypeOK, [Next]_vars, Posted' = Posted
  PROVE  UNCHANGED L!vars
<1>1. \A e \in Posted : /\ Snapshot(line', e) = Snapshot(line, e)
                        /\ reversing'[e] = reversing[e]
  BY PostedLinesKept DEF Posted
<1> QED
  BY <1>1 DEF L!vars

(* Read through its posted entries the journal is an append-only ledger:   *)
(* every operation either enters one sound entry, or the opposite of an    *)
(* earlier one, or changes nothing a report can see.                       *)
THEOREM JournalImplementsLedger == Spec => ImplementsLedger
<1>1. Init => L!Init /\ LinesHaveEntry
  BY DEF Init, L!Init, Posted, LinesHaveEntry
<1>2. TypeOK /\ LinesHaveEntry /\ ReversalStructure /\ [Next]_vars => [L!Next]_(L!vars)
  BY EnterStep, StutterStep
<1>3. Spec => []TypeOK /\ []ReversalStructure
  BY SpecIsReparent, TypeCorrect, ReversalsAreStructured, PTL
<1> QED
  BY <1>1, <1>2, <1>3, LinesHaveEntryStep, PTL DEF Spec, L!Spec, ImplementsLedger
=============================================================================
