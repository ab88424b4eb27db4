--------------------------- MODULE OpeningProofs ---------------------------
(***************************************************************************)
(* Entries, display fields and audit rows of opening balances agree,       *)
(* proved for any callers, accounts and amounts.                           *)
(***************************************************************************)
EXTENDS OpeningBalance, FiniteSetTheorems, TLAPS

Written == [entry : EntryId, row : Row]
Sessions == [pc : {"idle", "check", "write"}, batch : BOOLEAN, rows : Seq(Row), written : Seq(Written)]

(* A command has two rows at most, and those it has written are entries    *)
(* nobody else has or sees.                                                *)
Own(x, table) ==
  /\ Len(x.written) + Len(x.rows) <= 2
  /\ x.pc = "write" => x.rows # << >>
  /\ \A i \in DOMAIN x.written : table[x.written[i].entry] = NoValue
  /\ \A i, j \in DOMAIN x.written : x.written[i].entry = x.written[j].entry => i = j
Private ==
  /\ je \in [EntryId -> Entry \cup {NoValue}] /\ DOMAIN display = Account
  /\ session \in [Session -> Sessions]
  /\ \A s \in Session : Own(session[s], je)
  /\ \A s, t \in Session : \A i \in DOMAIN session[s].written, j \in DOMAIN session[t].written :
       session[s].written[i].entry = session[t].written[j].entry => s = t

(* What DisplayTruthful says of one account.                               *)
Opens(o, a) == o \in Openings /\ je[o].account = a
Shows(a) ==
  \/ (\A o \in EntryId : ~Opens(o, a)) /\ display[a] = NoValue
  \/ \E o \in EntryId : Opens(o, a) /\ display[a] = [day |-> je[o].day, amount |-> je[o].amount]

OpeningInv == Private /\ SetRowsMatch /\ \A a \in Account : Shows(a)

(* The two forms say the same.                                             *)
LEMMA ShowsIs ==
  ASSUME \A a \in Account : Shows(a)
  PROVE  DisplayTruthful
<1> SUFFICES ASSUME NEW a \in Account
             PROVE  LET openings == {[day |-> je[e].day, amount |-> je[e].amount] :
                                       e \in {o \in Openings : je[o].account = a}}
                    IN  IF openings = {} THEN display[a] = NoValue ELSE display[a] \in openings
  BY DEF DisplayTruthful
<1> DEFINE openings == {[day |-> je[e].day, amount |-> je[e].amount] :
                          e \in {o \in Openings : je[o].account = a}}
<1>1. CASE (\A o \in EntryId : ~Opens(o, a)) /\ display[a] = NoValue
  <2>1. openings = {}
    BY <1>1 DEF Opens, Openings
  <2> QED
    BY <1>1, <2>1
<1>2. CASE \E o \in EntryId : Opens(o, a) /\ display[a] = [day |-> je[o].day, amount |-> je[o].amount]
  <2>1. display[a] \in openings
    BY <1>2 DEF Opens
  <2> QED
    BY <2>1
<1> QED
  BY <1>1, <1>2 DEF Shows

-----------------------------------------------------------------------------
(* Rows that wait and rows that are written are rows.                      *)
LEMMA RowsTyped ==
  ASSUME NEW x \in Sessions
  PROVE  /\ Len(x.rows) \in Nat /\ Len(x.written) \in Nat
         /\ DOMAIN x.written = 1..Len(x.written)
         /\ \A i \in DOMAIN x.written : x.written[i].entry \in EntryId /\ x.written[i].row \in Row
<1>1. x.rows \in Seq(Row) /\ x.written \in Seq(Written)
  BY DEF Sessions
<1>2. DOMAIN x.written = 1..Len(x.written) /\ Len(x.rows) \in Nat /\ Len(x.written) \in Nat
  BY <1>1
<1>3. \A i \in DOMAIN x.written : x.written[i] \in Written
  BY <1>1, <1>2
<1> QED
  BY <1>2, <1>3 DEF Written

(* A step of one session that leaves the tables alone.                     *)
LEMMA SessionStep ==
  ASSUME OpeningInv, NEW s \in Session, NEW x \in Sessions, session' = [session EXCEPT ![s] = x],
         UNCHANGED <<je, display, setRows>>,
         Len(x.written) + Len(x.rows) <= 2, x.pc = "write" => x.rows # << >>,
         \/ x.written = << >> \/ x.written = session[s].written
         \/ \E e \in EntryId, row \in Row :
              FreshKey(e) /\ x.written = Append(session[s].written, [entry |-> e, row |-> row])
  PROVE  OpeningInv'
<1>0. /\ session[s] \in Sessions /\ session[s].written \in Seq(Written)
      /\ x.written \in Seq(Written)
      /\ \A t \in Session : session'[t] = IF t = s THEN x ELSE session[t]
  BY DEF OpeningInv, Private, Sessions
<1>1. SetRowsMatch' /\ \A a \in Account : Shows(a)'
  BY DEF OpeningInv, SetRowsMatch, Openings, Shows, Opens
<1>2. session' \in [Session -> Sessions]
  BY DEF OpeningInv, Private
<1>3. \A i \in DOMAIN x.written :
        \/ /\ i \in DOMAIN session[s].written /\ x.written[i] = session[s].written[i]
        \/ /\ i = Len(session[s].written) + 1 /\ FreshKey(x.written[i].entry)
           /\ Len(x.written) = Len(session[s].written) + 1
  <2>1. CASE x.written = << >> \/ x.written = session[s].written
    BY <1>0, <2>1
  <2>2. ASSUME NEW e \in EntryId, NEW row \in Row, FreshKey(e),
               x.written = Append(session[s].written, [entry |-> e, row |-> row])
        PROVE  \A i \in DOMAIN x.written :
                 \/ i \in DOMAIN session[s].written /\ x.written[i] = session[s].written[i]
                 \/ /\ i = Len(session[s].written) + 1 /\ FreshKey(x.written[i].entry)
                    /\ Len(x.written) = Len(session[s].written) + 1
    <3> DEFINE w == [entry |-> e, row |-> row]
    <3>1. w \in Written /\ w.entry = e
      BY DEF Written
    <3> HIDE DEF w
    <3>2. /\ DOMAIN x.written = 1..(Len(session[s].written) + 1)
          /\ x.written[Len(session[s].written) + 1] = w
          /\ \A i \in 1..Len(session[s].written) : x.written[i] = session[s].written[i]
          /\ Len(x.written) = Len(session[s].written) + 1
          /\ DOMAIN session[s].written = 1..Len(session[s].written)
      BY <1>0, <2>2, <3>1 DEF w
    <3> QED
      BY <1>0, <2>2, <3>1, <3>2
  <2> QED
    BY <2>1, <2>2
<1>4. \A e : FreshKey(e) => /\ je[e] = NoValue
                            /\ \A t \in Session : \A i \in DOMAIN session[t].written :
                                 session[t].written[i].entry # e
  BY DEF FreshKey, WrittenBy
<1>5. \A i \in DOMAIN x.written : je[x.written[i].entry] = NoValue
  BY <1>3, <1>4 DEF OpeningInv, Private, Own
<1>7. \A t \in Session \ {s} : \A i \in DOMAIN x.written, j \in DOMAIN session[t].written :
        x.written[i].entry # session[t].written[j].entry
  BY <1>3, <1>4 DEF OpeningInv, Private
<1>8. ASSUME NEW i \in DOMAIN x.written, NEW j \in DOMAIN x.written,
             x.written[i].entry = x.written[j].entry
      PROVE  i = j
  <2>1. CASE i \in DOMAIN session[s].written /\ j \in DOMAIN session[s].written
             /\ x.written[i] = session[s].written[i] /\ x.written[j] = session[s].written[j]
    BY <1>8, <2>1 DEF OpeningInv, Private, Own
  <2>2. CASE FreshKey(x.written[i].entry) \/ FreshKey(x.written[j].entry)
    BY <1>3, <1>4, <1>8, <2>2
  <2> QED
    BY <1>3, <2>1, <2>2
<1>6. Private'
  <2>1. \A t \in Session : Own(session'[t], je')
    <3>1. Own(x, je)
      BY <1>5, <1>8 DEF Own
    <3> QED
      BY <1>0, <3>1 DEF OpeningInv, Private
  <2>2. \A t, u \in Session : \A i \in DOMAIN session'[t].written, j \in DOMAIN session'[u].written :
          session'[t].written[i].entry = session'[u].written[j].entry => t = u
    BY <1>0, <1>7 DEF OpeningInv, Private
  <2> QED
    BY <1>2, <2>1, <2>2 DEF OpeningInv, Private
<1> QED
  BY <1>1, <1>6 DEF OpeningInv

(* A call that ends drops what it has not committed.                       *)
LEMMA FinishKeeps ==
  ASSUME OpeningInv, NEW s \in Session, Finish(s), UNCHANGED <<je, display, setRows>>
  PROVE  OpeningInv'
<1>1. Idle \in Sessions /\ Idle.written = << >> /\ Idle.rows = << >> /\ Idle.pc = "idle"
  BY DEF Idle, Sessions
<1>3. Len(Idle.written) + Len(Idle.rows) <= 2
  BY <1>1
<1>2. session' = [session EXCEPT ![s] = Idle]
  BY DEF Finish
<1> HIDE DEF Idle
<1> QED
  BY <1>1, <1>2, <1>3, SessionStep

(* A command that begins has one row, or two of a batch.                   *)
LEMMA CallKeeps ==
  ASSUME OpeningInv, NEW s \in Session, NEW rows \in Seq(Row), Len(rows) <= 2,
         NEW batch \in BOOLEAN, Call(s, rows, batch)
  PROVE  OpeningInv'
<1> DEFINE x == [Idle EXCEPT !.pc = "check", !.batch = batch, !.rows = rows]
<1>1. x \in Sessions /\ x.written = << >> /\ x.rows = rows /\ x.pc = "check"
  <2>1. Idle \in Sessions /\ Idle.written = << >>
    BY DEF Sessions, Idle
  <2> HIDE DEF Idle
  <2> QED
    BY <2>1 DEF Sessions
<1>2. session' = [session EXCEPT ![s] = x]
  BY DEF Call
<1>3. UNCHANGED <<je, display, setRows>>
  BY DEF Call, tables
<1> HIDE DEF x
<1>4. Len(x.written) + Len(x.rows) <= 2
  BY <1>1
<1> QED
  BY <1>1, <1>2, <1>3, <1>4, SessionStep

(* The checks pass.                                                        *)
LEMMA AcceptKeeps ==
  ASSUME OpeningInv, NEW s \in Session, Accept(s)
  PROVE  OpeningInv'
<1> DEFINE x == [session[s] EXCEPT !.pc = "write"]
<1>1. session[s] \in Sessions /\ Own(session[s], je)
  BY DEF OpeningInv, Private
<1>2. x \in Sessions /\ x.written = session[s].written /\ x.rows = session[s].rows
  BY <1>1 DEF Sessions
<1>3. session' = [session EXCEPT ![s] = x] /\ UNCHANGED <<je, display, setRows>>
      /\ session[s].rows # << >>
  BY DEF Accept, tables
<1> HIDE DEF x
<1>4. Len(x.written) + Len(x.rows) <= 2
  BY <1>1, <1>2 DEF Own
<1> QED
  BY <1>2, <1>3, <1>4, SessionStep

(* One row is written, to an entry nobody else has.                        *)
LEMMA WriteKeeps ==
  ASSUME OpeningInv, NEW s \in Session, NEW e \in EntryId, Write(s, e)
  PROVE  OpeningInv'
<1> DEFINE row == Head(session[s].rows)
           w == [entry |-> e, row |-> row]
           x == [session[s] EXCEPT !.pc = "check", !.rows = Tail(session[s].rows),
                                   !.written = Append(session[s].written, w)]
<1>1. session[s] \in Sessions /\ Own(session[s], je) /\ session[s].rows # << >> /\ FreshKey(e)
  BY DEF OpeningInv, Private, Own, Write
<1>2. row \in Row /\ Tail(session[s].rows) \in Seq(Row)
      /\ Len(Tail(session[s].rows)) = Len(session[s].rows) - 1
  BY <1>1 DEF Sessions
<1>3. w \in Written
  BY <1>2 DEF Written
<1>4. session' = [session EXCEPT ![s] = x] /\ UNCHANGED <<je, display, setRows>>
  BY DEF Write, tables
<1> HIDE DEF w
<1>5. Append(session[s].written, w) \in Seq(Written)
      /\ Len(Append(session[s].written, w)) = Len(session[s].written) + 1
  BY <1>1, <1>3 DEF Sessions
<1>6. x \in Sessions /\ x.written = Append(session[s].written, w) /\ x.pc = "check"
      /\ x.rows = Tail(session[s].rows)
  BY <1>1, <1>2, <1>5 DEF Sessions
<1> HIDE DEF x, row
<1>8. /\ Len(session[s].rows) \in Nat /\ Len(session[s].written) \in Nat
      /\ Len(session[s].written) + Len(session[s].rows) <= 2
  BY <1>1, RowsTyped DEF Own
<1>7. Len(x.written) + Len(x.rows) <= 2
  <2>1. Len(x.written) = Len(session[s].written) + 1
    BY <1>5, <1>6
  <2>2. Len(x.rows) = Len(session[s].rows) - 1
    BY <1>2, <1>6
  <2>3. \A m, n \in Nat : m + n <= 2 => (m + 1) + (n - 1) <= 2
    OBVIOUS
  <2> QED
    BY <1>8, <2>1, <2>2, <2>3
<1> QED
  BY <1>1, <1>2, <1>4, <1>6, <1>7, SessionStep DEF w

(* reverse_opening_balance takes a key nobody has and makes no opening.    *)
LEMMA ReverseKeeps ==
  ASSUME OpeningInv, NEW e \in EntryId, NEW r \in EntryId, Reverse(e, r)
  PROVE  OpeningInv'
<1> DEFINE x == [je[e] EXCEPT !.reversing = e]
<1>1. je[e] \in Entry /\ je[e] # NoValue /\ je[e].reversing = NoEntry
  BY DEF OpeningInv, Private, Reverse, Openings
<1>2. x \in Entry /\ x.reversing = e /\ e # NoEntry
  BY <1>1, OpeningAssumption DEF Entry
<1>3. /\ je[r] = NoValue
      /\ \A t \in Session : \A i \in DOMAIN session[t].written : session[t].written[i].entry # r
  BY DEF Reverse, FreshKey, WrittenBy
<1>4. je' = [je EXCEPT ![r] = x] /\ UNCHANGED <<display, setRows, session>>
  BY DEF Reverse
<1> HIDE DEF x
<1>5. je' \in [EntryId -> Entry \cup {NoValue}] /\ je'[r] = x
      /\ \A o \in EntryId \ {r} : je'[o] = je[o]
  BY <1>2, <1>4 DEF OpeningInv, Private
<1>6. Openings' = Openings
  BY <1>2, <1>3, <1>5 DEF Openings
<1>7. \A t \in Session : Own(session[t], je')
  <2>1. ASSUME NEW t \in Session PROVE Own(session[t], je')
    <3>1. \A i \in DOMAIN session[t].written : session[t].written[i].entry \in EntryId \ {r}
      <4>1. session[t] \in Sessions
        BY DEF OpeningInv, Private
      <4> QED
        BY <1>3, <4>1, RowsTyped
    <3> QED
      BY <1>5, <3>1 DEF OpeningInv, Private, Own
  <2> QED
    BY <2>1
<1>8. ASSUME NEW a \in Account PROVE Shows(a)'
  <2>1. \A o \in Openings : je'[o] = je[o]
    BY <1>3, <1>5 DEF Openings
  <2>2. CASE (\A o \in EntryId : ~Opens(o, a)) /\ display[a] = NoValue
    BY <1>4, <1>6, <2>1, <2>2 DEF Shows, Opens
  <2>3. ASSUME NEW o \in EntryId, Opens(o, a),
               display[a] = [day |-> je[o].day, amount |-> je[o].amount]
        PROVE  Shows(a)'
    BY <1>4, <1>6, <2>1, <2>3 DEF Shows, Opens
  <2> QED
    BY <2>2, <2>3 DEF OpeningInv, Shows
<1> QED
  BY <1>4, <1>5, <1>6, <1>7, <1>8 DEF OpeningInv, Private, SetRowsMatch

(* A commit makes the session's rows visible, all at once.                 *)
LEMMA CommitWrites ==
  ASSUME OpeningInv, NEW s \in Session, Commit(s)
  PROVE  /\ \A i \in DOMAIN session[s].written :
              LET w == session[s].written[i]
              IN  /\ w.row \in Row /\ w.entry \in EntryId /\ je[w.entry] = NoValue
                  /\ je'[w.entry] \in Entry /\ je'[w.entry].reversing = NoEntry
                  /\ je'[w.entry].account = w.row.account /\ je'[w.entry].day = w.row.day
                  /\ je'[w.entry].amount = w.row.amount
         /\ \A o \in EntryId \ {session[s].written[i].entry : i \in DOMAIN session[s].written} :
              je'[o] = je[o]
         /\ setRows' = setRows \cup {session[s].written[i].entry : i \in DOMAIN session[s].written}
         /\ je' = [o \in EntryId |-> je'[o]]
<1> DEFINE written == session[s].written
<1>1. /\ session[s] \in Sessions /\ Own(session[s], je)
      /\ WrittenBy(s) = {written[i] : i \in DOMAIN written}
  BY DEF OpeningInv, Private, WrittenBy
<1>2. \A i \in DOMAIN written : written[i].row \in Row /\ written[i].entry \in EntryId
  BY <1>1, RowsTyped
<1>3. /\ je' = [e \in EntryId |->
                  IF \E w \in WrittenBy(s) : w.entry = e
                  THEN LET row == (CHOOSE w \in WrittenBy(s) : w.entry = e).row
                       IN  [account |-> row.account, day |-> row.day, amount |-> row.amount,
                            reversing |-> NoEntry]
                  ELSE je[e]]
      /\ setRows' = setRows \cup {w.entry : w \in WrittenBy(s)}
  BY DEF Commit
<1>4. ASSUME NEW i \in DOMAIN written
      PROVE  (CHOOSE w \in WrittenBy(s) : w.entry = written[i].entry) = written[i]
  <2>1. \A v, w \in WrittenBy(s) : v.entry = w.entry => v = w
    BY <1>1 DEF Own
  <2>2. written[i] \in WrittenBy(s)
    BY <1>1
  <2> QED
    BY <2>1, <2>2
<1>5. ASSUME NEW i \in DOMAIN written
      PROVE  je'[written[i].entry] = [account |-> written[i].row.account, day |-> written[i].row.day,
                                      amount |-> written[i].row.amount, reversing |-> NoEntry]
  <2>1. written[i].entry \in EntryId /\ \E w \in WrittenBy(s) : w.entry = written[i].entry
    BY <1>1, <1>2
  <2> QED
    BY <1>3, <1>4, <2>1
<1>6. \A o \in EntryId \ {written[i].entry : i \in DOMAIN written} : je'[o] = je[o]
  BY <1>1, <1>3
<1>7. setRows' = setRows \cup {written[i].entry : i \in DOMAIN written}
  BY <1>1, <1>3
<1>8. je' = [o \in EntryId |-> je'[o]]
  BY <1>3
<1> HIDE DEF written
<1>9. ASSUME NEW i \in DOMAIN written
      PROVE  LET w == written[i]
             IN  /\ w.row \in Row /\ w.entry \in EntryId
                 /\ je'[w.entry] \in Entry /\ je'[w.entry].reversing = NoEntry
                 /\ je'[w.entry].account = w.row.account /\ je'[w.entry].day = w.row.day
                 /\ je'[w.entry].amount = w.row.amount
  <2>1. ASSUME NEW row \in Row, NEW y,
               y = [account |-> row.account, day |-> row.day, amount |-> row.amount,
                    reversing |-> NoEntry]
        PROVE  /\ y \in Entry /\ y.reversing = NoEntry /\ y.account = row.account
               /\ y.day = row.day /\ y.amount = row.amount
    BY <2>1 DEF Row, Entry
  <2> QED
    BY <1>2, <1>5, <2>1
<1>10. \A i \in DOMAIN written : je[written[i].entry] = NoValue
  BY <1>1 DEF Own, written
<1> QED
  BY <1>6, <1>7, <1>8, <1>9, <1>10 DEF written

(* The display fields are those of the last row on the account.            *)
LEMMA CommitShows ==
  ASSUME OpeningInv, NEW s \in Session, Commit(s)
  PROVE  LET written == session[s].written
         IN  /\ DOMAIN display' = Account
             /\ \A a \in Account :
                  \/ /\ \A i \in DOMAIN written : written[i].row.account # a
                     /\ display'[a] = display[a]
                  \/ \E i \in DOMAIN written :
                       /\ written[i].row.account = a
                       /\ display'[a] = [day |-> written[i].row.day, amount |-> written[i].row.amount]
<1> DEFINE written == session[s].written
           Last(a) == {i \in DOMAIN written : /\ written[i].row.account = a
                                              /\ \A j \in DOMAIN written :
                                                   written[j].row.account = a => j <= i}
<1>1. display' = [a \in Account |->
                   IF Last(a) = {} THEN display[a]
                   ELSE LET row == written[CHOOSE i \in Last(a) : TRUE].row
                        IN  [day |-> row.day, amount |-> row.amount]]
  BY DEF Commit
<1>2. DOMAIN written \subseteq {1, 2}
  <2>1. session[s] \in Sessions /\ Len(written) + Len(session[s].rows) <= 2
    BY DEF OpeningInv, Private, Own
  <2>2. Len(session[s].rows) \in Nat /\ Len(written) \in Nat /\ DOMAIN written = 1..Len(written)
    BY <2>1, RowsTyped
  <2>3. \A i \in Nat : i \in DOMAIN written => i = 1 \/ i = 2
    <3> HIDE DEF written
    <3> QED
      BY <2>1, <2>2
  <2> QED
    BY <2>2, <2>3
<1>3. ASSUME NEW a \in Account, Last(a) = {} PROVE \A i \in DOMAIN written : written[i].row.account # a
  <2>2. 2 \in DOMAIN written => written[2].row.account # a
    BY <1>2, <1>3
  <2>3. 1 \in DOMAIN written => written[1].row.account # a
    BY <1>2, <1>3, <2>2
  <2> QED
    BY <1>2, <2>2, <2>3
<1>4. ASSUME NEW a \in Account, Last(a) # {}
      PROVE  \E i \in DOMAIN written :
               /\ written[i].row.account = a
               /\ display'[a] = [day |-> written[i].row.day, amount |-> written[i].row.amount]
  <2> DEFINE i == CHOOSE j \in Last(a) : TRUE
  <2>1. i \in Last(a)
    BY <1>4
  <2>2. display'[a] = [day |-> written[i].row.day, amount |-> written[i].row.amount]
    BY <1>1, <1>4
  <2> QED
    BY <2>1, <2>2
<1>5. \A a \in Account : Last(a) = {} => display'[a] = display[a]
  BY <1>1
<1> QED
  BY <1>1, <1>3, <1>4, <1>5

(* After a commit the three records still agree.                           *)
LEMMA CommitKeeps ==
  ASSUME OpeningInv, NEW s \in Session, Commit(s)
  PROVE  OpeningInv'
<1> DEFINE written == session[s].written
           new == {written[i].entry : i \in DOMAIN written}
<1>1. /\ \A i \in DOMAIN written :
           /\ written[i].row \in Row /\ written[i].entry \in EntryId
           /\ je[written[i].entry] = NoValue
           /\ je'[written[i].entry] \in Entry /\ je'[written[i].entry].reversing = NoEntry
           /\ je'[written[i].entry].account = written[i].row.account
           /\ je'[written[i].entry].day = written[i].row.day
           /\ je'[written[i].entry].amount = written[i].row.amount
      /\ \A o \in EntryId \ new : je'[o] = je[o]
      /\ setRows' = setRows \cup new /\ je' = [o \in EntryId |-> je'[o]]
  BY CommitWrites
<1>2. /\ DOMAIN display' = Account
      /\ \A a \in Account :
           \/ /\ \A i \in DOMAIN written : written[i].row.account # a
              /\ display'[a] = display[a]
           \/ \E i \in DOMAIN written :
                /\ written[i].row.account = a
                /\ display'[a] = [day |-> written[i].row.day, amount |-> written[i].row.amount]
  BY CommitShows
<1>3. /\ \A t \in Session \ {s} : session'[t] = session[t]
      /\ session'[s] = Idle /\ Idle \in Sessions /\ session' \in [Session -> Sessions]
      /\ Idle.written = << >> /\ Idle.rows = << >> /\ Idle.pc = "idle"
  <2>1. Idle \in Sessions /\ Idle.written = << >> /\ Idle.rows = << >> /\ Idle.pc = "idle"
    BY DEF Idle, Sessions
  <2>2. session' = [session EXCEPT ![s] = Idle] /\ session \in [Session -> Sessions]
    BY DEF Commit, Finish, OpeningInv, Private
  <2> HIDE DEF Idle
  <2> QED
    BY <2>1, <2>2
<1>4. \A t \in Session : session[t] \in Sessions /\ Own(session[t], je)
  BY DEF OpeningInv, Private
<1> HIDE DEF written
<1>5. ASSUME NEW i \in DOMAIN written
      PROVE  je'[written[i].entry] \in Entry \ {NoValue}
  BY <1>1, NoValueAssumption
<1>6. je' \in [EntryId -> Entry \cup {NoValue}]
  <2>1. ASSUME NEW o \in EntryId PROVE je'[o] \in Entry \cup {NoValue}
    BY <1>1, <1>5 DEF OpeningInv, Private
  <2> QED
    BY <1>1, <2>1
<1>7. Openings' = Openings \cup new
  BY <1>1, <1>5 DEF Openings
<1>8. \A t \in Session : Own(session'[t], je')
  <2>1. Own(Idle, je')
    BY <1>3 DEF Own
  <2>2. ASSUME NEW t \in Session \ {s} PROVE Own(session[t], je')
    <3>1. \A i \in DOMAIN session[t].written : session[t].written[i].entry \in EntryId \ new
      BY <1>4, RowsTyped DEF OpeningInv, Private, written
    <3> QED
      <4>1. \A i \in DOMAIN session[t].written : je'[session[t].written[i].entry] = NoValue
        <5> HIDE DEF new
        <5>1. \A i \in DOMAIN session[t].written :
                je'[session[t].written[i].entry] = je[session[t].written[i].entry]
          BY <1>1, <3>1
        <5>2. \A i \in DOMAIN session[t].written : je[session[t].written[i].entry] = NoValue
          BY <1>4 DEF Own
        <5> QED
          BY <5>1, <5>2
      <4> QED
        BY <1>4, <4>1 DEF Own
  <2> QED
    BY <1>3, <2>1, <2>2
<1>9. \A t, u \in Session : \A i \in DOMAIN session'[t].written, j \in DOMAIN session'[u].written :
        session'[t].written[i].entry = session'[u].written[j].entry => t = u
  BY <1>3 DEF OpeningInv, Private
<1>10. ASSUME NEW a \in Account PROVE Shows(a)'
  <2>1. ASSUME NEW i \in DOMAIN written, written[i].row.account = a,
               display'[a] = [day |-> written[i].row.day, amount |-> written[i].row.amount]
        PROVE  Shows(a)'
    <3> DEFINE o == written[i].entry
    <3>1. /\ o \in EntryId /\ o \in new
          /\ je'[o].account = a /\ je'[o].day = written[i].row.day
          /\ je'[o].amount = written[i].row.amount
      BY <1>1, <2>1
    <3> HIDE DEF o
    <3>2. display'[a] = [day |-> je'[o].day, amount |-> je'[o].amount]
      BY <2>1, <3>1
    <3>3. o \in Openings'
      BY <1>7, <3>1
    <3> QED
      BY <3>1, <3>2, <3>3 DEF Shows, Opens
  <2>2. ASSUME \A i \in DOMAIN written : written[i].row.account # a, display'[a] = display[a]
        PROVE  Shows(a)'
    <3>1. ASSUME NEW o \in new PROVE je'[o].account # a /\ o \notin Openings
      BY <1>1, <2>2 DEF Openings
    <3>2. \A o \in Openings : o \in EntryId /\ je'[o] = je[o]
      BY <1>1, <3>1 DEF Openings
    <3>3. CASE (\A o \in EntryId : ~Opens(o, a)) /\ display[a] = NoValue
      BY <1>7, <2>2, <3>1, <3>2, <3>3 DEF Shows, Opens
    <3>4. ASSUME NEW o \in EntryId, Opens(o, a),
                 display[a] = [day |-> je[o].day, amount |-> je[o].amount]
          PROVE  Shows(a)'
      BY <1>7, <2>2, <3>2, <3>4 DEF Shows, Opens
    <3> QED
      BY <3>3, <3>4 DEF OpeningInv, Shows
  <2> QED
    BY <1>2, <2>1, <2>2
<1>11. SetRowsMatch'
  BY <1>1, <1>7 DEF OpeningInv, SetRowsMatch
<1> QED
  BY <1>2, <1>3, <1>6, <1>8, <1>9, <1>10, <1>11 DEF OpeningInv, Private

-----------------------------------------------------------------------------
(* Every step keeps the invariant.                                         *)
LEMMA NextOpening ==
  ASSUME OpeningInv, [Next]_vars
  PROVE  OpeningInv'
<1>1. ASSUME NEW s \in Session, Refuse(s) \/ Fail(s) \/ DeadlockDetected(s) \/ CleanFails(s) \/ Crash(s)
      PROVE  OpeningInv'
  BY <1>1, FinishKeeps DEF Refuse, Fail, DeadlockDetected, CleanFails, Crash, tables
<1>2. ASSUME NEW s \in Session, NEW row \in Row, Call(s, <<row>>, FALSE) PROVE OpeningInv'
  <2>1. <<row>> \in Seq(Row) /\ Len(<<row>>) <= 2
    OBVIOUS
  <2> QED
    BY <1>2, <2>1, CallKeeps
<1>3. ASSUME NEW s \in Session, NEW first \in Row, NEW second \in Row, Call(s, <<first, second>>, TRUE)
      PROVE  OpeningInv'
  <2>1. <<first, second>> \in Seq(Row) /\ Len(<<first, second>>) <= 2
    OBVIOUS
  <2> QED
    BY <1>3, <2>1, CallKeeps
<1>4. CASE UNCHANGED <<je, display, setRows, session>>
  <2>1. Openings' = Openings /\ Private'
    BY <1>4 DEF Openings, OpeningInv, Private
  <2> QED
    BY <1>4, <2>1 DEF OpeningInv, SetRowsMatch, Shows, Opens
<1>5. CASE Seed \/ UNCHANGED vars
  BY <1>4, <1>5 DEF Seed, vars, tables
<1> QED
  BY <1>1, <1>2, <1>3, <1>5, AcceptKeeps, WriteKeeps, CommitKeeps, ReverseKeeps DEF Next, Work

(* No books, no records.                                                   *)
LEMMA InitOpening ==
  ASSUME Init
  PROVE  OpeningInv
<1>1. Idle \in Sessions /\ Idle.written = << >> /\ Idle.rows = << >> /\ Idle.pc = "idle"
  BY DEF Idle, Sessions
<1>2. /\ je = [e \in EntryId |-> NoValue] /\ display = [a \in Account |-> NoValue] /\ setRows = {}
      /\ session = [s \in Session |-> Idle]
  BY DEF Init
<1> HIDE DEF Idle
<1>3. Own(Idle, je)
  BY <1>1 DEF Own
<1>4. Private
  BY <1>1, <1>2, <1>3 DEF Private
<1>5. Openings = {}
  BY <1>2 DEF Openings
<1> QED
  BY <1>2, <1>4, <1>5 DEF OpeningInv, SetRowsMatch, Shows, Opens

(* set_opening_balance: whatever is refused, killed, rolled back or run at *)
(* the same time, the audit log names exactly the opening entries there    *)
(* are, and the display fields of an account are those of one of them.     *)
THEOREM RecordsStayTogether == Spec => []RecordsAgree
<1>1. OpeningInv => RecordsAgree
  BY ShowsIs DEF OpeningInv, RecordsAgree
<1> QED
  BY <1>1, InitOpening, NextOpening, PTL DEF Spec
-----------------------------------------------------------------------------
(* Callers that are wrong.  A caller claims an account and a day from the  *)
(* moment its row has passed the duplicate check to the end of its call.   *)
(* While an entry is in force no claim is made, so entries in force and    *)
(* claims together are never more than the callers.                        *)

Is(row, a, d) == row.account = a /\ row.day = d
Claims(x, a, d) ==
  \/ x.pc = "write" /\ Is(Head(x.rows), a, d)
  \/ \E i \in DOMAIN x.written : Is(x.written[i].row, a, d)
Claimants(a, d) == {s \in Session : Claims(session[s], a, d)}

\* A call does not write two rows for one account and day.
Apart(x) ==
  \A a, d :
    /\ \A i, j \in DOMAIN x.written :
         Is(x.written[i].row, a, d) /\ Is(x.written[j].row, a, d) => i = j
    /\ x.pc = "write" /\ Is(Head(x.rows), a, d)
         => \A i \in DOMAIN x.written : ~Is(x.written[i].row, a, d)

Budget(a, d) ==
  /\ IsFiniteSet(InForce(a, d))
  /\ Cardinality(InForce(a, d)) + Cardinality(Claimants(a, d)) <= Cardinality(Session)
Budgets == (\A s \in Session : Apart(session[s])) /\ \A a \in Account, d \in Day : Budget(a, d)
ClaimsInv == OpeningInv /\ Budgets

(* Claimants are callers.                                                  *)
LEMMA ClaimantsFinite ==
  ASSUME NEW a, NEW d
  PROVE  /\ IsFiniteSet(Claimants(a, d)) /\ Cardinality(Claimants(a, d)) \in Nat
         /\ Cardinality(Claimants(a, d)) <= Cardinality(Session) /\ Cardinality(Session) \in Nat
<1>1. Claimants(a, d) \in SUBSET Session /\ IsFiniteSet(Session)
  BY OpeningAssumption DEF Claimants
<1> QED
  BY <1>1, FS_Subset, FS_CardinalityType

(* The budget stays when entries and claims only go.                       *)
LEMMA BudgetStays ==
  ASSUME NEW inForce, NEW claims, NEW inForce2, NEW claims2, NEW n \in Nat,
         IsFiniteSet(inForce), IsFiniteSet(claims), Cardinality(inForce) + Cardinality(claims) <= n,
         inForce2 \subseteq inForce, claims2 \subseteq claims
  PROVE  IsFiniteSet(inForce2) /\ Cardinality(inForce2) + Cardinality(claims2) <= n
<1>1. ASSUME NEW S, NEW T, IsFiniteSet(S), T \subseteq S
      PROVE  IsFiniteSet(T) /\ Cardinality(T) \in Nat /\ Cardinality(T) <= Cardinality(S)
             /\ Cardinality(S) \in Nat
  BY <1>1, FS_Subset, FS_CardinalityType
<1>2. IsFiniteSet(inForce2) /\ Cardinality(inForce2) \in Nat
      /\ Cardinality(inForce2) <= Cardinality(inForce) /\ Cardinality(inForce) \in Nat
  BY <1>1
<1>3. Cardinality(claims2) \in Nat /\ Cardinality(claims2) <= Cardinality(claims)
      /\ Cardinality(claims) \in Nat
  BY <1>1
<1> QED
  BY <1>2, <1>3

(* What comes in the place of a claim leaves the sum as it is.             *)
LEMMA Exchange ==
  ASSUME NEW inForce, NEW claims, NEW e, NEW s \in claims, IsFiniteSet(inForce), IsFiniteSet(claims)
  PROVE  /\ IsFiniteSet(inForce \cup {e}) /\ IsFiniteSet(claims \ {s})
         /\ Cardinality(inForce \cup {e}) + Cardinality(claims \ {s})
              <= Cardinality(inForce) + Cardinality(claims)
<1>1. /\ IsFiniteSet(inForce \cup {e})
      /\ \/ Cardinality(inForce \cup {e}) = Cardinality(inForce)
         \/ Cardinality(inForce \cup {e}) = Cardinality(inForce) + 1
  BY FS_AddElement
<1>2. IsFiniteSet(claims \ {s}) /\ Cardinality(claims \ {s}) = Cardinality(claims) - 1
  BY FS_RemoveElement
<1>3. Cardinality(inForce) \in Nat /\ Cardinality(claims) \in Nat
  BY FS_CardinalityType
<1> QED
  BY <1>1, <1>2, <1>3

(* A step of one session that leaves the entries alone: a new claim is     *)
(* made only where no entry is in force.                                   *)
LEMMA ClaimStep ==
  ASSUME ClaimsInv, NEW s \in Session, NEW x, session' = [session EXCEPT ![s] = x], UNCHANGED je,
         Apart(x),
         \A a \in Account, d \in Day :
           Claims(x, a, d) => Claims(session[s], a, d) \/ InForce(a, d) = {}
  PROVE  Budgets'
<1>1. \A t \in Session : session'[t] = IF t = s THEN x ELSE session[t]
  BY DEF ClaimsInv, OpeningInv, Private
<1>2. ASSUME NEW a \in Account, NEW d \in Day PROVE Budget(a, d)'
  <2>1. InForce(a, d)' = InForce(a, d)
    BY DEF InForce, Openings, Reversed, Reversals
  <2>2. /\ IsFiniteSet(InForce(a, d)) /\ Cardinality(Session) \in Nat
        /\ Cardinality(InForce(a, d)) + Cardinality(Claimants(a, d)) <= Cardinality(Session)
    BY ClaimantsFinite DEF ClaimsInv, Budgets, Budget
  <2>3. CASE InForce(a, d) = {}
    <3> DEFINE claims2 == Claimants(a, d)'
    <3>1. claims2 \in SUBSET Session
      BY DEF Claimants
    <3> HIDE DEF claims2
    <3>2. Cardinality(claims2) \in Nat /\ Cardinality(claims2) <= Cardinality(Session)
      BY <3>1, OpeningAssumption, FS_Subset, FS_CardinalityType
    <3>3. Cardinality(InForce(a, d)) = 0
      BY <2>3, FS_EmptySet
    <3> QED
      BY <2>1, <2>2, <3>2, <3>3 DEF Budget, claims2
  <2>4. CASE InForce(a, d) # {}
    <3>1. Claimants(a, d)' \subseteq Claimants(a, d)
      BY <1>1, <2>4 DEF Claimants
    <3>2. IsFiniteSet(Claimants(a, d))
      BY ClaimantsFinite
    <3> QED
      BY <2>1, <2>2, <3>1, <3>2, BudgetStays DEF Budget
  <2> QED
    BY <2>3, <2>4
<1>3. \A t \in Session : Apart(session'[t])
  BY <1>1 DEF ClaimsInv, Budgets
<1> QED
  BY <1>2, <1>3 DEF Budgets

(* A call that begins or ends claims nothing.                              *)
LEMMA IdleClaims ==
  ASSUME NEW x, x.written = << >>, x.pc # "write"
  PROVE  Apart(x) /\ \A a, d : ~Claims(x, a, d)
<1>1. DOMAIN x.written = {}
  OBVIOUS
<1> QED
  BY <1>1 DEF Apart, Claims

(* No step of a session that leaves the entries alone breaks the budget.   *)
LEMMA SessionBudgets ==
  ASSUME ClaimsInv, NEW s \in Session
  PROVE  /\ Finish(s) /\ UNCHANGED je => Budgets'
         /\ \A rows \in Seq(Row), batch \in BOOLEAN : Call(s, rows, batch) => Budgets'
         /\ Accept(s) => Budgets'
         /\ \A e \in EntryId : Write(s, e) => Budgets'
<1>0. /\ session \in [Session -> Sessions] /\ session[s] \in Sessions /\ Apart(session[s])
      /\ Own(session[s], je)
  BY DEF ClaimsInv, OpeningInv, Private, Budgets
<1>1. ASSUME Finish(s), UNCHANGED je PROVE Budgets'
  <2>1. session' = [session EXCEPT ![s] = Idle] /\ Idle.written = << >> /\ Idle.pc # "write"
    BY <1>1 DEF Finish, Idle
  <2> QED
    BY <1>1, <2>1, IdleClaims, ClaimStep
<1>2. ASSUME NEW rows \in Seq(Row), NEW batch \in BOOLEAN, Call(s, rows, batch) PROVE Budgets'
  <2> DEFINE x == [Idle EXCEPT !.pc = "check", !.batch = batch, !.rows = rows]
  <2>1. session' = [session EXCEPT ![s] = x] /\ UNCHANGED je
    BY <1>2 DEF Call, tables
  <2>2. x.written = << >> /\ x.pc # "write"
    BY DEF Idle
  <2> HIDE DEF x
  <2> QED
    BY <2>1, <2>2, IdleClaims, ClaimStep
<1>3. ASSUME Accept(s) PROVE Budgets'
  <2> DEFINE x == [session[s] EXCEPT !.pc = "write"]
             row == Head(session[s].rows)
  <2>1. session' = [session EXCEPT ![s] = x] /\ UNCHANGED je
    BY <1>3 DEF Accept, tables
  <2>2. x.pc = "write" /\ x.rows = session[s].rows /\ x.written = session[s].written
    BY <1>0 DEF Sessions
  <2> HIDE DEF x
  <2>3. /\ InForce(row.account, row.day) = {}
        /\ \A w \in WrittenBy(s) : ~(w.row.account = row.account /\ w.row.day = row.day)
    BY <1>3 DEF Accept, Refused, Active
  <2>4. \A i \in DOMAIN x.written : ~Is(x.written[i].row, row.account, row.day)
    BY <2>2, <2>3 DEF WrittenBy, Is
  <2>5. Apart(x)
    <3>1. ASSUME NEW a, NEW d, Is(Head(x.rows), a, d)
          PROVE  \A i \in DOMAIN x.written : ~Is(x.written[i].row, a, d)
      <4>1. a = row.account /\ d = row.day
        BY <2>2, <3>1 DEF Is
      <4> QED
        BY <2>4, <4>1
    <3> QED
      BY <1>0, <2>2, <3>1 DEF Apart
  <2>6. ASSUME NEW a \in Account, NEW d \in Day, Claims(x, a, d)
        PROVE  Claims(session[s], a, d) \/ InForce(a, d) = {}
    BY <2>2, <2>3, <2>6 DEF Claims, Is
  <2> QED
    BY <2>1, <2>5, <2>6, ClaimStep
<1>4. ASSUME NEW e \in EntryId, Write(s, e) PROVE Budgets'
  <2> DEFINE row == Head(session[s].rows)
             w == [entry |-> e, row |-> row]
             x == [session[s] EXCEPT !.pc = "check", !.rows = Tail(session[s].rows),
                                     !.written = Append(session[s].written, w)]
  <2>1. session' = [session EXCEPT ![s] = x] /\ UNCHANGED je /\ session[s].pc = "write"
    BY <1>4 DEF Write, tables
  <2>2. x.pc = "check" /\ x.written = Append(session[s].written, w)
    BY <1>0 DEF Sessions
  <2>3. session[s].rows # << >> /\ session[s].rows \in Seq(Row)
    BY <1>0, <2>1 DEF Own, Sessions
  <2>4. w.row = row /\ w \in Written
    BY <2>3 DEF Written
  <2> HIDE DEF x, w
  <2>5. session[s].written \in Seq(Written)
    BY <1>0 DEF Sessions
  <2>6. ASSUME NEW i \in DOMAIN x.written
        PROVE  \/ i \in DOMAIN session[s].written /\ x.written[i] = session[s].written[i]
               \/ i = Len(session[s].written) + 1 /\ x.written[i] = w
    BY <2>2, <2>4, <2>5, <2>6
  <2>7. Apart(x)
    BY <1>0, <2>1, <2>2, <2>4, <2>6 DEF Apart
  <2>8. ASSUME NEW a \in Account, NEW d \in Day, Claims(x, a, d) PROVE Claims(session[s], a, d)
    BY <2>1, <2>2, <2>4, <2>6, <2>8 DEF Claims
  <2> QED
    BY <2>1, <2>7, <2>8, ClaimStep
<1> QED
  BY <1>1, <1>2, <1>3, <1>4

(* A commit puts one entry in the place of a claim.                        *)
LEMMA CommitBudgets ==
  ASSUME ClaimsInv, NEW s \in Session, Commit(s)
  PROVE  Budgets'
<1> DEFINE written == session[s].written
<1>0. /\ session \in [Session -> Sessions] /\ Apart(session[s]) /\ session[s].pc = "check"
      /\ session' = [session EXCEPT ![s] = Idle]
  BY DEF ClaimsInv, OpeningInv, Private, Budgets, Commit, Finish
<1>1. Idle.written = << >> /\ Idle.pc # "write"
  BY DEF Idle
<1>2. \A t \in Session : session'[t] = IF t = s THEN Idle ELSE session[t]
  BY <1>0
<1>3. \A t \in Session : Apart(session'[t])
  BY <1>1, <1>2, IdleClaims DEF ClaimsInv, Budgets
<1>4. ASSUME NEW a \in Account, NEW d \in Day PROVE Budget(a, d)'
  <2>1. Claimants(a, d)' \subseteq Claimants(a, d) \ {s}
    BY <1>1, <1>2, IdleClaims DEF Claimants
  <2>2. ASSUME NEW o \in InForce(a, d)'
        PROVE  o \in InForce(a, d) \/ \E i \in DOMAIN written : o = written[i].entry /\ Is(written[i].row, a, d)
    <3>1. o \in EntryId /\ je'[o] # NoValue /\ je'[o].reversing = NoEntry
          /\ je'[o].account = a /\ je'[o].day = d /\ o \notin Reversed'
      BY DEF InForce, Openings
    <3>2. CASE \E i \in DOMAIN written : o = written[i].entry
      <4>1. PICK i \in DOMAIN written : o = written[i].entry
        BY <3>2
      <4>2. je'[o].account = written[i].row.account /\ je'[o].day = written[i].row.day
        BY <4>1, CommitWrites DEF ClaimsInv
      <4> QED
        BY <3>1, <4>1, <4>2 DEF Is
    <3>3. CASE o \notin {written[i].entry : i \in DOMAIN written}
      <4>1. je'[o] = je[o]
        BY <3>1, <3>3, CommitWrites DEF ClaimsInv
      <4>2. o \notin Reversed
        <5>1. ASSUME NEW r \in Reversals PROVE r \in Reversals' /\ je'[r] = je[r]
          <6>1. r \in EntryId /\ je[r] # NoValue /\ je[r].reversing # NoEntry
            BY DEF Reversals
          <6>2. r \notin {written[i].entry : i \in DOMAIN written}
            BY <6>1, CommitWrites DEF ClaimsInv
          <6>3. je'[r] = je[r]
            BY <6>1, <6>2, CommitWrites DEF ClaimsInv
          <6> QED
            BY <6>1, <6>3 DEF Reversals
        <5> QED
          BY <3>1, <5>1 DEF Reversed
      <4> QED
        BY <3>1, <4>1, <4>2 DEF InForce, Openings
    <3> QED
      BY <3>2, <3>3
  <2>3. /\ IsFiniteSet(InForce(a, d)) /\ Cardinality(Session) \in Nat
        /\ Cardinality(InForce(a, d)) + Cardinality(Claimants(a, d)) <= Cardinality(Session)
        /\ IsFiniteSet(Claimants(a, d))
    BY ClaimantsFinite DEF ClaimsInv, Budgets, Budget
  <2>4. CASE \A i \in DOMAIN written : ~Is(written[i].row, a, d)
    <3>1. InForce(a, d)' \subseteq InForce(a, d)
      BY <2>2, <2>4
    <3> QED
      BY <2>1, <2>3, <3>1, BudgetStays DEF Budget
  <2>5. ASSUME NEW i \in DOMAIN written, Is(written[i].row, a, d) PROVE Budget(a, d)'
    <3>1. s \in Claimants(a, d)
      BY <2>5 DEF Claimants, Claims
    <3>2. \A j \in DOMAIN written : Is(written[j].row, a, d) => j = i
      BY <1>0, <2>5 DEF Apart
    <3>3. InForce(a, d)' \subseteq InForce(a, d) \cup {written[i].entry}
      BY <2>2, <3>2
    <3> DEFINE f == InForce(a, d)
               f2 == InForce(a, d)'
               c == Claimants(a, d)
               c2 == Claimants(a, d)'
               e == written[i].entry
    <3>4. IsFiniteSet(f2) /\ Cardinality(f2) + Cardinality(c2) <= Cardinality(Session)
      <4>1. f2 \subseteq f \cup {e} /\ s \in c /\ c2 \subseteq c \ {s}
        BY <2>1, <3>1, <3>3
      <4>2. /\ IsFiniteSet(f) /\ IsFiniteSet(c) /\ Cardinality(Session) \in Nat
            /\ Cardinality(f) + Cardinality(c) <= Cardinality(Session)
        BY <2>3
      <4> HIDE DEF f, f2, c, c2, e
      <4> DEFINE more == f \cup {e}
                 fewer == c \ {s}
      <4>3. /\ IsFiniteSet(more) /\ IsFiniteSet(fewer)
            /\ Cardinality(more) + Cardinality(fewer) <= Cardinality(f) + Cardinality(c)
        BY <4>1, <4>2, Exchange
      <4>4. Cardinality(more) + Cardinality(fewer) <= Cardinality(Session)
        <5>1. /\ Cardinality(more) \in Nat /\ Cardinality(fewer) \in Nat
              /\ Cardinality(f) \in Nat /\ Cardinality(c) \in Nat
          BY <4>2, <4>3, FS_CardinalityType
        <5> HIDE DEF more, fewer
        <5> QED
          BY <4>2, <4>3, <5>1
      <4>5. f2 \subseteq more /\ c2 \subseteq fewer
        BY <4>1
      <4> HIDE DEF more, fewer
      <4> QED
        BY <4>2, <4>3, <4>4, <4>5, BudgetStays
    <3> QED
      BY <3>4 DEF Budget
  <2> QED
    BY <2>4, <2>5
<1> QED
  BY <1>3, <1>4 DEF Budgets

(* A reversal takes an entry out of force.                                 *)
LEMMA ReverseBudgets ==
  ASSUME ClaimsInv, NEW e \in EntryId, NEW r \in EntryId, Reverse(e, r)
  PROVE  Budgets'
<1> DEFINE x == [je[e] EXCEPT !.reversing = e]
<1>1. je[e] \in Entry /\ je[r] = NoValue /\ je' = [je EXCEPT ![r] = x] /\ session' = session
      /\ je \in [EntryId -> Entry \cup {NoValue}]
  BY DEF ClaimsInv, OpeningInv, Private, Reverse, Openings, FreshKey
<1>2. x.reversing = e /\ e # NoEntry
  BY <1>1, OpeningAssumption DEF Entry
<1> HIDE DEF x
<1>3. je'[r] = x /\ \A o \in EntryId \ {r} : je'[o] = je[o]
  BY <1>1
<1>4. Openings' \subseteq Openings /\ \A o \in Openings' : je'[o] = je[o]
  BY <1>2, <1>3 DEF Openings
<1>5. Reversed \subseteq Reversed'
  <2>1. \A t \in Reversals : t \in Reversals' /\ je'[t] = je[t]
    BY <1>1, <1>3 DEF Reversals
  <2> QED
    BY <2>1 DEF Reversed
<1>6. ASSUME NEW a \in Account, NEW d \in Day PROVE Budget(a, d)'
  <2>1. InForce(a, d)' \subseteq InForce(a, d)
    BY <1>4, <1>5 DEF InForce
  <2>2. Claimants(a, d)' = Claimants(a, d)
    BY <1>1 DEF Claimants
  <2> QED
    BY <2>1, <2>2, ClaimantsFinite, BudgetStays DEF ClaimsInv, Budgets, Budget
<1> QED
  BY <1>1, <1>6 DEF ClaimsInv, Budgets

(* Every step keeps the budget.                                            *)
LEMMA NextClaims ==
  ASSUME ClaimsInv, [Next]_vars
  PROVE  ClaimsInv'
<1>1. OpeningInv'
  BY NextOpening DEF ClaimsInv
<1>2. ASSUME NEW s \in Session, Refuse(s) \/ Fail(s) \/ DeadlockDetected(s) \/ CleanFails(s) \/ Crash(s) PROVE Budgets'
  <2>1. Finish(s) /\ UNCHANGED je
    BY <1>2 DEF Refuse, Fail, DeadlockDetected, CleanFails, Crash, tables
  <2> QED
    BY <2>1, SessionBudgets
<1>3. ASSUME NEW s \in Session, NEW row \in Row, Call(s, <<row>>, FALSE) PROVE Budgets'
  <2>1. <<row>> \in Seq(Row)
    OBVIOUS
  <2> QED
    BY <1>3, <2>1, SessionBudgets
<1>4. ASSUME NEW s \in Session, NEW first \in Row, NEW second \in Row, Call(s, <<first, second>>, TRUE)
      PROVE  Budgets'
  <2>1. <<first, second>> \in Seq(Row)
    OBVIOUS
  <2> QED
    BY <1>4, <2>1, SessionBudgets
<1>5. ASSUME UNCHANGED <<je, session>> PROVE Budgets'
  <2>1. \A a, d : InForce(a, d)' = InForce(a, d) /\ Claimants(a, d)' = Claimants(a, d)
    BY <1>5 DEF InForce, Openings, Reversed, Reversals, Claimants
  <2>2. ASSUME NEW a \in Account, NEW d \in Day PROVE Budget(a, d)'
    <3>1. InForce(a, d)' = InForce(a, d) /\ Claimants(a, d)' = Claimants(a, d)
      BY <2>1
    <3> QED
      BY <3>1 DEF ClaimsInv, Budgets, Budget
  <2> QED
    BY <1>5, <2>2 DEF ClaimsInv, Budgets
<1>6. ASSUME Seed \/ UNCHANGED vars PROVE Budgets'
  BY <1>5, <1>6 DEF Seed, vars, tables
<1>7. ASSUME NEW s \in Session, Accept(s) \/ Commit(s) \/ \E e \in EntryId : Write(s, e)
      PROVE  Budgets'
  BY <1>7, SessionBudgets, CommitBudgets
<1>8. ASSUME NEW e \in EntryId, NEW r \in EntryId, Reverse(e, r) PROVE Budgets'
  BY <1>8, ReverseBudgets
<1>9. Budgets'
  BY <1>2, <1>3, <1>4, <1>6, <1>7, <1>8 DEF Next, Work
<1> QED
  BY <1>1, <1>9 DEF ClaimsInv

(* No calls, no claims.                                                    *)
LEMMA InitClaims ==
  ASSUME Init
  PROVE  ClaimsInv
<1>1. Idle.written = << >> /\ Idle.pc # "write"
  BY DEF Idle
<1>2. \A s \in Session : session[s] = Idle
  BY DEF Init
<1>3. \A s \in Session : Apart(session[s])
  BY <1>1, <1>2, IdleClaims
<1>4. ASSUME NEW a \in Account, NEW d \in Day PROVE Budget(a, d)
  <2>1. InForce(a, d) = {}
    BY DEF Init, InForce, Openings
  <2>2. Cardinality(Claimants(a, d)) <= Cardinality(Session) /\ Cardinality(Claimants(a, d)) \in Nat
        /\ Cardinality(Session) \in Nat
    BY ClaimantsFinite
  <2> QED
    BY <2>1, <2>2, FS_EmptySet DEF Budget
<1> QED
  BY <1>3, <1>4, InitOpening DEF ClaimsInv, Budgets

(* set_opening_balance: its duplicate check is outside the transaction, so *)
(* calls that overlap can both pass it.  However many calls are made, an   *)
(* account has never more opening entries in force for a day than there    *)
(* are callers, and never a second one if there is one caller.             *)
THEOREM OnePerCaller == Spec => []OneActivePerCaller
<1>1. ASSUME ClaimsInv PROVE OneActivePerCaller
  <2>1. ASSUME NEW a \in Account, NEW d \in Day
        PROVE  Cardinality(InForce(a, d)) <= Cardinality(Session)
    <3>1. /\ IsFiniteSet(InForce(a, d)) /\ Cardinality(Claimants(a, d)) \in Nat
          /\ Cardinality(InForce(a, d)) + Cardinality(Claimants(a, d)) <= Cardinality(Session)
          /\ Cardinality(Session) \in Nat
      BY <1>1, ClaimantsFinite DEF ClaimsInv, Budgets, Budget
    <3>2. Cardinality(InForce(a, d)) \in Nat
      BY <3>1, FS_CardinalityType
    <3> QED
      BY <3>1, <3>2
  <2> QED
    BY <2>1 DEF OneActivePerCaller
<1> QED
  BY <1>1, InitClaims, NextClaims, PTL DEF Spec
-----------------------------------------------------------------------------
(* Types.  The counters are bounded because a call is refused once: the    *)
(* refusals told and the calls under way are never more than the calls.    *)

Displays == [day : Day, amount : Amount]
Busy == {s \in Session : session[s].pc # "idle"}
Counters ==
  /\ seeded \in BOOLEAN /\ display \in [Account -> Displays \cup {NoValue}]
  /\ refusals \in Nat /\ raised \in Nat /\ refusals <= raised
  /\ calls \in 0..MaxCalls /\ raised + Cardinality(Busy) <= calls
CallsInv == OpeningInv /\ Counters

(* Sessions that work are sessions.                                        *)
LEMMA BusyFinite ==
  ASSUME NEW S, NEW T, S \subseteq Session, T \subseteq S
  PROVE  /\ IsFiniteSet(S) /\ Cardinality(S) \in Nat /\ Cardinality(T) \in Nat
         /\ Cardinality(T) <= Cardinality(S)
<1>1. IsFiniteSet(S)
  BY OpeningAssumption, FS_Subset
<1>2. IsFiniteSet(T) /\ Cardinality(T) <= Cardinality(S)
  BY <1>1, FS_Subset
<1> QED
  BY <1>1, <1>2, FS_CardinalityType

(* A call that ends is not busy any more; every other is as it was.        *)
LEMMA FinishFrees ==
  ASSUME CallsInv, NEW s \in Session, Finish(s)
  PROVE  Busy' \subseteq Busy \ {s}
<1>1. Idle.pc = "idle" /\ \A t \in Session : session'[t] = IF t = s THEN Idle ELSE session[t]
  BY DEF CallsInv, OpeningInv, Private, Finish, Idle
<1> QED
  BY <1>1 DEF Busy

(* The counters, step by step.                                             *)
LEMMA NextCounters ==
  ASSUME CallsInv, [Next]_vars
  PROVE  Counters'
<1>0. /\ session \in [Session -> Sessions]
      /\ seeded \in BOOLEAN /\ display \in [Account -> Displays \cup {NoValue}]
      /\ refusals \in Nat /\ raised \in Nat /\ refusals <= raised
      /\ calls \in 0..MaxCalls /\ raised + Cardinality(Busy) <= calls
      /\ Cardinality(Busy) \in Nat /\ MaxCalls \in Nat
  <2>1. Busy \subseteq Session
    BY DEF Busy
  <2> QED
    BY <2>1, BusyFinite, OpeningAssumption DEF CallsInv, Counters, OpeningInv, Private
<1>1. ASSUME Busy' \subseteq Busy, UNCHANGED <<seeded, display, refusals, raised, calls>>
      PROVE  Counters'
  <2>1. Busy \subseteq Session
    BY DEF Busy
  <2> DEFINE busy == Busy'
  <2>2. Cardinality(busy) \in Nat /\ Cardinality(busy) <= Cardinality(Busy)
    BY <1>1, <2>1, BusyFinite
  <2> HIDE DEF busy
  <2>3. raised + Cardinality(busy) <= calls
    BY <1>0, <2>2
  <2> QED
    BY <1>0, <1>1, <2>3 DEF Counters, busy
<1>2. ASSUME NEW s \in Session, Refuse(s) PROVE Counters'
  <2> DEFINE busy == Busy'
             rest == Busy \ {s}
  <2>1. s \in Busy /\ IsFiniteSet(Busy)
    BY <1>2, OpeningAssumption, FS_Subset DEF Refuse, Busy
  <2>2. Cardinality(rest) = Cardinality(Busy) - 1 /\ rest \subseteq Session
    BY <2>1, FS_RemoveElement DEF Busy
  <2>3. busy \subseteq rest
    BY <1>2, FinishFrees DEF Refuse
  <2> HIDE DEF busy, rest
  <2>4. Cardinality(busy) \in Nat /\ Cardinality(busy) <= Cardinality(rest)
    BY <2>2, <2>3, BusyFinite
  <2>5. /\ raised' = raised + 1 /\ refusals' \in {refusals, refusals + 1}
        /\ UNCHANGED <<seeded, display, calls>>
    BY <1>2 DEF Refuse
  <2>6. raised' + Cardinality(busy) <= calls' /\ refusals' \in Nat /\ refusals' <= raised'
        /\ raised' \in Nat
    BY <1>0, <2>2, <2>4, <2>5
  <2> QED
    BY <1>0, <2>5, <2>6 DEF Counters, busy
<1>3. ASSUME NEW s \in Session, Fail(s) \/ DeadlockDetected(s) \/ CleanFails(s) \/ Crash(s) PROVE Counters'
  <2>1. Busy' \subseteq Busy
    BY <1>3, FinishFrees DEF Fail, DeadlockDetected, CleanFails, Crash
  <2> QED
    BY <1>1, <1>3, <2>1 DEF Fail, DeadlockDetected, CleanFails, Crash, tables
<1>4. ASSUME NEW s \in Session, NEW rows, NEW batch, Call(s, rows, batch) PROVE Counters'
  <2> DEFINE busy == Busy'
             more == Busy \cup {s}
  <2>1. IsFiniteSet(Busy) /\ more \subseteq Session
    BY OpeningAssumption, FS_Subset DEF Busy
  <2>2. Cardinality(more) <= Cardinality(Busy) + 1
    <3>1. Cardinality(more) = IF s \in Busy THEN Cardinality(Busy) ELSE Cardinality(Busy) + 1
      BY <2>1, FS_AddElement
    <3> HIDE DEF more
    <3> QED
      BY <1>0, <3>1
  <2>3. busy \subseteq more
    <3>1. \A t \in Session \ {s} : session'[t] = session[t]
      BY <1>0, <1>4 DEF Call
    <3> QED
      BY <3>1 DEF Busy
  <2>4. UNCHANGED <<seeded, display, refusals, raised>> /\ calls < MaxCalls /\ calls' = calls + 1
    BY <1>4 DEF Call, tables
  <2> HIDE DEF busy, more
  <2>5. Cardinality(busy) \in Nat /\ Cardinality(busy) <= Cardinality(more) /\ Cardinality(more) \in Nat
    BY <2>1, <2>3, BusyFinite
  <2>6. raised + Cardinality(busy) <= calls + 1 /\ calls + 1 \in 0..MaxCalls
    BY <1>0, <2>2, <2>4, <2>5
  <2> QED
    BY <1>0, <2>4, <2>6 DEF Counters, busy
<1>5. ASSUME NEW s \in Session, Accept(s) \/ \E e \in EntryId : Write(s, e) PROVE Counters'
  <2>1. s \in Busy /\ \A t \in Session \ {s} : session'[t] = session[t]
    BY <1>0, <1>5 DEF Accept, Write, Busy
  <2>2. Busy' \subseteq Busy
    BY <2>1 DEF Busy
  <2> QED
    BY <1>1, <1>5, <2>2 DEF Accept, Write, tables
<1>6. ASSUME NEW s \in Session, Commit(s) PROVE Counters'
  <2>1. Busy' \subseteq Busy
    BY <1>6, FinishFrees DEF Commit
  <2>2. display' \in [Account -> Displays \cup {NoValue}]
    <3>1. \A i \in DOMAIN session[s].written :
            session[s].written[i].row.day \in Day /\ session[s].written[i].row.amount \in Amount
      <4>1. session[s] \in Sessions
        BY <1>0
      <4> QED
        BY <4>1, RowsTyped DEF Row
    <3>2. ASSUME NEW a \in Account PROVE display'[a] \in Displays \cup {NoValue}
      <4>1. \/ display'[a] = display[a]
            \/ \E i \in DOMAIN session[s].written :
                 display'[a] = [day |-> session[s].written[i].row.day,
                                amount |-> session[s].written[i].row.amount]
        BY <1>6, CommitShows DEF CallsInv
      <4>2. CASE display'[a] = display[a]
        BY <1>0, <4>2
      <4>3. ASSUME NEW i \in DOMAIN session[s].written,
                   display'[a] = [day |-> session[s].written[i].row.day,
                                  amount |-> session[s].written[i].row.amount]
            PROVE  display'[a] \in Displays
        <5>1. session[s].written[i].row.day \in Day /\ session[s].written[i].row.amount \in Amount
          BY <3>1
        <5> QED
          BY <4>3, <5>1 DEF Displays
      <4> QED
        BY <4>1, <4>2, <4>3
    <3>3. display' = [a \in Account |-> display'[a]]
      BY <1>6 DEF Commit
    <3> QED
      BY <3>2, <3>3
  <2> DEFINE busy == Busy'
  <2>3. Cardinality(busy) \in Nat /\ Cardinality(busy) <= Cardinality(Busy)
    BY <2>1, BusyFinite DEF Busy
  <2> HIDE DEF busy
  <2>4. raised + Cardinality(busy) <= calls
    BY <1>0, <2>3
  <2>5. UNCHANGED <<seeded, refusals, raised, calls>>
    BY <1>6 DEF Commit
  <2> QED
    BY <1>0, <2>2, <2>4, <2>5 DEF Counters, busy
<1>7. ASSUME UNCHANGED <<display, refusals, raised, calls, session>>, seeded' \in BOOLEAN
      PROVE  Counters'
  <2>1. Busy' = Busy
    BY <1>7 DEF Busy
  <2> QED
    BY <1>0, <1>7, <2>1 DEF Counters
<1>8. ASSUME Seed \/ UNCHANGED vars \/ \E e, r \in EntryId : Reverse(e, r) PROVE Counters'
  BY <1>0, <1>7, <1>8 DEF Seed, vars, tables, Reverse
<1> QED
  BY <1>2, <1>3, <1>4, <1>5, <1>6, <1>8 DEF Next, Work

(* set_opening_balance keeps its records and its callers' state in shape,  *)
(* and no caller is told of more refusals than it has made calls.          *)
THEOREM OpeningTypes == Spec => []TypeOK
<1>1. Init => CallsInv
  <2> SUFFICES ASSUME Init PROVE CallsInv
    OBVIOUS
  <2>1. Busy = {}
    BY DEF Init, Busy, Idle
  <2>2. 0 \in 0..MaxCalls
    BY OpeningAssumption
  <2>3. Cardinality(Busy) = 0
    BY <2>1, FS_EmptySet
  <2>4. /\ seeded \in BOOLEAN /\ display \in [Account -> Displays \cup {NoValue}]
        /\ refusals = 0 /\ raised = 0 /\ calls = 0
    BY DEF Init
  <2> QED
    BY <2>2, <2>3, <2>4, InitOpening DEF CallsInv, Counters
<1>2. CallsInv /\ [Next]_vars => CallsInv'
  BY NextOpening, NextCounters DEF CallsInv
<1>3. ASSUME CallsInv PROVE TypeOK
  <2>1. \A s \in Session : /\ session[s].pc \in {"idle", "check", "write"}
                           /\ session[s].batch \in BOOLEAN
                           /\ session[s].rows \in Seq(Row)
                           /\ session[s].written \in Seq([entry : EntryId, row : Row])
    BY <1>3 DEF CallsInv, OpeningInv, Private, Sessions, Written
  <2>2. setRows \subseteq EntryId
    BY <1>3 DEF CallsInv, OpeningInv, SetRowsMatch, Openings
  <2>3. refusals \in 0..MaxCalls /\ raised \in 0..MaxCalls /\ calls \in 0..MaxCalls
    <3>1. Cardinality(Busy) \in Nat
      BY BusyFinite DEF Busy
    <3> QED
      BY <1>3, <3>1, OpeningAssumption DEF CallsInv, Counters
  <2>4. /\ seeded \in BOOLEAN /\ display \in [Account -> [day : Day, amount : Amount] \cup {NoValue}]
        /\ je \in [EntryId -> Entry \cup {NoValue}]
    BY <1>3 DEF CallsInv, OpeningInv, Private, Counters, Displays
  <2> QED
    BY <2>1, <2>2, <2>3, <2>4 DEF TypeOK
<1> QED
  BY <1>1, <1>2, <1>3, PTL DEF Spec
=============================================================================
