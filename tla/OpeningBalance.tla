--------------------------- MODULE OpeningBalance ---------------------------
(***************************************************************************)
(* set_opening_balance and reverse_opening_balance, called one at a time   *)
(* or as the rows of a CSV batch, by concurrent callers.  The lines of the *)
(* entries are left to Journal: here an entry is what its reference number *)
(* says, the account and the day it opens.                                 *)
(***************************************************************************)
EXTENDS Integers, Sequences, FiniteSets

CONSTANTS
  Session,       \* callers: set_opening_balance commands, imports
  EntryId,       \* primary keys of journal_entry
  Account,
  SystemAccount, \* is_system
  CarryForward,  \* the accounts of type Asset, Liability or Equity
  Inactive,      \* is_active is FALSE: post_entry refuses them
  Day,           \* dates
  Amount,        \* the amounts callers ask for, 0 among them
  MaxCalls,      \* bound: calls made in a behaviour
  NoEntry, NoValue

ASSUME OpeningAssumption ==
  /\ SystemAccount \subseteq Account /\ CarryForward \subseteq Account /\ Inactive \subseteq Account
  /\ Amount \subseteq Nat /\ MaxCalls \in Nat /\ IsFiniteSet(Session)
  /\ NoEntry \notin EntryId

VARIABLES
  seeded,   \* the offset account 3-9100 exists
  je,       \* the posted opening entries and their reversals
  display,  \* Account.opening_balance and opening_balance_date
  setRows,  \* OPENING_BALANCE_SET audit rows, by the entry they name
  refusals, \* how many OPENING_BALANCE_REFUSED rows the audit log holds
  raised,   \* how many refusals callers were told of
  calls,
  session

tables == <<seeded, je, display, setRows, refusals>>
vars == <<tables, raised, calls, session>>

Row == [account : Account, day : Day, amount : Amount]
Entry == [account : Account, day : Day, amount : Amount, reversing : EntryId \cup {NoEntry}]
ASSUME NoValueAssumption == NoValue \notin Entry

\* rows: what is left of the call; batch: inside the outer transaction of the CSV
\* mode; written: this transaction's entries, not committed yet.
Idle == [pc |-> "idle", batch |-> FALSE, rows |-> << >>, written |-> << >>]

Init ==
  /\ seeded \in BOOLEAN
  /\ je = [e \in EntryId |-> NoValue]
  /\ display = [a \in Account |-> NoValue]
  /\ setRows = {}
  /\ refusals = 0 /\ raised = 0 /\ calls = 0
  /\ session = [s \in Session |-> Idle]

-----------------------------------------------------------------------------
WrittenBy(s) == {session[s].written[i] : i \in DOMAIN session[s].written}
FreshKey(e) == je[e] = NoValue /\ \A s \in Session : \A w \in WrittenBy(s) : w.entry # e

Openings == {e \in EntryId : je[e] # NoValue /\ je[e].reversing = NoEntry}
Reversals == {e \in EntryId : je[e] # NoValue /\ je[e].reversing # NoEntry}
Reversed == {je[r].reversing : r \in Reversals}

\* The opening entries of (account, as_of) in force: no reversal points to them and
\* they are not reversals themselves, though those share the reference number.
InForce(a, d) == {e \in Openings \ Reversed : je[e].account = a /\ je[e].day = d}

\* Fault: only rows of the same batch are seen.
ActiveOwn(s, row) ==
  {w.entry : w \in {v \in WrittenBy(s) : v.row.account = row.account /\ v.row.day = row.day}}

\* Fault: rows of the same batch are not seen.
ActiveCommitted(s, row) == InForce(row.account, row.day)

\* The query of the duplicate check sees those and this transaction's own.
Active(s, row) ==
  InForce(row.account, row.day)
  \cup {w.entry : w \in {v \in WrittenBy(s) : v.row.account = row.account /\ v.row.day = row.day}}

\* The refusals of the service, in front of its transaction.
Refused(s, row) ==
  \/ row.account \in SystemAccount
  \/ row.account \notin CarryForward
  \/ row.amount <= 0
  \/ Active(s, row) # {}

\* UPDATE account takes the row lock and a batch keeps it until it commits.
AccountLocked(s, a) ==
  \E t \in Session \ {s} : \E w \in WrittenBy(t) : w.row.account = a

Finish(s) == session' = [session EXCEPT ![s] = Idle]

Call(s, rows, batch) ==
  /\ session[s] = Idle
  /\ calls < MaxCalls
  /\ calls' = calls + 1
  /\ session' = [session EXCEPT ![s] = [Idle EXCEPT !.pc = "check", !.batch = batch,
                                                    !.rows = rows]]
  /\ UNCHANGED <<tables, raised>>

\* Fault: a refused row is tried again.
RefuseRetries(s) ==
  /\ session[s].pc = "check" /\ session[s].rows # << >>
  /\ Refused(s, Head(session[s].rows))
  /\ refusals' = refusals + 1 /\ raised' = raised + 1
  /\ UNCHANGED <<seeded, je, display, setRows, calls, session>>

\* Fault: it is tried again without end, and each try is rolled back.
RefuseForever(s) ==
  /\ session[s].pc = "check" /\ session[s].rows # << >>
  /\ Refused(s, Head(session[s].rows))
  /\ UNCHANGED vars

\* The refusal row of a single call is committed at once; that of a batch is inside
\* the transaction the CommandError rolls back.
Refuse(s) ==
  /\ session[s].pc = "check" /\ session[s].rows # << >>
  /\ Refused(s, Head(session[s].rows))
  /\ refusals' = IF session[s].batch THEN refusals ELSE refusals + 1
  /\ raised' = raised + 1
  /\ Finish(s)
  /\ UNCHANGED <<seeded, je, display, setRows, calls>>

\* No offset account, or post_entry refuses an inactive one: an exception, everything
\* rolled back, nothing logged.  (So does a call that finds no free key, which the
\* database always has and a small instance has not.)
Fail(s) ==
  /\ \/ /\ session[s].pc = "check" /\ session[s].rows # << >>
        /\ ~Refused(s, Head(session[s].rows))
        /\ ~seeded
     \/ session[s].pc = "write" /\ Head(session[s].rows).account \in Inactive
     \/ session[s].pc = "write" /\ \A e \in EntryId : ~FreshKey(e)
  /\ Finish(s)
  /\ UNCHANGED <<tables, raised, calls>>

Accept(s) ==
  /\ session[s].pc = "check" /\ session[s].rows # << >>
  /\ ~Refused(s, Head(session[s].rows))
  /\ seeded
  /\ session' = [session EXCEPT ![s].pc = "write"]
  /\ UNCHANGED <<tables, raised, calls>>

\* Fault: the display fields are saved outside the transaction.
WriteDisplayFirst(s, e) ==
  LET row == Head(session[s].rows) IN
  /\ session[s].pc = "write"
  /\ row.account \notin Inactive
  /\ FreshKey(e)
  /\ ~AccountLocked(s, row.account)
  /\ display' = [display EXCEPT ![row.account] = [day |-> row.day, amount |-> row.amount]]
  /\ session' = [session EXCEPT
                   ![s].pc = "check", ![s].rows = Tail(@),
                   ![s].written = Append(@, [entry |-> e, row |-> row])]
  /\ UNCHANGED <<seeded, je, setRows, refusals, raised, calls>>

\* The service's transaction is a savepoint inside a batch, and the whole transaction
\* of a single call.
Write(s, e) ==
  LET row == Head(session[s].rows) IN
  /\ session[s].pc = "write"
  /\ row.account \notin Inactive
  /\ FreshKey(e)
  /\ ~AccountLocked(s, row.account)
  /\ session' = [session EXCEPT
                   ![s].pc = "check", ![s].rows = Tail(@),
                   ![s].written = Append(@, [entry |-> e, row |-> row])]
  /\ UNCHANGED <<tables, raised, calls>>

\* The command ends and its rows become visible.
Commit(s) ==
  LET written == session[s].written
      Last(a) == {i \in DOMAIN written : /\ written[i].row.account = a
                                         /\ \A j \in DOMAIN written :
                                              written[j].row.account = a => j <= i}
  IN
  /\ session[s].pc = "check" /\ session[s].rows = << >>
  /\ je' = [e \in EntryId |->
              IF \E w \in WrittenBy(s) : w.entry = e
              THEN LET row == (CHOOSE w \in WrittenBy(s) : w.entry = e).row
                   IN  [account |-> row.account, day |-> row.day, amount |-> row.amount,
                        reversing |-> NoEntry]
              ELSE je[e]]
  /\ display' = [a \in Account |->
                   IF Last(a) = {} THEN display[a]
                   ELSE LET row == written[CHOOSE i \in Last(a) : TRUE].row
                        IN  [day |-> row.day, amount |-> row.amount]]
  /\ setRows' = setRows \cup {w.entry : w \in WrittenBy(s)}
  /\ Finish(s)
  /\ UNCHANGED <<seeded, refusals, raised, calls>>

\* PostgreSQL breaks a cycle of sessions that wait for each other's account rows.
Waits(s, t) ==
  /\ session[s].pc = "write"
  /\ \E w \in WrittenBy(t) : w.row.account = Head(session[s].rows).account
DeadlockDetected(s) ==
  /\ \E t \in Session \ {s} : Waits(s, t) /\ Waits(t, s)
  /\ Finish(s)
  /\ UNCHANGED <<tables, raised, calls>>

\* account.save runs Account.clean first, which raises when the account's place in the
\* chart breaks a rule by then, as overlapping edits can leave it (ChartOfAccounts).
CleanFails(s) ==
  /\ session[s].pc = "write"
  /\ Finish(s)
  /\ UNCHANGED <<tables, raised, calls>>

\* The caller is killed: its transaction is rolled back.
Crash(s) ==
  /\ session[s].pc # "idle"
  /\ Finish(s)
  /\ UNCHANGED <<tables, raised, calls>>

\* Fault: the original is removed.
ReverseRemoves(e, r) ==
  /\ e \in Openings \ Reversed
  /\ je' = [je EXCEPT ![e] = NoValue]
  /\ UNCHANGED <<seeded, display, setRows, refusals, raised, calls, session>>

\* reverse_opening_balance is reverse_entry: the reversal gets the reference number of
\* the original, and the display fields stay.
Reverse(e, r) ==
  /\ e \in Openings \ Reversed
  /\ FreshKey(r)
  /\ je' = [je EXCEPT ![r] = [je[e] EXCEPT !.reversing = e]]
  /\ UNCHANGED <<seeded, display, setRows, refusals, raised, calls, session>>

\* seed_default_coa brings in the system accounts.
Seed == seeded' = TRUE /\ UNCHANGED <<je, display, setRows, refusals, raised, calls, session>>

Work(s) ==
  \/ Refuse(s) \/ Fail(s) \/ Accept(s) \/ Commit(s) \/ DeadlockDetected(s)
  \/ \E e \in EntryId : Write(s, e)

Next ==
  \/ \E s \in Session :
       \/ Work(s) \/ CleanFails(s) \/ Crash(s)
       \/ \E row \in Row : Call(s, <<row>>, FALSE)
       \/ \E first, second \in Row : Call(s, <<first, second>>, TRUE)
  \/ \E e, r \in EntryId : Reverse(e, r)
  \/ Seed

Spec == Init /\ [][Next]_vars
FairSpec == Spec /\ \A s \in Session : WF_vars(Work(s))

-----------------------------------------------------------------------------
TypeOK ==
  /\ seeded \in BOOLEAN
  /\ je \in [EntryId -> Entry \cup {NoValue}]
  /\ display \in [Account -> [day : Day, amount : Amount] \cup {NoValue}]
  /\ setRows \subseteq EntryId
  /\ refusals \in 0..MaxCalls /\ raised \in 0..MaxCalls /\ calls \in 0..MaxCalls
  /\ \A s \in Session :
       /\ session[s].pc \in {"idle", "check", "write"}
       /\ session[s].batch \in BOOLEAN
       /\ session[s].rows \in Seq(Row)
       /\ session[s].written \in Seq([entry : EntryId, row : Row])

(* What the duplicate check is for: an account has at most one opening     *)
(* entry in force for a day.                                               *)
OneActive == \A a \in Account, d \in Day : Cardinality(InForce(a, d)) <= 1

(* What is left of it when calls overlap: each caller can be wrong once,   *)
(* so there are never more of them than there are callers, and one for a   *)
(* caller who is alone.                                                    *)
OneActivePerCaller ==
  \A a \in Account, d \in Day : Cardinality(InForce(a, d)) <= Cardinality(Session)

(* The display fields of an account are those of an opening entry of the   *)
(* account, and are set once it has one: a batch that failed half-way      *)
(* leaves no trace of its rows in them.                                    *)
DisplayTruthful ==
  \A a \in Account :
    LET openings == {[day |-> je[e].day, amount |-> je[e].amount] :
                       e \in {o \in Openings : je[o].account = a}}
    IN  IF openings = {} THEN display[a] = NoValue ELSE display[a] \in openings

(* The audit log names exactly the opening entries there are.              *)
SetRowsMatch == setRows = Openings

(* A batch that fails in the middle leaves neither: entries, display       *)
(* fields and audit rows go together, whoever is killed or rolled back.    *)
RecordsAgree == DisplayTruthful /\ SetRowsMatch

(* Every refusal a caller is told of is in the audit log.                  *)
RefusalsAudited == refusals = raised

(* A call ends, also when two batches want each other's accounts.          *)
CallsEnd == \A s \in Session : session[s].pc # "idle" ~> session[s].pc = "idle"
=============================================================================
