---------------------------- MODULE TrialBalance ----------------------------
(***************************************************************************)
(* compute_trial_balance reads the books in two or three queries that are  *)
(* not one snapshot: the sums up to as_of, the sums up to prior_as_of when *)
(* a comparison is asked for, and then the accounts.  Other sessions post  *)
(* entries and edit the chart in between.  From what it read it decides    *)
(* which accounts to show, rolls them up along the hierarchy and says      *)
(* whether the books are in balance.                                       *)
(*                                                                         *)
(* That a posted entry balances is Journal's PostedBalanced; the entries   *)
(* there may be are given here with their dates and lines.  The order of   *)
(* the rows is left out.                                                   *)
(***************************************************************************)
EXTENDS Hierarchy, Functions

CONSTANTS
  Type,
  DebitType,   \* the types TYPE_TO_NORMAL_BALANCE makes debit-normal
  Date,        \* posting dates
  Voucher,     \* for every entry key: [date, lines], each line [account, debit, credit]
  Charts,      \* the charts to begin with: [exists, parent, type]
  NoDate,      \* no prior_as_of
  Filters,     \* bound: the sets of types that are asked for; Type is no filter
  MaxEdits     \* bound: edits of the chart in a behaviour

Entry == DOMAIN Voucher

ASSUME TrialBalanceAssumption ==
  /\ DebitType \subseteq Type /\ Date \subseteq Nat
  /\ Filters \subseteq (SUBSET Type) \ {{}}
  /\ NoAccount \notin Account /\ NoDate \notin Date /\ MaxEdits \in Nat
  /\ IsFiniteSet(Account) /\ IsFiniteSet(Entry)
  /\ \A e \in Entry :
       /\ Voucher[e].date \in Date /\ IsFiniteSet(Voucher[e].lines)
       /\ \A l \in Voucher[e].lines :
            l.account \in Account /\ l.debit \in Nat /\ l.credit \in Nat /\ l.debit + l.credit > 0
  /\ \A c \in Charts :
       /\ c \in [exists : SUBSET Account, parent : [Account -> Account \cup {NoAccount}],
                 type : [Account -> Type]]
       /\ \A a \in c.exists : c.parent[a] \in c.exists \cup {NoAccount}

VARIABLES
  status,  \* "absent", "draft" or "posted", for every entry
  chart,   \* the account rows: which exist, their parents and types
  edits,   \* how often the chart was edited
  report,  \* the request being computed: parameters and what was read so far
  truth    \* the entries that were posted at each of its reads

vars == <<status, chart, edits, report, truth>>

Posted == {e \in Entry : status[e] = "posted"}
NoSums == [a \in Account |-> [debits |-> 0, credits |-> 0]]

Init ==
  /\ status = [e \in Entry |-> "absent"]
  /\ chart \in Charts
  /\ edits = 0
  /\ report = [pc |-> "idle", asOf |-> NoDate, prior |-> NoDate, types |-> Type, zero |-> FALSE,
               now |-> NoSums, before |-> NoSums, known |-> {}, chart |-> chart]
  /\ truth = [now |-> {}, before |-> {}]

-----------------------------------------------------------------------------
(* The books, written by other sessions.                                   *)

\* A draft and its lines; a foreign key holds every line to its account.
Draft(e) ==
  /\ status[e] = "absent"
  /\ \A l \in Voucher[e].lines : l.account \in chart.exists
  /\ status' = [status EXCEPT ![e] = "draft"]
  /\ UNCHANGED <<chart, edits, report, truth>>

Debits(lines) == SumFunction([l \in lines |-> l.debit])
Credits(lines) == SumFunction([l \in lines |-> l.credit])

Post(e) ==
  /\ status[e] = "draft"
  /\ Debits(Voucher[e].lines) = Credits(Voucher[e].lines)
  /\ status' = [status EXCEPT ![e] = "posted"]
  /\ UNCHANGED <<chart, edits, report, truth>>

Edit(c) ==
  /\ edits < MaxEdits
  /\ edits' = edits + 1
  /\ chart' = c
  /\ UNCHANGED <<status, report, truth>>

\* The accounts above a, as far as a chain of parents goes.
Above(par, a) == {Ancestor(par, a, k) : k \in 1..Cardinality(Account)} \ {NoAccount}

AddRow(a, p, t) ==
  /\ a \notin chart.exists
  /\ p \in chart.exists \cup {NoAccount}
  /\ CleanHierarchy(chart.parent, p)
  /\ Edit([chart EXCEPT !.exists = @ \cup {a}, !.parent[a] = p, !.type[a] = t])

\* The admin's form: parent_account, and type together with its normal_balance.  The
\* type of the parent is not looked at.
EditRow(a, p, t) ==
  /\ a \in chart.exists
  /\ p \in chart.exists \cup {NoAccount}
  /\ CleanHierarchy(chart.parent, p)
  /\ Edit([chart EXCEPT !.parent[a] = p, !.type[a] = t])

\* PROTECT: an account with lines or children stays.
RemoveRow(a) ==
  /\ a \in chart.exists
  /\ \A e \in Entry : status[e] # "absent" => \A l \in Voucher[e].lines : l.account # a
  /\ \A c \in chart.exists : chart.parent[c] # a
  /\ Edit([chart EXCEPT !.exists = @ \ {a}, !.parent[a] = NoAccount])

-----------------------------------------------------------------------------
(* The report's reads.                                                     *)

LinesOf(entries) == UNION {{e} \X Voucher[e].lines : e \in entries}
UpTo(entries, date) == {e \in entries : Voucher[e].date <= date}

\* Fault: the status of the entry is not looked at.
LinesReadDrafts(date, types) ==
  {x \in LinesOf(UpTo({e \in Entry : status[e] # "absent"}, date)) : chart.type[x[2].account] \in types}

\* The rows _aggregate_balances sums up: posted, up to the date, of these types.
LinesRead(date, types) ==
  {x \in LinesOf(UpTo(Posted, date)) : chart.type[x[2].account] \in types}

\* Fault: an account without lines has no sums at all.
AggregateSparse(date, types) ==
  [a \in {x[2].account : x \in LinesRead(date, types)} |->
     LET mine == {x \in LinesRead(date, types) : x[2].account = a}
     IN  [debits |-> SumFunction([x \in mine |-> x[2].debit]),
          credits |-> SumFunction([x \in mine |-> x[2].credit])]]

AggregateBalances(date, types) ==
  [a \in Account |->
     LET mine == {x \in LinesRead(date, types) : x[2].account = a}
     IN  [debits |-> SumFunction([x \in mine |-> x[2].debit]),
          credits |-> SumFunction([x \in mine |-> x[2].credit])]]

\* A request arrives and its first query runs.
ReadNow(asOf, prior, types, zero) ==
  /\ report.pc = "idle"
  /\ report' = [report EXCEPT !.pc = IF prior = NoDate THEN "accounts" ELSE "prior",
                              !.asOf = asOf, !.prior = prior, !.types = types, !.zero = zero,
                              !.now = AggregateBalances(asOf, types)]
  /\ truth' = [now |-> Posted, before |-> Posted]
  /\ UNCHANGED <<status, chart, edits>>

ReadPrior ==
  /\ report.pc = "prior"
  /\ report' = [report EXCEPT !.pc = "accounts",
                              !.before = AggregateBalances(report.prior, report.types)]
  /\ truth' = [truth EXCEPT !.before = Posted]
  /\ UNCHANGED <<status, chart, edits>>

\* The accounts; what follows is computed from what was read.
ReadAccounts ==
  /\ report.pc = "accounts"
  /\ report' = [report EXCEPT !.pc = "done", !.chart = chart,
                              !.known = {a \in chart.exists : chart.type[a] \in report.types}]
  /\ UNCHANGED <<status, chart, edits, truth>>

Next ==
  \/ \E e \in Entry : Draft(e) \/ Post(e)
  \/ \E a \in Account, p \in Account \cup {NoAccount}, t \in Type :
       AddRow(a, p, t) \/ EditRow(a, p, t)
  \/ \E a \in Account : RemoveRow(a)
  \/ \E asOf \in Date, prior \in Date \cup {NoDate}, types \in Filters,
        zero \in BOOLEAN : ReadNow(asOf, prior, types, zero)
  \/ ReadPrior
  \/ ReadAccounts

Spec == Init /\ [][Next]_vars

-----------------------------------------------------------------------------
(* The report a finished request renders.                                  *)

\* Parents as the report knows them: an account it did not read ends the chain.
Parent == [a \in Account |-> IF a \in report.known /\ report.chart.parent[a] \in report.known
                             THEN report.chart.parent[a] ELSE NoAccount]

\* Fault: an account that nets to zero is taken for one without activity.
ActiveByBalance == {a \in report.known : report.now[a].debits # report.now[a].credits}

Active == {a \in report.known : report.now[a].debits # 0 \/ report.now[a].credits # 0}

\* Fault: parents are pulled in, and not their parents.
VisibleParents ==
  IF report.zero THEN report.known ELSE Active \cup ({Parent[a] : a \in Active} \ {NoAccount})

\* _visible_account_pks: the active accounts and everything above them.
Visible ==
  LET par == Parent
  IN  IF report.zero THEN report.known ELSE Active \cup UNION {Above(par, a) : a \in Active}

\* Fault: the side an account normally has is not looked at.
OwnUnsigned(sums, a) == sums[a].debits - sums[a].credits

\* _row_balance: positive on the side the account is supposed to be on.
Own(sums, a) ==
  IF report.chart.type[a] \in DebitType THEN sums[a].debits - sums[a].credits
                                        ELSE sums[a].credits - sums[a].debits

\* _assemble_tree: a row hangs under its parent's row; the rows without one are the
\* roots, and rows that no root reaches are on no page.
RowParent ==
  LET shown == Visible  par == Parent
  IN  [a \in shown |-> IF par[a] \in shown THEN par[a] ELSE NoAccount]
Roots == LET par == RowParent IN {a \in DOMAIN par : par[a] = NoAccount}
Beneath(a) == LET par == RowParent IN {b \in DOMAIN par : b = a \/ a \in Above(par, b)}
Rows == UNION {Beneath(a) : a \in Roots}
Rollup(sums, a) == SumFunction([b \in Beneath(a) |-> Own(sums, b)])

TotalDebits == SumFunction([a \in Rows |-> report.now[a].debits])
TotalCredits == SumFunction([a \in Rows |-> report.now[a].credits])
IsBalanced == TotalDebits = TotalCredits

-----------------------------------------------------------------------------
TypeOK ==
  /\ status \in [Entry -> {"absent", "draft", "posted"}]
  /\ chart \in [exists : SUBSET Account, parent : [Account -> Account \cup {NoAccount}],
                type : [Account -> Type]]
  /\ edits \in 0..MaxEdits
  /\ report.pc \in {"idle", "prior", "accounts", "done"}
  /\ report.now \in [Account -> [debits : Nat, credits : Nat]]
  /\ report.before \in [Account -> [debits : Nat, credits : Nat]]
  /\ report.known \subseteq report.chart.exists
  /\ truth \in [now : SUBSET Entry, before : SUBSET Entry]

\* A finished report about all the types, over a chart without a cycle.
Whole ==
  /\ report.pc = "done" /\ report.types = Type
  /\ \A a \in report.known : a \notin Above(report.chart.parent, a)

(* Whatever is posted, added, moved and removed while it is computed, a    *)
(* report about all types is in balance, and it has every posted line that *)
(* was there when it was begun: no account that carries a line can be      *)
(* missing from the accounts it reads later.                               *)
TotalsTieOut ==
  Whole => LET lines == LinesOf(UpTo(truth.now, report.asOf))
           IN  /\ IsBalanced
               /\ TotalDebits = SumFunction([x \in lines |-> x[2].debit])

(* Every account with activity anywhere beneath it is on the report, and   *)
(* its roll-up is what all the accounts beneath it in the chart add up to, *)
(* shown or not: moving accounts while the sums are read loses nothing.    *)
RollupsComplete ==
  LET rows == Rows IN Whole =>
    \A a \in report.known :
      LET subtree == {b \in report.known : b = a \/ a \in Above(report.chart.parent, b)}
          moved == {b \in subtree : report.now[b].debits # 0 \/ report.now[b].credits # 0}
      IN  /\ moved # {} => a \in rows
          /\ a \in rows =>
               Rollup(report.now, a) = SumFunction([b \in subtree |-> Own(report.now, b)])

(* The accounting equation read off the top of the report: the roots that  *)
(* are debit-normal add up to the same as those that are credit-normal,    *)
(* when no account hangs under one of the other side.                      *)
AccountingEquation ==
  LET of(types) == {a \in Roots : report.chart.type[a] \in types}
      tops(types) == SumFunction([a \in of(types) |-> Rollup(report.now, a)])
      sameSide == \A a \in Rows : RowParent[a] # NoAccount =>
        (report.chart.type[a] \in DebitType <=> report.chart.type[RowParent[a]] \in DebitType)
  IN  Whole /\ sameSide => tops(DebitType) = tops(Type \ DebitType)

(* The comparative column: an account that had lines up to prior_as_of is  *)
(* on the report, and the column is in balance -- if nothing was posted    *)
(* with an earlier date between the two queries, and prior_as_of is not    *)
(* after as_of.                                                            *)
PriorTiesOut ==
  LET priorLines == LinesOf(UpTo(truth.before, report.prior))
      rows == Rows
      debitRows == {a \in rows : report.chart.type[a] \in DebitType}
      column(accounts) == SumFunction([a \in accounts |-> Own(report.before, a)])
  IN  /\ Whole /\ report.prior \in Date /\ report.prior <= report.asOf
      /\ UpTo(truth.before, report.prior) = UpTo(truth.now, report.prior)
      => /\ \A x \in priorLines : x[2].account \in rows
         /\ column(debitRows) = column(rows \ debitRows)

(* Both columns tie out.                                                   *)
ColumnsTieOut == TotalsTieOut /\ PriorTiesOut

(* What the docstring of TrialBalance says: as long as only post_entry     *)
(* posts, is_balanced is never False.                                      *)
BalancedUnlessBypassed == report.pc = "done" => IsBalanced

(* What a comment in _sort_rows says: children are of their parent's type. *)
ChildrenShareType ==
  report.pc = "done" =>
    \A a \in Rows : RowParent[a] # NoAccount => report.chart.type[a] = report.chart.type[RowParent[a]]
=============================================================================
