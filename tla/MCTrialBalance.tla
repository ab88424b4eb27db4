--------------------------- MODULE MCTrialBalance ---------------------------
(* Instances of TrialBalance for TLC. *)
EXTENDS TrialBalance

CONSTANTS assets, bank, checking, salary, pay, spend, slip

Debit(a, n) == [account |-> a, debit |-> n, credit |-> 0]
Credit(a, n) == [account |-> a, debit |-> 0, credit |-> n]

\* Pay arrives on day 1 and is spent on day 2, some of it into the bank; a slip is a
\* draft that does not balance.
Vouchers ==
  [e \in {pay, spend, slip} |->
     CASE e = pay   -> [date |-> 1, lines |-> {Debit(checking, 2), Credit(salary, 2)}]
       [] e = spend -> [date |-> 2, lines |-> {Credit(checking, 2), Debit(salary, 1), Debit(bank, 1)}]
       [] e = slip  -> [date |-> 1, lines |-> {Debit(checking, 1)}]]

ChartOf(all, under) ==
  [exists |-> all,
   parent |-> [a \in Account |-> IF a \in DOMAIN under THEN under[a] ELSE NoAccount],
   type |-> [a \in Account |-> IF a = salary THEN "revenue" ELSE "asset"]]

\* A chain of three, and a flat chart with an account yet to be added.
TwoCharts ==
  {ChartOf(Account, [a \in {bank, checking} |-> IF a = bank THEN assets ELSE bank]),
   ChartOf(Account \ {bank}, [a \in {} |-> NoAccount])}

AllTypes == {Type}
AnyTypes == (SUBSET Type) \ {{}}

\* Bound: a report that is finished ends the behaviour.
Unfinished == report.pc # "done"
=============================================================================
