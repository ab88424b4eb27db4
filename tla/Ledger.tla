------------------------------- MODULE Ledger -------------------------------
(***************************************************************************)
(* What the journal promises to whoever reads the books: an append-only    *)
(* ledger.  The only thing that ever happens to it is that an entry is     *)
(* added whole: at least two lines, debits equal to credits, and, when it  *)
(* reverses an earlier entry, the opposite of that entry, which is no      *)
(* reversal and has no other.  There are no drafts here, no accounts that  *)
(* open and close and no way to edit; Journal implements this.             *)
(***************************************************************************)
EXTENDS Naturals, FiniteSets, Functions

CONSTANTS EntryId, LineId, NoEntry, NoLine

VARIABLES
  book,     \* the contents of every posted entry: a function on their keys
  reverses  \* the original of an entry that is a reversal, NoEntry for others

vars == <<book, reverses>>

Lines(contents) == {l \in LineId : contents[l] # NoLine}

Sound(contents) ==
  /\ Cardinality(Lines(contents)) >= 2
  /\ FoldFunction(+, 0, [l \in Lines(contents) |-> contents[l].debit])
       = FoldFunction(+, 0, [l \in Lines(contents) |-> contents[l].credit])

Swapped(a, b) == a.account = b.account /\ a.debit = b.credit /\ a.credit = b.debit

Opposite(c, d) ==
  \E g \in Bijection(Lines(c), Lines(d)) : \A l \in Lines(c) : Swapped(c[l], d[g[l]])

Init ==
  /\ DOMAIN book = {}
  /\ DOMAIN reverses = {}

\* The entry's contents are the implementation's to choose, so the step says
\* what is true of the new ledger and does not compute it.
Enter(e) ==
  /\ e \notin DOMAIN book
  /\ DOMAIN book' = DOMAIN book \cup {e}
  /\ DOMAIN reverses' = DOMAIN book \cup {e}
  /\ \A old \in DOMAIN book : book'[old] = book[old] /\ reverses'[old] = reverses[old]
  /\ Sound(book'[e])
  /\ \/ reverses'[e] = NoEntry
     \/ \E o \in DOMAIN book :
          /\ reverses'[e] = o
          /\ reverses[o] = NoEntry
          /\ \A other \in DOMAIN book : reverses[other] # o
          /\ Opposite(book'[e], book[o])

Next == \E e \in EntryId : Enter(e)

Spec == Init /\ [][Next]_vars
=============================================================================
