-------------------------- MODULE HierarchyProofs --------------------------
(***************************************************************************)
(* The chart of accounts and the trial balance, which roll up along one    *)
(* hierarchy, proved for any numbers of accounts, any chart, any edits,    *)
(* any entries and amounts.                                                *)
(*                                                                         *)
(* First induction and walks up a chain of parents, then ChartOfAccounts:  *)
(* references and resets, the depth limit, deepest first.  Then sums, and  *)
(* with them TrialBalance: forests, the lines of entries, the invariant of *)
(* the books and of the request that reads them, and its report.           *)
(***************************************************************************)
EXTENDS ChartOfAccounts, TrialBalance, FiniteSetTheorems, NaturalsInduction,
        WellFoundedInduction, TLAPS

-----------------------------------------------------------------------------
(* Induction, in a form that needs no operator as a parameter.             *)

(* A set of numbers that is not empty has a least element.                 *)
LEMMA Least ==
  ASSUME NEW S, S \subseteq Nat, S # {}
  PROVE  \E x \in S : \A y \in S : x <= y
<1>1. PICK x \in S : \A y \in S : <<y, x>> \notin OpToRel(<, Nat)
  BY WFMin, NatLessThanWellFounded, Zenon
<1>2. \A y \in S : ~(y < x)
  BY <1>1, Zenon DEF OpToRel
<1>3. \A y \in S : x \in Nat /\ y \in Nat
  OBVIOUS
<1> QED
  BY <1>2, <1>3

(* Induction on sets of numbers: one that has 0 and with a number the next *)
(* has them all.                                                           *)
LEMMA AllNumbers ==
  ASSUME NEW S, S \subseteq Nat, 0 \in S, \A n \in S : n + 1 \in S
  PROVE  \A n \in Nat : n \in S
<1> DEFINE bad == Nat \ S
<1>1. ASSUME bad # {} PROVE FALSE
  <2>1. PICK x \in bad : \A y \in bad : x <= y
    BY <1>1, Least
  <2>2. x \in Nat /\ x # 0
    BY <2>1
  <2>3. x - 1 \in Nat /\ ~(x <= x - 1)
    BY <2>2
  <2>4. x - 1 \in S
    BY <2>1, <2>3
  <2>5. (x - 1) + 1 = x
    BY <2>2
  <2> QED
    BY <2>1, <2>4, <2>5
<1> QED
  BY <1>1

(* Induction on finite sets: a collection that has a set when it has what  *)
(* is left of the set without any one element has all of them.             *)
LEMMA AllSubsets ==
  ASSUME NEW S, IsFiniteSet(S), NEW P, \A t \in SUBSET S : (\A x \in t : t \ {x} \in P) => t \in P
  PROVE  \A t \in SUBSET S : t \in P
<1> DEFINE bad == (SUBSET S) \ P
           sizes == {Cardinality(t) : t \in bad}
<1>1. ASSUME bad # {} PROVE FALSE
  <2>1. \A t \in SUBSET S : IsFiniteSet(t) /\ Cardinality(t) \in Nat
    BY FS_Subset, FS_CardinalityType
  <2>2. sizes \subseteq Nat /\ sizes # {}
    BY <1>1, <2>1
  <2>3. PICK n \in sizes : \A m \in sizes : n <= m
    BY <2>2, Least
  <2>4. PICK t \in bad : n = Cardinality(t)
    BY <2>3
  <2>5. PICK x \in t : t \ {x} \notin P
    BY <2>4
  <2>6. t \ {x} \in bad
    BY <2>4, <2>5
  <2>7. Cardinality(t \ {x}) = Cardinality(t) - 1
    BY <2>1, <2>4, <2>5, FS_RemoveElement
  <2>8. n <= Cardinality(t \ {x})
    BY <2>3, <2>6
  <2> QED
    BY <2>1, <2>4, <2>7, <2>8
<1> QED
  BY <1>1

-----------------------------------------------------------------------------
(* Walks up the chart.  Ancestor is a recursive function; that it goes one *)
(* parent up at a time is proved from the existence of that function.  A   *)
(* statement about every length of a walk is proved by looking at the      *)
(* least one it fails for.                                                 *)

Up(par, x) == IF x = NoAccount THEN NoAccount ELSE par[x]
IsWalk(f, par, a, n) ==
  f = [k \in 0..n |-> IF k = 0 THEN a ELSE IF f[k - 1] = NoAccount THEN NoAccount ELSE par[f[k - 1]]]

(* What a walk is, step by step.                                           *)
LEMMA WalkIs ==
  ASSUME NEW f, NEW par, NEW a, NEW n \in Nat
  PROVE  IsWalk(f, par, a, n) <=> /\ f = [k \in 0..n |-> f[k]] /\ f[0] = a
                                  /\ \A k \in 1..n : f[k] = Up(par, f[k - 1])
<1> DEFINE step(k) == IF k = 0 THEN a
                      ELSE IF f[k - 1] = NoAccount THEN NoAccount ELSE par[f[k - 1]]
<1>0. /\ step(0) = a /\ \A k \in 1..n : step(k) = Up(par, f[k - 1])
      /\ \A k \in 0..n : k = 0 \/ k \in 1..n
      /\ 0 \in 0..n /\ \A k \in 1..n : k \in 0..n
      /\ IsWalk(f, par, a, n) <=> f = [k \in 0..n |-> step(k)]
  <2>1. \A k \in 1..n : step(k) = Up(par, f[k - 1])
    BY DEF Up
  <2> QED
    BY <2>1 DEF IsWalk
<1> HIDE DEF step
<1>1. ASSUME IsWalk(f, par, a, n)
      PROVE  f = [k \in 0..n |-> f[k]] /\ f[0] = a /\ \A k \in 1..n : f[k] = Up(par, f[k - 1])
  <2>1. f = [k \in 0..n |-> step(k)]
    BY <1>0, <1>1
  <2>2. f = [k \in 0..n |-> f[k]] /\ \A k \in 0..n : f[k] = step(k)
    BY <2>1
  <2> QED
    BY <1>0, <2>2
<1>2. ASSUME f = [k \in 0..n |-> f[k]], f[0] = a, \A k \in 1..n : f[k] = Up(par, f[k - 1])
      PROVE  IsWalk(f, par, a, n)
  <2>1. \A k \in 0..n : f[k] = step(k)
    BY <1>0, <1>2
  <2>2. f = [k \in 0..n |-> step(k)]
    BY <1>2, <2>1
  <2> QED
    BY <1>0, <2>2
<1> QED
  BY <1>1, <1>2

(* There is a walk of every length.                                        *)
LEMMA WalkExists ==
  ASSUME NEW par, NEW a
  PROVE  \A n \in Nat : \E f : IsWalk(f, par, a, n)
<1> DEFINE S == {n \in Nat : \E f : IsWalk(f, par, a, n)}
<1>1. 0 \in S
  <2> DEFINE f == [k \in 0..0 |-> a]
  <2>1. f = [k \in 0..0 |-> f[k]] /\ f[0] = a /\ \A k \in 1..0 : f[k] = Up(par, f[k - 1])
    OBVIOUS
  <2> HIDE DEF f
  <2> QED
    BY <2>1, WalkIs
<1>2. ASSUME NEW n \in S PROVE n + 1 \in S
  <2>1. PICK g : IsWalk(g, par, a, n)
    BY <1>2
  <2>2. n \in Nat /\ g[0] = a /\ \A k \in 1..n : g[k] = Up(par, g[k - 1])
    BY <2>1, WalkIs
  <2> DEFINE f == [k \in 0..(n + 1) |-> IF k = n + 1 THEN Up(par, g[n]) ELSE g[k]]
  <2>3. f = [k \in 0..(n + 1) |-> f[k]] /\ f[0] = a
    BY <2>2
  <2>4. ASSUME NEW k \in 1..(n + 1) PROVE f[k] = Up(par, f[k - 1])
    <3>1. k - 1 \in 0..n /\ k \in 0..(n + 1) /\ k - 1 \in 0..(n + 1) /\ k - 1 # n + 1
      BY <2>2
    <3>2. f[k - 1] = g[k - 1]
      BY <3>1
    <3>3. CASE k = n + 1
      BY <2>2, <3>1, <3>2, <3>3
    <3>4. CASE k \in 1..n
      BY <2>2, <3>1, <3>2, <3>4
    <3> QED
      BY <2>2, <3>3, <3>4
  <2> HIDE DEF f
  <2>5. IsWalk(f, par, a, n + 1)
    <3>1. n + 1 \in Nat
      BY <2>2
    <3> QED
      BY <2>3, <2>4, <3>1, WalkIs
  <2> QED
    BY <2>2, <2>5
<1> HIDE DEF S
<1>3. S \subseteq Nat
  BY DEF S
<1>4. \A n \in Nat : n \in S
  BY <1>1, <1>2, <1>3, AllNumbers
<1> QED
  BY <1>4 DEF S

(* Walks from one account go the same way.                                 *)
LEMMA WalksAgree ==
  ASSUME NEW par, NEW a, NEW m \in Nat, NEW n \in Nat, NEW f, NEW g,
         IsWalk(f, par, a, m), IsWalk(g, par, a, n)
  PROVE  \A k \in Nat : k <= m /\ k <= n => f[k] = g[k]
<1> DEFINE S == {k \in Nat : k <= m /\ k <= n => f[k] = g[k]}
<1>1. /\ f[0] = a /\ g[0] = a
      /\ \A k \in 1..m : f[k] = Up(par, f[k - 1])
      /\ \A k \in 1..n : g[k] = Up(par, g[k - 1])
  BY WalkIs
<1>2. 0 \in S
  BY <1>1
<1>3. ASSUME NEW k \in S PROVE k + 1 \in S
  <2>1. k \in Nat /\ (k + 1 <= m => k + 1 \in 1..m) /\ (k + 1 <= n => k + 1 \in 1..n)
        /\ (k + 1) - 1 = k
    OBVIOUS
  <2>2. ASSUME k + 1 <= m, k + 1 <= n PROVE f[k + 1] = g[k + 1]
    <3>1. f[k] = g[k]
      BY <1>3, <2>1, <2>2
    <3>2. f[k + 1] = Up(par, f[k])
      BY <1>1, <2>1, <2>2
    <3>3. g[k + 1] = Up(par, g[k])
      BY <1>1, <2>1, <2>2
    <3> QED
      BY <3>1, <3>2, <3>3
  <2> QED
    BY <2>1, <2>2
<1> HIDE DEF S
<1>4. S \subseteq Nat
  BY DEF S
<1>5. \A k \in Nat : k \in S
  BY <1>2, <1>3, <1>4, AllNumbers
<1> QED
  BY <1>5 DEF S

(* Ancestor goes one parent up at a time.                                  *)
LEMMA AncestorIs ==
  ASSUME NEW par, NEW a
  PROVE  /\ Ancestor(par, a, 0) = a
         /\ \A n \in Nat : Ancestor(par, a, n + 1) = Up(par, Ancestor(par, a, n))
<1> DEFINE walk(n) == CHOOSE f : IsWalk(f, par, a, n)
<1>1. \A n \in Nat : IsWalk(walk(n), par, a, n)
  BY WalkExists
<1>2. \A n \in Nat : Ancestor(par, a, n) = walk(n)[n]
  BY DEF Ancestor, IsWalk
<1> HIDE DEF walk
<1>3. walk(0)[0] = a
  BY <1>1, WalkIs
<1>4. ASSUME NEW n \in Nat PROVE walk(n + 1)[n + 1] = Up(par, walk(n)[n])
  <2>1. n + 1 \in 1..(n + 1) /\ (n + 1) - 1 = n /\ n + 1 \in Nat /\ n <= n + 1 /\ n <= n
    OBVIOUS
  <2>2. walk(n + 1)[n + 1] = Up(par, walk(n + 1)[n])
    <3>1. \A k \in 1..(n + 1) : walk(n + 1)[k] = Up(par, walk(n + 1)[k - 1])
      BY <1>1, <2>1, WalkIs
    <3> QED
      BY <2>1, <3>1
  <2>3. walk(n + 1)[n] = walk(n)[n]
    BY <1>1, <2>1, WalksAgree
  <2> QED
    BY <2>2, <2>3
<1> QED
  BY <1>2, <1>3, <1>4

(* A walk that has left the chart does not come back.                      *)
LEMMA WalkEnds ==
  ASSUME NEW par, NEW a, NEW m \in Nat, Ancestor(par, a, m) = NoAccount
  PROVE  \A n \in Nat : m <= n => Ancestor(par, a, n) = NoAccount
<1> DEFINE S == {k \in Nat : Ancestor(par, a, m + k) = NoAccount}
<1>1. 0 \in S
  <2>1. m + 0 = m
    OBVIOUS
  <2> QED
    BY <2>1
<1>2. ASSUME NEW k \in S PROVE k + 1 \in S
  <2>1. k \in Nat /\ k + 1 \in Nat /\ m + k \in Nat /\ m + (k + 1) = (m + k) + 1
    OBVIOUS
  <2>2. Ancestor(par, a, (m + k) + 1) = Up(par, Ancestor(par, a, m + k))
    <3>1. \A n \in Nat : Ancestor(par, a, n + 1) = Up(par, Ancestor(par, a, n))
      BY AncestorIs
    <3> HIDE DEF S
    <3> QED
      BY <2>1, <3>1
  <2>3. Ancestor(par, a, m + k) = NoAccount
    BY <1>2
  <2>4. Ancestor(par, a, m + (k + 1)) = NoAccount
    BY <2>1, <2>2, <2>3 DEF Up
  <2> QED
    BY <2>1, <2>4
<1> HIDE DEF S
<1>3. S \subseteq Nat
  BY DEF S
<1>4. \A k \in Nat : k \in S
  BY <1>1, <1>2, <1>3, AllNumbers
<1>5. ASSUME NEW n \in Nat, m <= n PROVE Ancestor(par, a, n) = NoAccount
  <2>1. n - m \in Nat /\ m + (n - m) = n
    BY <1>5
  <2>2. Ancestor(par, a, m + (n - m)) = NoAccount
    BY <1>4, <2>1 DEF S
  <2> QED
    BY <2>1, <2>2
<1> QED
  BY <1>5

(* A walk goes on from where it has come to.                               *)
LEMMA WalkGoesOn ==
  ASSUME NEW par, NEW a, NEW m \in Nat
  PROVE  \A n \in Nat : Ancestor(par, a, m + n) = Ancestor(par, Ancestor(par, a, m), n)
<1> DEFINE b == Ancestor(par, a, m)
           S == {n \in Nat : Ancestor(par, a, m + n) = Ancestor(par, b, n)}
<1>0. \A k \in Nat : Ancestor(par, b, k + 1) = Up(par, Ancestor(par, b, k))
  <2> HIDE DEF b
  <2> QED
    BY AncestorIs, Zenon
<1>1. 0 \in S
  <2>1. m + 0 = m /\ Ancestor(par, b, 0) = b
    BY AncestorIs
  <2> QED
    BY <2>1
<1>2. ASSUME NEW n \in S PROVE n + 1 \in S
  <2>1. n \in Nat /\ n + 1 \in Nat /\ m + n \in Nat /\ m + (n + 1) = (m + n) + 1
    OBVIOUS
  <2>2. Ancestor(par, a, (m + n) + 1) = Up(par, Ancestor(par, a, m + n))
    BY <2>1, AncestorIs
  <2>3. Ancestor(par, b, n + 1) = Up(par, Ancestor(par, b, n))
    BY <2>1, <1>0, Zenon
  <2>4. Ancestor(par, a, m + n) = Ancestor(par, b, n)
    BY <1>2
  <2>5. Ancestor(par, a, m + (n + 1)) = Ancestor(par, b, n + 1)
    BY <2>1, <2>2, <2>3, <2>4
  <2> QED
    BY <2>1, <2>5
<1> HIDE DEF S
<1>3. S \subseteq Nat
  BY DEF S
<1>4. \A n \in Nat : n \in S
  BY <1>1, <1>2, <1>3, AllNumbers
<1> QED
  BY <1>4 DEF S

(* In a part of the chart that is closed under parents, walks depend only  *)
(* on the parents there.                                                   *)
Closed(C, par) == NoAccount \notin C /\ \A c \in C : par[c] \in C \cup {NoAccount}

(* A walk in such a part stays in it.                                      *)
LEMMA WalksStay ==
  ASSUME NEW C, NEW par, NEW other, Closed(C, par), \A c \in C : other[c] = par[c], NEW a \in C
  PROVE  \A n \in Nat : /\ Ancestor(par, a, n) \in C \cup {NoAccount}
                        /\ Ancestor(other, a, n) = Ancestor(par, a, n)
<1> DEFINE S == {n \in Nat : /\ Ancestor(par, a, n) \in C \cup {NoAccount}
                             /\ Ancestor(other, a, n) = Ancestor(par, a, n)}
<1>1. 0 \in S
  BY AncestorIs
<1>2. ASSUME NEW n \in S PROVE n + 1 \in S
  <2>1. n \in Nat /\ n + 1 \in Nat
    OBVIOUS
  <2> DEFINE b == Ancestor(par, a, n)
  <2>2. b \in C \cup {NoAccount} /\ Ancestor(other, a, n) = b
    BY <1>2
  <2>3. Ancestor(par, a, n + 1) = Up(par, b) /\ Ancestor(other, a, n + 1) = Up(other, b)
    <3>1. Ancestor(par, a, n + 1) = Up(par, Ancestor(par, a, n))
      BY <2>1, AncestorIs
    <3>2. Ancestor(other, a, n + 1) = Up(other, Ancestor(other, a, n))
      BY <2>1, AncestorIs
    <3> QED
      BY <2>2, <3>1, <3>2
  <2>4. Up(par, b) \in C \cup {NoAccount} /\ Up(other, b) = Up(par, b)
    BY <2>2 DEF Closed, Up
  <2> QED
    BY <2>1, <2>3, <2>4
<1> HIDE DEF S
<1>3. S \subseteq Nat
  BY DEF S
<1>4. \A n \in Nat : n \in S
  BY <1>1, <1>2, <1>3, AllNumbers
<1> QED
  BY <1>4 DEF S

-----------------------------------------------------------------------------
(* The chart of accounts: references and resets.  Nothing here depends on  *)
(* what the walks return.                                                  *)

(* Beside NoDangling: an account that is not there has no parent, so that  *)
(* it comes without one when it is created; and nothing that stays refers  *)
(* to an account which reset_coa has deleted and not committed.            *)
References ==
  /\ ChartTypeOK /\ NoDangling
  /\ \A a \in Account \ exists : parent[a] = NoAccount
  /\ DOMAIN buckets \subseteq Users
  /\ \A c \in exists \ gone : parent[c] \notin gone
  /\ (draftOn \cup postedOn) \cap gone = {}

(* A depth is a number.                                                    *)
LEMMA DepthNat ==
  ASSUME NEW a
  PROVE  Depth(a) \in Nat
<1> DEFINE above(n) == Ancestor(parent, a, n)
           inTree(n) == \A m \in 1..n :
                          above(m) \in Users /\ \A k \in 0..(m - 1) : above(k) # above(m)
           walk == {n \in 0..Cardinality(Account) : inTree(n)}
<1>1. Depth(a) = Cardinality(walk)
  BY DEF Depth
<1>2. walk \subseteq 0..Cardinality(Account)
  OBVIOUS
<1> HIDE DEF walk
<1>3. Cardinality(Account) \in Nat /\ IsFiniteSet(0..Cardinality(Account))
  BY ChartAssumption, FS_CardinalityType, FS_Interval
<1> QED
  BY <1>1, <1>2, <1>3, FS_Subset, FS_CardinalityType

(* Account.clean writes nothing but the request.                           *)
LEMMA CleanKeeps ==
  ASSUME References, NEW r \in Editor, NEW a \in Account, NEW p \in Account \cup {NoAccount},
         Clean(r, a, p)
  PROVE  References'
<1>1. /\ edit' = [edit EXCEPT ![r] = [acct |-> a, up |-> p, insert |-> a \notin exists]]
      /\ overtaken' = overtaken \ {r} /\ coaRow' = "none"
      /\ UNCHANGED <<exists, parent, draftOn, postedOn, seeding, reset, buckets, gone, outrun>>
  BY DEF Clean, NoRow, accountVars, lineVars, resetVars
<1>2. [acct |-> a, up |-> p, insert |-> a \notin exists] \in CleanedRow
  BY DEF CleanedRow
<1>3. edit' \in [Editor -> CleanedRow] /\ overtaken' \subseteq Editor
  BY <1>1, <1>2 DEF References, ChartTypeOK
<1> QED
  BY <1>1, <1>3 DEF References, ChartTypeOK, NoDangling, Users

(* The blank request is of its type.                                       *)
LEMMA BlankRow == NoEdit \in CleanedRow /\ NoEdit.acct = NoAccount
BY DEF NoEdit, CleanedRow

(* A save waits for the rows a reset has deleted; the foreign key refuses  *)
(* a parent that is gone.                                                  *)
LEMMA SaveKeeps ==
  ASSUME References, NEW r \in Editor, Save(r)
  PROVE  References' /\ exists \subseteq exists'
<1> DEFINE a == edit[r].acct
           p == edit[r].up
<1>1. /\ a # NoAccount /\ a \notin gone /\ p \notin gone /\ p \in exists \cup {a, NoAccount}
      /\ exists' = exists \cup {a} /\ parent' = [parent EXCEPT ![a] = p]
      /\ edit' = [edit EXCEPT ![r] = NoEdit]
      /\ UNCHANGED <<draftOn, postedOn, seeding, reset, buckets, gone>> /\ coaRow' = "none"
  BY DEF Save, CanSave, Open, NoRow, lineVars, resetVars
<1>2. overtaken' \subseteq Editor /\ outrun' \in BOOLEAN
  BY DEF Save, ChartChanges
<1>3. edit[r] \in CleanedRow
  BY DEF References, ChartTypeOK
<1>4. a \in Account /\ p \in Account \cup {NoAccount}
  BY <1>1, <1>3 DEF CleanedRow
<1> HIDE DEF a, p
<1>5. ChartTypeOK'
  BY <1>1, <1>2, <1>4, BlankRow DEF References, ChartTypeOK
<1>6. NoDangling'
  BY <1>1, <1>4 DEF References, ChartTypeOK, NoDangling
<1>7. \A b \in Account \ exists' : parent'[b] = NoAccount
  BY <1>1, <1>4 DEF References, ChartTypeOK
<1>8. (DOMAIN buckets \subseteq Users)'
  BY <1>1 DEF References, Users
<1>9. \A c \in exists' \ gone' : parent'[c] \notin gone'
  BY <1>1, <1>4 DEF References, ChartTypeOK
<1> QED
  BY <1>1, <1>5, <1>6, <1>7, <1>8, <1>9 DEF References

(* seed_default_coa: the fixture's parents are in the fixture, and its     *)
(* numbers are free.                                                       *)
LEMMA SeedKeeps ==
  ASSUME References, NEW S \in SUBSET UserAccount, NEW f \in [S -> S \cup {NoAccount}], Seed(f)
  PROVE  References' /\ exists \subseteq exists'
<1>1. /\ exists' = exists \cup SystemAccount \cup S
      /\ parent' = [a \in Account |-> IF a \in S THEN f[a] ELSE parent[a]]
      /\ S \cap exists = {} /\ seeding' = FALSE
      /\ coaRow' = "coa_seeded" /\ UNCHANGED <<draftOn, postedOn, edit, reset, buckets, gone>>
      /\ overtaken' \subseteq Editor /\ outrun' \in BOOLEAN
  BY DEF Seed, SeedParents, ChartChanges, lineVars, resetVars
<1>2. S \subseteq Account /\ exists' \subseteq Account
  BY <1>1, ChartAssumption DEF UserAccount, References, ChartTypeOK
<1>3. parent' \in [Account -> Account \cup {NoAccount}]
  BY <1>1, <1>2 DEF References, ChartTypeOK
<1>4. ASSUME NEW a \in exists' PROVE parent'[a] \in exists' \cup {NoAccount}
  <2>1. CASE a \in S
    BY <1>1, <1>2, <2>1
  <2>2. CASE a \notin S
    BY <1>1, <1>2, <2>2 DEF References, NoDangling
  <2> QED
    BY <2>1, <2>2
<1>5. ASSUME NEW a \in Account \ exists' PROVE parent'[a] = NoAccount
  BY <1>1, <1>5 DEF References
<1>6. gone \subseteq exists /\ gone \subseteq Account /\ DOMAIN buckets \subseteq Users
  BY DEF References, ChartTypeOK, Users
<1>7. ASSUME NEW c \in exists' \ gone PROVE parent'[c] \notin gone
  <2>1. CASE c \in S
    BY <1>1, <1>2, <1>6, <2>1, ChartAssumption
  <2>2. CASE c \notin S
    BY <1>1, <1>2, <1>6, <2>2, ChartAssumption DEF References
  <2> QED
    BY <2>1, <2>2
<1>8. ChartTypeOK'
  BY <1>1, <1>2, <1>3 DEF References, ChartTypeOK
<1>9. NoDangling'
  BY <1>1, <1>4 DEF References, NoDangling
<1>10. (DOMAIN buckets \subseteq Users)'
  BY <1>1, <1>6 DEF Users
<1>11. (draftOn \cup postedOn)' \cap gone' = {}
  BY <1>1 DEF References
<1> QED
  BY <1>1, <1>5, <1>7, <1>8, <1>9, <1>10, <1>11 DEF References

(* reset_coa reads its buckets and deletes one: PROTECT lets no account go *)
(* that has lines or that one is under which stays.                        *)
LEMMA ResetStepKeeps ==
  ASSUME References, ResetRead \/ ResetDelete
  PROVE  References' /\ exists \subseteq exists'
<1>1. CASE ResetRead
  <2>1. /\ buckets' = [a \in Users |-> Depth(a)] /\ reset' = "deleting" /\ outrun' = FALSE
        /\ coaRow' = "none"
        /\ UNCHANGED <<exists, parent, draftOn, postedOn, edit, seeding, gone, overtaken>>
    BY <1>1 DEF ResetRead, NoRow, accountVars, lineVars
  <2>2. DOMAIN buckets' = Users /\ \A a \in Users : buckets'[a] = Depth(a)
    BY <2>1
  <2>3. \A a \in DOMAIN buckets' : buckets'[a] \in Nat
    BY <2>2, DepthNat
  <2>4. Users \subseteq Account /\ gone \subseteq Users
    BY DEF References, ChartTypeOK, Users
  <2>5. ChartTypeOK'
    BY <2>1, <2>2, <2>3, <2>4 DEF References, ChartTypeOK
  <2> QED
    BY <2>1, <2>2, <2>5 DEF References, NoDangling, Users
<1>2. CASE ResetDelete
  <2>1. /\ gone' = gone \cup Deepest /\ ~Protected(Deepest) /\ coaRow' = "none"
        /\ UNCHANGED <<exists, parent, draftOn, postedOn, edit, seeding, reset, buckets, overtaken, outrun>>
    BY <1>2 DEF ResetDelete, NoRow, accountVars, lineVars, chartHistory
  <2>2. Deepest \subseteq DOMAIN buckets
    BY DEF Deepest, Left
  <2>3. /\ Deepest \cap (draftOn \cup postedOn) = {}
        /\ \A c \in exists \ gone : parent[c] \notin Deepest
    BY <2>1 DEF Protected
  <2>4. ChartTypeOK'
    BY <2>1, <2>2 DEF References, ChartTypeOK
  <2>5. \A c \in exists' \ gone' : parent'[c] \notin gone'
    BY <2>1, <2>3 DEF References
  <2>6. (draftOn \cup postedOn)' \cap gone' = {}
    BY <2>1, <2>3 DEF References
  <2> QED
    BY <2>1, <2>4, <2>5, <2>6 DEF References, NoDangling, Users
<1> QED
  BY <1>1, <1>2

(* Its commit takes away what it has read, all of it and nothing else.     *)
LEMMA ResetKeeps ==
  ASSUME References, ResetCommit
  PROVE  /\ References'
         /\ coaRow' = "coa_reset" /\ exists \ exists' = DOMAIN buckets
         /\ DOMAIN buckets \cap SystemAccount = {}
         /\ \A a \in exists' : parent'[a] \in exists' \cup {NoAccount}
<1>1. /\ exists' = exists \ gone /\ coaRow' = "coa_reset" /\ reset' = "idle"
      /\ buckets' = <<>> /\ gone' = {} /\ Left = {}
      /\ parent' = [a \in Account |-> IF a \in gone THEN NoAccount ELSE parent[a]]
      /\ UNCHANGED <<draftOn, postedOn, seeding>>
      /\ overtaken' \subseteq Editor /\ outrun' \in BOOLEAN
      /\ edit' = [r \in Editor |-> IF edit[r].acct \in gone THEN [edit[r] EXCEPT !.insert = TRUE]
                                   ELSE edit[r]]
  BY DEF ResetCommit, ChartChanges, lineVars
<1>2. gone = DOMAIN buckets /\ gone \subseteq exists /\ gone \cap SystemAccount = {} /\ exists \subseteq Account
  BY <1>1 DEF References, ChartTypeOK, Left, Users, UserAccount
<1>3. edit' \in [Editor -> CleanedRow]
  <2>1. \A r \in Editor : edit[r] \in CleanedRow /\ [edit[r] EXCEPT !.insert = TRUE] \in CleanedRow
    BY DEF References, ChartTypeOK, CleanedRow
  <2> QED
    BY <1>1, <2>1
<1>4. parent' \in [Account -> Account \cup {NoAccount}]
  BY <1>1 DEF References, ChartTypeOK
<1>5. DOMAIN buckets' = {}
  BY <1>1
<1>6. ChartTypeOK'
  BY <1>1, <1>2, <1>3, <1>4, <1>5 DEF References, ChartTypeOK
<1>7. \A a \in exists' : parent'[a] = parent[a] /\ parent[a] \in exists' \cup {NoAccount}
  BY <1>1, <1>2 DEF References, NoDangling
<1>8. \A a \in Account \ exists' : parent'[a] = NoAccount
  BY <1>1, <1>2 DEF References
<1>9. (draftOn \cup postedOn)' \subseteq exists'
  BY <1>1 DEF References, NoDangling
<1>10. References'
  BY <1>1, <1>5, <1>6, <1>7, <1>8, <1>9 DEF References, NoDangling
<1> QED
  BY <1>1, <1>2, <1>7, <1>10

(* Lines come to accounts that stay, and go.                               *)
LEMMA LinesKeep ==
  ASSUME References, (\E a \in Account : DraftLine(a)) \/ PostLines \/ DropDrafts
  PROVE  References' /\ UNCHANGED <<exists, parent>>
<1>1. /\ UNCHANGED <<exists, parent, edit, seeding, reset, buckets, gone, overtaken, outrun>>
      /\ coaRow' = "none"
  BY DEF DraftLine, PostLines, DropDrafts, NoRow, accountVars, resetVars, chartHistory
<1>2. /\ draftOn' \cup postedOn' \subseteq exists /\ (draftOn' \cup postedOn') \cap gone = {}
  BY DEF DraftLine, PostLines, DropDrafts, References, NoDangling
<1>3. draftOn' \subseteq Account /\ postedOn' \subseteq Account
  BY <1>2 DEF References, ChartTypeOK
<1> QED
  BY <1>1, <1>2, <1>3 DEF References, ChartTypeOK, NoDangling, Users

(* What ends, refuses or counts leaves the tables.                         *)
LEMMA OthersKeep ==
  ASSUME References,
         (\E r \in Editor : GiveUp(r)) \/ SeedCount \/ SeedFails \/ ResetCheck \/ ResetFails
           \/ UNCHANGED chartVars
  PROVE  References' /\ UNCHANGED <<exists, parent>>
<1>1. ASSUME NEW r \in Editor, GiveUp(r) PROVE References' /\ UNCHANGED <<exists, parent>>
  BY <1>1, BlankRow
     DEF GiveUp, NoRow, accountVars, lineVars, resetVars, References, ChartTypeOK, NoDangling, Users
<1>2. CASE SeedCount \/ SeedFails
  BY <1>2 DEF SeedCount, SeedFails, NoRow, accountVars, lineVars, resetVars, chartHistory,
              References, ChartTypeOK, NoDangling, Users
<1>3. CASE ResetCheck
  BY <1>3 DEF ResetCheck, NoRow, accountVars, lineVars, chartHistory,
              References, ChartTypeOK, NoDangling, Users
<1>4. CASE ResetFails
  <2>1. /\ DOMAIN buckets' = {} /\ gone' = {} /\ outrun' = FALSE /\ reset' = "idle" /\ coaRow' = "none"
        /\ UNCHANGED <<exists, parent, draftOn, postedOn, edit, seeding, overtaken>>
    BY <1>4 DEF ResetFails, NoRow, accountVars, lineVars
  <2> QED
    BY <2>1 DEF References, ChartTypeOK, NoDangling, Users
<1>5. CASE UNCHANGED chartVars
  BY <1>5 DEF chartVars, References, ChartTypeOK, NoDangling, Users
<1> QED
  BY <1>1, <1>2, <1>3, <1>4, <1>5

(* Every step keeps references, and only a reset takes accounts away.      *)
LEMMA NextReferences ==
  ASSUME References, [ChartNext]_chartVars
  PROVE  References' /\ (ResetCommit \/ exists \subseteq exists')
<1>1. CASE EditRequests
  BY <1>1, CleanKeeps, SaveKeeps, OthersKeep DEF EditRequests, Clean, accountVars
<1>2. ASSUME NEW S \in SUBSET UserAccount, NEW f \in [S -> S \cup {NoAccount}], Seed(f)
      PROVE  References' /\ exists \subseteq exists'
  BY <1>2, SeedKeeps
<1> QED
  BY <1>1, <1>2, LinesKeep, OthersKeep, ResetStepKeeps, ResetKeeps DEF ChartNext

(* The empty chart refers to nothing.                                      *)
LEMMA InitReferences ==
  ASSUME ChartInit
  PROVE  References
<1>1. DOMAIN buckets = {}
  BY DEF ChartInit
<1> QED
  BY <1>1, ChartAssumption, BlankRow DEF ChartInit, References, ChartTypeOK, NoDangling

(* Every step of the pages and commands keeps accounts and references of   *)
(* their types.                                                            *)
THEOREM ChartTypes == ChartSpec => []ChartTypeOK
<1>1. References => ChartTypeOK
  BY DEF References
<1> QED
  BY <1>1, InitReferences, NextReferences, PTL DEF ChartSpec

(* Account.parent_account and the accounts of lines never point to an      *)
(* account that is gone, whoever posts or saves between reset_coa's check, *)
(* its reading, its deletes and its commit.                                *)
THEOREM NothingDangles == ChartSpec => []NoDangling
<1>1. References => NoDangling
  BY DEF References
<1> QED
  BY <1>1, InitReferences, NextReferences, PTL DEF ChartSpec

(* reset_coa removes all the accounts it has read and no other, no system  *)
(* account among them, leaves none under one of them, and nothing else     *)
(* removes an account.                                                     *)
THEOREM ResetIsExact == ChartSpec => ResetKeepsSystem
<1>1. ASSUME References, [ChartNext]_chartVars
      PROVE  [exists \ exists' # {} =>
                /\ coaRow' = "coa_reset"
                /\ exists \ exists' = DOMAIN buckets
                /\ DOMAIN buckets \cap SystemAccount = {}
                /\ \A a \in exists' : parent'[a] \in exists' \cup {NoAccount}]_chartVars
  BY <1>1, NextReferences, ResetKeeps
<1> QED
  BY <1>1, InitReferences, NextReferences, PTL DEF ChartSpec, ResetKeepsSystem
-----------------------------------------------------------------------------
(* The depth limit.  Account.clean walks from the new parent in the chart  *)
(* as stored.  That is enough as long as what is moved has no children:    *)
(* then every other walk stays as it was.                                  *)

ChartInv == References /\ DepthCapped

(* The chart is closed under parents.                                      *)
LEMMA ChartClosed ==
  ASSUME References
  PROVE  Closed(exists, parent) /\ MaxDepth \in Nat /\ MaxDepth - 1 \in Nat /\ 1 <= MaxDepth
         /\ (MaxDepth - 1) + 1 = MaxDepth
BY ChartAssumption DEF References, ChartTypeOK, NoDangling, Closed

(* An account that nobody is under gets a parent below the limit.          *)
LEMMA LeafSet ==
  ASSUME ChartInv, NEW a \in Account, NEW p \in exists \cup {NoAccount}, p # a,
         \A c \in exists : parent[c] # a,
         CleanHierarchy(parent, p), exists' = exists \cup {a}, parent' = [parent EXCEPT ![a] = p]
  PROVE  DepthCapped'
<1>0. parent \in [Account -> Account \cup {NoAccount}] /\ exists \subseteq Account
      /\ a # NoAccount
  BY ChartAssumption DEF ChartInv, References, ChartTypeOK
<1> DEFINE rest == exists \ {a}
<1>1. Closed(rest, parent) /\ \A c \in rest : parent'[c] = parent[c]
  BY <1>0, ChartClosed DEF ChartInv, Closed
<1>2. ASSUME NEW c \in rest, NEW n \in Nat PROVE Ancestor(parent', c, n) = Ancestor(parent, c, n)
  <2> DEFINE after == parent'
  <2>1. Closed(rest, parent) /\ \A b \in rest : after[b] = parent[b]
    BY <1>1
  <2> HIDE DEF rest, after
  <2>2. Ancestor(after, c, n) = Ancestor(parent, c, n)
    BY <2>1, WalksStay
  <2> QED
    BY <2>2 DEF after
<1>3. ASSUME NEW c \in rest PROVE Ancestor(parent', c, MaxDepth) = NoAccount
  BY <1>2, ChartClosed DEF ChartInv, DepthCapped
<1>4. Ancestor(parent', a, MaxDepth) = NoAccount
  <2>1. parent'[a] = p
    BY <1>0
  <2>2. Ancestor(parent', a, 1) = p
    <3>1. Ancestor(parent', a, 0 + 1) = Up(parent', Ancestor(parent', a, 0))
          /\ Ancestor(parent', a, 0) = a
      BY AncestorIs
    <3>2. 0 + 1 = 1
      OBVIOUS
    <3> QED
      BY <1>0, <2>1, <3>1, <3>2 DEF Up
  <2>3. MaxDepth - 1 \in Nat /\ 1 + (MaxDepth - 1) = MaxDepth
    BY ChartAssumption
  <2>4. Ancestor(parent', a, 1 + (MaxDepth - 1)) = Ancestor(parent', p, MaxDepth - 1)
    BY <2>2, <2>3, WalkGoesOn
  <2>5. Ancestor(parent, p, MaxDepth - 1) = NoAccount
    BY DEF CleanHierarchy
  <2>6. CASE p \in exists
    <3>1. p \in rest
      BY <2>6
    <3>2. Ancestor(parent', p, MaxDepth - 1) = Ancestor(parent, p, MaxDepth - 1)
      BY <1>2, <2>3, <3>1
    <3> QED
      BY <2>3, <2>4, <2>5, <3>2
  <2>7. CASE p = NoAccount
    <3>1. Ancestor(parent', p, 0) = NoAccount
      BY <2>7, AncestorIs
    <3>2. 0 <= MaxDepth - 1
      BY <2>3
    <3>3. Ancestor(parent', p, MaxDepth - 1) = NoAccount
      BY <2>3, <3>1, <3>2, WalkEnds
    <3> QED
      BY <2>3, <2>4, <3>3
  <2> QED
    BY <2>6, <2>7
<1>5. \A c \in exists' : c = a \/ c \in rest
  OBVIOUS
<1> QED
  BY <1>3, <1>4, <1>5 DEF DepthCapped

(* _validate_hierarchy: a fixture is loaded beside what there is.          *)
LEMMA SeedCapped ==
  ASSUME ChartInv, NEW S \in SUBSET UserAccount, NEW f \in [S -> S \cup {NoAccount}], Seed(f)
  PROVE  DepthCapped'
<1>0. /\ exists' = exists \cup SystemAccount \cup S
      /\ parent' = [a \in Account |-> IF a \in S THEN f[a] ELSE parent[a]]
      /\ S \cap exists = {} /\ ValidForest(S, f) /\ S \subseteq Account
      /\ S \cap SystemAccount = {}
      /\ parent \in [Account -> Account \cup {NoAccount}] /\ exists \subseteq Account
      /\ NoAccount \notin S /\ SystemAccount \subseteq Account
  BY ChartAssumption DEF Seed, SeedParents, UserAccount, ChartInv, References, ChartTypeOK
<1>1. ASSUME NEW a \in S PROVE Ancestor(parent', a, MaxDepth) = NoAccount
  <2>1. Closed(S, f) /\ \A c \in S : parent'[c] = f[c]
    BY <1>0 DEF Closed
  <2>2. Ancestor(parent', a, MaxDepth) = Ancestor(f, a, MaxDepth)
    BY <2>1, ChartClosed, WalksStay DEF ChartInv
  <2> QED
    BY <1>0, <2>2 DEF ValidForest
<1>2. ASSUME NEW a \in exists PROVE Ancestor(parent', a, MaxDepth) = NoAccount
  <2>1. Closed(exists, parent) /\ \A c \in exists : parent'[c] = parent[c]
    BY <1>0, ChartClosed DEF ChartInv
  <2>2. Ancestor(parent', a, MaxDepth) = Ancestor(parent, a, MaxDepth)
    BY <2>1, ChartClosed, WalksStay DEF ChartInv
  <2> QED
    BY <2>2 DEF ChartInv, DepthCapped
<1>3. ASSUME NEW a \in SystemAccount, a \notin exists PROVE Ancestor(parent', a, MaxDepth) = NoAccount
  <2>1. parent'[a] = NoAccount
    BY <1>0, <1>3 DEF ChartInv, References
  <2>2. Ancestor(parent', a, 1) = NoAccount
    <3>1. Ancestor(parent', a, 0 + 1) = Up(parent', Ancestor(parent', a, 0))
          /\ Ancestor(parent', a, 0) = a
      BY AncestorIs
    <3>2. 0 + 1 = 1
      OBVIOUS
    <3> QED
      BY <2>1, <3>1, <3>2 DEF Up
  <2> QED
    BY <2>2, ChartClosed, WalkEnds DEF ChartInv
<1> QED
  BY <1>0, <1>1, <1>2, <1>3 DEF DepthCapped

(* reset_coa leaves the parents of what stays.                             *)
LEMMA ResetCapped ==
  ASSUME ChartInv, ResetCommit
  PROVE  DepthCapped'
<1>1. exists' \subseteq exists /\ exists \subseteq Account
      /\ parent' = [a \in Account |-> IF a \in gone THEN NoAccount ELSE parent[a]]
      /\ exists' = exists \ gone
  BY DEF ResetCommit, ChartInv, References, ChartTypeOK
<1>2. \A a \in exists' : parent'[a] = parent[a]
  BY <1>1
<1>3. Closed(exists', parent)
  <2>1. \A a \in exists' : parent'[a] \in exists' \cup {NoAccount}
    BY ResetKeeps DEF ChartInv
  <2> QED
    BY <1>1, <1>2, <2>1, ChartClosed DEF ChartInv, Closed
<1>4. ASSUME NEW a \in exists' PROVE Ancestor(parent', a, MaxDepth) = NoAccount
  <2>1. Ancestor(parent', a, MaxDepth) = Ancestor(parent, a, MaxDepth)
    BY <1>2, <1>3, ChartClosed, WalksStay DEF ChartInv
  <2> QED
    BY <1>1, <2>1 DEF ChartInv, DepthCapped
<1> QED
  BY <1>4 DEF DepthCapped

(* What Account.clean has established for a request that nothing has       *)
(* overtaken still holds.                                                  *)
CleanStands ==
  \A r \in Editor : Open(r) /\ r \notin overtaken =>
    edit[r].up \in exists \cup {NoAccount} /\ CleanHierarchy(parent, edit[r].up)

(* A step that leaves the accounts and at most closes requests keeps it.   *)
LEMMA StillStands ==
  ASSUME CleanStands, UNCHANGED <<exists, parent>>, NEW T,
         overtaken' = overtaken \ T,
         \A r \in Editor : IF r \in T THEN edit'[r].acct = NoAccount ELSE edit'[r] = edit[r]
  PROVE  CleanStands'
<1>1. ASSUME NEW r \in Editor, edit'[r].acct # NoAccount, r \notin overtaken'
      PROVE  edit'[r].up \in exists' \cup {NoAccount} /\ CleanHierarchy(parent', edit'[r].up)
  <2>1. r \notin T /\ edit'[r] = edit[r] /\ r \notin overtaken
    BY <1>1
  <2>2. edit[r].up \in exists \cup {NoAccount} /\ CleanHierarchy(parent, edit[r].up)
    BY <1>1, <2>1 DEF CleanStands, Open
  <2>3. parent' = parent /\ exists' = exists
    OBVIOUS
  <2> QED
    BY <2>1, <2>2, <2>3
<1> QED
  BY <1>1 DEF CleanStands, Open

(* Whatever changes the accounts overtakes all that is open.               *)
LEMMA AllOvertaken ==
  ASSUME ChartChanges
  PROVE  CleanStands'
BY DEF ChartChanges, CleanStands, Open

(* Account.clean of a request.                                             *)
LEMMA CleanEstablishes ==
  ASSUME References, CleanStands, NEW r \in Editor, NEW a \in Account, NEW p \in Account \cup {NoAccount},
         Clean(r, a, p)
  PROVE  CleanStands'
<1>1. /\ edit' = [edit EXCEPT ![r] = [acct |-> a, up |-> p, insert |-> a \notin exists]]
      /\ overtaken' = overtaken \ {r} /\ exists' = exists /\ parent' = parent
      /\ p \in exists \cup {NoAccount} /\ CleanHierarchy(parent, p)
  BY DEF Clean, accountVars
<1>2. edit \in [Editor -> CleanedRow]
  BY DEF References, ChartTypeOK
<1>3. ASSUME NEW q \in Editor, edit'[q].acct # NoAccount, q \notin overtaken'
      PROVE  edit'[q].up \in exists' \cup {NoAccount} /\ CleanHierarchy(parent', edit'[q].up)
  <2>1. CASE q = r
    <3>1. edit'[q].up = p
      BY <1>1, <1>2, <2>1
    <3> QED
      BY <1>1, <3>1
  <2>2. CASE q # r
    <3>1. edit'[q] = edit[q] /\ q \notin overtaken
      BY <1>1, <1>2, <1>3, <2>2
    <3>2. edit[q].up \in exists \cup {NoAccount} /\ CleanHierarchy(parent, edit[q].up)
      BY <1>3, <3>1 DEF CleanStands, Open
    <3> QED
      BY <1>1, <3>1, <3>2
  <2> QED
    BY <2>1, <2>2
<1> QED
  BY <1>3 DEF CleanStands, Open

(* It stands through every step.                                           *)
LEMMA CleanStaysStood ==
  ASSUME References, CleanStands, [ChartNext]_chartVars
  PROVE  CleanStands'
<1>1. ASSUME NEW r \in Editor, GiveUp(r) PROVE CleanStands'
  <2>1. /\ UNCHANGED <<exists, parent>> /\ overtaken' = overtaken \ {r}
        /\ edit' = [edit EXCEPT ![r] = NoEdit]
    BY <1>1 DEF GiveUp, accountVars
  <2>2. edit \in [Editor -> CleanedRow]
    BY DEF References, ChartTypeOK
  <2>3. \A q \in Editor : IF q \in {r} THEN edit'[q].acct = NoAccount ELSE edit'[q] = edit[q]
    BY <2>1, <2>2, BlankRow
  <2> QED
    BY <2>1, <2>3, StillStands
<1>2. ASSUME UNCHANGED <<exists, parent, edit, overtaken>> PROVE CleanStands'
  <2> DEFINE none == {}
  <2>1. overtaken' = overtaken \ none /\ UNCHANGED <<exists, parent>>
        /\ \A q \in Editor : IF q \in none THEN edit'[q].acct = NoAccount ELSE edit'[q] = edit[q]
    BY <1>2
  <2> HIDE DEF none
  <2> QED
    BY <2>1, StillStands
<1>3. CASE EditRequests
  <2>1. PICK r \in Editor : \/ \E a \in Account, p \in Account \cup {NoAccount} : Clean(r, a, p)
                           \/ Save(r) \/ GiveUp(r)
    BY <1>3 DEF EditRequests
  <2>2. ASSUME Save(r) PROVE CleanStands'
    BY <2>2, AllOvertaken DEF Save
  <2> QED
    BY <1>1, <2>1, <2>2, CleanEstablishes
<1>4. CASE ResetCommit
  BY <1>4, AllOvertaken DEF ResetCommit
<1>5. ASSUME NEW S \in SUBSET UserAccount, NEW f \in [S -> S \cup {NoAccount}], Seed(f) PROVE CleanStands'
  BY <1>5, AllOvertaken DEF Seed
<1>6. CASE \/ SeedCount \/ SeedFails \/ PostLines \/ DropDrafts \/ ResetCheck \/ ResetRead \/ ResetDelete
           \/ ResetFails \/ (\E a \in Account : DraftLine(a)) \/ UNCHANGED chartVars
  BY <1>2, <1>6 DEF SeedCount, SeedFails, PostLines, DropDrafts, ResetCheck, ResetRead, ResetDelete,
                    ResetFails, DraftLine, chartVars, accountVars, chartHistory
<1> QED
  BY <1>3, <1>4, <1>5, <1>6 DEF ChartNext

(* A save that no other one has overtaken, of an account that nobody is    *)
(* under.                                                                  *)
LEMMA SaveCapped ==
  ASSUME ChartInv, CleanStands, NEW r \in Editor, Save(r), r \notin overtaken, ~MovesTree(r)
  PROVE  DepthCapped'
<1> DEFINE a == edit[r].acct
           p == edit[r].up
<1>1. /\ a # NoAccount /\ p # a /\ exists' = exists \cup {a} /\ parent' = [parent EXCEPT ![a] = p]
      /\ \A c \in exists : parent[c] # a
  BY DEF Save, CanSave, Open, MovesTree
<1>2. p \in exists \cup {NoAccount} /\ CleanHierarchy(parent, p)
  BY <1>1 DEF CleanStands, Open
<1>3. a \in Account
  BY <1>1 DEF ChartInv, References, ChartTypeOK, CleanedRow
<1> HIDE DEF a, p
<1> QED
  BY <1>1, <1>2, <1>3, LeafSet

(* Every step keeps the cap, but for such a save.                          *)
LEMMA NextCapped ==
  ASSUME ChartInv, CleanStands, [ChartNext]_chartVars,
         \A r \in Editor : SavesNow(r) => ~(r \in overtaken \/ MovesTree(r))
  PROVE  DepthCapped'
<1>1. ASSUME NEW r \in Editor, Save(r) PROVE DepthCapped'
  <2>1. SavesNow(r)
    <3>1. edit' = [edit EXCEPT ![r] = NoEdit] /\ Open(r)
      BY <1>1 DEF Save, CanSave
    <3> QED
      BY <3>1, BlankRow DEF SavesNow, ChartInv, References, ChartTypeOK
  <2> QED
    BY <1>1, <2>1, SaveCapped
<1>2. ASSUME NEW S \in SUBSET UserAccount, NEW f \in [S -> S \cup {NoAccount}], Seed(f)
      PROVE  DepthCapped'
  BY <1>2, SeedCapped
<1>3. ASSUME UNCHANGED <<exists, parent>> PROVE DepthCapped'
  BY <1>3 DEF ChartInv, DepthCapped
<1>4. CASE EditRequests
  BY <1>1, <1>3, <1>4 DEF EditRequests, Clean, GiveUp, accountVars
<1>5. CASE \/ SeedCount \/ SeedFails \/ PostLines \/ DropDrafts \/ ResetCheck \/ ResetRead \/ ResetDelete
           \/ ResetFails \/ (\E a \in Account : DraftLine(a)) \/ UNCHANGED chartVars
  BY <1>3, <1>5 DEF SeedCount, SeedFails, PostLines, DropDrafts, ResetCheck, ResetRead, ResetDelete,
                    ResetFails, DraftLine, chartVars, accountVars
<1> QED
  BY <1>2, <1>4, <1>5, ResetCapped DEF ChartNext

(* Account.clean and _validate_hierarchy: the first account to be deeper   *)
(* than MAX_HIERARCHY_DEPTH is put there by a save whose clean was out of  *)
(* date, or that moves an account with what is under it.                   *)
THEOREM CleanKeepsCap == ChartSpec => CleanMovesKeepCap
<1> DEFINE Inv == References /\ CleanStands
<1>1. ChartInit => Inv
  <2>1. ASSUME ChartInit PROVE CleanStands
    BY <2>1, BlankRow DEF ChartInit, CleanStands, Open
  <2> QED
    BY <2>1, InitReferences
<1>2. Inv /\ [ChartNext]_chartVars => Inv'
  BY NextReferences, CleanStaysStood
<1>3. ASSUME Inv, [ChartNext]_chartVars
      PROVE  [DepthCapped /\ ~DepthCapped' =>
                \E r \in Editor : SavesNow(r) /\ (r \in overtaken \/ MovesTree(r))]_chartVars
  BY <1>3, NextCapped DEF ChartInv
<1> QED
  BY <1>1, <1>2, <1>3, PTL DEF ChartSpec, CleanMovesKeepCap
-----------------------------------------------------------------------------
(* Deepest first.  Without a cycle a walk never comes back to an account   *)
(* (NoReturn), so a user account under another one is deeper by one, and   *)
(* the deletes of reset_coa meet no child that is still there.             *)

Tree(a) ==
  {n \in 0..Cardinality(Account) : \A m \in 1..n : Ancestor(parent, a, m) \in Users}

(* A walk never meets an account twice.                                    *)
LEMMA NoReturn ==
  ASSUME References, Acyclic, NEW a \in exists, NEW i \in Nat, NEW j \in Nat, i < j,
         j <= Cardinality(Account), Ancestor(parent, a, i) # NoAccount
  PROVE  Ancestor(parent, a, i) # Ancestor(parent, a, j)
<1> DEFINE x == Ancestor(parent, a, i)
           q == j - i
<1>0. Cardinality(Account) \in Nat
  BY ChartAssumption, FS_CardinalityType
<1>1. q \in 1..Cardinality(Account) /\ q \in Nat /\ i + q = j
  BY <1>0
<1>2. x \in exists
  BY ChartClosed, WalksStay
<1>3. Ancestor(parent, a, j) = Ancestor(parent, x, q)
  BY <1>1, WalkGoesOn
<1> HIDE DEF x, q
<1>4. Ancestor(parent, x, q) # x
  BY <1>1, <1>2 DEF Acyclic
<1> QED
  BY <1>3, <1>4 DEF x

(* The depth bucket of an account counts its ancestors within user         *)
(* accounts: the guard against cycles in                                   *)
(* _user_account_depth_buckets never ends the walk.                        *)
LEMMA DepthIs ==
  ASSUME References, Acyclic, NEW a \in exists
  PROVE  Depth(a) = Cardinality(Tree(a))
<1> DEFINE above(n) == Ancestor(parent, a, n)
           inTree(n) == \A m \in 1..n :
                          above(m) \in Users /\ \A k \in 0..(m - 1) : above(k) # above(m)
<1>1. ASSUME NEW n \in 0..Cardinality(Account)
      PROVE  inTree(n) <=> \A m \in 1..n : above(m) \in Users
  <2>1. ASSUME NEW m \in 1..n, above(m) \in Users, NEW k \in 0..(m - 1) PROVE above(k) # above(m)
    <3>1. above(m) # NoAccount
      BY <2>1, ChartClosed DEF Users, Closed
    <3>2. m \in Nat /\ k \in Nat /\ k < m /\ m <= Cardinality(Account)
      BY <2>1, ChartAssumption, FS_CardinalityType
    <3>3. above(k) = above(m) => above(k) # NoAccount
      BY <3>1
    <3> QED
      BY <3>2, <3>3, NoReturn
  <2> QED
    BY <2>1
<1>2. {n \in 0..Cardinality(Account) : inTree(n)} = Tree(a)
  BY <1>1 DEF Tree
<1>3. Depth(a) = Cardinality({n \in 0..Cardinality(Account) : inTree(n)})
  BY DEF Depth
<1> QED
  BY <1>2, <1>3

(* A user account under another is in a deeper bucket.                     *)
LEMMA DeeperChild ==
  ASSUME References, Acyclic, NEW a \in Users, NEW c \in Users, parent[c] = a
  PROVE  Depth(c) > Depth(a)
<1> DEFINE size == Cardinality(Account)
<1>0. /\ a \in exists /\ c \in exists /\ size \in Nat /\ IsFiniteSet(Account)
      /\ Users \subseteq Account /\ NoAccount \notin Users /\ c # NoAccount
  BY ChartAssumption, FS_CardinalityType DEF Users, UserAccount
<1> HIDE DEF size
<1>1. \A n \in Nat : Ancestor(parent, c, n + 1) = Ancestor(parent, a, n)
  <2>1. Ancestor(parent, c, 1) = a
    <3>1. Ancestor(parent, c, 0 + 1) = Up(parent, Ancestor(parent, c, 0))
          /\ Ancestor(parent, c, 0) = c
      BY AncestorIs
    <3>2. 0 + 1 = 1
      OBVIOUS
    <3> QED
      BY <1>0, <3>1, <3>2 DEF Up
  <2>2. ASSUME NEW n \in Nat PROVE Ancestor(parent, c, n + 1) = Ancestor(parent, a, n)
    <3>1. 1 \in Nat /\ n + 1 = 1 + n
      OBVIOUS
    <3>2. Ancestor(parent, c, 1 + n) = Ancestor(parent, Ancestor(parent, c, 1), n)
      BY <3>1, WalkGoesOn
    <3> QED
      BY <2>1, <3>1, <3>2
  <2> QED
    BY <2>2
<1>2. ASSUME NEW n \in Tree(a) PROVE n + 1 \in Tree(c)
  <2>1. n \in Nat /\ \A m \in 1..n : Ancestor(parent, a, m) \in Users
    BY <1>0 DEF Tree, size
  <2>2. ASSUME NEW m \in 1..(n + 1) PROVE Ancestor(parent, c, m) \in Users
    <3>1. m - 1 \in Nat /\ (m - 1) + 1 = m /\ (m = 1 \/ m - 1 \in 1..n)
      BY <2>1, <2>2
    <3>2. Ancestor(parent, c, m) = Ancestor(parent, a, m - 1)
      BY <1>1, <3>1
    <3>3. CASE m = 1
      <4>1. m - 1 = 0 /\ Ancestor(parent, a, 0) = a
        BY <3>3, AncestorIs
      <4> QED
        BY <3>2, <4>1
    <3>4. CASE m - 1 \in 1..n
      BY <2>1, <3>2, <3>4
    <3> QED
      BY <3>1, <3>3, <3>4
  <2> DEFINE steps == 0..n
             g == [k \in steps |-> Ancestor(parent, a, k)]
  <2>3. ASSUME NEW k \in steps PROVE Ancestor(parent, a, k) \in Users
    <3>1. k = 0 \/ k \in 1..n
      BY <2>1, <2>3
    <3>2. Ancestor(parent, a, 0) = a
      BY AncestorIs
    <3> QED
      BY <2>1, <3>1, <3>2
  <2>4. ASSUME NEW k \in steps, NEW l \in steps, g[k] = g[l] PROVE k = l
    <3>1. g[k] = Ancestor(parent, a, k) /\ g[l] = Ancestor(parent, a, l)
      OBVIOUS
    <3>2. Ancestor(parent, a, k) # NoAccount /\ Ancestor(parent, a, l) # NoAccount
      BY <1>0, <2>3
    <3>3. k \in Nat /\ l \in Nat /\ k <= Cardinality(Account) /\ l <= Cardinality(Account)
      BY <1>0, <2>1 DEF Tree, size
    <3>4. ~(k < l)
      BY <1>0, <2>4, <3>1, <3>2, <3>3, NoReturn
    <3>5. ~(l < k)
      BY <1>0, <2>4, <3>1, <3>2, <3>3, NoReturn
    <3> QED
      BY <3>3, <3>4, <3>5
  <2>5. g \in Injection(steps, Account)
    <3>1. g \in [steps -> Account]
      BY <1>0, <2>3
    <3> HIDE DEF g
    <3> QED
      BY <2>4, <3>1 DEF Injection, IsInjective
  <2>6. Cardinality(steps) = n + 1
    <3>1. Cardinality(steps) = IF 0 > n THEN 0 ELSE n - 0 + 1
      BY <2>1, FS_Interval
    <3> QED
      BY <2>1, <3>1
  <2>7. Cardinality(steps) <= size
    BY <1>0, <2>5, FS_Injection DEF size
  <2>8. n + 1 \in 0..size
    BY <1>0, <2>1, <2>6, <2>7
  <2> QED
    BY <2>2, <2>8 DEF Tree, size
<1>3. 0 \in Tree(c)
  BY <1>0 DEF Tree, size
<1>4. IsFiniteSet(Tree(c)) /\ IsFiniteSet(Tree(a))
  <2>1. IsFiniteSet(0..size)
    BY <1>0, FS_Interval
  <2>2. Tree(c) \subseteq 0..size /\ Tree(a) \subseteq 0..size
    BY DEF Tree, size
  <2> QED
    BY <2>1, <2>2, FS_Subset
<1> DEFINE rest == Tree(c) \ {0}
           next == [n \in Tree(a) |-> n + 1]
<1>5. next \in Injection(Tree(a), rest)
  <2>1. \A n \in Tree(a) : n \in Nat
    BY DEF Tree
  <2>2. \A n \in Tree(a) : n + 1 \in rest
    BY <1>2, <2>1
  <2>3. \A m, n \in Tree(a) : next[m] = next[n] => m = n
    BY <2>1
  <2>4. next \in [Tree(a) -> rest]
    BY <2>2
  <2> HIDE DEF next, rest
  <2> QED
    BY <2>3, <2>4 DEF Injection, IsInjective
<1>6. /\ IsFiniteSet(rest) /\ Cardinality(rest) = Cardinality(Tree(c)) - 1
  BY <1>3, <1>4, FS_RemoveElement
<1> HIDE DEF rest, next
<1>7. Cardinality(Tree(a)) <= Cardinality(rest)
  BY <1>5, <1>6, FS_Injection
<1>8. Cardinality(Tree(a)) \in Nat /\ Cardinality(Tree(c)) \in Nat
  BY <1>4, FS_CardinalityType
<1>9. Cardinality(Tree(c)) > Cardinality(Tree(a))
  BY <1>6, <1>7, <1>8
<1> QED
  BY <1>0, <1>9, DepthIs

(* The buckets are what they were when reset_coa read them.                *)
Current ==
  reset = "deleting" /\ ~outrun =>
    DOMAIN buckets = Users /\ \A a \in Users : buckets[a] = Depth(a)

(* A depth is a matter of the accounts and their parents.                  *)
LEMMA DepthStays ==
  ASSUME parent' = parent, exists' = exists, NEW a
  PROVE  Depth(a)' = Depth(a)
BY DEF Depth, Users, Ancestor

(* The buckets stay current, or the reset is outrun.                       *)
LEMMA StaysCurrent ==
  ASSUME Current, [ChartNext]_chartVars
  PROVE  Current'
<1>1. ASSUME ChartChanges PROVE Current'
  BY <1>1 DEF ChartChanges, Current
<1>2. ASSUME UNCHANGED <<exists, parent, reset, buckets, outrun>> PROVE Current'
  <2>1. Users' = Users /\ buckets' = buckets /\ reset' = reset /\ outrun' = outrun
    BY <1>2 DEF Users
  <2>2. \A a \in Users : Depth(a)' = Depth(a)
    BY <1>2, DepthStays
  <2> QED
    BY <2>1, <2>2 DEF Current
<1>3. ASSUME reset' # "deleting" PROVE Current'
  BY <1>3 DEF Current
<1>4. CASE ResetRead
  <2>1. buckets' = [a \in Users |-> Depth(a)] /\ parent' = parent /\ exists' = exists
    BY <1>4 DEF ResetRead, accountVars
  <2>2. \A a \in Users : Depth(a)' = Depth(a)
    BY <2>1, DepthStays
  <2>3. Users' = Users
    BY <2>1 DEF Users
  <2> QED
    BY <2>1, <2>2, <2>3 DEF Current
<1>5. CASE EditRequests
  BY <1>1, <1>2, <1>5 DEF EditRequests, Clean, Save, GiveUp, accountVars, resetVars
<1>6. CASE \E S \in SUBSET UserAccount : \E f \in [S -> S \cup {NoAccount}] : Seed(f)
  BY <1>1, <1>6 DEF Seed
<1>7. CASE ResetCommit
  BY <1>1, <1>7 DEF ResetCommit
<1>8. CASE ResetFails \/ ResetCheck
  <2>1. CASE ResetFails
    BY <1>3, <2>1 DEF ResetFails
  <2>2. CASE ResetCheck
    BY <1>3, <2>2 DEF ResetCheck
  <2> QED
    BY <1>8, <2>1, <2>2
<1>9. CASE \/ SeedCount \/ SeedFails \/ PostLines \/ DropDrafts \/ ResetDelete
           \/ (\E a \in Account : DraftLine(a)) \/ UNCHANGED chartVars
  BY <1>2, <1>9 DEF SeedCount, SeedFails, PostLines, DropDrafts, ResetDelete,
                    DraftLine, chartVars, accountVars, resetVars, chartHistory
<1> QED
  BY <1>4, <1>5, <1>6, <1>7, <1>8, <1>9 DEF ChartNext

(* reset_coa: while there are no lines and nobody has changed the chart    *)
(* since, deleting the deepest buckets first meets no PROTECTed parent,    *)
(* unless there is a cycle or a system account under a user account.       *)
THEOREM ResetIsFree == ChartSpec => []ResetGetsThrough
<1> DEFINE Inv == References /\ Current
<1>1. ASSUME Inv PROVE ResetGetsThrough
  <2> SUFFICES ASSUME reset = "deleting", ~outrun, draftOn \cup postedOn = {}, Acyclic,
                      \A a \in exists \cap SystemAccount : parent[a] \notin Users,
                      Protected(Deepest)
               PROVE  FALSE
    BY DEF ResetGetsThrough
  <2>1. DOMAIN buckets = Users /\ \A a \in Users : buckets[a] = Depth(a)
    BY <1>1 DEF Current
  <2>2. PICK c \in exists \ gone : parent[c] \in Deepest
    BY DEF Protected
  <2> DEFINE a == parent[c]
  <2>3. a \in Users /\ a \in Left
    BY <2>1, <2>2 DEF Deepest, Left
  <2>4. c \in Users
    BY <1>1, <2>2, <2>3 DEF References, ChartTypeOK, Users, UserAccount
  <2>5. c \in Left /\ Depth(c) <= Depth(a)
    BY <2>1, <2>2, <2>3, <2>4 DEF Deepest, Left
  <2>6. Depth(c) > Depth(a)
    BY <1>1, <2>3, <2>4, DeeperChild
  <2>7. Depth(c) \in Nat /\ Depth(a) \in Nat
    BY DepthNat
  <2> QED
    BY <2>5, <2>6, <2>7
<1>2. ChartInit => Inv
  BY InitReferences DEF ChartInit, Current
<1>3. Inv /\ [ChartNext]_chartVars => Inv'
  BY NextReferences, StaysCurrent
<1> QED
  BY <1>1, <1>2, <1>3, PTL DEF ChartSpec

-----------------------------------------------------------------------------
(* Sums.  SumFunctionOnSet folds along an order that nobody knows; that it *)
(* can be taken apart at any element is what the lemmas here establish.    *)

Pick(s) == CHOOSE x \in s : TRUE
IsFold(g, f, T) ==
  g = [s \in SUBSET T |-> IF s = {} THEN 0 ELSE f[Pick(s)] + g[s \ {Pick(s)}]]

(* What a fold is, set by set.                                             *)
LEMMA FoldIs ==
  ASSUME NEW g, NEW f, NEW T
  PROVE  IsFold(g, f, T) <=>
           /\ g = [s \in SUBSET T |-> g[s]] /\ g[{}] = 0
           /\ \A s \in SUBSET T : s # {} => g[s] = f[Pick(s)] + g[s \ {Pick(s)}]
<1> DEFINE value(s) == IF s = {} THEN 0 ELSE f[Pick(s)] + g[s \ {Pick(s)}]
<1>0. /\ value({}) = 0 /\ \A s : s # {} => value(s) = f[Pick(s)] + g[s \ {Pick(s)}]
      /\ IsFold(g, f, T) <=> g = [s \in SUBSET T |-> value(s)]
  BY DEF IsFold
<1> HIDE DEF value
<1>1. ASSUME IsFold(g, f, T)
      PROVE  /\ g = [s \in SUBSET T |-> g[s]] /\ g[{}] = 0
             /\ \A s \in SUBSET T : s # {} => g[s] = f[Pick(s)] + g[s \ {Pick(s)}]
  <2>1. g = [s \in SUBSET T |-> value(s)]
    BY <1>0, <1>1
  <2>2. g = [s \in SUBSET T |-> g[s]] /\ \A s \in SUBSET T : g[s] = value(s)
    BY <2>1
  <2> QED
    BY <1>0, <2>2
<1>2. ASSUME g = [s \in SUBSET T |-> g[s]], g[{}] = 0,
             \A s \in SUBSET T : s # {} => g[s] = f[Pick(s)] + g[s \ {Pick(s)}]
      PROVE  IsFold(g, f, T)
  <2>1. \A s \in SUBSET T : g[s] = value(s)
    BY <1>0, <1>2
  <2>2. g = [s \in SUBSET T |-> value(s)]
    BY <1>2, <2>1
  <2> QED
    BY <1>0, <2>2
<1> QED
  BY <1>1, <1>2

(* The element that is picked is one of the set.                           *)
LEMMA Picked == ASSUME NEW s, s # {} PROVE Pick(s) \in s
  BY DEF Pick

(* Folds agree where both are defined.                                     *)
LEMMA FoldsAgree ==
  ASSUME NEW f, NEW T, NEW U, NEW g, NEW h, IsFold(g, f, T), IsFold(h, f, U), IsFiniteSet(T)
  PROVE  \A s \in SUBSET T : s \subseteq U => g[s] = h[s]
<1> DEFINE P == {s \in SUBSET T : s \subseteq U => g[s] = h[s]}
<1>1. ASSUME NEW s \in SUBSET T, \A x \in s : s \ {x} \in P PROVE s \in P
  <2>1. CASE s = {}
    BY <2>1, FoldIs
  <2>2. ASSUME s # {}, s \subseteq U PROVE g[s] = h[s]
    <3>1. Pick(s) \in s
      BY <2>2, Picked
    <3>2. g[s \ {Pick(s)}] = h[s \ {Pick(s)}]
      BY <1>1, <2>2, <3>1
    <3>3. g[s] = f[Pick(s)] + g[s \ {Pick(s)}]
      BY <2>2, FoldIs
    <3>4. h[s] = f[Pick(s)] + h[s \ {Pick(s)}]
      BY <2>2, FoldIs
    <3> QED
      BY <3>2, <3>3, <3>4
  <2> QED
    BY <2>1, <2>2
<1> HIDE DEF P
<1>2. \A s \in SUBSET T : s \in P
  BY <1>1, AllSubsets
<1> QED
  BY <1>2 DEF P

(* A fold of a set folds its subsets too.                                  *)
LEMMA FoldWithin ==
  ASSUME NEW f, NEW T, NEW U \in SUBSET T, NEW g, IsFold(g, f, T)
  PROVE  IsFold([s \in SUBSET U |-> g[s]], f, U)
<1> DEFINE h == [s \in SUBSET U |-> g[s]]
<1>1. h = [s \in SUBSET U |-> h[s]] /\ \A s \in SUBSET U : h[s] = g[s]
  OBVIOUS
<1> HIDE DEF h
<1>2. h[{}] = 0
  BY <1>1, FoldIs
<1>3. ASSUME NEW s \in SUBSET U, s # {} PROVE h[s] = f[Pick(s)] + h[s \ {Pick(s)}]
  <2>1. g[s] = f[Pick(s)] + g[s \ {Pick(s)}]
    BY <1>3, FoldIs
  <2> QED
    BY <1>1, <2>1
<1>4. IsFold(h, f, U)
  BY <1>1, <1>2, <1>3, FoldIs
<1> QED
  BY <1>4 DEF h

(* Every finite set can be folded.                                         *)
LEMMA FoldExists ==
  ASSUME NEW f, NEW S, IsFiniteSet(S)
  PROVE  \E g : IsFold(g, f, S)
<1> DEFINE P == {T \in SUBSET S : \E g : IsFold(g, f, T)}
<1>1. ASSUME NEW T \in SUBSET S, \A x \in T : T \ {x} \in P PROVE T \in P
  <2> DEFINE h(s) == CHOOSE g : IsFold(g, f, s)
             g == [s \in SUBSET T |-> IF s = {} THEN 0
                                      ELSE f[Pick(s)] + h(s \ {Pick(s)})[s \ {Pick(s)}]]
  <2>1. ASSUME NEW s \in SUBSET T, s # T PROVE IsFold(h(s), f, s)
    <3>1. PICK x \in T : x \notin s
      BY <2>1
    <3>2. PICK k : IsFold(k, f, T \ {x})
      BY <1>1, <3>1
    <3>3. s \in SUBSET (T \ {x})
      BY <3>1
    <3>4. IsFold([u \in SUBSET s |-> k[u]], f, s)
      BY <3>2, <3>3, FoldWithin
    <3> QED
      BY <3>4
  <2>2. /\ g = [s \in SUBSET T |-> g[s]] /\ g[{}] = 0
        /\ \A s \in SUBSET T : s # {} => g[s] = f[Pick(s)] + h(s \ {Pick(s)})[s \ {Pick(s)}]
    OBVIOUS
  <2> HIDE DEF g, h
  <2>3. ASSUME NEW u \in SUBSET T, u # T PROVE g[u] = h(u)[u]
    <3>1. CASE u = {}
      BY <2>1, <2>2, <2>3, <3>1, FoldIs
    <3>2. CASE u # {}
      <4> DEFINE v == u \ {Pick(u)}
      <4>1. Pick(u) \in u
        BY <3>2, Picked
      <4>2. v \in SUBSET T /\ v # T /\ v \in SUBSET u /\ IsFiniteSet(v)
        BY <2>3, <4>1, FS_Subset
      <4>3. IsFold(h(u), f, u) /\ IsFold(h(v), f, v)
        BY <2>1, <2>3, <4>2
      <4>4. h(u)[u] = f[Pick(u)] + h(u)[v]
        BY <3>2, <4>3, FoldIs
      <4>5. h(v)[v] = h(u)[v]
        BY <4>2, <4>3, FoldsAgree
      <4> QED
        BY <2>2, <2>3, <3>2, <4>4, <4>5
    <3> QED
      BY <3>1, <3>2
  <2>4. ASSUME NEW s \in SUBSET T, s # {} PROVE g[s] = f[Pick(s)] + g[s \ {Pick(s)}]
    <3>1. Pick(s) \in s
      BY <2>4, Picked
    <3>2. s \ {Pick(s)} \in SUBSET T /\ s \ {Pick(s)} # T
      BY <2>4, <3>1
    <3> QED
      BY <2>2, <2>3, <2>4, <3>2
  <2>5. IsFold(g, f, T)
    BY <2>2, <2>4, FoldIs
  <2> QED
    BY <2>5
<1> HIDE DEF P
<1>2. \A T \in SUBSET S : T \in P
  BY <1>1, AllSubsets
<1> QED
  BY <1>2 DEF P

(* A sum over a set is the value of a fold of the set.                     *)
LEMMA SumIs ==
  ASSUME NEW f, NEW S, IsFiniteSet(S)
  PROVE  \E g : IsFold(g, f, S) /\ \A T \in SUBSET S : SumFunctionOnSet(f, T) = g[T]
<1> DEFINE h(T) == CHOOSE g : IsFold(g, f, T)
<1>1. \A T : SumFunctionOnSet(f, T) = h(T)[T]
  BY DEF SumFunctionOnSet, FoldFunctionOnSet, MapThenFoldSet, IsFold, Pick
<1>2. \A T \in SUBSET S : IsFiniteSet(T) /\ IsFold(h(T), f, T)
  BY FoldExists, FS_Subset
<1> HIDE DEF h
<1>3. ASSUME NEW T \in SUBSET S PROVE SumFunctionOnSet(f, T) = h(S)[T]
  BY <1>1, <1>2, FoldsAgree
<1> QED
  BY <1>2, <1>3

(* Nothing adds up to zero.                                                *)
LEMMA SumEmpty == ASSUME NEW f PROVE SumFunctionOnSet(f, {}) = 0
<1>1. PICK g : IsFold(g, f, {}) /\ \A T \in SUBSET {} : SumFunctionOnSet(f, T) = g[T]
  BY SumIs, FS_EmptySet
<1> QED
  BY <1>1, FoldIs

(* A sum depends on the summands only.                                     *)
LEMMA SumSame ==
  ASSUME NEW f, NEW h, NEW S, IsFiniteSet(S), \A x \in S : f[x] = h[x]
  PROVE  SumFunctionOnSet(f, S) = SumFunctionOnSet(h, S)
<1>1. PICK g : IsFold(g, f, S) /\ SumFunctionOnSet(f, S) = g[S]
  BY SumIs
<1>2. PICK k : IsFold(k, h, S) /\ SumFunctionOnSet(h, S) = k[S]
  BY SumIs
<1>3. IsFold(g, h, S)
  <2>1. \A s \in SUBSET S : s # {} => f[Pick(s)] = h[Pick(s)]
    BY Picked
  <2> QED
    BY <1>1, <2>1, FoldIs
<1>4. g[S] = k[S]
  BY <1>2, <1>3, FoldsAgree
<1> QED
  BY <1>1, <1>2, <1>4

(* A sum of integers is one, and can be taken apart at any element.        *)
LEMMA SumRemove ==
  ASSUME NEW S, IsFiniteSet(S), NEW f, \A x \in S : f[x] \in Int
  PROVE  /\ SumFunctionOnSet(f, S) \in Int
         /\ \A y \in S : SumFunctionOnSet(f, S) = f[y] + SumFunctionOnSet(f, S \ {y})
<1>1. PICK g : IsFold(g, f, S) /\ \A T \in SUBSET S : SumFunctionOnSet(f, T) = g[T]
  BY SumIs
<1>2. /\ g[{}] = 0
      /\ \A s \in SUBSET S : s # {} => g[s] = f[Pick(s)] + g[s \ {Pick(s)}]
  BY <1>1, FoldIs
<1> DEFINE whole == {s \in SUBSET S : g[s] \in Int}
<1>3. ASSUME NEW s \in SUBSET S, \A x \in s : s \ {x} \in whole PROVE s \in whole
  <2>1. CASE s = {}
    BY <1>2, <2>1
  <2>2. CASE s # {}
    <3>1. Pick(s) \in s
      BY <2>2, Picked
    <3>2. g[s] = f[Pick(s)] + g[s \ {Pick(s)}] /\ f[Pick(s)] \in Int /\ g[s \ {Pick(s)}] \in Int
      BY <1>2, <1>3, <2>2, <3>1
    <3> QED
      BY <3>2
  <2> QED
    BY <2>1, <2>2
<1> HIDE DEF whole
<1>4. \A s \in SUBSET S : s \in whole
  BY <1>3, AllSubsets
<1>5. \A s \in SUBSET S : g[s] \in Int
  BY <1>4 DEF whole
<1> DEFINE P == {s \in SUBSET S : \A y \in s : g[s] = f[y] + g[s \ {y}]}
<1>6. ASSUME NEW s \in SUBSET S, \A x \in s : s \ {x} \in P PROVE s \in P
  <2> DEFINE x == Pick(s)
  <2>1. ASSUME NEW y \in s PROVE g[s] = f[y] + g[s \ {y}]
    <3>1. x \in s
      BY <2>1, Picked
    <3>2. g[s] = f[x] + g[s \ {x}]
      BY <1>2, <2>1
    <3> HIDE DEF x
    <3>3. CASE y = x
      BY <3>2, <3>3
    <3>4. CASE y # x
      <4>1. g[s \ {x}] = f[y] + g[(s \ {x}) \ {y}]
        BY <1>6, <2>1, <3>1, <3>4
      <4>2. g[s \ {y}] = f[x] + g[(s \ {y}) \ {x}]
        BY <1>6, <2>1, <3>1, <3>4
      <4>3. (s \ {x}) \ {y} = (s \ {y}) \ {x}
        OBVIOUS
      <4>4. f[x] \in Int /\ f[y] \in Int /\ g[(s \ {x}) \ {y}] \in Int
        BY <1>5, <2>1, <3>1
      <4>5. \A i, j, k \in Int : i + (j + k) = j + (i + k)
        OBVIOUS
      <4>6. g[s] = f[x] + (f[y] + g[(s \ {x}) \ {y}])
        BY <3>2, <4>1
      <4>7. f[y] + g[s \ {y}] = f[y] + (f[x] + g[(s \ {x}) \ {y}])
        BY <4>2, <4>3
      <4> QED
        BY <4>4, <4>5, <4>6, <4>7
    <3> QED
      BY <3>3, <3>4
  <2> QED
    BY <2>1
<1> HIDE DEF P
<1>7. \A s \in SUBSET S : s \in P
  BY <1>6, AllSubsets
<1>8. \A y \in S : g[S] = f[y] + g[S \ {y}]
  BY <1>7 DEF P
<1> QED
  BY <1>1, <1>5, <1>8

(* A sum of natural numbers is one, and no summand is larger.              *)
LEMMA SumNat ==
  ASSUME NEW S, IsFiniteSet(S), NEW f, \A x \in S : f[x] \in Nat
  PROVE  /\ SumFunctionOnSet(f, S) \in Nat
         /\ \A y \in S : f[y] <= SumFunctionOnSet(f, S)
<1> DEFINE sum(s) == SumFunctionOnSet(f, s)
           P == {s \in SUBSET S : sum(s) \in Nat}
<1>0. \A s \in SUBSET S : IsFiniteSet(s) /\ \A x \in s : f[x] \in Int
  BY FS_Subset
<1>1. \A s \in SUBSET S : \A y \in s : sum(s) = f[y] + sum(s \ {y})
  BY <1>0, SumRemove
<1>2. sum({}) = 0
  BY SumEmpty
<1> HIDE DEF sum
<1>3. ASSUME NEW s \in SUBSET S, \A x \in s : s \ {x} \in P PROVE s \in P
  <2>1. CASE s = {}
    BY <1>2, <2>1
  <2>2. CASE s # {}
    <3>1. PICK x \in s : TRUE
      BY <2>2
    <3>2. sum(s) = f[x] + sum(s \ {x}) /\ f[x] \in Nat /\ sum(s \ {x}) \in Nat
      BY <1>1, <1>3, <3>1
    <3> QED
      BY <3>2
  <2> QED
    BY <2>1, <2>2
<1> HIDE DEF P
<1>4. \A s \in SUBSET S : s \in P
  BY <1>3, AllSubsets
<1>5. \A s \in SUBSET S : sum(s) \in Nat
  BY <1>4 DEF P
<1>6. ASSUME NEW y \in S PROVE f[y] <= sum(S)
  <2>1. sum(S) = f[y] + sum(S \ {y}) /\ sum(S \ {y}) \in Nat /\ f[y] \in Nat
    BY <1>1, <1>5
  <2> QED
    BY <2>1
<1> QED
  BY <1>5, <1>6 DEF sum

(* Sums of sums, and of differences.                                       *)
LEMMA SumMinus ==
  ASSUME NEW S, IsFiniteSet(S), NEW f, NEW g, NEW h,
         \A x \in S : f[x] \in Int /\ g[x] \in Int /\ h[x] = f[x] - g[x]
  PROVE  SumFunctionOnSet(h, S) = SumFunctionOnSet(f, S) - SumFunctionOnSet(g, S)
<1> DEFINE F(s) == SumFunctionOnSet(f, s)
           G(s) == SumFunctionOnSet(g, s)
           H(s) == SumFunctionOnSet(h, s)
           P == {s \in SUBSET S : H(s) = F(s) - G(s)}
<1>0. \A s \in SUBSET S : /\ IsFiniteSet(s)
                          /\ \A x \in s : f[x] \in Int /\ g[x] \in Int /\ h[x] \in Int
  BY FS_Subset
<1>1. \A s \in SUBSET S : F(s) \in Int /\ \A y \in s : F(s) = f[y] + F(s \ {y})
  BY <1>0, SumRemove
<1>2. \A s \in SUBSET S : G(s) \in Int /\ \A y \in s : G(s) = g[y] + G(s \ {y})
  BY <1>0, SumRemove
<1>3. \A s \in SUBSET S : H(s) \in Int /\ \A y \in s : H(s) = h[y] + H(s \ {y})
  BY <1>0, SumRemove
<1>4. F({}) = 0 /\ G({}) = 0 /\ H({}) = 0
  BY SumEmpty
<1> HIDE DEF F, G, H
<1>5. ASSUME NEW s \in SUBSET S, \A x \in s : s \ {x} \in P PROVE s \in P
  <2>1. CASE s = {}
    BY <1>4, <2>1
  <2>2. CASE s # {}
    <3>1. PICK x \in s : TRUE
      BY <2>2
    <3>2. s \ {x} \in SUBSET S /\ H(s \ {x}) = F(s \ {x}) - G(s \ {x})
      BY <1>5, <3>1
    <3>3. F(s) = f[x] + F(s \ {x}) /\ F(s \ {x}) \in Int
      BY <1>1, <3>1, <3>2
    <3>4. G(s) = g[x] + G(s \ {x}) /\ G(s \ {x}) \in Int
      BY <1>2, <3>1, <3>2
    <3>5. H(s) = h[x] + H(s \ {x}) /\ f[x] \in Int /\ g[x] \in Int /\ h[x] = f[x] - g[x]
      BY <1>3, <3>1, <3>2
    <3>6. H(s) = F(s) - G(s)
      <4> HIDE DEF P
      <4> QED
        BY <3>2, <3>3, <3>4, <3>5
    <3> QED
      BY <3>6
  <2> QED
    BY <2>1, <2>2
<1> HIDE DEF P
<1>6. \A s \in SUBSET S : s \in P
  BY <1>5, AllSubsets
<1> QED
  BY <1>6 DEF P, F, G, H

(* A sum over two sets that have nothing in common.                        *)
LEMMA SumUnion ==
  ASSUME NEW S, NEW T, IsFiniteSet(S), IsFiniteSet(T), S \cap T = {},
         NEW f, \A x \in S \cup T : f[x] \in Int
  PROVE  SumFunctionOnSet(f, S \cup T) = SumFunctionOnSet(f, S) + SumFunctionOnSet(f, T)
<1> DEFINE sum(s) == SumFunctionOnSet(f, s)
           P == {t \in SUBSET T : sum(S \cup t) = sum(S) + sum(t)}
<1>0. ASSUME NEW s \in SUBSET (S \cup T)
      PROVE  sum(s) \in Int /\ \A y \in s : sum(s) = f[y] + sum(s \ {y})
  <2>1. IsFiniteSet(S \cup T)
    BY FS_Union
  <2>2. IsFiniteSet(s) /\ \A x \in s : f[x] \in Int
    BY <2>1, FS_Subset
  <2> QED
    BY <2>2, SumRemove
<1>1. sum({}) = 0
  BY SumEmpty
<1> HIDE DEF sum
<1>2. ASSUME NEW t \in SUBSET T, \A x \in t : t \ {x} \in P PROVE t \in P
  <2>1. CASE t = {}
    <3>1. S \cup t = S /\ sum(S) \in Int
      BY <1>0, <2>1
    <3> QED
      BY <1>1, <2>1, <3>1
  <2>2. CASE t # {}
    <3>1. PICK x \in t : TRUE
      BY <2>2
    <3>2. /\ S \cup t \in SUBSET (S \cup T) /\ x \in S \cup t /\ (S \cup t) \ {x} = S \cup (t \ {x})
          /\ t \in SUBSET (S \cup T) /\ S \in SUBSET (S \cup T) /\ t \ {x} \in SUBSET (S \cup T)
      BY <3>1
    <3>3. sum(S \cup t) = f[x] + sum(S \cup (t \ {x}))
      BY <1>0, <3>2
    <3>4. sum(t) = f[x] + sum(t \ {x})
      BY <1>0, <3>1, <3>2
    <3>5. sum(S \cup (t \ {x})) = sum(S) + sum(t \ {x})
      BY <1>2, <3>1
    <3>6. sum(S) \in Int /\ sum(t \ {x}) \in Int /\ f[x] \in Int
      BY <1>0, <3>2
    <3>7. sum(S \cup t) = sum(S) + sum(t)
      <4> HIDE DEF P
      <4> QED
        BY <3>3, <3>4, <3>5, <3>6
    <3> QED
      BY <3>7
  <2> QED
    BY <2>1, <2>2
<1> HIDE DEF P
<1>3. \A t \in SUBSET T : t \in P
  BY <1>2, AllSubsets
<1> QED
  BY <1>3 DEF P, sum

(* A sum of zeros is zero.                                                 *)
LEMMA SumZero ==
  ASSUME NEW S, IsFiniteSet(S), NEW f, \A x \in S : f[x] = 0
  PROVE  SumFunctionOnSet(f, S) = 0
<1>1. SumFunctionOnSet(f, S) = SumFunctionOnSet(f, S) - SumFunctionOnSet(f, S)
  <2>1. \A x \in S : f[x] \in Int /\ f[x] = f[x] - f[x]
    OBVIOUS
  <2> QED
    BY <2>1, SumMinus
<1>2. SumFunctionOnSet(f, S) \in Int
  BY SumRemove
<1> QED
  BY <1>1, <1>2

(* Elements that count nothing can be left out.                            *)
LEMMA SumWithin ==
  ASSUME NEW S, IsFiniteSet(S), NEW T \in SUBSET S, NEW f, \A x \in T : f[x] \in Int,
         \A x \in S \ T : f[x] = 0
  PROVE  SumFunctionOnSet(f, S) = SumFunctionOnSet(f, T)
<1>1. IsFiniteSet(T) /\ IsFiniteSet(S \ T) /\ T \cap (S \ T) = {} /\ T \cup (S \ T) = S
  BY FS_Subset, FS_Difference
<1>2. SumFunctionOnSet(f, S \ T) = 0
  BY <1>1, SumZero
<1>3. \A x \in T \cup (S \ T) : f[x] \in Int
  OBVIOUS
<1>4. SumFunctionOnSet(f, T \cup (S \ T)) = SumFunctionOnSet(f, T) + SumFunctionOnSet(f, S \ T)
  BY <1>1, <1>3, SumUnion
<1>5. SumFunctionOnSet(f, T) \in Int
  BY <1>1, SumRemove
<1> QED
  BY <1>1, <1>2, <1>4, <1>5

(* parts has, for every a in A, what f adds up to over part[a], and S is in *)
(* these parts.                                                            *)
Splits(f, S, parts, A, part) ==
  /\ \A a \in A : part[a] \subseteq S /\ parts[a] = SumFunctionOnSet(f, part[a])
  /\ \A x \in S : f[x] \in Int /\ \E a \in A : x \in part[a]
  /\ \A a, b \in A : a # b => part[a] \cap part[b] = {}

(* A sum can be taken part by part.                                        *)
LEMMA SumParts ==
  ASSUME NEW S, IsFiniteSet(S), NEW A, IsFiniteSet(A), NEW part, NEW f, NEW parts,
         Splits(f, S, parts, A, part)
  PROVE  SumFunctionOnSet(f, S) = SumFunctionOnSet(parts, A)
<1> DEFINE Of(B) == {x \in S : \E a \in B : x \in part[a]}
           P == {B \in SUBSET A : SumFunctionOnSet(f, Of(B)) = SumFunctionOnSet(parts, B)}
<1> USE DEF Splits
<1>1. ASSUME NEW B \in SUBSET S PROVE IsFiniteSet(B) /\ SumFunctionOnSet(f, B) \in Int
  <2>1. IsFiniteSet(B) /\ \A x \in B : f[x] \in Int
    BY FS_Subset
  <2> QED
    BY <2>1, SumRemove
<1>2. \A a \in A : parts[a] \in Int
  <2>1. ASSUME NEW a \in A PROVE parts[a] \in Int
    <3>1. part[a] \in SUBSET S
      BY <2>1
    <3> QED
      BY <1>1, <2>1, <3>1
  <2> QED
    BY <2>1
<1>3. ASSUME NEW B \in SUBSET A, \A a \in B : B \ {a} \in P PROVE B \in P
  <2>1. CASE B = {}
    <3>1. Of(B) = {}
      BY <2>1
    <3> QED
      BY <2>1, <3>1, SumEmpty
  <2>2. CASE B # {}
    <3>1. PICK a \in B : TRUE
      BY <2>2
    <3> DEFINE mine == part[a]
               rest == Of(B \ {a})
    <3>2. mine \in SUBSET S /\ rest \in SUBSET S /\ mine \cap rest = {} /\ mine \cup rest = Of(B)
      BY <3>1
    <3>3. parts[a] = SumFunctionOnSet(f, mine)
      BY <3>1
    <3>4. SumFunctionOnSet(f, rest) = SumFunctionOnSet(parts, B \ {a})
      BY <1>3, <3>1
    <3>5. IsFiniteSet(B) /\ \A b \in B : parts[b] \in Int
      BY <1>2, FS_Subset
    <3>6. SumFunctionOnSet(parts, B) = parts[a] + SumFunctionOnSet(parts, B \ {a})
      BY <3>1, <3>5, SumRemove
    <3> HIDE DEF mine, rest
    <3>7. \A x \in mine \cup rest : f[x] \in Int
      BY <3>2
    <3>8. SumFunctionOnSet(f, mine \cup rest) = SumFunctionOnSet(f, mine) + SumFunctionOnSet(f, rest)
      BY <1>1, <3>2, <3>7, SumUnion
    <3>9. SumFunctionOnSet(f, Of(B)) = SumFunctionOnSet(parts, B)
      BY <3>2, <3>3, <3>4, <3>6, <3>8
    <3> QED
      BY <3>9
  <2> QED
    BY <2>1, <2>2
<1> HIDE DEF P
<1>4. \A B \in SUBSET A : B \in P
  BY <1>3, AllSubsets
<1>5. A \in P
  BY <1>4
<1>6. SumFunctionOnSet(f, Of(A)) = SumFunctionOnSet(parts, A)
  BY <1>5 DEF P
<1>7. Of(A) = S
  OBVIOUS
<1> QED
  BY <1>6, <1>7

(* What is summed up can be renamed.                                       *)
LEMMA SumRenamed ==
  ASSUME NEW S, IsFiniteSet(S), NEW T, IsFiniteSet(T), NEW to, NEW f, NEW h,
         \A x \in S : f[x] \in Int /\ to[x] \in T /\ h[to[x]] = f[x],
         \A y \in T : \E x \in S : to[x] = y,
         \A x, y \in S : to[x] = to[y] => x = y
  PROVE  SumFunctionOnSet(f, S) = SumFunctionOnSet(h, T)
<1> DEFINE part == [y \in T |-> {x \in S : to[x] = y}]
<1>1. ASSUME NEW y \in T PROVE part[y] \subseteq S /\ h[y] = SumFunctionOnSet(f, part[y])
  <2>1. PICK x \in S : to[x] = y
    BY <1>1
  <2>2. part[y] = {x}
    BY <2>1
  <2>3. SumFunctionOnSet(f, {x}) = f[x] + SumFunctionOnSet(f, {x} \ {x})
    <3>1. IsFiniteSet({x}) /\ (\A z \in {x} : f[z] \in Int) /\ x \in {x}
      BY FS_Singleton
    <3> QED
      BY <3>1, SumRemove
  <2>4. {x} \ {x} = {}
    OBVIOUS
  <2>5. f[x] \in Int /\ h[y] = f[x] /\ part[y] \subseteq S
    BY <2>1, <2>2
  <2>6. SumFunctionOnSet(f, {}) = 0 /\ f[x] + 0 = f[x]
    BY <2>5, SumEmpty
  <2> HIDE DEF part
  <2> QED
    BY <2>2, <2>3, <2>4, <2>5, <2>6
<1>2. \A x \in S : f[x] \in Int /\ \E y \in T : x \in part[y]
  OBVIOUS
<1>3. \A y, z \in T : y # z => part[y] \cap part[z] = {}
  OBVIOUS
<1> HIDE DEF part
<1>4. Splits(f, S, h, T, part)
  BY <1>1, <1>2, <1>3 DEF Splits
<1> QED
  BY <1>4, SumParts

-----------------------------------------------------------------------------
(* Forests: the part of the chart has no cycle either.                     *)

Forest(C, par) ==
  Closed(C, par) /\ C \subseteq Account /\ \A a \in C : a \notin Above(par, a)

(* How many accounts there are.                                            *)
LEMMA Accounts == /\ IsFiniteSet(Account) /\ Cardinality(Account) \in Nat
                  /\ NoAccount \notin Account
  BY TrialBalanceAssumption, FS_CardinalityType

(* What is above an account is in the closed part, and depends only on it. *)
LEMMA AboveStays ==
  ASSUME NEW C, NEW par, NEW other, Closed(C, par), \A c \in C : other[c] = par[c], NEW a \in C
  PROVE  Above(par, a) \subseteq C /\ Above(other, a) = Above(par, a)
<1>1. \A k \in 1..Cardinality(Account) : k \in Nat
  BY Accounts
<1>2. \A n \in Nat : /\ Ancestor(par, a, n) \in C \cup {NoAccount}
                     /\ Ancestor(other, a, n) = Ancestor(par, a, n)
  BY WalksStay
<1> QED
  BY <1>1, <1>2 DEF Above

(* A walk in a forest comes to an end, since it meets no account twice.    *)
LEMMA WalkLeaves ==
  ASSUME NEW C, NEW par, Forest(C, par), NEW a \in C
  PROVE  Ancestor(par, a, Cardinality(Account)) = NoAccount
<1> DEFINE size == Cardinality(Account)
           steps == 0..size
           walk == [k \in steps |-> Ancestor(par, a, k)]
<1>1. SUFFICES ASSUME Ancestor(par, a, size) # NoAccount PROVE FALSE
  OBVIOUS
<1>2. size \in Nat /\ \A k \in steps : k \in Nat /\ k <= size
  BY Accounts
<1>3. \A n \in Nat : Ancestor(par, a, n) \in C \cup {NoAccount}
  BY WalksStay DEF Forest
<1>4. ASSUME NEW k \in steps PROVE Ancestor(par, a, k) \in C
  <2>1. Ancestor(par, a, k) # NoAccount
    BY <1>1, <1>2, WalkEnds
  <2> QED
    BY <1>2, <1>3, <2>1
<1>5. IsFiniteSet(steps) /\ Cardinality(steps) = size + 1
  <2>1. 0 \in Int /\ size \in Int /\ ~(0 > size) /\ size - 0 + 1 = size + 1
    BY <1>2
  <2> HIDE DEF size
  <2> QED
    BY <2>1, FS_Interval
<1>6. walk \in [steps -> Account]
  BY <1>4 DEF Forest
<1> HIDE DEF walk
<1>7. PICK i, j \in steps : i # j /\ walk[i] = walk[j]
  <2>1. Cardinality(Account) < Cardinality(steps)
    BY <1>2, <1>5
  <2> HIDE DEF steps
  <2> QED
    BY <1>5, <1>6, <2>1, Accounts, FS_PigeonHole
<1>8. ASSUME NEW k \in steps, NEW l \in steps, k < l, walk[k] = walk[l] PROVE FALSE
  <2> DEFINE x == Ancestor(par, a, k)
             d == l - k
  <2>1. d \in Nat /\ d \in 1..size /\ k + d = l /\ k \in Nat
    BY <1>2, <1>8
  <2>2. x \in C /\ x # NoAccount
    BY <1>4 DEF Forest, Closed
  <2>3. Ancestor(par, a, l) = x
    BY <1>8 DEF walk
  <2>4. Ancestor(par, a, k + d) = Ancestor(par, x, d)
    BY <2>1, WalkGoesOn
  <2> HIDE DEF x, d
  <2>5. Ancestor(par, x, d) = x
    BY <2>1, <2>3, <2>4
  <2>6. x \in Above(par, x)
    BY <2>1, <2>2, <2>5 DEF Above
  <2> QED
    BY <2>2, <2>6 DEF Forest
<1>9. i < j \/ j < i
  BY <1>2, <1>7
<1> QED
  BY <1>7, <1>8, <1>9

(* What is above an account: all that a walk of any length meets.          *)
LEMMA AboveIs ==
  ASSUME NEW C, NEW par, Forest(C, par), NEW a \in C, NEW b
  PROVE  b \in Above(par, a) <=> b # NoAccount /\ \E n \in Nat : b = Ancestor(par, a, n + 1)
<1> DEFINE size == Cardinality(Account)
<1>1. size \in Nat /\ \A k \in 1..size : k - 1 \in Nat /\ (k - 1) + 1 = k
  BY Accounts
<1>2. ASSUME NEW n \in Nat, b = Ancestor(par, a, n + 1), b # NoAccount PROVE n + 1 \in 1..size
  <2>1. n + 1 \in Nat /\ (size <= n + 1 \/ n + 1 \in 1..size)
    BY <1>1
  <2>2. ASSUME size <= n + 1 PROVE FALSE
    BY <1>1, <1>2, <2>1, <2>2, WalkLeaves, WalkEnds
  <2> QED
    BY <2>1, <2>2
<1>3. ASSUME b \in Above(par, a) PROVE b # NoAccount /\ \E n \in Nat : b = Ancestor(par, a, n + 1)
  <2>1. PICK k \in 1..size : b = Ancestor(par, a, k) /\ b # NoAccount
    BY <1>3 DEF Above
  <2> QED
    BY <1>1, <2>1
<1>4. ASSUME b # NoAccount, NEW n \in Nat, b = Ancestor(par, a, n + 1) PROVE b \in Above(par, a)
  <2>1. n + 1 \in 1..size
    BY <1>2, <1>4
  <2> QED
    BY <1>4, <2>1 DEF Above
<1> QED
  BY <1>3, <1>4

(* What is above an account that is above another is above that one.       *)
LEMMA AboveAbove ==
  ASSUME NEW C, NEW par, Forest(C, par), NEW a \in C, NEW b \in Above(par, a), NEW c \in Above(par, b)
  PROVE  b \in C /\ c \in C /\ c \in Above(par, a)
<1>1. b \in C
  BY AboveStays DEF Forest
<1>2. c \in C
  BY <1>1, AboveStays DEF Forest
<1>3. PICK m \in Nat : b = Ancestor(par, a, m + 1)
  BY AboveIs
<1>4. PICK n \in Nat : c = Ancestor(par, b, n + 1)
  BY <1>1, AboveIs
<1>5. Ancestor(par, a, (m + 1) + (n + 1)) = Ancestor(par, Ancestor(par, a, m + 1), n + 1)
  <2>1. m + 1 \in Nat /\ n + 1 \in Nat
    OBVIOUS
  <2> QED
    BY <2>1, WalkGoesOn
<1>6. (m + 1) + (n + 1) = (m + n + 1) + 1 /\ m + n + 1 \in Nat
  OBVIOUS
<1>7. c = Ancestor(par, a, (m + n + 1) + 1)
  BY <1>3, <1>4, <1>5, <1>6
<1>8. c # NoAccount
  BY <1>2 DEF Forest, Closed
<1> QED
  BY <1>1, <1>2, <1>6, <1>7, <1>8, AboveIs

(* The first account above another is its parent.                          *)
LEMMA ParentAbove ==
  ASSUME NEW C, NEW par, Forest(C, par), NEW a \in C
  PROVE  /\ par[a] # NoAccount => par[a] \in Above(par, a)
         /\ par[a] = NoAccount => Above(par, a) = {}
<1>1. a # NoAccount
  BY DEF Forest, Closed
<1>2. Ancestor(par, a, 0 + 1) = par[a]
  <2>1. Ancestor(par, a, 0 + 1) = Up(par, Ancestor(par, a, 0)) /\ Ancestor(par, a, 0) = a
    BY AncestorIs
  <2> QED
    BY <1>1, <2>1 DEF Up
<1>3. par[a] # NoAccount => par[a] \in Above(par, a)
  BY <1>2, AboveIs
<1>4. ASSUME par[a] = NoAccount, NEW b \in Above(par, a) PROVE FALSE
  <2>1. PICK n \in Nat : b = Ancestor(par, a, n + 1) /\ b # NoAccount
    BY AboveIs
  <2>2. 1 \in Nat /\ n + 1 \in Nat /\ 1 <= n + 1 /\ 0 + 1 = 1
    OBVIOUS
  <2>3. Ancestor(par, a, 1) = NoAccount
    BY <1>2, <1>4, <2>2
  <2> QED
    BY <2>1, <2>2, <2>3, WalkEnds
<1> QED
  BY <1>3, <1>4

(* Every account is under exactly one without a parent, or is it.          *)
LEMMA Top ==
  ASSUME NEW C, NEW par, Forest(C, par), NEW a \in C
  PROVE  /\ \E r \in C : (r = a \/ r \in Above(par, a)) /\ par[r] = NoAccount
         /\ \A r, s \in C : /\ (r = a \/ r \in Above(par, a)) /\ par[r] = NoAccount
                            /\ (s = a \/ s \in Above(par, a)) /\ par[s] = NoAccount
                            => r = s
<1> DEFINE walk(n) == Ancestor(par, a, n)
           ends == {n \in Nat : walk(n) = NoAccount}
<1>0. /\ walk(0) = a /\ a # NoAccount
      /\ \A n \in Nat : walk(n + 1) = Up(par, walk(n)) /\ walk(n) \in C \cup {NoAccount}
      /\ \A m \in Nat : walk(m) = NoAccount => \A n \in Nat : m <= n => walk(n) = NoAccount
  <2>1. walk(0) = a /\ \A n \in Nat : walk(n + 1) = Up(par, walk(n))
    BY AncestorIs
  <2>2. a # NoAccount /\ Closed(C, par)
    BY DEF Forest, Closed
  <2>3. \A n \in Nat : walk(n) \in C \cup {NoAccount}
    BY <2>2, WalksStay
  <2>4. \A m \in Nat : walk(m) = NoAccount => \A n \in Nat : m <= n => walk(n) = NoAccount
    BY WalkEnds
  <2> HIDE DEF walk
  <2> QED
    BY <2>1, <2>2, <2>3, <2>4
<1>1. \A r \in C : (r = a \/ r \in Above(par, a)) <=> \E n \in Nat : r = walk(n)
  <2>1. ASSUME NEW r \in C PROVE (r = a \/ r \in Above(par, a)) <=> \E n \in Nat : r = walk(n)
    <3>1. r # NoAccount
      BY DEF Forest, Closed
    <3>2. \A n \in Nat : n = 0 \/ (n - 1 \in Nat /\ (n - 1) + 1 = n)
      OBVIOUS
    <3>3. r \in Above(par, a) <=> \E n \in Nat : r = walk(n + 1)
      BY <3>1, AboveIs
    <3> HIDE DEF walk
    <3> QED
      BY <1>0, <3>2, <3>3
  <2> QED
    BY <2>1
<1>2. ends \subseteq Nat /\ ends # {}
  <2>1. Cardinality(Account) \in ends
    BY Accounts, WalkLeaves
  <2> QED
    BY <2>1
<1> HIDE DEF walk
<1>3. PICK e \in ends : \A n \in ends : e <= n
  BY <1>2, Least
<1>4. e \in Nat /\ e # 0 /\ e - 1 \in Nat /\ (e - 1) + 1 = e /\ ~(e <= e - 1)
  BY <1>0, <1>3
<1>5. walk(e - 1) \in C /\ par[walk(e - 1)] = NoAccount
  <2>1. walk(e - 1) # NoAccount
    BY <1>3, <1>4
  <2>2. walk(e) = Up(par, walk(e - 1)) /\ walk(e) = NoAccount
    BY <1>0, <1>3, <1>4
  <2> QED
    BY <1>0, <1>4, <2>1, <2>2 DEF Up
<1>6. ASSUME NEW r \in C, NEW s \in C, NEW m \in Nat, NEW n \in Nat, r = walk(m), s = walk(n),
             par[r] = NoAccount, m < n
      PROVE  FALSE
  <2>1. m + 1 \in Nat /\ m + 1 <= n /\ r # NoAccount /\ s # NoAccount
    BY <1>6 DEF Forest, Closed
  <2>2. walk(m + 1) = NoAccount
    BY <1>0, <1>6, <2>1 DEF Up
  <2> QED
    BY <1>0, <1>6, <2>1, <2>2
<1>7. ASSUME NEW r \in C, NEW s \in C, r = a \/ r \in Above(par, a), par[r] = NoAccount,
             s = a \/ s \in Above(par, a), par[s] = NoAccount
      PROVE  r = s
  <2>1. PICK m \in Nat : r = walk(m)
    BY <1>1, <1>7
  <2>2. PICK n \in Nat : s = walk(n)
    BY <1>1, <1>7
  <2>3. ~(m < n)
    BY <1>6, <1>7, <2>1, <2>2
  <2>4. ~(n < m)
    BY <1>6, <1>7, <2>1, <2>2
  <2>5. m = n
    BY <2>3, <2>4
  <2> QED
    BY <2>1, <2>2, <2>5
<1>8. \E r \in C : (r = a \/ r \in Above(par, a)) /\ par[r] = NoAccount
  <2> DEFINE top == walk(e - 1)
  <2>1. top \in C /\ par[top] = NoAccount /\ \E n \in Nat : top = walk(n)
    BY <1>4, <1>5
  <2> HIDE DEF top
  <2>2. top = a \/ top \in Above(par, a)
    BY <1>1, <2>1
  <2> QED
    BY <2>1, <2>2
<1>9. \A r, s \in C : /\ (r = a \/ r \in Above(par, a)) /\ par[r] = NoAccount
                     /\ (s = a \/ s \in Above(par, a)) /\ par[s] = NoAccount
                     => r = s
  BY <1>7, Zenon
<1> QED
  BY <1>8, <1>9, Zenon
-----------------------------------------------------------------------------
(* Lines of entries, and what they add up to.                              *)

LineDebits(lines) == SumFunction([x \in lines |-> x[2].debit])
LineCredits(lines) == SumFunction([x \in lines |-> x[2].credit])
Mine(lines, a) == {x \in lines : x[2].account = a}
SumsOf(lines) ==
  [a \in Account |-> [debits |-> LineDebits(Mine(lines, a)), credits |-> LineCredits(Mine(lines, a))]]

(* The lines of an entry, and its totals.                                  *)
LinesIn(e) == {e} \X Voucher[e].lines

(* Entries have finitely many lines, of amounts that are not both zero.    *)
LEMMA LineFacts ==
  ASSUME NEW E \in SUBSET Entry
  PROVE  /\ IsFiniteSet(E) /\ IsFiniteSet(LinesOf(E))
         /\ \A e \in E : IsFiniteSet(LinesIn(e)) /\ LinesIn(e) \subseteq LinesOf(E)
         /\ \A x \in LinesOf(E) : /\ x[1] \in E /\ x[2] \in Voucher[x[1]].lines /\ x \in LinesIn(x[1])
                                  /\ x[2].account \in Account
                                  /\ x[2].debit \in Nat /\ x[2].credit \in Nat
                                  /\ x[2].debit + x[2].credit > 0
<1> DEFINE sets == {LinesIn(e) : e \in E}
           to == [e \in E |-> LinesIn(e)]
<1>1. IsFiniteSet(E)
  BY TrialBalanceAssumption, FS_Subset
<1>2. \A e \in E : IsFiniteSet(LinesIn(e))
  <2>1. ASSUME NEW e \in E PROVE IsFiniteSet(LinesIn(e))
    <3>1. IsFiniteSet({e}) /\ IsFiniteSet(Voucher[e].lines)
      BY TrialBalanceAssumption, FS_Singleton
    <3> QED
      BY <3>1, FS_Product DEF LinesIn
  <2> QED
    BY <2>1
<1>3. to \in Surjection(E, sets)
  BY DEF Surjection
<1>4. IsFiniteSet(sets)
  BY <1>1, <1>3, FS_Surjection
<1>5. LinesOf(E) = UNION sets
  BY DEF LinesOf, LinesIn
<1>6. IsFiniteSet(LinesOf(E))
  <2>1. \A T \in sets : IsFiniteSet(T)
    BY <1>2
  <2> HIDE DEF sets
  <2> QED
    BY <1>4, <1>5, <2>1, FS_UNION
<1>7. \A e \in E : LinesIn(e) \subseteq LinesOf(E)
  BY <1>5
<1>8. ASSUME NEW x \in LinesOf(E)
      PROVE  x[1] \in E /\ x[2] \in Voucher[x[1]].lines /\ x \in LinesIn(x[1])
  BY <1>5 DEF LinesIn
<1>9. ASSUME NEW x \in LinesOf(E)
      PROVE  /\ x[2].account \in Account /\ x[2].debit \in Nat /\ x[2].credit \in Nat
             /\ x[2].debit + x[2].credit > 0
  <2>1. x[1] \in Entry /\ x[2] \in Voucher[x[1]].lines
    BY <1>8
  <2> QED
    BY <2>1, TrialBalanceAssumption
<1> QED
  BY <1>1, <1>2, <1>6, <1>7, <1>8, <1>9

(* The sums of some of the lines.                                          *)
LEMMA LineSums ==
  ASSUME NEW E \in SUBSET Entry, NEW L \in SUBSET LinesOf(E)
  PROVE  /\ IsFiniteSet(L) /\ LineDebits(L) \in Nat /\ LineCredits(L) \in Nat
         /\ \A x \in L : x[2].debit <= LineDebits(L) /\ x[2].credit <= LineCredits(L)
<1> DEFINE d == [x \in L |-> x[2].debit]
           c == [x \in L |-> x[2].credit]
<1>1. IsFiniteSet(L) /\ \A x \in L : x[2].debit \in Nat /\ x[2].credit \in Nat
  BY LineFacts, FS_Subset
<1>2. (\A x \in L : d[x] \in Nat /\ d[x] = x[2].debit) /\ LineDebits(L) = SumFunctionOnSet(d, L)
  BY <1>1 DEF LineDebits, SumFunction
<1>3. (\A x \in L : c[x] \in Nat /\ c[x] = x[2].credit) /\ LineCredits(L) = SumFunctionOnSet(c, L)
  BY <1>1 DEF LineCredits, SumFunction
<1> HIDE DEF d, c
<1>4. SumFunctionOnSet(d, L) \in Nat /\ \A x \in L : d[x] <= SumFunctionOnSet(d, L)
  BY <1>1, <1>2, SumNat
<1>5. SumFunctionOnSet(c, L) \in Nat /\ \A x \in L : c[x] <= SumFunctionOnSet(c, L)
  BY <1>1, <1>3, SumNat
<1> QED
  BY <1>1, <1>2, <1>3, <1>4, <1>5

(* The lines of entries each of which balances have the same debits as     *)
(* credits.                                                                *)
LEMMA EntriesBalance ==
  ASSUME NEW E \in SUBSET Entry,
         \A e \in E : Debits(Voucher[e].lines) = Credits(Voucher[e].lines)
  PROVE  LineDebits(LinesOf(E)) = LineCredits(LinesOf(E))
<1> DEFINE L == LinesOf(E)
           d == [x \in L |-> x[2].debit]
           c == [x \in L |-> x[2].credit]
           part == [e \in E |-> LinesIn(e)]
           total == [e \in E |-> Debits(Voucher[e].lines)]
<1>1. ASSUME NEW e \in E
      PROVE  /\ LinesIn(e) \subseteq L
             /\ total[e] = SumFunctionOnSet(d, LinesIn(e))
             /\ total[e] = SumFunctionOnSet(c, LinesIn(e))
  <2> DEFINE S == LinesIn(e)
             T == Voucher[e].lines
             to == [x \in S |-> x[2]]
             f == [l \in T |-> l.debit]
             g == [l \in T |-> l.credit]
  <2>1. IsFiniteSet(S) /\ S \subseteq L /\ IsFiniteSet(T)
    BY <1>1, LineFacts, TrialBalanceAssumption
  <2>2. \A l \in T : l.debit \in Int /\ l.credit \in Int
    BY <1>1, TrialBalanceAssumption
  <2>3. \A x \in S : x[2] \in T /\ x = <<e, x[2]>>
    BY DEF LinesIn
  <2>4. \A l \in T : <<e, l>> \in S /\ to[<<e, l>>] = l
    BY DEF LinesIn
  <2>5. \A x \in S : to[x] \in T /\ to[x] = x[2]
    BY <2>3
  <2>6. \A x \in S : d[x] = x[2].debit /\ c[x] = x[2].credit
    BY <2>1
  <2>7. \A l \in T : f[l] = l.debit /\ g[l] = l.credit
    OBVIOUS
  <2>8. /\ Debits(T) = SumFunctionOnSet(f, T)
        /\ Credits(T) = SumFunctionOnSet(g, T)
    BY DEF Debits, Credits, SumFunction
  <2>9. total[e] = Debits(T) /\ Debits(T) = Credits(T)
    BY <1>1
  <2>10. \A l \in T : \E x \in S : to[x] = l
    BY <2>4
  <2>11. \A x, y \in S : to[x] = to[y] => x = y
    BY <2>3, <2>5
  <2> HIDE DEF S, T, to, f, g, d, c, total
  <2>12. \A x \in S : d[x] \in Int /\ to[x] \in T /\ f[to[x]] = d[x]
    BY <2>2, <2>5, <2>6, <2>7
  <2>13. \A x \in S : c[x] \in Int /\ to[x] \in T /\ g[to[x]] = c[x]
    BY <2>2, <2>5, <2>6, <2>7
  <2>14. SumFunctionOnSet(d, S) = SumFunctionOnSet(f, T)
    BY <2>1, <2>10, <2>11, <2>12, SumRenamed
  <2>15. SumFunctionOnSet(c, S) = SumFunctionOnSet(g, T)
    BY <2>1, <2>10, <2>11, <2>13, SumRenamed
  <2> QED
    BY <2>1, <2>8, <2>9, <2>14, <2>15 DEF S
<1>2. IsFiniteSet(L) /\ IsFiniteSet(E)
  BY LineFacts
<1>3. ASSUME NEW x \in L
      PROVE  d[x] \in Int /\ c[x] \in Int /\ x[1] \in E /\ x \in part[x[1]]
  BY LineFacts
<1>4. \A e, f \in E : e # f => part[e] \cap part[f] = {}
  BY DEF LinesIn
<1>5. \A e \in E : part[e] = LinesIn(e)
  OBVIOUS
<1>6. LineDebits(L) = SumFunctionOnSet(d, L) /\ LineCredits(L) = SumFunctionOnSet(c, L)
  BY DEF LineDebits, LineCredits, SumFunction
<1> HIDE DEF L, d, c, part, total
<1>7. Splits(d, L, total, E, part) /\ Splits(c, L, total, E, part)
  BY <1>1, <1>3, <1>4, <1>5 DEF Splits
<1>8. SumFunctionOnSet(d, L) = SumFunctionOnSet(total, E)
  BY <1>2, <1>7, SumParts
<1>9. SumFunctionOnSet(c, L) = SumFunctionOnSet(total, E)
  BY <1>2, <1>7, SumParts
<1> QED
  BY <1>6, <1>8, <1>9 DEF L

(* The sums of the accounts in V add up to the totals of the lines, when   *)
(* every line is on an account of V.                                       *)
LEMMA AccountsAddUp ==
  ASSUME NEW E \in SUBSET Entry, NEW V \in SUBSET Account,
         \A x \in LinesOf(E) : x[2].account \in V
  PROVE  /\ SumFunction([a \in V |-> SumsOf(LinesOf(E))[a].debits]) = LineDebits(LinesOf(E))
         /\ SumFunction([a \in V |-> SumsOf(LinesOf(E))[a].credits]) = LineCredits(LinesOf(E))
<1> DEFINE L == LinesOf(E)
           d == [x \in L |-> x[2].debit]
           c == [x \in L |-> x[2].credit]
           part == [a \in V |-> Mine(L, a)]
           debits == [a \in V |-> SumsOf(L)[a].debits]
           credits == [a \in V |-> SumsOf(L)[a].credits]
<1>1. ASSUME NEW a \in V
      PROVE  /\ part[a] \subseteq L
             /\ debits[a] = SumFunctionOnSet(d, part[a])
             /\ credits[a] = SumFunctionOnSet(c, part[a])
  <2> DEFINE M == Mine(L, a)
             f == [x \in M |-> x[2].debit]
             g == [x \in M |-> x[2].credit]
  <2>1. M \subseteq L /\ part[a] = M /\ IsFiniteSet(M)
    BY LineSums DEF Mine
  <2>2. debits[a] = SumFunctionOnSet(f, M) /\ credits[a] = SumFunctionOnSet(g, M)
    BY DEF SumsOf, LineDebits, LineCredits, SumFunction
  <2>3. \A x \in M : f[x] = d[x] /\ g[x] = c[x]
    BY <2>1
  <2> HIDE DEF M, f, g, d, c, part, debits, credits, L
  <2>4. SumFunctionOnSet(f, M) = SumFunctionOnSet(d, M)
    BY <2>1, <2>3, SumSame
  <2>5. SumFunctionOnSet(g, M) = SumFunctionOnSet(c, M)
    BY <2>1, <2>3, SumSame
  <2> QED
    BY <2>1, <2>2, <2>4, <2>5
<1>2. IsFiniteSet(L) /\ IsFiniteSet(V)
  BY LineFacts, TrialBalanceAssumption, FS_Subset
<1>3. ASSUME NEW x \in L
      PROVE  d[x] \in Int /\ c[x] \in Int /\ \E a \in V : x \in part[a]
  <2>1. x[2].account \in V /\ x \in part[x[2].account]
    BY DEF Mine
  <2>2. x[2].debit \in Nat /\ x[2].credit \in Nat
    BY LineFacts
  <2> QED
    BY <2>1, <2>2
<1>4. \A a, b \in V : a # b => part[a] \cap part[b] = {}
  BY DEF Mine
<1>5. /\ LineDebits(L) = SumFunctionOnSet(d, L) /\ LineCredits(L) = SumFunctionOnSet(c, L)
      /\ SumFunction(debits) = SumFunctionOnSet(debits, V)
      /\ SumFunction(credits) = SumFunctionOnSet(credits, V)
  BY DEF LineDebits, LineCredits, SumFunction
<1> HIDE DEF d, c, part, debits, credits
<1>6. Splits(d, L, debits, V, part) /\ Splits(c, L, credits, V, part)
  BY <1>1, <1>3, <1>4 DEF Splits
<1> HIDE DEF L
<1>7. SumFunctionOnSet(d, L) = SumFunctionOnSet(debits, V)
  BY <1>2, <1>6, SumParts
<1>8. SumFunctionOnSet(c, L) = SumFunctionOnSet(credits, V)
  BY <1>2, <1>6, SumParts
<1> QED
  BY <1>5, <1>7, <1>8 DEF L, debits, credits

(* An account with a line has activity.                                    *)
LEMMA LineIsActivity ==
  ASSUME NEW E \in SUBSET Entry, NEW x \in LinesOf(E)
  PROVE  \/ SumsOf(LinesOf(E))[x[2].account].debits # 0
         \/ SumsOf(LinesOf(E))[x[2].account].credits # 0
<1> DEFINE a == x[2].account
           M == Mine(LinesOf(E), a)
<1>1. /\ M \in SUBSET LinesOf(E) /\ x \in M /\ a \in Account
      /\ x[2].debit \in Nat /\ x[2].credit \in Nat /\ x[2].debit + x[2].credit > 0
  BY LineFacts DEF Mine
<1>2. /\ SumsOf(LinesOf(E))[a].debits = LineDebits(M)
      /\ SumsOf(LinesOf(E))[a].credits = LineCredits(M)
  BY <1>1 DEF SumsOf
<1> HIDE DEF M, a
<1>3. /\ LineDebits(M) \in Nat /\ LineCredits(M) \in Nat
      /\ x[2].debit <= LineDebits(M) /\ x[2].credit <= LineCredits(M)
  BY <1>1, LineSums
<1>4. LineDebits(M) # 0 \/ LineCredits(M) # 0
  BY <1>1, <1>3
<1> QED
  BY <1>2, <1>4 DEF a

(* When the debits of some accounts add up to their credits, the balances  *)
(* of those in D on the debit side add up to those of the others on the    *)
(* credit side.                                                            *)
LEMMA TwoSides ==
  ASSUME NEW V, IsFiniteSet(V), NEW D \in SUBSET V, NEW sums, NEW own,
         \A a \in V : sums[a].debits \in Nat /\ sums[a].credits \in Nat,
         SumFunction([a \in V |-> sums[a].debits]) = SumFunction([a \in V |-> sums[a].credits]),
         \A a \in D : own[a] = sums[a].debits - sums[a].credits,
         \A a \in V \ D : own[a] = sums[a].credits - sums[a].debits
  PROVE  SumFunctionOnSet(own, D) = SumFunctionOnSet(own, V \ D)
<1> DEFINE d == [a \in V |-> sums[a].debits]
           c == [a \in V |-> sums[a].credits]
           O == V \ D
<1>1. IsFiniteSet(D) /\ IsFiniteSet(O) /\ D \cap O = {} /\ D \cup O = V
  BY FS_Subset
<1>2. SumFunctionOnSet(d, V) = SumFunctionOnSet(c, V)
  BY DEF SumFunction
<1>3. \A a \in V : d[a] \in Int /\ c[a] \in Int /\ d[a] = sums[a].debits /\ c[a] = sums[a].credits
  OBVIOUS
<1> HIDE DEF d, c
<1>4. \A a \in D : d[a] \in Int /\ c[a] \in Int /\ own[a] = d[a] - c[a]
  BY <1>3
<1>5. \A a \in O : c[a] \in Int /\ d[a] \in Int /\ own[a] = c[a] - d[a]
  BY <1>3
<1> HIDE DEF O
<1>6. SumFunctionOnSet(own, D) = SumFunctionOnSet(d, D) - SumFunctionOnSet(c, D)
  BY <1>1, <1>4, SumMinus
<1>7. SumFunctionOnSet(own, O) = SumFunctionOnSet(c, O) - SumFunctionOnSet(d, O)
  BY <1>1, <1>5, SumMinus
<1>8. SumFunctionOnSet(d, D \cup O) = SumFunctionOnSet(d, D) + SumFunctionOnSet(d, O)
  <2>1. \A x \in D \cup O : d[x] \in Int
    BY <1>1, <1>3
  <2> QED
    BY <1>1, <2>1, SumUnion
<1>9. SumFunctionOnSet(c, D \cup O) = SumFunctionOnSet(c, D) + SumFunctionOnSet(c, O)
  <2>1. \A x \in D \cup O : c[x] \in Int
    BY <1>1, <1>3
  <2> QED
    BY <1>1, <2>1, SumUnion
<1>10. /\ SumFunctionOnSet(d, D) \in Int /\ SumFunctionOnSet(d, O) \in Int
       /\ SumFunctionOnSet(c, D) \in Int /\ SumFunctionOnSet(c, O) \in Int
  BY <1>1, <1>4, <1>5, SumRemove
<1> QED
  <2>1. SumFunctionOnSet(d, D) + SumFunctionOnSet(d, O) = SumFunctionOnSet(c, D) + SumFunctionOnSet(c, O)
    BY <1>1, <1>2, <1>8, <1>9, Zenon
  <2>2. SumFunctionOnSet(d, D) - SumFunctionOnSet(c, D) = SumFunctionOnSet(c, O) - SumFunctionOnSet(d, O)
    BY <1>10, <2>1
  <2> QED
    BY <1>6, <1>7, <2>2, Zenon DEF O
-----------------------------------------------------------------------------
(* The books and the request that reads them.                              *)

ChartRows == [exists : SUBSET Account, parent : [Account -> Account \cup {NoAccount}],
              type : [Account -> Type]]
Sums == [Account -> [debits : Nat, credits : Nat]]
Requests ==
  [pc : {"idle", "prior", "accounts", "done"}, asOf : Date \cup {NoDate}, prior : Date \cup {NoDate},
   types : SUBSET Type, zero : BOOLEAN, now : Sums, before : Sums, known : SUBSET Account,
   chart : ChartRows]

Typed ==
  /\ status \in [Entry -> {"absent", "draft", "posted"}]
  /\ chart \in ChartRows /\ edits \in 0..MaxEdits
  /\ report \in Requests /\ report.known \subseteq report.chart.exists
  /\ report.pc # "idle" => report.asOf \in Date
  /\ truth \in [now : SUBSET Entry, before : SUBSET Entry]

OnAccounts(entries, C) == \A e \in entries : \A l \in Voucher[e].lines : l.account \in C
Written == {e \in Entry : status[e] # "absent"}

\* What other sessions leave behind.
Books ==
  /\ \A e \in Posted : Debits(Voucher[e].lines) = Credits(Voucher[e].lines)
  /\ OnAccounts(Written, chart.exists)
  /\ Closed(chart.exists, chart.parent)
  /\ truth.now \subseteq Posted /\ truth.before \subseteq Posted

\* What a request without a filter has read.
Unfiltered ==
  report.types = Type =>
    /\ report.pc # "idle" => report.now = SumsOf(LinesOf(UpTo(truth.now, report.asOf)))
    /\ report.pc \in {"accounts", "done"} /\ report.prior # NoDate
         => report.before = SumsOf(LinesOf(UpTo(truth.before, report.prior)))
    /\ report.pc = "done" =>
         /\ Closed(report.known, report.chart.parent)
         /\ OnAccounts(truth.now \cup truth.before, report.known)

Inv == Typed /\ Books /\ Unfiltered

(* What a query reads: the sums of the lines of what is posted by then, if *)
(* no type is left out.                                                    *)
LEMMA QueryReads ==
  ASSUME chart \in ChartRows, NEW date, NEW types
  PROVE  /\ AggregateBalances(date, types) \in Sums
         /\ types = Type => AggregateBalances(date, types) = SumsOf(LinesOf(UpTo(Posted, date)))
<1> DEFINE E == UpTo(Posted, date)
           L == LinesRead(date, types)
<1>1. E \in SUBSET Entry /\ L \in SUBSET LinesOf(E)
  BY DEF UpTo, Posted, LinesRead
<1>2. AggregateBalances(date, types) = SumsOf(L)
  BY DEF AggregateBalances, SumsOf, LineDebits, LineCredits, Mine
<1>3. ASSUME types = Type PROVE L = LinesOf(E)
  <2>1. \A x \in LinesOf(E) : x[2].account \in Account
    BY <1>1, LineFacts
  <2>2. \A a \in Account : chart.type[a] \in Type
    BY DEF ChartRows
  <2> QED
    BY <1>3, <2>1, <2>2 DEF LinesRead
<1> HIDE DEF L, E
<1>4. ASSUME NEW a \in Account
      PROVE  LineDebits(Mine(L, a)) \in Nat /\ LineCredits(Mine(L, a)) \in Nat
  <2>1. Mine(L, a) \in SUBSET LinesOf(E)
    BY <1>1 DEF Mine
  <2> QED
    BY <1>1, <2>1, LineSums
<1>5. SumsOf(L) \in Sums
  BY <1>4 DEF SumsOf, Sums
<1> QED
  BY <1>2, <1>3, <1>5 DEF E

(* A sum over no lines.                                                    *)
LEMMA NothingRead == NoSums \in Sums
  BY DEF NoSums, Sums

(* It holds of empty books.                                                *)
LEMMA InitInv == Init => Inv
<1> SUFFICES ASSUME Init PROVE Inv
  OBVIOUS
<1>1. chart \in ChartRows /\ \A a \in chart.exists : chart.parent[a] \in chart.exists \cup {NoAccount}
  BY TrialBalanceAssumption DEF Init, ChartRows
<1>2. Closed(chart.exists, chart.parent)
  <2>1. chart.exists \subseteq Account /\ NoAccount \notin Account
    BY <1>1, Accounts DEF ChartRows
  <2> QED
    BY <1>1, <2>1 DEF Closed
<1>3. Written = {} /\ Posted = {}
  BY DEF Init, Written, Posted
<1>4. report \in Requests /\ report.known = {} /\ report.pc = "idle"
  BY <1>1, NothingRead DEF Init, Requests
<1>5. edits \in 0..MaxEdits
  BY TrialBalanceAssumption DEF Init
<1>6. Typed
  BY <1>1, <1>4, <1>5 DEF Init, Typed
<1>7. Books
  BY <1>2, <1>3 DEF Init, Books, OnAccounts
<1>8. Unfiltered
  BY <1>4 DEF Unfiltered
<1> QED
  BY <1>6, <1>7, <1>8 DEF Inv

(* An entry moves on: drafted on accounts that exist, or posted when it    *)
(* balances.                                                               *)
LEMMA EntryInv ==
  ASSUME Inv, NEW e \in Entry, Draft(e) \/ Post(e)
  PROVE  Inv'
<1>1. /\ status' \in [Entry -> {"absent", "draft", "posted"}]
      /\ UNCHANGED <<chart, edits, report, truth>>
      /\ \A d \in Entry : d # e => status'[d] = status[d]
      /\ Posted \subseteq Posted'
  BY DEF Inv, Typed, Draft, Post, Posted
<1>2. Typed'
  BY <1>1 DEF Inv, Typed
<1>3. \A d \in Posted' : Debits(Voucher[d].lines) = Credits(Voucher[d].lines)
  <2>1. CASE Draft(e)
    <3>1. Posted' \subseteq Posted
      BY <2>1 DEF Draft, Posted, Inv, Typed
    <3> QED
      BY <3>1 DEF Inv, Books
  <2>2. CASE Post(e)
    <3>1. Posted' \subseteq Posted \cup {e} /\ Debits(Voucher[e].lines) = Credits(Voucher[e].lines)
      BY <2>2 DEF Post, Posted, Inv, Typed
    <3> QED
      BY <3>1 DEF Inv, Books
  <2> QED
    BY <2>1, <2>2
<1>4. OnAccounts(Written', chart.exists)
  <2>1. CASE Draft(e)
    <3>1. Written' \subseteq Written \cup {e} /\ \A l \in Voucher[e].lines : l.account \in chart.exists
      BY <2>1 DEF Draft, Written, Inv, Typed
    <3> QED
      BY <3>1 DEF Inv, Books, OnAccounts
  <2>2. CASE Post(e)
    <3>1. Written' \subseteq Written
      BY <2>2 DEF Post, Written, Inv, Typed
    <3> QED
      BY <3>1 DEF Inv, Books, OnAccounts
  <2> QED
    BY <2>1, <2>2
<1>5. Books'
  <2>1. truth.now \subseteq Posted' /\ truth.before \subseteq Posted'
    BY <1>1 DEF Inv, Books
  <2>2. OnAccounts(Written, chart.exists)'
    BY <1>1, <1>4 DEF OnAccounts
  <2>3. Closed(chart.exists, chart.parent)'
    BY <1>1 DEF Inv, Books, Closed
  <2> QED
    BY <1>1, <1>3, <2>1, <2>2, <2>3 DEF Books
<1>6. Unfiltered'
  BY <1>1 DEF Inv, Unfiltered, OnAccounts
<1> QED
  BY <1>2, <1>5, <1>6 DEF Inv

(* An edit of the chart: what it does to the rows, whoever makes it.       *)
LEMMA EditInv ==
  ASSUME Inv, NEW c \in ChartRows, Edit(c), Closed(c.exists, c.parent), OnAccounts(Written, c.exists)
  PROVE  Inv'
<1>1. chart' = c /\ UNCHANGED <<status, report, truth>> /\ edits' = edits + 1 /\ edits < MaxEdits
  BY DEF Edit
<1>2. edits' \in 0..MaxEdits
  BY <1>1, TrialBalanceAssumption DEF Inv, Typed
<1>3. Typed'
  BY <1>1, <1>2 DEF Inv, Typed
<1>4. Posted' = Posted /\ Written' = Written
  BY <1>1 DEF Posted, Written
<1>5. Books'
  <2>1. OnAccounts(Written, chart.exists)'
    BY <1>1, <1>4 DEF OnAccounts
  <2>2. Closed(chart.exists, chart.parent)'
    BY <1>1
  <2> QED
    BY <1>1, <1>4, <2>1, <2>2 DEF Inv, Books
<1>6. Unfiltered'
  BY <1>1 DEF Inv, Unfiltered, OnAccounts
<1> QED
  BY <1>3, <1>5, <1>6 DEF Inv

(* The edits there are keep the chart closed and the lines on accounts.    *)
LEMMA AccountInv ==
  ASSUME Inv, NEW a \in Account, NEW p \in Account \cup {NoAccount}, NEW t \in Type,
         AddRow(a, p, t) \/ EditRow(a, p, t) \/ RemoveRow(a)
  PROVE  Inv'
<1>0. /\ chart \in ChartRows /\ OnAccounts(Written, chart.exists) /\ Closed(chart.exists, chart.parent)
      /\ NoAccount \notin Account
  BY Accounts DEF Inv, Typed, Books
<1>1. CASE AddRow(a, p, t)
  <2> DEFINE c == [chart EXCEPT !.exists = @ \cup {a}, !.parent[a] = p, !.type[a] = t]
  <2>1. /\ c \in ChartRows /\ c.exists = chart.exists \cup {a} /\ c.parent[a] = p
        /\ \A b \in Account : b # a => c.parent[b] = chart.parent[b]
    BY <1>0 DEF ChartRows
  <2>2. Edit(c) /\ p \in chart.exists \cup {NoAccount}
    BY <1>1 DEF AddRow
  <2> HIDE DEF c
  <2>3. Closed(c.exists, c.parent)
    <3>1. chart.exists \subseteq Account
      BY <1>0 DEF ChartRows
    <3> QED
      BY <1>0, <2>1, <2>2, <3>1 DEF Closed
  <2>4. OnAccounts(Written, c.exists)
    BY <1>0, <2>1 DEF OnAccounts
  <2> QED
    BY <2>1, <2>2, <2>3, <2>4, EditInv
<1>2. CASE EditRow(a, p, t)
  <2> DEFINE c == [chart EXCEPT !.parent[a] = p, !.type[a] = t]
  <2>1. /\ c \in ChartRows /\ c.exists = chart.exists /\ c.parent[a] = p
        /\ \A b \in Account : b # a => c.parent[b] = chart.parent[b]
    BY <1>0 DEF ChartRows
  <2>2. Edit(c) /\ p \in chart.exists \cup {NoAccount}
    BY <1>2 DEF EditRow
  <2> HIDE DEF c
  <2>3. Closed(c.exists, c.parent)
    <3>1. chart.exists \subseteq Account
      BY <1>0 DEF ChartRows
    <3> QED
      BY <1>0, <2>1, <2>2, <3>1 DEF Closed
  <2>4. OnAccounts(Written, c.exists)
    BY <1>0, <2>1 DEF OnAccounts
  <2> QED
    BY <2>1, <2>2, <2>3, <2>4, EditInv
<1>3. CASE RemoveRow(a)
  <2> DEFINE c == [chart EXCEPT !.exists = @ \ {a}, !.parent[a] = NoAccount]
  <2>1. /\ c \in ChartRows /\ c.exists = chart.exists \ {a}
        /\ \A b \in Account : b # a => c.parent[b] = chart.parent[b]
    BY <1>0 DEF ChartRows
  <2>2. /\ Edit(c)
        /\ \A b \in chart.exists : chart.parent[b] # a
        /\ \A e \in Written : \A l \in Voucher[e].lines : l.account # a
    BY <1>3 DEF RemoveRow, Written
  <2> HIDE DEF c
  <2>3. Closed(c.exists, c.parent)
    <3>1. chart.exists \subseteq Account
      BY <1>0 DEF ChartRows
    <3> QED
      BY <1>0, <2>1, <2>2, <3>1 DEF Closed
  <2>4. OnAccounts(Written, c.exists)
    BY <1>0, <2>1, <2>2 DEF OnAccounts
  <2> QED
    BY <2>1, <2>2, <2>3, <2>4, EditInv
<1> QED
  BY <1>1, <1>2, <1>3

(* A request comes and reads its first sums.                               *)
LEMMA ReadNowInv ==
  ASSUME Inv, NEW asOf \in Date, NEW prior \in Date \cup {NoDate}, NEW types \in Filters,
         NEW zero \in BOOLEAN, ReadNow(asOf, prior, types, zero)
  PROVE  Inv'
<1> DEFINE sums == AggregateBalances(asOf, types)
<1>1. sums \in Sums /\ (types = Type => sums = SumsOf(LinesOf(UpTo(Posted, asOf))))
  BY QueryReads DEF Inv, Typed
<1>2. /\ report' = [report EXCEPT !.pc = IF prior = NoDate THEN "accounts" ELSE "prior",
                                  !.asOf = asOf, !.prior = prior, !.types = types, !.zero = zero,
                                  !.now = sums]
      /\ truth' = [now |-> Posted, before |-> Posted]
      /\ UNCHANGED <<status, chart, edits>>
  BY DEF ReadNow
<1> HIDE DEF sums
<1>3. types \subseteq Type
  BY TrialBalanceAssumption
<1>4. /\ report' \in Requests /\ report'.known = report.known /\ report'.chart = report.chart
      /\ report'.pc = IF prior = NoDate THEN "accounts" ELSE "prior"
      /\ report'.asOf = asOf /\ report'.prior = prior /\ report'.types = types /\ report'.now = sums
  BY <1>1, <1>2, <1>3 DEF Inv, Typed, Requests
<1>5. Posted' = Posted /\ Written' = Written
  BY <1>2 DEF Posted, Written
<1>6. Typed'
  <2>1. truth' \in [now : SUBSET Entry, before : SUBSET Entry]
    BY <1>2 DEF Posted
  <2> QED
    BY <1>2, <1>4, <2>1 DEF Inv, Typed
<1>7. Books'
  <2>1. OnAccounts(Written, chart.exists)' /\ Closed(chart.exists, chart.parent)'
    BY <1>2, <1>5 DEF Inv, Books, OnAccounts, Closed
  <2> QED
    BY <1>2, <1>5, <2>1 DEF Inv, Books
<1>8. Unfiltered'
  <2>1. truth'.now = Posted
    BY <1>2
  <2>2. types = Type => report'.now = SumsOf(LinesOf(UpTo(truth'.now, asOf)))
    BY <1>1, <1>4, <2>1
  <2>3. report'.pc # "done" /\ ~(report'.pc \in {"accounts", "done"} /\ prior # NoDate)
    BY <1>4
  <2> QED
    BY <1>4, <2>2, <2>3 DEF Unfiltered
<1> QED
  BY <1>6, <1>7, <1>8 DEF Inv

(* It reads the sums of the prior period.                                  *)
LEMMA ReadPriorInv ==
  ASSUME Inv, ReadPrior
  PROVE  Inv'
<1> DEFINE sums == AggregateBalances(report.prior, report.types)
<1>1. sums \in Sums /\ (report.types = Type => sums = SumsOf(LinesOf(UpTo(Posted, report.prior))))
  BY QueryReads DEF Inv, Typed
<1>2. /\ report' = [report EXCEPT !.pc = "accounts", !.before = sums]
      /\ truth' = [truth EXCEPT !.before = Posted]
      /\ UNCHANGED <<status, chart, edits>> /\ report.pc = "prior"
  BY DEF ReadPrior
<1> HIDE DEF sums
<1>4. /\ report' \in Requests /\ report'.known = report.known /\ report'.chart = report.chart
      /\ report'.pc = "accounts" /\ report'.before = sums /\ report'.now = report.now
      /\ report'.asOf = report.asOf /\ report'.prior = report.prior /\ report'.types = report.types
  BY <1>1, <1>2 DEF Inv, Typed, Requests
<1>5. Posted' = Posted /\ Written' = Written
  BY <1>2 DEF Posted, Written
<1>6. truth'.now = truth.now /\ truth'.before = Posted
      /\ truth' \in [now : SUBSET Entry, before : SUBSET Entry]
  <2>1. Posted \in SUBSET Entry
    BY DEF Posted
  <2> QED
    BY <1>2, <2>1 DEF Inv, Typed
<1>7. Typed'
  BY <1>2, <1>4, <1>6 DEF Inv, Typed
<1>8. Books'
  <2>1. OnAccounts(Written, chart.exists)' /\ Closed(chart.exists, chart.parent)'
    BY <1>2, <1>5 DEF Inv, Books, OnAccounts, Closed
  <2> QED
    BY <1>2, <1>5, <1>6, <2>1 DEF Inv, Books
<1>9. Unfiltered'
  <2>1. report.types = Type => report.now = SumsOf(LinesOf(UpTo(truth.now, report.asOf)))
    BY <1>2 DEF Inv, Unfiltered
  <2>2. report.types = Type => report'.before = SumsOf(LinesOf(UpTo(truth'.before, report.prior)))
    BY <1>1, <1>4, <1>6
  <2> QED
    BY <1>4, <1>6, <2>1, <2>2 DEF Unfiltered
<1> QED
  BY <1>7, <1>8, <1>9 DEF Inv

(* It reads the accounts: every line it has summed up is on one of them.   *)
LEMMA ReadAccountsInv ==
  ASSUME Inv, ReadAccounts
  PROVE  Inv'
<1> DEFINE known == {a \in chart.exists : chart.type[a] \in report.types}
<1>1. /\ report' = [report EXCEPT !.pc = "done", !.chart = chart, !.known = known]
      /\ UNCHANGED <<status, chart, edits, truth>> /\ report.pc = "accounts"
  BY DEF ReadAccounts
<1>2. known \subseteq chart.exists /\ chart.exists \subseteq Account
      /\ (report.types = Type => known = chart.exists)
  BY DEF Inv, Typed, ChartRows
<1> HIDE DEF known
<1>3. /\ report' \in Requests /\ report'.known = known /\ report'.chart = chart
      /\ report'.pc = "done" /\ report'.before = report.before /\ report'.now = report.now
      /\ report'.asOf = report.asOf /\ report'.prior = report.prior /\ report'.types = report.types
  BY <1>1, <1>2 DEF Inv, Typed, Requests
<1>4. Posted' = Posted /\ Written' = Written
  BY <1>1 DEF Posted, Written
<1>5. Typed'
  BY <1>1, <1>2, <1>3 DEF Inv, Typed
<1>6. Books'
  <2>1. OnAccounts(Written, chart.exists)' /\ Closed(chart.exists, chart.parent)'
    BY <1>1, <1>4 DEF Inv, Books, OnAccounts, Closed
  <2> QED
    BY <1>1, <1>4, <2>1 DEF Inv, Books
<1>7. Unfiltered'
  <2> SUFFICES ASSUME report.types = Type PROVE Unfiltered'
    BY <1>3 DEF Unfiltered
  <2>1. report.now = SumsOf(LinesOf(UpTo(truth.now, report.asOf)))
    BY <1>1 DEF Inv, Unfiltered
  <2>2. report.prior # NoDate => report.before = SumsOf(LinesOf(UpTo(truth.before, report.prior)))
    BY <1>1 DEF Inv, Unfiltered
  <2>3. Closed(report.known, report.chart.parent)'
    BY <1>2, <1>3 DEF Inv, Books
  <2>4. OnAccounts(truth.now \cup truth.before, known)
    <3>1. truth.now \cup truth.before \subseteq Written
      BY DEF Inv, Books, Posted, Written
    <3> QED
      BY <1>2, <3>1 DEF Inv, Books, OnAccounts
  <2>5. OnAccounts(truth.now \cup truth.before, report.known)'
    BY <1>1, <1>3, <2>4 DEF OnAccounts
  <2> QED
    BY <1>1, <1>3, <2>1, <2>2, <2>3, <2>5 DEF Unfiltered
<1> QED
  BY <1>5, <1>6, <1>7 DEF Inv

(* Every step keeps it.                                                    *)
LEMMA NextInv == Inv /\ [Next]_vars => Inv'
<1> SUFFICES ASSUME Inv, [Next]_vars PROVE Inv'
  OBVIOUS
<1>1. CASE \E e \in Entry : Draft(e) \/ Post(e)
  BY <1>1, EntryInv
<1>2. CASE \E a \in Account, p \in Account \cup {NoAccount}, t \in Type :
             AddRow(a, p, t) \/ EditRow(a, p, t)
  BY <1>2, AccountInv
<1>3. CASE \E a \in Account : RemoveRow(a)
  <2>1. PICK a \in Account : RemoveRow(a)
    BY <1>3
  <2>2. chart.type[a] \in Type /\ NoAccount \in Account \cup {NoAccount}
    BY DEF Inv, Typed, ChartRows
  <2> QED
    BY <2>1, <2>2, AccountInv
<1>4. CASE \E asOf \in Date, prior \in Date \cup {NoDate}, types \in Filters, zero \in BOOLEAN :
             ReadNow(asOf, prior, types, zero)
  BY <1>4, ReadNowInv
<1>5. CASE ReadPrior
  BY <1>5, ReadPriorInv
<1>6. CASE ReadAccounts
  BY <1>6, ReadAccountsInv
<1>7. CASE UNCHANGED vars
  <2>1. Typed'
    BY <1>7 DEF vars, Inv, Typed
  <2>2. Books'
    BY <1>7 DEF vars, Inv, Books, Posted, Written, OnAccounts, Closed
  <2>3. Unfiltered'
    BY <1>7 DEF vars, Inv, Unfiltered, OnAccounts
  <2> QED
    BY <2>1, <2>2, <2>3 DEF Inv
<1> QED
  BY <1>1, <1>2, <1>3, <1>4, <1>5, <1>6, <1>7 DEF Next

(* So it holds of the books, and of a report, at any time.                 *)
THEOREM BooksInvariant == Spec => []Inv
<1>1. Init => Inv
  BY InitInv
<1>2. Inv /\ [Next]_vars => Inv'
  BY NextInv
<1> QED
  BY <1>1, <1>2, PTL DEF Spec

(* Types, whoever edits the chart and whatever a request asks for.         *)
THEOREM BooksTypes == Spec => []TypeOK
<1>1. Inv => TypeOK
  BY DEF Inv, Typed, TypeOK, ChartRows, Requests, Sums
<1> QED
  BY <1>1, BooksInvariant, PTL
-----------------------------------------------------------------------------
(* A finished report over a chart without a cycle.                         *)

\* The accounts under a in the report's chart, a itself included.
Under(C, a) == {b \in C : b = a \/ a \in Above(report.chart.parent, b)}

(* What is read makes a forest, and every posted line up to the date is on *)
(* an account with activity in it.                                         *)
LEMMA ReadForest ==
  ASSUME Inv, Whole
  PROVE  /\ Forest(report.known, report.chart.parent) /\ IsFiniteSet(report.known)
         /\ report.now = SumsOf(LinesOf(UpTo(truth.now, report.asOf)))
         /\ report.prior # NoDate => report.before = SumsOf(LinesOf(UpTo(truth.before, report.prior)))
         /\ OnAccounts(truth.now \cup truth.before, report.known)
<1>1. report.known \subseteq Account
  BY DEF Inv, Typed, Requests
<1>2. IsFiniteSet(report.known)
  BY <1>1, Accounts, FS_Subset
<1>3. /\ Closed(report.known, report.chart.parent)
      /\ report.now = SumsOf(LinesOf(UpTo(truth.now, report.asOf)))
      /\ report.prior # NoDate => report.before = SumsOf(LinesOf(UpTo(truth.before, report.prior)))
      /\ OnAccounts(truth.now \cup truth.before, report.known)
  BY DEF Inv, Unfiltered, Whole
<1>4. \A a \in report.known : a \notin Above(report.chart.parent, a)
  BY DEF Whole
<1> QED
  BY <1>1, <1>2, <1>3, <1>4 DEF Forest

(* The parents the report works with are the chart's.                      *)
LEMMA ParentIs ==
  ASSUME Inv, Whole, NEW a \in report.known
  PROVE  /\ Parent[a] = report.chart.parent[a]
         /\ Above(Parent, a) = Above(report.chart.parent, a)
<1>1. Forest(report.known, report.chart.parent)
  BY ReadForest
<1>2. \A b \in report.known : Parent[b] = report.chart.parent[b]
  BY <1>1 DEF Forest, Closed, Parent
<1>3. Above(Parent, a) = Above(report.chart.parent, a)
  BY <1>1, <1>2, AboveStays DEF Forest
<1> QED
  BY <1>2, <1>3

(* What is shown: accounts that were read, those with activity among them, *)
(* and with an account everything above it.                                *)
LEMMA ShownIs ==
  ASSUME Inv, Whole
  PROVE  /\ Visible \subseteq report.known /\ Active \subseteq Visible
         /\ \A a \in Visible : Above(report.chart.parent, a) \subseteq Visible
         /\ \A a \in Active : Above(report.chart.parent, a) \subseteq Visible
<1> DEFINE par == report.chart.parent
           C == report.known
<1>1. Forest(C, par)
  BY ReadForest
<1>2. \A a \in C : Above(par, a) \subseteq C
  BY <1>1, AboveStays DEF Forest
<1>3. Active \subseteq C
  BY DEF Active
<1>4. Visible = IF report.zero THEN C ELSE Active \cup UNION {Above(par, a) : a \in Active}
  <2>1. \A a \in Active : Above(Parent, a) = Above(par, a)
    BY <1>3, ParentIs
  <2> QED
    BY <2>1 DEF Visible
<1>5. ASSUME NEW a \in C, NEW b \in Above(par, a) PROVE Above(par, b) \subseteq Above(par, a)
  BY <1>1, <1>5, AboveAbove
<1> HIDE DEF par, C
<1>6. CASE report.zero
  BY <1>2, <1>3, <1>4, <1>6 DEF par, C
<1>7. CASE ~report.zero
  <2>1. Visible = Active \cup UNION {Above(par, a) : a \in Active}
    BY <1>4, <1>7
  <2>2. \A a \in Active : Above(par, a) \subseteq Visible
    BY <2>1
  <2>3. \A b \in Visible : b \in Active \/ \E a \in Active : b \in Above(par, a)
    BY <2>1
  <2>4. \A b \in Visible : Above(par, b) \subseteq Visible
    BY <1>3, <1>5, <2>2, <2>3
  <2> QED
    BY <1>2, <1>3, <2>1, <2>2, <2>4 DEF par, C
<1> QED
  BY <1>6, <1>7

(* The rows are what is shown, each under its parent in the chart: no      *)
(* account that is shown is on no page.                                    *)
LEMMA RowsAre ==
  ASSUME Inv, Whole
  PROVE  /\ Forest(Visible, report.chart.parent) /\ IsFiniteSet(Visible) /\ Visible \subseteq Account
         /\ \A a \in Visible : RowParent[a] = report.chart.parent[a]
         /\ Roots = {a \in Visible : report.chart.parent[a] = NoAccount}
         /\ \A a : Beneath(a) = Under(Visible, a)
         /\ Rows = Visible
<1> DEFINE par == report.chart.parent
           C == report.known
           V == Visible
<1>1. Forest(C, par) /\ IsFiniteSet(C)
  BY ReadForest
<1>2. V \subseteq C /\ \A a \in V : Above(par, a) \subseteq V
  BY ShownIs
<1>3. ASSUME NEW a \in V PROVE par[a] \in V \cup {NoAccount}
  BY <1>1, <1>2, ParentAbove
<1>4. Closed(V, par) /\ Forest(V, par)
  BY <1>1, <1>2, <1>3 DEF Forest, Closed
<1>5. IsFiniteSet(V) /\ V \subseteq Account
  BY <1>1, <1>2, FS_Subset DEF Forest
<1>6. DOMAIN RowParent = V /\ \A a \in V : RowParent[a] = par[a]
  <2>1. DOMAIN RowParent = V
    BY DEF RowParent
  <2>2. ASSUME NEW a \in V PROVE RowParent[a] = par[a]
    <3>1. Parent[a] = par[a]
      BY <1>2, ParentIs
    <3>2. RowParent[a] = IF Parent[a] \in V THEN Parent[a] ELSE NoAccount
      BY DEF RowParent
    <3> QED
      BY <1>3, <3>1, <3>2
  <2> QED
    BY <2>1, <2>2
<1> HIDE DEF V, par
<1>7. \A a \in V : Above(RowParent, a) = Above(par, a)
  BY <1>4, <1>6, AboveStays
<1>8. Roots = {a \in V : par[a] = NoAccount}
  BY <1>6 DEF Roots
<1>9. ASSUME NEW a PROVE Beneath(a) = Under(V, a)
  BY <1>6, <1>7 DEF Beneath, Under, par
<1>10. Rows = V
  <2>1. \A a : Under(V, a) \subseteq V
    BY DEF Under
  <2>2. ASSUME NEW b \in V PROVE \E a \in Roots : b \in Under(V, a)
    <3>1. PICK r \in V : (r = b \/ r \in Above(par, b)) /\ par[r] = NoAccount
      BY <1>4, Top
    <3> QED
      BY <1>8, <3>1 DEF Under, par
  <2>3. Rows = UNION {Under(V, a) : a \in Roots}
    BY <1>9 DEF Rows
  <2> QED
    BY <2>1, <2>2, <2>3
<1> QED
  BY <1>4, <1>5, <1>6, <1>8, <1>9, <1>10 DEF V, par

(* An account that carries a line is on the report, and so is all that is  *)
(* above it.                                                               *)
LEMMA LinesAreShown ==
  ASSUME Inv, Whole
  PROVE  \A x \in LinesOf(UpTo(truth.now, report.asOf)) : x[2].account \in Active
<1> DEFINE E == UpTo(truth.now, report.asOf)
<1>1. E \in SUBSET Entry /\ E \subseteq truth.now
  BY DEF UpTo, Inv, Typed
<1>2. report.now = SumsOf(LinesOf(E)) /\ OnAccounts(truth.now \cup truth.before, report.known)
  BY ReadForest
<1> HIDE DEF E
<1>3. ASSUME NEW x \in LinesOf(E) PROVE x[2].account \in Active
  <2>1. x[1] \in E /\ x[2] \in Voucher[x[1]].lines
    BY <1>1, LineFacts
  <2>2. x[2].account \in report.known
    BY <1>1, <1>2, <2>1 DEF OnAccounts
  <2>3. report.now[x[2].account].debits # 0 \/ report.now[x[2].account].credits # 0
    BY <1>1, <1>2, LineIsActivity
  <2> QED
    BY <2>2, <2>3 DEF Active
<1> QED
  BY <1>3 DEF E

(* The column of any of the dates adds up when its lines are all shown.    *)
LEMMA ColumnAddsUp ==
  ASSUME Inv, Whole, NEW E \in SUBSET Posted, \A x \in LinesOf(E) : x[2].account \in Visible
  PROVE  /\ SumFunction([a \in Visible |-> SumsOf(LinesOf(E))[a].debits]) = LineDebits(LinesOf(E))
         /\ SumFunction([a \in Visible |-> SumsOf(LinesOf(E))[a].debits])
              = SumFunction([a \in Visible |-> SumsOf(LinesOf(E))[a].credits])
<1>1. E \in SUBSET Entry /\ \A e \in E : Debits(Voucher[e].lines) = Credits(Voucher[e].lines)
  BY DEF Inv, Books, Posted
<1>2. Visible \in SUBSET Account
  BY RowsAre
<1>3. LineDebits(LinesOf(E)) = LineCredits(LinesOf(E))
  BY <1>1, EntriesBalance
<1>4. /\ SumFunction([a \in Visible |-> SumsOf(LinesOf(E))[a].debits]) = LineDebits(LinesOf(E))
      /\ SumFunction([a \in Visible |-> SumsOf(LinesOf(E))[a].credits]) = LineCredits(LinesOf(E))
  <2> DEFINE V == Visible
  <2>1. V \in SUBSET Account /\ \A x \in LinesOf(E) : x[2].account \in V
    BY <1>2
  <2> HIDE DEF V
  <2>2. /\ SumFunction([a \in V |-> SumsOf(LinesOf(E))[a].debits]) = LineDebits(LinesOf(E))
        /\ SumFunction([a \in V |-> SumsOf(LinesOf(E))[a].credits]) = LineCredits(LinesOf(E))
    BY <1>1, <2>1, AccountsAddUp
  <2> QED
    BY <2>2 DEF V
<1> QED
  BY <1>3, <1>4

(* A report about all types is in balance, and has every posted line there *)
(* was when it was begun.                                                  *)
LEMMA InvTotals == Inv => TotalsTieOut
<1> SUFFICES ASSUME Inv, Whole
             PROVE  /\ IsBalanced
                    /\ TotalDebits = LineDebits(LinesOf(UpTo(truth.now, report.asOf)))
  BY DEF TotalsTieOut, LineDebits
<1> DEFINE E == UpTo(truth.now, report.asOf)
<1>1. E \in SUBSET Posted
  BY DEF UpTo, Inv, Books
<1>2. \A x \in LinesOf(E) : x[2].account \in Visible
  BY LinesAreShown, ShownIs
<1>3. report.now = SumsOf(LinesOf(E)) /\ Rows = Visible
  BY ReadForest, RowsAre
<1> HIDE DEF E
<1>4. /\ SumFunction([a \in Visible |-> SumsOf(LinesOf(E))[a].debits]) = LineDebits(LinesOf(E))
      /\ SumFunction([a \in Visible |-> SumsOf(LinesOf(E))[a].debits])
           = SumFunction([a \in Visible |-> SumsOf(LinesOf(E))[a].credits])
  BY <1>1, <1>2, ColumnAddsUp
<1>5. /\ TotalDebits = SumFunction([a \in Visible |-> SumsOf(LinesOf(E))[a].debits])
      /\ TotalCredits = SumFunction([a \in Visible |-> SumsOf(LinesOf(E))[a].credits])
  BY <1>3 DEF TotalDebits, TotalCredits
<1> QED
  BY <1>4, <1>5 DEF IsBalanced, E

(* The balances of some of the rows, debit-normal or not.                  *)
LEMMA SidesAgree ==
  ASSUME Inv, Whole, NEW sums \in Sums,
         SumFunction([a \in Visible |-> sums[a].debits])
           = SumFunction([a \in Visible |-> sums[a].credits]),
         NEW D, D = {a \in Visible : report.chart.type[a] \in DebitType},
         NEW own, \A a \in Visible : own[a] = Own(sums, a)
  PROVE  SumFunctionOnSet(own, D) = SumFunctionOnSet(own, Visible \ D)
<1> DEFINE V == Visible
<1>1. IsFiniteSet(V) /\ V \subseteq Account
  BY RowsAre
<1>2. \A a \in V : sums[a].debits \in Nat /\ sums[a].credits \in Nat
  BY <1>1 DEF Sums
<1>3. D \in SUBSET V
  OBVIOUS
<1>4. \A a \in D : own[a] = sums[a].debits - sums[a].credits
  BY DEF Own
<1>5. \A a \in V \ D : own[a] = sums[a].credits - sums[a].debits
  BY DEF Own
<1>6. SumFunction([a \in V |-> sums[a].debits]) = SumFunction([a \in V |-> sums[a].credits])
  OBVIOUS
<1> HIDE DEF V
<1>7. SumFunctionOnSet(own, D) = SumFunctionOnSet(own, V \ D)
  BY <1>1, <1>2, <1>3, <1>4, <1>5, <1>6, TwoSides
<1> QED
  BY <1>7 DEF V

(* The comparative column is in balance as well, if nothing was posted     *)
(* into it while the request ran.                                          *)
LEMMA InvPrior == Inv => PriorTiesOut
<1> DEFINE E == UpTo(truth.before, report.prior)
           D == {a \in Rows : report.chart.type[a] \in DebitType}
<1> SUFFICES ASSUME Inv, Whole, report.prior \in Date, report.prior <= report.asOf,
                    E = UpTo(truth.now, report.prior)
             PROVE  /\ \A x \in LinesOf(E) : x[2].account \in Rows
                    /\ SumFunction([a \in D |-> Own(report.before, a)])
                         = SumFunction([a \in Rows \ D |-> Own(report.before, a)])
  BY DEF PriorTiesOut
<1>1. Rows = Visible /\ Visible \subseteq Account /\ IsFiniteSet(Visible)
  BY RowsAre
<1>2. E \in SUBSET Posted /\ E \in SUBSET Entry
  BY DEF UpTo, Inv, Books, Posted
<1>3. report.before = SumsOf(LinesOf(E)) /\ report.before \in Sums
  <2>1. report.prior # NoDate
    BY TrialBalanceAssumption
  <2> QED
    BY <2>1, ReadForest DEF Inv, Typed, Requests
<1>4. E \subseteq UpTo(truth.now, report.asOf)
  <2>1. ASSUME NEW e \in E PROVE e \in UpTo(truth.now, report.asOf)
    <3>1. e \in truth.now /\ Voucher[e].date <= report.prior /\ e \in Entry
      BY <1>2 DEF UpTo
    <3>2. Voucher[e].date \in Nat /\ report.prior \in Nat
      BY <3>1, TrialBalanceAssumption
    <3>3. report.asOf \in Nat
      BY TrialBalanceAssumption DEF Inv, Typed, Whole
    <3>4. Voucher[e].date <= report.asOf
      BY <3>1, <3>2, <3>3
    <3> QED
      BY <3>1, <3>4 DEF UpTo
  <2> QED
    BY <2>1
<1>5. LinesOf(E) \subseteq LinesOf(UpTo(truth.now, report.asOf))
  BY <1>4 DEF LinesOf
<1>6. \A x \in LinesOf(E) : x[2].account \in Visible
  BY <1>5, LinesAreShown, ShownIs
<1> HIDE DEF E
<1>7. SumFunction([a \in Visible |-> report.before[a].debits])
        = SumFunction([a \in Visible |-> report.before[a].credits])
  BY <1>2, <1>3, <1>6, ColumnAddsUp
<1> DEFINE own == [a \in Visible |-> Own(report.before, a)]
           f == [a \in D |-> Own(report.before, a)]
           g == [a \in Rows \ D |-> Own(report.before, a)]
<1>8. D = {a \in Visible : report.chart.type[a] \in DebitType} /\ IsFiniteSet(D) /\ IsFiniteSet(Rows \ D)
  BY <1>1, FS_Subset
<1>9. \A a \in Visible : own[a] = Own(report.before, a)
  OBVIOUS
<1>10. (\A a \in D : f[a] = own[a]) /\ (\A a \in Rows \ D : g[a] = own[a])
  BY <1>1
<1>11. SumFunction(f) = SumFunctionOnSet(f, D) /\ SumFunction(g) = SumFunctionOnSet(g, Rows \ D)
  BY DEF SumFunction
<1> HIDE DEF D, own, f, g
<1>12. SumFunctionOnSet(own, D) = SumFunctionOnSet(own, Visible \ D)
  BY <1>3, <1>7, <1>8, <1>9, SidesAgree
<1>13. SumFunctionOnSet(f, D) = SumFunctionOnSet(own, D)
  BY <1>8, <1>10, SumSame
<1>14. SumFunctionOnSet(g, Rows \ D) = SumFunctionOnSet(own, Rows \ D)
  BY <1>8, <1>10, SumSame
<1>15. SumFunction(f) = SumFunction(g)
  BY <1>1, <1>11, <1>12, <1>13, <1>14
<1> QED
  BY <1>1, <1>6, <1>15 DEF f, g

(* A row shows what all the accounts under it add up to, and no account    *)
(* with activity under it leaves it off the report.                        *)
LEMMA InvRollups == Inv => RollupsComplete
<1> DEFINE sub(a) == {b \in report.known : b = a \/ a \in Above(report.chart.parent, b)}
           moved(a) == {b \in sub(a) : report.now[b].debits # 0 \/ report.now[b].credits # 0}
<1> SUFFICES ASSUME Inv, Whole, NEW a \in report.known
             PROVE  /\ moved(a) # {} => a \in Rows
                    /\ a \in Rows => Rollup(report.now, a)
                                       = SumFunction([b \in sub(a) |-> Own(report.now, b)])
  BY DEF RollupsComplete
<1>1. Rows = Visible /\ Beneath(a) = Under(Visible, a)
  BY RowsAre
<1>2. Visible \subseteq report.known /\ Active \subseteq Visible
      /\ \A b \in Active : Above(report.chart.parent, b) \subseteq Visible
  BY ShownIs
<1>3. moved(a) \subseteq Active
  BY DEF Active
<1>4. ASSUME moved(a) # {} PROVE a \in Rows
  <2>1. PICK b \in moved(a) : TRUE
    BY <1>4
  <2>2. b \in Active /\ (b = a \/ a \in Above(report.chart.parent, b))
    BY <1>3, <2>1
  <2> QED
    BY <1>1, <1>2, <2>2
<1>5. Rollup(report.now, a) = SumFunction([b \in sub(a) |-> Own(report.now, b)])
  <2> DEFINE S == sub(a)
             T == Under(Visible, a)
             f == [b \in S |-> Own(report.now, b)]
             g == [b \in T |-> Own(report.now, b)]
  <2>1. T \in SUBSET S /\ IsFiniteSet(S) /\ S \subseteq report.known
    <3>1. IsFiniteSet(report.known)
      BY ReadForest
    <3>2. S \in SUBSET report.known /\ T \in SUBSET S
      BY <1>2 DEF Under
    <3> QED
      BY <3>1, <3>2, FS_Subset
  <2>2. Rollup(report.now, a) = SumFunctionOnSet(g, T)
    BY <1>1 DEF Rollup, SumFunction
  <2>3. SumFunction(f) = SumFunctionOnSet(f, S)
    BY DEF SumFunction
  <2>4. (\A b \in T : g[b] = Own(report.now, b)) /\ (\A b \in S : f[b] = Own(report.now, b))
    OBVIOUS
  <2>5. ASSUME NEW b \in S
        PROVE  /\ report.now[b].debits \in Nat /\ report.now[b].credits \in Nat
               /\ Own(report.now, b) \in Int
    <3>1. b \in Account /\ report.now \in Sums
      BY <2>1 DEF Inv, Typed, Requests
    <3>2. report.now[b].debits \in Nat /\ report.now[b].credits \in Nat
      BY <3>1 DEF Sums
    <3> QED
      BY <3>2 DEF Own
  <2>6. ASSUME NEW b \in S \ T PROVE Own(report.now, b) = 0
    <3>1. b \in report.known /\ b \notin Visible
      BY DEF Under
    <3>2. report.now[b].debits = 0 /\ report.now[b].credits = 0
      BY <1>2, <3>1 DEF Active
    <3> QED
      BY <3>2 DEF Own
  <2> HIDE DEF S, T, f, g
  <2>7. (\A b \in T : f[b] \in Int) /\ (\A b \in S \ T : f[b] = 0) /\ (\A b \in T : g[b] = f[b])
    BY <2>1, <2>4, <2>5, <2>6
  <2>8. SumFunctionOnSet(f, S) = SumFunctionOnSet(f, T)
    BY <2>1, <2>7, SumWithin
  <2>9. IsFiniteSet(T)
    BY <2>1, FS_Subset
  <2>10. SumFunctionOnSet(g, T) = SumFunctionOnSet(f, T)
    BY <2>7, <2>9, SumSame
  <2>11. Rollup(report.now, a) = SumFunction(f)
    BY <2>2, <2>3, <2>8, <2>10
  <2> QED
    BY <2>11 DEF f, S
<1> QED
  BY <1>4, <1>5

(* When no row hangs under one of the other side, all that is above a row  *)
(* is on its side.                                                         *)
LEMMA SideUp ==
  ASSUME NEW V, NEW par, Forest(V, par), NEW D \in SUBSET V,
         \A b \in V : par[b] # NoAccount => (b \in D <=> par[b] \in D),
         NEW a \in V, NEW r \in Above(par, a)
  PROVE  a \in D <=> r \in D
<1> DEFINE S == {n \in Nat : Ancestor(par, a, n) # NoAccount => (a \in D <=> Ancestor(par, a, n) \in D)}
<1>0. \A n \in Nat : Ancestor(par, a, n) \in V \cup {NoAccount}
  BY WalksStay DEF Forest
<1>1. 0 \in S
  BY AncestorIs
<1>2. ASSUME NEW n \in S PROVE n + 1 \in S
  <2>1. n \in Nat /\ n + 1 \in Nat
    OBVIOUS
  <2>2. Ancestor(par, a, n + 1) = Up(par, Ancestor(par, a, n))
    BY <2>1, AncestorIs
  <2> DEFINE b == Ancestor(par, a, n)
  <2>3. (b # NoAccount => (a \in D <=> b \in D)) /\ b \in V \cup {NoAccount}
    BY <1>0, <1>2
  <2>4. Ancestor(par, a, n + 1) = IF b = NoAccount THEN NoAccount ELSE par[b]
    BY <2>2 DEF Up
  <2> HIDE DEF b
  <2>5. Ancestor(par, a, n + 1) # NoAccount => (a \in D <=> Ancestor(par, a, n + 1) \in D)
    BY <2>3, <2>4
  <2> QED
    BY <2>1, <2>5
<1> HIDE DEF S
<1>3. S \subseteq Nat
  BY DEF S
<1>4. \A n \in Nat : n \in S
  BY <1>1, <1>2, <1>3, AllNumbers
<1>5. PICK n \in Nat : r = Ancestor(par, a, n + 1) /\ r # NoAccount
  <2>1. r \in Above(par, a) <=> r # NoAccount /\ \E n \in Nat : r = Ancestor(par, a, n + 1)
    BY ONLY AboveIs, Forest(V, par), a \in V, SMTT(30)
  <2>2. r # NoAccount /\ \E n \in Nat : r = Ancestor(par, a, n + 1)
    BY <2>1
  <2> QED
    BY <2>2
<1>6. n + 1 \in S
  BY <1>4
<1> QED
  BY <1>5, <1>6 DEF S

(* The roots of one side add up to the rows of that side.                  *)
LEMMA RootsAddUp ==
  ASSUME NEW V, NEW par, Forest(V, par), IsFiniteSet(V), NEW D \in SUBSET V,
         \A b \in V : par[b] # NoAccount => (b \in D <=> par[b] \in D),
         NEW under, \A a \in V : under[a] = {b \in V : b = a \/ a \in Above(par, b)},
         NEW own, \A b \in V : own[b] \in Int,
         NEW tops, \A a \in V : tops[a] = SumFunctionOnSet(own, under[a])
  PROVE  SumFunctionOnSet(own, D) = SumFunctionOnSet(tops, {a \in D : par[a] = NoAccount})
<1> DEFINE R == {a \in D : par[a] = NoAccount}
<1>1. IsFiniteSet(D) /\ IsFiniteSet(R)
  <2>1. R \in SUBSET V
    OBVIOUS
  <2> QED
    BY <2>1, FS_Subset
<1>2. ASSUME NEW a \in R PROVE under[a] \subseteq D /\ tops[a] = SumFunctionOnSet(own, under[a])
  <2>1. ASSUME NEW b \in under[a] PROVE b \in D
    <3>1. b \in V /\ (b = a \/ a \in Above(par, b)) /\ a \in D
      BY <1>2, <2>1
    <3> QED
      BY <3>1, SideUp
  <2> QED
    BY <1>2, <2>1
<1>3. ASSUME NEW b \in D PROVE own[b] \in Int /\ \E a \in R : b \in under[a]
  <2>1. PICK r \in V : (r = b \/ r \in Above(par, b)) /\ par[r] = NoAccount
    BY Top
  <2>2. r \in D
    BY <2>1, SideUp
  <2> QED
    BY <2>1, <2>2
<1>4. ASSUME NEW a \in R, NEW b \in R, a # b PROVE under[a] \cap under[b] = {}
  <2>1. ASSUME NEW x \in under[a], x \in under[b] PROVE FALSE
    <3>1. x \in V /\ (a = x \/ a \in Above(par, x)) /\ (b = x \/ b \in Above(par, x))
      BY <1>4, <2>1
    <3>2. a \in V /\ b \in V /\ par[a] = NoAccount /\ par[b] = NoAccount
      BY <1>4
    <3> QED
      BY <1>4, <3>1, <3>2, Top
  <2> QED
    BY <2>1
<1> HIDE DEF R
<1>5. Splits(own, D, tops, R, under)
  BY <1>2, <1>3, <1>4 DEF Splits
<1>6. SumFunctionOnSet(own, D) = SumFunctionOnSet(tops, R)
  BY <1>1, <1>5, SumParts
<1> QED
  BY <1>6 DEF R

(* The accounting equation.                                                *)
LEMMA InvEquation == Inv => AccountingEquation
<1> DEFINE par == report.chart.parent
           V == Visible
           D == {a \in V : report.chart.type[a] \in DebitType}
           O == V \ D
           of(types) == {a \in Roots : report.chart.type[a] \in types}
           sum(types) == SumFunction([a \in of(types) |-> Rollup(report.now, a)])
           sameSide == \A a \in Rows : RowParent[a] # NoAccount =>
             (report.chart.type[a] \in DebitType <=> report.chart.type[RowParent[a]] \in DebitType)
<1> SUFFICES ASSUME Inv, Whole, sameSide PROVE sum(DebitType) = sum(Type \ DebitType)
  BY DEF AccountingEquation
<1> DEFINE own == [a \in V |-> Own(report.now, a)]
           under == [a \in V |-> Under(V, a)]
           tops == [a \in V |-> SumFunctionOnSet(own, under[a])]
<1>1. /\ Forest(V, par) /\ IsFiniteSet(V) /\ V \subseteq Account
      /\ \A a \in V : RowParent[a] = par[a]
      /\ Roots = {a \in V : par[a] = NoAccount}
      /\ \A a : Beneath(a) = Under(V, a)
      /\ Rows = V
  BY RowsAre
<1>2. \A a \in V : report.chart.type[a] \in Type
  BY <1>1 DEF Inv, Typed, Requests, ChartRows
<1>3. of(DebitType) = {a \in D : par[a] = NoAccount}
  BY <1>1
<1>4. of(Type \ DebitType) = {a \in O : par[a] = NoAccount}
  BY <1>1, <1>2
<1>5. \A b \in V : par[b] # NoAccount => (b \in D <=> par[b] \in D) /\ (b \in O <=> par[b] \in O)
  <2>1. ASSUME NEW b \in V, par[b] # NoAccount
        PROVE  (b \in D <=> par[b] \in D) /\ (b \in O <=> par[b] \in O)
    <3>1. par[b] \in V
      BY <1>1, <2>1 DEF Forest, Closed
    <3>2. report.chart.type[b] \in DebitType <=> report.chart.type[par[b]] \in DebitType
      BY <1>1, <2>1
    <3> QED
      BY <2>1, <3>1, <3>2
  <2> QED
    BY <2>1
<1>6. /\ \A b \in V : own[b] = Own(report.now, b)
      /\ \A a \in V : under[a] = {b \in V : b = a \/ a \in Above(par, b)}
      /\ \A a \in V : tops[a] = SumFunctionOnSet(own, under[a])
  BY DEF Under
<1>7. \A b \in V : own[b] \in Int
  <2>1. report.now \in Sums
    BY DEF Inv, Typed, Requests
  <2>2. \A b \in V : report.now[b].debits \in Nat /\ report.now[b].credits \in Nat
    BY <1>1, <2>1 DEF Sums
  <2> QED
    BY <1>6, <2>2 DEF Own
<1>8. ASSUME NEW a \in V PROVE Rollup(report.now, a) = tops[a]
  <2> DEFINE B == under[a]
             f == [b \in B |-> Own(report.now, b)]
  <2>1. B \in SUBSET V /\ IsFiniteSet(B) /\ B = Under(V, a)
    <3>1. B \in SUBSET V /\ B = Under(V, a)
      BY <1>8 DEF Under
    <3> QED
      BY <1>1, <3>1, FS_Subset
  <2>2. Rollup(report.now, a) = SumFunctionOnSet(f, B)
    BY <1>1, <2>1 DEF Rollup, SumFunction
  <2>3. \A b \in B : f[b] = own[b]
    BY <2>1
  <2>4. tops[a] = SumFunctionOnSet(own, B)
    BY <1>8
  <2> HIDE DEF B, f, own, tops
  <2>5. SumFunctionOnSet(f, B) = SumFunctionOnSet(own, B)
    BY <2>1, <2>3, SumSame
  <2> QED
    BY <2>2, <2>4, <2>5
<1>9. /\ sum(DebitType) =
           SumFunctionOnSet([a \in of(DebitType) |-> Rollup(report.now, a)], of(DebitType))
      /\ sum(Type \ DebitType) =
           SumFunctionOnSet([a \in of(Type \ DebitType) |-> Rollup(report.now, a)], of(Type \ DebitType))
  BY DEF SumFunction
<1>10. ASSUME NEW R \in SUBSET V
       PROVE  SumFunctionOnSet([a \in R |-> Rollup(report.now, a)], R) = SumFunctionOnSet(tops, R)
  <2> DEFINE f == [a \in R |-> Rollup(report.now, a)]
  <2>1. IsFiniteSet(R) /\ \A a \in R : f[a] = tops[a]
    BY <1>1, <1>8, FS_Subset
  <2> HIDE DEF f, tops
  <2>2. SumFunctionOnSet(f, R) = SumFunctionOnSet(tops, R)
    BY <2>1, SumSame
  <2> QED
    BY <2>2 DEF f
<1>11. of(DebitType) \in SUBSET V /\ of(Type \ DebitType) \in SUBSET V
  BY <1>1
<1>12. D \in SUBSET V /\ O \in SUBSET V
  OBVIOUS
<1>13. SumFunctionOnSet(own, D) = SumFunctionOnSet(own, O)
  <2> DEFINE E == UpTo(truth.now, report.asOf)
  <2>1. E \in SUBSET Posted
    BY DEF UpTo, Inv, Books
  <2>2. \A x \in LinesOf(E) : x[2].account \in Visible
    BY LinesAreShown, ShownIs
  <2>3. report.now = SumsOf(LinesOf(E)) /\ report.now \in Sums
    BY ReadForest DEF Inv, Typed, Requests
  <2> HIDE DEF E
  <2>4. SumFunction([a \in Visible |-> report.now[a].debits])
          = SumFunction([a \in Visible |-> report.now[a].credits])
    BY <2>1, <2>2, <2>3, ColumnAddsUp
  <2>5. D = {a \in Visible : report.chart.type[a] \in DebitType}
        /\ \A a \in Visible : own[a] = Own(report.now, a)
    BY <1>6
  <2> HIDE DEF D, own
  <2> QED
    BY <2>3, <2>4, <2>5, SidesAgree
<1> HIDE DEF V, D, O, own, under, tops, par, of, sum
<1>14. SumFunctionOnSet(own, D) = SumFunctionOnSet(tops, {a \in D : par[a] = NoAccount})
  BY <1>1, <1>5, <1>6, <1>7, <1>12, RootsAddUp
<1>15. SumFunctionOnSet(own, O) = SumFunctionOnSet(tops, {a \in O : par[a] = NoAccount})
  BY <1>1, <1>5, <1>6, <1>7, <1>12, RootsAddUp
<1>16. sum(DebitType) = SumFunctionOnSet(tops, of(DebitType))
  BY <1>9, <1>10, <1>11
<1>17. sum(Type \ DebitType) = SumFunctionOnSet(tops, of(Type \ DebitType))
  BY <1>9, <1>10, <1>11
<1> QED
  BY <1>3, <1>4, <1>13, <1>14, <1>15, <1>16, <1>17

(* compute_trial_balance: whatever other sessions post and edit between    *)
(* its queries, a report about all types is in balance, has every line     *)
(* that was posted when it was begun, and the comparative column with it.  *)
THEOREM ColumnsAlwaysTieOut == Spec => []ColumnsTieOut
<1>1. Inv => ColumnsTieOut
  BY InvTotals, InvPrior DEF ColumnsTieOut
<1> QED
  BY <1>1, BooksInvariant, PTL

(* _assemble_tree and _visible_account_pks: no activity is left off the    *)
(* report, and every roll-up is the whole of what is under the account.    *)
THEOREM RollupsAlwaysComplete == Spec => []RollupsComplete
<1>1. Inv => RollupsComplete
  BY InvRollups
<1> QED
  BY <1>1, BooksInvariant, PTL

(* The top rows of the debit-normal types add up to those of the others.   *)
THEOREM EquationHolds == Spec => []AccountingEquation
<1>1. Inv => AccountingEquation
  BY InvEquation
<1> QED
  BY <1>1, BooksInvariant, PTL
=============================================================================
