-------------------------- MODULE RetentionProofs --------------------------
(***************************************************************************)
(* What the retention policy keeps and how much, proved for every          *)
(* calendar, every policy, any number of days, of backups on a day and of  *)
(* faults.                                                                 *)
(***************************************************************************)
EXTENDS Retention, FiniteSetTheorems, NaturalsInduction, WellFoundedInduction, TLAPS

-----------------------------------------------------------------------------
(* Sets of natural numbers.                                                *)

(* A set of naturals that is not empty has a least element.                *)
LEMMA Least ==
  ASSUME NEW S, S \subseteq Nat, S # {}
  PROVE  \E x \in S : \A y \in S : x <= y
<1>1. PICK x \in S : \A y \in S : <<y, x>> \notin OpToRel(<, Nat)
  BY WFMin, NatLessThanWellFounded, Zenon
<1>2. \A y \in S : ~(y < x)
  BY <1>1, Zenon DEF OpToRel
<1>3. \A y \in S : x \in Nat /\ y \in Nat
  OBVIOUS
<1> QED
  BY <1>2, <1>3

(* A bounded one has a greatest, which is what Max gives.                  *)
LEMMA Greatest ==
  ASSUME NEW S, S \subseteq Nat, S # {}, NEW n \in Nat, \A x \in S : x <= n
  PROVE  Max(S) \in S /\ \A y \in S : y <= Max(S)
<1> DEFINE T == {k \in Nat : n - k \in S}
<1>1. T \subseteq Nat /\ T # {}
  <2>1. PICK x : x \in S
    OBVIOUS
  <2>2. n - x \in Nat /\ n - (n - x) = x
    BY <2>1
  <2> QED
    BY <2>1, <2>2
<1>2. PICK k \in T : \A j \in T : k <= j
  BY <1>1, Least
<1>3. n - k \in S
  BY <1>2
<1>4. \A y \in S : n - y \in Nat /\ n - (n - y) = y
  OBVIOUS
<1>5. \A y \in S : n - y \in T
  BY <1>4
<1>6. \A y \in S : k <= n - y
  BY <1>2, <1>5
<1>7. \A y \in S : n - k >= y
  BY <1>2, <1>6
<1>8. \E x \in S : \A y \in S : x >= y
  BY <1>3, <1>7
<1> QED
  BY <1>8 DEF Max

(* Top(S, n) has n elements at most ...                                    *)
LEMMA TopBound ==
  ASSUME NEW S, S \subseteq Nat, IsFiniteSet(S), NEW n \in Nat
  PROVE  IsFiniteSet(Top(S, n)) /\ Cardinality(Top(S, n)) <= n
<1>1. Top(S, n) \in SUBSET S
  BY DEF Top
<1>2. IsFiniteSet(Top(S, n))
  BY <1>1, FS_Subset
<1>3. CASE Top(S, n) = {}
  BY <1>2, <1>3, FS_EmptySet
<1>4. CASE Top(S, n) # {}
  <2>1. PICK x \in Top(S, n) : \A y \in Top(S, n) : x <= y
    BY <1>1, <1>4, Least
  <2> DEFINE above == {y \in S : y > x}
  <2>2. above \in SUBSET S /\ Cardinality(above) < n
    BY <2>1 DEF Top
  <2>3. IsFiniteSet(above) /\ Cardinality(above) \in Nat
    BY <2>2, FS_Subset, FS_CardinalityType
  <2>4. Top(S, n) \ {x} \in SUBSET above
    <3>1. \A y \in Top(S, n) : y \in S /\ y \in Nat /\ x \in Nat
      BY <1>1
    <3>2. \A y \in Top(S, n) \ {x} : y > x
      BY <2>1, <3>1
    <3> QED
      BY <3>1, <3>2
  <2>5. Cardinality(Top(S, n) \ {x}) <= Cardinality(above)
    BY <2>3, <2>4, FS_Subset
  <2>6. Cardinality(Top(S, n) \ {x}) = Cardinality(Top(S, n)) - 1 /\ Cardinality(Top(S, n)) \in Nat
    BY <1>2, <2>1, FS_RemoveElement, FS_CardinalityType
  <2> QED
    BY <1>2, <2>2, <2>3, <2>5, <2>6
<1> QED
  BY <1>3, <1>4

(* ... and has every element less than n below an upper bound of S.        *)
LEMMA InTop ==
  ASSUME NEW S, S \subseteq Nat, NEW n \in Nat, NEW top \in Int,
         \A y \in S : y <= top, NEW x \in S, top - x < n
  PROVE  x \in Top(S, n)
<1> DEFINE above == {y \in S : y > x}
<1>1. above \in SUBSET ((x + 1)..top)
  <2>1. \A y \in S : y \in Nat /\ x \in Nat
    OBVIOUS
  <2>2. \A y \in above : y \in (x + 1)..top
    BY <2>1
  <2> QED
    BY <2>2
<1>2. IsFiniteSet((x + 1)..top) /\ Cardinality((x + 1)..top) = IF x + 1 > top THEN 0 ELSE top - (x + 1) + 1
  BY FS_Interval
<1>3. IsFiniteSet(above) /\ Cardinality(above) <= Cardinality((x + 1)..top)
  BY <1>1, <1>2, FS_Subset
<1>4. Cardinality(above) \in Nat
  BY <1>3, FS_CardinalityType
<1>5. x <= top
  OBVIOUS
<1>6. Cardinality(above) < n
  BY <1>2, <1>3, <1>4, <1>5
<1> QED
  BY <1>6 DEF Top

(* Top(S, n) stays what it is when S loses elements outside it.            *)
LEMMA TopStable ==
  ASSUME NEW S, S \subseteq Nat, NEW bound \in Nat, \A x \in S : x <= bound, NEW n \in Nat,
         NEW T \in SUBSET S, Top(S, n) \subseteq T
  PROVE  Top(T, n) = Top(S, n)
<1>1. IsFiniteSet(S)
  BY FS_BoundedSetOfNaturals
<1>2. ASSUME NEW x \in Top(S, n) PROVE x \in Top(T, n)
  <2> DEFINE inT == {y \in T : y > x}
             inS == {y \in S : y > x}
  <2>1. inT \in SUBSET inS /\ inS \in SUBSET S /\ Cardinality(inS) < n
    BY DEF Top
  <2>2. IsFiniteSet(inS)
    BY <1>1, <2>1, FS_Subset
  <2>3. IsFiniteSet(inT) /\ Cardinality(inT) <= Cardinality(inS)
    BY <2>1, <2>2, FS_Subset
  <2>4. Cardinality(inT) \in Nat /\ Cardinality(inS) \in Nat
    BY <2>2, <2>3, FS_CardinalityType
  <2>5. Cardinality(inT) < n
    BY <2>1, <2>3, <2>4
  <2> QED
    BY <2>5 DEF Top
<1>3. ASSUME NEW x \in T, x \notin Top(S, n) PROVE x \notin Top(T, n)
  <2> DEFINE out == S \ Top(S, n)
             z == Max(out)
             inT == {y \in T : y > x}
             inS == {y \in S : y > z}
  <2>1. out \subseteq Nat /\ out # {} /\ \A y \in out : y <= bound
    BY <1>3
  <2>2. z \in out /\ \A y \in out : y <= z
    BY <2>1, Greatest
  <2> HIDE DEF z
  <2>3. x <= z /\ x \in Nat /\ z \in Nat
    BY <1>3, <2>1, <2>2
  <2>4. ASSUME NEW y \in inS PROVE y \in inT
    <3>1. y \in S /\ y > z /\ y \in Nat
      OBVIOUS
    <3>2. y \in Top(S, n)
      BY <2>2, <2>3, <3>1
    <3>3. y > x
      BY <2>3, <3>1
    <3> QED
      BY <3>2, <3>3
  <2>5. inS \in SUBSET inT /\ inT \in SUBSET S
    BY <2>4
  <2>6. IsFiniteSet(inT)
    BY <1>1, <2>5, FS_Subset
  <2>7. IsFiniteSet(inS) /\ Cardinality(inS) <= Cardinality(inT)
    BY <2>5, <2>6, FS_Subset
  <2>8. Cardinality(inT) \in Nat /\ Cardinality(inS) \in Nat
    BY <2>6, <2>7, FS_CardinalityType
  <2>9. ~(Cardinality(inS) < n)
    BY <2>2 DEF Top
  <2>10. ~(Cardinality(inT) < n)
    BY <2>7, <2>8, <2>9
  <2> QED
    BY <2>10 DEF Top
<1>4. Top(T, n) \subseteq T
  BY DEF Top
<1> QED
  BY <1>2, <1>3, <1>4

-----------------------------------------------------------------------------
(* The calendar.                                                           *)

(* Division by a positive number is monotone.                              *)
LEMMA DivMonotone ==
  ASSUME NEW a \in Nat, NEW b \in Nat, a <= b, NEW n \in Nat \ {0}
  PROVE  a \div n \in Nat /\ b \div n \in Nat /\ a \div n <= b \div n
<1>1. a \div n \in Nat /\ b \div n \in Nat
  OBVIOUS
<1>2. n * (a \div n) <= a /\ b < n * (b \div n) + n
  OBVIOUS
<1>3. ASSUME b \div n < a \div n PROVE FALSE
  <2>1. (b \div n) + 1 <= a \div n
    BY <1>1, <1>3
  <2>2. n * ((b \div n) + 1) <= n * (a \div n)
    BY <1>1, <2>1
  <2> QED
    BY <1>1, <1>2, <2>2
<1> QED
  BY <1>1, <1>3

(* The parameters, one by one.                                             *)
LEMMA Parameters ==
  /\ PerDay \in Nat \ {0} /\ DaysPerMonth \in Nat \ {0} /\ MonthsPerYear \in Nat \ {0}
  /\ Daily \in Nat \ {0} /\ Months \in Nat \ {0} /\ Years \in Nat \ {0}
  /\ MaxDay \in Nat /\ MaxManual \in Nat /\ MaxFaults \in Nat
BY RetentionAssumption

(* Days, months and years go up with the keys.                             *)
LEMMA Calendar ==
  ASSUME NEW a \in Nat, NEW b \in Nat, a <= b
  PROVE  /\ Day(a) \in Nat /\ Day(b) \in Nat /\ Day(a) <= Day(b)
         /\ Month(a) \in Nat /\ Month(b) \in Nat /\ Month(a) <= Month(b)
         /\ Year(a) \in Nat /\ Year(b) \in Nat /\ Year(a) <= Year(b)
<1>1. Day(a) \in Nat /\ Day(b) \in Nat /\ Day(a) <= Day(b)
  BY Parameters, DivMonotone DEF Day
<1>2. Month(a) \in Nat /\ Month(b) \in Nat /\ Month(a) <= Month(b)
  BY <1>1, Parameters, DivMonotone DEF Month
<1> QED
  BY <1>1, <1>2, Parameters, DivMonotone DEF Year

(* So do the months and years of two days.                                 *)
LEMMA DaysOrder ==
  ASSUME NEW a \in Nat, NEW b \in Nat, Day(a) <= Day(b)
  PROVE  Month(a) <= Month(b) /\ Year(a) <= Year(b)
<1>1. Day(a) \in Nat /\ Day(b) \in Nat
  BY Calendar
<1>2. Month(a) \in Nat /\ Month(b) \in Nat /\ Month(a) <= Month(b)
  BY <1>1, Parameters, DivMonotone DEF Month
<1> QED
  BY <1>2, Parameters, DivMonotone DEF Year

(* The latest of some keys is one of them, and no other set has another    *)
(* that is part of this one and has it.                                    *)
LEMMA LatestIs ==
  ASSUME NEW keys, keys \subseteq Nat, keys # {}, NEW last \in Nat, \A k \in keys : k <= last
  PROVE  /\ Latest(keys) \in keys
         /\ \A j \in keys : \/ Day(j) < Day(Latest(keys))
                            \/ Day(j) = Day(Latest(keys)) /\ Latest(keys) <= j
<1> DEFINE Days == {Day(k) : k \in keys}
           top == Max(Days)
           Last == {k \in keys : Day(k) = top}
<1>1. \A k \in keys : Day(k) \in Nat /\ Day(k) <= Day(last)
  BY Calendar
<1>2. Day(last) \in Nat
  BY Calendar
<1>3. top \in Days /\ \A d \in Days : d <= top
  <2>1. Days \subseteq Nat /\ Days # {} /\ \A d \in Days : d <= Day(last)
    BY <1>1
  <2> QED
    BY <1>2, <2>1, Greatest
<1> HIDE DEF top
<1>4. PICK k \in Last : \A j \in Last : k <= j
  <2>1. Last \subseteq Nat /\ Last # {}
    BY <1>3
  <2> QED
    BY <2>1, Least
<1>5. k \in keys /\ Day(k) = top
  BY <1>4
<1>6. ASSUME NEW j \in keys PROVE Day(j) < Day(k) \/ (Day(j) = Day(k) /\ k <= j)
  <2>1. Day(j) <= top /\ Day(j) \in Nat /\ top \in Nat
    BY <1>1, <1>3
  <2>2. CASE Day(j) = top
    <3>1. j \in Last
      BY <2>2
    <3> QED
      BY <1>4, <1>5, <2>2, <3>1
  <2> QED
    BY <1>5, <2>1, <2>2
<1>7. \E x \in keys : \A j \in keys : Day(j) < Day(x) \/ (Day(j) = Day(x) /\ x <= j)
  BY <1>5, <1>6
<1> QED
  BY <1>7 DEF Latest

(* It stays the latest when others go.                                     *)
LEMMA LatestStable ==
  ASSUME NEW keys, keys \subseteq Nat, NEW last \in Nat, \A k \in keys : k <= last,
         NEW part \in SUBSET keys, keys # {}, Latest(keys) \in part
  PROVE  Latest(part) = Latest(keys)
<1> DEFINE x == Latest(keys)
           y == Latest(part)
<1>1. /\ x \in keys /\ \A j \in keys : Day(j) < Day(x) \/ (Day(j) = Day(x) /\ x <= j)
  BY LatestIs
<1>2. /\ y \in part /\ \A j \in part : Day(j) < Day(y) \/ (Day(j) = Day(y) /\ y <= j)
  <2>1. part \subseteq Nat /\ part # {} /\ \A k \in part : k <= last
    OBVIOUS
  <2> QED
    BY <2>1, LatestIs
<1> HIDE DEF x, y
<1>3. x \in Nat /\ y \in Nat /\ x \in part
  BY <1>1, <1>2 DEF x
<1>4. Day(x) \in Nat /\ Day(y) \in Nat
  BY <1>3, Calendar
<1>5. Day(y) < Day(x) \/ (Day(y) = Day(x) /\ x <= y)
  BY <1>1, <1>2
<1>6. Day(x) < Day(y) \/ (Day(x) = Day(y) /\ y <= x)
  BY <1>2, <1>3
<1>7. x = y
  BY <1>3, <1>4, <1>5, <1>6
<1> QED
  BY <1>7 DEF x, y

-----------------------------------------------------------------------------
(* What one prune keeps.                                                   *)

\* The object that stands for a month, and for a year.
OfMonth(keys, m) == Latest({k \in keys : Month(k) = m})
OfYear(keys, y) == Latest({k \in keys : Year(k) = y})

(* The policy in these terms.                                              *)
LEMMA KeepersAre ==
  ASSUME NEW keys, NEW at
  PROVE  Keepers(keys, at) =
           Recent(keys, at)
             \cup {OfMonth(Old(keys, at), m) : m \in KeptMonths(keys, at)}
             \cup {OfYear(Old(keys, at), y) : y \in KeptYears(keys, at)}
BY DEF Keepers, OfMonth, OfYear

(* The sets the policy is made of.                                         *)
LEMMA OldSets ==
  ASSUME NEW last \in Nat, NEW keys \in SUBSET (0..last), NEW at \in Nat
  PROVE  /\ Old(keys, at) \subseteq Nat /\ Old(keys, at) \subseteq keys
         /\ \A k \in Old(keys, at) : k <= last
         /\ OldMonths(keys, at) \subseteq Nat /\ OldYears(keys, at) \subseteq Nat
         /\ \A m \in OldMonths(keys, at) : m <= Month(at)
         /\ \A y \in OldYears(keys, at) : y <= Year(at) - 1
         /\ Month(at) \in Nat /\ Year(at) \in Nat
<1>1. \A k \in Old(keys, at) : k \in Nat /\ k \in keys /\ k <= last /\ Day(k) <= Day(at) - Daily
  BY DEF Old
<1>2. Day(at) \in Nat /\ Month(at) \in Nat /\ Year(at) \in Nat
  BY Calendar
<1>3. \A k \in Old(keys, at) : /\ Month(k) \in Nat /\ Month(k) <= Month(at)
                               /\ Year(k) \in Nat /\ Year(k) <= Year(at)
  <2> SUFFICES ASSUME NEW k \in Old(keys, at)
               PROVE  /\ Month(k) \in Nat /\ Month(k) <= Month(at)
                      /\ Year(k) \in Nat /\ Year(k) <= Year(at)
    OBVIOUS
  <2>1. k \in Nat /\ Day(k) <= Day(at) - Daily
    BY <1>1
  <2>2. Day(k) \in Nat /\ Month(k) \in Nat /\ Year(k) \in Nat
    BY <2>1, Calendar
  <2>3. Day(k) <= Day(at)
    BY <1>2, <2>1, <2>2, Parameters
  <2> QED
    BY <2>1, <2>2, <2>3, DaysOrder
<1>4. \A y \in OldYears(keys, at) : y \in Nat /\ y <= Year(at) /\ y # Year(at)
  BY <1>3 DEF OldYears, CoveredYears
<1>5. \A y \in OldYears(keys, at) : y <= Year(at) - 1
  BY <1>2, <1>4
<1>6. \A m \in OldMonths(keys, at) : m \in Nat /\ m <= Month(at)
  BY <1>3 DEF OldMonths
<1> QED
  BY <1>1, <1>2, <1>4, <1>5, <1>6

(* Only months and years of old objects are kept.                          *)
LEMMA KeptPeriods ==
  ASSUME NEW keys, NEW at
  PROVE  /\ \A m \in KeptMonths(keys, at) : m \in OldMonths(keys, at) /\ \E k \in Old(keys, at) : Month(k) = m
         /\ \A y \in KeptYears(keys, at) : y \in OldYears(keys, at) /\ \E k \in Old(keys, at) : Year(k) = y
BY DEF KeptMonths, KeptYears, OldMonths, OldYears, Top

(* A period an old object is of has its latest old one, and that is of it. *)
LEMMA Represented ==
  ASSUME NEW last \in Nat, NEW keys \in SUBSET (0..last), NEW at \in Nat,
         NEW k \in Old(keys, at)
  PROVE  /\ OfMonth(Old(keys, at), Month(k)) \in Old(keys, at)
         /\ Month(OfMonth(Old(keys, at), Month(k))) = Month(k)
         /\ OfYear(Old(keys, at), Year(k)) \in Old(keys, at)
         /\ Year(OfYear(Old(keys, at), Year(k))) = Year(k)
<1> DEFINE M == {x \in Old(keys, at) : Month(x) = Month(k)}
           Y == {x \in Old(keys, at) : Year(x) = Year(k)}
<1>1. /\ M \subseteq Nat /\ M # {} /\ \A x \in M : x <= last
      /\ Y \subseteq Nat /\ Y # {} /\ \A x \in Y : x <= last
  BY OldSets
<1>2. Latest(M) \in M /\ Latest(Y) \in Y
  BY <1>1, LatestIs
<1> QED
  BY <1>2 DEF OfMonth, OfYear

(* Only what is in the bucket is kept.                                     *)
LEMMA KeepersInside ==
  ASSUME NEW last \in Nat, NEW keys \in SUBSET (0..last), NEW at \in Nat
  PROVE  Keepers(keys, at) \subseteq keys
<1>1. ASSUME NEW m \in KeptMonths(keys, at) PROVE OfMonth(Old(keys, at), m) \in keys
  <2>1. PICK k \in Old(keys, at) : Month(k) = m
    BY KeptPeriods
  <2> QED
    BY <2>1, Represented, OldSets
<1>2. ASSUME NEW y \in KeptYears(keys, at) PROVE OfYear(Old(keys, at), y) \in keys
  <2>1. PICK k \in Old(keys, at) : Year(k) = y
    BY KeptPeriods
  <2> QED
    BY <2>1, Represented, OldSets
<1> QED
  BY <1>1, <1>2, KeepersAre DEF Recent

(* Every backup of the last Daily days is kept.                            *)
LEMMA RecentStay ==
  ASSUME NEW keys, NEW at, NEW k \in keys, Day(at) - Daily < Day(k), Day(k) <= Day(at)
  PROVE  k \in Keepers(keys, at)
BY KeepersAre DEF Recent

(* A backup is of the window or behind it.                                 *)
LEMMA RecentOrOld ==
  ASSUME NEW at \in Nat, NEW keys, NEW k \in keys, k \in Nat, ~(Day(at) - Daily < Day(k))
  PROVE  k \in Old(keys, at)
BY Calendar, Parameters DEF Old

(* A month inside the horizon keeps a backup.                              *)
LEMMA MonthsStay ==
  ASSUME NEW at \in Nat, NEW last \in Nat, NEW keys \in SUBSET (0..last),
         \A j \in keys : Day(j) <= Day(at), NEW k \in keys, Month(k) > Month(at) - Months
  PROVE  \E j \in Keepers(keys, at) : Month(j) = Month(k)
<1>1. CASE Day(at) - Daily < Day(k)
  BY <1>1, RecentStay
<1>2. CASE ~(Day(at) - Daily < Day(k))
  <2>1. k \in Old(keys, at) /\ k \in Nat
    BY <1>2, RecentOrOld
  <2>2. Month(at) - Month(k) < Months /\ Month(k) \in Nat /\ Month(at) \in Nat
    BY Calendar, Parameters
  <2>3. Month(k) \in OldMonths(keys, at)
    BY <2>1, <2>2, Parameters DEF OldMonths
  <2>4. Month(k) \in KeptMonths(keys, at)
    <3>1. Month(at) \in Int /\ Months \in Nat
      BY <2>2, Parameters
    <3>2. OldMonths(keys, at) \subseteq Nat /\ \A m \in OldMonths(keys, at) : m <= Month(at)
      BY OldSets
    <3> QED
      BY <2>2, <2>3, <3>1, <3>2, InTop DEF KeptMonths
  <2>5. OfMonth(Old(keys, at), Month(k)) \in Keepers(keys, at)
    BY <2>4, KeepersAre
  <2>6. Month(OfMonth(Old(keys, at), Month(k))) = Month(k)
    BY <2>1, Represented
  <2> QED
    BY <2>5, <2>6
<1> QED
  BY <1>1, <1>2

(* A year inside the horizon does, if an object of the day itself is in    *)
(* the bucket: the year in progress and those a kept month is in need none *)
(* of their own.                                                           *)
LEMMA YearsStay ==
  ASSUME NEW at \in Nat, NEW last \in Nat, NEW keys \in SUBSET (0..last),
         \A j \in keys : Day(j) <= Day(at), at \in keys, NEW k \in keys,
         Year(k) >= Year(at) - Years
  PROVE  \E j \in Keepers(keys, at) : Year(j) = Year(k)
<1>1. CASE Day(at) - Daily < Day(k)
  BY <1>1, RecentStay
<1>2. CASE Year(k) = Year(at)
  <2>1. at \in Keepers(keys, at)
    BY RecentStay, Calendar, Parameters
  <2> QED
    BY <1>2, <2>1
<1>3. ASSUME NEW m \in KeptMonths(keys, at), Year(k) = YearOf(m)
      PROVE  \E j \in Keepers(keys, at) : Year(j) = Year(k)
  <2>1. PICK x \in Old(keys, at) : Month(x) = m
    BY KeptPeriods
  <2>2. Month(OfMonth(Old(keys, at), m)) = m /\ OfMonth(Old(keys, at), m) \in Keepers(keys, at)
    BY <2>1, Represented, KeepersAre
  <2> QED
    BY <1>3, <2>2 DEF Year, YearOf
<1>4. CASE /\ ~(Day(at) - Daily < Day(k)) /\ Year(k) # Year(at)
           /\ \A m \in KeptMonths(keys, at) : Year(k) # YearOf(m)
  <2>1. k \in Old(keys, at) /\ k \in Nat
    BY <1>4, RecentOrOld
  <2>2. Year(k) \in OldYears(keys, at)
    BY <1>4, <2>1 DEF OldYears, CoveredYears
  <2>3. Year(k) \in Nat /\ Year(at) \in Nat /\ (Year(at) - 1) - Year(k) < Years
    BY Calendar, Parameters
  <2>4. Year(k) \in KeptYears(keys, at)
    <3>1. Year(at) - 1 \in Int /\ Years \in Nat
      BY <2>3, Parameters
    <3>2. /\ OldYears(keys, at) \subseteq Nat
          /\ \A y \in OldYears(keys, at) : y <= Year(at) - 1
      BY OldSets
    <3> QED
      BY <2>2, <2>3, <3>1, <3>2, InTop DEF KeptYears
  <2>5. OfYear(Old(keys, at), Year(k)) \in Keepers(keys, at)
    BY <2>4, KeepersAre
  <2>6. Year(OfYear(Old(keys, at), Year(k))) = Year(k)
    BY <2>1, Represented
  <2> QED
    BY <2>5, <2>6
<1> QED
  BY <1>1, <1>2, <1>3, <1>4

(* What is kept behind the window is no more than the policy's numbers.    *)
LEMMA KeepersBound ==
  ASSUME NEW last \in Nat, NEW keys \in SUBSET (0..last), NEW at \in Nat,
         Old(keys, at) \subseteq Keepers(keys, at)
  PROVE  Cardinality(Old(keys, at)) <= Months + Years
<1> DEFINE M == {OfMonth(Old(keys, at), m) : m \in KeptMonths(keys, at)}
           Y == {OfYear(Old(keys, at), y) : y \in KeptYears(keys, at)}
<1>1. IsFiniteSet(KeptMonths(keys, at)) /\ Cardinality(KeptMonths(keys, at)) <= Months
  <2>1. IsFiniteSet(OldMonths(keys, at))
    BY OldSets, FS_BoundedSetOfNaturals
  <2> QED
    BY <2>1, OldSets, TopBound, Parameters DEF KeptMonths
<1>2. IsFiniteSet(KeptYears(keys, at)) /\ Cardinality(KeptYears(keys, at)) <= Years
  <2>1. /\ OldYears(keys, at) \subseteq Nat /\ Year(at) \in Nat
        /\ \A y \in OldYears(keys, at) : y <= Year(at) - 1
    BY OldSets
  <2>2. \A y \in Nat : y <= Year(at) - 1 => y <= Year(at)
    BY <2>1
  <2>3. \A y \in OldYears(keys, at) : y <= Year(at)
    BY <2>1, <2>2
  <2>4. IsFiniteSet(OldYears(keys, at))
    BY <2>1, <2>3, FS_BoundedSetOfNaturals
  <2> QED
    BY <2>1, <2>4, TopBound, Parameters DEF KeptYears
<1>3. IsFiniteSet(M) /\ Cardinality(M) <= Cardinality(KeptMonths(keys, at))
  <2> DEFINE f == [m \in KeptMonths(keys, at) |-> OfMonth(Old(keys, at), m)]
  <2>1. f \in Surjection(KeptMonths(keys, at), M)
    BY DEF Surjection
  <2> QED
    BY <1>1, <2>1, FS_Surjection
<1>4. IsFiniteSet(Y) /\ Cardinality(Y) <= Cardinality(KeptYears(keys, at))
  <2> DEFINE f == [y \in KeptYears(keys, at) |-> OfYear(Old(keys, at), y)]
  <2>1. f \in Surjection(KeptYears(keys, at), Y)
    BY DEF Surjection
  <2> QED
    BY <1>2, <2>1, FS_Surjection
<1>5. Old(keys, at) \in SUBSET (M \cup Y)
  <2>1. ASSUME NEW k \in Old(keys, at) PROVE k \notin Recent(keys, at)
    <3>1. k \in Nat /\ Day(k) <= Day(at) - Daily
      BY DEF Old
    <3>2. Day(k) \in Nat /\ Day(at) \in Nat
      BY <3>1, Calendar
    <3> QED
      BY <3>1, <3>2, Parameters DEF Recent
  <2> QED
    BY <2>1, KeepersAre
<1> HIDE DEF M, Y
<1>6. /\ IsFiniteSet(M \cup Y)
      /\ Cardinality(M \cup Y) = Cardinality(M) + Cardinality(Y) - Cardinality(M \cap Y)
  BY <1>3, <1>4, FS_Union
<1>7. IsFiniteSet(M \cap Y)
  BY <1>3, FS_Intersection
<1>8. IsFiniteSet(Old(keys, at)) /\ Cardinality(Old(keys, at)) <= Cardinality(M \cup Y)
  BY <1>5, <1>6, FS_Subset
<1>9. /\ Cardinality(M) \in Nat /\ Cardinality(Y) \in Nat /\ Cardinality(M \cap Y) \in Nat
      /\ Cardinality(KeptMonths(keys, at)) \in Nat /\ Cardinality(KeptYears(keys, at)) \in Nat
      /\ Cardinality(Old(keys, at)) \in Nat
  BY <1>1, <1>2, <1>3, <1>4, <1>7, <1>8, FS_CardinalityType
<1> QED
  BY <1>1, <1>2, <1>3, <1>4, <1>6, <1>8, <1>9, Parameters

(* The policy chooses again what it chose when objects it did not choose   *)
(* have gone.                                                              *)
LEMMA KeepersStable ==
  ASSUME NEW at \in Nat, NEW last \in Nat, NEW keys \in SUBSET (0..last),
         NEW part \in SUBSET keys, Keepers(keys, at) \subseteq part
  PROVE  Keepers(part, at) = Keepers(keys, at)
<1>1. Old(part, at) \in SUBSET Old(keys, at) /\ part \in SUBSET (0..last)
  BY DEF Old
<1>2. ASSUME NEW m \in KeptMonths(keys, at)
      PROVE  /\ OfMonth(Old(keys, at), m) \in Old(part, at)
             /\ Month(OfMonth(Old(keys, at), m)) = m
  <2>1. PICK k \in Old(keys, at) : Month(k) = m
    BY KeptPeriods
  <2>2. OfMonth(Old(keys, at), m) \in Old(keys, at) /\ Month(OfMonth(Old(keys, at), m)) = m
    BY <2>1, Represented
  <2>3. OfMonth(Old(keys, at), m) \in part
    BY KeepersAre
  <2> QED
    BY <2>2, <2>3 DEF Old
<1>3. ASSUME NEW y \in KeptYears(keys, at)
      PROVE  /\ OfYear(Old(keys, at), y) \in Old(part, at)
             /\ Year(OfYear(Old(keys, at), y)) = y
  <2>1. PICK k \in Old(keys, at) : Year(k) = y
    BY KeptPeriods
  <2>2. OfYear(Old(keys, at), y) \in Old(keys, at) /\ Year(OfYear(Old(keys, at), y)) = y
    BY <2>1, Represented
  <2>3. OfYear(Old(keys, at), y) \in part
    BY KeepersAre
  <2> QED
    BY <2>2, <2>3 DEF Old
<1>4. KeptMonths(part, at) = KeptMonths(keys, at)
  <2>1. OldMonths(part, at) \in SUBSET OldMonths(keys, at)
    BY <1>1 DEF OldMonths
  <2>2. ASSUME NEW m \in KeptMonths(keys, at) PROVE m \in OldMonths(part, at)
    BY <1>2, KeptPeriods DEF OldMonths
  <2>3. /\ OldMonths(keys, at) \subseteq Nat /\ Month(at) \in Nat
        /\ \A m \in OldMonths(keys, at) : m <= Month(at)
    BY OldSets
  <2>4. Top(OldMonths(keys, at), Months) \subseteq OldMonths(part, at)
    BY <2>2 DEF KeptMonths
  <2> QED
    BY <2>1, <2>3, <2>4, TopStable, Parameters DEF KeptMonths
<1>5. KeptYears(part, at) = KeptYears(keys, at)
  <2>1. OldYears(part, at) \in SUBSET OldYears(keys, at)
    BY <1>1, <1>4 DEF OldYears
  <2>2. ASSUME NEW y \in KeptYears(keys, at) PROVE y \in OldYears(part, at)
    <3>1. y \in OldYears(keys, at)
      BY KeptPeriods
    <3> QED
      BY <1>3, <1>4, <3>1 DEF OldYears
  <2>3. /\ OldYears(keys, at) \subseteq Nat /\ Year(at) \in Nat
        /\ \A y \in OldYears(keys, at) : y <= Year(at) - 1
    BY OldSets
  <2>4. \A y \in OldYears(keys, at) : y <= Year(at)
    <3>1. \A y \in Nat : y <= Year(at) - 1 => y <= Year(at)
      BY <2>3
    <3> QED
      BY <2>3, <3>1
  <2>5. Top(OldYears(keys, at), Years) \subseteq OldYears(part, at)
    BY <2>2 DEF KeptYears
  <2> QED
    BY <2>1, <2>3, <2>4, <2>5, TopStable, Parameters DEF KeptYears
<1>6. Recent(part, at) = Recent(keys, at)
  BY KeepersAre DEF Recent
<1>7. ASSUME NEW m \in KeptMonths(keys, at)
      PROVE  OfMonth(Old(part, at), m) = OfMonth(Old(keys, at), m)
  <2> DEFINE S == {k \in Old(keys, at) : Month(k) = m}
             T == {k \in Old(part, at) : Month(k) = m}
  <2>1. S \subseteq Nat /\ S # {} /\ \A k \in S : k <= last
    <3>1. Old(keys, at) \subseteq Nat /\ \A k \in Old(keys, at) : k <= last
      BY OldSets
    <3>2. S # {}
      BY KeptPeriods
    <3> QED
      BY <3>1, <3>2
  <2>2. T \in SUBSET S /\ Latest(S) \in T
    BY <1>1, <1>2 DEF OfMonth
  <2>3. Latest(T) = Latest(S)
    <3> HIDE DEF S, T
    <3> QED
      BY <2>1, <2>2, LatestStable
  <2> QED
    BY <2>3 DEF OfMonth
<1>8. ASSUME NEW y \in KeptYears(keys, at)
      PROVE  OfYear(Old(part, at), y) = OfYear(Old(keys, at), y)
  <2> DEFINE S == {k \in Old(keys, at) : Year(k) = y}
             T == {k \in Old(part, at) : Year(k) = y}
  <2>1. S \subseteq Nat /\ S # {} /\ \A k \in S : k <= last
    <3>1. Old(keys, at) \subseteq Nat /\ \A k \in Old(keys, at) : k <= last
      BY OldSets
    <3>2. S # {}
      BY KeptPeriods
    <3> QED
      BY <3>1, <3>2
  <2>2. T \in SUBSET S /\ Latest(S) \in T
    BY <1>1, <1>3 DEF OfYear
  <2>3. Latest(T) = Latest(S)
    <3> HIDE DEF S, T
    <3> QED
      BY <2>1, <2>2, LatestStable
  <2> QED
    BY <2>3 DEF OfYear
<1> QED
  BY <1>4, <1>5, <1>6, <1>7, <1>8, KeepersAre

-----------------------------------------------------------------------------
(* Types, for runs that overlap midnight as well.                          *)

(* Every step keeps the types.                                             *)
LEMMA NextTypes == TypeOK /\ [Next]_vars => TypeOK'
<1> SUFFICES ASSUME TypeOK, [Next]_vars PROVE TypeOK'
  OBVIOUS
<1> DEFINE Runs == [key: taken, pruned: SUBSET taken, left: SUBSET taken, ok: BOOLEAN]
<1>1. /\ now \in Nat /\ faults \in Nat /\ MaxDay \in Nat /\ MaxFaults \in Nat
      /\ pruning \subseteq Runs
  BY Parameters DEF TypeOK
<1>2. CASE Start
  BY <1>1, <1>2 DEF Start, TypeOK
<1>3. ASSUME NEW key \in dumping, Upload(key) PROVE TypeOK'
  <2>1. /\ dumping' = dumping \ {key} /\ listing' = listing \cup {key}
        /\ store' = store \cup {key} /\ taken' = taken \cup {key}
        /\ UNCHANGED <<now, pruning, claimed, complete, faults>>
    BY <1>3 DEF Upload
  <2>2. pruning' \subseteq [key: taken', pruned: SUBSET taken', left: SUBSET taken', ok: BOOLEAN]
    <3>1. \A x \in Runs : x \in [key: taken', pruned: SUBSET taken', left: SUBSET taken', ok: BOOLEAN]
      BY <2>1
    <3> QED
      BY <1>1, <2>1, <3>1
  <2> QED
    BY <2>1, <2>2 DEF TypeOK
<1>4. ASSUME NEW key \in dumping, Fail(key) PROVE TypeOK'
  BY <1>1, <1>4 DEF Fail, TypeOK
<1>5. ASSUME NEW key \in listing, NEW keys \in SUBSET store, NEW ok \in BOOLEAN,
             Listed(key, keys, ok), faults' \in 0..MaxFaults
      PROVE  TypeOK'
  <2>1. /\ listing' = listing \ {key}
        /\ pruning' = pruning \cup {[key |-> key, pruned |-> keys, left |-> keys, ok |-> ok]}
        /\ UNCHANGED <<now, dumping, store, taken, claimed, complete>>
    BY <1>5 DEF Listed
  <2>2. [key |-> key, pruned |-> keys, left |-> keys, ok |-> ok] \in Runs
    BY <1>5 DEF TypeOK
  <2> QED
    BY <1>1, <1>5, <2>1, <2>2 DEF TypeOK
<1>6. ASSUME NEW key \in listing, List(key) PROVE TypeOK'
  <2>1. Listed(key, Doomed(store, key), TRUE) /\ faults' = faults
    BY <1>6 DEF List
  <2>2. Doomed(store, key) \in SUBSET store /\ faults' \in 0..MaxFaults
    BY <2>1 DEF Doomed, TypeOK
  <2> QED
    BY <1>5, <2>1, <2>2
<1>7. ASSUME NEW key \in listing, ListFails(key) PROVE TypeOK'
  <2>1. Listed(key, {}, FALSE) /\ faults' = faults + 1 /\ faults < MaxFaults
    BY <1>7 DEF ListFails
  <2>2. faults' \in 0..MaxFaults
    BY <1>1, <2>1
  <2>3. {} \in SUBSET store /\ FALSE \in BOOLEAN
    OBVIOUS
  <2> QED
    BY <1>5, <2>1, <2>2, <2>3
<1>8. ASSUME NEW run \in pruning, Delete(run) PROVE TypeOK'
  <2> DEFINE k == Min(run.left)
             r == [run EXCEPT !.left = run.left \ {k}]
  <2>1. /\ store' = store \ {k} /\ pruning' = (pruning \ {run}) \cup {r}
        /\ UNCHANGED <<now, dumping, listing, taken, claimed, complete, faults>>
    BY <1>8 DEF Delete
  <2>2. r \in Runs
    BY <1>1
  <2> HIDE DEF k, r
  <2> QED
    BY <1>1, <2>1, <2>2 DEF TypeOK
<1>9. ASSUME NEW run \in pruning, DeleteFails(run) PROVE TypeOK'
  <2> DEFINE r == [run EXCEPT !.left = {}, !.ok = FALSE]
  <2>1. /\ pruning' = (pruning \ {run}) \cup {r} /\ faults' = faults + 1 /\ faults < MaxFaults
        /\ UNCHANGED <<now, dumping, listing, store, taken, claimed, complete>>
    BY <1>9 DEF DeleteFails
  <2>2. r \in Runs
    BY <1>1
  <2> HIDE DEF r
  <2> QED
    BY <1>1, <2>1, <2>2 DEF TypeOK
<1>10. ASSUME NEW run \in pruning, Record(run) PROVE TypeOK'
  <2>1. run.pruned \subseteq taken /\ run.ok \in BOOLEAN
    BY <1>1
  <2> QED
    BY <1>10, <2>1 DEF Record, TypeOK
<1>11. CASE Crash
  <2>1. complete' \in BOOLEAN
    BY <1>11 DEF Crash, TypeOK
  <2> QED
    BY <1>1, <1>11, <2>1 DEF Crash, TypeOK
<1>12. CASE Tick
  <2>1. now' = now + 1 /\ Day(now + 1) <= MaxDay
        /\ UNCHANGED <<dumping, listing, pruning, store, taken, claimed, complete>>
    BY <1>12 DEF Tick
  <2>2. faults' \in 0..MaxFaults
    BY <1>1, <1>12 DEF Tick, TypeOK
  <2>3. now' \in Nat /\ Day(now') <= MaxDay /\ \A S \in SUBSET (0..now) : S \subseteq 0..now'
    BY <1>1, <2>1
  <2> QED
    BY <2>1, <2>2, <2>3 DEF TypeOK
<1>13. CASE UNCHANGED vars
  BY <1>13 DEF vars, TypeOK
<1> QED
  BY <1>2, <1>3, <1>4, <1>6, <1>7, <1>8, <1>9, <1>10, <1>11, <1>12, <1>13 DEF Next, Running

(* At the start there is nothing.                                          *)
LEMMA InitTypes == Init => TypeOK
<1>1. Day(0) = 0
  BY Parameters DEF Day
<1> QED
  BY <1>1, Parameters DEF Init, TypeOK

(* Keys are moments of the calendar, and the bucket holds only uploads.    *)
THEOREM RetentionTypes == Spec => []TypeOK
BY InitTypes, NextTypes, PTL DEF Spec

-----------------------------------------------------------------------------
(* What is kept and how much, when the runs are done before midnight.      *)

(* All runs of a day prune by the same policy.                             *)
LEMMA SameDay ==
  ASSUME NEW keys, NEW a, NEW b, Day(a) = Day(b)
  PROVE  /\ Old(keys, a) = Old(keys, b) /\ Keepers(keys, a) = Keepers(keys, b)
         /\ Month(a) = Month(b) /\ Year(a) = Year(b)
<1>1. Month(a) = Month(b)
  BY DEF Month
<1>2. Year(a) = Year(b)
  BY <1>1 DEF Year
<1>3. Old(keys, a) = Old(keys, b) /\ Recent(keys, a) = Recent(keys, b)
  BY DEF Old, Recent
<1>4. KeptMonths(keys, a) = KeptMonths(keys, b)
  BY <1>1, <1>3 DEF KeptMonths, OldMonths
<1>5. KeptYears(keys, a) = KeptYears(keys, b)
  BY <1>2, <1>3, <1>4 DEF KeptYears, OldYears, CoveredYears
<1> QED
  BY <1>1, <1>2, <1>3, <1>4, <1>5 DEF Keepers

(* An upload of the day is kept, and changes nothing behind the window.    *)
LEMMA KeepersGrow ==
  ASSUME NEW keys, NEW at \in Nat, NEW k, Day(k) = Day(at)
  PROVE  /\ Old(keys \cup {k}, at) = Old(keys, at)
         /\ Keepers(keys \cup {k}, at) = Keepers(keys, at) \cup {k}
<1>1. Day(at) \in Nat
  BY Calendar
<1>2. ~(Day(k) <= Day(at) - Daily) /\ Day(at) - Daily < Day(k) /\ Day(k) <= Day(at)
  BY <1>1, Parameters
<1>3. Old(keys \cup {k}, at) = Old(keys, at)
  BY <1>2 DEF Old
<1>4. Recent(keys \cup {k}, at) = Recent(keys, at) \cup {k}
  BY <1>2 DEF Recent
<1>5. KeptMonths(keys \cup {k}, at) = KeptMonths(keys, at)
  BY <1>3 DEF KeptMonths, OldMonths
<1>6. KeptYears(keys \cup {k}, at) = KeptYears(keys, at)
  BY <1>3, <1>5 DEF KeptYears, OldYears
<1> QED
  BY <1>3, <1>4, <1>5, <1>6, KeepersAre

\* A run is one of today; its object is in the bucket once it is uploaded.
TodaysRuns ==
  /\ \A k \in dumping : Day(k) = Day(now)
  /\ \A k \in listing : Day(k) = Day(now) /\ k \in store
  /\ \A r \in pruning : Day(r.key) = Day(now) /\ r.key \in store

\* What a run has still to delete is behind the window and is not what the
\* policy would choose from the bucket as it is now, whatever other runs
\* have done since the listing; and apart from it there is nothing else.
PruneInv ==
  \A r \in pruning :
    /\ \A k \in r.left : Day(k) <= Day(now) - Daily /\ k \notin Keepers(store, now)
    /\ r.ok => \A k \in Old(store, now) : k \in r.left \/ k \in Keepers(store, now)

Kept == TodaysRuns /\ PruneInv /\ RecentKept /\ PeriodsKept /\ StoreBounded
KeptInv == TypeOK /\ Kept

(* What the lemmas below need of the types.                                *)
LEMMA StoreTypes ==
  ASSUME KeptInv
  PROVE  /\ now \in Nat /\ Day(now) \in Nat /\ store \in SUBSET (0..now)
         /\ \A k \in taken : k \in Nat /\ k <= now /\ Day(k) \in Nat /\ Day(k) <= Day(now)
         /\ \A k \in store : k \in taken
<1>1. now \in Nat /\ store \subseteq taken /\ taken \subseteq 0..now
  BY DEF KeptInv, TypeOK
<1>2. \A k \in taken : k \in Nat /\ k <= now
  BY <1>1
<1> QED
  BY <1>1, <1>2, Calendar

(* An upload adds to what is kept.                                         *)
LEMMA UploadKeeps ==
  ASSUME KeptInv, NEW key \in dumping, Upload(key)
  PROVE  Kept'
<1>1. /\ listing' = listing \cup {key} /\ store' = store \cup {key}
      /\ dumping' = dumping \ {key} /\ taken' = taken \cup {key}
      /\ UNCHANGED <<now, pruning, complete>>
  BY DEF Upload
<1>2. Day(key) = Day(now) /\ now \in Nat
  BY StoreTypes DEF KeptInv, Kept, TodaysRuns
<1>3. TodaysRuns'
  BY <1>1, <1>2 DEF KeptInv, Kept, TodaysRuns
<1>4. Old(store', now) = Old(store, now) /\ Keepers(store', now) = Keepers(store, now) \cup {key}
  BY <1>1, <1>2, KeepersGrow
<1>5. PruneInv'
  <2> SUFFICES ASSUME NEW r \in pruning
               PROVE  /\ \A k \in r.left : Day(k) <= Day(now) - Daily /\ k \notin Keepers(store', now)
                      /\ r.ok => \A k \in Old(store', now) : k \in r.left \/ k \in Keepers(store', now)
    BY <1>1 DEF PruneInv
  <2>1. /\ \A k \in r.left : Day(k) <= Day(now) - Daily /\ k \notin Keepers(store, now)
        /\ r.ok => \A k \in Old(store, now) : k \in r.left \/ k \in Keepers(store, now)
    BY DEF KeptInv, Kept, PruneInv
  <2>2. ~(Day(key) <= Day(now) - Daily)
    BY <1>2, StoreTypes, Parameters
  <2> QED
    BY <1>4, <2>1, <2>2
<1>6. RecentKept'
  BY <1>1 DEF KeptInv, Kept, RecentKept
<1>7. PeriodsKept'
  BY <1>1 DEF KeptInv, Kept, PeriodsKept
<1>8. StoreBounded'
  BY <1>1 DEF StoreBounded, Idle
<1> QED
  BY <1>3, <1>5, <1>6, <1>7, <1>8 DEF Kept

(* The selection is what is behind the window and not chosen.              *)
LEMMA ListKeeps ==
  ASSUME KeptInv, NEW key \in listing, List(key) \/ ListFails(key)
  PROVE  Kept'
<1>1. PICK keys \in SUBSET store, ok \in BOOLEAN :
        Listed(key, keys, ok) /\ (keys = Doomed(store, key) \/ (keys = {} /\ ~ok))
  <2>1. CASE List(key)
    <3>1. Doomed(store, key) \in SUBSET store
      BY DEF Doomed
    <3> QED
      BY <2>1, <3>1 DEF List
  <2>2. CASE ListFails(key)
    BY <2>2 DEF ListFails
  <2> QED
    BY <2>1, <2>2
<1> DEFINE new == [key |-> key, pruned |-> keys, left |-> keys, ok |-> ok]
<1>2. /\ listing' = listing \ {key} /\ pruning' = pruning \cup {new}
      /\ UNCHANGED <<now, dumping, store, taken, complete>>
  BY <1>1 DEF Listed
<1>3. Day(key) = Day(now) /\ key \in store
  BY DEF KeptInv, Kept, TodaysRuns
<1>4. new.key = key /\ new.left = keys /\ new.ok = ok
  OBVIOUS
<1> HIDE DEF new
<1>5. TodaysRuns'
  BY <1>2, <1>3, <1>4 DEF KeptInv, Kept, TodaysRuns
<1>6. Keepers(store, key) = Keepers(store, now)
  BY <1>3, SameDay
<1>7. /\ \A k \in keys : Day(k) <= Day(now) - Daily /\ k \notin Keepers(store, now)
      /\ ok => \A k \in Old(store, now) : k \in keys \/ k \in Keepers(store, now)
  <2>1. CASE keys = Doomed(store, key)
    <3>1. \A k \in store : k \in keys \/ k \in Keepers(store, now)
      BY <1>6, <2>1 DEF Doomed
    <3>2. ASSUME NEW k \in keys PROVE k \notin Keepers(store, now) /\ Day(k) <= Day(now) - Daily
      <4>1. k \in store /\ k \notin Keepers(store, now)
        BY <1>6, <2>1 DEF Doomed
      <4>2. Day(k) \in Nat /\ Day(k) <= Day(now) /\ Day(now) \in Nat
        BY <4>1, StoreTypes
      <4>3. ~(Day(now) - Daily < Day(k))
        BY <4>1, <4>2, RecentStay
      <4> QED
        BY <4>1, <4>2, <4>3, Parameters
    <3> QED
      BY <3>1, <3>2 DEF Old
  <2>2. CASE keys = {} /\ ~ok
    BY <2>2
  <2> QED
    BY <1>1, <2>1, <2>2
<1>8. PruneInv'
  BY <1>2, <1>4, <1>7 DEF KeptInv, Kept, PruneInv
<1>9. RecentKept' /\ PeriodsKept'
  BY <1>2 DEF KeptInv, Kept, RecentKept, PeriodsKept
<1>10. StoreBounded'
  BY <1>2 DEF StoreBounded, Idle
<1> QED
  BY <1>5, <1>8, <1>9, <1>10 DEF Kept

(* A delete takes nothing the policy would choose, whatever has been       *)
(* uploaded or deleted since the listing.                                  *)
LEMMA DeleteKeeps ==
  ASSUME KeptInv, NEW run \in pruning, Delete(run)
  PROVE  Kept'
<1> DEFINE x == Min(run.left)
           new == [run EXCEPT !.left = run.left \ {x}]
<1>1. /\ store' = store \ {x} /\ pruning' = (pruning \ {run}) \cup {new} /\ run.left # {}
      /\ UNCHANGED <<now, dumping, listing, taken, complete>>
  BY DEF Delete
<1>2. run \in [key: taken, pruned: SUBSET taken, left: SUBSET taken, ok: BOOLEAN]
  BY DEF KeptInv, TypeOK
<1>3. x \in run.left
  <2>1. run.left \subseteq Nat
    BY <1>2, StoreTypes
  <2>2. PICK y \in run.left : \A z \in run.left : y <= z
    BY <1>1, <2>1, Least
  <2> QED
    BY <2>2 DEF Min
<1>4. new.key = run.key /\ new.left = run.left \ {x} /\ new.ok = run.ok
  BY <1>2
<1> HIDE DEF x, new
<1>5. Day(x) <= Day(now) - Daily /\ x \notin Keepers(store, now)
  BY <1>3 DEF KeptInv, Kept, PruneInv
<1>6. now \in Nat /\ Day(now) \in Nat /\ store \in SUBSET (0..now)
  BY StoreTypes
<1>7. Keepers(store, now) \subseteq store /\ Keepers(store, now) \subseteq store'
  BY <1>1, <1>5, <1>6, KeepersInside
<1>8. Keepers(store', now) = Keepers(store, now)
  BY <1>1, <1>6, <1>7, KeepersStable
<1>9. \A k : Day(k) = Day(now) => k # x
  BY <1>5, <1>6, Parameters
<1>10. TodaysRuns'
  BY <1>1, <1>4, <1>9 DEF KeptInv, Kept, TodaysRuns
<1>11. Old(store', now) \subseteq Old(store, now) /\ x \notin Old(store', now)
  BY <1>1 DEF Old
<1>12. PruneInv'
  <2> SUFFICES ASSUME NEW r \in pruning'
               PROVE  /\ \A k \in r.left : Day(k) <= Day(now) - Daily /\ k \notin Keepers(store', now)
                      /\ r.ok => \A k \in Old(store', now) : k \in r.left \/ k \in Keepers(store', now)
    BY <1>1 DEF PruneInv
  <2>1. PICK s \in pruning : r.left \subseteq s.left /\ s.left \subseteq r.left \cup {x} /\ r.ok = s.ok
    BY <1>1, <1>4
  <2>2. /\ \A k \in s.left : Day(k) <= Day(now) - Daily /\ k \notin Keepers(store, now)
        /\ s.ok => \A k \in Old(store, now) : k \in s.left \/ k \in Keepers(store, now)
    BY DEF KeptInv, Kept, PruneInv
  <2> QED
    BY <1>8, <1>11, <2>1, <2>2
<1>13. Day(run.key) = Day(now) /\ run.key \in store /\ run.key \in Nat /\ \A k \in store : Day(k) <= Day(run.key)
  BY <1>6, StoreTypes DEF KeptInv, Kept, TodaysRuns
<1>14. /\ Keepers(store, run.key) \subseteq store' /\ Month(run.key) = Month(now)
       /\ Year(run.key) = Year(now)
  BY <1>7, <1>13, SameDay
<1>15. RecentKept'
  BY <1>1, <1>5, <1>6, StoreTypes, Parameters DEF KeptInv, Kept, RecentKept
<1>16. PeriodsKept'
  <2> SUFFICES ASSUME NEW k \in taken
               PROVE  /\ Month(k) > Month(now) - Months => \E j \in store' : Month(j) = Month(k)
                      /\ Year(k) >= Year(now) - Years => \E j \in store' : Year(j) = Year(k)
    BY <1>1 DEF PeriodsKept
  <2>1. ASSUME Month(k) > Month(now) - Months PROVE \E j \in store' : Month(j) = Month(k)
    <3>1. PICK i \in store : Month(i) = Month(k)
      BY <2>1 DEF KeptInv, Kept, PeriodsKept
    <3>2. \E j \in Keepers(store, run.key) : Month(j) = Month(i)
      BY <1>6, <1>13, <1>14, <2>1, <3>1, MonthsStay
    <3> QED
      BY <1>14, <3>1, <3>2
  <2>2. ASSUME Year(k) >= Year(now) - Years PROVE \E j \in store' : Year(j) = Year(k)
    <3>1. PICK i \in store : Year(i) = Year(k)
      BY <2>2 DEF KeptInv, Kept, PeriodsKept
    <3>2. \E j \in Keepers(store, run.key) : Year(j) = Year(i)
      BY <1>6, <1>13, <1>14, <2>2, <3>1, YearsStay
    <3> QED
      BY <1>14, <3>1, <3>2
  <2> QED
    BY <2>1, <2>2
<1>17. StoreBounded'
  BY <1>1 DEF StoreBounded, Idle
<1> QED
  BY <1>10, <1>12, <1>15, <1>16, <1>17 DEF Kept

(* A prune that breaks off leaves what it had to delete.                   *)
LEMMA DeleteFailsKeeps ==
  ASSUME KeptInv, NEW run \in pruning, DeleteFails(run)
  PROVE  Kept'
<1> DEFINE new == [run EXCEPT !.left = {}, !.ok = FALSE]
<1>1. /\ pruning' = (pruning \ {run}) \cup {new}
      /\ UNCHANGED <<now, dumping, listing, store, taken, complete>>
  BY DEF DeleteFails
<1>2. new.key = run.key /\ new.left = {} /\ ~new.ok
  BY DEF KeptInv, TypeOK
<1> HIDE DEF new
<1>3. TodaysRuns'
  BY <1>1, <1>2 DEF KeptInv, Kept, TodaysRuns
<1>4. PruneInv'
  BY <1>1, <1>2 DEF KeptInv, Kept, PruneInv
<1>5. RecentKept' /\ PeriodsKept'
  BY <1>1 DEF KeptInv, Kept, RecentKept, PeriodsKept
<1>6. StoreBounded'
  BY <1>1 DEF StoreBounded, Idle
<1> QED
  BY <1>3, <1>4, <1>5, <1>6 DEF Kept

(* A prune in which nothing failed leaves the policy's numbers, although   *)
(* other runs of the day uploaded and deleted since its listing.           *)
LEMMA RecordKeeps ==
  ASSUME KeptInv, NEW run \in pruning, Record(run)
  PROVE  Kept'
<1>1. /\ run.left = {} /\ pruning' = pruning \ {run} /\ complete' = run.ok
      /\ UNCHANGED <<now, dumping, listing, store, taken>>
  BY DEF Record
<1>2. TodaysRuns' /\ PruneInv' /\ RecentKept' /\ PeriodsKept'
  BY <1>1 DEF KeptInv, Kept, TodaysRuns, PruneInv, RecentKept, PeriodsKept
<1>3. StoreBounded'
  <2> SUFFICES ASSUME run.ok, NEW k \in store, \A j \in store : Day(j) <= Day(k)
               PROVE  Cardinality(Old(store, k)) <= Months + Years
    BY <1>1 DEF StoreBounded
  <2>1. Old(store, now) \subseteq Keepers(store, now)
    BY <1>1 DEF KeptInv, Kept, PruneInv
  <2>2. now \in Nat /\ store \in SUBSET (0..now)
    BY StoreTypes
  <2>3. Cardinality(Old(store, now)) <= Months + Years
    BY <2>1, <2>2, KeepersBound
  <2>4. run.key \in store /\ Day(run.key) = Day(now)
    BY DEF KeptInv, Kept, TodaysRuns
  <2>5. Day(k) = Day(now)
    BY <2>4, StoreTypes
  <2> QED
    BY <2>3, <2>5, SameDay
<1> QED
  BY <1>2, <1>3 DEF Kept

(* The clock moves the horizons on and nothing else.                       *)
LEMMA TickKeeps ==
  ASSUME KeptInv, Tick, Quiet \/ Day(now') = Day(now)
  PROVE  Kept'
<1>1. now' = now + 1 /\ UNCHANGED <<dumping, listing, pruning, store, taken, complete>>
  BY DEF Tick
<1>2. now \in Nat /\ now' \in Nat /\ now <= now'
  BY <1>1, StoreTypes
<1>3. /\ Day(now) \in Nat /\ Day(now') \in Nat /\ Day(now) <= Day(now')
      /\ Month(now) \in Nat /\ Month(now') \in Nat /\ Month(now) <= Month(now')
      /\ Year(now) \in Nat /\ Year(now') \in Nat /\ Year(now) <= Year(now')
  BY <1>2, Calendar
<1>4. \A k \in taken : Day(k) \in Nat /\ Month(k) \in Nat /\ Year(k) \in Nat
  BY StoreTypes, Calendar
<1>5. TodaysRuns' /\ PruneInv'
  <2>1. CASE Quiet
    BY <1>1, <2>1 DEF Quiet, Idle, TodaysRuns, PruneInv
  <2>2. CASE Day(now') = Day(now)
    <3>1. Old(store, now') = Old(store, now) /\ Keepers(store, now') = Keepers(store, now)
      BY <2>2, SameDay
    <3>2. TodaysRuns'
      BY <1>1, <2>2 DEF KeptInv, Kept, TodaysRuns
    <3> QED
      BY <1>1, <2>2, <3>1, <3>2 DEF KeptInv, Kept, PruneInv
  <2> QED
    BY <2>1, <2>2
<1>6. RecentKept'
  <2> SUFFICES ASSUME NEW k \in taken, Day(now') - Daily < Day(k) PROVE k \in store
    BY <1>1 DEF RecentKept
  <2>1. Day(now) - Daily < Day(k)
    BY <1>3, <1>4, Parameters
  <2> QED
    BY <2>1 DEF KeptInv, Kept, RecentKept
<1>7. PeriodsKept'
  <2> SUFFICES ASSUME NEW k \in taken
               PROVE  /\ Month(k) > Month(now') - Months => \E j \in store : Month(j) = Month(k)
                      /\ Year(k) >= Year(now') - Years => \E j \in store : Year(j) = Year(k)
    BY <1>1 DEF PeriodsKept
  <2>1. /\ Month(k) > Month(now') - Months => Month(k) > Month(now) - Months
        /\ Year(k) >= Year(now') - Years => Year(k) >= Year(now) - Years
    BY <1>3, <1>4, Parameters
  <2> QED
    BY <2>1 DEF KeptInv, Kept, PeriodsKept
<1>8. StoreBounded'
  BY <1>1 DEF KeptInv, Kept, StoreBounded, Idle
<1> QED
  BY <1>5, <1>6, <1>7, <1>8 DEF Kept

(* The other steps touch neither the bucket nor the clock.                 *)
LEMMA OthersKeep ==
  ASSUME KeptInv, Start \/ Crash \/ (\E key \in dumping : Fail(key)) \/ UNCHANGED vars
  PROVE  Kept'
<1>1. /\ UNCHANGED <<now, store, taken>> /\ dumping' \subseteq dumping \cup {now}
      /\ listing' \subseteq listing /\ pruning' \subseteq pruning
  BY DEF Start, Crash, Fail, vars
<1>2. TodaysRuns'
  BY <1>1 DEF KeptInv, Kept, TodaysRuns
<1>3. PruneInv' /\ RecentKept' /\ PeriodsKept'
  BY <1>1 DEF KeptInv, Kept, PruneInv, RecentKept, PeriodsKept
<1>4. StoreBounded'
  <2>1. complete' /\ Idle' => complete /\ Idle
    BY DEF Start, Crash, Fail, vars, Idle
  <2> QED
    BY <1>1, <2>1 DEF KeptInv, Kept, StoreBounded
<1> QED
  BY <1>2, <1>3, <1>4 DEF Kept

(* All of it is an invariant.                                              *)
LEMMA PromptInv ==
  /\ Init => KeptInv
  /\ KeptInv /\ [NextPrompt]_vars => KeptInv'
<1>1. Init => KeptInv
  BY InitTypes DEF Init, KeptInv, Kept, TodaysRuns, PruneInv, RecentKept, PeriodsKept, StoreBounded
<1>2. ASSUME KeptInv, [NextPrompt]_vars PROVE KeptInv'
  <2>1. TypeOK'
    BY <1>2, NextTypes DEF KeptInv, NextPrompt, Next
  <2>2. Kept'
    BY <1>2, UploadKeeps, ListKeeps, DeleteKeeps, DeleteFailsKeeps, RecordKeeps, TickKeeps, OthersKeep
       DEF NextPrompt, Running
  <2> QED
    BY <2>1, <2>2 DEF KeptInv
<1> QED
  BY <1>1, <1>2

(* With any number of runs a day, listing and deleting between one         *)
(* another's steps and done by midnight, every backup of the last Daily    *)
(* days stays, and one of every month and year inside the horizons there   *)
(* was one of.                                                             *)
THEOREM HistoryIsKept == SpecPrompt => []HistoryKept
<1>1. KeptInv => HistoryKept
  BY DEF KeptInv, Kept, HistoryKept
<1> QED
  BY <1>1, PromptInv, PTL DEF SpecPrompt

(* When a prune has ended with nothing failed, the bucket holds at most    *)
(* Months + Years objects behind the window of the newest, whatever failed *)
(* or crashed before and however the runs of a day overlap.                *)
THEOREM StoreIsBounded == SpecPrompt => []StoreBounded
<1>1. KeptInv => StoreBounded
  BY DEF KeptInv, Kept
<1> QED
  BY <1>1, PromptInv, PTL DEF SpecPrompt
=============================================================================
