----------------------------- MODULE Retention -----------------------------
(***************************************************************************)
(* backup_db over the objects of one bucket prefix: a run dumps, uploads   *)
(* an object named after the moment the run started, prunes what the       *)
(* retention policy does not keep, and writes a BACKUP_CREATED row.  A run *)
(* may start at any moment of a day, whatever other runs are under way: by *)
(* night from cron, by hand before a migration.  An object is its key, the *)
(* key is the moment, and the calendar has months and years of a fixed     *)
(* length.                                                                 *)
(***************************************************************************)
EXTENDS Integers, FiniteSets, FiniteSetsExt

CONSTANTS
  PerDay,                       \* the moments of a day a run can start at
  DaysPerMonth, MonthsPerYear,  \* the calendar
  Daily, Months, Years,         \* the policy: 30, 12 and 7 in the code
  MaxDay,                       \* bound: the last day
  MaxManual,                    \* bound: backups beside the first of a day
  MaxFaults                     \* bound: days without a backup, and failed runs

ASSUME RetentionAssumption ==
  /\ {PerDay, DaysPerMonth, MonthsPerYear, Daily, Months, Years} \subseteq Nat \ {0}
  /\ {MaxDay, MaxManual, MaxFaults} \subseteq Nat

VARIABLES
  now,
  dumping,   \* the keys of runs that have started and not uploaded
  listing,   \* those whose object is uploaded and the bucket still to list
  pruning,   \* [key, pruned, left, ok]: runs that have selected, what of it is
             \* still to delete, and whether nothing has failed
  store,     \* the objects in the bucket
  taken,     \* the backups ever uploaded
  claimed,   \* the keys the last BACKUP_CREATED row names as pruned
  complete,  \* the last prune to end deleted all it had to
  faults

vars == <<now, dumping, listing, pruning, store, taken, claimed, complete, faults>>

Day(key) == key \div PerDay
Month(key) == Day(key) \div DaysPerMonth
Year(key) == Month(key) \div MonthsPerYear
YearOf(month) == month \div MonthsPerYear

Top(S, n) == {x \in S : Cardinality({y \in S : y > x}) < n}

\* Of several objects of the latest day, the first listed: a later one must
\* be of a later day to take its place.  The bucket lists keys in order.
Latest(keys) ==
  CHOOSE k \in keys :
    \A j \in keys : Day(j) < Day(k) \/ (Day(j) = Day(k) /\ k <= j)

\* Fault: the window is a day short.
RecentShort(keys, at) == {k \in keys : Day(at) - Daily + 1 < Day(k) /\ Day(k) <= Day(at)}

Recent(keys, at) == {k \in keys : Day(at) - Daily < Day(k) /\ Day(k) <= Day(at)}
Old(keys, at) == {k \in keys : Day(k) <= Day(at) - Daily}

\* Fault: every year the monthly horizon reaches into counts as covered.
CoveredHorizon(at, months) == {YearOf(m) : m \in (Month(at) - Months)..Month(at)}

CoveredYears(at, months) == {Year(at)} \cup {YearOf(m) : m \in months}

OldMonths(keys, at) == {m \in {Month(k) : k \in Old(keys, at)} : m >= Month(at) - Months}
KeptMonths(keys, at) == Top(OldMonths(keys, at), Months)
OldYears(keys, at) ==
  {y \in {Year(k) : k \in Old(keys, at)} : y >= Year(at) - Years}
    \ CoveredYears(at, KeptMonths(keys, at))
KeptYears(keys, at) == Top(OldYears(keys, at), Years)

\* select_keepers, for the day of the run's start.  An object of a later day
\* is in no bucket.
Keepers(keys, at) ==
  Recent(keys, at)
    \cup {Latest({k \in Old(keys, at) : Month(k) = m}) : m \in KeptMonths(keys, at)}
    \cup {Latest({k \in Old(keys, at) : Year(k) = y}) : y \in KeptYears(keys, at)}

\* Fault: only what is past the last horizon goes.
DoomedLate(keys, at) == {k \in keys : Year(k) < Year(at) - Years}

\* select_for_deletion
Doomed(keys, at) == keys \ Keepers(keys, at)

Init ==
  /\ now = 0
  /\ dumping = {} /\ listing = {} /\ pruning = {}
  /\ store = {} /\ taken = {} /\ claimed = {}
  /\ complete = TRUE
  /\ faults = 0

\* cron's run is the day's first moment, the others are by hand.
Nightly(key) == key % PerDay = 0
Manual == {k \in dumping \cup taken : ~Nightly(k)}

\* The run's object key, and the day it prunes for, are those of its start.
\* Two runs do not start in the same second.
Start ==
  /\ now \notin dumping \cup taken
  /\ Nightly(now) \/ Cardinality(Manual) < MaxManual
  /\ dumping' = dumping \cup {now}
  /\ UNCHANGED <<now, listing, pruning, store, taken, claimed, complete, faults>>

\* pg_dump, age and the upload succeed.
Upload(key) ==
  /\ key \in dumping
  /\ dumping' = dumping \ {key}
  /\ listing' = listing \cup {key}
  /\ store' = store \cup {key}
  /\ taken' = taken \cup {key}
  /\ UNCHANGED <<now, pruning, claimed, complete, faults>>

\* Fault: a failed upload leaves an object behind.
FailPartial(key) ==
  /\ key \in dumping /\ faults < MaxFaults
  /\ dumping' = dumping \ {key}
  /\ store' = store \cup {key}
  /\ faults' = faults + 1
  /\ UNCHANGED <<now, listing, pruning, taken, claimed, complete>>

\* One of them fails: no object, no row.
Fail(key) ==
  /\ key \in dumping /\ faults < MaxFaults
  /\ dumping' = dumping \ {key}
  /\ faults' = faults + 1
  /\ UNCHANGED <<now, listing, pruning, store, taken, claimed, complete>>

Listed(key, keys, ok) ==
  /\ key \in listing
  /\ listing' = listing \ {key}
  /\ pruning' = pruning \cup {[key |-> key, pruned |-> keys, left |-> keys, ok |-> ok]}
  /\ UNCHANGED <<now, dumping, store, taken, claimed, complete>>

\* The bucket is listed and the selection made; the deletes come later.
List(key) == Listed(key, Doomed(store, key), TRUE) /\ UNCHANGED faults

\* The listing fails before anything is selected.
ListFails(key) ==
  /\ faults < MaxFaults
  /\ Listed(key, {}, FALSE)
  /\ faults' = faults + 1

\* The keys of the selection are deleted in the order of the listing; one
\* that is gone already is deleted again without an error.
Delete(run) ==
  /\ run \in pruning /\ run.left # {}
  /\ LET k == Min(run.left)
     IN  /\ store' = store \ {k}
         /\ pruning' = (pruning \ {run}) \cup {[run EXCEPT !.left = run.left \ {k}]}
  /\ UNCHANGED <<now, dumping, listing, taken, claimed, complete, faults>>

\* A delete fails: the rest of the selection stays.
DeleteFails(run) ==
  /\ run \in pruning /\ run.left # {} /\ faults < MaxFaults
  /\ pruning' = (pruning \ {run}) \cup {[run EXCEPT !.left = {}, !.ok = FALSE]}
  /\ faults' = faults + 1
  /\ UNCHANGED <<now, dumping, listing, store, taken, claimed, complete>>

\* The row names the selection as it was made, whatever became of it.
Record(run) ==
  /\ run \in pruning /\ run.left = {}
  /\ pruning' = pruning \ {run}
  /\ claimed' = run.pruned
  /\ complete' = run.ok
  /\ UNCHANGED <<now, dumping, listing, store, taken, faults>>

Idle == listing = {} /\ pruning = {}
Quiet == Idle /\ dumping = {}

\* The container goes down with whatever is running in it.
Crash ==
  /\ faults < MaxFaults
  /\ ~Quiet
  /\ dumping' = {} /\ listing' = {} /\ pruning' = {}
  /\ complete' = (complete /\ Idle)
  /\ faults' = faults + 1
  /\ UNCHANGED <<now, store, taken, claimed>>

\* The clock goes on; a night without a run is a fault, the host was down.
Missed == Nightly(now) /\ now \notin dumping \cup taken
Tick ==
  /\ Day(now + 1) <= MaxDay
  /\ Missed => faults < MaxFaults
  /\ faults' = IF Missed THEN faults + 1 ELSE faults
  /\ now' = now + 1
  /\ UNCHANGED <<dumping, listing, pruning, store, taken, claimed, complete>>

Running ==
  \/ Start
  \/ \E key \in dumping : Upload(key) \/ Fail(key)
  \/ \E key \in listing : List(key) \/ ListFails(key)
  \/ \E run \in pruning : Delete(run) \/ DeleteFails(run) \/ Record(run)
  \/ Crash

Next == Running \/ Tick
Spec == Init /\ [][Next]_vars

\* Runs, however many and however they overlap, that finish before midnight.
NextPrompt == Running \/ (Tick /\ (Quiet \/ Day(now') = Day(now)))
SpecPrompt == Init /\ [][NextPrompt]_vars

-----------------------------------------------------------------------------
(* Keys are moments of the calendar, and the bucket holds only uploads.    *)
TypeOK ==
  /\ now \in Nat /\ Day(now) <= MaxDay
  /\ dumping \subseteq 0..now /\ listing \subseteq taken
  /\ pruning \subseteq [key: taken, pruned: SUBSET taken, left: SUBSET taken, ok: BOOLEAN]
  /\ store \subseteq taken /\ taken \subseteq 0..now
  /\ claimed \subseteq taken
  /\ complete \in BOOLEAN
  /\ faults \in 0..MaxFaults

(* Every backup of the last Daily days is in the bucket, if there were     *)
(* several on a day every one of them.                                     *)
RecentKept == \A k \in taken : Day(now) - Daily < Day(k) => k \in store

(* Pruning day after day never loses a month inside the horizon, nor a     *)
(* year: a period for which a backup was ever taken still has one, though  *)
(* the object that represents it changes from one prune to the next.       *)
PeriodsKept ==
  \A k \in taken :
    /\ Month(k) > Month(now) - Months => \E j \in store : Month(j) = Month(k)
    /\ Year(k) >= Year(now) - Years => \E j \in store : Year(j) = Year(k)

(* What the policy promises holds after every step of every prune, not     *)
(* only of one call, with runs that list and delete between one another's  *)
(* steps.                                                                  *)
HistoryKept == RecentKept /\ PeriodsKept

(* A failed prune heals: whatever an earlier run left behind, and however  *)
(* many backups a day has, when a prune has ended with nothing failed the  *)
(* bucket holds no more than the policy's number of objects behind the     *)
(* daily window of its newest one.                                         *)
StoreBounded ==
  complete /\ Idle =>
    \A k \in store :
      (\A j \in store : Day(j) <= Day(k)) => Cardinality(Old(store, k)) <= Months + Years

(* With one backup every day for longer than the policy reaches back, the  *)
(* bucket holds exactly the policy's number.                               *)
FullCount ==
  complete /\ Idle /\ PerDay = 1 /\ taken = 0..now /\ Year(now) > Years + 1
    => Cardinality(store) = Daily + Months + Years

(* The keys a BACKUP_CREATED row names as pruned are gone from the bucket. *)
PrunedMeansGone == claimed \cap store = {}
=============================================================================
