--------------------------- MODULE RollbackDrill ---------------------------
(***************************************************************************)
(* Backups, restores and the drill that rehearses them.  The nightly run   *)
(* and the drill's own run of backup_db dump the database, upload, prune   *)
(* and write a BACKUP_CREATED row; the drill counts what is in the         *)
(* database, makes a backup, looks up which one that was, restores it into *)
(* a scratch database and compares.  The owner goes on working, runs fail  *)
(* and processes die, and an operator may restore production itself.       *)
(*                                                                         *)
(* The audit log lives in the database that is dumped and restored.  Which *)
(* old objects a prune selects is Retention's subject: any of those older  *)
(* than Recent may go here, all of them or only some when it fails.        *)
(***************************************************************************)
EXTENDS Integers, Sequences, FiniteSets, FiniteSetsExt

CONSTANTS
  Entry,        \* journal entries there may be
  Opening,      \* those that are posted to begin with
  Effect,       \* what each adds to the spot-check account; 0: no line on it
  Future,       \* those with a posting date after today
  ProdPrefix,   \* B2_PREFIX in .env.production
  DrillPrefix,  \* dev-test/
  None,         \* no object, no value
  Recent,       \* for how long a prune keeps every object
  MaxTime, MaxFaults, MaxRestores  \* bounds

ASSUME DrillAssumption ==
  /\ Effect \in [Entry -> Int] /\ Future \subseteq Entry
  /\ Opening \subseteq Entry /\ IsFiniteSet(Opening)
  /\ ProdPrefix # DrillPrefix
  /\ Recent \in Nat /\ MaxTime \in Nat /\ MaxFaults \in Nat /\ MaxRestores \in Nat

VARIABLES
  now,      \* the clock; object keys are made of the time a run starts
  db,       \* the production database: drafts, posted entries and audit log
  bucket,   \* the dump under every prefix and key, or None
  run,      \* the backup_db runs: the nightly one and the drill's
  drill,    \* drill_rollback
  source,   \* what was posted when the drill counted the audit log
  orphans,  \* objects whose run died, or whose row a restore rolled back
  faults, restores

vars == <<now, db, bucket, run, drill, source, orphans, faults, restores>>

Time == 0..MaxTime
Prefix == {ProdPrefix, DrillPrefix}
Process == {"cron", "drill"}

\* Fault: the drill's --prefix is dropped.
PrefixIgnored(p) == ProdPrefix

\* The nightly run takes the prefix of its environment, the drill passes its own.
PrefixOf(p) == IF p = "cron" THEN ProdPrefix ELSE DrillPrefix

\* AuditLog.record into a database; reason tells who made a backup.
Logged(d, action, key, by) ==
  [d EXCEPT !.log = Append(@, [action |-> action, key |-> key, by |-> by])]

Idle(key) == [pc |-> "idle", key |-> key, dump |-> None]

Init ==
  /\ now = 0
  /\ db = [drafts |-> {}, posted |-> Opening,
           log |-> [i \in 1..Cardinality(Opening) |->
                      [action |-> "post_entry", key |-> None, by |-> "owner"]]]
  /\ bucket = [o \in Prefix \X Time |-> None]
  /\ run = [p \in Process |-> Idle(None)]
  /\ drill = [pc |-> "idle", useB2 |-> FALSE, env |-> ProdPrefix, entries |-> 0, rows |-> 0,
              spot |-> None, made |-> None, key |-> None, scratch |-> None]
  /\ source = None
  /\ orphans = {}
  /\ faults = 0 /\ restores = 0

-----------------------------------------------------------------------------
(* The owner at work, and the clock.  Only posting leaves an audit row.    *)

Books == <<now, bucket, run, drill, source, orphans, faults, restores>>

Draft(e) ==
  /\ e \notin db.drafts \cup db.posted
  /\ db' = [db EXCEPT !.drafts = @ \cup {e}]
  /\ UNCHANGED Books

Discard(e) ==
  /\ e \in db.drafts
  /\ db' = [db EXCEPT !.drafts = @ \ {e}]
  /\ UNCHANGED Books

Post(e) ==
  /\ e \in db.drafts
  /\ db' = Logged([db EXCEPT !.drafts = @ \ {e}, !.posted = @ \cup {e}], "post_entry", None, "owner")
  /\ UNCHANGED Books

Tick ==
  /\ now < MaxTime
  /\ now' = now + 1
  /\ UNCHANGED <<db, bucket, run, drill, source, orphans, faults, restores>>

-----------------------------------------------------------------------------
(* backup_db.                                                              *)

\* pg_dump reads one snapshot.  The drill's run waits for the drill to call it.  A run
\* takes longer than the second its key is made of.
Dump(p) ==
  /\ run[p].pc = "idle" /\ run[p].key # now
  /\ p = "drill" => drill.pc = "backup" /\ drill.useB2
  /\ run' = [run EXCEPT ![p] = [pc |-> "upload", key |-> now, dump |-> db]]
  /\ drill' = IF p = "drill" THEN [drill EXCEPT !.pc = "wait"] ELSE drill
  /\ UNCHANGED <<now, db, bucket, source, orphans, faults, restores>>

Upload(p) ==
  /\ run[p].pc = "upload"
  /\ bucket' = [bucket EXCEPT ![<<PrefixOf(p), run[p].key>>] = run[p].dump]
  /\ run' = [run EXCEPT ![p].pc = "prune"]
  /\ UNCHANGED <<now, db, drill, source, orphans, faults, restores>>

\* Fault: the listing is not held to a prefix.
ListedEverywhere(p) == {o \in Prefix \X Time : bucket[o] # None}

\* list_objects: what is under the run's own prefix.
Listed(p) == {o \in {PrefixOf(p)} \X Time : bucket[o] # None}

\* Fault: a failed prune ends the run.
PruneAborts(p) ==
  /\ run[p].pc = "prune"
  /\ \E gone \in SUBSET {o \in Listed(p) : o[2] < run[p].key - Recent} :
       /\ bucket' = [o \in Prefix \X Time |-> IF o \in gone THEN None ELSE bucket[o]]
       /\ run' = IF gone = {o \in Listed(p) : o[2] < run[p].key - Recent}
                 THEN [run EXCEPT ![p].pc = "record"] ELSE [run EXCEPT ![p] = Idle(run[p].key)]
  /\ UNCHANGED <<now, db, drill, source, orphans, faults, restores>>

\* The prune, whose failures are caught: objects that were to go may stay.
Prune(p) ==
  /\ run[p].pc = "prune"
  /\ \E gone \in SUBSET {o \in Listed(p) : o[2] < run[p].key - Recent} :
       bucket' = [o \in Prefix \X Time |-> IF o \in gone THEN None ELSE bucket[o]]
  /\ run' = [run EXCEPT ![p].pc = "record"]
  /\ UNCHANGED <<now, db, drill, source, orphans, faults, restores>>

\* Fault: the row is written as soon as there is a dump.
RecordEarly(p) ==
  /\ run[p].pc \in {"upload", "record"}
  /\ db' = Logged(db, "backup_created", run[p].key, p)
  /\ run' = [run EXCEPT ![p] = Idle(run[p].key)]
  /\ drill' = IF p = "drill" THEN [drill EXCEPT !.pc = "latest", !.made = run[p].dump] ELSE drill
  /\ UNCHANGED <<now, bucket, source, orphans, faults, restores>>

\* The BACKUP_CREATED row has the key and not the prefix.
Record(p) ==
  /\ run[p].pc = "record"
  /\ db' = Logged(db, "backup_created", run[p].key, p)
  /\ run' = [run EXCEPT ![p] = Idle(run[p].key)]
  /\ drill' = IF p = "drill" THEN [drill EXCEPT !.pc = "latest", !.made = run[p].dump] ELSE drill
  /\ UNCHANGED <<now, bucket, source, orphans, faults, restores>>

\* pg_dump, age or the upload fails: no object and no row.
RunFails(p) ==
  /\ run[p].pc = "upload" /\ faults < MaxFaults
  /\ run' = [run EXCEPT ![p] = Idle(run[p].key)]
  /\ IF p = "drill"
     THEN drill' = [drill EXCEPT !.pc = "failed"] /\ db' = Logged(db, "drill_failed", None, "drill")
     ELSE UNCHANGED <<drill, db>>
  /\ faults' = faults + 1
  /\ UNCHANGED <<now, bucket, source, orphans, restores>>

\* The process goes away, with whatever it had left to do.
Dies(p) ==
  /\ faults < MaxFaults
  /\ run[p].pc # "idle" \/ (p = "drill" /\ drill.pc \notin {"idle", "passed", "failed", "dead"})
  /\ run' = [run EXCEPT ![p] = Idle(run[p].key)]
  /\ drill' = IF p = "drill" THEN [drill EXCEPT !.pc = "dead"] ELSE drill
  /\ orphans' = IF run[p].pc \in {"prune", "record"}
                THEN orphans \cup {<<PrefixOf(p), run[p].key>>} ELSE orphans
  /\ faults' = faults + 1
  /\ UNCHANGED <<now, db, bucket, source, restores>>

-----------------------------------------------------------------------------
(* drill_rollback.                                                         *)

Entries(d) == Cardinality(d.drafts \cup d.posted)

\* The posted entries with lines on the spot-check account, and what they add up to.
OnSpot(d) == {e \in d.posted : Effect[e] # 0}
Balance(entries) == MapThenSumSet(LAMBDA e : Effect[e], entries)

\* own_balance on the trial balance of today: an account without activity has no row.
SpotSource(d) ==
  LET seen == OnSpot(d) \ Future
  IN  IF seen = {} THEN None ELSE Balance(seen)

\* The same by SQL on the restored database, with no cut-off date.
SpotTarget(d) == Balance(OnSpot(d))

DrillUnchanged == UNCHANGED <<now, bucket, run, orphans, faults, restores>>

\* Bound: one drill.  The prefix a restore reads is that of the operator's shell.
Begin(useB2, env) ==
  /\ drill.pc = "idle"
  /\ drill' = [drill EXCEPT !.pc = "count", !.useB2 = useB2, !.env = env]
  /\ DrillUnchanged /\ UNCHANGED <<db, source>>

CountJournal ==
  /\ drill.pc = "count"
  /\ drill' = [drill EXCEPT !.pc = "countLog", !.entries = Entries(db)]
  /\ DrillUnchanged /\ UNCHANGED <<db, source>>

CountLog ==
  /\ drill.pc = "countLog"
  /\ drill' = [drill EXCEPT !.pc = "spot", !.rows = Len(db.log)]
  /\ source' = db.posted
  /\ DrillUnchanged /\ UNCHANGED db

SpotCheck ==
  /\ drill.pc = "spot"
  /\ drill' = [drill EXCEPT !.pc = "backup", !.spot = SpotSource(db)]
  /\ DrillUnchanged /\ UNCHANGED <<db, source>>

Verdict(v, key) ==
  /\ drill' = [drill EXCEPT !.pc = v]
  /\ db' = Logged(db, IF v = "passed" THEN "drill_passed" ELSE "drill_failed", key, "drill")
  /\ DrillUnchanged /\ UNCHANGED source

\* Without --use-b2: a dump, nothing uploaded, nothing restored, and the drill passes.
DryRun ==
  /\ drill.pc = "backup" /\ ~drill.useB2
  /\ Verdict("passed", None)

\* The dry run's dump can fail as well.
DryRunFails ==
  /\ drill.pc = "backup" /\ ~drill.useB2 /\ faults < MaxFaults
  /\ drill' = [drill EXCEPT !.pc = "failed"]
  /\ db' = Logged(db, "drill_failed", None, "drill")
  /\ faults' = faults + 1
  /\ UNCHANGED <<now, bucket, run, source, orphans, restores>>

Created(d) == {i \in 1..Len(d.log) : d.log[i].action = "backup_created"}

\* Fault: the newest row of any action.
LatestOfAny ==
  /\ drill.pc = "latest"
  /\ drill' = [drill EXCEPT !.pc = "restore", !.key = db.log[Len(db.log)].key]
  /\ DrillUnchanged /\ UNCHANGED <<db, source>>

\* The newest BACKUP_CREATED row, whoever wrote it.
Latest ==
  /\ drill.pc = "latest"
  /\ \/ Created(db) = {} /\ Verdict("failed", None)
     \/ \E i \in Created(db) :
          /\ \A j \in Created(db) : j <= i
          /\ drill' = [drill EXCEPT !.pc = "restore", !.key = db.log[i].key]
          /\ DrillUnchanged /\ UNCHANGED <<db, source>>

\* restore_db into the scratch database.
Restore ==
  /\ drill.pc = "restore"
  /\ LET object == bucket[drill.env, drill.key]
     IN  IF object = None
         THEN Verdict("failed", drill.key)
         ELSE /\ drill' = [drill EXCEPT !.pc = "verify", !.scratch = object]
              /\ db' = Logged(db, "backup_restored", drill.key, "drill")
              /\ DrillUnchanged /\ UNCHANGED source

\* The download, age or pg_restore fails.
RestoreFails ==
  /\ drill.pc = "restore" /\ faults < MaxFaults
  /\ drill' = [drill EXCEPT !.pc = "failed"]
  /\ db' = Logged(db, "drill_failed", drill.key, "drill")
  /\ faults' = faults + 1
  /\ UNCHANGED <<now, bucket, run, source, orphans, restores>>

\* Fault: the audit log is not among the counts.
MatchesJournal == drill.entries = Entries(drill.scratch) /\ drill.spot = SpotTarget(drill.scratch)

\* _verify_match and _verify_spot_check, for a chart that has the spot-check account.
Matches ==
  /\ drill.entries = Entries(drill.scratch)
  /\ drill.rows = Len(drill.scratch.log)
  /\ drill.spot = SpotTarget(drill.scratch)

Verify ==
  /\ drill.pc = "verify"
  /\ Verdict(IF Matches THEN "passed" ELSE "failed", drill.key)

-----------------------------------------------------------------------------
\* restore_db --into production --confirm-prod-restore: books and log are those of the
\* dump, and the one new row is the restore's.
RestoreProduction(k) ==
  /\ restores < MaxRestores
  /\ bucket[ProdPrefix, k] # None
  /\ LET dump == bucket[ProdPrefix, k]
         lost == {db.log[i] : i \in Created(db)} \ {dump.log[i] : i \in Created(dump)}
     IN  /\ db' = Logged(dump, "backup_restored", k, "operator")
         /\ orphans' = orphans \cup {<<PrefixOf(row.by), row.key>> : row \in lost}
  /\ restores' = restores + 1
  /\ UNCHANGED <<now, bucket, run, drill, source, faults>>

Next ==
  \/ \E e \in Entry : Draft(e) \/ Discard(e) \/ Post(e)
  \/ Tick
  \/ \E p \in Process : Dump(p) \/ Upload(p) \/ Prune(p) \/ Record(p) \/ RunFails(p) \/ Dies(p)
  \/ \E useB2 \in BOOLEAN, env \in Prefix : Begin(useB2, env)
  \/ CountJournal \/ CountLog \/ SpotCheck \/ DryRun \/ DryRunFails
  \/ Latest \/ Restore \/ RestoreFails \/ Verify
  \/ \E k \in Time : RestoreProduction(k)

Spec == Init /\ [][Next]_vars

-----------------------------------------------------------------------------
Rows == [action : {"post_entry", "backup_created", "backup_restored", "drill_passed", "drill_failed"},
         key : Time \cup {None}, by : Process \cup {"owner", "operator"}]

\* None is no dump.
ASSUME NoneAssumption ==
  None \notin [drafts : SUBSET Entry, posted : SUBSET Entry, log : Seq(Rows)]

IsDatabase(d) ==
  /\ d.drafts \subseteq Entry /\ d.posted \subseteq Entry /\ d.drafts \cap d.posted = {}
  /\ d.log \in Seq(Rows)

TypeOK ==
  /\ now \in Time
  /\ IsDatabase(db)
  /\ \A o \in Prefix \X Time : bucket[o] # None => IsDatabase(bucket[o])
  /\ \A p \in Process : /\ run[p].pc \in {"idle", "upload", "prune", "record"}
                        /\ run[p].pc # "idle" => run[p].key \in 0..now /\ IsDatabase(run[p].dump)
  /\ drill.pc \in {"idle", "count", "countLog", "spot", "backup", "wait", "latest", "restore",
                   "verify", "passed", "failed", "dead"}
  /\ drill.pc \in {"restore", "verify"} => drill.key \in Time
  /\ drill.pc = "verify" => IsDatabase(drill.scratch)
  /\ orphans \subseteq Prefix \X Time
  /\ faults \in 0..MaxFaults /\ restores \in 0..MaxRestores

(* What a passed drill is worth: the restored database has exactly the     *)
(* entries posted that production had when the drill counted, whichever    *)
(* backup it restored and whatever was drafted, discarded or posted in the *)
(* meantime.  Posting a draft changes no count but that of the audit log,  *)
(* and once production itself was restored the counts of two histories can *)
(* agree: the promise ends there.                                          *)
PassedMeansSame ==
  drill.pc = "passed" /\ drill.useB2 /\ restores = 0 => drill.scratch.posted = source

(* A BACKUP_CREATED row is only ever about a backup that can be fetched,   *)
(* until it is old enough to be pruned, also after a restore has rolled    *)
(* the log back.                                                           *)
RowsNameObjects ==
  \A i \in Created(db) :
    LET row == db.log[i]
    IN  row.key >= now - Recent => bucket[PrefixOf(row.by), row.key] # None

(* And the other way round: every object in the bucket has its row, unless *)
(* its run is still going, or died, or a restore took the row away.  A     *)
(* failed prune is no reason for a missing row.                            *)
ObjectsAreLogged ==
  \A p \in Process : \A o \in Listed(p) :
    \/ \E i \in Created(db) : db.log[i].by = p /\ db.log[i].key = o[2]
    \/ run[p].pc \in {"prune", "record"} /\ run[p].key = o[2]
    \/ o \in orphans

(* The audit log is the index of the bucket, both ways.                    *)
LogMatchesBucket == RowsNameObjects /\ ObjectsAreLogged

(* Drills and the nightly backup never touch each other's objects: what is *)
(* under a prefix changes only in a step of the run that has this prefix.  *)
PrefixesApart ==
  [][\A p \in Process : run'[p] = run[p] =>
       \A k \in Time : bucket'[PrefixOf(p), k] = bucket[PrefixOf(p), k]]_vars

(* docs/ROLLBACK.md: drills always upload to and read from dev-test/, so   *)
(* what a drill verifies is the dump its own run has uploaded.             *)
DrillRestoresOwnBackup ==
  drill.pc \in {"verify", "passed"} /\ drill.useB2 => drill.scratch = drill.made

(* A drill passes if nothing was written between its counts and its dump,  *)
(* no other backup was recorded before it looked for its own, nothing      *)
(* broke, the restore was told the drill's prefix, and the spot-check      *)
(* account has activity, none of it in the future (SpotActive).  Without   *)
(* the last three the code does not promise it.                            *)
SpotActive ==
  /\ \E e \in Opening \ Future : Effect[e] # 0
  /\ \A e \in Future : Effect[e] = 0
Undisturbed ==
  /\ faults = 0 /\ restores = 0 /\ drill.env = DrillPrefix
  /\ drill.made # None
  /\ Entries(drill.made) = drill.entries /\ Len(drill.made.log) = drill.rows
  /\ \A i \in Created(db) : i > drill.rows => db.log[i].by = "drill"
QuietDrillPasses == drill.pc = "failed" => ~Undisturbed
=============================================================================
