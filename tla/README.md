# Family Books: a formal model

Family Books is a double-entry bookkeeping application (Django, PostgreSQL).
This directory holds TLA+ modules that model its core, TLC configurations that
check them on small instances, and proofs, checked by TLAPS, for instances of
every size: about the journal, the ledger it implements and the concurrent
services that implement it, opening balances, the chart of accounts, two-factor
enforcement, the owner's account and sessions, backup retention and the
rollback drill.

Run from this directory: `tlc -config journal.cfg MCJournal.tla`, and
`tlapm JournalProofs.tla`. Paths below are relative to `src/books/`.

## 1. The system

| Part | State | Operations | What is hard |
|---|---|---|---|
| Journal (`accounting/models.py`, `accounting/migrations/0002`) | `journal_entry`, `journal_line`, account flags | create, edit and delete drafts | immutability of what is posted, enforced in `save()`, `delete()` and by triggers |
| Posting service (`accounting/posting.py`) | the same tables, the audit log | `post_entry`, `reverse_entry` | checks on instances and lines read earlier; concurrent sessions; roll-back |
| Opening balances (`accounting/opening_balances.py`, `commands/set_opening_balance.py`) | opening entries, the display fields of an account, audit rows | `set_opening_balance`, CSV batches, `reverse_opening_balance` | a duplicate check outside the transaction, half-done batches, lock order |
| Chart of accounts (`accounting/models.py`, `signals.py`, `commands/seed_default_coa.py`, `commands/reset_coa.py`) | the account hierarchy | add, edit, seed, reset | depth checked account by account, in `clean`, before the save; deletes behind PROTECT; reset and seed check before their transactions |
| Trial balance (`accounting/reports/trial_balance.py`, `web/views/reports.py`) | none of its own | the report, as of a day, with a comparative column, for some types | two or three queries that are not one snapshot; roll-up along a hierarchy that changes |
| Two-factor enforcement (`core/models.py`, `core/middleware.py`, `core/auth.py`, `commands/disable_2fa_enforcement.py`) | the `SystemFlag` row | every request, the gate of a view, the operator's command | decisions on a copy read earlier, time, must resume |
| Owner's account (`commands/bootstrap_owner.py`, `commands/reset_owner_2fa.py`, `core/signals.py`) | `core_user`, TOTP and static devices | bootstrap, purge of the second factors | a check and an INSERT apart; two deletes without a transaction |
| Sessions (`core/middleware.py`, `settings/base.py`) | start time and device in the session | every request, sign-in, sign-out | two time limits; each request writes its whole copy of the session back |
| Backups (`core/backup/`, `commands/backup_db.py`) | the objects of a bucket, `BACKUP_CREATED` rows | runs by night and by hand: dump, upload, prune, record | pruning that must not lose history, runs that overlap, partial failure, crash |
| Restore and rollback drill (`commands/restore_db.py`, `drill_rollback.py`) | scratch databases, audit rows | restore, drill | which backup is "the latest"; counts taken before the dump; a log that is itself restored |
| Exporters, admin site, lockout signals, settings | | | little logic of their own |

Interaction: every service writes the audit log in its own transaction;
`set_opening_balance` calls `post_entry`, `reverse_opening_balance` is
`reverse_entry`, `reverse_entry` calls `post_entry`. `reset_coa` looks at the
journal, and the trial balance at the journal and the chart. `drill_rollback`
calls `backup_db` and `restore_db` and finds the object in the audit log, which
is part of the database that is dumped. Nothing is asynchronous: concurrency is
that of web workers and management commands on one database (READ COMMITTED),
plus the backups, of which cron starts one every night and the operator any
number beside it.

Correctness of each part, as properties:

* *Journal and posting*: a posted entry balances and never changes
  (`PostedBalanced`, `PostedImmutable`); a reversal is unique and mirrors its
  original (`ReversalStructure`, `ReversalMirrors`); the audit log tells what
  happened (`AuditMatchesJournal`); whoever reads the books sees an append-only
  ledger (`ImplementsLedger`); concurrent services behave like whole operations
  (`ImplementsJournal`, `Exclusion`, `PostedOnce`), and what is posted is settled
  once the writes that began before have ended (`SettledImmutable`).
* *Opening balances*: one opening entry in force for an account and day as far
  as each caller is concerned (`OneActivePerCaller`); entries, display fields
  and audit rows agree (`RecordsAgree`); calls end (`CallsEnd`).
* *Chart*: only a save that something has overtaken, or one that moves a
  subtree, breaks the depth cap (`CleanMovesKeepCap`); nothing dangles
  (`NoDangling`); a reset gets through (`ResetGetsThrough`) and removes exactly
  the user accounts it has read (`ResetKeepsSystem`).
* *Trial balance*: both columns tie out (`ColumnsTieOut`), every line is in the
  roll-ups exactly once (`RollupsComplete`), both sides of the accounting
  equation agree (`AccountingEquation`), although the reads are not one snapshot.
* *Two-factor*: windows are bounded (`GraceBounded`), nobody is let in after
  one (`ServedOnlyWhenOff`), enforcement is sticky (`Sticky`) and resumes
  (`ExpiryEndsGrace`).
* *Owner and sessions*: a cap that nothing stretches (`CapHolds`), and lost
  devices that are of no use after a reset (`CutOff`). One owner (`SoleOwner`) is
  what the comments promise and the code does not keep (section 3).
* *Backups*: what the retention policy promises holds at every step of every
  prune, not only of one call of `select_keepers` (`HistoryKept`); behind the
  daily window the bucket stays bounded (`StoreBounded`).
* *Drill*: a pass proves that the books were restored (`PassedMeansSame`), an
  undisturbed drill passes (`QuietDrillPasses`), log and bucket tell the same
  (`LogMatchesBucket`), drills and nightly runs do not touch each other's
  objects (`PrefixesApart`).

The full list of hazards with their lines is in `PROJECT.json`.

## 2. The modules

| Module | Models | State and actions |
|---|---|---|
| `Journal` | the journal, one action per committed operation | `status`, `reversing`, `line`, `active`, `audit`; `CreateEntry`, `DeleteEntry`, `InsertLine`, `UpdateLine`, `DeleteLine`, `PostEntry`, `ReverseEntry`, `SetActive`, `Deactivate`; `ReparentLine` only in `SpecReparent` |
| `Ledger` | what the journal promises: an append-only ledger | `book` (the contents of every posted entry), `reverses`; `Enter` |
| `PostingSessions` | the services as concurrent transactions; instantiates `Journal` for the tables | `session` says which service a session is in, how far it got, what it has read; `writing` the line writes that have passed the trigger and not committed; an action is a statement: `PostValidate`, `PostSelect`, `PostUpdate`, `PostCommit`, `ReverseCheck`, `ReverseInsert`, `ReverseCommit`, `DeleteLines`, `DeleteRow`, `DeleteCommit`, `Crash`; beside them `CreateDraft`, `BeginWrite`, `CommitWrite`, `CancelWrite`, `SetAccountActive` |
| `OpeningBalance` | opening balance calls and batches | `je`, `display`, `setRows`, `refusals`, and `session`: the rows left, the entries written and not committed |
| `Hierarchy` | chains of parents and the walk of `Account.clean`, which the next two modules extend | operators only: `Ancestor`, `CleanHierarchy` |
| `ChartOfAccounts` | the hierarchy, seed and reset | `exists`, `parent`, `draftOn`, `postedOn`, `edit` (the row a request has cleaned), `seeding`, `reset` with the `buckets` it has read and the accounts `gone`; `Clean` and `Save` or `GiveUp`; `SeedCount`, `Seed`, `SeedFails`; `ResetCheck`, `ResetRead`, one `ResetDelete` for each bucket, `ResetCommit`, `ResetFails`; `DraftLine`, `PostLines`, `DropDrafts`; `overtaken` and `outrun` are history, for the properties |
| `TrialBalance` | `compute_trial_balance` beside sessions that post and edit the chart | `status`, `chart`, `edits`, `report` (the step, the parameters, what was read), `truth` (what was posted at each read); `Draft`, `Post`, `AddRow`, `EditRow`, `RemoveRow`, `ReadNow`, `ReadPrior`, `ReadAccounts`; visibility, tree, roll-up and totals are operators on `report` |
| `TwoFactor` | enforcement | `flag`, `request` (its step and its copy of the row), `command`, `now`, `required`; the middleware and then, as a step of its own with a read of its own, the `Gate` of the view |
| `OwnerAccess` | bootstrap, sessions, purge of second factors | `owners`, `boot`, `totp`, `static`, `enrolled`, `reset`, `revoked`, `store` (the session rows), `cookie`, `request` (its copy of the session); `BootCheck` to `BootLog`, `ResetCount` to `ResetLog`, `Arrive`, `Page`, `Save`, `TimeOut`, `SignIn`, `SignOut` |
| `Retention` | backups and pruning | `store` (objects as their keys, which are the moments their runs started), `dumping`, `listing`, `pruning`: runs by their stage, the last with what they have selected and what is left of it; `Start`, `Upload`, `List`, one `Delete` for each object, `Record`, `Fail`, `ListFails`, `DeleteFails`, `Crash`, `Tick` |
| `RollbackDrill` | backup runs, restores and the drill | `db` (drafts, posted, log), `bucket` (dumps under prefix and key), `run`, `drill`, `source`, `orphans`; `Dump`, `Upload`, `Prune`, `Record`, `RunFails`, `Dies`, the drill from `Begin` to `Verify`, `DryRun`, `RestoreProduction` |
| `JournalProofs`, `PostingProofs`, `OpeningProofs`, `HierarchyProofs` (the chart and the trial balance), `TwoFactorProofs`, `OwnerAccessProofs`, `RetentionProofs`, `RollbackDrillProofs` | theorems | |
| `MC...` | instances: symmetry sets and bounds. `Retention` needs none and is run as it is | |

Two refinements make a chain, `PostingSessions` ⇒ `Journal` ⇒ `Ledger`:

* The tables of `PostingSessions` are the variables of `Journal`, so the
  refinement mapping is the identity but for one of them: accounts are closed at
  any moment (admin.py:52), the look at `is_active` (posting.py:78) may be out
  of date when `post_entry` commits, and the journal that the services implement
  is therefore one whose accounts are always open (`active <- Account`).
  `ImplementsJournal` is `JA!Spec`: everything else the journal guards holds at
  the commit. A transaction's effects become visible in one step, its commit.
* The ledger has the posted entries of `Journal` only: `book` maps to the
  snapshots of their lines, `reverses` to their links. Drafts, edits and
  accounts that open and close are stutters. `ImplementsLedger` is `L!Spec`.

Some operators are marked `Fault:`. No specification uses them. Each is the
definition below it with a plausible mistake; put in place of that definition
it makes the property it was written for fail, which shows that the property
depends on the code it is about. `PROJECT.json` pairs them under "mutants".

### What is abstracted

* `Journal`: amounts are small positive integers, in which the CHECK
  constraints and the comparison of the totals keep their meaning; dates, memo,
  source and reference number are left out. Keys of deleted drafts are used
  again, which is safe because nothing refers to a deleted draft: the foreign
  keys cascade or protect. The status `void` and entries created directly as
  posted exist in the schema, no code makes them, and they are left out.
* `PostingSessions`: a statement that writes a line is a transaction of its own,
  in two steps: the check of `save()` and of the trigger, and the commit, which
  looks at the status no more. The statements a session runs on rows nobody else can see
  yet (the lines of an uncommitted reversal, its posting) are one step, the
  commit. The lines and accounts of `post_entry` are one query in the code and
  one step here. Row locks, the wait on the unique index, the deferred foreign
  key and key sequences are PostgreSQL's and modelled from how the code relies
  on them (`external` in the map).
* `OpeningBalance`: an entry is its account, day and amount; that it balances
  and is immutable is `Journal`'s business. A file that does not parse or
  resolve ends before anything is written and is no step. The period gate
  (`_check_period_open`) is a stub and refuses nothing.
* `ChartOfAccounts`: an account is its number and parent. The SELECTs of the
  walk in `Account.clean` see one chart, and any change of the chart between them
  and the save, of other branches too, counts as having overtaken the request. A
  bucket of `reset_coa` is deleted in one statement, with the accounts read
  before; what it has deleted others see until it commits, and wait for.
* `TrialBalance`: the entries there may be are given as a constant, each with
  its date and lines; that only balanced ones are posted is `Post`'s guard. The
  order of the rows is left out. Each query is one snapshot.
* `TwoFactor`: a request is one of a signed-in user without a second factor to
  a page that is not on the allowlist; every other request is let through.
  Time is in hours.
* `OwnerAccess`: sessions and devices are those of the first owner, on whom
  `reset_owner_2fa` works. A tick is an hour or so: a request ends in the hour it came in
  or in the next. Anonymous requests and refused sign-ins change nothing and
  are no steps. Rows of `django_session` that nobody has a key of are dropped.
* `Retention`: a day has a number of moments, at each of which a run may start
  while others are under way, whether by cron or by hand before a migration; no
  two start within one second, which is what a key tells (storage.py:119-126).
  Months and years have a fixed length; the policy's numbers are constants. Of
  objects of one day the policy takes the first the bucket lists. To delete a key
  that is gone already is no error. Which environment's prefix it is, is
  `RollbackDrill`'s subject.
* `RollbackDrill`: a database is its drafts, its posted entries and its audit
  log; the counts of accounts and lines, which follow those of the entries, and
  the second of the two spot-check branches (a chart without the account) are
  left out. Encryption is part of the dump. Which old objects a prune takes is
  `Retention`'s subject: here it may be any of them. One drill at a time. A
  production restore that fails half-way is left out (see section 5).

## 3. The runs

| Run | Bounds | Checks |
|---|---|---|
| `journal` | 3 entries, 6 lines, 2 accounts of which one is a system account, amount 1, 3 lines in drafts together | `PostedBalanced`, `ReversalStructure`, `AuditMatchesJournal`, `PostedImmutable`, `ImplementsLedger` |
| `sessions` | 2 sessions, 3 entries, 4 lines, 2 in a draft, 1 account that closes and opens, 1 line write open at a time | `ImplementsJournal`, `Exclusion`, under `SpecServices` |
| `sessions_open` | 2 sessions, 1 entry, 3 lines, 1 account, 2 line writes open at a time | `PostedOnce`, `SettledImmutable`, under `SpecOpen` |
| `opening` | 2 callers, 3 entries, 4 accounts (asset, liability, inactive, offset), amount 1, 1 day, 3 calls of one or two rows | `OneActivePerCaller`, `RecordsAgree`, `CallsEnd` |
| `chart` | 2 requests, 2 user accounts, 1 system account, depth 2, lines on 1 account, and with lines 1 open request | `NoDangling`, `CleanMovesKeepCap`, `ResetGetsThrough`, `ResetKeepsSystem` |
| `trial_balance` | 4 accounts of 2 types in 2 charts, 1 edit, 3 entries on 2 days of which one does not balance, no filter | `ColumnsTieOut`, `RollupsComplete`, `AccountingEquation` |
| `twofactor` | 2 requests, windows of 1 or 2 hours, 3 hours, 1 redeployment | `GraceBounded`, `ServedOnlyWhenOff`, `Sticky`, `ExpiryEndsGrace` |
| `access` | 2 bootstraps, 2 addresses, 2 requests, 2 session keys, 2 devices, both limits 2, clock to 4, 1 completed reset that found a device | `CapHolds`, `CutOff` |
| `retention` | months of 3 days, years of 2 months; keep 2 days, 2 months, 2 years; 26 days of 2 moments, 1 manual backup, 2 faults | `HistoryKept`, `StoreBounded`, under `SpecPrompt` |
| `drill` | 2 entries of which one is posted to begin with, 2 times, 6 audit rows, one mishap (a fault or a production restore) | `PassedMeansSame`, `LogMatchesBucket`, `QuietDrillPasses`, `PrefixesApart` |

Each but `sessions_open`, whose module `sessions` is about as well, also checks its
module's `TypeOK` (`ChartTypeOK` in `chart`; the names of that module's
specification begin with `Chart` because `HierarchyProofs` extends it together
with `TrialBalance`).

Why the bounds are enough for the cases to happen:

* `journal`: an original, its reversal and a third entry that could be a second
  reversal, each with its two lines, is the smallest instance in which a broken
  reversal rule shows; with fewer than six lines the second reversal would be
  refused for lack of lines. Two accounts tell a mirror from a copy. The bound
  on draft lines only removes drafts nobody posts.
* `sessions`: two sessions race for one entry in all pairs of the services and
  a third key lets both insert a reversal; which of the two inserts wins is
  decided before their lines are written, so four lines suffice for
  `Exclusion`, which is about the inserts. The account may close between any two
  statements, so that a reversal is refused as well.
* `sessions_open`: the properties are about one entry at a time; its third line
  is one that is written while the two it is posted with are there, and with two
  open writes one may be open at the post while another begins.
* `opening`: two batches of two rows are enough for a lock cycle and for a
  batch that fails in its second row. The third call is the one that finds what
  the first two have committed: a check that missed committed entries would give
  three in force with two callers. There is no symmetry in this
  run because it checks a liveness property.
* `chart`: with depth 2 two accounts already are a chain at the cap, so that any
  two of the saves can break it together. Moves of subtrees make chains of all
  three, past the cap, with the system account at any place, so there are up to two
  buckets and a parent that is not deleted between them. Two requests, the
  loader and a reset interleave step by step. Lines concern one account at a time;
  with lines there is one open request at most (`Sparse`), which is enough to save a
  row under an account that is about to go.
* `trial_balance`: a chain of three accounts is the least in which a roll-up
  passes through an account; the second chart has an account yet to be added.
  Two posting days put an entry into one column only, both entries can be
  posted at any place among the reads, and the draft that does not balance must
  stay out. One edit can hit any gap between two queries; a second one would
  fall into the same gap or one that a behaviour with another first edit has.
* `access`: two requests are the fewest that overwrite each other's copies; two
  keys let a session be replaced while a request still has the old one; two
  devices are one lost and one new, or an app and recovery codes. With limits
  of 2 the clock reaches a cap after a late first request and an hour more.
  Sessions begin when both bootstraps are done and have made one owner
  (`BootFirst`); they have nothing in common with them but the owner's row.
* `retention`: 26 days are more than four of the short years, twice the years
  kept, so the annual step prunes years too. The manual backup overlaps the
  nightly one of its day at every step, and puts two objects into one day that
  is later the latest of its month or year. Two faults are a failed prune and
  another failure, or an outage, before it has healed.
* `drill`: with two times the nightly backup can run twice, before, during and
  after the drill's run, and its second run may prune the object of the first.
  Six audit rows are the opening's, those of the three runs, and the drill's two;
  with fewer runs there is room for a post or a restore of production at any
  place. The one mishap can hit each step.

`CHECK_DEADLOCK FALSE` is in the configurations of four modules, in which a
behaviour ends: `TrialBalance` (with a finished report), `OwnerAccess` and
`Retention` (with the last tick), `RollbackDrill` (with the verdict of the one
drill).

Symmetry is used for keys of entries and lines, sessions, requests, devices and
user accounts, only in runs without liveness properties.

### Restricted specifications

Some properties hold only if users keep to a rule. The rule is a specification
of its own and the run says so; the same property under `Spec` is among the
counterexamples below.

* `PostingSessions!SpecServices`: the lines of an entry are written and committed
  before anyone is handed the entry to post, reverse or delete it, as
  `set_opening_balance` does, the only caller in the repository that writes lines
  of its own. Accounts are closed and opened at any time. `SpecOpen` has every
  write the tables accept.
* `Retention!SpecPrompt`: a run finishes before midnight. The runs of a day, by
  night and by hand, may overlap in any way. Cron's is at 03:00; of the manual
  ones it is an assumption.

### Fairness

* `OpeningBalance!FairSpec` has weak fairness on `Work(s)`: a command that is
  running goes on, and PostgreSQL detects a lock cycle. Nothing is assumed
  about reversals, seeding, new calls or kills.
* `TwoFactor!FairSpec` has weak fairness on `Handle(r)`: workers finish the
  requests they have, and there is a next one. That requests keep coming is
  what the code relies on as well, since only a request ends a window. Neither
  the clock nor the command is fair.

### Where code and text disagree

Two runs in `PROJECT.json` find a violation:

* `sessions_race` (`PostedBalanced`): a line that is committed between
  `post_entry`'s read and its commit is posted unvalidated. In `sessions`, where the
  lines of an entry are complete before anyone is handed the entry, as in
  `set_opening_balance` and `reverse_entry`, this cannot happen.
* `drill_prefix` (`DrillRestoresOwnBackup`): docs/ROLLBACK.md:309-310 says that
  drills always upload to and read from `dev-test/`. Only the upload does: the
  drill takes the newest `BACKUP_CREATED` row of any run, and `restore_db` reads
  under the prefix of its environment (restore_db.py:85). It restores the
  nightly backup when that is recorded last, or when both have one key. What
  remains true is `PassedMeansSame`: a pass is about what was counted, whichever
  backup it came from.

Further configurations keep counterexamples to other statements of the
comments and documents; each has one property, which TLC refutes.

| Configuration | Module | Property | Statement |
|---|---|---|---|
| `journal_reparent.cfg` | `MCJournal` | `PostedImmutable` | models.py:412: `JournalLine.save` and the trigger ask for the status of the entry the line is saved *with*; a line of a posted entry given to a draft passes both. No caller in the repository does this |
| `sessions_late.cfg` | `MCPostingSessions` | `PostedImmutable` | migrations/0002:1, triggers enforce "posted entries are immutable"; the trigger reads the entry's status without a lock, and a line whose statement ran on the draft commits after the post. What remains true is `SettledImmutable` |
| `opening_race.cfg` | `MCOpeningBalance` | `OneActive` | the duplicate check is in front of the transaction and has no constraint behind it; each caller can be wrong once (`OneActivePerCaller`) |
| `opening_batch.cfg` | `MCOpeningBalance` | `RefusalsAudited` | the refusal row of a CSV batch is rolled back with the batch |
| `chart_overlap.cfg` | `MCChartOfAccounts` | `OverlapKeepsCap` | models.py:82-84, the four-level cap "cannot slip through"; two requests that each move or add a single account pass `Account.clean` on one chart and break the cap together. What remains true is `CleanMovesKeepCap` |
| `chart_depth.cfg` | `MCChartOfAccounts` | `NoLongChain` | the same, without any overlap: moving an account moves its children below the cap. `clean` walks the stored chart, so that an account can also be put under its own descendant |
| `trial_balance_cycle.cfg` | `MCTrialBalance` | `BalancedUnlessBypassed` | trial_balance.py:92-93, a report out of balance means the posting service was bypassed; with accounts in a cycle, which no root reaches, it is out of balance as well |
| `trial_balance_flag.cfg` | `MCTrialBalance` | `BalancedUnlessBypassed` | the same statement for a report of some types, whose columns need not be equal |
| `trial_balance_types.cfg` | `MCTrialBalance` | `ChildrenShareType` | trial_balance.py:344-346, children have their parent's type; nothing enforces it |
| `twofactor_race.cfg` | `MCTwoFactor` | `GraceHonoured` | core/models.py:43, no enforcement while the window is open; a request that read the row before the grant ends it |
| `twofactor_log.cfg` | `MCTwoFactor` | `ExpiryLogged` | core/models.py:43-45; with `REQUIRE_2FA` on the latch comes first and logs ACTIVATED |
| `access_owners.cfg` | `MCOwnerAccess` | `SoleOwner` | signals.py:22, `core_user` "holds exactly one row (the owner)"; `refuse_second_user` looks before the INSERT with no constraint behind it but the unique user name, and two runs of `bootstrap_owner` within one save make two owners |
| `access_cap.cfg` | `MCOwnerAccess` | `HardCap` | middleware.py:4, "hard 12-hour session cap regardless of activity"; the clock starts at the first request after the sign-in, which may come almost an idle timeout later |
| `retention_overlap.cfg` | `Retention` | `RecentKept` | retention.py:4, "every backup within the last 30 days"; a run that takes past midnight prunes for the day it started |
| `retention_count.cfg` | `Retention` | `FullCount` | retention.py:12-13, "exactly 30 + 12 + 7 = 49 keepers"; it is 48 whenever the months kept reach into the previous year, which then gets no annual backup (tests/unit/test_retention.py:42-44 allows both) |
| `retention_row.cfg` | `Retention` | `PrunedMeansGone` | tests/integration/test_backup_db_command.py:166-168, the row records the prune; it also records keys a failed delete left |
| `drill_spot.cfg` | `MCRollbackDrill` | `QuietDrillPasses` | a drill of undisturbed books fails when the spot-check account has no activity: the source says None, the target 0 |
| `drill_future.cfg` | `MCRollbackDrill` | `QuietDrillPasses` | it fails as well when that account has an entry dated after today, which only the target counts |

Read along the way and not runs of their own: the check of
docs/ROLLBACK.md:264-273, a recent `BACKUP_CREATED` row, is also met by a
drill's row; `drill_rollback` has no option
`--prefix`, which docs/ROLLBACK.md:305 passes; a drill without `--use-b2` writes
a PASSED row without having restored anything; a reversal of an opening balance
has its original's reference number (posting.py:169), not a different one
(opening_balances.py:265-267); points 1 and 6 of its docstring
(drill_rollback.py:19,24) have no code; the guard of a production restore is off
when `DATABASE_URL` is not set (restore_db.py:120-122).

## 4. The proofs

Each theorem holds for any values of the constants that satisfy the named
assumptions of its module (`ASSUME`), which TLC evaluates in every run. The
specifications are those with all users, unless the table says otherwise.

| Module | Theorem | States |
|---|---|---|
| `JournalProofs` | `TypeCorrect` | `SpecReparent => []TypeOK` |
| | `ReversalsAreStructured` | `SpecReparent => []ReversalStructure` |
| | `Immutability` | `Spec => PostedImmutable` |
| | `BooksBalance` | `Spec => []PostedBalanced` |
| | `AuditIsFaithful` | `Spec => []AuditMatchesJournal` |
| | `ReversalsMirror` | `Spec => []ReversalMirrors` |
| | `JournalImplementsLedger` | `Spec => ImplementsLedger` |
| `PostingProofs` | `ServicesRefineJournal` | `SpecServices => ImplementsJournal` |
| | `ServicesBalance`, `ServicesApart` | `SpecServices => []PostedBalanced`, `SpecServices => [](TypeOK /\ Exclusion)` |
| | `SessionsTyped`, `SessionsApart` | `SpecOpen => []TypeOK`, `SpecOpen => []Exclusion` |
| | `OnePosting`, `SettledStays` | `SpecOpen => []PostedOnce`, `SpecOpen => SettledImmutable` |
| `OpeningProofs` | `OnePerCaller` | `Spec => []OneActivePerCaller` |
| | `RecordsStayTogether`, `OpeningTypes` | `Spec => []RecordsAgree`, `Spec => []TypeOK` |
| `HierarchyProofs` | `ChartTypes`, `NothingDangles` | `ChartSpec => []ChartTypeOK`, `ChartSpec => []NoDangling` |
| | `ResetIsExact` | `ChartSpec => ResetKeepsSystem` |
| | `CleanKeepsCap`, `ResetIsFree` | `ChartSpec => CleanMovesKeepCap`, `ChartSpec => []ResetGetsThrough` |
| | `BooksTypes`, `ColumnsAlwaysTieOut` | `Spec => []TypeOK`, `Spec => []ColumnsTieOut` (of `TrialBalance`) |
| | `RollupsAlwaysComplete`, `EquationHolds` | `Spec => []RollupsComplete`, `Spec => []AccountingEquation` |
| `TwoFactorProofs` | `TypeCorrect`, `WindowsAreBounded` | `Spec => []TypeOK`, `Spec => []GraceBounded` |
| | `EnforcementSticks` | `Spec => Sticky` |
| | `NobodySlipsThrough` | `Spec => ServedOnlyWhenOff` |
| `OwnerAccessProofs` | `AccessTypes`, `CapIsKept`, `ResetCutsOff` | `Spec => []TypeOK`, `Spec => CapHolds`, `Spec => CutOff` |
| `RetentionProofs` | `RetentionTypes` | `Spec => []TypeOK` |
| | `HistoryIsKept`, `StoreIsBounded` | `SpecPrompt => []HistoryKept`, `SpecPrompt => []StoreBounded` |
| `RollbackDrillProofs` | `DrillTypes`, `PassedIsSame` | `Spec => []TypeOK`, `Spec => []PassedMeansSame` |
| | `LogIsTheIndex` | `Spec => []LogMatchesBucket` |
| | `QuietDrillsPass` | `SpotActive` implies `Spec => []QuietDrillPasses` |
| | `RunsKeepApart` | `Spec => PrefixesApart` |

The assumptions say what a table or a setting is: limits and clocks are natural
numbers, null is none of the values it stands beside, callers, accounts, entries
and their lines are finitely many. That these are finite (`OpeningAssumption`,
`ChartAssumption`, `TrialBalanceAssumption`) is what counting and adding up
needs; a machine runs finitely many commands and a table has finitely many rows.
`TrialBalanceAssumption` also says of the entries what the CHECK constraint of a
line says (models.py:388, a debit or a credit that is not zero), and of the charts to begin
with that a parent is an account, which is the foreign key.

*Journal.* `TypeCorrect` and `ReversalsAreStructured` hold even when lines are
given other entries; the other four are about `Spec`, and `journal_reparent`
shows that `Immutability` must be. The guards are enough for one fact about a
step, that the lines of every posted entry are kept row by row (one lemma per
kind of write). From it follow `Immutability`, and, because the totals and the
audit snapshot of an entry are functions of its own lines only, that
`PostedBalanced` and `AuditMatchesJournal` carry over from a state to the next
for the entries that were posted before; for the entry that becomes posted they
hold by `Postable` and by the row written with it. `ReversalMirrors` is not
inductive alone: the original must be posted, so that its lines stay, which is
`ReversalStructure`, and no row may outlive its entry (`LinesHaveEntry`), or a
reversal given a used key would start with foreign lines. These are proved
together as one invariant.

*Ledger.* A step either keeps the posted entries with their snapshots, and is a
stutter, or posts exactly one: then the invariants above are the conjuncts of
`Enter`, mirrored lines being what `Opposite` asks for.

*Posting sessions.* `SpecOpen` first: what the two checks on stale instances
leave to the database. The invariant `OpenInv` says how far a session may have
got in which service (`Course`), what it may rely on at that step whatever
others have committed since (`Relies`), what the row lock, the unique index
and the key sequence keep apart (`Apart`), and that an open write is about lines
of one entry (`WritesInv`). A posted entry never becomes a draft
again, so an instance that says "posted" is right, and a session that has
written the row is the only one that has. This gives `Exclusion`, and with
one `post_entry` row for each entry it posts, `PostedOnce`. For `SettledImmutable`
a step that writes a line of an entry is a commit of an open write of that very
entry, and none can begin on one that is posted (`SettledUntouched`). Under
`SpecServices` two more facts hold: the entry of an open write is a draft that is
with no session (`Owned`), and what a session has validated is therefore still
what the table holds while the entry is a draft (`Validated`). That makes the
commit of `post_entry` the action `PostEntry` of the journal, all guards but the
one for closed accounts; the commit of `reverse_entry` is `ReverseEntry` by what
its session relies on, and every other statement is a stutter of the tables or an
operation by itself.

*Opening balances.* `OneActivePerCaller` is a budget: for an account and a day
the entries in force and the callers that are about to write one, or have
written one that is not committed, are together no more than the callers
(`Budget`). A caller claims only what it found free, so nothing is in force
when it claims, and a commit turns its claim into an entry; to claim again it
must find nothing in force again. The field and the audit row that a call writes are about an
entry that is not committed yet. The invariant says that such an entry is in
nobody else's batch (`Private`), so that a roll-back takes away all that is
about it, and nothing else.

*Chart.* `NoDangling` needs that an account that does not exist has no parent
(`References`), or an account created under a used key would come back under an
account that is gone. For `CleanMovesKeepCap` the invariant is that what a request has
established about its new parent still holds unless it is overtaken (`CleanStands`);
then the account that is moved is a leaf, on no walk but its own, and the walk
from its new parent is short enough (`LeafSet`). `ResetIsExact` needs no
hypothesis: rows that are gone are locked, and PROTECT has looked at every
child that could be left. For `ResetGetsThrough`, the buckets are those of the
chart as long as nothing has outrun the reset (`Current`), and the depth a bucket is
numbered by counts the accounts above
until one that is not a user's; a walk never comes back (`NoReturn`), so a child
has one step more than its parent (`DeeperChild`), and is deleted earlier.
`Ancestor` is a recursive function; that it has the value its definition says is
proved first (`WalkExists`, `WalksAgree`, `AncestorIs`), by induction on numbers
in the form that a set of numbers that is not empty has a least one (`Least`).

*Trial balance.* The invariant (`Inv`) is about the books and the request: lines
of entries are on accounts there are and parents are accounts there are
(`Books`, which is what PROTECT and the foreign keys keep); what was posted at a
read stays posted; and as long as no types are filtered out, the sums a request
has read are those of the lines that were posted at the read (`Unfiltered`).
What the report says follows from one state of it, for any hierarchy. Four
groups of lemmas do the work. *Sums*: a sum can be taken apart at any element,
although the order it folds along is unknown (`FoldsAgree`, `SumRemove`), hence
along any partition (`SumParts`), by induction on finite sets (`AllSubsets`).
*Forests*: where no account is above itself a walk ends (`WalkLeaves`), and
every account is beneath exactly one root (`Top`). *Lines*: debits equal credits
over whole entries, so over all that were posted up to a date
(`EntriesBalance`), and the sums by account add up to those of the lines
(`AccountsAddUp`). *Rows*: an account with lines is on a page
(`LinesAreShown`), because a line pins its account and whatever is above it
until the accounts are read. `ColumnsTieOut` is then the totals split by account;
`RollupsComplete` that an account left out has no activity and adds zero; and
`AccountingEquation` the totals split by root, debit-normal or not being the same
along a tree.

*Two-factor.* The invariant says what the copy a request holds tells at each of
its steps: past the latch an inactive copy means that enforcement was never
asked for or that the request came within a window, and no request gets to the
gate with an active one. It ties the decision, which is about a copy, to the time of the request.

*Owner and sessions.* `CapIsKept`: the start in a row is within `Idle` of the
sign-in, or the row was last saved at the sign-in, so that a first request
comes before it expires; and copies of a row have the start they were loaded
with. `ResetCutsOff`: devices a reset has found are not enrolled any more
once both deletes are done, and keys of rows are not used again.

*Retention.* `HistoryKept` is about many prunes, each with a policy of its own
day, that list and delete between one another's steps. The invariant (`KeptInv`)
is that the runs there are, are today's (`TodaysRuns`), that all recent backups
are in the store, that each period within the horizon which ever had a backup
has one, and, for every run, that what it has still to delete is not recent and
not what the policy would choose from the bucket as it is now (`PruneInv`). That
survives the deletes of other runs because the policy chooses again what it chose
when objects it did not choose have gone (`KeepersStable`): the object kept for a
period is its first listed of the latest day before and after, and no period that
counts has left. It survives uploads because a new object is recent
(`KeepersGrow`). Of every period that the store has one of and that is within the
policy, one is chosen: the latest of it, unless the period is among so many later
ones that it is outside; and there are at most as many months, and years, within
the horizon as the policy keeps. That a year whose months are kept is left to
them (`CoveredYears`) loses nothing, since the object kept for such a month is one
of the year. On a new day there are no runs, and the horizon only moves on.
`StoreBounded` is the other half of `PruneInv`: as long as nothing has failed, an
old object is one the run has left to delete or one the policy chooses, so at the
end there are only the chosen, and those are counted (`KeepersBound`).

*Drill.* An audit log only grows while production is not restored, and an
entry is posted only together with a row. So among production, dumps, objects,
scratch database and the drill's counts, equal lengths of the log mean equal
posted entries (`HistoryInv`); and a passed drill compared two of these lengths.
A restore of production ends it: two histories can have logs of one length.
`LogMatchesBucket` goes through restores: since a restore brings back the log
of a dump, the invariant (`LogInv`) is that the rows of every database there is,
in the bucket or in a running backup too, name objects that are there or old
enough to be pruned, and that a run past its upload has its object.
`QuietDrillPasses` follows the drill's own row while nothing fails (`Quiet`): there
is none before its run has recorded one, and afterwards every row of the drill
has the key of that run, whose object is the dump the drill keeps in mind; if no
other row came after the counts, the newest is it. The balance remembered is that
of production for as long as the log has the length that was counted, and so that
of the dump. No sum is taken apart: on an account with activity up to today and
none after it (`SpotActive`, the theorem's one hypothesis, true of the instance of
the run `drill`), both spot checks are the same sum over the same entries. Without
it the property is false, as `drill_spot.cfg` and `drill_future.cfg` show.

Only model-checked: liveness, fairness and ENABLED, which are out of the proof
system's reach (`CallsEnd`, `ExpiryEndsGrace`). Every invariant and every action
property that a passing run checks is proved.

## 5. Not modelled, and the plan

Not modelled, because they keep no state of interest or are glue around
libraries that are not in the repository: report exporters and the parsing of
their parameters, the handlers that log a lockout, settings and logging, test
factories. A restore of production that fails half-way (restore_db.py:183)
leaves the service down and is the runbook's business.

Known hazards without a property that is checked, each with its reason in
`PROJECT.json`: mostly statements the code does not keep, whose counterexample
is in the table above and for which nothing weaker worth saying holds.

Next: retries in `PostingSessions`, by a caller that keeps its instance after a
roll-back (posting.py:94), with the theorems on sessions extended to them.
