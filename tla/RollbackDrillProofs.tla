------------------------ MODULE RollbackDrillProofs ------------------------
(***************************************************************************)
(* What a passed drill is worth, proved for any journal, any number of     *)
(* backups and any faults.                                                 *)
(***************************************************************************)
EXTENDS RollbackDrill, FiniteSetTheorems, TLAPS

Databases ==
  {d \in [drafts : SUBSET Entry, posted : SUBSET Entry, log : Seq(Rows)] :
     /\ d.drafts \cap d.posted = {} /\ Opening \subseteq d.posted
     /\ \A i \in Created(d) : d.log[i].key \in Time}

RunShape(x, time) ==
  /\ x \in [pc : {"idle", "upload", "prune", "record"}, key : {x.key}, dump : {x.dump}]
  /\ x.pc # "idle" => x.key \in 0..time /\ x.dump \in Databases

Steps == {"idle", "count", "countLog", "spot", "backup", "wait", "latest", "restore", "verify",
          "passed", "failed", "dead"}
DrillShape(x) ==
  /\ x \in [pc : Steps, useB2 : BOOLEAN, env : Prefix, entries : {x.entries}, rows : {x.rows},
            spot : {x.spot}, made : {x.made}, key : {x.key}, scratch : {x.scratch}]
  /\ x.pc \in {"restore", "verify"} => x.key \in Time
  /\ x.pc = "verify" => x.scratch \in Databases

(* Every dump is a database, and every BACKUP_CREATED row in one has the   *)
(* key of an object there may be.                                          *)
Shapes ==
  /\ now \in Time /\ db \in Databases
  /\ bucket \in [Prefix \X Time -> Databases \cup {None}]
  /\ run = [p \in Process |-> run[p]] /\ \A p \in Process : RunShape(run[p], now)
  /\ DrillShape(drill)
  /\ orphans \subseteq Prefix \X Time
  /\ faults \in 0..MaxFaults /\ restores \in 0..MaxRestores

-----------------------------------------------------------------------------
(* Types.                                                                  *)

(* AuditLog.record adds one row and touches nothing else.                  *)
LEMMA LoggedIs ==
  ASSUME NEW d \in Databases,
         NEW action \in {"post_entry", "backup_created", "backup_restored", "drill_passed",
                         "drill_failed"},
         NEW key \in Time \cup {None}, NEW by \in Process \cup {"owner", "operator"},
         action = "backup_created" => key \in Time
  PROVE  /\ Logged(d, action, key, by) \in Databases
         /\ Logged(d, action, key, by).posted = d.posted
         /\ Len(Logged(d, action, key, by).log) = Len(d.log) + 1
<1> DEFINE row == [action |-> action, key |-> key, by |-> by]
           e == Logged(d, action, key, by)
<1>1. /\ d \in [drafts : SUBSET Entry, posted : SUBSET Entry, log : Seq(Rows)]
      /\ d.drafts \cap d.posted = {} /\ \A i \in Created(d) : d.log[i].key \in Time
  BY DEF Databases
<1>2. e = [d EXCEPT !.log = Append(d.log, row)]
  BY DEF Logged
<1> HIDE DEF row, e
<1>3. /\ e \in [drafts : SUBSET Entry, posted : SUBSET Entry, log : Seq(Rows)]
      /\ e.drafts = d.drafts /\ e.posted = d.posted /\ e.log = Append(d.log, row)
  <2>1. row \in Rows
    BY DEF row, Rows
  <2>2. Append(d.log, row) \in Seq(Rows)
    BY <1>1, <2>1
  <2> QED
    BY <1>1, <1>2, <2>2
<1>4. ASSUME NEW i \in Created(e) PROVE e.log[i].key \in Time
  <2>1. i \in 1..(Len(d.log) + 1) /\ e.log[i].action = "backup_created"
    BY <1>1, <1>3 DEF Created
  <2>2. CASE i = Len(d.log) + 1
    BY <1>1, <1>3, <2>1, <2>2 DEF row
  <2>3. CASE i \in 1..Len(d.log)
    BY <1>1, <1>3, <2>1, <2>3 DEF Created
  <2> QED
    BY <1>1, <2>1, <2>2, <2>3
<1>5. Len(e.log) = Len(d.log) + 1
  BY <1>1, <1>3
<1>6. e \in Databases
  BY <1>1, <1>3, <1>4 DEF Databases
<1> QED
  BY <1>3, <1>5, <1>6 DEF e

(* A verdict is a row of the log and the drill's last step.                *)
LEMMA VerdictIs ==
  ASSUME Shapes, NEW v \in {"passed", "failed"}, NEW key \in Time \cup {None}, Verdict(v, key)
  PROVE  /\ db' \in Databases /\ db'.posted = db.posted /\ Len(db'.log) = Len(db.log) + 1
         /\ drill' = [drill EXCEPT !.pc = v]
         /\ DrillUnchanged /\ UNCHANGED source
<1> DEFINE action == IF v = "passed" THEN "drill_passed" ELSE "drill_failed"
<1>1. db' = Logged(db, action, key, "drill") /\ db \in Databases /\ "drill" \in Process
  BY DEF Verdict, Shapes, Process
<1>2. action \in {"drill_passed", "drill_failed"}
  OBVIOUS
<1> HIDE DEF action
<1> QED
  BY <1>1, <1>2, LoggedIs DEF Verdict

(* A failed run of the drill: the same row, without a verdict.             *)
LEMMA FailureIs ==
  ASSUME Shapes, NEW key \in Time \cup {None}
  PROVE  /\ Logged(db, "drill_failed", key, "drill") \in Databases
         /\ Logged(db, "drill_failed", key, "drill").posted = db.posted
         /\ Len(Logged(db, "drill_failed", key, "drill").log) = Len(db.log) + 1
<1>1. db \in Databases /\ "drill" \in Process
  BY DEF Shapes, Process
<1> QED
  BY <1>1, LoggedIs

(* What the drill knows outlasts its other steps.                          *)
Keeps(x, y) == /\ y.useB2 = x.useB2 /\ y.env = x.env
               /\ y.rows = x.rows /\ y.key = x.key /\ y.scratch = x.scratch

(* The drill's own record keeps its fields, whichever of them a step       *)
(* writes.                                                                 *)
LEMMA DrillTo ==
  ASSUME NEW x, DrillShape(x), NEW pc \in Steps \ {"restore", "verify"}, NEW y,
         \/ y = [x EXCEPT !.pc = pc]
         \/ \E made : y = [x EXCEPT !.pc = pc, !.made = made]
         \/ \E spot : y = [x EXCEPT !.pc = pc, !.spot = spot]
         \/ \E entries : y = [x EXCEPT !.pc = pc, !.entries = entries]
  PROVE  DrillShape(y) /\ y.pc = pc /\ Keeps(x, y)
<1>1. CASE y = [x EXCEPT !.pc = pc]
  BY <1>1 DEF DrillShape, Steps, Keeps
<1>2. ASSUME NEW made, y = [x EXCEPT !.pc = pc, !.made = made]
      PROVE  DrillShape(y) /\ y.pc = pc /\ Keeps(x, y)
  BY <1>2 DEF DrillShape, Steps, Keeps
<1>3. ASSUME NEW spot, y = [x EXCEPT !.pc = pc, !.spot = spot]
      PROVE  DrillShape(y) /\ y.pc = pc /\ Keeps(x, y)
  BY <1>3 DEF DrillShape, Steps, Keeps
<1>4. ASSUME NEW entries, y = [x EXCEPT !.pc = pc, !.entries = entries]
      PROVE  DrillShape(y) /\ y.pc = pc /\ Keeps(x, y)
  BY <1>4 DEF DrillShape, Steps, Keeps
<1> QED
  BY <1>1, <1>2, <1>3, <1>4

(* The same for the steps that write what it keeps.                        *)
LEMMA DrillFound ==
  ASSUME NEW x, DrillShape(x), NEW y
  PROVE  /\ \A useB2 \in BOOLEAN, env \in Prefix :
              y = [x EXCEPT !.pc = "count", !.useB2 = useB2, !.env = env]
                => DrillShape(y) /\ y.pc = "count"
         /\ \A rows :
              y = [x EXCEPT !.pc = "spot", !.rows = rows]
                => DrillShape(y) /\ y.pc = "spot" /\ y.rows = rows
         /\ \A key \in Time :
              y = [x EXCEPT !.pc = "restore", !.key = key]
                => DrillShape(y) /\ y.pc = "restore" /\ y.rows = x.rows
         /\ \A dump \in Databases :
              x.pc = "restore" /\ y = [x EXCEPT !.pc = "verify", !.scratch = dump]
                => DrillShape(y) /\ y.pc = "verify" /\ y.rows = x.rows /\ y.scratch = dump
<1>1. ASSUME NEW useB2 \in BOOLEAN, NEW env \in Prefix,
             y = [x EXCEPT !.pc = "count", !.useB2 = useB2, !.env = env]
      PROVE  DrillShape(y) /\ y.pc = "count"
  BY <1>1 DEF DrillShape, Steps
<1>2. ASSUME NEW rows, y = [x EXCEPT !.pc = "spot", !.rows = rows]
      PROVE  DrillShape(y) /\ y.pc = "spot" /\ y.rows = rows
  BY <1>2 DEF DrillShape, Steps
<1>3. ASSUME NEW key \in Time, y = [x EXCEPT !.pc = "restore", !.key = key]
      PROVE  DrillShape(y) /\ y.pc = "restore" /\ y.rows = x.rows
  BY <1>3 DEF DrillShape, Steps
<1>4. ASSUME NEW dump \in Databases, x.pc = "restore",
             y = [x EXCEPT !.pc = "verify", !.scratch = dump]
      PROVE  DrillShape(y) /\ y.pc = "verify" /\ y.rows = x.rows /\ y.scratch = dump
  BY <1>4 DEF DrillShape, Steps
<1> QED
  BY <1>1, <1>2, <1>3, <1>4

(* A run's own step, while the other run waits.                            *)
LEMMA RunTo ==
  ASSUME Shapes, NEW p \in Process, NEW x,
         \/ \E pc \in {"prune", "record"} :
              run[p].pc # "idle" /\ x = [run[p] EXCEPT !.pc = pc]
         \/ x = Idle(run[p].key)
         \/ x = [pc |-> "upload", key |-> now, dump |-> db],
         run' = [run EXCEPT ![p] = x], now' = now
  PROVE  /\ run' = [q \in Process |-> run'[q]] /\ \A q \in Process : RunShape(run'[q], now')
         /\ run'[p] = x /\ \A q \in Process \ {p} : run'[q] = run[q]
         /\ x.pc # "idle" => x.dump = run[p].dump \/ x.dump = db
<1>1. /\ run = [q \in Process |-> run[q]] /\ \A q \in Process : RunShape(run[q], now)
      /\ now \in Nat /\ db \in Databases
  BY DrillAssumption DEF Shapes, Time
<1>2. /\ run' = [q \in Process |-> run'[q]] /\ run'[p] = x
      /\ \A q \in Process \ {p} : run'[q] = run[q]
  BY <1>1
<1>3. RunShape(x, now) /\ (x.pc # "idle" => x.dump = run[p].dump \/ x.dump = db)
  <2>1. ASSUME NEW pc \in {"prune", "record"}, run[p].pc # "idle", x = [run[p] EXCEPT !.pc = pc]
        PROVE  RunShape(x, now) /\ x.dump = run[p].dump
    BY <1>1, <2>1 DEF RunShape
  <2>2. CASE x = Idle(run[p].key)
    BY <2>2 DEF RunShape, Idle
  <2>3. CASE x = [pc |-> "upload", key |-> now, dump |-> db]
    BY <1>1, <2>3 DEF RunShape
  <2> QED
    BY <2>1, <2>2, <2>3
<1>4. \A q \in Process : RunShape(run'[q], now')
  BY <1>1, <1>2, <1>3 DEF RunShape
<1> QED
  BY <1>2, <1>3, <1>4

(* Posting is one more row.                                                *)
LEMMA PostIs ==
  ASSUME Shapes, NEW e \in Entry, Post(e)
  PROVE  db' \in Databases /\ Len(db'.log) = Len(db.log) + 1
<1> DEFINE d == [db EXCEPT !.drafts = db.drafts \ {e}, !.posted = db.posted \cup {e}]
<1>1. db \in Databases /\ db' = Logged(d, "post_entry", None, "owner")
  BY DEF Post, Shapes
<1>2. d \in Databases /\ d.log = db.log
  BY <1>1 DEF Databases, Created
<1> HIDE DEF d
<1> QED
  BY <1>1, <1>2, LoggedIs

(* Rows of completed runs name objects.                                    *)
LEMMA RecordIs ==
  ASSUME Shapes, NEW p \in Process, Record(p)
  PROVE  /\ db' \in Databases /\ db'.posted = db.posted /\ Len(db'.log) = Len(db.log) + 1
<1>1. run[p].key \in Time /\ db \in Databases
  BY DrillAssumption DEF Shapes, RunShape, Record, Time
<1> QED
  BY <1>1, LoggedIs DEF Record

(* A restored production database has its dump's books.                    *)
LEMMA RestoredIs ==
  ASSUME Shapes, NEW k \in Time, RestoreProduction(k)
  PROVE  db' \in Databases /\ orphans' \subseteq Prefix \X Time
<1>1. <<ProdPrefix, k>> \in Prefix \X Time
  BY DEF Prefix
<1>2. bucket[ProdPrefix, k] \in Databases
  BY <1>1 DEF RestoreProduction, Shapes
<1>3. db' \in Databases
  BY <1>2, LoggedIs DEF RestoreProduction
<1>4. ASSUME NEW i \in Created(db) PROVE <<PrefixOf(db.log[i].by), db.log[i].key>> \in Prefix \X Time
  BY DEF Shapes, Databases, PrefixOf, Prefix
<1>5. orphans' \subseteq Prefix \X Time
  <2> DEFINE dump == bucket[ProdPrefix, k]
             lost == {db.log[i] : i \in Created(db)} \ {dump.log[i] : i \in Created(dump)}
  <2>1. orphans' = orphans \cup {<<PrefixOf(row.by), row.key>> : row \in lost}
    BY DEF RestoreProduction
  <2>2. \A row \in lost : \E i \in Created(db) : row = db.log[i]
    OBVIOUS
  <2> HIDE DEF lost
  <2> QED
    BY <1>4, <2>1, <2>2 DEF Shapes
<1> QED
  BY <1>3, <1>5

(* Types, whatever the step.                                               *)
LEMMA NextShapes ==
  ASSUME Shapes, [Next]_vars
  PROVE  Shapes'
<1>0. /\ now \in Time /\ db \in Databases
      /\ bucket \in [Prefix \X Time -> Databases \cup {None}]
      /\ run = [p \in Process |-> run[p]] /\ \A p \in Process : RunShape(run[p], now)
      /\ DrillShape(drill) /\ orphans \subseteq Prefix \X Time
      /\ faults \in 0..MaxFaults /\ restores \in 0..MaxRestores
      /\ MaxTime \in Nat /\ MaxFaults \in Nat /\ MaxRestores \in Nat
  BY DrillAssumption DEF Shapes
<1>1. ASSUME NEW e \in Entry, Draft(e) \/ Discard(e) \/ Post(e) PROVE Shapes'
  <2>1. CASE Draft(e) \/ Discard(e)
    <3>1. PICK drafts \in SUBSET Entry : db' = [db EXCEPT !.drafts = drafts] /\ drafts \cap db.posted = {}
      BY <1>0, <2>1 DEF Draft, Discard, Databases
    <3>2. db' \in Databases
      BY <1>0, <3>1 DEF Databases, Created
    <3> QED
      BY <1>0, <2>1, <3>2 DEF Draft, Discard, Books, Shapes
  <2>2. CASE Post(e)
    <3> QED
      BY <1>0, <2>2, PostIs DEF Post, Books, Shapes
  <2> QED
    BY <1>1, <2>1, <2>2
<1>2. CASE Tick
  <2>1. now' \in Time /\ now \in Nat /\ now' = now + 1
    BY <1>0, <1>2 DEF Tick, Time
  <2>2. \A p \in Process : RunShape(run[p], now')
    BY <1>0, <2>1 DEF RunShape
  <2> QED
    BY <1>0, <1>2, <2>1, <2>2 DEF Tick, Shapes
<1>3. ASSUME NEW p \in Process, Dump(p) PROVE Shapes'
  <2>1. DrillShape(drill')
    BY <1>0, <1>3, DrillTo DEF Dump, Steps
  <2> QED
    BY <1>0, <1>3, <2>1, RunTo DEF Dump, Shapes
<1>4. ASSUME NEW p \in Process, Upload(p) PROVE Shapes'
  <2>1. <<PrefixOf(p), run[p].key>> \in Prefix \X Time /\ run[p].dump \in Databases
    BY <1>0, <1>4 DEF Upload, RunShape, PrefixOf, Prefix, Time
  <2>2. bucket' \in [Prefix \X Time -> Databases \cup {None}]
    BY <1>0, <1>4, <2>1 DEF Upload
  <2>3. run' = [run EXCEPT ![p] = [run[p] EXCEPT !.pc = "prune"]] /\ run[p].pc # "idle"
    BY <1>4 DEF Upload
  <2> QED
    BY <1>0, <1>4, <2>2, <2>3, RunTo DEF Upload, Shapes
<1>5. ASSUME NEW p \in Process, Prune(p) PROVE Shapes'
  <2>1. bucket' \in [Prefix \X Time -> Databases \cup {None}]
    BY <1>0, <1>5 DEF Prune
  <2>2. run' = [run EXCEPT ![p] = [run[p] EXCEPT !.pc = "record"]] /\ run[p].pc # "idle"
    BY <1>5 DEF Prune
  <2> QED
    BY <1>0, <1>5, <2>1, <2>2, RunTo DEF Prune, Shapes
<1>6. ASSUME NEW p \in Process, Record(p) PROVE Shapes'
  <2>1. DrillShape(drill')
    <3>1. ASSUME NEW made, drill' = [drill EXCEPT !.pc = "latest", !.made = made]
          PROVE  DrillShape(drill')
      BY <1>0, <3>1, DrillTo DEF Steps
    <3> QED
      BY <1>0, <1>6, <3>1 DEF Record
  <2> QED
    BY <1>0, <1>6, <2>1, RunTo, RecordIs DEF Record, Shapes
<1>7. ASSUME NEW p \in Process, RunFails(p) PROVE Shapes'
  <2>1. DrillShape(drill')
    <3>1. CASE drill' = [drill EXCEPT !.pc = "failed"]
      BY <1>0, <3>1, DrillTo DEF Steps
    <3> QED
      BY <1>0, <1>7, <3>1 DEF RunFails
  <2>3. db' \in Databases
    BY <1>0, <1>7, FailureIs DEF RunFails
  <2>2. faults' \in 0..MaxFaults
    BY <1>0, <1>7 DEF RunFails
  <2> QED
    BY <1>0, <1>7, <2>1, <2>2, <2>3, RunTo DEF RunFails, Shapes
<1>8. ASSUME NEW p \in Process, Dies(p) PROVE Shapes'
  <2>1. DrillShape(drill')
    <3>1. CASE drill' = [drill EXCEPT !.pc = "dead"]
      BY <1>0, <3>1, DrillTo DEF Steps
    <3> QED
      BY <1>0, <1>8, <3>1 DEF Dies
  <2>2. faults' \in 0..MaxFaults
    BY <1>0, <1>8 DEF Dies
  <2>3. orphans' \subseteq Prefix \X Time
    BY <1>0, <1>8 DEF Dies, RunShape, PrefixOf, Prefix, Time
  <2> QED
    BY <1>0, <1>8, <2>1, <2>2, <2>3, RunTo DEF Dies, Shapes
<1>9. ASSUME NEW useB2 \in BOOLEAN, NEW env \in Prefix, Begin(useB2, env) PROVE Shapes'
  <2>1. DrillShape(drill')
    BY <1>0, <1>9, DrillFound DEF Begin
  <2> QED
    BY <1>0, <1>9, <2>1 DEF Begin, DrillUnchanged, Shapes
<1>10. CASE CountJournal \/ CountLog \/ SpotCheck
  <2>1. DrillShape(drill')
    <3>1. CASE CountJournal
      BY <1>0, <3>1, DrillTo DEF CountJournal, Steps
    <3>2. CASE CountLog
      BY <1>0, <3>2, DrillFound DEF CountLog
    <3>3. CASE SpotCheck
      BY <1>0, <3>3, DrillTo DEF SpotCheck, Steps
    <3> QED
      BY <1>10, <3>1, <3>2, <3>3
  <2> QED
    BY <1>0, <1>10, <2>1 DEF CountJournal, CountLog, SpotCheck, DrillUnchanged, Shapes
<1>11. ASSUME NEW v \in {"passed", "failed"}, NEW key \in Time \cup {None}, Verdict(v, key)
       PROVE  Shapes'
  <2>1. DrillShape(drill')
    BY <1>0, <1>11, DrillTo, VerdictIs DEF Steps
  <2> QED
    BY <1>0, <1>11, <2>1, VerdictIs DEF DrillUnchanged, Shapes
<1>12. CASE DryRun \/ Verify
  BY <1>0, <1>11, <1>12 DEF DryRun, Verify, DrillShape
<1>13. CASE DryRunFails \/ RestoreFails
  <2>1. drill.pc = "restore" => drill.key \in Time
    BY <1>0 DEF DrillShape
  <2>2. DrillShape(drill')
    <3>1. drill' = [drill EXCEPT !.pc = "failed"]
      BY <1>13 DEF DryRunFails, RestoreFails
    <3> QED
      BY <1>0, <3>1, DrillTo DEF Steps
  <2>4. db' \in Databases
    BY <1>0, <1>13, <2>1, FailureIs DEF DryRunFails, RestoreFails
  <2>3. faults' \in 0..MaxFaults
    BY <1>0, <1>13 DEF DryRunFails, RestoreFails
  <2> QED
    BY <1>0, <1>13, <2>2, <2>3, <2>4 DEF DryRunFails, RestoreFails, Shapes
<1>14. CASE Latest
  <2>1. ASSUME NEW i \in Created(db), drill' = [drill EXCEPT !.pc = "restore", !.key = db.log[i].key],
               DrillUnchanged, UNCHANGED <<db, source>>
        PROVE  Shapes'
    <3>1. DrillShape(drill')
      <4>1. db.log[i].key \in Time
        BY <1>0 DEF Databases
      <4>2. \A key \in Time :
              drill' = [drill EXCEPT !.pc = "restore", !.key = key] => DrillShape(drill')
        BY <1>0, DrillFound
      <4> QED
        BY <2>1, <4>1, <4>2
    <3> QED
      BY <1>0, <2>1, <3>1 DEF DrillUnchanged, Shapes
  <2> QED
    BY <1>11, <1>14, <2>1 DEF Latest
<1>15. CASE Restore
  <2>1. drill.key \in Time /\ <<drill.env, drill.key>> \in Prefix \X Time /\ "drill" \in Process
    BY <1>0, <1>15 DEF Restore, DrillShape, Process
  <2>2. ASSUME bucket[drill.env, drill.key] # None,
               drill' = [drill EXCEPT !.pc = "verify", !.scratch = bucket[drill.env, drill.key]],
               db' = Logged(db, "backup_restored", drill.key, "drill"),
               DrillUnchanged, UNCHANGED source
        PROVE  Shapes'
    <3>1. bucket[drill.env, drill.key] \in Databases
      BY <1>0, <2>1, <2>2
    <3>2. DrillShape(drill')
      BY <1>0, <1>15, <2>2, <3>1, DrillFound DEF Restore
    <3>3. db' \in Databases
      BY <1>0, <2>1, <2>2, LoggedIs
    <3> QED
      BY <1>0, <2>2, <3>2, <3>3 DEF DrillUnchanged, Shapes
  <2> QED
    BY <1>11, <1>15, <2>1, <2>2 DEF Restore
<1>16. ASSUME NEW k \in Time, RestoreProduction(k) PROVE Shapes'
  <2>1. restores' \in 0..MaxRestores
    <3>1. restores < MaxRestores /\ restores' = restores + 1
      BY <1>16 DEF RestoreProduction
    <3> QED
      BY <1>0, <3>1
  <2> QED
    BY <1>0, <1>16, <2>1, RestoredIs DEF RestoreProduction, Shapes
<1>17. CASE UNCHANGED vars
  BY <1>0, <1>17 DEF vars, Shapes
<1> QED
  BY <1>1, <1>2, <1>3, <1>4, <1>5, <1>6, <1>7, <1>8, <1>9, <1>10, <1>12, <1>13, <1>14, <1>15,
     <1>16, <1>17 DEF Next

(* The books the system opens with have a row per posting.                 *)
LEMMA InitShapes ==
  ASSUME Init
  PROVE  Shapes
<1>1. 0 \in Time /\ Cardinality(Opening) \in Nat /\ ProdPrefix \in Prefix
  BY DrillAssumption, FS_CardinalityType DEF Time, Prefix
<1>2. db \in Databases
  <2> DEFINE row == [action |-> "post_entry", key |-> None, by |-> "owner"]
  <2>1. row \in Rows
    BY DEF Rows
  <2>2. /\ db = [drafts |-> {}, posted |-> Opening, log |-> [i \in 1..Cardinality(Opening) |-> row]]
    BY DEF Init
  <2> HIDE DEF row
  <2>3. db.log \in Seq(Rows) /\ \A i \in 1..Len(db.log) : db.log[i] = row
    BY <1>1, <2>1, <2>2
  <2>4. Created(db) = {}
    BY <2>3 DEF Created, row
  <2> QED
    BY <2>2, <2>3, <2>4, DrillAssumption DEF Databases
<1>3. run = [p \in Process |-> run[p]] /\ \A p \in Process : RunShape(run[p], now)
  BY DEF Init, Idle, RunShape
<1>4. DrillShape(drill)
  BY <1>1 DEF Init, DrillShape, Steps
<1> QED
  BY <1>1, <1>2, <1>3, <1>4, DrillAssumption DEF Init, Shapes

(* Whatever fails, dies or is restored, what the processes hold are        *)
(* databases of entries, and what they look up are objects there may be    *)
(* (backup_db, restore_db, drill_rollback).                                *)
THEOREM DrillTypes == Spec => []TypeOK
<1>1. ASSUME Shapes PROVE TypeOK
  <2>1. \A d \in Databases : IsDatabase(d)
    BY DEF Databases, IsDatabase
  <2>2. /\ now \in Time /\ IsDatabase(db)
        /\ \A o \in Prefix \X Time : bucket[o] # None => IsDatabase(bucket[o])
    BY <1>1, <2>1 DEF Shapes
  <2>3. \A p \in Process : /\ run[p].pc \in {"idle", "upload", "prune", "record"}
                           /\ run[p].pc # "idle" => run[p].key \in 0..now /\ IsDatabase(run[p].dump)
    BY <1>1, <2>1 DEF Shapes, RunShape
  <2>4. /\ drill.pc \in Steps
        /\ drill.pc \in {"restore", "verify"} => drill.key \in Time
        /\ drill.pc = "verify" => IsDatabase(drill.scratch)
    BY <1>1, <2>1 DEF Shapes, DrillShape
  <2> QED
    BY <1>1, <2>2, <2>3, <2>4 DEF Shapes, TypeOK, Steps
<1> QED
  BY <1>1, InitShapes, NextShapes, PTL DEF Spec

-----------------------------------------------------------------------------
(* Histories.  Only posting changes what is posted, and it adds a row: two *)
(* looks at production that count the same rows see the same postings.     *)

Mark(d) == [count |-> Len(d.log), posted |-> d.posted]
Counted == {"spot", "backup", "wait", "latest", "restore", "verify", "passed"}
Restored == drill.pc = "verify" \/ (drill.pc = "passed" /\ drill.useB2)

BucketMarks == {Mark(bucket[o]) : o \in {o \in Prefix \X Time : bucket[o] # None}}
RunMarks == {Mark(run[p].dump) : p \in {p \in Process : run[p].pc # "idle"}}
CountMarks == {m \in {[count |-> drill.rows, posted |-> source]} : drill.pc \in Counted}
ScratchMarks == {m \in {Mark(drill.scratch)} : Restored}
Seen == {Mark(db)} \cup BucketMarks \cup RunMarks \cup CountMarks \cup ScratchMarks

HistoryInv ==
  /\ \A m \in Seen : m.count \in Nat /\ m.count <= Len(db.log)
  /\ \A m, n \in Seen : m.count = n.count => m.posted = n.posted

Waits == run["drill"].pc # "idle" => drill.pc = "wait"
PassedCounts == drill.pc = "passed" /\ drill.useB2 => Len(drill.scratch.log) = drill.rows

(* Production's log only grows, and what is posted changes only when it    *)
(* does.                                                                   *)
LEMMA DbMoves ==
  ASSUME Shapes, Next, restores' = 0
  PROVE  \/ Len(db'.log) = Len(db.log) + 1
         \/ Len(db'.log) = Len(db.log) /\ db'.posted = db.posted
<1> DEFINE Goal == \/ Len(db'.log) = Len(db.log) + 1
                   \/ Len(db'.log) = Len(db.log) /\ db'.posted = db.posted
<1>0. db \in Databases /\ DrillShape(drill)
  BY DEF Shapes
<1>1. CASE UNCHANGED db
  BY <1>1
<1>2. ASSUME NEW e \in Entry, Draft(e) \/ Discard(e) PROVE Goal
  BY <1>0, <1>2 DEF Draft, Discard, Databases
<1>3. ASSUME NEW e \in Entry, Post(e) PROVE Goal
  BY <1>3, PostIs
<1>4. ASSUME NEW p \in Process, Dump(p) \/ Upload(p) \/ Prune(p) \/ Dies(p) PROVE Goal
  BY <1>1, <1>4 DEF Dump, Upload, Prune, Dies
<1>5. ASSUME NEW p \in Process, Record(p) \/ RunFails(p) PROVE Goal
  BY <1>1, <1>5, RecordIs, FailureIs DEF RunFails
<1>6. ASSUME NEW v \in {"passed", "failed"}, NEW key \in Time \cup {None}, Verdict(v, key) PROVE Goal
  BY <1>6, VerdictIs
<1>7. CASE DryRun \/ Verify \/ Latest
  BY <1>0, <1>1, <1>6, <1>7 DEF DryRun, Verify, Latest, DrillShape
<1>8. CASE DryRunFails \/ RestoreFails
  BY <1>0, <1>8, FailureIs DEF DryRunFails, RestoreFails, DrillShape
<1>9. CASE Restore
  <2>1. drill.key \in Time /\ "drill" \in Process
    BY <1>0, <1>9 DEF Restore, DrillShape, Process
  <2>2. Len(Logged(db, "backup_restored", drill.key, "drill").log) = Len(db.log) + 1
    BY <1>0, <2>1, LoggedIs
  <2> QED
    BY <1>6, <1>9, <2>1, <2>2 DEF Restore
<1>10. ASSUME NEW k \in Time, RestoreProduction(k) PROVE FALSE
  <2>1. restores' = restores + 1 /\ restores \in Nat
    <3>1. restores' = restores + 1
      BY <1>10 DEF RestoreProduction
    <3> QED
      BY <3>1, DrillAssumption DEF Shapes
  <2> QED
    BY <2>1
<1> QED
  BY <1>1, <1>2, <1>3, <1>4, <1>5, <1>7, <1>8, <1>9, <1>10
     DEF Next, Tick, Begin, CountJournal, CountLog, SpotCheck

(* What is in the bucket was there before, or a run has uploaded it.       *)
LEMMA BucketMoves ==
  ASSUME Shapes, Next
  PROVE  BucketMarks' \subseteq Seen
<1>0. BucketMarks \subseteq Seen /\ RunMarks \subseteq Seen
  BY DEF Seen
<1>1. CASE UNCHANGED bucket
  BY <1>0, <1>1 DEF BucketMarks
<1>2. ASSUME NEW p \in Process, Upload(p) PROVE BucketMarks' \subseteq Seen
  <2>1. \A o \in Prefix \X Time : bucket'[o] = bucket[o] \/ bucket'[o] = run[p].dump
    BY <1>2 DEF Upload, Shapes
  <2>2. Mark(run[p].dump) \in RunMarks
    BY <1>2 DEF Upload, RunMarks
  <2>3. ASSUME NEW o \in Prefix \X Time, bucket'[o] # None PROVE Mark(bucket'[o]) \in Seen
    BY <1>0, <2>1, <2>2, <2>3 DEF BucketMarks
  <2> QED
    BY <2>3 DEF BucketMarks
<1>3. ASSUME NEW p \in Process, Prune(p) PROVE BucketMarks' \subseteq Seen
  <2>1. \A o \in Prefix \X Time : bucket'[o] # None => bucket'[o] = bucket[o]
    BY <1>3 DEF Prune
  <2> QED
    BY <1>0, <2>1 DEF BucketMarks
<1> QED
  BY <1>1, <1>2, <1>3 DEF Next, Draft, Discard, Post, Books, Tick, Dump, Record, RunFails, Dies,
     Begin, CountJournal, CountLog, SpotCheck, DryRun, DryRunFails, Latest, Restore, RestoreFails,
     Verify, Verdict, DrillUnchanged, RestoreProduction

(* What a run holds is the dump it has made.                               *)
LEMMA RunMoves ==
  ASSUME Shapes, Next
  PROVE  RunMarks' \subseteq Seen
<1>0. RunMarks \subseteq Seen /\ Mark(db) \in Seen
  BY DEF Seen
<1>1. CASE UNCHANGED run
  BY <1>0, <1>1 DEF RunMarks
<1>2. ASSUME NEW p \in Process, Dump(p) \/ Upload(p) \/ Prune(p) \/ Record(p) \/ RunFails(p) \/ Dies(p)
      PROVE  RunMarks' \subseteq Seen
  <2>1. PICK x :
          /\ \/ \E pc \in {"prune", "record"} : run[p].pc # "idle" /\ x = [run[p] EXCEPT !.pc = pc]
             \/ x = Idle(run[p].key)
             \/ x = [pc |-> "upload", key |-> now, dump |-> db]
          /\ run' = [run EXCEPT ![p] = x] /\ now' = now
    BY <1>2 DEF Dump, Upload, Prune, Record, RunFails, Dies
  <2>2. /\ run'[p] = x /\ \A q \in Process \ {p} : run'[q] = run[q]
        /\ x.pc # "idle" => x.dump = run[p].dump \/ x.dump = db
    BY <2>1, RunTo
  <2>3. x.pc # "idle" => x.dump = db \/ (run[p].pc # "idle" /\ x.dump = run[p].dump)
    BY <2>1 DEF Idle, Shapes, RunShape
  <2>4. ASSUME NEW q \in Process, run'[q].pc # "idle" PROVE Mark(run'[q].dump) \in Seen
    BY <1>0, <2>2, <2>3, <2>4 DEF RunMarks
  <2> QED
    BY <2>4 DEF RunMarks
<1> QED
  BY <1>1, <1>2 DEF Next, Draft, Discard, Post, Books, Tick,
     Begin, CountJournal, CountLog, SpotCheck, DryRun, DryRunFails, Latest, Restore, RestoreFails,
     Verify, Verdict, DrillUnchanged, RestoreProduction

(* While its backup runs, the drill waits for it.                          *)
LEMMA NextWaits ==
  ASSUME Shapes, Waits, Next
  PROVE  Waits'
<1> USE DEF Waits
<1>1. CASE UNCHANGED <<run, drill>>
  BY <1>1
<1>2. ASSUME NEW p \in Process, Dump(p) PROVE Waits'
  <2>1. p # "drill" => run'["drill"] = run["drill"] /\ drill' = drill
    BY <1>2 DEF Dump, Shapes, Process
  <2>2. ASSUME p = "drill" PROVE drill'.pc = "wait"
    <3>1. drill' = [drill EXCEPT !.pc = "wait"] /\ DrillShape(drill)
      BY <1>2, <2>2 DEF Dump, Shapes
    <3> QED
      BY <3>1, DrillTo DEF Steps
  <2> QED
    BY <2>1, <2>2
<1>3. ASSUME NEW p \in Process, Upload(p) \/ Prune(p) PROVE Waits'
  <2>1. run'["drill"].pc # "idle" => run["drill"].pc # "idle"
    BY <1>3 DEF Upload, Prune, Shapes, Process
  <2> QED
    BY <1>3, <2>1 DEF Upload, Prune
<1>4. ASSUME NEW p \in Process, Record(p) \/ RunFails(p) \/ Dies(p) PROVE Waits'
  <2>1. p # "drill" => run'["drill"] = run["drill"] /\ drill' = drill
    BY <1>4 DEF Record, RunFails, Dies, Shapes, Process
  <2>2. p = "drill" => run'["drill"].pc = "idle"
    BY <1>4 DEF Record, RunFails, Dies, Shapes, Process, Idle
  <2> QED
    BY <2>1, <2>2
<1>5. CASE run' = run /\ drill.pc # "wait"
  BY <1>5
<1> QED
  BY <1>1, <1>2, <1>3, <1>4, <1>5 DEF Next, Draft, Discard, Post, Books, Tick,
     Begin, CountJournal, CountLog, SpotCheck, DryRun, DryRunFails, Latest, Restore, RestoreFails,
     Verify, Verdict, DrillUnchanged, RestoreProduction

(* What the drill has counted is production as it was at one moment; what  *)
(* it has restored is an object of the bucket.                             *)
LEMMA DrillMoves ==
  ASSUME Shapes, Waits, PassedCounts, Next
  PROVE  CountMarks' \subseteq Seen /\ ScratchMarks' \subseteq Seen /\ PassedCounts'
<1> DEFINE Goal == CountMarks' \subseteq Seen /\ ScratchMarks' \subseteq Seen /\ PassedCounts'
<1>0. /\ CountMarks \subseteq Seen /\ ScratchMarks \subseteq Seen /\ Mark(db) \in Seen
      /\ BucketMarks \subseteq Seen /\ DrillShape(drill)
  BY DEF Seen, Shapes
<1>1. CASE UNCHANGED <<drill, source>>
  BY <1>0, <1>1 DEF CountMarks, ScratchMarks, Restored, PassedCounts
<1>2. CASE drill'.pc \in {"idle", "count", "countLog", "failed", "dead"}
  BY <1>2 DEF CountMarks, ScratchMarks, Restored, PassedCounts, Counted
<1>3. ASSUME drill.pc \in Counted, drill'.pc \in Counted, UNCHANGED source,
             drill'.rows = drill.rows, drill'.pc \notin {"verify", "passed"}
      PROVE  Goal
  BY <1>0, <1>3 DEF CountMarks, ScratchMarks, Restored, PassedCounts
<1>4. ASSUME NEW v \in {"passed", "failed"}, NEW key \in Time \cup {None}, Verdict(v, key),
             drill.pc \in Counted,
             v = "passed" => \/ ~drill.useB2
                             \/ drill.pc = "verify" /\ drill.rows = Len(drill.scratch.log)
      PROVE  Goal
  <2>1. drill'.pc = v /\ Keeps(drill, drill') /\ UNCHANGED source
    <3>1. drill' = [drill EXCEPT !.pc = v] /\ UNCHANGED source
      BY <1>4, VerdictIs
    <3> QED
      BY <1>0, <3>1, DrillTo DEF Steps
  <2> QED
    BY <1>0, <1>2, <1>4, <2>1
       DEF CountMarks, ScratchMarks, Restored, PassedCounts, Keeps, Counted
<1>5. ASSUME NEW p \in Process, Dump(p) \/ Record(p) PROVE Goal
  <2>1. CASE p # "drill"
    BY <1>1, <1>5, <2>1 DEF Dump, Record
  <2>2. ASSUME p = "drill", Dump(p) PROVE Goal
    <3>1. drill' = [drill EXCEPT !.pc = "wait"] /\ drill.pc = "backup" /\ UNCHANGED source
      BY <2>2 DEF Dump
    <3>2. drill'.pc = "wait" /\ Keeps(drill, drill')
      BY <1>0, <3>1, DrillTo DEF Steps
    <3> QED
      BY <1>3, <3>1, <3>2 DEF Counted, Keeps
  <2>3. ASSUME p = "drill", Record(p) PROVE Goal
    <3>1. drill' = [drill EXCEPT !.pc = "latest", !.made = run[p].dump] /\ UNCHANGED source
      BY <2>3 DEF Record
    <3>2. drill.pc = "wait"
      BY <2>3 DEF Record, Waits
    <3>3. \A made : drill' = [drill EXCEPT !.pc = "latest", !.made = made]
            => drill'.pc = "latest" /\ Keeps(drill, drill')
      BY <1>0, DrillTo DEF Steps
    <3> QED
      BY <1>3, <3>1, <3>2, <3>3 DEF Counted, Keeps
  <2> QED
    BY <1>5, <2>1, <2>2, <2>3
<1>6. ASSUME NEW p \in Process, RunFails(p) \/ Dies(p) PROVE Goal
  <2>1. UNCHANGED source
    BY <1>6 DEF RunFails, Dies
  <2>2. ASSUME NEW pc \in {"failed", "dead"}, drill' = [drill EXCEPT !.pc = pc] PROVE Goal
    BY <1>0, <1>2, <2>2, DrillTo DEF Steps
  <2> QED
    BY <1>1, <1>6, <2>1, <2>2 DEF RunFails, Dies
<1>7. CASE (\E useB2 \in BOOLEAN, env \in Prefix : Begin(useB2, env)) \/ CountJournal
  <2>1. drill'.pc \in {"count", "countLog"}
    <3>1. ASSUME NEW useB2 \in BOOLEAN, NEW env \in Prefix, Begin(useB2, env) PROVE drill'.pc = "count"
      BY <1>0, <3>1 DEF Begin, DrillShape
    <3>2. ASSUME CountJournal PROVE drill'.pc = "countLog"
      BY <1>0, <3>2 DEF CountJournal, DrillShape
    <3> QED
      BY <1>7, <3>1, <3>2
  <2> QED
    BY <1>2, <2>1
<1>8. CASE CountLog
  <2>1. drill'.pc = "spot" /\ drill'.rows = Len(db.log) /\ source' = db.posted
    <3>1. drill' = [drill EXCEPT !.pc = "spot", !.rows = Len(db.log)] /\ source' = db.posted
      BY <1>8 DEF CountLog
    <3> QED
      BY <1>0, <3>1 DEF DrillShape
  <2> QED
    BY <1>0, <2>1 DEF CountMarks, ScratchMarks, Restored, PassedCounts, Mark
<1>9. CASE SpotCheck
  <2>1. drill'.pc = "backup" /\ Keeps(drill, drill')
    BY <1>0, <1>9, DrillTo DEF SpotCheck, Steps
  <2> QED
    BY <1>3, <1>9, <2>1 DEF SpotCheck, Counted, Keeps
<1>10. CASE DryRun \/ Verify
  BY <1>0, <1>4, <1>10 DEF DryRun, Verify, Matches, Counted, DrillShape
<1>11. CASE DryRunFails \/ RestoreFails
  <2>1. drill' = [drill EXCEPT !.pc = "failed"]
    BY <1>11 DEF DryRunFails, RestoreFails
  <2> QED
    BY <1>0, <1>2, <2>1, DrillTo DEF Steps
<1>12. CASE Latest
  <2>1. ASSUME NEW i \in Created(db), drill' = [drill EXCEPT !.pc = "restore", !.key = db.log[i].key],
               UNCHANGED source
        PROVE  Goal
    <3>1. db.log[i].key \in Time
      BY DEF Shapes, Databases
    <3>2. \A key \in Time : drill' = [drill EXCEPT !.pc = "restore", !.key = key]
                              => drill'.pc = "restore" /\ drill'.rows = drill.rows
      BY <1>0 DEF DrillShape
    <3> QED
      BY <1>3, <1>12, <2>1, <3>1, <3>2 DEF Latest, Counted
  <2> QED
    BY <1>4, <1>12, <2>1 DEF Latest, Counted
<1>13. CASE Restore
  <2>1. drill.key \in Time /\ <<drill.env, drill.key>> \in Prefix \X Time
    BY <1>0, <1>13 DEF Restore, DrillShape
  <2>2. ASSUME bucket[drill.env, drill.key] # None,
               drill' = [drill EXCEPT !.pc = "verify", !.scratch = bucket[drill.env, drill.key]],
               UNCHANGED source
        PROVE  Goal
    <3>1. bucket[drill.env, drill.key] \in Databases /\ Mark(bucket[drill.env, drill.key]) \in BucketMarks
      BY <2>1, <2>2 DEF Shapes, BucketMarks
    <3>2. /\ drill'.pc = "verify" /\ drill'.rows = drill.rows
          /\ drill'.scratch = bucket[drill.env, drill.key]
      BY <1>0, <2>2 DEF DrillShape
    <3> QED
      BY <1>0, <1>13, <2>2, <3>1, <3>2
         DEF Restore, CountMarks, ScratchMarks, Restored, PassedCounts, Counted
  <2> QED
    BY <1>4, <1>13, <2>1, <2>2 DEF Restore, Counted
<1> QED
  BY <1>1, <1>5, <1>6, <1>7, <1>8, <1>9, <1>10, <1>11, <1>12, <1>13
     DEF Next, Draft, Discard, Post, Books, Tick, Upload, Prune, RestoreProduction

(* Two looks that count the same rows see the same postings, until         *)
(* production is restored.                                                 *)
LEMMA NextHistory ==
  ASSUME Shapes, Waits, PassedCounts, HistoryInv, Next, restores' = 0
  PROVE  HistoryInv'
<1>1. Seen' \subseteq Seen \cup {Mark(db')}
  BY BucketMoves, RunMoves, DrillMoves DEF Seen
<1>2. Len(db.log) \in Nat /\ Mark(db).count = Len(db.log) /\ Mark(db).posted = db.posted
      /\ Mark(db').count = Len(db'.log) /\ Mark(db').posted = db'.posted /\ Mark(db) \in Seen
  BY DEF Shapes, Databases, Mark, Seen
<1>3. Len(db'.log) \in Nat /\ Len(db.log) <= Len(db'.log)
  BY <1>2, DbMoves
<1>4. ASSUME NEW m \in Seen' PROVE m.count \in Nat /\ m.count <= Len(db'.log)
  BY <1>1, <1>2, <1>3, <1>4 DEF HistoryInv
<1>5. ASSUME NEW m \in Seen', m.count = Len(db'.log) PROVE m.posted = db'.posted
  <2>1. CASE Len(db'.log) = Len(db.log) + 1
    BY <1>1, <1>2, <1>5, <2>1 DEF HistoryInv
  <2>2. CASE Len(db'.log) = Len(db.log) /\ db'.posted = db.posted
    BY <1>1, <1>2, <1>5, <2>2 DEF HistoryInv
  <2> QED
    BY <2>1, <2>2, DbMoves
<1>6. ASSUME NEW m \in Seen', NEW n \in Seen', m.count = n.count PROVE m.posted = n.posted
  <2>1. CASE m \in Seen /\ n \in Seen
    BY <1>6, <2>1 DEF HistoryInv
  <2>2. CASE m = Mark(db') \/ n = Mark(db')
    BY <1>2, <1>5, <1>6, <2>2
  <2> QED
    BY <1>1, <2>1, <2>2
<1> QED
  BY <1>4, <1>6 DEF HistoryInv

DrillInv == Shapes /\ Waits /\ PassedCounts /\ (restores = 0 => HistoryInv)

(* The invariant holds at the start.                                       *)
LEMMA InitDrill ==
  ASSUME Init
  PROVE  DrillInv
<1>1. Shapes
  BY InitShapes
<1>2. Waits /\ PassedCounts
  BY DEF Init, Waits, PassedCounts, Idle, Process
<1>3. Seen = {Mark(db)}
  <2>1. BucketMarks = {} /\ CountMarks = {} /\ ScratchMarks = {}
    BY DEF Init, BucketMarks, CountMarks, ScratchMarks, Counted, Restored
  <2>2. RunMarks = {}
    BY DEF Init, RunMarks, Idle
  <2> QED
    BY <2>1, <2>2 DEF Seen
<1>4. Mark(db).count = Len(db.log) /\ Len(db.log) \in Nat
  BY <1>1 DEF Mark, Shapes, Databases
<1>5. HistoryInv
  BY <1>3, <1>4 DEF HistoryInv
<1> QED
  BY <1>1, <1>2, <1>5 DEF DrillInv

(* Every step keeps it; a restore of production ends its last part.        *)
LEMMA NextDrill ==
  ASSUME DrillInv, [Next]_vars
  PROVE  DrillInv'
<1>1. CASE UNCHANGED vars
  <2>1. Shapes'
    BY <1>1, NextShapes DEF DrillInv
  <2>2. Seen' = Seen
    BY <1>1 DEF vars, Seen, BucketMarks, RunMarks, CountMarks, ScratchMarks, Restored
  <2>3. (restores = 0 => HistoryInv)'
    BY <1>1, <2>2 DEF vars, DrillInv, HistoryInv
  <2>4. Waits' /\ PassedCounts'
    BY <1>1 DEF vars, DrillInv, Waits, PassedCounts
  <2> QED
    BY <2>1, <2>3, <2>4 DEF DrillInv
<1>2. CASE Next
  <2>1. Shapes' /\ Waits' /\ PassedCounts'
    BY <1>2, NextShapes, NextWaits, DrillMoves DEF DrillInv
  <2>2. restores' = restores \/ restores' = restores + 1
    BY <1>2 DEF Next, Draft, Discard, Post, Books, Tick, Dump, Upload, Prune, Record, RunFails,
       Dies, Begin, CountJournal, CountLog, SpotCheck, DryRun, DryRunFails, Latest, Restore,
       RestoreFails, Verify, Verdict, DrillUnchanged, RestoreProduction
  <2>3. restores' = 0 => restores = 0
    BY <2>2, DrillAssumption DEF DrillInv, Shapes
  <2> QED
    BY <1>2, <2>1, <2>3, NextHistory DEF DrillInv
<1> QED
  BY <1>1, <1>2

(* drill_rollback: equal counts mean equal books.  Whatever is drafted,    *)
(* discarded, posted, uploaded or pruned meanwhile, and whichever backup   *)
(* the drill restores, a passed drill has restored exactly what was posted *)
(* when it counted.                                                        *)
THEOREM PassedIsSame == Spec => []PassedMeansSame
<1>1. ASSUME DrillInv PROVE PassedMeansSame
  <2>1. ASSUME drill.pc = "passed", drill.useB2, restores = 0
        PROVE  drill.scratch.posted = source
    <3> DEFINE counted == [count |-> drill.rows, posted |-> source]
    <3>1. Mark(drill.scratch) \in Seen /\ counted \in Seen
      BY <2>1 DEF Seen, ScratchMarks, CountMarks, Restored, Counted
    <3>2. Mark(drill.scratch).count = counted.count
      BY <1>1, <2>1 DEF DrillInv, PassedCounts, Mark
    <3>3. Mark(drill.scratch).posted = counted.posted
      BY <1>1, <2>1, <3>1, <3>2 DEF DrillInv, HistoryInv
    <3> QED
      BY <3>3 DEF Mark
  <2> QED
    BY <2>1 DEF PassedMeansSame
<1> QED
  BY <1>1, InitDrill, NextDrill, PTL DEF Spec

-----------------------------------------------------------------------------
(* backup_db lists, uploads and prunes under one prefix: what is under a   *)
(* prefix changes only in a step of the run that has it.                   *)
THEOREM RunsKeepApart == Spec => PrefixesApart
<1>1. ASSUME Shapes, [Next]_vars
      PROVE  [\A p \in Process : run'[p] = run[p] =>
                 \A k \in Time : bucket'[PrefixOf(p), k] = bucket[PrefixOf(p), k]]_vars
  <2>1. CASE UNCHANGED bucket
    BY <2>1
  <2>2. ASSUME NEW q \in Process, Upload(q) \/ Prune(q),
               NEW p \in Process, run'[p] = run[p], NEW k \in Time
        PROVE  bucket'[PrefixOf(p), k] = bucket[PrefixOf(p), k]
    <3>1. run[q] \in [pc : {"idle", "upload", "prune", "record"}, key : {run[q].key},
                      dump : {run[q].dump}]
          /\ run = [r \in Process |-> run[r]] /\ DOMAIN bucket = Prefix \X Time
      BY <1>1 DEF Shapes, RunShape
    <3>2. run'[q] # run[q]
      BY <2>2, <3>1 DEF Upload, Prune
    <3>3. PrefixOf(p) # PrefixOf(q) /\ <<PrefixOf(p), k>> \in Prefix \X Time
      BY <2>2, <3>2, DrillAssumption DEF PrefixOf, Process, Prefix
    <3>4. CASE Upload(q)
      BY <3>1, <3>3, <3>4 DEF Upload
    <3>5. CASE Prune(q)
      <4>1. PICK gone \in SUBSET Listed(q) :
              bucket' = [o \in Prefix \X Time |-> IF o \in gone THEN None ELSE bucket[o]]
        BY <3>5 DEF Prune
      <4>2. <<PrefixOf(p), k>> \notin gone
        BY <3>3 DEF Listed
      <4> QED
        BY <3>3, <4>1, <4>2
    <3> QED
      BY <2>2, <3>4, <3>5
  <2> QED
    BY <1>1, <2>1, <2>2 DEF Next, Draft, Discard, Post, Books, Tick, Dump, Record, RunFails,
       Dies, Begin, CountJournal, CountLog, SpotCheck, DryRun, DryRunFails, Latest, Restore,
       RestoreFails, Verify, Verdict, DrillUnchanged, RestoreProduction, vars
<1> QED
  BY <1>1, InitShapes, NextShapes, PTL DEF Spec, PrefixesApart
-----------------------------------------------------------------------------
(* The log and the bucket.  The audit log travels with the database: it is *)
(* dumped, stored and restored, so what holds for production's rows has to *)
(* hold for those of every dump there is.                                  *)

BackupRows(d) == {d.log[i] : i \in Created(d)}
BackupRow(p) == [action |-> "backup_created", key |-> run[p].key, by |-> p]

Stored == {bucket[o] : o \in {o \in Prefix \X Time : bucket[o] # None}}
Running == {run[p].dump : p \in {p \in Process : run[p].pc # "idle"}}
Dumps == Stored \cup Running

RowsIn(d, objects, time) ==
  \A row \in BackupRows(d) :
    /\ row.by \in Process /\ row.key \in Time
    /\ row.key >= time - Recent => objects[<<PrefixOf(row.by), row.key>>] # None
RowsHold == \A d \in Dumps \cup {db} : RowsIn(d, bucket, now)
Uploaded ==
  \A p \in Process : run[p].pc \in {"prune", "record"} => bucket[<<PrefixOf(p), run[p].key>>] # None
LogInv == Shapes /\ RowsHold /\ Uploaded /\ ObjectsAreLogged

(* AuditLog.record adds a row at the end; only one about a backup adds to  *)
(* the index of the bucket.                                                *)
LEMMA LoggedAt ==
  ASSUME NEW d \in Databases,
         NEW action \in {"post_entry", "backup_created", "backup_restored", "drill_passed",
                         "drill_failed"},
         NEW key, NEW by
  PROVE  /\ \A i \in Created(d) : Logged(d, action, key, by).log[i] = d.log[i]
         /\ action # "backup_created" => Created(Logged(d, action, key, by)) = Created(d)
         /\ action = "backup_created" =>
              /\ Created(Logged(d, action, key, by)) = Created(d) \cup {Len(d.log) + 1}
              /\ Logged(d, action, key, by).log[Len(d.log) + 1]
                   = [action |-> action, key |-> key, by |-> by]
<1> DEFINE row == [action |-> action, key |-> key, by |-> by]
           e == Logged(d, action, key, by)
           n == Len(d.log) + 1
<1>1. d.log \in Seq(Rows) /\ e = [d EXCEPT !.log = Append(d.log, row)]
      /\ d \in [drafts : SUBSET Entry, posted : SUBSET Entry, log : Seq(Rows)]
  BY DEF Databases, Logged
<1>2. row.action = action
  OBVIOUS
<1> HIDE DEF row, e
<1>3. e.log = Append(d.log, row)
  BY <1>1
<1>4. /\ Len(d.log) \in Nat /\ Len(e.log) = n /\ e.log[n] = row
      /\ \A i \in 1..Len(d.log) : e.log[i] = d.log[i]
  BY <1>1, <1>3
<1>5. 1..n = 1..Len(d.log) \cup {n} /\ n \notin 1..Len(d.log)
  BY <1>4
<1> HIDE DEF n
<1>6. Created(e) = Created(d) \cup {i \in {n} : action = "backup_created"}
  BY <1>2, <1>4, <1>5 DEF Created
<1>7. \A i \in Created(d) : e.log[i] = d.log[i]
  BY <1>4 DEF Created
<1> QED
  BY <1>4, <1>6, <1>7 DEF e, n, row

(* What is in the index stays in it, as it is.                             *)
IndexKept == Created(db') = Created(db) /\ \A i \in Created(db) : db'.log[i] = db.log[i]

(* Recording a backup puts its row at the end of the index.                *)
LEMMA RecordedAt ==
  ASSUME Shapes, NEW p \in Process, Record(p)
  PROVE  /\ Created(db') = Created(db) \cup {Len(db.log) + 1}
         /\ db'.log[Len(db.log) + 1] = BackupRow(p)
         /\ \A i \in Created(db) : db'.log[i] = db.log[i]
<1>1. db' = Logged(db, "backup_created", run[p].key, p) /\ db \in Databases
  BY DEF Record, Shapes
<1> QED
  BY <1>1, LoggedAt DEF BackupRow

(* The rows about backups change when one is recorded and when production  *)
(* is restored.                                                            *)
LEMMA CreatedMoves ==
  ASSUME Shapes, Next
  PROVE  \/ IndexKept
         \/ \E p \in Process : Record(p)
         \/ \E k \in Time : RestoreProduction(k)
<1>0. db \in Databases
  BY DEF Shapes
<1>1. ASSUME UNCHANGED db PROVE IndexKept
  BY <1>1 DEF IndexKept
<1>2. ASSUME NEW action \in {"backup_restored", "drill_passed", "drill_failed"}, NEW key,
             db' = Logged(db, action, key, "drill")
      PROVE  IndexKept
  BY <1>0, <1>2, LoggedAt DEF IndexKept
<1>3. ASSUME NEW e \in Entry, Draft(e) \/ Discard(e) PROVE IndexKept
  <2>1. db'.log = db.log
    BY <1>0, <1>3 DEF Draft, Discard, Databases
  <2> QED
    BY <2>1 DEF IndexKept, Created
<1>4. ASSUME NEW e \in Entry, Post(e) PROVE IndexKept
  <2> DEFINE d == [db EXCEPT !.drafts = db.drafts \ {e}, !.posted = db.posted \cup {e}]
  <2>1. db' = Logged(d, "post_entry", None, "owner")
    BY <1>4 DEF Post
  <2>2. d \in Databases /\ d.log = db.log
    BY <1>0, <1>4 DEF Databases, Created
  <2>3. Created(d) = Created(db)
    BY <2>2 DEF Created
  <2> HIDE DEF d
  <2> QED
    BY <2>1, <2>2, <2>3, LoggedAt DEF IndexKept
<1>7. ASSUME NEW v, NEW key, Verdict(v, key) PROVE IndexKept
  <2>1. PICK action \in {"drill_passed", "drill_failed"} : db' = Logged(db, action, key, "drill")
    BY <1>7 DEF Verdict
  <2> QED
    BY <1>2, <2>1
<1>8. ASSUME \/ DryRun \/ DryRunFails \/ Latest \/ Restore \/ RestoreFails \/ Verify
             \/ \E p \in Process : RunFails(p)
      PROVE  IndexKept
  BY <1>1, <1>2, <1>7, <1>8
     DEF DryRun, DryRunFails, Latest, Restore, RestoreFails, Verify, RunFails
<1>9. ASSUME \/ Tick \/ CountJournal \/ CountLog \/ SpotCheck
             \/ \E useB2 \in BOOLEAN, env \in Prefix : Begin(useB2, env)
             \/ \E p \in Process : Dump(p) \/ Upload(p) \/ Prune(p) \/ Dies(p)
      PROVE  IndexKept
  BY <1>1, <1>9 DEF Tick, CountJournal, CountLog, SpotCheck, Begin, Dump, Upload, Prune, Dies
<1> QED
  BY <1>3, <1>4, <1>8, <1>9 DEF Next

(* The same for the rows as a set, and what a restore makes of them.       *)
LEMMA RowsMove ==
  ASSUME Shapes, Next
  PROVE  /\ \A p \in Process :
              Record(p) => BackupRows(db') = BackupRows(db) \cup {BackupRow(p)}
         /\ \A k \in Time :
              RestoreProduction(k) => BackupRows(db') = BackupRows(bucket[ProdPrefix, k])
         /\ \/ BackupRows(db') = BackupRows(db)
            \/ \E p \in Process : Record(p)
            \/ \E k \in Time : RestoreProduction(k)
<1>1. ASSUME NEW p \in Process, Record(p)
      PROVE  BackupRows(db') = BackupRows(db) \cup {BackupRow(p)}
  BY <1>1, RecordedAt DEF BackupRows
<1>2. ASSUME NEW k \in Time, RestoreProduction(k)
      PROVE  BackupRows(db') = BackupRows(bucket[ProdPrefix, k])
  <2>1. bucket[ProdPrefix, k] \in Databases
    <3>1. <<ProdPrefix, k>> \in Prefix \X Time
      BY DEF Prefix
    <3> QED
      BY <1>2, <3>1 DEF RestoreProduction, Shapes
  <2>2. db' = Logged(bucket[ProdPrefix, k], "backup_restored", k, "operator")
    BY <1>2 DEF RestoreProduction
  <2>3. ASSUME NEW d \in Databases
        PROVE  BackupRows(Logged(d, "backup_restored", k, "operator")) = BackupRows(d)
    BY LoggedAt DEF BackupRows
  <2> QED
    BY <2>1, <2>2, <2>3
<1>3. ASSUME IndexKept PROVE BackupRows(db') = BackupRows(db)
  BY <1>3 DEF IndexKept, BackupRows
<1> QED
  BY <1>1, <1>2, <1>3, CreatedMoves

(* A new dump is production as it is; nothing else makes one.              *)
LEMMA DumpsMove ==
  ASSUME Shapes, Next
  PROVE  Dumps' \subseteq Dumps \cup {db}
<1>0. Stored \subseteq Dumps /\ Running \subseteq Dumps
  BY DEF Dumps
<1>1. CASE UNCHANGED <<run, bucket>>
  BY <1>1 DEF Dumps, Stored, Running
<1>2. ASSUME NEW p \in Process, Dump(p) \/ Upload(p) \/ Prune(p) \/ Record(p) \/ RunFails(p) \/ Dies(p)
      PROVE  Dumps' \subseteq Dumps \cup {db}
  <2>1. PICK x :
          /\ \/ \E pc \in {"prune", "record"} : run[p].pc # "idle" /\ x = [run[p] EXCEPT !.pc = pc]
             \/ x = Idle(run[p].key)
             \/ x = [pc |-> "upload", key |-> now, dump |-> db]
          /\ run' = [run EXCEPT ![p] = x] /\ now' = now
    BY <1>2 DEF Dump, Upload, Prune, Record, RunFails, Dies
  <2>2. /\ run'[p] = x /\ \A q \in Process \ {p} : run'[q] = run[q]
        /\ x.pc # "idle" => x.dump = run[p].dump \/ x.dump = db
    BY <2>1, RunTo
  <2>3. x.pc # "idle" => x.dump = db \/ (run[p].pc # "idle" /\ x.dump = run[p].dump)
    BY <2>1 DEF Idle, Shapes, RunShape
  <2>4. ASSUME NEW q \in Process, run'[q].pc # "idle" PROVE run'[q].dump \in Dumps \cup {db}
    BY <1>0, <2>2, <2>3, <2>4 DEF Running
  <2>5. ASSUME NEW o \in Prefix \X Time, bucket'[o] # None PROVE bucket'[o] \in Dumps
    <3>1. CASE Upload(p)
      <4>1. bucket'[o] = bucket[o] \/ bucket'[o] = run[p].dump
        BY <3>1 DEF Upload, Shapes
      <4>2. run[p].dump \in Running
        BY <3>1 DEF Upload, Running
      <4> QED
        BY <1>0, <2>5, <4>1, <4>2 DEF Stored
    <3>2. CASE Prune(p)
      <4>1. bucket'[o] = bucket[o]
        BY <2>5, <3>2 DEF Prune
      <4> QED
        BY <1>0, <2>5, <4>1 DEF Stored
    <3>3. CASE UNCHANGED bucket
      BY <1>0, <2>5, <3>3 DEF Stored
    <3> QED
      BY <1>2, <3>1, <3>2, <3>3 DEF Dump, Record, RunFails, Dies
  <2> QED
    BY <2>4, <2>5 DEF Dumps, Stored, Running
<1> QED
  BY <1>1, <1>2 DEF Next, Draft, Discard, Post, Books, Tick,
     Begin, CountJournal, CountLog, SpotCheck, DryRun, DryRunFails, Latest, Restore, RestoreFails,
     Verify, Verdict, DrillUnchanged, RestoreProduction

(* prune: an object that is recent when a run starts is recent to its      *)
(* prune, and an upload puts a dump where it puts anything.                *)
LEMMA ObjectsStay ==
  ASSUME Shapes, Next, NEW o \in Prefix \X Time, bucket[o] # None, o[2] >= now' - Recent
  PROVE  bucket'[o] # None
<1>1. CASE UNCHANGED bucket
  BY <1>1
<1>2. ASSUME NEW p \in Process, Upload(p) PROVE bucket'[o] # None
  <2>1. run[p].dump \in Databases
    BY <1>2 DEF Upload, Shapes, RunShape
  <2>2. run[p].dump # None
    BY <2>1, NoneAssumption DEF Databases
  <2> QED
    BY <1>2, <2>2 DEF Upload, Shapes
<1>3. ASSUME NEW p \in Process, Prune(p) PROVE bucket'[o] # None
  <2>1. PICK gone \in SUBSET {x \in Listed(p) : x[2] < run[p].key - Recent} :
          bucket' = [x \in Prefix \X Time |-> IF x \in gone THEN None ELSE bucket[x]]
    BY <1>3 DEF Prune
  <2>2. now' = now /\ run[p].key \in 0..now /\ now \in Nat /\ Recent \in Nat /\ o[2] \in Nat
    BY <1>3, DrillAssumption DEF Prune, Shapes, RunShape, Time
  <2>3. o \notin gone
    <3>1. ASSUME o \in gone PROVE FALSE
      <4>1. o[2] < run[p].key - Recent
        BY <2>1, <3>1
      <4> QED
        BY <2>2, <4>1
    <3> QED
      BY <3>1
  <2> QED
    BY <2>1, <2>3
<1> QED
  BY <1>1, <1>2, <1>3 DEF Next, Draft, Discard, Post, Books, Tick, Dump, Record, RunFails, Dies,
     Begin, CountJournal, CountLog, SpotCheck, DryRun, DryRunFails, Latest, Restore, RestoreFails,
     Verify, Verdict, DrillUnchanged, RestoreProduction

(* Rows that named objects go on naming them while time passes.            *)
LEMMA RowsStay ==
  ASSUME Shapes, Next, NEW d, RowsIn(d, bucket, now)
  PROVE  RowsIn(d, bucket', now')
<1>1. now \in Nat /\ now' \in Nat /\ now <= now' /\ Recent \in Nat
  <2>1. now \in Nat /\ Recent \in Nat
    BY DrillAssumption DEF Shapes, Time
  <2>2. now' = now \/ now' = now + 1
    BY DEF Next, Draft, Discard, Post, Books, Tick, Dump, Upload, Prune, Record, RunFails,
       Dies, Begin, CountJournal, CountLog, SpotCheck, DryRun, DryRunFails, Latest, Restore,
       RestoreFails, Verify, Verdict, DrillUnchanged, RestoreProduction
  <2> QED
    BY <2>1, <2>2
<1>2. ASSUME NEW row \in BackupRows(d)
      PROVE  /\ row.by \in Process /\ row.key \in Time
             /\ row.key >= now' - Recent => bucket'[<<PrefixOf(row.by), row.key>>] # None
  <2> DEFINE o == <<PrefixOf(row.by), row.key>>
  <2>1. /\ row.by \in Process /\ row.key \in Time
        /\ row.key >= now - Recent => bucket[o] # None
    BY DEF RowsIn
  <2>2. row.key \in Nat /\ o \in Prefix \X Time /\ o[2] = row.key
    BY <2>1, DrillAssumption DEF Time, PrefixOf, Prefix
  <2>3. ASSUME row.key >= now' - Recent PROVE bucket'[o] # None
    <3>1. row.key >= now - Recent
      BY <1>1, <2>2, <2>3
    <3> QED
      BY <2>1, <2>2, <2>3, <3>1, ObjectsStay
  <2> QED
    BY <2>1, <2>3
<1> QED
  BY <1>2 DEF RowsIn

(* A run that has uploaded has its object, its own prune included.         *)
LEMMA NextUploaded ==
  ASSUME Shapes, Uploaded, Next
  PROVE  Uploaded'
<1>1. ASSUME NEW p \in Process, run'[p].pc \in {"prune", "record"}
      PROVE  bucket'[<<PrefixOf(p), run'[p].key>>] # None
  <2>1. CASE Upload(p)
    <3>1. run[p].dump \in Databases /\ <<PrefixOf(p), run[p].key>> \in Prefix \X Time
      BY <2>1, DrillAssumption DEF Upload, Shapes, RunShape, PrefixOf, Prefix, Time
    <3>2. run[p].dump # None
      BY <3>1, NoneAssumption DEF Databases
    <3>3. run'[p].key = run[p].key
      BY <2>1 DEF Upload, Shapes, RunShape
    <3> QED
      BY <2>1, <3>1, <3>2, <3>3 DEF Upload, Shapes
  <2>2. ASSUME run[p].pc \in {"prune", "record"}, run'[p].key = run[p].key
        PROVE  bucket'[<<PrefixOf(p), run'[p].key>>] # None
    <3> DEFINE o == <<PrefixOf(p), run[p].key>>
    <3>1. o \in Prefix \X Time /\ bucket[o] # None /\ run[p].key \in Nat /\ run[p].key <= now
      BY <2>2, DrillAssumption DEF Uploaded, Shapes, RunShape, PrefixOf, Prefix, Time
    <3>2. CASE UNCHANGED bucket
      BY <2>2, <3>1, <3>2
    <3>3. ASSUME NEW q \in Process, Upload(q) PROVE bucket'[o] # None
      <4>1. run[q].dump \in Databases
        BY <3>3 DEF Upload, Shapes, RunShape
      <4>2. run[q].dump # None
        BY <4>1, NoneAssumption DEF Databases
      <4> QED
        BY <3>1, <3>3, <4>2 DEF Upload, Shapes
    <3>4. ASSUME NEW q \in Process, Prune(q) PROVE bucket'[o] # None
      <4>1. PICK gone \in SUBSET {x \in Listed(q) : x[2] < run[q].key - Recent} :
              bucket' = [x \in Prefix \X Time |-> IF x \in gone THEN None ELSE bucket[x]]
        BY <3>4 DEF Prune
      <4>2. CASE q # p
        <5>1. PrefixOf(p) # PrefixOf(q)
          BY <4>2, DrillAssumption DEF PrefixOf, Process
        <5>2. o \notin gone
          BY <4>1, <5>1 DEF Listed
        <5> QED
          BY <3>1, <4>1, <5>2
      <4>3. CASE q = p
        <5>1. Recent \in Nat /\ o[2] = run[p].key
          BY DrillAssumption
        <5>2. \A x \in gone : x[2] < run[p].key - Recent
          BY <4>1, <4>3
        <5>3. o \notin gone
          BY <3>1, <5>1, <5>2
        <5> QED
          BY <3>1, <4>1, <5>3
      <4> QED
        BY <4>2, <4>3
    <3> QED
      BY <2>2, <3>2, <3>3, <3>4 DEF Next, Draft, Discard, Post, Books, Tick, Dump, Record,
         RunFails, Dies, Begin, CountJournal, CountLog, SpotCheck, DryRun, DryRunFails, Latest,
         Restore, RestoreFails, Verify, Verdict, DrillUnchanged, RestoreProduction
  <2>3. Upload(p) \/ (run[p].pc \in {"prune", "record"} /\ run'[p].key = run[p].key)
    <3>1. CASE UNCHANGED run
      BY <1>1, <3>1
    <3>2. ASSUME NEW q \in Process, Dump(q) \/ Record(q) \/ RunFails(q) \/ Dies(q)
          PROVE  run'[p] = run[p]
      <4>1. run'[q].pc \in {"idle", "upload"} /\ \A r \in Process \ {q} : run'[r] = run[r]
        BY <3>2 DEF Dump, Record, RunFails, Dies, Idle, Shapes
      <4> QED
        BY <1>1, <4>1
    <3>3. ASSUME NEW q \in Process, Upload(q) \/ Prune(q), q # p PROVE run'[p] = run[p]
      BY <3>3 DEF Upload, Prune, Shapes
    <3>4. ASSUME Prune(p) PROVE run[p].pc = "prune" /\ run'[p].key = run[p].key
      BY <3>4 DEF Prune, Shapes, RunShape
    <3> QED
      BY <1>1, <3>1, <3>2, <3>3, <3>4 DEF Next, Draft, Discard, Post, Books, Tick,
         Begin, CountJournal, CountLog, SpotCheck, DryRun, DryRunFails, Latest, Restore,
         RestoreFails, Verify, Verdict, DrillUnchanged, RestoreProduction
  <2> QED
    BY <2>1, <2>2, <2>3
<1> QED
  BY <1>1 DEF Uploaded

(* Whatever dump a row is read from, the object it names is there while it *)
(* is recent.                                                              *)
LEMMA NextRows ==
  ASSUME Shapes, RowsHold, Uploaded, Next
  PROVE  RowsHold'
<1>1. ASSUME NEW d \in Dumps \cup {db} PROVE RowsIn(d, bucket', now')
  <2>1. RowsIn(d, bucket, now)
    BY DEF RowsHold
  <2> QED
    BY <2>1, RowsStay
<1>2. ASSUME NEW d, BackupRows(db') = BackupRows(d), RowsIn(d, bucket', now')
      PROVE  RowsIn(db', bucket', now')
  BY <1>2 DEF RowsIn
<1>3. RowsIn(db', bucket', now')
  <2>1. CASE BackupRows(db') = BackupRows(db)
    BY <1>1, <1>2, <2>1
  <2>2. ASSUME NEW p \in Process, Record(p), BackupRows(db') = BackupRows(db) \cup {BackupRow(p)}
        PROVE  RowsIn(db', bucket', now')
    <3>1. RowsIn(db, bucket', now') /\ bucket' = bucket
      BY <1>1, <2>2 DEF Record
    <3>2. BackupRow(p).by = p /\ BackupRow(p).key = run[p].key
      BY DEF BackupRow
    <3>3. run[p].key \in Time /\ bucket[<<PrefixOf(p), run[p].key>>] # None
      BY <2>2, DrillAssumption DEF Record, Uploaded, Shapes, RunShape, Time
    <3>4. \A row \in BackupRows(db') : row \in BackupRows(db) \/ row = BackupRow(p)
      BY <2>2
    <3> QED
      BY <3>1, <3>2, <3>3, <3>4 DEF RowsIn
  <2>3. ASSUME NEW k \in Time, RestoreProduction(k),
               BackupRows(db') = BackupRows(bucket[ProdPrefix, k])
        PROVE  RowsIn(db', bucket', now')
    <3> DEFINE o == <<ProdPrefix, k>>
    <3>1. o \in Prefix \X Time
      BY DEF Prefix
    <3>2. bucket[o] \in Dumps
      BY <2>3, <3>1 DEF RestoreProduction, Dumps, Stored
    <3>3. BackupRows(db') = BackupRows(bucket[o])
      BY <2>3
    <3> QED
      BY <1>1, <1>2, <3>2, <3>3
  <2> QED
    BY <2>1, <2>2, <2>3, RowsMove
<1>4. ASSUME NEW d \in Dumps' \cup {db'} PROVE RowsIn(d, bucket', now')
  BY <1>1, <1>3, DumpsMove
<1> QED
  BY <1>4 DEF RowsHold

(* What accounts for an object of p's, by the rows and the runs.           *)
Accounted(o, p) ==
  \/ \E row \in BackupRows(db) : row.by = p /\ row.key = o[2]
  \/ run[p].pc \in {"prune", "record"} /\ run[p].key = o[2]
  \/ o \in orphans

(* The same in the words of the property.                                  *)
LEMMA AccountedIs ==
  ObjectsAreLogged <=> \A p \in Process : \A o \in Listed(p) : Accounted(o, p)
<1>1. ASSUME NEW o, NEW p
      PROVE  (\E row \in BackupRows(db) : row.by = p /\ row.key = o[2])
               <=> \E i \in Created(db) : db.log[i].by = p /\ db.log[i].key = o[2]
  BY DEF BackupRows
<1> QED
  BY <1>1 DEF ObjectsAreLogged, Accounted

(* A run's object is accounted for by the run, then by its row; by nothing *)
(* if the run dies in between or a restore takes the row.                  *)
LEMMA NextAccounted ==
  ASSUME Shapes, Next, NEW p \in Process, NEW o \in Listed(p)', o \in Listed(p) => Accounted(o, p)
  PROVE  Accounted(o, p)'
<1>B. o \in {PrefixOf(p)} \X Time /\ o \in Prefix \X Time /\ bucket'[o] # None
  BY DEF Listed, PrefixOf, Prefix
<1>A. ASSUME NEW q \in Process
       PROVE  run[q] \in [pc : {"idle", "upload", "prune", "record"}, key : {run[q].key},
                          dump : {run[q].dump}] /\ run = [r \in Process |-> run[r]]
  BY DEF Shapes, RunShape
<1>1. ASSUME UNCHANGED bucket PROVE Accounted(o, p)
  BY <1>B, <1>1 DEF Listed
<1>2. CASE UNCHANGED <<bucket, run, orphans>> /\ BackupRows(db') = BackupRows(db)
  BY <1>1, <1>2 DEF Accounted
<1>3. ASSUME NEW q \in Process, Upload(q), BackupRows(db') = BackupRows(db) PROVE Accounted(o, p)'
  <2>1. run'[q].pc = "prune" /\ run'[q].key = run[q].key /\ \A r \in Process \ {q} : run'[r] = run[r]
    BY <1>A, <1>3 DEF Upload
  <2>2. orphans' = orphans /\ run[q].pc = "upload"
    BY <1>3 DEF Upload
  <2>3. CASE o = <<PrefixOf(q), run[q].key>>
    <3>1. p = q /\ o[2] = run[q].key
      BY <1>B, <2>3, DrillAssumption DEF PrefixOf, Process
    <3> QED
      BY <2>1, <3>1 DEF Accounted
  <2>4. CASE o # <<PrefixOf(q), run[q].key>>
    <3>1. bucket'[o] = bucket[o]
      BY <1>B, <1>3, <2>4 DEF Upload, Shapes
    <3>2. Accounted(o, p)
      BY <1>B, <3>1 DEF Listed
    <3> QED
      BY <1>3, <2>1, <2>2, <3>2 DEF Accounted
  <2> QED
    BY <2>3, <2>4
<1>4. ASSUME NEW q \in Process, Prune(q), BackupRows(db') = BackupRows(db) PROVE Accounted(o, p)'
  <2>1. run'[q].pc = "record" /\ run'[q].key = run[q].key /\ \A r \in Process \ {q} : run'[r] = run[r]
    BY <1>A, <1>4 DEF Prune
  <2>2. orphans' = orphans /\ bucket'[o] = bucket[o]
    BY <1>B, <1>4 DEF Prune
  <2>3. Accounted(o, p)
    BY <1>B, <2>2 DEF Listed
  <2> QED
    BY <1>4, <2>1, <2>2, <2>3 DEF Accounted
<1>5. ASSUME NEW q \in Process, Dump(q) \/ RunFails(q), BackupRows(db') = BackupRows(db)
      PROVE  Accounted(o, p)'
  <2>1. /\ run[q].pc \notin {"prune", "record"} /\ \A r \in Process \ {q} : run'[r] = run[r]
        /\ orphans' = orphans /\ bucket' = bucket
    BY <1>A, <1>5 DEF Dump, RunFails
  <2>2. Accounted(o, p)
    BY <1>1, <2>1
  <2> QED
    BY <1>5, <2>1, <2>2 DEF Accounted
<1>6. ASSUME NEW q \in Process, Dies(q), BackupRows(db') = BackupRows(db) PROVE Accounted(o, p)'
  <2>1. /\ \A r \in Process \ {q} : run'[r] = run[r]
        /\ bucket' = bucket /\ orphans \subseteq orphans'
        /\ run[q].pc \in {"prune", "record"} => <<PrefixOf(q), run[q].key>> \in orphans'
    BY <1>A, <1>6 DEF Dies
  <2>2. Accounted(o, p)
    BY <1>1, <2>1
  <2>3. ASSUME p = q, run[q].pc \in {"prune", "record"}, run[q].key = o[2] PROVE o \in orphans'
    BY <1>B, <2>1, <2>3
  <2> QED
    BY <1>6, <2>1, <2>2, <2>3 DEF Accounted
<1>7. ASSUME NEW q \in Process, Record(q) PROVE Accounted(o, p)'
  <2>0. BackupRows(db') = BackupRows(db) \cup {BackupRow(q)}
    BY <1>7, RowsMove
  <2>1. /\ \A r \in Process \ {q} : run'[r] = run[r]
        /\ bucket' = bucket /\ orphans' = orphans
    BY <1>A, <1>7 DEF Record
  <2>2. Accounted(o, p)
    BY <1>1, <2>1
  <2>3. BackupRow(q).by = q /\ BackupRow(q).key = run[q].key /\ BackupRow(q) \in BackupRows(db')
    BY <2>0 DEF BackupRow
  <2> QED
    BY <2>0, <2>1, <2>2, <2>3 DEF Accounted
<1>8. ASSUME NEW k \in Time, RestoreProduction(k) PROVE Accounted(o, p)'
  <2>0. BackupRows(db') = BackupRows(bucket[ProdPrefix, k])
    BY <1>8, RowsMove
  <2>1. UNCHANGED <<bucket, run>>
    BY <1>8 DEF RestoreProduction
  <2>2. orphans' = orphans \cup {<<PrefixOf(row.by), row.key>> : row \in BackupRows(db) \ BackupRows(db')}
    BY <1>8, <2>0 DEF RestoreProduction, BackupRows
  <2>3. Accounted(o, p)
    BY <1>1, <2>1
  <2>4. ASSUME NEW row \in BackupRows(db), row.by = p, row.key = o[2], row \notin BackupRows(db')
        PROVE  o \in orphans'
    <3>1. o = <<PrefixOf(row.by), row.key>>
      BY <1>B, <2>4
    <3> QED
      BY <2>2, <2>4, <3>1
  <2> QED
    BY <2>1, <2>2, <2>3, <2>4 DEF Accounted
<1>9. CASE BackupRows(db') = BackupRows(db) /\ ~UNCHANGED <<bucket, run, orphans>>
  <2>1. \/ \E q \in Process : Dump(q) \/ Upload(q) \/ Prune(q) \/ Record(q) \/ RunFails(q) \/ Dies(q)
        \/ \E k \in Time : RestoreProduction(k)
    BY <1>9 DEF Next, Draft, Discard, Post, Books, Tick, Begin, CountJournal, CountLog, SpotCheck,
       DryRun, DryRunFails, Latest, Restore, RestoreFails, Verify, Verdict, DrillUnchanged
  <2> QED
    BY <1>3, <1>4, <1>5, <1>6, <1>7, <1>8, <1>9, <2>1
<1> QED
  BY <1>2, <1>7, <1>8, <1>9, RowsMove

(* The invariant holds at the start.                                       *)
LEMMA InitLog ==
  ASSUME Init
  PROVE  LogInv
<1>1. Shapes
  BY InitShapes
<1>2. Dumps = {} /\ \A p \in Process : Listed(p) = {}
  <2>1. \A o \in Prefix \X Time : bucket[o] = None
    BY DEF Init
  <2>2. \A p \in Process : run[p].pc = "idle" /\ {PrefixOf(p)} \X Time \subseteq Prefix \X Time
    BY DEF Init, Idle, PrefixOf, Prefix
  <2> QED
    BY <2>1, <2>2 DEF Dumps, Stored, Running, Listed
<1>3. BackupRows(db) = {}
  <2>1. Cardinality(Opening) \in Nat
    BY DrillAssumption, FS_CardinalityType
  <2>2. \A i \in 1..Len(db.log) : db.log[i].action = "post_entry"
    BY <2>1 DEF Init
  <2> QED
    BY <2>2 DEF BackupRows, Created
<1>4. RowsHold /\ ObjectsAreLogged
  BY <1>2, <1>3 DEF RowsHold, RowsIn, ObjectsAreLogged
<1>5. Uploaded
  BY DEF Init, Uploaded, Idle
<1> QED
  BY <1>1, <1>4, <1>5 DEF LogInv

(* Every step keeps it.                                                    *)
LEMMA NextLog ==
  ASSUME LogInv, [Next]_vars
  PROVE  LogInv'
<1>1. Shapes'
  BY NextShapes DEF LogInv
<1>2. CASE Next
  <2>1. \A p \in Process : \A o \in Listed(p) : Accounted(o, p)
    BY AccountedIs DEF LogInv
  <2>2. \A p \in Process : \A o \in Listed(p)' : Accounted(o, p)'
    BY <1>2, <2>1, NextAccounted DEF LogInv
  <2>3. ObjectsAreLogged'
    <3>1. (ObjectsAreLogged <=> \A p \in Process : \A o \in Listed(p) : Accounted(o, p))'
      BY AccountedIs, PTL
    <3> QED
      BY <2>2, <3>1
  <2> QED
    BY <1>1, <1>2, <2>3, NextRows, NextUploaded DEF LogInv
<1>3. CASE UNCHANGED vars
  <2>1. Dumps' = Dumps /\ \A p \in Process : Listed(p)' = Listed(p)
    BY <1>3 DEF vars, Dumps, Stored, Running, Listed
  <2>2. RowsHold'
    BY <1>3, <2>1 DEF LogInv, RowsHold, vars
  <2>3. ObjectsAreLogged' /\ Uploaded'
    BY <1>3, <2>1 DEF LogInv, ObjectsAreLogged, Created, Uploaded, vars
  <2> QED
    BY <1>1, <2>2, <2>3 DEF LogInv
<1> QED
  BY <1>2, <1>3

(* backup_db, restore_db, drill_rollback: the audit log is the index of    *)
(* the bucket.  Every recent row about a backup names an object that is    *)
(* there, and every object is accounted for by a row, by its run or by     *)
(* what has taken its row away, whatever is pruned, dies or is restored.   *)
THEOREM LogIsTheIndex == Spec => []LogMatchesBucket
<1>1. ASSUME LogInv PROVE LogMatchesBucket
  <2>1. RowsIn(db, bucket, now)
    BY <1>1 DEF LogInv, RowsHold
  <2>2. \A i \in Created(db) : db.log[i] \in BackupRows(db)
    BY DEF BackupRows
  <2>3. RowsNameObjects
    BY <2>1, <2>2 DEF RowsNameObjects, RowsIn
  <2> QED
    BY <1>1, <2>3 DEF LogInv, LogMatchesBucket
<1> QED
  BY <1>1, InitLog, NextLog, PTL DEF Spec

-----------------------------------------------------------------------------
(* The quiet drill.  Its run's row is the newest, its object is the one    *)
(* that row names, and both spot checks add up the same entries.           *)

Before == {"idle", "count", "countLog", "spot", "backup", "wait"}
After == {"latest", "restore", "verify"}
OwnObject == <<DrillPrefix, run["drill"].key>>
OnlyOwn == \A i \in Created(db) : i > drill.rows => db.log[i].by = "drill"
SpotAs(d) == Len(d.log) = drill.rows => drill.spot = SpotSource(d)

OwnRow ==
  /\ drill.pc \in Before => \A i \in Created(db) : db.log[i].by # "drill"
  /\ drill.pc \in After =>
       /\ \A i \in Created(db) : db.log[i].by = "drill" => db.log[i].key = run["drill"].key
       /\ \E i \in Created(db) : i > drill.rows /\ db.log[i].by = "drill"

OwnBackup ==
  /\ run["drill"].pc \in {"prune", "record"} => bucket[OwnObject] = run["drill"].dump
  /\ drill.pc \in After => /\ run["drill"].key \in Time /\ drill.made \in Databases
                           /\ bucket[OwnObject] = drill.made

OwnCheck ==
  /\ drill.pc \in {"backup", "wait"} => SpotAs(db)
  /\ run["drill"].pc # "idle" => SpotAs(run["drill"].dump)
  /\ drill.pc \in After => SpotAs(drill.made)

OwnFound ==
  /\ drill.pc = "restore" /\ OnlyOwn => drill.key = run["drill"].key
  /\ drill.pc = "verify" /\ OnlyOwn /\ drill.env = DrillPrefix => drill.scratch = drill.made

Quiet == OwnRow /\ OwnBackup /\ OwnCheck /\ OwnFound /\ QuietDrillPasses
QuietInv == DrillInv /\ (faults = 0 /\ restores = 0 => Quiet)

(* What is assumed of every step below: nothing breaks in it, and the      *)
(* invariant holds before it.                                              *)
QuietStep == /\ DrillInv /\ Quiet /\ Next
             /\ faults = 0 /\ restores = 0 /\ faults' = 0 /\ restores' = 0

(* What the drill has counted is not more than what there is.              *)
LEMMA CountsBelow ==
  ASSUME DrillInv, restores = 0, drill.pc \in Counted
  PROVE  drill.rows \in Nat /\ drill.rows <= Len(db.log) /\ Len(db.log) \in Nat
<1> DEFINE counted == [count |-> drill.rows, posted |-> source]
<1>1. counted \in Seen /\ counted.count = drill.rows
  BY DEF Seen, CountMarks
<1> HIDE DEF counted
<1>2. counted.count \in Nat /\ counted.count <= Len(db.log)
  BY <1>1 DEF DrillInv, HistoryInv
<1>3. Len(db.log) \in Nat
  BY DEF DrillInv, Shapes, Databases
<1> QED
  BY <1>1, <1>2, <1>3

(* The spot check of production's own balance stays true of production as  *)
(* long as the log does not grow.                                          *)
LEMMA SpotStays ==
  ASSUME QuietStep, drill.pc \in {"backup", "wait"}, SpotAs(db),
         drill'.rows = drill.rows, drill'.spot = drill.spot
  PROVE  SpotAs(db)'
<1>1. drill.rows \in Nat /\ drill.rows <= Len(db.log) /\ Len(db.log) \in Nat
  BY CountsBelow DEF QuietStep, Counted
<1>2. CASE Len(db'.log) = Len(db.log) + 1
  BY <1>1, <1>2 DEF SpotAs
<1>3. CASE Len(db'.log) = Len(db.log) /\ db'.posted = db.posted
  <2>1. SpotSource(db') = SpotSource(db)
    BY <1>3 DEF SpotSource, OnSpot
  <2> QED
    BY <1>3, <2>1 DEF SpotAs
<1> QED
  BY <1>2, <1>3, DbMoves DEF QuietStep, DrillInv

(* A step that leaves the runs alone leaves the index alone.               *)
LEMMA IndexStays ==
  ASSUME QuietStep, UNCHANGED run
  PROVE  IndexKept
<1>1. ASSUME NEW p \in Process, Record(p) PROVE FALSE
  BY <1>1 DEF QuietStep, DrillInv, Record, Shapes, Idle
<1>2. ASSUME NEW k \in Time, RestoreProduction(k) PROVE FALSE
  <2>1. restores' = restores + 1
    BY <1>2 DEF RestoreProduction
  <2> QED
    BY <2>1 DEF QuietStep
<1> QED
  BY <1>1, <1>2, CreatedMoves DEF QuietStep, DrillInv

(* The owner at work, the clock and the nightly run: nothing of the        *)
(* drill's changes, and a row that comes in between is not its own.        *)
LEMMA OthersQuiet ==
  ASSUME QuietStep, drill' = drill, run'["drill"] = run["drill"],
         \A k \in Time : bucket'[<<DrillPrefix, k>>] = bucket[<<DrillPrefix, k>>]
  PROVE  Quiet'
<1>0. OwnRow /\ OwnBackup /\ OwnCheck /\ OwnFound /\ QuietDrillPasses
  BY DEF QuietStep, Quiet
<1>1. /\ \A i \in Created(db) : i \in Created(db') /\ db'.log[i] = db.log[i]
      /\ \A i \in Created(db') : i \in Created(db) \/ db'.log[i].by # "drill"
  <2>1. ASSUME NEW p \in Process, Record(p) PROVE p # "drill"
    BY <2>1 DEF QuietStep, DrillInv, Record, Shapes, Idle
  <2>2. ASSUME NEW p \in Process, Record(p)
        PROVE  /\ \A i \in Created(db) : i \in Created(db') /\ db'.log[i] = db.log[i]
               /\ \A i \in Created(db') : i \in Created(db) \/ db'.log[i].by # "drill"
    <3>1. BackupRow(p).by # "drill"
      BY <2>1, <2>2 DEF BackupRow
    <3> QED
      BY <2>2, <3>1, RecordedAt DEF QuietStep, DrillInv
  <2>3. ASSUME NEW k \in Time, RestoreProduction(k) PROVE FALSE
    <3>1. restores' = restores + 1
      BY <2>3 DEF RestoreProduction
    <3> QED
      BY <3>1 DEF QuietStep
  <2> QED
    BY <2>2, <2>3, CreatedMoves DEF QuietStep, DrillInv, IndexKept
<1>2. OwnRow'
  BY <1>0, <1>1 DEF OwnRow
<1>3. OwnBackup'
  <2>1. run["drill"].pc \in {"prune", "record"} => run["drill"].key \in Time
    BY DrillAssumption DEF QuietStep, DrillInv, Shapes, RunShape, Time, Process
  <2> QED
    BY <1>0, <2>1 DEF OwnBackup, OwnObject
<1>4. OwnCheck'
  BY <1>0, SpotStays DEF OwnCheck, SpotAs
<1>5. OnlyOwn' => OnlyOwn
  BY <1>1 DEF OnlyOwn
<1>6. OwnFound'
  BY <1>0, <1>5 DEF OwnFound
<1>7. QuietDrillPasses'
  BY <1>0, <1>5 DEF QuietDrillPasses, Undisturbed, OnlyOwn, QuietStep
<1> QED
  BY <1>2, <1>3, <1>4, <1>6, <1>7 DEF Quiet

(* The drill's own run of backup_db puts its dump where its row says.      *)
LEMMA OwnRunQuiet ==
  ASSUME QuietStep, Dump("drill") \/ Upload("drill") \/ Prune("drill") \/ Record("drill")
  PROVE  Quiet'
<1>0. /\ OwnRow /\ OwnBackup /\ OwnCheck
      /\ DrillShape(drill) /\ Shapes /\ "drill" \in Process /\ PrefixOf("drill") = DrillPrefix
      /\ run = [p \in Process |-> run[p]] /\ RunShape(run["drill"], now) /\ now \in Time
      /\ bucket \in [Prefix \X Time -> Databases \cup {None}]
  BY DEF QuietStep, Quiet, DrillInv, Shapes, Process, PrefixOf
<1>1. CASE Dump("drill")
  <2>1. /\ drill' = [drill EXCEPT !.pc = "wait"] /\ drill.pc = "backup" /\ UNCHANGED <<db, bucket>>
        /\ run' = [run EXCEPT !["drill"] = [pc |-> "upload", key |-> now, dump |-> db]]
    BY <1>1 DEF Dump
  <2>2. drill'.pc = "wait" /\ drill'.rows = drill.rows /\ drill'.spot = drill.spot
    BY <1>0, <2>1 DEF DrillShape
  <2>3. run'["drill"].pc = "upload" /\ run'["drill"].dump = db
    BY <1>0, <2>1
  <2>4. OwnRow'
    BY <1>0, <2>1, <2>2 DEF OwnRow, Before, After
  <2>5. OwnBackup' /\ OwnFound' /\ QuietDrillPasses'
    BY <2>2, <2>3 DEF OwnBackup, OwnFound, QuietDrillPasses, After
  <2>6. OwnCheck'
    BY <1>0, <2>1, <2>2, <2>3 DEF OwnCheck, SpotAs, After
  <2> QED
    BY <2>4, <2>5, <2>6 DEF Quiet
<1>2. ASSUME Upload("drill") \/ Prune("drill"),
             bucket'[OwnObject] = run["drill"].dump
      PROVE  Quiet'
  <2>1. /\ drill' = drill /\ UNCHANGED db /\ run["drill"].pc # "idle"
        /\ run'["drill"].pc \in {"prune", "record"}
        /\ run'["drill"].key = run["drill"].key /\ run'["drill"].dump = run["drill"].dump
    BY <1>0, <1>2 DEF Upload, Prune, RunShape
  <2>2. drill.pc = "wait"
    BY <2>1 DEF QuietStep, DrillInv, Waits
  <2>3. OwnRow'
    BY <1>0, <2>1, <2>2 DEF OwnRow, Before, After
  <2>4. OwnBackup' /\ OwnFound' /\ QuietDrillPasses'
    BY <1>2, <2>1, <2>2 DEF OwnBackup, OwnFound, QuietDrillPasses, After, OwnObject
  <2>5. OwnCheck'
    BY <1>0, <2>1, <2>2 DEF OwnCheck, SpotAs, After
  <2> QED
    BY <2>3, <2>4, <2>5 DEF Quiet
<1>3. run["drill"].pc # "idle" => OwnObject \in Prefix \X Time
  BY <1>0, DrillAssumption DEF RunShape, OwnObject, Prefix, Time
<1>4. CASE Upload("drill")
  <2>1. bucket'[OwnObject] = run["drill"].dump
    BY <1>0, <1>3, <1>4 DEF Upload, OwnObject
  <2> QED
    BY <1>2, <1>4, <2>1
<1>5. CASE Prune("drill")
  <2>1. PICK gone \in SUBSET {x \in Listed("drill") : x[2] < run["drill"].key - Recent} :
          bucket' = [x \in Prefix \X Time |-> IF x \in gone THEN None ELSE bucket[x]]
    BY <1>5 DEF Prune
  <2>2. run["drill"].pc = "prune"
    BY <1>5 DEF Prune
  <2>3. run["drill"].key \in Nat /\ Recent \in Nat /\ OwnObject[2] = run["drill"].key
    BY <1>0, <2>2, DrillAssumption DEF RunShape, Time, OwnObject
  <2>4. OwnObject \notin gone
    <3>1. ASSUME OwnObject \in gone PROVE FALSE
      <4>1. OwnObject[2] < run["drill"].key - Recent
        BY <2>1, <3>1
      <4> QED
        BY <2>3, <4>1
    <3> QED
      BY <3>1
  <2>5. bucket'[OwnObject] = run["drill"].dump
    BY <1>0, <1>3, <2>1, <2>2, <2>4 DEF OwnBackup
  <2> QED
    BY <1>2, <1>5, <2>5
<1>6. CASE Record("drill")
  <2>1. /\ drill' = [drill EXCEPT !.pc = "latest", !.made = run["drill"].dump]
        /\ run' = [run EXCEPT !["drill"] = Idle(run["drill"].key)]
        /\ run["drill"].pc = "record" /\ UNCHANGED bucket
    BY <1>6 DEF Record
  <2>2. drill.pc = "wait"
    BY <2>1 DEF QuietStep, DrillInv, Waits
  <2>3. /\ drill'.pc = "latest" /\ drill'.rows = drill.rows /\ drill'.spot = drill.spot
        /\ drill'.made = run["drill"].dump
    BY <1>0, <2>1 DEF DrillShape
  <2>4. run'["drill"].pc = "idle" /\ run'["drill"].key = run["drill"].key
    BY <1>0, <2>1 DEF Idle
  <2>5. OwnRow'
    <3> DEFINE n == Len(db.log) + 1
    <3>1. n > drill.rows
      BY <2>2, CountsBelow DEF QuietStep, Counted
    <3>2. BackupRow("drill").by = "drill" /\ BackupRow("drill").key = run["drill"].key
      BY DEF BackupRow
    <3>3. /\ Created(db') = Created(db) \cup {n} /\ db'.log[n] = BackupRow("drill")
          /\ \A i \in Created(db) : db'.log[i] = db.log[i]
      BY <1>0, <1>6, RecordedAt
    <3>4. \A i \in Created(db) : db.log[i].by # "drill"
      BY <1>0, <2>2 DEF OwnRow, Before
    <3> HIDE DEF n
    <3> QED
      BY <2>3, <2>4, <3>1, <3>2, <3>3, <3>4 DEF OwnRow, Before, After
  <2>6. OwnBackup'
    <3>1. run["drill"].key \in Time /\ run["drill"].dump \in Databases
      BY <1>0, <2>1, DrillAssumption DEF RunShape, Time
    <3> QED
      BY <1>0, <2>1, <2>3, <2>4, <3>1 DEF OwnBackup, OwnObject
  <2>7. OwnCheck'
    BY <1>0, <2>1, <2>3, <2>4 DEF OwnCheck, SpotAs
  <2>8. OwnFound' /\ QuietDrillPasses'
    BY <2>3 DEF OwnFound, QuietDrillPasses
  <2> QED
    BY <2>5, <2>6, <2>7, <2>8 DEF Quiet
<1> QED
  BY <1>1, <1>4, <1>5, <1>6

(* The counts: the books' own balance is what the spot check remembers.    *)
LEMMA CountsQuiet ==
  ASSUME QuietStep,
         \/ \E useB2 \in BOOLEAN, env \in Prefix : Begin(useB2, env)
         \/ CountJournal \/ CountLog \/ SpotCheck \/ DryRun
  PROVE  Quiet'
<1>0. OwnRow /\ DrillShape(drill)
  BY DEF QuietStep, Quiet, DrillInv, Shapes
<1>1. UNCHANGED <<run, bucket>> /\ IndexKept
  <2>1. UNCHANGED <<run, bucket>>
    BY DEF Begin, CountJournal, CountLog, SpotCheck, DryRun, Verdict, DrillUnchanged
  <2> QED
    BY <2>1, IndexStays
<1>2. drill.pc \in Before \ {"wait"}
  BY DEF Begin, CountJournal, CountLog, SpotCheck, DryRun, Before
<1>3. run["drill"].pc = "idle"
  BY <1>2 DEF QuietStep, DrillInv, Waits
<1>4. \/ drill'.pc \in {"count", "countLog", "spot", "passed"}
      \/ drill'.pc = "backup" /\ drill'.spot = SpotSource(db) /\ UNCHANGED db
  <2>1. ASSUME NEW useB2 \in BOOLEAN, NEW env \in Prefix, Begin(useB2, env) PROVE drill'.pc = "count"
    BY <1>0, <2>1 DEF Begin, DrillShape
  <2>2. CASE CountJournal
    BY <1>0, <2>2 DEF CountJournal, DrillShape
  <2>3. CASE CountLog
    BY <1>0, <2>3 DEF CountLog, DrillShape
  <2>4. ASSUME SpotCheck PROVE drill'.pc = "backup" /\ drill'.spot = SpotSource(db) /\ UNCHANGED db
    BY <1>0, <2>4 DEF SpotCheck, DrillShape
  <2>5. CASE DryRun
    BY <1>0, <2>5 DEF DryRun, Verdict, DrillShape
  <2> QED
    BY <2>1, <2>2, <2>3, <2>4, <2>5
<1>5. OwnRow'
  BY <1>0, <1>1, <1>2, <1>4 DEF OwnRow, Before, After, IndexKept
<1>6. OwnBackup' /\ OwnFound' /\ QuietDrillPasses'
  BY <1>1, <1>3, <1>4 DEF OwnBackup, OwnFound, QuietDrillPasses, After
<1>7. OwnCheck'
  BY <1>1, <1>3, <1>4 DEF OwnCheck, SpotAs, After
<1> QED
  BY <1>5, <1>6, <1>7 DEF Quiet

(* The newest row is the drill's own, if none but its own came after its   *)
(* counts.                                                                 *)
LEMMA LatestQuiet ==
  ASSUME QuietStep, Latest
  PROVE  Quiet'
<1>0. OwnRow /\ OwnBackup /\ OwnCheck /\ DrillShape(drill) /\ drill.pc = "latest"
  BY DEF QuietStep, Quiet, DrillInv, Shapes, Latest
<1>1. UNCHANGED <<run, bucket>> /\ IndexKept
  <2>1. UNCHANGED <<run, bucket>>
    BY DEF Latest, Verdict, DrillUnchanged
  <2> QED
    BY <2>1, IndexStays
<1>2. PICK j \in Created(db) : j > drill.rows /\ db.log[j].by = "drill"
  BY <1>0 DEF OwnRow, After
<1>3. PICK i \in Created(db) :
        /\ \A n \in Created(db) : n <= i
        /\ drill' = [drill EXCEPT !.pc = "restore", !.key = db.log[i].key]
  BY <1>2 DEF Latest
<1>4. /\ drill'.pc = "restore" /\ drill'.rows = drill.rows /\ drill'.spot = drill.spot
      /\ drill'.made = drill.made /\ drill'.key = db.log[i].key
  BY <1>0, <1>3 DEF DrillShape
<1>5. run["drill"].pc = "idle"
  BY <1>0 DEF QuietStep, DrillInv, Waits
<1>6. OwnRow'
  BY <1>0, <1>1, <1>4 DEF OwnRow, Before, After, IndexKept
<1>7. OwnBackup' /\ OwnCheck' /\ QuietDrillPasses'
  BY <1>0, <1>1, <1>4, <1>5 DEF OwnBackup, OwnCheck, SpotAs, QuietDrillPasses, After, OwnObject
<1>8. OwnFound'
  <2>1. ASSUME OnlyOwn' PROVE drill'.key = run'["drill"].key
    <3>1. drill.rows \in Nat /\ i \in Nat /\ j \in Nat
      BY <1>0, CountsBelow DEF QuietStep, Counted, Created
    <3>2. j <= i
      BY <1>3
    <3>3. i > drill.rows
      BY <1>2, <3>1, <3>2
    <3>4. db.log[i].by = "drill"
      BY <1>1, <1>4, <2>1, <3>3 DEF OnlyOwn, IndexKept
    <3> QED
      BY <1>0, <1>1, <1>4, <3>4 DEF OwnRow, After
  <2> QED
    BY <1>4, <2>1 DEF OwnFound
<1> QED
  BY <1>6, <1>7, <1>8 DEF Quiet

(* With the drill's prefix, what that row names is the drill's own dump.   *)
LEMMA RestoreQuiet ==
  ASSUME QuietStep, Restore
  PROVE  Quiet'
<1> DEFINE o == <<drill.env, drill.key>>
<1>0. /\ OwnRow /\ OwnBackup /\ OwnCheck /\ OwnFound /\ DrillShape(drill) /\ drill.pc = "restore"
      /\ bucket[drill.env, drill.key] = bucket[o]
  BY DEF QuietStep, Quiet, DrillInv, Shapes, Restore
<1> HIDE DEF o
<1>1. UNCHANGED <<run, bucket>> /\ IndexKept
  <2>1. UNCHANGED <<run, bucket>>
    BY DEF Restore, Verdict, DrillUnchanged
  <2> QED
    BY <2>1, IndexStays
<1>2. \/ bucket[o] = None /\ drill' = [drill EXCEPT !.pc = "failed"]
      \/ drill' = [drill EXCEPT !.pc = "verify", !.scratch = bucket[o]]
  BY <1>0 DEF Restore, Verdict
<1>3. /\ drill'.pc \in {"failed", "verify"} /\ drill'.rows = drill.rows /\ drill'.spot = drill.spot
      /\ drill'.made = drill.made /\ drill'.env = drill.env
      /\ drill'.pc = "failed" => bucket[o] = None
      /\ drill'.pc = "verify" => drill'.scratch = bucket[o]
  BY <1>0, <1>2 DEF DrillShape
<1>4. run["drill"].pc = "idle"
  BY <1>0 DEF QuietStep, DrillInv, Waits
<1>5. OnlyOwn' /\ drill.env = DrillPrefix => bucket[o] = drill.made
  <2>1. OnlyOwn' => OnlyOwn
    BY <1>1, <1>3 DEF OnlyOwn, IndexKept
  <2> QED
    BY <1>0, <2>1 DEF OwnFound, OwnBackup, OwnObject, After, o
<1>6. OwnRow'
  BY <1>0, <1>1, <1>3 DEF OwnRow, Before, After, IndexKept
<1>7. OwnBackup' /\ OwnCheck'
  BY <1>0, <1>1, <1>3, <1>4 DEF OwnBackup, OwnCheck, SpotAs, After, OwnObject
<1>8. OwnFound'
  BY <1>3, <1>5 DEF OwnFound
<1>9. QuietDrillPasses'
  <2>1. drill.made # None
    BY <1>0, NoneAssumption DEF OwnBackup, After, Databases
  <2> QED
    BY <1>3, <1>5, <2>1 DEF QuietDrillPasses, Undisturbed, OnlyOwn
<1> QED
  BY <1>6, <1>7, <1>8, <1>9 DEF Quiet

(* Both spot checks add up the same entries, on an account with activity   *)
(* and none of it in the future.                                           *)
LEMMA SpotsAgree ==
  ASSUME SpotActive, NEW d \in Databases
  PROVE  SpotSource(d) = SpotTarget(d)
<1>1. OnSpot(d) \ Future = OnSpot(d)
  BY DrillAssumption DEF SpotActive, OnSpot
<1>2. OnSpot(d) # {}
  BY DEF SpotActive, OnSpot, Databases
<1> QED
  BY <1>1, <1>2 DEF SpotSource, SpotTarget

(* The comparison of a dump with what was counted when it was made.        *)
LEMMA VerifyQuiet ==
  ASSUME SpotActive, QuietStep, Verify
  PROVE  Quiet'
<1>0. OwnBackup /\ OwnCheck /\ OwnFound /\ DrillShape(drill) /\ drill.pc = "verify"
  BY DEF QuietStep, Quiet, DrillInv, Shapes, Verify
<1>1. UNCHANGED <<run, bucket>> /\ IndexKept
  <2>1. UNCHANGED <<run, bucket>>
    BY DEF Verify, Verdict, DrillUnchanged
  <2> QED
    BY <2>1, IndexStays
<1>2. /\ drill'.pc = (IF Matches THEN "passed" ELSE "failed") /\ drill'.rows = drill.rows
      /\ drill'.made = drill.made /\ drill'.env = drill.env /\ drill'.entries = drill.entries
  <2>1. drill' = [drill EXCEPT !.pc = IF Matches THEN "passed" ELSE "failed"]
    BY DEF Verify, Verdict
  <2> QED
    BY <1>0, <2>1 DEF DrillShape
<1>3. run["drill"].pc = "idle"
  BY <1>0 DEF QuietStep, DrillInv, Waits
<1>4. QuietDrillPasses'
  <2>1. ASSUME Undisturbed' PROVE Matches
    <3>1. OnlyOwn /\ drill.env = DrillPrefix /\ drill.made \in Databases
          /\ Entries(drill.made) = drill.entries /\ Len(drill.made.log) = drill.rows
      BY <1>0, <1>1, <1>2, <2>1 DEF Undisturbed, OnlyOwn, IndexKept, OwnBackup, After
    <3>2. drill.scratch = drill.made
      BY <1>0, <3>1 DEF OwnFound
    <3>3. drill.spot = SpotTarget(drill.made)
      BY <1>0, <3>1, SpotsAgree DEF OwnCheck, SpotAs, After
    <3> QED
      BY <3>1, <3>2, <3>3 DEF Matches
  <2> QED
    BY <1>2, <2>1 DEF QuietDrillPasses
<1>5. OwnRow' /\ OwnBackup' /\ OwnCheck' /\ OwnFound'
  BY <1>1, <1>2, <1>3 DEF OwnRow, OwnBackup, OwnCheck, OwnFound, Before, After
<1> QED
  BY <1>4, <1>5 DEF Quiet

(* Every step keeps it, and a fault or a restore of production ends it.    *)
LEMMA NextQuiet ==
  ASSUME SpotActive, QuietInv, [Next]_vars
  PROVE  QuietInv'
<1>0. DrillInv /\ DrillInv' /\ Shapes /\ faults \in Nat /\ restores \in Nat
  BY NextDrill, DrillAssumption DEF QuietInv, DrillInv, Shapes
<1>1. CASE UNCHANGED vars
  BY <1>0, <1>1 DEF vars, QuietInv, Quiet, OwnRow, OwnBackup, OwnObject, OwnCheck, SpotAs, OwnFound,
     OnlyOwn, QuietDrillPasses, Undisturbed
<1>2. ASSUME Next, faults' = 0, restores' = 0 PROVE Quiet'
  <2>1. /\ faults' = faults \/ faults' = faults + 1
        /\ restores' = restores \/ restores' = restores + 1
    BY <1>2 DEF Next, Draft, Discard, Post, Books, Tick, Dump, Upload, Prune, Record, RunFails,
       Dies, Begin, CountJournal, CountLog, SpotCheck, DryRun, DryRunFails, Latest, Restore,
       RestoreFails, Verify, Verdict, DrillUnchanged, RestoreProduction
  <2>2. faults = 0 /\ restores = 0
    BY <1>0, <1>2, <2>1
  <2>3. QuietStep
    BY <1>0, <1>2, <2>2 DEF QuietInv, QuietStep
  <2>4. ASSUME UNCHANGED <<drill, run, bucket>> PROVE Quiet'
    BY <2>3, <2>4, OthersQuiet
  <2>5. ASSUME NEW p \in Process, Dump(p) \/ Upload(p) \/ Prune(p) \/ Record(p), p # "drill"
        PROVE  Quiet'
    <3>1. drill' = drill /\ run'["drill"] = run["drill"] /\ p = "cron"
      BY <1>0, <2>5 DEF Dump, Upload, Prune, Record, Shapes, Process
    <3>2. ASSUME NEW k \in Time PROVE bucket'[<<DrillPrefix, k>>] = bucket[<<DrillPrefix, k>>]
      <4> DEFINE o == <<DrillPrefix, k>>
      <4>1. o \in Prefix \X Time /\ o[1] # PrefixOf(p) /\ DOMAIN bucket = Prefix \X Time
        BY <1>0, <3>1, DrillAssumption DEF Prefix, PrefixOf, Shapes
      <4>2. o # <<PrefixOf(p), run[p].key>>
        BY <4>1
      <4>3. o \notin Listed(p)
        BY <4>1 DEF Listed
      <4> HIDE DEF o
      <4>4. CASE Prune(p)
        <5>1. PICK gone \in SUBSET Listed(p) :
                bucket' = [x \in Prefix \X Time |-> IF x \in gone THEN None ELSE bucket[x]]
          BY <4>4 DEF Prune
        <5> QED
          BY <4>1, <4>3, <5>1 DEF o
      <4> QED
        BY <2>5, <4>1, <4>2, <4>4 DEF o, Dump, Upload, Record
    <3> QED
      BY <2>3, <3>1, <3>2, OthersQuiet
  <2>6. ASSUME NEW p \in Process, Dump(p) \/ Upload(p) \/ Prune(p) \/ Record(p) PROVE Quiet'
    BY <2>3, <2>5, <2>6, OwnRunQuiet
  <2>7. ASSUME \/ DryRunFails \/ RestoreFails \/ \E p \in Process : RunFails(p) \/ Dies(p)
               \/ \E k \in Time : RestoreProduction(k)
        PROVE  FALSE
    BY <1>2, <2>2, <2>7 DEF DryRunFails, RestoreFails, RunFails, Dies, RestoreProduction
  <2>8. ASSUME Tick \/ \E e \in Entry : Draft(e) \/ Discard(e) \/ Post(e) PROVE Quiet'
    BY <2>4, <2>8 DEF Tick, Draft, Discard, Post, Books
  <2> QED
    BY <1>2, <2>3, <2>6, <2>7, <2>8, CountsQuiet, LatestQuiet, RestoreQuiet, VerifyQuiet DEF Next
<1> QED
  BY <1>0, <1>1, <1>2 DEF QuietInv

(* drill_rollback: a drill that nothing has disturbed passes.  The newest  *)
(* row is its own, names its own object, and the counts and both sums are  *)
(* those of that dump, for a spot-check account with activity and none of  *)
(* it in the future (--spot-check-account).                                *)
THEOREM QuietDrillsPass == ASSUME SpotActive PROVE Spec => []QuietDrillPasses
<1>1. ASSUME Init PROVE QuietInv
  <2>1. Created(db) = {}
    <3>1. Cardinality(Opening) \in Nat
      BY DrillAssumption, FS_CardinalityType
    <3>2. \A i \in 1..Len(db.log) : db.log[i].action = "post_entry"
      BY <1>1, <3>1 DEF Init
    <3> QED
      BY <3>2 DEF Created
  <2>2. drill.pc = "idle" /\ run["drill"].pc = "idle"
    BY <1>1 DEF Init, Idle, Process
  <2>3. Quiet
    BY <2>1, <2>2 DEF Quiet, OwnRow, OwnBackup, OwnCheck, OwnFound, QuietDrillPasses, After
  <2> QED
    BY <1>1, <2>3, InitDrill DEF QuietInv
<1>2. ASSUME QuietInv PROVE QuietDrillPasses
  BY <1>2 DEF QuietInv, Quiet, QuietDrillPasses, Undisturbed
<1>3. QuietInv /\ [Next]_vars => QuietInv'
  BY NextQuiet
<1> QED
  BY <1>1, <1>2, <1>3, PTL DEF Spec
=============================================================================
