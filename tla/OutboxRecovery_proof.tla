----------------------- MODULE OutboxRecovery_proof -----------------------
(***************************************************************************)
(* Proofs about OutboxRecovery, for any number of processes and failures   *)
(* and any Config: its types, that no script is committed twice, and that  *)
(* the flag is not cleared while the table is missing.                     *)
(***************************************************************************)
EXTENDS OutboxRecovery, TLAPS

\* There is a script whose turn it is until both are applied.
LEMMA NextMigrationIsLeft ==
  ASSUME NEW applied \in SUBSET Migrations, applied # Migrations
  PROVE  NextMigration(applied) \in Migrations \ applied
<1>1. CASE 1 \notin applied
  <2>1. 1 \in Migrations \ applied /\ \A y \in Migrations \ applied : 1 <= y
    BY <1>1 DEF Migrations
  <2>. QED BY <2>1 DEF NextMigration, Min
<1>2. CASE 1 \in applied
  <2>1. 2 \notin applied
    BY <1>2 DEF Migrations
  <2>2. Migrations \ applied = {2}
    BY <1>2, <2>1 DEF Migrations
  <2>. QED BY <2>2 DEF NextMigration, Min
<1>. QED BY <1>1, <1>2

\* What a script leaves behind: a table that has what the recorded versions tell of.
LEMMA MigrateLeaves ==
  ASSUME RecoveryInv, NEW m \in Migrations, Migrate(m)
  PROVE  /\ table' \in [Schemas -> {"absent", "v1", "v2"}]
         /\ table'["public"] # "absent"
         /\ \A s \in Schemas \ {"public"} : table'[s] = "absent"
         /\ versions' = versions \union {m} /\ versions' \subseteq Migrations
         /\ ran' \in [Migrations -> Nat]
         /\ \A n \in Migrations : ran'[n] <= 1
         /\ \A n \in Migrations \ versions' : ran'[n] = 0
         /\ ~dropped => /\ versions' = {} <=> table'["public"] = "absent"
                        /\ versions' = {1} <=> table'["public"] = "v1"
                        /\ 2 \in versions' => 1 \in versions'
<1>1. TypeOK /\ ran[m] = 0 /\ versions' = versions \union {m}
  BY DEF RecoveryInv, Migrate
<1>2. /\ table' \in [Schemas -> {"absent", "v1", "v2"}]
      /\ table'["public"] # "absent"
      /\ \A s \in Schemas \ {"public"} : table'[s] = "absent"
  BY DEF RecoveryInv, TypeOK, Migrate, Script, Schemas
<1>3. ran' = [ran EXCEPT ![m] = 1]
  BY <1>1 DEF Migrate, TypeOK
<1>4. /\ ran' \in [Migrations -> Nat]
      /\ \A n \in Migrations : ran'[n] <= 1
      /\ \A n \in Migrations \ versions' : ran'[n] = 0
  BY <1>1, <1>3 DEF RecoveryInv, MigratedOnce, TypeOK
<1>5. ~dropped => /\ versions' = {} <=> table'["public"] = "absent"
                  /\ versions' = {1} <=> table'["public"] = "v1"
                  /\ 2 \in versions' => 1 \in versions'
  <2>1. ASSUME ~dropped, m = 1
        PROVE  versions = {} /\ table'["public"] = "v1"
    <3>1. versions \subseteq {1, 2} /\ 1 \notin versions /\ 2 \notin versions
      BY <1>1, <2>1 DEF RecoveryInv, TypeOK, Migrate, Migrations
    <3>2. versions = {}
      BY <3>1
    <3>3. table["public"] = "absent"
      BY <2>1, <3>2 DEF RecoveryInv, MigratedOnce
    <3>. QED BY <1>1, <2>1, <3>2, <3>3 DEF TypeOK, Migrate, Script, Schemas
  <2>2. ASSUME ~dropped, m = 2
        PROVE  1 \in versions /\ table'["public"] = "v2"
    <3>1. table["public"] # "absent" /\ table'["public"] = "v2"
      BY <1>1, <2>2 DEF TypeOK, Migrate, Script, Schemas
    <3>2. versions # {} /\ versions \subseteq {1, 2}
      BY <1>1, <2>2, <3>1 DEF RecoveryInv, MigratedOnce, TypeOK, Migrations
    <3>3. 1 \in versions
      BY <2>2, <3>2 DEF RecoveryInv
    <3>. QED BY <3>1, <3>3
  <2>3. m = 1 \/ m = 2
    BY DEF Migrations
  <2>. QED BY <1>1, <2>1, <2>2, <2>3
<1>. QED BY <1>1, <1>2, <1>3, <1>4, <1>5 DEF TypeOK
-----------------------------------------------------------------------------
\* A database that is new, of an earlier release or up to date is consistent.
LEMMA InitInv == Init => RecoveryInv
<1>. SUFFICES ASSUME Init PROVE RecoveryInv
  OBVIOUS
<1>1. /\ table \in [Schemas -> {"absent", "v1", "v2"}]
      /\ table["other"] = "absent"
      /\ \/ table["public"] = "absent" /\ versions = {}
         \/ table["public"] = "v1" /\ versions = {1}
         \/ table["public"] = "v2" /\ versions = {1, 2}
  BY DEF Init, Schemas
<1>2. /\ ran \in [Migrations -> Nat]
      /\ \A m \in Migrations : ran[m] = 0
      /\ versions \subseteq Migrations
  BY <1>1 DEF Init, Migrations
<1>3. /\ pc \in [Instances -> [Threads -> ThreadStates]]
      /\ done \in [Instances -> [Threads -> SUBSET Migrations]]
      /\ \A i \in Instances, t \in Threads : pc[i][t] = "idle" /\ done[i][t] = {}
      /\ \A i \in Instances : pc[i]["recovery"] # "select"
  BY DEF Init, Threads, ThreadStates
<1>4. TypeOK
  <2>1. /\ dbProblem \in [Instances -> BOOLEAN]
        /\ results \in [Instances -> SUBSET {"ok", "failed"}]
        /\ dropped \in BOOLEAN
        /\ faults \in 0 .. MaxFaults
    <3>1. dbProblem \in [Instances -> BOOLEAN] /\ dropped \in BOOLEAN
      BY DEF Init
    <3>2. results \in [Instances -> SUBSET {"ok", "failed"}]
      BY DEF Init
    <3>3. faults \in 0 .. MaxFaults
      BY RecoveryAssumption DEF Init, RecoveryAssumption
    <3>. QED BY <3>1, <3>2, <3>3
  <2>2. \A i \in Instances, t \in Threads :
          IF pc[i][t] = "apply" THEN done[i][t] # Migrations ELSE done[i][t] = {}
    BY <1>3
  <2>. QED BY <1>1, <1>2, <1>3, <2>1, <2>2 DEF TypeOK
<1>5. MigratedOnce
  BY <1>1, <1>2 DEF MigratedOnce
<1>6. \A s \in Schemas \ {"public"} : table[s] = "absent"
  BY <1>1 DEF Schemas
<1>7. \A i \in Instances : results[i] = {}
  BY DEF Init
<1>. QED BY <1>1, <1>2, <1>3, <1>4, <1>5, <1>6, <1>7 DEF RecoveryInv

\* A step of a loop that touches neither the database nor the results keeps the
\* invariant, if it does not claim to have seen a table that is not there.
LEMMA QuietStep ==
  ASSUME RecoveryInv, NEW i \in Instances, NEW t \in Threads,
         UNCHANGED <<dbVars, results, dropped>>,
         dbProblem' \in [Instances -> BOOLEAN],
         faults' \in 0 .. MaxFaults,
         NEW label \in ThreadStates,
         t = "recovery" => label # "select",
         pc' = [pc EXCEPT ![i][t] = label],
         NEW skip \in SUBSET Migrations,
         done' = [done EXCEPT ![i][t] = skip],
         IF label = "apply" THEN skip # Migrations ELSE skip = {},
         label = "clear" /\ ~dropped => table["public"] # "absent"
  PROVE  RecoveryInv'
<1>1. \A j \in Instances, u \in Threads :
        /\ pc'[j][u] = IF j = i /\ u = t THEN label ELSE pc[j][u]
        /\ done'[j][u] = IF j = i /\ u = t THEN skip ELSE done[j][u]
  BY DEF RecoveryInv, TypeOK
<1>2. TypeOK'
  <2>1. pc' \in [Instances -> [Threads -> ThreadStates]]
    BY DEF RecoveryInv, TypeOK
  <2>2. done' \in [Instances -> [Threads -> SUBSET Migrations]]
    BY DEF RecoveryInv, TypeOK
  <2>3. \A j \in Instances : pc'[j]["recovery"] # "select"
    BY <1>1 DEF RecoveryInv, TypeOK, Threads
  <2>4. \A j \in Instances, u \in Threads :
          IF pc'[j][u] = "apply" THEN done'[j][u] # Migrations ELSE done'[j][u] = {}
    BY <1>1 DEF RecoveryInv, TypeOK
  <2>. QED BY <2>1, <2>2, <2>3, <2>4 DEF RecoveryInv, TypeOK, dbVars
<1>3. MigratedOnce'
  BY DEF RecoveryInv, MigratedOnce, dbVars
<1>4. ~dropped' =>
        \A j \in Instances :
          "ok" \in results'[j] \/ (\E u \in Threads : pc'[j][u] = "clear")
            => table'["public"] # "absent"
  BY <1>1 DEF RecoveryInv, dbVars
<1>. QED BY <1>2, <1>3, <1>4 DEF RecoveryInv, dbVars

\* A committed script keeps it, wherever the goroutine goes on.
LEMMA MigrateStep ==
  ASSUME RecoveryInv, NEW i \in Instances, NEW t \in Threads,
         NEW m \in Migrations, Migrate(m),
         UNCHANGED <<dbProblem, results, dropped>>,
         faults' \in 0 .. MaxFaults,
         NEW label \in ThreadStates,
         t = "recovery" => label # "select",
         pc' = [pc EXCEPT ![i][t] = label],
         NEW skip \in SUBSET Migrations,
         done' = [done EXCEPT ![i][t] = skip],
         IF label = "apply" THEN skip # Migrations ELSE skip = {}
  PROVE  RecoveryInv'
<1>1. \A j \in Instances, u \in Threads :
        /\ pc'[j][u] = IF j = i /\ u = t THEN label ELSE pc[j][u]
        /\ done'[j][u] = IF j = i /\ u = t THEN skip ELSE done[j][u]
  BY DEF RecoveryInv, TypeOK
<1>2. TypeOK'
  <2>1. pc' \in [Instances -> [Threads -> ThreadStates]]
    BY DEF RecoveryInv, TypeOK
  <2>2. done' \in [Instances -> [Threads -> SUBSET Migrations]]
    BY DEF RecoveryInv, TypeOK
  <2>3. \A j \in Instances : pc'[j]["recovery"] # "select"
    BY <1>1 DEF RecoveryInv, TypeOK, Threads
  <2>4. \A j \in Instances, u \in Threads :
          IF pc'[j][u] = "apply" THEN done'[j][u] # Migrations ELSE done'[j][u] = {}
    BY <1>1 DEF RecoveryInv, TypeOK
  <2>5. /\ table' \in [Schemas -> {"absent", "v1", "v2"}]
        /\ versions' \subseteq Migrations
        /\ ran' \in [Migrations -> Nat]
    BY MigrateLeaves
  <2>. QED BY <2>1, <2>2, <2>3, <2>4, <2>5 DEF RecoveryInv, TypeOK
<1>3. MigratedOnce'
  BY MigrateLeaves DEF MigratedOnce
<1>. QED BY <1>2, <1>3, MigrateLeaves DEF RecoveryInv
-----------------------------------------------------------------------------
\* Every step of a loop keeps the invariant.
LEMMA LoopStep ==
  ASSUME RecoveryInv, NEW i \in Instances, NEW t \in Threads, Loop(i, t) \/ RepairFails(i, t)
  PROVE  RecoveryInv'
<1>1. TypeOK /\ dbProblem \in [Instances -> BOOLEAN] /\ faults \in 0 .. MaxFaults
      /\ pc[i][t] \in ThreadStates /\ done[i][t] \in SUBSET Migrations
  BY DEF RecoveryInv, TypeOK
<1>2. t = "recovery" => pc[i][t] # "select"
  BY <1>1 DEF TypeOK
<1>3. \A label \in ThreadStates : pc[i][t] # "apply" /\ Goto(i, t, label) =>
        pc' = [pc EXCEPT ![i][t] = label] /\ done' = [done EXCEPT ![i][t] = {}]
  <2>1. pc[i][t] # "apply" => done[i][t] = {}
    BY <1>1 DEF TypeOK
  <2>2. done[i][t] = {} => done = [done EXCEPT ![i][t] = {}]
    BY <1>1 DEF TypeOK
  <2>. QED BY <2>1, <2>2 DEF Goto
<1>4. Fault => faults' \in 0 .. MaxFaults
  BY <1>1, RecoveryAssumption DEF Fault
<1>5. {} \in SUBSET Migrations /\ {} # Migrations
  BY DEF Migrations
\* A step that only goes on at a label.
<1>6. ASSUME NEW label \in ThreadStates,
             pc[i][t] # "apply", Goto(i, t, label),
             UNCHANGED <<dbVars, dbProblem, results, faultVars>>,
             label # "apply", t = "recovery" => label # "select",
             label = "clear" /\ ~dropped => table["public"] # "absent"
      PROVE  RecoveryInv'
  <2>1. pc' = [pc EXCEPT ![i][t] = label] /\ done' = [done EXCEPT ![i][t] = {}]
    BY <1>3, <1>6
  <2>2. dbProblem' \in [Instances -> BOOLEAN] /\ faults' \in 0 .. MaxFaults
    BY <1>1, <1>6 DEF faultVars
  <2>. QED BY <1>5, <1>6, <2>1, <2>2, QuietStep DEF faultVars
<1>7. CASE Tick(i, t)
  <2>1. "check" \in ThreadStates /\ "select" \in ThreadStates
    BY DEF ThreadStates
  <2>. QED BY <1>6, <1>7, <2>1 DEF Tick
<1>8. CASE Check(i, t) \/ ReadVersions(i, t)
  <2>1. OutboxExists => table["public"] # "absent"
    BY DEF OutboxExists, RecoveryInv
  <2>2. versions = Migrations /\ ~dropped => table["public"] # "absent"
    BY DEF RecoveryInv, MigratedOnce, Migrations
  <2>3. "clear" \in ThreadStates /\ "read" \in ThreadStates /\ "apply" \in ThreadStates
    BY DEF ThreadStates
  <2>4. CASE Check(i, t)
    <3>1. CASE OutboxExists
      BY <1>6, <2>1, <2>3, <2>4, <3>1 DEF Check
    <3>2. CASE ~OutboxExists
      BY <1>6, <2>3, <2>4, <3>2 DEF Check
    <3>. QED BY <3>1, <3>2
  <2>5. CASE ReadVersions(i, t) /\ versions = Migrations
    BY <1>6, <2>2, <2>3, <2>5 DEF ReadVersions
  <2>6. CASE ReadVersions(i, t) /\ versions # Migrations
    <3>1. PICK skip \in SUBSET Migrations : skip = versions
      BY <1>1 DEF TypeOK
    <3>2. PICK label \in ThreadStates : label = "apply"
      BY <2>3
    <3>3. /\ pc' = [pc EXCEPT ![i][t] = label] /\ done' = [done EXCEPT ![i][t] = skip]
          /\ UNCHANGED <<dbVars, results, dropped>>
          /\ dbProblem' \in [Instances -> BOOLEAN] /\ faults' \in 0 .. MaxFaults
      BY <1>1, <2>6, <3>1, <3>2 DEF ReadVersions, faultVars
    <3>. QED BY <2>6, <3>1, <3>2, <3>3, QuietStep
  <2>. QED BY <1>8, <2>4, <2>5, <2>6
<1>9. pc[i][t] = "apply" => NextMigration(done[i][t]) \in Migrations \ done[i][t]
  <2>1. pc[i][t] = "apply" => done[i][t] # Migrations
    BY <1>1 DEF TypeOK
  <2>. QED BY <1>1, <2>1, NextMigrationIsLeft
<1>10. CASE Apply(i, t)
  <2>1. PICK m \in Migrations : m = NextMigration(done[i][t])
    BY <1>9, <1>10 DEF Apply
  <2>2. PICK skip \in SUBSET Migrations : skip = done[i][t] \union {m}
    BY <1>1, <2>1
  <2>3. Migrate(m) /\ UNCHANGED <<dbProblem, results, dropped, faults>>
    BY <1>10, <2>1 DEF Apply, faultVars
  <2>4. CASE skip = Migrations /\ Leave(i, t, "clear")
    <3>1. PICK label \in ThreadStates : label = "clear"
      BY DEF ThreadStates
    <3>. QED BY <1>1, <1>5, <2>3, <2>4, <3>1, MigrateStep DEF Leave
  <2>5. CASE /\ skip # Migrations
             /\ done' = [done EXCEPT ![i][t] = @ \union {m}]
             /\ UNCHANGED pc
    <3>1. pc' = [pc EXCEPT ![i][t] = "apply"]
      BY <1>1, <1>10, <2>5 DEF Apply, TypeOK
    <3>2. done' = [done EXCEPT ![i][t] = skip]
      BY <1>1, <2>2, <2>5 DEF TypeOK
    <3>3. PICK label \in ThreadStates : label = "apply"
      BY DEF ThreadStates
    <3>. QED BY <1>1, <2>3, <2>5, <3>1, <3>2, <3>3, MigrateStep
  <2>. QED BY <1>10, <2>1, <2>2, <2>4, <2>5 DEF Apply
<1>11. ASSUME Leave(i, t, "idle"), UNCHANGED <<dbProblem, results, dropped>>,
              faults' \in 0 .. MaxFaults,
              \/ UNCHANGED dbVars
              \/ \E m \in Migrations : Migrate(m)
       PROVE  RecoveryInv'
  <2>1. PICK label \in ThreadStates : label = "idle"
    BY DEF ThreadStates
  <2>2. pc' = [pc EXCEPT ![i][t] = label] /\ done' = [done EXCEPT ![i][t] = {}]
        /\ dbProblem' \in [Instances -> BOOLEAN]
    BY <1>1, <1>11, <2>1 DEF Leave
  <2>3. CASE UNCHANGED dbVars
    BY <1>5, <1>11, <2>1, <2>2, <2>3, QuietStep
  <2>4. ASSUME NEW m \in Migrations, Migrate(m)
        PROVE  RecoveryInv'
    BY <1>5, <1>11, <2>1, <2>2, <2>4, MigrateStep
  <2>. QED BY <1>11, <2>3, <2>4
<1>12. CASE ApplyConflicts(i, t) \/ RepairFails(i, t)
  <2>1. CASE ApplyConflicts(i, t)
    BY <1>1, <1>11, <2>1 DEF ApplyConflicts, faultVars
  <2>2. CASE RepairFails(i, t)
    <3>1. UNCHANGED dbVars \/ \E m \in Migrations : Migrate(m)
      BY <1>9, <2>2 DEF RepairFails
    <3>. QED BY <1>4, <1>11, <2>2, <3>1 DEF RepairFails
  <2>. QED BY <1>12, <2>1, <2>2
<1>13. CASE Clear(i, t)
  <2>1. PICK label \in ThreadStates : label = IF t = "worker" THEN "select" ELSE "idle"
    BY DEF ThreadStates
  <2>2. dbProblem' \in [Instances -> BOOLEAN]
    BY <1>1, <1>13 DEF Clear
  <2>3. pc' = [pc EXCEPT ![i][t] = label] /\ done' = [done EXCEPT ![i][t] = {}]
    BY <1>3, <1>13, <2>1 DEF Clear
  <2>. QED BY <1>1, <1>5, <1>13, <2>1, <2>2, <2>3, QuietStep DEF Clear, faultVars
<1>14. CASE t = "worker" /\ Select(i)
  <2>1. dbProblem' \in [Instances -> BOOLEAN] /\ faults' \in 0 .. MaxFaults
    BY <1>1, <1>4, <1>14 DEF Select
  <2>2. pc' = [pc EXCEPT ![i][t] = "idle"] /\ done' = [done EXCEPT ![i][t] = {}]
    BY <1>3, <1>14 DEF Select, ThreadStates
  <2>. QED BY <1>5, <1>14, <2>1, <2>2, QuietStep DEF Select, ThreadStates
<1>. QED
  BY <1>7, <1>8, <1>10, <1>12, <1>13, <1>14 DEF Loop

\* The other steps leave the migrations alone.
LEMMA OtherStep ==
  ASSUME RecoveryInv, NEW i \in Instances,
         \/ \E outcome \in {"ok", "failed"} : InsertReturns(i, outcome)
         \/ Insert(i) \/ CrashAndRestart(i) \/ DropTable
  PROVE  RecoveryInv'
<1>. USE DEF RecoveryInv
<1>1. Fault => faults' \in 0 .. MaxFaults
  BY RecoveryAssumption DEF Fault, TypeOK
<1>2. ASSUME NEW outcome \in {"ok", "failed"}, InsertReturns(i, outcome)
      PROVE  RecoveryInv'
  BY <1>2 DEF InsertReturns, TypeOK, MigratedOnce, dbVars, faultVars
<1>3. CASE Insert(i)
  <2>1. CanInsert => table["public"] # "absent"
    BY DEF CanInsert
  <2>2. PICK outcome \in {"ok", "failed"} :
          /\ results' = [results EXCEPT ![i] = @ \union {outcome}]
          /\ outcome = "ok" => CanInsert
          /\ faults' = faults \/ Fault
    <3>1. CASE CanInsert
      BY <1>3, <3>1 DEF Insert
    <3>2. CASE ~CanInsert
      BY <1>3, <3>2 DEF Insert
    <3>. QED BY <3>1, <3>2
  <2>3. TypeOK'
    BY <1>1, <1>3, <2>2 DEF Insert, TypeOK, dbVars
  <2>4. \A j \in Instances : "ok" \in results'[j] => "ok" \in results[j] \/ CanInsert
    BY <2>2 DEF TypeOK
  <2>. QED BY <1>3, <2>1, <2>3, <2>4 DEF Insert, MigratedOnce, dbVars
<1>4. CASE CrashAndRestart(i)
  <2>1. /\ pc' \in [Instances -> [Threads -> ThreadStates]]
        /\ done' \in [Instances -> [Threads -> SUBSET Migrations]]
        /\ \A j \in Instances : pc'[j]["recovery"] # "select"
    BY <1>4 DEF CrashAndRestart, TypeOK, Threads, ThreadStates
  <2>2. TypeOK'
    BY <1>1, <1>4, <2>1 DEF CrashAndRestart, TypeOK, dbVars, Threads
  <2>3. \A j \in Instances :
          /\ "ok" \in results'[j] => "ok" \in results[j]
          /\ \A t \in Threads : pc'[j][t] = "clear" => pc[j][t] = "clear"
    BY <1>4 DEF CrashAndRestart, TypeOK
  <2>. QED BY <1>4, <2>2, <2>3 DEF CrashAndRestart, MigratedOnce, dbVars
<1>5. CASE DropTable
  BY <1>1, <1>5 DEF DropTable, TypeOK, MigratedOnce, Schemas
<1>. QED BY <1>2, <1>3, <1>4, <1>5

\* Every step preserves the invariant.
LEMMA StepInv ==
  ASSUME RecoveryInv, [Next]_vars
  PROVE  RecoveryInv'
<1>1. CASE DropTable
  BY <1>1, RecoveryAssumption
     DEF RecoveryInv, DropTable, Fault, TypeOK, MigratedOnce, Schemas
<1>2. CASE UNCHANGED vars
  BY <1>2 DEF vars, dbVars, faultVars, RecoveryInv, TypeOK, MigratedOnce
<1>. QED BY <1>1, <1>2, LoopStep, OtherStep DEF Next
-----------------------------------------------------------------------------
\* Every reachable state satisfies the invariant.
THEOREM RecoveryCorrect == Spec => []RecoveryInv
BY InitInv, StepInv, PTL DEF Spec

\* The types, for any number of processes.
THEOREM TypeCorrect == Spec => []TypeOK
<1>1. RecoveryInv => TypeOK
  BY DEF RecoveryInv
<1>. QED BY RecoveryCorrect, <1>1, PTL

\* No script is committed twice, and the recorded versions tell the truth.
THEOREM Once == Spec => []MigratedOnce
<1>1. RecoveryInv => MigratedOnce
  BY DEF RecoveryInv
<1>. QED BY RecoveryCorrect, <1>1, PTL

\* The flag is cleared only while the table is there.
THEOREM ClearedTruly == Spec => ClearedOnlyWhenPresent
<1>1. ASSUME RecoveryInv, [Next]_vars
      PROVE  [\A i \in Instances :
                ~dropped /\ dbProblem[i] /\ ~dbProblem'[i] => OutboxExists \/ faults' # faults]_vars
  <2>. SUFFICES ASSUME Next, NEW i \in Instances, ~dropped, dbProblem[i], ~dbProblem'[i]
                PROVE  OutboxExists \/ faults' # faults
    BY <1>1
  <2>1. table["public"] # "absent" => OutboxExists
    BY DEF OutboxExists, Schemas
  <2>2. TypeOK
    BY <1>1 DEF RecoveryInv
  <2>3. ASSUME NEW j \in Instances, NEW t \in Threads, Loop(j, t) \/ RepairFails(j, t)
        PROVE  OutboxExists
    <3>1. Clear(j, t)
      BY <2>2, <2>3
         DEF Loop, Tick, Check, ReadVersions, Apply, ApplyConflicts, RepairFails, Select, TypeOK
    <3>2. i = j
      BY <2>2, <3>1 DEF Clear, TypeOK
    <3>. QED BY <1>1, <2>1, <3>1, <3>2 DEF Clear, RecoveryInv
  <2>4. ASSUME NEW j \in Instances, NEW outcome \in {"ok", "failed"}, InsertReturns(j, outcome)
        PROVE  OutboxExists
    <3>1. i = j
      BY <2>2, <2>4 DEF InsertReturns, TypeOK
    <3>2. outcome = "ok"
      BY <2>2, <2>4, <3>1 DEF InsertReturns, TypeOK
    <3>. QED BY <1>1, <2>1, <2>4, <3>1, <3>2 DEF InsertReturns, RecoveryInv
  <2>5. ASSUME NEW j \in Instances, Insert(j) \/ CrashAndRestart(j)
        PROVE  faults' # faults
    BY <2>2, <2>5 DEF Insert, CrashAndRestart, Fault, TypeOK
  <2>6. CASE DropTable
    BY <2>6 DEF DropTable
  <2>. QED BY <2>3, <2>4, <2>5, <2>6 DEF Next
<1>. QED BY RecoveryCorrect, <1>1, PTL DEF Spec, ClearedOnlyWhenPresent
=============================================================================
