-------------------------- MODULE OutboxRecovery --------------------------
(***************************************************************************)
(* How libs/go-outbox notices that its table is unusable and repairs it.   *)
(*                                                                         *)
(* In every process the worker (Worker.processBatch calling ensureTable),  *)
(* the recovery loop (dbRecoveryLoop) and the callers of PublishEvent and  *)
(* PublishEventWithTx share the flag dbProblem.  It is no atomic and no    *)
(* mutex guards it: dbMu is taken by ensureTable alone, which only the one *)
(* worker calls, so it excludes nobody and is not a variable here.  Each   *)
(* read of the flag, each assignment to it and each database call is a     *)
(* step of its own.  Several processes run RunMigrations against one       *)
(* database.                                                               *)
(*                                                                         *)
(* Rows are not modelled (OutboxRelay does): an INSERT or a SELECT matters *)
(* here for whether it finds the table and the columns it names.           *)
(***************************************************************************)
EXTENDS Integers, FiniteSets, FiniteSetsExt

CONSTANTS
  Instances,    \* service processes
  Schema,       \* Config.Schema
  StoreJSON,    \* Config.StoreJSON
  MaxFaults     \* bound on failed calls, crashes and drops of the table

Schemas == {"public", "other"}

ASSUME RecoveryAssumption ==
  /\ Schema \in Schemas
  /\ StoreJSON \in BOOLEAN
  /\ MaxFaults \in Nat

VARIABLES
  table,        \* table[s], the table outbox of schema s: "absent", as 001 creates it
                \* ("v1"), with the payload_json of 002 ("v2")
  versions,     \* the versions recorded in Schema.outbox_schema_migrations
  ran,          \* history: how often each script has been committed since the start
  dbProblem,    \* Outbox.dbProblem
  pc,           \* where the worker and the recovery loop of each process are
  done,         \* the versions that their RunMigrations will skip
  results,      \* results[i]: outcomes of INSERTs that have yet to reach dbProblem
  dropped,      \* history: an operator has dropped the table
  faults

dbVars == <<table, versions, ran>>
faultVars == <<dropped, faults>>
vars == <<dbVars, dbProblem, pc, done, results, faultVars>>

Migrations == {1, 2}    \* the embedded scripts, by version
Threads == {"worker", "recovery"}
ThreadStates == {"idle", "check", "read", "apply", "clear", "select"}

Fault == faults < MaxFaults /\ faults' = faults + 1

(***************************************************************************)
(* EXISTS asks for a table called outbox in any schema, the worker reads   *)
(* Schema.outbox, and INSERT INTO outbox means the public one: the         *)
(* connections' search_path is the default.                                *)
(***************************************************************************)
OutboxExists == \E s \in Schemas : table[s] # "absent"
CanInsert == table["public"] \in (IF StoreJSON THEN {"v2"} ELSE {"v1", "v2"})
CanSelect == table[Schema] # "absent"

\* A new database, one an earlier release of the library has migrated, or an up-to-date one.
Init ==
  /\ \E start \in {<<"absent", {}>>, <<"v1", {1}>>, <<"v2", {1, 2}>>} :
       /\ table = [s \in Schemas |-> IF s = "public" THEN start[1] ELSE "absent"]
       /\ versions = start[2]
  /\ ran = [m \in Migrations |-> 0]
  /\ dbProblem = [i \in Instances |-> FALSE]
  /\ pc = [i \in Instances |-> [t \in Threads |-> "idle"]]
  /\ done = [i \in Instances |-> [t \in Threads |-> {}]]
  /\ results = [i \in Instances |-> {}]
  /\ dropped = FALSE
  /\ faults = 0

\* The goroutine goes on at label; what it skips matters only while it applies scripts.
Goto(i, t, label) == pc' = [pc EXCEPT ![i][t] = label] /\ UNCHANGED done
Leave(i, t, label) == pc' = [pc EXCEPT ![i][t] = label] /\ done' = [done EXCEPT ![i][t] = {}]
-----------------------------------------------------------------------------
(***************************************************************************)
(* Publishers.                                                             *)
(***************************************************************************)
\* The INSERT of a PublishEvent or PublishEventWithTx returns.
Insert(i) ==
  /\ \/ /\ results' = [results EXCEPT ![i] = @ \union {IF CanInsert THEN "ok" ELSE "failed"}]
        /\ UNCHANGED faults
     \/ /\ results' = [results EXCEPT ![i] = @ \union {"failed"}]
        /\ Fault
  /\ UNCHANGED <<dbVars, dbProblem, pc, done, dropped>>

\* The caller then sets or clears the flag.
InsertReturns(i, outcome) ==
  /\ outcome \in results[i]
  /\ results' = [results EXCEPT ![i] = @ \ {outcome}]
  /\ dbProblem' = [dbProblem EXCEPT ![i] = outcome = "failed"]
  /\ UNCHANGED <<dbVars, pc, done, faultVars>>
-----------------------------------------------------------------------------
(***************************************************************************)
(* The worker and the recovery loop.                                       *)
(***************************************************************************)
\* A ticker fires: the worker checks the table or goes on, the loop checks it or waits.
Tick(i, t) ==
  /\ pc[i][t] = "idle"
  /\ \/ dbProblem[i] /\ Goto(i, t, "check")
     \/ ~dbProblem[i] /\ t = "worker" /\ Goto(i, t, "select")
  /\ UNCHANGED <<dbVars, dbProblem, results, faultVars>>

\* SELECT EXISTS ... table_name = 'outbox'.
Check(i, t) ==
  /\ pc[i][t] = "check"
  /\ Goto(i, t, IF OutboxExists THEN "clear" ELSE "read")
  /\ UNCHANGED <<dbVars, dbProblem, results, faultVars>>

\* RunMigrations: the version table is created if missing and read.
ReadVersions(i, t) ==
  /\ pc[i][t] = "read"
  /\ \/ versions = Migrations /\ Goto(i, t, "clear")
     \/ /\ versions # Migrations
        /\ pc' = [pc EXCEPT ![i][t] = "apply"]
        /\ done' = [done EXCEPT ![i][t] = versions]
  /\ UNCHANGED <<dbVars, dbProblem, results, faultVars>>

\* The script whose turn it is.
NextMigration_Unsorted(applied) == Max(Migrations \ applied)
NextMigration(applied) == Min(Migrations \ applied)

\* The transaction of applyMigration commits: the script ran on a schema it fits,
\* and nobody else had recorded its version.
Script(m) ==
  \/ /\ m = 1
     /\ table' = IF table["public"] = "absent" THEN [table EXCEPT !["public"] = "v1"] ELSE table
  \/ /\ m = 2
     /\ table["public"] # "absent"
     /\ table' = [table EXCEPT !["public"] = "v2"]
Migrate_Unrecorded(m) ==
  /\ Script(m)
  /\ ran' = [ran EXCEPT ![m] = @ + 1]
  /\ UNCHANGED versions
Migrate(m) ==
  /\ Script(m)
  /\ m \notin versions
  /\ versions' = versions \union {m}
  /\ ran' = [ran EXCEPT ![m] = @ + 1]

\* A script is applied; after the last one RunMigrations returns nil.
Apply(i, t) ==
  /\ pc[i][t] = "apply"
  /\ LET m == NextMigration(done[i][t]) IN
       /\ Migrate(m)
       /\ \/ done[i][t] \union {m} = Migrations /\ Leave(i, t, "clear")
          \/ /\ done[i][t] \union {m} # Migrations
             /\ done' = [done EXCEPT ![i][t] = @ \union {m}]
             /\ UNCHANGED pc
  /\ UNCHANGED <<dbProblem, results, faultVars>>

\* The ALTER of 002 finds no table, or somebody else has recorded the version: the
\* transaction is rolled back and RunMigrations returns the error.
ApplyConflicts(i, t) ==
  /\ pc[i][t] = "apply"
  /\ LET m == NextMigration(done[i][t]) IN m \in versions \/ (m = 2 /\ table["public"] = "absent")
  /\ Leave(i, t, "idle")
  /\ UNCHANGED <<dbVars, dbProblem, results, faultVars>>

\* A call of the repair fails and it is given up; a commit may have been done.
RepairFails_Clears(i, t) ==
  /\ pc[i][t] \in {"check", "read", "apply"}
  /\ Leave(i, t, "clear")
  /\ Fault
  /\ UNCHANGED <<dbVars, dbProblem, results, dropped>>
RepairFails(i, t) ==
  /\ pc[i][t] \in {"check", "read", "apply"}
  /\ \/ UNCHANGED dbVars
     \/ pc[i][t] = "apply" /\ Migrate(NextMigration(done[i][t]))
  /\ Leave(i, t, "idle")
  /\ Fault
  /\ UNCHANGED <<dbProblem, results, dropped>>

\* The flag is cleared; the worker goes on to its query.
Clear_SameForBoth(i, t) ==
  /\ pc[i][t] = "clear"
  /\ dbProblem' = [dbProblem EXCEPT ![i] = FALSE]
  /\ Goto(i, t, "select")
  /\ UNCHANGED <<dbVars, results, faultVars>>
Clear(i, t) ==
  /\ pc[i][t] = "clear"
  /\ dbProblem' = [dbProblem EXCEPT ![i] = FALSE]
  /\ Goto(i, t, IF t = "worker" THEN "select" ELSE "idle")
  /\ UNCHANGED <<dbVars, results, faultVars>>

\* The worker's query, which sets the flag when it fails.
Select(i) ==
  /\ pc[i]["worker"] = "select"
  /\ Goto(i, "worker", "idle")
  /\ \/ CanSelect /\ UNCHANGED <<dbProblem, faults>>
     \/ ~CanSelect /\ dbProblem' = [dbProblem EXCEPT ![i] = TRUE] /\ UNCHANGED faults
     \/ dbProblem' = [dbProblem EXCEPT ![i] = TRUE] /\ Fault
  /\ UNCHANGED <<dbVars, results, dropped>>
-----------------------------------------------------------------------------
\* The process dies and is started again; Init and setup do not look at the table.
CrashAndRestart(i) ==
  /\ Fault
  /\ dbProblem' = [dbProblem EXCEPT ![i] = FALSE]
  /\ pc' = [pc EXCEPT ![i] = [t \in Threads |-> "idle"]]
  /\ done' = [done EXCEPT ![i] = [t \in Threads |-> {}]]
  /\ results' = [results EXCEPT ![i] = {}]
  /\ UNCHANGED <<dbVars, dropped>>

\* An operator drops the table; what the version table records stays.
DropTable ==
  /\ dropped' = TRUE
  /\ table' = [table EXCEPT !["public"] = "absent"]
  /\ Fault
  /\ UNCHANGED <<versions, ran, dbProblem, pc, done, results>>

\* The steps of the two loops.
Loop(i, t) ==
  \/ Tick(i, t)
  \/ Check(i, t)
  \/ ReadVersions(i, t)
  \/ Apply(i, t)
  \/ ApplyConflicts(i, t)
  \/ Clear(i, t)
  \/ t = "worker" /\ Select(i)

Next ==
  \/ \E i \in Instances, t \in Threads : Loop(i, t) \/ RepairFails(i, t)
  \/ \E i \in Instances, outcome \in {"ok", "failed"} : InsertReturns(i, outcome)
  \/ \E i \in Instances : Insert(i) \/ CrashAndRestart(i)
  \/ DropTable

Spec == Init /\ [][Next]_vars

(***************************************************************************)
(* The tickers keep firing and database calls return; an INSERT's caller   *)
(* goes on.  Nothing is assumed of when, or whether, events are published. *)
(***************************************************************************)
Fairness ==
  /\ \A i \in Instances, t \in Threads : WF_vars(Loop(i, t))
  /\ \A i \in Instances, outcome \in {"ok", "failed"} : WF_vars(InsertReturns(i, outcome))

FairSpec == Spec /\ Fairness
-----------------------------------------------------------------------------
(***************************************************************************)
(* Properties.                                                             *)
(***************************************************************************)
\* Every variable has its type, and only the worker runs the query.
TypeOK ==
  /\ table \in [Schemas -> {"absent", "v1", "v2"}]
  /\ versions \subseteq Migrations
  /\ ran \in [Migrations -> Nat]
  /\ dbProblem \in [Instances -> BOOLEAN]
  /\ pc \in [Instances -> [Threads -> ThreadStates]]
  /\ \A i \in Instances : pc[i]["recovery"] # "select"
  /\ done \in [Instances -> [Threads -> SUBSET Migrations]]
  /\ \A i \in Instances, t \in Threads :
       IF pc[i][t] = "apply" THEN done[i][t] # Migrations ELSE done[i][t] = {}
  /\ results \in [Instances -> SUBSET {"ok", "failed"}]
  /\ dropped \in BOOLEAN
  /\ faults \in 0 .. MaxFaults

\* However many workers and recovery loops migrate at once, each script is
\* committed at most once and the recorded versions tell what the table looks like.
MigratedOnce ==
  /\ \A m \in Migrations : ran[m] <= 1
  /\ ~dropped => /\ versions = {} <=> table["public"] = "absent"
                 /\ versions = {1} <=> table["public"] = "v1"

\* While nobody drops the table, dbProblem is cleared only when the table is
\* there, although the goroutine that clears it looked some steps earlier.
ClearedOnlyWhenPresent ==
  [][\A i \in Instances :
       ~dropped /\ dbProblem[i] /\ ~dbProblem'[i] => OutboxExists \/ faults' # faults]_vars

\* Why both hold: a script that has run is recorded; nobody makes the table in another
\* schema; the scripts run in order; and while nobody drops it, a goroutine about to clear the flag, and a caller
\* whose INSERT succeeded, have seen a table that is still there.
RecoveryInv ==
  /\ TypeOK
  /\ MigratedOnce
  /\ \A m \in Migrations \ versions : ran[m] = 0
  /\ \A s \in Schemas \ {"public"} : table[s] = "absent"
  /\ ~dropped /\ 2 \in versions => 1 \in versions
  /\ ~dropped =>
       \A i \in Instances :
         "ok" \in results[i] \/ (\E t \in Threads : pc[i][t] = "clear")
           => table["public"] # "absent"

\* From any start, failures and racing migrations included, the worker's table comes
\* to exist and every process ends up without a problem, if nobody drops the table.
Recovers == <>[](dropped \/ (CanSelect /\ \A i \in Instances : ~dbProblem[i]))

\* The recovery loop "restores the outbox table": a process that knows of a problem
\* is eventually able to insert, be the table an old one or a dropped one.
InsertsRecover == \A i \in Instances : dbProblem[i] ~> CanInsert

\* The scripts leave the choice of the schema to search_path, so the migrations end
\* with the table that the worker reads.
MigratesConfiguredSchema == <>CanSelect
=============================================================================
