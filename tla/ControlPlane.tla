---------------------------- MODULE ControlPlane ----------------------------
(***************************************************************************)
(* The platform_control schema of a catalog and the tasks that work on it: *)
(* bootstrap_control (operations/control_tables.py), release_smoke         *)
(* (release_smoke.py), record_release (release_history.py) and a workload  *)
(* that persists a reconciliation report (reconciliation/audit.py).        *)
(*                                                                         *)
(* The tasks run side by side, each statement is a transaction of its own, *)
(* and a task may be killed between any two of them; a task that failed is *)
(* run again from its beginning.  The arguments have passed the checks     *)
(* that the tasks make before their first statement (the catalog is an     *)
(* identifier, git_sha a full SHA).  Nobody drops a table.                 *)
(***************************************************************************)
EXTENDS Naturals, Sequences, FiniteSets

CONSTANTS
    Tasks,
    Kind,       \* Kind[t]: "bootstrap", "smoke", "release" or "audit"
    Report,     \* Report[t]: [ensure_schema, kinds] of an audit, with the kinds of its results
    Workloads,  \* the sets of tasks that may run together
    MaxCrashes  \* bound: tasks killed

Kinds == {"bootstrap", "smoke", "release", "audit"}

ASSUME KindAssumption == Kind \in [Tasks -> Kinds]
ASSUME WorkloadsAssumption == Workloads \subseteq SUBSET Tasks
ASSUME CrashesAssumption == MaxCrashes \in Nat

Schema == "platform_control"

REQUIRED_TABLES ==
    <<"release_history", "pipeline_run", "table_run", "source_state",
      "reconciliation_run", "reconciliation_result", "quality_result",
      "repair_request", "repair_run", "schema_change_event", "incident_event">>

(* Faulty: one table is forgotten. *)
ddl_without_results ==
    <<Schema, "release_history", "pipeline_run", "table_run", "source_state",
      "reconciliation_run", "quality_result",
      "repair_request", "repair_run", "schema_change_event", "incident_event">>

(* Faulty: the schema is created last. *)
ddl_schema_last == Append(REQUIRED_TABLES, Schema)

(* The statements of control_table_ddl, each the object that it creates.   *)
control_table_ddl ==
    <<Schema, "release_history", "pipeline_run", "table_run", "source_state",
      "reconciliation_run", "reconciliation_result", "quality_result",
      "repair_request", "repair_run", "schema_change_event", "incident_event">>

Objects == {Schema} \cup {REQUIRED_TABLES[i] : i \in DOMAIN REQUIRED_TABLES}
                    \cup {control_table_ddl[i] : i \in DOMAIN control_table_ddl}

EvidenceTables == {"release_history", "reconciliation_run", "reconciliation_result"}

VARIABLES
    tables,  \* the catalog: an object is absent, declared by its DDL, or
             \* inferred from the first rows appended to it
    rows,    \* rows[t][table]: the batches of rows that t appended to a table
    state,   \* the state of each task
    pc,      \* the next statement of each task
    missing, \* whether a smoke check found a table missing so far
    killed,  \* history: how often a task was killed
    ready    \* history: the schema was complete when the task was last started

vars == <<tables, rows, state, pc, missing, killed, ready>>

-----------------------------------------------------------------------------
(* The statements of a task.                                               *)

Each(op, names) == [i \in DOMAIN names |-> [op |-> op, object |-> names[i]]]

(* Faulty: the results go first.                                           *)
append_results_first(kinds) ==
    IF kinds = {} THEN <<"reconciliation_run">>
    ELSE <<"reconciliation_result", "reconciliation_run">>

(* Faulty: the run is stored when it starts and when it ends.              *)
append_run_twice(kinds) ==
    IF kinds = {} THEN <<"reconciliation_run">>
    ELSE <<"reconciliation_run", "reconciliation_result", "reconciliation_run">>

(* The appends of a report with results of these kinds.                    *)
persist_reconciliation_report(kinds) ==
    IF kinds = {} THEN <<"reconciliation_run">>
    ELSE <<"reconciliation_run", "reconciliation_result">>

Steps == [t \in Tasks |->
    CASE Kind[t] = "bootstrap" -> Each("create", control_table_ddl)
      [] Kind[t] = "smoke"     -> Each("check", REQUIRED_TABLES)
      [] Kind[t] = "release"   -> Each("append", <<"release_history">>)
      [] Kind[t] = "audit"     ->
            (IF Report[t].ensure_schema THEN Each("create", control_table_ddl) ELSE << >>)
            \o Each("append", persist_reconciliation_report(Report[t].kinds))]

(* The tasks that create the control tables.                               *)
Creates(t) == Kind[t] = "bootstrap" \/ (Kind[t] = "audit" /\ Report[t].ensure_schema)

(* The variance of a source_position result is None, and createDataFrame   *)
(* cannot infer the type of a column that is None in every row.            *)
Untyped(t) == Kind[t] = "audit" /\ Report[t].kinds = {"source_position"}

Ready == \E t \in Tasks : state[t] = "returned" /\ Creates(t)

Init ==
    /\ tables = [object \in Objects |-> "absent"]
    /\ rows = [t \in Tasks |-> [table \in EvidenceTables |-> 0]]
    /\ \E active \in Workloads :
          state = [t \in Tasks |-> IF t \in active THEN "running" ELSE "unused"]
    /\ pc = [t \in Tasks |-> 1]
    /\ missing = [t \in Tasks |-> FALSE]
    /\ killed = [t \in Tasks |-> 0]
    /\ ready = [t \in Tasks |-> FALSE]

AtStep(t, op) == /\ state[t] = "running"
                 /\ pc[t] <= Len(Steps[t]) /\ Steps[t][pc[t]].op = op

object(t) == Steps[t][pc[t]].object

Advance(t) == /\ pc' = [pc EXCEPT ![t] = @ + 1]
              /\ UNCHANGED <<state, killed, ready>>

Fail(t) == /\ state' = [state EXCEPT ![t] = "failed"]
           /\ UNCHANGED <<tables, rows, pc, missing, killed, ready>>

(* CREATE SCHEMA or TABLE IF NOT EXISTS. *)
Create(t) ==
    /\ AtStep(t, "create")
    /\ IF object(t) # Schema /\ tables[Schema] = "absent" THEN Fail(t)
       ELSE /\ tables' = [tables EXCEPT ![object(t)] = IF @ = "absent" THEN "declared" ELSE @]
            /\ Advance(t)
            /\ UNCHANGED <<rows, missing>>

(* spark.catalog.tableExists *)
Check(t) ==
    /\ AtStep(t, "check")
    /\ missing' = [missing EXCEPT ![t] = @ \/ tables[object(t)] = "absent"]
    /\ Advance(t)
    /\ UNCHANGED <<tables, rows>>

(* Faulty: an append that fails is logged and forgotten.                   *)
SaveOrSkip(t) ==
    /\ AtStep(t, "append")
    /\ IF \/ tables[Schema] = "absent"
          \/ object(t) = "reconciliation_result" /\ Untyped(t)
       THEN UNCHANGED <<tables, rows>>
       ELSE /\ rows' = [rows EXCEPT ![t][object(t)] = @ + 1]
            /\ tables' = [tables EXCEPT ![object(t)] = IF @ = "absent" THEN "inferred" ELSE @]
    /\ Advance(t)
    /\ UNCHANGED missing

(* saveAsTable in append mode creates a missing table, with the schema of  *)
(* the rows; the schema object must be there.                              *)
SaveAsTable(t) ==
    /\ AtStep(t, "append")
    /\ IF \/ tables[Schema] = "absent"
          \/ object(t) = "reconciliation_result" /\ Untyped(t)
       THEN Fail(t)
       ELSE /\ rows' = [rows EXCEPT ![t][object(t)] = @ + 1]
            /\ tables' = [tables EXCEPT ![object(t)] = IF @ = "absent" THEN "inferred" ELSE @]
            /\ Advance(t)
            /\ UNCHANGED missing

(* Faulty: the smoke check returns whatever it found.                      *)
ReturnAnyway(t) ==
    /\ state[t] = "running" /\ pc[t] > Len(Steps[t])
    /\ state' = [state EXCEPT ![t] = "returned"]
    /\ UNCHANGED <<tables, rows, pc, missing, killed, ready>>

Return(t) ==
    /\ state[t] = "running" /\ pc[t] > Len(Steps[t])
    /\ state' = [state EXCEPT ![t] = IF missing[t] THEN "failed" ELSE "returned"]
    /\ UNCHANGED <<tables, rows, pc, missing, killed, ready>>

Crash(t) ==
    /\ state[t] = "running" /\ killed[t] < MaxCrashes
    /\ state' = [state EXCEPT ![t] = "failed"]
    /\ killed' = [killed EXCEPT ![t] = @ + 1]
    /\ UNCHANGED <<tables, rows, pc, missing, ready>>

(* Faulty: the rerun goes on where the failed run stopped.                 *)
Resume(t) ==
    /\ state[t] = "failed"
    /\ \A table \in EvidenceTables : rows[t][table] <= MaxCrashes
    /\ state' = [state EXCEPT ![t] = "running"]
    /\ pc' = [pc EXCEPT ![t] = @ + 1]
    /\ ready' = [ready EXCEPT ![t] = Ready]
    /\ UNCHANGED <<tables, rows, missing, killed>>

(* A rerun of the whole task.  A report that cannot be stored is not tried *)
(* again after MaxCrashes + 1 attempts; no other task reaches that bound.  *)
Retry(t) ==
    /\ state[t] = "failed"
    /\ \A table \in EvidenceTables : rows[t][table] <= MaxCrashes
    /\ state' = [state EXCEPT ![t] = "running"]
    /\ pc' = [pc EXCEPT ![t] = 1]
    /\ missing' = [missing EXCEPT ![t] = FALSE]
    /\ ready' = [ready EXCEPT ![t] = Ready]
    /\ UNCHANGED <<tables, rows, killed>>

Proceed(t) == Create(t) \/ Check(t) \/ SaveAsTable(t) \/ Return(t)

Next == \E t \in Tasks : Proceed(t) \/ Crash(t) \/ Retry(t)

(* A running task goes on, and a failed one is run again in the end.       *)
Fairness == \A t \in Tasks : WF_vars(Proceed(t) \/ Retry(t))

Spec == Init /\ [][Next]_vars /\ Fairness

-----------------------------------------------------------------------------
(* Type invariant.                                                         *)
TypeOK ==
    /\ tables \in [Objects -> {"absent", "declared", "inferred"}]
    /\ rows \in [Tasks -> [EvidenceTables -> Nat]]
    /\ state \in [Tasks -> {"unused", "running", "failed", "returned"}]
    /\ pc \in [Tasks -> Nat]
    /\ \A t \in Tasks : pc[t] \in 1..(Len(Steps[t]) + 1)
    /\ missing \in [Tasks -> BOOLEAN]
    /\ killed \in [Tasks -> 0..MaxCrashes]
    /\ ready \in [Tasks -> BOOLEAN]

(* Whoever created the control tables or found them complete is right,     *)
(* although the tables are created, and looked at, one statement at a time *)
(* (release_smoke.py assert_control_plane_ready, control_tables.py         *)
(* ensure_control_tables).                                                 *)
ReturnedMeansComplete ==
    \A t \in Tasks :
        (state[t] = "returned" /\ (Creates(t) \/ Kind[t] = "smoke"))
            => \A name \in Objects : tables[name] # "absent"

(* The smoke check finds nothing missing once the tables were created: the *)
(* list of required tables and the list of statements go together.         *)
SmokeAcceptsBootstrap ==
    \A t \in Tasks : ready[t] => ~ missing[t]

(* A result is never stored without the run that it belongs to             *)
(* (audit.py persist_reconciliation_report appends the run first).         *)
ResultsHaveRun ==
    \A t \in Tasks : rows[t]["reconciliation_result"] <= rows[t]["reconciliation_run"]

(* Evidence is stored again only because its task was killed before it     *)
(* returned, once for each time (audit.py, release_history.py).            *)
DuplicatesOnlyAfterCrash ==
    \A t \in Tasks : \A table \in EvidenceTables :
        ~ Untyped(t) => rows[t][table] <= killed[t] + 1

(* A schema inferred from rows (all columns nullable, and kept by a later  *)
(* CREATE TABLE IF NOT EXISTS) comes only from a task that neither creates *)
(* the tables nor was started after they were: one that was cannot meet a  *)
(* missing table, however its appends, its kills and the CREATEs of others *)
(* interleave (audit.py ensure_schema, control_tables.py).                 *)
PreparedTasksInferNothing ==
    [][\A name \in Objects :
           (tables[name] = "absent" /\ tables'[name] = "inferred")
               => \E t \in Tasks : rows'[t] # rows[t] /\ ~ Creates(t) /\ ~ ready[t]]_vars

(* A task that creates the control tables itself, or was started when they *)
(* were complete, has nothing to fail on: it is only ever stopped from     *)
(* outside, wherever other tasks and its own earlier attempts have come.   *)
(* (For a smoke check this is what SmokeAcceptsBootstrap is about.)        *)
FailsOnlyWhenKilled ==
    [][\A t \in Tasks :
           (state[t] = "running" /\ state'[t] = "failed" /\ ~ Untyped(t)
               /\ (Creates(t) \/ ready[t])) => killed'[t] > killed[t]]_vars

Evidence == {t \in Tasks : Kind[t] \in {"release", "audit"}}

(* A report is stored when its last batch is.                              *)
LastBatch(t) == IF Kind[t] = "release" THEN "release_history"
                ELSE IF Report[t].kinds = {} THEN "reconciliation_run"
                ELSE "reconciliation_result"

Log == INSTANCE EvidenceLog WITH
          Records      <- Evidence,
          copies       <- [t \in Evidence |-> rows[t][LastBatch(t)]],
          acknowledged <- {t \in Evidence : state[t] = "returned"}

(* The evidence is an at-least-once log: what record_release and           *)
(* persist_reconciliation_report acknowledged by returning is stored       *)
(* completely, and stays.                                                  *)
ImplementsEvidenceLog == Log!Spec

(* Whatever is killed in whatever order, every task comes to its end when  *)
(* it is run again: the statements can be repeated.  The exception is a    *)
(* report that createDataFrame cannot type.                                *)
EveryTaskReturns ==
    \A t \in Tasks : ~ Untyped(t) => <>(state[t] \in {"returned", "unused"})
=============================================================================
