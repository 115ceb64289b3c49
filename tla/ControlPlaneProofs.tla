------------------------- MODULE ControlPlaneProofs -------------------------
(***************************************************************************)
(* Theorems about the control plane, for every set of tasks, reports and   *)
(* number of crashes.                                                      *)
(***************************************************************************)
EXTENDS ControlPlane, SequenceTheorems, TLAPS

USE DEF vars

-----------------------------------------------------------------------------
(* The statements of the tasks.                                            *)

LEMMA Lists ==
    /\ DOMAIN control_table_ddl = 1..12 /\ Len(control_table_ddl) = 12
    /\ control_table_ddl \in Seq(Objects)
    /\ DOMAIN REQUIRED_TABLES = 1..11 /\ Len(REQUIRED_TABLES) = 11
    /\ REQUIRED_TABLES \in Seq(Objects)
<1>1. /\ DOMAIN control_table_ddl = 1..12 /\ Len(control_table_ddl) = 12
      /\ control_table_ddl \in Seq({control_table_ddl[i] : i \in DOMAIN control_table_ddl})
  BY DEF control_table_ddl
<1>2. /\ DOMAIN REQUIRED_TABLES = 1..11 /\ Len(REQUIRED_TABLES) = 11
      /\ REQUIRED_TABLES \in Seq({REQUIRED_TABLES[i] : i \in DOMAIN REQUIRED_TABLES})
  BY DEF REQUIRED_TABLES
<1> QED BY <1>1, <1>2 DEF Objects

(* Every required table is created: the two lists go together. *)
LEMMA RequiredAreCreated ==
    /\ \A name \in Objects : \E i \in 1..12 : control_table_ddl[i] = name
    /\ \A name \in Objects : name = Schema \/ \E i \in 1..11 : REQUIRED_TABLES[i] = name
    /\ EvidenceTables \subseteq Objects \ {Schema}
    /\ Schema \in Objects
<1>1. Objects = {Schema, "release_history", "pipeline_run", "table_run", "source_state",
      "reconciliation_run", "reconciliation_result", "quality_result",
      "repair_request", "repair_run", "schema_change_event", "incident_event"}
  BY DEF Objects, control_table_ddl, REQUIRED_TABLES
<1>2. \A name \in Objects : \E i \in 1..12 : control_table_ddl[i] = name
  BY <1>1 DEF control_table_ddl
<1>3. \A name \in Objects : name = Schema \/ \E i \in 1..11 : REQUIRED_TABLES[i] = name
  BY <1>1 DEF REQUIRED_TABLES
<1>4. EvidenceTables \subseteq Objects \ {Schema} /\ Schema \in Objects
  BY <1>1 DEF EvidenceTables, Schema
<1> QED BY <1>2, <1>3, <1>4

Statement == [op : {"create", "check", "append"}, object : Objects]

LEMMA EachProperties ==
    ASSUME NEW op \in {"create", "check", "append"}, NEW names \in Seq(Objects)
    PROVE  /\ Each(op, names) \in Seq(Statement)
           /\ Len(Each(op, names)) = Len(names)
           /\ \A i \in 1..Len(names) : Each(op, names)[i] \in Statement
           /\ \A i \in 1..Len(names) :
                 Each(op, names)[i].op = op /\ Each(op, names)[i].object = names[i]
<1>1. DOMAIN names = 1..Len(names) /\ Len(names) \in Nat /\ \A i \in DOMAIN names : names[i] \in Objects
  OBVIOUS
<1> DEFINE e == [i \in 1..Len(names) |-> [op |-> op, object |-> names[i]]]
<1>2. Each(op, names) = e
  BY <1>1 DEF Each
<1>3. \A i \in 1..Len(names) : e[i] \in Statement /\ e[i].op = op /\ e[i].object = names[i]
  BY <1>1 DEF Statement
<1>4. e \in [1..Len(names) -> Statement]
  BY <1>3
<1>5. e \in Seq(Statement) /\ Len(e) = Len(names)
  BY <1>1, <1>4
<1> QED BY <1>2, <1>3, <1>5

(* The appends of a task, and the number of statements before them. *)
Appends(t) == CASE Kind[t] = "release" -> <<"release_history">>
                [] Kind[t] = "audit"   -> persist_reconciliation_report(Report[t].kinds)
                [] OTHER               -> << >>

Before(t) == IF Creates(t) THEN 12 ELSE 0

LEMMA AppendsProperties ==
    ASSUME NEW t \in Tasks
    PROVE  /\ Appends(t) \in Seq(Objects) /\ Len(Appends(t)) \in 0..2
           /\ \A i \in 1..Len(Appends(t)) : Appends(t)[i] \in EvidenceTables
           /\ \A i, j \in 1..Len(Appends(t)) : i # j => Appends(t)[i] # Appends(t)[j]
           /\ \A i \in 1..Len(Appends(t)) :
                 Appends(t)[i] = "reconciliation_result" => i = 2 /\ Appends(t)[1] = "reconciliation_run"
           /\ Kind[t] \in {"bootstrap", "smoke"} => Len(Appends(t)) = 0
           /\ t \in Evidence => /\ Len(Appends(t)) \in {1, 2}
                                /\ Appends(t)[Len(Appends(t))] = LastBatch(t)
<1>1. \A table \in EvidenceTables : table \in Objects
  BY RequiredAreCreated
<1>2. CASE Kind[t] = "release"
  <2>1. Appends(t) = <<"release_history">>
    BY <1>2 DEF Appends
  <2> QED BY <1>1, <1>2, <2>1 DEF EvidenceTables, LastBatch, Evidence
<1>3. CASE Kind[t] = "audit" /\ Report[t].kinds = {}
  <2>1. Appends(t) = <<"reconciliation_run">>
    BY <1>3 DEF Appends, persist_reconciliation_report
  <2> QED BY <1>1, <1>3, <2>1 DEF EvidenceTables, LastBatch, Evidence
<1>4. CASE Kind[t] = "audit" /\ Report[t].kinds # {}
  <2>1. Appends(t) = <<"reconciliation_run", "reconciliation_result">>
    BY <1>4 DEF Appends, persist_reconciliation_report
  <2> QED BY <1>1, <1>4, <2>1 DEF EvidenceTables, LastBatch, Evidence
<1>5. CASE Kind[t] \in {"bootstrap", "smoke"}
  <2>1. Appends(t) = << >>
    BY <1>5 DEF Appends
  <2> QED BY <1>5, <2>1 DEF Evidence
<1> QED BY <1>2, <1>3, <1>4, <1>5, KindAssumption DEF Kinds

(* A smoke check looks at every required table, any other task creates     *)
(* every object if it creates one, and then appends its batches.           *)
LEMMA StepsProperties ==
    ASSUME NEW t \in Tasks
    PROVE  /\ Len(Steps[t]) \in Nat
           /\ \A i \in 1..Len(Steps[t]) : Steps[t][i] \in Statement
           /\ Kind[t] = "smoke" =>
                 /\ Len(Steps[t]) = 11
                 /\ \A i \in 1..11 : /\ Steps[t][i].op = "check"
                                     /\ Steps[t][i].object = REQUIRED_TABLES[i]
           /\ Kind[t] # "smoke" =>
                 /\ Len(Steps[t]) = Before(t) + Len(Appends(t))
                 /\ \A i \in 1..Before(t) : /\ Steps[t][i].op = "create"
                                            /\ Steps[t][i].object = control_table_ddl[i]
                 /\ \A i \in 1..Len(Appends(t)) :
                       /\ Steps[t][Before(t) + i].op = "append"
                       /\ Steps[t][Before(t) + i].object = Appends(t)[i]
<1> DEFINE ddl == Each("create", control_table_ddl)
           app == Each("append", Appends(t))
           looks == Each("check", REQUIRED_TABLES)
<1>1. /\ ddl \in Seq(Statement) /\ Len(ddl) = 12
      /\ \A i \in 1..12 : ddl[i] \in Statement
      /\ \A i \in 1..12 : ddl[i].op = "create" /\ ddl[i].object = control_table_ddl[i]
  <2> HIDE DEF ddl
  <2>1. /\ ddl \in Seq(Statement) /\ Len(ddl) = Len(control_table_ddl)
        /\ \A i \in 1..Len(control_table_ddl) : ddl[i] \in Statement
        /\ \A i \in 1..Len(control_table_ddl) :
              ddl[i].op = "create" /\ ddl[i].object = control_table_ddl[i]
    <3>1. "create" \in {"create", "check", "append"} /\ control_table_ddl \in Seq(Objects)
      BY Lists
    <3> QED BY <3>1, EachProperties DEF ddl
  <2> QED BY <2>1, Lists
<1>0. /\ looks \in Seq(Statement) /\ Len(looks) = 11
      /\ \A i \in 1..11 : looks[i] \in Statement
      /\ \A i \in 1..11 : looks[i].op = "check" /\ looks[i].object = REQUIRED_TABLES[i]
  <2> HIDE DEF looks
  <2>1. /\ looks \in Seq(Statement) /\ Len(looks) = Len(REQUIRED_TABLES)
        /\ \A i \in 1..Len(REQUIRED_TABLES) : looks[i] \in Statement
        /\ \A i \in 1..Len(REQUIRED_TABLES) :
              looks[i].op = "check" /\ looks[i].object = REQUIRED_TABLES[i]
    <3>1. "check" \in {"create", "check", "append"} /\ REQUIRED_TABLES \in Seq(Objects)
      BY Lists
    <3> QED BY <3>1, EachProperties DEF looks
  <2> QED BY <2>1, Lists
<1>2. /\ app \in Seq(Statement) /\ Len(app) = Len(Appends(t)) /\ Len(app) \in Nat
      /\ \A i \in 1..Len(Appends(t)) : app[i] \in Statement
      /\ \A i \in 1..Len(Appends(t)) : app[i].op = "append" /\ app[i].object = Appends(t)[i]
  <2>1. "append" \in {"create", "check", "append"} /\ Appends(t) \in Seq(Objects)
    BY AppendsProperties
  <2>2. Len(Appends(t)) \in Nat
    BY AppendsProperties
  <2> QED BY <2>1, <2>2, EachProperties
<1>3. CASE Kind[t] = "smoke"
  <2>1. Steps[t] = looks
    BY <1>3 DEF Steps
  <2> HIDE DEF looks
  <2>2. Len(Steps[t]) = 11 /\ \A i \in 1..11 : Steps[t][i] \in Statement
    BY <1>0, <2>1, Zenon
  <2>3. \A i \in 1..11 : Steps[t][i].op = "check" /\ Steps[t][i].object = REQUIRED_TABLES[i]
    BY <1>0, <2>1, Zenon
  <2> QED BY <1>3, <2>2, <2>3
<1>4. CASE Kind[t] = "bootstrap"
  <2>1. Steps[t] = ddl
    BY <1>4 DEF Steps
  <2>2. Before(t) = 12 /\ Len(Appends(t)) = 0
    BY <1>4, AppendsProperties DEF Before, Creates
  <2> QED BY <1>1, <1>4, <2>1, <2>2
<1>5. CASE Kind[t] = "release"
  <2>1. Appends(t) = <<"release_history">> /\ Steps[t] = app
    BY <1>5 DEF Steps, Appends
  <2>2. Before(t) = 0
    BY <1>5 DEF Before, Creates
  <2> QED BY <1>2, <1>5, <2>1, <2>2
<1>6. CASE Kind[t] = "audit" /\ ~ Report[t].ensure_schema
  <2>1. Steps[t] = << >> \o app
    BY <1>6 DEF Steps, Appends
  <2>2. Steps[t] = app
    BY <2>1, <1>2, ConcatEmptySeq
  <2>3. Before(t) = 0
    BY <1>6 DEF Before, Creates
  <2> QED BY <1>2, <1>6, <2>2, <2>3
<1>7. CASE Kind[t] = "audit" /\ Report[t].ensure_schema
  <2>1. Steps[t] = ddl \o app
    BY <1>7 DEF Steps, Appends
  <2>2. Before(t) = 12
    BY <1>7 DEF Before, Creates
  <2>3. /\ Len(Steps[t]) = 12 + Len(app) /\ Steps[t] \in Seq(Statement)
        /\ \A i \in 1..(12 + Len(app)) : Steps[t][i] = IF i <= 12 THEN ddl[i] ELSE app[i - 12]
    <3> HIDE DEF ddl, app
    <3>1. ddl \in Seq(Statement) /\ app \in Seq(Statement)
      BY <1>1, <1>2
    <3>2. /\ ddl \o app \in Seq(Statement)
          /\ Len(ddl \o app) = Len(ddl) + Len(app)
          /\ \A i \in 1..(Len(ddl) + Len(app)) :
                (ddl \o app)[i] = IF i <= Len(ddl) THEN ddl[i] ELSE app[i - Len(ddl)]
      BY <3>1, ConcatProperties, Zenon
    <3>3. Len(ddl) = 12
      BY <1>1
    <3> QED BY <2>1, <3>2, <3>3, Zenon
  <2>4. \A i \in 1..12 : Steps[t][i] = ddl[i]
    <3> TAKE i \in 1..12
    <3>1. i \in 1..(12 + Len(app)) /\ i <= 12
      BY <1>2
    <3> QED BY <2>3, <3>1
  <2>5. \A i \in 1..Len(app) : Steps[t][12 + i] = app[i]
    <3> TAKE i \in 1..Len(app)
    <3>1. 12 + i \in 1..(12 + Len(app)) /\ ~ (12 + i <= 12) /\ (12 + i) - 12 = i
      BY <1>2
    <3> QED BY <2>3, <3>1
  <2> HIDE DEF ddl, app
  <2>6. Len(Steps[t]) \in Nat /\ \A i \in 1..Len(Steps[t]) : Steps[t][i] \in Statement
    BY <2>3, LenProperties
  <2>7. Len(Steps[t]) = Before(t) + Len(Appends(t))
    BY <1>2, <2>2, <2>3
  <2>8. \A i \in 1..Before(t) : /\ Steps[t][i].op = "create"
                                /\ Steps[t][i].object = control_table_ddl[i]
    BY <1>1, <2>2, <2>4
  <2>9. \A i \in 1..Len(Appends(t)) : /\ Steps[t][Before(t) + i].op = "append"
                                      /\ Steps[t][Before(t) + i].object = Appends(t)[i]
    BY <1>2, <2>2, <2>5
  <2> QED BY <1>7, <2>6, <2>7, <2>8, <2>9
<1> QED BY <1>3, <1>4, <1>5, <1>6, <1>7, KindAssumption DEF Kinds

(* What the proofs use of the statements. *)
Runs(t, i, op) == i \in 1..Len(Steps[t]) /\ Steps[t][i].op = op

LEMMA StepsFacts ==
    ASSUME NEW t \in Tasks
    PROVE  /\ Len(Steps[t]) \in Nat
           /\ \A i \in 1..Len(Steps[t]) :
                 Steps[t][i].object \in Objects /\ Steps[t][i].op \in {"create", "check", "append"}
           /\ \A i : Runs(t, i, "check") => Kind[t] = "smoke"
           /\ \A i : Runs(t, i, "append") => /\ Kind[t] # "smoke"
                                             /\ Steps[t][i].object \in EvidenceTables
           /\ \A i, j : (/\ Runs(t, i, "append") /\ Runs(t, j, "append")
                         /\ Steps[t][i].object = Steps[t][j].object) => i = j
           /\ \A i : (Runs(t, i, "append") /\ Steps[t][i].object = "reconciliation_result") =>
                        /\ i > 1 /\ Steps[t][i - 1].op = "append"
                        /\ Steps[t][i - 1].object = "reconciliation_run"
           /\ t \in Evidence => /\ Kind[t] # "smoke" /\ Len(Steps[t]) > 0
                                /\ Steps[t][Len(Steps[t])].op = "append"
                                /\ Steps[t][Len(Steps[t])].object = LastBatch(t)
<1>1. CASE Kind[t] = "smoke"
  <2>1. Len(Steps[t]) = 11 /\ \A i \in 1..11 : Steps[t][i].op = "check"
    BY <1>1, StepsProperties
  <2>2. \A i \in 1..Len(Steps[t]) :
            Steps[t][i].object \in Objects /\ Steps[t][i].op \in {"create", "check", "append"}
    BY StepsProperties DEF Statement
  <2>3. \A i : ~ Runs(t, i, "append")
    BY <2>1 DEF Runs
  <2>4. t \notin Evidence
    BY <1>1 DEF Evidence
  <2> QED BY <1>1, <2>1, <2>2, <2>3, <2>4
<1>2. CASE Kind[t] # "smoke"
  <2> DEFINE b == Before(t)
             n == Len(Appends(t))
  <2>1. b \in {0, 12} /\ n \in 0..2 /\ Len(Steps[t]) = b + n
    BY <1>2, StepsProperties, AppendsProperties DEF Before
  <2>2. \A i \in 1..Len(Steps[t]) :
            Steps[t][i].object \in Objects /\ Steps[t][i].op \in {"create", "check", "append"}
    BY StepsProperties DEF Statement
  <2>3. \A i \in 1..b : Steps[t][i].op = "create"
    BY <1>2, StepsProperties
  <2>4. \A i \in 1..n : Steps[t][b + i].op = "append" /\ Steps[t][b + i].object = Appends(t)[i]
    BY <1>2, StepsProperties
  <2> HIDE DEF b, n
  <2>5. \A i : Runs(t, i, "append") =>
            /\ i - b \in 1..n /\ Steps[t][i].object = Appends(t)[i - b]
    <3> SUFFICES ASSUME NEW i, Runs(t, i, "append")
                 PROVE  i - b \in 1..n /\ Steps[t][i].object = Appends(t)[i - b]
      OBVIOUS
    <3>1. i \in 1..(b + n) /\ ~ (i \in 1..b)
      BY <2>1, <2>3 DEF Runs
    <3>2. i - b \in 1..n /\ b + (i - b) = i
      BY <2>1, <3>1
    <3> QED BY <2>4, <3>2
  <2>6. \A i : ~ Runs(t, i, "check")
    <3> SUFFICES ASSUME NEW i \in 1..(b + n)
                 PROVE  Steps[t][i].op # "check"
      BY <2>1 DEF Runs
    <3>1. CASE i \in 1..b
      BY <2>3, <3>1
    <3>2. CASE ~ (i \in 1..b)
      <4>1. i - b \in 1..n /\ b + (i - b) = i
        BY <2>1, <3>2
      <4> QED BY <2>4, <4>1
    <3> QED BY <3>1, <3>2
  <2>7. \A i : Runs(t, i, "append") => Steps[t][i].object \in EvidenceTables
    BY <2>5, AppendsProperties DEF n
  <2>8. \A i, j : (/\ Runs(t, i, "append") /\ Runs(t, j, "append")
                   /\ Steps[t][i].object = Steps[t][j].object) => i = j
    <3> SUFFICES ASSUME NEW i, NEW j, Runs(t, i, "append"), Runs(t, j, "append"),
                        Steps[t][i].object = Steps[t][j].object
                 PROVE  i = j
      OBVIOUS
    <3>1. i - b \in 1..n /\ j - b \in 1..n /\ Appends(t)[i - b] = Appends(t)[j - b]
      BY <2>5
    <3>2. i - b = j - b
      BY <3>1, AppendsProperties DEF n
    <3>3. i \in Int /\ j \in Int
      BY <2>1 DEF Runs
    <3> QED BY <2>1, <3>2, <3>3
  <2>9. \A i : (Runs(t, i, "append") /\ Steps[t][i].object = "reconciliation_result") =>
            /\ i > 1 /\ Steps[t][i - 1].op = "append"
            /\ Steps[t][i - 1].object = "reconciliation_run"
    <3> SUFFICES ASSUME NEW i, Runs(t, i, "append"), Steps[t][i].object = "reconciliation_result"
                 PROVE  /\ i > 1 /\ Steps[t][i - 1].op = "append"
                        /\ Steps[t][i - 1].object = "reconciliation_run"
      OBVIOUS
    <3>1. i - b \in 1..n /\ Appends(t)[i - b] = "reconciliation_result" /\ i \in Int
      BY <2>1, <2>5 DEF Runs
    <3>2. i - b = 2 /\ Appends(t)[1] = "reconciliation_run"
      BY <3>1, AppendsProperties DEF n
    <3>3. i - 1 = b + 1 /\ 1 \in 1..n /\ i > 1
      BY <2>1, <3>1, <3>2
    <3> QED BY <2>4, <3>2, <3>3
  <2>10. t \in Evidence => /\ Len(Steps[t]) > 0
                           /\ Steps[t][Len(Steps[t])].op = "append"
                           /\ Steps[t][Len(Steps[t])].object = LastBatch(t)
    <3> HAVE t \in Evidence
    <3>1. n \in {1, 2} /\ Appends(t)[n] = LastBatch(t)
      BY AppendsProperties DEF n
    <3>2. n \in 1..n /\ Len(Steps[t]) > 0
      BY <2>1, <3>1
    <3> QED BY <2>1, <2>4, <3>1, <3>2
  <2> QED BY <1>2, <2>1, <2>2, <2>6, <2>7, <2>8, <2>9, <2>10 DEF Evidence
<1> QED BY <1>1, <1>2

-----------------------------------------------------------------------------
(* The inductive invariant.                                                *)

Exists(name) == tables[name] # "absent"
Complete == \A name \in Objects : Exists(name)

(* There are no tables without the schema. *)
SchemaFirst == \A name \in Objects : Exists(name) => Exists(Schema)

(* Every statement before pc had its effect, every look found its table.   *)
CreatedStay == \A t \in Tasks : \A i \in 1..Len(Steps[t]) :
    (i < pc[t] /\ Steps[t][i].op = "create") => Exists(Steps[t][i].object)

LookedAt == \A t \in Tasks : \A i \in 1..Len(Steps[t]) :
    (i < pc[t] /\ Steps[t][i].op = "check" /\ ~ missing[t]) => Exists(Steps[t][i].object)

Ended == \A t \in Tasks : state[t] = "returned" => pc[t] = Len(Steps[t]) + 1 /\ ~ missing[t]

(* Only a smoke check finds tables missing, and not once they are there.   *)
OnlySmokeMisses == \A t \in Tasks : missing[t] => Kind[t] = "smoke" /\ ~ ready[t]

ReadyComplete == \A t \in Tasks : ready[t] => Complete

(* A report about to append its results has appended its run in this       *)
(* attempt.                                                                *)
RunFirst == \A t \in Tasks :
    /\ rows[t]["reconciliation_result"] <= rows[t]["reconciliation_run"]
    /\ (/\ Runs(t, pc[t], "append")
        /\ Steps[t][pc[t]].object = "reconciliation_result") =>
            rows[t]["reconciliation_result"] < rows[t]["reconciliation_run"]

Stored == \A t \in Evidence : pc[t] = Len(Steps[t]) + 1 => rows[t][LastBatch(t)] > 0

(* Nobody stores anything without the schema, and a batch that the present *)
(* attempt has yet to append was stored by killed attempts only.           *)
StoredOnce == \A t \in Tasks : \A table \in EvidenceTables :
    /\ (tables[Schema] = "absent" \/ Kind[t] = "smoke") => rows[t][table] = 0
    /\ ~ Untyped(t) =>
          /\ rows[t][table] <= killed[t] + 1
          /\ (\/ state[t] = "failed"
              \/ \E i \in 1..Len(Steps[t]) : /\ i >= pc[t] /\ Runs(t, i, "append")
                                             /\ Steps[t][i].object = table) =>
                rows[t][table] <= killed[t]

IInv == /\ TypeOK /\ SchemaFirst /\ CreatedStay /\ LookedAt /\ Ended /\ OnlySmokeMisses
        /\ ReadyComplete /\ RunFirst /\ Stored /\ StoredOnce

(* Who returned after creating, or looking at, the tables, did it for all. *)
LEMMA ReturnedComplete ==
    ASSUME IInv, NEW t \in Tasks, state[t] = "returned", Creates(t) \/ Kind[t] = "smoke"
    PROVE  Complete
<1> USE DEF IInv
<1>0. pc[t] = Len(Steps[t]) + 1 /\ ~ missing[t] /\ Len(Steps[t]) \in Nat
  BY StepsFacts DEF Ended
<1>1. CASE Creates(t) /\ Kind[t] # "smoke"
  <2>1. Before(t) = 12 /\ Len(Steps[t]) >= 12
    BY <1>1, StepsProperties, AppendsProperties DEF Before
  <2>2. \A i \in 1..12 : /\ Steps[t][i].op = "create"
                         /\ Steps[t][i].object = control_table_ddl[i]
    BY <1>1, <2>1, StepsProperties
  <2>3. \A i \in 1..12 : tables[control_table_ddl[i]] # "absent"
    <3> TAKE i \in 1..12
    <3>1. i \in 1..Len(Steps[t]) /\ i < pc[t]
      BY <1>0, <2>1
    <3> QED BY <2>2, <3>1 DEF CreatedStay, Exists
  <2>4. \A name \in Objects : tables[name] # "absent"
    BY <2>3, RequiredAreCreated
  <2> QED BY <2>4 DEF Complete, Exists
<1>2. CASE Kind[t] = "smoke"
  <2>1. Len(Steps[t]) = 11 /\ \A i \in 1..11 : /\ Steps[t][i].op = "check"
                                              /\ Steps[t][i].object = REQUIRED_TABLES[i]
    BY <1>2, StepsProperties
  <2>3. \A i \in 1..11 : tables[REQUIRED_TABLES[i]] # "absent"
    <3> TAKE i \in 1..11
    <3>1. i \in 1..Len(Steps[t]) /\ i < pc[t]
      BY <1>0, <2>1
    <3> QED BY <1>0, <2>1, <3>1 DEF LookedAt, Exists
  <2>4. tables[Schema] # "absent"
    <3>1. REQUIRED_TABLES[1] \in Objects
      BY Lists DEF Objects
    <3> QED BY <2>3, <3>1 DEF SchemaFirst, Exists
  <2>5. \A name \in Objects : tables[name] # "absent"
    BY <2>3, <2>4, RequiredAreCreated
  <2> QED BY <2>5 DEF Complete, Exists
<1>3. Creates(t) => Kind[t] # "smoke"
  BY DEF Creates
<1> QED BY <1>1, <1>2, <1>3

LEMMA InitInvariant == Init => IInv
<1> SUFFICES ASSUME Init PROVE IInv
  OBVIOUS
<1>1. \A t \in Tasks : pc[t] = 1 /\ state[t] # "returned" /\ state[t] # "failed" /\ ~ missing[t]
                       /\ ~ ready[t] /\ killed[t] = 0
                       /\ \A table \in EvidenceTables : rows[t][table] = 0
  BY DEF Init
<1>2. TypeOK
  <2>1. /\ tables \in [Objects -> {"absent", "declared", "inferred"}]
        /\ rows \in [Tasks -> [EvidenceTables -> Nat]]
        /\ state \in [Tasks -> {"unused", "running", "failed", "returned"}]
    BY DEF Init
  <2>2. /\ pc \in [Tasks -> Nat] /\ missing \in [Tasks -> BOOLEAN]
        /\ ready \in [Tasks -> BOOLEAN] /\ killed \in [Tasks -> 0..MaxCrashes]
    BY CrashesAssumption DEF Init
  <2>3. \A t \in Tasks : pc[t] \in 1..(Len(Steps[t]) + 1)
    BY <1>1, StepsFacts
  <2> QED BY <2>1, <2>2, <2>3 DEF TypeOK
<1>3. SchemaFirst /\ CreatedStay /\ LookedAt
  <2>1. SchemaFirst
    BY DEF Init, SchemaFirst, Exists
  <2> QED BY <2>1, <1>1, StepsFacts DEF CreatedStay, LookedAt
<1>4. Ended /\ OnlySmokeMisses /\ ReadyComplete
  BY <1>1 DEF Ended, OnlySmokeMisses, ReadyComplete
<1>5. RunFirst
  <2>1. {"reconciliation_run", "reconciliation_result"} \subseteq EvidenceTables
    BY DEF EvidenceTables
  <2> QED BY <1>1, <2>1, StepsFacts DEF RunFirst
<1>6. Stored
  BY <1>1, StepsFacts DEF Stored, Evidence
<1>7. StoredOnce
  BY <1>1 DEF StoredOnce
<1> QED BY <1>2, <1>3, <1>4, <1>5, <1>6, <1>7 DEF IInv

(* A step that only stops or ends a task: a failure, a crash, a return.    *)
LEMMA Stopping ==
    ASSUME IInv, NEW t \in Tasks, NEW s \in {"failed", "returned"},
           UNCHANGED <<tables, rows, pc, missing, ready>>,
           state' = [state EXCEPT ![t] = s],
           killed' \in [Tasks -> 0..MaxCrashes],
           \A u \in Tasks : u # t => killed'[u] = killed[u],
           killed'[t] >= killed[t],
           s = "returned" => pc[t] = Len(Steps[t]) + 1 /\ ~ missing[t],
           s = "failed" => \/ killed'[t] = killed[t] + 1
                           \/ \A table \in EvidenceTables : ~ Untyped(t) => rows[t][table] = 0
    PROVE  IInv'
<1> USE DEF IInv
<1>0. /\ state \in [Tasks -> {"unused", "running", "failed", "returned"}]
      /\ killed \in [Tasks -> 0..MaxCrashes] /\ rows \in [Tasks -> [EvidenceTables -> Nat]]
  BY DEF TypeOK
<1>1. TypeOK'
  <2>1. state' \in [Tasks -> {"unused", "running", "failed", "returned"}]
    BY <1>0
  <2> QED BY <2>1 DEF TypeOK
<1>2. SchemaFirst' /\ CreatedStay' /\ LookedAt'
  BY DEF SchemaFirst, CreatedStay, LookedAt, Exists
<1>3. Ended'
  BY <1>0 DEF Ended
<1>4. OnlySmokeMisses' /\ ReadyComplete'
  BY DEF OnlySmokeMisses, ReadyComplete, Complete, Exists
<1>5. RunFirst' /\ Stored'
  BY DEF RunFirst, Stored, Runs
<1>6. StoredOnce'
  <2> SUFFICES ASSUME NEW u \in Tasks, NEW table \in EvidenceTables
               PROVE  /\ (tables[Schema] = "absent" \/ Kind[u] = "smoke") => rows[u][table] = 0
                      /\ ~ Untyped(u) =>
                           /\ rows[u][table] <= killed'[u] + 1
                           /\ (\/ state'[u] = "failed"
                               \/ \E i \in 1..Len(Steps[u]) : /\ i >= pc[u] /\ Runs(u, i, "append")
                                                              /\ Steps[u][i].object = table) =>
                                 rows[u][table] <= killed'[u]
    BY DEF StoredOnce, Runs
  <2>1. rows[u][table] \in Nat /\ killed[u] \in Nat /\ killed'[u] \in Nat /\ killed'[u] >= killed[u]
    <3>1. rows[u] \in [EvidenceTables -> Nat]
      BY <1>0
    <3>2. rows[u][table] \in Nat
      BY <3>1
    <3>3. killed[u] \in 0..MaxCrashes /\ killed'[u] \in 0..MaxCrashes
      BY <1>0
    <3>4. killed'[u] >= killed[u]
      BY <3>3, CrashesAssumption
    <3> QED BY <3>2, <3>3, <3>4, CrashesAssumption
  <2>2. CASE u # t
    <3>1. killed'[u] = killed[u] /\ state'[u] = state[u]
      BY <1>0, <2>2
    <3> QED BY <3>1 DEF StoredOnce
  <2>3. CASE u = t
    <3>1. state'[u] = s
      BY <1>0, <2>3
    <3>2. CASE s = "failed"
      <4>1. ~ Untyped(u) => rows[u][table] <= killed'[u]
        BY <2>1, <2>3, <3>2 DEF StoredOnce
      <4> QED BY <2>1, <4>1 DEF StoredOnce
    <3>3. CASE s = "returned"
      <4>1. ~ Untyped(u) => rows[u][table] <= killed'[u] + 1
        BY <2>1 DEF StoredOnce
      <4>2. ~ \E i \in 1..Len(Steps[u]) : i >= pc[u]
        BY <2>3, <3>3, StepsFacts
      <4> QED BY <3>1, <3>3, <4>1, <4>2 DEF StoredOnce
    <3> QED BY <3>2, <3>3
  <2> QED BY <2>2, <2>3
<1> QED BY <1>1, <1>2, <1>3, <1>4, <1>5, <1>6

(* A step that executes the next statement of a task.                      *)
LEMMA Advancing ==
    ASSUME IInv, NEW t \in Tasks, NEW i \in 1..Len(Steps[t]),
           i = pc[t], state[t] = "running",
           pc' = [pc EXCEPT ![t] = @ + 1],
           UNCHANGED <<state, killed, ready>>,
           tables' \in [Objects -> {"absent", "declared", "inferred"}],
           \A name \in Objects : Exists(name) => Exists(name)',
           \A name \in Objects : Exists(name)' => Exists(Schema)',
           rows' \in [Tasks -> [EvidenceTables -> Nat]],
           \A u \in Tasks : u # t => rows'[u] = rows[u],
           missing' \in [Tasks -> BOOLEAN],
           \A u \in Tasks : u # t => missing'[u] = missing[u],
           missing[t] => missing'[t],
           missing'[t] => missing[t] \/ (Kind[t] = "smoke" /\ ~ Complete),
           Steps[t][i].op = "create" => Exists(Steps[t][i].object)',
           Steps[t][i].op = "check" /\ ~ missing'[t] => Exists(Steps[t][i].object)',
           Steps[t][i].op # "append" => rows' = rows,
           Steps[t][i].op = "append" =>
               /\ Exists(Schema)
               /\ ~ (Steps[t][i].object = "reconciliation_result" /\ Untyped(t))
               /\ \A table \in EvidenceTables :
                     rows'[t][table] = IF table = Steps[t][i].object
                                       THEN rows[t][table] + 1 ELSE rows[t][table]
    PROVE  IInv'
<1> USE DEF IInv
<1>0. /\ pc \in [Tasks -> Nat] /\ killed \in [Tasks -> 0..MaxCrashes]
      /\ rows \in [Tasks -> [EvidenceTables -> Nat]]
      /\ pc'[t] = pc[t] + 1 /\ \A u \in Tasks : u # t => pc'[u] = pc[u]
  BY DEF TypeOK
<1>1. TypeOK'
  <2>1. pc' \in [Tasks -> Nat]
    BY <1>0
  <2>2. \A u \in Tasks : pc'[u] \in 1..(Len(Steps[u]) + 1)
    <3> TAKE u \in Tasks
    <3>1. CASE u = t
      BY <1>0, <3>1, StepsFacts
    <3>2. CASE u # t
      BY <1>0, <3>2 DEF TypeOK
    <3> QED BY <3>1, <3>2
  <2> QED BY <2>1, <2>2 DEF TypeOK
<1>2. SchemaFirst'
  BY DEF SchemaFirst
<1>3. CreatedStay'
  <2> SUFFICES ASSUME NEW u \in Tasks, NEW j \in 1..Len(Steps[u]),
                      j < pc'[u], Steps[u][j].op = "create"
               PROVE  Exists(Steps[u][j].object)'
    BY DEF CreatedStay, Exists
  <2>1. Steps[u][j].object \in Objects
    BY StepsFacts
  <2>2. CASE u = t /\ j = i
    BY <2>2
  <2>3. CASE ~ (u = t /\ j = i)
    <3>1. j < pc[u]
      BY <1>0, <2>3, StepsFacts
    <3>2. Exists(Steps[u][j].object)
      BY <3>1 DEF CreatedStay
    <3> QED BY <2>1, <3>2
  <2> QED BY <2>2, <2>3
<1>4. LookedAt'
  <2> SUFFICES ASSUME NEW u \in Tasks, NEW j \in 1..Len(Steps[u]),
                      j < pc'[u], Steps[u][j].op = "check", ~ missing'[u]
               PROVE  Exists(Steps[u][j].object)'
    BY DEF LookedAt, Exists
  <2>1. Steps[u][j].object \in Objects
    BY StepsFacts
  <2>2. CASE u = t /\ j = i
    BY <2>2
  <2>3. CASE ~ (u = t /\ j = i)
    <3>1. j < pc[u]
      BY <1>0, <2>3, StepsFacts
    <3>2. ~ missing[u]
      BY Zenon
    <3>3. Exists(Steps[u][j].object)
      BY <3>1, <3>2 DEF LookedAt
    <3> QED BY <2>1, <3>3
  <2> QED BY <2>2, <2>3
<1>5. Ended'
  BY <1>0 DEF Ended
<1>6. OnlySmokeMisses' /\ ReadyComplete'
  <2>1. ReadyComplete'
    BY DEF ReadyComplete, Complete, Exists
  <2>2. \A u \in Tasks : missing'[u] => Kind[u] = "smoke" /\ ~ ready'[u]
    BY DEF OnlySmokeMisses, ReadyComplete
  <2> QED BY <2>1, <2>2 DEF OnlySmokeMisses
<1>7. RunFirst'
  <2> SUFFICES ASSUME NEW u \in Tasks
               PROVE  /\ rows'[u]["reconciliation_result"] <= rows'[u]["reconciliation_run"]
                      /\ (/\ Runs(u, pc'[u], "append")
                          /\ Steps[u][pc'[u]].object = "reconciliation_result") =>
                              rows'[u]["reconciliation_result"] < rows'[u]["reconciliation_run"]
    BY DEF RunFirst, Runs
  <2>0. {"reconciliation_run", "reconciliation_result"} \subseteq EvidenceTables
    BY DEF EvidenceTables
  <2>1. /\ rows[u]["reconciliation_result"] \in Nat /\ rows[u]["reconciliation_run"] \in Nat
        /\ rows[u]["reconciliation_result"] <= rows[u]["reconciliation_run"]
    <3>1. rows[u] \in [EvidenceTables -> Nat]
      BY <1>0
    <3> QED BY <2>0, <3>1 DEF RunFirst
  <2>2. CASE u # t
    BY <1>0, <2>2 DEF RunFirst
  <2>3. CASE u = t
    <3>1. CASE Steps[t][i].op = "append"
      <4>1. Runs(t, pc[t], "append")
        BY <3>1 DEF Runs
      <4>2. rows'[u]["reconciliation_result"] <= rows'[u]["reconciliation_run"]
        <5>1. CASE Steps[t][i].object = "reconciliation_result"
          <6>1. rows[t]["reconciliation_result"] < rows[t]["reconciliation_run"]
            BY <4>1, <5>1 DEF RunFirst
          <6>2. /\ rows'[t]["reconciliation_result"] = rows[t]["reconciliation_result"] + 1
                /\ rows'[t]["reconciliation_run"] = rows[t]["reconciliation_run"]
            BY <2>0, <3>1, <5>1
          <6> QED BY <2>1, <2>3, <6>1, <6>2
        <5>2. CASE Steps[t][i].object # "reconciliation_result"
          BY <2>0, <2>1, <2>3, <3>1, <5>2
        <5> QED BY <5>1, <5>2
      <4>3. ASSUME Runs(u, pc'[u], "append"), Steps[u][pc'[u]].object = "reconciliation_result"
            PROVE  rows'[u]["reconciliation_result"] < rows'[u]["reconciliation_run"]
        <5>1. Steps[t][i + 1 - 1].object = "reconciliation_run"
          BY <1>0, <2>3, <4>3, StepsFacts
        <5>2. Steps[t][i].object = "reconciliation_run"
          BY <5>1
        <5> QED BY <2>0, <2>1, <2>3, <3>1, <5>2
      <4> QED BY <4>2, <4>3
    <3>2. CASE Steps[t][i].op # "append"
      <4>1. ~ (/\ Runs(u, pc'[u], "append")
               /\ Steps[u][pc'[u]].object = "reconciliation_result")
        <5> SUFFICES ASSUME Runs(t, i + 1, "append"),
                            Steps[t][i + 1].object = "reconciliation_result"
                     PROVE  FALSE
          BY <1>0, <2>3
        <5>1. Steps[t][i + 1 - 1].op = "append"
          BY StepsFacts
        <5> QED BY <3>2, <5>1
      <4> QED BY <2>1, <3>2, <4>1
    <3> QED BY <3>1, <3>2
  <2> QED BY <2>2, <2>3
<1>8. Stored'
  <2> SUFFICES ASSUME NEW u \in Evidence, pc'[u] = Len(Steps[u]) + 1
               PROVE  rows'[u][LastBatch(u)] > 0
    BY DEF Stored
  <2>0. u \in Tasks /\ LastBatch(u) \in EvidenceTables
    BY DEF Evidence, LastBatch, EvidenceTables
  <2>1. CASE u # t
    BY <1>0, <2>0, <2>1 DEF Stored
  <2>2. CASE u = t
    <3>1. i = Len(Steps[t])
      BY <1>0, <2>2, StepsFacts
    <3>2. Steps[t][i].op = "append" /\ Steps[t][i].object = LastBatch(t)
      BY <2>2, <3>1, StepsFacts
    <3>3. rows[t][LastBatch(t)] \in Nat
      BY <1>0, <2>0, <2>2
    <3>4. rows'[t][LastBatch(t)] = rows[t][LastBatch(t)] + 1
      BY <2>0, <2>2, <3>2
    <3> QED BY <2>2, <3>3, <3>4
  <2> QED BY <2>1, <2>2
<1>9. StoredOnce'
  <2> SUFFICES ASSUME NEW u \in Tasks, NEW table \in EvidenceTables
               PROVE  /\ (tables'[Schema] = "absent" \/ Kind[u] = "smoke") => rows'[u][table] = 0
                      /\ ~ Untyped(u) =>
                           /\ rows'[u][table] <= killed[u] + 1
                           /\ (\/ state[u] = "failed"
                               \/ \E j \in 1..Len(Steps[u]) : /\ j >= pc'[u] /\ Runs(u, j, "append")
                                                              /\ Steps[u][j].object = table) =>
                                 rows'[u][table] <= killed[u]
    BY DEF StoredOnce, Runs
  <2>0. tables'[Schema] = "absent" => tables[Schema] = "absent"
    BY RequiredAreCreated DEF Exists
  <2>1. CASE u # t
    BY <1>0, <2>0, <2>1 DEF StoredOnce
  <2>2. CASE u = t /\ ~ (Steps[t][i].op = "append" /\ table = Steps[t][i].object)
    <3>1. rows'[u][table] = rows[u][table]
      BY <2>2
    <3>2. \A j \in 1..Len(Steps[u]) : j >= pc'[u] => j >= pc[u]
      BY <1>0, <2>2
    <3> QED BY <2>0, <3>1, <3>2 DEF StoredOnce
  <2>3. CASE u = t /\ Steps[t][i].op = "append" /\ table = Steps[t][i].object
    <3>1. rows[u][table] \in Nat /\ killed[u] \in Nat
      <4>1. rows[u] \in [EvidenceTables -> Nat] /\ killed[u] \in 0..MaxCrashes
        BY <1>0
      <4> QED BY <4>1, CrashesAssumption
    <3>2. Runs(t, i, "append")
      BY <2>3 DEF Runs
    <3>3. Kind[u] # "smoke" /\ tables'[Schema] # "absent"
      BY <2>0, <2>3, <3>2, StepsFacts DEF Exists
    <3>4. ~ Untyped(u) => rows[u][table] <= killed[u]
      BY <2>3, <3>2, StepsFacts DEF StoredOnce
    <3>5. rows'[u][table] = rows[u][table] + 1
      BY <2>3
    <3>6. state[u] # "failed"
      BY <2>3
    <3>7. ~ \E j \in 1..Len(Steps[u]) : /\ j >= pc'[u] /\ Runs(u, j, "append")
                                        /\ Steps[u][j].object = table
      <4> SUFFICES ASSUME NEW j \in 1..Len(Steps[t]), j >= i + 1, Runs(t, j, "append"),
                          Steps[t][j].object = Steps[t][i].object
                   PROVE  FALSE
        BY <1>0, <2>3
      <4>1. j = i
        BY <3>2, StepsFacts
      <4> QED BY <4>1
    <3> QED BY <3>1, <3>3, <3>4, <3>5, <3>6, <3>7
  <2> QED BY <2>1, <2>2, <2>3
<1> QED BY <1>1, <1>2, <1>3, <1>4, <1>5, <1>6, <1>7, <1>8, <1>9

(* A task fails only where nothing of it was stored, or where its report   *)
(* cannot be.                                                              *)
LEMMA Failing ==
    ASSUME IInv, NEW t \in Tasks, Fail(t), Untyped(t) \/ tables[Schema] = "absent" \/ Kind[t] = "smoke"
    PROVE  IInv'
<1>1. \A table \in EvidenceTables : ~ Untyped(t) => rows[t][table] = 0
  BY DEF IInv, StoredOnce
<1>2. killed' \in [Tasks -> 0..MaxCrashes] /\ killed'[t] >= killed[t] /\ killed' = killed
  <2>1. killed \in [Tasks -> 0..MaxCrashes] /\ killed' = killed
    BY DEF Fail, IInv, TypeOK
  <2>2. killed[t] \in Nat
    BY <2>1, CrashesAssumption
  <2> QED BY <2>1, <2>2
<1>3. UNCHANGED <<tables, rows, pc, missing, ready>> /\ state' = [state EXCEPT ![t] = "failed"]
  BY DEF Fail
<1> QED BY <1>1, <1>2, <1>3, Stopping

LEMMA AtPc ==
    ASSUME IInv, NEW t \in Tasks, NEW op, AtStep(t, op)
    PROVE  /\ pc[t] \in 1..Len(Steps[t]) /\ state[t] = "running"
           /\ Steps[t][pc[t]].op = op /\ object(t) = Steps[t][pc[t]].object
           /\ object(t) \in Objects
  BY StepsFacts DEF IInv, TypeOK, AtStep, object

LEMMA CreateInvariant ==
    ASSUME IInv, NEW t \in Tasks, Create(t)
    PROVE  IInv'
<1>0. AtStep(t, "create")
  BY DEF Create
<1>1. PICK i \in 1..Len(Steps[t]) :
         /\ i = pc[t] /\ state[t] = "running"
         /\ Steps[t][i].op = "create" /\ object(t) = Steps[t][i].object
         /\ object(t) \in Objects
  BY <1>0, AtPc
<1>2. CASE object(t) # Schema /\ tables[Schema] = "absent"
  BY <1>2, Failing DEF Create
<1>3. CASE ~ (object(t) # Schema /\ tables[Schema] = "absent")
  <2>1. /\ tables' = [tables EXCEPT ![object(t)] = IF @ = "absent" THEN "declared" ELSE @]
        /\ pc' = [pc EXCEPT ![t] = @ + 1]
        /\ UNCHANGED <<state, killed, ready>> /\ UNCHANGED <<rows, missing>>
    BY <1>3 DEF Create, Advance
  <2>2. /\ tables \in [Objects -> {"absent", "declared", "inferred"}]
        /\ rows \in [Tasks -> [EvidenceTables -> Nat]] /\ missing \in [Tasks -> BOOLEAN]
    BY DEF IInv, TypeOK
  <2>3. tables' \in [Objects -> {"absent", "declared", "inferred"}]
    BY <1>1, <2>1, <2>2
  <2>4. \A name \in Objects : Exists(name) => Exists(name)'
    BY <1>1, <2>1, <2>2 DEF Exists
  <2>5. Exists(Steps[t][i].object)'
    BY <1>1, <2>1, <2>2 DEF Exists
  <2>6. Exists(Schema)'
    BY <1>1, <1>3, <2>1, <2>2, RequiredAreCreated DEF Exists
  <2> QED BY <1>1, <2>1, <2>2, <2>3, <2>4, <2>5, <2>6, Advancing
<1> QED BY <1>2, <1>3

LEMMA CheckInvariant ==
    ASSUME IInv, NEW t \in Tasks, Check(t)
    PROVE  IInv'
<1>0. AtStep(t, "check")
  BY DEF Check
<1>1. PICK i \in 1..Len(Steps[t]) :
         /\ i = pc[t] /\ state[t] = "running"
         /\ Steps[t][i].op = "check" /\ object(t) = Steps[t][i].object
         /\ object(t) \in Objects
  BY <1>0, AtPc
<1>2. /\ missing' = [missing EXCEPT ![t] = @ \/ tables[object(t)] = "absent"]
      /\ pc' = [pc EXCEPT ![t] = @ + 1]
      /\ UNCHANGED <<state, killed, ready>> /\ UNCHANGED <<tables, rows>>
  BY DEF Check, Advance
<1>3. /\ tables \in [Objects -> {"absent", "declared", "inferred"}]
      /\ rows \in [Tasks -> [EvidenceTables -> Nat]] /\ missing \in [Tasks -> BOOLEAN]
  BY DEF IInv, TypeOK
<1>4. Kind[t] = "smoke"
  BY <1>1, StepsFacts DEF Runs
<1>5. missing' \in [Tasks -> BOOLEAN] /\ \A u \in Tasks : u # t => missing'[u] = missing[u]
  BY <1>2, <1>3
<1>6. missing'[t] <=> missing[t] \/ tables[object(t)] = "absent"
  BY <1>2, <1>3, Zenon
<1>7. \A name \in Objects : (Exists(name) <=> Exists(name)')
  BY <1>2 DEF Exists
<1>8. \A name \in Objects : Exists(name)' => Exists(Schema)'
  BY <1>2 DEF Exists, IInv, SchemaFirst
<1>9. missing'[t] => missing[t] \/ (Kind[t] = "smoke" /\ ~ Complete)
  BY <1>1, <1>4, <1>6 DEF Complete, Exists
<1>10. ~ missing'[t] => Exists(Steps[t][i].object)'
  BY <1>1, <1>2, <1>6 DEF Exists
<1> QED BY <1>1, <1>2, <1>3, <1>5, <1>6, <1>7, <1>8, <1>9, <1>10, Advancing

LEMMA SaveInvariant ==
    ASSUME IInv, NEW t \in Tasks, SaveAsTable(t)
    PROVE  IInv'
<1>0. AtStep(t, "append")
  BY DEF SaveAsTable
<1>1. PICK i \in 1..Len(Steps[t]) :
         /\ i = pc[t] /\ state[t] = "running"
         /\ Steps[t][i].op = "append" /\ object(t) = Steps[t][i].object
         /\ object(t) \in EvidenceTables
  BY <1>0, AtPc, StepsFacts DEF Runs
<1>2. CASE \/ tables[Schema] = "absent"
           \/ object(t) = "reconciliation_result" /\ Untyped(t)
  BY <1>2, Failing DEF SaveAsTable
<1>3. CASE ~ (\/ tables[Schema] = "absent"
              \/ object(t) = "reconciliation_result" /\ Untyped(t))
  <2>1. /\ rows' = [rows EXCEPT ![t][object(t)] = @ + 1]
        /\ tables' = [tables EXCEPT ![object(t)] = IF @ = "absent" THEN "inferred" ELSE @]
        /\ pc' = [pc EXCEPT ![t] = @ + 1]
        /\ UNCHANGED <<state, killed, ready>> /\ UNCHANGED missing
    BY <1>3 DEF SaveAsTable, Advance
  <2>2. /\ tables \in [Objects -> {"absent", "declared", "inferred"}]
        /\ rows \in [Tasks -> [EvidenceTables -> Nat]] /\ missing \in [Tasks -> BOOLEAN]
    BY DEF IInv, TypeOK
  <2>3. object(t) \in Objects /\ object(t) # Schema /\ Schema \in Objects
    BY <1>1, RequiredAreCreated
  <2>4. tables' \in [Objects -> {"absent", "declared", "inferred"}]
    BY <2>1, <2>2, <2>3
  <2>5. \A name \in Objects : Exists(name) => Exists(name)'
    BY <2>1, <2>2 DEF Exists
  <2>6. Exists(Schema) /\ Exists(Schema)'
    BY <1>3, <2>3, <2>5 DEF Exists
  <2>7. /\ rows' \in [Tasks -> [EvidenceTables -> Nat]]
        /\ \A u \in Tasks : u # t => rows'[u] = rows[u]
        /\ \A table \in EvidenceTables :
              rows'[t][table] = IF table = Steps[t][i].object THEN rows[t][table] + 1 ELSE rows[t][table]
    BY <1>1, <2>1, <2>2
  <2> QED BY <1>1, <1>3, <2>1, <2>2, <2>4, <2>5, <2>6, <2>7, Advancing
<1> QED BY <1>2, <1>3

LEMMA ReturnInvariant ==
    ASSUME IInv, NEW t \in Tasks, Return(t)
    PROVE  IInv'
<1>1. pc[t] = Len(Steps[t]) + 1
  BY StepsFacts DEF Return, IInv, TypeOK
<1>2. CASE missing[t]
  <2>1. Fail(t)
    BY <1>2 DEF Return, Fail
  <2>2. Kind[t] = "smoke"
    BY <1>2 DEF IInv, OnlySmokeMisses
  <2> QED BY <2>1, <2>2, Failing
<1>3. CASE ~ missing[t]
  <2>1. /\ state' = [state EXCEPT ![t] = "returned"]
        /\ UNCHANGED <<tables, rows, pc, missing, killed, ready>>
    BY <1>3 DEF Return
  <2>2. killed' \in [Tasks -> 0..MaxCrashes] /\ killed' = killed
    BY <2>1 DEF IInv, TypeOK
  <2>3. killed'[t] >= killed[t]
    BY <2>2, CrashesAssumption
  <2> QED BY <1>1, <1>3, <2>1, <2>2, <2>3, Stopping
<1> QED BY <1>2, <1>3

LEMMA CrashInvariant ==
    ASSUME IInv, NEW t \in Tasks, Crash(t)
    PROVE  IInv'
<1>1. /\ state' = [state EXCEPT ![t] = "failed"] /\ killed' = [killed EXCEPT ![t] = @ + 1]
      /\ UNCHANGED <<tables, rows, pc, missing, ready>> /\ killed[t] < MaxCrashes
  BY DEF Crash
<1>2. killed \in [Tasks -> 0..MaxCrashes]
  BY DEF IInv, TypeOK
<1>3. /\ killed' \in [Tasks -> 0..MaxCrashes] /\ killed'[t] = killed[t] + 1
      /\ \A u \in Tasks : u # t => killed'[u] = killed[u]
  BY <1>1, <1>2, CrashesAssumption
<1>4. killed'[t] >= killed[t]
  BY <1>2, <1>3, CrashesAssumption
<1> QED BY <1>1, <1>3, <1>4, Stopping

LEMMA RetryInvariant ==
    ASSUME IInv, NEW t \in Tasks, Retry(t)
    PROVE  IInv'
<1> USE DEF IInv
<1>0. /\ state[t] = "failed" /\ state' = [state EXCEPT ![t] = "running"]
      /\ pc' = [pc EXCEPT ![t] = 1] /\ missing' = [missing EXCEPT ![t] = FALSE]
      /\ ready' = [ready EXCEPT ![t] = Ready] /\ UNCHANGED <<tables, rows, killed>>
  BY DEF Retry
<1>1. TypeOK'
  <2>1. /\ state' \in [Tasks -> {"unused", "running", "failed", "returned"}]
        /\ pc' \in [Tasks -> Nat] /\ missing' \in [Tasks -> BOOLEAN]
    BY <1>0 DEF TypeOK
  <2>2. Ready \in BOOLEAN
    BY DEF Ready
  <2>3. ready' \in [Tasks -> BOOLEAN]
    BY <1>0, <2>2 DEF TypeOK
  <2>4. \A u \in Tasks : pc'[u] \in 1..(Len(Steps[u]) + 1)
    BY <1>0, StepsFacts DEF TypeOK
  <2> QED BY <1>0, <2>1, <2>3, <2>4 DEF TypeOK
<1>2. /\ pc'[t] = 1 /\ ~ missing'[t] /\ state'[t] = "running"
      /\ \A u \in Tasks : u # t => /\ pc'[u] = pc[u] /\ (missing'[u] <=> missing[u])
                                   /\ state'[u] = state[u] /\ (ready'[u] <=> ready[u])
  BY <1>0 DEF TypeOK
<1>3. SchemaFirst'
  BY <1>0 DEF SchemaFirst, Exists
<1>4. CreatedStay'
  BY <1>0, <1>2, StepsFacts DEF CreatedStay, Exists
<1>5. LookedAt'
  BY <1>0, <1>2, StepsFacts DEF LookedAt, Exists
<1>6. Ended'
  BY <1>2 DEF Ended
<1>7. OnlySmokeMisses'
  BY <1>2 DEF OnlySmokeMisses
<1>8. ReadyComplete'
  <2>1. Ready => Complete
    BY ReturnedComplete DEF Ready
  <2>2. ready'[t] <=> Ready
    BY <1>0, Zenon DEF TypeOK
  <2>3. \A u \in Tasks : ready'[u] => Complete
    BY <1>2, <2>1, <2>2 DEF ReadyComplete
  <2> QED BY <1>0, <2>3 DEF ReadyComplete, Complete, Exists
<1>9. RunFirst'
  BY <1>0, <1>2, StepsFacts DEF RunFirst, Runs
<1>10. Stored'
  BY <1>0, <1>2, StepsFacts DEF Stored, Evidence
<1>11. StoredOnce'
  <2> SUFFICES ASSUME NEW u \in Tasks, NEW table \in EvidenceTables
               PROVE  /\ (tables[Schema] = "absent" \/ Kind[u] = "smoke") => rows[u][table] = 0
                      /\ ~ Untyped(u) =>
                           /\ rows[u][table] <= killed[u] + 1
                           /\ (\/ state'[u] = "failed"
                               \/ \E i \in 1..Len(Steps[u]) : /\ i >= pc'[u] /\ Runs(u, i, "append")
                                                              /\ Steps[u][i].object = table) =>
                                 rows[u][table] <= killed[u]
    BY <1>0 DEF StoredOnce, Runs
  <2>1. CASE u = t
    BY <1>0, <2>1 DEF StoredOnce
  <2>2. CASE u # t
    BY <1>2, <2>2 DEF StoredOnce
  <2> QED BY <2>1, <2>2
<1> QED BY <1>1, <1>3, <1>4, <1>5, <1>6, <1>7, <1>8, <1>9, <1>10, <1>11

LEMMA StepInvariant == IInv /\ [Next]_vars => IInv'
<1> SUFFICES ASSUME IInv, [Next]_vars PROVE IInv'
  OBVIOUS
<1>1. CASE UNCHANGED vars
  BY <1>1 DEF IInv, TypeOK, SchemaFirst, CreatedStay, LookedAt, Ended, OnlySmokeMisses,
              ReadyComplete, RunFirst, Stored, StoredOnce, Complete, Exists, Runs
<1>2. ASSUME NEW t \in Tasks, Proceed(t) \/ Crash(t) \/ Retry(t)
      PROVE  IInv'
  BY <1>2, CreateInvariant, CheckInvariant, SaveInvariant, ReturnInvariant,
     CrashInvariant, RetryInvariant DEF Proceed
<1> QED BY <1>1, <1>2 DEF Next

-----------------------------------------------------------------------------
(* The theorems.                                                           *)

(* The inductive invariant: every statement that a task has passed took    *)
(* effect and stays in effect (control_tables.py, audit.py).               *)
THEOREM ControlInvariant == Spec => []IInv
<1>1. Init => IInv
  BY InitInvariant
<1>2. IInv /\ [Next]_vars => IInv'
  BY StepInvariant
<1> QED BY <1>1, <1>2, PTL DEF Spec

(* Type correctness of the control plane.                                  *)
THEOREM ControlTypeCorrect == Spec => []TypeOK
<1>1. IInv => TypeOK
  BY DEF IInv
<1> QED BY <1>1, ControlInvariant, PTL

(* ensure_control_tables and assert_control_plane_ready return only on a   *)
(* complete schema, whatever runs beside them and was killed before.       *)
THEOREM ReturnedMeansCompleteCorrect == Spec => []ReturnedMeansComplete
<1>1. IInv => ReturnedMeansComplete
  BY ReturnedComplete DEF ReturnedMeansComplete, Complete, Exists
<1> QED BY <1>1, ControlInvariant, PTL

(* A smoke check started after the bootstrap misses nothing                *)
(* (release_smoke.py against control_tables.py).                           *)
THEOREM SmokeAcceptsBootstrapCorrect == Spec => []SmokeAcceptsBootstrap
<1>1. IInv => SmokeAcceptsBootstrap
  BY DEF IInv, OnlySmokeMisses, SmokeAcceptsBootstrap
<1> QED BY <1>1, ControlInvariant, PTL

(* Results are never stored without their run (audit.py).                  *)
THEOREM ResultsHaveRunCorrect == Spec => []ResultsHaveRun
<1>1. IInv => ResultsHaveRun
  BY DEF IInv, RunFirst, ResultsHaveRun
<1> QED BY <1>1, ControlInvariant, PTL

(* Without a crash no evidence is stored twice (audit.py,                  *)
(* release_history.py).                                                    *)
THEOREM DuplicatesOnlyAfterCrashCorrect == Spec => []DuplicatesOnlyAfterCrash
<1>1. IInv => DuplicatesOnlyAfterCrash
  BY DEF IInv, StoredOnce, DuplicatesOnlyAfterCrash
<1> QED BY <1>1, ControlInvariant, PTL

(* A task that creates the tables, or was started when they were complete, *)
(* meets the schema and every table it looks for: each of its statements   *)
(* succeeds, so that only a kill can make it fail.                         *)
LEMMA SchemaIsThere ==
    ASSUME IInv, NEW t \in Tasks, Creates(t) \/ ready[t],
           NEW op \in {"create", "append"}, AtStep(t, op)
    PROVE  tables[Schema] # "absent" \/ object(t) = Schema
<1>1. /\ pc[t] \in 1..Len(Steps[t]) /\ Steps[t][pc[t]].op = op
      /\ object(t) = Steps[t][pc[t]].object
  BY AtPc
<1>2. CASE ready[t]
  BY <1>2, RequiredAreCreated DEF IInv, ReadyComplete, Complete, Exists
<1>3. CASE Creates(t)
  <2>1. Kind[t] # "smoke" /\ Before(t) = 12
    BY <1>3 DEF Creates, Before
  <2>2. /\ Len(Steps[t]) \in Nat /\ Len(Steps[t]) >= 12
        /\ Steps[t][1].op = "create" /\ Steps[t][1].object = control_table_ddl[1]
    BY <2>1, StepsProperties, AppendsProperties
  <2>3. control_table_ddl[1] = Schema
    BY DEF control_table_ddl
  <2>4. CASE pc[t] = 1
    BY <1>1, <2>2, <2>3, <2>4
  <2>5. CASE pc[t] # 1
    <3>1. 1 \in 1..Len(Steps[t]) /\ 1 < pc[t]
      BY <1>1, <2>2, <2>5
    <3> QED BY <2>2, <2>3, <3>1 DEF IInv, CreatedStay, Exists
  <2> QED BY <2>4, <2>5
<1> QED BY <1>2, <1>3

THEOREM FailsOnlyWhenKilledCorrect == Spec => FailsOnlyWhenKilled
<1>1. ASSUME IInv, [Next]_vars, NEW t \in Tasks, state[t] = "running", state'[t] = "failed",
             ~ Untyped(t), Creates(t) \/ ready[t]
      PROVE  killed'[t] > killed[t]
  <2>0. /\ state \in [Tasks -> {"unused", "running", "failed", "returned"}]
        /\ killed \in [Tasks -> 0..MaxCrashes]
    BY <1>1 DEF IInv, TypeOK
  <2>1. PICK u \in Tasks : Proceed(u) \/ Crash(u) \/ Retry(u)
    BY <1>1 DEF Next
  <2>2. ~ Retry(u)
    BY <1>1, <2>0 DEF Retry
  <2>3. u = t
    BY <1>1, <2>0, <2>1, <2>2
       DEF Proceed, Create, Check, SaveAsTable, Return, Crash, Fail, Advance
  <2>4. ~ Create(t)
    <3>1. ASSUME Create(t) PROVE object(t) # Schema /\ tables[Schema] = "absent"
      BY <1>1, <3>1 DEF Create, Advance
    <3>2. ASSUME Create(t) PROVE FALSE
      BY <1>1, <3>1, <3>2, SchemaIsThere DEF Create
    <3> QED BY <3>2
  <2>5. ~ Check(t)
    BY <1>1 DEF Check, Advance
  <2>6. ~ SaveAsTable(t)
    <3>1. ASSUME SaveAsTable(t) PROVE tables[Schema] = "absent"
      BY <1>1, <3>1 DEF SaveAsTable, Advance
    <3>2. ASSUME SaveAsTable(t) PROVE object(t) # Schema
      <4>1. AtStep(t, "append")
        BY <3>2 DEF SaveAsTable
      <4>2. Runs(t, pc[t], "append") /\ object(t) = Steps[t][pc[t]].object
        BY <1>1, <4>1, AtPc DEF Runs
      <4>3. object(t) \in EvidenceTables
        BY <4>2, StepsFacts
      <4> QED BY <4>3, RequiredAreCreated
    <3>3. ASSUME SaveAsTable(t) PROVE FALSE
      BY <1>1, <3>1, <3>2, <3>3, SchemaIsThere DEF SaveAsTable
    <3> QED BY <3>3
  <2>7. ~ Return(t)
    <3>1. ASSUME Return(t) PROVE missing[t]
      BY <1>1, <2>0, <3>1 DEF Return
    <3>2. ~ missing[t]
      BY <1>1 DEF IInv, OnlySmokeMisses, Creates
    <3> QED BY <3>1, <3>2
  <2>8. Crash(t)
    BY <2>1, <2>2, <2>3, <2>4, <2>5, <2>6, <2>7 DEF Proceed
  <2> QED BY <2>0, <2>8 DEF Crash
<1>2. IInv /\ [Next]_vars =>
        [\A t \in Tasks :
           (state[t] = "running" /\ state'[t] = "failed" /\ ~ Untyped(t)
               /\ (Creates(t) \/ ready[t])) => killed'[t] > killed[t]]_vars
  BY <1>1
<1> QED BY <1>2, ControlInvariant, PTL DEF Spec, FailsOnlyWhenKilled

(* The tables that an append of such a task goes to exist: its own CREATEs *)
(* lie behind it, or the schema was complete when it was started.          *)
LEMMA PreparedTable ==
    ASSUME IInv, NEW t \in Tasks, Creates(t) \/ ready[t], AtStep(t, "append")
    PROVE  Exists(object(t))
<1>1. /\ pc[t] \in 1..Len(Steps[t]) /\ Steps[t][pc[t]].op = "append"
      /\ object(t) = Steps[t][pc[t]].object /\ object(t) \in Objects
  BY AtPc
<1>2. CASE ready[t]
  BY <1>1, <1>2 DEF IInv, ReadyComplete, Complete
<1>3. CASE Creates(t)
  <2>1. Kind[t] # "smoke" /\ Before(t) = 12
    BY <1>3 DEF Creates, Before
  <2>2. /\ Len(Steps[t]) \in Nat /\ Len(Steps[t]) >= 12
        /\ \A i \in 1..12 : /\ Steps[t][i].op = "create"
                             /\ Steps[t][i].object = control_table_ddl[i]
    BY <2>1, StepsProperties, AppendsProperties
  <2>3. pc[t] > 12
    <3>1. pc[t] \notin 1..12
      BY <1>1, <2>2
    <3>2. pc[t] \in Nat /\ pc[t] >= 1
      BY <1>1, <2>2
    <3> QED BY <3>1, <3>2
  <2>4. PICK i \in 1..12 : control_table_ddl[i] = object(t)
    BY <1>1, RequiredAreCreated
  <2>5. i \in 1..Len(Steps[t]) /\ i < pc[t]
    BY <1>1, <2>2, <2>3
  <2> QED BY <2>2, <2>4, <2>5 DEF IInv, CreatedStay
<1> QED BY <1>2, <1>3

(* A schema is inferred only from the rows of a task that came before the  *)
(* control tables and does not create them (audit.py, control_tables.py).  *)
THEOREM PreparedTasksInferNothingCorrect == Spec => PreparedTasksInferNothing
<1>1. ASSUME IInv, [Next]_vars, NEW name \in Objects,
             tables[name] = "absent", tables'[name] = "inferred"
      PROVE  \E t \in Tasks : rows'[t] # rows[t] /\ ~ Creates(t) /\ ~ ready[t]
  <2>0. /\ tables \in [Objects -> {"absent", "declared", "inferred"}]
        /\ rows \in [Tasks -> [EvidenceTables -> Nat]]
    BY <1>1 DEF IInv, TypeOK
  <2>1. PICK t \in Tasks : Proceed(t) \/ Crash(t) \/ Retry(t)
    BY <1>1 DEF Next, vars
  <2>2. SaveAsTable(t)
    BY <1>1, <2>0, <2>1 DEF Proceed, Create, Check, Return, Crash, Retry, Fail
  <2>3. /\ AtStep(t, "append")
        /\ rows' = [rows EXCEPT ![t][object(t)] = @ + 1]
        /\ tables' = [tables EXCEPT ![object(t)] = IF @ = "absent" THEN "inferred" ELSE @]
    BY <1>1, <2>2 DEF SaveAsTable, Fail
  <2>4. name = object(t) /\ ~ Exists(object(t))
    BY <1>1, <2>0, <2>3 DEF Exists
  <2>5. ~ Creates(t) /\ ~ ready[t]
    BY <1>1, <2>3, <2>4, PreparedTable
  <2>6. object(t) \in EvidenceTables
    <3>1. Runs(t, pc[t], "append") /\ object(t) = Steps[t][pc[t]].object
      BY <1>1, <2>3, AtPc DEF Runs
    <3>2. pc[t] \in 1..Len(Steps[t])
      BY <1>1, <2>3, AtPc
    <3> QED BY <3>1, <3>2, StepsFacts
  <2>7. rows[t] \in [EvidenceTables -> Nat] /\ rows'[t][object(t)] = rows[t][object(t)] + 1
    BY <2>0, <2>3, <2>6
  <2>8. rows'[t] # rows[t]
    <3>1. rows[t][object(t)] \in Nat
      BY <2>6, <2>7
    <3> QED BY <2>7, <3>1
  <2> QED BY <2>5, <2>8
<1>2. IInv /\ [Next]_vars =>
        [\A name \in Objects :
           (tables[name] = "absent" /\ tables'[name] = "inferred")
               => \E t \in Tasks : rows'[t] # rows[t] /\ ~ Creates(t) /\ ~ ready[t]]_vars
  BY <1>1
<1> QED BY <1>2, ControlInvariant, PTL DEF Spec, PreparedTasksInferNothing

-----------------------------------------------------------------------------
(* The refinement.                                                         *)

Copies == [t \in Evidence |-> rows[t][LastBatch(t)]]
Acked == {t \in Evidence : state[t] = "returned"}

LEMMA EvidenceBatch ==
    ASSUME NEW t \in Evidence
    PROVE  t \in Tasks /\ LastBatch(t) \in EvidenceTables
  BY DEF Evidence, LastBatch, EvidenceTables

LEMMA EvidenceInit == Init => Log!Init
<1> SUFFICES ASSUME Init PROVE Log!Init
  OBVIOUS
<1>1. \A t \in Evidence : rows[t][LastBatch(t)] = 0 /\ state[t] # "returned"
  BY EvidenceBatch DEF Init
<1> QED BY <1>1 DEF Log!Init

(* Appending the last batch of a report stores a copy, its return is the   *)
(* acknowledgement, and nothing else is visible in the log.                *)
LEMMA EvidenceStep ==
    ASSUME IInv, [Next]_vars
    PROVE  [Log!Next]_<<Copies, Acked>>
<1>0. /\ state \in [Tasks -> {"unused", "running", "failed", "returned"}]
      /\ rows \in [Tasks -> [EvidenceTables -> Nat]] /\ pc \in [Tasks -> Nat]
  BY DEF IInv, TypeOK
<1>1. ASSUME UNCHANGED rows, UNCHANGED Acked
      PROVE  UNCHANGED <<Copies, Acked>>
  BY <1>1 DEF Copies
<1>2. CASE UNCHANGED vars
  BY <1>2 DEF Copies, Acked
<1>3. ASSUME NEW t \in Tasks, Create(t) \/ Check(t) \/ Crash(t) \/ Retry(t)
      PROVE  UNCHANGED <<Copies, Acked>>
  <2>1. UNCHANGED rows /\ \A u \in Tasks : state[u] = "returned" <=> state'[u] = "returned"
    BY <1>0, <1>3 DEF Create, Check, Crash, Retry, AtStep, Fail, Advance
  <2>2. UNCHANGED Acked
    BY <2>1, EvidenceBatch DEF Acked
  <2> QED BY <1>1, <2>1, <2>2
<1>4. ASSUME NEW t \in Tasks, SaveAsTable(t)
      PROVE  [Log!Next]_<<Copies, Acked>>
  <2>1. \A u \in Tasks : state[u] = "returned" <=> state'[u] = "returned"
    BY <1>0, <1>4 DEF SaveAsTable, AtStep, Fail, Advance
  <2>2. UNCHANGED Acked
    BY <2>1, EvidenceBatch DEF Acked
  <2>3. CASE UNCHANGED rows
    BY <1>1, <2>2, <2>3
  <2>4. CASE rows' = [rows EXCEPT ![t][object(t)] = @ + 1] /\ t \in Evidence /\ object(t) = LastBatch(t)
    <3>1. Copies' = [Copies EXCEPT ![t] = @ + 1]
      BY <1>0, <2>4, EvidenceBatch DEF Copies
    <3>2. Log!Append(t)
      BY <2>2, <3>1 DEF Log!Append, Copies, Acked
    <3> QED BY <2>4, <3>2 DEF Log!Next
  <2>5. CASE rows' = [rows EXCEPT ![t][object(t)] = @ + 1] /\ ~ (t \in Evidence /\ object(t) = LastBatch(t))
    <3>1. \A u \in Evidence : rows'[u][LastBatch(u)] = rows[u][LastBatch(u)]
      BY <1>0, <2>5, EvidenceBatch
    <3> QED BY <2>2, <3>1 DEF Copies
  <2> QED BY <1>4, <2>3, <2>4, <2>5 DEF SaveAsTable, Fail
<1>5. ASSUME NEW t \in Tasks, Return(t)
      PROVE  [Log!Next]_<<Copies, Acked>>
  <2>1. /\ state' = [state EXCEPT ![t] = IF missing[t] THEN "failed" ELSE "returned"]
        /\ UNCHANGED rows /\ state[t] = "running"
    BY <1>5 DEF Return
  <2>2. CASE missing[t] \/ t \notin Evidence
    <3>1. \A u \in Evidence : state[u] = "returned" <=> state'[u] = "returned"
      BY <1>0, <2>1, <2>2, EvidenceBatch
    <3>2. UNCHANGED Acked
      BY <3>1 DEF Acked
    <3> QED BY <1>1, <2>1, <3>2
  <2>3. CASE ~ missing[t] /\ t \in Evidence
    <3>1. pc[t] = Len(Steps[t]) + 1
      BY <1>5, StepsFacts DEF Return, IInv, TypeOK
    <3>2. Copies[t] > 0
      BY <2>3, <3>1 DEF IInv, Stored, Copies
    <3>3. Acked' = Acked \cup {t}
      BY <1>0, <2>1, <2>3, EvidenceBatch DEF Acked
    <3>4. UNCHANGED Copies
      BY <2>1 DEF Copies
    <3>5. Log!Acknowledge(t)
      BY <3>2, <3>3, <3>4 DEF Log!Acknowledge, Copies, Acked
    <3> QED BY <2>3, <3>5 DEF Log!Next
  <2> QED BY <2>2, <2>3
<1> QED BY <1>2, <1>3, <1>4, <1>5 DEF Next, Proceed

(* record_release and persist_reconciliation_report keep an at-least-once  *)
(* log: what they acknowledged is stored, completely, and stays.           *)
THEOREM EvidenceRefinement == Spec => ImplementsEvidenceLog
<1>1. Init => Log!Init
  BY EvidenceInit
<1>2. IInv /\ [Next]_vars =>
         [Log!Next]_<<[t \in Evidence |-> rows[t][LastBatch(t)]], {t \in Evidence : state[t] = "returned"}>>
  BY EvidenceStep DEF Copies, Acked
<1> QED BY <1>1, <1>2, ControlInvariant, PTL DEF Spec, ImplementsEvidenceLog, Log!Spec
=============================================================================
