-------------------------- MODULE BuiltinRuntime ---------------------------
(***************************************************************************)
(* The built-in runtime handlers (src/edp_framework/runtime/builtin.py).   *)
(*                                                                         *)
(* A handler is a sequence of statements that either check something and   *)
(* may raise, or register one object with Lakeflow.  Nothing is undone     *)
(* when a later statement raises, so a handler's effect is the objects it  *)
(* registered before the first check that fails.                           *)
(***************************************************************************)
EXTENDS PatternCatalog, Sequences

Handlers == {"P01", "P02", "P07", "P10", "P12"}

(* The context a consuming workload supplies. *)
Contexts == [source_relation : {"none", "good", "malformed"},
             snapshot_source : BOOLEAN,
             transform       : {"absent", "callable", "not_callable"}]

Check(ok, error) == [step |-> "check", ok |-> ok, error |-> error]

Register(object) == [step |-> "register", object |-> object]

(* A registered object: what it is, the table or view it defines or writes,*)
(* what it reads, the row filter on its input and what guards its rows.    *)
Node(kind, target, reads) ==
    [kind |-> kind, target |-> target, reads |-> reads, filtered |-> FALSE,
     expectations |-> {}, keyed |-> FALSE, sequence |-> "none",
     deletes |-> FALSE, threshold |-> 0, scd |-> 0]

quarantine_rules(s) == "quarantine" \in s.quality_actions

-----------------------------------------------------------------------------
(* validate_builtin_runtime_contract *)
DeleteContractAtBoundary(s) ==   \* faulty: admits retention = delay
    s.delete_strategy = "cdc_delete" =>
        /\ s.apply_as_deletes = "set"
        /\ s.max_delay > 0
        /\ s.tombstone_retention > 0
        /\ ~ (s.tombstone_retention < s.max_delay)

DeleteRuntimeContract(s) ==
    s.delete_strategy = "cdc_delete" =>
        /\ s.apply_as_deletes = "set"
        /\ s.max_delay > 0
        /\ s.tombstone_retention > 0
        /\ ~ (s.tombstone_retention <= s.max_delay)

RuntimeContract(s) ==
    /\ s.pattern_id = "P01" =>
          /\ s.bronze = "current_replica"
          /\ s.silver \in {"current", "snapshot_replace"}
    /\ s.pattern_id = "P02" =>
          /\ s.bronze = "snapshot_history"
          /\ s.silver = "scd2"
          /\ s.cursor_columns = 1
    /\ s.pattern_id = "P07" =>
          /\ s.bronze = "raw_append"
          /\ s.delete_strategy = "source_soft_delete"
          /\ s.silver \in {"current_soft_delete", "scd1", "scd2"}
    /\ s.pattern_id = "P10" =>
          /\ s.bronze = "event_history"
          /\ s.silver \in {"current", "scd1", "scd2"}
          /\ DeleteRuntimeContract(s)
          /\ s.except_columns # "malformed"
    /\ s.pattern_id = "P12" =>
          /\ s.bronze = "event_history"
          /\ s.silver = "canonical_events"
          /\ s.effective_time
          /\ s.event_identity
          /\ s.dedup_watermark = "set"

-----------------------------------------------------------------------------
(* The statements every handler starts with, before it registers anything. *)
Prologue(s, c) ==
    << Check(RuntimeContract(s), "ValueError"),
       Check(c.source_relation = "good", "ValueError"),
       Check(s.bronze_table = "good", "ValueError"),
       Check(s.silver_table = "good", "ValueError") >>

(* Faulty: registers Bronze only when an expectation decorates it. *)
BronzeIfGuarded(s, kind) ==
    IF s.quality_actions \cap {"warn", "fail"} = {} THEN << >>
    ELSE << Register([Node(kind, "bronze", "source")
                   EXCEPT !.expectations = s.quality_actions \cap {"warn", "fail"}]) >>

Bronze(s, kind) ==
    << Register([Node(kind, "bronze", "source")
                   EXCEPT !.expectations = s.quality_actions \cap {"warn", "fail"}]) >>

Quarantine(s) ==
    IF ~ quarantine_rules(s) \/ s.quarantine_table = "none" THEN << >>
    ELSE << Check(s.quarantine_table = "good", "ValueError"),
            Register([Node("table", "quarantine", "bronze") EXCEPT !.filtered = TRUE]) >>

(* Faulty: filters the valid stream by every rule. *)
ViewOfAllRules(s) ==
    << Register([Node("view", "valid", "bronze") EXCEPT !.filtered = s.quality_actions # {}]) >>

ValidView(s) ==
    << Register([Node("view", "valid", "bronze") EXCEPT !.filtered = quarantine_rules(s)]) >>

stored_type(s) == IF s.silver = "scd2" THEN 2 ELSE 1

_cdc_target_properties(s) == IF s.tombstone_retention > 0 THEN s.tombstone_retention ELSE 0

(* Faulty: the flow is registered before its options are checked, and the  *)
(* ordering is not required to be authoritative.                           *)
AutoCdcUnchecked(s, deletes, threshold) ==
    << Register([Node("streaming_table", "silver", "none") EXCEPT !.threshold = threshold]),
       Check(s.ordering # "none", "ValueError"),
       Register([Node("flow", "silver", "valid")
                   EXCEPT !.keyed = s.business_keys, !.sequence = s.ordering,
                          !.deletes = (deletes = "set"), !.threshold = threshold,
                          !.scd = stored_type(s)]),
       Check(deletes # "malformed", "ValueError"),
       Check(s.except_columns # "malformed", "ValueError") >>

(* The arguments of create_auto_cdc_flow are evaluated after the streaming *)
(* table has been created.                                                 *)
AutoCdc(s, deletes, threshold) ==
    << Register([Node("streaming_table", "silver", "none") EXCEPT !.threshold = threshold]),
       Check(s.ordering = "authoritative", "ValueError"),
       Check(deletes # "malformed", "ValueError"),
       Check(s.except_columns # "malformed", "ValueError"),
       Register([Node("flow", "silver", "valid")
                   EXCEPT !.keyed = s.business_keys, !.sequence = s.ordering,
                          !.deletes = (deletes = "set"), !.threshold = threshold,
                          !.scd = stored_type(s)]) >>

register_p01(s, c) ==
    Prologue(s, c) \o Bronze(s, "materialized_view")
    \o << Register(Node("materialized_view", "silver", "bronze")) >>

register_p02(s, c) ==
    << Check(RuntimeContract(s), "ValueError"),
       Check(c.snapshot_source, "ValueError"),
       Check(s.silver_table = "good", "ValueError"),
       Register(Node("streaming_table", "silver", "none")),
       Register([Node("snapshot_flow", "silver", "source")
                   EXCEPT !.keyed = s.business_keys, !.scd = 2]) >>

register_p07(s, c) ==
    Prologue(s, c) \o Bronze(s, "table") \o Quarantine(s) \o ValidView(s)
    \o AutoCdc(s, "absent", 0)

register_p10(s, c) ==
    Prologue(s, c) \o Bronze(s, "table") \o Quarantine(s) \o ValidView(s)
    \o << Check(s.tombstone_retention >= 0, "ValueError") >>
    \o AutoCdc(s, s.apply_as_deletes, _cdc_target_properties(s))

register_p12(s, c) ==
    Prologue(s, c)
    \o << Check(c.transform # "not_callable", "TypeError") >>
    \o Bronze(s, "table") \o Quarantine(s)
    \o << Register([Node("table", "silver", "bronze")
                      EXCEPT !.filtered = quarantine_rules(s)]) >>

build_builtin_runtime(s, c) ==
    CASE s.pattern_id = "P01" -> register_p01(s, c)
      [] s.pattern_id = "P02" -> register_p02(s, c)
      [] s.pattern_id = "P07" -> register_p07(s, c)
      [] s.pattern_id = "P10" -> register_p10(s, c)
      [] s.pattern_id = "P12" -> register_p12(s, c)
      [] OTHER                -> << Check(FALSE, "NotImplementedError") >>

-----------------------------------------------------------------------------
(* Running a handler. *)
FailsAt(plan, i) == plan[i].step = "check" /\ ~ plan[i].ok

Runs(plan, i) == \A j \in 1..i : ~ FailsAt(plan, j)

Registered(plan) ==
    {plan[i].object : i \in {j \in DOMAIN plan : plan[j].step = "register" /\ Runs(plan, j)}}

(* "ok", or the error of the first check that fails. *)
Outcome(plan) ==
    IF Runs(plan, Len(plan)) THEN "ok"
    ELSE plan[CHOOSE i \in DOMAIN plan : FailsAt(plan, i) /\ Runs(plan, i - 1)].error
=============================================================================
