-------------------------- MODULE MCWorkloadBuild --------------------------
(* The contracts of examples/table_specs, varied, for TLC. *)
EXTENDS WorkloadBuild, TLC

CONSTANTS company, rival

AllIds == BuiltinIds \cup {"P15", "X_COMPANY_001"}

TwoProviders == {company, rival}

CompanyOffers ==
    (company :> [ids |-> <<"X_COMPANY_001", "P15">>, has_build_runtime |-> TRUE])
    @@ (rival :> [ids |-> <<"X_COMPANY_001", "P10">>, has_build_runtime |-> TRUE])

Installations == {{}, {company}}

Numbered == BuiltinIds \cup {"P15"}

Rule(kind) == [kind |-> kind, keys |-> "absent", tolerance_mode |-> "absolute",
               expression |-> kind = "aggregate",
               operation_column |-> kind = "operation_count",
               start_column |-> "absent", end_column |-> "absent"]

(* examples/table_specs/customer_debezium_scd2.yml *)
Debezium ==
    [pattern_id |-> "P10", semantics |-> "change_feed",
     mechanism |-> "debezium", granularity |-> "full_changes", provider_package |-> FALSE,
     apply_as_deletes |-> "set", max_delay |-> 86400, tombstone_retention |-> 604800,
     dedup_watermark |-> "absent", except_columns |-> "set",
     bootstrap |-> "snapshot_at_source_position", handoff_position |-> TRUE,
     guarantee |-> "at_least_once", idempotency_keys |-> TRUE,
     replay_window |-> 168, required_window |-> 120,
     cursor_columns |-> 2, ordering |-> "authoritative",
     business_keys |-> TRUE, event_identity |-> TRUE,
     bronze |-> "event_history", bronze_table |-> "good", bronze_days |-> 365,
     silver |-> "scd2", silver_table |-> "good", effective_time |-> FALSE,
     delete_strategy |-> "cdc_delete", indicator_column |-> FALSE,
     quality_actions |-> {"fail", "quarantine"}, quarantine_table |-> "good",
     reconciliation_enabled |-> TRUE,
     reconciliation_rules |-> {Rule("source_position"), Rule("operation_count"),
                               Rule("scd2_current_uniqueness"), Rule("scd2_no_overlap")},
     recovery_primary |-> "replay_bronze",
     recovery_allowed |-> {"replay_bronze", "replay_source", "full_rebuild", "delta_restore"}]

(* examples/table_specs/customer_watermark_soft_delete.yml *)
Watermark ==
    [Debezium EXCEPT
        !.pattern_id = "P07", !.semantics = "current_state", !.mechanism = "watermark",
        !.granularity = "none", !.apply_as_deletes = "absent", !.max_delay = 0,
        !.tombstone_retention = 0, !.bootstrap = "full_then_incremental",
        !.except_columns = "absent",
        !.replay_window = 0, !.required_window = 168, !.cursor_columns = 1,
        !.event_identity = FALSE, !.bronze = "raw_append", !.silver = "current_soft_delete",
        !.delete_strategy = "source_soft_delete", !.indicator_column = TRUE,
        !.reconciliation_rules = {Rule("source_position"), Rule("key_count"),
                                  Rule("aggregate")},
        !.recovery_allowed = {"replay_bronze", "snapshot_reload", "full_rebuild",
                              "delta_restore"}]

(* examples/table_specs/customer_snapshot_scd2.yml *)
SnapshotScd2 ==
    [Debezium EXCEPT
        !.pattern_id = "P02", !.semantics = "current_state", !.mechanism = "full_snapshot",
        !.granularity = "none", !.apply_as_deletes = "absent", !.max_delay = 0,
        !.tombstone_retention = 0, !.except_columns = "absent",
        !.bootstrap = "snapshot_only", !.handoff_position = FALSE,
        !.guarantee = "effectively_once", !.idempotency_keys = FALSE,
        !.replay_window = 0, !.required_window = 168, !.cursor_columns = 1,
        !.event_identity = FALSE, !.bronze = "snapshot_history", !.bronze_days = 730,
        !.delete_strategy = "snapshot_absence", !.quality_actions = {"fail"},
        !.quarantine_table = "none",
        !.reconciliation_rules = {Rule("row_count"), Rule("key_count"),
                                  Rule("scd2_current_uniqueness"), Rule("scd2_no_overlap")},
        !.recovery_allowed = {"replay_bronze", "snapshot_reload", "full_rebuild",
                              "delta_restore"}]

(* examples/table_specs/country.yml *)
Country ==
    [SnapshotScd2 EXCEPT
        !.pattern_id = "P01", !.required_window = 48, !.cursor_columns = 0,
        !.ordering = "none", !.business_keys = FALSE, !.bronze = "current_replica",
        !.bronze_days = 30, !.silver = "snapshot_replace",
        !.reconciliation_rules = {Rule("row_count"),
                                  [Rule("key_count") EXCEPT !.keys = "set"]},
        !.recovery_primary = "snapshot_reload",
        !.recovery_allowed = {"snapshot_reload", "full_rebuild", "delta_restore"}]

(* examples/table_specs/order_events.yml *)
OrderEvents ==
    [Debezium EXCEPT
        !.pattern_id = "P12", !.semantics = "business_events", !.mechanism = "kafka",
        !.granularity = "none", !.apply_as_deletes = "absent", !.max_delay = 0,
        !.tombstone_retention = 0, !.dedup_watermark = "set", !.except_columns = "absent",
        !.bootstrap = "event_stream_from_position", !.required_window = 72,
        !.silver = "canonical_events", !.effective_time = TRUE,
        !.delete_strategy = "none",
        !.reconciliation_rules = {Rule("source_position"), Rule("row_count")},
        !.recovery_allowed = {"replay_bronze", "replay_source", "full_rebuild"}]

Examples == {Debezium, Watermark, SnapshotScd2, Country, OrderEvents}

(* One departure from an example.  Only the ones ModelValid accepts load. *)
Departures ==
    {<<"pattern_id", "X_COMPANY_001">>, <<"pattern_id", "P15">>, <<"pattern_id", "P05">>,
     <<"pattern_id", "P10">>,
     <<"ordering", "advisory">>, <<"ordering", "none">>, <<"business_keys", FALSE>>,
     <<"quality_actions", {}>>, <<"quality_actions", {"quarantine"}>>,
     <<"quality_actions", {"warn"}>>,
     <<"quarantine_table", "malformed">>, <<"quarantine_table", "none">>,
     <<"silver_table", "malformed">>, <<"silver", "scd1">>, <<"silver", "current">>,
     <<"delete_strategy", "periodic_reconciliation">>, <<"delete_strategy", "cdc_delete">>,
     <<"apply_as_deletes", "absent">>, <<"apply_as_deletes", "malformed">>,
     <<"max_delay", 604800>>, <<"max_delay", 0>>,
     <<"tombstone_retention", 86400>>, <<"tombstone_retention", -1>>,
     <<"except_columns", "malformed">>, <<"effective_time", FALSE>>,
     <<"reconciliation_enabled", FALSE>>,
     <<"reconciliation_rules", {[Rule("aggregate") EXCEPT !.expression = FALSE]}>>,
     <<"reconciliation_rules", {Rule("row_count")}>>}

Varied ==
    Examples
    \cup {[s EXCEPT ![d[1]] = d[2]] : s \in Examples, d \in Departures}
    \cup {[s EXCEPT !.business_keys = FALSE, !.reconciliation_enabled = FALSE] :
              s \in Examples}

(* What a program may assign to a loaded contract. *)
Reassignments ==
    {<<"business_keys", FALSE>>, <<"ordering", "advisory">>, <<"quality_actions", {}>>,
     <<"quality_actions", {"quarantine"}>>, <<"delete_strategy", "cdc_delete">>,
     <<"quarantine_table", "none">>, <<"max_delay", 604800>>,
     <<"tombstone_retention", 86400>>, <<"bronze", "current_replica">>,
     <<"effective_time", FALSE>>}
=============================================================================
