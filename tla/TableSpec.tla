----------------------------- MODULE TableSpec -----------------------------
(***************************************************************************)
(* Dataset contracts: what src/edp_framework/metadata/models.py accepts.   *)
(*                                                                         *)
(* A contract is a flat record.  An optional text, column list or package  *)
(* is a Boolean (declared or not); an optional number is 0 when left out;  *)
(* an option of capture.options is "absent", "set" or "malformed", and a   *)
(* numeric one is 0 when absent and -1 when it is not a positive integer.  *)
(* A relation name is "good" (schema.table), "malformed" or "none".        *)
(***************************************************************************)
EXTENDS DeletePolicy, FiniteSets

CaptureMechanisms == {"full_snapshot", "watermark", "native_cdc", "debezium",
                      "delta_cdf", "kafka", "api", "file", "lakeflow_connect",
                      "snapshot_diff", "custom_package"}
Granularities     == {"none", "net_changes", "full_changes"}
BronzeContracts   == {"current_replica", "raw_append", "snapshot_history",
                      "event_history"}
SilverContracts   == {"current", "current_soft_delete", "scd1", "scd2",
                      "canonical_events", "snapshot_replace", "custom"}
MergeLikeWithoutHistory == {"current", "current_soft_delete", "scd1"}   \* faulty

MergeLike == {"current", "current_soft_delete", "scd1", "scd2"}

BootstrapModes    == {"snapshot_only", "full_then_incremental",
                      "snapshot_at_source_position", "event_stream_from_position",
                      "provider_managed", "custom"}
RecoveryModes     == {"replay_bronze", "replay_source", "snapshot_reload",
                      "full_rebuild", "delta_restore", "custom"}

(* StrictModel's own check of the fields: enumerations and lower bounds.   *)
FieldsOK(s) ==
    /\ s.mechanism \in CaptureMechanisms /\ s.granularity \in Granularities
    /\ s.bronze \in BronzeContracts /\ s.silver \in SilverContracts
    /\ s.delete_strategy \in DeleteStrategies
    /\ s.bootstrap \in BootstrapModes
    /\ s.recovery_allowed \cup {s.recovery_primary} \subseteq RecoveryModes
    /\ s.required_window >= 1 /\ s.bronze_days >= 1

BootstrapOK(s) ==
    s.bootstrap \in {"full_then_incremental", "snapshot_at_source_position",
                     "event_stream_from_position"} => s.handoff_position

DeliveryOK(s) == s.guarantee = "at_least_once" => s.idempotency_keys

RetentionOK(s) == s.replay_window # 0 => s.replay_window >= s.required_window

CaptureOK(s) == s.mechanism = "custom_package" => s.provider_package

DeletesOK(s) == s.delete_strategy = "source_soft_delete" => s.indicator_column

QualityOK(s) == "quarantine" \in s.quality_actions => s.quarantine_table # "none"

(* TableSpec.validate_semantics; ordering is "none", "authoritative" or    *)
(* "advisory" (an OrderingSpec whose authoritative flag is off).           *)
SemanticsOK(s) ==
    /\ s.silver \in MergeLike => s.business_keys
    /\ s.silver = "scd2" => s.ordering # "none"
    /\ s.mechanism = "watermark" => s.cursor_columns # 0
    /\ (s.mechanism = "watermark" \/ s.granularity # "none")
           => s.bootstrap # "snapshot_only"
    /\ s.granularity # "none" => s.ordering # "none"
    /\ s.bronze = "event_history" => s.event_identity \/ s.ordering # "none"
    /\ s.silver = "current_soft_delete" => s.delete_strategy # "none"
    /\ s.reconciliation_enabled => s.reconciliation_rules # {}
    /\ s.recovery_primary \in s.recovery_allowed
    /\ s.recovery_primary = "replay_bronze"
           => s.bronze_days * 24 >= s.required_window
    /\ "replay_source" \in s.recovery_allowed => s.replay_window # 0
    /\ s.delete_strategy = "snapshot_absence"
           => s.mechanism \in {"full_snapshot", "snapshot_diff"}
    /\ s.delete_strategy = "cdc_delete" => s.granularity # "none"

(* Constructing the model runs every submodel's validators, then its own.  *)
ModelValid(s) ==
    /\ FieldsOK(s)
    /\ BootstrapOK(s) /\ DeliveryOK(s) /\ RetentionOK(s) /\ CaptureOK(s)
    /\ DeletesOK(s) /\ QualityOK(s)
    /\ SemanticsOK(s)
=============================================================================
