-------------------------- MODULE PatternCatalog ---------------------------
(***************************************************************************)
(* The built-in semantic patterns and the two contract checks that         *)
(* PatternRegistry.validate runs on a dataset contract                     *)
(* (src/edp_framework/patterns/builtins.py, reconciliation/contracts.py).  *)
(***************************************************************************)
EXTENDS TableSpec

BuiltinIds == {"P01", "P02", "P03", "P04", "P05", "P06", "P07",
               "P08", "P09", "P10", "P11", "P12", "P13", "P14"}

BUILTIN_BRONZE == [id \in BuiltinIds |->
    CASE id \in {"P05", "P07"}               -> "raw_append"
      [] id = "P02"                          -> "snapshot_history"
      [] id \in {"P09", "P10", "P12", "P14"} -> "event_history"
      [] OTHER                               -> "current_replica"]

BUILTIN_SILVER == [id \in BuiltinIds |->
    CASE id = "P01"                                -> {"current", "snapshot_replace"}
      [] id = "P02"                                -> {"current", "scd2", "snapshot_replace"}
      [] id \in {"P03", "P04", "P08", "P11", "P13"} -> {"current", "scd1"}
      [] id = "P05"                                -> {"current", "scd1", "scd2"}
      [] id = "P06"                                -> {"current_soft_delete", "scd1"}
      [] id = "P07"                                -> {"current_soft_delete", "scd1", "scd2"}
      [] id \in {"P09", "P14"}                     -> {"current", "scd2"}
      [] id = "P10" -> {"current", "scd1", "scd2", "canonical_events"}
      [] id = "P12" -> {"canonical_events", "current"}]

EXPECTED_SEMANTICS == [id \in BuiltinIds |->
    CASE id \in {"P08", "P09", "P10", "P11"} -> "change_feed"
      [] id = "P12"                          -> "business_events"
      [] id \in {"P13", "P14"}               -> "derived_changes"
      [] OTHER                               -> "current_state"]

EXPECTED_CHANGE_GRANULARITY == [id \in {"P08", "P09", "P10", "P11"} |->
    IF id \in {"P08", "P09"} THEN "net_changes" ELSE "full_changes"]

(* What validate_builtin_pattern does with a contract: it returns, raises  *)
(* a ValueError, or fails to find the pattern in EXPECTED_SEMANTICS.       *)
validate_builtin_pattern(s) ==
    IF s.pattern_id \notin DOMAIN EXPECTED_SEMANTICS THEN "KeyError"
    ELSE IF /\ s.semantics = EXPECTED_SEMANTICS[s.pattern_id]
            /\ s.pattern_id \in DOMAIN EXPECTED_CHANGE_GRANULARITY =>
                   s.granularity = EXPECTED_CHANGE_GRANULARITY[s.pattern_id]
            /\ s.bronze = BUILTIN_BRONZE[s.pattern_id]
            /\ s.silver \in BUILTIN_SILVER[s.pattern_id]
         THEN "ok" ELSE "ValueError"

(***************************************************************************)
(* A reconciliation rule: options.keys is "absent", "malformed", or a list *)
(* of names: "set" if all are identifiers, "unsafe" if not.  The same goes *)
(* for start_column and end_column.                                        *)
(***************************************************************************)
KeyRuleKinds == {"key_count", "pk_presence", "scd2_current_uniqueness",
                 "scd2_no_overlap"}

RuleOK(s, r) ==
    /\ r.keys # "malformed"
    /\ r.kind \in KeyRuleKinds => (r.keys # "absent" \/ s.business_keys)
    /\ r.tolerance_mode \in {"absolute", "relative"}
    /\ r.kind = "aggregate" => r.expression
    /\ r.kind = "operation_count" => r.operation_column
    /\ r.kind \in {"scd2_current_uniqueness", "scd2_no_overlap"}
           => "malformed" \notin {r.start_column, r.end_column}

validate_reconciliation_contract(s) ==
    s.reconciliation_enabled => \A r \in s.reconciliation_rules : RuleOK(s, r)
=============================================================================
