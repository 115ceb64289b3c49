---------------------------- MODULE DeletePolicy ----------------------------
(***************************************************************************)
(* What a dataset contract decides about deletes in an AUTO CDC pipeline   *)
(* (src/edp_framework/runtime/builtin.py).  Pipelines are built under this *)
(* policy (WorkloadBuild) and run under it (CdcFlow).                      *)
(*                                                                         *)
(* A policy is a record [pattern, strategy, apply_as_deletes (declared or  *)
(* not), max_delay, retention], the last two Unset or positive.            *)
(***************************************************************************)
EXTENDS Integers

DeleteStrategies == {"none", "source_soft_delete", "cdc_delete",
                     "snapshot_absence", "periodic_reconciliation", "custom"}

Unset == 0       \* an optional duration that the contract leaves out

(* A boundary that the runtime contract does not have (faulty). *)
AdmitsAtBoundary(c) ==
    /\ c.pattern = "P07" => c.strategy = "source_soft_delete"
    /\ (c.pattern = "P10" /\ c.strategy = "cdc_delete") =>
          /\ c.apply_as_deletes
          /\ c.max_delay # Unset
          /\ c.retention # Unset
          /\ ~ (c.retention < c.max_delay)

(* The part of validate_builtin_runtime_contract that concerns deletes.    *)
Admits(c) ==
    /\ c.pattern = "P07" => c.strategy = "source_soft_delete"
    /\ (c.pattern = "P10" /\ c.strategy = "cdc_delete") =>
          /\ c.apply_as_deletes
          /\ c.max_delay # Unset
          /\ c.retention # Unset
          /\ ~ (c.retention <= c.max_delay)

(* A register_p07 that passes the delete expression on, too (faulty). *)
PassesDeletesAlways(c) == c.apply_as_deletes

(* register_p10 passes apply_as_deletes whatever the delete strategy says; *)
(* register_p07 never passes it.                                           *)
PassesDeletes(c) == c.pattern = "P10" /\ c.apply_as_deletes
=============================================================================
