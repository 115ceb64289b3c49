----------------------------- MODULE MCCdcFlow -----------------------------
(* Instances of CdcFlow for TLC. *)
EXTENDS CdcFlow, TLC

CONSTANTS k1, k2

TwoKeys == {k1, k2}
OneKey  == {k1}

(* The keys are interchangeable; only safety is checked under symmetry. *)
KeySymmetry == Permutations(TwoKeys)

(* No rules: every row is one and the same, and is retained. *)
NoRules   == {}
PlainRows == [NoRules -> Verdicts]

(* Two quarantine rules, a WARN rule that must not take part in anything   *)
(* and a FAIL rule.  The rows: all verdicts of the quarantine rules, NULL  *)
(* for the WARN rule, and two more that do not satisfy the FAIL rule.      *)
KnownOperation == [name |-> "known_operation", action |-> "quarantine"]
KeyPresent     == [name |-> "key_present",     action |-> "quarantine"]
NotFuture      == [name |-> "not_future",      action |-> "warn"]
KeyUnique      == [name |-> "key_unique",      action |-> "fail"]
SplitRules == {KnownOperation, KeyPresent, NotFuture, KeyUnique}
AllRows    == {row \in [SplitRules -> Verdicts] :
                  /\ row[NotFuture] = "null"
                  /\ \/ row[KeyUnique] = "true"
                     \/ row[KnownOperation] = "true" /\ row[KeyPresent] = "true"}

TwoDurations == {1, 2}

Cfg(pattern, strategy, deletes, delay, retention) ==
    [pattern |-> pattern, strategy |-> strategy, apply_as_deletes |-> deletes,
     max_delay |-> delay, retention |-> retention]

(* CDC-delete specifications of every policy, a P10 table that keeps its   *)
(* deletes as rows, and a P07 table that even carries a (useless) delete   *)
(* expression.                                                             *)
PolicyConfigs ==
    {Cfg("P10", "cdc_delete", TRUE, d, r) : d \in TwoDurations \cup {Unset},
                                            r \in TwoDurations \cup {Unset}}
    \cup {Cfg("P10", "cdc_delete", FALSE, 1, 2),
          Cfg("P10", "source_soft_delete", FALSE, Unset, Unset),
          Cfg("P07", "source_soft_delete", TRUE, Unset, Unset)}

(* A delete expression and a delay that the tombstones do not outlive,     *)
(* under a strategy other than cdc_delete.                                 *)
UndeclaredConfigs == {Cfg("P10", "periodic_reconciliation", TRUE, 2, 1)}

ShortDurations == {1}
SoftConfig == {Cfg("P07", "source_soft_delete", FALSE, Unset, Unset)}
=============================================================================
