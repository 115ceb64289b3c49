------------------------------ MODULE Quality ------------------------------
(***************************************************************************)
(* Row-level data quality: how a set of declared rules splits the rows of  *)
(* a Bronze stream (src/edp_framework/quality/expectations.py).            *)
(*                                                                         *)
(* A rule is a record [name, action].  The framework never evaluates a     *)
(* rule: it hands Spark a SQL predicate, and SQL is three-valued, so a row *)
(* gives each rule one of three verdicts.  A row is therefore a function   *)
(* from rules to Verdicts, and a filter keeps a row only when its          *)
(* predicate is "true" ("null" is not kept).                               *)
(***************************************************************************)

Verdicts == {"true", "false", "null"}

QualityActions == {"warn", "quarantine", "fail"}

Negation(v) == CASE v = "true"  -> "false"
                 [] v = "false" -> "true"
                 [] v = "null"  -> "null"

Conjunction(vs) == IF "false" \in vs THEN "false"
                   ELSE IF "null" \in vs THEN "null" ELSE "true"

Disjunction(vs) == IF "true" \in vs THEN "true"
                   ELSE IF "null" \in vs THEN "null" ELSE "false"

rules_for_action(rules, action) == {r \in rules : r.action = action}

(* "(e1) AND (e2) ..." evaluated on a row. *)
valid_expression(rules, row) == Conjunction({row[r] : r \in rules})

(* A quarantine that takes only the rows that violate every rule (faulty). *)
invalid_by_all(rules, row) == Conjunction({Negation(row[r]) : r \in rules})

(* "NOT (e1) OR NOT (e2) ..." evaluated on a row. *)
invalid_expression(rules, row) == Disjunction({Negation(row[r]) : r \in rules})

(* The filter of the valid stream; without quarantine rules there is no    *)
(* filter and every row passes.                                            *)
Retained(rules, row) ==
    LET quarantine_rules == rules_for_action(rules, "quarantine") IN
    \/ quarantine_rules = {}
    \/ valid_expression(quarantine_rules, row) = "true"

(* The filter of the quarantine table; without quarantine rules the table  *)
(* is not registered and receives nothing.                                 *)
Quarantined(rules, row) ==
    LET quarantine_rules == rules_for_action(rules, "quarantine") IN
    /\ quarantine_rules # {}
    /\ invalid_expression(quarantine_rules, row) = "true"

(* A FAIL expectation may let the row pass, and may stop the update: what  *)
(* it does when the rule is NULL is left open.                             *)
MayPass(rules, row) == \A r \in rules_for_action(rules, "fail") : row[r] # "false"
MayStop(rules, row) == \E r \in rules_for_action(rules, "fail") : row[r] # "true"

(* Every quarantine rule has a two-valued verdict on the row. *)
Decided(rules, row) ==
    \A r \in rules_for_action(rules, "quarantine") : row[r] # "null"
=============================================================================
