--------------------------- MODULE Reconciliation ---------------------------
(***************************************************************************)
(* evaluate_reconciliation (src/edp_framework/reconciliation/engine.py):   *)
(* the rules of a contract, evaluated one after the other against a source *)
(* and a target relation.  Every measure is a query of its own, and the    *)
(* workload that should have pinned both relations to one cutoff may not   *)
(* have done so: either may change between two queries.                    *)
(*                                                                         *)
(* A rule is a rule of PatternCatalog with a severity and a tolerance, a   *)
(* non-negative fraction [num, den].  operation_column is TRUE or FALSE    *)
(* there; here unsafe_column says that the name is no identifier.  The     *)
(* business keys of a contract or a context are "absent", "set" (all are   *)
(* identifiers) or "unsafe".                                               *)
(***************************************************************************)
EXTENDS PatternCatalog, Measures

CONSTANTS Cases,      \* what may be reconciled: [enabled, business_keys, rules, source, target]
          Relations,  \* what a relation may become while it is being read
          Positions,  \* source positions
          Nothing,    \* no value
          MaxChanges  \* bound: changes of a relation during an evaluation

ASSUME ChangesAssumption == MaxChanges \in Nat
ASSUME RelationsAssumption == \A rel \in Relations : IsRelation(rel)

BusinessKeys == {"absent", "set", "unsafe"}

(* Contracts as they are loaded: tolerances are not negative.              *)
ASSUME CasesAssumption ==
    \A c \in Cases :
        /\ IsRelation(c.source) /\ IsRelation(c.target)
        /\ c.business_keys \in BusinessKeys /\ c.context.business_keys \in BusinessKeys
        /\ Len(c.rules) \in Nat /\ DOMAIN c.rules = 1..Len(c.rules)
        /\ \A i \in DOMAIN c.rules :
              /\ c.rules[i].severity \in {"warn", "fail"}
              /\ c.rules[i].keys \in BusinessKeys \cup {"malformed"}
              /\ c.rules[i].tolerance.num \in Nat
              /\ c.rules[i].tolerance.den \in Nat \ {0}

VARIABLES
    spec,      \* [enabled, business_keys, rules] of the contract
    context,   \* [cutoff, business_keys, observed] supplied by the workload
    source,    \* the relation behind context.source_relation
    target,    \* the relation behind context.target_relation
    position,  \* the source position that the target reflects
    results,   \* the results of the rules evaluated so far
    expected,  \* the source's measure, between the two queries of a rule
    outcome,   \* "running", "report" or the exception raised
    status,    \* the status of the report
    changes,   \* history: changes of the relations since the evaluation began
    torn       \* history: a relation changed between the two queries of a rule

vars == <<spec, context, source, target, position, results, expected, outcome,
          status, changes, torn>>

inputs == <<spec, context, source, target, position, changes>>

SUPPORTED_RULE_KINDS ==
    {"row_count", "key_count", "pk_presence", "aggregate", "source_position",
     "operation_count", "scd2_current_uniqueness", "scd2_no_overlap"}

(* Rules that query the source first and the target next. *)
ComparingKinds == {"row_count", "key_count", "aggregate", "operation_count"}

(* Rules that compare one query with zero. *)
ZeroKinds == {"pk_presence", "scd2_current_uniqueness", "scd2_no_overlap"}

Init ==
    /\ \E c \in Cases :
          /\ spec = [enabled |-> c.enabled, business_keys |-> c.business_keys,
                     rules |-> c.rules]
          /\ context = c.context
          /\ source = c.source
          /\ target = c.target
    /\ position \in Positions
    /\ context.observed \in {position, Nothing}
    /\ results = << >>
    /\ expected = Nothing
    /\ outcome = "running"
    /\ status = "none"
    /\ changes = 0
    /\ torn = FALSE

-----------------------------------------------------------------------------
(* One rule.                                                               *)

rule == spec.rules[Len(results) + 1]

Evaluating == /\ outcome = "running"
              /\ spec.enabled /\ context.cutoff # Nothing
              /\ Len(results) < Len(spec.rules)

(* Faulty: the contract's own business keys are forgotten.                 *)
keys_without_identity(r) == IF r.keys # "absent" THEN r.keys ELSE context.business_keys

(* The keys of a rule: its own, else the context's, else the contract's.   *)
_rule_keys(r) ==
    CASE r.keys # "absent" -> r.keys
      [] r.keys = "absent" /\ context.business_keys # "absent" -> context.business_keys
      [] OTHER -> spec.business_keys

(* What is raised before anything is measured: by the engine, when keys or *)
(* an option are missing, and by _column of the provider, which sees every *)
(* name that goes into a query, wherever it was declared.                  *)
Unreadable(r) ==
    \/ r.kind \in KeyRuleKinds /\ _rule_keys(r) # "set"
    \/ r.kind = "aggregate" /\ ~ r.expression
    \/ r.kind = "operation_count" /\ (~ r.operation_column \/ r.unsafe_column)
    \/ r.kind \in {"scd2_current_uniqueness", "scd2_no_overlap"}
           /\ r.end_column \in {"malformed", "unsafe"}
    \/ r.kind = "scd2_no_overlap" /\ r.start_column \in {"malformed", "unsafe"}

(* What a query of a comparing rule may return. *)
Measured(r, rel) ==
    CASE r.kind = "row_count"       -> {row_count(rel)}
      [] r.kind = "key_count"       -> {distinct_key_count(rel)}
      [] r.kind = "aggregate"       -> {numeric_scalar(rel)}
      [] r.kind = "operation_count" -> categorical_counts(rel)

(* What the query of a rule that expects zero may return. *)
Violations(r) ==
    CASE r.kind = "pk_presence"             -> {missing_key_count(source, target)}
      [] r.kind = "scd2_current_uniqueness" -> {current_duplicate_key_count(target)}
      [] r.kind = "scd2_no_overlap"         -> scd2_overlap_count(target)

Distance(a, b) == IF a < b THEN b - a ELSE a - b

(* compared_variance <= rule.tolerance; relative means relative to at      *)
(* least 1.                                                                *)
within_tolerance(r, variance, scale) ==
    \/ r.tolerance_mode = "absolute" /\ variance * r.tolerance.den <= r.tolerance.num
    \/ r.tolerance_mode = "relative"
          /\ variance * r.tolerance.den <= r.tolerance.num * (IF scale < 1 THEN 1 ELSE scale)

(* A difference to NaN or to an infinity, of two equal ones too, is NaN or *)
(* infinite, and so is its ratio to the expected value: neither is within  *)
(* a tolerance.                                                            *)
numeric_passed(r, e, a) ==
    {e, a} \cap {NaN, Infinity} = {} /\ within_tolerance(r, Distance(a, e), Distance(0, e))

Get(counts, c) == IF c \in DOMAIN counts THEN counts[c] ELSE 0

(* Faulty: compares the categories that the source has. *)
categorical_passed_on_source(r, e, a) ==
    within_tolerance(r, SumFunction([c \in DOMAIN e |-> Distance(Get(a, c), e[c])]),
                        SumFunction(e))

(* The differences of all categories, against the sum of the source's.     *)
categorical_passed(r, e, a) ==
    within_tolerance(r, SumFunction([c \in DOMAIN e \cup DOMAIN a |->
                                        Distance(Get(a, c), Get(e, c))]),
                        SumFunction(e))

Passed(r, e, a) == IF r.kind = "operation_count" THEN categorical_passed(r, e, a)
                   ELSE numeric_passed(r, e, a)

Record(r, passed) ==
    /\ results' = Append(results, [passed |-> passed, severity |-> r.severity])
    /\ expected' = Nothing
    /\ torn' = FALSE
    /\ UNCHANGED <<inputs, outcome, status>>

Raise(error) == /\ outcome' = error
                /\ UNCHANGED <<inputs, results, expected, status, torn>>

Report(s) == /\ outcome' = "report"
             /\ status' = s
             /\ UNCHANGED <<inputs, results, expected, torn>>

(* The cutoff is looked at first, whether the reconciliation is enabled or *)
(* not.                                                                    *)
RequireCutoff == /\ outcome = "running" /\ context.cutoff = Nothing
                 /\ Raise("ValueError")

Skip == /\ outcome = "running" /\ context.cutoff # Nothing
        /\ ~ spec.enabled
        /\ Report("skipped")

(* Faulty: a rule that the engine does not know counts as passed.          *)
UnsupportedPasses == /\ Evaluating
                     /\ rule.kind \notin SUPPORTED_RULE_KINDS
                     /\ Record(rule, TRUE)

Unsupported == /\ Evaluating
               /\ rule.kind \notin SUPPORTED_RULE_KINDS
               /\ Raise("NotImplementedError")

Refuse == /\ Evaluating
          /\ rule.kind \in SUPPORTED_RULE_KINDS /\ Unreadable(rule)
          /\ Raise("ValueError")

Known(r) == r.tolerance_mode \in {"absolute", "relative"}

(* Faulty: keeps a measure that is NULL.                                   *)
MeasureSourceUnchecked ==
    /\ Evaluating /\ expected = Nothing
    /\ rule.kind \in ComparingKinds /\ ~ Unreadable(rule)
    /\ expected' \in Measured(rule, source)
    /\ UNCHANGED <<inputs, results, outcome, status, torn>>

MeasureSource ==
    /\ Evaluating /\ expected = Nothing
    /\ rule.kind \in ComparingKinds /\ ~ Unreadable(rule)
    /\ \E measure \in Measured(rule, source) :
          IF rule.kind = "aggregate" /\ measure = Null THEN Raise("ValueError")
          ELSE /\ expected' = measure
               /\ UNCHANGED <<inputs, results, outcome, status, torn>>

(* An unknown tolerance mode is noticed when both sides are measured.      *)
MeasureTarget ==
    /\ Evaluating /\ expected # Nothing
    /\ \E measure \in Measured(rule, target) :
          IF (rule.kind = "aggregate" /\ measure = Null) \/ ~ Known(rule) THEN Raise("ValueError")
          ELSE Record(rule, Passed(rule, expected, measure))

CountViolations ==
    /\ Evaluating
    /\ rule.kind \in ZeroKinds /\ ~ Unreadable(rule)
    /\ \E measure \in Violations(rule) :
          IF ~ Known(rule) THEN Raise("ValueError")
          ELSE Record(rule, numeric_passed(rule, 0, measure))

ComparePositions ==
    /\ Evaluating
    /\ rule.kind = "source_position"
    /\ Record(rule, context.observed # Nothing /\ context.observed = context.cutoff)

Failed(severity) == \E i \in DOMAIN results : ~ results[i].passed
                                             /\ results[i].severity = severity

Finish == /\ outcome = "running" /\ context.cutoff # Nothing /\ spec.enabled
          /\ Len(results) = Len(spec.rules)
          /\ Report(CASE Failed("fail") -> "failed"
                      [] ~ Failed("fail") /\ Failed("warn") -> "warning"
                      [] OTHER -> "passed")

(* Somebody writes to a relation that is being reconciled.                 *)
Change ==
    /\ outcome = "running" /\ changes < MaxChanges
    /\ \E rel \in Relations :
          \/ /\ source' = rel
             /\ UNCHANGED <<target, position>>
          \/ /\ target' = rel
             /\ position' \in Positions
             /\ UNCHANGED source
    /\ changes' = changes + 1
    /\ torn' = (expected # Nothing)
    /\ UNCHANGED <<spec, context, results, expected, outcome, status>>

Next == \/ RequireCutoff \/ Skip \/ Unsupported \/ Refuse
        \/ MeasureSource \/ MeasureTarget \/ CountViolations \/ ComparePositions
        \/ Finish \/ Change

Spec == Init /\ [][Next]_vars
-----------------------------------------------------------------------------
(* Type invariant: every result belongs to a rule, and a measure is kept   *)
(* only between the two queries of a comparing rule.                       *)
TypeOK ==
    /\ results \in Seq([passed : BOOLEAN, severity : {"warn", "fail"}])
    /\ Len(results) <= Len(spec.rules)
    /\ \A i \in DOMAIN results : results[i].severity = spec.rules[i].severity
    /\ outcome \in {"running", "report", "ValueError", "NotImplementedError"}
    /\ status \in {"none", "passed", "warning", "failed", "skipped"}
    /\ status # "none" <=> outcome = "report"
    /\ changes \in 0..MaxChanges
    /\ expected # Nothing => /\ Len(results) < Len(spec.rules)
                             /\ rule.kind \in ComparingKinds
                             /\ rule.kind = "aggregate" => expected # Null
    /\ torn \in BOOLEAN
    /\ torn => expected # Nothing /\ changes > 0

Exact(r) == r.tolerance.num = 0

(* What a rule is there to establish, and when its verdict can say so: the *)
(* labels of the categories are not ambiguous, no version is empty, the    *)
(* observed position is the target's, and totals that differ are not too   *)
(* large for a DOUBLE to tell them apart (equal ones may be of any size).  *)
Agreement(r) ==
    CASE r.kind = "pk_presence"             -> KeysPresent(source, target)
      [] r.kind = "operation_count"         -> SameDistribution(source, target)
      [] r.kind = "aggregate"               -> EqualTotals(source, target)
      [] r.kind = "scd2_current_uniqueness" -> OneCurrentRow(target)
      [] r.kind = "scd2_no_overlap"         -> DisjointVersions(target)
      [] r.kind = "source_position"         -> position = context.cutoff

Decides(r) ==
    \/ r.kind \in {"pk_presence", "scd2_current_uniqueness"} /\ Exact(r)
    \/ /\ r.kind = "aggregate" /\ Exact(r)
       /\ EqualTotals(source, target) \/ TotalsRepresented(source, target)
    \/ r.kind = "operation_count" /\ Exact(r) /\ LabelsDistinct(source, target)
    \/ r.kind = "scd2_no_overlap" /\ Exact(r) /\ ProperIntervals(target)
    \/ r.kind = "source_position" /\ context.observed # Nothing /\ changes = 0

Recorded == Len(results') > Len(results)

Verdict == results'[Len(results) + 1].passed

(* A verdict is right: without tolerance a rule passes if and only if the  *)
(* relations agree in what the rule is about, unless one of them changed   *)
(* between the two queries of that rule (engine.py _evaluate_rule and the  *)
(* measures of provider.py, with NULL keys, NULL categories, ties of the   *)
(* start and open ends).                                                   *)
RightVerdict == (Recorded /\ ~ torn /\ Decides(rule)) => (Verdict <=> Agreement(rule))

VerdictsTrue == [][RightVerdict]_vars

(* A relation that was lost is noticed: a counting rule with a tolerance   *)
(* below one row, or below 100%, never passes when one side is empty and   *)
(* the other is not, not even with an expected count of zero               *)
(* (_compared_variance).                                                   *)
LossNoticed ==
    (/\ Recorded /\ ~ torn /\ Verdict
     /\ rule.kind \in {"row_count", "key_count", "operation_count"}
     /\ rule.tolerance.num < rule.tolerance.den)
    => (Len(source) = 0 <=> Len(target) = 0)

LostRelationCaught == [][LossNoticed]_vars

(* A report that did not fail has a passing verdict for every rule of      *)
(* severity fail: no rule is skipped, and none that the engine does not    *)
(* implement passes (the promise of _evaluate_rule's NotImplementedError). *)
NoSilentPass ==
    status \in {"passed", "warning"} =>
        \A i \in DOMAIN spec.rules :
            /\ spec.rules[i].kind \in SUPPORTED_RULE_KINDS
            /\ i \in DOMAIN results
            /\ spec.rules[i].severity = "fail" => results[i].passed

Validated == validate_reconciliation_contract(
                [reconciliation_enabled |-> spec.enabled,
                 reconciliation_rules   |-> {spec.rules[i] : i \in DOMAIN spec.rules},
                 business_keys          |-> spec.business_keys # "absent"])

(* A name that the rule's queries use is no identifier.                    *)
UnsafeNames(r) ==
    \/ r.kind \in KeyRuleKinds /\ _rule_keys(r) = "unsafe"
    \/ r.kind \in {"scd2_current_uniqueness", "scd2_no_overlap"} /\ r.end_column = "unsafe"
    \/ r.kind = "scd2_no_overlap" /\ r.start_column = "unsafe"
    \/ r.kind = "operation_count" /\ r.unsafe_column

(* What validate_reconciliation_contract accepted can be evaluated: a      *)
(* ValueError of the engine then comes from the workload (no cutoff), from *)
(* the data (an aggregate that is NULL) or from a column name that is no   *)
(* identifier, which the validation does not look at: not in the rule, and *)
(* not in the business keys that the rule falls back on (contracts.py:40   *)
(* against the checks of engine.py and provider.py).                       *)
ValidatedRulesExecutable ==
    (outcome = "ValueError" /\ Validated) =>
        \/ context.cutoff = Nothing
        \/ UnsafeNames(rule)
        \/ rule.kind = "aggregate" /\ Null \in {numeric_scalar(source), numeric_scalar(target)}

Passing(i) == i \in DOMAIN results /\ results[i].passed /\ Exact(spec.rules[i])

OnBusinessKeys(i, kind) == spec.rules[i].kind = kind /\ spec.rules[i].keys = "absent"

(* key_count and pk_presence together establish equal sets of keys, which  *)
(* neither of them does alone (relations that do not change meanwhile).    *)
KeyRulesMeanEqualKeys ==
    \A i, j \in DOMAIN results :
        (/\ changes = 0 /\ Passing(i) /\ Passing(j)
         /\ OnBusinessKeys(i, "key_count") /\ OnBusinessKeys(j, "pk_presence"))
        => KeysOf(source) = KeysOf(target)

(* An SCD2 table that passes scd2_no_overlap has one current row per key:  *)
(* it passes scd2_current_uniqueness as well.                              *)
NoOverlapMeansUnique ==
    \A i, j \in DOMAIN results :
        (/\ changes = 0 /\ Passing(i)
         /\ OnBusinessKeys(i, "scd2_no_overlap")
         /\ OnBusinessKeys(j, "scd2_current_uniqueness"))
        => results[j].passed
=============================================================================
