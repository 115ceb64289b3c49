------------------------ MODULE ReconciliationProofs ------------------------
(***************************************************************************)
(* Theorems about the reconciliation engine, for every contract, relations *)
(* of any size and any writer.                                             *)
(***************************************************************************)
EXTENDS Reconciliation, MeasuresProofs, SequenceTheorems

USE DEF vars, inputs

-----------------------------------------------------------------------------
(* The contract and the relations are what they were assumed to be.        *)
InputInv ==
    /\ IsRelation(source) /\ IsRelation(target)
    /\ spec.business_keys \in BusinessKeys /\ context.business_keys \in BusinessKeys
    /\ Len(spec.rules) \in Nat /\ DOMAIN spec.rules = 1..Len(spec.rules)
    /\ \A i \in DOMAIN spec.rules :
          /\ spec.rules[i].severity \in {"warn", "fail"}
          /\ spec.rules[i].keys \in BusinessKeys \cup {"malformed"}
          /\ spec.rules[i].tolerance.num \in Nat
          /\ spec.rules[i].tolerance.den \in Nat \ {0}
    /\ changes \in Nat
    /\ changes = 0 => context.observed \in {position, Nothing}

(* Every result belongs to a rule that the engine implements, and what was *)
(* measured of the source is still true of it unless the measure is torn.  *)
ProgressInv ==
    /\ \A i \in DOMAIN results : spec.rules[i].kind \in SUPPORTED_RULE_KINDS
    /\ status \in {"passed", "warning"} => /\ Len(results) = Len(spec.rules)
                                           /\ ~ Failed("fail")
    /\ (expected # Nothing /\ ~ torn) => expected \in Measured(rule, source)

LEMMA RuleInContract ==
    ASSUME InputInv, TypeOK, Evaluating
    PROVE  /\ Len(results) + 1 \in DOMAIN spec.rules
           /\ rule.severity \in {"warn", "fail"}
           /\ rule.keys \in BusinessKeys \cup {"malformed"}
           /\ rule.tolerance.num \in Nat
           /\ rule.tolerance.den \in Nat \ {0}
<1>1. Len(results) \in Nat
  BY LenProperties DEF TypeOK
<1>2. Len(results) + 1 \in DOMAIN spec.rules
  BY <1>1 DEF InputInv, Evaluating
<1> QED BY <1>2 DEF InputInv, rule

(* What a step that records a verdict does to the results. *)
LEMMA RecordAppends ==
    ASSUME InputInv, TypeOK, Evaluating, NEW passed \in BOOLEAN, Record(rule, passed)
    PROVE  /\ results' \in Seq([passed : BOOLEAN, severity : {"warn", "fail"}])
           /\ Len(results') = Len(results) + 1
           /\ DOMAIN results' = DOMAIN results \cup {Len(results) + 1}
           /\ results'[Len(results) + 1] = [passed |-> passed, severity |-> rule.severity]
           /\ \A i \in DOMAIN results : results'[i] = results[i]
<1> DEFINE T == [passed : BOOLEAN, severity : {"warn", "fail"}]
<1>1. [passed |-> passed, severity |-> rule.severity] \in T
  BY RuleInContract
<1>2. results \in Seq(T)
  BY DEF TypeOK
<1>3. results' = Append(results, [passed |-> passed, severity |-> rule.severity])
  BY DEF Record
<1>4. /\ results' \in Seq(T)
      /\ Len(results') = Len(results) + 1
      /\ \A i \in 1..Len(results) : results'[i] = results[i]
      /\ results'[Len(results) + 1] = [passed |-> passed, severity |-> rule.severity]
  BY <1>1, <1>2, <1>3, AppendProperties
<1>5. /\ DOMAIN results = 1..Len(results) /\ Len(results) \in Nat
      /\ DOMAIN results' = 1..Len(results')
  BY <1>2, <1>4, LenProperties
<1> QED BY <1>4, <1>5

LEMMA BooleanVerdicts ==
    ASSUME NEW r, NEW e, NEW a PROVE Passed(r, e, a) \in BOOLEAN
BY DEF Passed, numeric_passed, categorical_passed, within_tolerance

LEMMA InputsRemain == InputInv /\ [Next]_vars => InputInv'
<1> SUFFICES ASSUME InputInv, [Next]_vars PROVE InputInv'
  OBVIOUS
<1>1. CASE Change
  BY <1>1, RelationsAssumption, ChangesAssumption DEF Change, InputInv
<1>2. CASE UNCHANGED <<inputs>>
  BY <1>2 DEF InputInv
<1>3. [Next]_vars => Change \/ UNCHANGED <<inputs>>
  BY DEF Next, RequireCutoff, Skip, Unsupported, Refuse, MeasureSource, MeasureTarget,
         CountViolations, ComparePositions, Finish, Record, Raise, Report
<1> QED BY <1>1, <1>2, <1>3

LEMMA InputsInitially == Init => InputInv
BY CasesAssumption DEF Init, InputInv

-----------------------------------------------------------------------------
(* Type correctness and progress.                                          *)
RecInv == InputInv /\ TypeOK /\ ProgressInv

LEMMA RecInvInitially == Init => RecInv
<1> SUFFICES ASSUME Init PROVE RecInv
  OBVIOUS
<1>1. InputInv
  BY InputsInitially
<1>2. /\ results \in Seq([passed : BOOLEAN, severity : {"warn", "fail"}])
      /\ Len(results) = 0 /\ DOMAIN results = {}
  BY EmptySeq DEF Init
<1>3. TypeOK
  <2>1. /\ Len(results) <= Len(spec.rules)
        /\ \A i \in DOMAIN results : results[i].severity = spec.rules[i].severity
    BY <1>1, <1>2 DEF InputInv
  <2>2. /\ outcome \in {"running", "report", "ValueError", "NotImplementedError"}
        /\ status \in {"none", "passed", "warning", "failed", "skipped"}
        /\ (status # "none") <=> (outcome = "report")
        /\ changes \in 0..MaxChanges
    BY ChangesAssumption DEF Init
  <2>3. expected = Nothing /\ torn \in BOOLEAN /\ ~ torn
    BY DEF Init
  <2> QED BY <1>2, <2>1, <2>2, <2>3, Zenon DEF TypeOK
<1>4. ProgressInv
  BY <1>2 DEF Init, ProgressInv
<1> QED BY <1>1, <1>3, <1>4 DEF RecInv

(* A recorded verdict keeps the invariant. *)
LEMMA RecordKeeps ==
    ASSUME RecInv, Evaluating, rule.kind \in SUPPORTED_RULE_KINDS,
           NEW passed \in BOOLEAN, Record(rule, passed)
    PROVE  TypeOK' /\ ProgressInv'
<1>1. /\ results' \in Seq([passed : BOOLEAN, severity : {"warn", "fail"}])
      /\ Len(results') = Len(results) + 1
      /\ DOMAIN results' = DOMAIN results \cup {Len(results) + 1}
      /\ results'[Len(results) + 1] = [passed |-> passed, severity |-> rule.severity]
      /\ \A i \in DOMAIN results : results'[i] = results[i]
  BY RecordAppends DEF RecInv
<1>2. Len(results) \in Nat /\ Len(results) < Len(spec.rules) /\ Len(spec.rules) \in Nat
  BY LenProperties DEF RecInv, TypeOK, InputInv, Evaluating
<1>3. /\ expected' = Nothing /\ torn' = FALSE
      /\ UNCHANGED <<inputs, outcome, status>> /\ outcome = "running"
  BY DEF Record, Evaluating
<1>4. status = "none"
  BY <1>3 DEF RecInv, TypeOK
<1>5. rule = spec.rules[Len(results) + 1]
  BY DEF rule
<1>6. \A i \in DOMAIN results' : results'[i].severity = spec'.rules[i].severity
  BY <1>1, <1>3, <1>5 DEF RecInv, TypeOK
<1>7. TypeOK'
  <2>1. Len(results') <= Len(spec'.rules)
    BY <1>1, <1>2, <1>3
  <2>2. /\ outcome' \in {"running", "report", "ValueError", "NotImplementedError"}
        /\ status' \in {"none", "passed", "warning", "failed", "skipped"}
        /\ (status' # "none") <=> (outcome' = "report")
        /\ changes' \in 0..MaxChanges
    BY <1>3, <1>4 DEF RecInv, TypeOK
  <2>3. expected' = Nothing /\ torn' \in BOOLEAN /\ ~ torn'
    BY <1>3
  <2> QED BY <1>1, <1>6, <2>1, <2>2, <2>3, Zenon DEF TypeOK
<1>8. \A i \in DOMAIN results' : spec'.rules[i].kind \in SUPPORTED_RULE_KINDS
  BY <1>1, <1>3, <1>5 DEF RecInv, ProgressInv
<1>9. ProgressInv'
  BY <1>3, <1>4, <1>8 DEF ProgressInv
<1> QED BY <1>7, <1>9

(* So does an exception, and a report of what was evaluated. *)
LEMMA EndKeeps ==
    ASSUME RecInv, UNCHANGED <<inputs, results, expected, torn>>, outcome = "running",
           \/ outcome' \in {"ValueError", "NotImplementedError"} /\ UNCHANGED status
           \/ /\ outcome' = "report"
              /\ status' \in {"passed", "warning", "failed", "skipped"}
              /\ status' \in {"passed", "warning"} => /\ Len(results) = Len(spec.rules)
                                                      /\ ~ Failed("fail")
    PROVE  TypeOK' /\ ProgressInv'
<1>1. status = "none"
  BY DEF RecInv, TypeOK
<1>2. TypeOK'
  BY <1>1 DEF RecInv, TypeOK, rule
<1>3. Failed("fail")' = Failed("fail")
  BY DEF Failed
<1>4. Measured(rule, source)' = Measured(rule, source)
  BY DEF Measured, rule
<1> QED BY <1>1, <1>2, <1>3, <1>4 DEF RecInv, ProgressInv

LEMMA RecInvKept == RecInv /\ [Next]_vars => RecInv'
<1> SUFFICES ASSUME RecInv, [Next]_vars PROVE TypeOK' /\ ProgressInv'
  BY InputsRemain DEF RecInv
<1>1. CASE RequireCutoff
  BY <1>1, EndKeeps DEF RequireCutoff, Raise
<1>2. CASE Skip
  BY <1>2, EndKeeps DEF Skip, Report
<1>3. CASE Unsupported
  BY <1>3, EndKeeps DEF Unsupported, Evaluating, Raise
<1>4. CASE Refuse
  BY <1>4, EndKeeps DEF Refuse, Evaluating, Raise
<1>5. CASE MeasureSource
  <2>1. PICK measure \in Measured(rule, source) :
          IF rule.kind = "aggregate" /\ measure = Null THEN Raise("ValueError")
          ELSE /\ expected' = measure
               /\ UNCHANGED <<inputs, results, outcome, status, torn>>
    BY <1>5 DEF MeasureSource
  <2>2. CASE Raise("ValueError")
    BY <1>5, <2>2, EndKeeps DEF MeasureSource, Evaluating, Raise
  <2>3. CASE /\ expected' = measure /\ ~ (rule.kind = "aggregate" /\ measure = Null)
             /\ UNCHANGED <<inputs, results, outcome, status, torn>>
    <3>1. /\ Len(results) < Len(spec.rules) /\ rule.kind \in ComparingKinds
          /\ expected = Nothing /\ outcome = "running"
      BY <1>5 DEF MeasureSource, Evaluating
    <3>2. rule' = rule /\ torn = FALSE
      BY <2>3, <3>1 DEF rule, RecInv, TypeOK
    <3>3. TypeOK'
      BY <2>3, <3>1, <3>2 DEF RecInv, TypeOK
    <3>4. Measured(rule, source)' = Measured(rule, source)
      BY <2>3, <3>2 DEF Measured
    <3>5. Failed("fail")' = Failed("fail")
      BY <2>3 DEF Failed
    <3> QED BY <2>1, <2>3, <3>3, <3>4, <3>5 DEF RecInv, ProgressInv
  <2> QED BY <2>1, <2>2, <2>3
<1>6. CASE MeasureTarget
  <2>1. /\ Evaluating /\ rule.kind \in SUPPORTED_RULE_KINDS
    BY <1>6 DEF MeasureTarget, RecInv, TypeOK, ComparingKinds, SUPPORTED_RULE_KINDS
  <2>2. PICK measure \in Measured(rule, target) :
          \/ Raise("ValueError")
          \/ Record(rule, Passed(rule, expected, measure))
    BY <1>6 DEF MeasureTarget
  <2>3. CASE Raise("ValueError")
    BY <2>1, <2>3, EndKeeps DEF Evaluating, Raise
  <2>4. CASE Record(rule, Passed(rule, expected, measure))
    BY <2>1, <2>4, BooleanVerdicts, RecordKeeps
  <2> QED BY <2>2, <2>3, <2>4
<1>7. CASE CountViolations
  <2>1. /\ Evaluating /\ rule.kind \in SUPPORTED_RULE_KINDS
    BY <1>7 DEF CountViolations, ZeroKinds, SUPPORTED_RULE_KINDS
  <2>2. PICK measure \in Violations(rule) :
          Raise("ValueError") \/ Record(rule, numeric_passed(rule, 0, measure))
    BY <1>7 DEF CountViolations
  <2>3. CASE Raise("ValueError")
    BY <2>1, <2>3, EndKeeps DEF Evaluating, Raise
  <2>4. CASE Record(rule, numeric_passed(rule, 0, measure))
    <3>1. numeric_passed(rule, 0, measure) \in BOOLEAN
      BY DEF numeric_passed, within_tolerance
    <3> QED BY <2>1, <2>4, <3>1, RecordKeeps
  <2> QED BY <2>2, <2>3, <2>4
<1>8. CASE ComparePositions
  BY <1>8, RecordKeeps DEF ComparePositions, SUPPORTED_RULE_KINDS
<1>9. CASE Finish
  BY <1>9, EndKeeps DEF Finish, Report
<1>10. CASE Change
  <2>1. changes' = changes + 1 /\ changes < MaxChanges /\ torn' = (expected # Nothing)
    BY <1>10 DEF Change
  <2>2. UNCHANGED <<spec, context, results, expected, outcome, status>> /\ rule' = rule
    BY <1>10 DEF Change, rule
  <2>3. TypeOK'
    BY <2>1, <2>2, ChangesAssumption DEF RecInv, TypeOK
  <2>4. Failed("fail")' = Failed("fail")
    BY <2>2 DEF Failed
  <2> QED BY <2>1, <2>2, <2>3, <2>4 DEF RecInv, ProgressInv
<1>11. CASE UNCHANGED vars
  <2>1. rule' = rule /\ Failed("fail")' = Failed("fail")
        /\ Measured(rule, source)' = Measured(rule, source)
    BY <1>11 DEF rule, Failed, Measured
  <2> QED BY <1>11, <2>1 DEF RecInv, TypeOK, ProgressInv
<1> QED BY <1>1, <1>2, <1>3, <1>4, <1>5, <1>6, <1>7, <1>8, <1>9, <1>10, <1>11 DEF Next

THEOREM RecInvariant == Spec => []RecInv
<1> QED BY RecInvInitially, RecInvKept, PTL DEF Spec

(* Type correctness of the engine. *)
THEOREM ReconciliationTypeCorrect == Spec => []TypeOK
<1>1. RecInv => TypeOK
  BY DEF RecInv
<1> QED BY <1>1, RecInvariant, PTL

(* A report that did not fail rests on a passing, implemented verdict for  *)
(* every rule of severity fail.                                            *)
THEOREM NoSilentPassCorrect == Spec => []NoSilentPass
<1>1. RecInv => NoSilentPass
  <2> SUFFICES ASSUME RecInv, status \in {"passed", "warning"},
                      NEW i \in DOMAIN spec.rules
               PROVE  /\ spec.rules[i].kind \in SUPPORTED_RULE_KINDS
                      /\ i \in DOMAIN results
                      /\ spec.rules[i].severity = "fail" => results[i].passed
    BY DEF NoSilentPass
  <2>1. Len(results) = Len(spec.rules) /\ ~ Failed("fail")
    BY DEF RecInv, ProgressInv
  <2>2. DOMAIN results = DOMAIN spec.rules
    BY <2>1, LenProperties DEF RecInv, TypeOK, InputInv
  <2> QED BY <2>1, <2>2 DEF RecInv, ProgressInv, TypeOK, Failed
<1> QED BY <1>1, RecInvariant, PTL

-----------------------------------------------------------------------------
(* Verdicts.                                                               *)

(* Without tolerance only a variance of zero passes, in both modes. *)
LEMMA ExactTolerance ==
    ASSUME NEW r, r.tolerance.num = 0, r.tolerance.den \in Nat \ {0}, Known(r),
           NEW variance \in Nat, NEW scale \in Nat
    PROVE  within_tolerance(r, variance, scale) <=> variance = 0
<1>1. variance * r.tolerance.den <= 0 <=> variance = 0
  OBVIOUS
<1>2. 0 * (IF scale < 1 THEN 1 ELSE scale) = 0
  OBVIOUS
<1> QED BY <1>1, <1>2 DEF within_tolerance, Known

LEMMA ExactNumeric ==
    ASSUME NEW r, r.tolerance.num = 0, r.tolerance.den \in Nat \ {0}, Known(r),
           NEW e \in Int, NEW a \in Int
    PROVE  numeric_passed(r, e, a) <=> e = a
<1>1. Distance(a, e) \in Nat /\ Distance(0, e) \in Nat /\ (Distance(a, e) = 0 <=> e = a)
  BY DEF Distance
<1>2. {e, a} \cap {NaN, Infinity} = {}
  BY NullAssumption
<1> QED BY <1>1, <1>2, ExactTolerance DEF numeric_passed

(* With a tolerance below one row or below 100%, nothing against something *)
(* does not pass.                                                          *)
LEMMA LossFails ==
    ASSUME NEW r, r.tolerance.num \in Nat, r.tolerance.den \in Nat \ {0},
           r.tolerance.num < r.tolerance.den,
           NEW e \in Nat, NEW a \in Nat, numeric_passed(r, e, a)
    PROVE  e = 0 <=> a = 0
<1> DEFINE num == r.tolerance.num
           den == r.tolerance.den
<1>1. within_tolerance(r, Distance(a, e), Distance(0, e))
  BY DEF numeric_passed
<1>2. ASSUME e = 0, a # 0 PROVE FALSE
  <2>1. Distance(a, e) = a /\ Distance(0, e) = 0
    BY <1>2 DEF Distance
  <2>2. a * den <= num
    BY <1>1, <2>1 DEF within_tolerance
  <2>3. a * den >= den
    BY <1>2
  <2> QED BY <2>2, <2>3
<1>3. ASSUME a = 0, e # 0 PROVE FALSE
  <2>1. Distance(a, e) = e /\ Distance(0, e) = e
    BY <1>3 DEF Distance
  <2>2. e * den <= num \/ e * den <= num * e
    BY <1>1, <1>3, <2>1 DEF within_tolerance
  <2>3. e * den >= den /\ e * den > num * e
    BY <1>3
  <2> QED BY <2>2, <2>3
<1> QED BY <1>2, <1>3

(* What a variance within such a tolerance cannot be. *)
LEMMA ToleranceBelowOne ==
    ASSUME NEW r, r.tolerance.num \in Nat, r.tolerance.den \in Nat \ {0},
           r.tolerance.num < r.tolerance.den,
           NEW variance \in Nat, NEW scale \in Nat, within_tolerance(r, variance, scale)
    PROVE  (scale = 0 \/ variance = scale) => variance = 0
<1> DEFINE num == r.tolerance.num
           den == r.tolerance.den
<1>1. CASE scale = 0 /\ variance # 0
  <2>1. variance * den <= num
    BY <1>1 DEF within_tolerance
  <2>2. variance * den >= den
    BY <1>1
  <2> QED BY <2>1, <2>2
<1>2. CASE variance = scale /\ variance # 0
  <2>1. variance * den <= num \/ variance * den <= num * variance
    BY <1>2 DEF within_tolerance
  <2>2. variance * den >= den /\ variance * den > num * variance
    BY <1>2
  <2> QED BY <2>1, <2>2
<1> QED BY <1>1, <1>2

-----------------------------------------------------------------------------
(* Categories.                                                             *)

Differences(e, a) == [c \in DOMAIN e \cup DOMAIN a |-> Distance(Get(a, c), Get(e, c))]

(* The variance and the scale of a distribution are natural numbers, and   *)
(* the variance is zero exactly when no label is counted differently.      *)
LEMMA CategoricalVariance ==
    ASSUME NEW s, NEW t, IsRelation(s), IsRelation(t),
           NEW e \in categorical_counts(s), NEW a \in categorical_counts(t)
    PROVE  /\ SumFunction(e) \in Nat
           /\ SumFunction(e) = 0 <=> Len(s) = 0
           /\ SumFunction(Differences(e, a)) \in Nat
           /\ SumFunction(Differences(e, a)) = 0 <=>
                 \A l \in DOMAIN e \cup DOMAIN a : Get(a, l) = Get(e, l)
<1>1. /\ IsFiniteSet(DOMAIN e) /\ \A l \in DOMAIN e : e[l] \in Nat \ {0}
      /\ DOMAIN e = {} <=> Len(s) = 0
  BY CountsTyped
<1>2. IsFiniteSet(DOMAIN a) /\ \A l \in DOMAIN a : a[l] \in Nat \ {0}
  BY CountsTyped
<1>3. SumFunction(e) \in Nat /\ (SumFunction(e) = 0 <=> Len(s) = 0)
  <2>1. \A l \in DOMAIN e : e[l] \in Nat /\ e[l] # 0
    BY <1>1
  <2>2. SumFunction(e) \in Nat /\ (SumFunction(e) = 0 <=> \A l \in DOMAIN e : e[l] = 0)
    BY <1>1, <2>1, SumOfNaturals
  <2> QED BY <1>1, <2>1, <2>2
<1> DEFINE d == Differences(e, a)
<1>4. /\ DOMAIN d = DOMAIN e \cup DOMAIN a
      /\ \A l \in DOMAIN d : d[l] \in Nat /\ (d[l] = 0 <=> Get(a, l) = Get(e, l))
  <2>1. DOMAIN d = DOMAIN e \cup DOMAIN a
    BY DEF Differences
  <2>2. ASSUME NEW l \in DOMAIN d
        PROVE  d[l] \in Nat /\ (d[l] = 0 <=> Get(a, l) = Get(e, l))
    <3>1. Get(a, l) \in Nat /\ Get(e, l) \in Nat
      BY <1>1, <1>2 DEF Get
    <3>2. d[l] = Distance(Get(a, l), Get(e, l))
      BY <2>1 DEF Differences
    <3> QED BY <3>1, <3>2 DEF Distance
  <2> QED BY <2>1, <2>2
<1>5. IsFiniteSet(DOMAIN d)
  BY <1>1, <1>2, <1>4, FS_Union
<1>6. SumFunction(d) \in Nat /\ (SumFunction(d) = 0 <=> \A l \in DOMAIN d : d[l] = 0)
  <2> HIDE DEF d
  <2> QED BY <1>4, <1>5, SumOfNaturals
<1> QED BY <1>3, <1>4, <1>6

(* Without tolerance and with unambiguous labels, operation_count decides  *)
(* whether the operations are distributed alike.                           *)
LEMMA ExactCategorical ==
    ASSUME NEW r, r.tolerance.num = 0, r.tolerance.den \in Nat \ {0}, Known(r),
           NEW s, NEW t, IsRelation(s), IsRelation(t), LabelsDistinct(s, t),
           NEW e \in categorical_counts(s), NEW a \in categorical_counts(t)
    PROVE  categorical_passed(r, e, a) <=> SameDistribution(s, t)
<1> DEFINE C == CategoriesOf(s) \cup CategoriesOf(t)
<1>1. categorical_passed(r, e, a) <=> SumFunction(Differences(e, a)) = 0
  <2>1. categorical_passed(r, e, a) =
           within_tolerance(r, SumFunction(Differences(e, a)), SumFunction(e))
    BY DEF categorical_passed, Differences
  <2> QED BY <2>1, CategoricalVariance, ExactTolerance
<1>2. categorical_passed(r, e, a) <=> \A l \in DOMAIN e \cup DOMAIN a : Get(a, l) = Get(e, l)
  BY <1>1, CategoricalVariance
<1>3. \A c \in C : Get(e, Label(c)) = CountOf(s, c) /\ Get(a, Label(c)) = CountOf(t, c)
  <2>1. ~ {Null, NullLabel} \subseteq C /\ CategoriesOf(s) \subseteq C /\ CategoriesOf(t) \subseteq C
    BY DEF LabelsDistinct
  <2> HIDE DEF C
  <2> QED BY <2>1, CountsOfCategories DEF Get
<1>4. DOMAIN e \cup DOMAIN a = {Label(c) : c \in C}
  <2>1. /\ DOMAIN e = {Label(c) : c \in CategoriesOf(s)}
        /\ DOMAIN a = {Label(c) : c \in CategoriesOf(t)}
    BY CountsTyped
  <2> QED BY <2>1
<1>5. (\A l \in DOMAIN e \cup DOMAIN a : Get(a, l) = Get(e, l)) <=>
         \A c \in C : Get(a, Label(c)) = Get(e, Label(c))
  <2> HIDE DEF C
  <2> QED BY <1>4
<1> QED BY <1>2, <1>3, <1>5 DEF SameDistribution

(* No distribution of something passes against one of nothing, whatever    *)
(* labels were overwritten.                                                *)
LEMMA LossFailsCategorical ==
    ASSUME NEW r, r.tolerance.num \in Nat, r.tolerance.den \in Nat \ {0},
           r.tolerance.num < r.tolerance.den,
           NEW s, NEW t, IsRelation(s), IsRelation(t),
           NEW e \in categorical_counts(s), NEW a \in categorical_counts(t),
           categorical_passed(r, e, a)
    PROVE  Len(s) = 0 <=> Len(t) = 0
<1> DEFINE variance == SumFunction(Differences(e, a))
           scale == SumFunction(e)
<1>1. /\ variance \in Nat /\ scale \in Nat
      /\ variance = 0 <=> \A l \in DOMAIN e \cup DOMAIN a : Get(a, l) = Get(e, l)
      /\ scale = 0 <=> Len(s) = 0
  BY CategoricalVariance
<1>2. (scale = 0 \/ variance = scale) => variance = 0
  <2>1. within_tolerance(r, variance, scale)
    BY DEF categorical_passed, Differences
  <2> HIDE DEF variance, scale
  <2> QED BY <1>1, <2>1, ToleranceBelowOne
<1>3. /\ DOMAIN e = {} <=> Len(s) = 0
      /\ DOMAIN a = {} <=> Len(t) = 0
      /\ \A l \in DOMAIN e : e[l] \in Nat \ {0}
      /\ \A l \in DOMAIN a : a[l] \in Nat \ {0}
      /\ e = [l \in DOMAIN e |-> e[l]]
  BY CountsTyped
<1>4. variance = 0 => DOMAIN e = DOMAIN a
  <2> HIDE DEF variance
  <2>1. ASSUME variance = 0, NEW l \in DOMAIN e PROVE l \in DOMAIN a
    BY <1>1, <1>3, <2>1 DEF Get
  <2>2. ASSUME variance = 0, NEW l \in DOMAIN a PROVE l \in DOMAIN e
    BY <1>1, <1>3, <2>2 DEF Get
  <2> QED BY <2>1, <2>2
<1>5. DOMAIN a = {} => variance = scale
  <2>1. ASSUME DOMAIN a = {} PROVE Differences(e, a) = e
    <3>1. \A l \in DOMAIN e : Distance(Get(a, l), Get(e, l)) = e[l]
      BY <1>3, <2>1 DEF Get, Distance
    <3>2. Differences(e, a) = [l \in DOMAIN e |-> e[l]]
      BY <2>1, <3>1 DEF Differences
    <3> QED BY <1>3, <3>2
  <2> QED BY <2>1
<1> HIDE DEF variance, scale
<1> QED BY <1>1, <1>2, <1>3, <1>4, <1>5

-----------------------------------------------------------------------------
LEMMA RecordedOrSame == RecInv /\ [Next]_vars => Recorded \/ results' = results
<1> SUFFICES ASSUME RecInv, Next PROVE Recorded \/ results' = results
  OBVIOUS
<1>1. ASSUME NEW passed \in BOOLEAN, Record(rule, passed), Evaluating PROVE Recorded
  <2>1. Len(results') = Len(results) + 1
    BY <1>1, RecordAppends DEF RecInv
  <2>2. Len(results) \in Nat
    BY LenProperties DEF RecInv, TypeOK
  <2> QED BY <2>1, <2>2 DEF Recorded
<1>2. CASE MeasureTarget
  <2>1. PICK a \in Measured(rule, target) :
           results' = results \/ Record(rule, Passed(rule, expected, a))
    BY <1>2 DEF MeasureTarget, Raise
  <2> QED BY <1>1, <1>2, <2>1, BooleanVerdicts DEF MeasureTarget
<1>3. CASE CountViolations
  <2>1. PICK a \in Violations(rule) :
           results' = results \/ Record(rule, numeric_passed(rule, 0, a))
    BY <1>3 DEF CountViolations, Raise
  <2>2. numeric_passed(rule, 0, a) \in BOOLEAN
    BY DEF numeric_passed
  <2> QED BY <1>1, <1>3, <2>1, <2>2 DEF CountViolations
<1>4. CASE ComparePositions
  BY <1>1, <1>4 DEF ComparePositions
<1> QED BY <1>2, <1>3, <1>4
        DEF Next, RequireCutoff, Skip, Unsupported, Refuse, MeasureSource, Finish, Change,
            Raise, Report

(* Which measures a recorded verdict was computed from.                    *)
LEMMA VerdictOf ==
    ASSUME RecInv, Next, Recorded
    PROVE  /\ Evaluating /\ UNCHANGED inputs
           /\ \A i \in DOMAIN results : results'[i] = results[i]
           /\ DOMAIN results' = DOMAIN results \cup {Len(results) + 1}
           /\ \/ rule.kind \in ComparingKinds /\ Known(rule) /\
                 (~ torn => \E e \in Measured(rule, source) : \E a \in Measured(rule, target) :
                                /\ Verdict = Passed(rule, e, a)
                                /\ rule.kind = "aggregate" => e # Null /\ a # Null)
              \/ rule.kind \in ZeroKinds /\ Known(rule) /\
                 \E a \in Violations(rule) : Verdict = numeric_passed(rule, 0, a)
              \/ rule.kind = "source_position" /\
                 Verdict = (context.observed # Nothing /\ context.observed = context.cutoff)
<1>1. Len(results) \in Nat
  BY LenProperties DEF RecInv, TypeOK
<1>2. results' # results
  BY <1>1 DEF Recorded
<1>3. ASSUME NEW passed \in BOOLEAN, Record(rule, passed), Evaluating
      PROVE  /\ Evaluating /\ UNCHANGED inputs
             /\ \A i \in DOMAIN results : results'[i] = results[i]
             /\ DOMAIN results' = DOMAIN results \cup {Len(results) + 1}
             /\ Verdict = passed
  BY <1>3, RecordAppends DEF RecInv, Record, Verdict
<1>4. CASE MeasureTarget
  <2>1. PICK a \in Measured(rule, target) :
           /\ Known(rule)
           /\ rule.kind = "aggregate" => a # Null
           /\ Record(rule, Passed(rule, expected, a))
    BY <1>2, <1>4 DEF MeasureTarget, Raise
  <2>2. /\ rule.kind \in ComparingKinds /\ Evaluating /\ expected # Nothing
        /\ rule.kind = "aggregate" => expected # Null
    BY <1>4 DEF MeasureTarget, RecInv, TypeOK
  <2>3. ~ torn => expected \in Measured(rule, source)
    BY <2>2 DEF RecInv, ProgressInv
  <2>4. Verdict = Passed(rule, expected, a)
    BY <1>3, <2>1, <2>2, BooleanVerdicts
  <2> QED BY <1>3, <2>1, <2>2, <2>3, <2>4, BooleanVerdicts
<1>5. CASE CountViolations
  <2>1. PICK a \in Violations(rule) :
           /\ Known(rule)
           /\ Record(rule, numeric_passed(rule, 0, a))
    BY <1>2, <1>5 DEF CountViolations, Raise
  <2>2. rule.kind \in ZeroKinds /\ Evaluating
    BY <1>5 DEF CountViolations
  <2>3. numeric_passed(rule, 0, a) \in BOOLEAN
    BY DEF numeric_passed
  <2> QED BY <1>3, <2>1, <2>2, <2>3
<1>6. CASE ComparePositions
  BY <1>3, <1>6 DEF ComparePositions
<1> QED BY <1>2, <1>4, <1>5, <1>6
        DEF Next, RequireCutoff, Skip, Unsupported, Refuse, MeasureSource, Finish, Change,
            Raise, Report

(* Rules that compare numbers of rows or keys. *)
LEMMA NumbersCompared ==
    ASSUME RecInv, Next, Recorded, ~ torn, rule.kind \in {"row_count", "key_count"}
    PROVE  /\ Known(rule)
           /\ rule.kind = "row_count" =>
                 Verdict = numeric_passed(rule, Len(source), Len(target))
           /\ rule.kind = "key_count" =>
                 Verdict = numeric_passed(rule, distinct_key_count(source),
                                                distinct_key_count(target))
BY VerdictOf DEF ComparingKinds, ZeroKinds, Measured, Passed, row_count

(* Rules that compare sums. *)
LEMMA AggregateCompared ==
    ASSUME RecInv, Next, Recorded, ~ torn, rule.kind = "aggregate"
    PROVE  /\ Known(rule)
           /\ Verdict = numeric_passed(rule, numeric_scalar(source), numeric_scalar(target))
           /\ numeric_scalar(source) # Null /\ numeric_scalar(target) # Null
BY VerdictOf DEF ZeroKinds, Measured, Passed

LEMMA CategoriesCompared ==
    ASSUME RecInv, Next, Recorded, ~ torn, rule.kind = "operation_count"
    PROVE  /\ Known(rule)
           /\ \E e \in categorical_counts(source) : \E a \in categorical_counts(target) :
                 Verdict = categorical_passed(rule, e, a)
<1>1. /\ Known(rule)
      /\ \E e \in Measured(rule, source) : \E a \in Measured(rule, target) :
            Verdict = Passed(rule, e, a)
  BY VerdictOf DEF ZeroKinds
<1>2. /\ Measured(rule, source) = categorical_counts(source)
      /\ Measured(rule, target) = categorical_counts(target)
  BY DEF Measured
<1>3. \A e, a : Passed(rule, e, a) = categorical_passed(rule, e, a)
  BY DEF Passed
<1> QED BY <1>1, <1>2, <1>3

(* Rules that count violations of a state of the target. *)
LEMMA ViolationsCounted ==
    ASSUME RecInv, Next, Recorded
    PROVE  /\ rule.kind \in ZeroKinds => Known(rule)
           /\ rule.kind = "pk_presence" =>
                 Verdict = numeric_passed(rule, 0, missing_key_count(source, target))
           /\ rule.kind = "scd2_current_uniqueness" =>
                 Verdict = numeric_passed(rule, 0, current_duplicate_key_count(target))
           /\ rule.kind = "scd2_no_overlap" =>
                 \E o \in StartOrders(target) :
                    Verdict = numeric_passed(rule, 0, Cardinality(overlaps(target, o)))
<1>1. /\ rule.kind \in ZeroKinds => Known(rule)
      /\ rule.kind \in ZeroKinds => \E a \in Violations(rule) : Verdict = numeric_passed(rule, 0, a)
  BY VerdictOf DEF ComparingKinds, ZeroKinds
<1>2. CASE rule.kind = "pk_presence"
  BY <1>1, <1>2 DEF Violations, ZeroKinds
<1>3. CASE rule.kind = "scd2_current_uniqueness"
  BY <1>1, <1>3 DEF Violations, ZeroKinds
<1>4. CASE rule.kind = "scd2_no_overlap"
  <2>1. Violations(rule) = {Cardinality(overlaps(target, o)) : o \in StartOrders(target)}
    BY <1>4 DEF Violations, scd2_overlap_count
  <2> QED BY <1>1, <1>4, <2>1 DEF ZeroKinds
<1> QED BY <1>1, <1>2, <1>3, <1>4

LEMMA MissingIsNatural ==
    ASSUME NEW s, NEW t, IsRelation(s) PROVE missing_key_count(s, t) \in Nat
<1> DEFINE missing == {k \in KeysOf(s) : k \in NullKeys \/ k \notin KeysOf(t)}
<1>1. IsFiniteSet(missing)
  BY KeysFinite, FS_Subset, missing \in SUBSET KeysOf(s)
<1> QED BY <1>1, FS_CardinalityType DEF missing_key_count

(* Every rule whose verdict can be exact decides rightly: presence of      *)
(* keys, distributions of operations, the SCD2 rules, the source position, *)
(* and totals as far as a DOUBLE can tell them apart; NaN and infinities   *)
(* never pass (evaluate_reconciliation).                                   *)
THEOREM VerdictsCorrect == Spec => VerdictsTrue
<1>1. RecInv /\ [Next]_vars => [RightVerdict]_vars
  <2> SUFFICES ASSUME RecInv, Next, Recorded, ~ torn, Decides(rule)
               PROVE  Verdict <=> Agreement(rule)
    BY DEF RightVerdict
  <2>1. Evaluating
    BY VerdictOf
  <2>2. /\ rule.tolerance.den \in Nat \ {0}
        /\ IsRelation(source) /\ IsRelation(target)
    BY <2>1, RuleInContract DEF RecInv, InputInv
  <2>3. CASE rule.kind = "pk_presence"
    <3>1. Verdict = numeric_passed(rule, 0, missing_key_count(source, target))
      BY <2>3, ViolationsCounted
    <3>2. rule.tolerance.num = 0 /\ Known(rule)
      BY <2>3, ViolationsCounted DEF Decides, Exact, ZeroKinds
    <3>3. Verdict <=> 0 = missing_key_count(source, target)
      BY <2>2, <3>1, <3>2, ExactNumeric, MissingIsNatural
    <3> QED BY <2>2, <2>3, <3>3, PresenceMeansKeysPresent DEF Agreement
  <2>4. CASE rule.kind = "scd2_current_uniqueness"
    <3>1. Verdict = numeric_passed(rule, 0, current_duplicate_key_count(target))
      BY <2>4, ViolationsCounted
    <3>2. rule.tolerance.num = 0 /\ Known(rule)
      BY <2>4, ViolationsCounted DEF Decides, Exact, ZeroKinds
    <3>3. Verdict <=> 0 = current_duplicate_key_count(target)
      BY <2>2, <3>1, <3>2, ExactNumeric, NoDuplicatesMeansOneCurrentRow
    <3> QED BY <2>2, <2>4, <3>3, NoDuplicatesMeansOneCurrentRow DEF Agreement
  <2>5. CASE rule.kind = "scd2_no_overlap"
    <3>1. PICK o \in StartOrders(target) :
             Verdict = numeric_passed(rule, 0, Cardinality(overlaps(target, o)))
      BY <2>5, ViolationsCounted
    <3>2. rule.tolerance.num = 0 /\ Known(rule) /\ ProperIntervals(target)
      BY <2>5, ViolationsCounted DEF Decides, Exact, ZeroKinds
    <3>3. Verdict <=> overlaps(target, o) = {}
      BY <2>2, <3>1, <3>2, ExactNumeric, OverlapCountZero
    <3> QED BY <2>2, <2>5, <3>2, <3>3, NoOverlapMeansDisjoint DEF Agreement
  <2>6. CASE rule.kind = "source_position"
    <3>1. context.observed = position /\ context.observed # Nothing
      BY <2>6 DEF Decides, RecInv, InputInv
    <3>2. Verdict = (context.observed # Nothing /\ context.observed = context.cutoff)
      BY <2>6, VerdictOf DEF ComparingKinds, ZeroKinds
    <3> QED BY <2>6, <3>1, <3>2 DEF Agreement
  <2>7. CASE rule.kind = "aggregate"
    <3> DEFINE e == numeric_scalar(source)
               a == numeric_scalar(target)
    <3>1. Known(rule) /\ Verdict = numeric_passed(rule, e, a) /\ e # Null /\ a # Null
      BY <2>7, AggregateCompared
    <3>2. /\ rule.tolerance.num = 0
          /\ EqualTotals(source, target) \/ TotalsRepresented(source, target)
      BY <2>7 DEF Decides, Exact
    <3>3. Agreement(rule) <=> EqualTotals(source, target)
      BY <2>7 DEF Agreement
    <3>4. CASE Finite(source) /\ Finite(target)
      <4>1. /\ e = AsDouble(Total(source)) /\ a = AsDouble(Total(target))
            /\ e \in Int /\ a \in Int
            /\ Total(source) \in Int /\ Total(target) \in Int
        BY <2>2, <3>4, NumericScalarTyped, TotalTyped
      <4>2. e = a <=> Total(source) = Total(target)
        BY <3>2, <3>4, <4>1, Represented DEF EqualTotals, TotalsRepresented
      <4>3. numeric_passed(rule, e, a) <=> e = a
        <5> HIDE DEF e, a
        <5> QED BY <2>2, <3>1, <3>2, <4>1, ExactNumeric
      <4> QED BY <3>1, <3>3, <3>4, <4>2, <4>3 DEF EqualTotals
    <3>5. CASE ~ (Finite(source) /\ Finite(target))
      <4>1. e \in {NaN, Infinity} \/ a \in {NaN, Infinity}
        BY <2>2, <3>1, <3>5, NumericScalarTyped
      <4>2. ~ numeric_passed(rule, e, a)
        <5> HIDE DEF e, a
        <5> QED BY <4>1 DEF numeric_passed
      <4> QED BY <3>1, <3>3, <3>5, <4>2 DEF EqualTotals
    <3> QED BY <3>4, <3>5
  <2>8. CASE rule.kind = "operation_count"
    <3>1. PICK e \in categorical_counts(source), a \in categorical_counts(target) :
             Known(rule) /\ Verdict = categorical_passed(rule, e, a)
      BY <2>8, CategoriesCompared
    <3>2. rule.tolerance.num = 0 /\ LabelsDistinct(source, target)
      BY <2>8 DEF Decides, Exact
    <3> QED BY <2>2, <2>8, <3>1, <3>2, ExactCategorical DEF Agreement
  <2> QED BY <2>3, <2>4, <2>5, <2>6, <2>7, <2>8 DEF Decides
<1> QED BY <1>1, RecInvariant, PTL DEF Spec, VerdictsTrue

(* A lost relation is noticed by every counting rule, whatever the         *)
(* tolerance below one row or 100%, and with ambiguous labels as well      *)
(* (_compared_variance).                                                   *)
THEOREM LossesCaught == Spec => LostRelationCaught
<1>1. RecInv /\ [Next]_vars => [LossNoticed]_vars
  <2> SUFFICES ASSUME RecInv, Next, Recorded, ~ torn, Verdict,
                      rule.kind \in {"row_count", "key_count", "operation_count"},
                      rule.tolerance.num < rule.tolerance.den
               PROVE  Len(source) = 0 <=> Len(target) = 0
    BY DEF LossNoticed
  <2>1. /\ rule.tolerance.num \in Nat /\ rule.tolerance.den \in Nat \ {0}
        /\ IsRelation(source) /\ IsRelation(target)
    BY VerdictOf, RuleInContract DEF RecInv, InputInv
  <2>2. CASE rule.kind = "row_count"
    <3>1. numeric_passed(rule, Len(source), Len(target))
      BY <2>2, NumbersCompared
    <3>2. Len(source) \in Nat /\ Len(target) \in Nat
      BY <2>1 DEF IsRelation
    <3> QED BY <2>1, <3>1, <3>2, LossFails
  <2>3. CASE rule.kind = "key_count"
    <3>1. numeric_passed(rule, distinct_key_count(source), distinct_key_count(target))
      BY <2>3, NumbersCompared
    <3>2. /\ distinct_key_count(source) \in Nat /\ distinct_key_count(target) \in Nat
          /\ distinct_key_count(source) = 0 <=> Len(source) = 0
          /\ distinct_key_count(target) = 0 <=> Len(target) = 0
      BY <2>1, KeysFinite, FS_EmptySet DEF distinct_key_count
    <3> QED BY <2>1, <3>1, <3>2, LossFails
  <2>4. CASE rule.kind = "operation_count"
    <3>1. PICK e \in categorical_counts(source), a \in categorical_counts(target) :
             Verdict = categorical_passed(rule, e, a)
      BY <2>4, CategoriesCompared
    <3> QED BY <2>1, <3>1, LossFailsCategorical
  <2> QED BY <2>2, <2>3, <2>4
<1> QED BY <1>1, RecInvariant, PTL DEF Spec, LostRelationCaught

-----------------------------------------------------------------------------
(* Reports.  As long as nothing was written meanwhile, a passing result    *)
(* says the same of the relations as when it was recorded.                 *)
PassedInv ==
    changes = 0 => \A i \in DOMAIN results :
        LET kind == spec.rules[i].kind IN
        /\ Passing(i) =>
              /\ kind = "key_count" => distinct_key_count(source) = distinct_key_count(target)
              /\ kind = "pk_presence" => missing_key_count(source, target) = 0
              /\ kind = "scd2_no_overlap" =>
                    \E o \in StartOrders(target) : overlaps(target, o) = {}
        /\ (kind = "scd2_current_uniqueness" /\ OneCurrentRow(target)) => results[i].passed

LEMMA PassedInvKept == RecInv /\ PassedInv /\ [Next]_vars => PassedInv'
<1> SUFFICES ASSUME RecInv, PassedInv, [Next]_vars, changes' = 0, NEW i \in DOMAIN results',
                    NEW kind, kind = spec'.rules[i].kind
             PROVE  /\ Passing(i)' =>
                          /\ kind = "key_count" =>
                                distinct_key_count(source') = distinct_key_count(target')
                          /\ kind = "pk_presence" => missing_key_count(source', target') = 0
                          /\ kind = "scd2_no_overlap" =>
                                \E o \in StartOrders(target') : overlaps(target', o) = {}
                    /\ (kind = "scd2_current_uniqueness" /\ OneCurrentRow(target'))
                          => results'[i].passed
  BY DEF PassedInv
<1>1. UNCHANGED <<spec, source, target>> /\ changes = 0
  <2>1. ~ Change
    BY DEF Change, RecInv, InputInv
  <2> QED BY <2>1 DEF Next, RequireCutoff, Skip, Unsupported, Refuse, MeasureSource,
                      MeasureTarget, CountViolations, ComparePositions, Finish, Record,
                      Raise, Report
<1>2. CASE i \in DOMAIN results /\ results'[i] = results[i]
  <2>1. Passing(i)' <=> Passing(i)
    BY <1>1, <1>2 DEF Passing
  <2> QED BY <1>1, <1>2, <2>1 DEF PassedInv
<1>3. CASE ~ Recorded
  <2>1. results' = results
    BY <1>3, RecordedOrSame
  <2> QED BY <1>2, <2>1
<1>4. CASE Next /\ Recorded /\ i = Len(results) + 1
  <2>1. /\ Evaluating /\ ~ torn /\ rule = spec.rules[i] /\ kind = rule.kind
    BY <1>1, <1>4, VerdictOf DEF rule, RecInv, TypeOK
  <2>2. /\ rule.tolerance.num \in Nat /\ rule.tolerance.den \in Nat \ {0}
        /\ IsRelation(source) /\ IsRelation(target)
    BY <2>1, RuleInContract DEF RecInv, InputInv
  <2>3. Verdict = results'[i].passed /\ (Passing(i)' => Verdict /\ rule.tolerance.num = 0)
    BY <1>1, <1>4, <2>1 DEF Verdict, Passing, Exact
  <2>4. ASSUME Passing(i)', kind = "key_count"
        PROVE  distinct_key_count(source) = distinct_key_count(target)
    <3>1. Known(rule) /\ numeric_passed(rule, distinct_key_count(source), distinct_key_count(target))
      BY <1>4, <2>1, <2>3, <2>4, NumbersCompared
    <3>2. distinct_key_count(source) \in Nat /\ distinct_key_count(target) \in Nat
      BY <2>2, KeysFinite DEF distinct_key_count
    <3> QED BY <2>2, <2>3, <2>4, <3>1, <3>2, ExactNumeric
  <2>5. ASSUME Passing(i)', kind = "pk_presence"
        PROVE  missing_key_count(source, target) = 0
    <3>1. Known(rule) /\ numeric_passed(rule, 0, missing_key_count(source, target))
      BY <1>4, <2>1, <2>3, <2>5, ViolationsCounted DEF ZeroKinds
    <3> QED BY <2>2, <2>3, <2>5, <3>1, MissingIsNatural, ExactNumeric
  <2>6. ASSUME Passing(i)', kind = "scd2_no_overlap"
        PROVE  \E o \in StartOrders(target) : overlaps(target, o) = {}
    <3>1. PICK o \in StartOrders(target) :
             Known(rule) /\ numeric_passed(rule, 0, Cardinality(overlaps(target, o)))
      BY <1>4, <2>1, <2>3, <2>6, ViolationsCounted DEF ZeroKinds
    <3> QED BY <2>2, <2>3, <2>6, <3>1, OverlapCountZero, ExactNumeric
  <2>7. ASSUME kind = "scd2_current_uniqueness", OneCurrentRow(target)
        PROVE  Verdict
    <3>1. /\ Known(rule)
          /\ Verdict = numeric_passed(rule, 0, current_duplicate_key_count(target))
      BY <1>4, <2>1, <2>7, ViolationsCounted DEF ZeroKinds
    <3>2. current_duplicate_key_count(target) = 0
      BY <2>2, <2>7, NoDuplicatesMeansOneCurrentRow
    <3>3. within_tolerance(rule, 0, 0)
      <4>1. 0 * rule.tolerance.den <= rule.tolerance.num * 1
        BY <2>2
      <4> QED BY <2>2, <3>1, <4>1 DEF within_tolerance, Known
    <3>4. Distance(0, 0) = 0 /\ NaN \notin {0, 0}
      BY NullAssumption DEF Distance
    <3>5. numeric_passed(rule, 0, 0)
      BY <3>3, <3>4 DEF numeric_passed
    <3> QED BY <3>1, <3>2, <3>5
  <2> QED BY <1>1, <2>3, <2>4, <2>5, <2>6, <2>7
<1>5. [Next]_vars /\ Recorded => Next
  BY LenProperties DEF Recorded, RecInv, TypeOK
<1>6. Next /\ Recorded => \/ i \in DOMAIN results /\ results'[i] = results[i]
                          \/ i = Len(results) + 1
  BY VerdictOf
<1> QED BY <1>2, <1>3, <1>4, <1>5, <1>6

THEOREM PassedInvariant == Spec => [](RecInv /\ PassedInv)
<1>1. Init => PassedInv
  BY DEF Init, PassedInv
<1> QED BY <1>1, PassedInvKept, RecInvInitially, RecInvKept, PTL DEF Spec

(* Both key rules passing means that the relations have the same keys. *)
THEOREM EqualKeysCorrect == Spec => []KeyRulesMeanEqualKeys
<1>1. RecInv /\ PassedInv => KeyRulesMeanEqualKeys
  <2> SUFFICES ASSUME RecInv, PassedInv, changes = 0,
                      NEW i \in DOMAIN results, NEW j \in DOMAIN results,
                      Passing(i), Passing(j),
                      spec.rules[i].kind = "key_count", spec.rules[j].kind = "pk_presence"
               PROVE  KeysOf(source) = KeysOf(target)
    BY DEF KeyRulesMeanEqualKeys, OnBusinessKeys
  <2>1. /\ distinct_key_count(source) = distinct_key_count(target)
        /\ missing_key_count(source, target) = 0
    BY DEF PassedInv
  <2> QED BY <2>1, KeyMeasuresMeanEqualKeys DEF RecInv, InputInv
<1> QED BY <1>1, PassedInvariant, PTL

(* A table that passes scd2_no_overlap passes scd2_current_uniqueness. *)
THEOREM NoOverlapUniqueCorrect == Spec => []NoOverlapMeansUnique
<1>1. RecInv /\ PassedInv => NoOverlapMeansUnique
  <2> SUFFICES ASSUME RecInv, PassedInv, changes = 0,
                      NEW i \in DOMAIN results, NEW j \in DOMAIN results, Passing(i),
                      spec.rules[i].kind = "scd2_no_overlap",
                      spec.rules[j].kind = "scd2_current_uniqueness"
               PROVE  results[j].passed
    BY DEF NoOverlapMeansUnique, OnBusinessKeys
  <2>1. OneCurrentRow(target)
    BY NoOverlapMeansOneCurrentRow DEF PassedInv, RecInv, InputInv
  <2> QED BY <2>1 DEF PassedInv
<1> QED BY <1>1, PassedInvariant, PTL

-----------------------------------------------------------------------------
(* A contract that was validated is evaluated without a ValueError, but    *)
(* for the cutoff, a NULL aggregate and names that are no identifiers      *)
(* (contracts.py, engine.py and provider.py).                              *)
THEOREM ValidatedExecutable == Spec => []ValidatedRulesExecutable
<1>1. Init => ValidatedRulesExecutable
  BY DEF Init, ValidatedRulesExecutable
<1>2. RecInv /\ ValidatedRulesExecutable /\ [Next]_vars => ValidatedRulesExecutable'
  <2> SUFFICES ASSUME RecInv, ValidatedRulesExecutable, [Next]_vars,
                      outcome' = "ValueError", Validated'
               PROVE  ValidatedRulesExecutable'
    BY DEF ValidatedRulesExecutable
  <2>1. CASE UNCHANGED vars
    <3>1. rule' = rule /\ Validated' = Validated
      BY <2>1 DEF rule, Validated
    <3> QED BY <2>1, <3>1 DEF ValidatedRulesExecutable, UnsafeNames, _rule_keys
  <2>2. CASE Next
    <3>1. Raise("ValueError") /\ (RequireCutoff \/ Refuse \/ MeasureSource \/ MeasureTarget
                                    \/ CountViolations)
      BY <2>2 DEF Next, RequireCutoff, Skip, Unsupported, Refuse, MeasureSource,
                  MeasureTarget, CountViolations, ComparePositions, Finish, Change, Raise,
                  Report, Record, Evaluating
    <3>2. /\ UNCHANGED <<spec, context, source, target>> /\ rule' = rule
          /\ Validated' = Validated
      BY <3>1 DEF Raise, rule, Validated
    <3>3. CASE RequireCutoff
      BY <3>2, <3>3 DEF RequireCutoff, ValidatedRulesExecutable
    <3>4. ASSUME Evaluating
          PROVE  /\ rule.keys # "malformed"
                 /\ rule.kind \in KeyRuleKinds =>
                        (rule.keys # "absent" \/ spec.business_keys # "absent")
                 /\ Known(rule)
                 /\ rule.kind = "aggregate" => rule.expression
                 /\ rule.kind = "operation_count" => rule.operation_column
                 /\ rule.kind \in {"scd2_current_uniqueness", "scd2_no_overlap"}
                       => "malformed" \notin {rule.start_column, rule.end_column}
      <4>1. rule \in {spec.rules[i] : i \in DOMAIN spec.rules}
        BY <3>4, RuleInContract DEF RecInv, rule
      <4>2. spec.enabled /\ Validated
        BY <3>2, <3>4 DEF Evaluating
      <4>3. RuleOK([reconciliation_enabled |-> spec.enabled,
                    reconciliation_rules   |-> {spec.rules[i] : i \in DOMAIN spec.rules},
                    business_keys          |-> spec.business_keys # "absent"], rule)
        BY <4>1, <4>2 DEF Validated, validate_reconciliation_contract
      <4> QED BY <4>3 DEF RuleOK, Known
    <3>5. CASE Refuse
      <4>1. Evaluating /\ Unreadable(rule)
        BY <3>5 DEF Refuse
      <4>2. rule.kind \in KeyRuleKinds =>
               _rule_keys(rule) \in {"set", "unsafe"}
        <5>1. /\ spec.business_keys \in BusinessKeys /\ context.business_keys \in BusinessKeys
              /\ rule.keys \in BusinessKeys \cup {"malformed"}
          BY <4>1, RuleInContract DEF RecInv, InputInv
        <5> QED BY <3>4, <4>1, <5>1 DEF _rule_keys, BusinessKeys
      <4>3. UnsafeNames(rule)
        BY <3>4, <4>1, <4>2 DEF Unreadable, UnsafeNames
      <4> QED BY <3>2, <4>3 DEF ValidatedRulesExecutable, UnsafeNames, _rule_keys
    <3>6. CASE MeasureSource
      <4>1. PICK measure \in Measured(rule, source) :
              IF rule.kind = "aggregate" /\ measure = Null THEN Raise("ValueError")
              ELSE outcome' = outcome
        BY <3>6 DEF MeasureSource
      <4>2. rule.kind = "aggregate" /\ Null = numeric_scalar(source)
        BY <3>6, <4>1 DEF MeasureSource, Evaluating, Measured
      <4> QED BY <3>2, <4>2 DEF ValidatedRulesExecutable
    <3>7. CASE MeasureTarget
      <4>1. PICK measure \in Measured(rule, target) :
              IF (rule.kind = "aggregate" /\ measure = Null) \/ ~ Known(rule)
              THEN Raise("ValueError") ELSE outcome' = outcome
        BY <3>7 DEF MeasureTarget, Record
      <4>2. rule.kind = "aggregate" /\ Null = numeric_scalar(target)
        BY <3>4, <3>7, <4>1 DEF MeasureTarget, Evaluating, Measured
      <4> QED BY <3>2, <4>2 DEF ValidatedRulesExecutable
    <3>8. CASE CountViolations
      BY <3>4, <3>8 DEF CountViolations, Evaluating, Record
    <3> QED BY <3>1, <3>3, <3>5, <3>6, <3>7, <3>8
  <2> QED BY <2>1, <2>2
<1> QED BY <1>1, <1>2, RecInvariant, PTL DEF Spec
=============================================================================
