------------------------- MODULE MCReconciliation --------------------------
(* Rules and relations for TLC: for every measure the relations that make *)
(* a difference to it, and contracts that are wrong in every way.         *)
EXTENDS Reconciliation, TLC

CONSTANTS a, b, nokey,    \* two keys, and a key with a NULL
          create, delete, \* two operation categories
          p1, p2          \* two source positions

ThreeKeys    == {a, b, nokey}
OneNullKey   == {nokey}
TwoPositions == {p1, p2}

Row(k, c, n, s, e) == [key |-> k, category |-> c, amount |-> n, start |-> s, end |-> e]

UpTo(n, S) == UNION {[1..m -> S] : m \in 0..n}

KeyRelations == UpTo(3, {Row(k, create, 0, 1, Null) : k \in ThreeKeys})

CategoryRelations ==
    UpTo(2, {Row(a, c, 0, 1, Null) : c \in {create, delete, Null, NullLabel}})

(* With ExactUpTo = 8 a DOUBLE does not tell 8 + 1 from 8. *)
AmountRelations ==
    UpTo(2, {Row(a, create, n, 1, Null) : n \in {1, 8, Null, NaN, Infinity}})

(* Versions with ties, gaps, overlaps, open ends and an empty interval, of *)
(* one key or two.                                                         *)
Versions == {Row(a, create, 0, s, e) : s \in 1..3, e \in {2, 3, Null}}

VersionRelations ==
    {rel \in UpTo(3, Versions) : \A i \in DOMAIN rel : rel[i].end # Null => rel[i].start <= rel[i].end}
    \cup {Append(rel, Row(b, create, 0, 2, Null)) : rel \in [1..2 -> Versions]}

-----------------------------------------------------------------------------
Tolerance(n, d) == [num |-> n, den |-> d]

Rule(kind) ==
    [kind |-> kind, severity |-> "fail", keys |-> "absent", tolerance_mode |-> "absolute",
     tolerance |-> Tolerance(0, 1), expression |-> kind = "aggregate",
     operation_column |-> kind = "operation_count", unsafe_column |-> FALSE,
     start_column |-> "absent", end_column |-> "absent"]

Warn(kind) == [Rule(kind) EXCEPT !.severity = "warn"]

Within(kind, n, d, mode) == [Rule(kind) EXCEPT !.tolerance = Tolerance(n, d),
                                               !.tolerance_mode = mode]

Aligned == [cutoff |-> p1, business_keys |-> "absent", observed |-> p1]

Case(rules, src, tgt) ==
    [enabled |-> TRUE, business_keys |-> "set", rules |-> rules, context |-> Aligned,
     source |-> src, target |-> tgt]

MeasureCases ==
    {Case(rules, src, tgt) :
        rules \in {<<Rule("key_count"), Rule("pk_presence")>>,
                   <<Within("row_count", 1, 2, "relative"), Warn("row_count")>>},
        src \in KeyRelations, tgt \in KeyRelations}
    \cup {Case(rules, src, tgt) :
        rules \in {<<Rule("operation_count")>>,
                   <<Within("operation_count", 1, 2, "relative")>>},
        src \in CategoryRelations, tgt \in CategoryRelations}
    \cup {Case(<<Within("aggregate", n, 1, mode)>>, src, tgt) :
        n \in {0, 1}, mode \in {"absolute", "relative"},
        src \in AmountRelations, tgt \in AmountRelations}
    \cup {Case(<<Rule("scd2_no_overlap"), Rule("scd2_current_uniqueness")>>, << >>, tgt) :
        tgt \in VersionRelations}

(* One rule of every kind, supported or not, spelled in every way that the *)
(* validation and the engine tell apart.                                   *)
Kinds == SUPPORTED_RULE_KINDS \cup {"hash", "custom"}

Spellings ==
    {[Rule(kind) EXCEPT !.keys = keys, !.tolerance_mode = mode] :
        kind \in Kinds, keys \in {"absent", "malformed", "set", "unsafe"},
        mode \in {"absolute", "relative", "other"}}
    \cup {[Rule("aggregate") EXCEPT !.expression = FALSE]}
    \cup {[Rule("operation_count") EXCEPT !.operation_column = FALSE],
          [Rule("operation_count") EXCEPT !.unsafe_column = TRUE]}
    \cup {[Rule(kind) EXCEPT !.start_column = start, !.end_column = end] :
        kind \in {"scd2_current_uniqueness", "scd2_no_overlap"},
        start \in {"absent", "malformed", "unsafe"}, end \in {"set", "malformed", "unsafe"}}

Contexts == [cutoff : TwoPositions \cup {Nothing}, business_keys : BusinessKeys,
             observed : TwoPositions \cup {Nothing}]

OneRow == <<Row(a, create, 3, 1, Null)>>

ContractCases ==
    {[enabled |-> enabled, business_keys |-> keys, rules |-> <<spelled>>, context |-> ctx,
      source |-> OneRow, target |-> OneRow] :
        enabled \in BOOLEAN, keys \in BusinessKeys, spelled \in Spellings,
        ctx \in {ctx \in Contexts : ctx.cutoff # p2}}

AllCases == MeasureCases \cup ContractCases

(* What a relation becomes under a concurrent writer.                      *)
NewRelations == {<< >>, <<Row(b, delete, 1, 2, Null)>>}
=============================================================================
