------------------------------ MODULE Measures ------------------------------
(***************************************************************************)
(* What SparkMeasureProvider measures on a relation                        *)
(* (src/edp_framework/reconciliation/provider.py), and what the            *)
(* reconciliation rules are there to establish.                            *)
(*                                                                         *)
(* A relation is a sequence of rows [key, category, amount, start, end];   *)
(* Spark gives the order no meaning.  A key stands for the values of all   *)
(* key columns; the keys in NullKeys have a NULL among them.  The category *)
(* and the amount may be Null, and end is Null in the current version of   *)
(* an SCD2 table.  A version's start is never NULL in the tables that AUTO *)
(* CDC writes.  An amount is a whole number, or what a DOUBLE column can   *)
(* hold besides: NaN or Infinity (either one: they compare alike).         *)
(***************************************************************************)
EXTENDS Integers, Sequences, FiniteSets, FiniteSetsExt

CONSTANTS Keys, NullKeys,
          Null,        \* SQL NULL
          NaN,         \* the floating-point value that is not a number
          Infinity,    \* the floating-point infinities
          ExactUpTo,   \* a DOUBLE represents every whole number up to it: 2^53
          NullLabel    \* the text "<NULL>", as a category of a relation

ASSUME NullKeysAssumption == NullKeys \subseteq Keys
ASSUME NullAssumption == Null \notin Int /\ NaN \notin Int /\ Infinity \notin Int
ASSUME ExactAssumption == ExactUpTo \in Nat \ {0}

IsRelation(rel) ==
    /\ Len(rel) \in Nat /\ DOMAIN rel = 1..Len(rel)
    /\ \A i \in DOMAIN rel : /\ rel[i].key \in Keys
                             /\ rel[i].start \in Int
                             /\ rel[i].end = Null \/ rel[i].end \in Int
                             /\ rel[i].amount \in Int \cup {Null, NaN, Infinity}

KeysOf(rel) == {rel[i].key : i \in DOMAIN rel}

row_count(rel) == Len(rel)

(* DISTINCT counts a NULL like a value. *)
distinct_key_count(rel) == Cardinality(KeysOf(rel))

(* Faulty: looks for the target's keys in the source. *)
missing_in_source(source, target) ==
    Cardinality({k \in KeysOf(target) : k \in NullKeys \/ k \notin KeysOf(source)})

(* A left anti join: a key with a NULL column is equal to no key. *)
missing_key_count(source, target) ==
    Cardinality({k \in KeysOf(source) : k \in NullKeys \/ k \notin KeysOf(target)})

AmountsOf(rel) == {rel[i].amount : i \in DOMAIN rel} \ {Null}

Finite(rel) == AmountsOf(rel) # {} /\ AmountsOf(rel) \cap {NaN, Infinity} = {}

Total(rel) ==
    SumFunction([i \in {i \in DOMAIN rel : rel[i].amount # Null} |-> rel[i].amount])

(* CAST AS DOUBLE: past ExactUpTo only the even numbers are represented,   *)
(* and an odd one becomes the neighbour that is a multiple of four (ties   *)
(* to even; past twice ExactUpTo the gaps grow further).                   *)
AsDouble(n) ==
    IF n \in -ExactUpTo..ExactUpTo \/ n % 2 = 0 THEN n
    ELSE IF n % 4 = 1 THEN n - 1 ELSE n + 1

(* A SUM, the kind of expression the contracts use (NULL without values),  *)
(* taken exactly and converted at the end.                                 *)
numeric_scalar(rel) ==
    CASE AmountsOf(rel) = {} -> Null
      [] NaN \in AmountsOf(rel) -> NaN
      [] Infinity \in AmountsOf(rel) /\ NaN \notin AmountsOf(rel) -> Infinity
      [] Finite(rel) -> AsDouble(Total(rel))

CategoriesOf(rel) == {rel[i].category : i \in DOMAIN rel}

CountOf(rel, c) == Cardinality({i \in DOMAIN rel : rel[i].category = c})

Label(c) == IF c = Null THEN NullLabel ELSE c

(* One count per label.  When two groups have the same label the later one *)
(* overwrites the earlier one, and the groups come in any order.           *)
categorical_counts(rel) ==
    LET labels == {Label(c) : c \in CategoriesOf(rel)}
        groups == {g \in [labels -> CategoriesOf(rel)] : \A l \in labels : Label(g[l]) = l}
    IN  {[l \in labels |-> CountOf(rel, g[l])] : g \in groups}

CurrentRows(rel, k) == {i \in DOMAIN rel : rel[i].key = k /\ rel[i].end = Null}

current_duplicate_key_count(rel) ==
    Cardinality({k \in KeysOf(rel) : Cardinality(CurrentRows(rel, k)) > 1})

-----------------------------------------------------------------------------
(* The window of scd2_overlap_count: the rows by start, ties in any order. *)
StartOrders(rel) ==
    {o \in [DOMAIN rel -> DOMAIN rel] :
        /\ \A i \in DOMAIN rel : \E a \in DOMAIN o : o[a] = i
        /\ \A a, b \in DOMAIN o : a < b => rel[o[a]].start <= rel[o[b]].start}

(* a is the row before b in b's partition of the window. *)
Lag(rel, o, a, b) ==
    /\ a \in DOMAIN o /\ b \in DOMAIN o
    /\ a < b /\ rel[o[a]].key = rel[o[b]].key
    /\ \A c \in DOMAIN o : a < c /\ c < b => rel[o[c]].key # rel[o[b]].key

(* Faulty: a previous version that is still current is no overlap. *)
closed_overlap(earlier, later) == earlier.end # Null /\ earlier.end > later.start

(* The earlier version has not ended when the later one starts. *)
overlap(earlier, later) == earlier.end = Null \/ earlier.end > later.start

overlaps(rel, o) ==
    {b \in DOMAIN o : \E a \in DOMAIN o : Lag(rel, o, a, b) /\ overlap(rel[o[a]], rel[o[b]])}

scd2_overlap_count(rel) == {Cardinality(overlaps(rel, o)) : o \in StartOrders(rel)}

-----------------------------------------------------------------------------
(* What the rules are there to establish.                                  *)

(* Every source key has a row in the target; keys with a NULL are rejected.*)
KeysPresent(source, target) ==
    \A i \in DOMAIN source : /\ source[i].key \notin NullKeys
                             /\ \E j \in DOMAIN target : target[j].key = source[i].key

SameDistribution(source, target) ==
    \A c \in CategoriesOf(source) \cup CategoriesOf(target) :
        CountOf(source, c) = CountOf(target, c)

OneCurrentRow(rel) ==
    \A i, j \in DOMAIN rel :
        (i # j /\ rel[i].key = rel[j].key) => ~ (rel[i].end = Null /\ rel[j].end = Null)

(* No point in time belongs to two versions of a key. *)
Disjoint(v, w) == \/ v.end # Null /\ v.end <= w.start
                  \/ w.end # Null /\ w.end <= v.start

DisjointVersions(rel) ==
    \A i, j \in DOMAIN rel :
        (i # j /\ rel[i].key = rel[j].key) => Disjoint(rel[i], rel[j])

(* Intervals that are not empty. *)
ProperIntervals(rel) ==
    \A i \in DOMAIN rel : rel[i].end = Null \/ rel[i].start < rel[i].end

(* SUM says the same of both, and it is a number. *)
EqualTotals(source, target) ==
    Finite(source) /\ Finite(target) /\ Total(source) = Total(target)

(* The totals survive the conversion to DOUBLE. *)
TotalsRepresented(source, target) ==
    \A rel \in {source, target} : Finite(rel) => Total(rel) \in -ExactUpTo..ExactUpTo

(* No category is spelled like the label that stands for NULL. *)
LabelsDistinct(source, target) ==
    ~ {Null, NullLabel} \subseteq CategoriesOf(source) \cup CategoriesOf(target)
=============================================================================
