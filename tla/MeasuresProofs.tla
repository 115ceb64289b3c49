--------------------------- MODULE MeasuresProofs ---------------------------
(***************************************************************************)
(* What the measures establish, for relations of any size.                 *)
(*                                                                         *)
(* Sums are folds over a finite set.  The fold is a recursive function on  *)
(* its subsets; that there is one, and what can be said of it, follows     *)
(* from the well-foundedness of < on Nat by smallest counterexamples.      *)
(***************************************************************************)
EXTENDS Measures, FiniteSetTheorems, FunctionTheorems, WellFoundedInduction, TLAPS

(* A nonempty set of numbers has a smallest one. *)
LEMMA Smallest ==
    ASSUME NEW T \in SUBSET Nat, T # {}
    PROVE  \E x \in T : \A y \in T : x <= y
<1>1. PICK x \in T : \A y \in T : ~ (<<y, x>> \in OpToRel(<, Nat))
  BY NatLessThanWellFounded, WFMin
<1>2. OpToRel(<, Nat) = {p \in Nat \X Nat : p[1] < p[2]}
  BY DEF OpToRel
<1>3. ASSUME NEW y \in T PROVE x <= y
  <2>1. x \in Nat /\ y \in Nat
    OBVIOUS
  <2>2. ~ (y < x)
    BY <1>1, <1>2, <2>1
  <2> QED BY <2>1, <2>2
<1> QED BY <1>3

(* Induction over the subsets of a finite set, one element at a time. *)
LEMMA SubsetInduction ==
    ASSUME NEW S, IsFiniteSet(S), NEW G, {} \in G,
           \A s \in SUBSET S : (s # {} /\ \A x \in s : s \ {x} \in G) => s \in G
    PROVE  \A s \in SUBSET S : s \in G
<1> DEFINE T == {Cardinality(s) : s \in {s \in SUBSET S : s \notin G}}
<1>1. ASSUME NEW s \in SUBSET S
      PROVE  /\ Cardinality(s) \in Nat
             /\ \A x \in s : Cardinality(s \ {x}) < Cardinality(s) /\ s \ {x} \in SUBSET S
  BY FS_Subset, FS_CardinalityType, FS_RemoveElement
<1>2. T \in SUBSET Nat
  BY <1>1
<1>3. ASSUME T # {} PROVE FALSE
  <2>1. PICK n \in T : \A m \in T : n <= m
    BY <1>2, <1>3, Smallest
  <2>2. PICK s \in SUBSET S : s \notin G /\ n = Cardinality(s)
    BY <2>1
  <2>3. ASSUME NEW x \in s PROVE s \ {x} \in G
    <3>1. Cardinality(s \ {x}) < n /\ s \ {x} \in SUBSET S /\ Cardinality(s \ {x}) \in Nat
      BY <1>1, <2>2
    <3>2. s \ {x} \notin G => Cardinality(s \ {x}) \in T
      BY <3>1
    <3>3. n \in Nat
      BY <1>2
    <3> QED BY <2>1, <3>1, <3>2, <3>3
  <2> QED BY <2>2, <2>3
<1> QED BY <1>3

Some(s) == CHOOSE x \in s : TRUE

(* One step of the recursion: the value of g at s from the values at the   *)
(* sets that are smaller by one element.                                   *)
SumStep(f, g, s) == IF s = {} THEN 0 ELSE f[Some(s)] + g[s \ {Some(s)}]

LEMMA SumStepTyped ==
    ASSUME NEW S, NEW f, \A i \in S : f[i] \in Int,
           NEW g \in [SUBSET S -> Int], NEW s \in SUBSET S
    PROVE  /\ SumStep(f, g, s) \in Int
           /\ s # {} => Some(s) \in s /\ s \ {Some(s)} \in SUBSET S
<1>1. s # {} => Some(s) \in s
  BY DEF Some
<1>2. s # {} => s \ {Some(s)} \in SUBSET S
  OBVIOUS
<1> QED BY <1>1, <1>2 DEF SumStep

LEMMA SumExists ==
    ASSUME NEW S, IsFiniteSet(S), NEW f, \A i \in S : f[i] \in Int
    PROVE  \E g \in [SUBSET S -> Int] : \A s \in SUBSET S : g[s] = SumStep(f, g, s)
<1> DEFINE Upto(n) == \E g \in [SUBSET S -> Int] :
                         \A s \in SUBSET S : Cardinality(s) <= n => g[s] = SumStep(f, g, s)
           T == {n \in Nat : ~ Upto(n)}
<1>1. ASSUME NEW s \in SUBSET S
      PROVE  /\ IsFiniteSet(s) /\ Cardinality(s) \in Nat /\ Cardinality(s) <= Cardinality(S)
             /\ \A x \in s : Cardinality(s \ {x}) = Cardinality(s) - 1
             /\ Cardinality(s) = 0 => s = {}
  BY FS_Subset, FS_CardinalityType, FS_RemoveElement, FS_EmptySet
<1>2. Upto(0)
  <2> DEFINE g == [s \in SUBSET S |-> 0]
  <2>1. g \in [SUBSET S -> Int]
    OBVIOUS
  <2>2. ASSUME NEW s \in SUBSET S, Cardinality(s) <= 0 PROVE g[s] = SumStep(f, g, s)
    <3>1. s = {}
      BY <1>1, <2>2
    <3> QED BY <3>1 DEF SumStep
  <2> HIDE DEF g
  <2> QED BY <2>1, <2>2
<1>3. ASSUME NEW n \in Nat, Upto(n) PROVE Upto(n + 1)
  <2>1. PICK g \in [SUBSET S -> Int] :
           \A s \in SUBSET S : Cardinality(s) <= n => g[s] = SumStep(f, g, s)
    BY <1>3
  <2> DEFINE h == [s \in SUBSET S |-> SumStep(f, g, s)]
  <2>2. h \in [SUBSET S -> Int]
    BY SumStepTyped
  <2>3. ASSUME NEW s \in SUBSET S, Cardinality(s) <= n + 1 PROVE h[s] = SumStep(f, h, s)
    <3>1. CASE s = {}
      BY <3>1 DEF SumStep
    <3>2. CASE s # {}
      <4> DEFINE t == s \ {Some(s)}
      <4>1. Some(s) \in s /\ t \in SUBSET S
        BY <3>2, <2>1, SumStepTyped
      <4>2. Cardinality(t) <= n
        BY <1>1, <2>3, <4>1
      <4>3. h[t] = g[t]
        BY <2>1, <4>1, <4>2
      <4> QED BY <3>2, <4>3 DEF SumStep
    <3> QED BY <3>1, <3>2
  <2> HIDE DEF h
  <2> QED BY <2>2, <2>3
<1>4. T = {}
  <2> SUFFICES ASSUME T # {} PROVE FALSE
    OBVIOUS
  <2>1. PICK n \in T : \A m \in T : n <= m
    BY Smallest
  <2> HIDE DEF Upto
  <2>2. n # 0 /\ n \in Nat
    BY <1>2
  <2>3. n - 1 \in Nat /\ n - 1 \notin T
    BY <2>1, <2>2
  <2>4. Upto(n - 1) /\ (n - 1) + 1 = n
    BY <2>2, <2>3
  <2> QED BY <1>3, <2>3, <2>4
<1>5. Upto(Cardinality(S))
  <2> HIDE DEF Upto
  <2> QED BY <1>4, FS_CardinalityType
<1> QED BY <1>1, <1>5

(* g gives the sums of f over the subsets of S. *)
PartialSums(f, S, g) == \A s \in SUBSET S : g[s] = SumStep(f, g, s)

(* The sum of f over S: what the fold computes, as a function of subsets.  *)
LEMMA SumRecursion ==
    ASSUME NEW S, IsFiniteSet(S), NEW f, \A i \in S : f[i] \in Int
    PROVE  \E g \in [SUBSET S -> Int] : SumFunctionOnSet(f, S) = g[S] /\ PartialSums(f, S, g)
<1> DEFINE Solves(g) == g = [s \in SUBSET S |-> SumStep(f, g, s)]
<1>1. SumFunctionOnSet(f, S) = (CHOOSE g : Solves(g))[S]
  BY Zenon DEF SumFunctionOnSet, FoldFunctionOnSet, MapThenFoldSet, SumStep, Some
<1>2. PICK h \in [SUBSET S -> Int] : \A s \in SUBSET S : h[s] = SumStep(f, h, s)
  BY SumExists
<1>3. Solves(h)
  BY <1>2
<1>4. PICK g : g = (CHOOSE k : Solves(k))
  OBVIOUS
<1>5. Solves(g)
  BY <1>3, <1>4
<1>6. DOMAIN g = SUBSET S /\ \A s \in SUBSET S : g[s] = SumStep(f, g, s)
  BY <1>5
<1> HIDE DEF Solves
<1> DEFINE G == {s \in SUBSET S : g[s] \in Int}
<1>7. {} \in G
  <2>1. {} \in SUBSET S /\ SumStep(f, g, {}) = 0
    BY DEF SumStep
  <2>2. g[{}] = 0
    BY <1>6, <2>1
  <2> QED BY <2>1, <2>2
<1>8. ASSUME NEW s \in SUBSET S, s # {}, \A x \in s : s \ {x} \in G
      PROVE  s \in G
  <2>1. Some(s) \in s
    BY <1>8 DEF Some
  <2>2. g[s \ {Some(s)}] \in Int /\ f[Some(s)] \in Int
    BY <1>8, <2>1
  <2> QED BY <1>6, <1>8, <2>2 DEF SumStep
<1>9. \A s \in SUBSET S : s \in G
  <2> HIDE DEF G
  <2> QED BY <1>7, <1>8, SubsetInduction
<1>10. g \in [SUBSET S -> Int]
  <2>1. g = [s \in SUBSET S |-> g[s]]
    BY <1>5, <1>6 DEF Solves
  <2> QED BY <1>9, <2>1
<1> QED BY <1>1, <1>4, <1>6, <1>10 DEF PartialSums

(* Sums of integers are integers. *)
LEMMA SumOfIntegers ==
    ASSUME NEW f, IsFiniteSet(DOMAIN f), \A i \in DOMAIN f : f[i] \in Int
    PROVE  SumFunction(f) \in Int
<1>1. PICK g \in [SUBSET DOMAIN f -> Int] : SumFunctionOnSet(f, DOMAIN f) = g[DOMAIN f]
  BY SumRecursion
<1> QED BY <1>1 DEF SumFunction

(* A sum of natural numbers is zero exactly when every term is. *)
LEMMA SumOfNaturals ==
    ASSUME NEW f, IsFiniteSet(DOMAIN f), \A i \in DOMAIN f : f[i] \in Nat
    PROVE  /\ SumFunction(f) \in Nat
           /\ SumFunction(f) = 0 <=> \A i \in DOMAIN f : f[i] = 0
<1> DEFINE S == DOMAIN f
<1>0. IsFiniteSet(S) /\ \A i \in S : f[i] \in Int
  OBVIOUS
<1>1. PICK g \in [SUBSET S -> Int] : SumFunctionOnSet(f, S) = g[S] /\ PartialSums(f, S, g)
  BY <1>0, SumRecursion
<1> DEFINE G == {s \in SUBSET S : g[s] \in Nat /\ (g[s] = 0 <=> \A i \in s : f[i] = 0)}
<1>2. {} \in G
  <2>1. {} \in SUBSET S /\ SumStep(f, g, {}) = 0
    BY DEF SumStep
  <2>2. g[{}] = 0
    BY <1>1, <2>1 DEF PartialSums
  <2> QED BY <2>1, <2>2
<1>3. ASSUME NEW s \in SUBSET S, s # {}, \A x \in s : s \ {x} \in G
      PROVE  s \in G
  <2>1. PICK x \in s : g[s] = f[x] + g[s \ {x}]
    <3>1. Some(s) \in s
      BY <1>3 DEF Some
    <3>2. g[s] = f[Some(s)] + g[s \ {Some(s)}]
      BY <1>1, <1>3 DEF SumStep, PartialSums
    <3> QED BY <3>1, <3>2
  <2>2. /\ g[s \ {x}] \in Nat /\ f[x] \in Nat
        /\ g[s \ {x}] = 0 <=> \A i \in s \ {x} : f[i] = 0
    BY <1>3
  <2>3. g[s] \in Nat /\ (g[s] = 0 <=> f[x] = 0 /\ g[s \ {x}] = 0)
    BY <2>1, <2>2
  <2> QED BY <2>2, <2>3
<1>4. \A s \in SUBSET S : s \in G
  <2> HIDE DEF G
  <2> QED BY <1>2, <1>3, SubsetInduction
<1> QED BY <1>1, <1>4 DEF SumFunction

-----------------------------------------------------------------------------
(* A relation has finitely many keys. *)
LEMMA KeysFinite ==
    ASSUME NEW rel, IsRelation(rel)
    PROVE  /\ IsFiniteSet(DOMAIN rel)
           /\ IsFiniteSet(KeysOf(rel))
           /\ Cardinality(KeysOf(rel)) \in Nat
           /\ (KeysOf(rel) = {}) <=> (Len(rel) = 0)
<1>1. IsFiniteSet(DOMAIN rel)
  BY FS_Interval DEF IsRelation
<1> DEFINE f == [i \in DOMAIN rel |-> rel[i].key]
<1>2. f \in Surjection(DOMAIN rel, KeysOf(rel))
  BY DEF Surjection, KeysOf
<1>3. IsFiniteSet(KeysOf(rel))
  BY <1>1, <1>2, FS_Surjection
<1>4. (DOMAIN rel = {}) <=> (Len(rel) = 0)
  BY DEF IsRelation
<1> QED BY <1>1, <1>3, <1>4, FS_CardinalityType DEF KeysOf

(* No key is counted as missing exactly when every source key is in the    *)
(* target and none of them has a NULL: what pk_presence establishes        *)
(* (provider.py missing_key_count).                                        *)
THEOREM PresenceMeansKeysPresent ==
    ASSUME NEW source, NEW target, IsRelation(source), IsRelation(target)
    PROVE  missing_key_count(source, target) = 0 <=> KeysPresent(source, target)
<1> DEFINE missing == {k \in KeysOf(source) : k \in NullKeys \/ k \notin KeysOf(target)}
<1>1. IsFiniteSet(missing)
  BY KeysFinite, FS_Subset, missing \in SUBSET KeysOf(source)
<1>2. missing_key_count(source, target) = 0 <=> missing = {}
  BY <1>1, FS_EmptySet DEF missing_key_count
<1>3. missing = {} <=> KeysPresent(source, target)
  BY DEF KeysOf, KeysPresent
<1> QED BY <1>2, <1>3

(* Presence and equal numbers of keys together give equal sets of keys.    *)
THEOREM KeyMeasuresMeanEqualKeys ==
    ASSUME NEW source, NEW target, IsRelation(source), IsRelation(target),
           missing_key_count(source, target) = 0,
           distinct_key_count(source) = distinct_key_count(target)
    PROVE  KeysOf(source) = KeysOf(target)
<1>1. KeysOf(source) \in SUBSET KeysOf(target)
  BY PresenceMeansKeysPresent DEF KeysPresent, KeysOf
<1>2. IsFiniteSet(KeysOf(target))
  BY KeysFinite
<1>3. Cardinality(KeysOf(target)) = Cardinality(KeysOf(source))
  BY DEF distinct_key_count
<1> QED BY <1>1, <1>2, <1>3, FS_Subset

(* No current duplicates exactly when no key has two current rows          *)
(* (provider.py current_duplicate_key_count).                              *)
THEOREM NoDuplicatesMeansOneCurrentRow ==
    ASSUME NEW rel, IsRelation(rel)
    PROVE  /\ current_duplicate_key_count(rel) \in Nat
           /\ current_duplicate_key_count(rel) = 0 <=> OneCurrentRow(rel)
<1> DEFINE many == {k \in KeysOf(rel) : Cardinality(CurrentRows(rel, k)) > 1}
<1>1. IsFiniteSet(many)
  BY KeysFinite, FS_Subset, many \in SUBSET KeysOf(rel)
<1>2. /\ current_duplicate_key_count(rel) \in Nat
      /\ current_duplicate_key_count(rel) = 0 <=> many = {}
  BY <1>1, FS_EmptySet, FS_CardinalityType DEF current_duplicate_key_count
<1>3. ASSUME NEW k \in KeysOf(rel)
      PROVE  Cardinality(CurrentRows(rel, k)) > 1 <=>
                \E i, j \in CurrentRows(rel, k) : i # j
  <2> DEFINE rows == CurrentRows(rel, k)
  <2>1. IsFiniteSet(rows)
    BY KeysFinite, FS_Subset, rows \in SUBSET DOMAIN rel DEF CurrentRows
  <2>2. Cardinality(rows) \in Nat
    BY <2>1, FS_CardinalityType
  <2>3. Cardinality(rows) = 0 <=> rows = {}
    BY <2>1, FS_EmptySet
  <2>4. Cardinality(rows) = 1 <=> \E i : rows = {i}
    BY <2>1, FS_Singleton
  <2>5. (rows # {} /\ ~ \E i : rows = {i}) <=> \E i, j \in rows : i # j
    OBVIOUS
  <2>6. Cardinality(rows) > 1 <=> (Cardinality(rows) # 0 /\ Cardinality(rows) # 1)
    BY <2>2
  <2> QED BY <2>3, <2>4, <2>5, <2>6
<1>4. many = {} <=> \A k \in KeysOf(rel) : \A i, j \in CurrentRows(rel, k) : i = j
  BY <1>3
<1>5. (\A k \in KeysOf(rel) : \A i, j \in CurrentRows(rel, k) : i = j) <=> OneCurrentRow(rel)
  <2>1. ASSUME \A k \in KeysOf(rel) : \A i, j \in CurrentRows(rel, k) : i = j
        PROVE  OneCurrentRow(rel)
    BY <2>1 DEF OneCurrentRow, CurrentRows, KeysOf
  <2>2. ASSUME OneCurrentRow(rel), NEW k \in KeysOf(rel),
               NEW i \in CurrentRows(rel, k), NEW j \in CurrentRows(rel, k)
        PROVE  i = j
    BY <2>2 DEF OneCurrentRow, CurrentRows
  <2> QED BY <2>1, <2>2
<1> QED BY <1>2, <1>4, <1>5

-----------------------------------------------------------------------------
(* The total of finite amounts is a number. *)
LEMMA TotalTyped ==
    ASSUME NEW rel, IsRelation(rel), Finite(rel)
    PROVE  Total(rel) \in Int
<1> DEFINE summed == {i \in DOMAIN rel : rel[i].amount # Null}
           amounts == [i \in summed |-> rel[i].amount]
<1>1. IsFiniteSet(DOMAIN amounts)
  BY KeysFinite, FS_Subset, summed \in SUBSET DOMAIN rel
<1>2. \A i \in DOMAIN amounts : amounts[i] \in Int
  BY DEF IsRelation, Finite, AmountsOf
<1>3. SumFunction(amounts) \in Int
  <2> HIDE DEF amounts
  <2> QED BY <1>1, <1>2, SumOfIntegers
<1> QED BY <1>3 DEF Total

(* A number stays a number in a DOUBLE, and one that a DOUBLE represents   *)
(* stays the same (numeric_scalar's CAST).                                 *)
LEMMA Represented ==
    ASSUME NEW n \in Int
    PROVE  /\ AsDouble(n) \in Int
           /\ n \in -ExactUpTo..ExactUpTo => AsDouble(n) = n
BY ExactAssumption DEF AsDouble

(* An aggregate is a number if and only if the total is one, and then the  *)
(* total as a DOUBLE; otherwise NaN, infinite, or NULL without values.     *)
LEMMA NumericScalarTyped ==
    ASSUME NEW rel, IsRelation(rel)
    PROVE  /\ Finite(rel) => /\ numeric_scalar(rel) = AsDouble(Total(rel))
                             /\ numeric_scalar(rel) \in Int
           /\ ~ Finite(rel) => numeric_scalar(rel) \in {Null, NaN, Infinity}
<1>1. ASSUME Finite(rel)
      PROVE  numeric_scalar(rel) = AsDouble(Total(rel)) /\ numeric_scalar(rel) \in Int
  <2>1. numeric_scalar(rel) = AsDouble(Total(rel))
    BY <1>1 DEF numeric_scalar, Finite
  <2> QED BY <1>1, <2>1, TotalTyped, Represented
<1>2. ASSUME ~ Finite(rel) PROVE numeric_scalar(rel) \in {Null, NaN, Infinity}
  BY <1>2 DEF numeric_scalar, Finite
<1> QED BY <1>1, <1>2

(* Every category that occurs is counted at least once. *)
LEMMA CountOfTyped ==
    ASSUME NEW rel, IsRelation(rel), NEW c
    PROVE  /\ CountOf(rel, c) \in Nat
           /\ CountOf(rel, c) = 0 <=> c \notin CategoriesOf(rel)
<1> DEFINE rows == {i \in DOMAIN rel : rel[i].category = c}
<1>1. IsFiniteSet(rows)
  BY KeysFinite, FS_Subset, rows \in SUBSET DOMAIN rel
<1>2. CountOf(rel, c) \in Nat /\ (CountOf(rel, c) = 0 <=> rows = {})
  BY <1>1, FS_CardinalityType, FS_EmptySet DEF CountOf
<1> QED BY <1>2 DEF CategoriesOf

(* The counts by label: one for every label that occurs, and none is zero, *)
(* whichever of two groups with the same label was last.                   *)
LEMMA CountsTyped ==
    ASSUME NEW rel, IsRelation(rel), NEW counts \in categorical_counts(rel)
    PROVE  /\ DOMAIN counts = {Label(c) : c \in CategoriesOf(rel)}
           /\ counts = [l \in DOMAIN counts |-> counts[l]]
           /\ IsFiniteSet(DOMAIN counts)
           /\ \A l \in DOMAIN counts :
                 /\ counts[l] \in Nat \ {0}
                 /\ \E c \in CategoriesOf(rel) : Label(c) = l /\ counts[l] = CountOf(rel, c)
           /\ DOMAIN counts = {} <=> Len(rel) = 0
<1> DEFINE labels == {Label(c) : c \in CategoriesOf(rel)}
<1>1. PICK g \in [labels -> CategoriesOf(rel)] :
         /\ \A l \in labels : Label(g[l]) = l
         /\ counts = [l \in labels |-> CountOf(rel, g[l])]
  BY DEF categorical_counts
<1>2. IsFiniteSet(labels)
  <2> DEFINE f == [i \in DOMAIN rel |-> Label(rel[i].category)]
  <2>1. f \in Surjection(DOMAIN rel, labels)
    BY DEF Surjection, CategoriesOf
  <2> QED BY <2>1, KeysFinite, FS_Surjection
<1>3. \A l \in labels : /\ counts[l] \in Nat \ {0}
                        /\ g[l] \in CategoriesOf(rel) /\ Label(g[l]) = l
                        /\ counts[l] = CountOf(rel, g[l])
  BY <1>1, CountOfTyped
<1>4. labels = {} <=> Len(rel) = 0
  <2>1. labels = {} <=> CategoriesOf(rel) = {}
    OBVIOUS
  <2>2. CategoriesOf(rel) = {} <=> DOMAIN rel = {}
    BY DEF CategoriesOf
  <2>3. DOMAIN rel = {} <=> Len(rel) = 0
    BY DEF IsRelation
  <2> QED BY <2>1, <2>2, <2>3
<1>5. DOMAIN counts = labels
  BY <1>1
<1> HIDE DEF labels
<1> QED BY <1>1, <1>2, <1>3, <1>4, <1>5 DEF labels

(* Without a category that is spelled like the label of NULL, the count of *)
(* a label is the count of the category.                                   *)
LEMMA CountsOfCategories ==
    ASSUME NEW rel, IsRelation(rel), NEW counts \in categorical_counts(rel),
           NEW C, CategoriesOf(rel) \subseteq C, ~ {Null, NullLabel} \subseteq C,
           NEW c \in C
    PROVE  IF Label(c) \in DOMAIN counts THEN counts[Label(c)] = CountOf(rel, c)
                                         ELSE CountOf(rel, c) = 0
<1>1. \A d \in C : Label(d) = Label(c) => d = c
  BY DEF Label
<1>2. CASE Label(c) \in DOMAIN counts
  <2>1. PICK d \in CategoriesOf(rel) : Label(d) = Label(c) /\ counts[Label(c)] = CountOf(rel, d)
    BY <1>2, CountsTyped
  <2> QED BY <1>1, <1>2, <2>1
<1>3. CASE Label(c) \notin DOMAIN counts
  <2>1. DOMAIN counts = {Label(d) : d \in CategoriesOf(rel)}
    BY CountsTyped
  <2>2. c \notin CategoriesOf(rel)
    BY <1>3, <2>1
  <2> QED BY <1>3, <2>2, CountOfTyped
<1> QED BY <1>2, <1>3

-----------------------------------------------------------------------------
(* The window is a permutation of the rows. *)
LEMMA OrdersArePermutations ==
    ASSUME NEW rel, IsRelation(rel), NEW o \in StartOrders(rel)
    PROVE  /\ DOMAIN o = 1..Len(rel) /\ DOMAIN o = DOMAIN rel
           /\ DOMAIN o \subseteq Nat
           /\ \A a \in DOMAIN o : o[a] \in DOMAIN rel
           /\ \A i \in DOMAIN rel : \E a \in DOMAIN o : o[a] = i
           /\ \A a, b \in DOMAIN o : o[a] = o[b] => a = b
           /\ \A a, b \in DOMAIN o : a < b => rel[o[a]].start <= rel[o[b]].start
<1>1. o \in [DOMAIN rel -> DOMAIN rel]
  BY DEF StartOrders
<1>2. o \in Surjection(DOMAIN rel, DOMAIN rel)
  BY <1>1 DEF StartOrders, Surjection
<1>3. o \in Injection(DOMAIN rel, DOMAIN rel)
  BY <1>2, KeysFinite, FS_SurjSameCardinalityImpliesInj
<1> QED BY <1>1, <1>3 DEF StartOrders, Injection, IsInjective, IsRelation

(* The row after a within its key, when there is a later one. *)
LEMMA NextOfKey ==
    ASSUME NEW rel, IsRelation(rel), NEW o \in StartOrders(rel),
           NEW a \in DOMAIN o, NEW b \in DOMAIN o,
           a < b, rel[o[a]].key = rel[o[b]].key
    PROVE  \E c \in DOMAIN o : Lag(rel, o, a, c) /\ c <= b
<1> DEFINE T == {c \in DOMAIN o : a < c /\ rel[o[c]].key = rel[o[a]].key}
<1>1. DOMAIN o \subseteq Nat
  BY OrdersArePermutations
<1>2. T \in SUBSET Nat /\ b \in T
  BY <1>1
<1>3. PICK c \in T : \A d \in T : c <= d
  BY <1>2, Smallest
<1>4. ASSUME NEW d \in DOMAIN o, a < d, d < c
      PROVE  rel[o[d]].key # rel[o[c]].key
  BY <1>1, <1>3, <1>4
<1> QED BY <1>2, <1>3, <1>4 DEF Lag

(* Comparing every row with its predecessor is enough: when no row         *)
(* overlaps its predecessor, every version has ended when a later version  *)
(* of its key starts, in whatever order ties were taken.                   *)
LEMMA NoOverlapEndsEarlier ==
    ASSUME NEW rel, IsRelation(rel), NEW o \in StartOrders(rel), overlaps(rel, o) = {},
           NEW a \in DOMAIN o, NEW b \in DOMAIN o,
           a < b, rel[o[a]].key = rel[o[b]].key
    PROVE  rel[o[a]].end # Null /\ rel[o[a]].end <= rel[o[b]].start
<1>1. PICK c \in DOMAIN o : Lag(rel, o, a, c) /\ c <= b
  BY NextOfKey
<1>2. ~ overlap(rel[o[a]], rel[o[c]])
  BY <1>1, OrdersArePermutations DEF overlaps
<1>3. rel[o[c]].start <= rel[o[b]].start
  <2>1. DOMAIN o = 1..Len(rel) /\ Len(rel) \in Nat
    BY OrdersArePermutations DEF IsRelation
  <2>2. CASE c = b
    <3>1. o[b] \in DOMAIN rel
      BY OrdersArePermutations
    <3>2. rel[o[b]].start \in Int
      BY <3>1 DEF IsRelation
    <3> QED BY <2>2, <3>2
  <2>3. CASE c < b
    BY <2>3, OrdersArePermutations
  <2> QED BY <1>1, <2>1, <2>2, <2>3
<1>4. /\ rel[o[a]].end = Null \/ rel[o[a]].end \in Int
      /\ rel[o[b]].start \in Int /\ rel[o[c]].start \in Int
  BY OrdersArePermutations DEF IsRelation
<1> QED BY <1>2, <1>3, <1>4, NullAssumption DEF overlap

(* A table without overlaps has one current row per key: scd2_no_overlap   *)
(* includes scd2_current_uniqueness (provider.py scd2_overlap_count).      *)
THEOREM NoOverlapMeansOneCurrentRow ==
    ASSUME NEW rel, IsRelation(rel), NEW o \in StartOrders(rel), overlaps(rel, o) = {}
    PROVE  OneCurrentRow(rel)
<1> SUFFICES ASSUME NEW i \in DOMAIN rel, NEW j \in DOMAIN rel, i # j,
                    rel[i].key = rel[j].key
             PROVE  ~ (rel[i].end = Null /\ rel[j].end = Null)
  BY DEF OneCurrentRow
<1>1. PICK a \in DOMAIN o, b \in DOMAIN o : o[a] = i /\ o[b] = j
  BY OrdersArePermutations
<1>2. a < b \/ b < a
  <2>1. a \in Nat /\ b \in Nat /\ a # b
    BY <1>1, OrdersArePermutations
  <2> QED BY <2>1
<1> QED BY <1>1, <1>2, NoOverlapEndsEarlier

(* For versions that are not empty, no overlap between neighbours is the   *)
(* same as no overlap at all (provider.py scd2_overlap_count).             *)
THEOREM NoOverlapMeansDisjoint ==
    ASSUME NEW rel, IsRelation(rel), ProperIntervals(rel), NEW o \in StartOrders(rel)
    PROVE  overlaps(rel, o) = {} <=> DisjointVersions(rel)
<1>1. ASSUME overlaps(rel, o) = {} PROVE DisjointVersions(rel)
  <2> SUFFICES ASSUME NEW i \in DOMAIN rel, NEW j \in DOMAIN rel, i # j,
                      rel[i].key = rel[j].key
               PROVE  Disjoint(rel[i], rel[j])
    BY DEF DisjointVersions
  <2>1. PICK a \in DOMAIN o, b \in DOMAIN o : o[a] = i /\ o[b] = j
    BY OrdersArePermutations
  <2>2. a < b \/ b < a
    <3>1. a \in Nat /\ b \in Nat /\ a # b
      BY <2>1, OrdersArePermutations
    <3> QED BY <3>1
  <2> QED BY <1>1, <2>1, <2>2, NoOverlapEndsEarlier DEF Disjoint
<1>2. ASSUME DisjointVersions(rel) PROVE overlaps(rel, o) = {}
  <2> SUFFICES ASSUME NEW a \in DOMAIN o, NEW b \in DOMAIN o, Lag(rel, o, a, b)
               PROVE  ~ overlap(rel[o[a]], rel[o[b]])
    BY OrdersArePermutations DEF overlaps
  <2>0. a < b /\ a # b /\ rel[o[a]].key = rel[o[b]].key
    <3>1. a < b /\ rel[o[a]].key = rel[o[b]].key
      BY DEF Lag
    <3>2. a \in Nat /\ b \in Nat
      BY OrdersArePermutations
    <3> QED BY <3>1, <3>2
  <2>1. /\ o[a] \in DOMAIN rel /\ o[b] \in DOMAIN rel /\ o[a] # o[b]
        /\ rel[o[a]].start <= rel[o[b]].start
        /\ rel[o[a]].key = rel[o[b]].key
    BY <2>0, OrdersArePermutations
  <2>2. Disjoint(rel[o[a]], rel[o[b]])
    BY <1>2, <2>1 DEF DisjointVersions
  <2>3. /\ rel[o[a]].start \in Int /\ rel[o[b]].start \in Int
        /\ rel[o[a]].end = Null \/ rel[o[a]].end \in Int
        /\ rel[o[b]].end = Null \/ (rel[o[b]].end \in Int /\ rel[o[b]].start < rel[o[b]].end)
    BY <2>1 DEF IsRelation, ProperIntervals
  <2> QED BY <2>1, <2>2, <2>3 DEF Disjoint, overlap
<1> QED BY <1>1, <1>2

(* The number of overlaps is zero exactly when there is none. *)
LEMMA OverlapCountZero ==
    ASSUME NEW rel, IsRelation(rel), NEW o \in StartOrders(rel)
    PROVE  /\ Cardinality(overlaps(rel, o)) \in Nat
           /\ Cardinality(overlaps(rel, o)) = 0 <=> overlaps(rel, o) = {}
<1>1. overlaps(rel, o) \in SUBSET DOMAIN rel
  BY OrdersArePermutations DEF overlaps
<1>2. IsFiniteSet(overlaps(rel, o))
  BY <1>1, KeysFinite, FS_Subset
<1> QED BY <1>2, FS_EmptySet, FS_CardinalityType
=============================================================================
