----------------------- MODULE PatternRegistryProofs -----------------------
(***************************************************************************)
(* Theorems about the pattern registry, for every set of packages, every   *)
(* installation and every sequence of register_provider calls.             *)
(***************************************************************************)
EXTENDS PatternRegistry, SequenceTheorems, TLAPS

USE DEF registryVars

(* A package's list is a sequence of pattern ids. *)
LEMMA OfferTypes ==
    ASSUME NEW p \in Providers
    PROVE  /\ Offers[p].ids \in Seq(Ids)
           /\ Offers[p].has_build_runtime \in BOOLEAN
BY OffersAssumption

(* What register_provider stores is listed by the package, and none of it  *)
(* was registered before: the duplicate check precedes the two writes.     *)
LEMMA StoredAreNew ==
    ASSUME NEW p \in Providers
    PROVE  /\ StoredIds(p) \subseteq Ids
           /\ StoredIds(p) \cap DOMAIN definitions = {}
<1>1. ASSUME NEW i \in Stored(p)
      PROVE  Offers[p].ids[i] \in Ids \ DOMAIN definitions
  <2>1. i \in DOMAIN Offers[p].ids /\ i \in 1..i
    BY OfferTypes DEF Stored
  <2>2. ~ Taken(p, i)
    BY <2>1 DEF Stored
  <2> QED BY <2>1, <2>2, OfferTypes DEF Taken
<1> QED BY <1>1 DEF StoredIds

(* The two ways the registry changes are one: some package's loop stores   *)
(* a set of ids that were free, in both maps.                              *)
LEMMA StepStores ==
    ASSUME Next
    PROVE  \E p \in Providers :
              \E new \in {S \in SUBSET Ids : S \cap DOMAIN definitions = {}} :
                  /\ definitions' = Assign(definitions, new, p)
                  /\ provider_by_pattern' = Assign(provider_by_pattern, new, p)
                  /\ providers' = IF Accepted(p) THEN Append(providers, p) ELSE providers
                  /\ Accepted(p) => new = StoredIds(p)
<1>1. PICK p \in Providers : register_provider(p)
  BY DEF Next, LoadEntryPoint, RegisterProvider
<1> DEFINE new == IF Callable(p) THEN StoredIds(p) ELSE {}
<1>2. new \in {S \in SUBSET Ids : S \cap DOMAIN definitions = {}}
  BY StoredAreNew
<1>3. Accepted(p) => new = StoredIds(p)
  BY DEF Accepted
<1> QED BY <1>1, <1>2, <1>3 DEF register_provider

-----------------------------------------------------------------------------
(* Type correctness. *)
THEOREM RegistryTypeCorrect == Spec => []TypeOK
<1>1. Init => TypeOK
  BY IdsAssumption DEF Init, TypeOK
<1>2. TypeOK /\ [Next]_registryVars => TypeOK'
  <2> SUFFICES ASSUME TypeOK, [Next]_registryVars PROVE TypeOK'
    OBVIOUS
  <2>1. CASE Next
    <3>1. PICK p \in Providers,
               new \in {S \in SUBSET Ids : S \cap DOMAIN definitions = {}} :
                  /\ definitions' = Assign(definitions, new, p)
                  /\ provider_by_pattern' = Assign(provider_by_pattern, new, p)
                  /\ providers' = IF Accepted(p) THEN Append(providers, p) ELSE providers
      BY <2>1, StepStores
    <3>2. /\ installed' = installed /\ toLoad' \subseteq toLoad
          /\ phase' \in {"loading", "ready", "raised"}
          /\ calls' \in Nat
      BY <2>1 DEF Next, LoadEntryPoint, RegisterProvider, TypeOK
    <3>3. /\ DOMAIN definitions' \subseteq Ids
          /\ \A id \in DOMAIN definitions' : definitions'[id] \in Providers \cup {Core}
      BY <3>1 DEF TypeOK, Assign
    <3>4. /\ DOMAIN provider_by_pattern' \subseteq Ids
          /\ \A id \in DOMAIN provider_by_pattern' : provider_by_pattern'[id] \in Providers
      BY <3>1 DEF TypeOK, Assign
    <3>5. providers' \in Seq(Providers)
      BY <3>1 DEF TypeOK
    <3> QED BY <3>2, <3>3, <3>4, <3>5 DEF TypeOK
  <2>2. CASE UNCHANGED registryVars
    BY <2>2 DEF TypeOK
  <2> QED BY <2>1, <2>2
<1> QED BY <1>1, <1>2, PTL DEF Spec

-----------------------------------------------------------------------------
(* A pattern is validated and built by the package that declared it.       *)
THEOREM RoutingCorrect == Spec => []RoutedToDeclarer
<1>1. Init => RoutedToDeclarer
  BY DEF Init, RoutedToDeclarer
<1>2. RoutedToDeclarer /\ [Next]_registryVars => RoutedToDeclarer'
  <2> SUFFICES ASSUME RoutedToDeclarer, [Next]_registryVars PROVE RoutedToDeclarer'
    OBVIOUS
  <2>1. CASE Next
    <3>1. PICK p \in Providers,
               new \in {S \in SUBSET Ids : S \cap DOMAIN definitions = {}} :
                  /\ definitions' = Assign(definitions, new, p)
                  /\ provider_by_pattern' = Assign(provider_by_pattern, new, p)
      BY <2>1, StepStores
    <3>2. p # Core
      BY CoreAssumption
    <3>3. /\ DOMAIN definitions' = DOMAIN definitions \cup new
          /\ \A id \in new : definitions'[id] = p
          /\ \A id \in DOMAIN definitions : definitions'[id] = definitions[id]
      BY <3>1 DEF Assign
    <3>4. /\ DOMAIN provider_by_pattern' = DOMAIN provider_by_pattern \cup new
          /\ \A id \in new : provider_by_pattern'[id] = p
          /\ \A id \in DOMAIN provider_by_pattern \ new :
                provider_by_pattern'[id] = provider_by_pattern[id]
      BY <3>1 DEF Assign
    <3> QED BY <3>2, <3>3, <3>4 DEF RoutedToDeclarer
  <2>2. CASE UNCHANGED registryVars
    BY <2>2 DEF RoutedToDeclarer
  <2> QED BY <2>1, <2>2
<1> QED BY <1>1, <1>2, PTL DEF Spec

(* No package can take over a pattern that is already registered. *)
THEOREM NeverReroutedCorrect == Spec => NeverRerouted
<1>1. [Next]_registryVars =>
        [\A id \in DOMAIN definitions :
            id \in DOMAIN definitions' /\ definitions'[id] = definitions[id]]_registryVars
  <2> SUFFICES ASSUME Next, NEW id \in DOMAIN definitions
               PROVE  id \in DOMAIN definitions' /\ definitions'[id] = definitions[id]
    OBVIOUS
  <2>1. PICK p \in Providers,
             new \in {S \in SUBSET Ids : S \cap DOMAIN definitions = {}} :
                definitions' = Assign(definitions, new, p)
    BY StepStores
  <2> QED BY <2>1 DEF Assign
<1> QED BY <1>1, PTL DEF Spec, NeverRerouted
-----------------------------------------------------------------------------
(* What is true while the entry points are loaded, in whatever order: the  *)
(* packages loaded so far are compatible with one another, and the         *)
(* registered ids are core's and theirs.                                   *)
Loaded == installed \ toLoad

ListedIds(S) == UNION {{Offers[p].ids[i] : i \in DOMAIN Offers[p].ids} : p \in S}

LoadInv ==
    /\ installed \subseteq Providers /\ toLoad \subseteq installed
    /\ phase = "ready"  => toLoad = {}
    /\ phase = "raised" => ~ Compatible(installed)
    /\ phase # "raised" => Compatible(Loaded)
    /\ phase = "loading" => DOMAIN definitions = CorePatterns \cup ListedIds(Loaded)

(* The package that is loaded next fits exactly when it is accepted.       *)
LEMMA AcceptedIsCompatible ==
    ASSUME LoadInv, phase = "loading", NEW p \in toLoad
    PROVE  Accepted(p) <=> Compatible(Loaded \cup {p})
<1> USE DEF LoadInv
<1>1. /\ Compatible(Loaded) /\ p \notin Loaded
      /\ DOMAIN definitions = CorePatterns \cup ListedIds(Loaded)
  BY DEF Loaded
<1>2. \A i \in DOMAIN Offers[p].ids : i \in Nat \ {0} /\ \A j \in 1..i : j \in DOMAIN Offers[p].ids
  <2>1. p \in Providers
    OBVIOUS
  <2> QED BY <2>1, OfferTypes
<1>3. ASSUME Accepted(p) PROVE Compatible(Loaded \cup {p})
  <2>1. Callable(p) /\ \A i \in DOMAIN Offers[p].ids : ~ Taken(p, i)
    BY <1>2, <1>3 DEF Accepted, Stored
  <2>2. \A i \in DOMAIN Offers[p].ids :
          /\ Offers[p].ids[i] \notin CorePatterns
          /\ \A q \in Loaded : \A j \in DOMAIN Offers[q].ids :
                Offers[p].ids[i] # Offers[q].ids[j]
    BY <1>1, <2>1 DEF Taken, ListedIds
  <2>3. \A i, j \in DOMAIN Offers[p].ids : Offers[p].ids[i] = Offers[p].ids[j] => i = j
    <3> SUFFICES ASSUME NEW i \in DOMAIN Offers[p].ids, NEW j \in DOMAIN Offers[p].ids,
                        Offers[p].ids[i] = Offers[p].ids[j], i < j
                 PROVE  FALSE
      BY <1>2
    <3>1. i \in 1..(j - 1)
      BY <1>2
    <3> QED BY <2>1, <3>1 DEF Taken
  <2> QED BY <1>1, <2>1, <2>2, <2>3 DEF Compatible
<1>4. ASSUME Compatible(Loaded \cup {p}) PROVE Accepted(p)
  <2>1. ASSUME NEW i \in DOMAIN Offers[p].ids PROVE ~ Taken(p, i)
    <3>1. Offers[p].ids[i] \notin CorePatterns \cup ListedIds(Loaded)
      BY <1>1, <1>4, <2>1 DEF Compatible, ListedIds
    <3>2. ASSUME NEW j \in 1..(i - 1) PROVE Offers[p].ids[j] # Offers[p].ids[i]
      <4>1. j \in DOMAIN Offers[p].ids /\ j # i
        BY <1>2, <2>1
      <4> QED BY <1>4, <4>1 DEF Compatible
    <3> QED BY <1>1, <3>1, <3>2 DEF Taken
  <2>2. Callable(p)
    BY <1>4 DEF Compatible
  <2>3. Stored(p) = DOMAIN Offers[p].ids
    BY <1>2, <2>1 DEF Stored
  <2> QED BY <2>2, <2>3 DEF Accepted
<1> QED BY <1>3, <1>4

(* Loading one entry point keeps the invariant.                            *)
LEMMA LoadKeepsInv ==
    ASSUME LoadInv, NEW p \in Providers, LoadEntryPoint(p)
    PROVE  LoadInv'
<1>1. /\ phase = "loading" /\ p \in toLoad /\ toLoad' = toLoad \ {p}
      /\ installed' = installed
      /\ phase' = IF ~ Accepted(p) THEN "raised"
                  ELSE IF toLoad' = {} THEN "ready" ELSE "loading"
  BY DEF LoadEntryPoint
<1>2. Loaded' = Loaded \cup {p} /\ Loaded' \subseteq installed
  BY <1>1 DEF LoadInv, Loaded
<1>3. Accepted(p) <=> Compatible(Loaded \cup {p})
  BY <1>1, AcceptedIsCompatible
<1>4. CASE ~ Accepted(p)
  <2>1. phase' = "raised"
    BY <1>1, <1>4
  <2>2. ~ Compatible(installed)
    <3>1. Loaded \cup {p} \subseteq installed
      BY <1>2
    <3>2. Compatible(installed) => Compatible(Loaded \cup {p})
      BY <3>1 DEF Compatible
    <3> QED BY <1>3, <1>4, <3>2
  <2>3. Compatible(installed') <=> Compatible(installed)
    BY <1>1 DEF Compatible
  <2> QED BY <1>1, <2>1, <2>2, <2>3 DEF LoadInv
<1>5. CASE Accepted(p)
  <2>1. phase' \in {"ready", "loading"} /\ (phase' = "ready" => toLoad' = {})
    BY <1>1, <1>5
  <2>2. Compatible(Loaded')
    BY <1>2, <1>3, <1>5
  <2>3. DOMAIN definitions' = DOMAIN definitions \cup StoredIds(p)
    BY <1>5 DEF LoadEntryPoint, register_provider, Accepted, Assign
  <2>4. StoredIds(p) = ListedIds({p})
    BY <1>5 DEF Accepted, StoredIds, ListedIds
  <2>5. ListedIds(Loaded') = ListedIds(Loaded) \cup ListedIds({p})
    BY <1>2 DEF ListedIds
  <2>6. DOMAIN definitions' = CorePatterns \cup ListedIds(Loaded')
    BY <1>1, <2>3, <2>4, <2>5 DEF LoadInv
  <2> QED BY <1>1, <2>1, <2>2, <2>6 DEF LoadInv
<1> QED BY <1>4, <1>5

(* Whether the registry can be constructed does not depend on the order.   *)
THEOREM OrderIndependentCorrect == Spec => []OrderIndependent
<1>1. Init => LoadInv
  <2> SUFFICES ASSUME Init PROVE LoadInv
    OBVIOUS
  <2>1. Loaded = {} /\ Compatible(Loaded) /\ ListedIds(Loaded) = {}
    BY DEF Init, Loaded, Compatible, ListedIds
  <2> QED BY <2>1, EntryPointsAssumption DEF Init, LoadInv
<1>2. LoadInv /\ [Next]_registryVars => LoadInv'
  <2> SUFFICES ASSUME LoadInv, [Next]_registryVars PROVE LoadInv'
    OBVIOUS
  <2>1. ASSUME NEW p \in Providers, LoadEntryPoint(p) PROVE LoadInv'
    BY <2>1, LoadKeepsInv
  <2>2. ASSUME NEW p \in Providers, RegisterProvider(p) PROVE LoadInv'
    BY <2>2 DEF RegisterProvider, LoadInv, Loaded, Compatible
  <2>3. CASE UNCHANGED registryVars
    BY <2>3 DEF LoadInv, Loaded, Compatible, ListedIds
  <2> QED BY <2>1, <2>2, <2>3 DEF Next
<1>3. LoadInv => OrderIndependent
  <2> SUFFICES ASSUME LoadInv PROVE OrderIndependent
    OBVIOUS
  <2>1. ASSUME phase = "ready" PROVE Compatible(installed)
    <3>1. toLoad = {} /\ Compatible(Loaded)
      BY <2>1 DEF LoadInv
    <3>2. Loaded = installed
      BY <3>1 DEF Loaded
    <3> QED BY <3>1, <3>2
  <2>2. phase = "raised" => ~ Compatible(installed)
    BY DEF LoadInv
  <2> QED BY <2>1, <2>2 DEF OrderIndependent
<1> QED BY <1>1, <1>2, <1>3, PTL DEF Spec
-----------------------------------------------------------------------------
(* A package that register_provider returned from normally provides every  *)
(* pattern it lists, from then on.                                         *)
THEOREM ListedProvideAllCorrect == Spec => []ListedProvideAll
<1>1. Init => ListedProvideAll
  BY DEF Init, ListedProvideAll
<1>2. TypeOK /\ ListedProvideAll /\ [Next]_registryVars => ListedProvideAll'
  <2> SUFFICES ASSUME TypeOK, ListedProvideAll, [Next]_registryVars
               PROVE  ListedProvideAll'
    OBVIOUS
  <2> DEFINE Provides(p, f) == \A j \in DOMAIN Offers[p].ids :
                                  /\ Offers[p].ids[j] \in DOMAIN f
                                  /\ f[Offers[p].ids[j]] = p
  <2>1. CASE Next
    <3>1. PICK p \in Providers,
               new \in {S \in SUBSET Ids : S \cap DOMAIN definitions = {}} :
                  /\ definitions' = Assign(definitions, new, p)
                  /\ providers' = IF Accepted(p) THEN Append(providers, p) ELSE providers
                  /\ Accepted(p) => new = StoredIds(p)
      BY <2>1, StepStores
    <3>2. ASSUME NEW i \in DOMAIN providers PROVE Provides(providers[i], definitions')
      <4>1. Provides(providers[i], definitions)
        BY <3>2 DEF ListedProvideAll
      <4> QED BY <3>1, <4>1 DEF Assign
    <3>3. ASSUME Accepted(p) PROVE Provides(p, definitions')
      <4>1. \A j \in DOMAIN Offers[p].ids : Offers[p].ids[j] \in new
        BY <3>1, <3>3 DEF Accepted, StoredIds
      <4> QED BY <3>1, <4>1 DEF Assign
    <3>4. providers \in Seq(Providers)
      BY DEF TypeOK
    <3>5. \A i \in DOMAIN providers' :
             \/ i \in DOMAIN providers /\ providers'[i] = providers[i]
             \/ Accepted(p) /\ providers'[i] = p
      BY <3>1, <3>4
    <3>6. \A i \in DOMAIN providers' : Provides(providers'[i], definitions')
      BY <3>2, <3>3, <3>5
    <3> QED BY <3>6 DEF ListedProvideAll
  <2>2. CASE UNCHANGED registryVars
    BY <2>2 DEF ListedProvideAll
  <2> QED BY <2>1, <2>2
<1> QED BY <1>1, <1>2, RegistryTypeCorrect, PTL DEF Spec
=============================================================================
