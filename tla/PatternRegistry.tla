-------------------------- MODULE PatternRegistry --------------------------
(***************************************************************************)
(* The pattern registry (src/edp_framework/patterns/registry.py): which    *)
(* pattern ids exist, which package declared each one, and to which        *)
(* package the registry routes its validation and runtime construction.    *)
(* Packages arrive through entry points, in the installer's order, while   *)
(* the registry is constructed, and through register_provider afterwards.  *)
(***************************************************************************)
EXTENDS Naturals, Sequences

CONSTANTS
    CorePatterns, \* the ids of BUILTIN_PATTERNS
    Ids,          \* all pattern ids
    Providers,    \* external packages
    Offers,       \* Offers[p] = [ids, has_build_runtime]: what p.definitions() lists
    EntryPoints,  \* the sets of packages an environment may have installed
    Core,         \* marks the definitions that ship with the framework
    MaxCalls      \* bound: calls of register_provider by the program

ASSUME IdsAssumption == CorePatterns \subseteq Ids
ASSUME CoreAssumption == Core \notin Providers
ASSUME OffersAssumption ==
    Offers \in [Providers -> [ids : Seq(Ids), has_build_runtime : BOOLEAN]]
ASSUME EntryPointsAssumption == \A e \in EntryPoints : e \subseteq Providers

VARIABLES
    installed,            \* the packages installed in the environment
    phase,                \* "loading", "ready", or "raised" (no registry object)
    toLoad,               \* entry points not yet loaded
    definitions,          \* _definitions: pattern id -> the package that declared it
    provider_by_pattern,  \* _provider_by_pattern: pattern id -> package
    providers,            \* _providers
    calls                 \* calls of register_provider so far

registryVars == <<installed, phase, toLoad, definitions, provider_by_pattern,
                  providers, calls>>

Init ==
    /\ installed \in EntryPoints
    /\ toLoad = installed
    /\ phase = IF toLoad = {} THEN "ready" ELSE "loading"
    /\ definitions = [id \in CorePatterns |-> Core]
    /\ provider_by_pattern = << >>
    /\ providers = << >>
    /\ calls = 0

(***************************************************************************)
(* The loop of register_provider.  It stops, and raises, at the first      *)
(* definition whose id is taken, by an earlier package or by an earlier    *)
(* definition of the same list; what it has stored by then stays stored.   *)
(***************************************************************************)
TakenByCore(p, i) == Offers[p].ids[i] \in CorePatterns   \* faulty

Taken(p, i) == \/ Offers[p].ids[i] \in DOMAIN definitions
               \/ \E j \in 1..(i - 1) : Offers[p].ids[j] = Offers[p].ids[i]

Stored(p) == {i \in DOMAIN Offers[p].ids : \A j \in 1..i : ~ Taken(p, j)}

StoredIds(p) == {Offers[p].ids[i] : i \in Stored(p)}

Callable(p) == Offers[p].ids # << >> /\ Offers[p].has_build_runtime

Accepted(p) == Callable(p) /\ Stored(p) = DOMAIN Offers[p].ids

(* f, extended with p for every id of S. *)
Assign(f, S, p) == [id \in DOMAIN f \cup S |-> IF id \in S THEN p ELSE f[id]]

(* Faulty loops: the owners are stored after the loop, the package is      *)
(* listed before it, the definitions are listed in the package's place.    *)
register_owners_last(p) ==
    LET new == IF Callable(p) THEN StoredIds(p) ELSE {} IN
    /\ definitions' = Assign(definitions, new, p)
    /\ provider_by_pattern' = IF Accepted(p) THEN Assign(provider_by_pattern, new, p)
                              ELSE provider_by_pattern
    /\ providers' = IF Accepted(p) THEN Append(providers, p) ELSE providers

list_provider_first(p) ==
    LET new == IF Callable(p) THEN StoredIds(p) ELSE {} IN
    /\ definitions' = Assign(definitions, new, p)
    /\ provider_by_pattern' = Assign(provider_by_pattern, new, p)
    /\ providers' = IF Callable(p) THEN Append(providers, p) ELSE providers

list_definitions(p) ==
    LET new == IF Callable(p) THEN StoredIds(p) ELSE {} IN
    /\ definitions' = Assign(definitions, new, p)
    /\ provider_by_pattern' = Assign(provider_by_pattern, new, p)
    /\ providers' = IF Accepted(p) THEN providers \o Offers[p].ids ELSE providers

register_provider(p) ==
    LET new == IF Callable(p) THEN StoredIds(p) ELSE {} IN
    /\ definitions' = Assign(definitions, new, p)
    /\ provider_by_pattern' = Assign(provider_by_pattern, new, p)
    /\ providers' = IF Accepted(p) THEN Append(providers, p) ELSE providers

(* _load_entry_points: an exception leaves the constructor. *)
LoadEntryPoint(p) ==
    /\ phase = "loading"
    /\ p \in toLoad
    /\ register_provider(p)
    /\ toLoad' = toLoad \ {p}
    /\ phase' = IF ~ Accepted(p) THEN "raised"
                ELSE IF toLoad' = {} THEN "ready" ELSE "loading"
    /\ UNCHANGED <<installed, calls>>

(* A call by the program, which may catch what the call raises and go on   *)
(* with the same registry.                                                 *)
RegisterProvider(p) ==
    /\ phase = "ready"
    /\ calls < MaxCalls
    /\ calls' = calls + 1
    /\ register_provider(p)
    /\ UNCHANGED <<installed, phase, toLoad>>

Next == \E p \in Providers : LoadEntryPoint(p) \/ RegisterProvider(p)

Spec == Init /\ [][Next]_registryVars

-----------------------------------------------------------------------------
(* Every variable has its type. *)
TypeOK ==
    /\ installed \in EntryPoints
    /\ phase \in {"loading", "ready", "raised"}
    /\ toLoad \subseteq installed
    /\ DOMAIN definitions \subseteq Ids
    /\ \A id \in DOMAIN definitions : definitions[id] \in Providers \cup {Core}
    /\ DOMAIN provider_by_pattern \subseteq Ids
    /\ \A id \in DOMAIN provider_by_pattern : provider_by_pattern[id] \in Providers
    /\ providers \in Seq(Providers)
    /\ calls \in Nat

(* A package owns three things together, its declaration, its validation   *)
(* and its runtime: a pattern is validated and built by the package that   *)
(* declared it, and by core exactly when core declared it, even after      *)
(* registrations that stopped half-way.                                    *)
RoutedToDeclarer ==
    /\ DOMAIN provider_by_pattern
           = {id \in DOMAIN definitions : definitions[id] # Core}
    /\ \A id \in DOMAIN provider_by_pattern : provider_by_pattern[id] = definitions[id]

(* Registering never takes a pattern away from the package that has it,    *)
(* and never withdraws one: no package can replace a built-in pattern or   *)
(* another package's, whatever the order of installation and of calls.     *)
NeverRerouted ==
    [][\A id \in DOMAIN definitions :
          id \in DOMAIN definitions' /\ definitions'[id] = definitions[id]]_registryVars

(* A package that register_provider returned from normally provides every  *)
(* pattern it lists.                                                       *)
ListedProvideAll ==
    \A i \in DOMAIN providers : \A j \in DOMAIN Offers[providers[i]].ids :
        /\ Offers[providers[i]].ids[j] \in DOMAIN definitions
        /\ definitions[Offers[providers[i]].ids[j]] = providers[i]

(* The packages of S may be installed together: each one can build, and no *)
(* pattern id is declared twice, by core or by any of them.                *)
Compatible(S) ==
    /\ \A p \in S : Callable(p)
    /\ \A p \in S : \A i \in DOMAIN Offers[p].ids :
          /\ Offers[p].ids[i] \notin CorePatterns
          /\ \A q \in S : \A j \in DOMAIN Offers[q].ids :
                Offers[p].ids[i] = Offers[q].ids[j] => p = q /\ i = j

(* Whether the registry can be constructed depends on which packages are   *)
(* installed and not on the order in which the installer lists them.       *)
OrderIndependent ==
    /\ phase = "ready"  => Compatible(installed)
    /\ phase = "raised" => ~ Compatible(installed)
=============================================================================
