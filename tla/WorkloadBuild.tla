--------------------------- MODULE WorkloadBuild ---------------------------
(***************************************************************************)
(* A consuming workload between loading a dataset contract and having a    *)
(* Lakeflow graph: the registry, the contract (which the program may       *)
(* assign to at any time), registry.validate, registry.build_runtime and   *)
(* registry.build_extension_runtime.                                       *)
(***************************************************************************)
EXTENDS BuiltinRuntime

CONSTANTS
    Ids, Providers, Offers, EntryPoints, Core, MaxCalls,  \* see PatternRegistry
    NumberedIds,   \* the ids that are "P" followed by digits
    Documents,     \* the contracts that may be on disk
    Assignments,   \* pairs <<field, value>> the program may assign
    MaxAssignments,  \* bound: assignments to one contract
    Nothing        \* no contract, no build

VARIABLES installed, phase, toLoad, definitions, provider_by_pattern, providers, calls,
          spec,         \* the loaded contract
          assignments,  \* assignments made to it
          validation,   \* what the last registry.validate of it did
          build         \* the last build: [spec, assignments, by, outcome, graph]

Registry == INSTANCE PatternRegistry WITH CorePatterns <- BuiltinIds

registryVars == <<installed, phase, toLoad, definitions, provider_by_pattern,
                  providers, calls>>
vars == <<registryVars, spec, assignments, validation, build>>

ASSUME NumberedIdsAssumption == BuiltinIds \subseteq NumberedIds /\ NumberedIds \subseteq Ids
ASSUME ProvidersAssumption ==
    /\ Core \notin Providers
    /\ Offers \in [Providers -> [ids : Seq(Ids), has_build_runtime : BOOLEAN]]
ASSUME EntryPointsAssumption == \A e \in EntryPoints : e \subseteq Providers
ASSUME DocumentsAssumption ==
    \A s \in Documents :
        "pattern_id" \in DOMAIN s /\ s.pattern_id \in Ids
ASSUME AssignmentsAssumption ==
    /\ MaxAssignments \in Nat
    /\ \A a \in Assignments : a[1] = "pattern_id" => a[2] \in Ids

Init == /\ Registry!Init
        /\ spec = Nothing
        /\ assignments = 0
        /\ validation = "none"
        /\ build = Nothing

(***************************************************************************)
(* registry.validate, given what the owning package's own validation would *)
(* answer.  The order of the checks decides which error is raised.         *)
(***************************************************************************)
validate(s, answer) ==
    LET builtin == IF s.pattern_id \in NumberedIds THEN validate_builtin_pattern(s) ELSE "ok"
    IN  IF s.pattern_id \notin DOMAIN definitions THEN "ValueError"
        ELSE IF builtin # "ok" THEN builtin
        ELSE IF ~ validate_reconciliation_contract(s) THEN "ValueError"
        ELSE IF s.pattern_id \in DOMAIN provider_by_pattern THEN answer
        ELSE "ok"

Answers == {"ok", "ValueError"}

(* load_table_spec.  A behaviour follows one contract to its first build:  *)
(* contracts do not influence one another, and neither do their graphs.    *)
LoadSpec(s) ==
    /\ phase = "ready"
    /\ spec = Nothing
    /\ ModelValid(s)
    /\ spec' = s
    /\ UNCHANGED <<registryVars, assignments, validation, build>>

(* An assignment to a field of the contract, of one of its models or of a  *)
(* rule in one of its lists (validate_assignment).  The type and bounds of *)
(* the field are checked first.  The value is then stored, and only after  *)
(* that do the validators run, of the model that holds the field and of no *)
(* other; they raise and do not take the value back.                       *)
Assign(f, v) ==
    /\ spec # Nothing /\ build = Nothing
    /\ assignments < MaxAssignments
    /\ LET s == [spec EXCEPT ![f] = v] IN
          /\ s # spec
          /\ FieldsOK(s)
          /\ spec' = s
    /\ assignments' = assignments + 1
    /\ UNCHANGED <<registryVars, validation, build>>

(* Faulty: keeps what registry.validate returns as its outcome. *)
ValidateToOwner(answer) ==
    /\ spec # Nothing /\ build = Nothing
    /\ LET result == validate(spec, answer) IN
          validation' = IF result = "ok" THEN definitions[spec.pattern_id] ELSE result
    /\ UNCHANGED <<registryVars, spec, assignments, build>>

Validate(answer) ==
    /\ spec # Nothing /\ build = Nothing
    /\ validation' = validate(spec, answer)
    /\ UNCHANGED <<registryVars, spec, assignments, build>>

Built(by, outcome, graph) ==
    build' = [spec |-> spec, assignments |-> assignments, by |-> by,
              outcome |-> outcome, graph |-> graph]

(* The package's own build_runtime, opaque to the framework. *)
ExtensionGraph == {Node("extension", "silver", "source")}

(* Faulty: trusts an earlier registry.validate of the contract. *)
build_validated(c, answer) ==
    LET result == IF validation = "ok" THEN "ok" ELSE validate(spec, answer)
        plan   == build_builtin_runtime(spec, c)
    IN  /\ spec # Nothing /\ build = Nothing
        /\ IF result # "ok" THEN Built(Nothing, result, {})
           ELSE IF spec.pattern_id \in DOMAIN provider_by_pattern
           THEN Built(provider_by_pattern[spec.pattern_id], "ok", ExtensionGraph)
           ELSE Built(Core, Outcome(plan), Registered(plan))
        /\ UNCHANGED <<registryVars, spec, assignments, validation>>

build_runtime(c, answer) ==
    LET result == validate(spec, answer)
        plan   == build_builtin_runtime(spec, c)
    IN  /\ spec # Nothing /\ build = Nothing
        /\ IF result # "ok" THEN Built(Nothing, result, {})
           ELSE IF spec.pattern_id \in DOMAIN provider_by_pattern
           THEN Built(provider_by_pattern[spec.pattern_id], "ok", ExtensionGraph)
           ELSE Built(Core, Outcome(plan), Registered(plan))
        /\ UNCHANGED <<registryVars, spec, assignments, validation>>

build_extension_runtime(answer) ==
    LET result == validate(spec, answer)
    IN  /\ spec # Nothing /\ build = Nothing
        /\ IF result # "ok" THEN Built(Nothing, result, {})
           ELSE IF spec.pattern_id \in DOMAIN provider_by_pattern
           THEN Built(provider_by_pattern[spec.pattern_id], "ok", ExtensionGraph)
           ELSE Built(Nothing, "ValueError", {})
        /\ UNCHANGED <<registryVars, spec, assignments, validation>>

Next ==
    \/ /\ Registry!Next
       /\ UNCHANGED <<spec, assignments, validation, build>>
    \/ \E s \in Documents : LoadSpec(s)
    \/ \E a \in Assignments : Assign(a[1], a[2])
    \/ \E answer \in Answers : Validate(answer)
    \/ \E c \in Contexts, answer \in Answers : build_runtime(c, answer)
    \/ \E answer \in Answers : build_extension_runtime(answer)

Spec == Init /\ [][Next]_vars

-----------------------------------------------------------------------------
Errors == {"ValueError", "KeyError", "TypeError", "NotImplementedError"}

TypeOK ==
    /\ Registry!TypeOK
    /\ spec # Nothing => spec.pattern_id \in Ids
    /\ assignments \in 0..MaxAssignments
    /\ validation \in {"none", "ok"} \cup Errors
    /\ build # Nothing => /\ build.outcome \in {"ok"} \cup Errors
                          /\ build.by \in Providers \cup {Core, Nothing}

Nodes(kind) == {n \in build.graph : n.kind = kind}

Flows == Nodes("flow") \cup Nodes("snapshot_flow")

(* A contract that still satisfied its validators when it was loaded and   *)
(* validated may have been assigned to since: whatever a completed         *)
(* build_runtime registers for a built-in pattern satisfies the pattern's  *)
(* declared semantics and the runtime contract at the moment of the build. *)
BuiltContractsHold ==
    (build # Nothing /\ build.by = Core /\ build.outcome = "ok") =>
        /\ validate_builtin_pattern(build.spec) = "ok"
        /\ validate_reconciliation_contract(build.spec)
        /\ RuntimeContract(build.spec)

(* Also when a handler raises after it has registered part of its graph,   *)
(* no registered object reads, or writes to, a table the handler did not   *)
(* register.                                                               *)
NoDanglingReads ==
    build # Nothing =>
        /\ \A n \in build.graph : \/ n.reads \in {"source", "none"}
                                  \/ \E m \in build.graph : m.target = n.reads
        /\ \A n \in Flows : \E m \in Nodes("streaming_table") : m.target = n.target

(* A build that raises leaves nothing that would write rows to Silver.     *)
FailedBuildFeedsNoSilver ==
    (build # Nothing /\ build.outcome # "ok") =>
        \A n \in build.graph : n.target = "silver" => n.kind = "streaming_table"

(* The delete policy that a contract declares, as CdcFlow runs it. *)
Policy(s) ==
    [pattern |-> s.pattern_id, strategy |-> s.delete_strategy,
     apply_as_deletes |-> s.apply_as_deletes = "set",
     max_delay |-> IF s.max_delay > 0 THEN s.max_delay ELSE Unset,
     retention |-> IF s.tombstone_retention > 0 THEN s.tombstone_retention ELSE Unset]

(* Every AUTO CDC flow that comes into being, whatever was assigned to the *)
(* options after validation, is one that CdcFlow's theorems are about: its *)
(* delete policy is admitted, and the policy's deletes and tombstone       *)
(* threshold are the ones registered.                                      *)
BuiltFlowsAreAdmitted ==
    build # Nothing =>
        \A n \in Nodes("flow") :
            /\ Admits(Policy(build.spec))
            /\ n.deletes = PassesDeletes(Policy(build.spec))
            /\ build.spec.pattern_id = "P10"
                   => n.threshold = Policy(build.spec).retention

(* A completed build keeps the rows that it sends to quarantine out of     *)
(* Silver, whatever was assigned before; and what it keeps out of Silver   *)
(* has a quarantine table to go to as long as nothing was assigned.  (After*)
(* an assignment to a rule's action, or to quarantine_table, the filter may*)
(* stand alone: the handler skips the table that is not named.)            *)
QuarantineSplits ==
    (build # Nothing /\ build.outcome = "ok" /\ build.by = Core) =>
        LET sink     == \E n \in build.graph : n.filtered /\ n.target = "quarantine"
            withheld == \E n \in build.graph : n.filtered /\ n.target \in {"valid", "silver"}
        IN  /\ sink => withheld
            /\ withheld /\ build.assignments = 0 => sink

(* A contract used as loaded gives every change flow its business keys.    *)
LoadedContractsAreKeyed ==
    (build # Nothing /\ build.assignments = 0) => \A n \in Flows : n.keyed

(* The package that builds a pattern is the package that declared it.      *)
BuiltByDeclarer ==
    (build # Nothing /\ build.by # Nothing) =>
        build.by = definitions[build.spec.pattern_id]

-----------------------------------------------------------------------------
(* What the documentation, the messages and the tests say.                 *)

(* An SCD2 Silver is built only over an authoritative source ordering.     *)
Scd2IsAuthoritative ==
    build # Nothing =>
        ((\E n \in Flows : n.scd = 2) => build.spec.ordering = "authoritative")

(* A completed build of an implemented pattern enforces the contract's     *)
(* fail rules.                                                             *)
FailRulesEnforced ==
    (build # Nothing /\ build.outcome = "ok" /\ build.by = Core
        /\ "fail" \in build.spec.quality_actions) =>
            \E n \in build.graph : "fail" \in n.expectations

(* A pattern that a package registered is validated by that package: core  *)
(* raises nothing but the ValueErrors it documents.                        *)
RegisteredPatternsUsable == validation # "KeyError"
=============================================================================
