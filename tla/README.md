# Verification of enterprise-databrick-framework

TLA+ models of the framework in this repository, TLC configurations that check
them on small instances, and theorems checked by TLAPS. Paths below are
relative to the repository root; the package lives in `src/edp_framework/`.

## 1. The system

The framework is a Python package that a *consuming workload* (a Databricks job
or pipeline) imports. It does not capture data and does not run anything by
itself: it checks *dataset contracts* and then *registers* a dataflow graph with
Lakeflow (`pyspark.pipelines`), which runs it. Around that it has a
reconciliation engine and a small operational control plane.

| Component | State it keeps | Operations | Interacts with |
|---|---|---|---|
| Contract models (`metadata/models.py`) | one mutable, nested pydantic object per dataset | construction with validators; assignment, which runs validators of the model that holds the field only | everything reads it |
| Loader, `edp validate`, CLI (`metadata/loader.py`, `validation.py`, `cli.py`) | none | load one file, scan a directory, validate all | models, registry |
| Pattern catalogue (`patterns/builtins.py`) | constants | `validate_builtin_pattern` | registry |
| Pattern registry (`patterns/registry.py`) | `_definitions`, `_provider_by_pattern`, `_providers` | entry-point loading in the constructor, `register_provider`, `get`, `validate`, `build_runtime`, `build_extension_runtime` | extension packages (calls into them), built-in runtime |
| Built-in runtime (`runtime/builtin.py`, `names.py`) | none of its own; side effects on the pipeline graph | one handler each for P01, P02, P07, P10, P12 | Lakeflow, quality |
| Quality (`quality/expectations.py`) | none | split of rules by action, the valid and the invalid predicate, expectations | built-in runtime |
| The running CDC dataflow (P07, P10) | Bronze, quarantine and Silver tables, stream positions, tombstones | append, filter, AUTO CDC merge, tombstone collection | capture adapter (upstream) |
| The running events dataflow (P12) | Bronze, stream position, watermark, deduplication state, Silver | append under expectations, filter, deduplicate within the watermark | the source of domain events |
| Reconciliation (`reconciliation/`) | none; audit appends to two control tables | `evaluate_reconciliation`, Spark measures, `persist_reconciliation_report` | contracts, control tables |
| Operations, tasks (`operations/`, `databricks_tasks/`) | eleven control tables | bootstrap, release evidence, smoke check | Spark catalogue |

Behaviours that are hard to test here:

* **Delivery.** The capture adapter delivers at least once, late and out of
  order. AUTO CDC resolves changes by the source's order and forgets a deleted
  key after the tombstone threshold. Whether an old change can come back after
  that depends on contract fields that are checked in one place and used in
  another.
* **Independent streams.** Quarantine and Silver read Bronze separately; the two
  SQL filters are three-valued.
* **Partial effects.** `register_provider` and every runtime handler have effects
  before their last check, and nothing is undone when they raise.
* **Stale validation.** A contract can be assigned to after it was validated, and
  an assignment runs the validators of one model only and keeps its value even when they raise.
* **Order of installation** of extension packages.
* **Reads at different moments.** A reconciliation rule queries the source, then the
  target; the smoke check looks at eleven tables one by one.
* **NULL, NaN, infinities, rounding, ties and empty sides** in the measures of a reconciliation.
* **Crash and retry** of the operational tasks: none of them is a transaction, all of
  them are run again from the beginning.
* **Event time.** P12 trades completeness for bounded state: the watermark decides
  both what is a duplicate and what is too late.

`PROJECT.json` lists every hazard at its line with the properties that cover it.

### What makes each part correct

* Registry: a pattern is validated and built by the package that declared it;
  nothing is ever taken away from its owner; the outcome of construction does
  not depend on the order of installation.
* Build path: what is registered satisfies the contract at the moment of the
  build; a build that raises feeds no Silver table; a row sent to quarantine stays out of
  Silver, and in a contract used as loaded a filtered row has a sink.
* Dataflow: Silver is a function of the set of changes consumed; late records
  never resurrect deleted keys; rows are separated; valid changes arrive
  unless a FAIL rule stopped Bronze before them.
* Reconciliation: without tolerance a rule passes exactly when the two relations agree
  on what it measures; what cannot be evaluated never passes; a lost relation is noticed.
* Control plane: who returned was right; evidence that was acknowledged is complete;
  it is duplicated only by crashes; every task can be repeated; a task that prepared or
  waited for the tables never gives one an inferred schema.
* Canonical events: an event reaches Silver at most once, and is lost only for being
  late; one bad row does not stop the others.

## 2. Modules

```
DeletePolicy ----> TableSpec --> PatternCatalog --> BuiltinRuntime --> WorkloadBuild <-- MCWorkloadBuild
     |                                |                                    | INSTANCE
     |                                |      WorkloadBuildProofs -->|        v
     |                                |             :       PatternRegistry <-- MCPatternRegistry
     |                                |             : INSTANCE      ^
     |                                |             +.....> PatternRegistryProofs
     |                                v
     |            Measures --> Reconciliation <-- MCReconciliation
     |               ^--- MeasuresProofs --> ReconciliationProofs
     v
  CdcFlow <-- MCCdcFlow                    CanonicalEvents <-- MCCanonicalEvents
   ^  | INSTANCE (refinement)                  ^   ^--- CanonicalEventsProofs
   |  v       ^--- CdcFlowProofs               |
   | LatestState                               |
   +----------------- Quality -----------------+

  ControlPlane <-- MCControlPlane
      | INSTANCE (refinement)   ^--- ControlPlaneProofs
      v
  EvidenceLog
```

* **`Quality`** - `quality/expectations.py`. The framework never evaluates a rule
  itself: it builds SQL predicates. A row is therefore a function from rules to
  the three verdicts of SQL, and a filter keeps a row only on "true".
* **`DeletePolicy`** - what a contract decides about deletes (`Admits` is the delete
  part of `validate_builtin_runtime_contract`, `PassesDeletes` says whether the
  handler passes `apply_as_deletes`). Shared by the module that builds pipelines
  and the one that runs them.
* **`CdcFlow`** - the dataflow of `register_p07` and `register_p10` at run time.
  `log` is the source in `sequence_by` order; a change is its position there.
  `Deliver` is the Bronze stream under `expect_or_fail` (appends again what is delivered again, and
  stops for good on a change that a FAIL rule refuses: `stopped`),
  `DropNext`/`ApplyNext` are the AUTO CDC flow over the filtered view,
  `QuarantineNext` is the quarantine table's own stream, `Collect` the garbage
  collection of tombstones, `Tick` time. The state of one key in Silver is the
  position of the row (or tombstone) kept, and when it was written.
* **`LatestState`** - the abstract promise: a table that is a function of the *set*
  of changes observed. `CdcFlow!ImplementsLatestState` is the refinement.
* **`TableSpec`** - the contract as a flat record; `ModelValid` is construction, with every
  validator of every model. An assignment keeps `FieldsOK` only (`WorkloadBuild!Assign`).
* **`PatternCatalog`** - `patterns/builtins.py` and `reconciliation/contracts.py`.
* **`BuiltinRuntime`** - a handler is a sequence of *checks* (with the exception they
  raise) and *registrations* (with the object). Its effect is what was registered
  before the first check that fails. The order is the source's: e.g. the Silver
  streaming table exists before `_sequence_by` is evaluated.
* **`PatternRegistry`** - the registry with its partial registrations; `installed`
  and the order in which entry points load are the environment.
* **`WorkloadBuild`** - the composition: registry, one contract, assignments to it,
  `registry.validate`, `build_runtime`, `build_extension_runtime`. Contracts do
  not influence one another, so a behaviour follows one contract to its first
  build.

* **`Measures`** - `reconciliation/provider.py`: each measure as the Spark query defines it,
  on relations with NULL keys, NULL categories, NaN, infinities, ties of the start and open ends.
  `numeric_scalar` is an exact SUM of whole numbers converted by `AsDouble`, as the provider's
  CAST does.
  Where Spark leaves a result open (the order of ties in a window, the order of groups)
  the measure is a *set* of possible results. The lower half of the module says what
  the rules are there to establish, independently of how they measure it.
* **`Reconciliation`** - `evaluate_reconciliation`. `RequireCutoff` and `Skip` are its early returns,
  in their order; each rule is refused, unsupported, or measured, by one query
  (`CountViolations`) or two (`MeasureSource`, `MeasureTarget`), and `Change` is a
  writer who may come between any two queries. `Unreadable` is the engine's own reading
  of a rule and the provider's `_column`, on the keys that `_rule_keys` chooses from the rule, the
  context or the contract; `PatternCatalog!validate_reconciliation_contract` is the earlier one, and
  `ValidatedRulesExecutable` compares the two.
* **`ControlPlane`** - the statements of `control_table_ddl`, the checks of the smoke test, the
  appends of `append_release_evidence` and `persist_reconciliation_report`, one action per
  statement. A task is a program counter over its statements; `Crash` kills it
  between any two and `Retry` starts it again from the first. A table is absent,
  declared by its DDL, or inferred from appended rows.
* **`EvidenceLog`** - the abstract promise: an at-least-once log whose acknowledged records are
  stored. `ControlPlane!ImplementsEvidenceLog` maps a report to the batch written last.
* **`CanonicalEvents`** - `register_p12` at run time. `Ingest` is the Bronze stream under
  `expect_or_fail`, `ReadBatch` a micro-batch of `canonical_events`: filter, watermark,
  `dropDuplicatesWithinWatermark`; `Evict` the loss of expired deduplication state, which Spark
  may delay.

Operators marked *faulty* are used by nothing in a specification. They are what
the mutation runs substitute, to show that each property can fail.

### What is external

Lakeflow and AUTO CDC, the source, the capture adapter, Spark SQL's logic, the
code of extension packages, and time. They are modelled from how the code uses
them:

* AUTO CDC keeps one row per key, the highest in `sequence_by`; a delete leaves a
  tombstone; a tombstone may (need not) be dropped once it is `threshold` old.
  If the contract gives no retention, the threshold is arbitrary.
* The contract's `max_out_of_order_delay_seconds` is taken as a promise about the
  whole way from the source to Silver: `lateness` is any positive duration within
  it (any at all when it is not declared), no change is delivered later than that
  after its birth, and time does not pass it while a change is still pending.
  Without the second half no retention would be long enough.
* SCD2 history is not modelled: `CdcFlow` is the current state (SCD1, or the
  current rows of SCD2).
* `expect_or_fail` refuses a batch with a violating row, on every retry; whether NULL is a
  violation is left open, both happen. A stream that stopped stays stopped: repairing the source,
  or the rule, by hand is outside the models.
* The source of P12 may deliver an event again with another event time, at most `Spread`
  away. `AtMostOnce` claims nothing when `Spread` exceeds the watermark: TLC then finds two
  copies at once. Neither the contract nor the code states this condition.
* `saveAsTable` in append mode creates an absent table with the schema of the rows, and fails when
  the schema object is absent; `createDataFrame` cannot type a column that is None in every
  row. `CREATE ... IF NOT EXISTS` is idempotent. Each statement is atomic. Nobody drops a table.
* A failed task is run again as a whole, as a job's retry policy or an operator does.
* What the aggregate expression of a contract is, is the contract's; it is modelled as a
  SUM, which is what the examples use, of whole numbers, taken exactly (BIGINT or DECIMAL) and then
  rounded to a DOUBLE: exact up to `ExactUpTo` (2^53), even numbers above it, and coarser past twice
  that, which no instance reaches. For amounts with decimal places count in units of the last
  one and take 10^15 for `ExactUpTo`. NaN and the infinities are what an expression
  over a DOUBLE column adds to that; the rounding of such a column's own additions, which
  depends on the order of the rows, is not modelled.
* A package's `validate` answers either way; its `build_runtime` is one opaque
  object and is taken to succeed.
* On assignment pydantic checks the field, stores the value, and then runs the `after` validators of
  the model that holds the field: not those of a model around it (a `QualityRule`'s new action is
  never seen by `QualitySpec.validate_quarantine`), and without taking the value back when
  one raises. So an assignment may leave any validator behind and keeps only the fields'
  own types and bounds. Edits that bypass pydantic (mutating a list in place,
  `model_copy(update=...)`) may leave as much, and `capture.options` is a plain dict.

## 3. Runs

All runs have `CHECK_DEADLOCK FALSE`: every model stops legitimately at its bounds,
when a contract has been built, a report is made, or all tasks have returned.

| Run (cfg) | Question | Bounds and why they suffice |
|---|---|---|
| `cdc_latest_state` (`CdcLatestState`) | `LatestStateShown`, the inductive `LatestStateInv`, `SoftDeletedRowsRemain`, the refinement `ImplementsLatestState` | 2 keys, 3 changes, 1 redelivery, clock 0..2, delays and retentions in {unset, 1, 2}. The shortest resurrection is upsert, delete, collect, redeliver: 2 changes, 1 redelivery, 1 tick. All delete policies, including retention = delay; changes of one key interleaved with the other's. |
| `cdc_streams` (`CdcStreams`) | `RowsSeparated`; `EveryValidChangeApplied` under fairness | 2 quarantine rules, a warn rule and a FAIL rule, rows with every verdict pair of the first and every verdict of the last, 2 changes, 1 redelivery: the streams can be two rows apart, and Bronze can stop before either change. |
| `pattern_registry` (`PatternRegistry`) | routing, ownership, order | all subsets of 5 packages: conflicts with a built-in in the middle of a list, with another package, an empty list, no `build_runtime`; every order; up to 4 further calls. |
| `workload_build` (`WorkloadBuild`) | the build path | the five contracts of `examples/table_specs`, each with every one of 28 departures that the models accept, one assignment after loading, one package installed or not and a conflicting one registered later. |
| `reconciliation` (`Reconciliation`) | what a verdict and a report mean | relations of at most 3 rows: a NULL key beside two others, both spellings of a NULL category, NULL, NaN and infinite amounts, two totals that a DOUBLE does not tell apart (`ExactUpTo = 8`: 8 + 1 and 8), every triple of versions over 3 points in time with ties, gaps and open ends; one or two rules; every spelling of a single rule that validation, engine and provider tell apart, with every combination of context and contract keys; one change of a relation at any moment. A wrong overlap count shows with 3 rows, a torn read with 1 change. |
| `control_plane` (`ControlPlane`) | crash, retry, concurrency of the tasks; that only kills make one fail | seven pairs of tasks that use the same tables, each task killed at most once, at every statement. What two tasks do to one another is pairwise; a second kill only repeats the first (the theorems have no bound). |
| `canonical_events` (`CanonicalEvents`) | deduplication, lateness, FAIL rules, progress | 2 identities, 3 event times, 3 deliveries, watermark 1, rows that violate one rule of each action or none, and one on which the FAIL and the quarantine rule are NULL; every division into batches and every eviction. A duplicate after eviction needs 3 deliveries: the event, one that moves the watermark, the event again. |
| `cdc_undeclared_delete` | expected violation, finding 1 | |
| `cdc_null_verdict` | expected violation, finding 2 | |
| `workload_scd2_order` | expected violation, finding 3 | |
| `workload_fail_rules` | expected violation, finding 4 | |
| `workload_numbered` | expected violation, finding 5 | |

Bounds: `MaxEvents`, `MaxRedeliveries`, `MaxTime` (CdcFlow), `MaxCalls`
(PatternRegistry), `MaxAssignments` (WorkloadBuild), `MaxChanges` and `ExactUpTo` (Reconciliation),
`MaxCrashes` (ControlPlane), `MaxDeliveries` (CanonicalEvents).

**Fairness.** `CdcFlow!Fairness` (for `EveryValidChangeApplied` only): weak
fairness of the three flows, because a triggered pipeline is triggered again and
a continuous one keeps running, and of the *first* delivery of each change, which
at-least-once delivery is, as long as Bronze runs. `EveryValidChangeApplied` excepts
exactly the changes that a stopped Bronze never stored (`CutOff`; `StopsOnlyOnFailRules` says why
it may stop). Redelivery, collection, time and the source are not
fair. `ControlPlane!Fairness` (for `EveryTaskReturns`): a running task goes on and a failed one
is run again (an assumption about the job's retry policy or its operator: no job file in the
repository fixes one); the crashes of a task are finite, which is what `MaxCrashes` says.
`CanonicalEvents!Fairness` (for `EveryRowConsumed`): the two registered flows run when
they have rows, as a triggered or continuous pipeline does; delivery and eviction are not fair.

### Findings

1. *Undeclared deletes.* `register_p10` passes `apply_as_deletes` under every delete
   strategy; tombstone retention is checked under `cdc_delete` only. The run shows
   upsert, delete, collection, redelivery: the deleted row is back.
2. *NULL verdicts.* A row on which a quarantine rule is NULL (for instance
   `_operation IN (...)` with a NULL operation) is in neither table.
3. *SCD2 ordering.* "scd2 requires authoritative source ordering" tests that there is
   an ordering, not that it is authoritative; P07 and P10 test it later, P02 never.
4. *P02 fail rules* are not attached to anything; the P02 example has one.
5. *Numbered extension ids.* `register_provider` accepts an id such as `P15`; every use
   of it raises `KeyError` in core.

Section 4 shows that findings 3 and 4 are confined to P02 and finding 5 to numbered ids.

## 4. Theorems

TLAPS proves the following for all values of the constants (any number of keys,
changes, packages, any set of rules), from the `ASSUME`s of the modules, which
state the types of the constants and nothing else.

`CdcFlowProofs`:

* `FiltersExclusive`, `FiltersTotalOnDecidedRows`: the two predicates are never both true;
  one is true on a row without NULL verdicts. `RowsSeparatedCorrect` lifts this to the two
  streams with their positions.
* `TypeCorrect`.
* `LatestStateCorrect`: `Spec => []LatestStateShown`. `LatestStateShown` is not inductive: a
  key for which Silver keeps nothing says nothing about what may still come. The
  strengthening `LatestStateInv` (`LatestInvariant`) adds that a forgotten key's newest
  consumed change is a delete and that *all* its consumed changes are too old to be
  delivered again (`ForgottenIsOld`); this is kept by `Collect` because the row
  was written no earlier than the newest change was born and the threshold exceeds
  the lateness (`TombstonesOutliveDelay`, from `Admits`), and by `ApplyNext` because
  what is unread is fresh (`UnreadIsFresh`, kept by `Tick`'s promise).
* `LatestStateInvCorrect`: the strengthening itself, which the run checks too.
* `GuardedCorrect` (a lemma): only changes that may pass are in Bronze. It gives `SilverMeetsFailRules`, that no
  change in Silver violates a FAIL rule, and `StopsOnlyOnFailRules`, that Bronze stops only on a
  change that does not satisfy one.
* `SoftDeleteCorrect`: no step takes a P07 row out of Silver.
* `Refinement`: if the configurations declare their deletes, `Spec` implements
  `LatestState!Spec`; consuming a change is `Observe`, everything else stutters.

`PatternRegistryProofs`: `RegistryTypeCorrect`, `RoutingCorrect`, `NeverReroutedCorrect`,
`ListedProvideAllCorrect` and `OrderIndependentCorrect`. The key lemma is `StoredAreNew`:
what the loop stores was free before. `OrderIndependent` needs `LoadInv`: the packages
loaded so far are compatible with one another, and the registered ids are exactly
core's and theirs, so that the next package is accepted if and only if it is
compatible with them (`AcceptedIsCompatible`).

`MeasuresProofs`: `NoOverlapMeansDisjoint` shows that comparing each version with its predecessor
finds an overlap if and only if two versions overlap, in whatever order Spark sorts ties. The
key lemma, `NoOverlapEndsEarlier`, is by contradiction with the latest row of the same key
between the two. It needs non-empty intervals (`ProperIntervals`); that no key has two current rows
(`NoOverlapMeansOneCurrentRow`) does not. `KeyMeasuresMeanEqualKeys` is a counting argument
over finite sets: neither `key_count` nor `pk_presence` alone establishes equal keys.

The sums of `operation_count` and `aggregate` are the community modules' `SumFunction`, a fold that
`CHOOSE`s a recursive function. `SumRecursion` shows that there is such a function on the subsets of
a finite set, so that the sum obeys its recursive equation. No induction theorem with an operator
parameter is needed: the set of the sizes at which the claim fails is a set of naturals, and a
`Smallest` one leads to a contradiction (`SubsetInduction`). `SumOfIntegers` and `SumOfNaturals`
follow. `CountsTyped` and `CountsOfCategories` say what is summed: the counts are a finite function
into the positive naturals, empty only for an empty relation, and where no two categories share a
label they count the rows of each category.

`ReconciliationProofs`: `RecInv` (types, the contract's assumptions, and "what was measured of the
source is still true unless the measure is torn") is inductive and gives `NoSilentPassCorrect` and
`ValidatedExecutable`. `VerdictsCorrect` states the whole of `VerdictsTrue`: under the conditions of
`Decides`, a verdict of any implemented kind says of the relations what the rule means. The lemmas
go by kind: counts (`NumbersCompared`), sums (`AggregateCompared`; `NumericScalarTyped` and `Represented` say what the cast to DOUBLE leaves of
a total: `Decides` asks that totals that differ be representable, and nothing of equal
ones), categories
(`CategoriesCompared`, on `ExactCategorical`: an exact tolerance passes equal counts only) and
violations (`ViolationsCounted`). `LossesCaught` states `LostRelationCaught`: `LossFails` and
`LossFailsCategorical` show that a tolerance below one row or below 100% never passes an empty
relation against one that is not (`ToleranceBelowOne`). `PassedInv` carries what a recorded
verdict established to the end of the evaluation and gives `EqualKeysCorrect` and
`NoOverlapUniqueCorrect`. The assumption on `Cases` is that tolerances are non-negative, as
`metadata/models.py` requires, and names what keys can be. `ValidatedExecutable` goes through
`_rule_keys`: what the validation accepted leaves the keys set or unsafe.

`ControlPlaneProofs`: none of the properties is inductive. `IInv` adds that nothing exists without the
schema (`SchemaFirst`), that what a task has executed is there (`CreatedStay`) and what it has
looked at was there (`LookedAt`), that a report about to append its results has appended its
run in this attempt (`RunFirst`), that a finished report is stored (`Stored`), and that a batch
which the present attempt has yet to append was stored by killed attempts only
(`StoredOnce`, the heart of `DuplicatesOnlyAfterCrash`). `EvidenceRefinement` follows step by step: an
append of the last batch is `Append`, a return is `Acknowledge`, the rest stutters.
`FailsOnlyWhenKilledCorrect` is the safety half of `EveryTaskReturns`: a task that creates the tables
itself, or was started when they were complete, is never made to fail by how far the others are.
`SmokeAcceptsBootstrapCorrect` is its reason where smoke checks are concerned.
`PreparedTasksInferNothingCorrect` uses `PreparedTable`: at its first append such a task has all its
CREATEs behind it, or found them done, so that the table it appends to exists. A task that is
neither can create a table with an inferred schema between two CREATEs of a bootstrap, and
the bootstrap then leaves it so.

`CanonicalEventsProofs`: `IInv` adds to the properties that what Silver has is remembered until
the watermark shuts it out (`Remembered`), that remembered keys are in Silver
(`SeenIsEmitted`), and that the watermark is the one of a valid event that was consumed
(`WatermarkIsEvent`): an event that is refused is either in Silver or late against a valid one.
`BronzeGuarded` and `SilverFiltered` carry the verdicts of the rows through both flows; they give
`SilverMeetsRules` (no row of Silver fails a rule that should have kept it out) and
`StopsOnlyOnFailRules`, the safety half of `EveryRowConsumed`: only a batch with a row that does not
satisfy a FAIL rule stops the stream.

`WorkloadBuildProofs`: a handler's plan is taken apart by `Following` (a part that follows takes effect
exactly when what precedes it completes), and each handler is `Sound`: whatever prefix of it
ran, its objects are grounded, its flows run under the declared policy, and only a completed
handler feeds Silver. This is proved for every contract and context, without unfolding the
contract validators. The inductive invariant `Inv` says of the build made that it was refused, a
package's, or the registered prefix of a handler (`Refused`, `ByPackage`, `ByCore`), and of a contract
that its validators vouch for it until the first assignment (`Vouched`), and not afterwards.
`QuarantineSplitsCorrect` shows what is left then: every handler that registers the quarantine table
also filters the valid stream (`Split`), whatever the contract has become; that a filter has its
table needs the validators, and is stated for contracts used as loaded.
`BuiltFlowsAreAdmittedCorrect` supplies the premise of the theorems on `CdcFlow`.
`WorkloadImplementsRegistry` makes the theorems of `PatternRegistryProofs` available here
(`WorkloadTypeCorrect` uses one). `DocumentsAssumption` and `AssignmentsAssumption` say that
contracts have a pattern id, and that an assignment gives it another one.

Three theorems delimit findings 3 to 5. `Scd2SlipsOnlyUnderP02` and `FailRulesSlipOnlyUnderP02`: in
the builds of every other pattern the ordering is authoritative and the fail rules are attached
(`Guarded`). `KeyErrorsAreNumberedIds`: a `KeyError` is always that of a numbered id which is no
built-in. `BuildsCompleteExactly` says when a validated contract of a pattern that no package
provides is built: exactly when the runtime contract holds and the handler is `Equipped`, that is,
has what it asks of the context and of the contract. Each handler has its own lemma
(`SnapshotsComplete`, `StreamsComplete`, `EventsComplete`).

Only model-checked: the three liveness properties `EveryValidChangeApplied`, `EveryTaskReturns` and
`EveryRowConsumed`, because fairness is outside the prover's reach, and the five expected violations.

## 5. Not modelled, and what is left

Not modelled:

* identifiers' lexical rules beyond good/malformed, comments and wording, DDL columns, the
  checks of the tasks' arguments, CLI output, execution mode, SLA, schema evolution, fidelity
  and tag fields (no code reads them);
* `load_table_specs`' directory scan and `runtime_name` collisions between two contracts: both
  are about several contracts in one process, which the framework composes nowhere, and
  about the characters of their names;
* what happens inside AUTO CDC FROM SNAPSHOT (P01, P02) and SCD2 history: Lakeflow's, not
  the framework's; what they must satisfy is what `Measures` reconciles;
* P12's optional transform, a callback of the workload.

Divergences between documentation and code that have no run of their own:

* `docs/REPOSITORY_MAP.md:65` says that `operation_count` is not implemented by the core engine;
  `engine.py` implements it, and `Reconciliation` models it.
* `persist_reconciliation_report` "append[s] one completed report", but a report whose only results
  are of kind `source_position` leaves its run row and then fails, on every retry
  (`ControlPlane!Untyped`; the run contains one, and `EveryTaskReturns` excepts it).
* A column name that is no identifier passes `validate_reconciliation_contract` and is refused
  by `_column` in the provider (`Reconciliation!UnsafeNames`): in a rule's options, and also in the
  context's or the contract's business keys, which a rule without keys falls back on. A contract
  keyed by `customer-id` is accepted and cannot be reconciled.
* "quarantine rules require quarantine_table" (`metadata/models.py:261`) holds of a contract as it is
  loaded. Once `spec.quality.rules[0].action` is assigned, `register_p07`, `register_p10` and
  `register_p12` filter the valid stream (builtin.py:245, 372) and register no quarantine
  table (builtin.py:228): the rows are lost and the build completes. `QuarantineSplits`
  therefore claims a sink for contracts used as loaded only.
* An `aggregate` rule with tolerance 0 passes two different totals that are the same DOUBLE
  (provider.py:83; `TotalsRepresented` excludes them), and two equal infinities fail.
* A literal category `<NULL>` and SQL NULL are one category to `categorical_counts`
  (`LabelsDistinct` excludes it from `VerdictsTrue`).

Left of the plan: several contracts in one pipeline (`runtime_name` collisions, listed as a hazard).
