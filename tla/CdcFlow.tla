------------------------------ MODULE CdcFlow ------------------------------
(***************************************************************************)
(* The running dataflow that register_p07 and register_p10 declare         *)
(* (src/edp_framework/runtime/builtin.py): source changes are appended to  *)
(* Bronze late, out of order and more than once; two independent streams   *)
(* read Bronze, one filtered into the quarantine table and one filtered    *)
(* into an AUTO CDC flow that keeps one row per business key in Silver.    *)
(*                                                                         *)
(* The source, the capture adapter and AUTO CDC are outside the framework  *)
(* and are modelled from how the framework uses them: sequence_by is the   *)
(* source's authoritative order, a physical delete leaves a tombstone, and *)
(* the tombstone may be garbage-collected once it is `threshold' old.      *)
(* What the framework decides is which configurations may run at all       *)
(* (Admits), which filters the two streams use, whether deletes are        *)
(* physical, and which threshold the target table is created with.         *)
(***************************************************************************)
EXTENDS Integers, Sequences, FiniteSets, Quality, DeletePolicy

CONSTANTS
    Keys,        \* business keys
    Rules,       \* the quality rules of the dataset
    Rows,        \* row payloads: functions from Rules to Verdicts
    Configs,     \* the table specifications a workload may bring
    Durations,   \* positive durations, in clock ticks
    MaxEvents,        \* bound: source changes
    MaxRedeliveries,  \* bound: deliveries of a change already delivered
    MaxTime           \* bound: clock

Config == [pattern : {"P07", "P10"}, strategy : DeleteStrategies,
           apply_as_deletes : BOOLEAN,
           max_delay : Durations \cup {Unset},
           retention : Durations \cup {Unset}]

Ops == {"upsert", "delete"}

ASSUME DurationsAssumption == Durations \subseteq Nat \ {0}
ASSUME ConfigsAssumption   == Configs \subseteq Config
ASSUME RowsAssumption      == Rows \subseteq [Rules -> Verdicts]
ASSUME BoundsAssumption    == MaxEvents \in Nat /\ MaxRedeliveries \in Nat /\ MaxTime \in Nat

VARIABLES
    cfg,          \* the validated specification this pipeline was built from
    lateness,     \* how late the source really delivers, within what it declared
    threshold,    \* the tombstone threshold the Silver table really has
    now,          \* clock
    log,          \* the source's changes, in authoritative order (sequence_by)
    bronze,       \* the rows of Bronze, as positions in log
    stopped,      \* the change on which Bronze fails, and on every retry, or 0
    silverPos,    \* rows of Bronze the AUTO CDC flow has consumed
    quarPos,      \* rows of Bronze the quarantine stream has consumed
    quarantined,  \* changes in the quarantine table
    silver,       \* silver[k]: [seq, at], the row or tombstone AUTO CDC keeps
    applied       \* history: the changes the AUTO CDC flow has consumed

vars == <<cfg, lateness, threshold, now, log, bronze, stopped, silverPos, quarPos,
          quarantined, silver, applied>>

pipeline == <<cfg, lateness, threshold>>

DeletesArePhysical == PassesDeletes(cfg)

(* The declared policy behind a physical delete. *)
DeletePolicyDeclared == DeletesArePhysical => cfg.strategy = "cdc_delete"

NoRow == [seq |-> 0, at |-> 0]

IsTombstone(k) == /\ DeletesArePhysical
                  /\ silver[k].seq # 0
                  /\ log[silver[k].seq].op = "delete"

Visible(k) == silver[k].seq # 0 /\ ~ IsTombstone(k)

Unread == {bronze[i] : i \in (silverPos + 1)..Len(bronze)}

(* Changes that must still reach Silver; a stream that has stopped brings  *)
(* nothing more.                                                           *)
Pending == Unread \cup {n \in DOMAIN log : /\ stopped = 0
                                           /\ Retained(Rules, log[n].row)
                                           /\ n \notin applied}

Delivered == {bronze[i] : i \in DOMAIN bronze}

Init ==
    /\ cfg \in {c \in Configs : Admits(c)}
    /\ lateness \in {d \in Durations : cfg.max_delay # Unset => d <= cfg.max_delay}
    /\ threshold \in {d \in Durations :
                        (cfg.pattern = "P10" /\ cfg.retention # Unset)
                            => d = cfg.retention}
    /\ now = 0
    /\ log = << >>
    /\ bronze = << >>
    /\ stopped = 0
    /\ silverPos = 0
    /\ quarPos = 0
    /\ quarantined = {}
    /\ silver = [k \in Keys |-> NoRow]
    /\ applied = {}

(* The source commits a change. *)
Commit(k, op, row) ==
    /\ Len(log) < MaxEvents
    /\ log' = Append(log, [key |-> k, op |-> op, row |-> row, born |-> now])
    /\ UNCHANGED <<pipeline, now, bronze, stopped, silverPos, quarPos, quarantined,
                   silver, applied>>

(* The adapter delivers, or redelivers, a change no later than the source  *)
(* promised.  The Bronze stream appends it unchanged, unless the row       *)
(* violates a FAIL expectation: then the update fails, and so does every   *)
(* retry of it.                                                            *)
Deliver(n) ==
    /\ stopped = 0
    /\ n \in DOMAIN log
    /\ now <= log[n].born + lateness
    /\ n \notin Delivered \/ Len(bronze) < Cardinality(Delivered) + MaxRedeliveries
    /\ \/ /\ MayPass(Rules, log[n].row)
          /\ bronze' = Append(bronze, n)
          /\ UNCHANGED stopped
       \/ /\ MayStop(Rules, log[n].row)
          /\ stopped' = n
          /\ UNCHANGED bronze
    /\ UNCHANGED <<pipeline, now, log, silverPos, quarPos, quarantined,
                   silver, applied>>

DeliverFirst(n) == Deliver(n) /\ n \notin Delivered

(* Faulty flows, for the mutation runs: one resolves changes in arrival    *)
(* order, one loses count of what it has consumed.                         *)
ApplyInArrivalOrder ==
    /\ silverPos < Len(bronze)
    /\ silverPos' = silverPos + 1
    /\ LET n == bronze[silverPos + 1]
           k == log[n].key
       IN  /\ Retained(Rules, log[n].row)
           /\ applied' = applied \cup {n}
           /\ silver' = [silver EXCEPT ![k] = [seq |-> n, at |-> now]]
    /\ UNCHANGED <<pipeline, now, log, bronze, stopped, quarPos, quarantined>>

ApplyAndSkip ==
    /\ silverPos < Len(bronze)
    /\ silverPos' = silverPos + 2
    /\ UNCHANGED <<pipeline, now, log, bronze, stopped, quarPos, quarantined, silver,
                   applied>>

(* The AUTO CDC flow takes the next row of the valid stream: the row wins  *)
(* its key when it follows, in sequence_by order, what Silver keeps.       *)
ApplyNext ==
    /\ silverPos < Len(bronze)
    /\ silverPos' = silverPos + 1
    /\ LET n == bronze[silverPos + 1]
           k == log[n].key
       IN  /\ Retained(Rules, log[n].row)
           /\ applied' = applied \cup {n}
           /\ silver' = IF n > silver[k].seq
                        THEN [silver EXCEPT ![k] = [seq |-> n, at |-> now]]
                        ELSE silver
    /\ UNCHANGED <<pipeline, now, log, bronze, stopped, quarPos, quarantined>>

(* A filter that fails the update, which is then retried (faulty). *)
HaltOnInvalid ==
    /\ silverPos < Len(bronze)
    /\ ~ Retained(Rules, log[bronze[silverPos + 1]].row)
    /\ UNCHANGED vars

(* The filter of the valid stream drops the next row. *)
DropNext ==
    /\ silverPos < Len(bronze)
    /\ ~ Retained(Rules, log[bronze[silverPos + 1]].row)
    /\ silverPos' = silverPos + 1
    /\ UNCHANGED <<pipeline, now, log, bronze, stopped, quarPos, quarantined, silver,
                   applied>>

(* The quarantine stream, registered only when there are quarantine rules, *)
(* takes its next row.                                                     *)
QuarantineNext ==
    /\ rules_for_action(Rules, "quarantine") # {}
    /\ quarPos < Len(bronze)
    /\ quarPos' = quarPos + 1
    /\ LET n == bronze[quarPos + 1]
       IN  quarantined' = IF Quarantined(Rules, log[n].row)
                          THEN quarantined \cup {n} ELSE quarantined
    /\ UNCHANGED <<pipeline, now, log, bronze, stopped, silverPos, silver, applied>>

(* AUTO CDC forgets a tombstone that is old enough. *)
Collect(k) ==
    /\ IsTombstone(k)
    /\ now >= silver[k].at + threshold
    /\ silver' = [silver EXCEPT ![k] = NoRow]
    /\ UNCHANGED <<pipeline, now, log, bronze, stopped, silverPos, quarPos,
                   quarantined, applied>>

(* Time passes.  The declared maximum delay is a promise about the whole   *)
(* way from the source to Silver: no change is still pending when its      *)
(* delay has run out.                                                      *)
Tick ==
    /\ now < MaxTime
    /\ \A n \in Pending : now < log[n].born + lateness
    /\ now' = now + 1
    /\ UNCHANGED <<pipeline, log, bronze, stopped, silverPos, quarPos, quarantined,
                   silver, applied>>

Next ==
    \/ \E k \in Keys, op \in Ops, row \in Rows : Commit(k, op, row)
    \/ \E n \in 1..MaxEvents : Deliver(n)
    \/ ApplyNext
    \/ DropNext
    \/ QuarantineNext
    \/ \E k \in Keys : Collect(k)
    \/ Tick

Spec == Init /\ [][Next]_vars

(* A pipeline that is triggered again and again, or runs continuously,     *)
(* consumes what is in Bronze; the adapter delivers every change once.     *)
Fairness == /\ WF_vars(ApplyNext)
            /\ WF_vars(DropNext)
            /\ WF_vars(QuarantineNext)
            /\ \A n \in 1..MaxEvents : WF_vars(DeliverFirst(n))

FairSpec == Spec /\ Fairness

-----------------------------------------------------------------------------
(***************************************************************************)
(* Properties                                                              *)
(***************************************************************************)

(* Every variable has its type. *)
TypeOK ==
    /\ cfg \in Configs
    /\ lateness \in Durations
    /\ threshold \in Durations
    /\ now \in Nat
    /\ log \in Seq([key : Keys, op : Ops, row : Rows, born : Nat])
    /\ bronze \in Seq(Nat)
    /\ stopped \in 0..Len(log)
    /\ silverPos \in 0..Len(bronze)
    /\ quarPos \in 0..Len(bronze)
    /\ quarantined \subseteq DOMAIN log
    /\ silver \in [Keys -> [seq : 0..Len(log), at : Nat]]
    /\ applied \subseteq DOMAIN log

(* n is the newest change of k in S. *)
Winner(S, k, n) == /\ n \in S
                   /\ log[n].key = k
                   /\ \A m \in S : log[m].key = k => m <= n

(* Silver shows, for every key, the newest change it has consumed, and     *)
(* nothing when that is a physical delete: late, duplicated and reordered  *)
(* deliveries never resurrect or overwrite newer state.                    *)
ShowsLatest ==
    \A k \in Keys :
        IF Visible(k)
        THEN Winner(applied, k, silver[k].seq)
        ELSE \A n \in applied : Winner(applied, k, n) =>
                 (DeletesArePhysical /\ log[n].op = "delete")

(* Under a declared delete policy (the contract of register_p10 for        *)
(* cdc_delete, or no physical deletes at all) Silver shows the latest      *)
(* state in spite of tombstone collection.                                 *)
LatestStateShown == DeletePolicyDeclared => ShowsLatest

(***************************************************************************)
(* The inductive strengthening of LatestStateShown, in named parts.        *)
(***************************************************************************)
BronzeFromLog == \A i \in 1..Len(bronze) : bronze[i] \in DOMAIN log

(* What a rejected specification would lack. *)
TombstonesOutliveDelay ==
    (DeletesArePhysical /\ cfg.strategy = "cdc_delete") => lateness < threshold

BornInOrder == /\ \A n \in DOMAIN log : log[n].born <= now
               /\ \A m, n \in DOMAIN log : m <= n => log[m].born <= log[n].born

UnreadIsFresh == \A i \in (silverPos + 1)..Len(bronze) :
                     now <= log[bronze[i]].born + lateness

RowIsWinner ==
    \A k \in Keys : silver[k].seq # 0 =>
        /\ Winner(applied, k, silver[k].seq)
        /\ log[silver[k].seq].born <= silver[k].at

(* Silver keeps nothing for a key only when all the key's changes are too  *)
(* old to be delivered again and the newest one was a physical delete.     *)
ForgottenIsOld ==
    \A k \in Keys : silver[k].seq = 0 =>
        \A n \in applied : log[n].key = k => log[n].born + lateness < now

ForgottenIsDeleted ==
    \A k \in Keys : silver[k].seq = 0 =>
        \A n \in applied : Winner(applied, k, n) =>
            (DeletesArePhysical /\ log[n].op = "delete")

LatestStateInv ==
    /\ BronzeFromLog
    /\ TombstonesOutliveDelay
    /\ BornInOrder
    /\ UnreadIsFresh
    /\ DeletePolicyDeclared => RowIsWinner /\ ForgottenIsOld /\ ForgottenIsDeleted

(* The same for every specification the runtime contract admits: what      *)
(* docs/architecture/runtime-boundary.md says of tombstone retention.      *)
LateRecordsNeverResurrect == ShowsLatest

(* A P07 observation never removes a row from Silver: a soft-deleted row   *)
(* remains part of the current state, and a key that Silver shows is shown *)
(* from then on.                                                           *)
SoftDeletedRowsRemain ==
    [][cfg.pattern = "P07" => \A k \in Keys : Visible(k) => Visible(k)']_vars

(* The two streams, each with its own position in Bronze, separate the     *)
(* rows: no change is both in quarantine and in Silver, and a change that  *)
(* both streams have passed and whose rules all gave a two-valued verdict  *)
(* is in one of them.                                                      *)
RowsSeparated ==
    /\ quarantined \cap applied = {}
    /\ \A i \in 1..Len(bronze) :
          (i <= silverPos /\ i <= quarPos /\ Decided(Rules, log[bronze[i]].row))
              => bronze[i] \in quarantined \cup applied

(* The same without the proviso: a row that Bronze preserved ends in       *)
(* Silver or in quarantine once both streams have passed it.               *)
NoRowLost ==
    \A i \in 1..Len(bronze) :
        (i <= silverPos /\ i <= quarPos) => bronze[i] \in quarantined \cup applied

(* The changes that a stopped stream has cut off: those not in Bronze when *)
(* it met a row that does not satisfy a FAIL rule.                         *)
CutOff == {n \in DOMAIN log : /\ n \notin Delivered
                              /\ stopped # 0 /\ MayStop(Rules, log[stopped].row)}

(* Every change that satisfies the quarantine rules reaches Silver, unless *)
(* a row that does not satisfy a FAIL rule cuts it off; what Bronze holds  *)
(* by then still arrives, and quarantined or repeated rows stop nothing.   *)
(* By ShowsLatest Silver then converges to the source.                     *)
EveryValidChangeApplied ==
    \A n \in 1..MaxEvents :
        (n \in DOMAIN log /\ Retained(Rules, log[n].row)) ~> (n \in applied \cup CutOff)

(* Silver implements the abstract latest-state table: only the consumption *)
(* of a change is visible, whatever the delivery order, the clock and the  *)
(* garbage collection do.                                                  *)
AsChange(n) == [seq |-> n, key |-> log[n].key, op |-> log[n].op]

Latest == INSTANCE LatestState WITH
              MaxSeq <- MaxEvents,
              hard   <- DeletesArePhysical,
              seen   <- {AsChange(n) : n \in applied},
              view   <- [k \in Keys |-> IF Visible(k)
                                        THEN {AsChange(silver[k].seq)}
                                        ELSE {}]

ImplementsLatestState == Latest!Spec
=============================================================================
