-------------------------- MODULE CanonicalEvents --------------------------
(***************************************************************************)
(* The running dataflow that register_p12 declares                         *)
(* (src/edp_framework/runtime/builtin.py): domain events are appended to   *)
(* Bronze, and canonical_events reads Bronze in micro-batches, filters the *)
(* valid events, and drops late and repeated ones by an event-time         *)
(* watermark.  (The quarantine table is the one of CdcFlow.)               *)
(*                                                                         *)
(* The source and Spark are outside the framework and are modelled from    *)
(* how it uses them: the same event may be delivered again, with an event  *)
(* time at most Spread away; withWatermark lets the watermark follow the   *)
(* greatest event time of the rows it is given, and moves it after the     *)
(* batch; dropDuplicatesWithinWatermark drops rows at or below the         *)
(* watermark and remembers a key until the watermark reaches the event     *)
(* time of its first row plus the delay; a batch is processed exactly once.*)
(***************************************************************************)
EXTENDS Integers, Sequences, FiniteSets, Quality

CONSTANTS
    Ids,            \* identities of the events (event_identity_columns)
    Times,          \* event times (effective_time_column)
    Rules,          \* the quality rules of the dataset
    Rows,           \* row payloads: functions from Rules to Verdicts
    Delay,          \* dedup_watermark
    Spread,         \* how far the event times of one event lie apart
    MaxDeliveries   \* bound: rows of the source

ASSUME TimesAssumption == Times \subseteq Nat \ {0}
ASSUME DelayAssumption == Delay \in Nat /\ Spread \in Nat
ASSUME RowsAssumption  == Rows \subseteq [Rules -> Verdicts]
ASSUME BoundAssumption == MaxDeliveries \in Nat

VARIABLES
    source,     \* the rows of the source relation
    bronze,     \* how many of them are in Bronze
    stopped,    \* the end of the batch that a FAIL expectation refused, or 0
    read,       \* how many rows of Bronze canonical_events has consumed
    watermark,
    seen,       \* the deduplication state: keys with the time they expire at
    silver      \* the rows, as positions in source, that Silver received

vars == <<source, bronze, stopped, read, watermark, seen, silver>>

Delivery == [id : Ids, time : Times, row : Rows]

(* Faulty: the key that dropDuplicates would need.                         *)
identity_and_time(p) == <<source[p].id, source[p].time>>

event_identity(p) == source[p].id

event_time(p) == source[p].time

(* The rows that pass frame.filter(valid).                                 *)
Valid(batch) == {p \in batch : Retained(Rules, source[p].row)}

(* Faulty: the watermark stands before the filter.                         *)
Unfiltered(batch) == batch

(* The rows that withWatermark is given.                                   *)
Watermarked(batch) == Valid(batch)

Init ==
    /\ source = << >>
    /\ bronze = 0
    /\ stopped = 0
    /\ read = 0
    /\ watermark = 0
    /\ seen = {}
    /\ silver = {}

(* An event is delivered, or delivered again.                              *)
Deliver(event) ==
    /\ Len(source) < MaxDeliveries
    /\ \A p \in DOMAIN source : source[p].id = event.id =>
          /\ event.time <= source[p].time + Spread
          /\ source[p].time <= event.time + Spread
    /\ source' = Append(source, event)
    /\ UNCHANGED <<bronze, stopped, read, watermark, seen, silver>>

-----------------------------------------------------------------------------
(* The Bronze stream, decorated with the expectations.                     *)

(* Faulty: a WARN rule stops the stream.                                   *)
WarnAndFailRules == rules_for_action(Rules, "fail") \cup rules_for_action(Rules, "warn")

(* The rules that decorate_expectations passes to expect_or_fail.          *)
FailRules == rules_for_action(Rules, "fail")

(* A batch with a violation is not stored, and the stream stops there.     *)
(* Whether a NULL verdict is a violation is left open.                     *)
Ingest(last) ==
    /\ last \in (bronze + 1)..Len(source) /\ stopped = 0
    /\ \/ /\ \A p \in (bronze + 1)..last : \A r \in FailRules : source[p].row[r] # "false"
          /\ bronze' = last
          /\ UNCHANGED stopped
       \/ /\ \E p \in (bronze + 1)..last : \E r \in FailRules : source[p].row[r] # "true"
          /\ stopped' = last
          /\ UNCHANGED bronze
    /\ UNCHANGED <<source, read, watermark, seen, silver>>

(* A new update retries the batch that failed, and it fails again.         *)

-----------------------------------------------------------------------------
(* canonical_events                                                        *)

(* The watermark follows the greatest of these event times, and never      *)
(* falls.                                                                  *)
AdvanceWatermark(times) ==
    /\ watermark' \in {watermark} \cup {t - Delay : t \in times}
    /\ watermark' >= watermark
    /\ \A t \in times : watermark' >= t - Delay

(* Of the rows with one new key, any one may come first.                   *)
ReadBatch(last) ==
    /\ last \in (read + 1)..bronze
    /\ read' = last
    /\ LET batch == (read + 1)..last
           fresh == {p \in Valid(batch) :
                        /\ event_time(p) > watermark
                        /\ \A entry \in seen : entry.key # event_identity(p)}
       IN  /\ \E first \in SUBSET fresh :
                 /\ \A p \in fresh : \E q \in first : event_identity(q) = event_identity(p)
                 /\ \A p, q \in first : event_identity(p) = event_identity(q) => p = q
                 /\ silver' = silver \cup first
                 /\ seen' = seen \cup {[key |-> event_identity(p),
                                        expires |-> event_time(p) + Delay] : p \in first}
           /\ AdvanceWatermark({event_time(p) : p \in Watermarked(batch)})
    /\ UNCHANGED <<source, bronze, stopped>>

Evict(entry) ==
    /\ entry \in seen /\ entry.expires <= watermark
    /\ seen' = seen \ {entry}
    /\ UNCHANGED <<source, bronze, stopped, read, watermark, silver>>

Next == \/ \E event \in Delivery : Deliver(event)
        \/ \E last \in 1..MaxDeliveries : Ingest(last) \/ ReadBatch(last)
        \/ \E entry \in seen : Evict(entry)

(* A registered flow with new rows is run in the end.                      *)
Fairness == /\ WF_vars(\E last \in 1..MaxDeliveries : Ingest(last))
            /\ WF_vars(\E last \in 1..MaxDeliveries : ReadBatch(last))

Spec == Init /\ [][Next]_vars /\ Fairness

-----------------------------------------------------------------------------
(* Type invariant.                                                         *)
TypeOK ==
    /\ source \in Seq(Delivery)
    /\ bronze \in 0..Len(source)
    /\ stopped \in 0..Len(source)
    /\ read \in 0..bronze
    /\ watermark \in Nat
    /\ seen \subseteq [key : Ids, expires : Nat]
    /\ silver \subseteq 1..read

(* An event reaches Silver at most once, however late it is delivered      *)
(* again and whatever has left the deduplication state, as long as its     *)
(* event times lie within the watermark (register_p12                      *)
(* canonical_events).                                                      *)
AtMostOnce ==
    Spread <= Delay =>
        \A p, q \in silver : source[p].id = source[q].id => p = q

(* The price: a valid event is missing in Silver only if a valid event     *)
(* delivered before it was ahead of it by the watermark.  An event that    *)
(* fails a quarantine rule displaces nothing, however far in the future    *)
(* it claims to be (register_p12 filters before withWatermark).            *)
LostOnlyWhenLate ==
    \A p \in Valid(1..read) :
        \/ \E q \in silver : source[q].id = source[p].id
        \/ \E q \in Valid(1..(p - 1)) : source[q].time >= source[p].time + Delay

(* Every row is consumed in the end, whatever quarantine and WARN rules    *)
(* say of it and of the rows before it, unless the source has delivered a  *)
(* row that does not satisfy a FAIL rule (quality/expectations.py          *)
(* decorate_expectations: only such a row stops the stream).               *)
EveryRowConsumed ==
    \A p \in 1..MaxDeliveries :
        (Len(source) >= p) ~>
            (read >= p \/ \E q \in DOMAIN source : \E r \in Rules :
                              r.action = "fail" /\ source[q].row[r] # "true")
=============================================================================
