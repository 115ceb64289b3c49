----------------------- MODULE CanonicalEventsProofs -----------------------
(***************************************************************************)
(* Theorems about the canonical events, for all events, rules, rows and    *)
(* watermark delays.                                                       *)
(***************************************************************************)
EXTENDS CanonicalEvents, SequenceTheorems, TLAPS

USE DEF vars

-----------------------------------------------------------------------------
(* The inductive invariant.                                                *)

TimesClose == \A p, q \in DOMAIN source :
    source[p].id = source[q].id => source[p].time <= source[q].time + Spread

(* What Silver has is remembered until the watermark shuts it out.         *)
Remembered == \A p \in silver :
    \/ \E entry \in seen : /\ entry.key = source[p].id
                           /\ entry.expires = source[p].time + Delay
    \/ source[p].time + Delay <= watermark

SeenIsEmitted == \A entry \in seen : \E p \in silver : source[p].id = entry.key

(* The watermark is that of a valid event that was consumed.               *)
WatermarkIsEvent == watermark = 0 \/ \E q \in Valid(1..read) : source[q].time - Delay = watermark

IInv == /\ TypeOK /\ TimesClose /\ Remembered /\ SeenIsEmitted /\ WatermarkIsEvent
        /\ AtMostOnce /\ LostOnlyWhenLate

LEMMA TypeFacts ==
    ASSUME IInv
    PROVE  /\ source \in Seq(Delivery) /\ Len(source) \in Nat /\ DOMAIN source = 1..Len(source)
           /\ \A p \in 1..Len(source) : /\ source[p].id \in Ids /\ source[p].time \in Times
                                        /\ source[p].time \in Nat /\ source[p].time > 0
           /\ bronze \in Nat /\ read \in Nat /\ read <= bronze /\ bronze <= Len(source)
           /\ watermark \in Nat /\ silver \subseteq 1..read /\ stopped \in Nat
<1>1. source \in Seq(Delivery) /\ Len(source) \in Nat /\ DOMAIN source = 1..Len(source)
  BY DEF IInv, TypeOK
<1>2. \A p \in 1..Len(source) : source[p] \in Delivery
  BY <1>1
<1>3. \A p \in 1..Len(source) : /\ source[p].id \in Ids /\ source[p].time \in Times
                                /\ source[p].time \in Nat /\ source[p].time > 0
  <2> SUFFICES ASSUME NEW p \in 1..Len(source)
               PROVE  /\ source[p].id \in Ids /\ source[p].time \in Times
                      /\ source[p].time \in Nat /\ source[p].time > 0
    OBVIOUS
  <2>1. source[p] \in Delivery
    BY <1>2
  <2>2. source[p].id \in Ids /\ source[p].time \in Times
    BY <2>1 DEF Delivery
  <2>3. \A time \in Times : time \in Nat /\ time > 0
    BY TimesAssumption
  <2> QED BY <2>2, <2>3
<1> QED BY <1>1, <1>3 DEF IInv, TypeOK

LEMMA InitInvariant == Init => IInv
<1> SUFFICES ASSUME Init PROVE IInv
  OBVIOUS
<1>1. TypeOK
  BY DEF Init, TypeOK
<1>2. TimesClose /\ Remembered /\ SeenIsEmitted /\ WatermarkIsEvent /\ AtMostOnce
  BY DEF Init, TimesClose, Remembered, SeenIsEmitted, WatermarkIsEvent, AtMostOnce
<1>3. LostOnlyWhenLate
  BY DEF Init, LostOnlyWhenLate, Valid
<1> QED BY <1>1, <1>2, <1>3 DEF IInv

(* A delivery changes no row that is already there.                        *)
LEMMA DeliverInvariant ==
    ASSUME IInv, NEW event \in Delivery, Deliver(event)
    PROVE  IInv'
<1> USE DEF IInv
<1>0. /\ source' = Append(source, event) /\ UNCHANGED <<bronze, stopped, read, watermark, seen, silver>>
      /\ \A p \in DOMAIN source : source[p].id = event.id =>
            /\ event.time <= source[p].time + Spread
            /\ source[p].time <= event.time + Spread
  BY DEF Deliver
<1>1. /\ source' \in Seq(Delivery) /\ Len(source') = Len(source) + 1
      /\ DOMAIN source' = 1..(Len(source) + 1)
      /\ source'[Len(source) + 1] = event
      /\ \A p \in 1..Len(source) : source'[p] = source[p]
  BY <1>0, TypeFacts
<1>2. TypeOK'
  <2>1. /\ bronze \in 0..(Len(source) + 1) /\ stopped \in 0..(Len(source) + 1)
    BY TypeFacts DEF TypeOK
  <2> QED BY <1>0, <1>1, <2>1 DEF TypeOK
<1>3. TimesClose'
  <2> SUFFICES ASSUME NEW p \in 1..(Len(source) + 1), NEW q \in 1..(Len(source) + 1),
                      source'[p].id = source'[q].id
               PROVE  source'[p].time <= source'[q].time + Spread
    BY <1>1 DEF TimesClose
  <2>0. event.time \in Nat
    BY TimesAssumption DEF Delivery
  <2>1. CASE p \in 1..Len(source) /\ q \in 1..Len(source)
    BY <1>1, <2>1, TypeFacts DEF TimesClose
  <2>2. CASE p = Len(source) + 1 /\ q = Len(source) + 1
    BY <1>1, <2>0, <2>2, DelayAssumption
  <2>3. CASE p \in 1..Len(source) /\ q = Len(source) + 1
    BY <1>0, <1>1, <2>3, TypeFacts
  <2>4. CASE p = Len(source) + 1 /\ q \in 1..Len(source)
    BY <1>0, <1>1, <2>4, TypeFacts
  <2> QED BY <2>1, <2>2, <2>3, <2>4, TypeFacts
<1>4. \A p \in 1..bronze : source'[p] = source[p]
  BY <1>1, TypeFacts
<1>5. \A p \in 1..read : source'[p] = source[p]
  BY <1>1, TypeFacts
<1>6. Remembered' /\ SeenIsEmitted' /\ AtMostOnce'
  <2>1. \A p \in silver : source'[p] = source[p]
    BY <1>5, TypeFacts
  <2>2. Remembered'
    BY <1>0, <2>1 DEF Remembered
  <2>3. SeenIsEmitted'
    BY <1>0, <2>1 DEF SeenIsEmitted
  <2>4. AtMostOnce'
    <3> SUFFICES ASSUME Spread <= Delay, NEW p \in silver, NEW q \in silver,
                        source'[p].id = source'[q].id
                 PROVE  p = q
      BY <1>0, Zenon DEF AtMostOnce
    <3>1. source[p].id = source[q].id
      BY <2>1
    <3> QED BY <3>1 DEF AtMostOnce
  <2> QED BY <2>2, <2>3, <2>4
<1>7. \A n \in 0..read : Valid(1..n)' = Valid(1..n)
  BY <1>5, TypeFacts DEF Valid
<1>8. WatermarkIsEvent'
  <2>1. Valid(1..read)' = Valid(1..read) /\ Valid(1..read) \subseteq 1..read
    BY <1>0, <1>7, TypeFacts DEF Valid
  <2> QED BY <1>0, <1>5, <2>1 DEF WatermarkIsEvent
<1>9. LostOnlyWhenLate'
  <2> SUFFICES ASSUME NEW p \in Valid(1..read)'
               PROVE  \/ \E q \in silver : source'[q].id = source'[p].id
                      \/ \E q \in Valid(1..(p - 1))' : source'[q].time >= source'[p].time + Delay
    BY <1>0 DEF LostOnlyWhenLate
  <2>1. p \in Valid(1..read) /\ p \in 1..read
    BY <1>0, <1>7, TypeFacts DEF Valid
  <2>2. Valid(1..(p - 1))' = Valid(1..(p - 1)) /\ Valid(1..(p - 1)) \subseteq 1..read
    <3>1. p - 1 \in 0..read
      BY <2>1, TypeFacts
    <3>2. 1..(p - 1) \subseteq 1..read
      BY <2>1, TypeFacts
    <3>3. Valid(1..(p - 1)) \subseteq 1..(p - 1)
      BY DEF Valid
    <3>4. Valid(1..(p - 1))' = Valid(1..(p - 1))
      BY <1>7, <3>1
    <3> QED BY <3>2, <3>3, <3>4
  <2> QED BY <1>5, <2>1, <2>2, TypeFacts DEF LostOnlyWhenLate
<1> QED BY <1>2, <1>3, <1>6, <1>8, <1>9

LEMMA IngestInvariant ==
    ASSUME IInv, NEW last, Ingest(last)
    PROVE  IInv'
<1> USE DEF IInv
<1>0. /\ last \in (bronze + 1)..Len(source) /\ stopped = 0
      /\ UNCHANGED <<source, read, watermark, seen, silver>>
  BY DEF Ingest
<1>1. TimesClose' /\ Remembered' /\ SeenIsEmitted' /\ WatermarkIsEvent' /\ AtMostOnce'
  BY <1>0 DEF TimesClose, Remembered, SeenIsEmitted, WatermarkIsEvent, AtMostOnce, Valid
<1>2. LostOnlyWhenLate'
  BY <1>0 DEF LostOnlyWhenLate, Valid
<1>3. CASE /\ \A p \in (bronze + 1)..last : \A r \in FailRules : source[p].row[r] # "false"
           /\ bronze' = last /\ UNCHANGED stopped
  <2>1. TypeOK'
    BY <1>0, <1>3, TypeFacts DEF TypeOK
  <2> QED BY <1>1, <1>2, <2>1
<1>4. CASE /\ \E p \in (bronze + 1)..last : \E r \in FailRules : source[p].row[r] # "true"
           /\ stopped' = last /\ UNCHANGED bronze
  <2>1. TypeOK'
    BY <1>0, <1>4, TypeFacts DEF TypeOK
  <2> QED BY <1>1, <1>2, <2>1
<1> QED BY <1>3, <1>4 DEF Ingest

LEMMA EvictInvariant ==
    ASSUME IInv, NEW entry \in seen, Evict(entry)
    PROVE  IInv'
<1> USE DEF IInv
<1>0. /\ entry.expires <= watermark /\ seen' = seen \ {entry}
      /\ UNCHANGED <<source, bronze, stopped, read, watermark, silver>>
  BY DEF Evict
<1>1. TypeOK'
  BY <1>0 DEF TypeOK
<1>2. TimesClose' /\ WatermarkIsEvent' /\ AtMostOnce' /\ SeenIsEmitted'
  BY <1>0 DEF TimesClose, WatermarkIsEvent, AtMostOnce, SeenIsEmitted, Valid
<1>3. LostOnlyWhenLate'
  BY <1>0 DEF LostOnlyWhenLate, Valid
<1>4. Remembered'
  BY <1>0 DEF Remembered
<1> QED BY <1>1, <1>2, <1>3, <1>4

LEMMA ReadInvariant ==
    ASSUME IInv, NEW last, ReadBatch(last)
    PROVE  IInv'
<1> USE DEF IInv
<1> DEFINE batch == (read + 1)..last
           fresh == {p \in Valid(batch) :
                        /\ event_time(p) > watermark
                        /\ \A entry \in seen : entry.key # event_identity(p)}
           times == {event_time(p) : p \in Watermarked(batch)}
<1>0. /\ last \in (read + 1)..bronze /\ read' = last /\ UNCHANGED <<source, bronze, stopped>>
      /\ AdvanceWatermark(times)
  BY DEF ReadBatch
<1>1. PICK first \in SUBSET fresh :
         /\ \A p \in fresh : \E q \in first : event_identity(q) = event_identity(p)
         /\ \A p, q \in first : event_identity(p) = event_identity(q) => p = q
         /\ silver' = silver \cup first
         /\ seen' = seen \cup {[key |-> event_identity(p),
                                expires |-> event_time(p) + Delay] : p \in first}
  BY DEF ReadBatch
<1>2. \A p \in fresh : /\ p \in (read + 1)..last /\ p \in Valid(batch)
                       /\ source[p].time > watermark
                       /\ \A entry \in seen : entry.key # source[p].id
  BY DEF Valid, event_time, event_identity
<1>3. \A p \in batch : p \in 1..Len(source) /\ p \in Nat /\ p > read
  BY <1>0, TypeFacts
<1>4. \A p \in Valid(batch) : /\ event_time(p) = source[p].time /\ event_time(p) \in times
                              /\ source[p].time \in Nat
  BY <1>3, TypeFacts DEF Valid, Watermarked, event_time
<1>5. /\ watermark' \in Nat /\ watermark' >= watermark
      /\ \A p \in Valid(batch) : watermark' >= source[p].time - Delay
      /\ watermark' = watermark \/ \E p \in Valid(batch) : watermark' = source[p].time - Delay
  <2>1. /\ watermark' \in {watermark} \cup {t - Delay : t \in times}
        /\ watermark' >= watermark
        /\ \A t \in times : watermark' >= t - Delay
    BY <1>0 DEF AdvanceWatermark
  <2>2. \A t \in times : \E p \in Valid(batch) : t = source[p].time
    BY DEF Watermarked, event_time
  <2> HIDE DEF times, batch
  <2>3. watermark' = watermark \/ \E p \in Valid(batch) : watermark' = source[p].time - Delay
    BY <2>1, <2>2
  <2>4. watermark' \in Int
    BY <1>4, <2>3, TypeFacts, DelayAssumption
  <2>5. \A p \in Valid(batch) : watermark' >= source[p].time - Delay
    BY <1>4, <2>1
  <2>6. watermark' \in Nat
    BY <2>1, <2>4, TypeFacts
  <2> QED BY <2>1, <2>3, <2>5, <2>6
<1>6. \A p \in first : /\ p \in batch /\ p \in Valid(batch) /\ p \in 1..Len(source)
                       /\ p > read /\ p \in Nat
                       /\ source[p].time > watermark
                       /\ \A entry \in seen : entry.key # source[p].id
  BY <1>2, <1>3
<1> HIDE DEF batch, fresh, times
<1>7. TypeOK'
  <2>1. \A p \in first : [key |-> event_identity(p), expires |-> event_time(p) + Delay]
                            \in [key : Ids, expires : Nat]
    BY <1>4, <1>6, TypeFacts, DelayAssumption DEF event_identity
  <2>2. seen' \subseteq [key : Ids, expires : Nat]
    BY <1>1, <2>1 DEF TypeOK
  <2>3. first \subseteq 1..last
    <3>1. \A p \in batch : p \in 1..last
      BY TypeFacts DEF batch
    <3> QED BY <1>6, <3>1
  <2>4. silver' \subseteq 1..last
    <3>1. silver \subseteq 1..last
      BY <1>0, TypeFacts
    <3> QED BY <1>1, <2>3, <3>1
  <2>5. last \in 0..bronze
    BY <1>0, TypeFacts
  <2> QED BY <1>0, <1>5, <2>2, <2>4, <2>5 DEF TypeOK
<1>8. TimesClose'
  BY <1>0 DEF TimesClose
<1>9. \A p \in silver : source[p].time \in Nat
  BY TypeFacts
<1>10. Remembered'
  <2> SUFFICES ASSUME NEW p \in silver'
               PROVE  \/ \E entry \in seen' : /\ entry.key = source[p].id
                                              /\ entry.expires = source[p].time + Delay
                      \/ source[p].time + Delay <= watermark'
    BY <1>0 DEF Remembered
  <2>1. CASE p \in silver
    <3>1. CASE source[p].time + Delay <= watermark
      BY <1>5, <1>9, <2>1, <3>1, TypeFacts, DelayAssumption
    <3>2. CASE \E entry \in seen : entry.key = source[p].id /\ entry.expires = source[p].time + Delay
      BY <1>1, <3>2
    <3> QED BY <2>1, <3>1, <3>2 DEF Remembered
  <2>2. CASE p \in first
    <3>1. [key |-> event_identity(p), expires |-> event_time(p) + Delay] \in seen'
      BY <1>1, <2>2
    <3> QED BY <3>1 DEF event_identity, event_time
  <2> QED BY <1>1, <2>1, <2>2
<1>11. SeenIsEmitted'
  <2> SUFFICES ASSUME NEW entry \in seen'
               PROVE  \E p \in silver' : source[p].id = entry.key
    BY <1>0 DEF SeenIsEmitted
  <2>1. CASE entry \in seen
    BY <1>1, <2>1 DEF SeenIsEmitted
  <2>2. ASSUME NEW p \in first,
               entry = [key |-> event_identity(p), expires |-> event_time(p) + Delay]
        PROVE  \E q \in silver' : source[q].id = entry.key
    BY <1>1, <2>2 DEF event_identity
  <2> QED BY <1>1, <2>1, <2>2
<1>12. Valid(1..read) \subseteq Valid(1..last) /\ Valid(batch) \subseteq Valid(1..last)
  BY <1>0, TypeFacts DEF Valid, batch
<1>13. WatermarkIsEvent'
  <2>1. Valid(1..last)' = Valid(1..last)
    BY <1>0 DEF Valid
  <2>2. watermark' = 0 \/ \E q \in Valid(1..last) : source[q].time - Delay = watermark'
    BY <1>5, <1>12 DEF WatermarkIsEvent
  <2>3. Valid(1..read)' = Valid(1..last)
    BY <1>0 DEF Valid
  <2> QED BY <1>0, <2>2, <2>3 DEF WatermarkIsEvent
<1>14. AtMostOnce'
  <2> SUFFICES ASSUME Spread <= Delay, NEW p \in silver', NEW q \in silver',
                      source[p].id = source[q].id
               PROVE  p = q
    BY <1>0, Zenon DEF AtMostOnce
  (* What Silver has is no longer accepted.                                *)
  <2>1. ASSUME NEW old \in silver, NEW new \in first, source[old].id = source[new].id
        PROVE  FALSE
    <3>1. source[old].time + Delay <= watermark
      BY <1>6, <2>1 DEF Remembered
    <3>2. source[new].time <= source[old].time + Spread
      <4>1. old \in DOMAIN source /\ new \in DOMAIN source
        BY <1>6, TypeFacts
      <4> QED BY <2>1, <4>1 DEF TimesClose
    <3>3. source[new].time > watermark /\ source[new].time \in Nat /\ source[old].time \in Nat
      BY <1>4, <1>6, <1>9
    <3> QED BY <3>1, <3>2, <3>3, TypeFacts, DelayAssumption
  <2>2. CASE p \in silver /\ q \in silver
    BY <2>2 DEF AtMostOnce
  <2>3. CASE p \in first /\ q \in first
    BY <1>1, <2>3 DEF event_identity
  <2> QED BY <1>1, <2>1, <2>2, <2>3
<1>15. LostOnlyWhenLate'
  <2> SUFFICES ASSUME NEW p \in Valid(1..last)
               PROVE  \/ \E q \in silver' : source[q].id = source[p].id
                      \/ \E q \in Valid(1..(p - 1)) : source[q].time >= source[p].time + Delay
    BY <1>0 DEF LostOnlyWhenLate, Valid
  <2>0. p \in Nat /\ p \in 1..last
    BY <1>0, TypeFacts DEF Valid
  <2>1. CASE p \in 1..read
    <3>1. p \in Valid(1..read)
      BY <2>1 DEF Valid
    <3> QED BY <1>1, <3>1 DEF LostOnlyWhenLate
  <2>2. CASE p \notin 1..read
    <3>1. p \in batch /\ p \in Valid(batch) /\ p > read
      BY <2>0, <2>2, TypeFacts DEF Valid, batch
    <3>2. CASE p \in fresh
      BY <1>1, <3>2 DEF event_identity
    <3>3. CASE \E entry \in seen : entry.key = source[p].id
      BY <1>1, <3>3 DEF SeenIsEmitted
    <3>4. CASE source[p].time <= watermark
      <4>1. source[p].time > 0 /\ source[p].time \in Nat
        BY <1>3, <3>1, TypeFacts
      <4>2. PICK q \in Valid(1..read) : source[q].time - Delay = watermark
        BY <3>4, <4>1, TypeFacts DEF WatermarkIsEvent
      <4>3. q \in 1..read /\ source[q].time \in Nat
        BY <4>2, TypeFacts DEF Valid
      <4>4. source[q].time >= source[p].time + Delay
        BY <3>4, <4>1, <4>2, <4>3, TypeFacts, DelayAssumption
      <4>5. q \in 1..(p - 1)
        BY <2>0, <3>1, <4>3, TypeFacts
      <4>6. q \in Valid(1..(p - 1))
        BY <4>2, <4>5 DEF Valid
      <4> QED BY <4>4, <4>6
    <3>5. p \in fresh \/ (\E entry \in seen : entry.key = source[p].id)
            \/ ~ (source[p].time > watermark)
      BY <3>1 DEF fresh, event_identity, event_time
    <3>6. source[p].time \in Nat
      BY <1>4, <3>1
    <3> QED BY <3>2, <3>3, <3>4, <3>5, <3>6, TypeFacts
  <2> QED BY <2>1, <2>2
<1> QED BY <1>7, <1>8, <1>10, <1>11, <1>13, <1>14, <1>15

LEMMA StepInvariant == IInv /\ [Next]_vars => IInv'
<1> SUFFICES ASSUME IInv, [Next]_vars PROVE IInv'
  OBVIOUS
<1>1. CASE UNCHANGED vars
  BY <1>1 DEF IInv, TypeOK, TimesClose, Remembered, SeenIsEmitted, WatermarkIsEvent,
              AtMostOnce, LostOnlyWhenLate, Valid
<1>2. CASE Next
  BY <1>2, DeliverInvariant, IngestInvariant, ReadInvariant, EvictInvariant DEF Next
<1> QED BY <1>1, <1>2

-----------------------------------------------------------------------------
(* The theorems.                                                           *)

(* The inductive invariant: the deduplication state and the watermark      *)
(* together remember everything that Silver has.                           *)
THEOREM CanonicalInvariant == Spec => []IInv
<1>1. Init => IInv
  BY InitInvariant
<1>2. IInv /\ [Next]_vars => IInv'
  BY StepInvariant
<1> QED BY <1>1, <1>2, PTL DEF Spec

(* Type correctness of the canonical events.                               *)
THEOREM CanonicalTypeCorrect == Spec => []TypeOK
<1>1. IInv => TypeOK
  BY DEF IInv
<1> QED BY <1>1, CanonicalInvariant, PTL

(* An event reaches Silver at most once when its event times lie within    *)
(* the watermark (register_p12).                                           *)
THEOREM AtMostOnceCorrect == Spec => []AtMostOnce
<1>1. IInv => AtMostOnce
  BY DEF IInv
<1> QED BY <1>1, CanonicalInvariant, PTL

(* Only a valid event that came before can make a valid event late         *)
(* (register_p12).                                                         *)
THEOREM LostOnlyWhenLateCorrect == Spec => []LostOnlyWhenLate
<1>1. IInv => LostOnlyWhenLate
  BY DEF IInv
<1> QED BY <1>1, CanonicalInvariant, PTL

-----------------------------------------------------------------------------
(* Quality across the two flows: the expectations stand before Bronze, the *)
(* filter before Silver.                                                   *)

(* No row of Bronze violates a FAIL rule, and a stopped stream stands      *)
(* before a batch with a row that does not satisfy one.                    *)
BronzeGuarded ==
    /\ \A p \in 1..bronze : \A r \in FailRules : source[p].row[r] # "false"
    /\ stopped # 0 => \E p \in (bronze + 1)..stopped : \E r \in FailRules :
                          source[p].row[r] # "true"

SilverFiltered == \A p \in silver : Retained(Rules, source[p].row)

LEMMA GuardedStep ==
    ASSUME IInv, BronzeGuarded, SilverFiltered, [Next]_vars
    PROVE  BronzeGuarded' /\ SilverFiltered'
<1>0. /\ Len(source) \in Nat /\ bronze \in Nat /\ bronze <= Len(source)
      /\ stopped \in Nat /\ stopped <= Len(source)
      /\ silver \subseteq 1..Len(source)
  <2>1. stopped \in 0..Len(source)
    BY DEF IInv, TypeOK
  <2> QED BY <2>1, TypeFacts
<1>1. ASSUME NEW event \in Delivery, Deliver(event)
      PROVE  BronzeGuarded' /\ SilverFiltered'
  <2>1. /\ source' = Append(source, event)
        /\ UNCHANGED <<bronze, stopped, silver>>
    BY <1>1 DEF Deliver
  <2>2. \A p \in 1..Len(source) : source'[p] = source[p]
    <3>1. source \in Seq(Delivery)
      BY TypeFacts
    <3> QED BY <2>1, <3>1
  <2>3. 1..bronze \subseteq 1..Len(source) /\ (bronze + 1)..stopped \subseteq 1..Len(source)
    BY <1>0
  <2>4. BronzeGuarded'
    BY <2>1, <2>2, <2>3 DEF BronzeGuarded, FailRules
  <2>5. SilverFiltered'
    BY <1>0, <2>1, <2>2 DEF SilverFiltered
  <2> QED BY <2>4, <2>5
<1>2. ASSUME NEW last, Ingest(last) PROVE BronzeGuarded' /\ SilverFiltered'
  <2>1. /\ last \in (bronze + 1)..Len(source) /\ stopped = 0
        /\ UNCHANGED <<source, silver>>
    BY <1>2 DEF Ingest
  <2>2. SilverFiltered'
    BY <2>1 DEF SilverFiltered
  <2>3. CASE /\ \A p \in (bronze + 1)..last : \A r \in FailRules : source[p].row[r] # "false"
             /\ bronze' = last /\ UNCHANGED stopped
    <3>1. \A p \in 1..last : p \in 1..bronze \/ p \in (bronze + 1)..last
      BY <1>0, <2>1
    <3> QED BY <2>1, <2>2, <2>3, <3>1 DEF BronzeGuarded, FailRules
  <2>4. CASE /\ \E p \in (bronze + 1)..last : \E r \in FailRules : source[p].row[r] # "true"
             /\ stopped' = last /\ UNCHANGED bronze
    BY <2>1, <2>2, <2>4 DEF BronzeGuarded, FailRules
  <2> QED BY <1>2, <2>3, <2>4 DEF Ingest
<1>3. ASSUME NEW last, ReadBatch(last) PROVE BronzeGuarded' /\ SilverFiltered'
  <2>1. PICK first \in SUBSET Valid((read + 1)..last) : silver' = silver \cup first
    BY <1>3 DEF ReadBatch
  <2>2. UNCHANGED <<source, bronze, stopped>>
    BY <1>3 DEF ReadBatch
  <2>3. \A p \in first : Retained(Rules, source[p].row)
    BY <2>1 DEF Valid
  <2>4. SilverFiltered'
    BY <2>1, <2>2, <2>3 DEF SilverFiltered
  <2> QED BY <2>2, <2>4 DEF BronzeGuarded, FailRules
<1>4. ASSUME NEW entry \in seen, Evict(entry) PROVE BronzeGuarded' /\ SilverFiltered'
  BY <1>4 DEF Evict, BronzeGuarded, SilverFiltered, FailRules
<1>5. CASE UNCHANGED vars
  BY <1>5 DEF BronzeGuarded, SilverFiltered, FailRules
<1> QED BY <1>1, <1>2, <1>3, <1>4, <1>5 DEF Next

(* Whatever the batches, and whatever had been stopped: a row in Silver    *)
(* passed the quarantine filter and violates no FAIL rule (register_p12    *)
(* canonical_events, decorate_expectations).                               *)
THEOREM SilverMeetsRules ==
    Spec => [](\A p \in silver : /\ Retained(Rules, source[p].row)
                                 /\ \A r \in FailRules : source[p].row[r] # "false")
<1>1. Init => BronzeGuarded /\ SilverFiltered
  BY DEF Init, BronzeGuarded, SilverFiltered
<1>2. IInv /\ BronzeGuarded /\ SilverFiltered =>
         (\A p \in silver : /\ Retained(Rules, source[p].row)
                            /\ \A r \in FailRules : source[p].row[r] # "false")
  <2> SUFFICES ASSUME IInv, BronzeGuarded, SilverFiltered, NEW p \in silver
               PROVE  /\ Retained(Rules, source[p].row)
                      /\ \A r \in FailRules : source[p].row[r] # "false"
    OBVIOUS
  <2>1. p \in 1..bronze
    BY TypeFacts
  <2> QED BY <2>1 DEF BronzeGuarded, SilverFiltered
<1> QED BY <1>1, <1>2, GuardedStep, CanonicalInvariant, PTL DEF Spec

(* The stream stops for nothing but a row that does not satisfy a FAIL     *)
(* rule, and that row is in the batch that was refused: the premise under  *)
(* which EveryRowConsumed lets the stream stand still.                     *)
THEOREM StopsOnlyOnFailRules ==
    Spec => [](stopped # 0 => \E p \in (bronze + 1)..stopped : \E r \in FailRules :
                                 source[p].row[r] # "true")
<1>1. Init => BronzeGuarded /\ SilverFiltered
  BY DEF Init, BronzeGuarded, SilverFiltered
<1>2. BronzeGuarded => (stopped # 0 => \E p \in (bronze + 1)..stopped : \E r \in FailRules :
                                          source[p].row[r] # "true")
  BY DEF BronzeGuarded
<1> QED BY <1>1, <1>2, GuardedStep, CanonicalInvariant, PTL DEF Spec
=============================================================================
