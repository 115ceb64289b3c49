--------------------------- MODULE CdcFlowProofs ---------------------------
(***************************************************************************)
(* Machine-checked theorems about CdcFlow, for every set of keys, rules,   *)
(* rows, specifications and durations and for every value of the bounds.   *)
(***************************************************************************)
EXTENDS CdcFlow, TLAPS

USE DEF PassesDeletes

(***************************************************************************)
(* The split of a Bronze stream (Quality)                                  *)
(***************************************************************************)

(* No row passes both filters: valid_expression and invalid_expression are *)
(* never both true, whatever the rules and however many of them are NULL.  *)
THEOREM FiltersExclusive ==
    ASSUME NEW rules, NEW row \in [rules -> Verdicts]
    PROVE  ~ (Retained(rules, row) /\ Quarantined(rules, row))
<1> DEFINE qs == rules_for_action(rules, "quarantine")
<1> SUFFICES ASSUME Retained(rules, row), Quarantined(rules, row)
             PROVE  FALSE
    OBVIOUS
<1>1. qs # {} /\ valid_expression(qs, row) = "true"
    BY DEF Retained, Quarantined
<1>2. \A r \in qs : row[r] \in Verdicts /\ row[r] # "false" /\ row[r] # "null"
    <2>1. \A r \in qs : row[r] \in Verdicts
        BY DEF rules_for_action
    <2>2. "false" \notin {row[r] : r \in qs} /\ "null" \notin {row[r] : r \in qs}
        BY <1>1 DEF valid_expression, Conjunction
    <2> QED BY <2>1, <2>2
<1>3. \A r \in qs : Negation(row[r]) = "false"
    BY <1>2 DEF Verdicts, Negation
<1>4. invalid_expression(qs, row) = "false"
    BY <1>3 DEF invalid_expression, Disjunction
<1> QED BY <1>4 DEF Quarantined

(* When no rule is NULL on a row, the row passes one of the two filters.   *)
THEOREM FiltersTotalOnDecidedRows ==
    ASSUME NEW rules, NEW row \in [rules -> Verdicts], Decided(rules, row)
    PROVE  Retained(rules, row) \/ Quarantined(rules, row)
<1> DEFINE qs == rules_for_action(rules, "quarantine")
<1> SUFFICES ASSUME ~ Retained(rules, row)
             PROVE  Quarantined(rules, row)
    OBVIOUS
<1>1. qs # {} /\ valid_expression(qs, row) # "true"
    BY DEF Retained
<1>2. \A r \in qs : row[r] \in {"true", "false"}
    BY DEF Decided, Verdicts, rules_for_action
<1>3. PICK r \in qs : row[r] = "false"
    BY <1>1, <1>2 DEF valid_expression, Conjunction
<1>4. "true" \in {Negation(row[s]) : s \in qs}
    BY <1>3 DEF Negation
<1>5. invalid_expression(qs, row) = "true"
    BY <1>4 DEF invalid_expression, Disjunction
<1> QED BY <1>1, <1>5 DEF Quarantined

-----------------------------------------------------------------------------
(***************************************************************************)
(* Type correctness                                                        *)
(***************************************************************************)

(* The initial states are well typed.                                      *)
LEMMA TypeInit == Init => TypeOK
<1> SUFFICES ASSUME Init PROVE TypeOK
    OBVIOUS
<1> QED BY DEF Init, TypeOK, NoRow, pipeline

(* A step that takes a row from Bronze needs to know that it is a change   *)
(* of the log.                                                             *)
TypeInv == TypeOK /\ BronzeFromLog

LogChange == [key : Keys, op : Ops, row : Rows, born : Nat]

(* The fields of a logged change have their types.                         *)
LEMMA LogEntry ==
    ASSUME TypeOK, NEW n \in DOMAIN log
    PROVE  /\ log[n] \in LogChange
           /\ log[n].key \in Keys /\ log[n].row \in Rows /\ log[n].born \in Nat
           /\ n \in Nat /\ n > 0 /\ n <= Len(log)
<1> SUFFICES log \in Seq(LogChange) => log[n] \in LogChange /\ n \in 1..Len(log)
    BY DEF TypeOK, LogChange
<1> QED OBVIOUS

(* Bronze only grows, by changes of the log.                               *)
LEMMA BronzeGrows ==
    ASSUME TypeOK, BronzeFromLog, NEW n \in DOMAIN log, bronze' = Append(bronze, n),
           log' = log, silverPos' = silverPos, quarPos' = quarPos
    PROVE  /\ BronzeFromLog' /\ bronze' \in Seq(Nat)
           /\ silverPos' \in 0..Len(bronze') /\ quarPos' \in 0..Len(bronze')
<1>1. /\ bronze \in Seq(Nat) /\ n \in Nat
      /\ silverPos \in 0..Len(bronze) /\ quarPos \in 0..Len(bronze)
    BY LogEntry DEF TypeOK
<1>2. /\ bronze' \in Seq(Nat) /\ Len(bronze') = Len(bronze) + 1 /\ Len(bronze) \in Nat
      /\ \A i \in 1..Len(bronze') : bronze'[i] = IF i <= Len(bronze) THEN bronze[i] ELSE n
    BY <1>1
<1>3. BronzeFromLog'
    BY <1>1, <1>2 DEF BronzeFromLog
<1> QED BY <1>1, <1>2, <1>3

(* A delivery extends Bronze, or stops it.                                 *)
LEMMA DeliverTyped ==
    ASSUME TypeOK, BronzeFromLog, NEW n, Deliver(n)
    PROVE  TypeOK' /\ BronzeFromLog'
<1>1. /\ n \in DOMAIN log
      /\ stopped' = stopped \/ stopped' = n
      /\ bronze' = bronze \/ bronze' = Append(bronze, n)
      /\ UNCHANGED <<cfg, lateness, threshold, now, quarantined, silver, applied>>
      /\ log' = log /\ silverPos' = silverPos /\ quarPos' = quarPos
    BY DEF Deliver, pipeline
<1>2. /\ BronzeFromLog' /\ bronze' \in Seq(Nat)
      /\ silverPos' \in 0..Len(bronze') /\ quarPos' \in 0..Len(bronze')
    <2>1. CASE bronze' = bronze
        BY <1>1, <2>1 DEF TypeOK, BronzeFromLog
    <2>2. CASE bronze' = Append(bronze, n)
        BY <1>1, <2>2, BronzeGrows
    <2> QED BY <1>1, <2>1, <2>2
<1>3. stopped' \in 0..Len(log')
    <2>1. n \in Nat /\ n <= Len(log)
        BY <1>1, LogEntry
    <2>2. stopped \in 0..Len(log)
        BY DEF TypeOK
    <2> QED BY <1>1, <2>1, <2>2
<1> QED BY <1>1, <1>2, <1>3 DEF TypeOK

(* Every step keeps the types.                                             *)
LEMMA TypeStep == TypeInv /\ [Next]_vars => TypeInv'
<1> SUFFICES ASSUME TypeOK, BronzeFromLog, [Next]_vars
             PROVE  TypeOK' /\ BronzeFromLog'
    BY DEF TypeInv
<1> USE DEF TypeOK, BronzeFromLog
<1>0. /\ Len(bronze) \in Nat /\ Len(log) \in Nat /\ DOMAIN log = 1..Len(log)
      /\ silverPos \in Nat /\ quarPos \in Nat
    OBVIOUS
<1>1. ASSUME NEW k \in Keys, NEW op \in Ops, NEW row \in Rows, Commit(k, op, row)
      PROVE  TypeOK' /\ BronzeFromLog'
    <2> DEFINE c == [key |-> k, op |-> op, row |-> row, born |-> now]
    <2>1. log' = Append(log, c) /\ UNCHANGED <<cfg, lateness, threshold, now, bronze, stopped,
             silverPos, quarPos, quarantined, silver, applied>>
        BY <1>1 DEF Commit, pipeline
    <2>2. Len(log') = Len(log) + 1 /\ Len(log) \in Nat /\ DOMAIN log' = 1..(Len(log) + 1)
             /\ DOMAIN log = 1..Len(log)
        BY <2>1
    <2>3. log' \in Seq([key : Keys, op : Ops, row : Rows, born : Nat])
        BY <2>1
    <2>4. silver' \in [Keys -> [seq : 0..Len(log'), at : Nat]]
        BY <2>1, <2>2
    <2> QED BY <2>1, <2>2, <2>3, <2>4
<1>2. ASSUME NEW n \in 1..MaxEvents, Deliver(n)
      PROVE  TypeOK' /\ BronzeFromLog'
    BY <1>2, DeliverTyped
<1>3. CASE ApplyNext
    <2> DEFINE n == bronze[silverPos + 1]
               k == log[n].key
    <2>0. silverPos < Len(bronze) /\ silverPos + 1 \in 1..Len(bronze)
        BY <1>0, <1>3 DEF ApplyNext
    <2>1. n \in DOMAIN log /\ k \in Keys /\ n \in 0..Len(log)
        <3>1. n \in DOMAIN log
            BY <2>0
        <3> HIDE DEF n
        <3> QED BY <1>0, <3>1, LogEntry
    <2>2. silver' \in [Keys -> [seq : 0..Len(log), at : Nat]]
        <3>1. [seq |-> n, at |-> now] \in [seq : 0..Len(log), at : Nat]
            BY <2>1
        <3>2. silver' = IF n > silver[k].seq
                        THEN [silver EXCEPT ![k] = [seq |-> n, at |-> now]]
                        ELSE silver
            BY <1>3 DEF ApplyNext
        <3> QED BY <3>1, <3>2
    <2>3. applied' \subseteq DOMAIN log /\ silverPos' \in 0..Len(bronze)
        <3>1. applied' = applied \cup {n} /\ silverPos' = silverPos + 1
            BY <1>3 DEF ApplyNext
        <3> QED BY <1>0, <2>0, <2>1, <3>1
    <2>4. UNCHANGED <<cfg, lateness, threshold, now, log, bronze, stopped, quarPos, quarantined>>
        BY <1>3 DEF ApplyNext, pipeline
    <2> QED BY <2>2, <2>3, <2>4
<1>4. CASE DropNext
    <2>1. silverPos < Len(bronze) /\ silverPos' = silverPos + 1
        BY <1>4 DEF DropNext
    <2>2. UNCHANGED <<cfg, lateness, threshold, now, log, bronze, stopped, quarPos,
                      quarantined, silver, applied>>
        BY <1>4 DEF DropNext, pipeline
    <2>3. silverPos' \in 0..Len(bronze)
        BY <1>0, <2>1
    <2> QED BY <2>2, <2>3
<1>5. CASE QuarantineNext
    <2> DEFINE n == bronze[quarPos + 1]
    <2>0. /\ quarPos < Len(bronze) /\ quarPos' = quarPos + 1
          /\ quarantined' = quarantined \cup {n} \/ quarantined' = quarantined
        BY <1>5 DEF QuarantineNext
    <2>1. quarantined' \subseteq DOMAIN log /\ quarPos' \in 0..Len(bronze)
        <3>1. n \in DOMAIN log /\ quarPos' \in 0..Len(bronze)
            BY <1>0, <2>0
        <3> HIDE DEF n
        <3> QED BY <2>0, <3>1
    <2>2. UNCHANGED <<cfg, lateness, threshold, now, log, bronze, stopped, silverPos, silver, applied>>
        BY <1>5 DEF QuarantineNext, pipeline
    <2> QED BY <2>1, <2>2
<1>6. ASSUME NEW k \in Keys, Collect(k)
      PROVE  TypeOK' /\ BronzeFromLog'
    <2>1. silver' \in [Keys -> [seq : 0..Len(log), at : Nat]]
        BY <1>6 DEF Collect, NoRow
    <2>2. UNCHANGED <<cfg, lateness, threshold, now, log, bronze, stopped, silverPos,
                      quarPos, quarantined, applied>>
        BY <1>6 DEF Collect, pipeline
    <2> QED BY <2>1, <2>2
<1>7. CASE Tick
    BY <1>7 DEF Tick, pipeline
<1>8. CASE UNCHANGED vars
    BY <1>8 DEF vars
<1> QED BY <1>1, <1>2, <1>3, <1>4, <1>5, <1>6, <1>7, <1>8 DEF Next

(* Every variable keeps its type in every reachable state. *)
THEOREM TypeCorrect == Spec => []TypeOK
<1>1. Init => TypeInv
    <2>1. Init => BronzeFromLog
        BY DEF Init, BronzeFromLog
    <2> QED BY <2>1, TypeInit DEF TypeInv
<1> QED BY <1>1, TypeStep, PTL DEF Spec, TypeInv
-----------------------------------------------------------------------------
(***************************************************************************)
(* Silver shows the latest state                                           *)
(***************************************************************************)

IInv == TypeOK /\ LatestStateInv

(* An empty Silver shows the latest of nothing; the runtime contract makes *)
(* the tombstones outlive the delay.                                       *)
LEMMA LatestInit == Init => LatestStateInv
<1> SUFFICES ASSUME Init PROVE LatestStateInv
    OBVIOUS
<1>1. BronzeFromLog /\ BornInOrder /\ UnreadIsFresh
    BY DEF Init, BronzeFromLog, BornInOrder, UnreadIsFresh
<1>2. TombstonesOutliveDelay
    <2> SUFFICES ASSUME DeletesArePhysical, cfg.strategy = "cdc_delete"
                 PROVE  lateness < threshold
        BY DEF TombstonesOutliveDelay
    <2>1. cfg \in Configs /\ Admits(cfg) /\ cfg.pattern = "P10"
        BY DEF Init, DeletesArePhysical
    <2>2. cfg.max_delay \in Nat /\ cfg.retention \in Nat
        <3>1. cfg \in Config
            BY <2>1, ConfigsAssumption
        <3>2. /\ cfg.max_delay \in Durations \cup {Unset}
              /\ cfg.retention \in Durations \cup {Unset}
            BY <3>1, Zenon DEF Config
        <3>3. Durations \cup {Unset} \subseteq Nat
            BY DurationsAssumption DEF Unset
        <3> QED BY <3>2, <3>3, Zenon
    <2>3. /\ cfg.max_delay # Unset /\ cfg.retention # Unset
          /\ ~ (cfg.retention <= cfg.max_delay)
        BY <2>1 DEF Admits
    <2>4. lateness <= cfg.max_delay /\ lateness \in Nat
        BY <2>3, DurationsAssumption DEF Init
    <2>5. threshold = cfg.retention
        BY <2>1, <2>3 DEF Init
    <2> QED BY <2>2, <2>3, <2>4, <2>5
<1>3. RowIsWinner /\ ForgottenIsOld /\ ForgottenIsDeleted
    BY DEF Init, RowIsWinner, ForgottenIsOld, ForgottenIsDeleted, NoRow
<1> QED BY <1>1, <1>2, <1>3 DEF LatestStateInv

(* The log only grows, so what is known of a change stays known. *)
LEMMA LogGrows ==
    ASSUME TypeOK, NEW k \in Keys, NEW op \in Ops, NEW row \in Rows,
           Commit(k, op, row)
    PROVE  /\ \A n \in DOMAIN log : n \in DOMAIN log' /\ log'[n] = log[n]
           /\ \A n \in DOMAIN log' : n \notin DOMAIN log =>
                  (log'[n].born = now /\ \A m \in DOMAIN log : m < n)
<1> DEFINE c == [key |-> k, op |-> op, row |-> row, born |-> now]
<1>1. log' = Append(log, c) /\ log \in Seq(LogChange) /\ c.born = now
    BY DEF Commit, TypeOK, LogChange
<1> HIDE DEF c
<1>2. Len(log) \in Nat /\ DOMAIN log = 1..Len(log) /\ DOMAIN log' = 1..(Len(log) + 1)
         /\ log'[Len(log) + 1] = c
    BY <1>1
<1>3. \A n \in DOMAIN log : log'[n] = log[n]
    BY <1>1
<1> QED BY <1>1, <1>2, <1>3

(* A new source change is younger than everything consumed so far.         *)
LEMMA CommitKeepsInv ==
    ASSUME IInv, TypeOK', NEW k \in Keys, NEW op \in Ops, NEW row \in Rows,
           Commit(k, op, row)
    PROVE  LatestStateInv'
<1>1. UNCHANGED <<cfg, lateness, threshold, now, bronze, stopped, silverPos, silver, applied>>
    BY DEF Commit, pipeline
<1>2. TypeOK /\ applied \subseteq DOMAIN log /\ now \in Nat
    BY DEF IInv, TypeOK
<1>3. /\ \A n \in DOMAIN log : n \in DOMAIN log' /\ log'[n] = log[n]
      /\ \A n \in DOMAIN log' : n \notin DOMAIN log =>
            (log'[n].born = now /\ \A m \in DOMAIN log : m < n)
    BY <1>2, LogGrows
<1>4. BronzeFromLog'
    BY <1>1, <1>3 DEF IInv, LatestStateInv, BronzeFromLog
<1>5. TombstonesOutliveDelay'
    BY <1>1 DEF IInv, LatestStateInv, TombstonesOutliveDelay, DeletesArePhysical
<1>6. BornInOrder'
    <2>1. BornInOrder
        BY DEF IInv, LatestStateInv
    <2>2. \A n \in DOMAIN log' : log'[n].born <= now
        BY <1>2, <1>3, <2>1 DEF BornInOrder
    <2>3. ASSUME NEW m \in DOMAIN log', NEW n \in DOMAIN log', m <= n
          PROVE  log'[m].born <= log'[n].born
        <3>1. CASE n \in DOMAIN log /\ m \in DOMAIN log
            BY <1>3, <2>1, <2>3, <3>1 DEF BornInOrder
        <3>2. CASE n \in DOMAIN log /\ m \notin DOMAIN log
            <4>1. n < m
                BY <1>3, <3>2
            <4>2. DOMAIN log' = 1..Len(log') /\ Len(log') \in Nat
                BY DEF TypeOK
            <4>3. m \in Nat /\ n \in Nat
                BY <4>2
            <4> QED BY <4>1, <4>3, <2>3
        <3>3. CASE n \notin DOMAIN log
            BY <1>3, <2>2, <3>3
        <3> QED BY <3>1, <3>2, <3>3
    <2> QED BY <1>1, <2>2, <2>3 DEF BornInOrder
<1>7. UnreadIsFresh'
    <2>1. ASSUME NEW i \in (silverPos + 1)..Len(bronze)
          PROVE  log'[bronze[i]] = log[bronze[i]]
        <3>1. i \in 1..Len(bronze)
            BY <1>2 DEF TypeOK
        <3> QED BY <1>3, <3>1 DEF IInv, LatestStateInv, BronzeFromLog
    <2> QED BY <1>1, <2>1 DEF IInv, LatestStateInv, UnreadIsFresh
<1>8. \A j \in Keys : \A n : Winner(applied, j, n)' <=> Winner(applied, j, n)
    BY <1>1, <1>2, <1>3 DEF Winner
<1>9. ASSUME DeletePolicyDeclared'
      PROVE  (RowIsWinner /\ ForgottenIsOld /\ ForgottenIsDeleted)'
    <2>1. RowIsWinner /\ ForgottenIsOld /\ ForgottenIsDeleted
        BY <1>1, <1>9 DEF IInv, LatestStateInv, DeletePolicyDeclared, DeletesArePhysical
    <2>2. RowIsWinner'
        BY <1>1, <1>2, <1>3, <1>8, <2>1 DEF RowIsWinner, Winner
    <2>3. ForgottenIsOld'
        BY <1>1, <1>2, <1>3, <2>1 DEF ForgottenIsOld
    <2>4. ForgottenIsDeleted'
        BY <1>1, <1>2, <1>3, <1>8, <2>1 DEF ForgottenIsDeleted, DeletesArePhysical
    <2> QED BY <2>2, <2>3, <2>4
<1> QED BY <1>4, <1>5, <1>6, <1>7, <1>9 DEF LatestStateInv

(* Only changes that are not too old are delivered.                        *)
LEMMA DeliverKeepsInv ==
    ASSUME IInv, TypeOK', NEW n \in 1..MaxEvents, Deliver(n)
    PROVE  LatestStateInv'
<1>1. /\ n \in DOMAIN log /\ now <= log[n].born + lateness
      /\ bronze' = bronze \/ bronze' = Append(bronze, n)
      /\ UNCHANGED <<cfg, lateness, threshold, now, log, silverPos, silver, applied>>
    BY DEF Deliver, pipeline
<1>2. bronze \in Seq(Nat) /\ Len(bronze) \in Nat /\ silverPos \in Nat /\ n \in Nat
    BY <1>1 DEF IInv, TypeOK
<1>3. BronzeFromLog' /\ UnreadIsFresh'
    <2>1. CASE bronze' = bronze
        BY <1>1, <2>1 DEF IInv, LatestStateInv, BronzeFromLog, UnreadIsFresh
    <2>2. CASE bronze' = Append(bronze, n)
        <3>1. /\ Len(bronze') = Len(bronze) + 1
              /\ \A i \in 1..Len(bronze') :
                    bronze'[i] = IF i <= Len(bronze) THEN bronze[i] ELSE n
            BY <1>2, <2>2
        <3>2. BronzeFromLog'
            BY <1>1, <1>2, <3>1 DEF IInv, LatestStateInv, BronzeFromLog
        <3>3. UnreadIsFresh'
            BY <1>1, <1>2, <3>1 DEF IInv, LatestStateInv, UnreadIsFresh
        <3> QED BY <3>2, <3>3
    <2> QED BY <1>1, <2>1, <2>2
<1>4. (/\ TombstonesOutliveDelay /\ BornInOrder
       /\ DeletePolicyDeclared => RowIsWinner /\ ForgottenIsOld /\ ForgottenIsDeleted)'
    BY <1>1 DEF IInv, LatestStateInv, TombstonesOutliveDelay, DeletesArePhysical,
        BornInOrder, DeletePolicyDeclared, RowIsWinner, ForgottenIsOld,
        ForgottenIsDeleted, Winner
<1> QED BY <1>3, <1>4 DEF LatestStateInv

(* Consuming one more row leaves fewer rows unread. *)
LEMMA FewerUnread ==
    ASSUME TypeOK, UnreadIsFresh, silverPos < Len(bronze), silverPos' = silverPos + 1,
           UNCHANGED <<now, log, bronze, lateness>>
    PROVE  UnreadIsFresh'
<1>1. Len(bronze) \in Nat /\ silverPos \in Nat
    BY DEF TypeOK
<1>2. \A i \in (silverPos + 2)..Len(bronze) : i \in (silverPos + 1)..Len(bronze)
    BY <1>1
<1> QED BY <1>1, <1>2 DEF UnreadIsFresh

(* The central step: the change that AUTO CDC consumes is fresh, so a key  *)
(* that was forgotten has nothing newer, and otherwise sequence_by decides.*)
LEMMA ApplyKeepsInv ==
    ASSUME IInv, TypeOK', ApplyNext
    PROVE  LatestStateInv'
<1> PICK n, k : n = bronze[silverPos + 1] /\ k = log[n].key
    OBVIOUS
<1>1. /\ silverPos < Len(bronze) /\ silverPos' = silverPos + 1
      /\ applied' = applied \cup {n}
      /\ silver' = IF n > silver[k].seq
                   THEN [silver EXCEPT ![k] = [seq |-> n, at |-> now]]
                   ELSE silver
      /\ UNCHANGED <<cfg, lateness, threshold, now, log, bronze>>
    BY DEF ApplyNext, pipeline
<1>2. TypeOK /\ Len(bronze) \in Nat /\ silverPos \in Nat
         /\ silverPos + 1 \in 1..Len(bronze) /\ silverPos + 1 \in (silverPos + 1)..Len(bronze)
    <2>1. TypeOK
        BY DEF IInv
    <2>2. Len(bronze) \in Nat /\ silverPos \in Nat
        BY <2>1 DEF TypeOK
    <2> QED BY <1>1, <2>1, <2>2
<1>3. n \in DOMAIN log /\ now <= log[n].born + lateness
    <2>1. BronzeFromLog /\ UnreadIsFresh
        BY DEF IInv, LatestStateInv
    <2>2. n \in DOMAIN log
        BY <1>2, <2>1 DEF BronzeFromLog
    <2>3. now <= log[n].born + lateness
        BY <1>2, <2>1 DEF UnreadIsFresh
    <2> QED BY <2>2, <2>3
<1>4. k \in Keys /\ log[n].key = k /\ n \in Nat /\ n > 0 /\ log[n].born \in Nat
    BY <1>2, <1>3, LogEntry
<1>5. BronzeFromLog' /\ UnreadIsFresh'
    BY <1>1, <1>2, FewerUnread DEF IInv, LatestStateInv, BronzeFromLog
<1>6. TombstonesOutliveDelay' /\ BornInOrder'
    BY <1>1 DEF IInv, LatestStateInv, TombstonesOutliveDelay, DeletesArePhysical, BornInOrder
<1>7. ASSUME DeletePolicyDeclared'
      PROVE  (RowIsWinner /\ ForgottenIsOld /\ ForgottenIsDeleted)'
    <2>1. RowIsWinner /\ ForgottenIsOld /\ ForgottenIsDeleted /\ BornInOrder
        BY <1>1, <1>7 DEF IInv, LatestStateInv, DeletePolicyDeclared, DeletesArePhysical
    <2>2. /\ applied \subseteq DOMAIN log /\ silver \in [Keys -> [seq : 0..Len(log), at : Nat]]
          /\ now \in Nat /\ lateness \in Nat
        BY <1>2, DurationsAssumption DEF TypeOK
    <2>3. (\A j \in Keys : silver[j].seq \in Nat) /\ (\A m \in applied : m \in Nat)
        BY <1>2, <2>2, LogEntry
    <2>4. \A j \in Keys : j # k => silver'[j] = silver[j]
        BY <1>1, <1>4, <2>2
    <2>5. \A j \in Keys : \A m : j # k => (Winner(applied', j, m) <=> Winner(applied, j, m))
        BY <1>1, <1>4 DEF Winner
    (* Nothing else in Winner changes. *)
    <2>5a. \A j, m : Winner(applied, j, m)' <=> Winner(applied', j, m)
        BY <1>1 DEF Winner
    (* No change older than what Silver forgot can still be unread. *)
    <2>6. ASSUME silver[k].seq = 0, NEW m \in applied, log[m].key = k
          PROVE  m <= n
        <3>1. log[m].born + lateness < now
            BY <1>4, <2>1, <2>6 DEF ForgottenIsOld
        <3>2. log[m].born \in Nat /\ m \in Nat /\ m \in DOMAIN log
            BY <1>2, <2>2, LogEntry
        <3>3. n <= m => log[n].born <= log[m].born
            BY <1>3, <2>1, <3>2 DEF BornInOrder
        <3> QED BY <1>3, <1>4, <2>2, <3>1, <3>2, <3>3
    <2>7. CASE n > silver[k].seq
        <3>1. silver'[k] = [seq |-> n, at |-> now]
            BY <1>1, <1>4, <2>2, <2>7
        <3>2. \A m \in applied : log[m].key = k => m <= n
            <4> SUFFICES ASSUME NEW m \in applied, log[m].key = k
                         PROVE  m <= n
                OBVIOUS
            <4>1. CASE silver[k].seq = 0
                BY <2>6, <4>1
            <4>2. CASE silver[k].seq # 0
                <5>1. m <= silver[k].seq
                    BY <1>4, <2>1, <4>2 DEF RowIsWinner, Winner
                <5> QED BY <1>4, <2>2, <2>3, <2>7, <5>1
            <4> QED BY <4>1, <4>2
        <3>3. Winner(applied', k, n)
            BY <1>1, <1>4, <3>2 DEF Winner
        <3>4. RowIsWinner'
            <4>1. log[n].born <= now
                BY <1>3, <2>1 DEF BornInOrder
            <4>2. SUFFICES ASSUME NEW j \in Keys, silver'[j].seq # 0
                           PROVE  Winner(applied', j, silver'[j].seq)
                                     /\ log[silver'[j].seq].born <= silver'[j].at
                BY <1>1 DEF RowIsWinner, Winner
            <4>3. CASE j = k
                BY <3>1, <3>3, <4>1, <4>3
            <4>4. CASE j # k
                BY <2>1, <2>4, <2>5, <4>2, <4>4 DEF RowIsWinner
            <4> QED BY <4>3, <4>4
        <3>5. ForgottenIsOld'
            BY <1>1, <1>4, <2>1, <2>4, <3>1 DEF ForgottenIsOld
        <3>6. ForgottenIsDeleted'
            <4> SUFFICES ASSUME NEW j \in Keys, silver'[j].seq = 0, NEW m \in applied',
                                Winner(applied', j, m)
                         PROVE  DeletesArePhysical /\ log[m].op = "delete"
                BY <1>1, <2>5a DEF ForgottenIsDeleted, DeletesArePhysical
            <4>1. j # k
                BY <1>4, <3>1
            <4>2. Winner(applied, j, m) /\ m \in applied /\ silver[j].seq = 0
                BY <2>4, <2>5, <4>1 DEF Winner
            <4> QED BY <2>1, <4>2 DEF ForgottenIsDeleted
        <3> QED BY <3>4, <3>5, <3>6
    <2>8. CASE ~ (n > silver[k].seq)
        <3>1. silver' = silver /\ silver[k].seq # 0 /\ n <= silver[k].seq
            BY <1>1, <1>4, <2>3, <2>8
        <3>2. Winner(applied', k, silver[k].seq)
            BY <1>1, <1>4, <2>1, <3>1 DEF RowIsWinner, Winner
        <3>3. RowIsWinner'
            <4> SUFFICES ASSUME NEW j \in Keys, silver[j].seq # 0
                         PROVE  Winner(applied', j, silver[j].seq)
                                   /\ log[silver[j].seq].born <= silver[j].at
                BY <1>1, <3>1 DEF RowIsWinner, Winner
            <4>1. CASE j = k
                BY <2>1, <3>2, <4>1 DEF RowIsWinner
            <4>2. CASE j # k
                BY <2>1, <2>5, <4>2 DEF RowIsWinner
            <4> QED BY <4>1, <4>2
        <3>4. ForgottenIsOld'
            BY <1>1, <2>1, <3>1 DEF ForgottenIsOld
        <3>5. ForgottenIsDeleted'
            <4> SUFFICES ASSUME NEW j \in Keys, silver[j].seq = 0, NEW m \in applied',
                                Winner(applied', j, m)
                         PROVE  DeletesArePhysical /\ log[m].op = "delete"
                BY <1>1, <2>5a, <3>1 DEF ForgottenIsDeleted, DeletesArePhysical
            <4>1. j # k
                BY <3>1
            <4>2. Winner(applied, j, m) /\ m \in applied
                BY <2>5, <4>1 DEF Winner
            <4> QED BY <2>1, <4>2 DEF ForgottenIsDeleted
        <3> QED BY <3>3, <3>4, <3>5
    <2> QED BY <2>7, <2>8
<1> QED BY <1>5, <1>6, <1>7 DEF LatestStateInv

(* A tombstone is forgotten only when its key has nothing fresh any more.  *)
LEMMA CollectKeepsInv ==
    ASSUME IInv, TypeOK', NEW k \in Keys, Collect(k)
    PROVE  LatestStateInv'
<1>1. /\ IsTombstone(k) /\ now >= silver[k].at + threshold
      /\ silver' = [silver EXCEPT ![k] = NoRow]
      /\ UNCHANGED <<cfg, lateness, threshold, now, log, bronze, stopped, silverPos, applied>>
    BY DEF Collect, pipeline
<1>2. (BronzeFromLog /\ TombstonesOutliveDelay /\ BornInOrder /\ UnreadIsFresh)'
    BY <1>1 DEF IInv, LatestStateInv, BronzeFromLog, TombstonesOutliveDelay,
        DeletesArePhysical, BornInOrder, UnreadIsFresh
<1>3. ASSUME DeletePolicyDeclared'
      PROVE  (RowIsWinner /\ ForgottenIsOld /\ ForgottenIsDeleted)'
    <2>1. /\ RowIsWinner /\ ForgottenIsOld /\ ForgottenIsDeleted /\ BornInOrder
          /\ TombstonesOutliveDelay /\ DeletePolicyDeclared
        BY <1>1, <1>3 DEF IInv, LatestStateInv, DeletePolicyDeclared, DeletesArePhysical
    <2> DEFINE w == silver[k].seq
    <2>2. /\ DeletesArePhysical /\ w # 0 /\ log[w].op = "delete"
          /\ lateness < threshold
        BY <1>1, <2>1 DEF IsTombstone, DeletePolicyDeclared, TombstonesOutliveDelay
    <2>3. Winner(applied, k, w) /\ log[w].born <= silver[k].at
        BY <2>1, <2>2 DEF RowIsWinner
    <2>4. /\ TypeOK /\ applied \subseteq DOMAIN log /\ now \in Nat
          /\ lateness \in Nat /\ threshold \in Nat
          /\ silver \in [Keys -> [seq : 0..Len(log), at : Nat]]
        BY DurationsAssumption DEF IInv, TypeOK
    <2>5. silver'[k].seq = 0 /\ \A j \in Keys : j # k => silver'[j] = silver[j]
        BY <1>1, <2>4 DEF NoRow
    <2>6. ASSUME NEW m \in applied, log[m].key = k
          PROVE  log[m].born + lateness < now
        <3>1. m <= w /\ w \in applied
            BY <2>3, <2>6 DEF Winner
        <3>2. m \in DOMAIN log /\ w \in DOMAIN log
            BY <2>4, <3>1
        <3>3. log[m].born <= log[w].born
            BY <2>1, <3>1, <3>2 DEF BornInOrder
        <3>4. log[m].born \in Nat /\ log[w].born \in Nat /\ silver[k].at \in Nat
            BY <2>4, <3>2, LogEntry
        <3> QED BY <1>1, <2>2, <2>3, <2>4, <3>3, <3>4
    <2>7. \A m : Winner(applied, k, m) => m = w
        <3> SUFFICES ASSUME NEW m, Winner(applied, k, m)
                     PROVE  m = w
            OBVIOUS
        <3>1. m <= w /\ w <= m /\ m \in DOMAIN log /\ w \in DOMAIN log
            BY <2>3, <2>4 DEF Winner
        <3>2. m \in Nat /\ w \in Nat
            BY <2>4, <3>1, LogEntry
        <3> QED BY <3>1, <3>2
    <2>8. \A j \in Keys : \A m : Winner(applied, j, m)' <=> Winner(applied, j, m)
        BY <1>1 DEF Winner
    <2>9. RowIsWinner'
        BY <1>1, <2>1, <2>5, <2>8 DEF RowIsWinner
    <2>10. ForgottenIsOld'
        BY <1>1, <2>1, <2>5, <2>6 DEF ForgottenIsOld
    <2>11. ForgottenIsDeleted'
        BY <1>1, <2>1, <2>2, <2>5, <2>7, <2>8 DEF ForgottenIsDeleted, DeletesArePhysical
    <2> QED BY <2>9, <2>10, <2>11
<1> QED BY <1>2, <1>3 DEF LatestStateInv

(* Time passes only when nothing pending becomes too old by it.            *)
LEMMA TickKeepsInv ==
    ASSUME IInv, TypeOK', Tick
    PROVE  LatestStateInv'
<1>1. /\ \A n \in Unread : now < log[n].born + lateness
      /\ now' = now + 1
      /\ UNCHANGED <<cfg, lateness, threshold, log, bronze, silverPos, silver, applied>>
    BY DEF Tick, pipeline, Pending
<1>2. /\ TypeOK /\ now \in Nat /\ lateness \in Nat /\ applied \subseteq DOMAIN log
      /\ Len(bronze) \in Nat /\ silverPos \in Nat
    <2>1. TypeOK /\ now \in Nat /\ lateness \in Durations /\ applied \subseteq DOMAIN log
        BY DEF IInv, TypeOK
    <2>2. Len(bronze) \in Nat /\ silverPos \in Nat
        BY DEF IInv, TypeOK
    <2> QED BY <2>1, <2>2, DurationsAssumption
<1>3. \A n \in DOMAIN log : log[n].born \in Nat
    BY <1>2, LogEntry
<1>4. BronzeFromLog' /\ TombstonesOutliveDelay'
    BY <1>1 DEF IInv, LatestStateInv, BronzeFromLog, TombstonesOutliveDelay, DeletesArePhysical
<1>5. BornInOrder'
    BY <1>1, <1>2, <1>3 DEF IInv, LatestStateInv, BornInOrder
<1>6. UnreadIsFresh'
    <2> SUFFICES ASSUME NEW i \in (silverPos + 1)..Len(bronze)
                 PROVE  now + 1 <= log[bronze[i]].born + lateness
        BY <1>1 DEF UnreadIsFresh
    <2>1. bronze[i] \in Unread
        BY DEF Unread
    <2>2. bronze[i] \in DOMAIN log
        BY <1>2 DEF IInv, LatestStateInv, BronzeFromLog
    <2> QED BY <1>1, <1>2, <1>3, <2>1, <2>2
<1>7. ASSUME DeletePolicyDeclared'
      PROVE  (RowIsWinner /\ ForgottenIsOld /\ ForgottenIsDeleted)'
    <2>1. RowIsWinner /\ ForgottenIsOld /\ ForgottenIsDeleted
        BY <1>1, <1>7 DEF IInv, LatestStateInv, DeletePolicyDeclared, DeletesArePhysical
    <2>2. RowIsWinner' /\ ForgottenIsDeleted'
        BY <1>1, <2>1 DEF RowIsWinner, ForgottenIsDeleted, Winner, DeletesArePhysical
    <2>3. ForgottenIsOld'
        BY <1>1, <1>2, <1>3, <2>1 DEF ForgottenIsOld
    <2> QED BY <2>2, <2>3
<1> QED BY <1>4, <1>5, <1>6, <1>7 DEF LatestStateInv

(* Every step keeps the strengthening.                                     *)
LEMMA LatestStep == IInv /\ TypeOK' /\ [Next]_vars => LatestStateInv'
<1> SUFFICES ASSUME IInv, TypeOK', [Next]_vars
             PROVE  LatestStateInv'
    OBVIOUS
<1>1. CASE DropNext
    <2>1. /\ silverPos < Len(bronze) /\ silverPos' = silverPos + 1
          /\ UNCHANGED <<cfg, lateness, threshold, now, log, bronze, stopped, silver, applied>>
        BY <1>1 DEF DropNext, pipeline
    <2>2. UnreadIsFresh'
        BY <2>1, FewerUnread DEF IInv, LatestStateInv
    <2> QED BY <2>1, <2>2 DEF IInv, LatestStateInv, BronzeFromLog,
            TombstonesOutliveDelay, DeletesArePhysical, BornInOrder,
            DeletePolicyDeclared, RowIsWinner, ForgottenIsOld, ForgottenIsDeleted, Winner
<1>2. CASE QuarantineNext \/ UNCHANGED vars
    <2>1. UNCHANGED <<cfg, lateness, threshold, now, log, bronze, stopped, silverPos, silver, applied>>
        BY <1>2 DEF QuarantineNext, pipeline, vars
    <2> QED BY <2>1 DEF IInv, LatestStateInv, BronzeFromLog, UnreadIsFresh,
            TombstonesOutliveDelay, DeletesArePhysical, BornInOrder,
            DeletePolicyDeclared, RowIsWinner, ForgottenIsOld, ForgottenIsDeleted, Winner
<1> QED BY <1>1, <1>2, CommitKeepsInv, DeliverKeepsInv, ApplyKeepsInv,
           CollectKeepsInv, TickKeepsInv DEF Next

(* The strengthening of LatestStateShown is an invariant.                  *)
THEOREM LatestInvariant == Spec => []IInv
<1>1. Init => TypeInv /\ LatestStateInv
    BY TypeInit, LatestInit DEF TypeInv, LatestStateInv
<1>2. (TypeInv /\ LatestStateInv) /\ [Next]_vars => (TypeInv /\ LatestStateInv)'
    BY TypeStep, LatestStep DEF TypeInv, IInv
<1>3. TypeInv /\ LatestStateInv => IInv
    BY DEF TypeInv, IInv
<1> QED BY <1>1, <1>2, <1>3, PTL DEF Spec

(* In every reachable state what Silver keeps of a key is the winner of the *)
(* changes consumed; a key it keeps nothing of was deleted last, by changes *)
(* too old to be delivered again; and the tombstones of a declared policy   *)
(* outlive the lateness.  The same state predicate is what the run checks.  *)
THEOREM LatestStateInvCorrect == Spec => []LatestStateInv
<1>1. IInv => LatestStateInv
    BY DEF IInv
<1> QED BY <1>1, LatestInvariant, PTL

(* ... and implies that Silver shows the latest state.                     *)
LEMMA InvShowsLatest == IInv => LatestStateShown
<1> SUFFICES ASSUME IInv, DeletePolicyDeclared, NEW k \in Keys
             PROVE  IF Visible(k)
                    THEN Winner(applied, k, silver[k].seq)
                    ELSE \A n \in applied : Winner(applied, k, n) =>
                             (DeletesArePhysical /\ log[n].op = "delete")
    BY DEF LatestStateShown, ShowsLatest
<1>1. RowIsWinner /\ ForgottenIsDeleted
    BY DEF IInv, LatestStateInv
<1>2. CASE silver[k].seq = 0
    BY <1>1, <1>2 DEF Visible, ForgottenIsDeleted
<1>3. CASE Visible(k)
    BY <1>1, <1>3 DEF Visible, RowIsWinner
<1>4. CASE IsTombstone(k)
    <2>1. Winner(applied, k, silver[k].seq)
        BY <1>1, <1>4 DEF IsTombstone, RowIsWinner
    <2>2. ASSUME NEW n \in applied, Winner(applied, k, n)
          PROVE  n = silver[k].seq
        <3>1. n <= silver[k].seq /\ silver[k].seq <= n
            BY <2>1, <2>2 DEF Winner
        <3>2. n \in DOMAIN log /\ silver[k].seq \in DOMAIN log /\ TypeOK
            BY <2>1 DEF IInv, TypeOK, Winner
        <3>3. n \in Nat /\ silver[k].seq \in Nat
            BY <3>2, LogEntry
        <3> QED BY <3>1, <3>3
    <2> QED BY <1>4, <2>2 DEF IsTombstone, Visible
<1> QED BY <1>2, <1>3, <1>4 DEF Visible

(* Silver shows, for every key, the newest change it has consumed and      *)
(* nothing when that is a physical delete, for every admitted specification*)
(* whose physical deletes are declared: tombstones outlive the delay, so   *)
(* what is late can never win over what was forgotten.                     *)
THEOREM LatestStateCorrect == Spec => []LatestStateShown
<1> QED BY LatestInvariant, InvShowsLatest, PTL

-----------------------------------------------------------------------------
(***************************************************************************)
(* What a step may never do, and the abstract table                        *)
(***************************************************************************)

(* register_p07 passes no apply_as_deletes, so no observation ever takes a *)
(* row out of Silver, tombstone collection included.                       *)
THEOREM SoftDeleteCorrect == Spec => SoftDeletedRowsRemain
<1>1. TypeInv /\ [Next]_vars =>
         (cfg.pattern = "P07" => \A k \in Keys : Visible(k) => Visible(k)')
    <2> SUFFICES ASSUME TypeInv, [Next]_vars, cfg.pattern = "P07",
                        NEW k \in Keys, Visible(k)
                 PROVE  Visible(k)'
        OBVIOUS
    <2>1. ~ DeletesArePhysical
        BY DEF DeletesArePhysical
    <2>2. cfg' = cfg
        BY DEF Next, Commit, Deliver, ApplyNext, DropNext, QuarantineNext, Collect, Tick,
            pipeline, vars
    <2>3. silver'[k].seq # 0
        <3>1. silver[k].seq # 0
            BY DEF Visible
        <3>2. CASE silver' = silver
            BY <3>1, <3>2
        <3>3. CASE ApplyNext
            <4> PICK n, j : n = bronze[silverPos + 1] /\ j = log[n].key
                OBVIOUS
            <4>1. /\ silverPos < Len(bronze)
                  /\ silver' = IF n > silver[j].seq
                               THEN [silver EXCEPT ![j] = [seq |-> n, at |-> now]]
                               ELSE silver
                BY <3>3 DEF ApplyNext
            <4>0. TypeOK /\ BronzeFromLog
                BY DEF TypeInv
            <4>2. Len(bronze) \in Nat /\ silverPos \in Nat
                BY <4>0 DEF TypeOK
            <4>6. silver \in [Keys -> [seq : 0..Len(log), at : Nat]]
                BY <4>0 DEF TypeOK
            <4>3. silverPos + 1 \in 1..Len(bronze)
                BY <4>1, <4>2
            <4>4. n \in DOMAIN log
                BY <4>0, <4>3 DEF BronzeFromLog
            <4>5. n > 0 /\ n \in Nat
                BY <4>0, <4>4, LogEntry
            <4> QED BY <3>1, <4>1, <4>5, <4>6
        <3>4. CASE \E j \in Keys : Collect(j)
            BY <2>1, <3>4 DEF Collect, IsTombstone
        <3>5. silver' = silver \/ ApplyNext \/ (\E j \in Keys : Collect(j))
            BY DEF Next, Commit, Deliver, DropNext, QuarantineNext, Tick, vars
        <3> QED BY <3>2, <3>3, <3>4, <3>5
    <2> QED BY <2>1, <2>2, <2>3 DEF Visible, IsTombstone, DeletesArePhysical
<1>2. Init => TypeInv
    BY TypeInit, LatestInit DEF TypeInv, LatestStateInv
<1> QED BY <1>1, <1>2, TypeStep, PTL DEF Spec, SoftDeletedRowsRemain

(* The inductive strengthening of RowsSeparated: each table holds only     *)
(* rows its own filter passes, and everything its stream has passed and    *)
(* its filter keeps.                                                       *)
FiltersApplied ==
    /\ \A n \in applied : Retained(Rules, log[n].row)
    /\ \A n \in quarantined : Quarantined(Rules, log[n].row)
    /\ \A i \in 1..Len(bronze) :
          /\ (i <= silverPos /\ Retained(Rules, log[bronze[i]].row)) => bronze[i] \in applied
          /\ (i <= quarPos /\ Quarantined(Rules, log[bronze[i]].row))
                 => bronze[i] \in quarantined

(* What each stream has passed stays filtered the way its filter says.     *)
LEMMA FiltersStep == TypeInv /\ TypeInv' /\ FiltersApplied /\ [Next]_vars => FiltersApplied'
<1> SUFFICES ASSUME TypeInv, TypeInv', FiltersApplied, [Next]_vars
             PROVE  FiltersApplied'
    OBVIOUS
<1>0. /\ TypeOK /\ BronzeFromLog /\ Len(bronze) \in Nat /\ silverPos \in Nat
      /\ quarPos \in Nat /\ quarPos <= Len(bronze) /\ silverPos <= Len(bronze)
      /\ applied \subseteq DOMAIN log /\ quarantined \subseteq DOMAIN log
    <2>1. TypeOK /\ BronzeFromLog
        BY DEF TypeInv
    <2>2. /\ Len(bronze) \in Nat /\ silverPos \in 0..Len(bronze)
          /\ quarPos \in 0..Len(bronze)
        BY <2>1 DEF TypeOK
    <2>3. applied \subseteq DOMAIN log /\ quarantined \subseteq DOMAIN log
        BY <2>1 DEF TypeOK
    <2> QED BY <2>1, <2>2, <2>3
<1>1. ASSUME NEW k \in Keys, NEW op \in Ops, NEW row \in Rows, Commit(k, op, row)
      PROVE  FiltersApplied'
    <2>1. \A n \in DOMAIN log : log'[n] = log[n]
        BY <1>0, <1>1, LogGrows
    <2>2. UNCHANGED <<bronze, silverPos, quarPos, quarantined, applied>>
        BY <1>1 DEF Commit
    <2> QED BY <1>0, <2>1, <2>2 DEF FiltersApplied, BronzeFromLog
<1>2. ASSUME NEW n \in 1..MaxEvents, Deliver(n)
      PROVE  FiltersApplied'
    <2>1. /\ n \in DOMAIN log
          /\ bronze' = bronze \/ bronze' = Append(bronze, n)
          /\ UNCHANGED <<log, silverPos, quarPos, quarantined, applied>>
        BY <1>2 DEF Deliver
    <2>2. bronze \in Seq(Nat) /\ n \in Nat
        BY <1>0 DEF TypeOK
    <2>3. Len(bronze') >= Len(bronze) /\ \A i \in 1..Len(bronze) : bronze'[i] = bronze[i]
        BY <2>1, <2>2
    <2> QED BY <1>0, <2>1, <2>3 DEF FiltersApplied
<1>3. CASE ApplyNext
    <2>1. /\ silverPos' = silverPos + 1
          /\ applied' = applied \cup {bronze[silverPos + 1]}
          /\ Retained(Rules, log[bronze[silverPos + 1]].row)
          /\ UNCHANGED <<log, bronze, quarPos, quarantined>>
        BY <1>3 DEF ApplyNext
    <2> QED BY <1>0, <2>1 DEF FiltersApplied
<1>4. CASE DropNext
    <2>1. /\ silverPos' = silverPos + 1
          /\ ~ Retained(Rules, log[bronze[silverPos + 1]].row)
          /\ UNCHANGED <<log, bronze, quarPos, quarantined, applied>>
        BY <1>4 DEF DropNext
    <2> QED BY <1>0, <2>1 DEF FiltersApplied
<1>5. CASE QuarantineNext
    <2>1. /\ quarPos' = quarPos + 1
          /\ quarantined' = IF Quarantined(Rules, log[bronze[quarPos + 1]].row)
                            THEN quarantined \cup {bronze[quarPos + 1]} ELSE quarantined
          /\ UNCHANGED <<log, bronze, silverPos, applied>>
        BY <1>5 DEF QuarantineNext
    <2> QED BY <1>0, <2>1 DEF FiltersApplied
<1>6. CASE UNCHANGED <<log, bronze, silverPos, quarPos, quarantined, applied>>
    BY <1>6 DEF FiltersApplied
<1> QED BY <1>1, <1>2, <1>3, <1>4, <1>5, <1>6 DEF Next, Collect, Tick, vars

(* For every set of rules: no change is in Silver and in quarantine, and   *)
(* none whose rules are all decided is missed by both.                     *)
THEOREM RowsSeparatedCorrect == Spec => []RowsSeparated
<1>1. Init => TypeInv /\ FiltersApplied
    BY TypeInit, LatestInit DEF TypeInv, LatestStateInv, Init, FiltersApplied
<1>2. TypeInv /\ FiltersApplied => RowsSeparated
    <2> SUFFICES ASSUME TypeInv, FiltersApplied PROVE RowsSeparated
        OBVIOUS
    <2>1. /\ TypeOK /\ BronzeFromLog
          /\ applied \subseteq DOMAIN log /\ quarantined \subseteq DOMAIN log
        BY DEF TypeInv, TypeOK
    <2>2. \A n \in DOMAIN log : log[n].row \in [Rules -> Verdicts]
        <3> SUFFICES ASSUME NEW n \in DOMAIN log
                     PROVE  log[n].row \in [Rules -> Verdicts]
            OBVIOUS
        <3>1. log[n].row \in Rows
            BY <2>1, LogEntry
        <3> QED BY <3>1, RowsAssumption
    <2>3. quarantined \cap applied = {}
        <3> SUFFICES ASSUME NEW n \in quarantined \cap applied PROVE FALSE
            OBVIOUS
        <3>1. Retained(Rules, log[n].row) /\ Quarantined(Rules, log[n].row)
            BY DEF FiltersApplied
        <3> QED BY <2>1, <2>2, <3>1, FiltersExclusive
    <2>4. ASSUME NEW i \in 1..Len(bronze), i <= silverPos, i <= quarPos,
                 Decided(Rules, log[bronze[i]].row)
          PROVE  bronze[i] \in quarantined \cup applied
        <3>1. log[bronze[i]].row \in [Rules -> Verdicts]
            BY <2>1, <2>2 DEF BronzeFromLog
        <3>2. Retained(Rules, log[bronze[i]].row) \/ Quarantined(Rules, log[bronze[i]].row)
            BY <2>4, <3>1, FiltersTotalOnDecidedRows
        <3> QED BY <2>4, <3>2 DEF FiltersApplied
    <2> QED BY <2>3, <2>4 DEF RowsSeparated
<1> QED BY <1>1, <1>2, TypeStep, FiltersStep, PTL DEF Spec

(* What the FAIL expectations have done to the Bronze stream.              *)
Guarded == /\ \A i \in 1..Len(bronze) : MayPass(Rules, log[bronze[i]].row)
           /\ \A n \in applied : MayPass(Rules, log[n].row)
           /\ stopped # 0 => stopped \in DOMAIN log /\ MayStop(Rules, log[stopped].row)

(* Every step keeps it.                                                    *)
LEMMA GuardedStep == TypeInv /\ Guarded /\ [Next]_vars => Guarded'
<1> SUFFICES ASSUME TypeInv, Guarded, [Next]_vars PROVE Guarded'
    OBVIOUS
<1>0. /\ TypeOK /\ BronzeFromLog
      /\ Len(bronze) \in Nat /\ silverPos \in Nat /\ applied \subseteq DOMAIN log
    <2>1. TypeOK /\ BronzeFromLog
        BY DEF TypeInv
    <2>2. Len(bronze) \in Nat /\ silverPos \in 0..Len(bronze) /\ applied \subseteq DOMAIN log
        BY <2>1 DEF TypeOK
    <2> QED BY <2>1, <2>2
<1>1. ASSUME NEW k \in Keys, NEW op \in Ops, NEW row \in Rows, Commit(k, op, row)
      PROVE  Guarded'
    <2>1. \A n \in DOMAIN log : n \in DOMAIN log' /\ log'[n] = log[n]
        BY <1>0, <1>1, LogGrows
    <2>2. UNCHANGED <<bronze, stopped, applied>>
        BY <1>1 DEF Commit
    <2> QED BY <1>0, <2>1, <2>2 DEF Guarded, BronzeFromLog
<1>2. ASSUME NEW n \in 1..MaxEvents, Deliver(n)
      PROVE  Guarded'
    <2>1. n \in DOMAIN log /\ UNCHANGED <<log, applied>>
        BY <1>2 DEF Deliver
    <2>2. CASE MayPass(Rules, log[n].row) /\ bronze' = Append(bronze, n) /\ stopped' = stopped
        <3>1. bronze \in Seq(Nat) /\ n \in Nat
            BY <1>0, <2>1, LogEntry DEF TypeOK
        <3>2. /\ Len(bronze') = Len(bronze) + 1
              /\ \A i \in 1..Len(bronze') :
                    bronze'[i] = IF i <= Len(bronze) THEN bronze[i] ELSE n
            BY <2>2, <3>1
        <3> QED BY <1>0, <2>1, <2>2, <3>2 DEF Guarded
    <2>3. CASE MayStop(Rules, log[n].row) /\ bronze' = bronze /\ stopped' = n
        BY <2>1, <2>3 DEF Guarded
    <2> QED BY <1>2, <2>2, <2>3 DEF Deliver
<1>3. CASE ApplyNext
    <2>1. /\ silverPos + 1 \in 1..Len(bronze)
          /\ applied' = applied \cup {bronze[silverPos + 1]}
          /\ UNCHANGED <<log, bronze, stopped>>
        BY <1>0, <1>3 DEF ApplyNext
    <2> QED BY <2>1 DEF Guarded
<1>4. CASE UNCHANGED <<log, bronze, stopped, applied>>
    BY <1>4 DEF Guarded
<1> QED BY <1>1, <1>2, <1>3, <1>4 DEF Next, DropNext, QuarantineNext, Collect, Tick, vars

LEMMA GuardedCorrect == Spec => []Guarded
<1>1. Init => TypeInv /\ Guarded
    BY TypeInit, LatestInit DEF TypeInv, LatestStateInv, Init, Guarded
<1> QED BY <1>1, TypeStep, GuardedStep, PTL DEF Spec

(* A change whose row violates a FAIL rule is not in Silver, whatever its  *)
(* quarantine rules say: the expectation of the one stream holds behind    *)
(* the other.                                                              *)
THEOREM SilverMeetsFailRules ==
    Spec => [](\A n \in applied, r \in rules_for_action(Rules, "fail") : log[n].row[r] # "false")
<1>1. Guarded => \A n \in applied, r \in rules_for_action(Rules, "fail") : log[n].row[r] # "false"
    BY DEF Guarded, MayPass
<1> QED BY <1>1, GuardedCorrect, PTL

(* The Bronze stream stops only on a logged change that does not satisfy a *)
(* FAIL rule, never because of a WARN or quarantine rule: the safety half  *)
(* of EveryValidChangeApplied.                                             *)
THEOREM StopsOnlyOnFailRules ==
    Spec => [](stopped # 0 =>
                   /\ stopped \in DOMAIN log
                   /\ \E r \in rules_for_action(Rules, "fail") : log[stopped].row[r] # "true")
<1>1. Guarded => (stopped # 0 =>
                   /\ stopped \in DOMAIN log
                   /\ \E r \in rules_for_action(Rules, "fail") : log[stopped].row[r] # "true")
    BY DEF Guarded, MayStop
<1> QED BY <1>1, GuardedCorrect, PTL

(* A reachable Silver shows, key by key, what the abstract table shows for *)
(* the changes it has consumed.                                            *)
seenChanges == {AsChange(n) : n \in applied}

shownRows(k) == IF Visible(k) THEN {AsChange(silver[k].seq)} ELSE {}

(* The abstract view of a key is what its newest consumed change shows.    *)
LEMMA ViewIsShown ==
    ASSUME IInv, DeletePolicyDeclared, NEW k \in Keys
    PROVE  shownRows(k) = Latest!Shown(seenChanges, k)
<1>1. TypeOK /\ applied \subseteq DOMAIN log /\ LatestStateShown /\ RowIsWinner
        /\ ForgottenIsDeleted
    BY InvShowsLatest DEF IInv, TypeOK, LatestStateInv
<1>2. \A n \in applied : n \in Nat
    BY <1>1, LogEntry
<1>3. \A c : c \in Latest!Newest(seenChanges, k)
                <=> \E n \in applied : c = AsChange(n) /\ Winner(applied, k, n)
    <2>1. ASSUME NEW c
          PROVE  c \in Latest!Newest(seenChanges, k) <=>
                     /\ \E n \in applied : c = AsChange(n)
                     /\ c.key = k
                     /\ \A m \in applied : AsChange(m).key = k => AsChange(m).seq <= c.seq
        BY DEF Latest!Newest, seenChanges
    <2>2. \A n : AsChange(n).key = log[n].key /\ AsChange(n).seq = n
        BY DEF AsChange
    <2> QED BY <2>1, <2>2 DEF Winner
<1>4. \A m, n \in applied : Winner(applied, k, m) /\ Winner(applied, k, n) => m = n
    BY <1>2 DEF Winner
<1>5. \A c : c \in Latest!Shown(seenChanges, k)
                <=> \E n \in applied : /\ c = AsChange(n) /\ Winner(applied, k, n)
                                       /\ ~ (DeletesArePhysical /\ log[n].op = "delete")
    BY <1>3 DEF Latest!Shown, AsChange
<1>6. CASE Visible(k)
    <2>1. /\ Winner(applied, k, silver[k].seq) /\ silver[k].seq \in applied
          /\ ~ (DeletesArePhysical /\ log[silver[k].seq].op = "delete")
        BY <1>1, <1>6 DEF Visible, IsTombstone, RowIsWinner, Winner
    <2>2. \A c : c \in Latest!Shown(seenChanges, k) <=> c = AsChange(silver[k].seq)
        BY <1>4, <1>5, <2>1
    <2> QED BY <1>6, <2>2 DEF shownRows
<1>7. CASE ~ Visible(k)
    <2>1. \A n \in applied : Winner(applied, k, n) => (DeletesArePhysical /\ log[n].op = "delete")
        BY <1>1, <1>7 DEF LatestStateShown, ShowsLatest
    <2>2. \A c : c \notin Latest!Shown(seenChanges, k)
        BY <1>5, <2>1
    <2> QED BY <1>7, <2>2 DEF shownRows
<1> QED BY <1>6, <1>7

(* The same in the state after a step.                                     *)
LEMMA NextViewIsShown ==
    (IInv /\ DeletePolicyDeclared =>
        \A k \in Keys : shownRows(k) = Latest!Shown(seenChanges, k))'
<1>1. IInv /\ DeletePolicyDeclared =>
          \A k \in Keys : shownRows(k) = Latest!Shown(seenChanges, k)
    BY ViewIsShown
<1> QED BY <1>1, PTL

(* Every step is an observation of the abstract table or leaves it alone.  *)
LEMMA SilverStepsAreObservations ==
    IInv /\ IInv' /\ Len(log) <= MaxEvents /\ DeletePolicyDeclared /\ [Next]_vars
        => [Latest!Next]_(Latest!vars)
<1> SUFFICES ASSUME IInv, IInv', Len(log) <= MaxEvents, DeletePolicyDeclared, [Next]_vars
             PROVE  [Latest!Next]_(Latest!vars)
    OBVIOUS
<1>0. /\ TypeOK /\ BronzeFromLog /\ applied \subseteq DOMAIN log
      /\ Len(bronze) \in Nat /\ silverPos \in Nat
      /\ \A k \in Keys : silver[k].seq # 0 => silver[k].seq \in DOMAIN log
    <2>1. TypeOK /\ BronzeFromLog
        BY DEF IInv, LatestStateInv
    <2>2. /\ applied \subseteq DOMAIN log /\ DOMAIN log = 1..Len(log)
          /\ Len(bronze) \in Nat /\ silverPos \in Nat /\ Len(log) \in Nat
          /\ \A k \in Keys : silver[k].seq \in 0..Len(log)
        BY <2>1 DEF TypeOK
    <2> QED BY <2>1, <2>2
<1>9. ASSUME DeletesArePhysical' = DeletesArePhysical, seenChanges' = seenChanges,
             \A k \in Keys : shownRows(k)' = shownRows(k)
      PROVE  [Latest!Next]_(Latest!vars)
    BY <1>9 DEF Latest!vars, seenChanges, shownRows
<1>1. DeletesArePhysical' = DeletesArePhysical /\ DeletePolicyDeclared'
    <2>1. cfg' = cfg
        BY DEF Next, Commit, Deliver, ApplyNext, DropNext, QuarantineNext, Collect, Tick,
            pipeline, vars
    <2> QED BY <2>1 DEF DeletesArePhysical, DeletePolicyDeclared
<1>2. CASE UNCHANGED <<log, silver, applied>>
    BY <1>1, <1>2, <1>9 DEF seenChanges, shownRows, AsChange, Visible, IsTombstone
<1>3. ASSUME NEW k \in Keys, NEW op \in Ops, NEW row \in Rows, Commit(k, op, row)
      PROVE  [Latest!Next]_(Latest!vars)
    <2>1. \A n \in DOMAIN log : log'[n] = log[n]
        BY <1>0, <1>3, LogGrows
    <2>2. silver' = silver /\ applied' = applied
        BY <1>3 DEF Commit
    <2>3. seenChanges' = seenChanges
        BY <1>0, <2>1, <2>2 DEF seenChanges, AsChange
    <2>4. \A j \in Keys : shownRows(j)' = shownRows(j)
        BY <1>0, <1>1, <2>1, <2>2 DEF shownRows, AsChange, Visible, IsTombstone
    <2> QED BY <1>1, <1>9, <2>3, <2>4
<1>4. ASSUME NEW k \in Keys, Collect(k)
      PROVE  [Latest!Next]_(Latest!vars)
    <2>1. /\ IsTombstone(k) /\ silver' = [silver EXCEPT ![k] = NoRow]
          /\ UNCHANGED <<log, applied>>
        BY <1>4 DEF Collect
    <2>2. silver'[k].seq = 0 /\ \A j \in Keys : j # k => silver'[j] = silver[j]
        BY <1>0, <2>1 DEF NoRow, TypeOK
    <2>3. \A j \in Keys : shownRows(j)' = shownRows(j)
        BY <1>1, <2>1, <2>2 DEF shownRows, AsChange, Visible, IsTombstone
    <2> QED BY <1>1, <1>9, <2>1, <2>3 DEF seenChanges, AsChange
<1>5. CASE ApplyNext
    <2> PICK n, k : n = bronze[silverPos + 1] /\ k = log[n].key
        OBVIOUS
    <2>1. /\ silverPos < Len(bronze) /\ applied' = applied \cup {n} /\ log' = log
          /\ silver' = IF n > silver[k].seq
                       THEN [silver EXCEPT ![k] = [seq |-> n, at |-> now]]
                       ELSE silver
        BY <1>5 DEF ApplyNext
    <2>2. silverPos + 1 \in 1..Len(bronze)
        BY <1>0, <2>1
    <2>3. n \in DOMAIN log
        BY <1>0, <2>2 DEF BronzeFromLog
    <2>4. log[n] \in LogChange /\ k \in Keys /\ n \in 1..MaxEvents
        <3>1. log[n] \in LogChange /\ k \in Keys /\ n \in Nat /\ n > 0 /\ n <= Len(log)
            BY <1>0, <2>3, LogEntry
        <3>2. Len(log) \in Nat
            BY <1>0 DEF TypeOK
        <3> QED BY <3>1, <3>2, BoundsAssumption
    <2>5. AsChange(n) \in Latest!Change /\ AsChange(n).key = k
        BY <2>4 DEF AsChange, Latest!Change, LogChange, Ops
    <2>6. seenChanges' = seenChanges \cup {AsChange(n)}
        BY <2>1 DEF seenChanges, AsChange
    <2>7. shownRows(k)' = Latest!Shown(seenChanges', k)
        <3>1. \A j \in Keys : shownRows(j)' = Latest!Shown(seenChanges, j)'
            BY <1>1, NextViewIsShown
        <3>2. Latest!Shown(seenChanges, k)' = Latest!Shown(seenChanges', k)
            BY <1>1 DEF Latest!Shown, Latest!Newest
        <3> QED BY <2>4, <3>1, <3>2
    <2>8. \A j \in Keys : j # k => shownRows(j)' = shownRows(j)
        BY <1>1, <2>1, <2>4 DEF shownRows, AsChange, Visible, IsTombstone
    <2>9. [j \in Keys |-> shownRows(j)]' =
              [[j \in Keys |-> shownRows(j)] EXCEPT ![k] = Latest!Shown(seenChanges', k)]
        BY <2>4, <2>7, <2>8
    <2>10. Latest!Observe(AsChange(n))
        BY <1>1, <2>5, <2>6, <2>9 DEF Latest!Observe, seenChanges, shownRows
    <2> QED BY <2>5, <2>10 DEF Latest!Next
<1> QED BY <1>2, <1>3, <1>4, <1>5 DEF Next, Deliver, DropNext, QuarantineNext, Tick, vars

(* The log keeps its bound.                                                *)
LEMMA LogBounded == Spec => [](Len(log) <= MaxEvents)
<1>1. Init => Len(log) <= MaxEvents
    BY BoundsAssumption DEF Init
<1>2. TypeOK /\ Len(log) <= MaxEvents /\ [Next]_vars => (Len(log) <= MaxEvents)'
    <2> SUFFICES ASSUME TypeOK, Len(log) <= MaxEvents, [Next]_vars
                 PROVE  Len(log') <= MaxEvents
        OBVIOUS
    <2>1. CASE log' = log
        BY <2>1
    <2>2. ASSUME NEW k \in Keys, NEW op \in Ops, NEW row \in Rows, Commit(k, op, row)
          PROVE  Len(log') <= MaxEvents
        <3>1. log \in Seq(LogChange)
            BY DEF TypeOK, LogChange
        <3>2. Len(log') = Len(log) + 1 /\ Len(log) < MaxEvents /\ Len(log) \in Nat
            BY <2>2, <3>1 DEF Commit
        <3> QED BY <3>2, BoundsAssumption
    <2> QED BY <2>1, <2>2 DEF Next, Deliver, ApplyNext, DropNext, QuarantineNext,
                Collect, Tick, vars
<1> QED BY <1>1, <1>2, TypeCorrect, PTL DEF Spec

(* Every specification that deletes physically declares the cdc_delete     *)
(* strategy, and so is subject to the tombstone contract.                  *)
ConfigsDeclareDeletes ==
    \A c \in Configs : (c.pattern = "P10" /\ c.apply_as_deletes)
                          => c.strategy = "cdc_delete"

(* Then the whole dataflow implements the abstract latest-state table:     *)
(* consuming a change is one observation, everything else is invisible.    *)
THEOREM Refinement ==
    ASSUME ConfigsDeclareDeletes
    PROVE  Spec => ImplementsLatestState
<1>1. Init => Latest!Init
    BY DEF Init, Latest!Init, Visible, NoRow, DeletesArePhysical
<1>2. Init => DeletePolicyDeclared
    BY ConfigsDeclareDeletes DEF Init, ConfigsDeclareDeletes, DeletePolicyDeclared,
        DeletesArePhysical
<1>3. DeletePolicyDeclared /\ [Next]_vars => DeletePolicyDeclared'
    BY DEF DeletePolicyDeclared, DeletesArePhysical, Next, Commit, Deliver, ApplyNext,
        DropNext, QuarantineNext, Collect, Tick, pipeline, vars
<1> QED BY <1>1, <1>2, <1>3, SilverStepsAreObservations, LatestInvariant, LogBounded,
           PTL DEF Spec, Latest!Spec, ImplementsLatestState
=============================================================================
