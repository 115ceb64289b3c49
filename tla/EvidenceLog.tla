---------------------------- MODULE EvidenceLog ----------------------------
(***************************************************************************)
(* What the control plane promises to whoever records evidence (a release  *)
(* or a reconciliation report): at least once.  A record may be stored     *)
(* more than once, never taken back, and is acknowledged only when it is   *)
(* stored completely.                                                      *)
(***************************************************************************)
EXTENDS Naturals

CONSTANT Records

VARIABLES copies,       \* how often a record is stored
          acknowledged  \* the records whose recording returned

Init == /\ copies = [r \in Records |-> 0]
        /\ acknowledged = {}

Append(r) == /\ copies' = [copies EXCEPT ![r] = @ + 1]
             /\ UNCHANGED acknowledged

Acknowledge(r) == /\ copies[r] > 0
                  /\ acknowledged' = acknowledged \cup {r}
                  /\ UNCHANGED copies

Next == \E r \in Records : Append(r) \/ Acknowledge(r)

Spec == Init /\ [][Next]_<<copies, acknowledged>>
=============================================================================
