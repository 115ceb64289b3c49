---------------------------- MODULE LatestState ----------------------------
(***************************************************************************)
(* What a current-state Silver table promises, whatever the order in which *)
(* changes arrive and however often each one is redelivered: its contents  *)
(* are a function of the SET of changes it has observed.  Each key shows   *)
(* its newest observed change, and shows nothing when deletes are physical *)
(* and that change is a delete.  There is no log, no clock, no tombstone.  *)
(***************************************************************************)
EXTENDS Naturals

CONSTANTS Keys,     \* business keys
          MaxSeq    \* source sequence numbers are 1..MaxSeq

Change == [seq : 1..MaxSeq, key : Keys, op : {"upsert", "delete"}]

VARIABLES hard,     \* deletes are physical (apply_as_deletes is passed)
          seen,     \* the changes observed so far
          view      \* view[k]: the set of rows Silver shows for k (0 or 1)

vars == <<hard, seen, view>>

Newest(S, k) == {c \in S : /\ c.key = k
                           /\ \A d \in S : d.key = k => d.seq <= c.seq}

Shown(S, k) == {c \in Newest(S, k) : ~ (hard /\ c.op = "delete")}

Init == /\ hard \in BOOLEAN
        /\ seen = {}
        /\ view = [k \in Keys |-> {}]

Observe(c) == /\ seen' = seen \cup {c}
              /\ view' = [view EXCEPT ![c.key] = Shown(seen', c.key)]
              /\ UNCHANGED hard

Next == \E c \in Change : Observe(c)

Spec == Init /\ [][Next]_vars
=============================================================================
