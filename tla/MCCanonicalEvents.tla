------------------------- MODULE MCCanonicalEvents -------------------------
(* Events for TLC: two identities, and rows that violate one rule or none. *)
EXTENDS CanonicalEvents

CONSTANTS e1, e2

AllIds == {e1, e2}

Rule(name, action) == [name |-> name, action |-> action]

AllRules == {Rule("w", "warn"), Rule("q", "quarantine"), Rule("f", "fail")}

AllTimes == 1..3

(* A row that violates the rule of this name only ("none": no rule), and   *)
(* one on which the FAIL rule and the quarantine rule are NULL.            *)
AllRows == {[r \in AllRules |-> IF r.name = name THEN "false" ELSE "true"] :
               name \in {"none", "w", "q", "f"}}
           \cup {[r \in AllRules |-> IF r.name = "w" THEN "true" ELSE "null"]}
=============================================================================
