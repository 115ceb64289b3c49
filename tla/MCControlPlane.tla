--------------------------- MODULE MCControlPlane ---------------------------
(* Tasks for TLC: two bootstraps, and evidence of every kind. *)
EXTENDS ControlPlane, TLC

CONSTANTS boot, again, smoke, release, audit, ensuring, empty, positions

AllTasks == {boot, again, smoke, release, audit, ensuring, empty, positions}

AllKinds == [t \in AllTasks |-> CASE t \in {boot, again} -> "bootstrap"
                                  [] t = smoke            -> "smoke"
                                  [] t = release          -> "release"
                                  [] OTHER                -> "audit"]

(* A report with results, one that creates the schema, one of a            *)
(* reconciliation that was skipped, and one of source positions only.      *)
AllReports == (audit     :> [ensure_schema |-> FALSE, kinds |-> {"row_count", "source_position"}])
           @@ (ensuring  :> [ensure_schema |-> TRUE,  kinds |-> {"row_count"}])
           @@ (empty     :> [ensure_schema |-> FALSE, kinds |-> {}])
           @@ (positions :> [ensure_schema |-> FALSE, kinds |-> {"source_position"}])

AllWorkloads == {{boot, smoke}, {boot, again}, {ensuring, smoke}, {ensuring, empty},
                 {boot, audit}, {boot, release}, {boot, positions}}
=============================================================================
