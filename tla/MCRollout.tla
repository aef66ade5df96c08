------------------------------- MODULE MCRollout -------------------------------
(* Rollout with migrations that have the shape of src/pvewatch/migrations. *)
EXTENDS Rollout, TLC

CONSTANTS p1, p2

\* 001 creates (of its nine statements three), 002 and 003 add a column each,
\* 004 retypes three columns.
Sizes   == <<3, 1, 1, 3>>
Retypes == {4} \X (1..3)
Alters  == [s \in Statement |->
                CASE s[1] = 1 -> None
                  [] s[1] = 3 -> "vm_states"
                  [] s = <<4, 3>> -> "backup_results"
                  [] OTHER -> "storage_snapshots"]
===============================================================================
