-------------------------------- MODULE Schema --------------------------------
(***************************************************************************)
(* What migrations promise of the database: its schema is always that of a *)
(* version, and it moves from one version to the next whole.               *)
(***************************************************************************)
EXTENDS Integers

CONSTANTS
    Version,     \* 1..n
    Parts        \* [Version -> what the migration brings about]

VARIABLE schema  \* what is in effect

Upto(v) == UNION {Parts[w] : w \in {x \in Version : x <= v}}

\* The database may have been migrated before.
Init == \E v \in Version \cup {0} : schema = Upto(v)

Apply(v) == schema = Upto(v - 1) /\ schema' = Upto(v)

Next == \E v \in Version : Apply(v)

Spec == Init /\ [][Next]_schema
===============================================================================
