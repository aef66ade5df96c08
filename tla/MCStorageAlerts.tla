--------------------------- MODULE MCStorageAlerts ---------------------------
(* StorageAlerts on two nodes with few pools. *)
EXTENDS StorageAlerts, TLC

CONSTANTS n1, n2, local

Nodes    == {n1, n2}
TwoPools == {<<n1, local>>, <<n2, local>>}
One      == {<<n1, local>>}
Order    == n1 :> 1 @@ n2 :> 2
Alike    == [p \in Pool |-> 1]
Itself   == {<<i, i>> : i \in Id}
=============================================================================
