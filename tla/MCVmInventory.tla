---------------------------- MODULE MCVmInventory -----------------------------
(* VmInventory with two VMs and two cluster ids, whose nodes hold one VM each. *)
EXTENDS VmInventory

TwoVms == {101, 102}
OneVm  == {101}
Names  == {"a", "b"}
Ids    == {"old", "new"}
OneId  == {"old"}
Places == [c \in Ids |-> IF c = "old" THEN {101} ELSE {102}]
Place  == [c \in OneId |-> {101}]
===============================================================================
