------------------------------ MODULE MCOverlap -------------------------------
(* Two processes and one batch of two VMs *)
EXTENDS Overlap, TLC

CONSTANTS b1, n1

Vms     == {100, 201}
BatchAt == (b1 :> n1)
===============================================================================
