------------------------------ MODULE MCMonitor -------------------------------
(* The process of Monitor under every kind of fault, and under one. *)
EXTENDS Monitor

AnyFault == {"database", "statement", "proxmox", "term", "kill"}
Silence  == {"proxmox"}
===============================================================================
