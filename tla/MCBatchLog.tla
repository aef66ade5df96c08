------------------------------ MODULE MCBatchLog ------------------------------
(* Logs of BatchLog about two VMs, with one text that the parser strips to nothing. *)
EXTENDS BatchLog

Vms      == {101, 102}
Texts    == {"failed", ":"}
Emptied  == {":"}
OneTime  == {5}
===============================================================================
