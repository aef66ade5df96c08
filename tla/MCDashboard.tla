----------------------------- MODULE MCDashboard ------------------------------
(* Dashboard with one or two VMs, whose ids the page lists. *)
EXTENDS Dashboard

OneVm  == {101}
TwoVms == {101, 102}
===============================================================================
