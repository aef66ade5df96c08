---------------------------- MODULE MCConnections ----------------------------
(* Connections with two rows and two request handlers. *)
EXTENDS Connections

CONSTANTS w1, w2, r1, r2

Handlers == {w1, w2}
Rows     == {r1, r2}
=============================================================================
