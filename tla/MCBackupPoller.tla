---------------------------- MODULE MCBackupPoller ----------------------------
(* Small instances of BackupPoller: the values its .cfg files give the        *)
(* structured constants.                                                      *)
EXTENDS BackupRefinement, TLC

CONSTANTS s1, b1, n1, n2

\* VM ids none of which continues the digits of another, and two that do
PlainVms   == {100, 201}
PrefixVms  == {100, 1000}
OneVm      == {100}

SingleOnly == (s1 :> n1)
OneOfEach  == (s1 :> n1) @@ (b1 :> n2)
BatchOnly  == (b1 :> n1)
=============================================================================
