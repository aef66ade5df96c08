--------------------------- MODULE BackupRefinement ---------------------------
(* BackupPoller implements BackupLedger: rows are the ledger, the failures in *)
(* memory are the debts, alerts_sent holds the notes.                         *)
EXTENDS BackupPoller

Truth == [u \in Upid |-> IF outcome[u] = "none" THEN "none" ELSE Status(u)]

Noted == {a[1] : a \in alerts}

Covers == {p \in Upid \X Upid : Matches(p[1], p[2])}

Ledger == INSTANCE BackupLedger WITH
    Channel <- {"email", "discord"},
    Failure <- {"ERR"},
    None    <- "none",
    Cover   <- Covers,
    truth   <- Truth,
    ledger  <- rows,
    owed    <- failed,
    told    <- delivered,
    noted   <- Noted

\* Every behaviour of the poller, faults included, is one of the ledger: results
\* enter once and truly, a debt leaves memory settled or with all the others,
\* and nothing is told that is not an owed failure.
LedgerSpec == Ledger!Spec
=============================================================================
