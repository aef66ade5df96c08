----------------------------- MODULE BackupLedger -----------------------------
(***************************************************************************)
(* What pvewatch promises about backup results, without tasks, batches,    *)
(* cycles or crashes: a ledger of final results.  A result enters once,    *)
(* with its true status, and is never rewritten; only a failure entering   *)
(* through monitoring is owed to the user; only an owed failure is told;   *)
(* a debt is settled by a note that covers it.  Entries may expire and the *)
(* debts of a process may be dropped together, never one at a time.        *)
(***************************************************************************)
CONSTANTS
    Upid,
    Channel,
    Failure,  \* the statuses that are failures
    None,     \* no status
    Cover     \* pairs <<u, w>>: a note about w settles the debt for u

VARIABLES
    truth,    \* [Upid -> final status, None before the backup is over]
    ledger,   \* [Upid -> status, None while not entered]
    owed,     \* failures to be told
    told,     \* <<upid, channel>> messages that reached the user
    noted     \* failures with a note that they were dealt with

vars == <<truth, ledger, owed, told, noted>>

Covered(u) == \E w \in noted : <<u, w>> \in Cover

Init ==
    /\ truth = [u \in Upid |-> None]
    /\ ledger = [u \in Upid |-> None]
    /\ owed = {} /\ told = {} /\ noted = {}

\* Backups end; a final status stays what it is.
Happen ==
    /\ truth' # truth
    /\ \A u \in Upid : truth[u] # None => truth'[u] = truth[u]
    /\ UNCHANGED <<ledger, owed, told, noted>>

\* The result of u is entered, by the history import (no debt) or by monitoring.
Enter(u) ==
    /\ truth[u] # None /\ ledger[u] = None
    /\ ledger' = [ledger EXCEPT ![u] = truth[u]]
    /\ \/ owed' = owed
       \/ truth[u] \in Failure /\ owed' = owed \cup {u}
    /\ UNCHANGED <<truth, told, noted>>

Tell(u, channel) ==
    /\ u \in owed /\ ledger[u] \in Failure
    /\ told' = told \cup {<<u, channel>>}
    /\ UNCHANGED <<truth, ledger, owed, noted>>

Note(u) ==
    /\ u \in owed
    /\ noted' = noted \cup {u}
    /\ UNCHANGED <<truth, ledger, owed, told>>

Settle(u) ==
    /\ u \in owed /\ Covered(u)
    /\ owed' = owed \ {u}
    /\ UNCHANGED <<truth, ledger, told, noted>>

\* Entries go while nothing is owed.
Expire ==
    /\ owed = {} /\ owed' = {}
    /\ \A u \in Upid : ledger'[u] \in {ledger[u], None}
    /\ DOMAIN ledger' = Upid
    /\ UNCHANGED <<truth, told, noted>>

\* The process is gone: all debts with it, and in memory mode everything else.
Forget ==
    /\ owed' = {}
    /\ \/ UNCHANGED <<ledger, noted>>
       \/ ledger' = [u \in Upid |-> None] /\ noted' = {}
    /\ UNCHANGED <<truth, told>>

Next ==
    \/ Happen
    \/ \E u \in Upid : Enter(u) \/ Note(u) \/ Settle(u)
    \/ \E u \in Upid, channel \in Channel : Tell(u, channel)
    \/ Expire \/ Forget

Spec == Init /\ [][Next]_vars
=============================================================================
