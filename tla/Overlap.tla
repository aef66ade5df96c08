------------------------------- MODULE Overlap --------------------------------
(***************************************************************************)
(* Two processes on one database: the old pod of a rolling update polls on *)
(* until the new one is ready, and the new one polls before it is.  Each   *)
(* is a BackupPoller; Proxmox, the database and the history variables are  *)
(* theirs together, and nothing in the code keeps them apart.              *)
(***************************************************************************)
EXTENDS Integers, FiniteSets

CONSTANTS Single, Batch, Vm, Node, NodeOf, Channels, Persistent, Faults, MaxFaults, None

VARIABLES
    \* what the processes share, see BackupPoller
    task, outcome, aged,
    rows, processed, imported, alerts,
    faults, delivered, again, orphaned, backfilled, lost,
    \* the memory of the old process, and of the new one
    pc, booting, todo, known, batch, parsed, failed, cur, emailOk,
    newPc, newBooting, newTodo, newKnown, newBatch, newParsed, newFailed, newCur, newEmailOk,
    \* of this module
    leaving,     \* the old pod has got its SIGTERM
    together     \* history variable: failures that both have had in hand at once

\* The assumptions of BackupPoller, on a database that is there to be shared
ASSUME OverlapAssumption ==
    /\ Single \cap Batch = {} /\ Single \cap (Batch \X Vm) = {}
    /\ None \notin Single \cup (Batch \X Vm) /\ None \notin Single \cup Batch
    /\ Vm \subseteq Nat
    /\ NodeOf \in [Single \cup Batch -> Node]
    /\ Channels \subseteq {"email", "discord"} /\ Channels # {}
    /\ Persistent = TRUE
    /\ Faults \subseteq {"crash", "error", "wedge", "node", "log", "email", "discord"}
    /\ MaxFaults \in Nat

Old == INSTANCE BackupPoller

New == INSTANCE BackupPoller WITH
    pc     <- newPc,     booting <- newBooting, todo   <- newTodo,   known   <- newKnown,
    batch  <- newBatch,  parsed  <- newParsed,  failed <- newFailed, cur     <- newCur,
    emailOk <- newEmailOk

shared == <<task, outcome, aged, rows, processed, imported, alerts,
            faults, delivered, again, orphaned, backfilled, lost>>
memory == <<pc, booting, todo, known, batch, parsed, failed, cur, emailOk>>
newMemory == <<newPc, newBooting, newTodo, newKnown, newBatch, newParsed, newFailed, newCur,
               newEmailOk>>
vars == <<shared, memory, newMemory, leaving, together>>
-----------------------------------------------------------------------------
\* The rollout begins when the old process is between two cycles, its history
\* import long done.
Init ==
    /\ task \in [Old!Task -> {"absent", "running"}]
    /\ outcome = [u \in Old!Upid |-> "none"] /\ aged = {}
    /\ rows = [u \in Old!Upid |-> "none"]
    /\ processed = {} /\ imported = TRUE /\ alerts = {}
    /\ faults = 0
    /\ delivered = {} /\ again = {} /\ orphaned = {} /\ backfilled = {} /\ lost = {}
    /\ pc = "idle" /\ booting = FALSE
    /\ todo = {} /\ known = {} /\ batch = None /\ parsed = {}
    /\ failed = {} /\ cur = None /\ emailOk = FALSE
    /\ newPc = "down" /\ newBooting = TRUE
    /\ newTodo = {} /\ newKnown = {} /\ newBatch = None /\ newParsed = {}
    /\ newFailed = {} /\ newCur = None /\ newEmailOk = FALSE
    /\ leaving = FALSE /\ together = {}

\* One process moves; the other has its memory to itself.
OldStep == (Old!Process \/ Old!Abort \/ Old!Reconnect \/ Old!Crash) /\ UNCHANGED <<newMemory, leaving>>
NewStep == (New!Process \/ New!Abort \/ New!Reconnect \/ New!Crash) /\ UNCHANGED <<memory, leaving>>

\* The new pod answers once its first cycle is done, and the old one gets its
\* SIGTERM.  A running job comes to its end (see Monitor), no other is started.
OldLeaves ==
    /\ ~leaving /\ ~newBooting /\ newPc # "down"
    /\ leaving' = TRUE
    /\ UNCHANGED <<shared, memory, newMemory>>

Watch == together' = together \cup (failed' \cap newFailed')

Next ==
    /\ \/ OldStep /\ (leaving => pc \notin {"down", "idle", "wedged"})
       \/ NewStep
       \/ Old!Proxmox /\ UNCHANGED <<newMemory, leaving>>
       \/ OldLeaves
    /\ Watch

Spec == Init /\ [][Next]_vars
-----------------------------------------------------------------------------
(* Properties *)

\* Every variable has its type.
TypeOK == Old!TypeOK /\ New!TypeOK /\ leaving \in BOOLEAN /\ together \subseteq Old!Upid

\* Every failure on record has an alert, or one of the two processes owes it
\* one, or the process that found it has dropped it in a crash.
EitherAccountsForIt ==
    \A u \in Old!Upid : rows[u] = "ERR" =>
        Old!AlreadySent(u) \/ u \in failed \cup newFailed \/ u \in lost

\* Whichever process marks a batch as processed, every VM in its log has its row,
\* although each of the two inserts what it alone took for new.
ProcessedMeansParsed == Old!ProcessedMeansParsed

\* The user is told twice of a failure only when both processes had it in hand
\* at once (or the record of the first delivery was lost): a process that finds
\* it when the other one has settled it leaves it at that.
TwiceOnlyTogether ==
    \A d \in again : d \in orphaned \/ d[1] \in together

\* alerts.py: "Deduplicated: one alert per UPID."  Nobody is told twice.
NeverTwice == Old!AtMostOnce
-----------------------------------------------------------------------------
(* The inductive invariant behind the safety properties *)

\* The history import is over for good.
NoImport ==
    /\ imported /\ backfilled = {}
    /\ pc \notin {"import", "importing"} /\ newPc \notin {"import", "importing"}

\* What each process holds, see BackupPoller; what one sends the other may have
\* delivered.
OldInv ==
    /\ Old!CurInv /\ Old!LoopInv /\ Old!KnownStored /\ Old!BatchInv
    /\ Old!DeliveryInv({newCur}, together)

NewInv ==
    /\ New!CurInv /\ New!LoopInv /\ New!KnownStored /\ New!BatchInv
    /\ New!DeliveryInv({cur}, together)

IInv ==
    /\ TypeOK
    /\ NoImport
    /\ OldInv /\ NewInv
    /\ Old!OutcomeInv /\ Old!RowsAreFaithful
    /\ failed \cap newFailed \subseteq together
    /\ EitherAccountsForIt
    /\ TwiceOnlyTogether
    /\ "log" \notin Faults => ProcessedMeansParsed
===============================================================================
