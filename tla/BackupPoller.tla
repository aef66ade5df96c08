----------------------------- MODULE BackupPoller -----------------------------
(***************************************************************************)
(* From a vzdump task in the Proxmox log to a stored result and an alert:  *)
(* the history import, the poll cycle and the failure alerts of pvewatch,  *)
(* with the process crashing, restarting and aborting cycles between any   *)
(* two of its commits.                                                     *)
(*                                                                         *)
(* A task is a single-VM task or a batch ("all VMs") task.  A single task  *)
(* has one result, under its own UPID; a batch has one result per VM found *)
(* in its log, under the synthetic UPID {batch}|{vmid}, here <<batch, vm>>.*)
(* Every database operation that commits is one atomic step, because the   *)
(* code commits after each insert and each kv write.                       *)
(***************************************************************************)
EXTENDS Integers, FiniteSets

CONSTANTS
    Single,      \* UPIDs of single-VM tasks
    Batch,       \* UPIDs of batch tasks
    Vm,          \* VM ids, numbers because alert dedup compares their digits
    Node,        \* cluster nodes
    NodeOf,      \* [Task -> Node]: the node whose log holds the task
    Channels,    \* the configured alert channels
    Persistent,  \* FALSE for DATABASE_URL=memory
    Faults,      \* the kinds of fault this instance may suffer, see Abort
    MaxFaults,   \* how many of them
    None

Task  == Single \cup Batch
Guest == Batch \X Vm
Upid  == Single \cup Guest

ASSUME ConstantsAssumption ==
    /\ Single \cap Batch = {} /\ Single \cap Guest = {}
    /\ None \notin Upid /\ None \notin Task
    /\ Vm \subseteq Nat
    /\ NodeOf \in [Task -> Node]
    /\ Channels \subseteq {"email", "discord"} /\ Channels # {}
    /\ Persistent \in BOOLEAN
    /\ Faults \subseteq {"crash", "error", "wedge", "node", "log", "email", "discord"}
    /\ "wedge" \in Faults => Persistent
    /\ MaxFaults \in Nat

VARIABLES
    \* Proxmox
    task,        \* [Task -> "absent" | "running" | "stopped"]
    outcome,     \* [Upid -> exit status, "none" while there is none]
    aged,        \* tasks that started more than HISTORY_DAYS ago
    \* the database
    rows,        \* [Upid -> backup_results.status, "none" for no row]
    processed,   \* batches with a batch_processed:{upid} key
    imported,    \* the history_imported key is set
    alerts,      \* alerts_sent rows of type backup_failure: <<upid, target>>
    \* the process
    pc,          \* what the main thread or the poll job does next
    booting,     \* still in main(), where an exception ends the process
    todo,        \* listed, finished tasks the loop has not reached
    known,       \* the UPIDs read at the start of the poll
    batch,       \* the batch task being stored
    parsed,      \* its results not yet inserted
    failed,      \* new failures whose alert is not settled
    cur,         \* the failure send_backup_failure_alert is working on
    emailOk,     \* email_ok of that call
    \* history variables, read by no guard
    faults,      \* faults so far
    delivered,   \* <<upid, channel>> that reached the user
    again,       \* those that reached the user more than once
    orphaned,    \* deliveries whose record was lost or never written
    backfilled,  \* rows written by import_history
    lost         \* recorded failures that left memory with no alert

env      == <<task, outcome, aged>>
db       == <<rows, processed, imported, alerts>>
loop     == <<todo, known, batch, parsed>>
sending  == <<cur, emailOk>>
volatile == <<pc, booting, loop, failed, sending>>
told     == <<delivered, again>>
history  == <<faults, told, orphaned, backfilled, lost>>
vars     == <<env, db, volatile, history>>
-----------------------------------------------------------------------------
(* Operators on results and alerts *)

TaskOf(u)  == IF u \in Single THEN u ELSE u[1]
UpidsOf(t) == IF t \in Single THEN {t} ELSE {t} \X Vm

\* A batch log names an outcome for each VM it covers; a finished single task
\* may carry no exit status at all.
Outcomes(t) == IF t \in Single THEN {"OK", "ERR", ""} ELSE {"OK", "ERR", "none"}

\* task.exit_status if task.exit_status else task.status
Status(u) == IF outcome[u] \in {"", "none"} THEN task[TaskOf(u)] ELSE outcome[u]

\* task.exit_status and task.exit_status != "OK"
Failing(o) == o \notin {"", "OK", "none"}

\* payload LIKE '%upid%' on the JSON of another alert: the UPID itself, or a
\* result of the same batch whose VM id continues the digits of this one.
\* VM ids have at most nine digits.
Matches(u, w) ==
    \/ u = w
    \/ /\ u \in Guest /\ w \in Guest
       /\ u[1] = w[1]
       /\ \E k \in 1..8 : w[2] \div (10 ^ k) = u[2]

\* Mutant: dedup looks at the email channel only
AlreadySent_Email(u) == \E a \in alerts : Matches(u, a[1]) /\ a[2] = "email"
AlreadySent(u) == \E a \in alerts : Matches(u, a[1])

Fault(kind) == kind \in Faults /\ faults < MaxFaults /\ faults' = faults + 1
-----------------------------------------------------------------------------
(* Proxmox: tasks start, finish with a result, and grow old *)

StartTask(t) ==
    /\ task[t] = "absent"
    /\ task' = [task EXCEPT ![t] = "running"]
    /\ UNCHANGED <<outcome, aged, db, volatile, history>>

FinishTask(t) ==
    /\ task[t] = "running"
    /\ task' = [task EXCEPT ![t] = "stopped"]
    /\ \E res \in [UpidsOf(t) -> Outcomes(t)] :
          outcome' = [u \in Upid |-> IF u \in UpidsOf(t) THEN res[u] ELSE outcome[u]]
    /\ UNCHANGED <<aged, db, volatile, history>>

Age(t) ==
    /\ task[t] = "stopped" /\ t \notin aged
    /\ aged' = aged \cup {t}
    /\ UNCHANGED <<task, outcome, db, volatile, history>>
-----------------------------------------------------------------------------
(* Start-up: main() up to the first poll *)

\* connect, migrate, validate, _ensure_cluster; import_history returns at once
\* when the history_imported key is there.
Boot ==
    /\ pc = "down"
    /\ pc' = IF imported THEN "purge" ELSE "import"
    /\ booting' = TRUE
    /\ UNCHANGED <<env, db, loop, failed, sending, history>>

\* The nodes that answer; the others are only logged.
Answering(R) ==
    \/ R = Node /\ UNCHANGED faults
    \/ R \in (SUBSET Node) \ {Node} /\ Fault("node")

\* Mutant: running tasks are not left out
Listed_Running(R) == {t \in Task : task[t] # "absent" /\ NodeOf[t] \in R}
\* Mutant: only one node is asked
Listed_OneNode(R) ==
    {t \in Task : task[t] = "stopped" /\ NodeOf[t] \in R \cap {CHOOSE n \in Node : TRUE}}
Listed(R) == {t \in Task : task[t] = "stopped" /\ NodeOf[t] \in R}

\* get_vzdump_tasks(since=...) at the start of import_history
ImportFetch(R) ==
    /\ pc = "import"
    /\ Answering(R)
    /\ todo' = Listed(R) \ aged
    /\ pc' = "importing"
    /\ UNCHANGED <<env, db, booting, known, batch, parsed, failed, sending,
                   told, orphaned, backfilled, lost>>

\* Mutant: history_imported is set without waiting for the loop
ImportDone_Early ==
    /\ pc = "importing"
    /\ imported' = TRUE
    /\ pc' = "purge" /\ todo' = {}
    /\ UNCHANGED <<env, rows, processed, alerts, booting, known, batch, parsed, failed,
                   sending, history>>
\* kv_set(history_imported) after the loop
ImportDone ==
    /\ pc = "importing" /\ todo = {}
    /\ imported' = TRUE
    /\ pc' = "purge"
    /\ UNCHANGED <<env, rows, processed, alerts, booting, loop, failed, sending, history>>

\* DELETE FROM backup_results WHERE start_time < cutoff
Purge ==
    /\ pc = "purge"
    /\ rows' = [u \in Upid |-> IF TaskOf(u) \in aged THEN "none" ELSE rows[u]]
    /\ backfilled' = {u \in backfilled : TaskOf(u) \notin aged}
    /\ lost' = {u \in lost : TaskOf(u) \notin aged}
    /\ pc' = "idle"
    /\ UNCHANGED <<env, processed, imported, alerts, booting, loop, failed, sending,
                   faults, told, orphaned>>
-----------------------------------------------------------------------------
(* Storing results: poll_backup_tasks and import_history *)

\* Mutant: the poll starts from an empty set of known UPIDs
PollFetch_NothingKnown(R) ==
    /\ pc = "idle"
    /\ Answering(R)
    /\ known' = {}
    /\ todo' = Listed(R)
    /\ pc' = "polling"
    /\ UNCHANGED <<env, db, booting, batch, parsed, failed, sending,
                   told, orphaned, backfilled, lost>>
\* _known_upids, then get_vzdump_tasks() with no lower bound on the start time
PollFetch(R) ==
    /\ pc = "idle"
    /\ Answering(R)
    /\ known' = {u \in Upid : rows[u] # "none"}
    /\ todo' = Listed(R)
    /\ pc' = "polling"
    /\ UNCHANGED <<env, db, booting, batch, parsed, failed, sending,
                   told, orphaned, backfilled, lost>>

\* The import only counts the row.
NoteImported(u) ==
    /\ pc = "importing"
    /\ backfilled' = backfilled \cup {u}
    /\ UNCHANGED failed

\* The poll returns a failure to the alert loop.
NoteFailure(u) ==
    /\ pc = "polling"
    /\ failed' = IF Failing(outcome[u]) THEN failed \cup {u} ELSE failed
    /\ UNCHANGED backfilled

\* insert_backup_result, an upsert with its commit
Insert(u) ==
    /\ rows' = [rows EXCEPT ![u] = Status(u)]
    /\ NoteImported(u) \/ NoteFailure(u)

StoreSingle(t) ==
    /\ t \in todo \cap Single /\ batch = None
    /\ pc = "polling" => t \notin known
    /\ Insert(t)
    /\ todo' = todo \ {t}
    /\ UNCHANGED <<env, processed, imported, alerts, pc, booting, known, batch, parsed,
                   sending, faults, told, orphaned, lost>>

\* A known single task in a poll, a processed batch in either loop
Skip(t) ==
    /\ t \in todo /\ batch = None
    /\ \/ t \in Single /\ pc = "polling" /\ t \in known
       \/ t \in Batch /\ t \in processed
    /\ todo' = todo \ {t}
    /\ UNCHANGED <<env, db, pc, booting, known, batch, parsed, failed, sending, history>>

\* The results parse_batch_task finds: every outcome in the log, or fewer when
\* the log request fails ("" is returned) or stops at its 5000 line limit.
InLog(b) == {u \in UpidsOf(b) : outcome[u] # "none"}

ParseBatchTask(b, found) ==
    \/ found = InLog(b) /\ UNCHANGED faults
    \/ found \in (SUBSET InLog(b)) \ {InLog(b)} /\ Fault("log")

\* Mutant: known results of the batch are inserted again
OpenBatch_Again(b) ==
    /\ b \in todo \cap Batch /\ batch = None
    /\ b \notin processed
    /\ \E found \in SUBSET InLog(b) :
          /\ ParseBatchTask(b, found)
          /\ parsed' = found
    /\ batch' = b
    /\ UNCHANGED <<env, db, pc, booting, todo, known, failed, sending,
                   told, orphaned, backfilled, lost>>
OpenBatch(b) ==
    /\ b \in todo \cap Batch /\ batch = None
    /\ b \notin processed
    /\ \E found \in SUBSET InLog(b) :
          /\ ParseBatchTask(b, found)
          /\ parsed' = IF pc = "polling" THEN found \ known ELSE found
    /\ batch' = b
    /\ UNCHANGED <<env, db, pc, booting, todo, known, failed, sending,
                   told, orphaned, backfilled, lost>>

StoreGuest(u) ==
    /\ u \in parsed
    /\ Insert(u)
    /\ parsed' = parsed \ {u}
    /\ UNCHANGED <<env, processed, imported, alerts, pc, booting, todo, known, batch,
                   sending, faults, told, orphaned, lost>>

\* Mutant: the key is set before the results are inserted
CloseBatch_Early ==
    /\ batch # None
    /\ processed' = processed \cup {batch}
    /\ todo' = IF parsed = {} THEN todo \ {batch} ELSE todo
    /\ batch' = IF parsed = {} THEN None ELSE batch
    /\ UNCHANGED <<env, rows, imported, alerts, pc, booting, known, parsed, failed,
                   sending, history>>
\* Mutant: no check that a batch is open
CloseBatch_NoBatch ==
    /\ parsed = {}
    /\ processed' = processed \cup {batch}
    /\ todo' = todo \ {batch}
    /\ batch' = None
    /\ UNCHANGED <<env, rows, imported, alerts, pc, booting, known, parsed, failed,
                   sending, history>>
\* kv_set(batch_processed:{upid})
CloseBatch ==
    /\ batch # None /\ parsed = {}
    /\ processed' = processed \cup {batch}
    /\ todo' = todo \ {batch}
    /\ batch' = None
    /\ UNCHANGED <<env, rows, imported, alerts, pc, booting, known, parsed, failed,
                   sending, history>>

PollDone ==
    /\ pc = "polling" /\ todo = {}
    /\ pc' = "alerting"
    /\ UNCHANGED <<env, db, booting, loop, failed, sending, history>>
-----------------------------------------------------------------------------
(* Alerting: the loop of _poll_cycle and send_backup_failure_alert *)

AlertDuplicate(u) ==
    /\ pc = "alerting" /\ u \in failed
    /\ AlreadySent(u)
    /\ failed' = failed \ {u}
    /\ UNCHANGED <<env, db, pc, booting, loop, sending, history>>

\* Mutant: no look into alerts_sent
AlertStart_Unchecked(u) ==
    /\ pc = "alerting" /\ u \in failed
    /\ cur' = u /\ emailOk' = FALSE
    /\ pc' = "email"
    /\ UNCHANGED <<env, db, booting, loop, failed, history>>
AlertStart(u) ==
    /\ pc = "alerting" /\ u \in failed
    /\ ~AlreadySent(u)
    /\ cur' = u /\ emailOk' = FALSE
    /\ pc' = "email"
    /\ UNCHANGED <<env, db, booting, loop, failed, history>>

\* The message reaches the user over this channel.
Reach(channel) ==
    /\ delivered' = delivered \cup {<<cur, channel>>}
    /\ again' = again \cup (delivered \cap {<<cur, channel>>})

\* True is returned and the message has been delivered
SendOk(channel) == channel \in Channels /\ Reach(channel) /\ UNCHANGED faults

\* False is returned: the channel is not configured, or the call raised, before
\* or after the server took the message
SendFails(channel) ==
    \/ channel \notin Channels /\ UNCHANGED <<faults, told>>
    \/ /\ channel \in Channels /\ Fault(channel)
       /\ Reach(channel) \/ UNCHANGED told

SendEmail ==
    /\ pc = "email"
    /\ \/ SendOk("email") /\ pc' = "emailed"
       \/ SendFails("email") /\ pc' = "discord"
    /\ UNCHANGED <<env, db, booting, loop, failed, sending, orphaned, backfilled, lost>>

SendDiscord ==
    /\ pc = "discord"
    /\ \/ SendOk("discord") /\ pc' = "discorded"
       \/ SendFails("discord") /\ pc' = IF emailOk THEN "settled" ELSE "failing"
    /\ UNCHANGED <<env, db, booting, loop, failed, sending, orphaned, backfilled, lost>>

\* _record_alert
RecordAlert(target) ==
    /\ alerts' = alerts \cup {<<cur, target>>}
    /\ UNCHANGED <<env, rows, processed, imported, booting, loop, failed, cur, history>>

RecordEmail ==
    /\ pc = "emailed" /\ RecordAlert("email")
    /\ emailOk' = TRUE /\ pc' = "discord"

RecordDiscord ==
    /\ pc = "discorded" /\ RecordAlert("discord")
    /\ pc' = "settled" /\ UNCHANGED emailOk

\* Mutant: an alert that failed everywhere leaves no record
RecordFailed_Silent ==
    /\ pc = "failing" /\ pc' = "settled"
    /\ UNCHANGED <<env, db, booting, loop, failed, sending, history>>
RecordFailed ==
    /\ pc = "failing" /\ RecordAlert("failed")
    /\ pc' = "settled" /\ UNCHANGED emailOk

\* send_backup_failure_alert returns; the loop takes the next failure
AlertDone ==
    /\ pc = "settled"
    /\ failed' = failed \ {cur}
    /\ cur' = None /\ emailOk' = FALSE
    /\ pc' = "alerting"
    /\ UNCHANGED <<env, db, booting, loop, history>>

\* Once _poll_cycle has returned in main(), the scheduler runs it.
FinishCycle ==
    /\ pc = "alerting" /\ failed = {}
    /\ pc' = "idle" /\ booting' = FALSE
    /\ known' = {}
    /\ UNCHANGED <<env, db, todo, batch, parsed, failed, sending, history>>
-----------------------------------------------------------------------------
(* Faults *)

\* Local variables disappear.
LoseMemory ==
    /\ todo' = {} /\ known' = {} /\ batch' = None /\ parsed' = {}
    /\ failed' = {} /\ cur' = None /\ emailOk' = FALSE

\* The failures waiting in them lose their alert; a message sent and not yet
\* recorded loses its record.
Drop ==
    /\ LoseMemory
    /\ lost' = lost \cup {u \in failed : ~AlreadySent(u)}
    /\ orphaned' = orphaned \cup {d \in delivered : d[1] = cur}
    /\ UNCHANGED <<env, db, booting, told, backfilled>>

\* In memory mode the database goes too.
Wipe ==
    /\ LoseMemory
    /\ rows' = [u \in Upid |-> "none"]
    /\ processed' = {} /\ imported' = FALSE /\ alerts' = {}
    /\ lost' = {} /\ backfilled' = {}
    /\ orphaned' = delivered
    /\ UNCHANGED <<env, booting, told>>

Die == pc' = "down" /\ IF Persistent THEN Drop ELSE Wipe

\* A database call raises.  In main() the process ends.  In the scheduled job the
\* exception is logged, and the next run starts afresh on SQLite and after a
\* broken socket ("error").  A statement that fails on PostgreSQL ("wedge") leaves
\* the connection in an aborted transaction: no job rolls back, so every later run
\* raises at its first query.
Abort ==
    /\ pc \notin {"down", "email", "discord", "settled", "wedged"}
    /\ \/ Fault("error") /\ IF booting THEN Die ELSE pc' = "idle" /\ Drop
       \/ Fault("wedge") /\ IF booting THEN Die ELSE pc' = "wedged" /\ Drop

\* The server closes the wedged connection, and _live() opens another.
Reconnect ==
    /\ pc = "wedged"
    /\ pc' = "idle"
    /\ UNCHANGED <<env, db, booting, loop, failed, sending, history>>

Crash ==
    /\ pc # "down"
    /\ Fault("crash")
    /\ Die
-----------------------------------------------------------------------------
Init ==
    /\ task \in [Task -> {"absent", "running"}]
    /\ outcome = [u \in Upid |-> "none"]
    /\ aged = {}
    /\ rows = [u \in Upid |-> "none"]
    /\ processed = {} /\ imported = FALSE /\ alerts = {}
    /\ pc = "down" /\ booting = TRUE
    /\ todo = {} /\ known = {} /\ batch = None /\ parsed = {}
    /\ failed = {} /\ cur = None /\ emailOk = FALSE
    /\ faults = 0
    /\ delivered = {} /\ again = {} /\ orphaned = {} /\ backfilled = {} /\ lost = {}

Proxmox == \E t \in Task : StartTask(t) \/ FinishTask(t) \/ Age(t)

Startup == Boot \/ (\E R \in SUBSET Node : ImportFetch(R)) \/ ImportDone \/ Purge

Storing ==
    \/ \E R \in SUBSET Node : PollFetch(R)
    \/ \E t \in todo : StoreSingle(t) \/ Skip(t) \/ OpenBatch(t)
    \/ \E u \in parsed : StoreGuest(u)
    \/ CloseBatch
    \/ PollDone

Alerting ==
    \/ \E u \in failed : AlertDuplicate(u) \/ AlertStart(u)
    \/ SendEmail \/ RecordEmail \/ SendDiscord \/ RecordDiscord \/ RecordFailed
    \/ AlertDone
    \/ FinishCycle

Process == Startup \/ Storing \/ Alerting

Next == Proxmox \/ Process \/ Abort \/ Reconnect \/ Crash

\* The container is restarted when it exits, the interval trigger keeps firing
\* and no call blocks for ever; nothing is assumed of Proxmox, of the faults, or
\* of what the server does with a wedged connection.
Fairness == WF_vars(Process)

Spec == Init /\ [][Next]_vars /\ Fairness
-----------------------------------------------------------------------------
(* Properties *)

Results == {"OK", "ERR", "stopped", "running", "absent"}
Pcs == {"down", "import", "importing", "purge", "idle", "polling", "alerting", "email",
        "emailed", "discord", "discorded", "failing", "settled", "wedged"}

FlagsOK == imported \in BOOLEAN /\ booting \in BOOLEAN /\ emailOk \in BOOLEAN

ValuesOK ==
    /\ task \in [Task -> {"absent", "running", "stopped"}]
    /\ outcome \in [Upid -> {"none", "OK", "ERR", ""}]
    /\ aged \subseteq Task
    /\ rows \in [Upid -> Results \cup {"none"}]
    /\ processed \subseteq Batch
    /\ alerts \subseteq Upid \X {"email", "discord", "failed"}
    /\ pc \in Pcs
    /\ todo \subseteq Task
    /\ known \subseteq Upid
    /\ batch \in Batch \cup {None}
    /\ parsed \subseteq Upid
    /\ failed \subseteq Upid
    /\ cur \in Upid \cup {None}
    /\ faults \in 0..MaxFaults
    /\ delivered \subseteq Upid \X {"email", "discord"}
    /\ again \subseteq delivered
    /\ orphaned \subseteq delivered
    /\ backfilled \subseteq Upid
    /\ lost \subseteq Upid

\* Every variable has its type.
TypeOK == FlagsOK /\ ValuesOK

\* A stored result is the final result of a finished task: rows are never
\* written from a running task, a foreign batch or a half-read outcome, however
\* imports and polls are interrupted and repeated.
RowsAreFaithful ==
    \A u \in Upid : rows[u] # "none" =>
        /\ task[TaskOf(u)] = "stopped"
        /\ outcome[u] # "none"
        /\ rows[u] = Status(u)

\* No failure slips away unnoticed: a stored failure has an alert on record, is
\* waiting for one, came from the history import, or was dropped by a crash or
\* an aborted cycle (the one gap, see NoFailureForgotten).
FailuresAccountedFor ==
    \A u \in Upid : rows[u] = "ERR" =>
        AlreadySent(u) \/ u \in failed \/ u \in backfilled \/ u \in lost

\* The batch_processed key vouches for the whole batch: once it is set every VM
\* in the log of that batch has its row, so skipping the log later loses nothing.
ProcessedMeansParsed ==
    \A u \in Guest :
        u[1] \in processed /\ u[1] \notin aged /\ outcome[u] # "none" => rows[u] # "none"

\* A failure reaches the user at most once per channel, over any number of
\* polls, imports, purges and restarts, except where the record of the first
\* delivery was never written.
AtMostOnce == again \subseteq orphaned

\* An alert is only ever sent for a failure that is stored and that no history
\* import had put there.
AlertsAreForNewFailures ==
    cur # None => rows[cur] = "ERR" /\ cur \notin backfilled

\* What the history import finds is not news: a failure that was in the log when
\* an import started is never alerted on, even if that import is cut short and
\* repeated (a purge lets go of those that have grown old, see
\* NothingBeyondHistory).
HistoryIsNotNews ==
    \A u \in Upid :
        [](/\ pc = "import" /\ outcome[u] # "none" /\ TaskOf(u) \notin aged
           => [](cur = u => TaskOf(u) \in aged))

\* README: "For any new failure, sends an immediate alert". When a cycle is over
\* no stored failure found by a poll is without an alert.
NoFailureForgotten ==
    pc = "idle" => \A u \in Upid : rows[u] = "ERR" => AlreadySent(u) \/ u \in backfilled

\* alerts.py: "one alert per UPID".  When a cycle is over every stored failure
\* that the process neither imported nor lost has an alert of its own on record,
\* not just one that dedup takes for it.
OneAlertPerUpid ==
    pc = "idle" => \A u \in Upid : rows[u] = "ERR" =>
        u \in backfilled \cup lost \/ \E a \in alerts : a[1] = u

\* main.py: "Purge old records beyond HISTORY_DAYS". A record that is beyond
\* HISTORY_DAYS is not written (again) either.
NothingBeyondHistory ==
    [][\A u \in Upid : TaskOf(u) \in aged /\ rows[u] = "none" => rows'[u] = "none"]_vars

\* Every result of a finished task is stored while it is within HISTORY_DAYS,
\* unless its batch has been marked processed: what that costs when the log could
\* not be read is ProcessedMeansParsed.  The one fault that can prevent it for good
\* is a statement that PostgreSQL refuses: its transaction stays aborted until the
\* connection or the process comes to an end.
EventuallyStored ==
    \/ <>[](pc = "wedged")
    \/ \A u \in Upid :
          outcome[u] # "none" ~> rows[u] # "none" \/ TaskOf(u) \in aged \cup processed

\* Every failure the poller has noticed is settled: an alert is on record, or
\* the process lost it.
EventuallySettled ==
    \A u \in Upid : u \in failed ~> AlreadySent(u) \/ u \in lost
-----------------------------------------------------------------------------
(* The inductive invariant behind the safety properties *)

Sending == {"email", "emailed", "discord", "discorded", "failing", "settled"}

\* A failure is being sent exactly while send_backup_failure_alert runs.
CurInv ==
    /\ cur # None <=> pc \in Sending
    /\ cur # None => cur \in failed

\* Results exist for finished tasks only, and a finished single task has one.
OutcomeInv ==
    \A u \in Upid :
        /\ task[TaskOf(u)] # "stopped" => outcome[u] = "none"
        /\ u \in Single /\ task[u] = "stopped" => outcome[u] # "none"

\* What the loops hold: finished tasks, and results of the one open batch.
LoopInv ==
    /\ todo # {} => pc \in {"importing", "polling"}
    /\ \A t \in todo : task[t] = "stopped"
    /\ batch # None => batch \in todo
    /\ \A u \in parsed : batch # None /\ u \in UpidsOf(batch) /\ outcome[u] # "none"

\* The snapshot of known UPIDs is exact for what the poll has still to do.
KnownInv ==
    pc = "polling" =>
        /\ \A u \in known : rows[u] # "none"
        /\ parsed \cap known = {}
        /\ \A u \in Upid :
              TaskOf(u) \in todo /\ (batch = TaskOf(u) => u \in parsed) /\ rows[u] # "none"
                  => u \in known

\* What it holds, that another process may meanwhile purge
KnownStored ==
    pc = "polling" => \A u \in known : rows[u] # "none" \/ TaskOf(u) \in aged

\* Failures in memory are stored, and were found by a poll.
FailedInv ==
    /\ failed # {} => pc \in {"polling", "alerting"} \cup Sending
    /\ \A u \in failed : rows[u] = "ERR" /\ u \notin backfilled
    /\ \A u \in backfilled : rows[u] # "none"

\* Where other processes use the database, hands are the failures they are
\* sending now, both those that were in hand here and there; a process alone has
\* none of either.
Spent(u, channel, both) ==
    <<u, channel>> \in delivered => <<u, channel>> \in orphaned \/ u \in both

\* A delivery that could be repeated has a record, lost its record, or is the
\* one being recorded.
DeliveryInv(hands, both) ==
    /\ \A d \in delivered : d \in orphaned \/ AlreadySent(d[1]) \/ d[1] \in {cur} \cup hands
    /\ pc = "email" => Spent(cur, "email", both)
    /\ pc \in {"email", "emailed", "discord"} => Spent(cur, "discord", both)
    /\ emailOk => cur # None
    /\ pc = "settled" \/ emailOk => AlreadySent(cur)

\* While a batch is open each of its results is stored or still to be stored.
BatchInv ==
    /\ \A b \in processed : task[b] = "stopped"
    /\ "log" \notin Faults /\ batch # None /\ batch \notin aged =>
          \A u \in UpidsOf(batch) : outcome[u] # "none" => u \in parsed \/ rows[u] # "none"

\* Until a history import is over the process does nothing else, and an error
\* in it ends the process.
ImportInv ==
    /\ ~imported => pc \in {"down", "import", "importing"}
    /\ pc \in {"import", "importing"} => booting /\ ~imported

IInv ==
    /\ TypeOK
    /\ CurInv /\ OutcomeInv /\ LoopInv /\ KnownInv /\ FailedInv /\ DeliveryInv({}, {}) /\ BatchInv
    /\ ImportInv
    /\ RowsAreFaithful
    /\ FailuresAccountedFor
    /\ AtMostOnce
    /\ "log" \notin Faults => ProcessedMeansParsed

\* What an import in progress or done has settled for u (see HistoryIsNotNews):
\* u has its row, or the import will still come to it.
OldNews(u) ==
    \/ TaskOf(u) \in aged
    \/ /\ outcome[u] # "none" /\ u \notin failed
       /\ imported => rows[u] # "none"
       /\ pc = "importing" =>
             \/ rows[u] # "none"
             \/ TaskOf(u) \in todo /\ (batch = TaskOf(u) => u \in parsed)
=============================================================================
