------------------------------- MODULE Monitor -------------------------------
(***************************************************************************)
(* The process of main.py: start-up, the first poll in the main thread, the *)
(* scheduler that runs the later ones and the digest in threads of its     *)
(* pool, the heartbeat, SIGTERM, and the restarts of the container.        *)
(*                                                                         *)
(* A poll cycle is a sequence of phases; what the phases do to the data is *)
(* in BackupPoller and StorageAlerts.  Here they only ask Proxmox, and     *)
(* raise when the database does.  A due time that finds the last run of    *)
(* its job still busy is passed over by the scheduler (max_instances = 1). *)
(***************************************************************************)
EXTENDS Integers

CONSTANTS
    Memory,      \* DATABASE_URL=memory
    Faults,      \* the kinds of fault this instance may suffer
    MaxFaults    \* how many of them

ASSUME MonitorAssumption ==
    /\ Memory \in BOOLEAN
    /\ Faults \subseteq {"database", "statement", "proxmox", "term", "kill"}
    /\ "statement" \in Faults => ~Memory
    /\ MaxFaults \in Nat

Thread == {"main", "worker"}   \* those that run poll cycles

VARIABLES
    proxmox,     \* "up" | "down"
    conn,        \* the connection of the jobs: "usable" | "aborted"
    main,        \* the main thread: "down", a phase of main(), or how it ends
    scheduler,   \* the scheduler takes on work
    job,         \* the poll job: "none" | "paused" | "scheduled"
    cycle,       \* [Thread -> the phase of its poll cycle, "rest" for none]
    reached,     \* [Thread -> Proxmox has answered this cycle]
    digest,      \* "rest" | "running"
    web,         \* the web server is up
    \* history variables, read by no guard
    ping,        \* the last heartbeat: "none" | "reached" | "blind"
    faults       \* faults so far

work    == <<cycle, reached, digest>>
history == <<ping, faults>>
vars    == <<proxmox, conn, main, scheduler, job, work, web, history>>

Phase == {"names", "tasks", "alerts", "storage", "stamp", "ping"}

\* The phases that always ask Proxmox; refresh_vm_names may skip its request.
Asking == {"tasks", "storage"}

After == [names |-> "tasks", tasks |-> "alerts", alerts |-> "storage",
          storage |-> "stamp", stamp |-> "ping"]

Fault(kind) == kind \in Faults /\ faults < MaxFaults /\ faults' = faults + 1
-----------------------------------------------------------------------------
(* Proxmox *)

ProxmoxFails ==
    /\ proxmox = "up" /\ Fault("proxmox")
    /\ proxmox' = "down"
    /\ UNCHANGED <<conn, main, scheduler, job, work, web, ping>>

ProxmoxReturns ==
    /\ proxmox = "down"
    /\ proxmox' = "up"
    /\ UNCHANGED <<conn, main, scheduler, job, work, web, history>>
-----------------------------------------------------------------------------
(* Start-up *)

\* The container runtime starts the process.
Start ==
    /\ main = "down"
    /\ main' = "connect"
    /\ UNCHANGED <<proxmox, conn, scheduler, job, work, web, history>>

\* connect() and migrate()
Connect ==
    /\ main = "connect"
    /\ main' = "validate"
    /\ UNCHANGED <<proxmox, conn, scheduler, job, work, web, history>>

\* client.validate(), which raises while Proxmox does not answer
Validate ==
    /\ main = "validate"
    /\ main' = IF proxmox = "up" THEN "import" ELSE "raised"
    /\ UNCHANGED <<proxmox, conn, scheduler, job, work, web, history>>

BeginCycle(t) ==
    /\ cycle' = [cycle EXCEPT ![t] = "names"]
    /\ reached' = [reached EXCEPT ![t] = FALSE]

\* Mutant: the poll job is added without next_run_time=None
Import_JobDue ==
    /\ main = "import"
    /\ main' = "first"
    /\ scheduler' = TRUE /\ job' = "scheduled"
    /\ BeginCycle("main")
    /\ UNCHANGED <<proxmox, conn, digest, web, history>>
\* _ensure_cluster, import_history and the purge; then the jobs are added, the
\* one of the poll without a time to run at, and the first cycle begins.
Import ==
    /\ main = "import"
    /\ main' = "first"
    /\ scheduler' = TRUE /\ job' = "paused"
    /\ BeginCycle("main")
    /\ UNCHANGED <<proxmox, conn, digest, web, history>>

\* Mutant: the poll job is never resumed
Serve_StillPaused ==
    /\ main = "polled"
    /\ main' = "serve"
    /\ web' = TRUE
    /\ UNCHANGED <<proxmox, conn, scheduler, job, work, history>>
\* reschedule_job, the web server, the signal handlers
Serve ==
    /\ main = "polled"
    /\ main' = "serve"
    /\ job' = "scheduled" /\ web' = TRUE
    /\ UNCHANGED <<proxmox, conn, scheduler, work, history>>

\* The database raises in main(), outside the first cycle: with the process goes
\* its connection.
MainRaises ==
    /\ main \in {"connect", "import", "polled"}
    /\ Fault("database") \/ Fault("statement")
    /\ main' = "raised"
    /\ UNCHANGED <<proxmox, conn, scheduler, job, work, web, ping>>
-----------------------------------------------------------------------------
(* _poll_cycle, in thread t *)

\* Mutant: a phase too many
CycleStep_PastEnd(t) ==
    /\ cycle[t] \in {"names", "tasks", "alerts", "storage", "stamp"}
    /\ cycle' = [cycle EXCEPT ![t] = IF @ = "stamp" THEN "end" ELSE After[@]]
    /\ UNCHANGED <<proxmox, conn, main, scheduler, job, reached, digest, web, history>>
\* A phase may end without a query: no failure is new, or no pools are listed.
Unqueried(t) == cycle[t] = "alerts" \/ (cycle[t] = "storage" /\ proxmox = "down")

\* refresh_vm_names, poll_backup_tasks, the alerts, poll_storage: none of them
\* raises because Proxmox is silent.
CycleStep(t) ==
    /\ cycle[t] \in {"names", "tasks", "alerts", "storage", "stamp"}
    /\ conn = "usable" \/ Unqueried(t)
    /\ cycle' = [cycle EXCEPT ![t] = After[@]]
    /\ reached' = [reached EXCEPT ![t] = @ \/ (cycle[t] \in Asking /\ proxmox = "up")]
    /\ UNCHANGED <<proxmox, conn, main, scheduler, job, digest, web, history>>

\* _send_heartbeat, which swallows its errors; in main() the next statement follows
Ping(t) ==
    /\ cycle[t] = "ping"
    /\ ping' = IF reached[t] THEN "reached" ELSE "blind"
    /\ cycle' = [cycle EXCEPT ![t] = "rest"]
    /\ main' = IF t = "main" THEN "polled" ELSE main
    /\ UNCHANGED <<proxmox, conn, scheduler, job, reached, digest, web, faults>>

\* A query of the jobs raises.  After a broken socket, and on SQLite, the next one
\* is served again ("database"); a statement that PostgreSQL refuses ("statement")
\* leaves its transaction aborted, and as no job rolls back every later one raises.
QueryRaises ==
    \/ conn = "usable" /\ Fault("database") /\ UNCHANGED conn
    \/ conn = "usable" /\ Fault("statement") /\ conn' = "aborted"
    \/ conn = "aborted" /\ UNCHANGED <<conn, faults>>

\* In the job the scheduler logs the exception; in main() it ends the process.
CycleRaises(t) ==
    /\ cycle[t] \in Phase \ {"ping"}
    /\ QueryRaises
    /\ cycle' = [cycle EXCEPT ![t] = "rest"]
    /\ main' = IF t = "main" THEN "raised" ELSE main
    /\ UNCHANGED <<proxmox, scheduler, job, reached, digest, web, ping>>
-----------------------------------------------------------------------------
(* The scheduler *)

PollDue ==
    /\ scheduler /\ job = "scheduled"
    /\ cycle["worker"] = "rest"
    /\ BeginCycle("worker")
    /\ UNCHANGED <<proxmox, conn, main, scheduler, job, digest, web, history>>

\* Mutant: the pool takes on work after shutdown()
DigestDue_Late ==
    /\ main # "down" /\ digest = "rest"
    /\ digest' = "running"
    /\ UNCHANGED <<proxmox, conn, main, scheduler, job, cycle, reached, web, history>>
DigestDue ==
    /\ scheduler /\ digest = "rest"
    /\ digest' = "running"
    /\ UNCHANGED <<proxmox, conn, main, scheduler, job, cycle, reached, web, history>>

\* send_weekly_digest returns or raises.
DigestEnds ==
    /\ digest = "running"
    /\ digest' = "rest"
    /\ QueryRaises \/ UNCHANGED <<conn, faults>>
    /\ UNCHANGED <<proxmox, main, scheduler, job, cycle, reached, web, ping>>

\* The server closes the connection with the aborted transaction, and _live()
\* opens another.
Reconnect ==
    /\ conn = "aborted"
    /\ conn' = "usable"
    /\ UNCHANGED <<proxmox, main, scheduler, job, work, web, history>>
-----------------------------------------------------------------------------
(* The end of the process *)

\* _shutdown: scheduler.shutdown(wait=False), then SystemExit.  Before the
\* handler is installed the signal is no better than Kill.
Shutdown ==
    /\ main = "serve" /\ Fault("term")
    /\ main' = "leaving" /\ scheduler' = FALSE
    /\ UNCHANGED <<proxmox, conn, job, work, web, ping>>

\* An exception has left main(): the interpreter finalises, and its pool refuses work.
Finalize ==
    /\ main = "raised"
    /\ main' = "leaving" /\ scheduler' = FALSE
    /\ UNCHANGED <<proxmox, conn, job, work, web, history>>

Gone ==
    /\ main' = "down"
    /\ scheduler' = FALSE /\ job' = "none" /\ web' = FALSE
    /\ cycle' = [t \in Thread |-> "rest"] /\ digest' = "rest"
    /\ conn' = "usable"
    /\ UNCHANGED <<proxmox, reached, ping>>

\* The interpreter has joined the threads of the pool; the web server's is a daemon.
Exit ==
    /\ main = "leaving"
    /\ cycle["worker"] = "rest" /\ digest = "rest"
    /\ Gone
    /\ UNCHANGED faults

\* SIGKILL: a crash, a failed probe, or the end of the grace period
Kill ==
    /\ main # "down" /\ Fault("kill")
    /\ Gone
-----------------------------------------------------------------------------
Init ==
    /\ proxmox = "up" /\ conn = "usable"
    /\ main = "down" /\ scheduler = FALSE /\ job = "none"
    /\ cycle = [t \in Thread |-> "rest"] /\ reached = [t \in Thread |-> FALSE]
    /\ digest = "rest" /\ web = FALSE
    /\ ping = "none" /\ faults = 0

MainThread ==
    \/ Connect \/ Validate \/ Import \/ Serve \/ MainRaises
    \/ Finalize \/ Exit
Cycle(t) == CycleStep(t) \/ Ping(t) \/ CycleRaises(t)

Next ==
    \/ ProxmoxFails \/ ProxmoxReturns \/ Reconnect
    \/ Start \/ MainThread \/ Shutdown \/ Kill
    \/ \E t \in Thread : Cycle(t)
    \/ PollDue \/ DigestDue \/ DigestEnds

\* Proxmox comes back, the runtime restarts the container, the interval of the
\* poll elapses, and no thread stops in the middle of its work; nothing is assumed of
\* what the server does with an aborted transaction.
Fairness ==
    /\ WF_vars(ProxmoxReturns)
    /\ WF_vars(Start) /\ WF_vars(MainThread)
    /\ WF_vars(PollDue) /\ WF_vars(DigestEnds)
    /\ \A t \in Thread : WF_vars(Cycle(t))

Spec == Init /\ [][Next]_vars /\ Fairness
-----------------------------------------------------------------------------
(* Properties *)

FlagsOK ==
    /\ scheduler \in BOOLEAN /\ web \in BOOLEAN
    /\ reached \in [Thread -> BOOLEAN]

ValuesOK ==
    /\ proxmox \in {"up", "down"} /\ conn \in {"usable", "aborted"}
    /\ main \in {"down", "connect", "validate", "import", "first", "polled", "serve",
                 "raised", "leaving"}
    /\ job \in {"none", "paused", "scheduled"}
    /\ cycle \in [Thread -> Phase \cup {"rest"}]
    /\ digest \in {"rest", "running"}
    /\ ping \in {"none", "reached", "blind"}
    /\ faults \in 0..MaxFaults

\* Every variable has its type.
TypeOK == FlagsOK /\ ValuesOK

\* Two poll cycles never run at a time, whatever the length of the first one in
\* the main thread and of the interval: both would read the same known UPIDs and
\* alert twice.
OnePollAtATime == cycle["main"] = "rest" \/ cycle["worker"] = "rest"

\* From SIGTERM on nothing new is started, and the process does not leave a poll
\* or a digest half done: only a kill cuts one short.
GracefulExit ==
    [][/\ main = "leaving" => /\ digest = "rest" => digest' = "rest"
                              /\ cycle["worker"] = "rest" => cycle'["worker"] = "rest"
       /\ main = "leaving" /\ main' = "down" /\ faults' = faults =>
              digest = "rest" /\ cycle["worker"] = "rest"]_vars

\* Whatever has failed, the process comes to poll Proxmox and to ping again, unless
\* its connection is left for good in an aborted transaction.
MonitoringRecovers ==
    \/ []<>(\E t \in Thread : cycle[t] = "ping" /\ reached[t])
    \/ <>[](conn = "aborted")

\* README.md: "A failed poll cycle sends no ping, so the silence also catches
\* 'container up but Proxmox unreachable'".  Every ping stands for a cycle that
\* Proxmox has answered.
PingMeansReached == ping # "blind"

\* README.md on the in-memory mode: "Weekly digest is not available".
NoDigestInMemory == Memory => digest = "rest"
-----------------------------------------------------------------------------
(* The inductive invariant behind OnePollAtATime *)

\* The main thread polls before the job of the scheduler is resumed.
OwnerInv ==
    /\ cycle["main"] # "rest" => main = "first"
    /\ main \in {"down", "connect", "validate", "import"} =>
          job = "none" /\ ~scheduler /\ cycle["worker"] = "rest"
    /\ main \in {"first", "polled"} => job = "paused" /\ cycle["worker"] = "rest"
    /\ main \in {"raised", "leaving"} => cycle["main"] = "rest"
    /\ main = "raised" => job # "scheduled" /\ cycle["worker"] = "rest"
    /\ main = "leaving" => ~scheduler

IInv == TypeOK /\ OwnerInv
=============================================================================
