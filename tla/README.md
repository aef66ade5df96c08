# pvewatch: a TLA+ verification project

pvewatch watches the backups and the storage of a Proxmox cluster. One process
polls the task logs of all nodes, stores one row per backup result, sends an
alert for each new failure, samples the storage pools, mails a weekly digest and
serves a dashboard. This directory holds TLA+ models of that program, the TLC
configurations that check them on small instances, and theorems about them with
proofs checked by TLAPS.

## 1. The system

| Component | Source | State it keeps | Operations |
|---|---|---|---|
| Proxmox client | `proxmox.py` | none (an HTTP session) | list nodes, tasks, logs, storage, VMs; parse a batch log |
| Backup poller, history import | `poller.py` | `backup_results`, `kv`: `history_imported`, `batch_processed:{upid}` | `import_history`, `poll_backup_tasks`, `_process_batch` |
| VM inventory | `poller.py` | `vm_states` | `refresh_vm_names`, `_vm_name_map` |
| Failure alerts | `alerts.py` | `alerts_sent` (type `backup_failure`) | `send_backup_failure_alert` |
| Storage monitoring | `storage.py`, `alerts.py` | `storage_snapshots`, `alerts_sent` (type `storage_threshold`) | `poll_storage`, `send_storage_alert` |
| Main process | `main.py` | the scheduler's jobs, `kv`: `last_poll_time`, `node` | start-up, poll cycle, heartbeat, shutdown |
| Connection adapter | `database.py` | the raw connection, its transaction, its `closed` flag | `execute`, `commit`, `rollback`, reconnect |
| Migrations | `database.py`, `migrations/` | `schema_migrations` | `migrate` |
| Web server | `web.py` | a lock, a connection of its own | `_dispatch`, basic auth |
| Dashboard, API, metrics | `web.py` | none (reads the database) | `_build_data`, `_build_metrics` |
| Weekly digest | `digest.py` | none (reads the database) | `send_weekly_digest` |
| Configuration | `config.py` | settings | validators |

### How they interact

`main()` runs start-up, the import and the first poll on the main thread; from
then on APScheduler runs `_poll_cycle` and the digest on its worker threads, and
`ThreadingHTTPServer` runs one thread per web request. The poll cycle and the
digest share one connection; the web server has its own, guarded by a lock
(with the in-memory database it shares the poller's). Components never call each
other back: the database is the only state they share, except for the list of
new failures that `poll_backup_tasks` hands to the alert loop, which exists in
memory alone.

### What is hard

* **A result is committed before its alert.** Only a list in memory remembers
  that an alert is owed; crashes, aborted cycles and failed deliveries fall
  between the row and the alert, and between the delivery and its record.
* **One connection, several threads.** The poll cycle and the digest share a
  transaction, request handlers share another (in memory mode the same one); a dead socket is
  noticed by whichever thread calls next, a statement that fails in a job leaves its
  PostgreSQL transaction aborted for good, and `send_storage_alert` commits in the middle of the transaction
  of `poll_storage`.
* **Silent requests.** A node that does not answer, a log that cannot be read and
  a delivery that fails are logged and passed over; what the code then concludes
  (history imported, batch processed, alert recorded) outlives the fault.
* **Boundaries.** Midnight in a dedup key, the purge against a poll without a
  lower bound, a window that starts inside a UTC day.
* **The life of the process.** The first cycle runs outside the scheduler,
  SIGTERM meets running jobs, start-up fails when Proxmox is silent.
* **A new release.** A rolling update lets two pods poll one database, migrations meet
  the open transactions of the old pod, and a startup probe limits the import.

`PROJECT.json` lists 40 hazards of these kinds, each at its line.

### What makes each part correct

| Part | It is correct when |
|---|---|
| Poller, import, alerts | a row is the final result of a finished task; what was in the log before the import is never news; a failure is alerted, owed, or accounted for; no recorded alert is repeated; every result is stored in the end, unless a transaction is left aborted |
| Batch log parser | the results are those of the finished sections, nothing carried over |
| Storage | one report a day, none lost for good while the connection works; a record means a delivery; no sample of a finished poll is lost |
| Connection, web server | a commit that returns has stored the whole transaction, unless a thread named as an exception has thrown rows away; requests do not mix; the web server survives failed statements and dead sockets, the jobs dead sockets |
| Main process | never two cycles at a time; after SIGTERM nothing new starts and nothing is cut short; polling and pinging resume after any fault but a transaction left aborted on PostgreSQL |
| Migrations, rollout | a version on record is in effect whole; the schema moves from version to version; a new release comes up |
| Two pods | a failure is accounted for by one of them, and told twice only if both had it in hand |
| Dashboard, digest | a dot tells its whole day; page, metrics and digest agree; a failure disappears only for a reason; a full pool is shown |
| Inventory | what is shown of a cluster id is the last list stored under it |

## 2. Modules

| Module | Models | Extends |
|---|---|---|
| `BackupPoller` | `import_history`, `poll_backup_tasks`, batches, `send_backup_failure_alert`, start-up purge, crash and abort | |
| `BackupLedger` | abstract: a ledger of results and a set of debts | |
| `BackupRefinement` | the mapping from `BackupPoller` to `BackupLedger` | `BackupPoller` |
| `BackupProofs` | theorems about the poller and that it implements the ledger | `BackupRefinement` |
| `Overlap`, `OverlapProofs` | two processes on one database | two instances of `BackupPoller`, of `BackupProofs` |
| `StorageAlerts`, `StorageProofs` | `poll_storage`, `send_storage_alert`, the date, the storage cards | |
| `Connections`, `ConnectionProofs` | `database.Connection` and the threads that use it: poll job, digest, `_dispatch` | |
| `Schema` | abstract: a schema that is always that of a version | |
| `Migrations` | `migrate()` in several processes, on both dialects | an instance of `Schema` |
| `Rollout` | the migrations, the import and the readiness of new pods next to an old one | `Migrations` |
| `MigrationProofs` | theorems about `Migrations` and `Rollout` | `Rollout` |
| `Monitor`, `MonitorProofs` | `main()`, the scheduler, the heartbeat, signals, restarts | |
| `BatchLog` | `_parse_batch_log`, line by line | |
| `Dashboard`, `DashboardProofs` | `_build_data`, `_build_metrics`, `build_digest_data` over the stored results | |
| `VmInventory` | `refresh_vm_names`, `get_vms`, `_vm_name_map`, the list of the page | |
| `ProxmoxProofs` | theorems about what is made of the answers of Proxmox | `BatchLog`, `VmInventory` |
| `MC*` | the small instances TLC checks | the module of that name |

`map` in `PROJECT.json` names, for each definition, the lines it stands for. A
definition whose name ends in a suffix (`Listed_Running`) and whose comment
begins with "Mutant:" is a plausible bug. Each checked property has one that
TLC must reject.

### 2.1 BackupPoller

State: `task`, `outcome`, `aged` are Proxmox (what has started, ended with which
exit status, and begun more than `HISTORY_DAYS` ago); `rows`, `processed`,
`imported`, `alerts` are the tables `backup_results`, `kv` and `alerts_sent`;
`pc`, `todo`, `known`, `batch`, `parsed`, `failed`, `cur`, `emailOk` are what the
process holds in memory. Six history variables are read by no guard.

The code commits after each insert and each kv write, so each such call is one
action: `StoreSingle`, `StoreGuest`, `CloseBatch` (the `batch_processed` key),
`ImportDone`, `Purge`, `RecordEmail`, `RecordDiscord`, `RecordFailed`. A fetch
reads the task list once (`ImportFetch`, `PollFetch`, the latter with the known
UPIDs). Between any two actions the process may crash (`Crash`) or a database
call may raise (`Abort`). In `main()` that ends the process; in the scheduled job
APScheduler logs it, and what becomes of the next run depends on what failed. After a
broken socket, or on SQLite (fault `"error"`), it starts afresh. After a statement that
PostgreSQL refuses (fault `"wedge"`) the connection stays in an aborted transaction: no job
rolls back, so every later poll raises at its first query and nothing is stored, delivered or
recorded (`pc = "wedged"`), until the process ends or the server closes the connection, which
`_live()` then replaces (`Reconnect`). Nothing makes that happen. With
`Persistent = FALSE` (`DATABASE_URL=memory`) the end of the process wipes the
tables.

Abstracted: the order in which listed tasks, guests and failures are gone
through is arbitrary; task lists have no limit of 500; a single task may end
without an exit status, a VM in a batch log may not (that is
`BatchLog`'s matter); the guests of a batch grow old with their batch; a commit
that raises is taken to be done or not done, never half; "ERR" is any status that
is a failure. Dedup by `LIKE %upid%` is modelled by what it matches: UPIDs of one
batch whose VM id continues the other's digits.

### 2.2 BackupLedger

What the poller promises without tasks, batches, cycles or faults: a result
enters once and truly; it may become a debt when it enters; only debts are told;
a debt leaves when a note covers it or together with all the others (the process
lost its memory); entries expire. `BackupRefinement` maps `rows` to the ledger,
`failed` to the debts, `alerts` to the notes and `delivered` to what was told.

### 2.3 StorageAlerts

A pool is `<<node, storage id>>`. `Fetch` asks each node, `Sample` inserts the row
of one pool and calls `send_storage_alert` if it is above the threshold; the
alert is sent and recorded in the five steps of its code, and each `_record_alert`
commits the samples in the open transaction too (`Committed`). `Tick` is the
clock: a day has `Hours` hours, and as records of yesterday match no key of
today only today's are kept. `dated` says that the key of the running call still
has today's date. A message counts for the day on which it arrives (`mailed`, `twice`); one that
arrives under yesterday's key is in `late` as well. Faults are those of
`BackupPoller`, the one that leaves the connection of the jobs useless included.

### 2.4 Connections

`link` is a raw connection (`"up"`, `"dead"`: the server has dropped the socket and
nobody knows, `"closed"`: a call has found out), `txn` its transaction. `Execute`,
`ExecuteRaises`, `Commit`, `CommitRaises`, `Rollback` and `RollbackRaises` are the
outcomes of the adapter's methods. The drivers serialise calls on one connection, so a
call is one step; `_live()` is not such a call and is a step of its own (`FindClosed`)
when it finds the connection closed: two threads may both find it so, and the one that opens
later throws away what the other has written (`Kept`). The threads are
the poll job (a transaction of several rows, such as `poll_storage`'s), the digest
(queries on the same connection) and the request handlers (lock, queries, then
rollback outside the lock). The dialects are `"sqlite"`, `"postgres"` and `"memory"`; in the
last one the web server uses the connection of the jobs (`ConnOf`). `dropped` holds the threads other than
the poll that have thrown away rows of it, `MayDrop` those that can: the digest on PostgreSQL, the
handlers in memory mode. Rows an earlier poll has left in the transaction are not tracked.

### 2.5 Monitor

`main` is where the main thread is; `cycle[t]` is the phase of the poll cycle that
runs in the main thread or in a worker; `job` and `scheduler` are APScheduler's.
A phase asks Proxmox (and does not raise when it is silent) or fails with the
database. `conn` is the jobs' connection: after a refused statement it is `"aborted"`, and each later
phase with a query raises (`QueryRaises`), until the process ends or the server closes the
connection (`Reconnect`). APScheduler is modelled as `main.py` uses it: a job without a next run
time is paused, `max_instances = 1`, `shutdown(wait=False)` takes on no more work,
and the interpreter joins the threads of the pool at exit. A signal before the
handler is installed is a `Kill`.

### 2.6 BatchLog

The log grows by one line at a time and the loop body of `_parse_batch_log` is the
action. The specification is separate and declarative: `Sections` are the pairs of
a start line and the finish line that ends it, `Says` is what such a section says.

### 2.7 Dashboard, digest, storage cards, VmInventory

`Dashboard` holds `rows` (results with a start time and the cluster id they were stored
under; statuses are "OK" and "ERR"; one result per start time and VM), `vms`, the
cluster id of the process, and a clock. The operators follow `_build_data`, `_build_metrics` and `build_digest_data`;
the actions change what they read: late results, purges, VMs that come and go, a
restart with another `PVE_HOST`, time. The storage cards are the operator `Cards` of
`StorageAlerts`, over the committed samples. `VmInventory` holds the
snapshots of `vm_states`, each under the cluster id of the process that took it: a refresh looks at and
deletes rows of its own id (`Fresh`, `Spared`), the page and the purge take those of all ids (`Latest`, `Purge`).
A snapshot is one transaction and is fresh for `Repeat` ticks, the 60 seconds of the code; `GetVms` falls
back from the cluster API to the configured node; a restart with another `PVE_HOST` or `PVE_NODE`
(`Reconfigure`) takes a tick, so that two processes never sample at one time.

### 2.8 Schema, Migrations, Rollout

A migration file is its statements, `<<version, position>>`, of which the model knows the
table they alter and whether they can be repeated (`ALTER COLUMN`) or fail when their
effect is there (`CREATE TABLE`, `ADD COLUMN`). `applied` is what `migrate()` read before its
loop; on PostgreSQL `pend` is the open transaction, which `Record` commits together with
the version; on SQLite each statement takes effect by itself. PostgreSQL lets an
`ALTER TABLE` wait for every open transaction that has used the table, and everybody
who comes later queues behind it (`Free`, `Wait`). In `Migrations` the
other sessions do whatever those locks allow (`OtherSessions`); in `Rollout` they are
the web server of the old pod (reads, never ends its transaction after a page) and its poll
job (commits). A new pod migrates, imports (`ImportSingle`, `ImportBatch`: requests for
logs, of which a failed single task needs one at each start and a batch one for good),
and is ready; the startup probe kills it after `Budget` requests or while it waits
for a transaction nobody ends. SQLite is one process at a time, without an old pod.

### 2.9 Overlap

`Old` and `New` are two instances of `BackupPoller` with the tables, Proxmox and the history
variables in common and memories of their own. The rollout begins with the old process
idle; the old process gets its SIGTERM after the first cycle of the new one and
finishes the cycle it is in. An `INSERT` is the upsert it is in the code: it overwrites
the row of the same upid.

## 3. Runs

| Run | Instance | Shows |
|---|---|---|
| `poller_safety` | one single task and one batch on two nodes, two VMs, email, two faults of: crash, broken socket, refused statement, failed delivery; 347 thousand states | type, `RowsAreFaithful`, `FailuresAccountedFor`, `ProcessedMeansParsed`, `AlertsAreForNewFailures`, `HistoryIsNotNews` |
| `poller_delivery` | the same tasks, one VM, both channels, two faults of all seven kinds; 106 thousand | `AtMostOnce`, the refinement `LedgerSpec`, `EventuallyStored`, `EventuallySettled` |
| `overlap` | two pods, one batch of two VMs, a crash, a refused statement or a failed delivery in either; 820 thousand | `EitherAccountsForIt`, `ProcessedMeansParsed`, `TwiceOnlyTogether` |
| `storage_faults` | one storage id on two nodes, days of two hours, both channels, two faults of six kinds; 296 thousand | type, `OncePerDay`, `MarksTellTheTruth`, `PollIsWhole`, `EventuallyReported`, `EventuallyShown` |
| `conn` | poll, digest, two handlers, two rows, SQLite, PostgreSQL and memory mode, three failing statements or server restarts; 198 thousand | type, `CommitIsWhole`, `NeverWedged`, `WebRecovers`, `OnlyAbortsEndPolling` |
| `rollout` | two new pods, the four migrations in shape, every earlier version, both dialects, an old pod or none, two batches and two single tasks against a budget of three requests, one crash; 111 thousand | type, `RecordedIsWhole`, the refinement `SchemaSpec`, `ReleaseComesUp` |
| `monitor` | three of: broken socket, refused statement, silent Proxmox, SIGTERM, kill; 2.6 thousand | type, `OnePollAtATime`, `GracefulExit`, `MonitoringRecovers` |
| `batch_log` | all logs of up to five lines about two VMs; 66 thousand | type, `AsTheLogSays` |
| `dashboard` | two VMs, two cluster ids, three results, days of two ticks, windows of two days; 436 thousand | `DotsTellTheDay`, `PageAndMetricsAgree`, `DigestAndPageAgree`, `FailuresStayVisible`, `ResolvedBySuccess` |
| `inventory` | two VMs, two names, two cluster ids with a node each, snapshots fresh for two ticks, a history of two; 326 thousand | `InventoryIsTheAnswer` |
| `find_prefix`, `find_wedge` | the smallest instance | a violation each, section 5 |

**Why the bounds are enough.** The poller's steps depend on one upid, on whether
its batch is open, and on the dedup of two upids of one batch: one single task, one
batch and two VMs give every combination, on two nodes so that one can be silent.
Two faults give a crash in the recovery from a crash. Two hours make a midnight with time on both sides; two pools of one
id make the dedup meet itself. Three faults give a dead socket, a failing
statement, and one of them during recovery. Five lines hold two sections with an
error in the second, or one section between lines that belong to none. Three days and a tick hold
a day inside the window, one cut by its start, and one purged. Two pods
on one batch give every order of two inserts, two closings and two alerts, with a fault in
between. Two migrating pods meet at every version; of the nine statements of 001 three stand for all,
a first, a middle and a last one; four requests against a budget of three need a second start.
Two cluster ids whose nodes hold one VM each let an old id know a VM that the new one never lists.

**Fairness.** Only what the surroundings promise: `Process` (weak) because the
container is restarted when it exits (`restart: unless-stopped`, Kubernetes), the
interval trigger keeps firing and no call is taken to block for ever (the HTTP
clients have timeouts; SMTP without an answer is left out); in `Connections` that
the server comes back, that the threads run, and that requests keep
coming (the readiness probe asks `/readyz` for ever); in `Monitor` that Proxmox
comes back too; in `Rollout` that the old pod polls and answers the
requests it has got, that new pods are restarted, that the server resolves deadlocks
and that the cluster probes and retires pods. No fairness is given to faults, to tasks, pools or VMs, to `DigestDue`, nor to
`Reconnect`: nobody promises that the server closes a wedged connection. Faults are bounded (`MaxFaults`), which is how "eventually" can
be meant: after the last fault.

Deadlock is checked except in `BatchLog`, `Dashboard` and `VmInventory`, whose bounded
logs and clocks run out, and in `Rollout`, which is over once the new pods are ready.

Some properties name an exception, each a case in which the code does fail:

* `EventuallyStored`, `EventuallyReported`, `EventuallyShown` and `MonitoringRecovers`: a connection of
  the jobs left for good in an aborted transaction (`find_wedge`). The other faults, and crashes
  before and after it, are in these runs as well.
* `OncePerDay`: the record of the first report was lost, or midnight came between the key of a report and its
  arrival, so that it is on record for the day before.
* `CommitIsWhole`: a thread of `MayDrop` has thrown rows away, the digest on PostgreSQL (`FindConn.cfg`) or
  a request handler that rolls back in memory mode.
* `InventoryIsTheAnswer`: a VM that only an earlier cluster id knows stays listed until a purge, and a VM
  that two ids know is shown as the later one has it.
* `ReleaseComesUp`: a crash inside a migration on SQLite, after which every start is refused by what is
  there already, and a page of the old web server, whose transaction stays open and keeps its tables from
  being altered.

The import comes to its end only because the single tasks alone fit into one start,
an assumption of `Rollout` (`Singles < Budget`).

## 4. Proofs

Each holds for every value of the constants that its module's `ASSUME` allows.

**Poller** (`BackupProofs`). `IInv` joins the type invariant with: `CurInv` (a failure
is current exactly while one is being sent), `OutcomeInv`, `LoopInv` (what the loops
hold), `KnownInv` (the UPIDs read at the start of the poll are exact for what
the poll has still to do, though rows are inserted meanwhile), `FailedInv`
(failures in memory are stored and were found by a poll), `DeliveryInv`
(a delivery that could be repeated has a record, lost it, or is being recorded),
`BatchInv` (while a batch is open each of its results is stored or still to be
stored) and `ImportInv` (until the import is over the process does nothing else). From it:
`TypeCorrect`, `RowsTellTheTruth`, `NoFailureSlipsAway`, `NoRepeats`,
`OnlyNewFailures`, and `ProcessedIsComplete` under the assumption `"log" \notin Faults`:
with it gone the theorem is false. `KnownInv` is the
heart: without it a poll could insert or report what an interrupted one has
already stored.

`HistoryStaysHistory` is `HistoryIsNotNews`. Its hypothesis, that neither a node nor a log
was silent (`"node"`, `"log"` not in `Faults`), is the one under which the run checks it: `FindImport.cfg`
shows what a silent node does. The property nests one "always" in another, so the proof
has an invariant of its own for the time after the import has started, `OldNews(u)`: a result that
was in the log then is aged, or imported, or still to be imported by a process that polls
nothing before it has been, whatever crashes in between; `OldNewsStep` shows that each step keeps it.

Two of the documented promises of section 5 hold exactly under a condition, which is a theorem:
`UninterruptedForgetsNothing` (no crash and no database error of either kind, everything else
failing as it may: a cycle that is over has forgotten no failure and told none twice) and `OneAlertEach`
(no VM id continues the digits of another: a failure's own alert is on record, not that of a
longer id). `FindForgotten.cfg` and the run `find_prefix` show that neither condition can go.

**Refinement** (`BackupProofs`). `LedgerImplemented`: `Spec => LedgerSpec`.
Initial states map to initial states, and each action of the poller, faults
included, is a step of the ledger or a stutter; the invariant above supplies that
what enters is final and that what is told is owed.

**Storage** (`StorageProofs`). `CurInv`, `ReportInv` (what has arrived today is on record, or being recorded,
or its record was lost, or it was `late`), `RecordInv` (after midnight has overtaken a call nothing is on record
yet, and what has arrived is that call's own, in `late`) and `SampleInv` (each
sample of the poll is still to be taken, in the open transaction, or committed)
give `StorageTypeCorrect`, `ReportedOncePerDay`, `RowsMeanReports` and the action property `NoSampleLost`.

**Connections** (`ConnectionProofs`). `LockInv`, `LocalInv` (SQLite, in a file or in memory, loses no connection and
aborts no transaction) and `PollInv` (as long as the poll can
still commit, the transaction that holds its first row holds them all, unless a thread of `MayDrop` has
dropped some) give `CommitsAreWhole`, with the digest, the handlers and in all three modes, `RequestsExclude`,
`WebIsNeverWedged` and `ConnectionTypeCorrect`. `NeverDropped`, the same without the exception, is false on
PostgreSQL (`FindConn.cfg`) and a theorem on SQLite (`NothingDroppedOnSqlite`).

**Migrations** (`MigrationProofs`). Proved for any migrations, any number of processes and any other
sessions. `InOrder` (versions are recorded as a prefix of the files, and what a process
passes over is a prefix of that), `PendInv` (an open transaction holds statements of one file),
`DoneInv` (what a process has passed of its file is in effect or in its transaction) and
`NothingTorn` (PostgreSQL has nothing in effect of an unrecorded version) give `MigrationsTypeCorrect`, `RecordedWhole`, and
`SchemaImplemented`: on PostgreSQL `migrate()` implements `Schema`. `InOrder` is what makes the
step of `Record` one of `Schema`: a second process that commits the same version cannot, its
version being on record. `RolloutImplements` shows that each step of `Rollout` is one of `Migrations` or a
stutter, so `RolloutRecordedWhole` and `RolloutSchema` follow without a second proof. `RolloutTypeCorrect` is about the pods.

**Dashboard** (`DashboardProofs`). The arithmetic of days and windows is in `DaysAreWhole`: whatever
starts on one of the last `n` days starts within `n` times the length of a day, though the
window opens inside a day. With it and `OneResultAtATime` follow, for windows, days and
histories of any length, `DotsTellTheirDays`, `FailuresAreKept`, `MetricsAgree`, `FailuresAreResolved`,
`DigestTellsTheSame` and `DashboardTypeCorrect`. `FailuresStayVisible` needs `History >= Days`, which it states, and
`DigestAndPageAgree` a window of the page no shorter than that of the digest.

**Two pods** (`OverlapProofs`). The invariant says of each process what `BackupProofs` says of one,
weakened by what the other may do to it: `KnownStored` (every known UPID has its row or is beyond
the history; no longer that every row is known) in the place of `KnownInv`, and `DeliveryInv(hands, both)`, which
allows for the failure the other one is sending and for those both have had in hand
(`DeliveryInv({}, {})` is that of a process alone). The lemmas of `BackupProofs` are stated for such a process
and used through its two instances; what is new is that a step of one leaves what the other
knows (`OldBesideNew`, `NewBesideOld`): rows disappear only when aged, keys and alerts never. It gives
`TwoInvariant`, `TwoTypeCorrect`, `NoFailureFallsBetween`, `TwiceIsTogether` and,
with `"log" \notin Faults`, `EitherCompletes`. The constants are those of the poller with
`Persistent = TRUE`: two pods without a database share nothing.

**Batch log** (`ProxmoxProofs`). `ResultsAreAsTheLogSays` and `LogTypeCorrect`, for logs of any length and any
lines. The invariant is `OpenInv`: the loop's `vm` is that of the one start line that nothing has
ended yet, and its status and time are what the lines since then say; without an open
section there is no `vm`. One line then ends the open section, or changes what it says, or neither, and the
sections finished before are those of the shorter log.

**Inventory** (`ProxmoxProofs`). For any cluster ids and any history. `RowsInv` (every row is of a VM of the last
list of its id and no newer than it), `AnswerInv` (the rows of the last list of an id are there until a
purge takes all of them), `NamesInv` (a list names a VM once) and `TimesInv` (no two ids have stored a list at one time,
so that the latest sample of a VM is one row) give `InventoryShown` and `InventoryTypeCorrect`.

**Main process** (`MonitorProofs`). `OwnerInv` (the main thread polls before the job is resumed,
and never after) gives `PollsExclude`, `ExitsGracefully` and `MonitorTypeCorrect`.

**Model-checked only:** the liveness properties, whose proofs need fairness and `ENABLED`, outside the
prover's reach: `EventuallyStored`, `EventuallySettled`, `EventuallyReported`, `EventuallyShown`, `WebRecovers`,
`OnlyAbortsEndPolling`, `MonitoringRecovers` and `ReleaseComesUp`.

## 5. Where the code and what is said of it part

Two of the runs end in a counterexample:

* `find_prefix`: `OneAlertPerUpid`. The alert for VM 1000 of a batch suppresses that
  for VM 100 (`alerts.py:25`).
* `find_wedge`: `PollingRecovers`. After one failed statement on PostgreSQL
  no poll succeeds until the process restarts (`database.py:36`: no job rolls back).

The modules state further sentences of the documentation that TLC refutes. They
are not among the runs; each has a configuration of its own, to be run on the
`MC` module of its component. A configuration that stands for several properties
checks the first; the others take its place in the last line.

| Configuration | Property | The text | What happens |
|---|---|---|---|
| `FindForgotten.cfg` | `NoFailureForgotten` | README.md:402 "For any new failure, sends an immediate alert" | a crash between the row and the alert loses the alert |
| `FindLog.cfg` | `ProcessedMeansParsed` | poller.py:99 "Parse a batch task log, insert per-VM results" | a log that could not be read marks the batch processed |
| `FindBeyond.cfg` | `NothingBeyondHistory` | main.py:114 "Purge old records beyond HISTORY_DAYS" | the first poll stores the purged single tasks again |
| `FindImport.cfg` | `HistoryIsNotNews` | README.md:396 "imports the last `HISTORY_DAYS` of backup tasks from all cluster nodes" | a node silent during the import has its old failures alerted |
| `FindStorage.cfg` | `NoPoolOverlooked` | README.md:16 "alerts when any pool crosses the threshold" | pools of one name on two nodes share a key |
| `FindStorage.cfg` | `OncePer24Hours` | alerts.py:143 "one per storage per 24h" | the key holds the date: two reports around midnight |
| `FindStorage.cfg` | `AlreadySentMeansSent` | alerts.py:23 "True if we already sent this alert" | an alert that failed everywhere silences the day |
| `FindStorage.cfg` | `FullPoolsAreShown` | README.md:261 "`storage` array, one object per pool" | of two pools of one name and size the card shows that of the first node, full or not |
| `FindConn.cfg` | `NeverDropped` | database.py:31 "an open transaction is never dropped silently" | the digest finds the dead socket, the poll commits the rest on a new connection |
| `FindConn.cfg` | `SingleThreaded` | web.py:983 "the web server's connection is single-threaded" | the rollback runs outside the lock |
| `FindConn.cfg` | `NoSecondError` | database.py:62 "would turn every error handler into a second error" | the rollback is the call that meets the dead socket |
| `FindDigest.cfg` | `NoDigestInMemory` | README.md:389 "Weekly digest is not available" | the job is added in memory mode too |
| `FindUnfinished.cfg` | `ErrorsAreReported` | README.md:401 "parses per-VM start/finish/error lines" | a section without its finish line has no result, its error included |
| `FindPage.cfg` | `LastSuccessIsKept` | README.md:298 "`0` if the VM has never had a successful backup" | one failure makes it 0 |
| `FindPage.cfg` | `StaleIsReported` | README.md:299 "`-1`=stale (>8 days ago)" | the branch cannot be reached with a last backup |
| `FindPage.cfg` | `UnresolvedIsTheLast` | README.md:242 "whose *most recent* backup is a failure" | not counted once outside the window |
| `FindPage.cfg` | `BackedUpInTheWindow` | README.md:239 "at least one successful backup in the window" | a last success from before the window counts |
| `FindPage.cfg` | `SuccessInTheWindowCounts` | README.md:239 "at least one successful backup in the window" | a success on a day with a failure does not count |
| `FindPage.cfg` | `AllOkMeansBackedUp` | digest.py:143 ", all OK" | VMs without any backup are not counted |
| `FindBlind.cfg` | `PingMeansReached` | README.md:171 "the silence also catches "container up but Proxmox unreachable"" | a cycle in which Proxmox answers nothing pings all the same |
| `FindReads.cfg` | `ReadsDoNotDisturb` | main.py:151 the reads "can't disturb the poller's transaction" | the migration waits for the page's transaction, the old poll waits behind the migration |
| `FindOverlap.cfg` | `NeverTwice` | alerts.py:92 "Deduplicated: one alert per UPID." | two pods find the failure before either has recorded its alert |
| `FindName.cfg` | `NamesAreCurrent` | poller.py:16 "from the most recent vm_states snapshot" | any kept name may win |

`PollerMemory.cfg` checks `FailuresAccountedFor` and `HistoryIsNotNews` in memory
mode, where every restart wipes the tables: both hold.

## 6. Not modelled, and hazards without a property

* **A silent Proxmox** and the heartbeat, **the name of a VM**, **pools of one name on two nodes**, **an alert
  that failed everywhere**, **the last success** and a success from before the window: what can be said is
  refuted (`FindBlind.cfg`, `FindName.cfg`, `FindStorage.cfg`, `FindPage.cfg`), so these hazards have no property.
* **The limit of 500 tasks** (`proxmox.py:81`): the task lists of `BackupPoller` have no
  end. What lies beyond the limit is never seen, and no statement of the repository
  says how many tasks there may be.
* **Dates and time zones**: the times of a batch log are opaque, so that
  `proxmox.py:220` reads them in the container's zone is not seen.
* **A changed cluster id** is in `Dashboard` and `VmInventory`; that every poll then finds the old
  failures new is not: `BackupPoller` has one id.
* **Unattributed failures** (`web.py:811`): no row has `vmid` 0, because `build_task_info`
  returns nothing for it and the lines of a batch log name a VM. The query finds nothing.
* **Purges of storage samples**: `StorageAlerts` keeps the newest sample of each pool.
* **SMTP without an answer**: no call of the models blocks for ever.
* **Configuration** (`config.py`): validated once at start-up; its outcomes are the constants
  of the modules and their assumptions. **Basic auth**: a comparison of strings without
  state. **HTTP, HTML, the scripts of the page, images and secrets**: no control flow that
  the properties could tell apart. **Translation of placeholders, UPID parsing, texts of
  alerts**: data.

## 7. Plan

Done: the poller with ledger and refinement, storage with its cards, connections, the main process, the
batch log, dashboard with metrics and digest, inventory, migrations and rollout, the overlap of two pods, and the proofs of section 4.

Open, in order of importance:

1. Safety lemmas behind the liveness properties: which action is enabled in each phase of the poller
   and what decreases from one to the next, so that only fairness is left to TLC.
2. `Overlap` as an implementation of `BackupLedger`: two pods repeat what both had in hand, so
   the ledger needs a second way to tell.
3. A cluster id in `BackupPoller`, and two batches in `overlap`.
