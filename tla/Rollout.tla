------------------------------- MODULE Rollout --------------------------------
(***************************************************************************)
(* A new release of pvewatch meets the database of the old one: the        *)
(* rolling update of k8s/deployment.yaml, in which the old pod serves until *)
(* a new one is ready, or a plain restart, in which there is no old pod.   *)
(*                                                                         *)
(* A pod is ready once it has migrated (Migrations), imported the history, *)
(* and started its web server.  A startup probe kills it when that takes   *)
(* too long.  The old pod has two sessions: its web server reads tables    *)
(* and never commits, its poll job commits.                                *)
(***************************************************************************)
EXTENDS Migrations, Sequences

CONSTANTS
    Budget,      \* log requests an import can make before the probe kills the pod
    Singles,     \* failed single-VM tasks in the log, at most
    Batches,     \* batch tasks in the log, at most
    MaxKills     \* crashes and deadlocks that end a pod, besides the kills of the probe

ASSUME RolloutAssumption ==
    /\ Session = {"web", "jobs"}
    /\ Table = {"vm_states", "backup_results", "storage_snapshots"}
    /\ Budget \in Nat /\ Singles \in Nat /\ Batches \in Nat /\ MaxKills \in Nat
    /\ Singles < Budget

VARIABLES
    old,         \* the old pod: "serving" | "gone"
    act,         \* [Session -> "rest" | "busy" | "wedged" | "gone"]
    agenda,      \* [Session -> the tables its request or cycle has still to use]
    imported,    \* the history_imported key is set
    batches,     \* batches without a batch_processed key
    singles,     \* failed single-VM tasks, which every import asks for
    left,        \* [Pod -> those this import has still to ask for]
    spent,       \* [Pod -> log requests of this import]
    ready,       \* pods whose web server answers
    kills        \* crashes so far

oldPod  == <<old, act, agenda>>
import  == <<imported, batches, singles, left, spent>>
vars    == <<migrationVars, oldPod, import, ready, kills>>
-----------------------------------------------------------------------------
(* The sessions of the old pod *)

\* _build_data, and one _poll_cycle: refresh_vm_names, _known_upids, _vm_name_map,
\* then the inserts of poll_storage (those into tables used before are no news)
Plan(s) ==
    IF s = "web" THEN <<"vm_states", "backup_results", "storage_snapshots">>
                 ELSE <<"vm_states", "backup_results", "vm_states", "storage_snapshots">>

Begin(s) ==
    /\ act[s] = "rest"
    /\ act' = [act EXCEPT ![s] = "busy"]
    /\ agenda' = [agenda EXCEPT ![s] = Plan(s)]
    /\ UNCHANGED <<migrationVars, old, import, ready, kills>>

Use(s) ==
    /\ act[s] = "busy" /\ agenda[s] # <<>>
    /\ Free(s, Head(agenda[s]))
    /\ locks' = [locks EXCEPT ![s] = @ \cup {Head(agenda[s])}]
    /\ want' = [want EXCEPT ![s] = None]
    /\ agenda' = [agenda EXCEPT ![s] = Tail(@)]
    /\ UNCHANGED <<dialect, db, mine, old, act, import, ready, kills>>

Queue(s) ==
    /\ act[s] = "busy" /\ agenda[s] # <<>> /\ want[s] = None
    /\ ~Free(s, Head(agenda[s]))
    /\ want' = [want EXCEPT ![s] = Head(agenda[s])]
    /\ UNCHANGED <<dialect, db, mine, locks, oldPod, import, ready, kills>>

\* The page is sent; nothing ends the transaction its queries have begun.
Answer ==
    /\ act["web"] = "busy" /\ agenda["web"] = <<>>
    /\ act' = [act EXCEPT !["web"] = "rest"]
    /\ UNCHANGED <<migrationVars, old, agenda, import, ready, kills>>

\* The transaction of s is over, and with it its place in the queue.
Release(s) ==
    /\ locks' = [locks EXCEPT ![s] = {}]
    /\ want' = [want EXCEPT ![s] = None]

\* A request fails for a reason of its own: _dispatch rolls back.
RequestFails ==
    /\ act["web"] = "busy" /\ want["web"] = None
    /\ Release("web")
    /\ act' = [act EXCEPT !["web"] = "rest"]
    /\ agenda' = [agenda EXCEPT !["web"] = <<>>]
    /\ UNCHANGED <<dialect, db, mine, old, import, ready, kills>>

\* Mutant: the poll's commits are left out
Commit_Never ==
    /\ act["jobs"] = "busy" /\ want["jobs"] = None
    /\ agenda["jobs"] = <<>>
    /\ act' = [act EXCEPT !["jobs"] = IF agenda["jobs"] = <<>> THEN "rest" ELSE @]
    /\ UNCHANGED <<migrationVars, old, agenda, import, ready, kills>>
\* A commit of the poll: one ends the cycle, those before it depend on what
\* there was to store.
Commit ==
    /\ act["jobs"] = "busy" /\ want["jobs"] = None
    /\ locks["jobs"] # {} \/ agenda["jobs"] = <<>>
    /\ Release("jobs")
    /\ act' = [act EXCEPT !["jobs"] = IF agenda["jobs"] = <<>> THEN "rest" ELSE @]
    /\ UNCHANGED <<dialect, db, mine, old, agenda, import, ready, kills>>

\* The server finds that s and a pod wait for one another, and fails s: the web
\* server rolls back, the poll job does not (see Connections).
SessionVictim(s) ==
    /\ \E p \in Pod :
          pc[p] = "wait" /\ want[s] \in altered[p] /\ TableOf[Stmt(p)] \in locks[s]
    /\ Release(s)
    /\ act' = [act EXCEPT ![s] = IF s = "web" THEN "rest" ELSE "wedged"]
    /\ agenda' = [agenda EXCEPT ![s] = <<>>]
    /\ UNCHANGED <<dialect, db, mine, old, import, ready, kills>>

\* Once a new pod is ready the old one is told to go.
OldLeaves ==
    /\ old = "serving" /\ ready # {}
    /\ old' = "gone"
    /\ act' = [s \in Session |-> "gone"]
    /\ agenda' = [s \in Session |-> <<>>]
    /\ locks' = [s \in Session |-> {}] /\ want' = [s \in Session |-> None]
    /\ UNCHANGED <<dialect, db, mine, import, ready, kills>>
-----------------------------------------------------------------------------
(* The pods of the new release *)

MigrateStep(p) ==
    /\ Start(p) \/ ReadApplied(p) \/ Skip(p) \/ Execute(p) \/ Wait(p) \/ Record(p) \/ Finish(p)
    /\ left' = [left EXCEPT ![p] = singles]
    /\ spent' = [spent EXCEPT ![p] = 0]
    /\ UNCHANGED <<oldPod, imported, batches, singles, ready, kills>>

\* import_history of a failed single-VM task asks for its log in every start;
\* the log of a batch is not asked for again once its key is set.
Importing(p) == pc[p] = "migrated" /\ p \notin ready /\ ~imported

ImportSingle(p) ==
    /\ Importing(p) /\ left[p] > 0 /\ spent[p] < Budget
    /\ left' = [left EXCEPT ![p] = @ - 1]
    /\ spent' = [spent EXCEPT ![p] = @ + 1]
    /\ UNCHANGED <<migrationVars, oldPod, imported, batches, singles, ready, kills>>

\* Mutant: the batch_processed key is not looked at
ImportBatch_Again(p) ==
    /\ Importing(p) /\ spent[p] < Budget
    /\ batches' = batches - 1
    /\ spent' = [spent EXCEPT ![p] = @ + 1]
    /\ UNCHANGED <<migrationVars, oldPod, imported, singles, left, ready, kills>>
ImportBatch(p) ==
    /\ Importing(p) /\ batches > 0 /\ spent[p] < Budget
    /\ batches' = batches - 1
    /\ spent' = [spent EXCEPT ![p] = @ + 1]
    /\ UNCHANGED <<migrationVars, oldPod, imported, singles, left, ready, kills>>

\* kv_set(history_imported) after the loop, the purge, the first poll and the start
\* of the web server are one step.  What ends the process between them leaves what
\* Crash leaves before it, or after it once the key is set.
BecomeReady(p) ==
    /\ pc[p] = "migrated" /\ p \notin ready
    /\ ~imported => left[p] = 0 /\ batches = 0
    /\ imported' = TRUE
    /\ ready' = ready \cup {p}
    /\ UNCHANGED <<migrationVars, oldPod, batches, singles, left, spent, kills>>

Ends(p) ==
    /\ ready' = ready \ {p}
    /\ UNCHANGED <<oldPod, import>>

Raise(p) == Raises(p) /\ Ends(p) /\ UNCHANGED kills
Fault == kills < MaxKills /\ kills' = kills + 1
Deadlock(p) == Victim(p) /\ Fault /\ Ends(p)
Crash(p) == Kill(p) /\ Fault /\ Ends(p)

\* The startup probe has failed for ten minutes: the import is too long, or the
\* pod waits for a transaction that nobody is about to end.
ProbeKills(p) ==
    /\ \/ Importing(p) /\ spent[p] = Budget /\ (left[p] > 0 \/ batches > 0)
       \/ pc[p] = "wait" /\ TableOf[Stmt(p)] \in locks["web"]
    /\ Kill(p) /\ Ends(p) /\ UNCHANGED kills
-----------------------------------------------------------------------------
Init ==
    /\ MigrationsInit
    /\ old \in {"serving", "gone"}
    /\ old = "serving" => dialect = "postgres" /\ recorded # {}
    /\ act = [s \in Session |-> IF old = "serving" THEN "rest" ELSE "gone"]
    /\ agenda = [s \in Session |-> <<>>]
    /\ imported \in BOOLEAN
    /\ old = "serving" => imported
    /\ recorded = {} => ~imported
    /\ batches \in (IF imported THEN {0} ELSE 0..Batches)
    /\ singles \in (IF imported THEN {0} ELSE 0..Singles)
    /\ left = [p \in Pod |-> singles] /\ spent = [p \in Pod |-> 0]
    /\ ready = {} /\ kills = 0

Sessions(s) == Begin(s) \/ Use(s) \/ Queue(s)
NewPod(p) ==
    MigrateStep(p) \/ ImportSingle(p) \/ ImportBatch(p) \/ BecomeReady(p) \/ Raise(p)
Resolve == (\E p \in Pod : Deadlock(p)) \/ (\E s \in Session : SessionVictim(s))

Next ==
    \/ \E s \in Session : Sessions(s)
    \/ Answer \/ RequestFails \/ Commit
    \/ OldLeaves \/ Resolve
    \/ \E p \in Pod : NewPod(p) \/ Crash(p) \/ ProbeKills(p)

\* The old pod keeps polling and answers the requests it has got, the new pods
\* are restarted when they end, the server resolves deadlocks, and the cluster
\* probes and retires pods.  Nothing is assumed of requests and crashes.
Fairness ==
    /\ WF_vars(Sessions("jobs") \/ Commit)
    /\ WF_vars(Use("web") \/ Queue("web") \/ Answer)
    /\ WF_vars(OldLeaves) /\ WF_vars(Resolve)
    /\ \A p \in Pod : WF_vars(NewPod(p)) /\ WF_vars(ProbeKills(p))

Spec == Init /\ [][Next]_vars /\ Fairness
-----------------------------------------------------------------------------
(* Properties *)

RolloutOK ==
    /\ old \in {"serving", "gone"}
    /\ act \in [Session -> {"rest", "busy", "wedged", "gone"}]
    /\ agenda \in [Session -> Seq(Table)]
    /\ batches \in 0..Batches /\ singles \in 0..Singles
    /\ left \in [Pod -> 0..Singles] /\ spent \in [Pod -> 0..Budget]
    /\ ready \subseteq Pod
    /\ kills \in 0..MaxKills

\* Every variable has its type.
TypeOK == MigrationsTypeOK /\ RolloutOK /\ imported \in BOOLEAN

\* A statement of a migration is in effect whose version is not on record.
Torn == \E s \in schema : s[1] \notin recorded

\* The new release comes up for good, however pods are killed, whatever the old
\* one polls meanwhile and however many starts the import takes.  Two things can
\* prevent it: a crash inside a migration on SQLite, whose statements are then
\* executed again and refused at every start, and a page of the old web server,
\* whose transaction keeps the tables from being altered.
ReleaseComesUp ==
    \/ <>[](ready # {})
    \/ <>[](dialect = "sqlite" /\ Torn)
    \/ []<>(locks["web"] # {})

\* main.py: the reads of the web server "can't disturb the poller's transaction".
\* The old pod's poll does not stop for ever while it serves.
ReadsDoNotDisturb == []<>(act["jobs"] # "busy")
===============================================================================
