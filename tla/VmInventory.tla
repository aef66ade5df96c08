----------------------------- MODULE VmInventory -----------------------------
(***************************************************************************)
(* The VMs pvewatch knows of: refresh_vm_names, the snapshots it keeps in  *)
(* vm_states, and what is read from them: the inventory of the dashboard   *)
(* and the names that go into results and alerts.                          *)
(*                                                                         *)
(* A snapshot is written in one transaction, of one time and under the id  *)
(* of the process's cluster.  The id is that of PVE_HOST and PVE_NODE: a   *)
(* restart with others makes a new one, and the rows of the old one stay.  *)
(***************************************************************************)
EXTENDS Integers, FiniteSets

CONSTANTS
    Vm,          \* VM ids
    Cluster,     \* cluster ids
    Local,       \* [Cluster -> the VMs on the configured node]
    Name,        \* VM names
    Repeat,      \* how long a snapshot counts as fresh: 60 seconds, in ticks
    History,     \* HISTORY_DAYS, in ticks
    End,         \* bound on the time
    Absent

ASSUME VmInventoryAssumption ==
    /\ Local \in [Cluster -> SUBSET Vm] /\ Absent \notin Name
    /\ Repeat \in Nat \ {0} /\ History \in Nat \ {0} /\ End \in Nat

VARIABLES
    now,         \* the time
    guests,      \* [Vm -> its name, or Absent while it does not exist]
    api,         \* what answers: "cluster" | "node" | "none"
    cluster,     \* the cluster id of the running process
    rows,        \* vm_states: [vm, name, at, cluster]
    \* history variables, read by no guard
    answer,      \* [Cluster -> the last list stored, as pairs of VM and name]
    stored       \* [Cluster -> when that was]

vars == <<now, guests, api, cluster, rows, answer, stored>>
-----------------------------------------------------------------------------
(* Proxmox and the clock *)

\* A VM is created, renamed, moved to another id, or deleted, in the cluster that
\* is polled; after a change of PVE_HOST that is another one.
Change(v, name) ==
    /\ guests' = [guests EXCEPT ![v] = name]
    /\ UNCHANGED <<now, api, cluster, rows, answer, stored>>

\* The cluster API fails alone or together with the node's own.
Reaches(level) ==
    /\ api' = level
    /\ UNCHANGED <<now, guests, cluster, rows, answer, stored>>

Tick ==
    /\ now < End
    /\ now' = now + 1
    /\ UNCHANGED <<guests, api, cluster, rows, answer, stored>>
-----------------------------------------------------------------------------
(* The code *)

\* _ensure_cluster, after a restart with another PVE_HOST or PVE_NODE; a restart
\* takes a tick, so that no two processes take a snapshot at one time.
Reconfigure(c) ==
    /\ c # cluster /\ now < End
    /\ now' = now + 1 /\ cluster' = c
    /\ UNCHANGED <<guests, api, rows, answer, stored>>

\* get_vms: the whole cluster, or the configured node for want of it
GetVms ==
    LET visible == IF api = "cluster" THEN Vm ELSE Local[cluster]
    IN  {<<v, guests[v]>> : v \in {u \in visible : guests[u] # Absent}}

RowsOf(c) == {r \in rows : r.cluster = c}

\* A snapshot of the last 60 seconds is not repeated.
Fresh == \E r \in RowsOf(cluster) : now - r.at < Repeat

Sampled(list) == {[vm |-> p[1], name |-> p[2], at |-> now, cluster |-> cluster] : p \in list}

\* Mutant: VMs that are gone are not deleted
Spared_KeepGone == rows
\* Rows the DELETE leaves: of other ids, and of VMs that are listed
Spared == {r \in rows : r.cluster # cluster \/ \E p \in GetVms : p[1] = r.vm}

\* refresh_vm_names: VMs that are not listed lose their rows, unless none is.
Refresh ==
    /\ ~Fresh /\ api # "none" /\ GetVms # {}
    /\ rows' = Spared \cup Sampled(GetVms)
    /\ answer' = [answer EXCEPT ![cluster] = GetVms]
    /\ stored' = [stored EXCEPT ![cluster] = now]
    /\ UNCHANGED <<now, guests, api, cluster>>

\* DELETE FROM vm_states WHERE sampled_at < cutoff, at start-up, whatever the id
Purge ==
    /\ rows' = {r \in rows : r.at >= now - History}
    /\ UNCHANGED <<now, guests, api, cluster, answer, stored>>

\* _build_data: the latest sample of each VM, whatever the id
Latest == {r \in rows : \A q \in rows : q.vm = r.vm => q.at <= r.at}

\* _vm_name_map: of the distinct names of a VM the dictionary keeps the last row
\* the query returns, and the query has no order.
NameMap(v) == {r.name : r \in {q \in RowsOf(cluster) : q.vm = v}}
-----------------------------------------------------------------------------
Init ==
    /\ now = 0 /\ cluster \in Cluster
    /\ guests \in [Vm -> Name \cup {Absent}]
    /\ api = "cluster" /\ rows = {}
    /\ answer = [c \in Cluster |-> {}] /\ stored = [c \in Cluster |-> 0]

Next ==
    \/ \E v \in Vm, name \in Name \cup {Absent} : Change(v, name)
    \/ \E level \in {"cluster", "node", "none"} : Reaches(level)
    \/ \E c \in Cluster : Reconfigure(c)
    \/ Tick \/ Refresh \/ Purge

Spec == Init /\ [][Next]_vars
-----------------------------------------------------------------------------
(* Properties *)

\* Every variable has its type.
TypeOK ==
    /\ now \in 0..End /\ cluster \in Cluster
    /\ guests \in [Vm -> Name \cup {Absent}]
    /\ api \in {"cluster", "node", "none"}
    /\ rows \subseteq [vm : Vm, name : Name, at : 0..End, cluster : Cluster]
    /\ answer \in [Cluster -> SUBSET (Vm \X Name)]
    /\ stored \in [Cluster -> 0..End]

\* The last list of a cluster id is there, until a start-up has found it older than
\* the history.
Listing(c) == RowsOf(c) # {} \/ stored[c] >= now - History

\* The dashboard shows a VM once, as the last list of a cluster id has it: none that
\* was gone by then, and under the name of then.  It shows every VM of the last list
\* of each id, unless another id has a later sample of the VM.  So under one PVE_HOST
\* and PVE_NODE it shows the last list and nothing else; after a change of them it
\* goes on showing VMs that only the old id knows, gone or not, until a start-up
\* purges them.
InventoryIsTheAnswer ==
    /\ \A r \in Latest : r.at = stored[r.cluster] /\ <<r.vm, r.name>> \in answer[r.cluster]
    /\ \A r, q \in Latest : r.vm = q.vm => r = q
    /\ \A c \in {d \in Cluster : Listing(d)} : \A p \in answer[c] :
          \E r \in rows : /\ r.vm = p[1]
                          /\ (r.cluster = c /\ r \in Latest) \/ r.at > stored[c]

\* poller.py: "Return {vmid: name} from the most recent vm_states snapshot."
NamesAreCurrent ==
    \A r \in RowsOf(cluster) : r.at = stored[cluster] => NameMap(r.vm) = {r.name}
-----------------------------------------------------------------------------
(* The inductive invariant behind InventoryIsTheAnswer *)

\* Every row is of a VM of the last list of its id, no newer than that list, and is
\* of the list if it came with it.
RowsInv ==
    \A r \in rows :
        /\ r.at <= stored[r.cluster]
        /\ \E p \in answer[r.cluster] : p[1] = r.vm
        /\ r.at = stored[r.cluster] => <<r.vm, r.name>> \in answer[r.cluster]

\* The rows of the last list are there until a start-up purges them with all others.
AnswerInv ==
    \A c \in Cluster : Listing(c) =>
        \A p \in answer[c] :
            [vm |-> p[1], name |-> p[2], at |-> stored[c], cluster |-> c] \in rows

\* A list names a VM once.
NamesInv == \A c \in Cluster : \A p, q \in answer[c] : p[1] = q[1] => p = q

\* No two ids have stored a list at one time, and only the running process may have
\* stored one in this.
TimesInv ==
    /\ \A c \in Cluster : stored[c] <= now /\ (c # cluster /\ answer[c] # {} => stored[c] < now)
    /\ \A c, d \in Cluster :
          c # d /\ answer[c] # {} /\ answer[d] # {} => stored[c] # stored[d]

IInv == TypeOK /\ TimesInv /\ NamesInv /\ RowsInv /\ AnswerInv
=============================================================================
