------------------------------ MODULE Dashboard ------------------------------
(***************************************************************************)
(* What the dashboard, /api/status, /metrics and the weekly digest say of  *)
(* the backups: _build_data, _build_metrics and build_digest_data over the *)
(* stored results, as time passes, results come in late, start-ups purge   *)
(* the old ones, and a new PVE_HOST or PVE_NODE makes another cluster id.  *)
(*                                                                         *)
(* A result has a VM, a start time and a status, "ERR" standing for all    *)
(* but "OK".  Results of one VM have different start times.  Time counts   *)
(* ticks, DayLength of them to a day of UTC.                               *)
(***************************************************************************)
EXTENDS Integers, FiniteSetsExt

CONSTANTS
    Vm,          \* VM ids
    Cluster,     \* cluster ids
    DayLength,   \* ticks in a day
    Days,        \* the window of the request, in days
    Week,        \* that of the digest
    History,     \* HISTORY_DAYS
    StaleAfter,  \* 8 days, in ticks
    End,         \* bound on the time
    MaxRows,     \* bound on the results kept
    None

ASSUME DashboardAssumption ==
    /\ {DayLength, Days, Week, History, StaleAfter} \subseteq Nat \ {0}
    /\ End \in Nat /\ MaxRows \in Nat
    /\ None \notin {"OK", "ERR", ""}

VARIABLES
    now,         \* the time
    vms,         \* VMs in the latest vm_states snapshot
    cluster,     \* the cluster id of the running process
    rows         \* backup_results: [vm, start, status, cluster]

vars == <<now, vms, cluster, rows>>
-----------------------------------------------------------------------------
(* _build_data *)

Ok(status) == status \in {"OK", ""}

Today == now \div DayLength

\* Mutant: the window is a day too short
Since_Short == now - (Days - 1) * DayLength
Since == now - Days * DayLength

Shown == Today - Days + 1 .. Today

ResultsOf(v) == {r \in rows : r.vm = v}
Window(v)    == {r \in ResultsOf(v) : r.start >= Since}
OnDay(v, d)  == {r \in Window(v) : r.start \div DayLength = d}

\* Mutant: a success of the day takes the place of a failure
Dot_AnyOk(v, d) ==
    IF OnDay(v, d) = {} THEN "none"
    ELSE IF \E r \in OnDay(v, d) : Ok(r.status) THEN "ok" ELSE "fail"
\* _vm_day_dots: a failure of the day wins
Dot(v, d) ==
    IF OnDay(v, d) = {} THEN "none"
    ELSE IF \A r \in OnDay(v, d) : Ok(r.status) THEN "ok" ELSE "fail"

Count(v, dot) == Cardinality({d \in Shown : Dot(v, d) = dot})

\* Mutant: the first result is taken for the most recent one
Latest_First(v) == {r \in ResultsOf(v) : \A q \in ResultsOf(v) : r.start <= q.start}
\* The most recent result, if there is one
Latest(v) == {r \in ResultsOf(v) : \A q \in ResultsOf(v) : q.start <= r.start}

LastStatus(v) == IF Latest(v) = {} THEN None ELSE (CHOOSE r \in Latest(v) : TRUE).status
LastRun(v)    == IF Latest(v) = {} THEN 0 ELSE (CHOOSE r \in Latest(v) : TRUE).start
Stale(v)      == Latest(v) # {} /\ now - LastRun(v) > StaleAfter

\* Mutant: recovered VMs are counted too
Unresolved_AnyFailure == {v \in vms : Count(v, "fail") > 0}
\* The sets behind the numbers of the summary
BackedUp   == {v \in vms : Count(v, "ok") > 0 \/ LastStatus(v) = "OK"}
Unresolved == {v \in vms : Count(v, "fail") > 0 /\ LastStatus(v) \notin {"OK", "", None}}
Never      == {v \in vms : Latest(v) = {}}
-----------------------------------------------------------------------------
(* _build_metrics *)

\* pvewatch_backup_last_success_timestamp_seconds
LastSuccess(v) == IF LastStatus(v) = "OK" THEN LastRun(v) ELSE 0

\* pvewatch_backup_last_status
StatusGauge(v) ==
    IF LastStatus(v) = "OK" THEN 1
    ELSE IF LastStatus(v) \notin {"", None} THEN 0
    ELSE IF Stale(v) THEN -1 ELSE -2
-----------------------------------------------------------------------------
(* build_digest_data *)

DigestRows == {r \in rows : r.cluster = cluster /\ r.start >= now - Week * DayLength}
DigestVms  == {r.vm : r \in DigestRows}

DigestShown == Today - Week + 1 .. Today

DigestDay(v, d) == {r \in DigestRows : r.vm = v /\ r.start \div DayLength = d}

\* Mutant: the rows come newest first
DigestDot_Oldest(v, d) ==
    IF DigestDay(v, d) = {} THEN "none"
    ELSE IF \E r \in DigestDay(v, d) : Ok(r.status) /\ \A q \in DigestDay(v, d) : r.start <= q.start
    THEN "ok" ELSE "fail"
\* _vm_dots: the last result of the day wins
DigestDot(v, d) ==
    IF DigestDay(v, d) = {} THEN "none"
    ELSE IF \E r \in DigestDay(v, d) : Ok(r.status) /\ \A q \in DigestDay(v, d) : q.start <= r.start
    THEN "ok" ELSE "fail"

Failures(v) == {r \in DigestRows : r.vm = v /\ ~Ok(r.status)}

\* The subject says ", all OK".
AllOk == \A v \in DigestVms : Failures(v) = {}
-----------------------------------------------------------------------------
(* What changes the data *)

\* A poll stores the result of a backup that started at some earlier time.  One
\* that is there already keeps its cluster id.
Store(v, start, status) ==
    /\ Cardinality(rows) < MaxRows
    /\ start <= now /\ ~\E r \in ResultsOf(v) : r.start = start
    /\ rows' = rows \cup {[vm |-> v, start |-> start, status |-> status,
                         cluster |-> cluster]}
    /\ UNCHANGED <<now, vms, cluster>>

\* DELETE FROM backup_results WHERE start_time < cutoff, at start-up
Purge ==
    /\ rows' = {r \in rows : r.start >= now - History * DayLength}
    /\ UNCHANGED <<now, vms, cluster>>

\* refresh_vm_names: VMs come and go.
Refresh(inventory) ==
    /\ vms' = inventory
    /\ UNCHANGED <<now, cluster, rows>>

Tick ==
    /\ now < End
    /\ now' = now + 1
    /\ UNCHANGED <<vms, cluster, rows>>

\* _ensure_cluster, after a restart with another PVE_HOST or PVE_NODE
Reconfigure(c) ==
    /\ cluster' = c
    /\ UNCHANGED <<now, vms, rows>>

Init == now = 0 /\ vms = Vm /\ cluster \in Cluster /\ rows = {}

Next ==
    \/ Tick \/ Purge
    \/ \E v \in Vm, start \in 0..End, status \in {"OK", "ERR"} : Store(v, start, status)
    \/ \E inventory \in SUBSET Vm : Refresh(inventory)
    \/ \E c \in Cluster : Reconfigure(c)

Spec == Init /\ [][Next]_vars
-----------------------------------------------------------------------------
(* Properties *)

\* Every variable has its type.
TypeOK ==
    /\ now \in 0..End /\ vms \subseteq Vm /\ cluster \in Cluster
    /\ rows \subseteq [vm : Vm, start : 0..End, status : {"OK", "ERR"}, cluster : Cluster]

\* Each dot tells its whole day: no result of a shown day is cut off by the start
\* of the window, which falls inside a day, and a failure is never outshone by a
\* success of the same day.
DotsTellTheDay ==
    \A v \in vms, d \in Shown :
        LET day == {r \in rows : r.vm = v /\ r.start \div DayLength = d}
        IN  /\ Dot(v, d) = "none" <=> day = {}
            /\ Dot(v, d) = "fail" <=> \E r \in day : r.status = "ERR"

\* A failure that is shown stays shown until its day has left the window,
\* late results and purges notwithstanding (HISTORY_DAYS at least the window).
FailuresStayVisible ==
    [][History >= Days =>
       \A v \in vms \cap vms' : \A d \in Shown \cap Shown' :
           Dot(v, d) = "fail" => Dot(v, d)' = "fail"]_vars

\* A VM stops being an unresolved failure only through a newer success, or when
\* nothing of it is shown any more.
ResolvedBySuccess ==
    [][\A v \in (Unresolved \cap vms') \ Unresolved' :
          \/ \E r \in rows' \ rows :
                r.vm = v /\ r.status = "OK" /\ \A q \in ResultsOf(v) : q.start < r.start
          \/ \A d \in Shown' : Dot(v, d)' # "fail"]_vars

\* The summary of the page and the gauges of /metrics, computed by different rules
\* from the same results, do not contradict each other on what the window holds: a
\* VM whose last backup succeeded is not unresolved, and backed up if that backup is
\* of a shown day; one whose last backup failed is unresolved if that is of a shown
\* day, and only then or while an older failure is shown; it is backed up only with a
\* good day to show.  -2 is for the VMs counted as never backed up, which are not
\* backed up.
PageAndMetricsAgree ==
    \A v \in vms :
        LET lastIsShown == LastRun(v) \div DayLength \in Shown
            goodDay     == \E d \in Shown : Dot(v, d) = "ok"
            badDay      == \E d \in Shown : Dot(v, d) = "fail"
        IN  /\ StatusGauge(v) = 1 => v \notin Unresolved /\ (lastIsShown => v \in BackedUp)
            /\ StatusGauge(v) = 0 => /\ lastIsShown => v \in Unresolved
                                     /\ v \in Unresolved <=> badDay
                                     /\ v \in BackedUp <=> goodDay
            /\ v \in Never <=> StatusGauge(v) = -2
            /\ v \in Never => v \notin BackedUp \cup Unresolved

\* The digest and the page of the same days, computed by different rules, tell the
\* same story but for two things: a failure that a success followed on the same
\* day, and results from before the cluster id changed, which the digest leaves
\* out.  A digest that says "all OK" hides no other failure.
DigestAndPageAgree ==
    Week <= Days =>
    \A v \in Vm, d \in DigestShown :
        LET before  == {r \in OnDay(v, d) : r.cluster # cluster}
            undone  == {f \in OnDay(v, d) : \E r \in OnDay(v, d) : r.status = "OK" /\ f.start < r.start}
        IN  /\ DigestDot(v, d) = "fail" => Dot(v, d) = "fail"
            /\ DigestDot(v, d) = "none" <=> OnDay(v, d) = before
            /\ DigestDot(v, d) = "ok" /\ Dot(v, d) = "fail" =>
                  \E f \in before \cup undone : f.status = "ERR"
            /\ AllOk /\ Dot(v, d) = "fail" => \E f \in before : f.status = "ERR"

\* digest.py: the subject line says ", all OK".  Every VM of the inventory then has
\* a success in that week.
AllOkMeansBackedUp ==
    AllOk /\ DigestVms # {} => \A v \in vms : \E r \in DigestRows : r.vm = v /\ Ok(r.status)

\* README.md: "Unix timestamp of the most recent *successful* backup. `0` if the
\* VM has never had a successful backup."
LastSuccessIsKept ==
    \A v \in vms : LastSuccess(v) = Max({0} \cup {r.start : r \in {q \in ResultsOf(v) : q.status = "OK"}})

\* README.md: "`-1`=stale (>8 days ago)".
StaleIsReported == \A v \in vms : Stale(v) => StatusGauge(v) = -1

\* README.md: "VMs whose *most recent* backup is a failure (not yet recovered)".
UnresolvedIsTheLast == Unresolved = {v \in vms : LastStatus(v) = "ERR"}

\* README.md: "VMs with at least one successful backup in the window".  A VM that is
\* counted has one, and a VM that has one is counted.
BackedUpInTheWindow == \A v \in BackedUp : \E r \in Window(v) : r.status = "OK"
SuccessInTheWindowCounts ==
    \A v \in vms : (\E r \in Window(v) : r.status = "OK") => v \in BackedUp
-----------------------------------------------------------------------------
(* The inductive invariant behind the properties *)

\* A VM has one result for a start time, so that one is the most recent.
OneResultAtATime == \A r, q \in rows : r.vm = q.vm /\ r.start = q.start => r = q

IInv == TypeOK /\ OneResultAtATime
=============================================================================
