---------------------------- MODULE StorageAlerts ----------------------------
(***************************************************************************)
(* Storage monitoring: poll_storage samples every pool of the cluster and  *)
(* send_storage_alert reports the pools above the threshold, at most once  *)
(* a day per storage id.                                                   *)
(*                                                                         *)
(* A pool is <<node, storage id>>.  A sample is "high" when used_pct has   *)
(* reached storage_alert_threshold, else "low".  The dedup key is          *)
(* storage:{storage_id}:{date}, so a record of an earlier day matches no   *)
(* key of today: the records of the current day are all that is kept, and  *)
(* the clock is the hour of the day.                                       *)
(*                                                                         *)
(* The dashboard and the digest read the newest sample of each pool.       *)
(***************************************************************************)
EXTENDS Integers, FiniteSets

CONSTANTS
    Node,        \* cluster nodes
    Pool,        \* the pools, a set of <<node, storage id>>
    Size,        \* [Pool -> its total capacity]
    Rank,        \* [Node -> its place in the order of the names]
    Like,        \* <<id, id>>: the first, as a LIKE pattern ("_" is any
                 \* character), matches the second
    Hours,       \* hours in a day
    Channels,    \* the configured alert channels
    Faults,      \* the kinds of fault this instance may suffer
    MaxFaults,   \* how many of them
    None

Id     == {p[2] : p \in Pool}
Target == {"email", "discord"}

ASSUME StorageAssumption ==
    /\ \A p \in Pool : p[1] \in Node
    /\ None \notin Pool
    /\ Size \in [Pool -> Nat] /\ Rank \in [Node -> Nat]
    /\ \A m, n \in Node : Rank[m] = Rank[n] => m = n
    /\ Like \subseteq Id \X Id /\ \A i \in Id : <<i, i>> \in Like
    /\ Hours \in Nat /\ Hours > 1
    /\ Channels \subseteq Target /\ Channels # {}
    /\ Faults \subseteq {"crash", "error", "wedge", "node", "email", "discord"}
    /\ MaxFaults \in Nat

VARIABLES
    \* the cluster and the clock
    level,       \* [Pool -> "low" | "high"]
    hour,        \* hour of the day
    \* the database
    latest,      \* [Pool -> newest committed sample, "none" for none]
    pending,     \* pools whose sample is inserted but not committed
    marks,       \* today's alerts_sent rows, <<storage id, target>>
    \* the process
    pc,          \* what poll_storage or send_storage_alert does next
    seen,        \* [Pool -> the sample get_storage returned, "none" if left out]
    todo,        \* pools the loop has not reached
    cur,         \* the pool send_storage_alert is working on
    emailOk,     \* email_ok of that call
    dated,       \* the date in its key is still today's
    \* history variables, read by no guard
    faults,      \* faults so far
    mailed,      \* <<storage id, channel>> that reached the user today
    twice,       \* those that did so more than once
    late,        \* those that did so under a key of an earlier day
    orphaned,    \* those whose record was lost or never written
    since        \* [Id -> hours since a message about the id arrived, Hours for
                 \* a day or more]

env     == <<level, hour>>
db      == <<latest, pending, marks>>
sending == <<cur, emailOk, dated>>
loop    == <<seen, todo>>
told    == <<mailed, twice, late, since>>
history == <<faults, told, orphaned>>
vars    == <<env, db, pc, loop, sending, history>>
-----------------------------------------------------------------------------
\* Mutant: dedup looks at the rows of one channel only
AlreadySent_Email(i) == \E m \in marks : <<i, m[1]>> \in Like /\ m[2] = "email"
\* _alert_already_sent for today's key
AlreadySent(i) == \E m \in marks : <<i, m[1]>> \in Like

Fault(kind) == kind \in Faults /\ faults < MaxFaults /\ faults' = faults + 1

\* Before get_storage has answered
Unseen == [p \in Pool |-> "none"]

\* What a commit makes of the samples
Committed == [p \in Pool |-> IF p \in pending THEN seen[p] ELSE latest[p]]
-----------------------------------------------------------------------------
(* The cluster and the clock *)

Fill(p) ==
    /\ \E l \in {"low", "high"} \ {level[p]} : level' = [level EXCEPT ![p] = l]
    /\ UNCHANGED <<hour, db, pc, loop, sending, history>>

\* Mutant: the key has no date, so the records of earlier days still match
Tick_NoDate ==
    /\ hour' = (hour + 1) % Hours
    /\ since' = [i \in Id |-> IF since[i] < Hours THEN since[i] + 1 ELSE Hours]
    /\ IF hour' = 0
       THEN mailed' = {} /\ twice' = {} /\ late' = {} /\ orphaned' = {}
       ELSE UNCHANGED <<mailed, twice, late, orphaned>>
    /\ UNCHANGED <<level, latest, pending, marks, dated, pc, loop, cur, emailOk, faults>>
\* Midnight puts the records, and a key under construction, in the past.
Tick ==
    /\ hour' = (hour + 1) % Hours
    /\ since' = [i \in Id |-> IF since[i] < Hours THEN since[i] + 1 ELSE Hours]
    /\ IF hour' = 0
       THEN /\ marks' = {} /\ dated' = (cur = None)
            /\ mailed' = {} /\ twice' = {} /\ late' = {} /\ orphaned' = {}
       ELSE UNCHANGED <<marks, dated, mailed, twice, late, orphaned>>
    /\ UNCHANGED <<level, latest, pending, pc, loop, cur, emailOk, faults>>
-----------------------------------------------------------------------------
(* poll_storage *)

\* Mutant: the pools of a silent node are sampled all the same
Fetch_SilentToo(R) ==
    /\ pc = "idle"
    /\ \/ R = Node /\ UNCHANGED faults
       \/ R # Node /\ Fault("node")
    /\ seen' = [p \in Pool |-> IF p[1] \in R THEN level[p] ELSE "unknown"]
    /\ todo' = Pool
    /\ pc' = "sampling"
    /\ UNCHANGED <<env, db, sending, told, orphaned>>
\* get_storage: the nodes that answer; the others are only logged
Fetch(R) ==
    /\ pc = "idle"
    /\ \/ R = Node /\ UNCHANGED faults
       \/ R # Node /\ Fault("node")
    /\ seen' = [p \in Pool |-> IF p[1] \in R THEN level[p] ELSE "none"]
    /\ todo' = {p \in Pool : p[1] \in R}
    /\ pc' = "sampling"
    /\ UNCHANGED <<env, db, sending, told, orphaned>>

\* INSERT INTO storage_snapshots; above the threshold send_storage_alert, which
\* returns at once when today's key is on record
Sample(p) ==
    /\ pc = "sampling" /\ p \in todo
    /\ todo' = todo \ {p}
    /\ pending' = pending \cup {p}
    /\ IF seen[p] = "high" /\ ~AlreadySent(p[2])
       THEN cur' = p /\ emailOk' = FALSE /\ dated' = TRUE /\ pc' = "email"
       ELSE UNCHANGED <<pc, sending>>
    /\ UNCHANGED <<env, latest, marks, seen, history>>

CommitPoll ==
    /\ pc = "sampling" /\ todo = {}
    /\ latest' = Committed /\ pending' = {}
    /\ seen' = Unseen
    /\ pc' = "idle"
    /\ UNCHANGED <<env, marks, todo, sending, history>>
-----------------------------------------------------------------------------
(* send_storage_alert *)

\* The message reaches the user, today, whatever the date in its key.
Reach(c) ==
    /\ since' = [since EXCEPT ![cur[2]] = 0]
    /\ mailed' = mailed \cup {<<cur[2], c>>}
    /\ twice' = twice \cup (mailed \cap {<<cur[2], c>>})
    /\ late' = IF dated THEN late ELSE late \cup {<<cur[2], c>>}

SendOk(c) == c \in Channels /\ Reach(c) /\ UNCHANGED faults

\* Not configured, or the call raised before or after the message was taken
SendFails(c) ==
    \/ c \notin Channels /\ UNCHANGED <<faults, told>>
    \/ c \in Channels /\ Fault(c) /\ (Reach(c) \/ UNCHANGED told)

SendEmail ==
    /\ pc = "email"
    /\ \/ SendOk("email") /\ pc' = "emailed"
       \/ SendFails("email") /\ pc' = "discord"
    /\ UNCHANGED <<env, db, loop, sending, orphaned>>

SendDiscord ==
    /\ pc = "discord"
    /\ \/ SendOk("discord") /\ pc' = "discorded"
       \/ SendFails("discord") /\ pc' = IF emailOk THEN "settled" ELSE "failing"
    /\ UNCHANGED <<env, db, loop, sending, orphaned>>

\* Mutant: the record of an alert discards the open transaction
RecordAlert_Discards(target) ==
    /\ marks' = IF dated THEN marks \cup {<<cur[2], target>>} ELSE marks
    /\ pending' = {}
    /\ UNCHANGED <<env, latest, loop, cur, dated, history>>
\* _record_alert; its commit takes the samples inserted so far with it
RecordAlert(target) ==
    /\ marks' = IF dated THEN marks \cup {<<cur[2], target>>} ELSE marks
    /\ latest' = Committed /\ pending' = {}
    /\ UNCHANGED <<env, loop, cur, dated, history>>

RecordEmail ==
    /\ pc = "emailed" /\ RecordAlert("email")
    /\ emailOk' = TRUE /\ pc' = "discord"

RecordDiscord ==
    /\ pc = "discorded" /\ RecordAlert("discord")
    /\ pc' = "settled" /\ UNCHANGED emailOk

\* Mutant: the row of an undelivered alert names a channel
RecordFailed_AsEmail ==
    /\ pc = "failing" /\ RecordAlert("email")
    /\ pc' = "settled" /\ UNCHANGED emailOk
RecordFailed ==
    /\ pc = "failing" /\ RecordAlert("failed")
    /\ pc' = "settled" /\ UNCHANGED emailOk

AlertDone ==
    /\ pc = "settled"
    /\ cur' = None /\ emailOk' = FALSE /\ dated' = TRUE
    /\ pc' = "sampling"
    /\ UNCHANGED <<env, db, loop, history>>
-----------------------------------------------------------------------------
(* Faults *)

\* The call ends where it is.  A delivery not yet recorded never will be.
Drop ==
    /\ todo' = {} /\ seen' = Unseen /\ cur' = None /\ emailOk' = FALSE /\ dated' = TRUE
    /\ orphaned' = orphaned \cup {x \in mailed : cur # None /\ x[1] = cur[2]}
    /\ pending' = {}
    /\ UNCHANGED <<env, marks, told>>

\* A database call raises and nobody rolls back.  On SQLite the next commit takes
\* the samples along, with a broken socket they are gone; either way the next poll
\* starts afresh ("error").  A statement that fails on PostgreSQL ("wedge"), in this
\* job or in another that shares its connection, leaves the connection in an
\* aborted transaction: every later poll raises at its first query.
Abort ==
    /\ Drop
    /\ \/ /\ pc \notin {"idle", "email", "discord", "settled", "wedged"}
          /\ Fault("error")
          /\ latest' \in {latest, Committed} /\ pc' = "idle"
       \/ /\ pc \notin {"email", "discord", "settled", "wedged"}
          /\ Fault("wedge")
          /\ UNCHANGED latest /\ pc' = "wedged"

\* The server closes the wedged connection, and _live() opens another.
Reconnect ==
    /\ pc = "wedged"
    /\ pc' = "idle"
    /\ UNCHANGED <<env, db, loop, sending, history>>

Crash ==
    /\ pc # "idle"
    /\ Fault("crash")
    /\ UNCHANGED latest
    /\ Drop
    /\ pc' = "idle"
-----------------------------------------------------------------------------
(* What is shown of the pools *)

Sampled == {p \in Pool : latest[p] # "none"}

\* Mutant: the key of a sample is put among the seen ones before it is looked up
Cards_SeenFirst == {p \in Sampled : \A q \in Sampled :
             q[2] = p[2] /\ Size[q] = Size[p] => Rank[p[1]] < Rank[q[1]]}
\* _dedup_storage: of the samples of one name and size, in the order of the nodes,
\* the first; the gauges of /metrics are those of the cards.
Cards == {p \in Sampled : \A q \in Sampled :
             q[2] = p[2] /\ Size[q] = Size[p] => Rank[p[1]] <= Rank[q[1]]}
-----------------------------------------------------------------------------
Init ==
    /\ level \in [Pool -> {"low", "high"}]
    /\ hour = 0
    /\ latest = [p \in Pool |-> "none"] /\ pending = {} /\ marks = {}
    /\ pc = "idle" /\ seen = Unseen /\ todo = {}
    /\ cur = None /\ emailOk = FALSE /\ dated = TRUE
    /\ faults = 0
    /\ mailed = {} /\ twice = {} /\ late = {} /\ orphaned = {}
    /\ since = [i \in Id |-> Hours]

Process ==
    \/ \E R \in SUBSET Node : Fetch(R)
    \/ \E p \in todo : Sample(p)
    \/ SendEmail \/ RecordEmail \/ SendDiscord \/ RecordDiscord \/ RecordFailed \/ AlertDone
    \/ CommitPoll

Next == Tick \/ (\E p \in Pool : Fill(p)) \/ Process \/ Abort \/ Reconnect \/ Crash

\* The scheduler keeps calling poll_storage, which never blocks for ever; time
\* passes; nothing is assumed of the pools, of the faults, or of what the server
\* does with a wedged connection.
Spec == Init /\ [][Next]_vars /\ WF_vars(Process) /\ WF_vars(Tick)
-----------------------------------------------------------------------------
(* Properties *)

Sending == {"email", "emailed", "discord", "discorded", "failing", "settled"}

FlagsOK == emailOk \in BOOLEAN /\ dated \in BOOLEAN

ValuesOK ==
    /\ level \in [Pool -> {"low", "high"}]
    /\ hour \in 0..(Hours - 1)
    /\ latest \in [Pool -> {"none", "low", "high"}]
    /\ pending \subseteq Pool
    /\ marks \subseteq Id \X (Target \cup {"failed"})
    /\ pc \in {"idle", "sampling", "wedged"} \cup Sending
    /\ seen \in [Pool -> {"none", "low", "high"}]
    /\ todo \subseteq Pool
    /\ cur \in Pool \cup {None}
    /\ faults \in 0..MaxFaults
    /\ mailed \subseteq Id \X Target
    /\ twice \subseteq mailed
    /\ late \subseteq mailed
    /\ orphaned \subseteq mailed
    /\ since \in [Id -> 0..Hours]

\* Every variable has its type.
TypeOK == FlagsOK /\ ValuesOK

\* A storage id is reported at most once per day and channel, over any number of
\* polls, faults and restarts, but for two cases: the record of the first report
\* was never written, or that report was under way at midnight, arrived today and
\* is on record as one of yesterday.
OncePerDay == twice \subseteq orphaned \cup late

\* alerts_sent tells the truth: a row that names a channel stands for a message
\* that reached the user today over that channel.
MarksTellTheTruth == \A m \in marks : m[2] \in Target => m \in mailed

\* The commits inside send_storage_alert cut the transaction of poll_storage into
\* pieces and lose none: a poll that ends without a fault has committed, for every
\* pool it listed, the sample it took of it.
PollIsWhole ==
    [][pc = "sampling" /\ pc' = "idle" /\ faults' = faults =>
          \A p \in Pool : seen[p] # "none" => latest'[p] = seen[p]]_vars

\* A pool that stays above the threshold is reported again and again: a fault or a
\* failed delivery delays the report, dedup against reports of other pools with the
\* same id may take its place, but none silences it for good, except a statement
\* that PostgreSQL refuses, whose aborted transaction nobody ends.
EventuallyReported ==
    \/ <>[](pc = "wedged")
    \/ \A p \in Pool : <>[](level[p] = "high") =>
          []<>(\E i \in Id : <<p[2], i>> \in Like /\ since[i] = 0)

\* A pool's twins have its name and its size: samples of one shared storage, or of
\* two pools that look alike.
Twins(p) == {q \in Pool : q[2] = p[2] /\ Size[q] = Size[p]}

\* A pool that stays above the threshold gets onto the dashboard and stays there,
\* whatever polls a crash, a silent node or a lost transaction costs: as its own
\* card, or behind that of a twin.  Where all twins are full, as those of one
\* storage are, the card is in the end a full one.  The exception is again a
\* connection whose aborted transaction nobody ends.
EventuallyShown ==
    \/ <>[](pc = "wedged")
    \/ \A p \in Pool :
          <>[](\A q \in Twins(p) : level[q] = "high") =>
              <>[](\E c \in Cards \cap Twins(p) : latest[c] = "high")

\* README.md: "`storage` array, one object per pool".  A pool that was found above
\* the threshold is on a card that says so.
FullPoolsAreShown ==
    \A p \in Pool : latest[p] = "high" => \E c \in Cards \cap Twins(p) : latest[c] = "high"

\* alerts.py: "one per storage per 24h".  A report about a storage id follows the
\* previous one by 24 hours or more.
OncePer24Hours ==
    [][\A i \in Id : since'[i] < since[i] => since[i] = Hours]_vars

\* README: "alerts when any pool crosses the threshold".  A pool that stays above the
\* threshold is reported again and again, itself and not only another one with its id.
NoPoolOverlooked ==
    \A p \in Pool : <>[](level[p] = "high") => []<>(cur = p)

\* alerts.py: "True if we already sent this alert".  What dedup takes for sent has
\* been sent.
AlreadySentMeansSent ==
    \A i \in Id : AlreadySent(i) => \E j \in Id, c \in Target : <<i, j>> \in Like /\ <<j, c>> \in mailed
-----------------------------------------------------------------------------
(* The inductive invariant behind the safety properties *)

\* A pool is being reported exactly while send_storage_alert runs.
CurInv ==
    /\ cur # None <=> pc \in Sending
    /\ emailOk \/ ~dated => cur # None

\* Reports that today's rows need not know of
Unrecorded == orphaned \cup late

\* A report that could be repeated today has a row, is one that needs none, or is
\* the one under way; and the one under way has reached nobody over the channels
\* that it has still to try.
ReportInv ==
    /\ \A x \in mailed : x \in Unrecorded \/ AlreadySent(x[1]) \/ (cur # None /\ x[1] = cur[2])
    /\ pc = "email" /\ <<cur[2], "email">> \in mailed => <<cur[2], "email">> \in Unrecorded
    /\ pc \in {"email", "emailed", "discord"} /\ <<cur[2], "discord">> \in mailed
           => <<cur[2], "discord">> \in Unrecorded

\* What is about to be recorded has happened, and a call that is over, or has
\* recorded its mail, has a row, unless midnight has made its key one of
\* yesterday: then nothing is on record today, and only this call has sent.
RecordInv ==
    /\ pc = "emailed" /\ dated => <<cur[2], "email">> \in mailed
    /\ pc = "discorded" /\ dated => <<cur[2], "discord">> \in mailed
    /\ (pc = "settled" \/ emailOk) /\ dated => AlreadySent(cur[2])
    /\ ~dated => mailed \subseteq late /\ marks = {}

\* Each sample of the poll is still to be taken, in the open transaction or
\* committed.
SampleInv ==
    pc \notin {"idle", "wedged"} => \A p \in Pool : seen[p] # "none" =>
        p \in todo \cup pending \/ latest[p] = seen[p]

IInv ==
    /\ TypeOK
    /\ CurInv /\ ReportInv /\ RecordInv /\ SampleInv
    /\ OncePerDay
    /\ MarksTellTheTruth
=============================================================================
