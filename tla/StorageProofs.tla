---------------------------- MODULE StorageProofs ----------------------------
(***************************************************************************)
(* Proofs about StorageAlerts, for every set of nodes and pools, any length *)
(* of the day, any channels and faults.  The invariant IInv is proved in   *)
(* layers: types, then samples, then reports.                              *)
(***************************************************************************)
EXTENDS StorageAlerts, TLAPS

LEMMA IdFacts == /\ \A p \in Pool : p[2] \in Id
                 /\ \A i \in Id : <<i, i>> \in Like
BY StorageAssumption DEF Id

-----------------------------------------------------------------------------
(* Layer 1: types *)

LEMMA FlagsInit == Init => FlagsOK
BY Zenon DEF Init, FlagsOK

LEMMA FlagsStep == FlagsOK /\ [Next]_vars => FlagsOK'
<1> SUFFICES ASSUME FlagsOK, [Next]_vars PROVE FlagsOK'
  OBVIOUS
<1> USE DEF FlagsOK, env, db, loop, sending, told, history
<1>1. CASE Tick
  <2>1. dated' \in BOOLEAN
    BY <1>1, Zenon DEF Tick
  <2> QED BY <1>1, <2>1, Zenon DEF Tick
<1>2. CASE \E p \in Pool : Fill(p)
  BY <1>2, Zenon DEF Fill
<1>3. CASE Process
  BY <1>3, Zenon DEF Process, Fetch, Sample, SendEmail, RecordEmail, SendDiscord, RecordDiscord,
     RecordFailed, RecordAlert, AlertDone, CommitPoll
<1>4. CASE Abort \/ Reconnect \/ Crash
  BY <1>4, Zenon DEF Abort, Reconnect, Crash, Drop
<1>5. CASE UNCHANGED vars
  BY <1>5, Zenon DEF vars
<1> QED BY <1>1, <1>2, <1>3, <1>4, <1>5 DEF Next

LEMMA FaultType ==
    ASSUME NEW kind, faults \in 0..MaxFaults, Fault(kind) PROVE faults' \in 0..MaxFaults
BY StorageAssumption DEF Fault

LEMMA CommittedType ==
    ASSUME ValuesOK PROVE Committed \in [Pool -> {"none", "low", "high"}]
BY DEF ValuesOK, Committed

LEMMA ReachType ==
    ASSUME ValuesOK, cur \in Pool, NEW c \in Target, Reach(c) \/ UNCHANGED told
    PROVE  /\ mailed' \subseteq Id \X Target /\ mailed \subseteq mailed'
           /\ twice' \subseteq mailed' /\ late' \subseteq mailed'
           /\ since' \in [Id -> 0..Hours]
<1> DEFINE this == <<cur[2], c>>
<1>1. this \in Id \X Target
  BY IdFacts
<1> HIDE DEF this
<1>2. CASE Reach(c)
  <2>1. since' = [since EXCEPT ![cur[2]] = 0]
    BY <1>2 DEF Reach
  <2>2. since' \in [Id -> 0..Hours]
    BY <2>1, IdFacts, StorageAssumption DEF ValuesOK
  <2>3. /\ mailed' = mailed \cup {this} /\ twice' = twice \cup (mailed \cap {this})
        /\ late' = late \/ late' = late \cup {this}
    BY <1>2, Zenon DEF Reach, this
  <2> QED BY <1>1, <2>2, <2>3 DEF ValuesOK
<1>3. CASE UNCHANGED told
  BY <1>3 DEF told, ValuesOK
<1> QED BY <1>2, <1>3

LEMMA SendType ==
    ASSUME ValuesOK, cur \in Pool, NEW c \in Target, SendOk(c) \/ SendFails(c)
    PROVE  Reach(c) \/ UNCHANGED told
BY DEF SendOk, SendFails

LEMMA SendFaults ==
    ASSUME ValuesOK, NEW c, SendOk(c) \/ SendFails(c) PROVE faults' \in 0..MaxFaults
BY FaultType DEF SendOk, SendFails, ValuesOK

LEMMA RecordType ==
    ASSUME ValuesOK, cur \in Pool, NEW target \in Target \cup {"failed"}, RecordAlert(target)
    PROVE  /\ marks' \subseteq Id \X (Target \cup {"failed"})
           /\ latest' \in [Pool -> {"none", "low", "high"}]
           /\ pending' \subseteq Pool
<1>1. <<cur[2], target>> \in Id \X (Target \cup {"failed"})
  BY IdFacts
<1>2. marks' \subseteq Id \X (Target \cup {"failed"})
  BY <1>1, Zenon DEF RecordAlert, ValuesOK
<1> QED BY <1>2, CommittedType DEF RecordAlert

Typed == ValuesOK /\ CurInv

LEMMA TypedInit == Init => Typed
BY StorageAssumption, SMT DEF Init, Unseen, Typed, ValuesOK, CurInv, Sending

LEMMA TypedStep == Typed /\ FlagsOK /\ [Next]_vars => Typed'
<1> SUFFICES ASSUME Typed, FlagsOK, [Next]_vars PROVE Typed'
  OBVIOUS
<1> USE DEF Typed, CurInv, Sending, env, db, loop, sending, told, history
<1>1. CASE Tick
  <2>1. hour' \in 0..(Hours - 1)
    BY <1>1, StorageAssumption DEF Tick, ValuesOK
  <2>2. since' \in [Id -> 0..Hours]
    BY <1>1, StorageAssumption DEF Tick, ValuesOK
  <2>3. /\ marks' \subseteq marks /\ mailed' \subseteq Id \X Target
        /\ twice' \subseteq mailed' /\ late' \subseteq mailed' /\ orphaned' \subseteq mailed'
    BY <1>1 DEF Tick, ValuesOK
  <2>4. (emailOk' \/ ~dated') => cur' # None
    BY <1>1, Zenon DEF Tick
  <2>5. UNCHANGED <<level, latest, pending, pc, loop, cur, faults>>
    BY <1>1 DEF Tick
  <2> QED BY <2>1, <2>2, <2>3, <2>4, <2>5 DEF ValuesOK
<1>2. ASSUME NEW p \in Pool, Fill(p) PROVE Typed'
  BY <1>2 DEF Fill, ValuesOK
<1>3. ASSUME NEW R \in SUBSET Node, Fetch(R) PROVE Typed'
  <2>1. faults' \in 0..MaxFaults
    BY <1>3, FaultType DEF Fetch, ValuesOK
  <2> QED BY <1>3, <2>1 DEF Fetch, ValuesOK
<1>4. ASSUME NEW p \in todo, Sample(p) PROVE Typed'
  <2>1. p \in Pool /\ p # None
    BY StorageAssumption DEF ValuesOK
  <2>2. CASE cur' = p /\ emailOk' = FALSE /\ dated' = TRUE /\ pc' = "email"
    BY <1>4, <2>1, <2>2 DEF Sample, ValuesOK
  <2>3. CASE UNCHANGED <<pc, sending>>
    BY <1>4, <2>1, <2>3 DEF Sample, ValuesOK
  <2> QED BY <1>4, <2>2, <2>3, Zenon DEF Sample
<1>5. CASE SendEmail
  <2>1. cur \in Pool
    BY <1>5 DEF SendEmail, ValuesOK
  <2>2. SendOk("email") \/ SendFails("email")
    BY <1>5 DEF SendEmail
  <2>3. faults' \in 0..MaxFaults /\ (Reach("email") \/ UNCHANGED told)
    BY <2>1, <2>2, SendFaults, SendType DEF Target
  <2>4. /\ mailed' \subseteq Id \X Target /\ mailed \subseteq mailed'
        /\ twice' \subseteq mailed' /\ late' \subseteq mailed' /\ since' \in [Id -> 0..Hours]
    BY <2>1, <2>3, ReachType DEF Target
  <2> QED BY <1>5, <2>3, <2>4 DEF SendEmail, ValuesOK
<1>6. CASE SendDiscord
  <2>1. cur \in Pool
    BY <1>6 DEF SendDiscord, ValuesOK
  <2>2. SendOk("discord") \/ SendFails("discord")
    BY <1>6 DEF SendDiscord
  <2>3. faults' \in 0..MaxFaults /\ (Reach("discord") \/ UNCHANGED told)
    BY <2>1, <2>2, SendFaults, SendType DEF Target
  <2>4. /\ mailed' \subseteq Id \X Target /\ mailed \subseteq mailed'
        /\ twice' \subseteq mailed' /\ late' \subseteq mailed' /\ since' \in [Id -> 0..Hours]
    BY <2>1, <2>3, ReachType DEF Target
  <2>5. pc' \in {"discorded", "settled", "failing"}
    BY <1>6 DEF SendDiscord
  <2> QED BY <1>6, <2>3, <2>4, <2>5 DEF SendDiscord, ValuesOK
<1>7. CASE RecordEmail
  BY <1>7, RecordType DEF RecordEmail, RecordAlert, Target, ValuesOK
<1>8. CASE RecordDiscord
  BY <1>8, RecordType DEF RecordDiscord, RecordAlert, Target, ValuesOK
<1>9. CASE RecordFailed
  BY <1>9, RecordType DEF RecordFailed, RecordAlert, Target, ValuesOK
<1>10. CASE AlertDone
  BY <1>10 DEF AlertDone, ValuesOK
<1>11. CASE CommitPoll
  BY <1>11, CommittedType DEF CommitPoll, Unseen, ValuesOK
<1>12. CASE Abort \/ Crash
  <2>1. faults' \in 0..MaxFaults
    BY <1>12, FaultType DEF Abort, Crash, ValuesOK
  <2>2. latest' \in [Pool -> {"none", "low", "high"}]
    BY <1>12, CommittedType DEF Abort, Crash, ValuesOK
  <2>3. Drop
    BY <1>12 DEF Abort, Crash
  <2>4. pc' \in {"idle", "wedged"}
    BY <1>12 DEF Abort, Crash
  <2> QED BY <2>1, <2>2, <2>3, <2>4 DEF Drop, Unseen, ValuesOK
<1>13. CASE Reconnect
  BY <1>13 DEF Reconnect, ValuesOK
<1>14. CASE UNCHANGED vars
  BY <1>14 DEF vars, ValuesOK
<1> QED BY <1>1, <1>2, <1>3, <1>4, <1>5, <1>6, <1>7, <1>8, <1>9, <1>10, <1>11, <1>12, <1>13, <1>14
     DEF Next, Process

\* Every variable of StorageAlerts keeps its type.
THEOREM StorageTypeCorrect == Spec => []TypeOK
<1>1. Init => Typed /\ FlagsOK
  BY TypedInit, FlagsInit
<1>2. Typed /\ FlagsOK /\ [Next]_vars => (Typed /\ FlagsOK)'
  BY TypedStep, FlagsStep
<1>3. Typed /\ FlagsOK => TypeOK
  BY DEF Typed, TypeOK
<1> QED BY <1>1, <1>2, <1>3, PTL DEF Spec

-----------------------------------------------------------------------------
(* Layer 2: samples *)

LEMMA SampleStep == Typed /\ SampleInv /\ [Next]_vars => SampleInv'
<1> SUFFICES ASSUME Typed, SampleInv, [Next]_vars PROVE SampleInv'
  OBVIOUS
<1> USE DEF Typed, CurInv, ValuesOK, Sending, SampleInv, env, db, loop, sending, told, history
<1>1. CASE Tick
  BY <1>1 DEF Tick
<1>2. ASSUME NEW p \in Pool, Fill(p) PROVE SampleInv'
  BY <1>2 DEF Fill
<1>3. ASSUME NEW R \in SUBSET Node, Fetch(R) PROVE SampleInv'
  BY <1>3 DEF Fetch
<1>4. ASSUME NEW p \in todo, Sample(p) PROVE SampleInv'
  <2>1. seen' = seen /\ todo' = todo \ {p} /\ pending' = pending \cup {p} /\ latest' = latest
    BY <1>4 DEF Sample
  <2>2. pc \notin {"idle", "wedged"}
    BY <1>4 DEF Sample
  <2> QED BY <2>1, <2>2
<1>5. CASE SendEmail \/ SendDiscord \/ AlertDone
  BY <1>5 DEF SendEmail, SendDiscord, AlertDone
<1>6. CASE RecordEmail \/ RecordDiscord \/ RecordFailed
  <2>1. latest' = Committed /\ pending' = {} /\ UNCHANGED <<seen, todo>>
        /\ pc \notin {"idle", "wedged"}
    BY <1>6 DEF RecordEmail, RecordDiscord, RecordFailed, RecordAlert
  <2> QED BY <2>1 DEF Committed
<1>7. CASE CommitPoll \/ Abort \/ Reconnect \/ Crash
  BY <1>7 DEF CommitPoll, Abort, Reconnect, Crash
<1>8. CASE UNCHANGED vars
  BY <1>8 DEF vars
<1> QED BY <1>1, <1>2, <1>3, <1>4, <1>5, <1>6, <1>7, <1>8 DEF Next, Process

\* A poll that ends without a fault has committed every sample it took.
THEOREM NoSampleLost == Spec => PollIsWhole
<1> DEFINE Whole == pc = "sampling" /\ pc' = "idle" /\ faults' = faults =>
                      \A p \in Pool : seen[p] # "none" => latest'[p] = seen[p]
<1>1. Init => Typed /\ FlagsOK /\ SampleInv
  <2>1. Init => SampleInv
    BY DEF Init, SampleInv
  <2> QED BY <2>1, TypedInit, FlagsInit
<1>2. Typed /\ FlagsOK /\ SampleInv /\ [Next]_vars => (Typed /\ FlagsOK /\ SampleInv)'
  BY TypedStep, FlagsStep, SampleStep
<1>3. Typed /\ SampleInv /\ [Next]_vars => [Whole]_vars
  <2> SUFFICES ASSUME Typed, SampleInv, [Next]_vars, pc = "sampling", pc' = "idle",
                      faults' = faults
               PROVE  \A p \in Pool : seen[p] # "none" => latest'[p] = seen[p]
    OBVIOUS
  <2> USE DEF Typed, ValuesOK
  <2>1. faults' # faults + 1
    BY StorageAssumption
  <2>2. ~Abort /\ ~Reconnect /\ ~Crash
    BY <2>1 DEF Abort, Reconnect, Crash, Fault
  <2>3. ~Process \/ CommitPoll
    BY DEF Process, Fetch, Sample, sending, SendEmail, RecordEmail, SendDiscord, RecordDiscord,
       RecordFailed, AlertDone
  <2>4. ~Tick /\ \A p \in Pool : ~Fill(p)
    BY DEF Tick, Fill
  <2>5. CommitPoll
    BY <2>2, <2>3, <2>4 DEF Next, vars
  <2> QED BY <2>5 DEF CommitPoll, Committed, SampleInv
<1> QED BY <1>1, <1>2, <1>3, PTL DEF Spec, PollIsWhole

-----------------------------------------------------------------------------
(* Layer 3: reports *)

Reports == ReportInv /\ RecordInv /\ OncePerDay /\ MarksTellTheTruth

LEMMA ReportsInit == Init => Reports
BY DEF Init, Reports, ReportInv, RecordInv, OncePerDay, MarksTellTheTruth

\* A row of today for the id itself is a match.
LEMMA OwnRow ==
    ASSUME NEW i \in Id, NEW t, <<i, t>> \in marks PROVE AlreadySent(i)
<1>1. <<i, <<i, t>>[1]>> \in Like
  BY IdFacts
<1> QED BY <1>1 DEF AlreadySent

\* Steps that send, record and forget nothing
LEMMA ReportsFrame ==
    ASSUME Reports, UNCHANGED <<marks, cur, emailOk, dated, mailed, twice, late, orphaned>>,
           pc' = pc \/ pc' \in {"idle", "sampling"}
    PROVE  Reports'
BY DEF Reports, Unrecorded, ReportInv, RecordInv, OncePerDay, MarksTellTheTruth, AlreadySent

\* Delivering, or failing to, over a channel
LEMMA ReachReports ==
    ASSUME Typed, FlagsOK, Reports, NEW c \in Target, SendOk(c) \/ SendFails(c), cur \in Pool,
           <<cur[2], c>> \in mailed => <<cur[2], c>> \in Unrecorded,
           UNCHANGED <<marks, cur, dated, orphaned>>
    PROVE  /\ OncePerDay' /\ MarksTellTheTruth'
           /\ \A x \in mailed' : x \in mailed \/ x = <<cur[2], c>>
           /\ \A x \in mailed' :
                 x \in Unrecorded' \/ AlreadySent(x[1])' \/ (cur' # None /\ x[1] = cur'[2])
           /\ Unrecorded \subseteq Unrecorded'
           /\ ~dated => mailed' \subseteq late' /\ marks' = {}
           /\ SendOk(c) => <<cur[2], c>> \in mailed'
<1> DEFINE this == <<cur[2], c>>
<1>1. this[1] = cur[2] /\ cur # None
  BY StorageAssumption
<1>3. \A i : AlreadySent(i)' <=> AlreadySent(i)
  BY DEF AlreadySent
<1> HIDE DEF this
<1>4. CASE Reach(c)
  <2>1. /\ mailed' = mailed \cup {this} /\ twice' = twice \cup (mailed \cap {this})
        /\ late' = IF dated THEN late ELSE late \cup {this}
    BY <1>4 DEF Reach, this
  <2>2. this \in mailed => this \in Unrecorded
    BY DEF this
  <2>3. Unrecorded \subseteq Unrecorded'
    BY <2>1 DEF Unrecorded
  <2>4. OncePerDay'
    BY <2>1, <2>2, <2>3 DEF Reports, OncePerDay, Unrecorded
  <2>5. MarksTellTheTruth'
    BY <2>1 DEF Reports, MarksTellTheTruth
  <2>6. \A x \in mailed' :
           x \in Unrecorded' \/ AlreadySent(x[1])' \/ (cur' # None /\ x[1] = cur'[2])
    BY <1>1, <1>3, <2>1, <2>3 DEF Reports, ReportInv
  <2>7. ~dated => mailed' \subseteq late' /\ marks' = {}
    BY <2>1 DEF Reports, RecordInv
  <2> QED BY <2>1, <2>3, <2>4, <2>5, <2>6, <2>7 DEF this
<1>5. CASE UNCHANGED told /\ ~SendOk(c)
  BY <1>3, <1>5 DEF told, Reports, OncePerDay, MarksTellTheTruth, ReportInv, RecordInv, Unrecorded
<1> QED BY <1>4, <1>5 DEF SendOk, SendFails

\* Recording an alert that has been sent, or has failed
LEMMA RecordReports ==
    ASSUME Typed, FlagsOK, Reports, cur \in Pool, NEW t \in Target \cup {"failed"}, RecordAlert(t),
           dated /\ t \in Target => <<cur[2], t>> \in mailed
    PROVE  /\ OncePerDay' /\ MarksTellTheTruth'
           /\ \A x \in mailed' :
                 x \in Unrecorded' \/ AlreadySent(x[1])' \/ (cur' # None /\ x[1] = cur'[2])
           /\ Unrecorded' = Unrecorded
           /\ ~dated' => mailed' \subseteq late' /\ marks' = {}
           /\ dated' => AlreadySent(cur[2])'
<1> DEFINE this == <<cur[2], t>>
<1>1. this[1] = cur[2] /\ this[2] = t /\ cur[2] \in Id
  BY IdFacts
<1> HIDE DEF this
<1>2. /\ marks' = IF dated THEN marks \cup {this} ELSE marks
      /\ UNCHANGED <<cur, dated, mailed, twice, late, orphaned>>
  BY DEF RecordAlert, history, told, this
<1>3. \A i : AlreadySent(i) => AlreadySent(i)'
  BY <1>2 DEF AlreadySent
<1>4. dated => AlreadySent(cur[2])'
  BY <1>1, <1>2, IdFacts DEF AlreadySent
<1>5. MarksTellTheTruth'
  BY <1>1, <1>2 DEF Reports, MarksTellTheTruth, this
<1>6. ~dated => mailed' \subseteq late' /\ marks' = {}
  BY <1>2 DEF Reports, RecordInv
<1> QED BY <1>2, <1>3, <1>4, <1>5, <1>6 DEF Reports, OncePerDay, ReportInv, Unrecorded

LEMMA ReportsStep == Typed /\ FlagsOK /\ Reports /\ [Next]_vars => Reports'
<1> SUFFICES ASSUME Typed, FlagsOK, Reports, [Next]_vars PROVE Reports'
  OBVIOUS
<1> USE DEF env, db, loop, sending, told, history
<1>1. CASE Tick
  <2>1. CASE hour' = 0
    <3>1. /\ marks' = {} /\ mailed' = {} /\ twice' = {} /\ late' = {} /\ orphaned' = {}
          /\ dated' = (cur = None) /\ UNCHANGED <<pc, cur, emailOk>>
      BY <1>1, <2>1 DEF Tick
    <3>2. cur # None \/ (pc \notin Sending /\ ~emailOk)
      BY DEF Typed, CurInv
    <3> QED BY <3>1, <3>2 DEF Reports, ReportInv, RecordInv, Unrecorded, OncePerDay, MarksTellTheTruth, Sending
  <2>2. CASE hour' # 0
    BY <1>1, <2>2, ReportsFrame DEF Tick
  <2> QED BY <2>1, <2>2
<1>2. ASSUME NEW p \in Pool, Fill(p) PROVE Reports'
  BY <1>2, ReportsFrame DEF Fill
<1>3. ASSUME NEW R \in SUBSET Node, Fetch(R) PROVE Reports'
  BY <1>3, ReportsFrame DEF Fetch
<1>4. ASSUME NEW p \in todo, Sample(p) PROVE Reports'
  <2>1. CASE UNCHANGED <<pc, sending>>
    BY <1>4, <2>1, ReportsFrame DEF Sample
  <2>2. CASE /\ ~AlreadySent(p[2])
             /\ cur' = p /\ emailOk' = FALSE /\ dated' = TRUE /\ pc' = "email"
    <3>1. UNCHANGED <<marks, mailed, twice, late, orphaned>> /\ cur = None /\ p # None
      BY <1>4, StorageAssumption DEF Sample, Typed, ValuesOK, CurInv, Sending
    <3>2. \A i : AlreadySent(i)' <=> AlreadySent(i)
      BY <3>1 DEF AlreadySent
    <3>3. \A c : <<p[2], c>> \in mailed => <<p[2], c>> \in Unrecorded
      BY <2>2, <3>1 DEF Reports, ReportInv
    <3> QED BY <2>2, <3>1, <3>2, <3>3
            DEF Reports, ReportInv, RecordInv, Unrecorded, OncePerDay, MarksTellTheTruth
  <2> QED BY <1>4, <2>1, <2>2, Zenon DEF Sample
<1>5. CASE SendEmail
  <2>1. cur \in Pool /\ pc = "email"
    BY <1>5 DEF SendEmail, Typed, ValuesOK, CurInv, Sending
  <2>2. UNCHANGED <<marks, cur, emailOk, dated, orphaned>>
    BY <1>5 DEF SendEmail
  <2>3. <<cur[2], "email">> \in mailed => <<cur[2], "email">> \in Unrecorded
    BY <2>1 DEF Reports, ReportInv
  <2>4. SendOk("email") \/ SendFails("email")
    BY <1>5 DEF SendEmail
  <2>5. /\ OncePerDay' /\ MarksTellTheTruth'
        /\ \A x \in mailed' : x \in mailed \/ x = <<cur[2], "email">>
        /\ \A x \in mailed' :
              x \in Unrecorded' \/ AlreadySent(x[1])' \/ (cur' # None /\ x[1] = cur'[2])
        /\ Unrecorded \subseteq Unrecorded'
        /\ ~dated => mailed' \subseteq late' /\ marks' = {}
        /\ SendOk("email") => <<cur[2], "email">> \in mailed'
    BY <2>1, <2>2, <2>3, <2>4, ReachReports DEF Target
  <2>6. \/ SendOk("email") /\ pc' = "emailed"
        \/ pc' = "discord"
    BY <1>5 DEF SendEmail
  <2>7. <<cur[2], "discord">> \in mailed => <<cur[2], "discord">> \in Unrecorded
    BY <2>1 DEF Reports, ReportInv
  <2>8. AlreadySent(cur[2])' <=> AlreadySent(cur[2])
    BY <2>2 DEF AlreadySent
  <2> QED BY <2>1, <2>2, <2>5, <2>6, <2>7, <2>8 DEF Reports, ReportInv, RecordInv, Unrecorded
<1>6. CASE SendDiscord
  <2>1. cur \in Pool /\ pc = "discord"
    BY <1>6 DEF SendDiscord, Typed, ValuesOK, CurInv, Sending
  <2>2. UNCHANGED <<marks, cur, emailOk, dated, orphaned>>
    BY <1>6 DEF SendDiscord
  <2>3. <<cur[2], "discord">> \in mailed => <<cur[2], "discord">> \in Unrecorded
    BY <2>1 DEF Reports, ReportInv
  <2>4. SendOk("discord") \/ SendFails("discord")
    BY <1>6 DEF SendDiscord
  <2>5. /\ OncePerDay' /\ MarksTellTheTruth'
        /\ \A x \in mailed' :
              x \in Unrecorded' \/ AlreadySent(x[1])' \/ (cur' # None /\ x[1] = cur'[2])
        /\ Unrecorded \subseteq Unrecorded'
        /\ ~dated => mailed' \subseteq late' /\ marks' = {}
        /\ SendOk("discord") => <<cur[2], "discord">> \in mailed'
    BY <2>1, <2>2, <2>3, <2>4, ReachReports DEF Target
  <2>6. \/ SendOk("discord") /\ pc' = "discorded"
        \/ emailOk /\ pc' = "settled"
        \/ pc' = "failing"
    BY <1>6, Zenon DEF SendDiscord
  <2>7. AlreadySent(cur[2])' <=> AlreadySent(cur[2])
    BY <2>2 DEF AlreadySent
  <2> QED BY <2>1, <2>2, <2>5, <2>6, <2>7 DEF Reports, ReportInv, RecordInv, Unrecorded
<1>7. CASE RecordEmail \/ RecordDiscord \/ RecordFailed
  <2>1. cur \in Pool
    BY <1>7 DEF RecordEmail, RecordDiscord, RecordFailed, Typed, ValuesOK, CurInv, Sending
  <2>2. PICK t \in Target \cup {"failed"} :
           RecordAlert(t) /\ (dated /\ t \in Target => <<cur[2], t>> \in mailed)
    BY <1>7, Zenon DEF RecordEmail, RecordDiscord, RecordFailed, Reports, RecordInv, Target
  <2>3. /\ OncePerDay' /\ MarksTellTheTruth'
        /\ \A x \in mailed' :
              x \in Unrecorded' \/ AlreadySent(x[1])' \/ (cur' # None /\ x[1] = cur'[2])
        /\ Unrecorded' = Unrecorded
        /\ ~dated' => mailed' \subseteq late' /\ marks' = {}
        /\ dated' => AlreadySent(cur[2])'
    BY <2>1, <2>2, RecordReports
  <2>4. \/ pc = "emailed" /\ pc' = "discord"
        \/ pc' = "settled"
    BY <1>7 DEF RecordEmail, RecordDiscord, RecordFailed
  <2>5. UNCHANGED <<cur, mailed, orphaned>>
    BY <2>2 DEF RecordAlert
  <2> QED BY <2>3, <2>4, <2>5 DEF Reports, ReportInv, RecordInv, Unrecorded
<1>8. CASE AlertDone
  <2>1. /\ cur' = None /\ emailOk' = FALSE /\ dated' = TRUE /\ pc' = "sampling" /\ pc = "settled"
        /\ UNCHANGED <<marks, mailed, twice, late, orphaned>>
    BY <1>8 DEF AlertDone
  <2>2. \A i : AlreadySent(i)' <=> AlreadySent(i)
    BY <2>1 DEF AlreadySent
  <2>3. \A x \in mailed : x \in Unrecorded \/ AlreadySent(x[1])
    BY <2>1 DEF Reports, ReportInv, RecordInv, Unrecorded
  <2> QED BY <2>1, <2>2, <2>3 DEF Reports, ReportInv, RecordInv, Unrecorded, OncePerDay, MarksTellTheTruth
<1>9. CASE CommitPoll
  BY <1>9, ReportsFrame DEF CommitPoll
<1>10. CASE Abort \/ Crash
  <2>1. /\ cur' = None /\ emailOk' = FALSE /\ dated' = TRUE /\ pc' \in {"idle", "wedged"}
        /\ UNCHANGED <<marks, mailed, twice, late>>
        /\ orphaned' = orphaned \cup {x \in mailed : cur # None /\ x[1] = cur[2]}
    BY <1>10 DEF Abort, Crash, Drop
  <2>2. \A i : AlreadySent(i)' <=> AlreadySent(i)
    BY <2>1 DEF AlreadySent
  <2> QED BY <2>1, <2>2 DEF Reports, ReportInv, RecordInv, Unrecorded, OncePerDay, MarksTellTheTruth
<1>11. CASE Reconnect
  BY <1>11, ReportsFrame DEF Reconnect
<1>12. CASE UNCHANGED vars
  BY <1>12, ReportsFrame DEF vars
<1> QED BY <1>1, <1>2, <1>3, <1>4, <1>5, <1>6, <1>7, <1>8, <1>9, <1>10, <1>11, <1>12 DEF Next, Process

\* IInv is an invariant.
THEOREM StorageInvariant == Spec => []IInv
<1>1. Init => Typed /\ FlagsOK /\ SampleInv /\ Reports
  <2>1. Init => SampleInv
    BY DEF Init, SampleInv
  <2> QED BY <2>1, TypedInit, FlagsInit, ReportsInit
<1>2. Typed /\ FlagsOK /\ SampleInv /\ Reports /\ [Next]_vars
        => (Typed /\ FlagsOK /\ SampleInv /\ Reports)'
  BY TypedStep, FlagsStep, SampleStep, ReportsStep
<1>3. Typed /\ FlagsOK /\ SampleInv /\ Reports => IInv
  BY DEF Typed, TypeOK, Reports, IInv
<1> QED BY <1>1, <1>2, <1>3, PTL DEF Spec

\* A storage id is reported at most once a day and channel, unless the record of
\* the first report was lost, or that report came in after midnight under
\* yesterday's key.
THEOREM ReportedOncePerDay == Spec => []OncePerDay
BY StorageInvariant, PTL DEF IInv

\* A row of alerts_sent that names a channel stands for a message that arrived.
THEOREM RowsMeanReports == Spec => []MarksTellTheTruth
BY StorageInvariant, PTL DEF IInv
=============================================================================
