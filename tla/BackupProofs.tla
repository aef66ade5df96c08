----------------------------- MODULE BackupProofs -----------------------------
(***************************************************************************)
(* Proofs about BackupPoller, for every set of tasks, VMs and nodes, every *)
(* choice of channels and faults, persistent or not.  The invariant IInv   *)
(* is proved in five layers, each resting on the ones below it:            *)
(*   types; results and loops; deliveries; failures; the import.           *)
(* The lemmas of the layers in between also serve OverlapProofs: they ask  *)
(* of the database only what holds when others write to it too.            *)
(***************************************************************************)
EXTENDS BackupRefinement, TLAPS

\* A single's UPID is its task; a guest's UPID names its batch.
LEMMA UpidFacts ==
    /\ \A u \in Upid : TaskOf(u) \in Task
    /\ \A t \in Task : UpidsOf(t) \subseteq Upid
    /\ \A u \in Upid, t \in Task : u \in UpidsOf(t) <=> TaskOf(u) = t
    /\ \A t \in Single : UpidsOf(t) = {t} /\ TaskOf(t) = t
BY ConstantsAssumption, SMT DEF TaskOf, UpidsOf, Task, Guest, Upid

LEMMA MatchesItself == \A u : Matches(u, u)
BY DEF Matches

-----------------------------------------------------------------------------
(* Layer 1: types *)

LEMMA FlagsInit == Init => FlagsOK
BY Zenon DEF Init, FlagsOK

LEMMA FlagsStep == FlagsOK /\ [Next]_vars => FlagsOK'
<1> SUFFICES ASSUME FlagsOK, [Next]_vars PROVE FlagsOK'
  OBVIOUS
<1> USE DEF FlagsOK, env, db, loop, sending, volatile, told, history
<1>1. CASE Proxmox
  BY <1>1, Zenon DEF Proxmox, StartTask, FinishTask, Age
<1>2. CASE Startup
  BY <1>2, Zenon DEF Startup, Boot, ImportFetch, ImportDone, Purge
<1>3. CASE Storing
  BY <1>3, Zenon DEF Storing, PollFetch, StoreSingle, Skip, OpenBatch, StoreGuest,
     CloseBatch, PollDone
<1>4. CASE Alerting
  BY <1>4, Zenon DEF Alerting, AlertDuplicate, AlertStart, SendEmail, RecordEmail,
     SendDiscord, RecordDiscord, RecordFailed, RecordAlert, AlertDone, FinishCycle
<1>5. CASE Abort \/ Crash \/ Reconnect
  BY <1>5, Zenon DEF Abort, Crash, Reconnect, Die, Drop, Wipe, LoseMemory
<1>6. CASE UNCHANGED vars
  BY <1>6, Zenon DEF vars
<1> QED
  BY <1>1, <1>2, <1>3, <1>4, <1>5, <1>6 DEF Next, Process

LEMMA FaultType ==
    ASSUME NEW kind, faults \in 0..MaxFaults, Fault(kind) PROVE faults' \in 0..MaxFaults
BY ConstantsAssumption DEF Fault

LEMMA AnsweringType ==
    ASSUME NEW R, faults \in 0..MaxFaults, Answering(R) PROVE faults' \in 0..MaxFaults
BY FaultType DEF Answering

LEMMA StatusType ==
    ASSUME ValuesOK, NEW u \in Upid PROVE Status(u) \in Results
BY UpidFacts DEF ValuesOK, Status, Results

LEMMA InsertType ==
    ASSUME ValuesOK, NEW u \in Upid, Insert(u)
    PROVE  /\ rows' \in [Upid -> Results \cup {"none"}]
           /\ failed' \subseteq Upid /\ failed \subseteq failed'
           /\ backfilled' \subseteq Upid
<1>1. rows' \in [Upid -> Results \cup {"none"}]
  BY StatusType DEF Insert, ValuesOK
<1> QED BY <1>1 DEF Insert, NoteImported, NoteFailure, ValuesOK

LEMMA ReachType ==
    ASSUME ValuesOK, cur \in Upid, NEW channel \in {"email", "discord"},
           SendOk(channel) \/ SendFails(channel)
    PROVE  /\ delivered' \subseteq Upid \X {"email", "discord"}
           /\ delivered \subseteq delivered'
           /\ again' \subseteq delivered'
           /\ faults' \in 0..MaxFaults
<1>1. faults' \in 0..MaxFaults
  BY FaultType DEF SendOk, SendFails, ValuesOK
<1>2. CASE Reach(channel)
  <2>1. <<cur, channel>> \in Upid \X {"email", "discord"}
    OBVIOUS
  <2> DEFINE this == <<cur, channel>>
  <2>2. delivered' = delivered \cup {this} /\ again' = again \cup (delivered \cap {this})
    BY <1>2 DEF Reach
  <2>3. this \in Upid \X {"email", "discord"}
    BY <2>1
  <2> HIDE DEF this
  <2> QED BY <1>1, <2>2, <2>3 DEF ValuesOK
<1>3. CASE UNCHANGED told
  BY <1>1, <1>3 DEF told, ValuesOK
<1> QED BY <1>2, <1>3 DEF SendOk, SendFails

LEMMA RecordType ==
    ASSUME ValuesOK, cur \in Upid, NEW target \in {"email", "discord", "failed"},
           RecordAlert(target)
    PROVE  alerts' \subseteq Upid \X {"email", "discord", "failed"}
<1>1. <<cur, target>> \in Upid \X {"email", "discord", "failed"}
  OBVIOUS
<1> QED BY <1>1, Zenon DEF RecordAlert, ValuesOK

Typed == ValuesOK /\ CurInv

LEMMA ValuesInit == Init => Typed
BY ConstantsAssumption, SMT DEF Init, Typed, ValuesOK, CurInv, Sending, Pcs, Results

LEMMA ValuesStep == Typed /\ [Next]_vars => Typed'
<1> SUFFICES ASSUME Typed, [Next]_vars PROVE Typed'
  OBVIOUS
<1> USE DEF Typed, ValuesOK, CurInv, Sending, Pcs, env, db, loop, sending, volatile, told, history
<1>1. CASE Proxmox
  <2>1. ASSUME NEW t \in Task, StartTask(t) PROVE Typed'
    BY <2>1 DEF StartTask
  <2>2. ASSUME NEW t \in Task, FinishTask(t) PROVE Typed'
    <3>1. PICK res \in [UpidsOf(t) -> Outcomes(t)] :
            outcome' = [u \in Upid |-> IF u \in UpidsOf(t) THEN res[u] ELSE outcome[u]]
      BY <2>2 DEF FinishTask
    <3>2. Outcomes(t) \subseteq {"none", "OK", "ERR", ""}
      BY DEF Outcomes
    <3>3. outcome' \in [Upid -> {"none", "OK", "ERR", ""}]
      BY <3>1, <3>2
    <3> QED BY <2>2, <3>3 DEF FinishTask
  <2>3. ASSUME NEW t \in Task, Age(t) PROVE Typed'
    BY <2>3 DEF Age
  <2> QED BY <1>1, <2>1, <2>2, <2>3 DEF Proxmox
<1>2. CASE Startup
  <2>1. CASE Boot BY <2>1 DEF Boot
  <2>2. ASSUME NEW R \in SUBSET Node, ImportFetch(R) PROVE Typed'
    BY <2>2, AnsweringType DEF ImportFetch, Listed
  <2>3. CASE ImportDone BY <2>3 DEF ImportDone
  <2>4. CASE Purge BY <2>4 DEF Purge
  <2> QED BY <1>2, <2>1, <2>2, <2>3, <2>4 DEF Startup
<1>3. CASE Storing
  <2>1. ASSUME NEW R \in SUBSET Node, PollFetch(R) PROVE Typed'
    BY <2>1, AnsweringType DEF PollFetch, Listed
  <2>2. ASSUME NEW t \in todo, StoreSingle(t) PROVE Typed'
    <3>1. t \in Upid
      BY <2>2 DEF StoreSingle, Upid
    <3> QED BY <2>2, <3>1, InsertType DEF StoreSingle
  <2>3. ASSUME NEW t \in todo, Skip(t) PROVE Typed'
    BY <2>3 DEF Skip
  <2>4. ASSUME NEW t \in todo, OpenBatch(t) PROVE Typed'
    <3>1. parsed' \subseteq Upid
      BY <2>4, UpidFacts DEF OpenBatch, InLog
    <3>2. faults' \in 0..MaxFaults
      BY <2>4, FaultType DEF OpenBatch, ParseBatchTask
    <3> QED BY <2>4, <3>1, <3>2 DEF OpenBatch
  <2>5. ASSUME NEW u \in parsed, StoreGuest(u) PROVE Typed'
    BY <2>5, InsertType DEF StoreGuest
  <2>6. CASE CloseBatch BY <2>6 DEF CloseBatch
  <2>7. CASE PollDone BY <2>7 DEF PollDone
  <2> QED BY <1>3, <2>1, <2>2, <2>3, <2>4, <2>5, <2>6, <2>7 DEF Storing
<1>4. CASE Alerting
  <2>1. ASSUME NEW u \in failed, AlertDuplicate(u) PROVE Typed'
    BY <2>1 DEF AlertDuplicate
  <2>2. ASSUME NEW u \in failed, AlertStart(u) PROVE Typed'
    BY <2>2, ConstantsAssumption DEF AlertStart
  <2>3. CASE SendEmail
    BY <2>3, ReachType DEF SendEmail
  <2>4. CASE RecordEmail
    BY <2>4, RecordType DEF RecordEmail, RecordAlert
  <2>5. CASE SendDiscord
    BY <2>5, ReachType DEF SendDiscord
  <2>6. CASE RecordDiscord
    BY <2>6, RecordType DEF RecordDiscord, RecordAlert
  <2>7. CASE RecordFailed
    BY <2>7, RecordType DEF RecordFailed, RecordAlert
  <2>8. CASE AlertDone BY <2>8 DEF AlertDone
  <2>9. CASE FinishCycle BY <2>9 DEF FinishCycle
  <2> QED BY <1>4, <2>1, <2>2, <2>3, <2>4, <2>5, <2>6, <2>7, <2>8, <2>9 DEF Alerting
<1>5. CASE Abort \/ Crash
  <2>1. faults' \in 0..MaxFaults
    BY <1>5, FaultType DEF Abort, Crash, Reconnect
  <2>2. rows' \in [Upid -> Results \cup {"none"}]
    BY <1>5 DEF Abort, Crash, Die, Drop, Wipe
  <2>3. pc' \in {"down", "idle", "wedged"} /\ LoseMemory
    BY <1>5 DEF Abort, Crash, Die, Drop, Wipe
  <2>4. lost' \subseteq Upid /\ backfilled' \subseteq Upid /\ processed' \subseteq Batch
        /\ alerts' \subseteq Upid \X {"email", "discord", "failed"}
    BY <1>5 DEF Abort, Crash, Die, Drop, Wipe
  <2>5. orphaned' \subseteq delivered /\ UNCHANGED <<task, outcome, aged, delivered, again>>
    BY <1>5 DEF Abort, Crash, Die, Drop, Wipe
  <2> QED BY <2>1, <2>2, <2>3, <2>4, <2>5 DEF LoseMemory
<1>6. CASE UNCHANGED vars BY <1>6 DEF vars
<1>7. CASE Reconnect
  BY <1>7 DEF Reconnect
<1> QED BY <1>1, <1>2, <1>3, <1>4, <1>5, <1>6, <1>7 DEF Next, Process

\* Every variable keeps its type, over any interleaving of Proxmox, process and
\* faults.
THEOREM TypeCorrect == Spec => []TypeOK
<1>1. Spec => []FlagsOK
  BY FlagsInit, FlagsStep, PTL DEF Spec
<1>2. Spec => []Typed
  BY ValuesInit, ValuesStep, PTL DEF Spec
<1>3. FlagsOK /\ Typed => TypeOK
  BY DEF Typed, TypeOK
<1> QED BY <1>1, <1>2, <1>3, PTL
-----------------------------------------------------------------------------
(* Layer 2: results, rows and the two storing loops *)

Stored == OutcomeInv /\ LoopInv /\ RowsAreFaithful

\* What the insertion of a result needs and gives.
LEMMA InsertFaithful ==
    ASSUME Typed, RowsAreFaithful, NEW u \in Upid, Insert(u),
           task[TaskOf(u)] = "stopped", outcome[u] # "none", UNCHANGED env
    PROVE  RowsAreFaithful' /\ rows' = [rows EXCEPT ![u] = Status(u)]
<1>1. rows' = [rows EXCEPT ![u] = Status(u)]
  BY DEF Insert
<1>2. \A v \in Upid : Status(v)' = Status(v)
  BY DEF Status, env
<1> QED BY <1>1, <1>2 DEF RowsAreFaithful, env, Typed, ValuesOK

LEMMA StoredInit == Init => Stored
BY ConstantsAssumption, UpidFacts DEF Init, Stored, OutcomeInv, LoopInv, RowsAreFaithful, Upid, Task

\* Steps that leave tasks and results alone and rows at most erased
LEMMA StoredFrame ==
    ASSUME Typed, Stored, UNCHANGED <<task, outcome>>,
           \A u \in Upid : rows'[u] \in {rows[u], "none"},
           \/ /\ todo' = {} /\ batch' = None /\ parsed' = {}
           \/ /\ UNCHANGED <<todo, batch, parsed>>
              /\ pc' = pc \/ todo = {}
    PROVE  Stored'
<1>1. \A u \in Upid : Status(u)' = Status(u)
  BY DEF Status
<1>2. OutcomeInv' BY DEF Stored, OutcomeInv
<1>3. RowsAreFaithful' BY <1>1 DEF Stored, RowsAreFaithful
<1>4. LoopInv' BY DEF Stored, LoopInv, UpidsOf
<1> QED BY <1>2, <1>3, <1>4 DEF Stored

LEMMA StoredStep == Typed /\ Stored /\ [Next]_vars => Stored'
<1> SUFFICES ASSUME Typed, Stored, [Next]_vars PROVE Stored'
  OBVIOUS
<1> USE DEF env, db, loop, sending, volatile, told, history
<1>1. CASE Proxmox
  <2>1. ASSUME NEW t \in Task, StartTask(t) PROVE Stored'
    <3>1. \A u \in Upid : TaskOf(u) # t => task'[TaskOf(u)] = task[TaskOf(u)]
      BY <2>1, UpidFacts DEF StartTask, Typed, ValuesOK
    <3>2. task'[t] = "running" /\ UNCHANGED <<outcome, rows, todo, batch, parsed, pc>>
      BY <2>1 DEF StartTask, Typed, ValuesOK
    <3>3. task[t] = "absent"
      BY <2>1 DEF StartTask
    <3>4. OutcomeInv'
      BY <3>1, <3>2, <3>3, UpidFacts DEF Stored, OutcomeInv
    <3>5. RowsAreFaithful'
      BY <3>1, <3>2, <3>3 DEF Stored, RowsAreFaithful, Status
    <3>6. LoopInv'
      BY <2>1, <3>2, <3>3 DEF StartTask, Stored, LoopInv, UpidsOf, Typed, ValuesOK
    <3> QED BY <3>4, <3>5, <3>6 DEF Stored
  <2>2. ASSUME NEW t \in Task, FinishTask(t) PROVE Stored'
    <3>1. PICK res \in [UpidsOf(t) -> Outcomes(t)] :
            outcome' = [u \in Upid |-> IF u \in UpidsOf(t) THEN res[u] ELSE outcome[u]]
      BY <2>2 DEF FinishTask
    <3>2. /\ task[t] = "running" /\ task'[t] = "stopped"
          /\ \A u \in Upid : TaskOf(u) # t =>
                task'[TaskOf(u)] = task[TaskOf(u)] /\ outcome'[u] = outcome[u]
          /\ UNCHANGED <<rows, todo, batch, parsed, pc>>
      BY <2>2, <3>1, UpidFacts DEF FinishTask, Typed, ValuesOK
    <3>3. t \in Single => outcome'[t] # "none"
      <4>1. SUFFICES ASSUME t \in Single PROVE outcome'[t] # "none"
        OBVIOUS
      <4>2. t \in UpidsOf(t) /\ t \in Upid
        BY <4>1, UpidFacts
      <4>3. res[t] \in {"OK", "ERR", ""}
        BY <4>1, <4>2, <3>1 DEF Outcomes
      <4> QED BY <4>2, <4>3, <3>1
    <3>4. OutcomeInv'
      <4> SUFFICES ASSUME NEW u \in Upid
                   PROVE  /\ task'[TaskOf(u)] # "stopped" => outcome'[u] = "none"
                          /\ u \in Single /\ task'[u] = "stopped" => outcome'[u] # "none"
        BY DEF OutcomeInv
      <4>1. CASE TaskOf(u) = t
        BY <4>1, <3>2, <3>3, UpidFacts
      <4>2. CASE TaskOf(u) # t
        BY <4>2, <3>2, UpidFacts DEF Stored, OutcomeInv
      <4> QED BY <4>1, <4>2
    <3>5. RowsAreFaithful'
      BY <3>2 DEF Stored, RowsAreFaithful, Status
    <3>6. LoopInv'
      <4>1. \A u \in parsed : outcome'[u] # "none"
        BY <3>2 DEF Stored, LoopInv, OutcomeInv, Typed, ValuesOK
      <4>2. \A s \in todo : task'[s] = "stopped"
        BY <2>2 DEF FinishTask, Stored, LoopInv, Typed, ValuesOK
      <4> QED BY <3>2, <4>1, <4>2 DEF Stored, LoopInv, UpidsOf
    <3> QED BY <3>4, <3>5, <3>6 DEF Stored
  <2>3. ASSUME NEW t \in Task, Age(t) PROVE Stored'
    BY <2>3, StoredFrame DEF Age
  <2> QED BY <1>1, <2>1, <2>2, <2>3 DEF Proxmox
<1>2. CASE Startup
  <2>1. CASE Boot
    BY <2>1, StoredFrame DEF Boot, Stored, LoopInv
  <2>2. ASSUME NEW R \in SUBSET Node, ImportFetch(R) PROVE Stored'
    BY <2>2 DEF ImportFetch, Listed, Stored, OutcomeInv, LoopInv, RowsAreFaithful, Status, UpidsOf
  <2>3. CASE ImportDone
    BY <2>3, StoredFrame DEF ImportDone
  <2>4. CASE Purge
    BY <2>4, StoredFrame DEF Purge, Stored, LoopInv
  <2> QED BY <1>2, <2>1, <2>2, <2>3, <2>4 DEF Startup
<1>3. CASE Storing
  <2>1. ASSUME NEW R \in SUBSET Node, PollFetch(R) PROVE Stored'
    BY <2>1 DEF PollFetch, Listed, Stored, OutcomeInv, LoopInv, RowsAreFaithful, Status, UpidsOf
  <2>2. ASSUME NEW t \in todo, StoreSingle(t) PROVE Stored'
    <3>1. t \in Upid /\ TaskOf(t) = t /\ task[t] = "stopped" /\ outcome[t] # "none"
      BY <2>2, UpidFacts DEF StoreSingle, Upid, Stored, LoopInv, OutcomeInv
    <3>2. RowsAreFaithful'
      BY <2>2, <3>1, InsertFaithful DEF StoreSingle, Stored
    <3>3. OutcomeInv' /\ LoopInv'
      BY <2>2 DEF StoreSingle, Stored, OutcomeInv, LoopInv, UpidsOf
    <3> QED BY <3>2, <3>3 DEF Stored
  <2>3. ASSUME NEW t \in todo, Skip(t) PROVE Stored'
    BY <2>3 DEF Skip, Stored, OutcomeInv, LoopInv, RowsAreFaithful, Status, UpidsOf
  <2>4. ASSUME NEW t \in todo, OpenBatch(t) PROVE Stored'
    <3>1. \A u \in parsed' : u \in UpidsOf(t) /\ outcome[u] # "none"
      BY <2>4 DEF OpenBatch, InLog
    <3>2. LoopInv'
      <4>1. t # None
        BY ConstantsAssumption DEF Typed, ValuesOK
      <4>2. batch' = t /\ UNCHANGED <<task, outcome, todo, pc>>
        BY <2>4 DEF OpenBatch
      <4>3. UpidsOf(batch)' = UpidsOf(t)
        BY <4>2 DEF UpidsOf
      <4> QED BY <3>1, <4>1, <4>2, <4>3 DEF Stored, LoopInv
    <3>3. OutcomeInv' /\ RowsAreFaithful'
      BY <2>4 DEF OpenBatch, Stored, OutcomeInv, RowsAreFaithful, Status
    <3> QED BY <3>2, <3>3 DEF Stored
  <2>5. ASSUME NEW u \in parsed, StoreGuest(u) PROVE Stored'
    <3>1. u \in Upid /\ task[TaskOf(u)] = "stopped" /\ outcome[u] # "none"
      BY UpidFacts DEF Stored, LoopInv, OutcomeInv, Typed, ValuesOK
    <3>2. RowsAreFaithful'
      BY <2>5, <3>1, InsertFaithful DEF StoreGuest, Stored
    <3>3. OutcomeInv' /\ LoopInv'
      BY <2>5 DEF StoreGuest, Stored, OutcomeInv, LoopInv, UpidsOf
    <3> QED BY <3>2, <3>3 DEF Stored
  <2>6. CASE CloseBatch
    BY <2>6 DEF CloseBatch, Stored, OutcomeInv, LoopInv, RowsAreFaithful, Status, UpidsOf
  <2>7. CASE PollDone
    BY <2>7, StoredFrame DEF PollDone
  <2> QED BY <1>3, <2>1, <2>2, <2>3, <2>4, <2>5, <2>6, <2>7 DEF Storing
<1>4. CASE Alerting
  <2>1. UNCHANGED <<task, outcome, rows, todo, batch, parsed>>
    BY <1>4 DEF Alerting, AlertDuplicate, AlertStart, SendEmail, RecordEmail, SendDiscord,
       RecordDiscord, RecordFailed, RecordAlert, AlertDone, FinishCycle
  <2>2. pc \notin {"importing", "polling"}
    BY <1>4 DEF Alerting, AlertDuplicate, AlertStart, SendEmail, RecordEmail, SendDiscord,
       RecordDiscord, RecordFailed, RecordAlert, AlertDone, FinishCycle
  <2> QED BY <2>1, <2>2, StoredFrame DEF Stored, LoopInv
<1>5. CASE Abort \/ Crash
  <2>1. LoseMemory /\ UNCHANGED <<task, outcome>> /\ \A u \in Upid : rows'[u] \in {rows[u], "none"}
    BY <1>5 DEF Abort, Crash, Die, Drop, Wipe
  <2> QED BY <2>1, StoredFrame DEF LoseMemory
<1>6. CASE UNCHANGED vars
  BY <1>6, StoredFrame DEF vars
<1>7. CASE Reconnect
  BY <1>7, StoredFrame DEF Reconnect, Stored, LoopInv
<1> QED BY <1>1, <1>2, <1>3, <1>4, <1>5, <1>6, <1>7 DEF Next, Process
-----------------------------------------------------------------------------
(* Layer 2, continued: what the poll knows *)

LEMMA KnownStep == Typed /\ Stored /\ KnownInv /\ [Next]_vars => KnownInv'
<1> SUFFICES ASSUME Typed, Stored, KnownInv, [Next]_vars PROVE KnownInv'
  OBVIOUS
<1> USE DEF env, db, loop, sending, volatile, told, history
<1>1. CASE Proxmox
  <2>1. UNCHANGED <<rows, pc, todo, known, batch, parsed>>
    BY <1>1 DEF Proxmox, StartTask, FinishTask, Age
  <2> QED BY <2>1 DEF KnownInv
<1>2. CASE Startup
  BY <1>2 DEF Startup, Boot, ImportFetch, ImportDone, Purge, KnownInv
<1>3. CASE Storing
  <2>1. ASSUME NEW R \in SUBSET Node, PollFetch(R) PROVE KnownInv'
    BY <2>1 DEF PollFetch, KnownInv, Stored, LoopInv
  <2>2. ASSUME NEW t \in todo, StoreSingle(t) PROVE KnownInv'
    <3>1. /\ t \in Upid /\ TaskOf(t) = t /\ batch = None
          /\ rows' = [rows EXCEPT ![t] = Status(t)] /\ todo' = todo \ {t}
          /\ UNCHANGED <<pc, known, batch, parsed>>
      BY <2>2, UpidFacts DEF StoreSingle, Insert, Upid
    <3>2. Status(t) # "none"
      BY <3>1, StatusType DEF Typed, Results
    <3>3. \A u \in Upid : rows[u] # "none" => rows'[u] # "none"
      BY <3>1, <3>2 DEF Typed, ValuesOK
    <3> QED BY <3>1, <3>3 DEF KnownInv, Typed, ValuesOK
  <2>3. ASSUME NEW t \in todo, Skip(t) PROVE KnownInv'
    BY <2>3 DEF Skip, KnownInv
  <2>4. ASSUME NEW t \in todo, OpenBatch(t) PROVE KnownInv'
    <3>1. PICK found \in SUBSET InLog(t) :
            parsed' = IF pc = "polling" THEN found \ known ELSE found
      BY <2>4 DEF OpenBatch
    <3>2. /\ batch = None /\ batch' = t /\ t \in Batch
          /\ UNCHANGED <<rows, pc, todo, known>>
      BY <2>4 DEF OpenBatch
    <3> QED BY <3>1, <3>2, ConstantsAssumption, UpidFacts DEF KnownInv
  <2>5. ASSUME NEW u \in parsed, StoreGuest(u) PROVE KnownInv'
    <3>1. /\ u \in Upid /\ u \in UpidsOf(batch) /\ batch # None
          /\ rows' = [rows EXCEPT ![u] = Status(u)] /\ parsed' = parsed \ {u}
          /\ UNCHANGED <<pc, todo, known, batch>>
      BY <2>5 DEF StoreGuest, Insert, Stored, LoopInv, Typed, ValuesOK
    <3>2. Status(u) # "none"
      BY <3>1, StatusType DEF Typed, Results
    <3>3. TaskOf(u) = batch
      BY <3>1, UpidFacts DEF Typed, ValuesOK, Task
    <3> SUFFICES ASSUME pc = "polling" PROVE KnownInv'
      BY <3>1 DEF KnownInv
    <3>4. \A v \in known : rows'[v] # "none"
      BY <3>1, <3>2 DEF KnownInv, Typed, ValuesOK
    <3>5. parsed' \cap known = {}
      BY <3>1 DEF KnownInv
    <3>6. ASSUME NEW v \in Upid, TaskOf(v) \in todo, batch = TaskOf(v) => v \in parsed',
                 rows'[v] # "none"
          PROVE  v \in known
      <4>1. v # u
        BY <3>1, <3>3, <3>6
      <4>2. rows[v] # "none"
        BY <3>1, <3>6, <4>1 DEF Typed, ValuesOK
      <4> QED BY <3>1, <3>6, <4>2 DEF KnownInv
    <3> QED BY <3>1, <3>4, <3>5, <3>6 DEF KnownInv
  <2>6. CASE CloseBatch
    <3>1. /\ batch # None /\ parsed = {} /\ batch \in Batch
          /\ batch' = None /\ todo' = todo \ {batch}
          /\ UNCHANGED <<rows, pc, known, parsed>>
      BY <2>6 DEF CloseBatch, Typed, ValuesOK
    <3> QED BY <3>1, ConstantsAssumption, UpidFacts DEF KnownInv
  <2>7. CASE PollDone
    BY <2>7 DEF PollDone, KnownInv
  <2> QED BY <1>3, <2>1, <2>2, <2>3, <2>4, <2>5, <2>6, <2>7 DEF Storing
<1>4. CASE Alerting
  BY <1>4 DEF Alerting, AlertDuplicate, AlertStart, SendEmail, RecordEmail, SendDiscord,
     RecordDiscord, RecordFailed, RecordAlert, AlertDone, FinishCycle, KnownInv
<1>5. CASE Abort \/ Crash \/ Reconnect
  BY <1>5 DEF Abort, Crash, Reconnect, Die, Drop, Wipe, KnownInv
<1>6. CASE UNCHANGED vars
  BY <1>6 DEF vars, KnownInv
<1> QED BY <1>1, <1>2, <1>3, <1>4, <1>5, <1>6 DEF Next, Process
-----------------------------------------------------------------------------
(* Layer 2, continued: what a processed batch means *)

Complete ==
    /\ KnownStored /\ BatchInv
    /\ "log" \notin Faults => ProcessedMeansParsed

LEMMA CompleteInit == Init => Complete
BY DEF Init, Complete, KnownStored, BatchInv, ProcessedMeansParsed

\* Steps that change neither rows nor keys and do not enter a poll
LEMMA CompleteFrame ==
    ASSUME Complete, UNCHANGED <<task, outcome, rows, processed>>, aged \subseteq aged',
           UNCHANGED <<pc, known, batch, parsed>> \/ (pc' # "polling" /\ batch' = None)
    PROVE  Complete'
<1>1. KnownStored' BY DEF Complete, KnownStored
<1>2. BatchInv' BY DEF Complete, BatchInv, UpidsOf
<1>3. ("log" \notin Faults => ProcessedMeansParsed)' BY DEF Complete, ProcessedMeansParsed
<1> QED BY <1>1, <1>2, <1>3 DEF Complete

LEMMA CompleteStep == Typed /\ Stored /\ Complete /\ [Next]_vars => Complete'
<1> SUFFICES ASSUME Typed, Stored, Complete, [Next]_vars PROVE Complete'
  OBVIOUS
<1> USE DEF env, db, loop, sending, volatile, told, history
<1>0. batch # None => pc \in {"importing", "polling"}
  BY DEF Stored, LoopInv
<1>1. CASE Proxmox
  <2>1. ASSUME NEW t \in Task, StartTask(t) PROVE Complete'
    <3>1. \A b \in processed : task'[b] = "stopped"
      BY <2>1, ConstantsAssumption DEF StartTask, Complete, BatchInv, Typed, ValuesOK, Task
    <3>2. UNCHANGED <<outcome, aged, rows, processed, pc, todo, known, batch, parsed>>
      BY <2>1 DEF StartTask
    <3> QED BY <3>1, <3>2 DEF Complete, KnownStored, BatchInv, ProcessedMeansParsed, UpidsOf
  <2>2. ASSUME NEW t \in Task, FinishTask(t) PROVE Complete'
    <3>1. PICK res \in [UpidsOf(t) -> Outcomes(t)] :
            outcome' = [u \in Upid |-> IF u \in UpidsOf(t) THEN res[u] ELSE outcome[u]]
      BY <2>2 DEF FinishTask
    <3>2. /\ task[t] = "running"
          /\ \A u \in Upid : TaskOf(u) # t => outcome'[u] = outcome[u]
          /\ UNCHANGED <<aged, rows, processed, pc, todo, known, batch, parsed>>
      BY <2>2, <3>1, UpidFacts DEF FinishTask
    <3>3. KnownStored'
      BY <3>2 DEF Complete, KnownStored
    <3>4. \A b \in processed : b # t /\ task'[b] = "stopped"
      BY <2>2, <3>2 DEF FinishTask, Complete, BatchInv, Typed, ValuesOK, Task
    <3>5. batch # None => batch # t /\ batch \in Task
      BY <3>2 DEF Stored, LoopInv, Typed, ValuesOK
    <3>6. BatchInv'
      BY <3>2, <3>4, <3>5, UpidFacts DEF Complete, BatchInv, UpidsOf
    <3>7. ("log" \notin Faults => ProcessedMeansParsed)'
      <4>1. \A u \in Guest : u \in Upid /\ TaskOf(u) = u[1]
        BY ConstantsAssumption DEF Upid, TaskOf
      <4> QED BY <3>2, <3>4, <4>1 DEF Complete, ProcessedMeansParsed
    <3> QED BY <3>3, <3>6, <3>7 DEF Complete
  <2>3. ASSUME NEW t \in Task, Age(t) PROVE Complete'
    BY <2>3, CompleteFrame DEF Age
  <2> QED BY <1>1, <2>1, <2>2, <2>3 DEF Proxmox
<1>2. CASE Startup
  <2>1. CASE Boot
    BY <1>0, <2>1, CompleteFrame DEF Boot
  <2>2. ASSUME NEW R \in SUBSET Node, ImportFetch(R) PROVE Complete'
    BY <1>0, <2>2, CompleteFrame DEF ImportFetch
  <2>3. CASE ImportDone
    <3>1. batch = None BY <2>3 DEF ImportDone, Stored, LoopInv
    <3> QED BY <3>1, <2>3, CompleteFrame DEF ImportDone
  <2>4. CASE Purge
    <3>1. batch = None /\ pc' = "idle" /\ UNCHANGED <<task, outcome, aged, processed, batch>>
      BY <1>0, <2>4 DEF Purge
    <3>2. KnownStored' /\ BatchInv'
      BY <3>1 DEF Complete, KnownStored, BatchInv
    <3>3. ("log" \notin Faults => ProcessedMeansParsed)'
      <4>1. \A u \in Guest : u \in Upid /\ TaskOf(u) = u[1]
        BY ConstantsAssumption DEF Upid, TaskOf
      <4> QED BY <2>4, <3>1, <4>1 DEF Purge, Complete, ProcessedMeansParsed
    <3> QED BY <3>2, <3>3 DEF Complete
  <2> QED BY <1>2, <2>1, <2>2, <2>3, <2>4 DEF Startup
<1>3. CASE Storing
  <2>1. ASSUME NEW R \in SUBSET Node, PollFetch(R) PROVE Complete'
    <3>1. batch = None /\ parsed = {}
      BY <2>1 DEF PollFetch, Stored, LoopInv
    <3>2. KnownStored'
      BY <2>1, <3>1 DEF PollFetch, KnownStored
    <3>3. BatchInv' /\ ("log" \notin Faults => ProcessedMeansParsed)'
      BY <2>1, <3>1 DEF PollFetch, Complete, BatchInv, ProcessedMeansParsed
    <3> QED BY <3>2, <3>3 DEF Complete
  <2>2. ASSUME NEW t \in todo, StoreSingle(t) PROVE Complete'
    <3>1. /\ t \in Upid /\ TaskOf(t) = t /\ batch = None
          /\ rows' = [rows EXCEPT ![t] = Status(t)] /\ todo' = todo \ {t}
          /\ UNCHANGED <<task, outcome, aged, processed, pc, known, batch, parsed>>
      BY <2>2, UpidFacts DEF StoreSingle, Insert, Upid
    <3>2. Status(t) # "none"
      BY <3>1, StatusType DEF Typed, Results
    <3>3. \A u \in Upid : rows[u] # "none" => rows'[u] # "none"
      BY <3>1, <3>2 DEF Typed, ValuesOK
    <3>4. KnownStored'
      BY <3>1, <3>3 DEF Complete, KnownStored, Typed, ValuesOK
    <3>5. BatchInv'
      BY <3>1 DEF Complete, BatchInv
    <3>6. ("log" \notin Faults => ProcessedMeansParsed)'
      BY <3>1, <3>3 DEF Complete, ProcessedMeansParsed, Upid
    <3> QED BY <3>4, <3>5, <3>6 DEF Complete
  <2>3. ASSUME NEW t \in todo, Skip(t) PROVE Complete'
    <3>1. /\ batch = None /\ todo' = todo \ {t}
          /\ UNCHANGED <<task, outcome, aged, rows, processed, pc, known, batch, parsed>>
      BY <2>3 DEF Skip
    <3> QED BY <3>1 DEF Complete, KnownStored, BatchInv, ProcessedMeansParsed
  <2>4. ASSUME NEW t \in todo, OpenBatch(t) PROVE Complete'
    <3>1. PICK found \in SUBSET InLog(t) :
            ParseBatchTask(t, found) /\ parsed' = IF pc = "polling" THEN found \ known ELSE found
      BY <2>4 DEF OpenBatch
    <3>2. /\ batch = None /\ batch' = t /\ t \in Batch
          /\ UNCHANGED <<task, outcome, aged, rows, processed, pc, todo, known>>
      BY <2>4 DEF OpenBatch
    <3>3. KnownStored'
      BY <3>2 DEF Complete, KnownStored
    <3>4. "log" \notin Faults /\ t \notin aged =>
            \A u \in UpidsOf(t) : outcome[u] # "none" => u \in parsed' \/ rows[u] # "none"
      <4>1. \A u \in UpidsOf(t) : TaskOf(u) = t
        BY <3>2, UpidFacts DEF Task
      <4> QED BY <3>1, <4>1 DEF ParseBatchTask, Fault, InLog, Complete, KnownStored
    <3>5. BatchInv'
      BY <3>2, <3>4 DEF Complete, BatchInv, UpidsOf
    <3>6. ("log" \notin Faults => ProcessedMeansParsed)'
      BY <3>2 DEF Complete, ProcessedMeansParsed
    <3> QED BY <3>3, <3>5, <3>6 DEF Complete
  <2>5. ASSUME NEW u \in parsed, StoreGuest(u) PROVE Complete'
    <3>1. /\ u \in Upid /\ u \in UpidsOf(batch) /\ batch # None
          /\ rows' = [rows EXCEPT ![u] = Status(u)] /\ parsed' = parsed \ {u}
          /\ UNCHANGED <<task, outcome, aged, processed, pc, todo, known, batch>>
      BY <2>5 DEF StoreGuest, Insert, Stored, LoopInv, Typed, ValuesOK
    <3>2. Status(u) # "none"
      BY <3>1, StatusType DEF Typed, Results
    <3>3. TaskOf(u) = batch
      BY <3>1, UpidFacts DEF Typed, ValuesOK, Task
    <3>4. \A v \in Upid : rows[v] # "none" => rows'[v] # "none"
      BY <3>1, <3>2 DEF Typed, ValuesOK
    <3>5. rows'[u] # "none"
      BY <3>1, <3>2 DEF Typed, ValuesOK
    <3>6. KnownStored'
      BY <3>1, <3>4 DEF Complete, KnownStored, Typed, ValuesOK
    <3>7. BatchInv'
      <4>1. UpidsOf(batch) \subseteq Upid
        BY <3>1, UpidFacts DEF Typed, ValuesOK, Task
      <4> QED BY <3>1, <3>4, <3>5, <4>1 DEF Complete, BatchInv, UpidsOf
    <3>8. ("log" \notin Faults => ProcessedMeansParsed)'
      BY <3>1, <3>4 DEF Complete, ProcessedMeansParsed, Upid
    <3> QED BY <3>6, <3>7, <3>8 DEF Complete
  <2>6. CASE CloseBatch
    <3>1. /\ batch # None /\ parsed = {} /\ batch \in Batch /\ task[batch] = "stopped"
          /\ processed' = processed \cup {batch} /\ batch' = None /\ todo' = todo \ {batch}
          /\ UNCHANGED <<task, outcome, aged, rows, pc, known, parsed>>
      BY <2>6 DEF CloseBatch, Stored, LoopInv, Typed, ValuesOK
    <3>2. KnownStored'
      BY <3>1 DEF Complete, KnownStored
    <3>3. BatchInv'
      BY <3>1 DEF Complete, BatchInv
    <3>4. ("log" \notin Faults => ProcessedMeansParsed)'
      <4>1. \A u \in Guest : u[1] = batch => u \in UpidsOf(batch)
        BY <3>1, ConstantsAssumption DEF Guest, UpidsOf
      <4> QED BY <3>1, <4>1 DEF Complete, BatchInv, ProcessedMeansParsed
    <3> QED BY <3>2, <3>3, <3>4 DEF Complete
  <2>7. CASE PollDone
    <3>1. batch = None BY <2>7 DEF PollDone, Stored, LoopInv
    <3> QED BY <3>1, <2>7, CompleteFrame DEF PollDone
  <2> QED BY <1>3, <2>1, <2>2, <2>3, <2>4, <2>5, <2>6, <2>7 DEF Storing
<1>4. CASE Alerting
  <2> USE DEF AlertDuplicate, AlertStart, SendEmail, RecordEmail, SendDiscord,
       RecordDiscord, RecordFailed, RecordAlert, AlertDone, FinishCycle
  <2>1. UNCHANGED <<task, outcome, aged, rows, processed, batch, parsed>>
    BY <1>4 DEF Alerting
  <2>2. pc \notin {"importing", "polling"} /\ pc' # "polling"
    BY <1>4 DEF Alerting
  <2> QED BY <1>0, <2>1, <2>2, CompleteFrame
<1>5. CASE Abort \/ Crash
  <2>1. LoseMemory /\ pc' # "polling" /\ UNCHANGED <<task, outcome, aged>>
    BY <1>5 DEF Abort, Crash, Die, Drop, Wipe
  <2>2. UNCHANGED <<rows, processed>> \/ processed' = {}
    BY <1>5 DEF Abort, Crash, Die, Drop, Wipe
  <2> QED BY <2>1, <2>2 DEF LoseMemory, Complete, KnownStored, BatchInv, ProcessedMeansParsed
<1>6. CASE UNCHANGED vars
  BY <1>6, CompleteFrame DEF vars
<1>7. CASE Reconnect
  BY <1>7, CompleteFrame DEF Reconnect, Stored, LoopInv
<1> QED BY <1>1, <1>2, <1>3, <1>4, <1>5, <1>6, <1>7 DEF Next, Process
-----------------------------------------------------------------------------
(* Layer 3: deliveries.  The lemmas are stated for a process that may have     *)
(* others beside it, see DeliveryInv.                                         *)

OncePerUpid(both) == \A d \in again : d \in orphaned \/ d[1] \in both

Told(hands, both) == DeliveryInv(hands, both) /\ OncePerUpid(both)

LEMMA ToldAlone == AtMostOnce <=> OncePerUpid({})
BY DEF AtMostOnce, OncePerUpid

LEMMA ToldInit == Init => Told({}, {})
BY ConstantsAssumption DEF Init, Told, DeliveryInv, Spent, OncePerUpid

\* More may come to be in hand here and there.
LEMMA ToldMore ==
    ASSUME NEW hands, NEW both, NEW more, both \subseteq more, Told(hands, both)
    PROVE  Told(hands, more)
BY DEF Told, DeliveryInv, Spent, OncePerUpid

\* Steps outside send_backup_failure_alert
LEMMA ToldFrame ==
    ASSUME NEW hands, NEW both, Told(hands, both),
           UNCHANGED <<delivered, again, orphaned, alerts, cur, emailOk>>,
           \/ UNCHANGED pc
           \/ cur = None /\ pc' \notin Sending
    PROVE  Told(hands, both)'
<1>1. \A u : AlreadySent(u)' <=> AlreadySent(u)
  BY DEF AlreadySent
<1> QED BY <1>1 DEF Told, DeliveryInv, Spent, OncePerUpid, Sending

\* A message goes out on a channel on which cur has been told of in no way that
\* counts.
LEMMA ToldSend ==
    ASSUME NEW hands, NEW both, Told(hands, both), NEW channel \in {"email", "discord"},
           SendOk(channel) \/ SendFails(channel), Spent(cur, channel, both),
           UNCHANGED <<orphaned, alerts, cur>>
    PROVE  /\ \A d \in delivered' :
                 d \in orphaned' \/ AlreadySent(d[1])' \/ d[1] \in {cur'} \cup hands
           /\ OncePerUpid(both)'
           /\ \A d \in delivered' : d \in delivered \/ d = <<cur, channel>>
<1>1. \A u : AlreadySent(u)' <=> AlreadySent(u)
  BY DEF AlreadySent
<1>2. CASE Reach(channel)
  <2> DEFINE this == <<cur, channel>>
  <2>1. delivered' = delivered \cup {this} /\ again' = again \cup (delivered \cap {this})
    BY <1>2 DEF Reach
  <2>2. this \in delivered => this \in orphaned \/ cur \in both
    BY DEF Spent
  <2>3. this[1] = cur
    OBVIOUS
  <2> HIDE DEF this
  <2>4. OncePerUpid(both)'
    BY <2>1, <2>2, <2>3 DEF Told, OncePerUpid
  <2>5. \A d \in delivered' : d \in orphaned' \/ AlreadySent(d[1])' \/ d[1] \in {cur'} \cup hands
    BY <1>1, <2>1, <2>3 DEF Told, DeliveryInv
  <2>6. \A d \in delivered' : d \in delivered \/ d = this
    BY <2>1
  <2> QED BY <2>4, <2>5, <2>6 DEF this
<1>3. CASE UNCHANGED told
  BY <1>1, <1>3 DEF told, Told, DeliveryInv, OncePerUpid
<1> QED BY <1>2, <1>3 DEF SendOk, SendFails

LEMMA RecordCovers ==
    ASSUME NEW target, RecordAlert(target)
    PROVE  AlreadySent(cur)' /\ \A u : AlreadySent(u) => AlreadySent(u)'
<1>1. cur' = cur /\ alerts' = alerts \cup {<<cur, target>>}
  BY DEF RecordAlert
<1>2. <<cur, target>>[1] = cur
  OBVIOUS
<1> QED BY <1>1, <1>2, MatchesItself DEF AlreadySent

\* What is in hand here, where nobody else has it, is not told twice.
LEMMA ToldStep ==
    ASSUME NEW hands, NEW both, hands \cap failed' \subseteq both,
           FlagsOK, Typed, Told(hands, both), [Next]_vars
    PROVE  Told(hands, both)'
<1> USE DEF env, db, loop, sending, volatile, told, history
<1>0. (cur # None <=> pc \in Sending) /\ (emailOk => cur # None)
  BY DEF Typed, CurInv, Told, DeliveryInv
<1>1. CASE Proxmox
  BY <1>1, ToldFrame DEF Proxmox, StartTask, FinishTask, Age
<1>2. CASE Startup
  BY <1>0, <1>2, ToldFrame DEF Startup, Boot, ImportFetch, ImportDone, Purge, Sending
<1>3. CASE Storing
  <2>1. pc \notin Sending \/ UNCHANGED pc
    BY <1>3 DEF Storing, PollFetch, StoreSingle, Skip, OpenBatch, StoreGuest, CloseBatch,
       PollDone, Sending
  <2>2. UNCHANGED pc \/ pc' \notin Sending
    BY <1>3 DEF Storing, PollFetch, StoreSingle, Skip, OpenBatch, StoreGuest, CloseBatch,
       PollDone, Sending
  <2>3. UNCHANGED <<delivered, again, orphaned, alerts, cur, emailOk>>
    BY <1>3 DEF Storing, PollFetch, StoreSingle, Skip, OpenBatch, StoreGuest, CloseBatch,
       PollDone
  <2> QED BY <1>0, <2>1, <2>2, <2>3, ToldFrame
<1>4. CASE Alerting
  <2>1. ASSUME NEW u \in failed, AlertDuplicate(u) PROVE Told(hands, both)'
    BY <1>0, <2>1, ToldFrame DEF AlertDuplicate
  <2>2. ASSUME NEW u \in failed, AlertStart(u) PROVE Told(hands, both)'
    <3>1. /\ cur = None /\ cur' = u /\ pc' = "email" /\ ~AlreadySent(u)
          /\ UNCHANGED <<delivered, again, orphaned, alerts, failed>>
      BY <1>0, <2>2 DEF AlertStart, Sending
    <3>2. \A v : AlreadySent(v)' <=> AlreadySent(v)
      BY <3>1 DEF AlreadySent
    <3>3. u # None
      BY ConstantsAssumption DEF Typed, ValuesOK
    <3>4. \A d \in delivered : d \in orphaned \/ AlreadySent(d[1]) \/ d[1] \in hands
      <4>1. \A d \in delivered : d[1] \in Upid
        BY DEF Typed, ValuesOK
      <4>2. None \notin Upid
        BY ConstantsAssumption
      <4> QED BY <3>1, <4>1, <4>2 DEF Told, DeliveryInv
    <3>5. \A c : Spent(u, c, both)
      <4> SUFFICES ASSUME NEW c, <<u, c>> \in delivered
                   PROVE  <<u, c>> \in orphaned \/ u \in both
        BY DEF Spent
      <4>1. <<u, c>> \in orphaned \/ AlreadySent(u) \/ u \in hands
        BY <3>4
      <4> QED BY <3>1, <4>1
    <3>6. ~emailOk'
      BY <2>2 DEF AlertStart
    <3>7. DeliveryInv(hands, both)'
      BY <3>1, <3>2, <3>3, <3>4, <3>5, <3>6 DEF DeliveryInv, Spent
    <3>8. OncePerUpid(both)'
      BY <3>1 DEF Told, OncePerUpid
    <3> QED BY <3>7, <3>8 DEF Told
  <2>3. CASE SendEmail
    <3>1. /\ pc = "email" /\ pc' \in {"emailed", "discord"}
          /\ SendOk("email") \/ SendFails("email")
          /\ UNCHANGED <<orphaned, alerts, cur, emailOk>>
      BY <2>3 DEF SendEmail
    <3>2. <<cur, "email">> # <<cur, "discord">>
      OBVIOUS
    <3>3. \A u : AlreadySent(u)' <=> AlreadySent(u)
      BY <3>1 DEF AlreadySent
    <3>4. Spent(cur, "email", both) /\ Spent(cur, "discord", both)
      BY <3>1 DEF Told, DeliveryInv
    <3>5. /\ \A d \in delivered' :
                d \in orphaned' \/ AlreadySent(d[1])' \/ d[1] \in {cur'} \cup hands
          /\ OncePerUpid(both)'
          /\ \A d \in delivered' : d \in delivered \/ d = <<cur, "email">>
      BY <3>1, <3>4, ToldSend
    <3>6. Spent(cur, "discord", both)'
      BY <3>1, <3>2, <3>4, <3>5 DEF Spent
    <3> QED BY <3>1, <3>3, <3>5, <3>6 DEF Told, DeliveryInv
  <2>4. CASE RecordEmail
    <3>1. /\ pc = "emailed" /\ pc' = "discord"
          /\ UNCHANGED <<delivered, again, orphaned, cur>>
          /\ AlreadySent(cur)' /\ \A u : AlreadySent(u) => AlreadySent(u)'
      BY <2>4, RecordCovers DEF RecordEmail, RecordAlert
    <3>2. cur # None
      BY <1>0, <3>1 DEF Sending
    <3> QED BY <3>1, <3>2 DEF Told, DeliveryInv, Spent, OncePerUpid
  <2>5. CASE SendDiscord
    <3>1. /\ pc = "discord" /\ pc' \in {"discorded", "settled", "failing"}
          /\ pc' = "settled" => emailOk
          /\ SendOk("discord") \/ SendFails("discord")
          /\ UNCHANGED <<orphaned, alerts, cur, emailOk>>
      BY <2>5 DEF SendDiscord
    <3>2. \A u : AlreadySent(u)' <=> AlreadySent(u)
      BY <3>1 DEF AlreadySent
    <3>3. Spent(cur, "discord", both)
      BY <3>1 DEF Told, DeliveryInv
    <3>4. /\ \A d \in delivered' :
                d \in orphaned' \/ AlreadySent(d[1])' \/ d[1] \in {cur'} \cup hands
          /\ OncePerUpid(both)'
      BY <3>1, <3>3, ToldSend
    <3> QED BY <3>1, <3>2, <3>4 DEF Told, DeliveryInv
  <2>6. CASE RecordDiscord \/ RecordFailed
    <3>1. /\ pc' = "settled"
          /\ UNCHANGED <<delivered, again, orphaned, cur, emailOk>>
          /\ AlreadySent(cur)' /\ \A u : AlreadySent(u) => AlreadySent(u)'
      BY <2>6, RecordCovers DEF RecordDiscord, RecordFailed, RecordAlert
    <3> QED BY <3>1 DEF Told, DeliveryInv, OncePerUpid
  <2>7. CASE AlertDone
    <3>1. /\ pc = "settled" /\ pc' = "alerting"
          /\ UNCHANGED <<delivered, again, orphaned, alerts>>
      BY <2>7 DEF AlertDone
    <3>2. AlreadySent(cur) /\ \A u : AlreadySent(u)' <=> AlreadySent(u)
      BY <3>1 DEF Told, DeliveryInv, AlreadySent
    <3>3. \A d \in delivered : d \in orphaned \/ AlreadySent(d[1]) \/ d[1] \in hands
      BY <3>2 DEF Told, DeliveryInv
    <3>4. ~emailOk'
      BY <2>7 DEF AlertDone
    <3> QED BY <3>1, <3>2, <3>3, <3>4 DEF Told, DeliveryInv, OncePerUpid
  <2>8. CASE FinishCycle
    BY <1>0, <2>8, ToldFrame DEF FinishCycle, Sending
  <2> QED BY <1>4, <2>1, <2>2, <2>3, <2>4, <2>5, <2>6, <2>7, <2>8 DEF Alerting
<1>5. CASE Abort \/ Crash
  <2>1. /\ LoseMemory /\ pc' \in {"down", "idle", "wedged"} /\ UNCHANGED <<delivered, again>>
        /\ Drop \/ Wipe
    BY <1>5 DEF Abort, Crash, Die, Drop, Wipe
  <2>2. ~emailOk' /\ orphaned \subseteq orphaned'
    BY <2>1 DEF LoseMemory, Drop, Wipe, Typed, ValuesOK
  <2>3. \A d \in delivered : d \in orphaned' \/ AlreadySent(d[1])' \/ d[1] \in hands
    <3>1. CASE Drop
      <4>1. orphaned' = orphaned \cup {d \in delivered : d[1] = cur} /\ UNCHANGED alerts
        BY <3>1 DEF Drop
      <4>2. \A u : AlreadySent(u)' <=> AlreadySent(u)
        BY <4>1 DEF AlreadySent
      <4> QED BY <4>1, <4>2 DEF Told, DeliveryInv
    <3>2. CASE Wipe
      BY <3>2 DEF Wipe
    <3> QED BY <2>1, <3>1, <3>2
  <2> QED BY <2>1, <2>2, <2>3 DEF Told, DeliveryInv, OncePerUpid
<1>6. CASE UNCHANGED vars
  BY <1>6, ToldFrame DEF vars
<1>7. CASE Reconnect
  BY <1>7, ToldFrame DEF Reconnect, Typed, CurInv, Sending
<1> QED BY <1>1, <1>2, <1>3, <1>4, <1>5, <1>6, <1>7 DEF Next, Process

-----------------------------------------------------------------------------
(* Layer 4: failures *)

\* FailuresAccountedFor, where others may hold some of them
Accounted(held) ==
    \A u \in Upid : rows[u] = "ERR" =>
        AlreadySent(u) \/ u \in failed \cup held \/ u \in backfilled \/ u \in lost

LEMMA AccountedAlone == FailuresAccountedFor <=> Accounted({})
BY DEF FailuresAccountedFor, Accounted

\* Steps that add no failing row and let go of no failure without an alert on
\* record
LEMMA AccountedFrame ==
    ASSUME NEW held, Accounted(held), \A u \in Upid : rows'[u] = "ERR" => rows[u] = "ERR",
           \A u \in failed : u \in failed' \/ AlreadySent(u)' \/ u \in lost',
           alerts \subseteq alerts',
           \A u \in backfilled \cup lost :
               rows'[u] = "ERR" => (u \in backfilled => u \in backfilled') /\ (u \in lost => u \in lost')
    PROVE  Accounted(held)'
<1>1. \A u : AlreadySent(u) => AlreadySent(u)'
  BY DEF AlreadySent
<1> QED BY <1>1 DEF Accounted

\* What an insertion writes, and what it means that it writes "ERR"
LEMMA InsertWrites ==
    ASSUME Typed, NEW u \in Upid, Insert(u)
    PROVE  /\ rows'[u] = Status(u) /\ Status(u) # "none"
           /\ \A v \in Upid : v # u => rows'[v] = rows[v]
           /\ task[TaskOf(u)] = "stopped" => (Failing(outcome[u]) <=> Status(u) = "ERR")
           /\ Status(u) = "ERR" => Failing(outcome[u])
<1>1. rows' = [rows EXCEPT ![u] = Status(u)] /\ Status(u) # "none"
  BY StatusType DEF Insert, Typed, Results
<1>2. rows'[u] = Status(u) /\ \A v \in Upid : v # u => rows'[v] = rows[v]
  BY <1>1 DEF Typed, ValuesOK
<1>3. task[TaskOf(u)] = "stopped" => (Failing(outcome[u]) <=> Status(u) = "ERR")
  BY DEF Failing, Status, Typed, ValuesOK
<1>4. TaskOf(u) \in Task
  BY UpidFacts
<1>5. Status(u) = "ERR" => Failing(outcome[u])
  BY <1>4 DEF Failing, Status, Typed, ValuesOK
<1> QED BY <1>1, <1>2, <1>3, <1>5

\* An insertion by the import or by the poll
LEMMA AccountedInsert ==
    ASSUME NEW held, Typed, Accounted(held), NEW u \in Upid, Insert(u), UNCHANGED <<alerts, lost>>
    PROVE  Accounted(held)'
<1>1. rows'[u] = "ERR" => u \in backfilled' \cup failed'
  BY InsertWrites DEF Insert, NoteImported, NoteFailure
<1>2. failed \subseteq failed' /\ backfilled \subseteq backfilled'
  BY DEF Insert, NoteImported, NoteFailure
<1>3. \A v : AlreadySent(v)' <=> AlreadySent(v)
  BY DEF AlreadySent
<1> QED BY <1>1, <1>2, <1>3, InsertWrites DEF Accounted

LEMMA AccountedStep ==
    ASSUME NEW held, Typed, pc = "settled" => AlreadySent(cur), Accounted(held), [Next]_vars
    PROVE  Accounted(held)'
<1> USE DEF env, db, loop, sending, volatile, told, history
<1>1. CASE Proxmox
  BY <1>1, AccountedFrame DEF Proxmox, StartTask, FinishTask, Age
<1>2. CASE Startup
  <2>1. CASE Purge
    BY <2>1, AccountedFrame DEF Purge, Typed, ValuesOK
  <2>2. CASE ~Purge
    BY <1>2, <2>2, AccountedFrame DEF Startup, Boot, ImportFetch, ImportDone
  <2> QED BY <2>1, <2>2
<1>3. CASE Storing
  <2>1. ASSUME NEW t \in todo, StoreSingle(t) PROVE Accounted(held)'
    <3>1. t \in Upid
      BY <2>1 DEF StoreSingle, Upid
    <3> QED BY <2>1, <3>1, AccountedInsert DEF StoreSingle
  <2>2. ASSUME NEW u \in parsed, StoreGuest(u) PROVE Accounted(held)'
    <3>1. u \in Upid
      BY DEF Typed, ValuesOK
    <3> QED BY <2>2, <3>1, AccountedInsert DEF StoreGuest
  <2>3. ASSUME UNCHANGED <<rows, alerts, failed, backfilled, lost>> PROVE Accounted(held)'
    BY <2>3, AccountedFrame
  <2> QED BY <1>3, <2>1, <2>2, <2>3 DEF Storing, PollFetch, Skip, OpenBatch, CloseBatch, PollDone
<1>4. CASE Alerting
  <2>1. ASSUME NEW u \in failed, AlertDuplicate(u) PROVE Accounted(held)'
    <3>1. AlreadySent(u)'
      BY <2>1 DEF AlertDuplicate, AlreadySent
    <3> QED BY <2>1, <3>1, AccountedFrame DEF AlertDuplicate
  <2>2. ASSUME NEW u \in failed, AlertStart(u) PROVE Accounted(held)'
    BY <2>2, AccountedFrame DEF AlertStart
  <2>3. CASE SendEmail \/ RecordEmail \/ SendDiscord \/ RecordDiscord \/ RecordFailed
    BY <2>3, AccountedFrame DEF SendEmail, RecordEmail, SendDiscord, RecordDiscord,
       RecordFailed, RecordAlert
  <2>4. CASE AlertDone
    <3>1. \A u : AlreadySent(u)' <=> AlreadySent(u)
      BY <2>4 DEF AlertDone, AlreadySent
    <3>2. AlreadySent(cur)
      BY <2>4 DEF AlertDone
    <3> QED BY <2>4, <3>1, <3>2, AccountedFrame DEF AlertDone
  <2>5. CASE FinishCycle
    BY <2>5, AccountedFrame DEF FinishCycle
  <2> QED BY <1>4, <2>1, <2>2, <2>3, <2>4, <2>5 DEF Alerting
<1>5. CASE Abort \/ Crash
  <2>1. CASE Drop
    <3>1. \A u : AlreadySent(u)' <=> AlreadySent(u)
      BY <2>1 DEF Drop, AlreadySent
    <3>2. lost' = lost \cup {u \in failed : ~AlreadySent(u)}
      BY <2>1 DEF Drop
    <3> QED BY <2>1, <3>1, <3>2, AccountedFrame DEF Drop
  <2>2. CASE Wipe
    BY <2>2 DEF Wipe, Accounted
  <2> QED BY <1>5, <2>1, <2>2 DEF Abort, Crash, Die
<1>6. CASE UNCHANGED vars
  BY <1>6, AccountedFrame DEF vars
<1>7. CASE Reconnect
  BY <1>7, AccountedFrame DEF Reconnect
<1> QED BY <1>1, <1>2, <1>3, <1>4, <1>5, <1>6, <1>7 DEF Next, Process

Noticed == FailedInv /\ FailuresAccountedFor

LEMMA NoticedInit == Init => Noticed
BY DEF Init, Noticed, FailedInv, FailuresAccountedFor

\* What the poll inserts was not there: its snapshot is still exact.
LEMMA PollInsertsNew ==
    ASSUME Typed, Stored, KnownInv, pc = "polling", NEW u \in Upid,
           TaskOf(u) \in todo, u \notin known, batch = TaskOf(u) => u \in parsed
    PROVE  rows[u] = "none"
BY DEF KnownInv

\* Steps that touch no row and add no failure
LEMMA FailedFrame ==
    ASSUME FailedInv, UNCHANGED <<rows, backfilled>>, failed' \subseteq failed,
           failed' = {} \/ pc' \in {"polling", "alerting"} \cup Sending
    PROVE  FailedInv'
BY DEF FailedInv

LEMMA FailedInsert ==
    ASSUME Typed, FailedInv, NEW u \in Upid, Insert(u), task[TaskOf(u)] = "stopped",
           pc = "polling" => rows[u] = "none", UNCHANGED pc
    PROVE  FailedInv'
<1>1. CASE pc = "importing"
  <2>1. backfilled' = backfilled \cup {u} /\ failed' = failed
    BY <1>1 DEF Insert, NoteImported, NoteFailure
  <2>2. failed = {}
    BY <1>1 DEF FailedInv, Sending
  <2> QED BY <2>1, <2>2, InsertWrites DEF FailedInv, Typed, ValuesOK
<1>2. CASE pc = "polling"
  <2>1. /\ backfilled' = backfilled
        /\ failed' = IF Failing(outcome[u]) THEN failed \cup {u} ELSE failed
    BY <1>2 DEF Insert, NoteImported, NoteFailure
  <2>2. u \notin backfilled
    BY <1>2 DEF FailedInv
  <2> QED BY <1>2, <2>1, <2>2, InsertWrites DEF FailedInv, Typed, ValuesOK
<1> QED BY <1>1, <1>2 DEF Insert, NoteImported, NoteFailure

LEMMA FailedStep == Typed /\ Stored /\ KnownInv /\ FailedInv /\ [Next]_vars => FailedInv'
<1> SUFFICES ASSUME Typed, Stored, KnownInv, FailedInv, [Next]_vars PROVE FailedInv'
  OBVIOUS
<1> USE DEF env, db, loop, sending, volatile, told, history
<1>1. CASE Proxmox
  <2>1. UNCHANGED <<rows, backfilled, failed, pc>>
    BY <1>1 DEF Proxmox, StartTask, FinishTask, Age
  <2> QED BY <2>1 DEF FailedInv
<1>2. CASE Startup
  <2>1. failed = {} /\ UNCHANGED failed
    BY <1>2 DEF Startup, Boot, ImportFetch, ImportDone, Purge, FailedInv, Sending
  <2>2. CASE Purge
    BY <2>1, <2>2 DEF Purge, FailedInv, Typed, ValuesOK
  <2>3. CASE ~Purge
    BY <1>2, <2>1, <2>3, FailedFrame DEF Startup, Boot, ImportFetch, ImportDone
  <2> QED BY <2>2, <2>3
<1>3. CASE Storing
  <2>1. ASSUME NEW R \in SUBSET Node, PollFetch(R) PROVE FailedInv'
    BY <2>1, FailedFrame DEF PollFetch
  <2>2. ASSUME NEW t \in todo, StoreSingle(t) PROVE FailedInv'
    <3>1. t \in Upid /\ TaskOf(t) = t /\ task[t] = "stopped" /\ batch = None /\ t # None
      BY <2>2, UpidFacts, ConstantsAssumption DEF StoreSingle, Upid, Stored, LoopInv
    <3>2. pc = "polling" => rows[t] = "none"
      BY <2>2, <3>1, PollInsertsNew DEF StoreSingle
    <3> QED BY <2>2, <3>1, <3>2, FailedInsert DEF StoreSingle
  <2>3. ASSUME NEW t \in todo, Skip(t) PROVE FailedInv'
    BY <2>3 DEF Skip, FailedInv
  <2>4. ASSUME NEW t \in todo, OpenBatch(t) PROVE FailedInv'
    BY <2>4 DEF OpenBatch, FailedInv
  <2>5. ASSUME NEW u \in parsed, StoreGuest(u) PROVE FailedInv'
    <3>1. /\ u \in Upid /\ batch # None /\ batch \in Batch /\ batch \in todo
          /\ u \in UpidsOf(batch) /\ outcome[u] # "none"
      BY DEF Stored, LoopInv, Typed, ValuesOK
    <3>2. TaskOf(u) = batch /\ task[TaskOf(u)] = "stopped"
      BY <3>1, UpidFacts DEF Task, Stored, LoopInv
    <3>3. pc = "polling" => rows[u] = "none"
      BY <3>1, <3>2, PollInsertsNew DEF KnownInv
    <3> QED BY <2>5, <3>1, <3>2, <3>3, FailedInsert DEF StoreGuest
  <2>6. CASE CloseBatch
    BY <2>6 DEF CloseBatch, FailedInv
  <2>7. CASE PollDone
    BY <2>7, FailedFrame DEF PollDone
  <2> QED BY <1>3, <2>1, <2>2, <2>3, <2>4, <2>5, <2>6, <2>7 DEF Storing
<1>4. CASE Alerting
  <2> USE FailedFrame DEF Sending
  <2>1. ASSUME NEW u \in failed, AlertDuplicate(u) PROVE FailedInv'
    BY <2>1 DEF AlertDuplicate
  <2>2. ASSUME NEW u \in failed, AlertStart(u) PROVE FailedInv'
    BY <2>2 DEF AlertStart
  <2>3. CASE SendEmail BY <2>3 DEF SendEmail
  <2>4. CASE RecordEmail BY <2>4 DEF RecordEmail, RecordAlert
  <2>5. CASE SendDiscord BY <2>5 DEF SendDiscord
  <2>6. CASE RecordDiscord BY <2>6 DEF RecordDiscord, RecordAlert
  <2>7. CASE RecordFailed BY <2>7 DEF RecordFailed, RecordAlert
  <2>8. CASE AlertDone BY <2>8 DEF AlertDone
  <2>9. CASE FinishCycle BY <2>9 DEF FinishCycle
  <2> QED BY <1>4, <2>1, <2>2, <2>3, <2>4, <2>5, <2>6, <2>7, <2>8, <2>9 DEF Alerting
<1>5. CASE Abort \/ Crash
  <2>1. CASE Drop
    BY <2>1, FailedFrame DEF Drop, LoseMemory
  <2>2. CASE Wipe
    BY <2>2 DEF Wipe, LoseMemory, FailedInv
  <2> QED BY <1>5, <2>1, <2>2 DEF Abort, Crash, Die
<1>6. CASE UNCHANGED vars
  BY <1>6 DEF vars, FailedInv
<1>7. CASE Reconnect
  BY <1>7 DEF Reconnect, FailedInv, Sending
<1> QED BY <1>1, <1>2, <1>3, <1>4, <1>5, <1>6, <1>7 DEF Next, Process

LEMMA NoticedStep ==
    Typed /\ Stored /\ KnownInv /\ Told({}, {}) /\ Noticed /\ [Next]_vars => Noticed'
<1> SUFFICES ASSUME Typed, Stored, KnownInv, Told({}, {}), Noticed, [Next]_vars PROVE Noticed'
  OBVIOUS
<1>1. FailedInv'
  BY FailedStep DEF Noticed
<1>2. pc = "settled" => AlreadySent(cur)
  BY DEF Told, DeliveryInv
<1>3. Accounted({})
  BY AccountedAlone DEF Noticed
<1>4. Accounted({})'
  BY <1>2, <1>3, AccountedStep
<1>5. FailuresAccountedFor'
  BY <1>4 DEF Accounted, FailuresAccountedFor
<1> QED BY <1>1, <1>5 DEF Noticed
-----------------------------------------------------------------------------
(* A process beside others on the same database: what its steps do to them,    *)
(* and what theirs leave of what it knows                                      *)

\* Where the database persists, a step of the process takes nothing from it but
\* rows that have grown old, and delivers only what it is working on.
LEMMA StepBeside ==
    ASSUME Typed, Persistent, Process \/ Abort \/ Crash \/ Reconnect
    PROVE  /\ UNCHANGED env
           /\ \A u \in Upid : rows[u] # "none" => rows'[u] # "none" \/ TaskOf(u) \in aged
           /\ alerts \subseteq alerts' /\ orphaned \subseteq orphaned'
           /\ \A d \in delivered' : d \in delivered \/ (d[1] = cur /\ cur' = cur /\ cur # None)
<1> USE DEF env, db, loop, sending, volatile, told, history
<1>1. CASE Startup
  BY <1>1 DEF Startup, Boot, ImportFetch, ImportDone, Purge
<1>2. CASE Storing
  <2>1. UNCHANGED <<env, alerts, orphaned, delivered>>
    BY <1>2 DEF Storing, PollFetch, StoreSingle, Skip, OpenBatch, StoreGuest, CloseBatch,
       PollDone
  <2>2. ASSUME NEW u \in Upid, Insert(u), NEW v \in Upid, rows[v] # "none"
        PROVE  rows'[v] # "none"
    BY <2>2, InsertWrites
  <2>3. ASSUME NEW t \in todo, StoreSingle(t) PROVE \A v \in Upid : rows[v] # "none" => rows'[v] # "none"
    BY <2>2, <2>3 DEF StoreSingle, Upid
  <2>4. ASSUME NEW u \in parsed, StoreGuest(u) PROVE \A v \in Upid : rows[v] # "none" => rows'[v] # "none"
    BY <2>2, <2>4 DEF StoreGuest, Typed, ValuesOK
  <2> QED BY <1>2, <2>1, <2>3, <2>4
          DEF Storing, PollFetch, Skip, OpenBatch, CloseBatch, PollDone
<1>3. CASE Alerting
  <2>1. /\ UNCHANGED <<env, rows, orphaned>> /\ alerts \subseteq alerts'
        /\ ~(SendEmail \/ SendDiscord) => UNCHANGED delivered
    BY <1>3 DEF Alerting, AlertDuplicate, AlertStart, SendEmail, RecordEmail, SendDiscord,
       RecordDiscord, RecordFailed, RecordAlert, AlertDone, FinishCycle
  <2>2. ASSUME NEW channel, SendOk(channel) \/ SendFails(channel), NEW d \in delivered'
        PROVE  d \in delivered \/ d[1] = cur
    <3>1. UNCHANGED delivered \/ delivered' = delivered \cup {<<cur, channel>>}
      BY <2>2 DEF SendOk, SendFails, Reach
    <3>2. <<cur, channel>>[1] = cur
      OBVIOUS
    <3> QED BY <2>2, <3>1, <3>2
  <2>3. CASE SendEmail \/ SendDiscord
    <3>1. UNCHANGED cur /\ cur # None
      BY <2>3 DEF SendEmail, SendDiscord, Typed, CurInv, Sending
    <3> QED BY <2>1, <2>2, <2>3, <3>1 DEF SendEmail, SendDiscord
  <2> QED BY <2>1, <2>3
<1>4. CASE Abort \/ Crash \/ Reconnect
  BY <1>4 DEF Abort, Crash, Reconnect, Die, Drop
<1> QED BY <1>1, <1>2, <1>3, <1>4 DEF Process

\* There is one history import to a database that persists.
LEMMA NoSecondImport ==
    ASSUME Persistent, imported, backfilled = {}, pc \notin {"import", "importing"},
           Process \/ Abort \/ Crash \/ Reconnect
    PROVE  imported' /\ backfilled' = {} /\ pc' \notin {"import", "importing"}
<1> USE DEF env, db, loop, sending, volatile, told, history
<1>1. CASE Startup
  BY <1>1 DEF Startup, Boot, ImportFetch, ImportDone, Purge
<1>2. CASE Storing
  BY <1>2 DEF Storing, PollFetch, StoreSingle, Skip, OpenBatch, StoreGuest, CloseBatch,
     PollDone, Insert, NoteImported, NoteFailure
<1>3. CASE Alerting
  BY <1>3 DEF Alerting, AlertDuplicate, AlertStart, SendEmail, RecordEmail, SendDiscord,
     RecordDiscord, RecordFailed, RecordAlert, AlertDone, FinishCycle
<1>4. CASE Abort \/ Crash \/ Reconnect
  BY <1>4 DEF Abort, Crash, Reconnect, Die, Drop
<1> QED BY <1>1, <1>2, <1>3, <1>4 DEF Process

\* What a processed batch means survives the steps of another process that finds
\* it so itself.
LEMMA CompleteBeside ==
    ASSUME Typed, Complete, UNCHANGED <<task, outcome, aged, pc, known, batch, parsed>>,
           \A u \in Upid : rows[u] # "none" => rows'[u] # "none" \/ TaskOf(u) \in aged,
           \A b \in processed' : task'[b] = "stopped",
           ("log" \notin Faults => ProcessedMeansParsed)'
    PROVE  Complete'
<1>1. KnownStored'
  BY DEF Complete, KnownStored, Typed, ValuesOK
<1>2. BatchInv'
  <2>1. batch # None => \A u \in UpidsOf(batch) : u \in Upid /\ TaskOf(u) = batch
    BY UpidFacts DEF Typed, ValuesOK, Task
  <2> QED BY <2>1 DEF Complete, BatchInv, UpidsOf
<1> QED BY <1>1, <1>2 DEF Complete

\* So does what it knows about deliveries.
LEMMA ToldBeside ==
    ASSUME NEW hands, NEW both, NEW more, Told(hands, both), both \subseteq more,
           UNCHANGED <<pc, cur, emailOk>>,
           alerts \subseteq alerts', orphaned \subseteq orphaned',
           \A d \in delivered' : d \in delivered \/ (d[1] = cur => cur \in more)
    PROVE  /\ pc' = "email" => Spent(cur, "email", more)'
           /\ pc' \in {"email", "emailed", "discord"} => Spent(cur, "discord", more)'
           /\ emailOk' => cur' # None
           /\ pc' = "settled" \/ emailOk' => AlreadySent(cur)'
<1>1. \A u : AlreadySent(u) => AlreadySent(u)'
  BY DEF AlreadySent
<1>2. ASSUME NEW channel, Spent(cur, channel, both) PROVE Spent(cur, channel, more)'
  <2>1. <<cur, channel>>[1] = cur
    OBVIOUS
  <2> QED BY <1>2, <2>1 DEF Spent
<1> QED BY <1>1, <1>2 DEF Told, DeliveryInv
-----------------------------------------------------------------------------
(* Layer 5: the history import *)

LEMMA ImportInit == Init => ImportInv
BY DEF Init, ImportInv

LEMMA ImportStep == ImportInv /\ [Next]_vars => ImportInv'
<1> SUFFICES ASSUME ImportInv, [Next]_vars PROVE ImportInv'
  OBVIOUS
<1> USE DEF ImportInv, env, db, loop, sending, volatile, told, history
<1>1. CASE Proxmox
  BY <1>1 DEF Proxmox, StartTask, FinishTask, Age
<1>2. CASE Startup
  BY <1>2 DEF Startup, Boot, ImportFetch, ImportDone, Purge
<1>3. CASE Storing
  <2>1. UNCHANGED <<imported, booting>>
    BY <1>3 DEF Storing, PollFetch, StoreSingle, Skip, OpenBatch, StoreGuest, CloseBatch, PollDone
  <2>2. \/ UNCHANGED pc
        \/ pc \in {"idle", "polling"} /\ pc' \in {"polling", "alerting"}
    BY <1>3 DEF Storing, PollFetch, StoreSingle, Skip, OpenBatch, StoreGuest, CloseBatch, PollDone
  <2> QED BY <2>1, <2>2
<1>4. CASE Alerting
  <2>1. UNCHANGED imported
    BY <1>4 DEF Alerting, AlertDuplicate, AlertStart, SendEmail, RecordEmail, SendDiscord,
       RecordDiscord, RecordFailed, RecordAlert, AlertDone, FinishCycle
  <2>2. pc \in Sending \cup {"alerting"} /\ pc' \in Sending \cup {"alerting", "idle"}
    BY <1>4 DEF Alerting, AlertDuplicate, AlertStart, SendEmail, RecordEmail, SendDiscord,
       RecordDiscord, RecordFailed, RecordAlert, AlertDone, FinishCycle, Sending
  <2> QED BY <2>1, <2>2 DEF Sending
<1>5. CASE Abort \/ Crash \/ Reconnect
  BY <1>5 DEF Abort, Crash, Reconnect, Die, Drop, Wipe
<1>6. CASE UNCHANGED vars
  BY <1>6 DEF vars
<1> QED BY <1>1, <1>2, <1>3, <1>4, <1>5, <1>6 DEF Next, Process
-----------------------------------------------------------------------------
(* The invariant of the specification, and the properties it gives *)

Whole ==
    FlagsOK /\ Typed /\ Stored /\ KnownInv /\ Complete /\ Told({}, {}) /\ Noticed /\ ImportInv

LEMMA WholeInit == Init => Whole
<1>1. Init => KnownInv
  BY DEF Init, KnownInv
<1> QED BY <1>1, FlagsInit, ValuesInit, StoredInit, CompleteInit, ToldInit, NoticedInit, ImportInit
        DEF Whole

LEMMA WholeStep == Whole /\ [Next]_vars => Whole'
<1> SUFFICES ASSUME Whole, [Next]_vars PROVE Whole'
  OBVIOUS
<1> USE DEF Whole
<1>1. FlagsOK' /\ Typed' /\ Stored' /\ KnownInv' /\ Complete'
  BY FlagsStep, ValuesStep, StoredStep, KnownStep, CompleteStep
<1>2. Told({}, {})'
  BY ToldStep
<1>3. Noticed' /\ ImportInv'
  BY NoticedStep, ImportStep
<1> QED BY <1>1, <1>2, <1>3

LEMMA WholeGives == IInv <=> Whole
<1>1. KnownInv => KnownStored
  BY DEF KnownInv, KnownStored
<1>2. Told({}, {}) <=> DeliveryInv({}, {}) /\ AtMostOnce
  BY ToldAlone DEF Told
<1> QED BY <1>1, <1>2 DEF Whole, Typed, Stored, Complete, Noticed, IInv, TypeOK

\* The inductive invariant holds in every reachable state: the snapshot of the
\* poll is exact, an open batch loses nothing, every failure in memory is stored
\* and every delivery is recorded, being recorded or orphaned.
THEOREM Invariant == Spec => []IInv
BY WholeInit, WholeStep, WholeGives, PTL DEF Spec

\* No stored failure slips away: it has an alert on record, waits for one, was
\* imported, or was dropped by a fault.
THEOREM NoFailureSlipsAway == Spec => []FailuresAccountedFor
<1>1. IInv => FailuresAccountedFor
  BY DEF IInv
<1> QED BY <1>1, Invariant, PTL

\* A stored result is the final result of a finished task.
THEOREM RowsTellTheTruth == Spec => []RowsAreFaithful
<1>1. IInv => RowsAreFaithful
  BY DEF IInv
<1> QED BY <1>1, Invariant, PTL

\* No failure reaches the user twice on a channel, unless the record of the
\* first delivery was lost with the process.
THEOREM NoRepeats == Spec => []AtMostOnce
<1>1. IInv => AtMostOnce
  BY DEF IInv
<1> QED BY <1>1, Invariant, PTL

\* Alerts are for stored failures that no history import had put there.
THEOREM OnlyNewFailures == Spec => []AlertsAreForNewFailures
<1>1. IInv => AlertsAreForNewFailures
  BY DEF IInv, CurInv, FailedInv, AlertsAreForNewFailures
<1> QED BY <1>1, Invariant, PTL

\* Where batch logs are read in full, a processed batch has all its rows.
THEOREM ProcessedIsComplete ==
    ASSUME "log" \notin Faults PROVE Spec => []ProcessedMeansParsed
<1>1. IInv => ProcessedMeansParsed
  BY DEF IInv
<1> QED BY <1>1, Invariant, PTL
-----------------------------------------------------------------------------
(* History is not news *)

\* Where all nodes answer, u stays old news until it is beyond HISTORY_DAYS.
LEMMA OldNewsStep ==
    ASSUME "node" \notin Faults, "log" \notin Faults, NEW u \in Upid,
           Whole, OldNews(u), [Next]_vars
    PROVE  OldNews(u)'
<1> USE DEF env, db, loop, sending, volatile, told, history
<1>0. CASE TaskOf(u) \in aged
  <2>1. aged \subseteq aged'
    BY DEF Next, Process, Proxmox, StartTask, FinishTask, Age, Startup, Boot, ImportFetch,
       ImportDone, Purge, Storing, PollFetch, StoreSingle, Skip, OpenBatch, StoreGuest,
       CloseBatch, PollDone, Alerting, AlertDuplicate, AlertStart, SendEmail, RecordEmail,
       SendDiscord, RecordDiscord, RecordFailed, RecordAlert, AlertDone, FinishCycle, Abort,
       Crash, Reconnect, Die, Drop, Wipe, vars
  <2> QED BY <1>0, <2>1 DEF OldNews
<1> SUFFICES ASSUME TaskOf(u) \notin aged PROVE OldNews(u)'
  BY <1>0
<1>a. /\ outcome[u] # "none" /\ u \notin failed
      /\ imported => rows[u] # "none"
      /\ pc = "importing" =>
            rows[u] # "none" \/ (TaskOf(u) \in todo /\ (batch = TaskOf(u) => u \in parsed))
  BY DEF OldNews
<1>b. /\ TaskOf(u) \in Task /\ task[TaskOf(u)] = "stopped"
      /\ \A t \in Task : u \in UpidsOf(t) <=> TaskOf(u) = t
  BY <1>a, UpidFacts DEF Whole, Stored, OutcomeInv
<1>c. pc \notin {"down", "import", "importing"} => imported
  BY DEF Whole, ImportInv
<1>1. CASE Proxmox
  <2>1. UNCHANGED <<failed, imported, rows, pc, todo, batch, parsed>>
    BY <1>1 DEF Proxmox, StartTask, FinishTask, Age
  <2>2. outcome'[u] = outcome[u]
    <3>1. ASSUME NEW t \in Task, FinishTask(t) PROVE outcome'[u] = outcome[u]
      <4>1. u \notin UpidsOf(t)
        BY <1>b, <3>1 DEF FinishTask
      <4> QED BY <3>1, <4>1 DEF FinishTask
    <3> QED BY <1>1, <3>1 DEF Proxmox, StartTask, Age
  <2> QED BY <1>a, <2>1, <2>2 DEF OldNews
<1>2. CASE Startup
  <2>1. UNCHANGED <<outcome, failed>>
    BY <1>2 DEF Startup, Boot, ImportFetch, ImportDone, Purge
  <2>2. CASE Boot BY <1>a, <2>1, <2>2 DEF Boot, OldNews
  <2>3. ASSUME NEW R \in SUBSET Node, ImportFetch(R) PROVE OldNews(u)'
    <3>1. R = Node
      BY <2>3 DEF ImportFetch, Answering, Fault
    <3>2. TaskOf(u) \in todo'
      BY <1>b, <2>3, <3>1, ConstantsAssumption DEF ImportFetch, Listed
    <3>3. batch = None /\ batch' = None /\ TaskOf(u) # None
      BY <1>b, <2>3, ConstantsAssumption DEF ImportFetch, Whole, Stored, LoopInv
    <3> QED BY <1>a, <2>1, <2>3, <3>2, <3>3 DEF ImportFetch, OldNews
  <2>4. CASE ImportDone BY <1>a, <2>1, <2>4 DEF ImportDone, OldNews
  <2>5. CASE Purge BY <1>a, <2>1, <2>5 DEF Purge, OldNews
  <2> QED BY <1>2, <2>2, <2>3, <2>4, <2>5 DEF Startup
<1>3. CASE Storing
  <2>0. UNCHANGED <<outcome, imported>>
    BY <1>3 DEF Storing, PollFetch, StoreSingle, Skip, OpenBatch, StoreGuest, CloseBatch, PollDone
  <2>1. ASSUME NEW R \in SUBSET Node, PollFetch(R) PROVE OldNews(u)'
    BY <1>a, <2>1 DEF PollFetch, OldNews
  <2>2. ASSUME NEW v \in Upid, Insert(v), pc \in {"importing", "polling"}, UNCHANGED <<pc, batch>>,
               pc = "polling" => rows[v] = "none",
               u # v => (TaskOf(u) \in todo => TaskOf(u) \in todo') /\ (u \in parsed => u \in parsed')
        PROVE  OldNews(u)'
    <3>1. rows'[v] # "none" /\ (u # v => rows'[u] = rows[u])
      BY <2>2, InsertWrites DEF Whole
    <3>2. u \notin failed'
      BY <1>a, <1>c, <2>2 DEF Insert, NoteImported, NoteFailure
    <3> QED BY <1>a, <2>0, <2>2, <3>1, <3>2 DEF OldNews
  <2>3. ASSUME NEW t \in todo, StoreSingle(t) PROVE OldNews(u)'
    <3>1. t \in Upid /\ TaskOf(t) = t /\ batch = None /\ t # None /\ t \in Single
      BY <2>3, UpidFacts, ConstantsAssumption DEF StoreSingle, Upid
    <3>2. pc = "polling" => rows[t] = "none"
      BY <2>3, <3>1, PollInsertsNew DEF StoreSingle, Whole
    <3>3. u # t => TaskOf(u) # t
      BY <1>b, <3>1, UpidFacts, ConstantsAssumption DEF Task
    <3> QED BY <2>2, <2>3, <3>1, <3>2, <3>3 DEF StoreSingle, Insert, NoteImported, NoteFailure
  <2>4. ASSUME NEW t \in todo, Skip(t) PROVE OldNews(u)'
    <3>1. pc = "importing" /\ t = TaskOf(u) => rows[u] # "none"
      <4>1. SUFFICES ASSUME pc = "importing", t = TaskOf(u) PROVE rows[u] # "none"
        OBVIOUS
      <4>2. t \in Batch /\ t \in processed
        BY <2>4, <4>1 DEF Skip
      <4>3. u \in Guest /\ u[1] = t
        BY <4>1, <4>2, ConstantsAssumption DEF TaskOf, Upid
      <4> QED BY <1>a, <4>1, <4>2, <4>3 DEF Whole, Complete, ProcessedMeansParsed
    <3> QED BY <1>a, <2>0, <2>4, <3>1 DEF Skip, OldNews
  <2>5. ASSUME NEW t \in todo, OpenBatch(t) PROVE OldNews(u)'
    <3>1. pc = "importing" => parsed' = InLog(t)
      BY <2>5 DEF OpenBatch, ParseBatchTask, Fault
    <3>2. TaskOf(u) = t /\ pc = "importing" => u \in parsed'
      BY <1>a, <1>b, <3>1 DEF InLog
    <3> QED BY <1>a, <2>0, <2>5, <3>2 DEF OpenBatch, OldNews
  <2>6. ASSUME NEW v \in parsed, StoreGuest(v) PROVE OldNews(u)'
    <3>1. /\ v \in Upid /\ batch # None /\ batch \in Batch /\ batch \in todo
          /\ v \in UpidsOf(batch)
      BY DEF Whole, Stored, LoopInv, Typed, ValuesOK
    <3>2. TaskOf(v) = batch
      BY <3>1, UpidFacts DEF Task
    <3>3. pc = "polling" => rows[v] = "none"
      BY <3>1, <3>2, PollInsertsNew DEF KnownInv, Whole
    <3>4. pc \in {"importing", "polling"}
      BY <3>1 DEF Whole, Stored, LoopInv
    <3> QED BY <2>2, <2>6, <3>1, <3>3, <3>4 DEF StoreGuest
  <2>7. CASE CloseBatch
    <3>1. batch' = None /\ TaskOf(u) # None
      BY <1>b, <2>7, ConstantsAssumption DEF CloseBatch
    <3> QED BY <1>a, <2>0, <2>7, <3>1 DEF CloseBatch, OldNews
  <2>8. CASE PollDone BY <1>a, <2>0, <2>8 DEF PollDone, OldNews
  <2> QED BY <1>3, <2>1, <2>3, <2>4, <2>5, <2>6, <2>7, <2>8 DEF Storing
<1>4. CASE Alerting
  <2>1. UNCHANGED <<outcome, imported, rows>> /\ failed' \subseteq failed
    BY <1>4 DEF Alerting, AlertDuplicate, AlertStart, SendEmail, RecordEmail, SendDiscord,
       RecordDiscord, RecordFailed, RecordAlert, AlertDone, FinishCycle
  <2>2. pc' # "importing"
    BY <1>4 DEF Alerting, AlertDuplicate, AlertStart, SendEmail, RecordEmail, SendDiscord,
       RecordDiscord, RecordFailed, RecordAlert, AlertDone, FinishCycle
  <2> QED BY <1>a, <2>1, <2>2 DEF OldNews
<1>5. CASE Abort \/ Crash
  <2>1. /\ UNCHANGED outcome /\ failed' = {} /\ pc' # "importing"
        /\ UNCHANGED <<imported, rows>> \/ ~imported'
    BY <1>5 DEF Abort, Crash, Die, Drop, Wipe, LoseMemory
  <2> QED BY <1>a, <2>1 DEF OldNews
<1>6. CASE UNCHANGED vars
  BY <1>6, <1>a DEF vars, OldNews
<1>7. CASE Reconnect
  BY <1>7, <1>a DEF Reconnect, OldNews
<1> QED BY <1>1, <1>2, <1>3, <1>4, <1>5, <1>6, <1>7 DEF Next, Process

\* What was in the log of an answering node when an import started is never
\* alerted on, however often that import is cut short and repeated, before it is
\* beyond HISTORY_DAYS.
THEOREM HistoryStaysHistory ==
    ASSUME "node" \notin Faults, "log" \notin Faults PROVE Spec => HistoryIsNotNews
<1> SUFFICES ASSUME NEW u \in Upid
             PROVE  Spec => [](/\ pc = "import" /\ outcome[u] # "none" /\ TaskOf(u) \notin aged
                               => [](cur = u => TaskOf(u) \in aged))
  BY DEF HistoryIsNotNews
<1>1. IInv /\ pc = "import" /\ outcome[u] # "none" => OldNews(u)
  BY DEF IInv, FailedInv, ImportInv, OldNews, Sending
<1>2. IInv /\ OldNews(u) /\ [Next]_vars => OldNews(u)'
  BY WholeGives, OldNewsStep
<1>3. IInv /\ OldNews(u) => (cur = u => TaskOf(u) \in aged)
  <2>1. u # None
    BY ConstantsAssumption
  <2> QED BY <2>1 DEF IInv, CurInv, OldNews
<1> QED BY <1>1, <1>2, <1>3, Invariant, PTL DEF Spec
-----------------------------------------------------------------------------
(* Where the documented promises hold in full *)

\* A process that no crash and no database error interrupts loses nothing.
LEMMA NothingLost ==
    ASSUME "crash" \notin Faults, "error" \notin Faults, "wedge" \notin Faults
    PROVE  Spec => [](lost = {} /\ orphaned = {})
<1> USE DEF env, db, loop, sending, volatile, told, history
<1>1. Init => lost = {} /\ orphaned = {}
  BY DEF Init
<1>2. lost = {} /\ orphaned = {} /\ [Next]_vars => (lost = {} /\ orphaned = {})'
  BY DEF Next, Process, Proxmox, StartTask, FinishTask, Age, Startup, Boot, ImportFetch,
     ImportDone, Purge, Storing, PollFetch, StoreSingle, Skip, OpenBatch, StoreGuest,
     CloseBatch, PollDone, Alerting, AlertDuplicate, AlertStart, SendEmail, RecordEmail,
     SendDiscord, RecordDiscord, RecordFailed, RecordAlert, AlertDone, FinishCycle, Abort,
     Crash, Reconnect, Fault, vars
<1> QED BY <1>1, <1>2, PTL DEF Spec

\* "For any new failure, sends an immediate alert" and "one alert per UPID", with
\* nodes silent, logs unread and deliveries failing, as long as nothing interrupts
\* the process: when a cycle is over no stored failure found by a poll is without
\* an alert, and none has been told twice on a channel.
THEOREM UninterruptedForgetsNothing ==
    ASSUME "crash" \notin Faults, "error" \notin Faults, "wedge" \notin Faults
    PROVE  Spec => [](NoFailureForgotten /\ again = {})
<1>1. IInv /\ lost = {} /\ orphaned = {} => NoFailureForgotten /\ again = {}
  <2> SUFFICES ASSUME IInv, lost = {}, orphaned = {} PROVE NoFailureForgotten /\ again = {}
    OBVIOUS
  <2>1. pc = "idle" => failed = {}
    BY DEF IInv, FailedInv, Sending
  <2>2. NoFailureForgotten
    BY <2>1 DEF IInv, FailuresAccountedFor, NoFailureForgotten
  <2> QED BY <2>2 DEF IInv, AtMostOnce
<1> QED BY <1>1, NothingLost, Invariant, PTL

\* "Deduplicated: one alert per UPID": where no VM id continues the digits of
\* another (ids of one length, say) dedup takes no failure for a different one, and
\* every stored failure that was neither imported nor dropped has its own alert.
THEOREM OneAlertEach ==
    ASSUME \A v, w \in Vm : \A k \in 1..8 : w \div (10 ^ k) = v => v = w
    PROVE  Spec => []OneAlertPerUpid
<1>1. ASSUME NEW u \in Upid, NEW w \in Upid, Matches(u, w) PROVE u = w
  <2>1. CASE u = w
    BY <2>1
  <2>2. CASE u \in Guest /\ w \in Guest /\ u[1] = w[1] /\ \E k \in 1..8 : w[2] \div (10 ^ k) = u[2]
    <3>1. u[2] \in Vm /\ w[2] \in Vm /\ u = <<u[1], u[2]>> /\ w = <<w[1], w[2]>>
      BY <2>2 DEF Guest
    <3>2. u[2] = w[2]
      BY <2>2, <3>1, Zenon
    <3> QED BY <2>2, <3>1, <3>2
  <2> QED BY <1>1, <2>1, <2>2 DEF Matches
<1>2. IInv => OneAlertPerUpid
  <2> SUFFICES ASSUME IInv, pc = "idle", NEW u \in Upid, rows[u] = "ERR"
               PROVE  u \in backfilled \cup lost \/ \E a \in alerts : a[1] = u
    BY DEF OneAlertPerUpid
  <2>1. failed = {}
    BY DEF IInv, FailedInv, Sending
  <2>2. CASE AlreadySent(u)
    <3>1. PICK a \in alerts : Matches(u, a[1])
      BY <2>2 DEF AlreadySent
    <3>2. a[1] \in Upid
      BY DEF IInv, TypeOK, ValuesOK
    <3>3. a[1] = u
      BY <1>1, <3>1, <3>2
    <3> QED BY <3>3
  <2>3. CASE ~AlreadySent(u)
    BY <2>1, <2>3 DEF IInv, FailuresAccountedFor
  <2> QED BY <2>2, <2>3
<1> QED BY <1>2, Invariant, PTL
-----------------------------------------------------------------------------
(* The poller implements the ledger *)

Stutter == UNCHANGED <<Truth, rows, failed, delivered, Noted>>

LEMMA TruthStable ==
    ASSUME UNCHANGED <<task, outcome>> PROVE UNCHANGED Truth
BY DEF Truth, Status

LEMMA NotedStable ==
    ASSUME UNCHANGED alerts PROVE UNCHANGED Noted
BY DEF Noted

\* A covered failure may be settled.
LEMMA SentIsCovered ==
    ASSUME Typed, NEW u \in Upid, AlreadySent(u) PROVE Ledger!Covered(u)
<1>1. PICK a \in alerts : Matches(u, a[1])
  BY DEF AlreadySent
<1>2. a[1] \in Upid /\ a[1] \in Noted
  BY DEF Typed, ValuesOK, Noted
<1>3. <<u, a[1]>> \in Covers
  BY <1>1, <1>2 DEF Covers
<1> QED BY <1>2, <1>3 DEF Ledger!Covered

\* An insertion enters a new result or repeats an old one.
LEMMA InsertEnters ==
    ASSUME Typed, RowsAreFaithful, NEW u \in Upid, Insert(u), outcome[u] # "none",
           task[TaskOf(u)] = "stopped",
           pc = "polling" => rows[u] = "none",
           UNCHANGED <<Truth, delivered, Noted>>
    PROVE  Ledger!Enter(u) \/ Stutter
<1>1. rows' = [rows EXCEPT ![u] = Status(u)]
  BY DEF Insert
<1>2. Truth[u] = Status(u) /\ Status(u) # "none"
  BY StatusType DEF Truth, Typed, Results
<1>3. CASE rows[u] = "none"
  <2>1. failed' = failed \/ (Truth[u] \in {"ERR"} /\ failed' = failed \cup {u})
    BY <1>2 DEF Insert, NoteImported, NoteFailure, Failing, Status, Typed, ValuesOK
  <2> QED BY <1>1, <1>2, <1>3, <2>1 DEF Ledger!Enter
<1>4. CASE rows[u] # "none"
  <2>1. rows[u] = Status(u)
    BY <1>4 DEF RowsAreFaithful
  <2>2. rows' = rows
    BY <1>1, <2>1 DEF Typed, ValuesOK
  <2>3. failed' = failed
    BY <1>4 DEF Insert, NoteImported, NoteFailure
  <2> QED BY <2>2, <2>3 DEF Stutter
<1> QED BY <1>3, <1>4

LEMMA SendTells ==
    ASSUME Typed, Noticed, cur # None, NEW channel \in {"email", "discord"},
           SendOk(channel) \/ SendFails(channel), UNCHANGED <<Truth, rows, failed, Noted>>
    PROVE  Ledger!Tell(cur, channel) \/ Stutter
<1>1. cur \in failed /\ rows[cur] \in {"ERR"}
  BY DEF Typed, CurInv, Noticed, FailedInv
<1>2. delivered' = delivered \cup {<<cur, channel>>} \/ delivered' = delivered
  BY DEF SendOk, SendFails, Reach, told
<1> QED BY <1>1, <1>2 DEF Ledger!Tell, Stutter

LEMMA RecordNotes ==
    ASSUME Typed, cur # None, NEW target, RecordAlert(target),
           UNCHANGED <<Truth, delivered>>
    PROVE  Ledger!Note(cur)
<1>1. Noted' = Noted \cup {cur}
  <2> DEFINE this == <<cur, target>>
  <2>1. alerts' = alerts \cup {this}
    BY DEF RecordAlert
  <2>2. this[1] = cur
    OBVIOUS
  <2> HIDE DEF this
  <2>3. {a[1] : a \in alerts \cup {this}} = {a[1] : a \in alerts} \cup {this[1]}
    OBVIOUS
  <2> QED BY <2>1, <2>2, <2>3 DEF Noted
<1>2. cur \in failed
  BY DEF Typed, CurInv
<1> QED BY <1>1, <1>2 DEF Ledger!Note, RecordAlert, loop

LEMMA LedgerInit == Init => Ledger!Init
BY DEF Init, Ledger!Init, Truth, Noted

LEMMA LedgerStep ==
    Whole /\ [Next]_vars => [Ledger!Next]_Ledger!vars
<1> SUFFICES ASSUME Typed, Stored, KnownInv, Told({}, {}), Noticed, [Next]_vars
             PROVE  Ledger!Next \/ Stutter
  BY DEF Whole, Ledger!vars, Stutter
<1> USE DEF env, db, loop, sending, volatile, told, history
<1>1. CASE Proxmox
  <2>1. UNCHANGED <<rows, failed, delivered, alerts>>
    BY <1>1 DEF Proxmox, StartTask, FinishTask, Age
  <2>2. ASSUME NEW u \in Upid, Truth[u] # "none" PROVE Truth'[u] = Truth[u]
    <3>1. task[TaskOf(u)] = "stopped" /\ TaskOf(u) \in Task /\ outcome[u] # "none"
      BY <2>2, UpidFacts DEF Truth, Stored, OutcomeInv
    <3>2. task'[TaskOf(u)] = "stopped" /\ outcome'[u] = outcome[u]
      <4>1. ASSUME NEW t \in Task, StartTask(t) \/ Age(t)
            PROVE  task'[TaskOf(u)] = "stopped" /\ outcome'[u] = outcome[u]
        BY <3>1, <4>1 DEF StartTask, Age, Typed, ValuesOK
      <4>2. ASSUME NEW t \in Task, FinishTask(t)
            PROVE  task'[TaskOf(u)] = "stopped" /\ outcome'[u] = outcome[u]
        <5>1. task[t] = "running" /\ task' = [task EXCEPT ![t] = "stopped"]
          BY <4>2 DEF FinishTask
        <5>2. PICK res : outcome' = [v \in Upid |->
                                       IF v \in UpidsOf(t) THEN res[v] ELSE outcome[v]]
          BY <4>2 DEF FinishTask
        <5>3. TaskOf(u) # t /\ u \notin UpidsOf(t)
          BY <3>1, <5>1, UpidFacts
        <5> QED BY <3>1, <5>1, <5>2, <5>3 DEF Typed, ValuesOK
      <4> QED BY <1>1, <4>1, <4>2 DEF Proxmox
    <3> QED BY <3>1, <3>2 DEF Truth, Status
  <2>3. Truth' = Truth \/ Ledger!Happen
    BY <2>1, <2>2, NotedStable DEF Ledger!Happen
  <2> QED BY <2>1, <2>3, NotedStable DEF Ledger!Next, Stutter
<1>2. CASE Startup
  <2>1. UNCHANGED <<task, outcome, failed, delivered, alerts>> /\ failed = {}
    BY <1>2 DEF Startup, Boot, ImportFetch, ImportDone, Purge, Noticed, FailedInv, Sending
  <2>2. CASE Purge
    <3>1. DOMAIN rows' = Upid /\ \A u \in Upid : rows'[u] \in {rows[u], "none"}
      BY <2>2 DEF Purge
    <3>2. Ledger!Expire
      BY <2>1, <3>1, TruthStable, NotedStable DEF Ledger!Expire
    <3> QED BY <3>2 DEF Ledger!Next
  <2>3. CASE ~Purge
    <3>1. UNCHANGED rows
      BY <1>2, <2>3 DEF Startup, Boot, ImportFetch, ImportDone
    <3> QED BY <2>1, <3>1, TruthStable, NotedStable DEF Stutter
  <2> QED BY <2>2, <2>3
<1>3. CASE Storing
  <2>1. UNCHANGED <<Truth, delivered, Noted>>
    BY <1>3, TruthStable, NotedStable DEF Storing, PollFetch, StoreSingle, Skip, OpenBatch,
       StoreGuest, CloseBatch, PollDone
  <2>2. ASSUME NEW t \in todo, StoreSingle(t) PROVE Ledger!Next \/ Stutter
    <3>1. /\ t \in Upid /\ TaskOf(t) = t /\ task[t] = "stopped" /\ outcome[t] # "none"
          /\ batch = None /\ t # None
      BY <2>2, UpidFacts, ConstantsAssumption
      DEF StoreSingle, Upid, Stored, LoopInv, OutcomeInv
    <3>2. pc = "polling" => rows[t] = "none"
      BY <2>2, <3>1, PollInsertsNew DEF StoreSingle
    <3>3. Ledger!Enter(t) \/ Stutter
      BY <2>1, <2>2, <3>1, <3>2, InsertEnters DEF StoreSingle, Stored
    <3> QED BY <3>1, <3>3 DEF Ledger!Next
  <2>3. ASSUME NEW u \in parsed, StoreGuest(u) PROVE Ledger!Next \/ Stutter
    <3>1. /\ u \in Upid /\ batch # None /\ batch \in Batch /\ batch \in todo
          /\ u \in UpidsOf(batch) /\ outcome[u] # "none"
      BY DEF Stored, LoopInv, Typed, ValuesOK
    <3>2. TaskOf(u) = batch /\ task[TaskOf(u)] = "stopped"
      BY <3>1, UpidFacts DEF Task, Stored, LoopInv
    <3>3. pc = "polling" => rows[u] = "none"
      BY <3>1, <3>2, PollInsertsNew DEF KnownInv
    <3>4. Ledger!Enter(u) \/ Stutter
      BY <2>1, <2>3, <3>1, <3>2, <3>3, InsertEnters DEF StoreGuest, Stored
    <3> QED BY <3>1, <3>4 DEF Ledger!Next
  <2>4. ASSUME \/ \E R \in SUBSET Node : PollFetch(R)
               \/ \E t \in todo : Skip(t) \/ OpenBatch(t)
               \/ CloseBatch \/ PollDone
        PROVE  Stutter
    BY <2>1, <2>4 DEF PollFetch, Skip, OpenBatch, CloseBatch, PollDone, Stutter
  <2> QED BY <1>3, <2>2, <2>3, <2>4 DEF Storing
<1>4. CASE Alerting
  <2>1. UNCHANGED <<Truth, rows>>
    BY <1>4, TruthStable DEF Alerting, AlertDuplicate, AlertStart, SendEmail, RecordEmail,
       SendDiscord, RecordDiscord, RecordFailed, RecordAlert, AlertDone, FinishCycle
  <2>2. cur # None <=> pc \in Sending
    BY DEF Typed, CurInv
  <2>3. ASSUME NEW u \in failed, AlertDuplicate(u) PROVE Ledger!Next
    <3>1. u \in Upid /\ Ledger!Covered(u)
      BY <2>3, SentIsCovered DEF AlertDuplicate, Typed, ValuesOK
    <3>2. Ledger!Settle(u)
      BY <2>1, <2>3, <3>1, NotedStable DEF AlertDuplicate, Ledger!Settle
    <3> QED BY <3>1, <3>2 DEF Ledger!Next
  <2>4. ASSUME NEW u \in failed, AlertStart(u) PROVE Stutter
    BY <2>1, <2>4, NotedStable DEF AlertStart, Stutter
  <2>5. CASE SendEmail \/ SendDiscord
    <3>1. PICK channel \in {"email", "discord"} : SendOk(channel) \/ SendFails(channel)
      BY <2>5 DEF SendEmail, SendDiscord
    <3>2. cur # None /\ cur \in Upid
      BY <2>2, <2>5 DEF SendEmail, SendDiscord, Sending, Typed, ValuesOK
    <3>3. UNCHANGED <<failed, alerts>>
      BY <2>5 DEF SendEmail, SendDiscord
    <3>4. Ledger!Tell(cur, channel) \/ Stutter
      BY <2>1, <3>1, <3>2, <3>3, SendTells, NotedStable
    <3> QED BY <3>2, <3>4 DEF Ledger!Next
  <2>6. CASE RecordEmail \/ RecordDiscord \/ RecordFailed
    <3>1. PICK target : RecordAlert(target)
      BY <2>6 DEF RecordEmail, RecordDiscord, RecordFailed
    <3>2. cur # None /\ cur \in Upid
      BY <2>2, <2>6 DEF RecordEmail, RecordDiscord, RecordFailed, Sending, Typed, ValuesOK
    <3>3. UNCHANGED delivered
      BY <3>1 DEF RecordAlert
    <3>4. Ledger!Note(cur)
      BY <2>1, <3>1, <3>2, <3>3, RecordNotes
    <3> QED BY <3>2, <3>4 DEF Ledger!Next
  <2>7. CASE AlertDone
    <3>1. cur # None /\ cur \in Upid /\ cur \in failed
      BY <2>2, <2>7 DEF AlertDone, Sending, Typed, ValuesOK, CurInv
    <3>2. Ledger!Covered(cur)
      BY <2>7, <3>1, SentIsCovered DEF AlertDone, Told, DeliveryInv
    <3>3. Ledger!Settle(cur)
      BY <2>1, <2>7, <3>1, <3>2, NotedStable DEF AlertDone, Ledger!Settle
    <3> QED BY <3>1, <3>3 DEF Ledger!Next
  <2>8. CASE FinishCycle
    BY <2>1, <2>8, NotedStable DEF FinishCycle, Stutter
  <2> QED BY <1>4, <2>3, <2>4, <2>5, <2>6, <2>7, <2>8 DEF Alerting
<1>5. CASE Abort \/ Crash
  <2>1. CASE Drop
    <3>1. failed' = {} /\ UNCHANGED <<task, outcome, rows, delivered, alerts>>
      BY <2>1 DEF Drop, LoseMemory
    <3>2. Ledger!Forget
      BY <3>1, TruthStable, NotedStable DEF Ledger!Forget
    <3> QED BY <3>2 DEF Ledger!Next
  <2>2. CASE Wipe
    <3>1. /\ failed' = {} /\ rows' = [u \in Upid |-> "none"] /\ alerts' = {}
          /\ UNCHANGED <<task, outcome, delivered>>
      BY <2>2 DEF Wipe, LoseMemory
    <3>2. Noted' = {}
      BY <3>1 DEF Noted
    <3>3. Ledger!Forget
      BY <3>1, <3>2, TruthStable DEF Ledger!Forget
    <3> QED BY <3>3 DEF Ledger!Next
  <2> QED BY <1>5, <2>1, <2>2 DEF Abort, Crash, Die
<1>6. CASE UNCHANGED vars
  BY <1>6, TruthStable, NotedStable DEF vars, Stutter
<1>7. CASE Reconnect
  BY <1>7, TruthStable, NotedStable DEF Reconnect, Stutter
<1> QED BY <1>1, <1>2, <1>3, <1>4, <1>5, <1>6, <1>7 DEF Next, Process

\* The poller, with all its faults, implements the ledger.
THEOREM LedgerImplemented == Spec => LedgerSpec
<1>1. IInv /\ [Next]_vars => [Ledger!Next]_Ledger!vars
  BY WholeGives, LedgerStep
<1> QED BY LedgerInit, <1>1, Invariant, PTL DEF Spec, LedgerSpec, Ledger!Spec
=============================================================================
