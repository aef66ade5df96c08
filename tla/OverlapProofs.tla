---------------------------- MODULE OverlapProofs -----------------------------
(***************************************************************************)
(* Proofs about Overlap.  Each of the two processes keeps what             *)
(* BackupProofs proves of one, and its steps leave what the other knows of *)
(* the database as it is.  Every lemma is stated for the old process and   *)
(* then the other way round.                                               *)
(***************************************************************************)
EXTENDS Overlap, TLAPS

OldP == INSTANCE BackupProofs

NewP == INSTANCE BackupProofs WITH
    pc     <- newPc,     booting <- newBooting, todo   <- newTodo,   known   <- newKnown,
    batch  <- newBatch,  parsed  <- newParsed,  failed <- newFailed, cur     <- newCur,
    emailOk <- newEmailOk

-----------------------------------------------------------------------------
(* Old and OldP are the same process, and so are New and NewP. *)

LEMMA OldNames ==
    /\ Old!FlagsOK <=> OldP!FlagsOK
    /\ Old!ValuesOK <=> OldP!ValuesOK
    /\ Old!CurInv <=> OldP!CurInv
    /\ Old!LoopInv <=> OldP!LoopInv
    /\ Old!KnownStored <=> OldP!KnownStored
    /\ Old!BatchInv <=> OldP!BatchInv
    /\ Old!OutcomeInv <=> OldP!OutcomeInv
    /\ Old!RowsAreFaithful <=> OldP!RowsAreFaithful
    /\ Old!ProcessedMeansParsed <=> OldP!ProcessedMeansParsed
    /\ \A u : Old!AlreadySent(u) <=> OldP!AlreadySent(u)
    /\ \A hands, both : Old!DeliveryInv(hands, both) <=> OldP!DeliveryInv(hands, both)
<1> USE DEF Old!Upid, OldP!Upid, Old!Task, OldP!Task, Old!Guest, OldP!Guest,
        Old!TaskOf, OldP!TaskOf, Old!UpidsOf, OldP!UpidsOf, Old!Status, OldP!Status,
        Old!Matches, OldP!Matches, Old!AlreadySent, OldP!AlreadySent
<1>1. Old!FlagsOK <=> OldP!FlagsOK
  BY DEF Old!FlagsOK, OldP!FlagsOK
<1>2. Old!ValuesOK <=> OldP!ValuesOK
  BY DEF Old!ValuesOK, OldP!ValuesOK, Old!Results, OldP!Results, Old!Pcs, OldP!Pcs
<1>3. Old!CurInv <=> OldP!CurInv
  BY DEF Old!CurInv, OldP!CurInv, Old!Sending, OldP!Sending
<1>4. Old!LoopInv <=> OldP!LoopInv
  BY DEF Old!LoopInv, OldP!LoopInv
<1>5. Old!KnownStored <=> OldP!KnownStored
  BY DEF Old!KnownStored, OldP!KnownStored
<1>6. Old!BatchInv <=> OldP!BatchInv
  BY DEF Old!BatchInv, OldP!BatchInv
<1>7. Old!OutcomeInv <=> OldP!OutcomeInv
  BY DEF Old!OutcomeInv, OldP!OutcomeInv
<1>8. Old!RowsAreFaithful <=> OldP!RowsAreFaithful
  BY DEF Old!RowsAreFaithful, OldP!RowsAreFaithful
<1>9. Old!ProcessedMeansParsed <=> OldP!ProcessedMeansParsed
  BY DEF Old!ProcessedMeansParsed, OldP!ProcessedMeansParsed
<1>10. \A u : Old!AlreadySent(u) <=> OldP!AlreadySent(u)
  OBVIOUS
<1>11. \A hands, both : Old!DeliveryInv(hands, both) <=> OldP!DeliveryInv(hands, both)
  BY DEF Old!DeliveryInv, OldP!DeliveryInv, Old!Spent, OldP!Spent
<1> QED BY <1>1, <1>2, <1>3, <1>4, <1>5, <1>6, <1>7, <1>8, <1>9, <1>10, <1>11

LEMMA OldSteps ==
    /\ Old!Process <=> OldP!Process
    /\ Old!Abort \/ Old!Crash \/ Old!Reconnect <=> OldP!Abort \/ OldP!Crash \/ OldP!Reconnect
    /\ Old!Proxmox <=> OldP!Proxmox
<1> USE DEF Old!Upid, OldP!Upid, Old!Task, OldP!Task, Old!Guest, OldP!Guest,
        Old!TaskOf, OldP!TaskOf, Old!UpidsOf, OldP!UpidsOf, Old!Status, OldP!Status,
        Old!Matches, OldP!Matches, Old!AlreadySent, OldP!AlreadySent,
        Old!env, OldP!env, Old!db, OldP!db, Old!loop, OldP!loop, Old!sending, OldP!sending,
        Old!volatile, OldP!volatile, Old!told, OldP!told, Old!history, OldP!history,
        Old!Fault, OldP!Fault
<1>1. Old!Proxmox <=> OldP!Proxmox
  BY DEF Old!Proxmox, OldP!Proxmox, Old!StartTask, OldP!StartTask, Old!FinishTask,
     OldP!FinishTask, Old!Age, OldP!Age, Old!Outcomes, OldP!Outcomes
<1>2. Old!Abort \/ Old!Crash \/ Old!Reconnect <=> OldP!Abort \/ OldP!Crash \/ OldP!Reconnect
  BY DEF Old!Abort, OldP!Abort, Old!Reconnect, OldP!Reconnect,
     Old!Crash, OldP!Crash, Old!Die, OldP!Die, Old!Drop, OldP!Drop,
     Old!Wipe, OldP!Wipe, Old!LoseMemory, OldP!LoseMemory
<1>3. Old!Startup <=> OldP!Startup
  BY DEF Old!Startup, OldP!Startup, Old!Boot, OldP!Boot, Old!ImportFetch, OldP!ImportFetch,
     Old!Answering, OldP!Answering, Old!Listed, OldP!Listed, Old!ImportDone, OldP!ImportDone,
     Old!Purge, OldP!Purge
<1>4. Old!Storing <=> OldP!Storing
  BY DEF Old!Storing, OldP!Storing, Old!PollFetch, OldP!PollFetch, Old!Answering,
     OldP!Answering, Old!Listed, OldP!Listed, Old!StoreSingle, OldP!StoreSingle,
     Old!Insert, OldP!Insert, Old!NoteImported, OldP!NoteImported, Old!NoteFailure,
     OldP!NoteFailure, Old!Failing, OldP!Failing, Old!Skip, OldP!Skip,
     Old!OpenBatch, OldP!OpenBatch, Old!ParseBatchTask, OldP!ParseBatchTask,
     Old!InLog, OldP!InLog, Old!StoreGuest, OldP!StoreGuest,
     Old!CloseBatch, OldP!CloseBatch, Old!PollDone, OldP!PollDone
<1>5. Old!Alerting <=> OldP!Alerting
  BY DEF Old!Alerting, OldP!Alerting, Old!AlertDuplicate, OldP!AlertDuplicate,
     Old!AlertStart, OldP!AlertStart, Old!SendEmail, OldP!SendEmail, Old!SendOk, OldP!SendOk,
     Old!SendFails, OldP!SendFails, Old!Reach, OldP!Reach, Old!RecordEmail, OldP!RecordEmail,
     Old!RecordAlert, OldP!RecordAlert, Old!SendDiscord, OldP!SendDiscord,
     Old!RecordDiscord, OldP!RecordDiscord, Old!RecordFailed, OldP!RecordFailed,
     Old!AlertDone, OldP!AlertDone, Old!FinishCycle, OldP!FinishCycle
<1> QED BY <1>1, <1>2, <1>3, <1>4, <1>5 DEF Old!Process, OldP!Process

LEMMA NewNames ==
    /\ New!FlagsOK <=> NewP!FlagsOK
    /\ New!ValuesOK <=> NewP!ValuesOK
    /\ New!CurInv <=> NewP!CurInv
    /\ New!LoopInv <=> NewP!LoopInv
    /\ New!KnownStored <=> NewP!KnownStored
    /\ New!BatchInv <=> NewP!BatchInv
    /\ New!OutcomeInv <=> NewP!OutcomeInv
    /\ New!RowsAreFaithful <=> NewP!RowsAreFaithful
    /\ New!ProcessedMeansParsed <=> NewP!ProcessedMeansParsed
    /\ \A u : New!AlreadySent(u) <=> NewP!AlreadySent(u)
    /\ \A hands, both : New!DeliveryInv(hands, both) <=> NewP!DeliveryInv(hands, both)
<1> USE DEF New!Upid, NewP!Upid, New!Task, NewP!Task, New!Guest, NewP!Guest,
        New!TaskOf, NewP!TaskOf, New!UpidsOf, NewP!UpidsOf, New!Status, NewP!Status,
        New!Matches, NewP!Matches, New!AlreadySent, NewP!AlreadySent
<1>1. New!FlagsOK <=> NewP!FlagsOK
  BY DEF New!FlagsOK, NewP!FlagsOK
<1>2. New!ValuesOK <=> NewP!ValuesOK
  BY DEF New!ValuesOK, NewP!ValuesOK, New!Results, NewP!Results, New!Pcs, NewP!Pcs
<1>3. New!CurInv <=> NewP!CurInv
  BY DEF New!CurInv, NewP!CurInv, New!Sending, NewP!Sending
<1>4. New!LoopInv <=> NewP!LoopInv
  BY DEF New!LoopInv, NewP!LoopInv
<1>5. New!KnownStored <=> NewP!KnownStored
  BY DEF New!KnownStored, NewP!KnownStored
<1>6. New!BatchInv <=> NewP!BatchInv
  BY DEF New!BatchInv, NewP!BatchInv
<1>7. New!OutcomeInv <=> NewP!OutcomeInv
  BY DEF New!OutcomeInv, NewP!OutcomeInv
<1>8. New!RowsAreFaithful <=> NewP!RowsAreFaithful
  BY DEF New!RowsAreFaithful, NewP!RowsAreFaithful
<1>9. New!ProcessedMeansParsed <=> NewP!ProcessedMeansParsed
  BY DEF New!ProcessedMeansParsed, NewP!ProcessedMeansParsed
<1>10. \A u : New!AlreadySent(u) <=> NewP!AlreadySent(u)
  OBVIOUS
<1>11. \A hands, both : New!DeliveryInv(hands, both) <=> NewP!DeliveryInv(hands, both)
  BY DEF New!DeliveryInv, NewP!DeliveryInv, New!Spent, NewP!Spent
<1> QED BY <1>1, <1>2, <1>3, <1>4, <1>5, <1>6, <1>7, <1>8, <1>9, <1>10, <1>11

LEMMA NewSteps ==
    /\ New!Process <=> NewP!Process
    /\ New!Abort \/ New!Crash \/ New!Reconnect <=> NewP!Abort \/ NewP!Crash \/ NewP!Reconnect
    /\ New!Proxmox <=> NewP!Proxmox
<1> USE DEF New!Upid, NewP!Upid, New!Task, NewP!Task, New!Guest, NewP!Guest,
        New!TaskOf, NewP!TaskOf, New!UpidsOf, NewP!UpidsOf, New!Status, NewP!Status,
        New!Matches, NewP!Matches, New!AlreadySent, NewP!AlreadySent,
        New!env, NewP!env, New!db, NewP!db, New!loop, NewP!loop, New!sending, NewP!sending,
        New!volatile, NewP!volatile, New!told, NewP!told, New!history, NewP!history,
        New!Fault, NewP!Fault
<1>1. New!Proxmox <=> NewP!Proxmox
  BY DEF New!Proxmox, NewP!Proxmox, New!StartTask, NewP!StartTask, New!FinishTask,
     NewP!FinishTask, New!Age, NewP!Age, New!Outcomes, NewP!Outcomes
<1>2. New!Abort \/ New!Crash \/ New!Reconnect <=> NewP!Abort \/ NewP!Crash \/ NewP!Reconnect
  BY DEF New!Abort, NewP!Abort, New!Reconnect, NewP!Reconnect,
     New!Crash, NewP!Crash, New!Die, NewP!Die, New!Drop, NewP!Drop,
     New!Wipe, NewP!Wipe, New!LoseMemory, NewP!LoseMemory
<1>3. New!Startup <=> NewP!Startup
  BY DEF New!Startup, NewP!Startup, New!Boot, NewP!Boot, New!ImportFetch, NewP!ImportFetch,
     New!Answering, NewP!Answering, New!Listed, NewP!Listed, New!ImportDone, NewP!ImportDone,
     New!Purge, NewP!Purge
<1>4. New!Storing <=> NewP!Storing
  BY DEF New!Storing, NewP!Storing, New!PollFetch, NewP!PollFetch, New!Answering,
     NewP!Answering, New!Listed, NewP!Listed, New!StoreSingle, NewP!StoreSingle,
     New!Insert, NewP!Insert, New!NoteImported, NewP!NoteImported, New!NoteFailure,
     NewP!NoteFailure, New!Failing, NewP!Failing, New!Skip, NewP!Skip,
     New!OpenBatch, NewP!OpenBatch, New!ParseBatchTask, NewP!ParseBatchTask,
     New!InLog, NewP!InLog, New!StoreGuest, NewP!StoreGuest,
     New!CloseBatch, NewP!CloseBatch, New!PollDone, NewP!PollDone
<1>5. New!Alerting <=> NewP!Alerting
  BY DEF New!Alerting, NewP!Alerting, New!AlertDuplicate, NewP!AlertDuplicate,
     New!AlertStart, NewP!AlertStart, New!SendEmail, NewP!SendEmail, New!SendOk, NewP!SendOk,
     New!SendFails, NewP!SendFails, New!Reach, NewP!Reach, New!RecordEmail, NewP!RecordEmail,
     New!RecordAlert, NewP!RecordAlert, New!SendDiscord, NewP!SendDiscord,
     New!RecordDiscord, NewP!RecordDiscord, New!RecordFailed, NewP!RecordFailed,
     New!AlertDone, NewP!AlertDone, New!FinishCycle, NewP!FinishCycle
<1> QED BY <1>1, <1>2, <1>3, <1>4, <1>5 DEF New!Process, NewP!Process
-----------------------------------------------------------------------------
(* The invariant, in the words of BackupProofs *)

OldHas ==
    /\ OldP!FlagsOK /\ OldP!Typed /\ OldP!Stored /\ OldP!Complete
    /\ OldP!Told({newCur}, together)

NewHas ==
    /\ NewP!FlagsOK /\ NewP!Typed /\ NewP!Stored /\ NewP!Complete
    /\ NewP!Told({cur}, together)

BothHave ==
    /\ leaving \in BOOLEAN /\ together \subseteq OldP!Upid
    /\ NoImport
    /\ failed \cap newFailed \subseteq together
    /\ OldP!Accounted(newFailed)

Whole == OldHas /\ NewHas /\ BothHave

\* What the processes share means the same to both.
LEMMA SameWords ==
    /\ NewP!Upid = OldP!Upid /\ NewP!Guest = OldP!Guest
    /\ \A u : NewP!TaskOf(u) = OldP!TaskOf(u)
    /\ \A u : NewP!Status(u) = OldP!Status(u)
    /\ \A u : NewP!AlreadySent(u) <=> OldP!AlreadySent(u)
    /\ NewP!OutcomeInv <=> OldP!OutcomeInv
    /\ NewP!RowsAreFaithful <=> OldP!RowsAreFaithful
    /\ NewP!ProcessedMeansParsed <=> OldP!ProcessedMeansParsed
    /\ \A both : NewP!OncePerUpid(both) <=> OldP!OncePerUpid(both)
    /\ NewP!Accounted(failed) <=> OldP!Accounted(newFailed)
<1> USE DEF NewP!Upid, OldP!Upid, NewP!Task, OldP!Task, NewP!Guest, OldP!Guest,
        NewP!TaskOf, OldP!TaskOf, NewP!Status, OldP!Status,
        NewP!Matches, OldP!Matches, NewP!AlreadySent, OldP!AlreadySent
<1>1. NewP!OutcomeInv <=> OldP!OutcomeInv
  BY DEF NewP!OutcomeInv, OldP!OutcomeInv
<1>2. NewP!RowsAreFaithful <=> OldP!RowsAreFaithful
  BY DEF NewP!RowsAreFaithful, OldP!RowsAreFaithful
<1>3. NewP!ProcessedMeansParsed <=> OldP!ProcessedMeansParsed
  BY DEF NewP!ProcessedMeansParsed, OldP!ProcessedMeansParsed
<1>4. \A both : NewP!OncePerUpid(both) <=> OldP!OncePerUpid(both)
  BY DEF NewP!OncePerUpid, OldP!OncePerUpid
<1>5. NewP!Accounted(failed) <=> OldP!Accounted(newFailed)
  BY DEF NewP!Accounted, OldP!Accounted
<1> QED BY <1>1, <1>2, <1>3, <1>4, <1>5

LEMMA WholeGives == IInv <=> Whole
<1>1. Old!TypeOK <=> OldP!FlagsOK /\ OldP!ValuesOK
  BY OldNames DEF Old!TypeOK
<1>2. New!TypeOK <=> NewP!FlagsOK /\ NewP!ValuesOK
  BY NewNames DEF New!TypeOK
<1>3. Old!Upid = OldP!Upid
  BY DEF Old!Upid, OldP!Upid, Old!Guest, OldP!Guest
<1>4. EitherAccountsForIt /\ NoImport <=> OldP!Accounted(newFailed) /\ NoImport
  BY <1>3, OldNames DEF EitherAccountsForIt, OldP!Accounted, NoImport
<1>5. TwiceOnlyTogether <=> OldP!OncePerUpid(together)
  BY DEF TwiceOnlyTogether, OldP!OncePerUpid
<1>6. ProcessedMeansParsed <=> OldP!ProcessedMeansParsed
  BY OldNames DEF ProcessedMeansParsed
<1>7. OldInv /\ Old!TypeOK /\ Old!OutcomeInv /\ Old!RowsAreFaithful /\ TwiceOnlyTogether
      /\ ("log" \notin Faults => ProcessedMeansParsed) <=> OldHas
  BY <1>1, <1>5, <1>6, OldNames
  DEF OldInv, OldHas, OldP!Typed, OldP!Stored, OldP!Complete, OldP!Told
<1>8. NewInv /\ New!TypeOK /\ Old!OutcomeInv /\ Old!RowsAreFaithful /\ TwiceOnlyTogether
      /\ ("log" \notin Faults => ProcessedMeansParsed) <=> NewHas
  BY <1>2, <1>5, <1>6, OldNames, NewNames, SameWords
  DEF NewInv, NewHas, NewP!Typed, NewP!Stored, NewP!Complete, NewP!Told
<1> QED BY <1>3, <1>4, <1>7, <1>8 DEF IInv, Whole, BothHave, TypeOK
-----------------------------------------------------------------------------
(* What the proofs about BackupPoller assume of its constants *)

LEMMA OldConstants ==
    /\ Single \cap Batch = {} /\ Single \cap OldP!Guest = {}
    /\ None \notin OldP!Upid /\ None \notin OldP!Task
    /\ Vm \subseteq Nat
    /\ NodeOf \in [OldP!Task -> Node]
    /\ Channels \subseteq {"email", "discord"} /\ Channels # {}
    /\ Persistent \in BOOLEAN
    /\ Faults \subseteq {"crash", "error", "wedge", "node", "log", "email", "discord"}
    /\ "wedge" \in Faults => Persistent
    /\ MaxFaults \in Nat
BY OverlapAssumption, Zenon DEF OldP!Upid, OldP!Task, OldP!Guest

LEMMA NewConstants ==
    /\ Single \cap Batch = {} /\ Single \cap NewP!Guest = {}
    /\ None \notin NewP!Upid /\ None \notin NewP!Task
    /\ Vm \subseteq Nat
    /\ NodeOf \in [NewP!Task -> Node]
    /\ Channels \subseteq {"email", "discord"} /\ Channels # {}
    /\ Persistent \in BOOLEAN
    /\ Faults \subseteq {"crash", "error", "wedge", "node", "log", "email", "discord"}
    /\ "wedge" \in Faults => Persistent
    /\ MaxFaults \in Nat
BY OverlapAssumption, Zenon DEF NewP!Upid, NewP!Task, NewP!Guest

-----------------------------------------------------------------------------
(* Steps of the old process *)

\* A failure that one process sends while the other has it too is in hand here
\* and there.
LEMMA OldInHand ==
    ASSUME Whole, OldP!Typed', UNCHANGED newMemory, Watch
    PROVE  /\ together \subseteq together' /\ together' \subseteq OldP!Upid
           /\ failed' \cap newFailed' \subseteq together'
           /\ {newCur} \cap failed' \subseteq together'
           /\ cur' = newCur' /\ cur' # None => cur' \in together'
<1>1. newCur # None => newCur \in newFailed
  BY DEF Whole, NewHas, NewP!Typed, NewP!CurInv
<1>2. cur' # None => cur' \in failed'
  BY DEF OldP!Typed, OldP!CurInv
<1>3. failed' \subseteq OldP!Upid
  BY DEF OldP!Typed, OldP!ValuesOK
<1>4. None \notin OldP!Upid
  BY OldConstants
<1>5. newFailed' = newFailed /\ newCur' = newCur
  BY DEF newMemory
<1>6. together \subseteq OldP!Upid
  BY SameWords DEF Whole, BothHave
<1> QED BY <1>1, <1>2, <1>3, <1>4, <1>5, <1>6 DEF Watch

\* The process that moves keeps what it has,
LEMMA OldMoves ==
    ASSUME Whole, [OldP!Next]_OldP!vars, UNCHANGED newMemory, Watch
    PROVE  OldHas'
<1>1. OldP!FlagsOK' /\ OldP!Typed' /\ OldP!Stored' /\ OldP!Complete'
  <2>1. OldP!FlagsOK /\ OldP!Typed /\ OldP!Stored /\ OldP!Complete
    BY DEF Whole, OldHas
  <2>2. OldP!FlagsOK' /\ OldP!Typed'
    BY <2>1, OldP!FlagsStep, OldP!ValuesStep, OldConstants
  <2>3. OldP!Stored' /\ OldP!Complete'
    BY <2>1, OldP!StoredStep, OldP!CompleteStep, OldConstants
  <2> QED BY <2>2, <2>3
<1>2. PICK hands : hands = {newCur}
  OBVIOUS
<1>3. PICK both : both = together'
  OBVIOUS
<1>4. OldP!Told(hands, together)
  BY <1>2 DEF Whole, OldHas
<1>5. OldP!Told(hands, both)
  BY <1>1, <1>3, <1>4, OldInHand, OldP!ToldMore, OldConstants
<1>6. hands \cap failed' \subseteq both
  BY <1>1, <1>2, <1>3, OldInHand
<1>7. OldP!Told(hands, both)'
  <2>1. OldP!FlagsOK /\ OldP!Typed
    BY DEF Whole, OldHas
  <2> QED BY <1>5, <1>6, <2>1, OldP!ToldStep, OldConstants
<1>8. hands = {newCur'}
  BY <1>2 DEF newMemory
<1>9. OldP!Told({newCur}, together)'
  BY <1>3, <1>7, <1>8
  DEF OldP!Told, OldP!DeliveryInv, OldP!Spent, OldP!OncePerUpid
<1> QED BY <1>1, <1>9 DEF OldHas

\* and takes nothing from the other one,
LEMMA OldBesideNew ==
    ASSUME Whole, OldP!Process \/ OldP!Abort \/ OldP!Crash \/ OldP!Reconnect, UNCHANGED newMemory, Watch, OldHas'
    PROVE  NewHas'
<1>1. /\ UNCHANGED <<task, outcome, aged>>
      /\ \A u \in OldP!Upid :
            rows[u] # "none" => rows'[u] # "none" \/ OldP!TaskOf(u) \in aged
      /\ alerts \subseteq alerts' /\ orphaned \subseteq orphaned'
      /\ \A d \in delivered' : d \in delivered \/ (d[1] = cur /\ cur' = cur /\ cur # None)
  BY OldP!StepBeside, OldConstants, OverlapAssumption DEF Whole, OldHas, OldP!env
<1>2. NewP!FlagsOK'
  BY DEF Whole, OldHas, NewHas, OldP!FlagsOK, NewP!FlagsOK, newMemory
<1>3. NewP!Typed'
  <2>1. NewP!CurInv'
    BY DEF Whole, NewHas, NewP!Typed, NewP!CurInv, NewP!Sending, newMemory
  <2>2. NewP!ValuesOK'
    BY Zenon DEF Whole, OldHas, NewHas, OldP!Typed, NewP!Typed, OldP!ValuesOK, NewP!ValuesOK,
       OldP!Upid, NewP!Upid, OldP!Task, NewP!Task, OldP!Guest, NewP!Guest,
       OldP!Results, NewP!Results, NewP!Pcs, newMemory
  <2> QED BY <2>1, <2>2 DEF NewP!Typed
<1>4. NewP!Stored'
  <2>1. NewP!LoopInv'
    BY <1>1 DEF Whole, NewHas, NewP!Stored, NewP!LoopInv, NewP!UpidsOf, newMemory
  <2>2. NewP!OutcomeInv' /\ NewP!RowsAreFaithful'
    BY SameWords, PTL DEF OldHas, OldP!Stored
  <2> QED BY <2>1, <2>2 DEF NewP!Stored
<1>5. NewP!Complete'
  <2>1. \A b \in processed' : task'[b] = "stopped"
    BY DEF OldHas, OldP!Complete, OldP!BatchInv
  <2>2. ("log" \notin Faults => NewP!ProcessedMeansParsed)'
    BY SameWords, PTL DEF OldHas, OldP!Complete
  <2>3. \A u \in NewP!Upid :
            rows[u] # "none" => rows'[u] # "none" \/ NewP!TaskOf(u) \in aged
    BY <1>1, SameWords
  <2>4. UNCHANGED <<newPc, newKnown, newBatch, newParsed>>
    BY DEF newMemory
  <2> QED BY <1>1, <2>1, <2>2, <2>3, <2>4, NewP!CompleteBeside, NewConstants DEF Whole, NewHas
<1>6. NewP!Told({cur}, together)'
  <2>1. PICK hands : hands = {cur}
    OBVIOUS
  <2>2. PICK both : both = together
    OBVIOUS
  <2>3. PICK more : more = together'
    OBVIOUS
  <2>4. NewP!Told(hands, both)
    BY <2>1, <2>2 DEF Whole, NewHas
  <2>5. both \subseteq more
    BY <2>2, <2>3, OldInHand DEF OldHas
  <2>6. \A d \in delivered' : d \in delivered \/ (d[1] = newCur => newCur \in more)
    <3>1. newCur' = newCur
      BY DEF newMemory
    <3>2. cur' = newCur' /\ cur' # None => cur' \in together'
      BY OldInHand DEF OldHas
    <3> QED BY <1>1, <2>3, <3>1, <3>2
  <2>7. UNCHANGED <<newPc, newCur, newEmailOk>>
    BY DEF newMemory
  <2>8. /\ newPc' = "email" => NewP!Spent(newCur, "email", more)'
        /\ newPc' \in {"email", "emailed", "discord"} => NewP!Spent(newCur, "discord", more)'
        /\ newEmailOk' => newCur' # None
        /\ newPc' = "settled" \/ newEmailOk' => NewP!AlreadySent(newCur)'
    BY <1>1, <2>4, <2>5, <2>6, <2>7, NewP!ToldBeside, NewConstants
  <2>9. \A d \in delivered' :
            d \in orphaned' \/ OldP!AlreadySent(d[1])' \/ d[1] \in {newCur'} \cup {cur'}
    BY DEF OldHas, OldP!Told, OldP!DeliveryInv
  <2>10. \A u : OldP!AlreadySent(u)' <=> NewP!AlreadySent(u)'
    BY DEF NewP!Matches, OldP!Matches, NewP!AlreadySent, OldP!AlreadySent, NewP!Guest, OldP!Guest
  <2>11. NewP!DeliveryInv({cur}, together)'
    BY <2>3, <2>8, <2>9, <2>10 DEF NewP!DeliveryInv, NewP!Spent
  <2>12. NewP!OncePerUpid(together)'
    BY DEF OldHas, OldP!Told, OldP!OncePerUpid, NewP!OncePerUpid
  <2> QED BY <2>11, <2>12 DEF NewP!Told
<1> QED BY <1>2, <1>3, <1>4, <1>5, <1>6 DEF NewHas

\* nor from what they have together.
LEMMA OldBesideBoth ==
    ASSUME Whole, OldP!Process \/ OldP!Abort \/ OldP!Crash \/ OldP!Reconnect, UNCHANGED <<newMemory, leaving>>,
           Watch, OldHas'
    PROVE  BothHave'
<1>1. leaving' \in BOOLEAN /\ together' \subseteq OldP!Upid /\ failed' \cap newFailed' \subseteq together'
  BY OldInHand DEF OldHas, Whole, BothHave
<1>2. NoImport'
  BY OldP!NoSecondImport, OldConstants, OverlapAssumption DEF Whole, BothHave, NoImport, newMemory
<1>3. OldP!Accounted(newFailed)'
  <2>1. PICK held : held = newFailed
    OBVIOUS
  <2>2. [OldP!Next]_OldP!vars
    BY DEF OldP!Next
  <2>3. OldP!Accounted(held)
    BY <2>1, SameWords DEF Whole, BothHave
  <2>4. pc = "settled" => OldP!AlreadySent(cur)
    BY DEF Whole, OldHas, OldP!Told, OldP!DeliveryInv
  <2>5. OldP!Accounted(held)'
    <3>1. OldP!Typed
      BY DEF Whole, OldHas
    <3> QED BY <2>2, <2>3, <2>4, <3>1, OldP!AccountedStep, OldConstants
  <2>6. held = newFailed'
    BY <2>1 DEF newMemory
  <2> QED BY <2>5, <2>6 DEF OldP!Accounted
<1>4. OldP!Accounted(newFailed)' <=> NewP!Accounted(failed)'
  BY SameWords, PTL
<1>5. OldP!Upid = NewP!Upid
  BY SameWords
<1> QED BY <1>1, <1>2, <1>3, <1>4, <1>5 DEF BothHave

-----------------------------------------------------------------------------
(* Steps of the new process: the same the other way round *)

\* A failure that one process sends while the other has it too is in hand here
\* and there.
LEMMA NewInHand ==
    ASSUME Whole, NewP!Typed', UNCHANGED memory, Watch
    PROVE  /\ together \subseteq together' /\ together' \subseteq NewP!Upid
           /\ newFailed' \cap failed' \subseteq together'
           /\ {cur} \cap newFailed' \subseteq together'
           /\ newCur' = cur' /\ newCur' # None => newCur' \in together'
<1>1. cur # None => cur \in failed
  BY DEF Whole, OldHas, OldP!Typed, OldP!CurInv
<1>2. newCur' # None => newCur' \in newFailed'
  BY DEF NewP!Typed, NewP!CurInv
<1>3. newFailed' \subseteq NewP!Upid
  BY DEF NewP!Typed, NewP!ValuesOK
<1>4. None \notin NewP!Upid
  BY NewConstants
<1>5. failed' = failed /\ cur' = cur
  BY DEF memory
<1>6. together \subseteq NewP!Upid
  BY SameWords DEF Whole, BothHave
<1> QED BY <1>1, <1>2, <1>3, <1>4, <1>5, <1>6 DEF Watch

\* The process that moves keeps what it has,
LEMMA NewMoves ==
    ASSUME Whole, [NewP!Next]_NewP!vars, UNCHANGED memory, Watch
    PROVE  NewHas'
<1>1. NewP!FlagsOK' /\ NewP!Typed' /\ NewP!Stored' /\ NewP!Complete'
  <2>1. NewP!FlagsOK /\ NewP!Typed /\ NewP!Stored /\ NewP!Complete
    BY DEF Whole, NewHas
  <2>2. NewP!FlagsOK' /\ NewP!Typed'
    BY <2>1, NewP!FlagsStep, NewP!ValuesStep, NewConstants
  <2>3. NewP!Stored' /\ NewP!Complete'
    BY <2>1, NewP!StoredStep, NewP!CompleteStep, NewConstants
  <2> QED BY <2>2, <2>3
<1>2. PICK hands : hands = {cur}
  OBVIOUS
<1>3. PICK both : both = together'
  OBVIOUS
<1>4. NewP!Told(hands, together)
  BY <1>2 DEF Whole, NewHas
<1>5. NewP!Told(hands, both)
  BY <1>1, <1>3, <1>4, NewInHand, NewP!ToldMore, NewConstants
<1>6. hands \cap newFailed' \subseteq both
  BY <1>1, <1>2, <1>3, NewInHand
<1>7. NewP!Told(hands, both)'
  <2>1. NewP!FlagsOK /\ NewP!Typed
    BY DEF Whole, NewHas
  <2> QED BY <1>5, <1>6, <2>1, NewP!ToldStep, NewConstants
<1>8. hands = {cur'}
  BY <1>2 DEF memory
<1>9. NewP!Told({cur}, together)'
  BY <1>3, <1>7, <1>8
  DEF NewP!Told, NewP!DeliveryInv, NewP!Spent, NewP!OncePerUpid
<1> QED BY <1>1, <1>9 DEF NewHas

\* and takes nothing from the other one,
LEMMA NewBesideOld ==
    ASSUME Whole, NewP!Process \/ NewP!Abort \/ NewP!Crash \/ NewP!Reconnect, UNCHANGED memory, Watch, NewHas'
    PROVE  OldHas'
<1>1. /\ UNCHANGED <<task, outcome, aged>>
      /\ \A u \in NewP!Upid :
            rows[u] # "none" => rows'[u] # "none" \/ NewP!TaskOf(u) \in aged
      /\ alerts \subseteq alerts' /\ orphaned \subseteq orphaned'
      /\ \A d \in delivered' : d \in delivered \/ (d[1] = newCur /\ newCur' = newCur /\ newCur # None)
  BY NewP!StepBeside, NewConstants, OverlapAssumption DEF Whole, NewHas, NewP!env
<1>2. OldP!FlagsOK'
  BY DEF Whole, NewHas, OldHas, NewP!FlagsOK, OldP!FlagsOK, memory
<1>3. OldP!Typed'
  <2>1. OldP!CurInv'
    BY DEF Whole, OldHas, OldP!Typed, OldP!CurInv, OldP!Sending, memory
  <2>2. OldP!ValuesOK'
    BY Zenon DEF Whole, NewHas, OldHas, NewP!Typed, OldP!Typed, NewP!ValuesOK, OldP!ValuesOK,
       NewP!Upid, OldP!Upid, NewP!Task, OldP!Task, NewP!Guest, OldP!Guest,
       NewP!Results, OldP!Results, OldP!Pcs, memory
  <2> QED BY <2>1, <2>2 DEF OldP!Typed
<1>4. OldP!Stored'
  <2>1. OldP!LoopInv'
    BY <1>1 DEF Whole, OldHas, OldP!Stored, OldP!LoopInv, OldP!UpidsOf, memory
  <2>2. OldP!OutcomeInv' /\ OldP!RowsAreFaithful'
    BY SameWords, PTL DEF NewHas, NewP!Stored
  <2> QED BY <2>1, <2>2 DEF OldP!Stored
<1>5. OldP!Complete'
  <2>1. \A b \in processed' : task'[b] = "stopped"
    BY DEF NewHas, NewP!Complete, NewP!BatchInv
  <2>2. ("log" \notin Faults => OldP!ProcessedMeansParsed)'
    BY SameWords, PTL DEF NewHas, NewP!Complete
  <2>3. \A u \in OldP!Upid :
            rows[u] # "none" => rows'[u] # "none" \/ OldP!TaskOf(u) \in aged
    BY <1>1, SameWords
  <2>4. UNCHANGED <<pc, known, batch, parsed>>
    BY DEF memory
  <2> QED BY <1>1, <2>1, <2>2, <2>3, <2>4, OldP!CompleteBeside, OldConstants DEF Whole, OldHas
<1>6. OldP!Told({newCur}, together)'
  <2>1. PICK hands : hands = {newCur}
    OBVIOUS
  <2>2. PICK both : both = together
    OBVIOUS
  <2>3. PICK more : more = together'
    OBVIOUS
  <2>4. OldP!Told(hands, both)
    BY <2>1, <2>2 DEF Whole, OldHas
  <2>5. both \subseteq more
    BY <2>2, <2>3, NewInHand DEF NewHas
  <2>6. \A d \in delivered' : d \in delivered \/ (d[1] = cur => cur \in more)
    <3>1. cur' = cur
      BY DEF memory
    <3>2. newCur' = cur' /\ newCur' # None => newCur' \in together'
      BY NewInHand DEF NewHas
    <3> QED BY <1>1, <2>3, <3>1, <3>2
  <2>7. UNCHANGED <<pc, cur, emailOk>>
    BY DEF memory
  <2>8. /\ pc' = "email" => OldP!Spent(cur, "email", more)'
        /\ pc' \in {"email", "emailed", "discord"} => OldP!Spent(cur, "discord", more)'
        /\ emailOk' => cur' # None
        /\ pc' = "settled" \/ emailOk' => OldP!AlreadySent(cur)'
    BY <1>1, <2>4, <2>5, <2>6, <2>7, OldP!ToldBeside, OldConstants
  <2>9. \A d \in delivered' :
            d \in orphaned' \/ NewP!AlreadySent(d[1])' \/ d[1] \in {cur'} \cup {newCur'}
    BY DEF NewHas, NewP!Told, NewP!DeliveryInv
  <2>10. \A u : NewP!AlreadySent(u)' <=> OldP!AlreadySent(u)'
    BY DEF OldP!Matches, NewP!Matches, OldP!AlreadySent, NewP!AlreadySent, OldP!Guest, NewP!Guest
  <2>11. OldP!DeliveryInv({newCur}, together)'
    BY <2>3, <2>8, <2>9, <2>10 DEF OldP!DeliveryInv, OldP!Spent
  <2>12. OldP!OncePerUpid(together)'
    BY DEF NewHas, NewP!Told, NewP!OncePerUpid, OldP!OncePerUpid
  <2> QED BY <2>11, <2>12 DEF OldP!Told
<1> QED BY <1>2, <1>3, <1>4, <1>5, <1>6 DEF OldHas

\* nor from what they have together.
LEMMA NewBesideBoth ==
    ASSUME Whole, NewP!Process \/ NewP!Abort \/ NewP!Crash \/ NewP!Reconnect, UNCHANGED <<memory, leaving>>,
           Watch, NewHas'
    PROVE  BothHave'
<1>1. leaving' \in BOOLEAN /\ together' \subseteq NewP!Upid /\ newFailed' \cap failed' \subseteq together'
  BY NewInHand DEF NewHas, Whole, BothHave
<1>2. NoImport'
  BY NewP!NoSecondImport, NewConstants, OverlapAssumption DEF Whole, BothHave, NoImport, memory
<1>3. NewP!Accounted(failed)'
  <2>1. PICK held : held = failed
    OBVIOUS
  <2>2. [NewP!Next]_NewP!vars
    BY DEF NewP!Next
  <2>3. NewP!Accounted(held)
    BY <2>1, SameWords DEF Whole, BothHave
  <2>4. newPc = "settled" => NewP!AlreadySent(newCur)
    BY DEF Whole, NewHas, NewP!Told, NewP!DeliveryInv
  <2>5. NewP!Accounted(held)'
    <3>1. NewP!Typed
      BY DEF Whole, NewHas
    <3> QED BY <2>2, <2>3, <2>4, <3>1, NewP!AccountedStep, NewConstants
  <2>6. held = failed'
    BY <2>1 DEF memory
  <2> QED BY <2>5, <2>6 DEF NewP!Accounted
<1>4. NewP!Accounted(failed)' <=> OldP!Accounted(newFailed)'
  BY SameWords, PTL
<1>5. NewP!Upid = OldP!Upid
  BY SameWords
<1> QED BY <1>1, <1>2, <1>3, <1>4, <1>5 DEF BothHave

-----------------------------------------------------------------------------
(* The steps of the specification *)

LEMMA WholeInit == Init => Whole
<1> SUFFICES ASSUME Init PROVE Whole
  OBVIOUS
<1> USE DEF Init
<1>1. OldP!FlagsOK /\ NewP!FlagsOK
  BY DEF OldP!FlagsOK, NewP!FlagsOK
<1>2. OldP!ValuesOK /\ NewP!ValuesOK
  BY OldConstants
  DEF OldP!ValuesOK, NewP!ValuesOK, OldP!Upid, NewP!Upid, OldP!Task, NewP!Task, OldP!Guest,
      NewP!Guest, OldP!Results, NewP!Results, OldP!Pcs, NewP!Pcs, Old!Task, Old!Upid, Old!Guest
<1>3. OldP!CurInv /\ NewP!CurInv
  BY DEF OldP!CurInv, NewP!CurInv, OldP!Sending, NewP!Sending
<1>4. OldP!Stored /\ NewP!Stored
  <2>1. OldP!OutcomeInv /\ OldP!RowsAreFaithful
    BY OldP!UpidFacts, OldConstants
    DEF OldP!OutcomeInv, OldP!RowsAreFaithful, OldP!Upid, OldP!Task, OldP!Guest, Old!Task,
        Old!Upid, Old!Guest
  <2>2. OldP!LoopInv /\ NewP!LoopInv
    BY DEF OldP!LoopInv, NewP!LoopInv
  <2> QED BY <2>1, <2>2, SameWords DEF OldP!Stored, NewP!Stored
<1>5. OldP!Complete /\ NewP!Complete
  BY DEF OldP!Complete, NewP!Complete, OldP!KnownStored, NewP!KnownStored, OldP!BatchInv,
     NewP!BatchInv, OldP!ProcessedMeansParsed, NewP!ProcessedMeansParsed
<1>6. OldP!Told({newCur}, together) /\ NewP!Told({cur}, together)
  BY DEF OldP!Told, NewP!Told, OldP!DeliveryInv, NewP!DeliveryInv, OldP!OncePerUpid,
     NewP!OncePerUpid
<1>7. BothHave
  BY DEF BothHave, NoImport, OldP!Accounted, Old!Upid, OldP!Upid, Old!Guest, OldP!Guest
<1> QED BY <1>1, <1>2, <1>3, <1>4, <1>5, <1>6, <1>7
        DEF Whole, OldHas, NewHas, OldP!Typed, NewP!Typed

LEMMA OldKeeps == Whole /\ OldStep /\ Watch => Whole'
<1> SUFFICES ASSUME Whole, OldStep, Watch PROVE Whole'
  OBVIOUS
<1>1. OldP!Process \/ OldP!Abort \/ OldP!Crash \/ OldP!Reconnect
  BY OldSteps DEF OldStep
<1>2. [OldP!Next]_OldP!vars
  BY <1>1 DEF OldP!Next
<1>3. UNCHANGED <<newMemory, leaving>> /\ UNCHANGED newMemory
  BY DEF OldStep
<1>4. OldHas'
  BY <1>2, <1>3, OldMoves
<1>5. NewHas' /\ BothHave'
  BY <1>1, <1>3, <1>4, OldBesideNew, OldBesideBoth
<1> QED BY <1>4, <1>5 DEF Whole

LEMMA NewKeeps == Whole /\ NewStep /\ Watch => Whole'
<1> SUFFICES ASSUME Whole, NewStep, Watch PROVE Whole'
  OBVIOUS
<1>1. NewP!Process \/ NewP!Abort \/ NewP!Crash \/ NewP!Reconnect
  BY NewSteps DEF NewStep
<1>2. [NewP!Next]_NewP!vars
  BY <1>1 DEF NewP!Next
<1>3. UNCHANGED <<memory, leaving>> /\ UNCHANGED memory
  BY DEF NewStep
<1>4. NewHas'
  BY <1>2, <1>3, NewMoves
<1>5. OldHas' /\ BothHave'
  BY <1>1, <1>3, <1>4, NewBesideOld, NewBesideBoth
<1> QED BY <1>4, <1>5 DEF Whole

\* Steps that neither process makes
LEMMA OthersKeep ==
    ASSUME Whole, Watch, [OldP!Next]_OldP!vars, [NewP!Next]_NewP!vars,
           UNCHANGED <<memory, newMemory, rows, imported, alerts, backfilled, lost>>,
           leaving' \in BOOLEAN
    PROVE  Whole'
<1>1. UNCHANGED memory /\ UNCHANGED newMemory
  OBVIOUS
<1>2. OldHas' /\ NewHas'
  BY <1>1, OldMoves, NewMoves
<1>3. together' \subseteq OldP!Upid /\ failed' \cap newFailed' \subseteq together'
  BY <1>1, <1>2, OldInHand DEF OldHas
<1>4. NoImport'
  BY DEF Whole, BothHave, NoImport, memory, newMemory
<1>5. OldP!Accounted(newFailed)'
  BY DEF Whole, BothHave, OldP!Accounted, OldP!AlreadySent, memory, newMemory
<1> QED BY <1>2, <1>3, <1>4, <1>5 DEF Whole, BothHave, OldP!Upid, OldP!Guest

LEMMA ProxmoxKeeps ==
    Whole /\ Old!Proxmox /\ UNCHANGED <<newMemory, leaving>> /\ Watch => Whole'
<1> SUFFICES ASSUME Whole, Old!Proxmox, UNCHANGED <<newMemory, leaving>>, Watch PROVE Whole'
  OBVIOUS
<1> USE DEF OldP!db, OldP!volatile, OldP!loop, OldP!sending, OldP!history, OldP!told,
        NewP!db, NewP!volatile, NewP!loop, NewP!sending, NewP!history, NewP!told,
        memory, newMemory
<1>1. OldP!Proxmox
  BY OldSteps
<1>2. UNCHANGED <<memory, newMemory, rows, imported, alerts, backfilled, lost>>
  BY <1>1 DEF OldP!Proxmox, OldP!StartTask, OldP!FinishTask, OldP!Age
<1>3. NewP!Proxmox
  BY <1>1 DEF OldP!Proxmox, OldP!StartTask, OldP!FinishTask, OldP!Age, NewP!Proxmox,
     NewP!StartTask, NewP!FinishTask, NewP!Age, OldP!Task, NewP!Task, OldP!Upid, NewP!Upid,
     OldP!Guest, NewP!Guest, OldP!UpidsOf, NewP!UpidsOf, OldP!Outcomes, NewP!Outcomes
<1>4. [OldP!Next]_OldP!vars /\ [NewP!Next]_NewP!vars
  BY <1>1, <1>3 DEF OldP!Next, NewP!Next
<1>5. leaving' \in BOOLEAN
  BY DEF Whole, BothHave
<1> QED BY <1>2, <1>4, <1>5, OthersKeep

LEMMA QuietKeeps ==
    ASSUME Whole, UNCHANGED <<shared, memory, newMemory>>, leaving' \in BOOLEAN, Watch
    PROVE  Whole'
<1> USE DEF shared, memory, newMemory
<1>1. UNCHANGED OldP!vars /\ UNCHANGED NewP!vars
  BY DEF OldP!vars, OldP!env, OldP!db, OldP!volatile, OldP!loop, OldP!sending, OldP!history,
     OldP!told, NewP!vars, NewP!env, NewP!db, NewP!volatile, NewP!loop, NewP!sending,
     NewP!history, NewP!told
<1> QED BY <1>1, OthersKeep

LEMMA WholeStep == Whole /\ [Next]_vars => Whole'
<1> SUFFICES ASSUME Whole, [Next]_vars PROVE Whole'
  OBVIOUS
<1>1. CASE Next
  <2>1. Watch
    BY <1>1 DEF Next
  <2>2. CASE OldLeaves
    BY <2>1, <2>2, QuietKeeps DEF OldLeaves
  <2> QED BY <1>1, <2>1, <2>2, OldKeeps, NewKeeps, ProxmoxKeeps DEF Next
<1>2. CASE UNCHANGED vars
  <2>1. Watch
    BY <1>2 DEF vars, Watch, newMemory, memory, Whole, BothHave
  <2> QED BY <1>2, <2>1, QuietKeeps DEF vars, Whole, BothHave
<1> QED BY <1>1, <1>2
-----------------------------------------------------------------------------
(* The invariant of the specification, and the properties it gives *)

\* The inductive invariant holds in every reachable state of two processes on one
\* database: each has what it would have alone, but for the rows the other may
\* purge and the failures the other has in hand.
THEOREM TwoInvariant == Spec => []IInv
BY WholeInit, WholeStep, WholeGives, PTL DEF Spec

\* Every variable keeps its type.
THEOREM TwoTypeCorrect == Spec => []TypeOK
<1>1. IInv => TypeOK
  BY DEF IInv
<1> QED BY <1>1, TwoInvariant, PTL

\* However the polls of the two processes interleave, and whatever crashes and
\* aborts, every failure on record has an alert, is owed one by one of them, or
\* was dropped by the one that found it.
THEOREM NoFailureFallsBetween == Spec => []EitherAccountsForIt
<1>1. IInv => EitherAccountsForIt
  BY DEF IInv
<1> QED BY <1>1, TwoInvariant, PTL

\* A failure that reached the user twice on a channel was once in the hands of
\* both processes, or its first record was lost: one process that comes after the
\* other repeats nothing.
THEOREM TwiceIsTogether == Spec => []TwiceOnlyTogether
<1>1. IInv => TwiceOnlyTogether
  BY DEF IInv
<1> QED BY <1>1, TwoInvariant, PTL

\* Where batch logs are read in full, a batch marked by either process has all its
\* rows, although each inserts only what its own snapshot did not know.
THEOREM EitherCompletes ==
    ASSUME "log" \notin Faults PROVE Spec => []ProcessedMeansParsed
<1>1. IInv => ProcessedMeansParsed
  BY DEF IInv
<1> QED BY <1>1, TwoInvariant, PTL
===============================================================================
