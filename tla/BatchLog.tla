------------------------------- MODULE BatchLog -------------------------------
(***************************************************************************)
(* _parse_batch_log: the loop that turns the log of a batch task into one  *)
(* result per VM, line by line, for every log up to a length.  It is what  *)
(* BackupPoller takes parse_batch_task to do.                              *)
(*                                                                         *)
(* A line is a record of its kind and of what its pattern captures.  The   *)
(* text of an ERROR line and a timestamp are members of small sets; what   *)
(* becomes of the text is Stripped.                                        *)
(***************************************************************************)
EXTENDS Integers, Sequences, FiniteSetsExt

CONSTANTS
    Vmid,        \* VM ids
    Message,     \* texts of an ERROR line
    Blank,       \* those that consist of the characters of "ERROR: " alone
    Time,        \* timestamps, as the log spells them
    BatchStart,  \* starttime of the batch task
    MaxLines,    \* bound on the length of the log
    None

ASSUME BatchLogAssumption ==
    /\ Blank \subseteq Message /\ Message \cap {"OK", ""} = {}
    /\ Time \subseteq Nat /\ BatchStart \in Nat
    /\ MaxLines \in Nat
    /\ None \notin Vmid /\ None \notin Time

\* A timestamp that strptime rejects is None; every other line is "other".
Line ==
    [kind : {"starting"}, vm : Vmid] \cup
    [kind : {"started", "finished"}, at : Time \cup {None}] \cup
    [kind : {"error"}, text : Message] \cup
    [kind : {"other"}]

VARIABLES
    log,         \* the lines read so far
    vm,          \* current_vmid
    vmStart,     \* vm_start
    exitStatus,  \* exit_status
    results      \* the results, in order

parseVars == <<log, vm, vmStart, exitStatus, results>>
-----------------------------------------------------------------------------
\* line.strip().lstrip("ERROR: ").strip(), which takes off characters, not a prefix
Stripped(text) == IF text \in Blank THEN "" ELSE text

\* The next line of the log
Read(l) == Len(log) < MaxLines /\ log' = Append(log, l)

\* Mutant: the state of the last VM is kept
Starting_Stale(l) ==
    /\ l.kind = "starting" /\ Read(l)
    /\ vm' = l.vm
    /\ UNCHANGED <<vmStart, exitStatus, results>>
\* INFO: Starting Backup of VM {vmid}
Starting(l) ==
    /\ l.kind = "starting" /\ Read(l)
    /\ vm' = l.vm /\ vmStart' = None /\ exitStatus' = "OK"
    /\ UNCHANGED results

\* A line outside the section of a VM, or one that matches nothing
Passed(l) ==
    /\ l.kind # "starting" /\ (vm = None \/ l.kind = "other") /\ Read(l)
    /\ UNCHANGED <<vm, vmStart, exitStatus, results>>

\* INFO: Backup started at {time}
Started(l) ==
    /\ l.kind = "started" /\ vm # None /\ Read(l)
    /\ vmStart' = l.at
    /\ UNCHANGED <<vm, exitStatus, results>>

\* ERROR: {text}
Error(l) ==
    /\ l.kind = "error" /\ vm # None /\ Read(l)
    /\ exitStatus' = Stripped(l.text)
    /\ UNCHANGED <<vm, vmStart, results>>

\* What "or" and "if" take for no time
NoTime == {None, 0}

Duration(from, to) == IF to \in NoTime THEN None ELSE to - from

\* Mutant: lines before the first VM are not passed over
Finished_NoSection(l) ==
    /\ l.kind = "finished" /\ Read(l)
    /\ results' = Append(results, [vm |-> vm, exit |-> exitStatus, start |-> BatchStart,
                                   end |-> l.at, duration |-> Duration(BatchStart, l.at)])
    /\ vm' = None
    /\ UNCHANGED <<vmStart, exitStatus>>
\* INFO: Backup finished at {time}
Finished(l) ==
    /\ l.kind = "finished" /\ vm # None /\ Read(l)
    /\ LET start == IF vmStart \in NoTime THEN BatchStart ELSE vmStart
       IN  results' = Append(results, [vm |-> vm, exit |-> exitStatus, start |-> start,
                                       end |-> l.at, duration |-> Duration(start, l.at)])
    /\ vm' = None
    /\ UNCHANGED <<vmStart, exitStatus>>
-----------------------------------------------------------------------------
ParseInit ==
    /\ log = <<>> /\ results = <<>>
    /\ vm = None /\ vmStart = None /\ exitStatus = "OK"

ParseNext == \E l \in Line :
    Starting(l) \/ Passed(l) \/ Started(l) \/ Error(l) \/ Finished(l)

ParseSpec == ParseInit /\ [][ParseNext]_parseVars
-----------------------------------------------------------------------------
(* What a log says, in terms of its lines alone *)

Kind(i, kind) == log[i].kind = kind

\* The section of VM log[i].vm: the lines after i up to j, the first one that
\* finishes it, with no other VM starting in between.
Section(i, j) ==
    /\ i < j /\ Kind(i, "starting") /\ Kind(j, "finished")
    /\ \A k \in i+1..j-1 : ~Kind(k, "starting") /\ ~Kind(k, "finished")

LastOf(kind, i, j) == {k \in i+1..j-1 : Kind(k, kind) /\ \A n \in k+1..j-1 : ~Kind(n, kind)}

\* The exit status of the lines between i and j, and the last time VM log[i].vm
\* started in them
ExitOf(i, j) ==
    LET errors == LastOf("error", i, j)
    IN  IF errors = {} THEN "OK" ELSE Stripped(log[Max(errors)].text)

StartOf(i, j) ==
    LET starts == LastOf("started", i, j)
    IN  IF starts = {} THEN None ELSE log[Max(starts)].at

Says(i, j) ==
    LET start == IF StartOf(i, j) \in NoTime THEN BatchStart ELSE StartOf(i, j)
    IN  [vm |-> log[i].vm, exit |-> ExitOf(i, j),
         start |-> start, end |-> log[j].at, duration |-> Duration(start, log[j].at)]

Sections == {j \in 1..Len(log) : \E i \in 1..Len(log) : Section(i, j)}
-----------------------------------------------------------------------------
(* Properties *)

Result ==
    [vm : Vmid, exit : Message \cup {"OK", ""}, start : Nat, end : Time \cup {None},
     duration : Int \cup {None}]

\* Every variable has its type.
ParseTypeOK ==
    /\ log \in Seq(Line) /\ Len(log) <= MaxLines
    /\ vm \in Vmid \cup {None} /\ vmStart \in Time \cup {None}
    /\ exitStatus \in Message \cup {"OK", ""}
    /\ results \in Seq(Result) /\ Len(results) <= Len(log)

\* The loop finds the finished sections of the log, all of them and in their
\* order, each with the last error and the last start time inside it and nothing
\* carried over from the section before, whatever lines are missing or repeated.
AsTheLogSays ==
    /\ Len(results) = Cardinality(Sections)
    /\ \A j \in Sections :
          LET i == Max({k \in 1..j : Kind(k, "starting")})
          IN  results[Cardinality({s \in Sections : s <= j})] = Says(i, j)

\* README.md on batch tasks: "parses per-VM start/finish/error lines" and "For any
\* new failure, sends an immediate alert".  Once the batch has gone on to another
\* VM, a VM whose section holds an ERROR line has a failed result.
ErrorsAreReported ==
    \A i, k, n \in 1..Len(log) :
        /\ i < k /\ k < n
        /\ Kind(i, "starting") /\ Kind(k, "error") /\ Kind(n, "starting")
        /\ \A m \in i+1..k : ~Kind(m, "starting") /\ ~Kind(m, "finished")
        => \E r \in 1..Len(results) : results[r].vm = log[i].vm /\ results[r].exit \notin {"OK", ""}
-----------------------------------------------------------------------------
(* The inductive invariant behind AsTheLogSays *)

\* The section that line i starts has not come to an end.
Open(i) ==
    /\ i \in 1..Len(log) /\ Kind(i, "starting")
    /\ \A k \in i+1..Len(log) : ~Kind(k, "starting") /\ ~Kind(k, "finished")

\* The three variables are those of the open section, if there is one.
OpenInv ==
    /\ vm = None => \A i \in 1..Len(log) : ~Open(i)
    /\ vm # None => \E i \in 1..Len(log) :
          /\ Open(i) /\ vm = log[i].vm
          /\ exitStatus = ExitOf(i, Len(log) + 1) /\ vmStart = StartOf(i, Len(log) + 1)

ParseInv == ParseTypeOK /\ OpenInv /\ AsTheLogSays
=============================================================================
