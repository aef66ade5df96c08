---------------------------- MODULE ProxmoxProofs -----------------------------
(***************************************************************************)
(* Proofs about what pvewatch makes of two answers of Proxmox:             *)
(*   VmInventory, the dashboard lists the VMs of the last list that was    *)
(*   stored under each cluster id, for any history and order of failures;  *)
(*   BatchLog, the results of a batch are those its log tells of, for logs *)
(*   of any length and wording.                                            *)
(***************************************************************************)
EXTENDS VmInventory, BatchLog, FiniteSetTheorems, TLAPS

-----------------------------------------------------------------------------
(* VmInventory: types *)

\* get_vms names VMs that exist, each once.
LEMMA GetVmsType ==
    TypeOK => /\ GetVms \in SUBSET (Vm \X Name)
              /\ \A p, q \in GetVms : p[1] = q[1] => p = q
BY VmInventoryAssumption DEF TypeOK, GetVms

\* A list becomes rows of the present and of the running process.
LEMMA SampledType ==
    ASSUME TypeOK, NEW list \in SUBSET (Vm \X Name)
    PROVE  /\ Sampled(list) \subseteq [vm : Vm, name : Name, at : 0..End, cluster : Cluster]
           /\ \A r \in Sampled(list) : /\ r.at = now /\ r.cluster = cluster
                                       /\ <<r.vm, r.name>> \in list
           /\ \A p \in list :
                [vm |-> p[1], name |-> p[2], at |-> now, cluster |-> cluster] \in Sampled(list)
BY DEF TypeOK, Sampled

LEMMA RowFacts ==
    TypeOK => /\ now \in Int /\ History \in Int /\ Repeat \in Int /\ Repeat >= 1
              /\ \A r \in rows : r.at \in Int /\ r.cluster \in Cluster
              /\ \A c \in Cluster : stored[c] \in Int
BY VmInventoryAssumption DEF TypeOK

LEMMA InventoryTypeInit == Init => TypeOK
BY VmInventoryAssumption DEF Init, TypeOK

LEMMA InventoryTypeStep == TypeOK /\ [Next]_vars => TypeOK'
<1> SUFFICES ASSUME TypeOK, [Next]_vars PROVE TypeOK'
  OBVIOUS
<1>1. ASSUME NEW v \in Vm, NEW name \in Name \cup {Absent}, Change(v, name) PROVE TypeOK'
  BY <1>1 DEF TypeOK, Change
<1>2. ASSUME NEW level \in {"cluster", "node", "none"}, Reaches(level) PROVE TypeOK'
  BY <1>2 DEF TypeOK, Reaches
<1>3. ASSUME NEW c \in Cluster, Reconfigure(c) PROVE TypeOK'
  BY <1>3, VmInventoryAssumption DEF TypeOK, Reconfigure
<1>4. CASE Tick
  BY <1>4, VmInventoryAssumption DEF TypeOK, Tick
<1>5. CASE Refresh
  BY <1>5, GetVmsType, SampledType DEF TypeOK, Refresh, Spared
<1>6. CASE Purge
  BY <1>6 DEF TypeOK, Purge
<1>7. CASE UNCHANGED vars
  BY <1>7 DEF TypeOK, vars
<1> QED BY <1>1, <1>2, <1>3, <1>4, <1>5, <1>6, <1>7 DEF Next

\* Every variable of VmInventory keeps its type.
THEOREM InventoryTypeCorrect == Spec => []TypeOK
<1>1. Init => TypeOK
  BY InventoryTypeInit
<1>2. TypeOK /\ [Next]_vars => TypeOK'
  BY InventoryTypeStep
<1> QED BY <1>1, <1>2, PTL DEF Spec
-----------------------------------------------------------------------------
(* VmInventory: the inductive invariant *)

LEMMA InventoryInit == Init => IInv
BY InventoryTypeInit, VmInventoryAssumption
   DEF Init, IInv, TimesInv, NamesInv, RowsInv, AnswerInv

\* A list that is stored replaces what is known under its id: rows of other VMs go,
\* and what stays is older than the list.  Other ids keep theirs.
LEMMA RefreshStep == IInv /\ Refresh => (TimesInv /\ NamesInv /\ RowsInv /\ AnswerInv)'
<1> SUFFICES ASSUME IInv, Refresh PROVE (TimesInv /\ NamesInv /\ RowsInv /\ AnswerInv)'
  OBVIOUS
<1> USE DEF IInv
<1>1. /\ GetVms \in SUBSET (Vm \X Name) /\ GetVms # {}
      /\ \A p, q \in GetVms : p[1] = q[1] => p = q
  BY GetVmsType DEF Refresh
<1>2. /\ now' = now /\ cluster' = cluster /\ cluster \in Cluster
      /\ rows' = Spared \cup Sampled(GetVms)
      /\ stored'[cluster] = now /\ answer'[cluster] = GetVms
      /\ \A c \in Cluster \ {cluster} : stored'[c] = stored[c] /\ answer'[c] = answer[c]
  BY DEF Refresh, TypeOK
<1>3. \A r \in RowsOf(cluster) : r.at < now
  <2> TAKE r \in RowsOf(cluster)
  <2>1. r \in rows /\ ~(now - r.at < Repeat)
    BY DEF Refresh, Fresh, RowsOf
  <2> QED BY <2>1, RowFacts
<1>4. TimesInv'
  BY <1>2, RowFacts DEF TimesInv
<1>5. NamesInv'
  BY <1>1, <1>2 DEF NamesInv
<1>6. RowsInv'
  <2> SUFFICES ASSUME NEW r \in rows'
               PROVE  /\ r.at <= stored'[r.cluster]
                      /\ \E p \in answer'[r.cluster] : p[1] = r.vm
                      /\ r.at = stored'[r.cluster] => <<r.vm, r.name>> \in answer'[r.cluster]
    BY DEF RowsInv
  <2>1. CASE r \in Spared /\ r.cluster # cluster
    BY <2>1, <1>2, RowFacts DEF Spared, RowsInv
  <2>2. CASE r \in Spared /\ r.cluster = cluster
    <3>1. r.at < now /\ r.at \in Int /\ \E p \in GetVms : p[1] = r.vm
      BY <2>2, <1>3, RowFacts DEF Spared, RowsOf
    <3> QED BY <2>2, <3>1, <1>2, RowFacts
  <2>3. CASE r \in Sampled(GetVms)
    <3>1. r.at = now /\ r.cluster = cluster /\ <<r.vm, r.name>> \in GetVms
      BY <2>3, <1>1, SampledType
    <3> QED BY <3>1, <1>2, RowFacts
  <2> QED BY <2>1, <2>2, <2>3, <1>2
<1>7. AnswerInv'
  <2> SUFFICES ASSUME NEW c \in Cluster, Listing(c)', NEW p \in answer'[c]
               PROVE  [vm |-> p[1], name |-> p[2], at |-> stored'[c], cluster |-> c] \in rows'
    BY DEF AnswerInv
  <2>1. CASE c = cluster
    BY <2>1, <1>1, <1>2, SampledType
  <2>2. CASE c # cluster
    <3>1. \A r \in RowsOf(c)' : r \in RowsOf(c)
      BY <2>2, <1>1, <1>2, SampledType DEF RowsOf, Spared
    <3>2. Listing(c)
      BY <2>2, <3>1, <1>2 DEF Listing
    <3>3. [vm |-> p[1], name |-> p[2], at |-> stored[c], cluster |-> c] \in rows
      BY <2>2, <3>2, <1>2 DEF AnswerInv
    <3> QED BY <2>2, <3>3, <1>2 DEF Spared
  <2> QED BY <2>1, <2>2
<1> QED BY <1>4, <1>5, <1>6, <1>7

\* A purge keeps the rows of the last list of an id or takes every row of it.
LEMMA PurgeStep == IInv /\ Purge => (TimesInv /\ NamesInv /\ RowsInv /\ AnswerInv)'
<1> SUFFICES ASSUME IInv, Purge PROVE (TimesInv /\ NamesInv /\ RowsInv /\ AnswerInv)'
  OBVIOUS
<1> USE DEF IInv
<1>1. UNCHANGED <<now, cluster, stored, answer>> /\ rows' = {r \in rows : r.at >= now - History}
  BY DEF Purge
<1>2. RowsInv'
  BY <1>1 DEF RowsInv
<1>3. AnswerInv'
  <2> SUFFICES ASSUME NEW c \in Cluster, Listing(c)', NEW p \in answer[c]
               PROVE  [vm |-> p[1], name |-> p[2], at |-> stored[c], cluster |-> c] \in rows'
    BY <1>1 DEF AnswerInv
  <2>1. stored[c] >= now - History
    <3>1. CASE RowsOf(c)' # {}
      <4>1. PICK r \in rows : r.cluster = c /\ r.at >= now - History
        BY <3>1, <1>1 DEF RowsOf
      <4>2. r.at <= stored[c]
        BY <4>1 DEF RowsInv
      <4> QED BY <4>1, <4>2, RowFacts
    <3> QED BY <3>1, <1>1 DEF Listing
  <2>2. [vm |-> p[1], name |-> p[2], at |-> stored[c], cluster |-> c] \in rows
    BY <2>1 DEF AnswerInv, Listing
  <2> QED BY <2>1, <2>2, <1>1
<1> QED BY <1>1, <1>2, <1>3 DEF TimesInv, NamesInv

\* Time alone takes a list from view, and never brings one back.
LEMMA TimeStep ==
    IInv /\ (Tick \/ \E c \in Cluster : Reconfigure(c))
        => (TimesInv /\ NamesInv /\ RowsInv /\ AnswerInv)'
<1> SUFFICES ASSUME IInv, Tick \/ \E c \in Cluster : Reconfigure(c)
             PROVE  (TimesInv /\ NamesInv /\ RowsInv /\ AnswerInv)'
  OBVIOUS
<1> USE DEF IInv
<1>1. now' = now + 1 /\ UNCHANGED <<rows, stored, answer>>
  BY DEF Tick, Reconfigure
<1>2. TimesInv'
  BY <1>1, RowFacts DEF TimesInv
<1>3. \A c \in Cluster : Listing(c)' => Listing(c)
  BY <1>1, RowFacts DEF Listing, RowsOf
<1> QED BY <1>1, <1>2, <1>3 DEF NamesInv, RowsInv, AnswerInv

LEMMA InventoryStep == IInv /\ [Next]_vars => IInv'
<1> SUFFICES ASSUME IInv, [Next]_vars PROVE (TimesInv /\ NamesInv /\ RowsInv /\ AnswerInv)'
  BY InventoryTypeStep DEF IInv
<1>1. CASE UNCHANGED <<now, cluster, rows, answer, stored>>
  BY <1>1 DEF IInv, TimesInv, NamesInv, RowsInv, AnswerInv, Listing, RowsOf
<1> QED BY <1>1, RefreshStep, PurgeStep, TimeStep DEF Next, Change, Reaches, vars
-----------------------------------------------------------------------------
(* VmInventory: what the dashboard lists *)

\* With the invariant, a row that is shown is of the last list of its id.
LEMMA ShownIsListed ==
    ASSUME IInv, NEW r \in Latest
    PROVE  r \in rows /\ r.at = stored[r.cluster] /\ <<r.vm, r.name>> \in answer[r.cluster]
<1> USE DEF IInv
<1>1. r \in rows /\ r.cluster \in Cluster /\ \A q \in rows : q.vm = r.vm => q.at <= r.at
  BY RowFacts DEF Latest
<1>2. PICK p \in answer[r.cluster] : p[1] = r.vm
  BY <1>1 DEF RowsInv
<1>3. [vm |-> p[1], name |-> p[2], at |-> stored[r.cluster], cluster |-> r.cluster] \in rows
  BY <1>1 DEF AnswerInv, Listing, RowsOf
<1>4. stored[r.cluster] <= r.at /\ r.at <= stored[r.cluster]
  BY <1>1, <1>2, <1>3 DEF RowsInv
<1>5. r.at = stored[r.cluster]
  BY <1>1, <1>4, RowFacts
<1> QED BY <1>1, <1>5 DEF RowsInv

LEMMA LatestIsAnswer == IInv => InventoryIsTheAnswer
<1> SUFFICES ASSUME IInv PROVE InventoryIsTheAnswer
  OBVIOUS
<1> USE DEF IInv
<1>1. ASSUME NEW r \in Latest, NEW q \in Latest, r.vm = q.vm PROVE r = q
  <2>1. /\ r \in rows /\ r.at = stored[r.cluster] /\ <<r.vm, r.name>> \in answer[r.cluster]
        /\ q \in rows /\ q.at = stored[q.cluster] /\ <<q.vm, q.name>> \in answer[q.cluster]
    BY ShownIsListed
  <2>2. r.at = q.at
    BY <1>1, <2>1, RowFacts DEF Latest
  <2>3. r.cluster = q.cluster
    BY <2>1, <2>2, RowFacts DEF TimesInv
  <2>4. r.name = q.name
    BY <1>1, <2>1, <2>3, RowFacts DEF NamesInv
  <2> QED BY <1>1, <2>1, <2>2, <2>3, <2>4 DEF TypeOK
<1>2. ASSUME NEW c \in Cluster, Listing(c), NEW p \in answer[c]
      PROVE  \E r \in rows : /\ r.vm = p[1]
                             /\ (r.cluster = c /\ r \in Latest) \/ r.at > stored[c]
  <2> DEFINE r == [vm |-> p[1], name |-> p[2], at |-> stored[c], cluster |-> c]
  <2>1. r \in rows
    BY <1>2 DEF AnswerInv
  <2>2. CASE r \in Latest
    BY <2>1, <2>2
  <2>3. CASE r \notin Latest
    BY <2>1, <2>3, RowFacts DEF Latest
  <2> QED BY <2>2, <2>3
<1> QED BY <1>1, <1>2, ShownIsListed DEF InventoryIsTheAnswer

\* Whatever fails, whoever comes and goes and whatever cluster the process is pointed
\* at, the dashboard shows each VM once and as the last list stored under its cluster
\* id has it, and every VM of that list of which no other id has a later sample.
THEOREM InventoryShown == Spec => []InventoryIsTheAnswer
<1>1. Init => IInv
  BY InventoryInit
<1>2. IInv /\ [Next]_vars => IInv'
  BY InventoryStep
<1>3. IInv => InventoryIsTheAnswer
  BY LatestIsAnswer
<1> QED BY <1>1, <1>2, <1>3, PTL DEF Spec
-----------------------------------------------------------------------------
(* BatchLog: lines, sequences and the largest of a set *)

LEMMA LogFacts ==
    /\ Time \subseteq Nat /\ BatchStart \in Nat /\ MaxLines \in Nat
    /\ None \notin Vmid /\ None \notin Time
BY BatchLogAssumption

LEMMA LineFacts ==
    \A l \in Line :
        /\ l.kind \in {"starting", "started", "finished", "error", "other"}
        /\ l.kind = "starting" => l.vm \in Vmid
        /\ l.kind \in {"started", "finished"} => l.at \in Time \cup {None}
        /\ l.kind = "error" => l.text \in Message
BY DEF Line

LEMMA MaxIs ==
    ASSUME NEW S, NEW m \in S, S \subseteq Int, \A x \in S : x <= m
    PROVE  Max(S) = m
<1>1. \E x \in S : \A y \in S : x >= y
  BY SMT
<1>2. Max(S) \in S /\ \A y \in S : Max(S) >= y
  BY <1>1, Zenon DEF Max
<1>3. \A x \in S : x >= m /\ x <= m => x = m
  BY SMT
<1> QED BY <1>2, <1>3, Zenon

\* The next line leaves the others where they are.
LEMMA ReadAppends ==
    ASSUME log \in Seq(Line), NEW l \in Line, Read(l)
    PROVE  /\ log' \in Seq(Line) /\ Len(log') = Len(log) + 1 /\ Len(log) \in Nat
           /\ Len(log') <= MaxLines
           /\ log'[Len(log) + 1] = l
           /\ \A k \in 1..Len(log) : log'[k] = log[k]
           /\ \A k \in 1..Len(log) : log[k] \in Line
BY LogFacts DEF Read
-----------------------------------------------------------------------------
(* BatchLog: types *)

LEMMA ParseTypeInit == ParseInit => ParseTypeOK
BY LogFacts DEF ParseInit, ParseTypeOK

LEMMA StrippedType == \A text \in Message : Stripped(text) \in Message \cup {"OK", ""}
BY DEF Stripped

SequencesOK ==
    /\ log \in Seq(Line) /\ Len(log) <= MaxLines
    /\ results \in Seq(Result) /\ Len(results) <= Len(log)

CurrentOK ==
    /\ vm \in Vmid \cup {None} /\ vmStart \in Time \cup {None}
    /\ exitStatus \in Message \cup {"OK", ""}

\* A line that brings no result
LEMMA ReadType ==
    ASSUME SequencesOK, NEW l \in Line, Read(l), UNCHANGED results PROVE SequencesOK'
<1> USE DEF SequencesOK
<1>1. /\ log' \in Seq(Line) /\ Len(log') = Len(log) + 1 /\ Len(log) \in Nat
      /\ Len(log') <= MaxLines
  BY ReadAppends
<1>2. Len(results) \in Nat
  OBVIOUS
<1> QED BY <1>1, <1>2

\* The result of a finished section
LEMMA ResultType ==
    ASSUME CurrentOK, vm # None, NEW l \in Line, l.kind = "finished"
    PROVE  LET start == IF vmStart \in NoTime THEN BatchStart ELSE vmStart
           IN  [vm |-> vm, exit |-> exitStatus, start |-> start, end |-> l.at,
                duration |-> Duration(start, l.at)] \in Result
<1> DEFINE start == IF vmStart \in NoTime THEN BatchStart ELSE vmStart
<1>1. start \in Nat
  BY LogFacts DEF CurrentOK, NoTime
<1>2. l.at \in Time \cup {None}
  BY LineFacts
<1> HIDE DEF start
<1>3. Duration(start, l.at) \in Int \cup {None}
  <2>1. CASE l.at \in NoTime
    BY <2>1 DEF Duration
  <2>2. CASE l.at \notin NoTime
    <3>1. l.at \in Nat
      BY <1>2, <2>2, LogFacts DEF NoTime
    <3> QED BY <1>1, <2>2, <3>1 DEF Duration
  <2> QED BY <2>1, <2>2
<1>4. vm \in Vmid /\ exitStatus \in Message \cup {"OK", ""}
  BY DEF CurrentOK
<1>5. [vm |-> vm, exit |-> exitStatus, start |-> start, end |-> l.at,
       duration |-> Duration(start, l.at)] \in Result
  BY <1>1, <1>2, <1>3, <1>4, Zenon DEF Result
<1> QED BY <1>5 DEF start

LEMMA ParseTypeStep == ParseTypeOK /\ [ParseNext]_parseVars => ParseTypeOK'
<1> SUFFICES ASSUME SequencesOK, CurrentOK, [ParseNext]_parseVars
             PROVE  SequencesOK' /\ CurrentOK'
  BY DEF ParseTypeOK, SequencesOK, CurrentOK
<1>1. ASSUME NEW l \in Line, Starting(l) PROVE SequencesOK' /\ CurrentOK'
  BY <1>1, ReadType, LineFacts DEF Starting, CurrentOK
<1>2. ASSUME NEW l \in Line, Passed(l) PROVE SequencesOK' /\ CurrentOK'
  BY <1>2, ReadType DEF Passed, CurrentOK
<1>3. ASSUME NEW l \in Line, Started(l) PROVE SequencesOK' /\ CurrentOK'
  BY <1>3, ReadType, LineFacts DEF Started, CurrentOK
<1>4. ASSUME NEW l \in Line, Error(l) PROVE SequencesOK' /\ CurrentOK'
  BY <1>4, ReadType, LineFacts, StrippedType DEF Error, CurrentOK
<1>5. ASSUME NEW l \in Line, Finished(l) PROVE SequencesOK' /\ CurrentOK'
  <2>1. PICK result \in Result : results' = Append(results, result)
    BY <1>5, ResultType DEF Finished
  <2>2. /\ results' \in Seq(Result) /\ Len(results') = Len(results) + 1
        /\ Len(results) \in Nat
    BY <2>1 DEF SequencesOK
  <2>3. /\ log' \in Seq(Line) /\ Len(log') = Len(log) + 1 /\ Len(log) \in Nat
        /\ Len(log') <= MaxLines
    BY <1>5, ReadAppends DEF Finished, SequencesOK
  <2>4. SequencesOK'
    BY <2>2, <2>3 DEF SequencesOK
  <2> QED BY <1>5, <2>4 DEF Finished, CurrentOK
<1>6. CASE UNCHANGED parseVars
  BY <1>6 DEF parseVars, SequencesOK, CurrentOK
<1> QED BY <1>1, <1>2, <1>3, <1>4, <1>5, <1>6 DEF ParseNext

\* Every variable of BatchLog keeps its type, and there are no more results than
\* lines.
THEOREM LogTypeCorrect == ParseSpec => []ParseTypeOK
<1>1. ParseTypeOK /\ [ParseNext]_parseVars => ParseTypeOK'
  BY ParseTypeStep
<1> QED BY <1>1, ParseTypeInit, PTL DEF ParseSpec
-----------------------------------------------------------------------------
(* BatchLog: what a log says, and how one more line changes it *)

\* At most one line is the last of its kind.
LEMMA LastOfIsOne ==
    ASSUME NEW kind, NEW i \in Nat, NEW j \in Nat, NEW k \in LastOf(kind, i, j)
    PROVE  /\ k \in i+1..j-1 /\ LastOf(kind, i, j) = {k}
           /\ Max(LastOf(kind, i, j)) = k
<1>1. k \in i+1..j-1 /\ Kind(k, kind)
  BY DEF LastOf
<1>2. ASSUME NEW m \in LastOf(kind, i, j) PROVE m = k
  <2>1. m \in i+1..j-1 /\ Kind(m, kind)
    BY DEF LastOf
  <2>2. (\A n \in k+1..j-1 : ~Kind(n, kind)) /\ (\A n \in m+1..j-1 : ~Kind(n, kind))
    BY DEF LastOf
  <2>3. ~(m > k) /\ ~(k > m)
    BY <1>1, <2>1, <2>2
  <2> QED BY <1>1, <2>1, <2>3
<1>3. LastOf(kind, i, j) = {k}
  BY <1>2
<1>4. Max({k}) = k
  BY <1>1, MaxIs
<1> QED BY <1>1, <1>3, <1>4

\* A section begins at the last start before its end.
LEMMA SectionStart ==
    ASSUME NEW i \in Nat \ {0}, NEW j \in Nat, Section(i, j)
    PROVE  Max({k \in 1..j : Kind(k, "starting")}) = i
<1> DEFINE starts == {k \in 1..j : Kind(k, "starting")}
<1>1. i \in starts /\ starts \subseteq Int
  BY DEF Section
<1>2. \A k \in starts : k <= i
  <2> TAKE k \in starts
  <2>1. ~(k \in i+1..j-1)
    BY DEF Section
  <2>2. k # j
    BY DEF Section, Kind
  <2> QED BY <2>1, <2>2
<1> HIDE DEF starts
<1>3. Max(starts) = i
  BY <1>1, <1>2, MaxIs
<1> QED BY <1>3 DEF starts

\* Line l is read after n others.
Reads(l, n) ==
    /\ log \in Seq(Line) /\ l \in Line /\ n = Len(log)
    /\ Read(l)

LEMMA KindKept ==
    ASSUME NEW l, NEW n, Reads(l, n)
    PROVE  /\ n \in Nat /\ Len(log') = n + 1 /\ log'[n + 1] = l
           /\ \A k \in 1..n : log'[k] = log[k]
           /\ \A k \in 1..n : \A kind : Kind(k, kind)' <=> Kind(k, kind)
           /\ \A kind : Kind(n + 1, kind)' <=> l.kind = kind
BY ReadAppends DEF Reads, Kind

LEMMA LastOfKept ==
    ASSUME NEW l, NEW n, Reads(l, n), NEW kind, NEW i \in 1..n, NEW j \in 1..n+1
    PROVE  LastOf(kind, i, j)' = LastOf(kind, i, j)
<1>1. \A k \in i+1..j-1 : k \in 1..n
  BY KindKept
<1>2. \A k \in i+1..j-1 : Kind(k, kind)' <=> Kind(k, kind)
  BY <1>1, KindKept
<1>3. \A k \in i+1..j-1 : \A m \in k+1..j-1 : m \in i+1..j-1
  BY KindKept
<1> QED BY <1>2, <1>3 DEF LastOf

LEMMA LastOfNext ==
    ASSUME NEW l, NEW n, Reads(l, n), NEW kind, NEW i \in 1..n
    PROVE  LastOf(kind, i, n + 2)' =
             IF l.kind = kind THEN {n + 1} ELSE LastOf(kind, i, n + 1)
<1>1. /\ n \in Nat /\ (Kind(n + 1, kind)' <=> l.kind = kind)
      /\ \A k \in i+1..n : Kind(k, kind)' <=> Kind(k, kind)
  BY KindKept
<1>2. \A k : k \in i+1..(n + 2)-1 <=> k \in i+1..(n + 1)-1 \/ k = n + 1
  BY <1>1
<1>3. \A k \in i+1..n : \A m : m \in k+1..(n + 2)-1 <=> m \in k+1..(n + 1)-1 \/ m = n + 1
  BY <1>1
<1>4. \A k \in i+1..n : \A m \in k+1..n : m \in i+1..n
  BY <1>1
<1>5. (n + 1)-1 = n /\ ~(\E m \in (n + 1)+1..(n + 2)-1 : TRUE)
  BY <1>1
<1>6. \A k \in i+1..n :
        k \in LastOf(kind, i, n + 2)' <=> k \in LastOf(kind, i, n + 1) /\ l.kind # kind
  BY <1>1, <1>2, <1>3, <1>4, <1>5 DEF LastOf
<1>7. n + 1 \in LastOf(kind, i, n + 2)' <=> l.kind = kind
  BY <1>1, <1>2, <1>5 DEF LastOf
<1>8. LastOf(kind, i, n + 1) \subseteq i+1..n
  BY <1>5 DEF LastOf
<1>9. LastOf(kind, i, n + 2)' \subseteq (i+1..n) \cup {n + 1}
  BY <1>2, <1>5 DEF LastOf
<1>10. CASE l.kind = kind
  BY <1>6, <1>7, <1>9, <1>10
<1>11. CASE l.kind # kind
  BY <1>6, <1>7, <1>8, <1>9, <1>11
<1> QED BY <1>10, <1>11

\* What the lines up to j say stays as it is.
LEMMA ExitKept ==
    ASSUME NEW l, NEW n, Reads(l, n), NEW i \in 1..n, NEW j \in 1..n+1
    PROVE  ExitOf(i, j)' = ExitOf(i, j)
<1> DEFINE errors == LastOf("error", i, j)
<1>1. errors' = errors
  BY LastOfKept
<1>2. CASE errors = {}
  BY <1>1, <1>2 DEF ExitOf
<1>3. ASSUME NEW k \in errors PROVE ExitOf(i, j)' = ExitOf(i, j)
  <2>0. n \in Nat /\ i \in Nat /\ j \in Nat
    BY KindKept
  <2>1. n \in Nat /\ k \in i+1..j-1 /\ Max(errors) = k
    BY <1>3, <2>0, LastOfIsOne, Zenon
  <2>2. log'[k] = log[k]
    BY <2>1, KindKept
  <2>3. Max(errors)' = Max(errors)
    BY <1>1 DEF Max
  <2> QED BY <1>1, <2>1, <2>2, <2>3 DEF ExitOf, Stripped
<1> QED BY <1>2, <1>3

LEMMA StartKept ==
    ASSUME NEW l, NEW n, Reads(l, n), NEW i \in 1..n, NEW j \in 1..n+1
    PROVE  StartOf(i, j)' = StartOf(i, j)
<1> DEFINE starts == LastOf("started", i, j)
<1>1. starts' = starts
  BY LastOfKept
<1>2. CASE starts = {}
  BY <1>1, <1>2 DEF StartOf
<1>3. ASSUME NEW k \in starts PROVE StartOf(i, j)' = StartOf(i, j)
  <2>0. n \in Nat /\ i \in Nat /\ j \in Nat
    BY KindKept
  <2>1. n \in Nat /\ k \in i+1..j-1 /\ Max(starts) = k
    BY <1>3, <2>0, LastOfIsOne, Zenon
  <2>2. log'[k] = log[k]
    BY <2>1, KindKept
  <2>3. Max(starts)' = Max(starts)
    BY <1>1 DEF Max
  <2> QED BY <1>1, <2>1, <2>2, <2>3 DEF StartOf
<1> QED BY <1>2, <1>3

\* The line that is read counts for the section that is open.
LEMMA ExitNext ==
    ASSUME NEW l, NEW n, Reads(l, n), NEW i \in 1..n
    PROVE  ExitOf(i, n + 2)' =
             IF l.kind = "error" THEN Stripped(l.text) ELSE ExitOf(i, n + 1)
<1>0. n \in Nat /\ log'[n + 1] = l /\ n + 1 \in 1..n+1
  BY KindKept
<1>1. CASE l.kind = "error"
  <2>1. LastOf("error", i, n + 2)' = {n + 1}
    BY <1>1, LastOfNext
  <2>2. Max({n + 1})' = n + 1
    BY <1>0, MaxIs
  <2>3. {n + 1} # {}
    OBVIOUS
  <2> QED BY <1>0, <1>1, <2>1, <2>2, <2>3 DEF ExitOf, Stripped
<1>2. CASE l.kind # "error"
  <2>1. LastOf("error", i, n + 2)' = LastOf("error", i, n + 1)'
    <3>1. LastOf("error", i, n + 2)' = LastOf("error", i, n + 1)
      BY <1>2, LastOfNext
    <3>2. LastOf("error", i, n + 1)' = LastOf("error", i, n + 1)
      BY <1>0, LastOfKept
    <3> QED BY <3>1, <3>2
  <2>2. ExitOf(i, n + 2)' = ExitOf(i, n + 1)'
    BY <2>1 DEF ExitOf
  <2>3. ExitOf(i, n + 1)' = ExitOf(i, n + 1)
    BY <1>0, ExitKept
  <2> QED BY <1>2, <2>2, <2>3
<1> QED BY <1>1, <1>2

LEMMA StartNext ==
    ASSUME NEW l, NEW n, Reads(l, n), NEW i \in 1..n
    PROVE  StartOf(i, n + 2)' = IF l.kind = "started" THEN l.at ELSE StartOf(i, n + 1)
<1>0. n \in Nat /\ log'[n + 1] = l /\ n + 1 \in 1..n+1
  BY KindKept
<1>1. CASE l.kind = "started"
  <2>1. LastOf("started", i, n + 2)' = {n + 1}
    BY <1>1, LastOfNext
  <2>2. Max({n + 1})' = n + 1
    BY <1>0, MaxIs
  <2>3. {n + 1} # {}
    OBVIOUS
  <2> QED BY <1>0, <1>1, <2>1, <2>2, <2>3 DEF StartOf
<1>2. CASE l.kind # "started"
  <2>1. LastOf("started", i, n + 2)' = LastOf("started", i, n + 1)'
    <3>1. LastOf("started", i, n + 2)' = LastOf("started", i, n + 1)
      BY <1>2, LastOfNext
    <3>2. LastOf("started", i, n + 1)' = LastOf("started", i, n + 1)
      BY <1>0, LastOfKept
    <3> QED BY <3>1, <3>2
  <2>2. StartOf(i, n + 2)' = StartOf(i, n + 1)'
    BY <2>1 DEF StartOf
  <2>3. StartOf(i, n + 1)' = StartOf(i, n + 1)
    BY <1>0, StartKept
  <2> QED BY <1>2, <2>2, <2>3
<1> QED BY <1>1, <1>2

\* Nothing has been read of a section that starts with this line.
LEMMA NothingYet ==
    ASSUME NEW n \in Nat
    PROVE  ExitOf(n, n + 1)' = "OK" /\ StartOf(n, n + 1)' = None
<1>1. n+1..(n + 1)-1 = {}
  OBVIOUS
<1>2. \A kind : LastOf(kind, n, n + 1)' = {}
  BY <1>1 DEF LastOf
<1> QED BY <1>2 DEF ExitOf, StartOf

\* Whole sections stay, and the one that is open ends with a "finished" line.
LEMMA SectionKept ==
    ASSUME NEW l, NEW n, Reads(l, n), NEW i \in 1..n
    PROVE  /\ \A j \in 1..n : Section(i, j)' <=> Section(i, j)
           /\ Section(i, n + 1)' <=> Open(i) /\ l.kind = "finished"
           /\ Open(i)' <=> Open(i) /\ l.kind \notin {"starting", "finished"}
<1>1. /\ n \in Nat /\ Len(log') = n + 1 /\ n = Len(log)
      /\ \A kind : Kind(n + 1, kind)' <=> l.kind = kind
      /\ \A k \in 1..n : \A kind : Kind(k, kind)' <=> Kind(k, kind)
  BY KindKept DEF Reads
<1>2. \A j \in 1..n : \A k \in i+1..j-1 : k \in 1..n
  BY <1>1
<1>3. \A j \in 1..n : Section(i, j)' <=> Section(i, j)
  BY <1>1, <1>2 DEF Section
<1>4. (n + 1)-1 = n /\ i < n + 1 /\ \A k \in i+1..n : k \in 1..n
  BY <1>1
<1>5. Section(i, n + 1)' <=> Open(i) /\ l.kind = "finished"
  BY <1>1, <1>4 DEF Section, Open
<1>6. \A k : k \in i+1..n+1 <=> k \in i+1..n \/ k = n + 1
  BY <1>1
<1>7. i \in 1..n+1
  BY <1>1
<1>8. Open(i)' <=> Open(i) /\ l.kind \notin {"starting", "finished"}
  BY <1>1, <1>4, <1>6, <1>7 DEF Open
<1> QED BY <1>3, <1>5, <1>8

LEMMA OpenNext ==
    ASSUME NEW l, NEW n, Reads(l, n)
    PROVE  Open(n + 1)' <=> l.kind = "starting"
<1>1. /\ n \in Nat /\ Len(log') = n + 1 /\ n + 1 \in 1..n+1
      /\ Kind(n + 1, "starting")' <=> l.kind = "starting"
  BY KindKept
<1>2. (n + 1)+1..n+1 = {}
  BY <1>1
<1> QED BY <1>1, <1>2 DEF Open

\* Only one section is open at a time.
LEMMA OpenIsOne ==
    ASSUME log \in Seq(Line), NEW i, NEW m, Open(i), Open(m) PROVE i = m
<1>1. Len(log) \in Nat /\ i \in 1..Len(log) /\ m \in 1..Len(log)
  BY DEF Open
<1>2. ~(m \in i+1..Len(log)) /\ ~(i \in m+1..Len(log))
  BY DEF Open
<1> QED BY <1>1, <1>2
-----------------------------------------------------------------------------
(* BatchLog: the variables are those of the open section *)

\* What the loop keeps of the section that line i has started
Holds(i) ==
    /\ Open(i) /\ vm = log[i].vm
    /\ exitStatus = ExitOf(i, Len(log) + 1) /\ vmStart = StartOf(i, Len(log) + 1)

\* A line that neither starts nor ends a section
LEMMA HoldsNext ==
    ASSUME NEW l, NEW n, Reads(l, n), NEW i \in 1..n, Holds(i),
           l.kind \notin {"starting", "finished"},
           vm' = vm,
           exitStatus' = IF l.kind = "error" THEN Stripped(l.text) ELSE exitStatus,
           vmStart' = IF l.kind = "started" THEN l.at ELSE vmStart
    PROVE  Holds(i)'
<1>1. /\ n \in Nat /\ Len(log) = n /\ Len(log') = n + 1 /\ log'[i] = log[i]
  BY KindKept DEF Reads
<1>2. Open(i)'
  BY SectionKept DEF Holds
<1>3. ExitOf(i, n + 2)' = exitStatus' /\ StartOf(i, n + 2)' = vmStart'
  BY <1>1, ExitNext, StartNext DEF Holds
<1>4. Len(log') + 1 = n + 2
  BY <1>1
<1> QED BY <1>1, <1>2, <1>3, <1>4 DEF Holds

LEMMA OpenStep == ParseTypeOK /\ OpenInv /\ [ParseNext]_parseVars => OpenInv'
<1> SUFFICES ASSUME ParseTypeOK, OpenInv, [ParseNext]_parseVars PROVE OpenInv'
  OBVIOUS
<1>a. log \in Seq(Line)
  BY DEF ParseTypeOK
<1>b. PICK n \in Nat : n = Len(log)
  BY <1>a
<1>c. /\ vm = None => \A i \in 1..n : ~Open(i)
      /\ vm # None => \E i \in 1..n : Holds(i)
  BY <1>b, Zenon DEF OpenInv, Holds
<1>0. /\ log \in Seq(Line) /\ n \in Nat /\ n = Len(log)
      /\ vm = None => \A i \in 1..n : ~Open(i)
      /\ vm # None => \E i \in 1..n : Holds(i)
  BY <1>a, <1>b, <1>c
<1>1. ASSUME NEW l \in Line, Read(l), l.kind \notin {"starting", "finished"} \/ vm = None,
             l.kind # "starting", vm' = vm,
             vm # None => exitStatus' = IF l.kind = "error" THEN Stripped(l.text) ELSE exitStatus,
             vm # None => vmStart' = IF l.kind = "started" THEN l.at ELSE vmStart
      PROVE  OpenInv'
  <2>1. Reads(l, n) /\ Len(log') = n + 1
    BY <1>0, <1>1, KindKept DEF Reads
  <2>2. CASE vm = None
    <3>1. \A i \in 1..n : ~Open(i)'
      BY <1>0, <2>1, <2>2, SectionKept
    <3>2. ~Open(n + 1)'
      BY <1>1, <2>1, OpenNext
    <3>3. \A i \in 1..n+1 : ~Open(i)'
      BY <1>0, <3>1, <3>2
    <3> QED BY <1>1, <2>1, <2>2, <3>3 DEF OpenInv
  <2>3. CASE vm # None
    <3>1. PICK i \in 1..n : Holds(i)
      BY <1>0, <2>3
    <3>2. Holds(i)'
      BY <1>1, <2>1, <2>3, <3>1, HoldsNext
    <3>3. i \in 1..Len(log')
      BY <1>0, <2>1
    <3> QED BY <1>1, <2>3, <3>2, <3>3 DEF OpenInv, Holds
  <2> QED BY <2>2, <2>3
<1>2. ASSUME NEW l \in Line, Starting(l) PROVE OpenInv'
  <2>1. /\ Reads(l, n) /\ Len(log') = n + 1 /\ log'[n + 1] = l
    BY <1>0, <1>2, KindKept DEF Reads, Starting
  <2>2. vm' = l.vm /\ vm' # None /\ vmStart' = None /\ exitStatus' = "OK"
    BY <1>2, LineFacts, LogFacts DEF Starting
  <2>3. Open(n + 1)'
    BY <1>2, <2>1, OpenNext DEF Starting
  <2>4. /\ n + 1 \in Nat /\ n + 1 \in 1..Len(log')
        /\ (n + 1) + 1 = Len(log') + 1
    BY <1>0, <2>1
  <2>5. ExitOf(n + 1, Len(log) + 1)' = "OK" /\ StartOf(n + 1, Len(log) + 1)' = None
    BY <2>4, NothingYet
  <2> QED BY <2>1, <2>2, <2>3, <2>4, <2>5 DEF OpenInv
<1>3. ASSUME NEW l \in Line, Passed(l) PROVE OpenInv'
  BY <1>1, <1>3 DEF Passed
<1>4. ASSUME NEW l \in Line, Started(l) PROVE OpenInv'
  BY <1>1, <1>4 DEF Started
<1>5. ASSUME NEW l \in Line, Error(l) PROVE OpenInv'
  BY <1>1, <1>5 DEF Error
<1>6. ASSUME NEW l \in Line, Finished(l) PROVE OpenInv'
  <2>1. Reads(l, n) /\ Len(log') = n + 1 /\ l.kind = "finished" /\ vm' = None
    BY <1>0, <1>6, KindKept DEF Reads, Finished
  <2>2. \A i \in 1..n : ~Open(i)'
    BY <2>1, SectionKept
  <2>3. ~Open(n + 1)'
    BY <2>1, OpenNext
  <2>4. \A i \in 1..n+1 : ~Open(i)'
    BY <1>0, <2>2, <2>3
  <2> QED BY <2>1, <2>4 DEF OpenInv
<1>7. CASE UNCHANGED parseVars
  <2>1. UNCHANGED <<log, vm, vmStart, exitStatus>>
    BY <1>7 DEF parseVars
  <2>2. \A i : Holds(i)' <=> Holds(i)
    BY <2>1 DEF Holds, Open, Kind, ExitOf, StartOf, LastOf, Stripped
  <2>3. \A i : Open(i)' <=> Open(i)
    BY <2>1 DEF Open, Kind
  <2> QED BY <2>1, <2>2, <2>3 DEF OpenInv, Holds
<1> QED BY <1>2, <1>3, <1>4, <1>5, <1>6, <1>7 DEF ParseNext
-----------------------------------------------------------------------------
(* BatchLog: the results are those of the finished sections *)

\* The place of the section that line j ends
Rank(j) == Cardinality({s \in Sections : s <= j})

\* AsTheLogSays, with the start of a section for the largest of a set
Tells ==
    /\ Len(results) = Cardinality(Sections)
    /\ \A i, j \in 1..Len(log) : Section(i, j) => results[Rank(j)] = Says(i, j)

LEMMA TellsAsTheLog == log \in Seq(Line) => (Tells <=> AsTheLogSays)
<1> SUFFICES ASSUME log \in Seq(Line) PROVE Tells <=> AsTheLogSays
  OBVIOUS
<1>1. \A i, j \in 1..Len(log) :
        Section(i, j) => j \in Sections /\ Max({k \in 1..j : Kind(k, "starting")}) = i
  BY SectionStart DEF Sections
<1>2. \A j \in Sections : j \in 1..Len(log) /\ \E i \in 1..Len(log) : Section(i, j)
  BY DEF Sections
<1> QED BY <1>1, <1>2 DEF Tells, AsTheLogSays, Rank

LEMMA SectionsFinite ==
    ASSUME log \in Seq(Line)
    PROVE  /\ IsFiniteSet(Sections) /\ Cardinality(Sections) \in Nat
           /\ \A j \in Sections : Rank(j) \in 1..Cardinality(Sections)
<1>1. Sections \in SUBSET (1..Len(log)) /\ IsFiniteSet(1..Len(log))
  BY FS_Interval DEF Sections
<1>2. IsFiniteSet(Sections)
  BY <1>1, FS_Subset
<1>3. ASSUME NEW j \in Sections PROVE Rank(j) \in 1..Cardinality(Sections)
  <2> DEFINE upto == {s \in Sections : s <= j}
  <2>1. upto \in SUBSET Sections /\ j \in upto
    BY <1>1
  <2> HIDE DEF upto
  <2>2. IsFiniteSet(upto) /\ Cardinality(upto) <= Cardinality(Sections)
    BY <1>2, <2>1, FS_Subset
  <2>3. Cardinality(upto) \in Nat /\ Cardinality(upto) # 0 /\ Cardinality(Sections) \in Nat
    BY <1>2, <2>1, <2>2, FS_CardinalityType, FS_EmptySet
  <2>4. Cardinality(upto) \in 1..Cardinality(Sections)
    BY <2>2, <2>3
  <2> QED BY <2>4 DEF Rank, upto
<1> QED BY <1>2, <1>3, FS_CardinalityType

\* A line ends one more section or none.
LEMMA SectionsNext ==
    ASSUME NEW l, NEW n, Reads(l, n)
    PROVE  Sections' = IF l.kind = "finished" /\ \E i \in 1..n : Open(i)
                       THEN Sections \cup {n + 1} ELSE Sections
<1>1. n \in Nat /\ n = Len(log) /\ Len(log') = n + 1
  BY KindKept DEF Reads
<1>2. \A i : i \in 1..n+1 <=> i \in 1..n \/ i = n + 1
  BY <1>1
<1>3. \A j \in 1..n+1 : ~Section(n + 1, j)'
  BY <1>1 DEF Section
<1>4. \A j \in 1..n : j \in Sections' <=> j \in Sections
  BY <1>1, <1>2, <1>3, SectionKept DEF Sections
<1>5. n + 1 \in Sections' <=> l.kind = "finished" /\ \E i \in 1..n : Open(i)
  BY <1>1, <1>2, <1>3, SectionKept DEF Sections
<1>6. Sections \subseteq 1..n /\ Sections' \subseteq 1..n+1
  BY <1>1 DEF Sections
<1>7. CASE l.kind = "finished" /\ \E i \in 1..n : Open(i)
  BY <1>2, <1>4, <1>5, <1>6, <1>7
<1>8. CASE ~(l.kind = "finished" /\ \E i \in 1..n : Open(i))
  <2>1. \A j : j \in Sections' <=> j \in Sections
    BY <1>2, <1>4, <1>5, <1>6, <1>8
  <2>2. Sections' = Sections
    BY <2>1, Zenon
  <2> QED BY <1>8, <2>2, Zenon
<1> QED BY <1>7, <1>8

\* What was said of the sections before keeps its place.
LEMMA TellsKept ==
    ASSUME NEW l, NEW n, Reads(l, n), NEW i \in 1..n, NEW j \in 1..n, Section(i, j)
    PROVE  Says(i, j)' = Says(i, j) /\ Rank(j)' = Rank(j)
<1>1. n \in Nat /\ log'[i] = log[i] /\ log'[j] = log[j] /\ j \in 1..n+1
  BY KindKept
<1>2. ExitOf(i, j)' = ExitOf(i, j) /\ StartOf(i, j)' = StartOf(i, j)
  BY <1>1, ExitKept, StartKept
<1>3. Says(i, j)' = Says(i, j)
  BY <1>1, <1>2 DEF Says, Duration
<1>4. {s \in Sections' : s <= j} = {s \in Sections : s <= j}
  BY <1>1, SectionsNext
<1> QED BY <1>3, <1>4 DEF Rank

LEMMA TellsStep == ParseTypeOK /\ OpenInv /\ Tells /\ [ParseNext]_parseVars => Tells'
<1> SUFFICES ASSUME ParseTypeOK, OpenInv, Tells, [ParseNext]_parseVars PROVE Tells'
  OBVIOUS
<1>a. log \in Seq(Line) /\ results \in Seq(Result)
  BY DEF ParseTypeOK
<1>b. PICK n \in Nat : n = Len(log)
  BY <1>a
<1>c. Len(results) = Cardinality(Sections) /\ Len(results) \in Nat
  BY <1>a DEF Tells
\* Old sections keep their results whether one is added or not.
<1>d. ASSUME NEW l, Reads(l, n), NEW i \in 1..n, NEW j \in 1..n, Section(i, j)',
             \A r \in 1..Len(results) : results'[r] = results[r]
      PROVE  results'[Rank(j)'] = Says(i, j)'
  <2>1. Section(i, j) /\ j \in Sections
    BY <1>b, <1>d, SectionKept DEF Sections
  <2>2. Says(i, j)' = Says(i, j) /\ Rank(j)' = Rank(j)
    BY <1>d, <2>1, TellsKept
  <2>3. Rank(j) \in 1..Len(results)
    BY <1>a, <1>c, <2>1, SectionsFinite
  <2>4. results[Rank(j)] = Says(i, j)
    BY <1>b, <2>1 DEF Tells
  <2> QED BY <1>d, <2>2, <2>3, <2>4
<1>1. ASSUME NEW l \in Line, Read(l), UNCHANGED results, l.kind # "finished" \/ vm = None
      PROVE  Tells'
  <2>1. Reads(l, n) /\ Len(log') = n + 1
    BY <1>a, <1>b, <1>1, KindKept DEF Reads
  <2>2. l.kind # "finished" \/ \A i \in 1..n : ~Open(i)
    BY <1>b, <1>1, Zenon DEF OpenInv
  <2>3. Sections' = Sections
    BY <2>1, <2>2, SectionsNext, Zenon
  <2>4. \A i, j \in 1..n : Section(i, j)' => results'[Rank(j)'] = Says(i, j)'
    BY <1>d, <1>1, <2>1
  <2>5. \A i \in 1..n : ~Section(i, n + 1)'
    BY <2>1, <2>2, SectionKept
  <2>6. \A j \in 1..n+1 : ~Section(n + 1, j)'
    BY <1>b DEF Section
  <2>7. \A i \in 1..n+1 : i \in 1..n \/ i = n + 1
    BY <1>b
  <2>8. \A i, j \in 1..Len(log') : Section(i, j)' => results'[Rank(j)'] = Says(i, j)'
    BY <2>1, <2>4, <2>5, <2>6, <2>7
  <2> QED BY <1>c, <1>1, <2>3, <2>8 DEF Tells
<1>2. ASSUME NEW l \in Line, Finished(l) PROVE Tells'
  <2>1. Reads(l, n) /\ Len(log') = n + 1 /\ log'[n + 1] = l /\ l.kind = "finished"
    BY <1>a, <1>b, <1>2, KindKept DEF Reads, Finished
  <2>2. PICK m \in 1..n : Holds(m)
    BY <1>b, <1>2, Zenon DEF Finished, OpenInv, Holds
  <2>3. Sections' = Sections \cup {n + 1} /\ n + 1 \notin Sections
    BY <1>b, <2>1, <2>2, SectionsNext DEF Holds, Sections
  <2>4. /\ Cardinality(Sections \cup {n + 1}) = Len(results) + 1
    BY <1>a, <1>c, <2>3, SectionsFinite, FS_AddElement
  \* The new result
  <2> DEFINE start  == IF vmStart \in NoTime THEN BatchStart ELSE vmStart
             result == [vm |-> vm, exit |-> exitStatus, start |-> start, end |-> l.at,
                        duration |-> Duration(start, l.at)]
  <2>5. result = Says(m, n + 1)'
    <3>1. /\ vm = log'[m] .vm /\ exitStatus = ExitOf(m, n + 1) /\ vmStart = StartOf(m, n + 1)
      BY <1>b, <2>1, <2>2, KindKept DEF Holds
    <3>2. n + 1 \in 1..n+1
      BY <1>b
    <3>3. ExitOf(m, n + 1)' = ExitOf(m, n + 1) /\ StartOf(m, n + 1)' = StartOf(m, n + 1)
      BY <2>1, <3>2, ExitKept, StartKept
    <3> QED BY <2>1, <3>1, <3>3 DEF Says, Duration
  <2>6. results' = Append(results, result)
    BY <1>2 DEF Finished
  <2> HIDE DEF result
  <2>7. /\ Len(results') = Len(results) + 1 /\ results'[Len(results) + 1] = result
        /\ \A r \in 1..Len(results) : results'[r] = results[r]
    BY <1>a, <2>6
  <2>8. Rank(n + 1)' = Len(results) + 1
    <3>1. {s \in Sections' : s <= n + 1} = Sections'
      BY <1>b, <2>3 DEF Sections
    <3> QED BY <2>3, <2>4, <3>1 DEF Rank
  <2>9. \A i \in 1..n : Section(i, n + 1)' => i = m
    BY <1>a, <2>1, <2>2, SectionKept, OpenIsOne DEF Holds
  <2>10. \A i, j \in 1..n : Section(i, j)' => results'[Rank(j)'] = Says(i, j)'
    BY <1>d, <2>1, <2>7
  <2>11. \A i \in 1..n : Section(i, n + 1)' => results'[Rank(n + 1)'] = Says(i, n + 1)'
    BY <2>5, <2>7, <2>8, <2>9
  <2>12. \A j \in 1..n+1 : ~Section(n + 1, j)'
    BY <1>b DEF Section
  <2>13. \A i \in 1..n+1 : i \in 1..n \/ i = n + 1
    BY <1>b
  <2>14. \A i, j \in 1..Len(log') : Section(i, j)' => results'[Rank(j)'] = Says(i, j)'
    BY <2>1, <2>10, <2>11, <2>12, <2>13
  <2> QED BY <2>3, <2>4, <2>7, <2>14 DEF Tells
<1>3. CASE UNCHANGED parseVars
  <2>1. log' = log /\ results' = results
    BY <1>3 DEF parseVars
  <2>2. Sections' = Sections /\ \A j : Rank(j)' = Rank(j)
    BY <2>1 DEF Sections, Section, Kind, Rank
  <2>3. \A i, j : Section(i, j)' <=> Section(i, j)
    BY <2>1 DEF Section, Kind
  <2>4. \A i, j : Says(i, j)' = Says(i, j)
    BY <2>1 DEF Says, ExitOf, StartOf, LastOf, Kind, Duration, Stripped
  <2> QED BY <2>1, <2>2, <2>3, <2>4 DEF Tells
<1> QED BY <1>1, <1>2, <1>3 DEF ParseNext, Starting, Passed, Started, Error
-----------------------------------------------------------------------------

LEMMA ParseInvInit == ParseInit => OpenInv /\ Tells
<1> SUFFICES ASSUME ParseInit PROVE OpenInv /\ Tells
  OBVIOUS
<1>1. log = <<>> /\ results = <<>> /\ vm = None /\ 1..0 = {}
  BY DEF ParseInit
<1>2. Len(log) = 0 /\ Len(results) = 0
  BY <1>1
<1>3. Sections = {}
  BY <1>1, <1>2 DEF Sections
<1> QED BY <1>1, <1>2, <1>3, FS_EmptySet DEF OpenInv, Tells

\* What the loop makes of a log, however long and however its lines are missing,
\* repeated or out of place: a result for each finished section, in their order,
\* with the last error and the last start time in it.
THEOREM ResultsAreAsTheLogSays == ParseSpec => []AsTheLogSays
<1>1. ParseInit => ParseTypeOK /\ OpenInv /\ Tells
  BY ParseTypeInit, ParseInvInit
<1>2. ParseTypeOK /\ OpenInv /\ Tells /\ [ParseNext]_parseVars => (ParseTypeOK /\ OpenInv /\ Tells)'
  BY ParseTypeStep, OpenStep, TellsStep
<1>3. ParseTypeOK /\ Tells => AsTheLogSays
  BY TellsAsTheLog DEF ParseTypeOK
<1> QED BY <1>1, <1>2, <1>3, PTL DEF ParseSpec
=============================================================================
