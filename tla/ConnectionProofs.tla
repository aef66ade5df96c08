--------------------------- MODULE ConnectionProofs ---------------------------
(***************************************************************************)
(* Proofs about Connections, for any number of request handlers, rows,     *)
(* queries per request and faults, on every dialect.                       *)
(***************************************************************************)
EXTENDS Connections, TLAPS

LEMMA ConnFacts ==
    /\ \A w \in Web : w \in Thread /\ w # "poll" /\ w # "digest" /\ w # None
    /\ \A w \in Web : ConnOf(w) = IF dialect = "memory" THEN "jobs" ELSE "web"
    /\ ConnOf("poll") = "jobs" /\ ConnOf("digest") = "jobs"
    /\ "poll" \in Thread /\ "digest" \in Thread
    /\ "jobs" \in Conn /\ "web" \in Conn
BY ConnectionsAssumption DEF ConnOf, Thread, Conn

-----------------------------------------------------------------------------
(* Types *)

LEMMA FlagsInit == Init => FlagsOK
BY Zenon DEF Init, FlagsOK

LEMMA FlagsStep == FlagsOK /\ [Next]_vars => FlagsOK'
<1> SUFFICES ASSUME FlagsOK, [Next]_vars PROVE FlagsOK'
  OBVIOUS
<1> USE DEF FlagsOK, history, base
<1>1. CASE ServerStops \/ ServerStarts
  BY <1>1, Zenon DEF ServerStops, ServerStarts
<1>2. CASE PollJob
  BY <1>2, Zenon DEF PollJob, PollBegin, FindClosed, PollWrite, PollCommit, PollRaises
<1>3. CASE DigestJob
  BY <1>3, Zenon DEF DigestJob, DigestBegin, FindClosed, DigestRead, DigestRaises
<1>4. ASSUME NEW w \in Web, Handler(w) PROVE FlagsOK'
  BY <1>4, Zenon DEF Handler, Request, FindClosed, Query, Respond, QueryRaises, RolledBack, SecondError
<1>5. CASE UNCHANGED vars
  BY <1>5, Zenon DEF vars
<1> QED BY <1>1, <1>2, <1>3, <1>4, <1>5 DEF Next

LEMMA FaultType ==
    ASSUME NEW kind, faults \in 0..MaxFaults, Fault(kind) PROVE faults' \in 0..MaxFaults
BY ConnectionsAssumption DEF Fault

\* What the driver does to a connection
LEMMA BecomesType ==
    ASSUME ValuesOK, NEW c \in Conn, NEW l \in {"up", "dead", "closed"},
           NEW x \in {"none", "open", "aborted"}, Becomes(c, l, x)
    PROVE  /\ link' \in [Conn -> {"up", "dead", "closed"}]
           /\ txn' \in [Conn -> {"none", "open", "aborted"}]
BY DEF ValuesOK, Becomes

LEMMA ForgetType ==
    ASSUME ValuesOK, NEW c, Forget(c) PROVE pending' \subseteq Row
BY DEF ValuesOK, Forget

DriverOK ==
    /\ link' \in [Conn -> {"up", "dead", "closed"}]
    /\ txn' \in [Conn -> {"none", "open", "aborted"}]
    /\ pending' \subseteq Row
    /\ opening' \subseteq Thread
    /\ faults' \in 0..MaxFaults

LEMMA ConnOfType == ASSUME NEW t \in Thread PROVE ConnOf(t) \in Conn
BY DEF ConnOf, Conn

LEMMA OpeningType ==
    ASSUME ValuesOK, NEW t \in Thread, opening' = opening \ {t} \/ opening' = opening \cup {t}
    PROVE  opening' \subseteq Thread
BY DEF ValuesOK

LEMMA ExecuteType ==
    ASSUME ValuesOK, NEW t \in Thread, NEW rows \in SUBSET Row, Execute(t, rows)
    PROVE  DriverOK
<1>1. pending' \subseteq Row
  BY DEF Execute, Kept, ValuesOK
<1>2. opening' \subseteq Thread
  BY OpeningType DEF Execute
<1> QED BY <1>1, <1>2, BecomesType, ConnOfType DEF Execute, DriverOK, ValuesOK

LEMMA ExecuteRaisesType ==
    ASSUME ValuesOK, NEW t \in Thread, ExecuteRaises(t) PROVE DriverOK
<1>1. faults' \in 0..MaxFaults /\ opening' \subseteq Thread
  BY FaultType, OpeningType DEF ExecuteRaises, ValuesOK
<1>2. CASE UNCHANGED <<link, txn, pending>>
  BY <1>1, <1>2 DEF DriverOK, ValuesOK
<1>3. CASE Becomes(ConnOf(t), "closed", "none") /\ Forget(ConnOf(t))
  BY <1>1, <1>3, BecomesType, ForgetType, ConnOfType DEF DriverOK
<1>4. CASE Becomes(ConnOf(t), "up", "aborted") /\ Forget(ConnOf(t))
  BY <1>1, <1>4, BecomesType, ForgetType, ConnOfType DEF DriverOK
<1> QED BY <1>2, <1>3, <1>4 DEF ExecuteRaises

LEMMA CommitType ==
    ASSUME ValuesOK, NEW c \in Conn, Commit(c) \/ CommitRaises(c), UNCHANGED <<opening, faults>>
    PROVE  DriverOK /\ stored' \subseteq Row
<1>1. stored' \subseteq Row
  BY DEF Commit, CommitRaises, ValuesOK
<1> QED BY <1>1, BecomesType, ForgetType DEF Commit, CommitRaises, DriverOK, ValuesOK

LEMMA RollbackType ==
    ASSUME ValuesOK, NEW c \in Conn, Rollback(c) \/ RollbackRaises(c), UNCHANGED <<opening, faults>>
    PROVE  DriverOK
<1>1. link[c] \in {"up", "dead", "closed"}
  BY DEF ValuesOK
<1> QED BY <1>1, BecomesType, ForgetType DEF Rollback, RollbackRaises, DriverOK, ValuesOK

\* What a thread does to its own variables
ThreadsOK ==
    /\ pc' \in [Thread -> {"rest", "write", "read", "query", "rollback"}]
    /\ left' \in [Thread -> 0..Reads]
    /\ todo' \subseteq Row
    /\ lock' \in Web \cup {None}
    /\ answer' \in [Web -> {"none", "waiting", "ok", "error", "broken off"}]
    /\ written' \subseteq Row
    /\ dropped' \subseteq Thread

LEMMA SparesType ==
    ASSUME ValuesOK, NEW t \in Thread, Spares(t) PROVE dropped' \subseteq Thread
BY DEF ValuesOK, Spares

LEMMA Combine ==
    ASSUME ValuesOK, DriverOK, ThreadsOK, server' \in {"up", "down"}, stored' \subseteq Row,
           UNCHANGED dialect
    PROVE  ValuesOK'
BY DEF ValuesOK, DriverOK, ThreadsOK

LEMMA ReadsFacts == Reads \in Nat /\ 0 \in 0..Reads /\ Reads \in 0..Reads
BY ConnectionsAssumption

\* The threads' own variables, one thread at a time
LEMMA LeftType ==
    ASSUME ValuesOK, NEW t \in Thread, NEW n \in 0..Reads, left' = [left EXCEPT ![t] = n]
    PROVE  left' \in [Thread -> 0..Reads]
BY DEF ValuesOK

LEMMA CountDown ==
    ASSUME ValuesOK, NEW t \in Thread, left[t] > 0, left' = [left EXCEPT ![t] = @ - 1]
    PROVE  left' \in [Thread -> 0..Reads]
<1>1. left[t] \in 0..Reads
  BY DEF ValuesOK
<1>2. left[t] - 1 \in 0..Reads
  BY <1>1, ReadsFacts
<1> QED BY <1>2 DEF ValuesOK

LEMMA PcType ==
    ASSUME ValuesOK, NEW t \in Thread, NEW p \in {"rest", "write", "read", "query", "rollback"},
           pc' = [pc EXCEPT ![t] = p]
    PROVE  pc' \in [Thread -> {"rest", "write", "read", "query", "rollback"}]
BY DEF ValuesOK

LEMMA FindClosedType ==
    ASSUME ValuesOK, NEW t \in Thread, FindClosed(t) PROVE ValuesOK'
BY OpeningType DEF FindClosed, ValuesOK, base, history

LEMMA ValuesInit == Init => ValuesOK
BY ConnectionsAssumption, SMT DEF Init, ValuesOK

LEMMA ValuesStep == ValuesOK /\ [Next]_vars => ValuesOK'
<1> SUFFICES ASSUME ValuesOK, [Next]_vars PROVE ValuesOK'
  OBVIOUS
<1> USE ConnFacts, ConnectionsAssumption DEF base, threads, history
<1>1. CASE ServerStops
  <2>1. faults' \in 0..MaxFaults
    BY <1>1, FaultType DEF ServerStops, ValuesOK
  <2> QED BY <1>1, <2>1 DEF ServerStops, ValuesOK
<1>2. CASE ServerStarts
  BY <1>2 DEF ServerStarts, ValuesOK
<1>3. CASE PollJob
  <2>1. CASE PollBegin
    BY <2>1 DEF PollBegin, ValuesOK
  <2>2. ASSUME NEW r \in todo, PollWrite(r) PROVE ValuesOK'
    <3>1. DriverOK
      <4>1. {r} \in SUBSET Row
        BY <2>2 DEF ValuesOK
      <4>2. Execute("poll", {r})
        BY <2>2 DEF PollWrite
      <4> QED BY <4>1, <4>2, ExecuteType
    <3>2. ThreadsOK
      BY <2>2 DEF PollWrite, ThreadsOK, ValuesOK
    <3> QED BY <2>2, <3>1, <3>2, Combine DEF PollWrite, ValuesOK
  <2>3. CASE PollCommit
    <3>1. DriverOK /\ stored' \subseteq Row
      BY <2>3, CommitType DEF PollCommit
    <3>2. ThreadsOK
      BY <2>3 DEF PollCommit, ThreadsOK, ValuesOK
    <3> QED BY <2>3, <3>1, <3>2, Combine DEF PollCommit, ValuesOK
  <2>4. CASE PollRaises
    <3>1. DriverOK /\ stored' \subseteq Row
      <4>1. CASE ExecuteRaises("poll") /\ UNCHANGED stored
        BY <4>1, ExecuteRaisesType DEF ValuesOK
      <4>2. CASE CommitRaises("jobs") /\ UNCHANGED <<opening, faults>>
        BY <4>2, CommitType
      <4> QED BY <2>4, <4>1, <4>2 DEF PollRaises
    <3>2. ThreadsOK
      BY <2>4 DEF PollRaises, ThreadsOK, ValuesOK
    <3> QED BY <2>4, <3>1, <3>2, Combine DEF PollRaises, ValuesOK
  <2>5. CASE FindClosed("poll")
    BY <2>5, FindClosedType
  <2> QED BY <1>3, <2>1, <2>2, <2>3, <2>4, <2>5 DEF PollJob
<1>4. CASE DigestJob
  <2>1. CASE DigestBegin
    <3>1. left' \in [Thread -> 0..Reads]
      BY <2>1, LeftType, ReadsFacts DEF DigestBegin
    <3>2. pc' \in [Thread -> {"rest", "write", "read", "query", "rollback"}]
      BY <2>1, PcType DEF DigestBegin
    <3> QED BY <2>1, <3>1, <3>2 DEF DigestBegin, ValuesOK
  <2>2. CASE DigestRead
    <3>1. DriverOK
      <4>1. {} \in SUBSET Row /\ Execute("digest", {})
        BY <2>2 DEF DigestRead
      <4> QED BY <4>1, ExecuteType
    <3>2. left' \in [Thread -> 0..Reads]
      BY <2>2, CountDown DEF DigestRead, Execute, Querying
    <3>3. PICK p \in {"rest", "read"} : pc' = [pc EXCEPT !["digest"] = p]
      BY <2>2 DEF DigestRead
    <3>4. pc' \in [Thread -> {"rest", "write", "read", "query", "rollback"}]
      BY <3>3, PcType
    <3>5. ThreadsOK
      BY <2>2, <3>2, <3>4, SparesType DEF DigestRead, ThreadsOK, ValuesOK
    <3> QED BY <2>2, <3>1, <3>5, Combine DEF DigestRead, ValuesOK
  <2>3. CASE DigestRaises
    <3>1. DriverOK
      BY <2>3, ExecuteRaisesType DEF DigestRaises
    <3>2. ThreadsOK
      <4>1. left' \in [Thread -> 0..Reads]
        BY <2>3, LeftType, ReadsFacts DEF DigestRaises
      <4>2. pc' \in [Thread -> {"rest", "write", "read", "query", "rollback"}]
        BY <2>3, PcType DEF DigestRaises
      <4> QED BY <2>3, <4>1, <4>2, SparesType DEF DigestRaises, ThreadsOK, ValuesOK
    <3> QED BY <2>3, <3>1, <3>2, Combine DEF DigestRaises, ValuesOK
  <2>4. CASE FindClosed("digest")
    BY <2>4, FindClosedType
  <2> QED BY <1>4, <2>1, <2>2, <2>3, <2>4 DEF DigestJob
<1>5. ASSUME NEW w \in Web, Handler(w) PROVE ValuesOK'
  <2>1. CASE Request(w)
    <3>1. left' \in [Thread -> 0..Reads]
      BY <2>1, LeftType, ReadsFacts DEF Request
    <3>2. pc' \in [Thread -> {"rest", "write", "read", "query", "rollback"}]
      BY <2>1, PcType DEF Request
    <3> QED BY <2>1, <3>1, <3>2 DEF Request, ValuesOK
  <2>2. CASE Query(w)
    <3>1. DriverOK
      BY <2>2, ExecuteType DEF Query
    <3>2. ThreadsOK
      <4>1. left' \in [Thread -> 0..Reads]
        BY <2>2, CountDown DEF Query, Execute, Querying
      <4> QED BY <2>2, <4>1, SparesType DEF Query, ThreadsOK, ValuesOK
    <3> QED BY <2>2, <3>1, <3>2, Combine DEF Query, ValuesOK
  <2>3. CASE Respond(w)
    BY <2>3 DEF Respond, ValuesOK
  <2>4. CASE QueryRaises(w)
    <3>1. DriverOK
      BY <2>4, ExecuteRaisesType DEF QueryRaises
    <3>2. ThreadsOK
      <4>1. left' \in [Thread -> 0..Reads]
        BY <2>4, LeftType, ReadsFacts DEF QueryRaises
      <4>2. pc' \in [Thread -> {"rest", "write", "read", "query", "rollback"}]
        BY <2>4, PcType DEF QueryRaises
      <4> QED BY <2>4, <4>1, <4>2, SparesType DEF QueryRaises, ThreadsOK, ValuesOK
    <3> QED BY <2>4, <3>1, <3>2, Combine DEF QueryRaises, ValuesOK
  <2>5. CASE RolledBack(w) \/ SecondError(w)
    <3>1. DriverOK
      BY <2>5, RollbackType DEF RolledBack, SecondError
    <3>2. ThreadsOK
      BY <2>5, SparesType DEF RolledBack, SecondError, ThreadsOK, ValuesOK
    <3> QED BY <2>5, <3>1, <3>2, Combine DEF RolledBack, SecondError, ValuesOK
  <2>6. CASE FindClosed(w)
    BY <2>6, FindClosedType
  <2> QED BY <1>5, <2>1, <2>2, <2>3, <2>4, <2>5, <2>6 DEF Handler
<1>6. CASE UNCHANGED vars
  BY <1>6 DEF vars, ValuesOK
<1> QED BY <1>1, <1>2, <1>3, <1>4, <1>5, <1>6 DEF Next

\* Every variable of Connections keeps its type.
THEOREM ConnectionTypeCorrect == Spec => []TypeOK
<1>1. Init => FlagsOK /\ ValuesOK
  BY FlagsInit, ValuesInit
<1>2. FlagsOK /\ ValuesOK /\ [Next]_vars => (FlagsOK /\ ValuesOK)'
  BY FlagsStep, ValuesStep
<1>3. FlagsOK /\ ValuesOK => TypeOK
  BY DEF TypeOK
<1> QED BY <1>1, <1>2, <1>3, PTL DEF Spec

-----------------------------------------------------------------------------
(* Safety *)

\* Handlers that exclude each other
LEMMA LockStep == ValuesOK /\ LockInv /\ [Next]_vars => LockInv'
<1> SUFFICES ASSUME ValuesOK, LockInv, [Next]_vars, NEW v \in Web, pc'[v] = "query"
             PROVE  lock' = v
  BY DEF LockInv
<1> USE ConnFacts DEF base, threads, history, ValuesOK, LockInv
<1>1. CASE ServerStops \/ ServerStarts
  BY <1>1 DEF ServerStops, ServerStarts
<1>2. CASE PollJob
  BY <1>2 DEF PollJob, PollBegin, FindClosed, PollWrite, PollCommit, PollRaises
<1>3. CASE DigestJob
  BY <1>3 DEF DigestJob, DigestBegin, FindClosed, DigestRead, DigestRaises
<1>4. ASSUME NEW w \in Web, Handler(w) PROVE lock' = v
  <2>1. CASE Request(w)
    BY <2>1 DEF Request
  <2>2. CASE Query(w)
    BY <2>2 DEF Query
  <2>3. CASE Respond(w) \/ QueryRaises(w)
    <3>1. pc[w] = "query" /\ pc'[w] # "query" /\ \A t \in Thread \ {w} : pc'[t] = pc[t]
      BY <2>3 DEF Respond, QueryRaises, ExecuteRaises, Querying
    <3> QED BY <3>1
  <2>4. CASE RolledBack(w) \/ SecondError(w) \/ FindClosed(w)
    BY <2>4 DEF RolledBack, SecondError, FindClosed
  <2> QED BY <1>4, <2>1, <2>2, <2>3, <2>4 DEF Handler
<1>5. CASE UNCHANGED vars
  BY <1>5 DEF vars
<1> QED BY <1>1, <1>2, <1>3, <1>4, <1>5 DEF Next

\* Without a server nothing happens to the connections but transactions.
LEMMA LocalStep == ValuesOK /\ LocalInv /\ [Next]_vars => LocalInv'
<1> SUFFICES ASSUME ValuesOK, LocalInv, [Next]_vars, dialect # "postgres" PROVE LocalInv'
  <2>1. [Next]_vars => UNCHANGED dialect
    BY DEF Next, vars, ServerStops, ServerStarts, PollJob, PollBegin, PollWrite, PollCommit,
       PollRaises, DigestJob, DigestBegin, DigestRead, DigestRaises, Handler, Request,
       FindClosed, Query, Respond, QueryRaises, RolledBack, SecondError
  <2> QED BY <2>1 DEF LocalInv
<1> USE ConnFacts DEF base, threads, history, ValuesOK
<1>1. UNCHANGED dialect
  BY DEF Next, vars, ServerStops, ServerStarts, PollJob, PollBegin, PollWrite, PollCommit,
     PollRaises, DigestJob, DigestBegin, DigestRead, DigestRaises, Handler, Request,
     FindClosed, Query, Respond, QueryRaises, RolledBack, SecondError
<1>2. opening = {} /\ \A c \in Conn : link[c] = "up" /\ txn[c] # "aborted"
  BY DEF LocalInv
<1>3. ASSUME NEW c \in Conn, NEW l, NEW x, Becomes(c, l, x), l = "up", x # "aborted",
             opening' = {}
      PROVE  LocalInv'
  BY <1>2, <1>3 DEF Becomes, LocalInv
<1>4. CASE UNCHANGED <<link, txn, opening>>
  BY <1>1, <1>4 DEF LocalInv
<1>5. ASSUME NEW t \in Thread, NEW rows, Execute(t, rows) PROVE LocalInv'
  <2>1. Becomes(ConnOf(t), "up", "open") /\ opening' = {}
    BY <1>2, <1>5 DEF Execute
  <2> QED BY <1>3, <2>1, ConnOfType
<1>6. ASSUME NEW t \in Thread, ExecuteRaises(t) PROVE LocalInv'
  <2>1. ConnOf(t) \in Conn
    BY ConnOfType
  <2>2. UNCHANGED <<link, txn>> /\ opening' = {}
    BY <1>2, <1>6, <2>1 DEF ExecuteRaises, Fails
  <2> QED BY <1>2, <1>4, <2>2
<1>7. ASSUME NEW c \in Conn, Commit(c) \/ CommitRaises(c) \/ Rollback(c) \/ RollbackRaises(c),
             UNCHANGED opening
      PROVE  LocalInv'
  <2>1. Becomes(c, "up", "none")
    BY <1>2, <1>7 DEF Commit, CommitRaises, Rollback, RollbackRaises
  <2> QED BY <1>2, <1>3, <1>7, <2>1
<1>8. ~ServerStops /\ \A t \in Thread : ~FindClosed(t)
  BY <1>2, ConnOfType DEF ServerStops, FindClosed
<1>9. CASE ServerStarts \/ PollBegin \/ DigestBegin
  BY <1>4, <1>9 DEF ServerStarts, PollBegin, DigestBegin
<1>10. CASE PollJob
  <2>1. ASSUME NEW r \in todo, PollWrite(r) PROVE LocalInv'
    BY <1>5, <2>1 DEF PollWrite
  <2>2. CASE PollCommit
    BY <1>7, <2>2 DEF PollCommit
  <2>3. CASE PollRaises
    BY <1>6, <1>7, <2>3 DEF PollRaises
  <2> QED BY <1>8, <1>9, <1>10, <2>1, <2>2, <2>3 DEF PollJob
<1>11. CASE DigestJob
  BY <1>5, <1>6, <1>8, <1>9, <1>11 DEF DigestJob, DigestRead, DigestRaises
<1>12. ASSUME NEW w \in Web, Handler(w) PROVE LocalInv'
  <2>1. CASE Request(w) \/ Respond(w)
    BY <1>4, <2>1 DEF Request, Respond
  <2>2. CASE Query(w) \/ QueryRaises(w)
    BY <1>5, <1>6, <2>2 DEF Query, QueryRaises
  <2>3. CASE RolledBack(w) \/ SecondError(w)
    <3>1. ConnOf(w) \in Conn
      BY ConnOfType
    <3> QED BY <1>7, <2>3, <3>1 DEF RolledBack, SecondError
  <2> QED BY <1>8, <1>12, <2>1, <2>2, <2>3 DEF Handler
<1>13. CASE UNCHANGED vars
  BY <1>4, <1>13 DEF vars
<1> QED BY <1>8, <1>9, <1>10, <1>11, <1>12, <1>13 DEF Next

\* Only PostgreSQL aborts transactions, and there the connection of the web server
\* changes in the steps of handlers only.
LEMMA WedgeStep == ValuesOK /\ LocalInv /\ NeverWedged /\ [Next]_vars => NeverWedged'
<1> SUFFICES ASSUME ValuesOK, LocalInv, NeverWedged, [Next]_vars, txn'["web"] = "aborted"
             PROVE  \E w \in Web : pc'[w] = "rollback"
  BY DEF NeverWedged
<1>0. dialect = "postgres" /\ \A w \in Web : ConnOf(w) = "web"
  <2>1. dialect' = "postgres"
    BY LocalStep, ConnFacts DEF LocalInv
  <2>2. UNCHANGED dialect
    BY DEF Next, vars, ServerStops, ServerStarts, PollJob, PollBegin, PollWrite, PollCommit,
       PollRaises, DigestJob, DigestBegin, DigestRead, DigestRaises, Handler, Request,
       FindClosed, Query, Respond, QueryRaises, RolledBack, SecondError
  <2> QED BY <2>1, <2>2, ConnFacts
<1> USE <1>0, ConnFacts DEF base, threads, history, NeverWedged
<1>1. CASE ServerStops \/ ServerStarts
  BY <1>1 DEF ServerStops, ServerStarts
<1>2. CASE PollJob \/ DigestJob
  <2>1. \A w \in Web : pc'[w] = pc[w]
    BY <1>2 DEF PollJob, PollBegin, FindClosed, PollWrite, PollCommit, PollRaises,
       DigestJob, DigestBegin, FindClosed, DigestRead, DigestRaises, ValuesOK
  <2>2. txn'["web"] = txn["web"]
    <3>1. \A c, l, x : c # "web" /\ Becomes(c, l, x) => txn'["web"] = txn["web"]
      BY DEF Becomes, ValuesOK
    <3>2. CASE PollBegin \/ DigestBegin \/ FindClosed("poll") \/ FindClosed("digest")
      BY <3>2 DEF PollBegin, DigestBegin, FindClosed
    <3>3. ASSUME NEW t \in {"poll", "digest"}, NEW rows, Execute(t, rows)
          PROVE  txn'["web"] = txn["web"]
      BY <3>1, <3>3 DEF Execute
    <3>4. ASSUME NEW t \in {"poll", "digest"}, ExecuteRaises(t) PROVE txn'["web"] = txn["web"]
      BY <3>1, <3>4 DEF ExecuteRaises
    <3>5. CASE Commit("jobs") \/ CommitRaises("jobs")
      BY <3>1, <3>5 DEF Commit, CommitRaises
    <3>6. \/ PollBegin \/ DigestBegin \/ FindClosed("poll") \/ FindClosed("digest")
          \/ \E t \in {"poll", "digest"} : ExecuteRaises(t) \/ \E rows : Execute(t, rows)
          \/ Commit("jobs") \/ CommitRaises("jobs")
      BY <1>2 DEF PollJob, PollWrite, PollCommit, PollRaises, DigestJob, DigestRead, DigestRaises
    <3> QED BY <3>2, <3>3, <3>4, <3>5, <3>6
  <2> QED BY <2>1, <2>2
<1>3. ASSUME NEW w \in Web, Handler(w) PROVE \E v \in Web : pc'[v] = "rollback"
  <2>1. CASE Request(w) \/ Respond(w)
    <3>1. /\ pc[w] # "rollback" /\ txn' = txn
          /\ \A t \in Thread \ {w} : pc'[t] = pc[t]
      BY <2>1 DEF Request, Respond, ValuesOK
    <3> QED BY <3>1
  <2>5. CASE FindClosed(w)
    BY <2>5 DEF FindClosed
  <2>2. CASE Query(w)
    <3>1. txn'["web"] = "open"
      BY <2>2 DEF Query, Execute, Becomes, ValuesOK
    <3> QED BY <3>1
  <2>3. CASE QueryRaises(w)
    <3>1. pc'[w] = "rollback"
      BY <2>3 DEF QueryRaises, ValuesOK
    <3> QED BY <3>1
  <2>4. CASE RolledBack(w) \/ SecondError(w)
    <3>1. txn'["web"] = "none"
      BY <2>4 DEF RolledBack, SecondError, Rollback, RollbackRaises, Becomes, ValuesOK
    <3> QED BY <3>1
  <2> QED BY <1>3, <2>1, <2>2, <2>3, <2>4, <2>5 DEF Handler
<1>4. CASE UNCHANGED vars
  BY <1>4 DEF vars
<1> QED BY <1>1, <1>2, <1>3, <1>4 DEF Next

\* A job whose call has raised leaves no rows in a closed connection.
LEMMA JobsRaise ==
    ASSUME ValuesOK, pending # {} => link["jobs"] # "closed",
           NEW t \in {"poll", "digest"}, ExecuteRaises(t)
    PROVE  pending' # {} => link'["jobs"] # "closed"
<1> USE ConnFacts DEF ValuesOK
<1>1. CASE UNCHANGED <<link, txn, pending>>
  BY <1>1
<1>2. CASE Becomes("jobs", "closed", "none") /\ Forget("jobs")
  BY <1>2 DEF Forget
<1>3. CASE Becomes("jobs", "up", "aborted") /\ Forget("jobs")
  BY <1>3 DEF Forget
<1> QED BY <1>1, <1>2, <1>3 DEF ExecuteRaises

LEMMA OpeningOfOther ==
    ASSUME NEW t, t # "poll",
           opening' = opening \/ opening' = opening \cup {t} \/ opening' = opening \ {t}
    PROVE  "poll" \in opening' => "poll" \in opening
OBVIOUS

\* A thread on the web server's own connection does not touch that of the jobs.
LEMMA Elsewhere ==
    ASSUME ValuesOK, NEW t, ConnOf(t) = "web",
           Execute(t, {}) \/ ExecuteRaises(t) \/ Rollback("web") \/ RollbackRaises("web")
    PROVE  link'["jobs"] = link["jobs"] /\ pending' = pending
<1>1. ASSUME NEW l, NEW x, Becomes("web", l, x), pending' = pending
      PROVE  link'["jobs"] = link["jobs"] /\ pending' = pending
  BY <1>1, ConnFacts DEF Becomes, ValuesOK
<1>2. Forget("web") => pending' = pending
  BY DEF Forget
<1>3. CASE Execute(t, {})
  <2>1. Becomes("web", "up", "open") /\ pending' = pending
    BY <1>3 DEF Execute, Kept
  <2> QED BY <1>1, <2>1
<1>4. CASE ExecuteRaises(t)
  BY <1>1, <1>2, <1>4 DEF ExecuteRaises
<1>5. CASE Rollback("web") \/ RollbackRaises("web")
  BY <1>1, <1>2, <1>5 DEF Rollback, RollbackRaises
<1> QED BY <1>3, <1>4, <1>5

\* Without a server no query costs anybody rows.
LEMMA Locally ==
    ASSUME ValuesOK, LocalInv, dialect # "postgres", NEW t \in Thread,
           Execute(t, {}) \/ ExecuteRaises(t)
    PROVE  pending' = pending
<1>1. opening = {} /\ link[ConnOf(t)] = "up" /\ txn[ConnOf(t)] # "aborted"
  BY ConnOfType DEF LocalInv
<1>2. CASE Execute(t, {})
  BY <1>1, <1>2 DEF Execute, Kept
<1>3. CASE ExecuteRaises(t)
  BY <1>1, <1>3 DEF ExecuteRaises, Fails
<1> QED BY <1>2, <1>3

\* A thread that takes rows away is one that may.
LEMMA OtherCalls ==
    ASSUME ValuesOK, LocalInv, LocalInv', UNCHANGED dialect,
           pending # {} => link["jobs"] # "closed",
           NEW t \in {"digest"} \cup Web, Spares(t),
           \/ Execute(t, {}) \/ ExecuteRaises(t)
           \/ t \in Web /\ (Rollback(ConnOf(t)) \/ RollbackRaises(ConnOf(t)))
    PROVE  /\ dropped' \cap MayDrop' # {} \/ (dropped' = dropped /\ pending \subseteq pending')
           /\ pending' # {} => link'["jobs"] # "closed"
<1> USE ConnFacts
<1>1. dialect \in {"sqlite", "postgres", "memory"}
  BY ConnectionsAssumption DEF ValuesOK
<1>2. CASE ConnOf(t) = "web"
  <2>1. link'["jobs"] = link["jobs"] /\ pending' = pending
    BY <1>2, Elsewhere
  <2> QED BY <2>1 DEF Spares
<1>3. CASE ConnOf(t) = "jobs"
  <2>1. t \in MayDrop' \/ pending' = pending
    BY <1>1, <1>3, Locally DEF MayDrop
  <2>2. dropped' \cap MayDrop' # {} \/ (dropped' = dropped /\ pending \subseteq pending')
    BY <2>1 DEF Spares
  <2>3. CASE dialect # "postgres"
    BY <2>2, <2>3 DEF LocalInv
  <2>4. CASE dialect = "postgres"
    <3>1. t = "digest"
      BY <1>3, <2>4
    <3>2. CASE Execute(t, {})
      BY <1>3, <2>2, <3>2 DEF Execute, Becomes, ValuesOK
    <3>3. CASE ExecuteRaises("digest")
      BY <2>2, <3>3, JobsRaise
    <3> QED BY <3>1, <3>2, <3>3
  <2> QED BY <2>3, <2>4
<1> QED BY <1>2, <1>3 DEF ConnOf

\* The poll job's transaction, as long as nobody has taken anything from it
LEMMA PollStep ==
    ASSUME ValuesOK, LocalInv, PollInv, CommitIsWhole, [Next]_vars
    PROVE  PollInv' /\ CommitIsWhole'
<1> DEFINE Whole == dropped \cap MayDrop = {}
<1>0. UNCHANGED dialect /\ MayDrop' = MayDrop
  <2>1. UNCHANGED dialect
    BY DEF Next, vars, ServerStops, ServerStarts, PollJob, PollBegin, PollWrite, PollCommit,
       PollRaises, DigestJob, DigestBegin, DigestRead, DigestRaises, Handler, Request,
       FindClosed, Query, Respond, QueryRaises, RolledBack, SecondError
  <2> QED BY <2>1 DEF MayDrop
<1>a. LocalInv'
  BY LocalStep
<1> USE <1>0, ConnFacts DEF base, threads, history, ValuesOK, PollInv, CommitIsWhole
<1>1. CASE ServerStops \/ ServerStarts
  <2>1. UNCHANGED <<pc, opening, todo, txn, pending, stored, written, committed, dropped>>
    <3>1. CASE ServerStops
      BY <3>1 DEF ServerStops
    <3>2. CASE ServerStarts
      BY <3>2 DEF ServerStarts
    <3> QED BY <1>1, <3>1, <3>2
  <2>2. link'["jobs"] = link["jobs"] \/ (link["jobs"] = "up" /\ link'["jobs"] = "dead")
    <3>1. CASE ServerStops
      BY <3>1 DEF ServerStops
    <3>2. CASE ServerStarts
      BY <3>2 DEF ServerStarts
    <3> QED BY <1>1, <3>1, <3>2
  <2> QED BY <2>1, <2>2
<1>2. CASE PollBegin
  BY <1>2 DEF PollBegin
<1>3. ASSUME NEW r \in todo, PollWrite(r) PROVE PollInv' /\ CommitIsWhole'
  <2>1. link'["jobs"] = "up" /\ opening' = opening \ {"poll"}
    BY <1>3 DEF PollWrite, Execute, Becomes
  <2>2. Whole => written \subseteq Kept("poll")
    BY <1>3 DEF PollWrite, Execute, Querying, Kept
  <2>3. Whole => written' \subseteq pending'
    BY <1>3, <2>2 DEF PollWrite, Execute
  <2>4. UNCHANGED <<pc, committed, dropped>> /\ pc["poll"] = "write"
    BY <1>3 DEF PollWrite, Execute, Querying
  <2> QED BY <2>1, <2>3, <2>4
<1>4. CASE PollCommit
  <2>1. /\ pc'["poll"] = "rest" /\ pc'["digest"] = pc["digest"]
        /\ UNCHANGED <<written, opening, dropped>>
    BY <1>4 DEF PollCommit
  <2>2. stored' = stored \cup pending /\ pending' = {}
    BY <1>4 DEF PollCommit, Commit, Forget
  <2>3. Whole => written \subseteq pending
    BY <1>4 DEF PollCommit
  <2>4. "poll" \notin opening
    BY <1>4 DEF PollCommit
  <2> QED BY <2>1, <2>2, <2>3, <2>4
<1>5. CASE PollRaises
  <2>1. /\ pc'["poll"] = "rest" /\ pc'["digest"] = pc["digest"]
        /\ UNCHANGED <<written, committed, dropped>>
    BY <1>5 DEF PollRaises
  <2>2. ~committed
    BY <1>5 DEF PollRaises
  <2>3. "poll" \notin opening' /\ (pending' # {} => link'["jobs"] # "closed")
    <3>1. CASE ExecuteRaises("poll")
      BY <3>1, JobsRaise DEF ExecuteRaises
    <3>2. CASE todo = {} /\ CommitRaises("jobs") /\ UNCHANGED opening
      <4>1. "poll" \notin opening' /\ pending' = {}
        BY <3>2 DEF CommitRaises, Forget
      <4> QED BY <4>1
    <3> QED BY <1>5, <3>1, <3>2 DEF PollRaises
  <2> QED BY <2>1, <2>2, <2>3
<1>6. CASE DigestJob
  <2>1. /\ pc'["poll"] = pc["poll"] /\ pc'["digest"] \in {"rest", "read"}
        /\ UNCHANGED <<stored, written, committed, todo>>
    BY <1>6 DEF DigestJob, DigestBegin, FindClosed, DigestRead, DigestRaises
  <2>2. "poll" \in opening' => "poll" \in opening
    <3>1. opening' = opening \/ opening' = opening \cup {"digest"} \/ opening' = opening \ {"digest"}
      BY <1>6 DEF DigestJob, DigestBegin, FindClosed, DigestRead, DigestRaises,
         Execute, ExecuteRaises
    <3> QED BY <3>1, OpeningOfOther
  <2>3. /\ dropped' \cap MayDrop' # {} \/ (dropped' = dropped /\ pending \subseteq pending')
        /\ pending' # {} => link'["jobs"] # "closed"
    <3>1. CASE DigestBegin \/ FindClosed("digest")
      BY <3>1 DEF DigestBegin, FindClosed
    <3>2. CASE DigestRead \/ DigestRaises
      <4>1. Spares("digest") /\ (Execute("digest", {}) \/ ExecuteRaises("digest"))
        BY <3>2 DEF DigestRead, DigestRaises
      <4> QED BY <1>a, <4>1, OtherCalls
    <3> QED BY <1>6, <3>1, <3>2 DEF DigestJob
  <2> QED BY <2>1, <2>2, <2>3
<1>7. ASSUME NEW w \in Web, Handler(w) PROVE PollInv' /\ CommitIsWhole'
  <2>1. pc'["poll"] = pc["poll"] /\ pc'["digest"] = pc["digest"]
    BY <1>7 DEF Handler, Request, FindClosed, Query, Respond, QueryRaises, RolledBack, SecondError
  <2>2. UNCHANGED <<stored, written, committed, todo>>
    BY <1>7 DEF Handler, Request, FindClosed, Query, Respond, QueryRaises, RolledBack, SecondError
  <2>3. "poll" \in opening' => "poll" \in opening
    <3>1. opening' = opening \/ opening' = opening \cup {w} \/ opening' = opening \ {w}
      BY <1>7 DEF Handler, Request, FindClosed, Query, Respond, QueryRaises, RolledBack,
         SecondError, Execute, ExecuteRaises
    <3> QED BY <3>1, OpeningOfOther
  <2>4. /\ dropped' \cap MayDrop' # {} \/ (dropped' = dropped /\ pending \subseteq pending')
        /\ pending' # {} => link'["jobs"] # "closed"
    <3>1. CASE Request(w) \/ Respond(w) \/ FindClosed(w)
      BY <3>1 DEF Request, Respond, FindClosed
    <3>2. CASE Query(w) \/ QueryRaises(w) \/ RolledBack(w) \/ SecondError(w)
      <4>1. /\ Spares(w)
            /\ \/ Execute(w, {}) \/ ExecuteRaises(w)
               \/ Rollback(ConnOf(w)) \/ RollbackRaises(ConnOf(w))
        BY <3>2 DEF Query, QueryRaises, RolledBack, SecondError
      <4> QED BY <1>a, <4>1, OtherCalls
    <3> QED BY <1>7, <3>1, <3>2 DEF Handler
  <2> QED BY <2>1, <2>2, <2>3, <2>4
<1>8. CASE UNCHANGED vars
  BY <1>8 DEF vars
<1>9. CASE FindClosed("poll")
  <2>1. pc["poll"] = "write" /\ link["jobs"] = "closed"
    BY <1>9 DEF FindClosed, Querying
  <2>2. Whole => written = {}
    BY <2>1
  <2>3. /\ opening' = opening \cup {"poll"} /\ todo # {}
        /\ UNCHANGED <<link, pending, stored, pc, todo, written, committed, dropped>>
    BY <1>9 DEF FindClosed, Querying
  <2> QED BY <2>1, <2>2, <2>3
<1> QED BY <1>1, <1>2, <1>3, <1>4, <1>5, <1>6, <1>7, <1>8, <1>9 DEF Next, PollJob

\* Two handlers never query at the same time.
THEOREM RequestsExclude == Spec => []OneRequestAtATime
<1>1. Init => LockInv
  BY ConnFacts DEF Init, LockInv
<1>2. LockInv => OneRequestAtATime
  BY DEF LockInv, OneRequestAtATime
<1>3. Spec => []ValuesOK
  BY ConnectionTypeCorrect, PTL DEF TypeOK
<1> QED BY <1>1, <1>2, <1>3, LockStep, PTL DEF Spec

\* An aborted transaction of the web server always has a handler on its way to
\* roll it back.
THEOREM WebIsNeverWedged == Spec => []NeverWedged
<1>1. Init => NeverWedged /\ LocalInv
  BY ConnFacts DEF Init, NeverWedged, LocalInv
<1>2. Spec => []ValuesOK
  BY ConnectionTypeCorrect, PTL DEF TypeOK
<1> QED BY <1>1, <1>2, LocalStep, WedgeStep, PTL DEF Spec

\* A commit that returns to the poll job has stored every row of its transaction,
\* unless the digest job (PostgreSQL) or a request handler (memory mode) has taken
\* some away.
THEOREM CommitsAreWhole == Spec => []CommitIsWhole
<1>1. Init => LocalInv /\ PollInv /\ CommitIsWhole
  BY ConnFacts DEF Init, LocalInv, PollInv, CommitIsWhole
<1>2. ValuesOK /\ LocalInv /\ PollInv /\ CommitIsWhole /\ [Next]_vars => PollInv' /\ CommitIsWhole'
  BY PollStep
<1>3. Spec => []ValuesOK
  BY ConnectionTypeCorrect, PTL DEF TypeOK
<1> QED BY <1>1, <1>2, <1>3, LocalStep, PTL DEF Spec

\* In particular nothing that happens can cost a poll rows on SQLite.
THEOREM NothingDroppedOnSqlite ==
    ASSUME Dialects = {"sqlite"} PROVE Spec => []NeverDropped
<1>1. ValuesOK /\ CommitIsWhole => NeverDropped
  BY DEF ValuesOK, CommitIsWhole, MayDrop, NeverDropped
<1>2. Spec => []ValuesOK
  BY ConnectionTypeCorrect, PTL DEF TypeOK
<1> QED BY <1>1, <1>2, CommitsAreWhole, PTL
=============================================================================
