----------------------------- MODULE Connections -----------------------------
(***************************************************************************)
(* The database connections of the process and the threads that use them:  *)
(* the poll job, the digest job and the request handlers of the web        *)
(* server, over the adapter of database.py.                                *)
(*                                                                         *)
(* A connection has a link to the server and a transaction.  The link is   *)
(* "dead" once the server has dropped the socket, and "closed" once a call *)
(* has found that out.  The transaction is "aborted" after a failed        *)
(* statement on PostgreSQL; SQLite undoes the statement alone.  A call on  *)
(* the driver is one step, because the drivers serialise the calls of      *)
(* several threads on one connection; _live() is not such a call, and a    *)
(* thread that has found the connection closed may find it open again by   *)
(* the time it has opened its own.                                         *)
(*                                                                         *)
(* The dialects are those of database.py, "sqlite" and "postgres", and     *)
(* "memory", the in-memory SQLite in which the web server has no connection *)
(* of its own.                                                             *)
(***************************************************************************)
EXTENDS Integers, FiniteSets

CONSTANTS
    Web,         \* request handler threads
    Digest,      \* the digest job runs too
    Row,         \* what the poll job writes in one transaction
    Reads,       \* queries of one request or digest
    Dialects,    \* those to be looked at
    Faults,      \* the kinds of fault this instance may suffer
    MaxFaults,   \* how many of them
    None

ASSUME ConnectionsAssumption ==
    /\ Digest \in BOOLEAN
    /\ Reads \in Nat \ {0}
    /\ Dialects \subseteq {"sqlite", "postgres", "memory"}
    /\ Faults \subseteq {"socket", "statement"}
    /\ MaxFaults \in Nat
    /\ None \notin Web /\ Web \cap {"poll", "digest"} = {}

Conn == {"jobs", "web"}
Thread == {"poll", "digest"} \cup Web

VARIABLES
    dialect,     \* "sqlite" | "postgres" | "memory"
    server,      \* "up" | "down"
    link,        \* [Conn -> "up" | "dead" | "closed"]
    txn,         \* [Conn -> "none" | "open" | "aborted"]
    pending,     \* rows of the current poll in the open transaction of "jobs"
    stored,      \* rows of the current poll that are durable
    pc,          \* [Thread -> what the thread does next]
    left,        \* [Thread -> queries it still has to make]
    opening,     \* threads that have found their connection closed
    todo,        \* rows the poll job has still to write
    lock,        \* the thread that holds db_lock, or None
    answer,      \* [Web -> its last response]
    \* history variables, read by no guard
    written,     \* rows whose execute() returned in the current poll
    committed,   \* the current poll's commit() has returned
    dropped,     \* other threads that have thrown away rows of the current poll
    faults       \* faults so far

base    == <<server, link, txn, pending, stored>>
threads == <<pc, left, opening, todo, lock, answer>>
history == <<written, committed, dropped, faults>>
vars    == <<dialect, base, threads, history>>
-----------------------------------------------------------------------------
Fault(kind) == kind \in Faults /\ faults < MaxFaults /\ faults' = faults + 1

\* Mutant: the web server uses the poller's connection in every mode
ConnOf_Shared(t) == "jobs"
\* The jobs share the connection of main().  The web server has its own, except
\* with an in-memory database, which a second connection would not reach.
ConnOf(t) == IF t \in Web /\ dialect # "memory" THEN "web" ELSE "jobs"

\* The raw connection becomes [link |-> l, txn |-> x]; rows in a transaction that
\* is over are gone.
Becomes(c, l, x) ==
    /\ link' = [link EXCEPT ![c] = l]
    /\ txn'  = [txn EXCEPT ![c] = x]

Forget(c) == pending' = IF c = "jobs" THEN {} ELSE pending

\* Whether a call of t, a thread other than the poll job, costs the poll its rows
Spares(t) == dropped' = IF pending \subseteq pending' THEN dropped ELSE dropped \cup {t}

\* A query is next.
Querying(t) ==
    \/ t = "poll" /\ pc[t] = "write" /\ todo # {}
    \/ t = "digest" /\ pc[t] = "read" /\ left[t] > 0
    \/ t \in Web /\ pc[t] = "query" /\ left[t] > 0

\* _live() finds the connection closed and sets out to open another.
FindClosed(t) ==
    /\ Querying(t) /\ link[ConnOf(t)] = "closed" /\ t \notin opening
    /\ opening' = opening \cup {t}
    /\ UNCHANGED <<dialect, base, pc, left, todo, lock, answer, history>>

\* _live() has a connection to offer: the one it has found up, or its new one.
Live(t) == IF t \in opening THEN server = "up" ELSE link[ConnOf(t)] = "up"

\* The rows that the connection of t still has when _live() returns: a new one
\* takes the place of whatever is there.
Kept(t) == IF t \in opening /\ ConnOf(t) = "jobs" THEN {} ELSE pending

Fails(t) == t \notin opening /\ txn[ConnOf(t)] = "aborted"

\* execute() returns.
Execute(t, rows) ==
    /\ Querying(t) /\ Live(t) /\ ~Fails(t)
    /\ Becomes(ConnOf(t), "up", "open")
    /\ pending' = Kept(t) \cup rows
    /\ opening' = opening \ {t}
    /\ UNCHANGED faults

\* Mutant: a closed connection may be used as it is
ExecuteRaises_NoReopen(t) ==
    /\ Querying(t) /\ t \notin opening
    /\ \/ /\ link[ConnOf(t)] = "closed"
          /\ UNCHANGED <<link, txn, pending>>
       \/ /\ link[ConnOf(t)] = "dead"
          /\ Becomes(ConnOf(t), "closed", "none") /\ Forget(ConnOf(t))
    /\ UNCHANGED <<opening, faults>>
\* execute() raises: the server refuses a new connection, the socket turns out
\* to be dead, the transaction is aborted, or the statement fails.
ExecuteRaises(t) ==
    /\ Querying(t)
    /\ opening' = opening \ {t}
    /\ \/ /\ t \in opening /\ server = "down"
          /\ UNCHANGED <<link, txn, pending, faults>>
       \/ /\ t \notin opening /\ link[ConnOf(t)] = "dead"
          /\ Becomes(ConnOf(t), "closed", "none") /\ Forget(ConnOf(t))
          /\ UNCHANGED faults
       \/ /\ Live(t) /\ Fails(t)
          /\ UNCHANGED <<link, txn, pending, faults>>
       \/ /\ Live(t) /\ ~Fails(t)
          /\ Fault("statement")
          /\ IF dialect = "postgres"
             THEN Becomes(ConnOf(t), "up", "aborted") /\ Forget(ConnOf(t))
             ELSE UNCHANGED <<link, txn, pending>>

\* commit() returns.  PostgreSQL answers the COMMIT of an aborted transaction
\* with a rollback, which psycopg2 does not report.
Commit(c) ==
    /\ link[c] = "up"
    /\ stored' = IF c = "jobs" THEN stored \cup pending ELSE stored
    /\ Becomes(c, "up", "none") /\ Forget(c)

\* commit() raises: it has found the socket dead, or the connection closed.
CommitRaises(c) ==
    /\ link[c] # "up"
    /\ Becomes(c, "closed", "none") /\ Forget(c)
    /\ UNCHANGED stored

\* rollback() returns; it does nothing to a closed connection.
Rollback(c) ==
    /\ link[c] # "dead"
    /\ Becomes(c, link[c], "none") /\ Forget(c)

RollbackRaises(c) ==
    /\ link[c] = "dead"
    /\ Becomes(c, "closed", "none") /\ Forget(c)
-----------------------------------------------------------------------------
(* The server restarts, or fails over: every socket is lost. *)

ServerStops ==
    /\ dialect = "postgres" /\ server = "up"
    /\ Fault("socket")
    /\ server' = "down"
    /\ link' = [c \in Conn |-> IF link[c] = "up" THEN "dead" ELSE link[c]]
    /\ UNCHANGED <<dialect, txn, pending, stored, threads, written, committed, dropped>>

ServerStarts ==
    /\ server = "down"
    /\ server' = "up"
    /\ UNCHANGED <<dialect, link, txn, pending, stored, threads, history>>
-----------------------------------------------------------------------------
(* The poll job: a transaction of several rows, such as poll_storage's.  What
   an earlier poll has left in the connection is not tracked. *)

PollBegin ==
    /\ pc["poll"] = "rest"
    /\ pc' = [pc EXCEPT !["poll"] = "write"]
    /\ todo' = Row
    /\ pending' = {} /\ stored' = {}
    /\ written' = {} /\ committed' = FALSE /\ dropped' = {}
    /\ UNCHANGED <<dialect, server, link, txn, left, opening, lock, answer, faults>>

PollWrite(r) ==
    /\ r \in todo
    /\ Execute("poll", {r})
    /\ written' = written \cup {r}
    /\ todo' = todo \ {r}
    /\ UNCHANGED <<dialect, server, stored, pc, left, lock, answer, committed, dropped>>

PollCommit ==
    /\ pc["poll"] = "write" /\ todo = {}
    /\ Commit(ConnOf("poll"))
    /\ committed' = TRUE
    /\ pc' = [pc EXCEPT !["poll"] = "rest"]
    /\ UNCHANGED <<dialect, server, left, opening, todo, lock, answer, written, dropped, faults>>

\* The scheduler logs the exception; nobody rolls back.
PollRaises ==
    /\ pc["poll"] = "write"
    /\ \/ ExecuteRaises("poll") /\ UNCHANGED stored
       \/ todo = {} /\ CommitRaises(ConnOf("poll")) /\ UNCHANGED <<opening, faults>>
    /\ pc' = [pc EXCEPT !["poll"] = "rest"]
    /\ todo' = {}
    /\ UNCHANGED <<dialect, server, left, lock, answer, written, committed, dropped>>
-----------------------------------------------------------------------------
(* The digest job: queries on the same connection, without a commit *)

DigestBegin ==
    /\ Digest /\ pc["digest"] = "rest"
    /\ pc' = [pc EXCEPT !["digest"] = "read"]
    /\ left' = [left EXCEPT !["digest"] = Reads]
    /\ UNCHANGED <<dialect, base, opening, todo, lock, answer, history>>

DigestRead ==
    /\ Execute("digest", {})
    /\ Spares("digest")
    /\ left' = [left EXCEPT !["digest"] = @ - 1]
    /\ pc' = [pc EXCEPT !["digest"] = IF left["digest"] = 1 THEN "rest" ELSE "read"]
    /\ UNCHANGED <<dialect, server, stored, todo, lock, answer, written, committed>>

DigestRaises ==
    /\ ExecuteRaises("digest")
    /\ Spares("digest")
    /\ left' = [left EXCEPT !["digest"] = 0]
    /\ pc' = [pc EXCEPT !["digest"] = "rest"]
    /\ UNCHANGED <<dialect, server, stored, todo, lock, answer, written, committed>>
-----------------------------------------------------------------------------
(* _dispatch, for a path that queries the database *)

\* with lock:
Request(w) ==
    /\ pc[w] = "rest" /\ lock = None
    /\ lock' = w
    /\ pc' = [pc EXCEPT ![w] = "query"]
    /\ left' = [left EXCEPT ![w] = Reads]
    /\ answer' = [answer EXCEPT ![w] = "waiting"]
    /\ UNCHANGED <<dialect, base, opening, todo, history>>

\* Mutant: a query too many
Query_OneMore(w) ==
    /\ pc[w] = "query" /\ link["web"] = "up"
    /\ UNCHANGED <<link, txn, pending, opening, faults>>
    /\ left' = [left EXCEPT ![w] = @ - 1]
    /\ UNCHANGED <<dialect, server, stored, pc, todo, lock, answer, written, committed, dropped>>
Query(w) ==
    /\ Execute(w, {}) /\ Spares(w)
    /\ left' = [left EXCEPT ![w] = @ - 1]
    /\ UNCHANGED <<dialect, server, stored, pc, todo, lock, answer, written, committed>>

Respond(w) ==
    /\ pc[w] = "query" /\ left[w] = 0
    /\ lock' = None
    /\ pc' = [pc EXCEPT ![w] = "rest"]
    /\ answer' = [answer EXCEPT ![w] = "ok"]
    /\ UNCHANGED <<dialect, base, left, opening, todo, history>>

\* Mutant: the error response is sent without a rollback
QueryRaises_NoRollback(w) ==
    /\ ExecuteRaises(w) /\ Spares(w)
    /\ lock' = None
    /\ left' = [left EXCEPT ![w] = 0]
    /\ pc' = [pc EXCEPT ![w] = "rest"]
    /\ answer' = [answer EXCEPT ![w] = "error"]
    /\ UNCHANGED <<dialect, server, stored, todo, written, committed>>
\* The exception leaves the with block before it is handled.
QueryRaises(w) ==
    /\ ExecuteRaises(w) /\ Spares(w)
    /\ lock' = None
    /\ left' = [left EXCEPT ![w] = 0]
    /\ pc' = [pc EXCEPT ![w] = "rollback"]
    /\ UNCHANGED <<dialect, server, stored, todo, answer, written, committed>>

\* conn.rollback(), then 503 or 500
RolledBack(w) ==
    /\ pc[w] = "rollback"
    /\ Rollback(ConnOf(w)) /\ Spares(w)
    /\ pc' = [pc EXCEPT ![w] = "rest"]
    /\ answer' = [answer EXCEPT ![w] = "error"]
    /\ UNCHANGED <<dialect, server, stored, left, opening, todo, lock, written, committed, faults>>

\* The second exception leaves _dispatch, and the handler thread, unanswered.
SecondError(w) ==
    /\ pc[w] = "rollback"
    /\ RollbackRaises(ConnOf(w)) /\ Spares(w)
    /\ pc' = [pc EXCEPT ![w] = "rest"]
    /\ answer' = [answer EXCEPT ![w] = "broken off"]
    /\ UNCHANGED <<dialect, server, stored, left, opening, todo, lock, written, committed, faults>>
-----------------------------------------------------------------------------
Init ==
    /\ dialect \in Dialects
    /\ server = "up"
    /\ link = [c \in Conn |-> "up"] /\ txn = [c \in Conn |-> "none"]
    /\ pending = {} /\ stored = {}
    /\ pc = [t \in Thread |-> "rest"] /\ left = [t \in Thread |-> 0]
    /\ opening = {}
    /\ todo = {} /\ lock = None
    /\ answer = [w \in Web |-> "none"]
    /\ written = {} /\ committed = FALSE /\ dropped = {} /\ faults = 0

PollJob   == PollBegin \/ FindClosed("poll") \/ (\E r \in todo : PollWrite(r)) \/ PollCommit \/ PollRaises
DigestJob == DigestBegin \/ FindClosed("digest") \/ DigestRead \/ DigestRaises
Handler(w) ==
    \/ Request(w) \/ FindClosed(w) \/ Query(w) \/ Respond(w)
    \/ QueryRaises(w) \/ RolledBack(w) \/ SecondError(w)

Next ==
    \/ ServerStops \/ ServerStarts
    \/ PollJob \/ DigestJob
    \/ \E w \in Web : Handler(w)

\* The server comes back, the scheduler keeps starting the jobs, requests keep
\* coming (/readyz, which queries, is probed), and no thread stops in the middle of one.
Fairness ==
    /\ WF_vars(ServerStarts)
    /\ WF_vars(PollJob)
    /\ WF_vars(DigestJob)
    /\ \A w \in Web : WF_vars(Handler(w))

Spec == Init /\ [][Next]_vars /\ Fairness
-----------------------------------------------------------------------------
(* Properties *)

FlagsOK == committed \in BOOLEAN

ValuesOK ==
    /\ dialect \in Dialects
    /\ server \in {"up", "down"}
    /\ link \in [Conn -> {"up", "dead", "closed"}]
    /\ txn \in [Conn -> {"none", "open", "aborted"}]
    /\ pending \subseteq Row /\ stored \subseteq Row /\ todo \subseteq Row
    /\ pc \in [Thread -> {"rest", "write", "read", "query", "rollback"}]
    /\ left \in [Thread -> 0..Reads]
    /\ opening \subseteq Thread
    /\ lock \in Web \cup {None}
    /\ answer \in [Web -> {"none", "waiting", "ok", "error", "broken off"}]
    /\ written \subseteq Row
    /\ dropped \subseteq Thread
    /\ faults \in 0..MaxFaults

\* Every variable has its type.
TypeOK == FlagsOK /\ ValuesOK

\* The threads that can take rows of the poll job away.  On PostgreSQL a failed
\* call of the digest job ends the transaction that the two share; in memory mode
\* a request handler that rolls back does; on SQLite nobody can.
MayDrop == CASE dialect = "postgres" -> {"digest"}
             [] dialect = "memory"   -> Web
             [] dialect = "sqlite"   -> {}

\* When commit() returns to the poll job, every row it has written since the
\* beginning of its transaction is stored, whatever the server and the other
\* threads do in between and however many of them reconnect, unless one of those
\* that can has taken rows away (see NeverDropped for what that costs).
CommitIsWhole == committed => written \subseteq stored \/ dropped \cap MayDrop # {}

\* database.py: "an open transaction is never dropped silently".  A commit() that
\* returns has stored all that was written.
NeverDropped == committed => written \subseteq stored

\* The queries of two requests are never mixed on the one connection they share.
OneRequestAtATime ==
    \A v, w \in Web : pc[v] = "query" /\ pc[w] = "query" => v = w

\* One failed query never wedges the web server: whenever its connection is in an
\* aborted transaction, the handler that will roll it back is on its way.
NeverWedged ==
    txn["web"] = "aborted" => \E w \in Web : pc[w] = "rollback"

\* The web server keeps answering from the database: failed statements and server
\* restarts are survived without a restart of the process.
WebRecovers == []<>(\E w \in Web : answer[w] = "ok")

\* database.py: the adapter exists because "every later call raised InterfaceError
\* ... so polling stopped".  A poll never fails for ever now, however sockets die.
PollingRecovers == []<>committed

\* The only thing that can end polling is a transaction left aborted: sockets may
\* die and reconnections be refused at any point of any thread's work.
OnlyAbortsEndPolling == PollingRecovers \/ <>[](txn["jobs"] = "aborted")

\* web.py: "the web server's connection is single-threaded".  No handler rolls
\* back while another one, holding the lock, is between two of its queries.
SingleThreaded ==
    \A v, w \in Web : pc[v] = "query" => pc[w] # "rollback"

\* database.py: "raising here would turn every error handler into a second
\* error".  Every request whose query fails gets its error response.
NoSecondError == \A w \in Web : answer[w] # "broken off"
-----------------------------------------------------------------------------
(* The inductive invariant behind the safety properties *)

LockInv == \A w \in Web : pc[w] = "query" => lock = w

\* A file, or the memory of the process, loses no connection and aborts no
\* transaction.
LocalInv ==
    dialect # "postgres" =>
        /\ \A c \in Conn : link[c] = "up" /\ txn[c] # "aborted"
        /\ opening = {}

\* As long as the poll can still commit and nobody has taken rows away, the
\* transaction that holds its first row holds them all.
PollInv ==
    /\ pc["poll"] \in {"rest", "write"}
    /\ pc["digest"] \in {"rest", "read"}
    /\ pc["poll"] = "write" => ~committed
    /\ dropped \cap MayDrop = {} /\ pc["poll"] = "write" => written \subseteq pending
    /\ "poll" \in opening =>
          pc["poll"] = "write" /\ todo # {} /\ (dropped \cap MayDrop = {} => written = {})
    /\ pending # {} => link["jobs"] # "closed"

IInv ==
    /\ TypeOK
    /\ LockInv /\ LocalInv /\ PollInv
    /\ NeverWedged
    /\ CommitIsWhole
=============================================================================
