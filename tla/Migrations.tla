------------------------------ MODULE Migrations ------------------------------
(***************************************************************************)
(* migrate() of database.py, run by several processes on one database.     *)
(*                                                                         *)
(* A migration is a file of statements, <<version, position>>.  On         *)
(* PostgreSQL its statements and the INSERT of its version are one         *)
(* transaction, and each ALTER TABLE keeps its table from everybody else   *)
(* until that transaction ends.  On SQLite the driver commits each         *)
(* statement by itself.  The creation of schema_migrations is left out: it *)
(* is repeatable.  Other sessions of the server appear by the tables they  *)
(* have a lock on; what they are is in Rollout.                            *)
(***************************************************************************)
EXTENDS Integers

CONSTANTS
    Pod,         \* the processes that migrate
    Session,     \* the other sessions of the server
    Table,       \* the tables that migrations alter
    Last,        \* the last version
    Size,        \* [Version -> number of statements in its file]
    Retype,      \* the ALTER COLUMN statements
    TableOf,     \* [Statement -> the table it alters, or None]
    Dialects,    \* those to be looked at
    None

Version == 1..Last
Statement == UNION {{v} \X (1..Size[v]) : v \in Version}

ASSUME MigrationsAssumption ==
    /\ Last \in Nat
    /\ Size \in [Version -> Nat \ {0}]
    /\ Retype \subseteq Statement
    /\ TableOf \in [Statement -> Table \cup {None}] /\ None \notin Table
    /\ Dialects \subseteq {"sqlite", "postgres"}

VARIABLES
    dialect,     \* "sqlite" | "postgres"
    \* the database
    schema,      \* statements in effect
    recorded,    \* versions in schema_migrations
    \* the processes
    pc,          \* [Pod -> "down" | "read" | "migrate" | "wait" | "migrated"]
    applied,     \* [Pod -> versions it passes over]
    idx,         \* [Pod -> position of its next statement]
    pend,        \* [Pod -> statements in its open transaction]
    altered,     \* [Pod -> tables its open transaction has altered]
    \* the other sessions
    locks,       \* [Session -> tables its open transaction has read or written]
    want         \* [Session -> the table it waits for, or None]

db       == <<schema, recorded>>
mine     == <<pc, applied, idx, pend, altered>>
sessions == <<locks, want>>
migrationVars == <<dialect, db, mine, sessions>>
-----------------------------------------------------------------------------
\* Mutant: ALTER COLUMN is skipped on PostgreSQL too
Skipped_Everywhere(s) == s \in Retype
\* "ALTER COLUMN" statements are not executed on SQLite
Skipped(s) == dialect = "sqlite" /\ s \in Retype

Effects(v) == {s \in {v} \X (1..Size[v]) : ~Skipped(s)}

\* Mutant: the files are not sorted by their number
Current_Unsorted(p) == CHOOSE v \in Version \ applied[p] :
                          \A w \in Version \ applied[p] : w <= v
\* The next file of the loop, in the order of their numbers
Current(p) == CHOOSE v \in Version \ applied[p] :
                  \A w \in Version \ applied[p] : v <= w

Stmt(p) == <<Current(p), idx[p]>>

Migrating(p) == pc[p] \in {"migrate", "wait"} /\ Version \ applied[p] # {}
Executing(p) == Migrating(p) /\ idx[p] <= Size[Current(p)]

\* PostgreSQL holds a statement up while another transaction has done the same
\* and not ended, or has a lock on the table to be altered.
Blocked(p) ==
    \/ \E q \in Pod \ {p} : Stmt(p) \in pend[q] \/ TableOf[Stmt(p)] \in altered[q]
    \/ \E s \in Session : TableOf[Stmt(p)] \in locks[s]

\* A session gets the lock it asks for when it has one already, or when nobody
\* has altered the table or waits to alter it.
Free(s, t) ==
    \/ t \in locks[s]
    \/ \A p \in Pod : t \notin altered[p] /\ (pc[p] = "wait" => t # TableOf[Stmt(p)])
-----------------------------------------------------------------------------
Start(p) ==
    /\ pc[p] = "down"
    /\ dialect = "sqlite" => \A q \in Pod : pc[q] = "down"
    /\ pc' = [pc EXCEPT ![p] = "read"]
    /\ UNCHANGED <<dialect, db, applied, idx, pend, altered, sessions>>

\* SELECT version FROM schema_migrations, once, before the loop
ReadApplied(p) ==
    /\ pc[p] = "read"
    /\ pc' = [pc EXCEPT ![p] = "migrate"]
    /\ applied' = [applied EXCEPT ![p] = recorded]
    /\ idx' = [idx EXCEPT ![p] = 1]
    /\ UNCHANGED <<dialect, db, pend, altered, sessions>>

Skip(p) ==
    /\ Executing(p) /\ Skipped(Stmt(p))
    /\ idx' = [idx EXCEPT ![p] = @ + 1]
    /\ UNCHANGED <<dialect, db, pc, applied, pend, altered, sessions>>

\* conn.execute(stmt) returns.
Execute(p) ==
    /\ Executing(p) /\ ~Skipped(Stmt(p)) /\ ~Blocked(p)
    /\ Stmt(p) \in schema => Stmt(p) \in Retype
    /\ pc' = [pc EXCEPT ![p] = "migrate"]
    /\ idx' = [idx EXCEPT ![p] = @ + 1]
    /\ IF dialect = "sqlite"
       THEN schema' = schema \cup {Stmt(p)} /\ UNCHANGED <<pend, altered>>
       ELSE /\ pend' = [pend EXCEPT ![p] = @ \cup {Stmt(p)}]
            /\ altered' = [altered EXCEPT ![p] = @ \cup ({TableOf[Stmt(p)]} \ {None})]
            /\ UNCHANGED schema
    /\ UNCHANGED <<dialect, recorded, applied, sessions>>

\* It has to wait: the request stands in the queue of the table.
Wait(p) ==
    /\ pc[p] = "migrate" /\ Executing(p) /\ ~Skipped(Stmt(p)) /\ Blocked(p)
    /\ pc' = [pc EXCEPT ![p] = "wait"]
    /\ UNCHANGED <<dialect, db, applied, idx, pend, altered, sessions>>

\* Mutant: the version is recorded with the last statement still to come
Record_Early(p) ==
    /\ Migrating(p) /\ idx[p] >= Size[Current(p)]
    /\ Current(p) \notin recorded
    /\ schema' = schema \cup pend[p]
    /\ recorded' = recorded \cup {Current(p)}
    /\ applied' = [applied EXCEPT ![p] = @ \cup {Current(p)}]
    /\ idx' = [idx EXCEPT ![p] = 1]
    /\ pend' = [pend EXCEPT ![p] = {}] /\ altered' = [altered EXCEPT ![p] = {}]
    /\ UNCHANGED <<dialect, pc, sessions>>
\* INSERT INTO schema_migrations, commit()
Record(p) ==
    /\ Migrating(p) /\ idx[p] > Size[Current(p)]
    /\ Current(p) \notin recorded
    /\ schema' = schema \cup pend[p]
    /\ recorded' = recorded \cup {Current(p)}
    /\ applied' = [applied EXCEPT ![p] = @ \cup {Current(p)}]
    /\ idx' = [idx EXCEPT ![p] = 1]
    /\ pend' = [pend EXCEPT ![p] = {}] /\ altered' = [altered EXCEPT ![p] = {}]
    /\ UNCHANGED <<dialect, pc, sessions>>

Finish(p) ==
    /\ pc[p] = "migrate" /\ Version \subseteq applied[p]
    /\ pc' = [pc EXCEPT ![p] = "migrated"]
    /\ UNCHANGED <<dialect, db, applied, idx, pend, altered, sessions>>

\* The process ends; the server rolls its transaction back.
Die(p) ==
    /\ pc' = [pc EXCEPT ![p] = "down"]
    /\ applied' = [applied EXCEPT ![p] = {}]
    /\ idx' = [idx EXCEPT ![p] = 1]
    /\ pend' = [pend EXCEPT ![p] = {}] /\ altered' = [altered EXCEPT ![p] = {}]
    /\ UNCHANGED <<dialect, db, sessions>>

\* "already exists", "duplicate column name", a duplicate version: migrate()
\* raises, and nothing catches it.
Raises(p) ==
    /\ \/ Executing(p) /\ ~Blocked(p) /\ ~Skipped(Stmt(p)) /\ Stmt(p) \in schema \ Retype
       \/ Migrating(p) /\ idx[p] > Size[Current(p)] /\ Current(p) \in recorded
    /\ Die(p)

\* The server finds that p and a session wait for one another, and fails p.
Victim(p) ==
    /\ pc[p] = "wait"
    /\ \E s \in Session : TableOf[Stmt(p)] \in locks[s] /\ want[s] \in altered[p]
    /\ Die(p)

Kill(p) == pc[p] # "down" /\ Die(p)

Migrate(p) ==
    ReadApplied(p) \/ Skip(p) \/ Execute(p) \/ Wait(p) \/ Record(p) \/ Finish(p) \/ Raises(p)

\* Whatever the other sessions do, they get no table that a pod has altered.
OtherSessions ==
    /\ locks' \in [Session -> SUBSET Table] /\ want' \in [Session -> Table \cup {None}]
    /\ \A s \in Session : \A t \in locks'[s] \ locks[s] : Free(s, t)
    /\ UNCHANGED <<dialect, db, mine>>

\* A database at any version: an empty one, or one an earlier release has left
MigrationsInit ==
    /\ dialect \in Dialects
    /\ \E k \in Version \cup {0} :
          /\ recorded = 1..k
          /\ schema = UNION {Effects(v) : v \in 1..k}
    /\ pc = [p \in Pod |-> "down"]
    /\ applied = [p \in Pod |-> {}] /\ idx = [p \in Pod |-> 1]
    /\ pend = [p \in Pod |-> {}] /\ altered = [p \in Pod |-> {}]
    /\ locks = [s \in Session |-> {}] /\ want = [s \in Session |-> None]

MigrationsNext ==
    \/ \E p \in Pod : Start(p) \/ Migrate(p) \/ Victim(p) \/ Kill(p)
    \/ OtherSessions

MigrationsSpec == MigrationsInit /\ [][MigrationsNext]_migrationVars
-----------------------------------------------------------------------------
(* Properties *)

\* Every variable has its type.
MigrationsTypeOK ==
    /\ dialect \in Dialects
    /\ schema \subseteq Statement /\ recorded \subseteq Version
    /\ pc \in [Pod -> {"down", "read", "migrate", "wait", "migrated"}]
    /\ applied \in [Pod -> SUBSET Version]
    /\ idx \in [Pod -> Nat \ {0}]
    /\ pend \in [Pod -> SUBSET Statement]
    /\ altered \in [Pod -> SUBSET Table]
    /\ locks \in [Session -> SUBSET Table]
    /\ want \in [Session -> Table \cup {None}]

\* A version on record is in effect, whole: the next start, which passes it over,
\* misses nothing, however many processes migrate and wherever they are killed.
RecordedIsWhole == \A v \in recorded : Effects(v) \subseteq schema

\* On PostgreSQL a migration is applied whole or not at all, and after all the
\* earlier ones, even by two processes that both found it missing.
S == INSTANCE Schema WITH
        Parts  <- [v \in Version |-> {v} \X (1..Size[v])],
        schema <- IF dialect = "postgres" THEN schema ELSE {}

SchemaSpec == S!Spec
-----------------------------------------------------------------------------
(* The inductive invariant behind them *)

\* Versions are recorded in their order, and a process passes over a part of them.
InOrder ==
    \E k \in 0..Last :
        /\ recorded = 1..k
        /\ \A p \in Pod : \E j \in 0..k : applied[p] = 1..j

\* An open transaction holds statements of the file its process is at.
PendInv ==
    \A p \in Pod : \A s \in pend[p] :
        dialect = "postgres" /\ Migrating(p) /\ s[1] = Current(p)

\* What a process has passed of its file is in effect or in its transaction.
DoneInv ==
    \A p \in Pod : Migrating(p) =>
        \A s \in Effects(Current(p)) : s[2] < idx[p] => s \in schema \cup pend[p]

\* PostgreSQL has nothing in effect of a version that is not on record.
NothingTorn == dialect = "postgres" => \A s \in schema : s[1] \in recorded

IInv ==
    /\ MigrationsTypeOK
    /\ InOrder /\ PendInv /\ DoneInv
    /\ RecordedIsWhole /\ NothingTorn
===============================================================================
