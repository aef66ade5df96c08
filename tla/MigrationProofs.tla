--------------------------- MODULE MigrationProofs ---------------------------
(***************************************************************************)
(* Proofs about Migrations, for any migrations, processes and sessions, on *)
(* both dialects, and about Rollout, which implements Migrations.          *)
(***************************************************************************)
EXTENDS Rollout, TLAPS

-----------------------------------------------------------------------------
(* The statements of the files *)

LEMMA SizeType == ASSUME NEW v \in Version PROVE Size[v] \in Nat \ {0}
BY MigrationsAssumption DEF Version

LEMMA StatementFacts ==
    /\ \A s \in Statement : s[1] \in Version /\ s[2] \in 1..Size[s[1]] /\ s = <<s[1], s[2]>>
    /\ \A v \in Version : \A i \in 1..Size[v] : <<v, i>> \in Statement
BY DEF Statement

LEMMA EffectsType ==
    ASSUME NEW v \in Version
    PROVE  /\ Effects(v) \subseteq Statement
           /\ \A s \in Effects(v) : s[1] = v /\ s[2] \in 1..Size[v] /\ s = <<v, s[2]>>
           /\ dialect = "postgres" => Effects(v) = {v} \X (1..Size[v])
BY DEF Effects, Statement, Skipped

\* A process that has passed over 1..j is at j + 1.
Least(A) == CHOOSE v \in Version \ A : \A w \in Version \ A : v <= w

LEMMA LeastNext ==
    ASSUME NEW j \in 0..Last, Version \ (1..j) # {}
    PROVE  j < Last /\ Least(1..j) = j + 1 /\ j + 1 \in Version
<1>1. j < Last
  BY MigrationsAssumption DEF Version
<1>2. j + 1 \in Version \ (1..j) /\ \A w \in Version \ (1..j) : j + 1 <= w
  BY <1>1, MigrationsAssumption DEF Version
<1>3. \A v \in Version \ (1..j) :
         (\A w \in Version \ (1..j) : v <= w) => v = j + 1
  BY <1>2, MigrationsAssumption DEF Version
<1> QED BY <1>1, <1>2, <1>3 DEF Least

LEMMA NonePassed == \A k \in 0..Last : \E j \in 0..k : {} = 1..j
<1>1. 1..0 = {} /\ \A k \in 0..Last : 0 \in 0..k
  BY MigrationsAssumption
<1> QED BY <1>1

LEMMA CurrentNext ==
    ASSUME NEW p \in Pod, NEW j \in 0..Last, applied[p] = 1..j, Version \ applied[p] # {}
    PROVE  j < Last /\ Current(p) = j + 1 /\ Current(p) \in Version
BY LeastNext DEF Current, Least

LEMMA CurrentType ==
    ASSUME InOrder, NEW p \in Pod, Migrating(p)
    PROVE  Current(p) \in Version
<1>1. PICK j \in 0..Last : applied[p] = 1..j
  BY MigrationsAssumption DEF InOrder
<1> QED BY <1>1, CurrentNext, MigrationsAssumption DEF Migrating

LEMMA CurrentPrime ==
    ASSUME InOrder', NEW p \in Pod, Migrating(p)'
    PROVE  Current(p)' \in Version
<1>1. PICK j \in 0..Last : applied'[p] = 1..j
  BY MigrationsAssumption DEF InOrder
<1>2. Current(p)' = Least(1..j) /\ Version \ (1..j) # {}
  BY <1>1 DEF Migrating, Current, Least
<1> QED BY <1>2, LeastNext

LEMMA StmtType ==
    ASSUME InOrder, MigrationsTypeOK, NEW p \in Pod, Executing(p)
    PROVE  /\ Stmt(p) \in Statement
           /\ Stmt(p)[1] = Current(p) /\ Stmt(p)[2] = idx[p]
           /\ TableOf[Stmt(p)] \in Table \cup {None}
<1>1. Current(p) \in Version /\ idx[p] \in 1..Size[Current(p)]
  BY CurrentType, SizeType DEF Executing, MigrationsTypeOK
<1>2. Stmt(p) \in Statement
  BY <1>1, StatementFacts DEF Stmt
<1> QED BY <1>2, MigrationsAssumption DEF Stmt

-----------------------------------------------------------------------------
(* The first state *)

LEMMA InitInv == MigrationsInit => IInv
<1> SUFFICES ASSUME MigrationsInit PROVE IInv
  OBVIOUS
<1>1. PICK k \in Version \cup {0} :
         recorded = 1..k /\ schema = UNION {Effects(v) : v \in 1..k}
  BY DEF MigrationsInit
<1>2. k \in 0..Last /\ 1..k \subseteq Version
  BY MigrationsAssumption DEF Version
<1>3. \A p \in Pod : applied[p] = {} /\ pend[p] = {} /\ pc[p] = "down"
  BY DEF MigrationsInit
<1>4. MigrationsTypeOK
  <2>1. schema \subseteq Statement /\ recorded \subseteq Version
    BY <1>1, <1>2, EffectsType
  <2> QED BY <2>1 DEF MigrationsInit, MigrationsTypeOK
<1>5. InOrder
  BY <1>1, <1>2, <1>3, NonePassed DEF InOrder
<1>6. PendInv /\ DoneInv
  BY <1>3 DEF PendInv, DoneInv, Migrating
<1>7. RecordedIsWhole
  BY <1>1 DEF RecordedIsWhole
<1>8. NothingTorn
  BY <1>1, <1>2, EffectsType DEF NothingTorn
<1> QED BY <1>4, <1>5, <1>6, <1>7, <1>8 DEF IInv

-----------------------------------------------------------------------------
(* The steps that leave the database alone *)

\* A process that gives up what it did: by an error, a deadlock or a kill
LEMMA DieInv == ASSUME IInv, NEW p \in Pod, Die(p) PROVE IInv'
<1> USE DEF IInv, db, sessions
<1>1. MigrationsTypeOK'
  BY DEF Die, MigrationsTypeOK
<1>2. \A q \in Pod : q # p => /\ pc'[q] = pc[q] /\ applied'[q] = applied[q] /\ idx'[q] = idx[q]
                              /\ pend'[q] = pend[q]
  BY DEF Die, MigrationsTypeOK
<1>3. pc'[p] = "down" /\ applied'[p] = {} /\ pend'[p] = {}
  BY DEF Die, MigrationsTypeOK
<1>4. UNCHANGED <<dialect, schema, recorded>>
  BY DEF Die
<1>5. InOrder'
  <2>1. PICK k \in 0..Last :
           recorded = 1..k /\ \A q \in Pod : \E j \in 0..k : applied[q] = 1..j
    BY DEF InOrder
  <2>2. ASSUME NEW q \in Pod PROVE \E j \in 0..k : applied'[q] = 1..j
    BY <1>2, <1>3, <2>1, NonePassed
  <2> QED BY <1>4, <2>1, <2>2 DEF InOrder
<1>6. PendInv'
  BY <1>2, <1>3, <1>4 DEF PendInv, Migrating, Current
<1>7. DoneInv'
  BY <1>2, <1>3, <1>4 DEF DoneInv, Migrating, Current, Effects, Skipped
<1>8. RecordedIsWhole' /\ NothingTorn'
  BY <1>4 DEF RecordedIsWhole, NothingTorn, Effects, Skipped
<1> QED BY <1>1, <1>5, <1>6, <1>7, <1>8

\* A step of p that keeps what it has passed over and executed, at a position
\* every earlier statement of which is done
LEMMA StayInv ==
    ASSUME IInv, MigrationsTypeOK', NEW p \in Pod,
           UNCHANGED <<dialect, schema, recorded, applied, pend>>,
           \A q \in Pod \ {p} : pc'[q] = pc[q] /\ idx'[q] = idx[q],
           pend[p] # {} => Migrating(p)',
           Migrating(p)' => \A s \in Effects(Current(p)) :
                               s[2] < idx'[p] => s \in schema \cup pend[p]
    PROVE  IInv'
<1>1. InOrder' /\ RecordedIsWhole' /\ NothingTorn'
  BY DEF IInv, InOrder, RecordedIsWhole, NothingTorn, Effects, Skipped
<1>2. PendInv'
  BY DEF IInv, PendInv, Migrating, Current
<1>3. DoneInv'
  BY DEF IInv, DoneInv, Migrating, Current, Effects, Skipped
<1> QED BY <1>1, <1>2, <1>3 DEF IInv

LEMMA StartInv == ASSUME IInv, NEW p \in Pod, Start(p) PROVE IInv'
<1>1. MigrationsTypeOK'
  BY DEF IInv, Start, MigrationsTypeOK, db, sessions
<1>2. pc[p] = "down" /\ pc' = [pc EXCEPT ![p] = "read"] /\ pc'[p] = "read"
      /\ UNCHANGED <<dialect, schema, recorded, applied, pend, idx>>
  BY DEF Start, db, sessions, IInv, MigrationsTypeOK
<1>3. pend[p] = {}
  BY <1>2 DEF IInv, PendInv, Migrating
<1> QED BY <1>1, <1>2, <1>3, StayInv DEF Migrating, IInv, MigrationsTypeOK

LEMMA WaitInv == ASSUME IInv, NEW p \in Pod, Wait(p) PROVE IInv'
<1>1. MigrationsTypeOK'
  BY DEF IInv, Wait, MigrationsTypeOK, db, sessions
<1>2. /\ Migrating(p) /\ Migrating(p)'
      /\ UNCHANGED <<dialect, schema, recorded, applied, pend, idx>>
      /\ \A q \in Pod \ {p} : pc'[q] = pc[q] /\ idx'[q] = idx[q]
  BY DEF Wait, Executing, Migrating, db, sessions, IInv, MigrationsTypeOK
<1> QED BY <1>1, <1>2, StayInv DEF IInv, DoneInv

LEMMA FinishInv == ASSUME IInv, NEW p \in Pod, Finish(p) PROVE IInv'
<1>1. MigrationsTypeOK'
  BY DEF IInv, Finish, MigrationsTypeOK, db, sessions
<1>2. /\ Version \subseteq applied[p] /\ pc' = [pc EXCEPT ![p] = "migrated"]
      /\ UNCHANGED <<dialect, schema, recorded, applied, pend, idx>>
      /\ \A q \in Pod \ {p} : pc'[q] = pc[q] /\ idx'[q] = idx[q]
  BY DEF Finish, db, sessions, IInv, MigrationsTypeOK
<1>3. pend[p] = {}
  BY <1>2 DEF IInv, PendInv, Migrating
<1>4. ~Migrating(p)'
  BY <1>2 DEF Migrating
<1> QED BY <1>1, <1>2, <1>3, <1>4, StayInv

LEMMA SkipInv == ASSUME IInv, NEW p \in Pod, Skip(p) PROVE IInv'
<1>1. MigrationsTypeOK'
  BY DEF IInv, Skip, MigrationsTypeOK, db, sessions
<1>2. /\ Migrating(p) /\ Migrating(p)' /\ idx'[p] = idx[p] + 1 /\ idx[p] \in Nat
      /\ Executing(p) /\ Skipped(Stmt(p))
      /\ UNCHANGED <<dialect, schema, recorded, applied, pend, pc>>
      /\ \A q \in Pod \ {p} : pc'[q] = pc[q] /\ idx'[q] = idx[q]
  BY DEF Skip, Executing, Migrating, db, sessions, IInv, MigrationsTypeOK
<1>3. Stmt(p) \notin Effects(Current(p))
  BY <1>2 DEF Effects
<1>4. ASSUME NEW s \in Effects(Current(p)), s[2] < idx'[p] PROVE s \in schema \cup pend[p]
  <2>1. Current(p) \in Version
    BY <1>2, CurrentType DEF IInv
  <2>2. s[2] \in Nat /\ s = <<Current(p), s[2]>>
    BY <2>1, EffectsType, SizeType
  <2>3. s[2] # idx[p]
    BY <1>3, <2>2 DEF Stmt
  <2> QED BY <1>2, <1>4, <2>2, <2>3 DEF IInv, DoneInv
<1> QED BY <1>1, <1>2, <1>4, StayInv

LEMMA ReadInv == ASSUME IInv, NEW p \in Pod, ReadApplied(p) PROVE IInv'
<1> USE DEF IInv
<1>1. MigrationsTypeOK'
  BY DEF ReadApplied, MigrationsTypeOK, db, sessions
<1>2. /\ pc[p] = "read" /\ applied'[p] = recorded /\ idx'[p] = 1
      /\ UNCHANGED <<dialect, schema, recorded, pend>>
      /\ \A q \in Pod \ {p} : pc'[q] = pc[q] /\ idx'[q] = idx[q] /\ applied'[q] = applied[q]
  BY DEF ReadApplied, db, sessions, MigrationsTypeOK
<1>3. pend[p] = {}
  BY <1>2 DEF PendInv, Migrating
<1>4. InOrder'
  <2>1. PICK k \in 0..Last :
           recorded = 1..k /\ \A q \in Pod : \E j \in 0..k : applied[q] = 1..j
    BY DEF InOrder
  <2>2. \A q \in Pod : \E j \in 0..k : applied'[q] = 1..j
    BY <1>2, <2>1, MigrationsAssumption
  <2> QED BY <1>2, <2>1, <2>2 DEF InOrder
<1>5. PendInv'
  BY <1>2, <1>3 DEF PendInv, Migrating, Current
<1>6. DoneInv'
  <2>1. ASSUME NEW q \in Pod \ {p} PROVE
           Migrating(q)' => \A s \in Effects(Current(q))' :
                               s[2] < idx'[q] => s \in schema' \cup pend'[q]
    BY <1>2 DEF DoneInv, Migrating, Current, Effects, Skipped
  <2>2. ASSUME Migrating(p)', NEW s \in Effects(Current(p))' PROVE ~(s[2] < idx'[p])
    <3>1. Current(p)' \in Version
      BY <1>4, <2>2, CurrentPrime
    <3>2. s[2] \in 1..Size[Current(p)']
      BY <3>1, <2>2 DEF Effects
    <3> QED BY <1>2, <3>1, <3>2, SizeType
  <2> QED BY <2>1, <2>2 DEF DoneInv
<1>7. RecordedIsWhole' /\ NothingTorn'
  BY <1>2 DEF RecordedIsWhole, NothingTorn, Effects, Skipped
<1> QED BY <1>1, <1>4, <1>5, <1>6, <1>7

-----------------------------------------------------------------------------
(* The steps that change the database *)

LEMMA ExecuteInv == ASSUME IInv, NEW p \in Pod, Execute(p) PROVE IInv'
<1> USE DEF IInv
<1>0. /\ Executing(p) /\ Migrating(p) /\ idx[p] \in Nat
      /\ Stmt(p) \in Statement /\ Stmt(p)[1] = Current(p)
      /\ TableOf[Stmt(p)] \in Table \cup {None}
  BY StmtType DEF Execute, Executing, MigrationsTypeOK
<1>1. MigrationsTypeOK'
  BY <1>0 DEF Execute, MigrationsTypeOK, db, sessions
<1>2. /\ Migrating(p)' /\ idx'[p] = idx[p] + 1
      /\ UNCHANGED <<dialect, recorded, applied>>
      /\ \A q \in Pod \ {p} : /\ pc'[q] = pc[q] /\ idx'[q] = idx[q] /\ pend'[q] = pend[q]
      /\ schema \subseteq schema' /\ pend[p] \subseteq pend'[p]
      /\ Stmt(p) \in schema' \cup pend'[p]
      /\ dialect = "postgres" => schema' = schema
      /\ pend'[p] \subseteq pend[p] \cup {Stmt(p)}
      /\ pend'[p] # pend[p] => dialect # "sqlite"
  BY <1>0 DEF Execute, Migrating, db, sessions, MigrationsTypeOK
<1>3. dialect \in {"sqlite", "postgres"}
  BY MigrationsAssumption DEF MigrationsTypeOK
<1>4. InOrder' /\ RecordedIsWhole' /\ NothingTorn'
  BY <1>2 DEF InOrder, RecordedIsWhole, NothingTorn, Effects, Skipped
<1>5. PendInv'
  BY <1>0, <1>2, <1>3 DEF PendInv, Migrating, Current
<1>6. DoneInv'
  <2>1. ASSUME NEW q \in Pod \ {p} PROVE
           Migrating(q)' => \A s \in Effects(Current(q))' :
                               s[2] < idx'[q] => s \in schema' \cup pend'[q]
    BY <1>2 DEF DoneInv, Migrating, Current, Effects, Skipped
  <2>2. ASSUME NEW s \in Effects(Current(p)), s[2] < idx'[p]
        PROVE  s \in schema' \cup pend'[p]
    <3>1. s[2] \in Nat /\ s = <<Current(p), s[2]>>
      BY <1>0, CurrentType, EffectsType, SizeType
    <3>2. CASE s[2] = idx[p]
      BY <1>2, <3>1, <3>2 DEF Stmt
    <3>3. CASE s[2] < idx[p]
      BY <1>0, <1>2, <3>3 DEF DoneInv
    <3> QED BY <1>0, <1>2, <2>2, <3>1, <3>2, <3>3
  <2>3. Effects(Current(p))' = Effects(Current(p))
    BY <1>2 DEF Effects, Skipped, Current
  <2> QED BY <2>1, <2>2, <2>3 DEF DoneInv
<1> QED BY <1>1, <1>4, <1>5, <1>6

\* What Record(p) makes of the database: the version is the next one, and its
\* statements are in effect.
LEMMA RecordFacts ==
    ASSUME IInv, NEW p \in Pod, Record(p)
    PROVE  \E k \in 0..Last :
               /\ k + 1 \in Version /\ Current(p) = k + 1
               /\ recorded = 1..k /\ recorded' = 1..(k + 1)
               /\ applied[p] = 1..k /\ applied'[p] = 1..(k + 1)
               /\ \A q \in Pod : \E j \in 0..k : applied[q] = 1..j
               /\ Effects(k + 1) \subseteq schema'
<1> USE DEF IInv
<1>1. PICK k \in 0..Last :
         recorded = 1..k /\ \A q \in Pod : \E j \in 0..k : applied[q] = 1..j
  BY DEF InOrder
<1>2. PICK j \in 0..k : applied[p] = 1..j
  BY <1>1
<1>3. Migrating(p) /\ Version \ applied[p] # {} /\ Current(p) \notin recorded
  BY DEF Record, Migrating
<1>4. j < Last /\ Current(p) = j + 1 /\ Current(p) \in Version
  BY <1>2, <1>3, CurrentNext, MigrationsAssumption
<1>5. j = k
  BY <1>1, <1>3, <1>4, MigrationsAssumption
<1>6. recorded' = 1..(k + 1) /\ applied'[p] = 1..(k + 1)
  <2>1. recorded' = recorded \cup {k + 1} /\ applied'[p] = applied[p] \cup {k + 1}
    BY <1>4, <1>5 DEF Record, MigrationsTypeOK
  <2> QED BY <1>1, <1>2, <1>5, <2>1, MigrationsAssumption
<1>7. ASSUME NEW s \in Effects(k + 1) PROVE s \in schema'
  <2>1. s[2] \in 1..Size[k + 1] /\ Size[k + 1] \in Nat
    BY <1>4, <1>5, EffectsType, SizeType
  <2>2. idx[p] > Size[k + 1] /\ idx[p] \in Nat
    BY <1>4, <1>5 DEF Record, MigrationsTypeOK
  <2>3. s[2] < idx[p]
    BY <2>1, <2>2
  <2> QED BY <1>3, <1>4, <1>5, <2>3 DEF DoneInv, Record
<1> QED BY <1>1, <1>2, <1>4, <1>5, <1>6, <1>7

LEMMA RecordInv == ASSUME IInv, NEW p \in Pod, Record(p) PROVE IInv'
<1> USE DEF IInv
<1>1. PICK k \in 0..Last :
               /\ k + 1 \in Version /\ Current(p) = k + 1
               /\ recorded = 1..k /\ recorded' = 1..(k + 1)
               /\ applied[p] = 1..k /\ applied'[p] = 1..(k + 1)
               /\ \A q \in Pod : \E j \in 0..k : applied[q] = 1..j
               /\ Effects(k + 1) \subseteq schema'
  BY RecordFacts
<1>2. MigrationsTypeOK'
  BY <1>1, MigrationsAssumption DEF Record, MigrationsTypeOK, sessions, Version
<1>3. /\ UNCHANGED <<dialect, pc>> /\ idx'[p] = 1 /\ pend'[p] = {}
      /\ schema' = schema \cup pend[p]
      /\ \A q \in Pod \ {p} : /\ idx'[q] = idx[q] /\ applied'[q] = applied[q]
                              /\ pend'[q] = pend[q]
  BY DEF Record, MigrationsTypeOK, sessions
<1>4. k + 1 \in 0..Last
  BY <1>1, MigrationsAssumption DEF Version
<1>5. InOrder'
  <2>1. ASSUME NEW q \in Pod PROVE \E j \in 0..(k + 1) : applied'[q] = 1..j
    <3>1. CASE q = p
      BY <1>1, <3>1
    <3>2. CASE q # p
      BY <1>1, <1>3, <3>2
    <3> QED BY <3>1, <3>2
  <2> QED BY <1>1, <1>4, <2>1 DEF InOrder
<1>6. PendInv'
  BY <1>3 DEF PendInv, Migrating, Current
<1>7. DoneInv'
  <2>1. ASSUME NEW q \in Pod \ {p} PROVE
           Migrating(q)' => \A s \in Effects(Current(q))' :
                               s[2] < idx'[q] => s \in schema' \cup pend'[q]
    BY <1>3 DEF DoneInv, Migrating, Current, Effects, Skipped
  <2>2. ASSUME Migrating(p)', NEW s \in Effects(Current(p))' PROVE ~(s[2] < idx'[p])
    <3>1. Current(p)' \in Version
      BY <1>5, <2>2, CurrentPrime
    <3>2. s[2] \in 1..Size[Current(p)']
      BY <3>1, <2>2 DEF Effects
    <3> QED BY <1>3, <3>1, <3>2, SizeType
  <2> QED BY <2>1, <2>2 DEF DoneInv
<1>8. RecordedIsWhole'
  BY <1>1, <1>3 DEF RecordedIsWhole, Effects, Skipped
<1>9. NothingTorn'
  BY <1>1, <1>3 DEF NothingTorn, PendInv
<1> QED BY <1>2, <1>5, <1>6, <1>7, <1>8, <1>9

LEMMA OthersInv == ASSUME IInv, OtherSessions PROVE IInv'
<1> USE DEF IInv, OtherSessions, db, mine
<1>1. MigrationsTypeOK'
  BY DEF MigrationsTypeOK
<1>2. InOrder' /\ RecordedIsWhole' /\ NothingTorn'
  BY DEF InOrder, RecordedIsWhole, NothingTorn, Effects, Skipped
<1>3. PendInv' /\ DoneInv'
  BY DEF PendInv, DoneInv, Migrating, Current, Effects, Skipped
<1> QED BY <1>1, <1>2, <1>3
-----------------------------------------------------------------------------
(* The invariant *)

LEMMA StepInv == IInv /\ [MigrationsNext]_migrationVars => IInv'
<1> SUFFICES ASSUME IInv, [MigrationsNext]_migrationVars PROVE IInv'
  OBVIOUS
<1>1. ASSUME NEW p \in Pod, Start(p) \/ Migrate(p) PROVE IInv'
  BY <1>1, StartInv, ReadInv, SkipInv, ExecuteInv, WaitInv, RecordInv, FinishInv, DieInv
     DEF Migrate, Raises
<1>2. ASSUME NEW p \in Pod, Victim(p) \/ Kill(p) PROVE IInv'
  BY <1>2, DieInv DEF Victim, Kill
<1>3. CASE OtherSessions
  BY <1>3, OthersInv
<1>4. CASE UNCHANGED migrationVars
  <2> USE <1>4 DEF migrationVars, db, mine, sessions, IInv
  <2>1. MigrationsTypeOK' /\ InOrder' /\ RecordedIsWhole' /\ NothingTorn'
    BY DEF MigrationsTypeOK, InOrder, RecordedIsWhole, NothingTorn, Effects, Skipped
  <2>2. PendInv' /\ DoneInv'
    BY DEF PendInv, DoneInv, Migrating, Current, Effects, Skipped
  <2> QED BY <2>1, <2>2
<1> QED BY <1>1, <1>2, <1>3, <1>4 DEF MigrationsNext

THEOREM MigrationsInvariant == MigrationsSpec => []IInv
BY InitInv, StepInv, PTL DEF MigrationsSpec

\* Every variable of Migrations keeps its type.
THEOREM MigrationsTypeCorrect == MigrationsSpec => []MigrationsTypeOK
<1>1. IInv => MigrationsTypeOK
  BY DEF IInv
<1> QED BY <1>1, MigrationsInvariant, PTL

\* A version on record is in effect, whole.
THEOREM RecordedWhole == MigrationsSpec => []RecordedIsWhole
<1>1. IInv => RecordedIsWhole
  BY DEF IInv
<1> QED BY <1>1, MigrationsInvariant, PTL

-----------------------------------------------------------------------------
(* Migrations implements Schema *)

\* On PostgreSQL the schema is that of the versions on record.
LEMMA Recorded ==
    ASSUME IInv, dialect = "postgres", NEW k \in 0..Last, recorded = 1..k
    PROVE  schema = S!Upto(k)
<1>1. ASSUME NEW s \in schema PROVE s \in S!Upto(k)
  <2>1. s \in Statement /\ s[1] \in 1..k
    BY DEF IInv, MigrationsTypeOK, NothingTorn
  <2> QED BY <2>1, StatementFacts, MigrationsAssumption DEF S!Upto
<1>2. ASSUME NEW s \in S!Upto(k) PROVE s \in schema
  <2>1. PICK v \in Version : v <= k /\ s \in {v} \X (1..Size[v])
    BY DEF S!Upto
  <2>2. v \in recorded /\ s \in Effects(v)
    BY <2>1, EffectsType, MigrationsAssumption DEF Version
  <2> QED BY <2>2 DEF IInv, RecordedIsWhole
<1> QED BY <1>1, <1>2

LEMMA RecordedNext ==
    ASSUME IInv', dialect' = "postgres", NEW k \in 0..Last, recorded' = 1..k
    PROVE  schema' = S!Upto(k)
<1>1. ASSUME NEW s \in schema' PROVE s \in S!Upto(k)
  <2>1. s \in Statement /\ s[1] \in 1..k
    BY DEF IInv, MigrationsTypeOK, NothingTorn
  <2> QED BY <2>1, StatementFacts, MigrationsAssumption DEF S!Upto
<1>2. ASSUME NEW s \in S!Upto(k) PROVE s \in schema'
  <2>1. PICK v \in Version : v <= k /\ s \in {v} \X (1..Size[v])
    BY DEF S!Upto
  <2>2. v \in recorded' /\ s \in Effects(v)'
    BY <2>1, MigrationsAssumption DEF Version, Effects, Skipped
  <2> QED BY <2>2 DEF IInv, RecordedIsWhole
<1> QED BY <1>1, <1>2

\* What Schema is shown of it
Shown == IF dialect = "postgres" THEN schema ELSE {}

LEMMA SchemaInit == MigrationsInit => S!Init
<1> SUFFICES ASSUME MigrationsInit PROVE S!Init
  OBVIOUS
<1>1. IInv
  BY InitInv
<1>2. PICK k \in 0..Last : recorded = 1..k
  BY <1>1 DEF IInv, InOrder
<1>3. k \in Version \cup {0} /\ 0 \in Version \cup {0}
  BY MigrationsAssumption DEF Version
<1>4. {} = S!Upto(0)
  BY MigrationsAssumption DEF S!Upto, Version
<1> QED BY <1>1, <1>2, <1>3, <1>4, Recorded DEF S!Init

LEMMA SchemaStep == IInv /\ [MigrationsNext]_migrationVars => S!Next \/ UNCHANGED Shown
<1> SUFFICES ASSUME IInv, [MigrationsNext]_migrationVars PROVE S!Next \/ UNCHANGED Shown
  OBVIOUS
<1> USE DEF db
<1>1. ASSUME NEW p \in Pod, Record(p), dialect = "postgres" PROVE S!Next
  <2>1. PICK k \in 0..Last : k + 1 \in Version /\ recorded = 1..k /\ recorded' = 1..(k + 1)
    BY <1>1, RecordFacts
  <2>2. schema = S!Upto(k)
    BY <1>1, <2>1, Recorded
  <2>3. schema' = S!Upto(k + 1)
    <3>1. IInv'
      BY <1>1, RecordInv
    <3>2. dialect' = "postgres" /\ k + 1 \in 0..Last
      BY <1>1, <2>1, MigrationsAssumption DEF Record, Version
    <3> QED BY <2>1, <3>1, <3>2, RecordedNext
  <2>4. dialect' = "postgres" /\ (k + 1) - 1 = k
    BY <1>1, <2>1, MigrationsAssumption DEF Record
  <2> QED BY <1>1, <2>1, <2>2, <2>3, <2>4 DEF S!Next, S!Apply
<1>2. ASSUME dialect # "postgres" PROVE UNCHANGED Shown
  <2>1. dialect' = dialect
    BY DEF MigrationsNext, Start, Migrate, ReadApplied, Skip, Execute, Wait, Record, Finish,
           Raises, Victim, Kill, Die, OtherSessions, migrationVars
  <2> QED BY <1>2, <2>1 DEF Shown
<1>3. ASSUME NEW p \in Pod, Execute(p), dialect = "postgres" PROVE UNCHANGED Shown
  BY <1>3 DEF Execute, Shown
<1>4. ASSUME NEW p \in Pod,
             Start(p) \/ ReadApplied(p) \/ Skip(p) \/ Wait(p) \/ Finish(p) \/ Die(p)
      PROVE  UNCHANGED Shown
  BY <1>4 DEF Start, ReadApplied, Skip, Wait, Finish, Die, Shown
<1>5. CASE OtherSessions \/ UNCHANGED migrationVars
  BY <1>5 DEF OtherSessions, migrationVars, Shown
<1> QED BY <1>1, <1>2, <1>3, <1>4, <1>5 DEF MigrationsNext, Migrate, Raises, Victim, Kill

\* On PostgreSQL the schema moves from version to version, each whole.
THEOREM SchemaImplemented == MigrationsSpec => SchemaSpec
<1>1. IInv /\ [MigrationsNext]_migrationVars => [S!Next]_Shown
  BY SchemaStep
<1> QED BY <1>1, SchemaInit, MigrationsInvariant, PTL DEF MigrationsSpec, SchemaSpec, S!Spec, Shown

-----------------------------------------------------------------------------
(* Rollout implements Migrations *)

\* A session that comes to hold l and to wait for w
LEMMA SessionStep ==
    ASSUME MigrationsTypeOK, NEW s \in Session, UNCHANGED <<dialect, db, mine>>,
           NEW l \in SUBSET Table, \A t \in l \ locks[s] : Free(s, t),
           locks' = [locks EXCEPT ![s] = l],
           NEW w \in Table \cup {None}, want' = [want EXCEPT ![s] = w]
    PROVE  OtherSessions
BY DEF OtherSessions, MigrationsTypeOK

LEMMA ReleaseStep ==
    ASSUME MigrationsTypeOK, NEW s \in Session, UNCHANGED <<dialect, db, mine>>, Release(s)
    PROVE  OtherSessions
<1>1. locks' = [locks EXCEPT ![s] = {}] /\ want' = [want EXCEPT ![s] = None]
  BY DEF Release
<1>2. {} \in SUBSET Table /\ None \in Table \cup {None} /\ \A t \in {} \ locks[s] : Free(s, t)
  OBVIOUS
<1> QED BY <1>1, <1>2, SessionStep

LEMMA UseStep == ASSUME TypeOK, NEW s \in Session, Use(s) PROVE OtherSessions
<1>1. Head(agenda[s]) \in Table
  BY DEF TypeOK, RolloutOK, Use
<1>2. locks[s] \subseteq Table
  BY DEF TypeOK, MigrationsTypeOK
<1> DEFINE l == locks[s] \cup {Head(agenda[s])}
<1>3. l \in SUBSET Table /\ None \in Table \cup {None}
  BY <1>1, <1>2
<1>4. \A t \in l \ locks[s] : Free(s, t)
  BY DEF Use
<1>5. /\ locks' = [locks EXCEPT ![s] = l] /\ want' = [want EXCEPT ![s] = None]
      /\ MigrationsTypeOK /\ UNCHANGED <<dialect, db, mine>>
  BY DEF Use, TypeOK
<1> HIDE DEF l
<1> QED BY <1>3, <1>4, <1>5, SessionStep

LEMMA QueueStep == ASSUME TypeOK, NEW s \in Session, Queue(s) PROVE OtherSessions
<1>1. Head(agenda[s]) \in Table
  BY DEF TypeOK, RolloutOK, Queue
<1>2. locks' = [locks EXCEPT ![s] = locks[s]] /\ locks[s] \subseteq Table
  BY DEF TypeOK, MigrationsTypeOK, Queue
<1>3. MigrationsTypeOK /\ UNCHANGED <<dialect, db, mine>>
      /\ want' = [want EXCEPT ![s] = Head(agenda[s])]
  BY DEF TypeOK, Queue
<1> QED BY <1>1, <1>2, <1>3, SessionStep

LEMMA LeaveStep == ASSUME OldLeaves PROVE OtherSessions
BY DEF OldLeaves, OtherSessions

\* Every step of a rollout is one of Migrations.
LEMMA RolloutStep == TypeOK /\ [Next]_vars => [MigrationsNext]_migrationVars
<1> SUFFICES ASSUME TypeOK, [Next]_vars PROVE MigrationsNext \/ UNCHANGED migrationVars
  OBVIOUS
<1>0. MigrationsTypeOK /\ "web" \in Session /\ "jobs" \in Session
  BY RolloutAssumption DEF TypeOK
<1>1. ASSUME NEW s \in Session, Sessions(s) PROVE OtherSessions \/ UNCHANGED migrationVars
  BY <1>1, UseStep, QueueStep DEF Sessions, Begin
<1>2. CASE Answer \/ RequestFails \/ Commit
  BY <1>0, <1>2, ReleaseStep DEF Answer, RequestFails, Commit, MigrationsNext
<1>3. CASE OldLeaves
  BY <1>3, LeaveStep DEF MigrationsNext
<1>4. CASE Resolve
  BY <1>0, <1>4, ReleaseStep DEF Resolve, Deadlock, SessionVictim, MigrationsNext
<1>5. ASSUME NEW p \in Pod, NewPod(p) PROVE MigrationsNext \/ UNCHANGED migrationVars
  BY <1>5 DEF NewPod, MigrateStep, ImportSingle, ImportBatch, BecomeReady, Raise, Migrate, MigrationsNext
<1>6. ASSUME NEW p \in Pod, Crash(p) \/ ProbeKills(p) PROVE MigrationsNext
  BY <1>6 DEF Crash, ProbeKills, MigrationsNext
<1>7. CASE UNCHANGED vars
  BY <1>7 DEF vars
<1> QED BY <1>1, <1>2, <1>3, <1>4, <1>5, <1>6, <1>7 DEF Next, MigrationsNext

\* The types of what Rollout adds
LEMMA PlanType == \A s \in Session : Plan(s) \in Seq(Table)
<1>1. \A a, b, c \in Table : <<a, b, c>> \in Seq(Table)
  OBVIOUS
<1>2. \A a, b, c, d \in Table : <<a, b, c, d>> \in Seq(Table)
  OBVIOUS
<1>3. {"vm_states", "backup_results", "storage_snapshots"} \subseteq Table
  BY RolloutAssumption
<1> QED BY <1>1, <1>2, <1>3, Zenon DEF Plan

LEMMA ImportedStep == imported \in BOOLEAN /\ [Next]_vars => imported' \in BOOLEAN
<1> SUFFICES ASSUME imported \in BOOLEAN, [Next]_vars PROVE imported' \in BOOLEAN
  OBVIOUS
<1> USE DEF import, oldPod
<1>1. ASSUME NEW s \in Session, Sessions(s) \/ SessionVictim(s) PROVE imported' \in BOOLEAN
  BY <1>1, Zenon DEF Sessions, Begin, Use, Queue, SessionVictim
<1>2. CASE Answer \/ RequestFails \/ Commit \/ OldLeaves
  BY <1>2, Zenon DEF Answer, RequestFails, Commit, OldLeaves
<1>3. ASSUME NEW p \in Pod, NewPod(p) PROVE imported' \in BOOLEAN
  BY <1>3, Zenon DEF NewPod, MigrateStep, ImportSingle, ImportBatch, BecomeReady, Raise, Ends
<1>4. ASSUME NEW p \in Pod, Crash(p) \/ ProbeKills(p) \/ Deadlock(p) PROVE imported' \in BOOLEAN
  BY <1>4, Zenon DEF Crash, ProbeKills, Deadlock, Ends
<1>5. CASE UNCHANGED vars
  BY <1>5, Zenon DEF vars
<1> QED BY <1>1, <1>2, <1>3, <1>4, <1>5, Zenon DEF Next, Resolve

LEMMA OldPodType ==
    ASSUME RolloutOK, NEW s \in Session,
           Sessions(s) \/ SessionVictim(s) \/ Answer \/ RequestFails \/ Commit \/ OldLeaves
    PROVE  RolloutOK'
<1> USE DEF RolloutOK, import, oldPod
<1>1. CASE Begin(s)
  BY <1>1, PlanType DEF Begin
<1>2. CASE Use(s)
  <2>1. agenda[s] \in Seq(Table) /\ agenda[s] # <<>> /\ agenda' = [agenda EXCEPT ![s] = Tail(@)]
        /\ UNCHANGED <<old, act, import, ready, kills>>
    BY <1>2 DEF Use
  <2>2. Tail(agenda[s]) \in Seq(Table)
    BY <2>1
  <2> QED BY <2>1, <2>2
<1>3. CASE Queue(s)
  BY <1>3 DEF Queue
<1>4. CASE SessionVictim(s)
  <2>1. <<>> \in Seq(Table)
    OBVIOUS
  <2> QED BY <1>4, <2>1 DEF SessionVictim
<1>5. CASE Answer \/ Commit
  BY <1>5 DEF Answer, Commit
<1>6. CASE RequestFails \/ OldLeaves
  <2>1. <<>> \in Seq(Table)
    OBVIOUS
  <2> QED BY <1>6, <2>1 DEF RequestFails, OldLeaves
<1> QED BY <1>1, <1>2, <1>3, <1>4, <1>5, <1>6 DEF Sessions

LEMMA NewPodType ==
    ASSUME RolloutOK, NEW p \in Pod,
           NewPod(p) \/ Crash(p) \/ ProbeKills(p) \/ Deadlock(p)
    PROVE  RolloutOK'
<1> USE RolloutAssumption DEF RolloutOK, import, oldPod
<1>1. CASE MigrateStep(p)
  BY <1>1 DEF MigrateStep
<1>2. CASE ImportSingle(p)
  BY <1>2 DEF ImportSingle
<1>3. CASE ImportBatch(p)
  BY <1>3 DEF ImportBatch
<1>4. CASE BecomeReady(p)
  BY <1>4 DEF BecomeReady
<1>5. CASE Raise(p) \/ ProbeKills(p)
  BY <1>5 DEF Raise, ProbeKills, Ends
<1>6. CASE Crash(p) \/ Deadlock(p)
  BY <1>6 DEF Crash, Deadlock, Ends, Fault
<1> QED BY <1>1, <1>2, <1>3, <1>4, <1>5, <1>6 DEF NewPod

RolloutInv == IInv /\ TypeOK

LEMMA RolloutInit == Init => RolloutInv
<1> SUFFICES ASSUME Init PROVE RolloutInv
  OBVIOUS
<1>1. IInv
  BY InitInv DEF Init
<1>2. imported \in BOOLEAN
  BY Zenon DEF Init
<1>3. RolloutOK
  <2>1. <<>> \in Seq(Table) /\ agenda = [s \in Session |-> <<>>]
    BY DEF Init
  <2>2. batches \in 0..Batches /\ singles \in 0..Singles
    BY RolloutAssumption DEF Init
  <2> QED BY <2>1, <2>2, RolloutAssumption DEF Init, RolloutOK
<1> QED BY <1>1, <1>2, <1>3 DEF RolloutInv, TypeOK, IInv

LEMMA RolloutInvStep == RolloutInv /\ [Next]_vars => RolloutInv'
<1> SUFFICES ASSUME RolloutInv, [Next]_vars PROVE RolloutInv'
  OBVIOUS
<1>1. IInv'
  BY RolloutStep, StepInv DEF RolloutInv
<1>2. imported' \in BOOLEAN
  BY ImportedStep DEF RolloutInv, TypeOK
<1>3. RolloutOK'
  <2>1. RolloutOK /\ "web" \in Session
    BY RolloutAssumption DEF RolloutInv, TypeOK
  <2>2. CASE UNCHANGED vars
    BY <2>1, <2>2 DEF vars, oldPod, import, RolloutOK
  <2> QED BY <2>1, <2>2, OldPodType, NewPodType DEF Next, Resolve
<1> QED BY <1>1, <1>2, <1>3 DEF RolloutInv, TypeOK, IInv

THEOREM RolloutInvariant == Spec => []RolloutInv
BY RolloutInit, RolloutInvStep, PTL DEF Spec

\* Every variable keeps its type through a rollout.
THEOREM RolloutTypeCorrect == Spec => []TypeOK
<1>1. RolloutInv => TypeOK
  BY DEF RolloutInv
<1> QED BY <1>1, RolloutInvariant, PTL

\* A rollout, the sessions of the old pod, imports, probes and crashes included,
\* is a behaviour of Migrations.
THEOREM RolloutImplements == Spec => MigrationsSpec
<1>1. Init => MigrationsInit
  BY DEF Init
<1>2. RolloutInv => TypeOK
  BY DEF RolloutInv
<1> QED BY <1>1, <1>2, RolloutInvariant, RolloutStep, PTL DEF Spec, MigrationsSpec

\* In a rollout too, a version on record is in effect, whole.
THEOREM RolloutRecordedWhole == Spec => []RecordedIsWhole
BY RolloutImplements, RecordedWhole, PTL

\* In a rollout too, the schema of PostgreSQL moves from version to version.
THEOREM RolloutSchema == Spec => SchemaSpec
BY RolloutImplements, SchemaImplemented, PTL

===============================================================================
