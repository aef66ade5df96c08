---------------------------- MODULE MonitorProofs ----------------------------
(***************************************************************************)
(* Proofs about Monitor: poll cycles exclude each other and the process    *)
(* ends gracefully, in both storage modes and for any number of faults.    *)
(***************************************************************************)
EXTENDS Monitor, TLAPS

-----------------------------------------------------------------------------
(* Types *)

LEMMA FlagsInit == Init => FlagsOK
BY Zenon DEF Init, FlagsOK

LEMMA FlagsStep == FlagsOK /\ [Next]_vars => FlagsOK'
<1> SUFFICES ASSUME FlagsOK, [Next]_vars PROVE FlagsOK'
  OBVIOUS
<1> USE DEF FlagsOK, work, history
<1>1. CASE ProxmoxFails \/ ProxmoxReturns \/ Reconnect \/ Start \/ DigestDue \/ DigestEnds
  BY <1>1, Zenon DEF ProxmoxFails, ProxmoxReturns, Reconnect, Start, DigestDue, DigestEnds
<1>2. CASE Connect \/ Validate \/ Serve \/ MainRaises
  BY <1>2, Zenon DEF Connect, Validate, Serve, MainRaises
<1>3. CASE Import
  BY <1>3 DEF Import, BeginCycle
<1>4. CASE Finalize \/ Shutdown
  BY <1>4, Zenon DEF Finalize, Shutdown
<1>5. CASE Exit \/ Kill
  BY <1>5, Zenon DEF Exit, Kill, Gone
<1>6. ASSUME NEW t \in Thread, Cycle(t) PROVE FlagsOK'
  <2>1. CASE CycleStep(t)
    <3>1. (reached[t] \/ (cycle[t] \in Asking /\ proxmox = "up")) \in BOOLEAN
      OBVIOUS
    <3>2. reached' \in [Thread -> BOOLEAN]
      BY <2>1, <3>1, Zenon DEF CycleStep
    <3> QED BY <2>1, <3>2, Zenon DEF CycleStep
  <2> QED BY <1>6, <2>1, Zenon DEF Cycle, Ping, CycleRaises
<1>7. CASE PollDue
  BY <1>7 DEF PollDue, BeginCycle
<1>8. CASE UNCHANGED vars
  BY <1>8, Zenon DEF vars
<1> QED BY <1>1, <1>2, <1>3, <1>4, <1>5, <1>6, <1>7, <1>8 DEF Next, MainThread

LEMMA FaultType ==
    ASSUME NEW kind, faults \in 0..MaxFaults, Fault(kind)
    PROVE  faults' \in 0..MaxFaults /\ faults' # faults
BY MonitorAssumption DEF Fault

LEMMA QueryType ==
    ASSUME ValuesOK, QueryRaises \/ UNCHANGED <<conn, faults>>
    PROVE  conn' \in {"usable", "aborted"} /\ faults' \in 0..MaxFaults
BY FaultType DEF QueryRaises, ValuesOK

LEMMA ValuesInit == Init => ValuesOK
BY MonitorAssumption DEF Init, ValuesOK

\* What a thread does to its cycle
LEMMA CycleType ==
    ASSUME ValuesOK, NEW t, NEW p \in Phase \cup {"rest"}, cycle' = [cycle EXCEPT ![t] = p]
    PROVE  cycle' \in [Thread -> Phase \cup {"rest"}]
BY DEF ValuesOK

LEMMA AfterType ==
    ASSUME NEW p \in {"names", "tasks", "alerts", "storage", "stamp"} PROVE After[p] \in Phase
BY DEF After, Phase

LEMMA ValuesStep == ValuesOK /\ [Next]_vars => ValuesOK'
<1> SUFFICES ASSUME ValuesOK, [Next]_vars PROVE ValuesOK'
  OBVIOUS
<1> USE DEF work, history
<1>1. CASE ProxmoxFails \/ ProxmoxReturns \/ Reconnect
  BY <1>1, FaultType DEF ProxmoxFails, ProxmoxReturns, Reconnect, ValuesOK
<1>2. CASE Start \/ Connect \/ Validate \/ Serve
  BY <1>2 DEF Start, Connect, Validate, Serve, ValuesOK
<1>3. CASE MainRaises \/ Shutdown \/ Finalize
  BY <1>3, FaultType DEF MainRaises, Shutdown, Finalize, ValuesOK
<1>4. CASE Import
  <2>1. cycle' \in [Thread -> Phase \cup {"rest"}]
    BY <1>4, CycleType DEF Import, BeginCycle, Phase
  <2> QED BY <1>4, <2>1 DEF Import, ValuesOK
<1>5. ASSUME NEW t \in Thread, CycleStep(t) PROVE ValuesOK'
  <2>1. cycle' \in [Thread -> Phase \cup {"rest"}]
    BY <1>5, CycleType, AfterType DEF CycleStep
  <2> QED BY <1>5, <2>1 DEF CycleStep, ValuesOK
<1>6. ASSUME NEW t \in Thread, Ping(t) PROVE ValuesOK'
  <2>1. cycle' \in [Thread -> Phase \cup {"rest"}]
    BY <1>6, CycleType DEF Ping
  <2> QED BY <1>6, <2>1 DEF Ping, ValuesOK
<1>7. ASSUME NEW t \in Thread, CycleRaises(t) PROVE ValuesOK'
  <2>1. cycle' \in [Thread -> Phase \cup {"rest"}]
    BY <1>7, CycleType DEF CycleRaises
  <2> QED BY <1>7, <2>1, QueryType DEF CycleRaises, ValuesOK
<1>8. CASE PollDue
  <2>1. cycle' \in [Thread -> Phase \cup {"rest"}]
    BY <1>8, CycleType DEF PollDue, BeginCycle, Phase
  <2> QED BY <1>8, <2>1 DEF PollDue, ValuesOK
<1>9. CASE DigestDue \/ DigestEnds
  BY <1>9, QueryType DEF DigestDue, DigestEnds, ValuesOK
<1>10. CASE Exit \/ Kill
  BY <1>10, FaultType DEF Exit, Kill, Gone, ValuesOK
<1>11. CASE UNCHANGED vars
  BY <1>11 DEF vars, ValuesOK
<1> QED BY <1>1, <1>2, <1>3, <1>4, <1>5, <1>6, <1>7, <1>8, <1>9, <1>10, <1>11
        DEF Next, MainThread, Cycle

\* Every variable keeps its type.
THEOREM MonitorTypeCorrect == Spec => []TypeOK
<1>1. Init => TypeOK
  BY FlagsInit, ValuesInit DEF TypeOK
<1>2. TypeOK /\ [Next]_vars => TypeOK'
  BY FlagsStep, ValuesStep DEF TypeOK
<1> QED BY <1>1, <1>2, PTL DEF Spec

-----------------------------------------------------------------------------
(* Who may poll: the main thread while the job is paused, the job after that *)

LEMMA OwnerInit == Init => OwnerInv
BY DEF Init, OwnerInv, Thread

LEMMA OwnerStep == TypeOK /\ OwnerInv /\ [Next]_vars => OwnerInv'
<1> SUFFICES ASSUME TypeOK, OwnerInv, [Next]_vars PROVE OwnerInv'
  OBVIOUS
<1>0. /\ cycle \in [Thread -> Phase \cup {"rest"}]
      /\ "main" \in Thread /\ "worker" \in Thread
      /\ scheduler \in BOOLEAN
  BY DEF TypeOK, FlagsOK, ValuesOK, Thread
<1> USE DEF work, history, OwnerInv
<1>1. CASE ProxmoxFails \/ ProxmoxReturns \/ Reconnect
  BY <1>1 DEF ProxmoxFails, ProxmoxReturns, Reconnect
<1>2. CASE Start \/ Connect \/ Validate
  BY <1>2 DEF Start, Connect, Validate
<1>3. CASE Import
  BY <1>0, <1>3 DEF Import, BeginCycle
<1>4. CASE Serve
  BY <1>4 DEF Serve
<1>5. CASE MainRaises
  BY <1>5 DEF MainRaises
<1>6. CASE Shutdown \/ Finalize
  BY <1>6 DEF Shutdown, Finalize
<1>7. ASSUME NEW t \in Thread, CycleStep(t) PROVE OwnerInv'
  BY <1>0, <1>7 DEF CycleStep, Thread
<1>8. ASSUME NEW t \in Thread, Ping(t) PROVE OwnerInv'
  BY <1>0, <1>8 DEF Ping, Thread
<1>9. ASSUME NEW t \in Thread, CycleRaises(t) PROVE OwnerInv'
  BY <1>0, <1>9 DEF CycleRaises, Thread, Phase
<1>10. CASE PollDue
  BY <1>0, <1>10 DEF PollDue, BeginCycle, TypeOK, ValuesOK
<1>11. CASE DigestDue \/ DigestEnds
  BY <1>11 DEF DigestDue, DigestEnds
<1>12. CASE Exit \/ Kill
  BY <1>0, <1>12 DEF Exit, Kill, Gone
<1>13. CASE UNCHANGED vars
  BY <1>13 DEF vars
<1> QED BY <1>1, <1>2, <1>3, <1>4, <1>5, <1>6, <1>7, <1>8, <1>9, <1>10, <1>11, <1>12, <1>13
        DEF Next, MainThread, Cycle

\* The inductive invariant: types, and who may poll.
THEOREM MonitorInvariant == Spec => []IInv
<1>1. Init => IInv
  BY FlagsInit, ValuesInit, OwnerInit DEF IInv, TypeOK
<1>2. IInv /\ [Next]_vars => IInv'
  BY FlagsStep, ValuesStep, OwnerStep DEF IInv, TypeOK
<1> QED BY <1>1, <1>2, PTL DEF Spec

\* Two poll cycles never run at a time.
THEOREM PollsExclude == Spec => []OnePollAtATime
<1>1. IInv => OnePollAtATime
  BY DEF IInv, OwnerInv, OnePollAtATime
<1> QED BY <1>1, MonitorInvariant, PTL

\* What a step from IInv does to a process on its way out
LEMMA LeavingStep ==
    ASSUME IInv, [Next]_vars, main = "leaving"
    PROVE  /\ digest = "rest" => digest' = "rest"
           /\ cycle["worker"] = "rest" => cycle'["worker"] = "rest"
           /\ main' = "down" /\ faults' = faults =>
                  digest = "rest" /\ cycle["worker"] = "rest"
<1>0. /\ ~scheduler /\ faults \in 0..MaxFaults /\ "worker" \in Thread
      /\ cycle \in [Thread -> Phase \cup {"rest"}]
  BY DEF IInv, OwnerInv, TypeOK, ValuesOK, Thread
<1> USE DEF work, history
<1>1. CASE ProxmoxFails \/ ProxmoxReturns \/ Reconnect \/ Start \/ DigestEnds
  BY <1>1 DEF ProxmoxFails, ProxmoxReturns, Reconnect, Start, DigestEnds
<1>2. CASE Connect \/ Validate \/ Import \/ Serve \/ MainRaises \/ Finalize \/ Shutdown
  BY <1>2 DEF Connect, Validate, Import, Serve, MainRaises, Finalize, Shutdown
<1>3. ASSUME NEW t \in Thread, CycleStep(t) \/ Ping(t) \/ CycleRaises(t)
      PROVE  /\ digest' = digest
             /\ cycle["worker"] = "rest" => cycle'["worker"] = "rest"
             /\ main' # "down"
  BY <1>0, <1>3 DEF CycleStep, Ping, CycleRaises, Thread, Phase
<1>4. CASE PollDue \/ DigestDue
  BY <1>0, <1>4 DEF PollDue, DigestDue
<1>5. CASE Exit
  BY <1>0, <1>5 DEF Exit, Gone
<1>6. CASE Kill
  BY <1>0, <1>6, FaultType DEF Kill, Gone
<1>7. CASE UNCHANGED vars
  BY <1>7 DEF vars
<1> QED BY <1>1, <1>2, <1>3, <1>4, <1>5, <1>6, <1>7 DEF Next, MainThread, Cycle

\* From SIGTERM on nothing is started, and only a kill cuts a poll or a digest short.
THEOREM ExitsGracefully == Spec => GracefulExit
<1>1. IInv /\ [Next]_vars =>
        [/\ main = "leaving" => /\ digest = "rest" => digest' = "rest"
                                /\ cycle["worker"] = "rest" => cycle'["worker"] = "rest"
         /\ main = "leaving" /\ main' = "down" /\ faults' = faults =>
                digest = "rest" /\ cycle["worker"] = "rest"]_vars
  BY LeavingStep
<1> QED BY <1>1, MonitorInvariant, PTL DEF Spec, GracefulExit
=============================================================================
