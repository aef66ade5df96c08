--------------------------- MODULE DashboardProofs ----------------------------
(***************************************************************************)
(* Proofs about Dashboard, for windows, days and histories of any length   *)
(* and any results: the dots tell their days, failures stay visible, the   *)
(* page and the metrics agree.                                             *)
(***************************************************************************)
EXTENDS Dashboard, FiniteSetTheorems, WellFoundedInduction, TLAPS

-----------------------------------------------------------------------------
(* Types *)

LEMMA Bounds == End \in Nat
BY DashboardAssumption

LEMMA DashboardTypeInit == Init => TypeOK
BY Bounds DEF Init, TypeOK

LEMMA DashboardTypeStep == TypeOK /\ [Next]_vars => TypeOK'
<1> SUFFICES ASSUME TypeOK, [Next]_vars PROVE TypeOK'
  OBVIOUS
<1> USE DEF TypeOK
<1>1. CASE Tick
  BY <1>1, Bounds DEF Tick
<1>2. CASE Purge
  BY <1>2 DEF Purge
<1>3. ASSUME NEW v \in Vm, NEW start \in 0..End, NEW status \in {"OK", "ERR"},
             Store(v, start, status)
      PROVE  TypeOK'
  BY <1>3 DEF Store
<1>4. ASSUME NEW inventory \in SUBSET Vm, Refresh(inventory) PROVE TypeOK'
  BY <1>4 DEF Refresh
<1>5. ASSUME NEW c \in Cluster, Reconfigure(c) PROVE TypeOK'
  BY <1>5 DEF Reconfigure
<1>6. CASE UNCHANGED vars
  BY <1>6 DEF vars
<1> QED BY <1>1, <1>2, <1>3, <1>4, <1>5, <1>6 DEF Next

\* Every variable of Dashboard keeps its type.
THEOREM DashboardTypeCorrect == Spec => []TypeOK
<1>1. Init => TypeOK
  BY DashboardTypeInit
<1>2. TypeOK /\ [Next]_vars => TypeOK'
  BY DashboardTypeStep
<1> QED BY <1>1, <1>2, PTL DEF Spec
-----------------------------------------------------------------------------
(* Days and windows *)

\* A time lies in its day.
LEMMA DayBounds ==
    ASSUME NEW t \in Nat, NEW len \in Nat \ {0}
    PROVE  /\ t \div len \in Nat
           /\ len * (t \div len) <= t /\ t < len * (t \div len) + len
OBVIOUS

LEMMA Monotone ==
    ASSUME NEW len \in Nat, NEW a \in Int, NEW b \in Int, a <= b
    PROVE  len * a <= len * b
OBVIOUS

\* Whatever starts on one of the last n days starts within n times the length of a
\* day, although the window starts inside a day.
LEMMA DaysAreWhole ==
    ASSUME NEW n \in Nat \ {0}, NEW t \in Nat, NEW s \in Nat,
           s \div DayLength >= t \div DayLength - n + 1
    PROVE  s >= t - n * DayLength
<1> DEFINE q == s \div DayLength
           today == t \div DayLength
<1> DayLength \in Nat \ {0}
  BY DashboardAssumption
<1>1. q \in Nat /\ DayLength * q <= s
  BY DayBounds
<1>2. today \in Nat /\ t < DayLength * today + DayLength
  BY DayBounds
<1> HIDE DEF q, today
<1>3. today - n + 1 <= q
  BY DEF q, today
<1>4. DayLength * (today - n + 1) <= DayLength * q
  BY <1>1, <1>2, <1>3, Monotone
<1>5. DayLength * (today - n + 1) = DayLength * today - n * DayLength + DayLength
  BY <1>2
<1>6. DayLength * q \in Int /\ DayLength * today \in Int /\ n * DayLength \in Int
  BY <1>1, <1>2
<1> QED BY <1>1, <1>2, <1>4, <1>5, <1>6
-----------------------------------------------------------------------------
(* The page *)

LEMMA Lengths == DayLength \in Nat \ {0} /\ Days \in Nat \ {0} /\ History \in Nat \ {0}
BY DashboardAssumption

LEMMA NoStatus == None \notin {"OK", "ERR", ""}
BY DashboardAssumption

LEMMA RowType ==
    ASSUME TypeOK, NEW r \in rows
    PROVE  r.vm \in Vm /\ r.start \in Nat /\ r.status \in {"OK", "ERR"}
BY DEF TypeOK

\* The window cuts nothing off a shown day.
LEMMA DayIsWhole ==
    ASSUME TypeOK, NEW v, NEW d \in Shown
    PROVE  OnDay(v, d) = {r \in rows : r.vm = v /\ r.start \div DayLength = d}
<1> SUFFICES ASSUME NEW r \in rows, r.vm = v, r.start \div DayLength = d
             PROVE  r.start >= now - Days * DayLength
  BY DEF OnDay, Window, ResultsOf, Since
<1>1. now \in Nat /\ r.start \in Nat
  BY RowType, Bounds DEF TypeOK
<1>2. r.start \div DayLength >= now \div DayLength - Days + 1
  <2>1. now \div DayLength \in Nat
    BY <1>1, Lengths, DayBounds
  <2> QED BY <2>1, Lengths DEF Shown, Today
<1> QED BY <1>1, <1>2, Lengths, DaysAreWhole

LEMMA DotsAreRight == TypeOK => DotsTellTheDay
<1> SUFFICES ASSUME TypeOK, NEW v \in vms, NEW d \in Shown
             PROVE  LET day == {r \in rows : r.vm = v /\ r.start \div DayLength = d}
                    IN  /\ Dot(v, d) = "none" <=> day = {}
                        /\ Dot(v, d) = "fail" <=> \E r \in day : r.status = "ERR"
  BY DEF DotsTellTheDay
<1>1. \A r \in OnDay(v, d) : ~Ok(r.status) <=> r.status = "ERR"
  BY RowType DEF OnDay, Window, ResultsOf, Ok
<1> QED BY <1>1, DayIsWhole DEF Dot

\* Each dot tells its whole day: the window may start at any moment of a day, and
\* it takes no result from the oldest day that is shown.
THEOREM DotsTellTheirDays == Spec => []DotsTellTheDay
<1>1. TypeOK => DotsTellTheDay
  BY DotsAreRight
<1> QED BY <1>1, DashboardTypeCorrect, PTL
-----------------------------------------------------------------------------
(* Failures stay visible *)

\* A result of a shown day survives every step, the purge of a history that is
\* no shorter than the window included.
LEMMA ShownResultStays ==
    ASSUME TypeOK, [Next]_vars, History >= Days, NEW v, NEW d \in Shown, NEW r \in OnDay(v, d)
    PROVE  r \in rows'
<1>1. r \in rows /\ r.start >= now - Days * DayLength
  BY DEF OnDay, Window, ResultsOf, Since
<1>2. CASE Purge
  <2>1. r.start \in Nat /\ now \in Nat
    BY <1>1, RowType, Bounds DEF TypeOK
  <2>2. Days * DayLength <= History * DayLength
    BY Lengths, Monotone
  <2>3. Days * DayLength \in Int /\ History * DayLength \in Int
    BY Lengths
  <2>4. r.start >= now - History * DayLength
    BY <1>1, <2>1, <2>2, <2>3
  <2> QED BY <1>1, <1>2, <2>4 DEF Purge
<1>3. CASE ~Purge
  BY <1>1, <1>3 DEF Next, Tick, Store, Refresh, Reconfigure, vars
<1> QED BY <1>2, <1>3

\* A shown failure stays shown until its day has left the window, whatever is
\* stored, purged or renamed meanwhile.
THEOREM FailuresAreKept == Spec => FailuresStayVisible
<1>1. TypeOK /\ TypeOK' /\ [Next]_vars =>
         [History >= Days =>
            \A v \in vms \cap vms' : \A d \in Shown \cap Shown' :
                Dot(v, d) = "fail" => Dot(v, d)' = "fail"]_vars
  <2> SUFFICES ASSUME TypeOK, TypeOK', [Next]_vars, History >= Days,
                      NEW v \in vms \cap vms', NEW d \in Shown \cap Shown', Dot(v, d) = "fail"
               PROVE  Dot(v, d)' = "fail"
    OBVIOUS
  <2>1. PICK r \in OnDay(v, d) : ~Ok(r.status)
    BY DEF Dot
  <2>2. r \in rows'
    BY <2>1, ShownResultStays
  <2>3. r.vm = v /\ r.start \div DayLength = d /\ r.status = "ERR"
    BY <2>1, RowType DEF OnDay, Window, ResultsOf, Ok
  <2>4. DotsTellTheDay'
    BY DotsAreRight, PTL
  <2> QED BY <2>2, <2>3, <2>4 DEF DotsTellTheDay
<1> QED BY <1>1, DashboardTypeCorrect, PTL DEF Spec, FailuresStayVisible
-----------------------------------------------------------------------------
(* The page and the metrics *)

\* Of several results there is a last one.
LEMMA LastExists ==
    ASSUME TypeOK, NEW S \in SUBSET rows, S # {}
    PROVE  \E m \in S : \A q \in S : q.start <= m.start
<1> DEFINE Ages == {End - r.start : r \in S}
           Less == OpToRel(<, Nat)
<1>1. \A r \in S : r.start \in Nat /\ r.start <= End /\ End \in Nat
  BY Bounds DEF TypeOK
<1>2. Ages \subseteq Nat /\ Ages # {}
  BY <1>1
<1>3. \E x \in Ages : \A y \in Ages : <<y, x>> \notin Less
  <2>1. IsWellFoundedOn(Less, Nat)
    BY NatLessThanWellFounded
  <2> HIDE DEF Ages, Less
  <2> QED BY <1>2, <2>1, WFMin
<1>4. PICK m \in S : \A y \in Ages : <<y, End - m.start>> \notin Less
  BY <1>3
<1>5. \A q \in S : q.start <= m.start
  <2> TAKE q \in S
  <2>1. End - q.start \in Ages /\ End - q.start \in Nat /\ End - m.start \in Nat
    BY <1>1
  <2>2. <<End - q.start, End - m.start>> \notin Less
    BY <1>4, <2>1
  <2>3. ~(End - q.start < End - m.start)
    BY <2>1, <2>2 DEF OpToRel
  <2> QED BY <2>3, <1>1
<1> QED BY <1>5

LEMMA CountIsPositive ==
    ASSUME TypeOK, NEW v, NEW dot
    PROVE  Count(v, dot) > 0 <=> \E d \in Shown : Dot(v, d) = dot
<1> DEFINE S == {d \in Shown : Dot(v, d) = dot}
<1>1. IsFiniteSet(Shown)
  <2>1. Today \in Int
    BY Lengths, Bounds, DayBounds DEF TypeOK, Today
  <2> QED BY <2>1, Lengths, FS_Interval DEF Shown
<1>2. IsFiniteSet(S)
  BY <1>1, FS_Subset
<1>3. Cardinality(S) \in Nat /\ (Cardinality(S) = 0 <=> S = {})
  BY <1>2, FS_CardinalityType, FS_EmptySet
<1> QED BY <1>3 DEF Count

LEMMA PageMatchesMetrics == TypeOK => PageAndMetricsAgree
<1> SUFFICES ASSUME TypeOK, NEW v \in vms
             PROVE  LET lastIsShown == LastRun(v) \div DayLength \in Shown
                        goodDay     == \E d \in Shown : Dot(v, d) = "ok"
                        badDay      == \E d \in Shown : Dot(v, d) = "fail"
                    IN  /\ StatusGauge(v) = 1 =>
                              v \notin Unresolved /\ (lastIsShown => v \in BackedUp)
                        /\ StatusGauge(v) = 0 => /\ lastIsShown => v \in Unresolved
                                                 /\ v \in Unresolved <=> badDay
                                                 /\ v \in BackedUp <=> goodDay
                        /\ v \in Never <=> StatusGauge(v) = -2
                        /\ v \in Never => v \notin BackedUp \cup Unresolved
  BY DEF PageAndMetricsAgree
<1> DEFINE goodDay == \E d \in Shown : Dot(v, d) = "ok"
           badDay  == \E d \in Shown : Dot(v, d) = "fail"
<1>0. (Count(v, "ok") > 0 <=> goodDay) /\ (Count(v, "fail") > 0 <=> badDay)
  BY CountIsPositive
<1> HIDE DEF goodDay, badDay
<1>1. CASE Latest(v) = {}
  <2>1. LastStatus(v) = None
    BY <1>1 DEF LastStatus
  <2>2. StatusGauge(v) = -2
    BY <1>1, <2>1, NoStatus DEF StatusGauge, Stale
  <2>3. v \notin Unresolved /\ v \in Never
    BY <1>1, <2>1 DEF Unresolved, Never
  <2>4. v \notin BackedUp
    <3>1. ResultsOf(v) = {}
      BY <1>1, LastExists DEF Latest, ResultsOf
    <3>2. \A d \in Shown : Dot(v, d) = "none"
      BY <3>1 DEF Dot, OnDay, Window
    <3>3. ~(Count(v, "ok") > 0)
      BY <3>2, CountIsPositive
    <3> QED BY <3>3, <2>1, NoStatus DEF BackedUp
  <2> QED BY <2>2, <2>3, <2>4
<1>2. CASE Latest(v) # {}
  <2> DEFINE l == CHOOSE r \in Latest(v) : TRUE
  <2>1. l \in Latest(v)
    BY <1>2
  <2>2. l \in rows /\ l.vm = v /\ l.status \in {"OK", "ERR"}
    BY <2>1, RowType DEF Latest, ResultsOf
  <2>3. LastStatus(v) = l.status /\ LastRun(v) = l.start
    BY <1>2 DEF LastStatus, LastRun
  <2> HIDE DEF l
  <2>4. v \notin Never
    BY <1>2 DEF Never
  <2>5. CASE l.status = "OK"
    <3>1. StatusGauge(v) = 1 /\ v \in BackedUp /\ v \notin Unresolved
      BY <2>3, <2>5 DEF BackedUp, Unresolved, StatusGauge
    <3> QED BY <2>4, <3>1
  <2>6. CASE l.status = "ERR"
    <3>1. StatusGauge(v) = 0
      BY <2>3, <2>6, NoStatus DEF StatusGauge
    <3>2. ASSUME LastRun(v) \div DayLength \in Shown PROVE badDay
      <4>1. Dot(v, LastRun(v) \div DayLength) = "fail"
        BY <2>2, <2>3, <2>6, <3>2, DotsAreRight DEF DotsTellTheDay
      <4> QED BY <4>1, <3>2 DEF badDay
    <3>3. (v \in Unresolved <=> badDay) /\ (v \in BackedUp <=> goodDay)
      BY <1>0, <2>3, <2>6, NoStatus DEF Unresolved, BackedUp
    <3> QED BY <2>4, <3>1, <3>2, <3>3 DEF goodDay, badDay
  <2> QED BY <2>2, <2>5, <2>6
<1> QED BY <1>1, <1>2

\* The summary of the page and the gauges of /metrics do not contradict each other on
\* what the window holds.
THEOREM MetricsAgree == Spec => []PageAndMetricsAgree
<1>1. TypeOK => PageAndMetricsAgree
  BY PageMatchesMetrics
<1> QED BY <1>1, DashboardTypeCorrect, PTL
-----------------------------------------------------------------------------
(* The most recent result *)

LEMMA DashboardInit == Init => IInv
BY DashboardTypeInit DEF Init, IInv, OneResultAtATime

LEMMA DashboardStep == IInv /\ [Next]_vars => IInv'
<1> SUFFICES ASSUME IInv, [Next]_vars PROVE OneResultAtATime'
  BY DashboardTypeStep DEF IInv
<1> USE DEF IInv, OneResultAtATime
<1>1. CASE rows' \subseteq rows
  BY <1>1
<1>2. ASSUME NEW v \in Vm, NEW start \in 0..End, NEW status \in {"OK", "ERR"},
             Store(v, start, status)
      PROVE  OneResultAtATime'
  BY <1>2 DEF Store, ResultsOf
<1> QED BY <1>1, <1>2 DEF Next, Tick, Purge, Refresh, Reconfigure, vars

LEMMA DashboardInvariant == Spec => []IInv
<1>1. Init => IInv
  BY DashboardInit
<1>2. IInv /\ [Next]_vars => IInv'
  BY DashboardStep
<1> QED BY <1>1, <1>2, PTL DEF Spec

\* What the page says of the last result, and of the days of a kind, is true.
LastIsLatest  == \A v \in Vm : \A l \in Latest(v) : LastStatus(v) = l.status
CountsAreDays == \A v \in Vm, dot \in {"ok", "fail"} :
                    Count(v, dot) > 0 <=> \E d \in Shown : Dot(v, d) = dot

LEMMA PageFacts == IInv => LastIsLatest /\ CountsAreDays
<1> SUFFICES ASSUME IInv PROVE LastIsLatest /\ CountsAreDays
  OBVIOUS
<1>1. LastIsLatest
  <2> SUFFICES ASSUME NEW v \in Vm, NEW l \in Latest(v) PROVE LastStatus(v) = l.status
    BY DEF LastIsLatest
  <2>1. \A r \in Latest(v) : r = l
    <3> TAKE r \in Latest(v)
    <3>1. r.start <= l.start /\ l.start <= r.start /\ r.start \in Nat /\ l.start \in Nat
      BY RowType DEF Latest, ResultsOf, IInv
    <3>2. r.start = l.start
      BY <3>1
    <3> QED BY <3>2 DEF Latest, ResultsOf, IInv, OneResultAtATime
  <2> QED BY <2>1 DEF LastStatus
<1> QED BY <1>1, CountIsPositive DEF CountsAreDays, IInv
-----------------------------------------------------------------------------
(* How an unresolved failure ends *)

\* The most recent result is a failure before a step; afterwards the page says
\* something else of it only because a newer success has come in, or nothing of the
\* VM is left.
LEMMA LastFailureStays ==
    ASSUME IInv, IInv', [Next]_vars, NEW v \in Vm, NEW l \in Latest(v), l.status = "ERR",
           LastStatus(v)' # "ERR"
    PROVE  \/ \E r \in rows' \ rows :
                 r.vm = v /\ r.status = "OK" /\ \A q \in ResultsOf(v) : q.start < r.start
           \/ \A d \in Shown' : Dot(v, d)' # "fail"
<1>1. l \in rows /\ l.vm = v /\ \A q \in ResultsOf(v) : q.start <= l.start
  BY DEF Latest, ResultsOf
<1>2. \A r \in rows : r.start \in Nat
  BY RowType DEF IInv
<1>3. \A r \in Latest(v)' : LastStatus(v)' = r.status
  <2>1. LastIsLatest'
    BY PageFacts, PTL
  <2> QED BY <2>1 DEF LastIsLatest
<1>4. l \notin Latest(v)'
  BY <1>3
<1>5. CASE Purge
  <2>1. rows' = {r \in rows : r.start >= now - History * DayLength} /\ now \in Int
    BY <1>5, Bounds DEF Purge, IInv, TypeOK
  <2>2. l \notin rows'
    BY <1>1, <1>4, <2>1 DEF Latest, ResultsOf
  <2>3. \A q \in rows' : q.vm # v
    <3> SUFFICES ASSUME NEW q \in rows', q.vm = v PROVE l \in rows'
      BY <2>2
    <3>1. q \in rows /\ q.start <= l.start /\ q.start >= now - History * DayLength
      BY <1>1, <2>1 DEF ResultsOf
    <3>2. History * DayLength \in Int
      BY Lengths
    <3>3. l.start >= now - History * DayLength
      BY <1>1, <1>2, <2>1, <3>1, <3>2
    <3> QED BY <1>1, <2>1, <3>3
  <2> QED BY <2>3 DEF Dot, OnDay, Window, ResultsOf
<1>6. ASSUME NEW w \in Vm, NEW start \in 0..End, NEW status \in {"OK", "ERR"},
             Store(w, start, status)
      PROVE  \E r \in rows' \ rows :
                r.vm = v /\ r.status = "OK" /\ \A q \in ResultsOf(v) : q.start < r.start
  <2> DEFINE n == [vm |-> w, start |-> start, status |-> status, cluster |-> cluster]
  <2>1. rows' = rows \cup {n}
    BY <1>6 DEF Store
  <2>2. w = v /\ l.start < start
    <3>1. \E q \in rows' : q.vm = v /\ ~(q.start <= l.start)
      BY <1>1, <1>4, <2>1 DEF Latest, ResultsOf
    <3>2. n.vm = v /\ ~(n.start <= l.start)
      BY <1>1, <2>1, <3>1 DEF ResultsOf
    <3> QED BY <3>2, <1>1, <1>2, Bounds
  <2>3. \A q \in ResultsOf(v) : q.start < start
    BY <1>1, <1>2, <2>2, Bounds DEF ResultsOf
  <2>4. n \notin rows
    BY <2>2, <2>3, Bounds DEF ResultsOf
  <2>5. n \in Latest(v)'
    BY <2>1, <2>2, <2>3, <1>2, Bounds DEF Latest, ResultsOf
  <2>6. n.status = "OK"
    BY <1>3, <2>5
  <2> QED BY <2>1, <2>2, <2>3, <2>4, <2>6
<1>7. CASE rows' = rows
  BY <1>4, <1>7 DEF Latest, ResultsOf
<1> QED BY <1>5, <1>6, <1>7 DEF Next, Tick, Refresh, Reconfigure, vars

\* A VM stops being an unresolved failure only through a newer success, or when
\* nothing of it is shown any more.
THEOREM FailuresAreResolved == Spec => ResolvedBySuccess
<1> DEFINE Allowed(v) ==
        \/ \E r \in rows' \ rows :
              r.vm = v /\ r.status = "OK" /\ \A q \in ResultsOf(v) : q.start < r.start
        \/ \A d \in Shown' : Dot(v, d)' # "fail"
<1>1. IInv /\ IInv' /\ [Next]_vars => [\A v \in (Unresolved \cap vms') \ Unresolved' : Allowed(v)]_vars
  <2> SUFFICES ASSUME IInv, IInv', [Next]_vars, NEW v \in (Unresolved \cap vms') \ Unresolved'
               PROVE  Allowed(v)
    OBVIOUS
  <2>1. v \in Vm /\ LastStatus(v) \notin {"OK", "", None}
    BY DEF IInv, TypeOK, Unresolved
  <2>2. PICK l \in Latest(v) : TRUE
    BY <2>1 DEF LastStatus
  <2>3. LastStatus(v) = l.status
    BY <2>1, PageFacts DEF LastIsLatest
  <2>4. l.status = "ERR"
    BY <2>1, <2>2, <2>3, RowType DEF Latest, ResultsOf, IInv
  <2>5. CASE LastStatus(v)' # "ERR"
    BY <2>1, <2>4, <2>5, LastFailureStays
  <2>6. CASE LastStatus(v)' = "ERR"
    <3>1. ~(Count(v, "fail")' > 0)
      BY <2>6, NoStatus DEF Unresolved
    <3>2. CountsAreDays'
      BY PageFacts, PTL
    <3> QED BY <2>1, <3>1, <3>2 DEF CountsAreDays
  <2> QED BY <2>5, <2>6
<1> QED BY <1>1, DashboardInvariant, PTL DEF Spec, ResolvedBySuccess
-----------------------------------------------------------------------------
(* The digest and the page *)

\* The digest sees of a day what has the cluster id of now.
LEMMA DigestSeesTheDay ==
    ASSUME TypeOK, Week <= Days, NEW v, NEW d \in DigestShown
    PROVE  /\ d \in Shown
           /\ DigestDay(v, d) = {r \in OnDay(v, d) : r.cluster = cluster}
<1>1. Week \in Nat \ {0}
  BY DashboardAssumption
<1>2. now \in Nat /\ now \div DayLength \in Nat
  BY Bounds, Lengths, DayBounds DEF TypeOK
<1>3. d \in Shown
  BY <1>1, <1>2, Lengths DEF DigestShown, Shown, Today
<1>4. \A r \in rows : r.start \div DayLength = d => r.start >= now - Week * DayLength
  <2> SUFFICES ASSUME NEW r \in rows, r.start \div DayLength = d
               PROVE  r.start >= now - Week * DayLength
    OBVIOUS
  <2>1. r.start \in Nat
    BY RowType
  <2>2. r.start \div DayLength >= now \div DayLength - Week + 1
    BY <1>1, <1>2 DEF DigestShown, Today
  <2> QED BY <1>1, <1>2, <2>1, <2>2, DaysAreWhole
<1>5. DigestDay(v, d) = {r \in rows : r.vm = v /\ r.start \div DayLength = d /\ r.cluster = cluster}
  BY <1>4 DEF DigestDay, DigestRows
<1> QED BY <1>3, <1>5, DayIsWhole

LEMMA DigestMatchesPage == IInv => DigestAndPageAgree
<1> SUFFICES ASSUME IInv, Week <= Days, NEW v \in Vm, NEW d \in DigestShown
             PROVE  LET before == {r \in OnDay(v, d) : r.cluster # cluster}
                        undone == {f \in OnDay(v, d) :
                                     \E r \in OnDay(v, d) : r.status = "OK" /\ f.start < r.start}
                    IN  /\ DigestDot(v, d) = "fail" => Dot(v, d) = "fail"
                        /\ DigestDot(v, d) = "none" <=> OnDay(v, d) = before
                        /\ DigestDot(v, d) = "ok" /\ Dot(v, d) = "fail" =>
                              \E f \in before \cup undone : f.status = "ERR"
                        /\ AllOk /\ Dot(v, d) = "fail" => \E f \in before : f.status = "ERR"
  BY DEF DigestAndPageAgree
<1> DEFINE day    == OnDay(v, d)
           before == {r \in day : r.cluster # cluster}
           undone == {f \in day : \E r \in day : r.status = "OK" /\ f.start < r.start}
<1>1. DigestDay(v, d) = {r \in day : r.cluster = cluster}
  BY DigestSeesTheDay DEF IInv
<1>2. \A r \in day : /\ r \in rows /\ r.vm = v /\ r.start \in Nat
                     /\ r.status \in {"OK", "ERR"} /\ (Ok(r.status) <=> r.status = "OK")
  BY RowType DEF IInv, OnDay, Window, ResultsOf, Ok
<1>3. Dot(v, d) = "fail" <=> \E r \in day : r.status = "ERR"
  BY <1>2 DEF Dot
<1> HIDE DEF day
<1>4. ASSUME DigestDot(v, d) = "fail" PROVE Dot(v, d) = "fail"
  <2>1. DigestDay(v, d) # {} /\ DigestDay(v, d) \subseteq rows
    BY <1>1, <1>2, <1>4 DEF DigestDot
  <2>2. PICK m \in DigestDay(v, d) : \A q \in DigestDay(v, d) : q.start <= m.start
    BY <2>1, LastExists DEF IInv
  <2>3. ~Ok(m.status)
    BY <1>4, <2>2 DEF DigestDot
  <2> QED BY <1>1, <1>2, <1>3, <2>2, <2>3
<1>5. DigestDot(v, d) = "none" <=> day = before
  <2>1. DigestDot(v, d) = "none" <=> DigestDay(v, d) = {}
    BY DEF DigestDot
  <2> QED BY <1>1, <2>1
<1>6. ASSUME DigestDot(v, d) = "ok", Dot(v, d) = "fail"
      PROVE  \E f \in before \cup undone : f.status = "ERR"
  <2>1. PICK r \in DigestDay(v, d) : Ok(r.status) /\ \A q \in DigestDay(v, d) : q.start <= r.start
    BY <1>6 DEF DigestDot
  <2>2. PICK f \in day : f.status = "ERR"
    BY <1>3, <1>6
  <2>3. ASSUME f.cluster = cluster PROVE f \in undone
    <3>1. r \in day /\ r.status = "OK" /\ f.start <= r.start
      BY <1>1, <1>2, <2>1, <2>3
    <3>2. f.start # r.start
      BY <1>2, <2>2, <3>1 DEF IInv, OneResultAtATime
    <3> QED BY <1>2, <3>1, <3>2
  <2> QED BY <2>2, <2>3
<1>7. ASSUME AllOk, Dot(v, d) = "fail" PROVE \E f \in before : f.status = "ERR"
  <2>1. PICK f \in day : f.status = "ERR"
    BY <1>3, <1>7
  <2>2. f.cluster # cluster
    <3> SUFFICES ASSUME f \in DigestDay(v, d) PROVE FALSE
      BY <1>1
    <3>1. f \in DigestRows /\ f.vm = v /\ ~Ok(f.status)
      BY <1>2, <2>1 DEF DigestDay
    <3> QED BY <1>7, <3>1 DEF AllOk, DigestVms, Failures
  <2> QED BY <2>1, <2>2
<1> QED BY <1>4, <1>5, <1>6, <1>7 DEF day

\* The digest tells the same of its days as the page, except for failures that a
\* success followed on the same day and results of an earlier cluster id.
THEOREM DigestTellsTheSame == Spec => []DigestAndPageAgree
<1>1. IInv => DigestAndPageAgree
  BY DigestMatchesPage
<1> QED BY <1>1, DashboardInvariant, PTL
=============================================================================
