--------------------------- MODULE QpsChartProofs ---------------------------
(***************************************************************************)
(* Theorems about QpsChart: for any interval, history and movement of the  *)
(* axis, no point of the chart stands for more queries than were captured  *)
(* in its interval, and the intervals inside both windows are exact.       *)
(*                                                                         *)
(* The chart is drawn from an answer, the answer from the packets that     *)
(* were stored when the query ran.  So the invariant says of an answer     *)
(* under way what the properties say of the chart: AnswerCounts, what its  *)
(* counts are counts of, and ChartDrawn, how the points follow from them.  *)
(* That both divisions cut time alike is arithmetic, in the first part.    *)
(***************************************************************************)
EXTENDS QpsChart, TLAPS, FiniteSetTheorems

USE QpsAssumption

-----------------------------------------------------------------------------
(* Buckets *)

LEMMA MultiplesApart ==
  ASSUME NEW p \in Int, NEW q \in Int, NEW t \in Int,
         p * Interval <= t, t < p * Interval + Interval,
         q * Interval <= t, t < q * Interval + Interval
  PROVE  p = q
<1>1. CASE p < q
  <2>1. p + 1 <= q
    BY <1>1
  <2>2. (p + 1) * Interval <= q * Interval
    BY <2>1
  <2> QED  BY <2>2
<1>2. CASE q < p
  <2>1. q + 1 <= p
    BY <1>2
  <2>2. (q + 1) * Interval <= p * Interval
    BY <2>1
  <2> QED  BY <2>2
<1> QED  BY <1>1, <1>2

\* A time lies in the interval of its bucket, which begins on the grid.
LEMMA BucketHolds ==
  ASSUME NEW t \in Int
  PROVE  /\ Bucket(t) \in Int /\ Bucket(t) % Interval = 0
         /\ Bucket(t) <= t /\ t < Bucket(t) + Interval
<1>1. t \div Interval \in Int
  OBVIOUS
<1>2. (t \div Interval) * Interval <= t /\ t < (t \div Interval) * Interval + Interval
  OBVIOUS
<1>3. \A q \in Int : (q * Interval) % Interval = 0
  OBVIOUS
<1> QED  BY <1>1, <1>2, <1>3 DEF Bucket

\* And in no other one.
LEMMA BucketIsOnly ==
  ASSUME NEW t \in Int, NEW b \in Int, b % Interval = 0,
         b <= t, t < b + Interval
  PROVE  Bucket(t) = b
<1> DEFINE p == t \div Interval
           q == b \div Interval
<1>1. p \in Int /\ q \in Int
  OBVIOUS
<1>2. q * Interval = b
  OBVIOUS
<1>3. p * Interval <= t /\ t < p * Interval + Interval
  OBVIOUS
<1> HIDE DEF p, q
<1>4. p = q
  BY <1>1, <1>2, <1>3, MultiplesApart
<1> QED  BY <1>2, <1>4 DEF p, Bucket

-----------------------------------------------------------------------------
(* The invariant *)

\* The rows that a query for the window w counts among the packets.
RowsIn(packets, w, failed) ==
  IF failed THEN {}
  ELSE {p \in packets : w.start <= p.time /\ p.time <= w.end /\ p.direction = kRequest}

RowsOf(rows, b) == {p \in rows : Bucket(p.time) = b}

Counts(rows) ==
  [b \in {Bucket(p.time) : p \in rows} |-> Cardinality(RowsOf(rows, b))]

Drawn(data, w) == [b \in Grid(w) |-> IF b \in DOMAIN data THEN data[b] ELSE 0]

StoreBounded == IsFiniteSet(dns_logs) /\ Cardinality(dns_logs) <= MaxPackets

AnswerCounts ==
  answer # Nothing =>
    /\ answer.asked \in Window /\ answer.stored \subseteq dns_logs
    /\ answer.failed \in BOOLEAN
    /\ answer.data = Counts(RowsIn(answer.stored, answer.asked, answer.failed))

ChartDrawn ==
  qps_series_ # Nothing =>
    LET q == qps_series_
    IN  /\ q.asked \in Window /\ q.shown \in Window
        /\ q.stored \subseteq dns_logs /\ q.failed \in BOOLEAN
        /\ q.points = Drawn(Counts(RowsIn(q.stored, q.asked, q.failed)), q.shown)

ChartInv == TypeOK /\ StoreBounded /\ AnswerCounts /\ ChartDrawn

\* What a count is of: at most the queries captured in its interval, and for an
\* interval inside the window exactly those.
LEMMA CountsAreOfIntervals ==
  ASSUME NEW packets \in SUBSET Packet, IsFiniteSet(packets), NEW w \in Window,
         NEW failed \in BOOLEAN
  PROVE  LET data == Counts(RowsIn(packets, w, failed))
         IN  /\ \A b \in DOMAIN data :
                  /\ b \in Int /\ b % Interval = 0
                  /\ data[b] \in Nat /\ data[b] <= Cardinality(packets)
                  /\ data[b] <= QueriesIn(packets, b)
             /\ ~failed =>
                  \A b \in Int :
                    b % Interval = 0 /\ w.start <= b /\ b + Interval - 1 <= w.end
                    => QueriesIn(packets, b) = IF b \in DOMAIN data THEN data[b] ELSE 0
<1> DEFINE R == RowsIn(packets, w, failed)
           data == Counts(R)
           In(b) == {p \in packets : p.direction = kRequest
                                       /\ b <= p.time /\ p.time < b + Interval}
<1>1. \A p \in packets : p.time \in Int
  BY DEF Packet
<1>2. R \subseteq {p \in packets : p.direction = kRequest}
  BY DEF RowsIn
<1>3. \A b : QueriesIn(packets, b) = Cardinality(In(b))
  BY DEF QueriesIn
<1>4. \A b : IsFiniteSet(In(b)) /\ Cardinality(In(b)) \in Nat
             /\ Cardinality(In(b)) <= Cardinality(packets)
  BY FS_Subset, FS_CardinalityType
<1>5. /\ DOMAIN data = {Bucket(p.time) : p \in R}
      /\ \A b \in DOMAIN data : data[b] = Cardinality(RowsOf(R, b))
  BY DEF Counts
<1> HIDE DEF R, data
<1>6. ASSUME NEW b \in DOMAIN data
      PROVE  /\ b \in Int /\ b % Interval = 0
             /\ data[b] \in Nat /\ data[b] <= Cardinality(packets)
             /\ data[b] <= Cardinality(In(b))
  <2>1. b \in Int /\ b % Interval = 0
    <3>1. PICK p \in R : b = Bucket(p.time)
      BY <1>5
    <3>2. p.time \in Int
      BY <1>1, <1>2
    <3> QED  BY <3>1, <3>2, BucketHolds
  <2>2. RowsOf(R, b) \subseteq In(b)
    <3> SUFFICES ASSUME NEW p \in R, Bucket(p.time) = b PROVE p \in In(b)
      BY DEF RowsOf
    <3>1. p \in packets /\ p.direction = kRequest /\ p.time \in Int
      BY <1>1, <1>2
    <3> QED  BY <3>1, BucketHolds
  <2>3. data[b] = Cardinality(RowsOf(R, b))
    BY <1>5
  <2>4. IsFiniteSet(In(b)) /\ Cardinality(In(b)) \in Nat
        /\ Cardinality(In(b)) <= Cardinality(packets)
    BY <1>4
  <2>5. IsFiniteSet(RowsOf(R, b)) /\ Cardinality(RowsOf(R, b)) <= Cardinality(In(b))
    BY <2>2, <2>4, FS_Subset
  <2>6. Cardinality(RowsOf(R, b)) \in Nat /\ Cardinality(packets) \in Nat
    BY <2>5, FS_CardinalityType
  <2> QED  BY ONLY <2>1, <2>3, <2>4, <2>5, <2>6
<1>7. ASSUME ~failed, NEW b \in Int, b % Interval = 0, w.start <= b,
             b + Interval - 1 <= w.end
      PROVE  Cardinality(In(b)) = IF b \in DOMAIN data THEN data[b] ELSE 0
  <2>1. In(b) = RowsOf(R, b)
    <3>1. ASSUME NEW p \in In(b) PROVE p \in R /\ Bucket(p.time) = b
      <4>1. /\ p \in packets /\ p.direction = kRequest /\ p.time \in Int
            /\ b <= p.time /\ p.time < b + Interval
        BY <1>1
      <4>2. Bucket(p.time) = b
        BY <1>7, <4>1, BucketIsOnly
      <4>3. w.start \in Int /\ w.end \in Int
        BY DEF Window
      <4>4. w.start <= p.time /\ p.time <= w.end
        BY <1>7, <4>1, <4>3
      <4> QED  BY <1>7, <4>1, <4>2, <4>4 DEF R, RowsIn
    <3>2. ASSUME NEW p \in R, Bucket(p.time) = b PROVE p \in In(b)
      <4>1. p \in packets /\ p.direction = kRequest /\ p.time \in Int
        BY <1>1, <1>2
      <4> QED  BY <3>2, <4>1, BucketHolds
    <3> QED  BY <3>1, <3>2 DEF RowsOf
  <2>2. CASE b \in DOMAIN data
    BY <1>5, <2>1, <2>2
  <2>3. CASE b \notin DOMAIN data
    <3>1. RowsOf(R, b) = {}
      BY <1>5, <2>3 DEF RowsOf
    <3> QED  BY <2>1, <2>3, <3>1, FS_EmptySet
  <2> QED  BY <2>2, <2>3
<1> QED  BY <1>3, <1>6, <1>7 DEF R, data

\* More stored packets, more queries.
LEMMA QueriesGrow ==
  ASSUME NEW few, NEW many, few \subseteq many, IsFiniteSet(many), NEW b
  PROVE  /\ QueriesIn(few, b) \in Nat /\ QueriesIn(many, b) \in Nat
         /\ QueriesIn(few, b) <= QueriesIn(many, b)
<1> DEFINE In(S) == {p \in S : p.direction = kRequest
                                 /\ b <= p.time /\ p.time < b + Interval}
<1>1. In(few) \subseteq In(many) /\ In(many) \subseteq many
  OBVIOUS
<1>2. IsFiniteSet(In(many))
  BY <1>1, FS_Subset
<1>3. IsFiniteSet(In(few)) /\ Cardinality(In(few)) <= Cardinality(In(many))
  BY <1>1, <1>2, FS_Subset
<1>4. Cardinality(In(few)) \in Nat /\ Cardinality(In(many)) \in Nat
  BY <1>2, <1>3, FS_CardinalityType
<1> QED  BY <1>3, <1>4 DEF QueriesIn

\* A count of few enough packets is one that the page can draw.
LEMMA CountsAreCounts ==
  ASSUME NEW packets \in SUBSET Packet, IsFiniteSet(packets),
         Cardinality(packets) <= MaxPackets, NEW w \in Window, NEW failed \in BOOLEAN
  PROVE  IsCount(Counts(RowsIn(packets, w, failed)))
<1> DEFINE data == Counts(RowsIn(packets, w, failed))
<1>1. Cardinality(packets) \in Nat
  BY FS_CardinalityType
<1>2. \A b \in DOMAIN data :
        b % Interval = 0 /\ data[b] \in Nat /\ data[b] <= Cardinality(packets)
  BY CountsAreOfIntervals
<1> HIDE DEF data
<1>3. \A b \in DOMAIN data : b % Interval = 0 /\ data[b] \in 0..MaxPackets
  BY <1>1, <1>2
<1> QED  BY <1>3 DEF IsCount, data

\* And so is what the page makes of it.
LEMMA DrawnIsCount ==
  ASSUME NEW data, IsCount(data), NEW w
  PROVE  IsCount(Drawn(data, w))
BY DEF IsCount, Drawn, Grid

\* The live window is a window.
LEMMA LiveWindowType == TypeOK => LiveWindow \in Window
BY DEF TypeOK, LiveWindow, Window

\* What holds of smaller sets of packets holds of the larger one.
LEMMA PacketsStay ==
  ASSUME ChartInv, dns_logs \subseteq dns_logs', UNCHANGED qps_series_,
         UNCHANGED answer \/ answer' = Nothing
  PROVE  AnswerCounts' /\ ChartDrawn'
BY DEF ChartInv, AnswerCounts, ChartDrawn

LEMMA InitChartInv == Init => ChartInv
<1> SUFFICES ASSUME Init PROVE ChartInv
  OBVIOUS
<1>1. TypeOK
  <2>1. now = History /\ now \in History..MaxTime /\ now \in Int
    BY DEF Init
  <2>2. LiveWindow \in Window
    BY <2>1 DEF LiveWindow, Window
  <2> QED  BY <2>1, <2>2 DEF Init, TypeOK
<1>2. StoreBounded
  BY FS_EmptySet DEF Init, StoreBounded
<1> QED  BY <1>1, <1>2 DEF Init, ChartInv, AnswerCounts, ChartDrawn

LEMMA TickInv == ChartInv /\ Tick => ChartInv'
<1> SUFFICES ASSUME ChartInv, Tick PROVE ChartInv'
  OBVIOUS
<1>1. TypeOK'
  BY DEF ChartInv, TypeOK, Tick, pageVars
<1>2. StoreBounded' /\ AnswerCounts' /\ ChartDrawn'
  BY PacketsStay DEF ChartInv, StoreBounded, Tick, pageVars
<1> QED  BY <1>1, <1>2 DEF ChartInv

LEMMA AddDnsLogInv == ChartInv /\ AddDnsLog => ChartInv'
<1> SUFFICES ASSUME ChartInv, AddDnsLog PROVE ChartInv'
  OBVIOUS
<1>1. /\ Cardinality(dns_logs) < MaxPackets
      /\ UNCHANGED <<now, request, answer, is_manual_view_active_, dragging_, axis_x_,
                     qps_series_>>
  BY DEF AddDnsLog, pageVars
<1>2. PICK t \in 0..now, d \in {kRequest, kResponse} :
        dns_logs' = dns_logs \union
          {[no |-> Cardinality(dns_logs) + 1, time |-> t, direction |-> d]}
  BY DEF AddDnsLog
<1> DEFINE new == [no |-> Cardinality(dns_logs) + 1, time |-> t, direction |-> d]
<1>3. Cardinality(dns_logs) \in Nat /\ IsFiniteSet(dns_logs)
  BY FS_CardinalityType DEF ChartInv, StoreBounded
<1>4. new \in Packet
  <2>1. Cardinality(dns_logs) + 1 \in 1..MaxPackets
    BY <1>1, <1>3
  <2>2. t \in 0..MaxTime
    BY DEF ChartInv, TypeOK
  <2> QED  BY <2>1, <2>2 DEF Packet
<1> HIDE DEF new
<1>5. dns_logs' = dns_logs \union {new}
  BY <1>2 DEF new
<1>6. /\ IsFiniteSet(dns_logs \union {new})
      /\ \/ Cardinality(dns_logs \union {new}) = Cardinality(dns_logs)
         \/ Cardinality(dns_logs \union {new}) = Cardinality(dns_logs) + 1
  BY <1>3, FS_AddElement
<1>7. StoreBounded'
  BY <1>1, <1>3, <1>5, <1>6 DEF StoreBounded
<1>8. TypeOK'
  BY <1>1, <1>4, <1>5 DEF ChartInv, TypeOK
<1>9. AnswerCounts' /\ ChartDrawn'
  BY <1>1, <1>5, PacketsStay
<1> QED  BY <1>7, <1>8, <1>9 DEF ChartInv

LEMMA GetQpsStatsInv == ChartInv /\ GetQpsStats => ChartInv'
<1> SUFFICES ASSUME ChartInv, GetQpsStats PROVE ChartInv'
  OBVIOUS
<1>1. /\ request # Nothing /\ request' = Nothing
      /\ UNCHANGED <<now, dns_logs, is_manual_view_active_, dragging_, axis_x_,
                     qps_series_>>
  BY DEF GetQpsStats, pageVars
<1>2. PICK failed \in BOOLEAN :
        LET rows == IF failed THEN {} ELSE Counted(request) IN
        answer' = [asked |-> request, failed |-> failed, stored |-> dns_logs,
          data |-> [b \in {Bucket(p.time) : p \in rows} |->
                      Cardinality({p \in rows : Bucket(p.time) = b})]]
  BY DEF GetQpsStats
<1>3. request \in Window /\ dns_logs \in SUBSET Packet
  BY <1>1 DEF ChartInv, TypeOK
<1>4. RowsIn(dns_logs, request, failed) = IF failed THEN {} ELSE Counted(request)
  BY DEF RowsIn, Counted
<1>5. answer' = [asked |-> request, failed |-> failed, stored |-> dns_logs,
                 data |-> Counts(RowsIn(dns_logs, request, failed))]
  BY <1>2, <1>4, Zenon DEF Counts, RowsOf
<1> DEFINE data == Counts(RowsIn(dns_logs, request, failed))
<1>6. IsCount(data)
  BY <1>3, CountsAreCounts DEF ChartInv, StoreBounded
<1> HIDE DEF data
<1>7. /\ answer'.asked = request /\ answer'.failed = failed
      /\ answer'.stored = dns_logs /\ answer'.data = data
  BY <1>5 DEF data
<1>8. TypeOK'
  BY <1>1, <1>3, <1>6, <1>7 DEF ChartInv, TypeOK
<1>9. StoreBounded' /\ ChartDrawn'
  BY <1>1 DEF ChartInv, StoreBounded, ChartDrawn
<1>10. AnswerCounts'
  BY <1>1, <1>3, <1>7 DEF AnswerCounts, data
<1> QED  BY <1>8, <1>9, <1>10 DEF ChartInv

LEMMA HandleQpsStatsReadyInv == ChartInv /\ HandleQpsStatsReady => ChartInv'
<1> SUFFICES ASSUME ChartInv, HandleQpsStatsReady PROVE ChartInv'
  OBVIOUS
<1>1. /\ answer # Nothing /\ answer' = Nothing
      /\ UNCHANGED <<now, dns_logs, request, is_manual_view_active_, dragging_>>
  BY DEF HandleQpsStatsReady
<1> DEFINE shown == IF is_manual_view_active_ THEN axis_x_ ELSE LiveWindow
<1>2. shown \in Window
  BY LiveWindowType DEF ChartInv, TypeOK
<1>3. /\ qps_series_' = [asked |-> answer.asked, failed |-> answer.failed,
           stored |-> answer.stored, shown |-> shown,
           points |-> Drawn(answer.data, shown)]
      /\ axis_x_' = shown
  BY DEF HandleQpsStatsReady, Drawn
<1> HIDE DEF shown
<1>4. /\ answer.asked \in Window /\ answer.stored \subseteq dns_logs
      /\ answer.failed \in BOOLEAN
      /\ answer.data = Counts(RowsIn(answer.stored, answer.asked, answer.failed))
      /\ IsCount(answer.data)
  BY <1>1 DEF ChartInv, TypeOK, AnswerCounts
<1>5. /\ qps_series_'.asked = answer.asked /\ qps_series_'.failed = answer.failed
      /\ qps_series_'.stored = answer.stored /\ qps_series_'.shown = shown
      /\ qps_series_'.points = Drawn(answer.data, shown)
  BY <1>3
<1>6. IsCount(qps_series_'.points)
  BY <1>4, <1>5, DrawnIsCount
<1>7. TypeOK'
  BY <1>1, <1>2, <1>3, <1>4, <1>5, <1>6 DEF ChartInv, TypeOK
<1>8. ChartDrawn'
  BY <1>1, <1>2, <1>4, <1>5 DEF ChartDrawn
<1>9. StoreBounded' /\ AnswerCounts'
  BY <1>1 DEF ChartInv, StoreBounded, AnswerCounts
<1> QED  BY <1>7, <1>8, <1>9 DEF ChartInv

LEMMA ViewInv ==
  ChartInv /\ (OnRefreshTimerTimeout \/ OnInteractionStarted \/ MouseMoveEvent
               \/ OnInteractionFinished \/ SnapBackToLiveView) => ChartInv'
<1> SUFFICES ASSUME ChartInv,
                    OnRefreshTimerTimeout \/ OnInteractionStarted \/ MouseMoveEvent
                      \/ OnInteractionFinished \/ SnapBackToLiveView
             PROVE  ChartInv'
  OBVIOUS
<1>1. /\ UNCHANGED <<now, dns_logs, qps_series_>>
      /\ UNCHANGED answer \/ answer' = Nothing
  BY DEF OnRefreshTimerTimeout, OnInteractionStarted, MouseMoveEvent,
         OnInteractionFinished, SnapBackToLiveView, RequestDataForCurrentView
<1>2. axis_x_' \in Window
  <2>1. UNCHANGED axis_x_ \/ MouseMoveEvent
    BY DEF OnRefreshTimerTimeout, OnInteractionStarted, OnInteractionFinished,
           SnapBackToLiveView
  <2> QED  BY <2>1 DEF MouseMoveEvent, ChartInv, TypeOK, Window
<1>3. request' \in Window \union {Nothing}
  <2>1. \/ UNCHANGED request
        \/ request' = axis_x_ \/ request' = LiveWindow
    BY DEF OnRefreshTimerTimeout, OnInteractionStarted, MouseMoveEvent,
           OnInteractionFinished, SnapBackToLiveView, RequestDataForCurrentView
  <2> QED  BY <2>1, LiveWindowType DEF ChartInv, TypeOK
<1>4. is_manual_view_active_' \in BOOLEAN /\ dragging_' \in BOOLEAN
  BY DEF OnRefreshTimerTimeout, OnInteractionStarted, MouseMoveEvent,
         OnInteractionFinished, SnapBackToLiveView, ChartInv, TypeOK
<1>5. TypeOK'
  BY <1>1, <1>2, <1>3, <1>4 DEF ChartInv, TypeOK
<1>6. StoreBounded'
  BY <1>1 DEF ChartInv, StoreBounded
<1>7. AnswerCounts' /\ ChartDrawn'
  BY <1>1, PacketsStay
<1> QED  BY <1>5, <1>6, <1>7 DEF ChartInv

LEMMA NextChartInv == ChartInv /\ [Next]_vars => ChartInv'
<1> SUFFICES ASSUME ChartInv, [Next]_vars PROVE ChartInv'
  OBVIOUS
<1>1. CASE UNCHANGED vars
  BY <1>1 DEF vars, ChartInv, TypeOK, StoreBounded, AnswerCounts, ChartDrawn
<1>2. CASE Next
  BY <1>2, TickInv, AddDnsLogInv, GetQpsStatsInv, HandleQpsStatsReadyInv, ViewInv DEF Next
<1> QED  BY <1>1, <1>2

-----------------------------------------------------------------------------
(* The theorems *)

\* The inductive invariant of the query rate chart holds in every reachable state.
THEOREM ChartInvariance == Spec => []ChartInv
<1> QED  BY InitChartInv, NextChartInv, PTL DEF Spec

\* Requests, answers, packets, axis and chart are of their types, and counts are
\* on the grid of the intervals.
THEOREM ChartTypeCorrect == Spec => []TypeOK
<1>1. ChartInv => TypeOK
  BY DEF ChartInv
<1> QED  BY <1>1, ChartInvariance, PTL

\* What the chart is drawn from is finite and stored.
LEMMA ChartPackets ==
  ASSUME ChartInv, qps_series_ # Nothing
  PROVE  /\ qps_series_.stored \in SUBSET Packet /\ IsFiniteSet(qps_series_.stored)
         /\ qps_series_.stored \subseteq dns_logs /\ IsFiniteSet(dns_logs)
         /\ qps_series_.asked \in Window /\ qps_series_.shown \in Window
         /\ qps_series_.failed \in BOOLEAN
<1>1. dns_logs \subseteq Packet /\ IsFiniteSet(dns_logs)
  BY DEF ChartInv, TypeOK, StoreBounded
<1>2. qps_series_.stored \subseteq dns_logs
  BY DEF ChartInv, ChartDrawn
<1> QED  BY <1>1, <1>2, FS_Subset DEF ChartInv, ChartDrawn

\* Whatever the windows asked for and shown are, a point never stands for more
\* queries than were captured in its interval.
THEOREM NoQueryInvented == Spec => []NeverMoreThanCaptured
<1>1. ASSUME ChartInv, qps_series_ # Nothing, NEW b \in DOMAIN qps_series_.points
      PROVE  qps_series_.points[b] <= QueriesIn(dns_logs, b)
  <2> DEFINE q == qps_series_
             data == Counts(RowsIn(q.stored, q.asked, q.failed))
  <2>1. /\ q.stored \in SUBSET Packet /\ IsFiniteSet(q.stored)
        /\ q.stored \subseteq dns_logs /\ IsFiniteSet(dns_logs)
        /\ q.asked \in Window /\ q.failed \in BOOLEAN
    BY <1>1, ChartPackets
  <2>2. \A c \in DOMAIN data : data[c] \in Nat /\ data[c] <= QueriesIn(q.stored, c)
    BY <2>1, CountsAreOfIntervals
  <2>3. q.points = Drawn(data, q.shown)
    BY <1>1 DEF ChartInv, ChartDrawn
  <2> HIDE DEF data
  <2>4. q.points[b] = IF b \in DOMAIN data THEN data[b] ELSE 0
    BY <1>1, <2>3 DEF Drawn
  <2>5. /\ QueriesIn(q.stored, b) \in Nat /\ QueriesIn(dns_logs, b) \in Nat
        /\ QueriesIn(q.stored, b) <= QueriesIn(dns_logs, b)
    BY <2>1, QueriesGrow
  <2> QED  BY <2>2, <2>4, <2>5
<1>2. ChartInv => NeverMoreThanCaptured
  BY <1>1 DEF NeverMoreThanCaptured
<1> QED  BY <1>2, ChartInvariance, PTL

\* An interval inside both windows is on the chart with exactly the queries that
\* were stored when the query ran, unless the query failed.
THEOREM InnerIntervalsDrawn == Spec => []InnerIntervalsExact
<1>1. ASSUME ChartInv, qps_series_ # Nothing, ~qps_series_.failed,
             NEW b \in 0..MaxTime, b % Interval = 0,
             \A w \in {qps_series_.asked, qps_series_.shown} :
               w.start <= b /\ b + Interval - 1 <= w.end
      PROVE  /\ b \in DOMAIN qps_series_.points
             /\ qps_series_.points[b] = QueriesIn(qps_series_.stored, b)
  <2> DEFINE q == qps_series_
             data == Counts(RowsIn(q.stored, q.asked, q.failed))
  <2>1. /\ q.stored \in SUBSET Packet /\ IsFiniteSet(q.stored)
        /\ q.asked \in Window /\ q.shown \in Window /\ q.failed \in BOOLEAN
    BY <1>1, ChartPackets
  <2>2. b \in Int /\ q.asked.start <= b /\ b + Interval - 1 <= q.asked.end
        /\ q.shown.start <= b /\ b + Interval - 1 <= q.shown.end
    BY <1>1
  <2>3. QueriesIn(q.stored, b) = IF b \in DOMAIN data THEN data[b] ELSE 0
    BY <1>1, <2>1, <2>2, CountsAreOfIntervals
  <2>4. q.points = Drawn(data, q.shown)
    BY <1>1 DEF ChartInv, ChartDrawn
  <2> HIDE DEF data
  <2>5. b \in Grid(q.shown)
    <3>1. q.shown.start \in Int /\ q.shown.end \in Int
      BY <2>1 DEF Window
    <3>2. Bucket(q.shown.start) \in Int /\ Bucket(q.shown.start) <= q.shown.start
      BY <3>1, BucketHolds
    <3>3. Bucket(q.shown.start) <= b /\ b <= q.shown.end
      BY <2>2, <3>1, <3>2
    <3> QED  BY <1>1, <2>2, <3>1, <3>2, <3>3 DEF Grid
  <2> QED  BY <2>3, <2>4, <2>5 DEF Drawn
<1>2. ChartInv => InnerIntervalsExact
  BY <1>1 DEF InnerIntervalsExact
<1> QED  BY <1>2, ChartInvariance, PTL
=============================================================================
