------------------------------ MODULE QpsChart ------------------------------
(***************************************************************************)
(* The query rate chart of dns_page in numbers: database_manager counts    *)
(* the packets of a window in buckets of kChartIntervalSecs, and the page  *)
(* lays out the counts on a grid of its own, of the window that is current *)
(* when the answer arrives.                                                *)
(*                                                                         *)
(* DnsPage has the page's other requests, its timers and the drag.  An     *)
(* answer to an older request is dropped by its id, so the newest request  *)
(* is the only one kept here.                                              *)
(***************************************************************************)
EXTENDS Integers, FiniteSets, FiniteSetsExt

CONSTANTS
  Interval,       \* kChartIntervalSecs
  History,        \* kHistoryDurationSecs
  Shift,          \* by how much the mouse moves the axis at a time
  Nothing,        \* model value: no request, no answer, an empty chart
  MaxPackets,     \* bound: packets stored
  MaxTime         \* bound: the clock, which starts at History

ASSUME QpsAssumption ==
  /\ Interval \in Nat \ {0} /\ History \in Nat /\ Shift \in Nat
  /\ History > Interval
  /\ MaxPackets \in Nat /\ MaxTime \in Nat /\ MaxTime >= History

VARIABLES
  now,                     \* the wall clock
  dns_logs,                \* the packets stored: [no, time, direction]
  request,                 \* the window of the newest request, if not run yet
  answer,                  \* its answer, if on its way, and what was stored
                           \* when it was found
  is_manual_view_active_,
  dragging_,               \* of the chart view
  axis_x_,                 \* the window of the axis
  qps_series_              \* the points drawn, and what they were drawn from

vars == <<now, dns_logs, request, answer, is_manual_view_active_, dragging_,
          axis_x_, qps_series_>>
pageVars == <<is_manual_view_active_, dragging_, axis_x_, qps_series_>>

kRequest == 0
kResponse == 1
Window == [start : Int, end : Int]
Packet == [no : 1..MaxPackets, time : 0..MaxTime, direction : {kRequest, kResponse}]
IsCount(f) == \A b \in DOMAIN f : b % Interval = 0 /\ f[b] \in 0..MaxPackets

TypeOK ==
  /\ now \in History..MaxTime
  /\ dns_logs \subseteq Packet
  /\ request \in Window \union {Nothing}
  /\ answer # Nothing =>
       answer.asked \in Window /\ answer.stored \subseteq Packet /\ IsCount(answer.data)
  /\ is_manual_view_active_ \in BOOLEAN /\ dragging_ \in BOOLEAN
  /\ axis_x_ \in Window
  /\ qps_series_ # Nothing =>
       qps_series_.asked \in Window /\ IsCount(qps_series_.points)

LiveWindow == [start |-> now - History, end |-> now]

Init ==
  /\ now = History
  /\ dns_logs = {}
  /\ request = Nothing /\ answer = Nothing
  /\ is_manual_view_active_ = FALSE /\ dragging_ = FALSE
  /\ axis_x_ = LiveWindow
  /\ qps_series_ = Nothing

-----------------------------------------------------------------------------
(* database_manager *)

Tick ==
  /\ now < MaxTime
  /\ now' = now + 1
  /\ UNCHANGED <<dns_logs, request, answer, pageVars>>

\* add_dns_log: a packet is stored under the time at which it was captured.
AddDnsLog ==
  /\ Cardinality(dns_logs) < MaxPackets
  /\ \E t \in 0..now, d \in {kRequest, kResponse} :
       dns_logs' = dns_logs \union
         {[no |-> Cardinality(dns_logs) + 1, time |-> t, direction |-> d]}
  /\ UNCHANGED <<now, request, answer, pageVars>>

\* Mutant of Bucket: counted to the nearest interval.
NearestBucket(t) == ((t + Interval \div 2) \div Interval) * Interval

\* Where the interval of a time begins.
Bucket(t) == (t \div Interval) * Interval

\* Mutant of Counted: every packet is counted, queries and responses.
CountedBoth(w) == {p \in dns_logs : w.start <= p.time /\ p.time <= w.end}

\* The rows a query counts.
Counted(w) ==
  {p \in dns_logs : w.start <= p.time /\ p.time <= w.end /\ p.direction = kRequest}

\* get_qps_stats: the buckets with a row, or none when the query fails.
GetQpsStats ==
  /\ request # Nothing
  /\ request' = Nothing
  /\ \E failed \in BOOLEAN :
       LET rows == IF failed THEN {} ELSE Counted(request) IN
       answer' = [asked |-> request, failed |-> failed, stored |-> dns_logs,
         data |-> [b \in {Bucket(p.time) : p \in rows} |->
                     Cardinality({p \in rows : Bucket(p.time) = b})]]
  /\ UNCHANGED <<now, dns_logs, pageVars>>

-----------------------------------------------------------------------------
(* dns_page *)

\* request_data_for_current_view, in the view that is current after the step.
RequestDataForCurrentView ==
  /\ request' = IF is_manual_view_active_' THEN axis_x_ ELSE LiveWindow
  /\ answer' = Nothing

OnRefreshTimerTimeout ==
  /\ ~is_manual_view_active_
  /\ UNCHANGED is_manual_view_active_
  /\ RequestDataForCurrentView
  /\ UNCHANGED <<now, dns_logs, dragging_, axis_x_, qps_series_>>

\* The press of the mouse, and on_interaction_started.
OnInteractionStarted ==
  /\ ~dragging_
  /\ dragging_' = TRUE
  /\ is_manual_view_active_' = TRUE
  /\ UNCHANGED <<now, dns_logs, request, answer, axis_x_, qps_series_>>

\* draggable_chartview moves the axis in whichever view the page is by then.
MouseMoveEvent ==
  /\ dragging_
  /\ \E d \in {-Shift, Shift} :
       /\ axis_x_.start + d >= 0 /\ axis_x_.end + d <= MaxTime
       /\ axis_x_' = [start |-> axis_x_.start + d, end |-> axis_x_.end + d]
  /\ UNCHANGED <<now, dns_logs, request, answer, is_manual_view_active_,
                 dragging_, qps_series_>>

\* The release of the mouse, and on_interaction_finished.
OnInteractionFinished ==
  /\ dragging_
  /\ dragging_' = FALSE
  /\ UNCHANGED is_manual_view_active_
  /\ RequestDataForCurrentView
  /\ UNCHANGED <<now, dns_logs, axis_x_, qps_series_>>

\* The timer may fire during a drag as well.
SnapBackToLiveView ==
  /\ is_manual_view_active_
  /\ is_manual_view_active_' = FALSE
  /\ RequestDataForCurrentView
  /\ UNCHANGED <<now, dns_logs, dragging_, axis_x_, qps_series_>>

\* The intervals of the grid, from the one that the window begins in.
Grid(w) == {b \in Bucket(w.start)..w.end : b % Interval = 0}

\* handle_qps_stats_ready: an interval without a count is drawn as zero.
HandleQpsStatsReady ==
  /\ answer # Nothing
  /\ answer' = Nothing
  /\ LET shown == IF is_manual_view_active_ THEN axis_x_ ELSE LiveWindow IN
     /\ qps_series_' = [asked |-> answer.asked, failed |-> answer.failed,
          stored |-> answer.stored, shown |-> shown,
          points |-> [b \in Grid(shown) |->
            IF b \in DOMAIN answer.data THEN answer.data[b] ELSE 0]]
     /\ axis_x_' = shown
  /\ UNCHANGED <<now, dns_logs, request, is_manual_view_active_, dragging_>>

Next ==
  \/ Tick \/ AddDnsLog \/ GetQpsStats
  \/ OnRefreshTimerTimeout \/ HandleQpsStatsReady
  \/ OnInteractionStarted \/ MouseMoveEvent \/ OnInteractionFinished
  \/ SnapBackToLiveView

Spec == Init /\ [][Next]_vars

-----------------------------------------------------------------------------
(* Properties *)

QueriesIn(packets, b) ==
  Cardinality({p \in packets : p.direction = kRequest
                                /\ b <= p.time /\ p.time < b + Interval})

\* A point never stands for more queries than were captured in its interval,
\* although counts and grid come from two divisions in two threads.
NeverMoreThanCaptured ==
  qps_series_ # Nothing =>
    \A b \in DOMAIN qps_series_.points :
      qps_series_.points[b] <= QueriesIn(dns_logs, b)

\* An interval that lies inside both the window asked for and the window shown
\* is on the chart with exactly the queries stored when the query ran, whatever
\* time has passed, and wherever the axis has been moved, before the answer.
\* Only a failed query is drawn as if there had been none.
InnerIntervalsExact ==
  qps_series_ # Nothing /\ ~qps_series_.failed =>
    \A b \in {i \in 0..MaxTime : i % Interval = 0} :
      ( \A w \in {qps_series_.asked, qps_series_.shown} :
          w.start <= b /\ b + Interval - 1 <= w.end )
      => /\ b \in DOMAIN qps_series_.points
         /\ qps_series_.points[b] = QueriesIn(qps_series_.stored, b)
=============================================================================
