----------------------------- MODULE MainWindow -----------------------------
(***************************************************************************)
(* The traffic half of the program: main_window on the UI thread, the      *)
(* data_collector thread that samples the interfaces, and the thread of    *)
(* database_manager that stores the samples and answers range queries.     *)
(*                                                                         *)
(* The threads share no memory.  They talk through queued Qt connections,  *)
(* which append to the receiving thread's event queue: dbq is the queue of *)
(* the database thread, uiq that of the UI thread.  Timers and the user    *)
(* reach main_window beside uiq, between any two of its events.            *)
(***************************************************************************)
EXTENDS TrafficSeries, Sequences, SequencesExt

CONSTANTS
  Interfaces,      \* the network interfaces get_all_stats may report
  NoInterface,     \* the empty isolated_interface_name_
  NoTime,          \* an invalid QDateTime, or a last_stats never filled in
  StartTime,       \* the time at which the program is started
  History,         \* times of the rows an earlier session may have left
  Steps,           \* by how much the clock may advance between two samples
  VisibleWindow,   \* kVisibleWindowMinutes
  Retention,       \* the days_to_keep of prune_old_data
  DragSteps,       \* by how much one mouse move may shift the x axis
  DbMayFail,       \* whether the database may fail to open, read or write
  MaxTime,         \* bound: no sample is taken after this time
  MaxGestures      \* bound: mouse presses and moves on the chart

ASSUME MainWindowAssumption ==
  /\ IsFiniteSet(Interfaces)
  /\ NoInterface \notin Interfaces
  /\ NoTime \notin Nat
  /\ StartTime \in Nat /\ MaxTime \in Nat
  /\ History \subseteq Nat
  /\ \A t \in History : t < StartTime
  /\ Steps \subseteq Nat \ {0}
  /\ VisibleWindow \in Nat \ {0} /\ Retention \in Nat
  /\ DragSteps \subseteq Int
  /\ DbMayFail \in BOOLEAN
  /\ MaxGestures \in Nat

VARIABLES
  now,                       \* the wall clock
  \* the database thread
  initialized,               \* initialize() has run
  db_open,                   \* db_.isOpen()
  rows,                      \* traffic_snapshots: timestamps by interface
  open_sample,               \* the sample in a transaction left open, or NoTime
  dbq,                       \* events posted to the database thread
  \* main_window, on the UI thread
  uiq,                       \* events posted to the UI thread
  app,                       \* "running", "error_box" or "quit"
  series_map_,               \* the interfaces that have a pair of series
  points,                    \* the points of each interface's series
  last_stats,                \* timestamp of interface_series::last_stats
  visible,                   \* the interfaces whose series are visible
  isolated_interface_name_,
  new_interfaces_queue_,     \* the interfaces waiting for their series
  single_shots,              \* posted calls of process_new_interfaces
  current_load_request_id_,
  pending_queries_count_,
  first_timestamp_,
  is_manual_view_active_,
  title,                     \* of the chart: "live" or "history"
  axis_x_,                   \* the range of the time axis
  snap_back_timer_,          \* whether the timer is active
  \* draggable_chartview, on the UI thread
  drag_enabled_,
  dragging_,
  gestures                   \* counts the user's gestures, up to MaxGestures

collectorVars == <<now>>
storeVars == <<initialized, db_open, rows, open_sample>>
seriesVars == <<series_map_, points, last_stats>>
newVars == <<new_interfaces_queue_, single_shots>>
loadVars == <<current_load_request_id_, pending_queries_count_>>
viewVars == <<is_manual_view_active_, title>>
chartVars == <<dragging_, gestures>>
isolationVars == <<visible, isolated_interface_name_>>

vars == <<collectorVars, storeVars, dbq, uiq, app, seriesVars, newVars,
          loadVars, first_timestamp_, viewVars, axis_x_, snap_back_timer_,
          drag_enabled_, chartVars, isolationVars>>

-----------------------------------------------------------------------------
\* The events of the two queues.

AddRequest(stats, ts) == [type |-> "add", stats |-> stats, ts |-> ts]

GetRequest(id, name, start, end) ==
  [type |-> "get", id |-> id, name |-> name, start |-> start, end |-> end]

StatsCollected(stats, ts) == [type |-> "stats", stats |-> stats, ts |-> ts]

SnapshotsReady(id, name, data) ==
  [type |-> "snapshots", id |-> id, name |-> name, data |-> data]

DatabaseReady == [type |-> "database_ready"]

InitializationFailed == [type |-> "initialization_failed"]

DbRequests ==
  [type : {"add"}, stats : SUBSET Interfaces, ts : Nat]
    \cup [type : {"get"}, id : Nat, name : Interfaces, start : Int, end : Int]

UiEvents ==
  [type : {"stats"}, stats : SUBSET Interfaces, ts : Nat]
    \cup [type : {"snapshots"}, id : Nat, name : Interfaces, data : SUBSET Nat]
    \cup {DatabaseReady, InitializationFailed}

-----------------------------------------------------------------------------
\* Initially the constructor of main_window has returned: the threads are
\* started, the chart is live and empty, and nothing has been requested.

Init ==
  /\ now = StartTime
  /\ initialized = FALSE
  /\ db_open = FALSE
  /\ rows \in [Interfaces -> SUBSET History]
  /\ open_sample = NoTime
  /\ dbq = <<>>
  /\ uiq = <<>>
  /\ app = "running"
  /\ series_map_ = {}
  /\ points = [i \in Interfaces |-> {}]
  /\ last_stats = [i \in Interfaces |-> NoTime]
  /\ visible = {}
  /\ isolated_interface_name_ = NoInterface
  /\ new_interfaces_queue_ = {}
  /\ single_shots = 0
  /\ current_load_request_id_ = 0
  /\ pending_queries_count_ = 0
  /\ first_timestamp_ = NoTime
  /\ is_manual_view_active_ = FALSE
  /\ title = "live"
  /\ axis_x_ = [min |-> StartTime, max |-> StartTime]
  /\ snap_back_timer_ = FALSE
  /\ drag_enabled_ = FALSE
  /\ dragging_ = FALSE
  /\ gestures = 0

-----------------------------------------------------------------------------
\* The collector thread.

\* collect_and_emit_stats: the interfaces that are up are sampled and the
\* sample is posted to the UI thread.
CollectStats ==
  \E d \in Steps, stats \in SUBSET Interfaces :
    /\ app # "quit"
    /\ now + d <= MaxTime
    /\ now' = now + d
    /\ uiq' = Append(uiq, StatsCollected(stats, now'))
    /\ UNCHANGED <<storeVars, dbq, app, seriesVars, newVars, loadVars,
                   first_timestamp_, viewVars, axis_x_, snap_back_timer_,
                   drag_enabled_, chartVars, isolationVars>>

-----------------------------------------------------------------------------
\* The database thread.

uiVars == <<app, seriesVars, newVars, loadVars, first_timestamp_, viewVars,
            axis_x_, snap_back_timer_, drag_enabled_, chartVars, isolationVars>>

\* prune_old_data at the end of initialize.
PruneOldData ==
  rows' = [i \in Interfaces |-> {t \in rows[i] : t >= now - Retention}]

\* initialize runs before the thread's event loop, hence before any request.
\* When the tables cannot be created the connection is left open.
Initialize ==
  /\ app # "quit"
  /\ ~initialized
  /\ initialized' = TRUE
  /\ \/ /\ db_open' = TRUE
        /\ PruneOldData
        /\ uiq' = Append(uiq, DatabaseReady)
     \/ /\ DbMayFail
        /\ \/ /\ db_open' = TRUE
              /\ uiq' = Append(uiq, DatabaseReady)  \* only the pruning failed
           \/ /\ db_open' \in BOOLEAN
              /\ uiq' = Append(uiq, InitializationFailed)
        /\ UNCHANGED rows
  /\ UNCHANGED <<collectorVars, open_sample, dbq, uiVars>>

NextRequest(type) ==
  app # "quit" /\ initialized /\ dbq # <<>> /\ Head(dbq).type = type

\* add_snapshots writes one row per interface in a transaction, which cannot be
\* started while another is open.  When it fails, the part of the batch the
\* connection still sees depends on where it failed and on whether the rollback
\* succeeded, and what is seen may be in a transaction that stays open.
AddSnapshots ==
  LET sample == Head(dbq)
  IN /\ NextRequest("add")
     /\ dbq' = Tail(dbq)
     /\ \E written \in SUBSET sample.stats :
          /\ IF db_open /\ open_sample = NoTime
             THEN DbMayFail \/ written = sample.stats
             ELSE written = {}
          /\ rows' = [i \in Interfaces |->
                        IF i \in written THEN rows[i] \cup {sample.ts} ELSE rows[i]]
          /\ \/ UNCHANGED open_sample
             \/ DbMayFail /\ written # {} /\ open_sample' = sample.ts
     /\ UNCHANGED <<collectorVars, initialized, db_open, uiq, uiVars>>

\* A statement that fails may make SQLite roll back the transaction that was left
\* open.  That of a query is followed by its reply; add_dns_log sends none.
FailedStatement ==
  /\ DbMayFail /\ app # "quit" /\ open_sample # NoTime
  /\ rows' = [i \in Interfaces |-> rows[i] \ {open_sample}]
  /\ open_sample' = NoTime
  /\ UNCHANGED <<collectorVars, initialized, db_open, dbq, uiq, uiVars>>

\* What a query that finds the rows S, in the order of their times, may read: it
\* may fail, and the loop over its rows may stop part-way.
Readable(S) == {{}} \cup {{u \in S : u <= t} : t \in S}

\* The results of the two queries of get_snapshots_in_range.
FoundRows(name, start, end) ==
  LET before == LastBefore(rows[name], start)
      within == Within(rows[name], start, end)
  IN IF ~db_open THEN {{}}
     ELSE IF DbMayFail
     THEN {older \cup newer : older \in Readable(before), newer \in Readable(within)}
     ELSE {before \cup within}

\* Mutant of GetSnapshotsInRange: no reply when the database is closed.
GetSnapshotsMuteWhenClosed ==
  /\ NextRequest("get")
  /\ dbq' = Tail(dbq)
  /\ \E data \in FoundRows(Head(dbq).name, Head(dbq).start, Head(dbq).end) :
       uiq' = IF db_open
              THEN Append(uiq, SnapshotsReady(Head(dbq).id, Head(dbq).name, data))
              ELSE uiq
  /\ UNCHANGED <<collectorVars, storeVars, uiVars>>

\* get_snapshots_in_range replies on every path, with what it could read.
GetSnapshotsInRange ==
  /\ NextRequest("get")
  /\ dbq' = Tail(dbq)
  /\ \E data \in FoundRows(Head(dbq).name, Head(dbq).start, Head(dbq).end) :
       uiq' = Append(uiq, SnapshotsReady(Head(dbq).id, Head(dbq).name, data))
  /\ UNCHANGED <<collectorVars, storeVars, uiVars>>

-----------------------------------------------------------------------------
\* main_window: the helpers its handlers share.

\* update_all_visuals: the series that are visible once it has run.
VisibleIn(known, isolated) ==
  IF isolated = NoInterface THEN known ELSE known \cap {isolated}

LiveRange(t) == [min |-> t - VisibleWindow, max |-> t]

\* Mutant of PendingAfterRequest: the count is not reset for the new load.
PendingAccumulated(known) == pending_queries_count_ + Cardinality(known)

PendingAfterRequest(known) == Cardinality(known)

\* Mutant of NextLoadId: the queries of two loads share an id.
SameLoadId == current_load_request_id_

NextLoadId == current_load_request_id_ + 1

\* load_data_for_display: one query for each interface that has series, all
\* under a new request id.  An empty window that has never shown anything
\* counts a request too.
LoadDataForDisplay(known, start, end) ==
  LET names == SetToSeq(known)
      id == NextLoadId
  IN IF known = {} /\ (new_interfaces_queue_ # {} \/ first_timestamp_ # NoTime)
     THEN UNCHANGED <<loadVars, dbq>>
     ELSE /\ current_load_request_id_' = id
          /\ pending_queries_count_' = PendingAfterRequest(known)
          /\ dbq' = dbq \o [k \in 1..Len(names) |->
                              GetRequest(id, names[k], start, end)]

\* Mutant of ProcessLoadedDataBatch: update_all_visuals is forgotten.
BatchWithoutVisuals ==
  /\ axis_x_' = IF is_manual_view_active_ THEN axis_x_ ELSE LiveRange(now)
  /\ UNCHANGED visible

\* process_loaded_data_batch, which the handling of the last reply ends with.
ProcessLoadedDataBatch ==
  /\ axis_x_' = IF is_manual_view_active_ THEN axis_x_ ELSE LiveRange(now)
  /\ visible' = VisibleIn(series_map_, isolated_interface_name_)

\* Mutant of StartSnapBackTimer: the timer is left as it is.
KeepSnapBackTimer == UNCHANGED snap_back_timer_

StartSnapBackTimer == snap_back_timer_' = TRUE

\* Mutant of TransitionToLiveView: a drag in progress keeps the manual view.
TransitionUnlessDragging ==
  IF dragging_ \/ (~is_manual_view_active_ /\ title = "live")
  THEN UNCHANGED <<viewVars, loadVars, dbq>>
  ELSE /\ is_manual_view_active_' = FALSE
       /\ title' = "live"
       /\ LoadDataForDisplay(series_map_, now - VisibleWindow, now)

\* transition_to_live_view returns early in the live view.
TransitionToLiveView ==
  IF ~is_manual_view_active_ /\ title = "live"
  THEN UNCHANGED <<viewVars, loadVars, dbq>>
  ELSE /\ is_manual_view_active_' = FALSE
       /\ title' = "live"
       /\ LoadDataForDisplay(series_map_, now - VisibleWindow, now)

-----------------------------------------------------------------------------
\* main_window: the handlers of the posted events.

NextEvent(type) == app # "quit" /\ uiq # <<>> /\ Head(uiq).type = type

\* Mutant of RequestAddSnapshots: samples are stored in the live view only.
RequestAddWhenLive(stats, ts) ==
  dbq' = IF stats = {} \/ is_manual_view_active_ THEN dbq
         ELSE Append(dbq, AddRequest(stats, ts))

\* Mutant of RequestAddSnapshots: samples are not stored during a load.
RequestAddUnlessLoading(stats, ts) ==
  dbq' = IF stats = {} \/ pending_queries_count_ > 0 THEN dbq
         ELSE Append(dbq, AddRequest(stats, ts))

\* The signal request_add_snapshots; add_snapshots ignores an empty list.
RequestAddSnapshots(stats, ts) ==
  dbq' = IF stats = {} THEN dbq ELSE Append(dbq, AddRequest(stats, ts))

\* Mutant of ScheduleNewInterfaces: nothing is scheduled in the manual view.
ScheduleWhenLive(fresh) ==
  single_shots' =
    IF fresh # {} /\ ~is_manual_view_active_ THEN single_shots + 1
    ELSE single_shots

\* Mutant of ScheduleNewInterfaces: nothing is scheduled before the first
\* data were loaded.
ScheduleAfterFirstLoad(fresh) ==
  single_shots' =
    IF fresh # {} /\ first_timestamp_ # NoTime THEN single_shots + 1
    ELSE single_shots

ScheduleNewInterfaces(fresh) ==
  single_shots' = IF fresh # {} THEN single_shots + 1 ELSE single_shots

\* The interfaces of a sample that get a point: those whose series exist and
\* have a previous snapshot to measure from.
Drawn(stats) == {i \in stats \cap series_map_ : last_stats[i] # NoTime}

\* handle_stats_collected.
HandleStatsCollected ==
  LET stats == Head(uiq).stats
      ts == Head(uiq).ts
      fresh == stats \ (series_map_ \cup new_interfaces_queue_)
  IN /\ NextEvent("stats")
     /\ uiq' = Tail(uiq)
     /\ RequestAddSnapshots(stats, ts)
     /\ new_interfaces_queue_' = new_interfaces_queue_ \cup fresh
     /\ ScheduleNewInterfaces(fresh)
     /\ IF is_manual_view_active_
        THEN UNCHANGED <<points, last_stats, axis_x_, drag_enabled_>>
        ELSE /\ points' = [i \in Interfaces |->
                             IF i \in Drawn(stats)
                             THEN AppendLive(points[i], last_stats[i], ts,
                                             VisibleWindow)
                             ELSE points[i]]
             /\ last_stats' = [i \in Interfaces |->
                                 IF i \in stats \cap series_map_ THEN ts
                                 ELSE last_stats[i]]
             /\ axis_x_' = LiveRange(ts)
             /\ drag_enabled_' =
                  (drag_enabled_ \/ (/\ first_timestamp_ # NoTime
                                     /\ ts - first_timestamp_ > VisibleWindow))
     /\ UNCHANGED <<collectorVars, storeVars, app, series_map_, loadVars,
                    first_timestamp_, viewVars, snap_back_timer_, chartVars,
                    isolationVars>>

\* Mutant of IsStale: replies of superseded loads are not recognised.
IsNeverStale(reply) == FALSE

IsStale(reply) == reply.id # current_load_request_id_

\* handle_snapshots_loaded, for the reply to an earlier load.
IgnoreStaleSnapshots ==
  /\ NextEvent("snapshots")
  /\ IsStale(Head(uiq))
  /\ uiq' = Tail(uiq)
  /\ UNCHANGED <<collectorVars, storeVars, dbq, uiVars>>

\* Mutant of LastStatsAfterLoad: the baseline of the live points is kept.
LastStatsKept(name, data) == last_stats

\* The baseline of the next live point once a reply has been drawn.
LastStatsAfterLoad(name, data) ==
  IF Cardinality(data) >= 2 THEN [last_stats EXCEPT ![name] = Max(data)]
  ELSE last_stats

\* Mutant of SeriesAfterLoad: the loaded points join those already drawn.
AppendToSeries(name, data) ==
  [points EXCEPT ![name] = @ \cup LoadedPoints(data)]

\* QLineSeries::replace with the points of the reply.
SeriesAfterLoad(name, data) == [points EXCEPT ![name] = LoadedPoints(data)]

\* handle_snapshots_loaded, for a reply to the current load.  The snapshots
\* are redrawn only if the interface has series; the reply counts anyway.
HandleSnapshotsLoaded ==
  LET name == Head(uiq).name
      data == Head(uiq).data
      drawn == name \in series_map_
  IN /\ NextEvent("snapshots")
     /\ ~IsStale(Head(uiq))
     /\ uiq' = Tail(uiq)
     /\ points' = IF drawn THEN SeriesAfterLoad(name, data) ELSE points
     /\ last_stats' = IF drawn THEN LastStatsAfterLoad(name, data)
                      ELSE last_stats
     /\ first_timestamp_' =
          IF drawn /\ Cardinality(data) >= 2 /\ first_timestamp_ = NoTime
          THEN Min(data \ {Min(data)}) ELSE first_timestamp_
     /\ pending_queries_count_' = pending_queries_count_ - 1
     /\ IF pending_queries_count_' <= 0 THEN ProcessLoadedDataBatch
        ELSE UNCHANGED <<axis_x_, visible>>
     /\ UNCHANGED <<collectorVars, storeVars, dbq, app, series_map_, newVars,
                    current_load_request_id_, viewVars, snap_back_timer_,
                    drag_enabled_, chartVars, isolated_interface_name_>>

\* on_database_ready.  The DNS page it starts is modelled elsewhere.
OnDatabaseReady ==
  /\ NextEvent("database_ready")
  /\ uiq' = Tail(uiq)
  /\ TransitionToLiveView
  /\ UNCHANGED <<collectorVars, storeVars, app, seriesVars, newVars,
                 first_timestamp_, axis_x_, snap_back_timer_, drag_enabled_,
                 chartVars, isolationVars>>

\* The lambda connected to initialization_failed shows a modal box, in whose
\* nested event loop main_window goes on handling events ...
OnInitializationFailed ==
  /\ NextEvent("initialization_failed")
  /\ uiq' = Tail(uiq)
  /\ app' = "error_box"
  /\ UNCHANGED <<collectorVars, storeVars, dbq, seriesVars, newVars, loadVars,
                 first_timestamp_, viewVars, axis_x_, snap_back_timer_,
                 drag_enabled_, chartVars, isolationVars>>

\* ... and calls QApplication::quit when the user has dismissed it.  Qt asks
\* the visible windows to close first and drops the request if one refuses, as
\* closeEvent does: it hides the window and ignores the event.  So the program
\* quits only if the window was hidden before, which the model leaves open.
DismissErrorBox ==
  /\ app = "error_box"
  /\ app' \in {"running", "quit"}
  /\ UNCHANGED <<collectorVars, storeVars, dbq, uiq, seriesVars, newVars,
                 loadVars, first_timestamp_, viewVars, axis_x_,
                 snap_back_timer_, drag_enabled_, chartVars, isolationVars>>

-----------------------------------------------------------------------------
\* main_window: the timers.

\* add_series_for_interface, for each waiting interface: its series are visible
\* until the visuals are next updated.
AddSeriesForInterfaces(names) ==
  /\ series_map_' = series_map_ \cup names
  /\ visible' = visible \cup (names \ series_map_)

\* process_new_interfaces, posted by a single-shot timer of 0 ms.
ProcessNewInterfaces ==
  LET known == series_map_ \cup new_interfaces_queue_
  IN /\ app # "quit"
     /\ single_shots > 0
     /\ single_shots' = single_shots - 1
     /\ IF new_interfaces_queue_ = {}
        THEN UNCHANGED <<series_map_, visible, new_interfaces_queue_,
                         loadVars, dbq>>
        ELSE /\ AddSeriesForInterfaces(new_interfaces_queue_)
             /\ new_interfaces_queue_' = {}
             /\ LoadDataForDisplay(known, now - VisibleWindow, now)
     /\ UNCHANGED <<collectorVars, storeVars, uiq, app, points, last_stats,
                    first_timestamp_, viewVars, axis_x_, snap_back_timer_,
                    drag_enabled_, chartVars, isolated_interface_name_>>

\* snap_back_to_live_view, when the single-shot timer fires.
SnapBackToLiveView ==
  /\ app # "quit"
  /\ snap_back_timer_
  /\ snap_back_timer_' = FALSE
  /\ TransitionToLiveView
  /\ UNCHANGED <<collectorVars, storeVars, uiq, app, seriesVars, newVars,
                 first_timestamp_, axis_x_, drag_enabled_, chartVars,
                 isolationVars>>

-----------------------------------------------------------------------------
\* The user, while no modal box is open.

OnInteractionStarted ==
  /\ is_manual_view_active_' = TRUE
  /\ title' = IF is_manual_view_active_ THEN title ELSE "history"
  /\ StartSnapBackTimer

OnInteractionFinished ==
  /\ LoadDataForDisplay(series_map_, axis_x_.min, axis_x_.max)
  /\ StartSnapBackTimer

\* mousePressEvent of the chart, also of a press whose release it never saw.
MousePress ==
  /\ app = "running"
  /\ drag_enabled_
  /\ gestures < MaxGestures
  /\ gestures' = gestures + 1
  /\ dragging_' = TRUE
  /\ OnInteractionStarted
  /\ UNCHANGED <<collectorVars, storeVars, dbq, uiq, app, seriesVars, newVars,
                 loadVars, first_timestamp_, axis_x_, drag_enabled_,
                 isolationVars>>

\* mouseMoveEvent: the drag shifts the time axis.
MouseMove ==
  /\ app = "running"
  /\ dragging_
  /\ gestures < MaxGestures
  /\ gestures' = gestures + 1
  /\ \E d \in DragSteps :
       axis_x_' = [min |-> axis_x_.min + d, max |-> axis_x_.max + d]
  /\ UNCHANGED <<collectorVars, storeVars, dbq, uiq, app, seriesVars, newVars,
                 loadVars, first_timestamp_, viewVars, snap_back_timer_,
                 drag_enabled_, dragging_, isolationVars>>

\* mouseReleaseEvent of the chart.
MouseRelease ==
  /\ app = "running"
  /\ dragging_
  /\ dragging_' = FALSE
  /\ OnInteractionFinished
  /\ UNCHANGED <<collectorVars, storeVars, uiq, app, seriesVars, newVars,
                 first_timestamp_, viewVars, axis_x_, drag_enabled_, gestures,
                 isolationVars>>

\* toggle_series_visibility, from a click on a series or its legend marker.
ToggleSeriesVisibility ==
  /\ app = "running"
  /\ \E name \in series_map_ :
       isolated_interface_name_' =
         IF isolated_interface_name_ = name THEN NoInterface ELSE name
  /\ visible' = VisibleIn(series_map_, isolated_interface_name_')
  /\ UNCHANGED <<collectorVars, storeVars, dbq, uiq, app, seriesVars, newVars,
                 loadVars, first_timestamp_, viewVars, axis_x_,
                 snap_back_timer_, drag_enabled_, chartVars>>

\* quit_application, from the menu of the tray icon.  The model stops there:
\* what the worker threads still do reaches no window.
QuitApplication ==
  /\ app # "quit"
  /\ app' = "quit"
  /\ UNCHANGED <<collectorVars, storeVars, dbq, uiq, seriesVars, newVars,
                 loadVars, first_timestamp_, viewVars, axis_x_,
                 snap_back_timer_, drag_enabled_, chartVars, isolationVars>>

-----------------------------------------------------------------------------
DatabaseThread == Initialize \/ AddSnapshots \/ GetSnapshotsInRange

PostedEvents ==
  \/ HandleStatsCollected
  \/ IgnoreStaleSnapshots
  \/ HandleSnapshotsLoaded
  \/ OnDatabaseReady
  \/ OnInitializationFailed

User ==
  MousePress \/ MouseMove \/ MouseRelease \/ ToggleSeriesVisibility
    \/ DismissErrorBox \/ QuitApplication

Next ==
  \/ CollectStats
  \/ DatabaseThread
  \/ FailedStatement
  \/ PostedEvents
  \/ ProcessNewInterfaces
  \/ SnapBackToLiveView
  \/ User

Spec == Init /\ [][Next]_vars

\* Both event loops keep running and an active timer fires.  Nothing is
\* assumed of the user or of the interfaces.
Fairness ==
  /\ WF_vars(DatabaseThread)
  /\ WF_vars(PostedEvents)
  /\ WF_vars(ProcessNewInterfaces)
  /\ WF_vars(SnapBackToLiveView)

FairSpec == Spec /\ Fairness

-----------------------------------------------------------------------------
\* Properties.

\* The state is of the expected type: the queues hold well-formed messages,
\* and the maps of main_window have an entry for known interfaces only.
TypeOK ==
  /\ now \in Nat
  /\ initialized \in BOOLEAN
  /\ db_open \in BOOLEAN
  /\ rows \in [Interfaces -> SUBSET Nat]
  /\ open_sample \in Nat \cup {NoTime}
  /\ dbq \in Seq(DbRequests)
  /\ uiq \in Seq(UiEvents)
  /\ app \in {"running", "error_box", "quit"}
  /\ series_map_ \subseteq Interfaces
  /\ points \in [Interfaces -> SUBSET [from : Nat, x : Nat]]
  /\ last_stats \in [Interfaces -> Nat \cup {NoTime}]
  /\ visible \subseteq series_map_
  /\ isolated_interface_name_ \in series_map_ \cup {NoInterface}
  /\ new_interfaces_queue_ \subseteq Interfaces \ series_map_
  /\ single_shots \in Nat
  /\ current_load_request_id_ \in Nat
  /\ pending_queries_count_ \in Nat
  /\ first_timestamp_ \in Nat \cup {NoTime}
  /\ is_manual_view_active_ \in BOOLEAN
  /\ title \in {"live", "history"}
  /\ axis_x_ \in [min : Int, max : Int]
  /\ snap_back_timer_ \in BOOLEAN
  /\ drag_enabled_ \in BOOLEAN
  /\ dragging_ \in BOOLEAN
  /\ gestures \in Nat

IsCurrentGet(e) == e.type = "get" /\ e.id = current_load_request_id_

IsCurrentReply(e) == e.type = "snapshots" /\ e.id = current_load_request_id_

\* The interfaces whose data the current load has asked for and not yet drawn:
\* the request or the reply of each is still under way.
Awaited ==
  {dbq[k].name : k \in {j \in 1..Len(dbq) : IsCurrentGet(dbq[j])}}
    \cup {uiq[k].name : k \in {j \in 1..Len(uiq) : IsCurrentReply(uiq[j])}}

\* pending_queries_count_ counts the replies that are still to come to the
\* current load, however many replies to superseded loads are under way; so
\* process_loaded_data_batch runs after the last of them and never before.
PendingIsOutstanding == pending_queries_count_ = Cardinality(Awaited)

\* No query overtakes the samples: when get_snapshots_in_range looks for the
\* data of an interface, add_snapshots has been given a sample of it, so the
\* load that process_new_interfaces starts finds at least the first sample.
QueriedInterfaceHasRows ==
  DbMayFail \/
    \A k \in DOMAIN dbq :
      dbq[k].type = "get" =>
        \/ rows[dbq[k].name] # {}
        \/ \E j \in 1..(k - 1) :
             dbq[j].type = "add" /\ dbq[k].name \in dbq[j].stats

MeasuredPoints(name) == {p \in points[name] : IsMeasured(p)}

\* However loads replace the series and live points extend them, no traffic is
\* drawn twice: the intervals of the points of a series do not overlap.
TrafficDrawnOnce ==
  \A name \in Interfaces :
    \A p, q \in MeasuredPoints(name) : p = q \/ p.x <= q.from \/ q.x <= p.from

\* Nor is any left out in the middle or before the next live point: each
\* interval but the first starts where another ends, and the last one ends at
\* last_stats, from which append_live_data_point will measure.
NoTrafficSkipped ==
  \A name \in Interfaces :
    LET M == MeasuredPoints(name)
    IN M # {} =>
         /\ last_stats[name] = Max({p.x : p \in M})
         /\ \A p \in M : \/ \A q \in M : p.from <= q.from
                         \/ \E q \in M : q.x = p.from

\* The rows of an interface that are stored or about to be.
QueuedSamples(name) ==
  {dbq[k].ts : k \in {j \in DOMAIN dbq :
                        dbq[j].type = "add" /\ name \in dbq[j].stats}}

\* What is drawn can be drawn again: both snapshots of every point are in
\* traffic_snapshots or in a request that add_snapshots has yet to serve.
DrawnIsStored ==
  DbMayFail \/
    \A name \in Interfaces : \A p \in MeasuredPoints(name) :
      {p.from, p.x} \subseteq rows[name] \cup QueuedSamples(name)

\* The points that lie more than two visible windows before another one.
FarPoints(name) ==
  {p \in points[name] : \E q \in points[name] : q.x - p.x > 2 * VisibleWindow}

\* Whichever way live points and loaded ones follow each other, a series does
\* not grow with the time: all of its points lie in two visible windows but for
\* one at most, which shows no traffic.  That one is the filler that a load
\* draws right behind its baseline, however long before the window that was.
SeriesBounded ==
  \A name \in Interfaces : \A p, q \in FarPoints(name) : ~IsMeasured(p) /\ p = q

\* The view cannot get stuck in the past: while it is manual the snap-back
\* timer runs, and the title tells which view is shown.
ManualAlwaysSnapsBack ==
  /\ is_manual_view_active_ => snap_back_timer_
  /\ is_manual_view_active_ <=> title = "history"

\* process_new_interfaces is posted whenever an interface waits for its series.
NewInterfaceNotForgotten == new_interfaces_queue_ # {} => single_shots > 0

\* When no reply is awaited, the series of the isolated interface are the only
\* visible ones, and all series are when none is isolated, also after
\* process_new_interfaces has added series, which are created visible.
IsolationShown ==
  pending_queries_count_ = 0 =>
    visible = IF isolated_interface_name_ = NoInterface THEN series_map_
              ELSE {isolated_interface_name_}

\* Loads are what BatchLoad says, each reply being handled once.
BL == INSTANCE BatchLoad WITH
        known <- series_map_,
        load <- current_load_request_id_,
        awaiting <- Awaited,
        pending <- pending_queries_count_,
        running <- app # "quit"

\* load_data_for_display and handle_snapshots_loaded implement BatchLoad, with
\* the database thread and both queues in between.
ImplementsBatchLoad == BL!Spec

\* Every load is answered in full or replaced, whatever fails in the database.
LoadsComplete == BL!FairSpec

\* An interface that is sampled gets its series.
SampledInterfaceGetsSeries ==
  \A name \in Interfaces :
    (\E k \in DOMAIN uiq : uiq[k].type = "stats" /\ name \in uiq[k].stats)
      ~> (name \in series_map_ \/ app = "quit")

\* A user who leaves the chart alone is shown the live view again, loaded.
LiveViewReturns ==
  is_manual_view_active_
    ~> (app = "quit" \/ (~is_manual_view_active_ /\ pending_queries_count_ = 0))

-----------------------------------------------------------------------------
\* What a message of the program says and the code does not do.

\* handle_stats_collected: "sufficient data collected enabling chart dragging".
\* With every reply drawn, a live series whose samples span more than the
\* visible window is sufficient data.
SufficientDataEnablesDragging ==
  [][(/\ HandleStatsCollected
      /\ ~is_manual_view_active_ /\ pending_queries_count_ = 0
      /\ \E name \in Interfaces : \E p, q \in MeasuredPoints(name)' :
           q.x - p.x > VisibleWindow)
       => drag_enabled_']_vars
=============================================================================
