# A verification development of SystemMonitor

SystemMonitor is a Qt 6 desktop program that draws the traffic of the network
interfaces and the DNS lookups of the machine, and keeps both in an SQLite
database. This directory holds TLA+ models of it, the TLC configurations that
check them on small instances, and proofs, checked by TLAPS, of theorems that
hold for every instance. Paths in this file are relative to `src/`.

## 1. The program

### Components

| Component | State | Operations | What makes it correct |
|---|---|---|---|
| `main_window` (`main_window.cpp`) | `series_map_` with points and `last_stats`, `new_interfaces_queue_`, `current_load_request_id_`, `pending_queries_count_`, `first_timestamp_`, `is_manual_view_active_`, title, axis range, `snap_back_timer_`, `isolated_interface_name_` | handlers of samples, replies, `database_ready` and `initialization_failed`; `process_new_interfaces`; `load_data_for_display`; `transition_to_live_view`; drag and snap-back; isolation | replies are counted exactly and to the right load; loads and live points together draw the stored traffic once and without a hole; the manual view ends; every interface gets its series |
| `dns_page` (`dns_page.cpp`) | two request ids, manual view, axis range, refresh and snap-back timers, chart, list of domains with current index and selection, details | the three requests and their replies, refresh, snap-back, drag, choice of a domain | chart and list belong to one window, and the details to the current domain; every request is answered or superseded; the manual view ends |
| `draggable_chartview` | `dragging_`, `drag_enabled_` | press, move, release | part of both pages |
| `database_manager` | the connection and its transaction, tables `traffic_snapshots` and `dns_logs` | `initialize` (open, create, prune), `add_snapshots`, `add_dns_log`, four queries | each query is answered on each path; the file holds whole samples in their order, also after failures and crashes |
| `data_collector` | its timer | `start_collection`, `collect_and_emit_stats` | a sample carries the time it was taken, and reaches the database |
| `dns_collector` | the capture device | start and stop of the capture, `process_packet` on the capture thread | packets reach the database; the capture thread never outlives the collector |
| `network_info` | none | `get_all_stats` | what is drawn from its counters is the traffic there was |
| worker threads, `main` | the event loops, the capture thread, the destructor of `main_window` | start, quit, `wait(1000)`, deletion, `shutdown_log` | quitting ends the program, in an order in which nothing that is gone is used |
| tray icon, toolbar, window events | visibility | hide, show, quit | quitting ends the program |
| `log` over `third/spdlog` | the buffer of the log file, its rotated predecessors, the flusher's thread | log, flush, rotate, shut down | recent messages are kept in order; the files stay within their size; what is logged reaches the disk |

### How they interact

There are six threads: the UI thread with `main_window`, `dns_page` and both
chart views; one thread each for `database_manager`, `data_collector` and
`dns_collector`; the capture thread of PcapPlusPlus, on which
`process_packet` runs; and the thread of spdlog that flushes the log every three
seconds. The threads share nothing but the log and, at the end, the objects that
are taken down. They talk through queued Qt
connections, which are set up in `setup_workers` (`main_window.cpp:144-194`): an
emitted signal becomes an event at the end of the event queue of the receiving
thread. So there are two queues that matter, the one of the database thread
(`dbq`) and the one of the UI thread (`uiq`); both are first in, first out.
`QThread::started` runs `initialize` before any queued request is served.
Timers and the user reach the UI thread beside `uiq`: their handlers run between
any two of its events.

`main_window` and `dns_page` share both queues but no state; each only passes
the other's signals on, and `database_ready` is the one event both react to.
`MainWindow` and `DnsPage` below have the events of their own page, in their order.
As no handler looks at the other's events, the interleaving of the two changes
nothing but the time an event waits, which is arbitrary in both.

The other modules look at the same program along other lines: `DatabaseManager`
inside one handler of the database thread, `Workers` over the whole life of the
threads, `Counters`, `QpsChart` and `SpeedAxis` at the numbers that `MainWindow`
and `DnsPage` abstract from, `RotatingFile` below the log.

### What is hard

- The answers to a range query arrive after an arbitrary time, in which a newer
  query may have been sent, live points drawn, interfaces added, or the view
  moved. Everything depends on two counters that tell the answers apart.
- One value (`last_stats`, the axis, the current index of the list) is changed
  both by an answer and by a timer, a sample or a gesture.
- The database may fail at any call, and a loop over the rows of a query may stop
  part-way; its replies are then short, never missing.
- The manual view, in which live data are not drawn, ends by one timer only.
- A failed commit leaves a transaction open, and the next handler runs inside it.
- Interfaces disappear and come back, with counters from zero, between the reads
  of a sample; the wall clock, which the database sorts by, may be set back.
- The program is ended from the UI thread by a destructor that waits for each
  thread for a second and goes on whatever happened.
- A rotation of the log is a dozen system calls, each of which may fail or be the
  last; a write that fails may leave a piece of a message behind.
- The state is spread over two queues, so a test that drives one object with
  direct calls does not meet these orders.

`PROJECT.json` lists each hazard at its line with the properties that guard it.

## 2. The modules

| Module | What it models |
|---|---|
| `TrafficSeries` | the points of a series as pure operators: `handle_snapshots_loaded`, `append_live_data_point` and the two queries of `get_snapshots_in_range` |
| `MainWindow` | `main_window`, its chart view, the collector and the traffic half of `database_manager`, with both queues |
| `BatchLoad` | the abstract promise of `load_data_for_display`, without queues and ids |
| `DnsPage` | `dns_page`, its chart view, `process_packet` and the DNS half of `database_manager`, with both queues |
| `DatabaseManager` | the statements of `database_manager` over a file, with failures, crashes and restarts |
| `DurableStore` | the abstract promise of that file |
| `Workers` | the threads from `setup_workers` to the end of `main`, with the capture and the shutdown of the log |
| `Counters` | byte counters from the kernel over `network_info`, the samples and the rows to what is drawn |
| `QpsChart` | the counts of `get_qps_stats` and the grid that `dns_page` lays them out on |
| `SpeedAxis` | `rescale_y_axis` and what changes under it |
| `RotatingFile` | `rotating_file_sink` and `file_helper` of spdlog as the program uses them |
| `RecentLog` | the abstract promise of the rotated files |
| `MCMainWindow`, `MCDnsPage`, `MCDatabaseManager`, `MCCounters`, `MCSpeedAxis` | the values of the constants for TLC |
| `MainWindowProofs`, `DnsPageProofs`, `DatabaseManagerProofs`, `WorkersProofs`, `CountersProofs`, `QpsChartProofs`, `SpeedAxisProofs`, `RotatingFileProofs` | the theorems and their proofs |

Each handler is one action: what it calls, down to the requests it emits, is
part of its step, since no other handler of the same thread can run in between.
Where other threads, the kernel or a crash can come in between, a handler is
split: into its SQL statements, its reads of files, its system calls.
Variables that model a member keep its name, with its trailing underscore;
actions are named after the functions, in capitals. `Mutant of ...` operators
are deliberately wrong variants of the definition that follows; no specification uses them.
They show that each property can fail: put in the place of the definition,
they make TLC find the property violated.

### TrafficSeries

A snapshot of the byte counters of an interface is its timestamp, and a point
is the pair `[from, x]` of the snapshots it was computed from, or a filler of a
gap with `from = x`. This keeps what matters of `calculate_traffic_speeds`: which
two snapshots it is given. Upload and download series hold the same points and
are one. A primary key makes the timestamps of an interface a set.

### MainWindow

| Code | Action |
|---|---|
| `collect_and_emit_stats` | `CollectStats`, any set of interfaces after any step of the clock |
| `initialize` with `open_database`, `create_tables`, `prune_old_data` | `Initialize` |
| `add_snapshots`, `get_snapshots_in_range` | `AddSnapshots`, `GetSnapshotsInRange` |
| a statement that fails in a transaction left open | `FailedStatement` |
| `handle_stats_collected` with `append_live_data_point` | `HandleStatsCollected` |
| `handle_snapshots_loaded`, for a superseded load and for the current one with `process_loaded_data_batch` | `IgnoreStaleSnapshots`, `HandleSnapshotsLoaded` |
| `on_database_ready`, the lambda on `initialization_failed` | `OnDatabaseReady`, `OnInitializationFailed` and `DismissErrorBox` |
| `process_new_interfaces` with `add_series_for_interface` | `ProcessNewInterfaces` |
| `snap_back_to_live_view` with `transition_to_live_view` | `SnapBackToLiveView` |
| press, move, release with `on_interaction_started`, `on_interaction_finished` | `MousePress`, `MouseMove`, `MouseRelease` |
| `toggle_series_visibility`, `quit_application` | `ToggleSeriesVisibility`, `QuitApplication` |

With `DbMayFail` the database may fail in each call on its own: to open, to
create a table (the connection stays open), to prune, to write any part of a
batch, and in either of the two queries of a range. A query may fail or its loop
`while (query.next())` stop part-way: `Readable` has what may then have been read. A batch
whose commit fails stays visible in its transaction (`open_sample`), which a later
statement may make SQLite roll back (`FailedStatement`): then rows that were drawn are
gone. A second press while the first button is down is handled like the first,
as in `draggable_chart_view.cpp:21`. The modal error box runs a
nested event loop, in which posted events go on being handled but no gesture
reaches the window; dismissing it quits.

Left out: the byte counts (see `Counters`), the y axis (see `SpeedAxis`), colours,
tooltips and the legend. Qt 6 asks the visible windows to close when it is told
to quit, and drops the request when one refuses, as `closeEvent` does;
`DismissErrorBox` therefore leaves open whether the program ends.

### BatchLoad

A load asks for all series at once (`Start`), each answer is taken in and
counted once (`Arrive`), and a newer load replaces an older one. `MainWindow`
implements it under the mapping that takes as `awaiting` the interfaces whose
request of the current id is in `dbq` or whose reply is in `uiq`.

### DnsPage

A reply is abstracted to the window it was asked for; only the domains of the
list matter, because they decide about the selection. The list is its set of
names, the domain at the current index (`current`) and whether a row is selected
(`has_selection`): `handle_all_domains_ready` reads the selection, but
`currentRowChanged` is emitted for the current index, and the two differ when
the user deselects a row. Removing the rows makes the index invalid, which clears
the details; selecting the domain again requests them anew. With `DbMayFail` each
query may fail or stop part-way (`Found`), and the button may be pressed twice, as in
`MainWindow`. The request of the
constructor, emitted before anything is connected, remains as
`current_request_id_ = 1`.

### DatabaseManager and DurableStore

`op` is the handler in progress and the statement it stands at. The committed
`file` outlives the process; the connection reads its own `view`, which is ahead
of the file while a transaction (`tx`) is open. A row carries the number of the
sample it is from, so that an older row in place of a newer one can be seen.

| Code | Action |
|---|---|
| `initialize`: `open_database`, `create_tables`, `prune_old_data` | `OpenDatabase`, `CreateTables`, `PruneTraffic`, `PruneDns` |
| `add_snapshots`: `transaction`, `execBatch`, `rollback`, `commit` | `AddSnapshots`, `InsertRow` for each row, `Rollback`, `Commit` |
| `add_dns_log` | `AddDnsLog` |
| `~database_manager`, the end of the process, the next start | `Close`, `Crash`, `Restart` |

SQLite is external: a statement takes effect as a whole; a failed one leaves its
transaction open or rolls it back (SQLite does either, depending on the error); a
`ROLLBACK` fails only when no transaction is open, so `Rollback` always undoes;
a commit may fail and leave the transaction open; a crash loses what was not
committed. The queries change nothing and are what `WholeSamplesShown` is about.

`DurableStore` stores a sample at once or never. `DatabaseManager` implements it
with `rows` and `dns` of the committed file.

### Workers

`main` is where the UI thread stands: in its event loop, waiting for one of the
three threads in `~main_window`, or in a step after that; `loop` is the state of
each worker's thread and `inbox` its events.

| Code | Action |
|---|---|
| `start_collection`, `collect_and_emit_stats` | `StartCollection`, `CollectStats` |
| `start_capture`, `packet_arrived_callback`, `process_packet` | `StartCapture`, `PacketArrived`, `ProcessPacket` |
| `initialize`; `add_snapshots` and `add_dns_log` | `Initialize`; `StoreEvent` |
| `handle_stats_collected`, `handle_dns_packet_collected` | `ForwardEvent` |
| `quit_application` and the end of `exec()` | `QuitApplication` |
| `~main_window` | `ThreadJoined` and `WaitTimesOut` for each thread, then `DeleteChildren` |
| end of a thread, `~dns_collector` with `stop_capture` | `LeaveLoop`, `StopCapture`, `CaptureStopped`, `FinishThread` |
| a `LOG_` macro in any thread | `LogMessage` |
| `periodic_worker` of spdlog with `registry::flush_all` | `TakeMutex`, `StartWaiting`, `Wake`, `AfterWait`, `BeginFlushAll`, `FlushAll` |
| `shutdown_log`: the flush, `~periodic_worker`, `drop_all` | `FlushDefaultLogger`, `StopFlusher`, `JoinFlusher`, `DropAll` |

Qt and PcapPlusPlus are external: `QThread::quit` ends the loop after the event
being handled, what is queued then is dropped; a running `QThread` that is
destroyed aborts the process; `stopCapture` returns once the capture thread has
ended, which may go on delivering buffered packets until then. Of the log only whether
all of it is flushed is kept; the mutexes that are held over several steps, `mutex_`
and `logger_map_mutex_`, are variables.

### Counters

The kernel transfers bytes, changes links, removes and recreates interfaces at
any time; `network_info` visits the interfaces of its listing one by one and
reads state, received and sent bytes in three steps. A reading carries beside the
`value` in the file what had really `passed` by then, and a sample its number:
the code sees neither, the properties compare with them. `HandleStatsCollected`,
`Load` and `HandleSnapshotsLoaded` store, draw and redraw; whether the view is
live when a sample is handled is left open, and the order of requests and
replies, which `MainWindow` has, is kept only as far as one queue implies it.
A speed is drawn as bytes over an interval, so no division is left.

With `ReadMayFail` a file of an interface that is present may fail to open once.
Its counter then seems to be zero and the next sample shows all it has ever
counted: TLC finds `DrawnIsTraffic` violated. No comment or test of the program
says otherwise, so the run assumes that the files can be read.

### QpsChart

`GetQpsStats` counts the packets of the window that was asked for in buckets that
begin at multiples of the interval; `HandleQpsStatsReady` lays the counts out on
the grid of the window that is current by then, from the interval it begins in.
In between the clock ticks, the mouse moves the axis, and views change. An older
answer is dropped by its id, so only the newest request is kept; failed queries
answer with an empty list.

### SpeedAxis

`RescaleYAxis` fits the axis to the visible points inside the time axis, leaves a
fifth free, has a least height and ignores small changes. Samples, replies, new
series, isolation, drag and snap-back are actions that call it, or do not, at the
places where the code does. A sample has any of the interfaces, and of those it misses
nothing is drawn. A speed is a number of a small set; the same speed is
drawn live and from a reply.

### RotatingFile and RecentLog

`disk` holds the files by index, `buffer` what `fwrite` has not passed on, `op`
the system call that comes next. `sink_it_` is `SinkIt` and `Write`, `rotate_` is
`RemoveTarget`, `Rename` or `RenameFails`, `Reopen` or `ReopenFails`; `OpenSink`,
`Flush`, `CloseSink` and `Crash` are the rest of its life. The mutex of
`base_sink` makes calls exclude each other, so there is one `op`.

`fwrite`, `fflush` and `fclose` may fail as on a full disk: `WriteFails` in `Write`'s
place, `CannotFlush` at the start of a rotation, `FlushFails`, `CloseFails`. What the
system has written by then stays in the file, whole messages and perhaps a piece of
one (`Torn`); the rest goes with the buffer of the C library. The exception leaves
`current_size_` as it was (`rotating_file_sink-inl.h:123-124`). So a message has the size of
what is there of it, and is `counted` once `current_size_` includes it: the code sees
neither, the properties need both. The C library is external; it is taken to be
glibc, which drops what it could not write.

`RecentLog` is a sequence that grows at its new end and shrinks at its old one,
and loses at the new end only by a fault; a fault may also leave the newest message
there in part.

## 3. What TLC checks

All runs stop where the bounds stop the clock and the user, so deadlock is not
checked.

| Run | What it shows |
|---|---|
| `two` | two interfaces that come and go: `TypeOK`; `PendingIsOutstanding`, the count of pending replies is exact; `QueriedInterfaceHasRows`, no query overtakes the first sample; `NewInterfaceNotForgotten`; `IsolationShown`; `ImplementsBatchLoad` |
| `series` | one interface, gaps, drags, snap-backs: `NoTrafficSkipped`, none is left out and the next live point continues the last; `DrawnIsStored`; `ManualAlwaysSnapsBack`; `SeriesBounded`, a series lies within two windows, but for one filler behind the baseline of a load, which may be as old as a row can be |
| `live` | with failures of the database, which may also lose what it has shown: `TrafficDrawnOnce`, no interval is drawn twice; and with fairness `LoadsComplete`, each load is answered or replaced; `SampledInterfaceGetsSeries`; `LiveViewReturns` |
| `dns_page` | two domains, refreshes, packets, drags and snap-backs crossing their answers: `TypeOK`; `PageAgrees`, when nothing is awaited or dragged the chart fills the axis and has the window of the list, and in the manual view this is the range dragged to, for the details of the current domain as well; `NoStaleChart`, once the mouse is released no late live answer is drawn into the history view; `DetailsFollowCurrent` and `NoStaleDetails`, while a domain is current no other one's details come or stay |
| `dns_live` | with failures and fairness: `RequestsAnswered`, every id the bounds allow is superseded or shown, that of the constructor too if the database gets ready; `LiveViewReturns` |
| `db_store` | each statement may fail, the process may be killed twice: `ImplementsDurableStore`; `WholeSamplesShown`, no query sees part of a sample; `OpenTransactionBlocks`, what a transaction that was left open costs |
| `threads` | the program quits at any moment, waits may time out: `CollectorOutlivesCapture`, `LoggerOutlivesThreads`, `OnlyTailLost`; and with fairness `QuitEnds`, `CollectedIsStored`, `LoggedReachesDisk` |
| `traffic` | interfaces that come and go between reads, loads, a clock that is set: `DrawnIsTraffic`, a series shows the traffic between its ends; `SpikeOnlyAtSetBack` |
| `query_rate` | `NeverMoreThanCaptured`; `InnerIntervalsExact`, whatever has moved since the request |
| `speed_axis` | `NothingCutOff`, no visible point is above the axis; `AxisFits`, nor is it higher than asked for |
| `log_files` | `ImplementsRecentLog` through crashes, failed writes and failed renames; `SizeBounded`, what is counted of a file fits it; `NeverReopened`, what a failed reopening costs |
| `enable` | what a message of the program says and the code does not do, see section 6 |

The database does not fail in `series`; that `NoTrafficSkipped` and `SeriesBounded`
hold also when it does is proved. The `TypeOK` of `DatabaseManager`, `Workers`,
`Counters`, `QpsChart`, `SpeedAxis` and `RotatingFile` is no property of a run: those runs are
about the hazards, and the definitions are proved, as parts of the inductive invariants.

### Bounds

- *Time.* The visible window of the traffic chart is one or two units long and the
  clock runs for three to seven windows, so samples leave the window, dragging
  gets enabled (it needs more than one window of data) and series are trimmed.
  Steps of five units are gaps, longer than `MaxDataGap = 3`. Rows of an earlier
  session lie before the window or beyond the retention. On the DNS page the
  window is one unit and the clock makes one step: a record of an earlier
  session then leaves the live window, so each refresh may find another list.
- *Interfaces and domains.* Two are enough for answers of one load to arrive
  apart from each other; properties of one series are checked with one.
- *Gestures.* `MaxGestures` bounds presses and moves; two of them are one drag, or
  two presses, the second on a view that is still manual or with the button still
  down. In `live` and `dns_live` it is one press, which leaves each order of its
  release and the timer. Releases, timers and isolation are not bounded.
- *Queues.* They are bounded by what the other bounds allow to be sent. In
  `DnsPage` `MaxRefreshes` bounds the refresh timer; with the initial load, the
  releases and the snap-backs several requests are under way at once, and their
  answers meet in every order that the queues allow. `LastRequest` is the last id
  that can be given out within these bounds.
- *Database.* Three samples of two interfaces at two times: one that fails and
  leaves a transaction open, one that runs into it, and one after it was ended;
  with equal times a later sample replaces rows of an earlier one. Two crashes let
  the second session crash as well.
- *Threads.* Two samples and a packet, so that order can be lost within a kind and
  between the kinds. More of them repeat the same states of the threads.
- *Counters.* Three bytes are enough for a counter that starts again and is lower
  than before without being zero; the times 1, 2 and 4 have neighbours and a gap.
  Three samples give a series of two points and a load that replaces it.
- *Query rate.* Intervals of two units in a window of four, the clock and the axis
  at odd and even times: the window begins on the grid and off it. Two packets
  share a bucket or do not.
- *Axis.* A speed that fits the least height of the axis and one that does not; the
  window is one unit and there are three samples, so points leave it. One interface
  is missing from one sample (`MaxMissing`).
- *Log.* A file takes one to three messages, there are two older files and six
  messages, so the oldest is removed; a message may be larger than a file. Two
  faults, such as a hole in the chain of files and a fault in a later rotation, or a torn
  write and a restart that measures what it left.

### Fairness

`FairSpec` of `MainWindow` and `DnsPage` assumes weak fairness of the database
thread and of the posted events (both event loops keep running), and of the
timers that are active: the single shot of `process_new_interfaces` and the
snap-back timer. Qt's event loop delivers posted events and expired timers, and
no handler blocks for ever. Nothing is assumed of the user, who may hold the
mouse button for ever, of the collector, of the refresh timer or of the capture.

`FairSpec` of `Workers` assumes that every thread goes on with what it has begun,
and that its event loop serves what was posted and the timer of the collector. No
one has to quit, no packet has to come, and no wait has to time out, so that a
deadlock of the threads would not be hidden by the second that the destructor
waits. Two steps of `main` in `shutdown_log`, which take the mutexes of the
flusher, are assumed to be strongly fair: the flusher takes them again and again, but leaves
them free for three seconds in between. So is `CaptureStopped`, the end of the capture
thread: packets may still be delivered when it is told to stop, but only those
that libpcap has buffered.

## 4. What is proved

Each theorem holds for every value of the constants that the module's `ASSUME`
allows, with failures of the database, of the files and of the threads wherever
the module has them.

| Module | Theorem | Statement |
|---|---|---|
| `MainWindowProofs` | `Invariance` | `Spec => []IInv` |
| | `TypeCorrect` | `Spec => []TypeOK` |
| | `PendingCorrect` | `Spec => []PendingIsOutstanding` |
| | `ManualViewEnds` | `Spec => []ManualAlwaysSnapsBack` |
| | `NewInterfacesScheduled` | `Spec => []NewInterfaceNotForgotten` |
| | `Implementation` | `Spec => ImplementsBatchLoad` |
| | `SeriesInvariance` | `Spec => []SeriesInv` |
| | `NoTrafficTwice` | `Spec => []TrafficDrawnOnce` |
| | `NoTrafficLost` | `Spec => []NoTrafficSkipped` |
| | `SeriesStayShort` | `Spec => []SeriesBounded` |
| | `DrawnStaysStored` | `Spec => []DrawnIsStored` |
| | `QueriesFindRows` | `Spec => []QueriedInterfaceHasRows` |
| | `IsolationIsShown` | `Spec => []IsolationShown` |
| `DnsPageProofs` | `PageInvariant`, `PageTypeCorrect` | `Spec => []PageInv`, `Spec => []TypeOK` |
| | `PartsBelongTogether` | `Spec => []PageAgrees` |
| | `DetailsOfCurrentShown` | `Spec => []DetailsFollowCurrent` |
| | `NoLateChart`, `NoLateDetails` | `Spec => NoStaleChart`, `Spec => NoStaleDetails` |
| `DatabaseManagerProofs` | `DatabaseInvariant`, `DatabaseTypeCorrect` | `Spec => []DBInv`, `Spec => []TypeOK` |
| | `OnlyWholeSamples` | `Spec => []WholeSamplesShown` |
| | `TransactionBlocks` | `Spec => OpenTransactionBlocks` |
| | `FileIsDurable` | `Spec => ImplementsDurableStore` |
| `WorkersProofs` | `WorkersInvariant`, `WorkersTypeCorrect` | `Spec => []WInv`, `Spec => []TypeOK` |
| | `CollectorStays` | `Spec => []CollectorOutlivesCapture` |
| | `LoggerStays` | `Spec => []LoggerOutlivesThreads` |
| | `NothingButTailLost` | `Spec => []OnlyTailLost` |
| `CountersProofs` | `CountersInvariant`, `CountersTypeCorrect` | `Spec => []CountersInv`, `Spec => []TypeOK` |
| | `SnapshotsInOrder` | if files can be read, `Spec => [](CountersInv /\ NumberedOnce /\ ReadInOrder)` |
| | `OnlySetBackSpikes` | if files can be read, `Spec => []SpikeOnlyAtSetBack` |
| | `SeriesShowsTraffic` | if files can be read, `Spec => []DrawnIsTraffic` |
| `RotatingFileProofs` | `RotationInvariance`, `RotatingTypeCorrect` | `Spec => []RotInv`, `Spec => []TypeOK` |
| | `FilesBounded` | `Spec => []SizeBounded` |
| | `FailedReopenEndsLog` | `Spec => NeverReopened` |
| | `LogIsRecentLog` | `Spec => ImplementsRecentLog` |
| `QpsChartProofs` | `ChartInvariance`, `ChartTypeCorrect` | `Spec => []ChartInv`, `Spec => []TypeOK` |
| | `NoQueryInvented` | `Spec => []NeverMoreThanCaptured` |
| | `InnerIntervalsDrawn` | `Spec => []InnerIntervalsExact` |
| `SpeedAxisProofs` | `AxisInvariance`, `AxisTypeCorrect` | `Spec => []AxisInv`, `Spec => []TypeOK` |
| | `PointsAreInside` | `Spec => []NothingCutOff` |
| | `HeightFits` | `Spec => []AxisFits` |

### Assumptions

They give the constants their types, and say that the model values for "none" and
"never" are no interface, time, domain or window. Beyond that: the set of
interfaces is finite; the clock advances between two samples of `MainWindow`; rows
of an earlier session are older than the start; a gap is long enough for its two
fillers to lie inside it; the history of the DNS chart is longer than one of its
intervals and the clock starts at its end or later; the tolerance of the speed axis
is no more than the headroom (a fifth) of any speed above the least height, where the
code has 0.1 and 100; a log file takes at least a byte, and a message has a size. Two
theorems of `CountersProofs`, and the one they follow from, have an assumption of
their own, `ReadMayFail = FALSE`: a file of an interface that is present can be read.

### `MainWindow`

`PendingIsOutstanding` is not inductive: a state in which two
replies of the current load carry the same interface satisfies it, and handling
one of them breaks it. Nor does it exclude a request whose id is greater than the
current one, which the next load would count. So
`IInv` has `LoadsTracked`: the requests and replies of the current load are of
different interfaces, in either queue and across both; no event has an id beyond
the current one; and the count is the number of awaited interfaces.
`TypeOK` says that `pending_queries_count_` is a natural number, which needs the
same fact, for the handler decreases it. It also needs that the timestamps of
points are natural numbers, thus that `Max` and `Min` are applied to finite or
bounded sets: `NothingFromTheFuture` bounds the rows, the queued samples and
the replies by the clock, and the first lemmas derive the extreme elements.
`ShownBeforeDragged` says that nothing is dragged before something was loaded,
which excludes the empty load of `load_data_for_display`, and with it a new
load id that no request carries. `ManualAlwaysSnapsBack` and
`NewInterfaceNotForgotten` are inductive on top of that.

`MainWindowProofs` begins with facts about the operators of `TrafficSeries` and
about what posting, serving and handling an event do to the awaited interfaces; it has
one lemma per action; and at its end each action is shown to be a `Start`, an
`Arrive`, a `Quit` or a stutter of `BatchLoad`.

### The series

What the series hold rests on a second invariant, `SeriesInv`, which is preserved
by steps from states that satisfy `IInv`. A live point is measured from
`last_stats`, a load from the rows, and the two meet without overlap only because
of an order that no single handler sees: `SamplesComeLater`, every sample still on
its way was taken after all that is stored, queued, loaded or drawn.
`SeriesConnected` then says that the measured intervals lie apart, each but the
first starts where another ends, and the last ends at `last_stats`; fillers of
gaps are not measured and do not matter. A load replaces the series and sets
`last_stats` back, so both hold of the older series as well. `EverythingKept` follows
the samples into the database: without failures each one that was handled is in a
queued request or in the rows, and in rows that `initialize` has yet to prune only
if it is also queued. `OneWindowLoaded` bounds every
query, every reply and the axis by one window; a live point drops what is more than
two windows older than itself. A load may draw one point before its window, the filler
behind its baseline: `Compact`, the part of `SeriesConnected` that is `SeriesBounded`,
says that it is the only one, shows no traffic, and goes with the next live point.

`NoTrafficSkipped` is proved for any database, also for one that fails: a sample
that was not stored makes the next interval longer, it does not leave a hole.
`DrawnIsStored` and `QueriedInterfaceHasRows` speak of a database that does not
fail, in their statements and so in the theorems.

### `DnsPage`

The properties speak of a page at rest, when nothing is awaited. The invariant has
to speak of all states: each part of the page either is still to be answered under the
current id, or shows the answer. `OneWindow` says it of chart and list,
`DetailsOfCurrent` of the domain of the details, `ManualWindow` of the range that
was dragged to. They need that the chart is asked for and answered before the list,
`ChartBeforeList`, because a list at rest with a chart still awaited would be of the
same window only by luck; and that no event has an id that is yet to be given out,
`IdsKnown`, since the next request would otherwise be answered by an old reply.

What the theorems do not say, because the code does not do it: in the live view the
details of a domain chosen later are of a later window than the list; when no domain
is current, a late answer fills the table all the same; during a drag the request
of the live view is still the current one, and its answer is drawn over the moved
range until the release asks anew; and an answer to a superseded request for the
details of the domain that is current is as good as that to the last one.

### `DatabaseManager`

`Transaction` says by what the view of the connection is ahead of the file: by
nothing outside a transaction, and in a call of `add_snapshots` by exactly the
rows inserted so far, each over an older one. `WholeStored` says that samples are
whole in the file always, and in the view wherever a query can run. From these a
commit is the one step that stores a sample of `DurableStore`, and every other
step changes the file by a prune, a record, or not at all.

### `Workers`

`ShutdownOrdered` says which threads have ended at each step of `main`:
`LoggerOutlivesThreads` relates `drop_all` to all of them, and their ends to the
steps of the destructor before. `CaptureGuarded` says when the device is open.
`OnlyTailLost` is inductive, but only with facts about sequences: the numbers in
a queue are consecutive from the one stored last, whatever is appended, taken from
its head or dropped with it.

### `Counters`

`CountersInv` is about the chart: a point shows the difference of the two snapshots
it names, it begins where the one before it ended, and the last ends at
`last_stats`. It holds whatever the kernel, the clock and the files do. To relate
what is drawn to what was transferred takes `ReadInOrder`, about readings wherever
they are kept, in rows, replies, points, `last_stats` or half a sample: of two
readings of an interface the later one has all bytes of the earlier one, or its
counter started after the earlier one was read. A clock that is set back reorders the
rows but not the samples, so the invariant goes by their numbers. It is not
inductive alone: `NumberedOnce` says that a number stands for one snapshot of an
interface, and a new sample has a number of its own. `calculate_traffic_speeds`
then draws no more than what passed between two snapshots in order, and in a
series these differences telescope.

The two properties assume that the files of a present interface can be read,
`ReadMayFail = FALSE`, as the run does; without it they do not hold. Sorting a
reply, joining its points and adding up a series are functions along a sequence
here; the module shows that they exist, and that `Sorted` has a snapshot at each
position, since timestamps are unique.

### `RotatingFile`

`Shifting` says where a rotation has come to (the place a file moves to is empty),
`Closed` that no file is open, and nothing buffered, while files are renamed,
`Uncounted` that the message being logged is not in `current_size_` yet, `Measured`
that `current_size_` is no less than what is counted of the open file. Without
`Measured` nothing bounds the files, as the code compares the counter, not the
file. `SizeBounded` can say no more than that of what is counted: a failed write
leaves bytes that the counter does not have, until a restart measures the file.

For the refinement `Numbered` says that what can be read is older than the
message being logged. Sizes and contents of files are functions computed along a
sequence; the first part of the module shows that they exist and what they are for
an appended, a moved and a dropped file. The induction is over positions, on a set
of natural numbers, as a principle with an operator for a parameter is out of reach.

### `QpsChart` and `SpeedAxis`

`AnswerCounts` and `ChartDrawn` say of an answer under way, and of the chart, what
they are counts of. That both divisions, of the query and of the grid, cut time
alike is a lemma of its own.

`NothingCutOff` and `AxisFits` are inductive with four facts: series have finitely
many points, the axis is never lower than its least height (a small change of the
maximum is ignored only relative to the present axis), a load fits the axis to
series that are no fewer than those visible after it, and a gesture needs a series.

## 5. What is only model-checked, and what is not modelled

Only model-checked is liveness: `LoadsComplete`, `SampledInterfaceGetsSeries`, both
`LiveViewReturns`, `RequestsAnswered`, `QuitEnds`, `CollectedIsStored`,
`LoggedReachesDisk`. The prover has no rules for fairness and ENABLED.

### Not modelled

- *What a packet holds.* `process_packet` takes domain, type and answers out of a
  packet with PcapPlusPlus; a packet is a number, a time and a domain.
- *Toolbar and window events.* Switching the page and hiding the window change no
  state that a handler reads; both pages keep handling events while hidden.
- *Colours, tooltips, the legend, tick marks, texts.* No property is about them.
- *The configuration of the log*: the level, the pattern and the two variables of
  the environment. `RotatingFile` assumes sizes that its constructor accepts; with
  others (`atoi` of a text, zero) it throws before the window exists.
- *Bounded queues.* There are none: a database that is slower than the capture
  lets events pile up, in the program as well as in the models.
- *Most of `third/spdlog`.* By far the larger part of the repository's lines is
  the bundled fmt library and the parts of spdlog that the program does not use,
  asynchronous loggers and other sinks. fmt turns a message into text; there is no
  statement of this program about that text that a model could check. What the
  program depends on, the rotated file, the periodic flush and the shutdown, is in
  `RotatingFile` and `Workers`. The loop of a logger over its two sinks is not.
- *A clock that is set while a load is under way in `MainWindow`.* There the clock
  only advances; `Counters` has the clock that is set back.

## 6. Where the program does not do what it says

The run `enable` exhibits the first of these. The others were met while modelling:
each can be followed in the module named, and follows from the lines named.

1. `first_timestamp_` is set only by a reply with two rows (`main_window.cpp:520`).
   With an empty database and a stable set of interfaces the only load finds one
   row each, so dragging is never enabled, however much is drawn, although
   `main_window.cpp:278` speaks of "sufficient data". (`enable`)
2. `on_database_ready` logs "performing initial data load for live view" and calls
   `transition_to_live_view`, which returns at once, because the chart is in the
   live view from the start (`main_window.cpp:198,325`). Nothing is requested.
   Data of an earlier session appear when the first sample of an interface is
   handled. (`MainWindow`, `OnDatabaseReady`)
3. `on_interaction_started` logs "pausing live updates" and starts the five second
   timer, which no move restarts (`main_window.cpp:367`). It fires during a longer
   drag, and samples move the axis under the mouse. (`MainWindow`,
   `SnapBackToLiveView`)
4. After such a drag the view is live at the release, which loads the dragged range
   all the same and starts the timer again. When it fires, "snapback timer fired
   resetting to live view" is logged (`main_window.cpp:379`), and
   `transition_to_live_view` returns at `:325`: the loaded range stays until the
   next load, and the points of the live window in between are missing.
5. `process_new_interfaces` loads the live window for all series also in the manual
   view (`main_window.cpp:353-356`). It supersedes the load of the range that the
   user has dragged to, and nothing of that range is shown until the snap-back.
6. When the database cannot be initialized the program says that it will close, and
   calls `QApplication::quit` (`main_window.cpp:166-167`). With Qt 6 that asks the
   visible window to close, which `closeEvent` refuses while the tray icon is shown
   (`main_window.cpp:725`): the program goes on and stores nothing.
7. A failed commit leaves its transaction open (`database_manager.cpp:155`).
   `add_dns_log` then inserts into it and logs that the record was added
   (`database_manager.cpp:188`); unless SQLite ends the transaction, it is lost.
   `OpenTransactionBlocks` is the general statement.
8. `~main_window` logs "threads cleanup finished" without looking at what
   `wait(1000)` returned (`main_window.cpp:100-102`). After a timeout the running
   `QThread` is destroyed with the window, which aborts the process. (`Workers`,
   `WaitTimesOut` and `DeleteChildren`)
9. When `fwrite` fails part-way, the exception leaves `current_size_` without the bytes
   that are in the file (`rotating_file_sink-inl.h:123-124`). If the disk has room again
   later, the file grows past `max_size_` by these pieces. (`RotatingFile`, `WriteFails`)

## 7. Plan

Done: every component of the program's own code has a module; all safety properties
and all refinements of the passing runs are proved.

Next:

1. What `MainWindow` and `Counters` say of the same loads is related by hand only: that a
   query returns the rows of the samples handled before it was posted is a step of
   `Counters`, and follows in `MainWindow` from the order of `dbq`. It could be stated
   and proved there.
2. Steps of the liveness arguments that need no fairness, as action properties: what
   an awaited reply, a timer or a flush is never without.
