------------------------------- MODULE DnsPage -------------------------------
(***************************************************************************)
(* The DNS half of the program: dns_page on the UI thread, the packets     *)
(* that dns_collector reports, and the thread of database_manager that     *)
(* logs them and answers the three queries of the page.                    *)
(*                                                                         *)
(* The page shows a chart of query counts, the list of the domains seen in *)
(* the same window, and the details of the current domain.  The chart and  *)
(* the list are requested together under one id, the details under another *)
(* one, and the answers come back through the event queue of the UI        *)
(* thread.  What a reply holds is abstracted to the window that was asked  *)
(* for, but for the domains, which decide what happens to the selection.   *)
(***************************************************************************)
EXTENDS Integers, Sequences, FiniteSets, FiniteSetsExt

CONSTANTS
  Domains,          \* the domains that are looked up
  NoDomain,         \* an invalid index in the list of domains
  NoWindow,         \* the window of a part of the page that shows nothing
  NoTime,           \* an invalid QDateTime
  StartTime,        \* the time at which the program is started
  History,          \* times of the records an earlier session may have left
  Retention,        \* the days_to_keep of prune_old_data
  HistoryDuration,  \* kHistoryDurationSecs
  ChartInterval,    \* kChartIntervalSecs
  DragSteps,        \* by how much one mouse move may shift the x axis
  DbMayFail,        \* whether the database may fail to open, read or write
  MaxTime,          \* bound: the clock stops here
  MaxPackets,       \* bound: packets captured
  MaxRefreshes,     \* bound: the refresh timer fires up to this request id
  MaxGestures       \* bound: presses and moves on the chart, selections

ASSUME DnsPageAssumption ==
  /\ NoDomain \notin Domains
  /\ NoTime \notin Nat
  /\ NoWindow \notin [min : Int, max : Int]
  /\ StartTime \in Nat /\ Retention \in Nat
  /\ History \subseteq Nat
  /\ HistoryDuration \in Nat \ {0} /\ ChartInterval \in Nat \ {0}
  /\ DragSteps \subseteq Int
  /\ DbMayFail \in BOOLEAN
  /\ {MaxTime, MaxPackets, MaxRefreshes, MaxGestures} \subseteq Nat

VARIABLES
  now,                         \* the wall clock
  packets,                     \* counts the captured packets
  \* the database thread
  initialized,                 \* initialize() has run
  db_open,                     \* db_.isOpen()
  dns_logs,                    \* the records of the table
  dbq,                         \* events posted to the database thread
  \* dns_page, on the UI thread
  uiq,                         \* events posted to the UI thread
  refresh_timer_,              \* whether the timer is active
  snap_back_timer_,            \* whether the timer is active
  current_request_id_,
  current_details_request_id_,
  is_manual_view_active_,
  axis_x_,                     \* the range of the time axis
  first_timestamp_,
  drag_enabled_,               \* of the page and of its chart view
  chart,                       \* the window asked for, and the one drawn
  domains,                     \* the list: its names, and the window asked for
  current,                     \* the domain at the current index of the list
  has_selection,               \* whether the list has a selected row
  details,                     \* the details: domain and window asked for
  \* draggable_chartview
  dragging_,
  gestures                     \* counts the user's gestures

storeVars == <<initialized, db_open, dns_logs>>
timerVars == <<refresh_timer_, snap_back_timer_>>
dragVars == <<first_timestamp_, drag_enabled_>>
listVars == <<domains, current, has_selection>>
userVars == <<dragging_, gestures>>

vars == <<now, packets, storeVars, dbq, uiq, timerVars, current_request_id_,
          current_details_request_id_, is_manual_view_active_, axis_x_,
          dragVars, chart, listVars, details, userVars>>

-----------------------------------------------------------------------------
\* The windows of time the page asks for, and the events of the two queues.

Window(min, max) == [min |-> min, max |-> max]

LiveWindow == Window(now - HistoryDuration, now)

InWindow(t, w) == w.min <= t /\ t <= w.max

Packet(domain, ts, is_query) ==
  [type |-> "packet", domain |-> domain, ts |-> ts, is_query |-> is_query]

QpsRequest(id, w) == [type |-> "get_qps", id |-> id, asked |-> w]

DomainsRequest(id, w) == [type |-> "get_domains", id |-> id, asked |-> w]

DetailsRequest(id, domain, w) ==
  [type |-> "get_details", id |-> id, domain |-> domain, asked |-> w]

\* "first" is the time of the first point, if there is any.
QpsStatsReady(id, w, first) ==
  [type |-> "qps", id |-> id, asked |-> w, first |-> first]

AllDomainsReady(id, w, names) ==
  [type |-> "domains", id |-> id, asked |-> w, names |-> names]

DnsDetailsReady(id, w, domain) ==
  [type |-> "details", id |-> id, asked |-> w, domain |-> domain]

DatabaseReady == [type |-> "database_ready"]

Windows == [min : Int, max : Int]

DbRequests ==
  [type : {"packet"}, domain : Domains, ts : Nat, is_query : BOOLEAN]
    \cup [type : {"get_qps", "get_domains"}, id : Nat, asked : Windows]
    \cup [type : {"get_details"}, id : Nat, domain : Domains, asked : Windows]

UiEvents ==
  [type : {"packet"}, domain : Domains, ts : Nat, is_query : BOOLEAN]
    \cup [type : {"qps"}, id : Nat, asked : Windows, first : Int \cup {NoTime}]
    \cup [type : {"domains"}, id : Nat, asked : Windows, names : SUBSET Domains]
    \cup [type : {"details"}, id : Nat, asked : Windows, domain : Domains]
    \cup {DatabaseReady}

NoChart == [asked |-> NoWindow, drawn |-> NoWindow]

NoDetails == [domain |-> NoDomain, asked |-> NoWindow]

-----------------------------------------------------------------------------
\* Initially the constructors have returned.  dns_page has requested data from
\* its constructor, when none of its signals was connected yet: only the id
\* remains of that request.

Init ==
  /\ now = StartTime
  /\ packets = 0
  /\ initialized = FALSE
  /\ db_open = FALSE
  /\ \E times \in SUBSET History :
       dns_logs = [type : {"packet"}, domain : Domains, ts : times, is_query : {TRUE}]
  /\ dbq = <<>>
  /\ uiq = <<>>
  /\ refresh_timer_ = FALSE
  /\ snap_back_timer_ = FALSE
  /\ current_request_id_ = 1
  /\ current_details_request_id_ = 0
  /\ is_manual_view_active_ = FALSE
  /\ axis_x_ = Window(StartTime, StartTime)
  /\ first_timestamp_ = NoTime
  /\ drag_enabled_ = FALSE
  /\ chart = NoChart
  /\ domains = [names |-> {}, asked |-> NoWindow]
  /\ current = NoDomain
  /\ has_selection = FALSE
  /\ details = NoDetails
  /\ dragging_ = FALSE
  /\ gestures = 0

-----------------------------------------------------------------------------
\* The clock and the capture thread.

pageVars == <<timerVars, current_request_id_, current_details_request_id_,
              is_manual_view_active_, axis_x_, dragVars, chart, listVars,
              details, userVars>>

Tick ==
  /\ now < MaxTime
  /\ now' = now + 1
  /\ UNCHANGED <<packets, storeVars, dbq, uiq, pageVars>>

\* process_packet reports a query or a response to the UI thread.
ProcessPacket ==
  /\ packets < MaxPackets
  /\ packets' = packets + 1
  /\ \E domain \in Domains, is_query \in BOOLEAN :
       uiq' = Append(uiq, Packet(domain, now, is_query))
  /\ UNCHANGED <<now, storeVars, dbq, pageVars>>

-----------------------------------------------------------------------------
\* The database thread.

\* prune_old_data at the end of initialize.
PruneOldData == dns_logs' = {r \in dns_logs : r.ts >= now - Retention}

\* initialize runs before any request.  Unless it fails it posts database_ready,
\* whether the pruning succeeded or not.
Initialize ==
  /\ ~initialized
  /\ initialized' = TRUE
  /\ \/ db_open' = TRUE /\ PruneOldData /\ uiq' = Append(uiq, DatabaseReady)
     \/ /\ DbMayFail
        /\ \/ db_open' = TRUE /\ uiq' = Append(uiq, DatabaseReady)
           \/ db_open' \in BOOLEAN /\ UNCHANGED uiq
        /\ UNCHANGED dns_logs
  /\ UNCHANGED <<now, packets, dbq, pageVars>>

NextRequest(type) == initialized /\ dbq # <<>> /\ Head(dbq).type = type

\* add_dns_log.
AddDnsLog ==
  /\ NextRequest("packet")
  /\ dbq' = Tail(dbq)
  /\ \/ db_open /\ dns_logs' = dns_logs \cup {Head(dbq)}
     \/ (~db_open \/ DbMayFail) /\ UNCHANGED dns_logs
  /\ UNCHANGED <<now, packets, initialized, db_open, uiq, pageVars>>

Matching(w) == {r \in dns_logs : InWindow(r.ts, w)}

\* What a query may find of the records it matches: all of them, or one of the
\* given parts when it fails or stops part-way.
Found(records, parts) ==
  IF ~db_open THEN {{}}
  ELSE IF DbMayFail THEN {records} \cup parts
  ELSE {records}

Interval(t) == (t \div ChartInterval) * ChartInterval

\* The records of the first intervals, and those of some of the domains.
UpToInterval(records) ==
  {{r \in records : Interval(r.ts) < i} : i \in {Interval(r.ts) : r \in records}}

OfSomeDomains(records) ==
  {{r \in records : r.domain \in names} : names \in SUBSET Domains}

\* The chart counts queries only, by intervals of kChartIntervalSecs.
FirstInterval(records) ==
  LET times == {r.ts : r \in {q \in records : q.is_query}}
  IN IF times = {} THEN NoTime ELSE Interval(Min(times))

QpsFound(w) == Found(Matching(w), UpToInterval(Matching(w)))

DomainsFound(w) == Found(Matching(w), OfSomeDomains(Matching(w)))

\* Mutant of GetQpsStats: a failed query is not answered.
GetQpsStatsMuteOnFailure ==
  /\ NextRequest("get_qps")
  /\ dbq' = Tail(dbq)
  /\ \E records \in QpsFound(Head(dbq).asked) :
       uiq' = IF records = {} THEN uiq
              ELSE Append(uiq, QpsStatsReady(Head(dbq).id, Head(dbq).asked,
                                             FirstInterval(records)))
  /\ UNCHANGED <<now, packets, storeVars, pageVars>>

GetQpsStats ==
  /\ NextRequest("get_qps")
  /\ dbq' = Tail(dbq)
  /\ \E records \in QpsFound(Head(dbq).asked) :
       uiq' = Append(uiq, QpsStatsReady(Head(dbq).id, Head(dbq).asked,
                                        FirstInterval(records)))
  /\ UNCHANGED <<now, packets, storeVars, pageVars>>

GetAllDomains ==
  /\ NextRequest("get_domains")
  /\ dbq' = Tail(dbq)
  /\ \E records \in DomainsFound(Head(dbq).asked) :
       uiq' = Append(uiq, AllDomainsReady(Head(dbq).id, Head(dbq).asked,
                                          {r.domain : r \in records}))
  /\ UNCHANGED <<now, packets, storeVars, pageVars>>

\* get_dns_details_for_domain replies with the records it finds, if any.
GetDnsDetailsForDomain ==
  /\ NextRequest("get_details")
  /\ dbq' = Tail(dbq)
  /\ uiq' = Append(uiq, DnsDetailsReady(Head(dbq).id, Head(dbq).asked,
                                        Head(dbq).domain))
  /\ UNCHANGED <<now, packets, storeVars, pageVars>>

-----------------------------------------------------------------------------
\* dns_page: the requests.

\* Mutant of ViewWindow: the range of the axis is never asked for.
AlwaysLiveWindow == LiveWindow

\* The window that is asked for, which is the axis range in the manual view.
ViewWindow == IF is_manual_view_active_ THEN axis_x_ ELSE LiveWindow

\* request_data_for_current_view, for a window w.
RequestData(w) ==
  /\ current_request_id_' = current_request_id_ + 1
  /\ dbq' = dbq \o <<QpsRequest(current_request_id_', w),
                     DomainsRequest(current_request_id_', w)>>

\* The valid branch of on_domain_selected.
RequestDetails(domain) ==
  /\ current_details_request_id_' = current_details_request_id_ + 1
  /\ dbq' = Append(dbq, DetailsRequest(current_details_request_id_', domain,
                                       ViewWindow))

-----------------------------------------------------------------------------
\* dns_page: the handlers of the posted events.

NextEvent(type) == uiq # <<>> /\ Head(uiq).type = type

\* handle_dns_packet_collected of main_window forwards to the database.
ForwardPacket ==
  /\ NextEvent("packet")
  /\ uiq' = Tail(uiq)
  /\ dbq' = Append(dbq, Head(uiq))
  /\ UNCHANGED <<now, packets, storeVars, pageVars>>

\* on_database_ready emits initial_data_load_requested, upon which
\* trigger_initial_load requests the data and starts the refresh timer.
TriggerInitialLoad ==
  /\ NextEvent("database_ready")
  /\ uiq' = Tail(uiq)
  /\ IF refresh_timer_
     THEN UNCHANGED <<refresh_timer_, current_request_id_, dbq>>
     ELSE /\ refresh_timer_' = TRUE
          /\ IF is_manual_view_active_ THEN UNCHANGED <<current_request_id_, dbq>>
             ELSE RequestData(ViewWindow)
  /\ UNCHANGED <<now, packets, storeVars, snap_back_timer_,
                 current_details_request_id_, is_manual_view_active_, axis_x_,
                 dragVars, chart, listVars, details, userVars>>

\* Mutant of IsStale: replies to superseded requests are not recognised.
IsNeverStale(reply) == FALSE

IsStale(reply) ==
  \/ reply.type \in {"qps", "domains"} /\ reply.id # current_request_id_
  \/ reply.type = "details" /\ reply.id # current_details_request_id_

\* The early returns of the three handlers.
IgnoreStaleReply ==
  /\ NextEvent("qps") \/ NextEvent("domains") \/ NextEvent("details")
  /\ IsStale(Head(uiq))
  /\ uiq' = Tail(uiq)
  /\ UNCHANGED <<now, packets, storeVars, dbq, pageVars>>

\* Dragging is enabled once a query was seen a window's length ago.
EnableDragging(first) ==
  IF drag_enabled_ \/ first = NoTime
  THEN UNCHANGED dragVars
  ELSE /\ first_timestamp_' = IF first_timestamp_ = NoTime THEN first
                              ELSE first_timestamp_
       /\ drag_enabled_' = (now - first_timestamp_' > HistoryDuration)

\* handle_qps_stats_ready.  In the manual view the points are laid out over
\* the range that the axis has by now.
HandleQpsStatsReady ==
  LET drawn == ViewWindow
  IN /\ NextEvent("qps")
     /\ ~IsStale(Head(uiq))
     /\ uiq' = Tail(uiq)
     /\ EnableDragging(Head(uiq).first)
     /\ chart' = [asked |-> Head(uiq).asked, drawn |-> drawn]
     /\ axis_x_' = IF is_manual_view_active_ THEN axis_x_ ELSE drawn
     /\ UNCHANGED <<now, packets, storeVars, dbq, timerVars,
                    current_request_id_, current_details_request_id_,
                    is_manual_view_active_, listVars, details, userVars>>

\* Mutant of ReselectDomain: the domain is selected with signals blocked.
ReselectQuietly(domain) == UNCHANGED <<current_details_request_id_, dbq>>

\* Selecting the previous domain again requests its details.
ReselectDomain(domain) == RequestDetails(domain)

\* Mutant of Keeps: the new list is not searched for the selected domain.
KeepsAnySelection(names) == has_selection

\* Whether the selected domain is found in the new list.
Keeps(names) == has_selection /\ current \in names

\* handle_all_domains_ready.  Removing the rows makes the current index invalid,
\* which clears the details; the selected domain is looked up in the new list.
HandleAllDomainsReady ==
  LET names == Head(uiq).names
      kept == Keeps(names)
  IN /\ NextEvent("domains")
     /\ ~IsStale(Head(uiq))
     /\ uiq' = Tail(uiq)
     /\ domains' = [names |-> names, asked |-> Head(uiq).asked]
     /\ details' = NoDetails
     /\ has_selection' = kept
     /\ current' = IF kept THEN current ELSE NoDomain
     /\ IF kept THEN ReselectDomain(current)
        ELSE UNCHANGED <<current_details_request_id_, dbq>>
     /\ UNCHANGED <<now, packets, storeVars, timerVars, current_request_id_,
                    is_manual_view_active_, axis_x_, dragVars, chart, userVars>>

HandleDnsDetailsReady ==
  /\ NextEvent("details")
  /\ ~IsStale(Head(uiq))
  /\ uiq' = Tail(uiq)
  /\ details' = [domain |-> Head(uiq).domain, asked |-> Head(uiq).asked]
  /\ UNCHANGED <<now, packets, storeVars, dbq, timerVars, current_request_id_,
                 current_details_request_id_, is_manual_view_active_, axis_x_,
                 dragVars, chart, listVars, userVars>>

-----------------------------------------------------------------------------
\* dns_page: the timers.

\* on_refresh_timer_timeout, which does nothing in the manual view.
OnRefreshTimeout ==
  /\ refresh_timer_
  /\ current_request_id_ < MaxRefreshes
  /\ ~is_manual_view_active_
  /\ RequestData(ViewWindow)
  /\ UNCHANGED <<now, packets, storeVars, uiq, timerVars,
                 current_details_request_id_, is_manual_view_active_, axis_x_,
                 dragVars, chart, listVars, details, userVars>>

\* snap_back_to_live_view, when the single-shot timer fires.
SnapBackToLiveView ==
  /\ snap_back_timer_
  /\ snap_back_timer_' = FALSE
  /\ is_manual_view_active_' = FALSE
  /\ RequestData(LiveWindow)
  /\ UNCHANGED <<now, packets, storeVars, uiq, refresh_timer_,
                 current_details_request_id_, axis_x_, dragVars, chart,
                 listVars, details, userVars>>

-----------------------------------------------------------------------------
\* The user.

\* Mutant of StartSnapBackTimer: the timer is left as it is.
KeepSnapBackTimer == UNCHANGED snap_back_timer_

StartSnapBackTimer == snap_back_timer_' = TRUE

\* mousePressEvent of the chart, and on_interaction_started.  The release of an
\* earlier press may not have reached the chart.
MousePress ==
  /\ drag_enabled_
  /\ gestures < MaxGestures
  /\ gestures' = gestures + 1
  /\ dragging_' = TRUE
  /\ is_manual_view_active_' = TRUE
  /\ StartSnapBackTimer
  /\ UNCHANGED <<now, packets, storeVars, dbq, uiq, refresh_timer_,
                 current_request_id_, current_details_request_id_, axis_x_,
                 dragVars, chart, listVars, details>>

\* mouseMoveEvent: the drag shifts the time axis.
MouseMove ==
  /\ dragging_
  /\ gestures < MaxGestures
  /\ gestures' = gestures + 1
  /\ \E d \in DragSteps : axis_x_' = Window(axis_x_.min + d, axis_x_.max + d)
  /\ UNCHANGED <<now, packets, storeVars, dbq, uiq, timerVars,
                 current_request_id_, current_details_request_id_,
                 is_manual_view_active_, dragVars, chart, listVars, details,
                 dragging_>>

\* mouseReleaseEvent of the chart, and on_interaction_finished.
MouseRelease ==
  /\ dragging_
  /\ dragging_' = FALSE
  /\ RequestData(ViewWindow)
  /\ StartSnapBackTimer
  /\ UNCHANGED <<now, packets, storeVars, uiq, refresh_timer_,
                 current_details_request_id_, is_manual_view_active_, axis_x_,
                 dragVars, chart, listVars, details, gestures>>

\* on_domain_selected is connected to currentRowChanged, which is emitted when
\* the current row changes, whatever becomes of the selection.
RequestForCurrent(domain) ==
  IF domain # current THEN RequestDetails(domain)
  ELSE UNCHANGED <<current_details_request_id_, dbq>>

\* With the mouse or the keyboard the user moves the current index of the list,
\* selects its row or removes the selection.
ChooseDomain ==
  /\ gestures < MaxGestures
  /\ gestures' = gestures + 1
  /\ \E domain \in domains.names, selects \in BOOLEAN :
       /\ current' = domain
       /\ has_selection' = selects
       /\ RequestForCurrent(domain)
  /\ UNCHANGED <<now, packets, storeVars, uiq, timerVars, current_request_id_,
                 is_manual_view_active_, axis_x_, dragVars, chart, domains,
                 details, dragging_>>

-----------------------------------------------------------------------------
DatabaseThread ==
  \/ Initialize \/ AddDnsLog
  \/ GetQpsStats \/ GetAllDomains \/ GetDnsDetailsForDomain

PostedEvents ==
  \/ ForwardPacket \/ TriggerInitialLoad \/ IgnoreStaleReply
  \/ HandleQpsStatsReady \/ HandleAllDomainsReady \/ HandleDnsDetailsReady

User == MousePress \/ MouseMove \/ MouseRelease \/ ChooseDomain

Next ==
  \/ Tick \/ ProcessPacket
  \/ DatabaseThread
  \/ PostedEvents
  \/ OnRefreshTimeout \/ SnapBackToLiveView
  \/ User

Spec == Init /\ [][Next]_vars

\* Both event loops keep running and the single-shot timer fires.
Fairness ==
  /\ WF_vars(DatabaseThread)
  /\ WF_vars(PostedEvents)
  /\ WF_vars(SnapBackToLiveView)

FairSpec == Spec /\ Fairness

-----------------------------------------------------------------------------
\* Properties.

\* The state is of the expected type, and the domain at the current index is
\* always one that the list shows.
TypeOK ==
  /\ now \in Nat /\ packets \in Nat /\ gestures \in Nat
  /\ initialized \in BOOLEAN /\ db_open \in BOOLEAN
  /\ dns_logs \subseteq
       [type : {"packet"}, domain : Domains, ts : Nat, is_query : BOOLEAN]
  /\ dbq \in Seq(DbRequests)
  /\ uiq \in Seq(UiEvents)
  /\ refresh_timer_ \in BOOLEAN /\ snap_back_timer_ \in BOOLEAN
  /\ current_request_id_ \in Nat /\ current_details_request_id_ \in Nat
  /\ is_manual_view_active_ \in BOOLEAN
  /\ axis_x_ \in Windows
  /\ first_timestamp_ \in Int \cup {NoTime}
  /\ drag_enabled_ \in BOOLEAN
  /\ chart \in [asked : Windows \cup {NoWindow}, drawn : Windows \cup {NoWindow}]
  /\ domains \in [names : SUBSET Domains, asked : Windows \cup {NoWindow}]
  /\ current \in domains.names \cup {NoDomain}
  /\ has_selection \in BOOLEAN
  /\ details \in [domain : Domains \cup {NoDomain}, asked : Windows \cup {NoWindow}]
  /\ dragging_ \in BOOLEAN

\* The newest requests that have not been answered yet.
DataOutstanding ==
  \/ \E k \in 1..Len(dbq) : /\ dbq[k].type \in {"get_qps", "get_domains"}
                            /\ dbq[k].id = current_request_id_
  \/ \E k \in 1..Len(uiq) : /\ uiq[k].type \in {"qps", "domains"}
                            /\ uiq[k].id = current_request_id_

DetailsOutstanding ==
  \/ \E k \in 1..Len(dbq) : /\ dbq[k].type = "get_details"
                            /\ dbq[k].id = current_details_request_id_
  \/ \E k \in 1..Len(uiq) : /\ uiq[k].type = "details"
                            /\ uiq[k].id = current_details_request_id_

AtRest == ~dragging_ /\ ~DataOutstanding /\ ~DetailsOutstanding

\* While a domain is current, the table of details shows that domain as soon as
\* the request for it is answered, however refreshes, which clear the table and
\* move the current index twice, come in between.  When none is current the
\* table may show any: handle_dns_details_ready does not look at the list.
DetailsFollowCurrent ==
  current # NoDomain /\ ~DetailsOutstanding => details.domain = current

\* When no answer is awaited and nothing is dragged, the chart fills the axis and
\* was asked for the same window as the list.  In the manual view this is the
\* range of the axis, and the details of the current domain were asked for it
\* too; in the live view they may be of another moment than the list.
PageAgrees ==
  AtRest /\ chart # NoChart =>
    /\ chart.drawn = axis_x_
    /\ domains.asked = chart.asked
    /\ is_manual_view_active_ =>
         /\ chart.asked = axis_x_
         /\ current # NoDomain => details.asked = axis_x_

\* Once the mouse has been released in the manual view, what is drawn in the
\* chart was asked for the range it was left at, so a late answer to a live
\* refresh is not drawn.  (While the mouse is down the request of the live view
\* is still the current one, and its answer is drawn over the moved range.)
NoStaleChart ==
  [][chart' # chart /\ is_manual_view_active_ /\ ~dragging_
       => chart'.asked = axis_x_]_vars

\* The details of a domain never appear while another one is current, whichever
\* requests for details are under way.
NoStaleDetails ==
  [][details' # details /\ details' # NoDetails /\ current # NoDomain
       => details'.domain = current]_vars

\* A user who leaves the chart alone is shown the live view again.
LiveViewReturns == is_manual_view_active_ ~> ~is_manual_view_active_

\* The last id that can be given out within the bounds: a press may be followed
\* by a release and by a snap-back before and after it.
LastRequest == MaxRefreshes + 3 * MaxGestures

\* initialize() has ended before it could say that the database is ready.
NeverReady ==
  initialized /\ ~refresh_timer_ /\ \A k \in 1..Len(uiq) : uiq[k] # DatabaseReady

\* Every request is superseded, or the chart and the list show its answers, both
\* for the same window, also when the queries fail or stop part-way.  That of
\* the constructor reaches nobody: it is superseded once the database is ready,
\* and stays the current one if it never is.
RequestsAnswered ==
  \A id \in 1..LastRequest :
    current_request_id_ = id
      ~> \/ current_request_id_ # id
         \/ /\ id > 1
            /\ ~DataOutstanding /\ chart # NoChart /\ chart.asked = domains.asked
         \/ id = 1 /\ NeverReady
=============================================================================
