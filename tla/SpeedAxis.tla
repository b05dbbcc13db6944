----------------------------- MODULE SpeedAxis ------------------------------
(***************************************************************************)
(* The vertical axis of the traffic chart.  rescale_y_axis fits it to the  *)
(* points that are visible and inside the time axis; samples, replies, new *)
(* series, the isolation of a series and the drag change all of these, and *)
(* not every one of them is followed by a rescaling.                       *)
(*                                                                         *)
(* MainWindow has the requests, queues and timers behind these steps, and  *)
(* Counters the speeds.  Here the speed of an interface at a time is the   *)
(* same whether it is drawn live or from a reply, the sample that is only  *)
(* the baseline of the next one is left out, and the load under way is the *)
(* newest one, whose queries have been run when it is posted.              *)
(***************************************************************************)
EXTENDS Integers, FiniteSets, FiniteSetsExt

CONSTANTS
  Interfaces,
  NoInterface,    \* the empty isolated_interface_name_
  Speeds,         \* the speeds that may be measured
  Window,         \* kVisibleWindowMinutes
  MinRange,       \* min_y_range
  Tolerance,      \* the change of the axis that is not worth a redraw
  MaxTime,        \* bound: the time of the last sample
  MaxMissing      \* bound: how often an interface is missing from a sample

ASSUME SpeedAxisAssumption ==
  /\ IsFiniteSet(Interfaces) /\ NoInterface \notin Interfaces
  /\ Speeds \subseteq Nat /\ Window \in Nat /\ MinRange \in Nat
  /\ Tolerance \in Nat /\ MaxTime \in Nat /\ MaxMissing \in Nat
  /\ \A s \in Speeds : s > MinRange => s >= 5 * Tolerance

VARIABLES
  now,                       \* the time of the last sample
  stored,                    \* the speeds measured, by interface
  points,                    \* the points drawn, by interface
  series_map_,
  visible,                   \* the interfaces whose series are visible
  isolated_interface_name_,
  replies,                   \* the points still to come of the current load
  is_manual_view_active_,
  dragging_,
  axis_x_,
  axis_y_                    \* its upper end

vars == <<now, stored, points, series_map_, visible, isolated_interface_name_,
          replies, is_manual_view_active_, dragging_, axis_x_, axis_y_>>

Points == [x : 0..MaxTime, y : Speeds]

TypeOK ==
  /\ now \in 0..MaxTime
  /\ stored \in [Interfaces -> SUBSET Points]
  /\ points \in [Interfaces -> SUBSET Points]
  /\ visible \subseteq series_map_ /\ series_map_ \subseteq Interfaces
  /\ isolated_interface_name_ \in series_map_ \union {NoInterface}
  /\ DOMAIN replies \subseteq series_map_
  /\ \A i \in DOMAIN replies : replies[i] \subseteq stored[i]
  /\ is_manual_view_active_ \in BOOLEAN /\ dragging_ \in BOOLEAN
  /\ axis_x_ \in [min : Int, max : Int]
  /\ axis_y_ \in Nat

LiveRange(t) == [min |-> t - Window, max |-> t]

InRange(S, range) == {p \in S : range.min <= p.x /\ p.x <= range.max}

Init ==
  /\ now = 0
  /\ stored = [i \in Interfaces |-> {}]
  /\ points = stored
  /\ series_map_ = {} /\ visible = {}
  /\ isolated_interface_name_ = NoInterface
  /\ replies = <<>>
  /\ is_manual_view_active_ = FALSE /\ dragging_ = FALSE
  /\ axis_x_ = LiveRange(0)
  /\ axis_y_ = MinRange

-----------------------------------------------------------------------------
(* The helpers of main_window *)

Highest(drawn, shown, range) ==
  Max({0} \union UNION {{p.y : p \in InRange(drawn[i], range)} : i \in shown})

\* A fifth of the height is left free above the highest point.
NewMax(drawn, shown, range) == Max({MinRange, (6 * Highest(drawn, shown, range)) \div 5})

\* rescale_y_axis, of what the step has drawn so far.
RescaleYAxis(drawn, shown, range) ==
  LET new == NewMax(drawn, shown, range) IN
  axis_y_' = IF axis_y_ - new > Tolerance \/ new - axis_y_ > Tolerance
             THEN new ELSE axis_y_

\* load_data_for_display
Load(known, range) == replies' = [i \in known |-> InRange(stored[i], range)]

VisibleIn(isolated) ==
  IF isolated = NoInterface THEN series_map_ ELSE series_map_ \intersect {isolated}

\* Mutant of ProcessLoadedDataBatch: the axes are set in the other order.
BatchScaledFirst(drawn) ==
  /\ axis_x_' = IF is_manual_view_active_ THEN axis_x_ ELSE LiveRange(now)
  /\ RescaleYAxis(drawn, visible, axis_x_)
  /\ visible' = VisibleIn(isolated_interface_name_)

\* process_loaded_data_batch: series that will be hidden still count.
ProcessLoadedDataBatch(drawn) ==
  /\ axis_x_' = IF is_manual_view_active_ THEN axis_x_ ELSE LiveRange(now)
  /\ RescaleYAxis(drawn, visible, axis_x_')
  /\ visible' = VisibleIn(isolated_interface_name_)

-----------------------------------------------------------------------------
(* The handlers of main_window *)

\* The samples up to time t from which an interface was missing.
Missing(speeds, t) ==
  {c \in Interfaces \X (1..t) : \A p \in speeds[c[1]] : p.x # c[2]}

\* A sample of some of the interfaces: those that have series are drawn in the
\* live view.
HandleStatsCollected ==
  /\ now < MaxTime
  /\ now' = now + 1
  /\ \E sampled \in SUBSET Interfaces : \E speed \in [sampled -> Speeds] :
       LET new(i) == IF i \in sampled THEN {[x |-> now', y |-> speed[i]]} ELSE {} IN
       /\ stored' = [i \in Interfaces |-> stored[i] \union new(i)]
       /\ Cardinality(Missing(stored', now')) <= MaxMissing
       /\ IF is_manual_view_active_
          THEN UNCHANGED <<points, axis_x_, axis_y_>>
          ELSE /\ points' = [i \in Interfaces |->
                    IF i \in series_map_ \intersect sampled
                    THEN {p \in points[i] \union new(i) : p.x >= now' - 2 * Window}
                    ELSE points[i]]
               /\ axis_x_' = LiveRange(now')
               /\ RescaleYAxis(points', visible, axis_x_')
  /\ UNCHANGED <<series_map_, visible, isolated_interface_name_, replies,
                 is_manual_view_active_, dragging_>>

\* process_new_interfaces: series are created visible, and all are loaded.
ProcessNewInterfaces ==
  /\ \E new \in (SUBSET (Interfaces \ series_map_)) \ {{}} :
       /\ series_map_' = series_map_ \union new
       /\ visible' = visible \union new
       /\ Load(series_map_', LiveRange(now))
  /\ UNCHANGED <<now, stored, points, isolated_interface_name_,
                 is_manual_view_active_, dragging_, axis_x_, axis_y_>>

\* handle_snapshots_loaded
HandleSnapshotsLoaded ==
  /\ \E i \in DOMAIN replies :
       /\ points' = [points EXCEPT ![i] = replies[i]]
       /\ replies' = [j \in DOMAIN replies \ {i} |-> replies[j]]
       /\ IF DOMAIN replies = {i}
          THEN ProcessLoadedDataBatch(points')
          ELSE UNCHANGED <<visible, axis_x_, axis_y_>>
  /\ UNCHANGED <<now, stored, series_map_, isolated_interface_name_,
                 is_manual_view_active_, dragging_>>

\* toggle_series_visibility
ToggleSeriesVisibility ==
  /\ \E name \in series_map_ :
       isolated_interface_name_' =
         IF isolated_interface_name_ = name THEN NoInterface ELSE name
  /\ visible' = VisibleIn(isolated_interface_name_')
  /\ RescaleYAxis(points, visible', axis_x_)
  /\ UNCHANGED <<now, stored, points, series_map_, replies,
                 is_manual_view_active_, dragging_, axis_x_>>

OnInteractionStarted ==
  /\ series_map_ # {}
  /\ dragging_' = TRUE /\ is_manual_view_active_' = TRUE
  /\ UNCHANGED <<now, stored, points, series_map_, visible,
                 isolated_interface_name_, replies, axis_x_, axis_y_>>

\* The drag moves the time axis and leaves the other one.
MouseMoveEvent ==
  /\ dragging_
  /\ \E d \in {-1, 1} :
       /\ axis_x_.min + d >= -Window /\ axis_x_.max + d <= MaxTime
       /\ axis_x_' = [min |-> axis_x_.min + d, max |-> axis_x_.max + d]
  /\ UNCHANGED <<now, stored, points, series_map_, visible,
                 isolated_interface_name_, replies, is_manual_view_active_,
                 dragging_, axis_y_>>

\* Mutant of OnInteractionFinished: the range is not loaded.
FinishWithoutLoad ==
  /\ dragging_
  /\ dragging_' = FALSE
  /\ UNCHANGED <<now, stored, points, series_map_, visible,
                 isolated_interface_name_, is_manual_view_active_, axis_x_,
                 axis_y_, replies>>

OnInteractionFinished ==
  /\ dragging_
  /\ dragging_' = FALSE
  /\ UNCHANGED <<now, stored, points, series_map_, visible,
                 isolated_interface_name_, is_manual_view_active_, axis_x_, axis_y_>>
  /\ Load(series_map_, axis_x_)

\* snap_back_to_live_view, which may come in the middle of a drag.
SnapBackToLiveView ==
  /\ is_manual_view_active_
  /\ is_manual_view_active_' = FALSE
  /\ UNCHANGED <<now, stored, points, series_map_, visible,
                 isolated_interface_name_, dragging_, axis_x_, axis_y_>>
  /\ Load(series_map_, LiveRange(now))

Next ==
  \/ HandleStatsCollected \/ ProcessNewInterfaces \/ HandleSnapshotsLoaded
  \/ ToggleSeriesVisibility
  \/ OnInteractionStarted \/ MouseMoveEvent \/ OnInteractionFinished
  \/ SnapBackToLiveView

Spec == Init /\ [][Next]_vars

-----------------------------------------------------------------------------
(* Properties *)

AtRest == replies = <<>> /\ ~dragging_

\* When no reply is awaited and nothing is dragged, no visible point inside the
\* time axis is cut off, although the axis is not redrawn for small changes and
\* is fitted before the visuals are updated.
NothingCutOff ==
  AtRest => Highest(points, visible, axis_x_) <= axis_y_

\* The axis fits: it is no higher than the visible points ask for either, unless
\* a series is isolated, when those that a load has just hidden may count.
AxisFits ==
  AtRest /\ isolated_interface_name_ = NoInterface =>
    LET fitting == NewMax(points, visible, axis_x_) IN
    axis_y_ - fitting <= Tolerance /\ fitting - axis_y_ <= Tolerance
=============================================================================
