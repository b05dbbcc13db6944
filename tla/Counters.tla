------------------------------ MODULE Counters ------------------------------
(***************************************************************************)
(* The byte counters of the network interfaces on their way to the chart:  *)
(* the kernel, whose interfaces come and go while network_info reads their *)
(* files one after another, the samples, the rows of the database and the  *)
(* traffic that main_window draws from the difference of two snapshots.    *)
(*                                                                         *)
(* MainWindow has the order of samples, loads and replies; here every      *)
(* interface has its series, whether the view is live when a sample is     *)
(* handled is left open, and since writes and queries share one queue, a   *)
(* query returns the rows of the samples handled before it was posted.     *)
(*                                                                         *)
(* A speed is drawn as bytes over an interval.  Each reading carries what  *)
(* the kernel had really transferred when it was taken ("passed"), and     *)
(* each sample its number: the code sees neither.                          *)
(***************************************************************************)
EXTENDS Integers, Sequences, SequencesExt, FiniteSetsExt

CONSTANTS
  Names,           \* the interfaces whose name has no ignored prefix
  NoSample,        \* model value: an empty last_stats, a reply not under way
  MaxDataGap,      \* kMaxDataGapSeconds, in the unit of the timestamps
  Window,          \* kDataBufferFactor * kVisibleWindowMinutes
  ClockMayBeSet,   \* whether the wall clock may be set back
  ReadMayFail,     \* whether a file of a present interface may fail to open
  MaxTraffic,      \* bound: bytes transferred, by way
  MaxSamples,      \* bound: samples collected
  Times            \* bound: the timestamps that the wall clock may show

ASSUME CountersAssumption ==
  /\ MaxDataGap \in Nat /\ MaxDataGap >= 2
  /\ Window \in Nat /\ MaxSamples \in Nat
  /\ Times \subseteq Nat \ {0}
  /\ MaxTraffic \in [{"received", "sent"} -> Nat]
  /\ ClockMayBeSet \in BOOLEAN /\ ReadMayFail \in BOOLEAN

VARIABLES
  link,        \* the kernel's interfaces: "gone", "down" or "up"
  passed,      \* the bytes transferred since the start, by interface and way
  base,        \* what had passed when the interface was created: its counters
               \* show what passed since
  listed,      \* network_info: the interfaces of the listing still to visit
  visiting,    \* the interface being read and the file that is next
  readings,    \* what was read so far, by interface and way
  collected,   \* the number of samples
  clock,       \* the timestamp of the last one
  rows,        \* traffic_snapshots
  reply,       \* the rows of the load under way
  last_stats,  \* interface_series::last_stats
  series       \* the points drawn

vars == <<link, passed, base, listed, visiting, readings, collected, clock,
          rows, reply, last_stats, series>>
kernelVars == <<link, passed, base>>
collectorVars == <<listed, visiting, readings, collected, clock>>
chartVars == <<rows, reply, last_stats, series>>

Ways == {"received", "sent"}
Nowhere == <<"none", "idle">>
NotRead == [n \in Names |-> [w \in Ways |-> NoSample]]
Bytes == 0..Max({MaxTraffic[w] : w \in Ways})
Reading == [value : Bytes, passed : Bytes]
Sample == [time : Times, no : 1..MaxSamples, received : Reading, sent : Reading]
Point == [time : Nat, bytes : [Ways -> Bytes], from : Sample, to : Sample]

ASSUME NoSampleAssumption == NoSample \notin Sample \union Reading

TypeOK ==
  /\ link \in [Names -> {"gone", "down", "up"}]
  /\ passed \in [Names -> [Ways -> Bytes]]
  /\ base \in [Names -> [Ways -> Bytes]]
  /\ listed \subseteq Names
  /\ visiting \in {Nowhere} \union ((Names \union {"none"}) \X {"list", "received", "sent"})
  /\ readings \in [Names -> [Ways -> Reading \union {NoSample}]]
  /\ collected \in 0..MaxSamples /\ clock \in {0} \union Times
  /\ rows \in [Names -> SUBSET Sample]
  /\ reply \in [Names -> (SUBSET Sample) \union {NoSample}]
  /\ last_stats \in [Names -> Sample \union {NoSample}]
  /\ series \in [Names -> Seq(Point)]

Init ==
  /\ link \in [Names -> {"gone", "up"}]
  /\ passed = [n \in Names |-> [w \in Ways |-> 0]]
  /\ base = passed
  /\ listed = {} /\ visiting = Nowhere /\ readings = NotRead
  /\ collected = 0 /\ clock = 0
  /\ rows = [n \in Names |-> {}]
  /\ reply = [n \in Names |-> NoSample]
  /\ last_stats = [n \in Names |-> NoSample]
  /\ series = [n \in Names |-> <<>>]

-----------------------------------------------------------------------------
(* The kernel, until the last sample *)

Transfer(n, w) ==
  /\ collected < MaxSamples
  /\ link[n] = "up" /\ passed[n][w] < MaxTraffic[w]
  /\ passed' = [passed EXCEPT ![n][w] = @ + 1]
  /\ UNCHANGED <<link, base, collectorVars, chartVars>>

\* An interface goes up or down and keeps its counters, or it disappears.
ChangeLink(n) ==
  /\ collected < MaxSamples
  /\ link[n] # "gone"
  /\ \E s \in {"gone", "down", "up"} \ {link[n]} : link' = [link EXCEPT ![n] = s]
  /\ UNCHANGED <<passed, base, collectorVars, chartVars>>

\* It appears again under its name and counts from zero.
Recreate(n) ==
  /\ collected < MaxSamples
  /\ link[n] = "gone"
  /\ link' = [link EXCEPT ![n] = "up"]
  /\ base' = [base EXCEPT ![n] = passed[n]]
  /\ UNCHANGED <<passed, collectorVars, chartVars>>

-----------------------------------------------------------------------------
(* network_info::get_all_stats in the thread of data_collector *)

StartListing ==
  /\ visiting = Nowhere /\ collected < MaxSamples
  /\ listed' = {n \in Names : link[n] # "gone"}
  /\ visiting' = <<visiting[1], "list">>
  /\ readings' = NotRead
  /\ UNCHANGED <<collected, clock, kernelVars, chartVars>>

\* Interfaces that are gone by now, or not up, are left out.
ReadOperstate(n) ==
  /\ visiting[2] = "list" /\ n \in listed
  /\ listed' = listed \ {n}
  /\ visiting' = IF link[n] = "up" THEN <<n, "received">> ELSE visiting
  /\ UNCHANGED <<readings, collected, clock, kernelVars, chartVars>>

\* Whether opening a file of statistics succeeds.
Readable(n) ==
  IF link[n] = "gone" THEN {FALSE} ELSE IF ReadMayFail THEN BOOLEAN ELSE {TRUE}

Counter(n, w) == passed[n][w] - base[n][w]

\* A file that does not open counts as zero.
ReadBytes(n, w) ==
  \E ok \in Readable(n) :
    readings' = [readings EXCEPT ![n][w] =
      [value |-> IF ok THEN Counter(n, w) ELSE 0, passed |-> passed[n][w]]]

ReadReceived(n) ==
  /\ visiting = <<n, "received">>
  /\ ReadBytes(n, "received")
  /\ visiting' = <<n, "sent">>
  /\ UNCHANGED <<listed, collected, clock, kernelVars, chartVars>>

ReadSent(n) ==
  /\ visiting = <<n, "sent">>
  /\ ReadBytes(n, "sent")
  /\ visiting' = <<n, "list">>
  /\ UNCHANGED <<listed, collected, clock, kernelVars, chartVars>>

-----------------------------------------------------------------------------
(* main_window *)

\* Mutant of Difference: a counter that starts again is not noticed; the
\* difference wraps around in the width of the counters.
WrappedDifference(prev, cur) == (cur - prev) % (1 + Max(Bytes))

\* A counter that is lower than before has started from zero.
Difference(prev, cur) == IF cur >= prev THEN cur - prev ELSE cur

\* calculate_traffic_speeds: the traffic between two snapshots, or none when
\* no time has passed.
Traffic(prev, cur) ==
  [w \in Ways |-> IF cur.time <= prev.time THEN 0
                  ELSE Difference(prev[w].value, cur[w].value)]

Measured(prev, cur) ==
  [time |-> cur.time, bytes |-> Traffic(prev, cur), from |-> prev, to |-> cur]

\* A point that fills a data gap stands for no traffic.
Filler(prev, t) ==
  [time |-> t, bytes |-> [w \in Ways |-> 0], from |-> prev, to |-> prev]

\* The old end of a live series is dropped, up to the first point to keep.
DropBefore(points, cutoff) ==
  LET kept == {i \in DOMAIN points : points[i].time >= cutoff}
  IN IF kept = {} THEN <<>> ELSE SubSeq(points, Min(kept), Len(points))

\* append_live_data_point: the first sample is only the baseline.
PointsAfter(n, cur) ==
  IF last_stats[n] = NoSample THEN series[n]
  ELSE DropBefore(Append(series[n], Measured(last_stats[n], cur)), cur.time - Window)

\* Mutant of AppendPoints: the snapshot to measure from stays where it was.
AppendFromFirst(sample) ==
  LET here == DOMAIN sample IN
  /\ series' = [n \in Names |-> IF n \in here THEN PointsAfter(n, sample[n]) ELSE series[n]]
  /\ last_stats' = [n \in Names |->
       IF n \in here /\ last_stats[n] = NoSample THEN sample[n] ELSE last_stats[n]]

\* In live view every interface of the sample gets its point.
AppendPoints(sample) ==
  LET here == DOMAIN sample IN
  /\ series' = [n \in Names |-> IF n \in here THEN PointsAfter(n, sample[n]) ELSE series[n]]
  /\ last_stats' = [n \in Names |-> IF n \in here THEN sample[n] ELSE last_stats[n]]

\* handle_stats_collected: the sample is stored under its timestamp, and
\* drawn unless the view is manual.
HandleStatsCollected(sample) ==
  /\ rows' = [n \in Names |->
       IF n \in DOMAIN sample
       THEN {r \in rows[n] : r.time # sample[n].time} \union {sample[n]}
       ELSE rows[n]]
  /\ \/ AppendPoints(sample)
     \/ UNCHANGED <<last_stats, series>>

\* collect_and_emit_stats emits the list with the time of the wall clock; the
\* timer leaves at least a millisecond between two samples.  The handler reads
\* nothing of the kernel, so it runs in the same step.
CollectAndEmitStats ==
  /\ visiting[2] = "list" /\ listed = {}
  /\ \E t \in Times :
       /\ t > clock \/ ClockMayBeSet
       /\ clock' = t
       /\ HandleStatsCollected(
            [n \in {m \in Names : readings[m]["sent"] # NoSample} |->
               [time |-> t, no |-> collected + 1,
                received |-> readings[n]["received"], sent |-> readings[n]["sent"]]])
  /\ collected' = collected + 1
  /\ visiting' = Nowhere /\ readings' = NotRead
  /\ UNCHANGED <<listed, reply, kernelVars>>

\* load_data_for_display and get_snapshots_in_range: the rows in the range and
\* the last one before it, for one interface.  A newer load supersedes.
Load(n) ==
  /\ \E start, end \in Times :
       /\ start <= end
       /\ LET before == {r \in rows[n] : r.time < start} IN
          reply' = [reply EXCEPT ![n] =
            {r \in rows[n] : r.time \in start..end}
            \union {r \in before : \A q \in before : q.time <= r.time}]
  /\ UNCHANGED <<rows, last_stats, series, kernelVars, collectorVars>>

\* The snapshots of a reply, by time.
Sorted(S) ==
  [i \in 1..Cardinality(S) |->
     CHOOSE r \in S : Cardinality({q \in S : q.time <= r.time}) = i]

\* The point from one snapshot to the next, and those that fill a gap there.
AppendLoaded(points, prev, cur) ==
  Append(IF cur.time - prev.time > MaxDataGap
         THEN Append(Append(points, Filler(prev, prev.time + 1)), Filler(prev, cur.time - 1))
         ELSE points,
         Measured(prev, cur))

LoadedPoints(S) ==
  LET sorted == Sorted(S)
      last == Cardinality(S) - 1
      drawn[i \in 0..last] ==
        IF i = 0 THEN <<>> ELSE AppendLoaded(drawn[i - 1], sorted[i], sorted[i + 1])
  IN drawn[last]

\* handle_snapshots_loaded: the points are replaced, and live points go on
\* from the last snapshot if there are two at least.
HandleSnapshotsLoaded(n) ==
  /\ reply[n] # NoSample
  /\ reply' = [reply EXCEPT ![n] = NoSample]
  /\ IF Cardinality(reply[n]) >= 2
     THEN /\ series' = [series EXCEPT ![n] = LoadedPoints(reply[n])]
          /\ last_stats' =
               [last_stats EXCEPT ![n] = Sorted(reply[n])[Cardinality(reply[n])]]
     ELSE /\ series' = [series EXCEPT ![n] = <<>>]
          /\ UNCHANGED last_stats
  /\ UNCHANGED <<rows, kernelVars, collectorVars>>

Next ==
  \/ StartListing \/ CollectAndEmitStats
  \/ \E n \in Names :
       \/ \E w \in Ways : Transfer(n, w)
       \/ ChangeLink(n) \/ Recreate(n)
       \/ ReadOperstate(n) \/ ReadReceived(n) \/ ReadSent(n)
       \/ Load(n) \/ HandleSnapshotsLoaded(n)

Spec == Init /\ [][Next]_vars

-----------------------------------------------------------------------------
(* Properties *)

DrawnBytes(points, w) ==
  LET sum[i \in 0..Len(points)] ==
        IF i = 0 THEN 0 ELSE sum[i - 1] + points[i].bytes[w]
  IN sum[Len(points)]

\* Sampled one after the other, with times that say so, or the same snapshot.
InOrder(prev, cur) == prev = cur \/ (prev.no < cur.no /\ prev.time < cur.time)

\* What the kernel had not counted again from zero between two snapshots.
SameCounter(prev, cur, w) ==
  prev[w].passed - prev[w].value = cur[w].passed - cur[w].value

\* However interfaces come and go between the reads of network_info, and
\* however loads replace what was drawn live, a series never shows more
\* traffic than there was between its first and its last snapshot, and shows
\* all of it if the counters did not start again in between.  Points whose
\* snapshots a clock that was set back has put in the wrong order are excepted.
DrawnIsTraffic ==
  \A n \in Names : series[n] # <<>> => \A w \in Ways :
    LET points == series[n]
        real == Last(points).to[w].passed - Head(points).from[w].passed
        drawn == DrawnBytes(points, w)
    IN (\A i \in DOMAIN points : InOrder(points[i].from, points[i].to)) =>
         /\ drawn <= real
         /\ (\A i \in DOMAIN points : SameCounter(points[i].from, points[i].to, w))
              => drawn = real

\* calculate_traffic_speeds takes a lower counter for one that started again.
\* When the clock is set back, the rows are no longer in the order in which
\* they were sampled: only a pair of snapshots in the wrong order may show
\* traffic that there was not.
SpikeOnlyAtSetBack ==
  \A n \in Names : \A i \in DOMAIN series[n] : \A w \in Ways :
    LET p == series[n][i] IN
    p.from.no <= p.to.no => p.bytes[w] <= p.to[w].passed - p.from[w].passed
=============================================================================
