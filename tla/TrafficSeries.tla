--------------------------- MODULE TrafficSeries ---------------------------
(***************************************************************************)
(* The points main_window draws for one interface, as pure operators.      *)
(*                                                                         *)
(* A snapshot of the byte counters is identified by its timestamp.  The    *)
(* speed drawn at a point is the traffic between two snapshots, so a point *)
(* is the pair of them: [from, x] stands for the average speed over the    *)
(* interval from "from" to "x", drawn at x.  A filler of a data gap is a   *)
(* point of its own: it covers no traffic and has from = x.  The upload    *)
(* and the download series always hold the same points; one stands for     *)
(* both.                                                                   *)
(***************************************************************************)
EXTENDS Integers, FiniteSets, FiniteSetsExt

CONSTANT MaxDataGap  \* kMaxDataGapSeconds, in the unit of the timestamps

\* The two fillers of a gap lie strictly inside it.
ASSUME GapAssumption == MaxDataGap \in Nat /\ MaxDataGap >= 2

Measured(prev, cur) == [from |-> prev, x |-> cur]

Filler(t) == [from |-> t, x |-> t]

IsMeasured(p) == p.from < p.x

\* The snapshot just before t in the set S of loaded ones.
Previous(S, t) == Max({u \in S : u < t})

\* Two zero points mark an interval in which nothing was collected.
GapFillers(prev, cur) ==
  IF cur - prev > MaxDataGap THEN {Filler(prev + 1), Filler(cur - 1)} ELSE {}

\* What handle_snapshots_loaded draws from the timestamps S of one reply: the
\* first snapshot is only the baseline of the second.
LoadedPoints(S) ==
  UNION {   {Measured(Previous(S, t), t)} \cup GapFillers(Previous(S, t), t)
          : t \in {u \in S : \E v \in S : v < u} }

\* Mutant of TrimBefore: the old end of a live series is never dropped.
TrimNothing(P, cutoff) == P

\* What is left of a live series once its old end is dropped.
TrimBefore(P, cutoff) == {p \in P : p.x >= cutoff}

\* append_live_data_point, for an interface whose last snapshot is prev.
AppendLive(P, prev, cur, window) ==
  TrimBefore(P \cup {Measured(prev, cur)}, cur - 2 * window)

\* The rows get_snapshots_in_range finds for an interface with the rows S: the
\* last one before the range, and those inside it.
LastBefore(S, start) ==
  IF \E t \in S : t < start THEN {Previous(S, start)} ELSE {}

Within(S, start, end) == {t \in S : start <= t /\ t <= end}
=============================================================================
