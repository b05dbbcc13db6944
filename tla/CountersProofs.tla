---------------------------- MODULE CountersProofs --------------------------
(***************************************************************************)
(* Theorems about Counters, for any interfaces, traffic, times and order   *)
(* of reads: if the files can be read, a series shows the traffic between  *)
(* its ends and only samples in the wrong order show more than there was.  *)
(*                                                                         *)
(* The first invariant, CountersInv, is about the chart alone: each point  *)
(* shows the difference of two snapshots, and begins where the one before  *)
(* it ended.  The second, ReadInOrder, relates each snapshot to what the   *)
(* kernel has counted since, so that any two of one interface tell what    *)
(* had passed between them, wherever they are kept and however they came   *)
(* to be neighbours.                                                       *)
(***************************************************************************)
EXTENDS Counters, TLAPS, FiniteSetTheorems, SequenceTheorems, WellFoundedInduction

-----------------------------------------------------------------------------
(* The invariants *)

\* What is under way while network_info reads.
VisitOrdered ==
  /\ visiting # Nowhere => collected < MaxSamples
  /\ \A n \in Names :
       /\ visiting = <<n, "sent">> => readings[n]["received"] # NoSample
       /\ readings[n]["sent"] # NoSample => readings[n]["received"] # NoSample
       /\ \A w \in Ways : base[n][w] <= passed[n][w] /\ passed[n][w] <= MaxTraffic[w]

\* A table of snapshots, with the timestamp for a key.
IsTable(S) == IsFiniteSet(S) /\ \A q, r \in S : q.time = r.time => q = r

TablesKept ==
  \A n \in Names : IsTable(rows[n]) /\ (reply[n] # NoSample => IsTable(reply[n]))

\* Points that show what they stand for, each from where the last one ended.
Connected(points, last) ==
  /\ \A i \in 1..Len(points) : points[i].bytes = Traffic(points[i].from, points[i].to)
  /\ \A i \in 1..(Len(points) - 1) : points[i].to = points[i + 1].from
  /\ Len(points) > 0 => points[Len(points)].to = last

SeriesConnected == \A n \in Names : Connected(series[n], last_stats[n])

CountersInv == TypeOK /\ VisitOrdered /\ TablesKept /\ SeriesConnected

\* When the counter that was read last started, in bytes passed.
StartOf(r) == r.passed - r.value

\* Of two readings the later one has all that the earlier one has, unless the
\* counter has started again in between.
Follows(earlier, later) ==
  /\ earlier.passed <= later.passed
  /\ StartOf(earlier) = StartOf(later) \/ earlier.passed <= StartOf(later)

\* What a reading would be now.
CounterNow(n, w) ==
  [value |-> IF link[n] = "gone" THEN 0 ELSE Counter(n, w), passed |-> passed[n][w]]

Ends(points) ==
  {points[i].from : i \in 1..Len(points)} \union {points[i].to : i \in 1..Len(points)}

\* All snapshots of an interface, wherever they are kept.
Snapshots(n) ==
  rows[n] \union ({last_stats[n]} \ {NoSample}) \union Ends(series[n])
  \union (IF reply[n] = NoSample THEN {} ELSE reply[n])

\* Readings follow each other in the order in which they were taken.
ReadInOrder ==
  \A n \in Names : \A w \in Ways :
    /\ \A s \in Snapshots(n) :
         /\ Follows(s[w], CounterNow(n, w))
         /\ readings[n][w] # NoSample => Follows(s[w], readings[n][w])
         /\ \A t \in Snapshots(n) : s.no < t.no => Follows(s[w], t[w])
    /\ readings[n][w] # NoSample => Follows(readings[n][w], CounterNow(n, w))

\* A sample has one snapshot of an interface.
NumberedOnce ==
  \A n \in Names : \A s, t \in Snapshots(n) :
    s.no <= collected /\ (s.no = t.no => s = t)

USE CountersAssumption

-----------------------------------------------------------------------------
(* Natural numbers and sequences *)

\* A set of natural numbers that is not empty has a least element.
LEMMA LeastNatural ==
  ASSUME NEW T \in SUBSET Nat, T # {}
  PROVE  \E x \in T : \A y \in T : x <= y
<1>1. PICK x \in T : \A y \in T : ~(<<y, x>> \in OpToRel(<, Nat))
  BY NatLessThanWellFounded, WFMin
<1>2. ASSUME NEW y \in T PROVE x <= y
  <2>1. <<y, x>> \in OpToRel(<, Nat) <=> y < x
    BY DEF OpToRel
  <2>2. ~(y < x)
    BY <1>1, <2>1
  <2>3. x \in Nat /\ y \in Nat
    OBVIOUS
  <2> QED  BY <2>2, <2>3
<1> QED  BY <1>2

\* A set of natural numbers that has zero and each successor has them all.
LEMMA AllNaturals ==
  ASSUME NEW S \in SUBSET Nat, 0 \in S, \A n \in S : n + 1 \in S
  PROVE  \A n \in Nat : n \in S
<1> DEFINE Rest == Nat \ S
<1> SUFFICES ASSUME Rest # {} PROVE FALSE
  OBVIOUS
<1>1. PICK x \in Rest : \A y \in Rest : x <= y
  BY LeastNatural
<1>2. x \in Nat /\ x # 0 /\ x - 1 \in Nat /\ ~(x <= x - 1) /\ (x - 1) + 1 = x
  OBVIOUS
<1>3. x - 1 \in S
  BY <1>1, <1>2
<1> QED  BY <1>2, <1>3

\* What a value becomes when a step is taken at each position.
Carried(V, m, first, step) ==
  {f \in [0..m -> V] : f[0] = first /\ \A k \in 1..m : f[k] = step[k][f[k - 1]]}

\* It can be carried from the first position to the last.
LEMMA CarriedAlong ==
  ASSUME NEW V, NEW m \in Nat, NEW first \in V, NEW step \in [1..m -> [V -> V]]
  PROVE  Carried(V, m, first, step) # {}
<1> DEFINE Good(f, n) == /\ f \in [0..n -> V] /\ f[0] = first
                         /\ \A k \in 1..n : f[k] = step[k][f[k - 1]]
           S == {n \in Nat : n <= m => \E f : Good(f, n)}
<1>1. 0 \in S
  <2> DEFINE f == [k \in 0..0 |-> first]
  <2>1. Good(f, 0)
    OBVIOUS
  <2> QED  BY <2>1
<1>2. ASSUME NEW n \in S PROVE n + 1 \in S
  <2> SUFFICES ASSUME n + 1 <= m PROVE \E f : Good(f, n + 1)
    OBVIOUS
  <2>1. n \in Nat /\ n <= m /\ n + 1 \in 1..m
    OBVIOUS
  <2>2. PICK f : Good(f, n)
    BY <1>2, <2>1
  <2> DEFINE g == [k \in 0..(n + 1) |-> IF k = n + 1 THEN step[n + 1][f[n]] ELSE f[k]]
  <2>3. f[n] \in V /\ step[n + 1][f[n]] \in V
    BY <2>1, <2>2
  <2>4. g \in [0..(n + 1) -> V] /\ g[0] = first
    BY <2>1, <2>2, <2>3
  <2>5. ASSUME NEW k \in 1..(n + 1) PROVE g[k] = step[k][g[k - 1]]
    <3>1. CASE k = n + 1
      BY <2>1, <3>1
    <3>2. CASE k # n + 1
      <4>1. k \in 1..n /\ k - 1 \in 0..n /\ k - 1 # n + 1 /\ k \in 0..(n + 1) /\ k - 1 \in 0..(n + 1)
        BY <2>1, <3>2
      <4>2. g[k] = f[k] /\ g[k - 1] = f[k - 1]
        BY <3>2, <4>1
      <4> QED  BY <2>2, <4>1, <4>2
    <3> QED  BY <3>1, <3>2
  <2>6. Good(g, n + 1)
    BY <2>4, <2>5
  <2> QED  BY <2>6
<1> HIDE DEF Good
<1>3. S \in SUBSET Nat
  OBVIOUS
<1> HIDE DEF S
<1>4. m \in S
  BY <1>1, <1>2, <1>3, AllNaturals
<1>5. \E f : Good(f, m)
  BY <1>4 DEF S
<1> QED  BY <1>5 DEF Good, Carried

\* An element and the last one of a sequence that grew.
LEMMA AppendParts ==
  ASSUME NEW S, NEW s \in Seq(S), NEW e \in S
  PROVE  /\ Append(s, e) \in Seq(S)
         /\ Len(s) \in Nat /\ Len(Append(s, e)) = Len(s) + 1
         /\ \A i \in 1..Len(s) : Append(s, e)[i] = s[i]
         /\ Append(s, e)[Len(s) + 1] = e
BY AppendProperties, LenProperties

-----------------------------------------------------------------------------
(* Snapshots and readings *)

LEMMA BytesAreNaturals ==
  /\ Bytes \in SUBSET Nat /\ 0 \in Bytes
  /\ \A w \in Ways : MaxTraffic[w] \in Nat
  /\ \A w \in Ways : \A k \in Nat : k <= MaxTraffic[w] => k \in Bytes
  /\ \A a \in Bytes : \A k \in Nat : k <= a => k \in Bytes
<1> DEFINE T == {MaxTraffic[w] : w \in Ways}
<1>1. \A w \in Ways : MaxTraffic[w] \in Nat
  BY DEF CountersAssumption, Ways
<1>2. T = {MaxTraffic["received"], MaxTraffic["sent"]}
  BY DEF Ways
<1>3. \E x \in T : \A y \in T : x >= y
  BY <1>1, <1>2 DEF Ways
<1>4. Max(T) \in T /\ \A y \in T : Max(T) >= y
  BY <1>3 DEF Max
<1>5. Max(T) \in Nat
  BY <1>1, <1>4
<1>6. Bytes = 0..Max(T)
  BY DEF Bytes
<1> HIDE DEF T
<1>7. /\ Bytes \in SUBSET Nat /\ 0 \in Bytes
      /\ \A a \in Bytes : \A k \in Nat : k <= a => k \in Bytes
  BY <1>5, <1>6
<1>8. ASSUME NEW w \in Ways, NEW k \in Nat, k <= MaxTraffic[w] PROVE k \in Bytes
  <2>1. MaxTraffic[w] \in T
    BY DEF T
  <2> QED  BY <1>1, <1>4, <1>5, <1>6, <1>8, <2>1
<1> QED  BY <1>1, <1>7, <1>8

LEMMA ReadingParts ==
  ASSUME NEW r \in Reading
  PROVE  r.value \in Nat /\ r.passed \in Nat /\ r.value \in Bytes /\ r.passed \in Bytes
BY BytesAreNaturals DEF Reading

LEMMA SampleParts ==
  ASSUME NEW s \in Sample
  PROVE  /\ s.time \in Times /\ s.time \in Nat /\ s.time > 0
         /\ s.no \in Nat
         /\ \A w \in Ways : s[w] \in Reading
BY DEF Sample, Ways, CountersAssumption

\* What is drawn between two snapshots is a number of bytes.
LEMMA TrafficType ==
  ASSUME NEW prev \in Sample, NEW cur \in Sample
  PROVE  Traffic(prev, cur) \in [Ways -> Bytes]
<1>1. ASSUME NEW w \in Ways PROVE Difference(prev[w].value, cur[w].value) \in Bytes
  <2>1. /\ prev[w].value \in Nat /\ cur[w].value \in Nat
        /\ prev[w].value \in Bytes /\ cur[w].value \in Bytes
    BY SampleParts, ReadingParts
  <2>2. \A a \in Bytes : \A k \in Nat : k <= a => k \in Bytes
    BY BytesAreNaturals
  <2> QED  BY <2>1, <2>2 DEF Difference
<1>2. 0 \in Bytes
  BY BytesAreNaturals
<1> QED  BY <1>1, <1>2 DEF Traffic

\* Nothing is drawn from a snapshot to itself.
LEMMA NoTraffic ==
  ASSUME NEW s \in Sample
  PROVE  Traffic(s, s) = [w \in Ways |-> 0]
BY SampleParts DEF Traffic

\* The points that handlers draw show what they stand for.
LEMMA PointTypes ==
  ASSUME NEW prev \in Sample, NEW cur \in Sample
  PROVE  /\ Measured(prev, cur) \in Point
         /\ Measured(prev, cur).bytes = Traffic(prev, cur)
         /\ Measured(prev, cur).from = prev /\ Measured(prev, cur).to = cur
         /\ \A t \in Nat : /\ Filler(prev, t) \in Point
                           /\ Filler(prev, t).bytes = Traffic(prev, prev)
                           /\ Filler(prev, t).from = prev /\ Filler(prev, t).to = prev
<1>1. Traffic(prev, cur) \in [Ways -> Bytes] /\ Traffic(prev, prev) \in [Ways -> Bytes]
  BY TrafficType
<1>2. cur.time \in Nat
  BY SampleParts
<1>3. [w \in Ways |-> 0] = Traffic(prev, prev)
  BY NoTraffic
<1> QED  BY <1>1, <1>2, <1>3 DEF Measured, Filler, Point

-----------------------------------------------------------------------------
(* The snapshots of a reply, by time *)

UpTo(S, r) == {q \in S : q.time <= r.time}

\* Each position is taken by a snapshot.
LEMMA EachRankTaken ==
  ASSUME NEW S \in SUBSET Sample, IsTable(S)
  PROVE  \A i \in 1..Cardinality(S) : \E r \in S : Cardinality(UpTo(S, r)) = i
<1> DEFINE c == Cardinality(S)
           T == {i \in Nat : i \in 1..c => \E r \in S : Cardinality(UpTo(S, r)) = i}
<1>1. IsFiniteSet(S) /\ c \in Nat
  BY FS_CardinalityType DEF IsTable
<1>2. \A r \in S : r.time \in Nat
  BY SampleParts
<1>3. 0 \in T
  OBVIOUS
<1>4. ASSUME NEW i \in T PROVE i + 1 \in T
  <2> SUFFICES ASSUME i + 1 \in 1..c PROVE \E r \in S : Cardinality(UpTo(S, r)) = i + 1
    BY <1>4
  <2>1. \E B \in SUBSET S : /\ Cardinality(B) = i
                            /\ \A q \in B : \A r \in S \ B : q.time < r.time
    <3>1. CASE i = 0
      <4>1. Cardinality({}) = 0
        BY FS_EmptySet
      <4> WITNESS {} \in SUBSET S
      <4> QED  BY <3>1, <4>1
    <3>2. CASE i # 0
      <4>1. i \in 1..c
        BY <1>1, <3>2
      <4>2. PICK r \in S : Cardinality(UpTo(S, r)) = i
        BY <1>4, <4>1
      <4>3. UpTo(S, r) \in SUBSET S
        BY DEF UpTo
      <4>4. \A q \in UpTo(S, r) : \A t \in S \ UpTo(S, r) : q.time < t.time
        BY <1>2 DEF UpTo
      <4> QED  BY <4>2, <4>3, <4>4
    <3> QED  BY <3>1, <3>2
  <2>2. PICK B \in SUBSET S : /\ Cardinality(B) = i
                              /\ \A q \in B : \A r \in S \ B : q.time < r.time
    BY <2>1
  <2>3. S \ B # {}
    <3>1. B # S
      BY <1>1, <2>2
    <3> QED  BY <3>1
  <2>4. PICK r \in S \ B : \A q \in S \ B : r.time <= q.time
    <3> DEFINE Later == {q.time : q \in S \ B}
    <3>1. Later \in SUBSET Nat /\ Later # {}
      BY <1>2, <2>3
    <3>2. PICK t \in Later : \A u \in Later : t <= u
      BY <3>1, LeastNatural
    <3> QED  BY <3>2
  <2>5. UpTo(S, r) = B \union {r}
    <3>1. ASSUME NEW q \in S, q.time <= r.time, q \notin B PROVE q = r
      <4>1. q.time = r.time
        BY <1>2, <2>4, <3>1
      <4> QED  BY <4>1 DEF IsTable
    <3>2. \A q \in B : q.time <= r.time
      BY <1>2, <2>2
    <3> QED  BY <1>2, <3>1, <3>2 DEF UpTo
  <2>6. IsFiniteSet(B)
    BY <1>1, FS_Subset
  <2>7. Cardinality(B \union {r}) = i + 1
    BY <2>2, <2>4, <2>6, FS_AddElement
  <2> QED  BY <2>5, <2>7
<1>5. T \in SUBSET Nat
  OBVIOUS
<1> HIDE DEF T
<1>6. \A i \in Nat : i \in T
  BY <1>3, <1>4, <1>5, AllNaturals
<1> QED  BY <1>1, <1>6 DEF T

LEMMA SortedType ==
  ASSUME NEW S \in SUBSET Sample, IsTable(S)
  PROVE  \A i \in 1..Cardinality(S) : Sorted(S)[i] \in S
<1> SUFFICES ASSUME NEW i \in 1..Cardinality(S) PROVE Sorted(S)[i] \in S
  OBVIOUS
<1>1. \E r \in S : Cardinality({q \in S : q.time <= r.time}) = i
  BY EachRankTaken DEF UpTo
<1>2. (CHOOSE r \in S : Cardinality({q \in S : q.time <= r.time}) = i) \in S
  BY <1>1
<1> QED  BY <1>2 DEF Sorted

-----------------------------------------------------------------------------
(* The points of a series *)

LEMMA PointParts ==
  ASSUME NEW p \in Point
  PROVE  p.from \in Sample /\ p.to \in Sample /\ p.time \in Nat /\ p.bytes \in [Ways -> Bytes]
BY DEF Point

\* A series goes on where it ended.
LEMMA Continued ==
  ASSUME NEW s \in Seq(Point), NEW a, Connected(s, a),
         NEW p \in Point, p.from = a, p.bytes = Traffic(p.from, p.to)
  PROVE  /\ Append(s, p) \in Seq(Point)
         /\ Connected(Append(s, p), p.to)
         /\ Ends(Append(s, p)) = Ends(s) \union {p.from, p.to}
<1> DEFINE e == Append(s, p)
<1>1. /\ e \in Seq(Point) /\ Len(s) \in Nat /\ Len(e) = Len(s) + 1
      /\ \A i \in 1..Len(s) : e[i] = s[i]
      /\ e[Len(s) + 1] = p
  BY AppendParts
<1> HIDE DEF e
<1>2. ASSUME NEW i \in 1..Len(e) PROVE e[i].bytes = Traffic(e[i].from, e[i].to)
  <2>1. i \in 1..Len(s) \/ i = Len(s) + 1
    BY <1>1
  <2> QED  BY <1>1, <2>1 DEF Connected
<1>3. ASSUME NEW i \in 1..(Len(e) - 1) PROVE e[i].to = e[i + 1].from
  <2>1. CASE i = Len(s)
    BY <1>1, <2>1 DEF Connected
  <2>2. CASE i # Len(s)
    <3>1. i \in 1..(Len(s) - 1) /\ i \in 1..Len(s) /\ i + 1 \in 1..Len(s)
      BY <1>1, <2>2
    <3> QED  BY <1>1, <3>1 DEF Connected
  <2> QED  BY <2>1, <2>2
<1>4. Connected(e, p.to)
  <2>1. e[Len(e)].to = p.to
    BY <1>1
  <2> QED  BY <1>2, <1>3, <2>1 DEF Connected
<1>5. Ends(e) = Ends(s) \union {p.from, p.to}
  <2>1. 1..Len(e) = (1..Len(s)) \union {Len(s) + 1}
    BY <1>1
  <2> QED  BY SMTT(30), <1>1, <2>1 DEF Ends
<1> QED  BY <1>1, <1>4, <1>5 DEF e

LEMMA LoadedStep ==
  ASSUME NEW S \in SUBSET Sample, NEW prev \in S, NEW cur \in S,
         NEW s \in Seq(Point), Connected(s, prev), Ends(s) \subseteq S
  PROVE  /\ AppendLoaded(s, prev, cur) \in Seq(Point)
         /\ Connected(AppendLoaded(s, prev, cur), cur)
         /\ Ends(AppendLoaded(s, prev, cur)) \subseteq S
<1> DEFINE f == Filler(prev, prev.time + 1)
           g == Filler(prev, cur.time - 1)
           m == Measured(prev, cur)
           filled == IF cur.time - prev.time > MaxDataGap
                     THEN Append(Append(s, f), g) ELSE s
<1>1. prev.time + 1 \in Nat /\ cur.time - 1 \in Nat
  BY SampleParts
<1>2. /\ f \in Point /\ f.bytes = Traffic(f.from, f.to) /\ f.from = prev /\ f.to = prev
      /\ g \in Point /\ g.bytes = Traffic(g.from, g.to) /\ g.from = prev /\ g.to = prev
      /\ m \in Point /\ m.bytes = Traffic(m.from, m.to) /\ m.from = prev /\ m.to = cur
  BY <1>1, PointTypes
<1>3. AppendLoaded(s, prev, cur) = Append(filled, m)
  BY DEF AppendLoaded
<1> HIDE DEF f, g, m
<1>4. filled \in Seq(Point) /\ Connected(filled, prev) /\ Ends(filled) \subseteq S
  <2>1. CASE cur.time - prev.time > MaxDataGap
    <3> DEFINE one == Append(s, f)
    <3>1. one \in Seq(Point) /\ Connected(one, prev) /\ Ends(one) \subseteq S
      BY <1>2, Continued
    <3> HIDE DEF one
    <3>2. /\ Append(one, g) \in Seq(Point) /\ Connected(Append(one, g), prev)
          /\ Ends(Append(one, g)) \subseteq S
      BY <1>2, <3>1, Continued
    <3> QED  BY <2>1, <3>2 DEF one
  <2>2. CASE ~(cur.time - prev.time > MaxDataGap)
    BY <2>2
  <2> QED  BY <2>1, <2>2
<1> HIDE DEF filled
<1>5. /\ Append(filled, m) \in Seq(Point) /\ Connected(Append(filled, m), cur)
      /\ Ends(Append(filled, m)) \subseteq S
  BY <1>2, <1>4, Continued
<1> QED  BY <1>3, <1>5

\* What a load draws ends at its last snapshot.
LEMMA LoadedFacts ==
  ASSUME NEW S \in SUBSET Sample, IsTable(S), Cardinality(S) >= 2
  PROVE  /\ LoadedPoints(S) \in Seq(Point)
         /\ Connected(LoadedPoints(S), Sorted(S)[Cardinality(S)])
         /\ Ends(LoadedPoints(S)) \subseteq S
         /\ Sorted(S)[Cardinality(S)] \in S
<1> DEFINE m == Cardinality(S) - 1
           sorted == Sorted(S)
           Good(v, k) == /\ v \in Seq(Point) /\ Ends(v) \subseteq S
                         /\ Connected(v, sorted[k + 1])
           Draws(f) == f = [i \in 0..m |->
                              IF i = 0 THEN <<>>
                              ELSE AppendLoaded(f[i - 1], sorted[i], sorted[i + 1])]
           drawn == CHOOSE f : Draws(f)
           step == [k \in 1..m |-> [v \in Seq(Point) |->
                     IF Good(v, k - 1) THEN AppendLoaded(v, sorted[k], sorted[k + 1]) ELSE <<>>]]
<1>1. m \in Nat /\ Cardinality(S) \in Nat /\ m + 1 = Cardinality(S)
  BY FS_CardinalityType DEF IsTable
<1>2. \A k \in 0..m : sorted[k + 1] \in S
  BY <1>1, SortedType
<1>3. <<>> \in Seq(Point) /\ Good(<<>>, 0)
  <2>1. <<>> \in Seq(Point) /\ Len(<<>>) = 0
    BY EmptySeq
  <2> QED  BY <2>1 DEF Ends, Connected
<1> HIDE DEF m, sorted
<1>4. ASSUME NEW k \in 1..m, NEW v, Good(v, k - 1)
      PROVE  Good(AppendLoaded(v, sorted[k], sorted[k + 1]), k)
  <2>1. k - 1 \in 0..m /\ k \in 0..m /\ (k - 1) + 1 = k
    BY <1>1
  <2>2. sorted[k] \in S /\ sorted[k + 1] \in S
    BY <1>2, <2>1
  <2> QED  BY <1>4, <2>1, <2>2, LoadedStep
<1> HIDE DEF Good
<1>5. step \in [1..m -> [Seq(Point) -> Seq(Point)]]
  <2>1. ASSUME NEW k \in 1..m, NEW v \in Seq(Point), Good(v, k - 1)
        PROVE  AppendLoaded(v, sorted[k], sorted[k + 1]) \in Seq(Point)
    BY <1>4, <2>1 DEF Good
  <2> QED  BY <1>3, <2>1
<1>6. PICK f \in [0..m -> Seq(Point)] :
        f[0] = <<>> /\ \A k \in 1..m : f[k] = step[k][f[k - 1]]
  <2> DEFINE V == Seq(Point)
  <2>1. m \in Nat /\ <<>> \in V /\ step \in [1..m -> [V -> V]]
    BY <1>1, <1>3, <1>5
  <2> HIDE DEF step, V
  <2>2. Carried(V, m, <<>>, step) # {}
    BY <2>1, CarriedAlong
  <2> QED  BY <2>2 DEF Carried, V
<1>7. \A k \in 0..m : Good(f[k], k)
  <2> DEFINE T == {k \in Nat : k \in 0..m => Good(f[k], k)}
  <2>1. 0 \in T
    BY <1>3, <1>6
  <2>2. ASSUME NEW k \in T PROVE k + 1 \in T
    <3> SUFFICES ASSUME k + 1 \in 0..m PROVE Good(f[k + 1], k + 1)
      OBVIOUS
    <3>1. /\ k + 1 \in 1..m /\ (k + 1) - 1 = k /\ k \in 0..m
          /\ Good(f[k], k) /\ f[k] \in Seq(Point)
      BY <1>1, <1>6, <2>2
    <3>2. f[k + 1] = AppendLoaded(f[k], sorted[k + 1], sorted[(k + 1) + 1])
      BY <1>6, <3>1
    <3> QED  BY <1>4, <3>1, <3>2
  <2>3. T \in SUBSET Nat
    OBVIOUS
  <2> HIDE DEF T
  <2>4. \A k \in Nat : k \in T
    BY <2>1, <2>2, <2>3, AllNaturals
  <2> QED  BY <1>1, <2>4 DEF T
<1>8. Draws(f)
  <2>1. ASSUME NEW i \in 0..m
        PROVE  f[i] = IF i = 0 THEN <<>> ELSE AppendLoaded(f[i - 1], sorted[i], sorted[i + 1])
    <3>1. CASE i = 0
      BY <1>6, <3>1
    <3>2. CASE i # 0
      <4>1. i \in 1..m /\ i - 1 \in 0..m
        BY <1>1, <3>2
      <4>2. Good(f[i - 1], i - 1) /\ f[i - 1] \in Seq(Point)
        BY <1>6, <1>7, <4>1
      <4> QED  BY <1>6, <3>2, <4>1, <4>2
    <3> QED  BY <3>1, <3>2
  <2>2. f = [i \in 0..m |-> f[i]]
    BY <1>6
  <2> QED  BY <2>1, <2>2
<1>9. Draws(drawn)
  BY <1>8
<1>10. LoadedPoints(S) = drawn[m]
  BY DEF LoadedPoints, drawn, m, sorted
<1> HIDE DEF drawn
<1>11. \A k \in 0..m : Good(drawn[k], k)
  <2> DEFINE T == {k \in Nat : k \in 0..m => Good(drawn[k], k)}
  <2>1. drawn[0] = <<>>
    BY <1>1, <1>9
  <2>2. 0 \in T
    BY <1>3, <2>1
  <2>3. ASSUME NEW k \in T PROVE k + 1 \in T
    <3> SUFFICES ASSUME k + 1 \in 0..m PROVE Good(drawn[k + 1], k + 1)
      OBVIOUS
    <3>1. k + 1 \in 1..m /\ (k + 1) - 1 = k /\ k \in 0..m /\ k + 1 # 0 /\ Good(drawn[k], k)
      BY <1>1, <2>3
    <3>2. drawn[k + 1] = AppendLoaded(drawn[k], sorted[k + 1], sorted[(k + 1) + 1])
      BY <1>9, <3>1
    <3> QED  BY <1>4, <3>1, <3>2
  <2>4. T \in SUBSET Nat
    OBVIOUS
  <2> HIDE DEF T
  <2>5. \A k \in Nat : k \in T
    BY <2>2, <2>3, <2>4, AllNaturals
  <2> QED  BY <1>1, <2>5 DEF T
<1>12. Good(drawn[m], m)
  BY <1>1, <1>11
<1>13. sorted[m + 1] \in S
  BY <1>1, <1>2
<1> QED  BY <1>1, <1>10, <1>12, <1>13 DEF Good, sorted

\* Dropping the old end leaves a series.
LEMMA Dropped ==
  ASSUME NEW s \in Seq(Point), NEW last, Connected(s, last), NEW cutoff
  PROVE  /\ DropBefore(s, cutoff) \in Seq(Point)
         /\ Connected(DropBefore(s, cutoff), last)
         /\ Ends(DropBefore(s, cutoff)) \subseteq Ends(s)
<1> DEFINE kept == {i \in DOMAIN s : s[i].time >= cutoff}
<1>1. Len(s) \in Nat /\ DOMAIN s = 1..Len(s) /\ \A i \in 1..Len(s) : s[i] \in Point
  BY LenProperties, ElementOfSeq
<1>2. CASE kept = {}
  <2>1. DropBefore(s, cutoff) = <<>>
    BY <1>2 DEF DropBefore
  <2>2. <<>> \in Seq(Point) /\ Len(<<>>) = 0
    BY EmptySeq
  <2> QED  BY <2>1, <2>2 DEF Connected, Ends
<1>3. CASE kept # {}
  <2>1. kept \in SUBSET Nat
    BY <1>1
  <2>2. \E x \in kept : \A y \in kept : x <= y
    BY <1>3, <2>1, LeastNatural
  <2> DEFINE a == Min(kept)
             d == SubSeq(s, a, Len(s))
  <2>3. a \in kept
    BY <2>2 DEF Min
  <2>4. DropBefore(s, cutoff) = d
    BY <1>3 DEF DropBefore
  <2>5. a \in 1..Len(s) /\ a \in Int /\ Len(s) \in Int
    BY <1>1, <2>3
  <2> HIDE DEF a
  <2>6. \A i \in a..Len(s) : s[i] \in Point
    BY <1>1, <2>5
  <2>7. /\ d \in Seq(Point) /\ Len(d) = Len(s) - a + 1
        /\ \A i \in 1..(Len(s) - a + 1) : d[i] = s[a + i - 1]
    BY <2>5, <2>6, SubSeqProperties
  <2> HIDE DEF d
  <2>8. \A i \in 1..Len(d) : a + i - 1 \in 1..Len(s) /\ d[i] = s[a + i - 1]
    BY <1>1, <2>5, <2>7
  <2>9. ASSUME NEW i \in 1..(Len(d) - 1) PROVE d[i].to = d[i + 1].from
    <3>1. /\ i \in 1..Len(d) /\ i + 1 \in 1..Len(d) /\ a + i - 1 \in 1..(Len(s) - 1)
          /\ a + (i + 1) - 1 = (a + i - 1) + 1
      BY <1>1, <2>5, <2>7
    <3> QED  BY <2>8, <3>1 DEF Connected
  <2>10. d[Len(d)].to = last
    <3>1. Len(d) \in 1..Len(d) /\ a + Len(d) - 1 = Len(s) /\ Len(s) > 0
      BY <1>1, <2>5, <2>7
    <3> QED  BY <2>8, <3>1 DEF Connected
  <2>11. Connected(d, last)
    BY <2>8, <2>9, <2>10 DEF Connected
  <2>12. Ends(d) \subseteq Ends(s)
    BY <2>8 DEF Ends
  <2> QED  BY <2>4, <2>7, <2>11, <2>12
<1> QED  BY <1>2, <1>3

-----------------------------------------------------------------------------
(* The invariant of the chart *)

LEMMA CounterType ==
  ASSUME CountersInv, NEW n \in Names, NEW w \in Ways
  PROVE  /\ passed[n][w] \in Nat /\ base[n][w] \in Nat /\ base[n][w] <= passed[n][w]
         /\ passed[n][w] \in Bytes /\ base[n][w] \in Bytes /\ passed[n][w] <= MaxTraffic[w]
         /\ Counter(n, w) \in Nat /\ Counter(n, w) \in Bytes
<1>1. passed[n][w] \in Bytes /\ base[n][w] \in Bytes
  BY DEF CountersInv, TypeOK
<1>2. base[n][w] <= passed[n][w] /\ passed[n][w] <= MaxTraffic[w]
  BY DEF CountersInv, VisitOrdered
<1>3. passed[n][w] \in Nat /\ base[n][w] \in Nat
  BY <1>1, BytesAreNaturals
<1>4. Counter(n, w) \in Nat /\ Counter(n, w) <= passed[n][w]
  BY <1>2, <1>3 DEF Counter
<1> QED  BY <1>1, <1>2, <1>3, <1>4, BytesAreNaturals

LEMMA InitCounters == Init => CountersInv
<1> SUFFICES ASSUME Init PROVE CountersInv
  OBVIOUS
<1>1. 0 \in Bytes /\ <<>> \in Seq(Point) /\ Len(<<>>) = 0
  BY BytesAreNaturals, EmptySeq
<1>2. TypeOK
  BY <1>1 DEF Init, TypeOK, NotRead
<1>3. VisitOrdered
  <2>1. visiting = Nowhere /\ \A n \in Names : visiting # <<n, "sent">>
    BY DEF Init, Nowhere
  <2>2. \A n \in Names : \A w \in Ways : readings[n][w] = NoSample
    BY DEF Init, NotRead
  <2>3. \A n \in Names : \A w \in Ways : base[n][w] = 0 /\ passed[n][w] = 0
    BY DEF Init
  <2>4. "received" \in Ways /\ "sent" \in Ways /\ \A w \in Ways : 0 <= MaxTraffic[w]
    BY BytesAreNaturals DEF Ways
  <2> QED  BY <2>1, <2>2, <2>3, <2>4 DEF VisitOrdered
<1>4. TablesKept
  BY FS_EmptySet DEF Init, TablesKept, IsTable
<1>5. SeriesConnected
  BY <1>1 DEF Init, SeriesConnected, Connected
<1> QED  BY <1>2, <1>3, <1>4, <1>5 DEF CountersInv

\* The kernel and network_info leave the chart alone.
LEMMA ChartAlone ==
  ASSUME CountersInv, UNCHANGED chartVars
  PROVE  /\ TablesKept' /\ SeriesConnected'
         /\ rows' \in [Names -> SUBSET Sample]
         /\ reply' \in [Names -> (SUBSET Sample) \union {NoSample}]
         /\ last_stats' \in [Names -> Sample \union {NoSample}]
         /\ series' \in [Names -> Seq(Point)]
BY DEF CountersInv, TypeOK, TablesKept, SeriesConnected, chartVars

LEMMA KernelSteps ==
  ASSUME CountersInv, NEW n \in Names,
         (\E w \in Ways : Transfer(n, w)) \/ ChangeLink(n) \/ Recreate(n)
  PROVE  CountersInv'
<1>1. UNCHANGED chartVars /\ UNCHANGED collectorVars
  BY DEF Transfer, ChangeLink, Recreate
<1>2. /\ passed' \in [Names -> [Ways -> Bytes]] /\ base' \in [Names -> [Ways -> Bytes]]
      /\ link' \in [Names -> {"gone", "down", "up"}]
      /\ \A m \in Names : \A w \in Ways :
           base'[m][w] <= passed'[m][w] /\ passed'[m][w] <= MaxTraffic[w]
  <2>0. /\ passed \in [Names -> [Ways -> Bytes]] /\ base \in [Names -> [Ways -> Bytes]]
        /\ link \in [Names -> {"gone", "down", "up"}]
    BY DEF CountersInv, TypeOK
  <2>1. CASE \E w \in Ways : Transfer(n, w)
    <3>1. PICK w \in Ways : Transfer(n, w)
      BY <2>1
    <3>2. /\ passed[n][w] < MaxTraffic[w] /\ UNCHANGED <<link, base>>
          /\ passed' = [passed EXCEPT ![n][w] = @ + 1]
      BY <3>1 DEF Transfer
    <3>3. /\ passed[n][w] + 1 \in Bytes /\ passed[n][w] + 1 <= MaxTraffic[w]
          /\ base[n][w] <= passed[n][w] + 1
      BY <3>2, CounterType, BytesAreNaturals
    <3>4. passed' \in [Names -> [Ways -> Bytes]]
      BY <2>0, <3>2, <3>3
    <3>5. ASSUME NEW m \in Names, NEW v \in Ways
          PROVE  passed'[m][v] = IF m = n /\ v = w THEN passed[n][w] + 1 ELSE passed[m][v]
      BY <2>0, <3>2
    <3> QED  BY <2>0, <3>2, <3>3, <3>4, <3>5, CounterType
  <2>2. CASE ChangeLink(n)
    BY <2>0, <2>2, CounterType DEF ChangeLink
  <2>3. CASE Recreate(n)
    <3>1. /\ UNCHANGED passed /\ base' = [base EXCEPT ![n] = passed[n]]
          /\ link' = [link EXCEPT ![n] = "up"]
      BY <2>3 DEF Recreate
    <3> QED  BY <2>0, <3>1, CounterType
  <2> QED  BY <2>1, <2>2, <2>3
<1>3. TypeOK'
  BY <1>1, <1>2, ChartAlone DEF CountersInv, TypeOK, collectorVars
<1>4. VisitOrdered'
  BY <1>1, <1>2 DEF CountersInv, VisitOrdered, collectorVars
<1> QED  BY <1>1, <1>3, <1>4, ChartAlone DEF CountersInv

LEMMA ReaderSteps ==
  ASSUME CountersInv,
         \/ StartListing
         \/ \E n \in Names : ReadOperstate(n) \/ ReadReceived(n) \/ ReadSent(n)
  PROVE  CountersInv'
<1>1. UNCHANGED chartVars /\ UNCHANGED kernelVars /\ UNCHANGED <<collected, clock>>
  BY DEF StartListing, ReadOperstate, ReadReceived, ReadSent
<1>2. /\ readings \in [Names -> [Ways -> Reading \union {NoSample}]]
      /\ listed \subseteq Names
      /\ visiting \in {Nowhere} \union ((Names \union {"none"}) \X {"list", "received", "sent"})
      /\ "received" \in Ways /\ "sent" \in Ways
  BY DEF CountersInv, TypeOK, Ways
<1> DEFINE Typed == /\ readings' \in [Names -> [Ways -> Reading \union {NoSample}]]
                    /\ listed' \subseteq Names
                    /\ visiting' \in {Nowhere} \union
                         ((Names \union {"none"}) \X {"list", "received", "sent"})
           Ordered == /\ collected < MaxSamples
                      /\ \A n \in Names :
                           /\ visiting' = <<n, "sent">> => readings'[n]["received"] # NoSample
                           /\ readings'[n]["sent"] # NoSample => readings'[n]["received"] # NoSample
<1>3. Typed /\ Ordered
  <2>1. CASE StartListing
    <3>1. /\ collected < MaxSamples /\ listed' \subseteq Names /\ readings' = NotRead
          /\ visiting' = <<visiting[1], "list">> /\ visiting = Nowhere
      BY <2>1 DEF StartListing
    <3>2. visiting' = <<"none", "list">>
      BY <3>1 DEF Nowhere
    <3>3. NotRead \in [Names -> [Ways -> Reading \union {NoSample}]]
      BY DEF NotRead
    <3>4. \A n \in Names : readings'[n]["sent"] = NoSample
      BY <1>2, <3>1 DEF NotRead
    <3> QED  BY <3>1, <3>2, <3>3, <3>4
  <2>2. ASSUME NEW n \in Names, ReadOperstate(n) PROVE Typed /\ Ordered
    <3>1. /\ visiting[2] = "list" /\ listed' = listed \ {n} /\ UNCHANGED readings
          /\ visiting' = <<n, "received">> \/ visiting' = visiting
      BY <2>2 DEF ReadOperstate
    <3>2. visiting # Nowhere /\ \A m \in Names : visiting' # <<m, "sent">>
      BY <3>1 DEF Nowhere
    <3>3. visiting' \in {Nowhere} \union ((Names \union {"none"}) \X {"list", "received", "sent"})
      BY <1>2, <3>1
    <3> QED  BY <1>2, <3>1, <3>2, <3>3 DEF CountersInv, VisitOrdered
  <2>3. ASSUME NEW n \in Names, NEW w \in Ways, ReadBytes(n, w)
        PROVE  /\ readings' \in [Names -> [Ways -> Reading \union {NoSample}]]
               /\ readings'[n][w] # NoSample
               /\ \A m \in Names : \A v \in Ways :
                    m # n \/ v # w => readings'[m][v] = readings[m][v]
    <3>1. PICK ok \in BOOLEAN : readings' = [readings EXCEPT ![n][w] =
             [value |-> IF ok THEN Counter(n, w) ELSE 0, passed |-> passed[n][w]]]
      BY <2>3 DEF ReadBytes, Readable
    <3>2. [value |-> IF ok THEN Counter(n, w) ELSE 0, passed |-> passed[n][w]] \in Reading
      BY CounterType, BytesAreNaturals DEF Reading
    <3>3. readings'[n][w] \in Reading
      BY <1>2, <3>1, <3>2
    <3> QED  BY <1>2, <3>1, <3>2, <3>3, NoSampleAssumption
  <2>5. ASSUME NEW n \in Names, ReadReceived(n) PROVE Typed /\ Ordered
    <3>1. /\ visiting = <<n, "received">> /\ visiting' = <<n, "sent">> /\ UNCHANGED listed
          /\ ReadBytes(n, "received")
      BY <2>5 DEF ReadReceived
    <3> QED  BY <1>2, <2>3, <3>1 DEF Nowhere, CountersInv, VisitOrdered
  <2>6. ASSUME NEW n \in Names, ReadSent(n) PROVE Typed /\ Ordered
    <3>1. /\ visiting = <<n, "sent">> /\ visiting' = <<n, "list">> /\ UNCHANGED listed
          /\ ReadBytes(n, "sent")
      BY <2>6 DEF ReadSent
    <3> QED  BY <1>2, <2>3, <3>1 DEF Nowhere, CountersInv, VisitOrdered
  <2> QED  BY <2>1, <2>2, <2>5, <2>6
<1>4. TypeOK'
  BY <1>1, <1>3, ChartAlone DEF CountersInv, TypeOK, kernelVars
<1>5. VisitOrdered'
  BY <1>1, <1>3 DEF CountersInv, VisitOrdered, kernelVars
<1> QED  BY <1>1, <1>4, <1>5, ChartAlone DEF CountersInv

\* The snapshot of an interface that a sample is made of.
Taken(n, t) ==
  [time |-> t, no |-> collected + 1,
   received |-> readings[n]["received"], sent |-> readings[n]["sent"]]

Reported == {n \in Names : readings[n]["sent"] # NoSample}

LEMMA TakenType ==
  ASSUME CountersInv, visiting # Nowhere, NEW n \in Reported, NEW t \in Times
  PROVE  /\ Taken(n, t) \in Sample /\ Taken(n, t) # NoSample
         /\ Taken(n, t).no = collected + 1 /\ Taken(n, t).time = t
         /\ \A w \in Ways : /\ Taken(n, t)[w] = readings[n][w]
                            /\ readings[n][w] # NoSample /\ readings[n][w] \in Reading
<1>1. /\ n \in Names /\ readings[n]["sent"] # NoSample /\ readings[n]["received"] # NoSample
      /\ collected + 1 \in 1..MaxSamples
  BY DEF Reported, CountersInv, VisitOrdered, TypeOK
<1>2. \A w \in Ways : w \in {"received", "sent"} /\ readings[n][w] \in Reading
  BY <1>1 DEF CountersInv, TypeOK, Ways
<1>3. Taken(n, t) \in Sample
  BY <1>1, <1>2 DEF Taken, Sample, Ways
<1> QED  BY <1>1, <1>2, <1>3, NoSampleAssumption DEF Taken

\* A sample changes rows, points and the snapshot to measure from.
LEMMA CollectCases ==
  ASSUME CountersInv, CollectAndEmitStats
  PROVE  /\ visiting # Nowhere /\ visiting' = Nowhere /\ readings' = NotRead
         /\ collected' = collected + 1 /\ collected < MaxSamples
         /\ UNCHANGED <<listed, reply, kernelVars>>
         /\ \E t \in Times :
              /\ clock' = t
              /\ rows' = [n \in Names |->
                   IF n \in Reported
                   THEN {r \in rows[n] : r.time # t} \union {Taken(n, t)} ELSE rows[n]]
              /\ \/ /\ series' = [n \in Names |->
                         IF n \in Reported THEN PointsAfter(n, Taken(n, t)) ELSE series[n]]
                    /\ last_stats' = [n \in Names |->
                         IF n \in Reported THEN Taken(n, t) ELSE last_stats[n]]
                 \/ UNCHANGED <<last_stats, series>>
<1>1. visiting # Nowhere
  BY DEF CollectAndEmitStats, Nowhere
<1>2. /\ visiting' = Nowhere /\ readings' = NotRead /\ collected' = collected + 1
      /\ UNCHANGED <<listed, reply, kernelVars>> /\ collected < MaxSamples
  BY <1>1 DEF CollectAndEmitStats, CountersInv, VisitOrdered
<1>3. PICK t \in Times :
        clock' = t /\ HandleStatsCollected([n \in Reported |-> Taken(n, t)])
  BY DEF CollectAndEmitStats, Reported, Taken
<1> DEFINE sample == [n \in Reported |-> Taken(n, t)]
<1>4. /\ DOMAIN sample = Reported
      /\ \A n \in Reported : sample[n] = Taken(n, t) /\ sample[n].time = t
  BY <1>1, TakenType
<1> HIDE DEF sample
<1>5. HandleStatsCollected(sample)
  BY <1>3 DEF sample
<1>6. rows' = [n \in Names |->
        IF n \in Reported
        THEN {r \in rows[n] : r.time # t} \union {Taken(n, t)} ELSE rows[n]]
  BY <1>4, <1>5 DEF HandleStatsCollected
<1>7. CASE AppendPoints(sample)
  <2>1. /\ series' = [n \in Names |->
             IF n \in Reported THEN PointsAfter(n, Taken(n, t)) ELSE series[n]]
        /\ last_stats' = [n \in Names |->
             IF n \in Reported THEN Taken(n, t) ELSE last_stats[n]]
    BY <1>4, <1>7 DEF AppendPoints
  <2> QED  BY <1>1, <1>2, <1>3, <1>6, <2>1
<1>8. CASE UNCHANGED <<last_stats, series>>
  BY <1>1, <1>2, <1>3, <1>6, <1>8
<1> QED  BY <1>5, <1>7, <1>8 DEF HandleStatsCollected

\* A live point continues the series of its interface.
LEMMA LivePoint ==
  ASSUME CountersInv, NEW n \in Names, NEW cur \in Sample
  PROVE  /\ PointsAfter(n, cur) \in Seq(Point)
         /\ Connected(PointsAfter(n, cur), cur)
         /\ Ends(PointsAfter(n, cur))
              \subseteq Ends(series[n]) \union {cur} \union ({last_stats[n]} \ {NoSample})
<1>1. /\ series[n] \in Seq(Point) /\ Connected(series[n], last_stats[n])
      /\ last_stats[n] \in Sample \union {NoSample}
      /\ Len(series[n]) \in Nat
  BY LenProperties DEF CountersInv, TypeOK, SeriesConnected
<1>2. CASE last_stats[n] = NoSample
  <2>1. Len(series[n]) = 0
    <3> SUFFICES ASSUME Len(series[n]) > 0 PROVE FALSE
      BY <1>1
    <3>1. series[n][Len(series[n])] \in Point
      BY <1>1, ElementOfSeq
    <3>2. series[n][Len(series[n])].to \in Sample
      BY <3>1, PointParts
    <3> QED  BY <1>1, <1>2, <3>2, NoSampleAssumption DEF Connected
  <2>2. Connected(series[n], cur)
    BY <1>1, <2>1 DEF Connected
  <2> QED  BY <1>1, <1>2, <2>2 DEF PointsAfter
<1>3. CASE last_stats[n] # NoSample
  <2> DEFINE p == Measured(last_stats[n], cur)
             s == Append(series[n], p)
  <2>1. /\ p \in Point /\ p.from = last_stats[n] /\ p.to = cur
        /\ p.bytes = Traffic(p.from, p.to)
    BY <1>1, <1>3, PointTypes
  <2> HIDE DEF p
  <2>2. s \in Seq(Point) /\ Connected(s, cur) /\ Ends(s) = Ends(series[n]) \union {p.from, p.to}
    BY <1>1, <2>1, Continued
  <2> HIDE DEF s
  <2>3. PointsAfter(n, cur) = DropBefore(s, cur.time - Window)
    BY <1>3 DEF PointsAfter, s, p
  <2>4. /\ DropBefore(s, cur.time - Window) \in Seq(Point)
        /\ Connected(DropBefore(s, cur.time - Window), cur)
        /\ Ends(DropBefore(s, cur.time - Window)) \subseteq Ends(s)
    BY <2>2, Dropped
  <2> QED  BY <1>3, <2>1, <2>2, <2>3, <2>4
<1> QED  BY <1>2, <1>3

LEMMA CollectStep ==
  ASSUME CountersInv, CollectAndEmitStats
  PROVE  CountersInv'
<1>1. PICK t \in Times :
        /\ clock' = t
        /\ rows' = [n \in Names |->
             IF n \in Reported
             THEN {r \in rows[n] : r.time # t} \union {Taken(n, t)} ELSE rows[n]]
        /\ \/ /\ series' = [n \in Names |->
                   IF n \in Reported THEN PointsAfter(n, Taken(n, t)) ELSE series[n]]
              /\ last_stats' = [n \in Names |->
                   IF n \in Reported THEN Taken(n, t) ELSE last_stats[n]]
           \/ UNCHANGED <<last_stats, series>>
  BY CollectCases
<1>2. /\ visiting # Nowhere /\ visiting' = Nowhere /\ readings' = NotRead
      /\ collected' = collected + 1 /\ collected < MaxSamples
      /\ UNCHANGED <<listed, reply, kernelVars>>
  BY CollectCases
<1>3. \A n \in Reported : n \in Names /\ Taken(n, t) \in Sample /\ Taken(n, t).time = t
  BY <1>2, TakenType DEF Reported
<1>4. /\ rows \in [Names -> SUBSET Sample]
      /\ last_stats \in [Names -> Sample \union {NoSample}]
      /\ series \in [Names -> Seq(Point)]
  BY DEF CountersInv, TypeOK
<1>5. rows' \in [Names -> SUBSET Sample]
  BY <1>1, <1>3, <1>4
<1>6. \A n \in Names : IsTable(rows'[n])
  <2> TAKE n \in Names
  <2>1. IsTable(rows[n])
    BY DEF CountersInv, TablesKept
  <2>2. CASE n \in Reported
    <3> DEFINE old == {r \in rows[n] : r.time # t}
    <3>1. rows'[n] = old \union {Taken(n, t)}
      BY <1>1, <2>2
    <3>2. IsFiniteSet(old)
      BY <2>1, FS_Subset DEF IsTable
    <3>3. IsFiniteSet(old \union {Taken(n, t)})
      BY <3>2, FS_AddElement
    <3>4. Taken(n, t).time = t
      BY <1>3, <2>2
    <3> QED  BY <2>1, <3>1, <3>3, <3>4 DEF IsTable
  <2>3. CASE n \notin Reported
    BY <1>1, <2>1, <2>3
  <2> QED  BY <2>2, <2>3
<1>7. /\ last_stats' \in [Names -> Sample \union {NoSample}]
      /\ series' \in [Names -> Seq(Point)]
      /\ \A n \in Names : Connected(series'[n], last_stats'[n])
  <2>1. \A n \in Names : Connected(series[n], last_stats[n])
    BY DEF CountersInv, SeriesConnected
  <2>2. CASE UNCHANGED <<last_stats, series>>
    BY <1>4, <2>1, <2>2
  <2>3. CASE /\ series' = [n \in Names |->
                  IF n \in Reported THEN PointsAfter(n, Taken(n, t)) ELSE series[n]]
             /\ last_stats' = [n \in Names |->
                  IF n \in Reported THEN Taken(n, t) ELSE last_stats[n]]
    <3>1. \A n \in Reported : /\ PointsAfter(n, Taken(n, t)) \in Seq(Point)
                              /\ Connected(PointsAfter(n, Taken(n, t)), Taken(n, t))
      BY <1>3, LivePoint
    <3> QED  BY <1>3, <1>4, <2>1, <2>3, <3>1
  <2> QED  BY <1>1, <2>2, <2>3
<1>8. TypeOK'
  <2>1. NotRead \in [Names -> [Ways -> Reading \union {NoSample}]]
    BY DEF NotRead
  <2>2. collected' \in 0..MaxSamples /\ clock' \in {0} \union Times
    BY <1>1, <1>2 DEF CountersInv, TypeOK
  <2> QED  BY <1>2, <1>5, <1>7, <2>1, <2>2 DEF CountersInv, TypeOK, kernelVars
<1>9. VisitOrdered'
  <2>1. \A n \in Names : visiting' # <<n, "sent">> /\ readings'[n]["sent"] = NoSample
    BY <1>2 DEF Nowhere, NotRead, Ways
  <2> QED  BY <1>2, <2>1 DEF CountersInv, VisitOrdered, kernelVars
<1>10. TablesKept' /\ SeriesConnected'
  BY <1>2, <1>6, <1>7 DEF CountersInv, TablesKept, SeriesConnected
<1> QED  BY <1>8, <1>9, <1>10 DEF CountersInv

LEMMA LoadStep ==
  ASSUME CountersInv, NEW n \in Names, Load(n)
  PROVE  /\ CountersInv'
         /\ reply'[n] \subseteq rows[n]
         /\ \A m \in Names : m # n => reply'[m] = reply[m]
<1>1. PICK R \in SUBSET rows[n] : reply' = [reply EXCEPT ![n] = R]
  BY DEF Load
<1>2. UNCHANGED <<rows, last_stats, series, kernelVars, collectorVars>>
  BY DEF Load
<1>3. /\ reply \in [Names -> (SUBSET Sample) \union {NoSample}]
      /\ rows[n] \in SUBSET Sample /\ IsTable(rows[n])
  BY DEF CountersInv, TypeOK, TablesKept
<1>4. IsTable(R)
  BY <1>3, FS_Subset DEF IsTable
<1>5. /\ reply'[n] = R /\ \A m \in Names : m # n => reply'[m] = reply[m]
      /\ reply' \in [Names -> (SUBSET Sample) \union {NoSample}]
  BY <1>1, <1>3
<1>6. TypeOK' /\ VisitOrdered' /\ SeriesConnected'
  BY <1>2, <1>5 DEF CountersInv, TypeOK, VisitOrdered, SeriesConnected, kernelVars, collectorVars
<1>7. TablesKept'
  BY <1>2, <1>4, <1>5 DEF CountersInv, TablesKept
<1> QED  BY <1>5, <1>6, <1>7 DEF CountersInv

LEMMA LoadedStepKeeps ==
  ASSUME CountersInv, NEW n \in Names, HandleSnapshotsLoaded(n)
  PROVE  /\ CountersInv'
         /\ Ends(series'[n]) \subseteq reply[n]
         /\ last_stats'[n] \in reply[n] \/ last_stats'[n] = last_stats[n]
         /\ \A m \in Names : m # n => series'[m] = series[m] /\ last_stats'[m] = last_stats[m]
<1> DEFINE S == reply[n]
<1>1. /\ S # NoSample /\ S \in SUBSET Sample /\ IsTable(S)
      /\ reply \in [Names -> (SUBSET Sample) \union {NoSample}]
      /\ last_stats \in [Names -> Sample \union {NoSample}]
      /\ series \in [Names -> Seq(Point)]
      /\ \A m \in Names : Connected(series[m], last_stats[m])
  BY DEF CountersInv, TypeOK, TablesKept, SeriesConnected, HandleSnapshotsLoaded
<1>2. /\ UNCHANGED <<rows, kernelVars, collectorVars>>
      /\ reply' = [reply EXCEPT ![n] = NoSample]
  BY DEF HandleSnapshotsLoaded
<1>3. /\ series' \in [Names -> Seq(Point)]
      /\ last_stats' \in [Names -> Sample \union {NoSample}]
      /\ Ends(series'[n]) \subseteq S /\ Connected(series'[n], last_stats'[n])
      /\ last_stats'[n] \in S \/ last_stats'[n] = last_stats[n]
      /\ \A m \in Names : m # n => series'[m] = series[m] /\ last_stats'[m] = last_stats[m]
  <2>1. CASE Cardinality(S) >= 2
    <3>1. /\ series' = [series EXCEPT ![n] = LoadedPoints(S)]
          /\ last_stats' = [last_stats EXCEPT ![n] = Sorted(S)[Cardinality(S)]]
      BY <2>1 DEF HandleSnapshotsLoaded
    <3> HIDE DEF S
    <3>2. /\ LoadedPoints(S) \in Seq(Point)
          /\ Connected(LoadedPoints(S), Sorted(S)[Cardinality(S)])
          /\ Ends(LoadedPoints(S)) \subseteq S
          /\ Sorted(S)[Cardinality(S)] \in S
      BY <1>1, <2>1, LoadedFacts
    <3> QED  BY <1>1, <3>1, <3>2
  <2>2. CASE ~(Cardinality(S) >= 2)
    <3>1. series' = [series EXCEPT ![n] = <<>>] /\ UNCHANGED last_stats
      BY <2>2 DEF HandleSnapshotsLoaded
    <3>2. /\ <<>> \in Seq(Point) /\ Ends(<<>>) = {}
          /\ Connected(<<>>, last_stats[n])
      BY EmptySeq DEF Ends, Connected
    <3> QED  BY <1>1, <3>1, <3>2
  <2> QED  BY <2>1, <2>2
<1> HIDE DEF S
<1>4. TypeOK' /\ VisitOrdered'
  BY <1>1, <1>2, <1>3 DEF CountersInv, TypeOK, VisitOrdered, kernelVars, collectorVars
<1>5. SeriesConnected'
  BY <1>1, <1>3 DEF SeriesConnected
<1>6. TablesKept'
  BY <1>1, <1>2 DEF CountersInv, TablesKept
<1> QED  BY <1>3, <1>4, <1>5, <1>6 DEF CountersInv, S

LEMMA CountersStep == CountersInv /\ [Next]_vars => CountersInv'
<1> SUFFICES ASSUME CountersInv, [Next]_vars PROVE CountersInv'
  OBVIOUS
<1>1. CASE UNCHANGED vars
  BY <1>1 DEF vars, CountersInv, TypeOK, VisitOrdered, TablesKept, SeriesConnected
<1>2. CASE StartListing \/ \E n \in Names : ReadOperstate(n) \/ ReadReceived(n) \/ ReadSent(n)
  BY <1>2, ReaderSteps
<1>3. CASE CollectAndEmitStats
  BY <1>3, CollectStep
<1>4. ASSUME NEW n \in Names,
             (\E w \in Ways : Transfer(n, w)) \/ ChangeLink(n) \/ Recreate(n)
      PROVE  CountersInv'
  BY <1>4, KernelSteps
<1>5. ASSUME NEW n \in Names, Load(n) PROVE CountersInv'
  BY <1>5, LoadStep
<1>6. ASSUME NEW n \in Names, HandleSnapshotsLoaded(n) PROVE CountersInv'
  BY <1>6, LoadedStepKeeps
<1> QED  BY <1>1, <1>2, <1>3, <1>4, <1>5, <1>6 DEF Next

-----------------------------------------------------------------------------
(* The order of readings *)

LEMMA FollowsTransitive ==
  ASSUME NEW a \in Reading, NEW b \in Reading, NEW c \in Reading,
         Follows(a, b), Follows(b, c)
  PROVE  Follows(a, c)
<1>1. /\ a.value \in Nat /\ a.passed \in Nat /\ b.value \in Nat /\ b.passed \in Nat
      /\ c.value \in Nat /\ c.passed \in Nat
  BY ReadingParts
<1> QED  BY <1>1 DEF Follows, StartOf

\* The counters go on, or start again from what has passed.
LEMMA CounterGoesOn ==
  ASSUME CountersInv, [Next]_vars, NEW n \in Names, NEW w \in Ways
  PROVE  /\ CounterNow(n, w) \in Reading
         /\ Follows(CounterNow(n, w), CounterNow(n, w)')
<1>1. /\ passed[n][w] \in Nat /\ base[n][w] \in Nat /\ base[n][w] <= passed[n][w]
      /\ passed[n][w] \in Bytes /\ Counter(n, w) \in Bytes
      /\ Counter(n, w) = passed[n][w] - base[n][w]
      /\ 0 \in Bytes
  BY CounterType, BytesAreNaturals DEF Counter
<1>2. CounterNow(n, w) \in Reading
  BY <1>1 DEF CounterNow, Reading
<1>3. /\ CounterNow(n, w).passed = passed[n][w]
      /\ StartOf(CounterNow(n, w)) = IF link[n] = "gone" THEN passed[n][w] ELSE base[n][w]
      /\ CounterNow(n, w)'.passed = passed'[n][w]
      /\ CounterNow(n, w)'.value = IF link'[n] = "gone" THEN 0 ELSE passed'[n][w] - base'[n][w]
  BY <1>1 DEF CounterNow, Counter, StartOf
<1> DEFINE goesOn == Follows(CounterNow(n, w), CounterNow(n, w)')
<1>4. CASE UNCHANGED kernelVars
  <2>1. passed' = passed /\ base' = base /\ link' = link
    BY <1>4 DEF kernelVars
  <2> QED  BY <1>1, <1>2, <1>3, <2>1 DEF Follows, StartOf
<1>5. CASE UNCHANGED vars
  BY <1>4, <1>5 DEF vars, kernelVars
<1>6. CASE StartListing \/ CollectAndEmitStats
  BY <1>4, <1>6 DEF StartListing, CollectAndEmitStats
<1>7. ASSUME NEW m \in Names,
             ReadOperstate(m) \/ ReadReceived(m) \/ ReadSent(m) \/ Load(m) \/ HandleSnapshotsLoaded(m)
      PROVE  goesOn
  BY <1>4, <1>7 DEF ReadOperstate, ReadReceived, ReadSent, Load, HandleSnapshotsLoaded
<1>8. /\ passed \in [Names -> [Ways -> Bytes]] /\ base \in [Names -> [Ways -> Bytes]]
      /\ link \in [Names -> {"gone", "down", "up"}]
  BY DEF CountersInv, TypeOK
<1>9. ASSUME NEW m \in Names, NEW v \in Ways, Transfer(m, v) PROVE goesOn
  <2>1. /\ UNCHANGED <<link, base>> /\ link[m] = "up"
        /\ passed' = [passed EXCEPT ![m][v] = @ + 1]
    BY <1>9 DEF Transfer
  <2>2. CASE m = n /\ v = w
    <3>1. passed'[n][w] = passed[n][w] + 1
      BY <1>8, <2>1, <2>2
    <3> QED  BY <1>1, <1>3, <2>1, <2>2, <3>1 DEF Follows, StartOf
  <2>3. CASE ~(m = n /\ v = w)
    <3>1. passed'[n][w] = passed[n][w]
      BY <1>8, <2>1, <2>3
    <3> QED  BY <1>1, <1>3, <2>1, <3>1 DEF Follows, StartOf
  <2> QED  BY <2>2, <2>3
<1>10. ASSUME NEW m \in Names, ChangeLink(m) PROVE goesOn
  <2>1. UNCHANGED <<passed, base>> /\ link[m] # "gone"
    BY <1>10 DEF ChangeLink
  <2>2. link'[n] = link[n] \/ link[n] # "gone"
    BY <1>8, <1>10, <2>1 DEF ChangeLink
  <2> QED  BY <1>1, <1>3, <2>1, <2>2 DEF Follows, StartOf
<1>11. ASSUME NEW m \in Names, Recreate(m) PROVE goesOn
  <2>1. /\ UNCHANGED passed /\ link[m] = "gone"
        /\ link' = [link EXCEPT ![m] = "up"]
        /\ base' = [base EXCEPT ![m] = passed[m]]
    BY <1>11 DEF Recreate
  <2>2. CASE m = n
    <3>1. link[n] = "gone" /\ link'[n] = "up" /\ base'[n][w] = passed[n][w]
      BY <1>8, <2>1, <2>2
    <3> QED  BY <1>1, <1>3, <2>1, <3>1 DEF Follows, StartOf
  <2>3. CASE m # n
    <3>1. link'[n] = link[n] /\ base'[n] = base[n]
      BY <1>8, <2>1, <2>3
    <3> QED  BY <1>1, <1>3, <2>1, <3>1 DEF Follows, StartOf
  <2> QED  BY <2>2, <2>3
<1> QED  BY <1>2, <1>5, <1>6, <1>7, <1>9, <1>10, <1>11 DEF Next

\* If files can be read, what is read is the counter as it is.
LEMMA ReadIsCounter ==
  ASSUME CountersInv, ReadMayFail = FALSE, [Next]_vars, NEW n \in Names, NEW w \in Ways
  PROVE  \/ readings'[n][w] = readings[n][w]
         \/ readings'[n][w] = NoSample
         \/ readings'[n][w] = CounterNow(n, w) /\ UNCHANGED <<kernelVars, collected, chartVars>>
<1> DEFINE fine == \/ readings'[n][w] = readings[n][w]
                   \/ readings'[n][w] = NoSample
                   \/ /\ readings'[n][w] = CounterNow(n, w)
                      /\ UNCHANGED <<kernelVars, collected, chartVars>>
<1>1. readings \in [Names -> [Ways -> Reading \union {NoSample}]]
  BY DEF CountersInv, TypeOK
<1>2. CASE UNCHANGED readings
  BY <1>2
<1>3. CASE readings' = NotRead
  BY <1>3 DEF NotRead
<1>4. CASE UNCHANGED vars
  BY <1>2, <1>4 DEF vars
<1>5. CASE StartListing \/ CollectAndEmitStats
  BY <1>3, <1>5 DEF StartListing, CollectAndEmitStats
<1>6. ASSUME NEW m \in Names,
             \/ \E v \in Ways : Transfer(m, v)
             \/ ChangeLink(m) \/ Recreate(m)
             \/ ReadOperstate(m) \/ Load(m) \/ HandleSnapshotsLoaded(m)
      PROVE  fine
  BY <1>2, <1>6
  DEF Transfer, ChangeLink, Recreate, ReadOperstate, Load, HandleSnapshotsLoaded, collectorVars
<1>7. ASSUME NEW m \in Names, NEW v \in Ways, ReadBytes(m, v),
             UNCHANGED <<kernelVars, collected, chartVars>>
      PROVE  fine
  <2>1. readings' = [readings EXCEPT ![m][v] = CounterNow(m, v)]
    BY <1>7 DEF ReadBytes, Readable, CounterNow
  <2>2. CASE m = n /\ v = w
    BY <1>1, <1>7, <2>1, <2>2
  <2>3. CASE ~(m = n /\ v = w)
    BY <1>1, <2>1, <2>3
  <2> QED  BY <2>2, <2>3
<1>8. ASSUME NEW m \in Names, ReadReceived(m) \/ ReadSent(m) PROVE fine
  BY <1>7, <1>8 DEF ReadReceived, ReadSent, Ways
<1> QED  BY <1>4, <1>5, <1>6, <1>8 DEF Next

-----------------------------------------------------------------------------
(* The snapshots of an interface *)

LEMMA SnapshotsType ==
  ASSUME CountersInv, NEW n \in Names
  PROVE  Snapshots(n) \in SUBSET Sample
<1>1. /\ rows[n] \in SUBSET Sample
      /\ last_stats[n] \in Sample \union {NoSample}
      /\ reply[n] \in (SUBSET Sample) \union {NoSample}
      /\ series[n] \in Seq(Point)
  BY DEF CountersInv, TypeOK
<1>2. \A i \in 1..Len(series[n]) : series[n][i].from \in Sample /\ series[n][i].to \in Sample
  BY <1>1, ElementOfSeq, PointParts
<1> QED  BY <1>1, <1>2 DEF Snapshots, Ends

\* A step adds the snapshot of the sample that it collects, or none.
LEMMA SnapshotsStep ==
  ASSUME CountersInv, [Next]_vars, NEW n \in Names
  PROVE  \/ Snapshots(n)' \subseteq Snapshots(n) /\ collected' \in {collected, collected + 1}
         \/ /\ n \in Reported /\ visiting # Nowhere
            /\ readings' = NotRead /\ collected' = collected + 1
            /\ \E t \in Times : Snapshots(n)' \subseteq Snapshots(n) \union {Taken(n, t)}
<1> DEFINE none == Snapshots(n)' \subseteq Snapshots(n) /\ collected' \in {collected, collected + 1}
           one == /\ n \in Reported /\ visiting # Nowhere
                  /\ readings' = NotRead /\ collected' = collected + 1
                  /\ \E t \in Times : Snapshots(n)' \subseteq Snapshots(n) \union {Taken(n, t)}
<1>1. collected \in Nat /\ (reply[n] # NoSample => reply[n] \in SUBSET Sample)
  BY DEF CountersInv, TypeOK, CountersAssumption
<1>2. CASE UNCHANGED <<chartVars, collected>>
  BY <1>1, <1>2 DEF chartVars, Snapshots
<1>3. CASE UNCHANGED vars
  BY <1>2, <1>3 DEF vars, chartVars
<1>4. CASE StartListing
  BY <1>2, <1>4 DEF StartListing
<1>5. ASSUME NEW m \in Names,
             \/ \E w \in Ways : Transfer(m, w)
             \/ ChangeLink(m) \/ Recreate(m)
             \/ ReadOperstate(m) \/ ReadReceived(m) \/ ReadSent(m)
      PROVE  none \/ one
  <2>1. UNCHANGED chartVars /\ UNCHANGED collected
    BY <1>5
    DEF Transfer, ChangeLink, Recreate, ReadOperstate, ReadReceived, ReadSent, collectorVars
  <2> QED  BY <1>2, <2>1
<1>6. CASE CollectAndEmitStats
  <2>1. PICK t \in Times :
          /\ rows' = [m \in Names |->
               IF m \in Reported
               THEN {r \in rows[m] : r.time # t} \union {Taken(m, t)} ELSE rows[m]]
          /\ \/ /\ series' = [m \in Names |->
                     IF m \in Reported THEN PointsAfter(m, Taken(m, t)) ELSE series[m]]
                /\ last_stats' = [m \in Names |->
                     IF m \in Reported THEN Taken(m, t) ELSE last_stats[m]]
             \/ UNCHANGED <<last_stats, series>>
    BY <1>6, CollectCases
  <2>2. /\ visiting # Nowhere /\ readings' = NotRead
        /\ collected' = collected + 1 /\ reply' = reply
    BY <1>6, CollectCases
  <2>3. CASE n \in Reported
    <3>1. Taken(n, t) \in Sample
      BY <2>2, <2>3, TakenType
    <3>2. rows'[n] \subseteq rows[n] \union {Taken(n, t)}
      BY <2>1
    <3>3. Ends(PointsAfter(n, Taken(n, t)))
            \subseteq Ends(series[n]) \union {Taken(n, t)} \union ({last_stats[n]} \ {NoSample})
      BY <3>1, LivePoint
    <3>4. CASE UNCHANGED <<last_stats, series>>
      BY <2>2, <2>3, <3>2, <3>4 DEF Snapshots
    <3>5. CASE series'[n] = PointsAfter(n, Taken(n, t)) /\ last_stats'[n] = Taken(n, t)
      BY <2>2, <2>3, <3>2, <3>3, <3>5 DEF Snapshots
    <3> QED  BY <2>1, <2>3, <3>4, <3>5
  <2>4. CASE n \notin Reported
    <3>1. rows'[n] = rows[n] /\ series'[n] = series[n] /\ last_stats'[n] = last_stats[n]
      BY <2>1, <2>4
    <3>2. Snapshots(n)' = Snapshots(n)
      BY <2>2, <3>1 DEF Snapshots
    <3> QED  BY <2>2, <3>2
  <2> QED  BY <2>3, <2>4
<1>7. ASSUME NEW m \in Names, Load(m) PROVE none
  <2>1. /\ UNCHANGED <<rows, last_stats, series, collected>>
        /\ reply'[m] \subseteq rows[m]
        /\ \A k \in Names : k # m => reply'[k] = reply[k]
    BY <1>7, LoadStep DEF Load, collectorVars
  <2>2. CASE m = n
    BY <1>1, <2>1, <2>2 DEF Snapshots
  <2>3. CASE m # n
    BY <1>1, <2>1, <2>3 DEF Snapshots
  <2> QED  BY <2>2, <2>3
<1>8. ASSUME NEW m \in Names, HandleSnapshotsLoaded(m) PROVE none
  <2>1. /\ UNCHANGED <<rows, collected>>
        /\ reply[m] # NoSample /\ reply' = [reply EXCEPT ![m] = NoSample]
    BY <1>8 DEF HandleSnapshotsLoaded, collectorVars
  <2>2. /\ Ends(series'[m]) \subseteq reply[m]
        /\ last_stats'[m] \in reply[m] \/ last_stats'[m] = last_stats[m]
        /\ \A k \in Names : k # m => series'[k] = series[k] /\ last_stats'[k] = last_stats[k]
    BY <1>8, LoadedStepKeeps
  <2>3. reply \in [Names -> (SUBSET Sample) \union {NoSample}]
    BY DEF CountersInv, TypeOK
  <2>4. CASE m = n
    <3>1. reply'[n] = NoSample
      BY <2>1, <2>3, <2>4
    <3> QED  BY <1>1, <2>1, <2>2, <2>4, <3>1 DEF Snapshots
  <2>5. CASE m # n
    <3>1. reply'[n] = reply[n]
      BY <2>1, <2>3, <2>5
    <3> QED  BY <1>1, <2>1, <2>2, <2>5, <3>1 DEF Snapshots
  <2> QED  BY <2>4, <2>5
<1> QED  BY <1>3, <1>4, <1>5, <1>6, <1>7, <1>8 DEF Next

LEMMA NumberedStep ==
  ASSUME CountersInv, NumberedOnce, [Next]_vars
  PROVE  NumberedOnce'
<1> SUFFICES ASSUME NEW n \in Names, NEW s \in Snapshots(n)', NEW t \in Snapshots(n)'
             PROVE  s.no <= collected' /\ (s.no = t.no => s = t)
  BY DEF NumberedOnce
<1>1. collected \in Nat
  BY DEF CountersInv, TypeOK, CountersAssumption
<1>2. /\ \A q \in Snapshots(n) : q.no \in Nat /\ q.no <= collected
      /\ \A q, r \in Snapshots(n) : q.no = r.no => q = r
  BY SnapshotsType, SampleParts DEF NumberedOnce
<1>3. CASE Snapshots(n)' \subseteq Snapshots(n) /\ collected' \in {collected, collected + 1}
  BY <1>1, <1>2, <1>3
<1>4. CASE /\ n \in Reported /\ visiting # Nowhere /\ collected' = collected + 1
           /\ \E u \in Times : Snapshots(n)' \subseteq Snapshots(n) \union {Taken(n, u)}
  <2>1. PICK u \in Times : Snapshots(n)' \subseteq Snapshots(n) \union {Taken(n, u)}
    BY <1>4
  <2>2. Taken(n, u).no = collected + 1
    BY <1>4, TakenType
  <2> QED  BY <1>1, <1>2, <1>4, <2>1, <2>2
<1> QED  BY <1>3, <1>4, SnapshotsStep

LEMMA ReadInOrderStep ==
  ASSUME CountersInv, NumberedOnce, ReadInOrder, ReadMayFail = FALSE, [Next]_vars
  PROVE  ReadInOrder'
<1> SUFFICES ASSUME NEW n \in Names, NEW w \in Ways
             PROVE  /\ \A s \in Snapshots(n)' :
                         /\ Follows(s[w], CounterNow(n, w)')
                         /\ readings'[n][w] # NoSample => Follows(s[w], readings'[n][w])
                         /\ \A t \in Snapshots(n)' : s.no < t.no => Follows(s[w], t[w])
                    /\ readings'[n][w] # NoSample => Follows(readings'[n][w], CounterNow(n, w)')
  BY DEF ReadInOrder
<1> DEFINE now == CounterNow(n, w)
           read == readings[n][w]
<1>1. /\ now \in Reading /\ now' \in Reading /\ Follows(now, now')
      /\ (read # NoSample => read \in Reading)
  <2>1. CountersInv'
    BY CountersStep
  <2>2. now' \in Reading
    <3>1. passed'[n][w] \in Bytes /\ base'[n][w] \in Bytes /\ base'[n][w] <= passed'[n][w]
      BY <2>1 DEF CountersInv, TypeOK, VisitOrdered
    <3>2. /\ passed'[n][w] \in Nat /\ base'[n][w] \in Nat /\ 0 \in Bytes
          /\ \A k \in Nat : k <= passed'[n][w] => k \in Bytes
      BY <3>1, BytesAreNaturals
    <3>3. passed'[n][w] - base'[n][w] \in Bytes
      BY <3>1, <3>2
    <3> QED  BY <3>1, <3>2, <3>3 DEF CounterNow, Counter, Reading
  <2> QED  BY <2>2, CounterGoesOn DEF CountersInv, TypeOK
<1>2. /\ \A s \in Snapshots(n) :
           /\ Follows(s[w], now)
           /\ read # NoSample => Follows(s[w], read)
           /\ \A t \in Snapshots(n) : s.no < t.no => Follows(s[w], t[w])
      /\ read # NoSample => Follows(read, now)
  BY DEF ReadInOrder
<1>3. \A s \in Snapshots(n) : s[w] \in Reading /\ s.no \in Nat /\ s.no <= collected
  BY SnapshotsType, SampleParts DEF NumberedOnce
<1>4. \A s \in Snapshots(n) : Follows(s[w], now')
  BY <1>1, <1>2, <1>3, FollowsTransitive
<1>5. read # NoSample => Follows(read, now')
  BY <1>1, <1>2, FollowsTransitive
<1>6. collected \in Nat
  BY DEF CountersInv, TypeOK, CountersAssumption
<1>7. \/ readings'[n][w] = read \/ readings'[n][w] = NoSample
      \/ readings'[n][w] = now
  BY ReadIsCounter
<1> HIDE DEF now, read
<1>8. CASE Snapshots(n)' \subseteq Snapshots(n)
  BY <1>1, <1>2, <1>4, <1>5, <1>7, <1>8 DEF now, read
<1>9. CASE /\ n \in Reported /\ visiting # Nowhere /\ readings' = NotRead
           /\ \E u \in Times : Snapshots(n)' \subseteq Snapshots(n) \union {Taken(n, u)}
  <2>1. PICK u \in Times : Snapshots(n)' \subseteq Snapshots(n) \union {Taken(n, u)}
    BY <1>9
  <2>2. /\ Taken(n, u).no = collected + 1
        /\ Taken(n, u)[w] = read /\ read # NoSample
    BY <1>9, TakenType DEF read
  <2>3. readings'[n][w] = NoSample
    BY <1>9 DEF NotRead
  <2> DEFINE new == Taken(n, u)
  <2> HIDE DEF new
  <2>4. /\ Snapshots(n)' \subseteq Snapshots(n) \union {new}
        /\ new.no = collected + 1 /\ new[w] = read
    BY <2>1, <2>2 DEF new
  <2>5. \A s \in Snapshots(n)' : Follows(s[w], now')
    BY <1>4, <1>5, <2>2, <2>4
  <2>6. ASSUME NEW s \in Snapshots(n)', NEW t \in Snapshots(n)', s.no < t.no
        PROVE  Follows(s[w], t[w])
    <3>1. CASE t = new
      <4>1. s # new
        BY <1>6, <2>4, <2>6, <3>1
      <4>2. s \in Snapshots(n)
        BY <2>4, <4>1
      <4> QED  BY <1>2, <2>2, <2>4, <3>1, <4>2
    <3>2. CASE t # new
      <4>1. t \in Snapshots(n)
        BY <2>4, <3>2
      <4>2. s # new
        BY <1>3, <1>6, <2>4, <2>6, <4>1
      <4>3. s \in Snapshots(n)
        BY <2>4, <4>2
      <4> QED  BY <1>2, <2>6, <4>1, <4>3
    <3> QED  BY <3>1, <3>2
  <2> QED  BY <2>3, <2>5, <2>6 DEF now
<1> QED  BY <1>8, <1>9, SnapshotsStep

-----------------------------------------------------------------------------
(* The traffic of a series *)

\* The difference of two counts, when one follows the other.
LEMMA DifferenceOfCounts ==
  ASSUME NEW v \in Nat, NEW u \in Nat, NEW a \in Nat, NEW b \in Nat,
         a <= b, a - v = b - u \/ a <= b - u
  PROVE  /\ Difference(v, u) \in Nat /\ Difference(v, u) <= b - a
         /\ a - v = b - u => Difference(v, u) = b - a
BY DEF Difference

\* A point shows no more than had passed, and all of it if the counter did not
\* start again.
LEMMA PointTraffic ==
  ASSUME CountersInv, NumberedOnce, ReadInOrder,
         NEW n \in Names, NEW i \in 1..Len(series[n]), NEW w \in Ways,
         series[n][i].from.no <= series[n][i].to.no
  PROVE  LET p == series[n][i] IN
         /\ p.from[w].passed \in Nat /\ p.to[w].passed \in Nat /\ p.bytes[w] \in Nat
         /\ p.bytes[w] <= p.to[w].passed - p.from[w].passed
         /\ InOrder(p.from, p.to) /\ SameCounter(p.from, p.to, w)
              => p.bytes[w] = p.to[w].passed - p.from[w].passed
<1> DEFINE prev == series[n][i].from
           cur == series[n][i].to
           drawn == series[n][i].bytes[w]
<1>1. prev \in Snapshots(n) /\ cur \in Snapshots(n)
  BY DEF Snapshots, Ends
<1>2. prev \in Sample /\ cur \in Sample
  BY <1>1, SnapshotsType
<1>3. series[n][i].bytes = Traffic(prev, cur)
  BY DEF CountersInv, SeriesConnected, Connected
<1> SUFFICES /\ prev[w].passed \in Nat /\ cur[w].passed \in Nat /\ drawn \in Nat
             /\ drawn <= cur[w].passed - prev[w].passed
             /\ InOrder(prev, cur) /\ SameCounter(prev, cur, w)
                  => drawn = cur[w].passed - prev[w].passed
  OBVIOUS
<1>4. prev.no <= cur.no
  OBVIOUS
<1>5. drawn = IF cur.time <= prev.time THEN 0 ELSE Difference(prev[w].value, cur[w].value)
  BY <1>3 DEF Traffic
<1> HIDE DEF prev, cur, drawn
<1>6. /\ prev[w].passed \in Nat /\ cur[w].passed \in Nat
      /\ prev[w].value \in Nat /\ cur[w].value \in Nat
      /\ prev.no \in Nat /\ cur.no \in Nat /\ prev.time \in Nat /\ cur.time \in Nat
  BY <1>2, SampleParts, ReadingParts
<1>7. CASE prev = cur
  <2>1. drawn = 0
    BY <1>5, <1>6, <1>7
  <2> QED  BY <1>6, <1>7, <2>1
<1>8. CASE prev # cur
  <2>1. prev.no < cur.no
    BY <1>1, <1>4, <1>6, <1>8 DEF NumberedOnce
  <2>2. Follows(prev[w], cur[w])
    BY <1>1, <2>1 DEF ReadInOrder
  <2>3. /\ prev[w].passed <= cur[w].passed
        /\ \/ prev[w].passed - prev[w].value = cur[w].passed - cur[w].value
           \/ prev[w].passed <= cur[w].passed - cur[w].value
    BY <2>2 DEF Follows, StartOf
  <2> DEFINE d == Difference(prev[w].value, cur[w].value)
  <2>4. /\ d \in Nat /\ d <= cur[w].passed - prev[w].passed
        /\ prev[w].passed - prev[w].value = cur[w].passed - cur[w].value
             => d = cur[w].passed - prev[w].passed
    <3> DEFINE v == prev[w].value
               u == cur[w].value
               a == prev[w].passed
               b == cur[w].passed
    <3>1. /\ v \in Nat /\ u \in Nat /\ a \in Nat /\ b \in Nat
          /\ a <= b /\ (a - v = b - u \/ a <= b - u)
      BY <1>6, <2>3
    <3> HIDE DEF v, u, a, b
    <3>2. /\ Difference(v, u) \in Nat /\ Difference(v, u) <= b - a
          /\ a - v = b - u => Difference(v, u) = b - a
      BY SMTT(30), <3>1, DifferenceOfCounts
    <3> QED  BY <3>2 DEF v, u, a, b
  <2> HIDE DEF d
  <2>5. drawn \in Nat /\ drawn <= cur[w].passed - prev[w].passed
    BY SMTT(30), <1>5, <1>6, <2>3, <2>4 DEF d
  <2>6. ASSUME InOrder(prev, cur), SameCounter(prev, cur, w)
        PROVE  drawn = cur[w].passed - prev[w].passed
    <3>1. /\ prev.time < cur.time
          /\ prev[w].passed - prev[w].value = cur[w].passed - cur[w].value
      BY <1>8, <2>6 DEF InOrder, SameCounter
    <3>2. drawn = d
      BY <1>5, <1>6, <3>1 DEF d
    <3> QED  BY <2>4, <3>1, <3>2
  <2> QED  BY <1>6, <2>5, <2>6
<1> QED  BY <1>7, <1>8

\* The bytes drawn are the sum over the points.
LEMMA DrawnSum ==
  ASSUME NEW s \in Seq(Point), NEW w \in Ways
  PROVE  \E f : /\ f[0] = 0
                /\ \A k \in 1..Len(s) : f[k] = f[k - 1] + s[k].bytes[w]
                /\ DrawnBytes(s, w) = f[Len(s)]
<1> DEFINE m == Len(s)
           b == [k \in 1..m |-> s[k].bytes[w]]
           step == [k \in 1..m |-> [v \in Nat |-> v + b[k]]]
           Sums(f) == f = [i \in 0..m |-> IF i = 0 THEN 0 ELSE f[i - 1] + s[i].bytes[w]]
           sum == CHOOSE f : Sums(f)
<1>1. m \in Nat /\ \A k \in 1..m : b[k] \in Nat /\ b[k] = s[k].bytes[w]
  <2>1. m \in Nat /\ \A k \in 1..m : s[k] \in Point
    BY LenProperties, ElementOfSeq
  <2> QED  BY <2>1, PointParts, BytesAreNaturals
<1> HIDE DEF m, b
<1>2. step \in [1..m -> [Nat -> Nat]]
  BY <1>1
<1>3. PICK f \in [0..m -> Nat] : f[0] = 0 /\ \A k \in 1..m : f[k] = step[k][f[k - 1]]
  <2> DEFINE g == step
  <2>1. g \in [1..m -> [Nat -> Nat]]
    BY <1>2
  <2> HIDE DEF g
  <2>2. Carried(Nat, m, 0, g) # {}
    BY <1>1, <2>1, CarriedAlong
  <2> QED  BY <2>2 DEF Carried, g
<1>4. \A k \in 1..m : f[k] = f[k - 1] + s[k].bytes[w]
  <2> TAKE k \in 1..m
  <2>1. k - 1 \in 0..m
    BY <1>1
  <2>2. f[k - 1] \in Nat
    BY <1>3, <2>1
  <2> QED  BY <1>1, <1>3, <2>2
<1> HIDE DEF step
<1>5. Sums(f)
  BY <1>1, <1>3, <1>4
<1>6. Sums(sum)
  BY <1>5
<1>7. DrawnBytes(s, w) = sum[m]
  BY DEF DrawnBytes, sum, m
<1> HIDE DEF sum
<1>8. sum[0] = 0 /\ \A k \in 1..m : sum[k] = sum[k - 1] + s[k].bytes[w]
  BY <1>1, <1>6
<1> QED  BY <1>7, <1>8 DEF m

\* Point after point it stays within what passed since the first.
LEMMA TrafficAddsUp ==
  ASSUME CountersInv, NumberedOnce, ReadInOrder, NEW n \in Names, NEW w \in Ways,
         series[n] # <<>>,
         \A i \in DOMAIN series[n] : InOrder(series[n][i].from, series[n][i].to)
  PROVE  LET points == series[n]
             real == Last(points).to[w].passed - Head(points).from[w].passed
         IN /\ DrawnBytes(points, w) <= real
            /\ (\A i \in DOMAIN points : SameCounter(points[i].from, points[i].to, w))
                 => DrawnBytes(points, w) = real
<1> DEFINE s == series[n]
           m == Len(s)
           same == \A i \in DOMAIN s : SameCounter(s[i].from, s[i].to, w)
           p(k) == s[k].from[w].passed
           q(k) == s[k].to[w].passed
<1>1. /\ s \in Seq(Point) /\ m \in Nat /\ DOMAIN s = 1..m /\ m > 0
      /\ Head(s) = s[1] /\ Last(s) = s[m]
  <2>1. s \in Seq(Point)
    BY DEF CountersInv, TypeOK
  <2>2. m \in Nat /\ DOMAIN s = 1..m
    BY <2>1, LenProperties
  <2>3. m > 0
    BY <2>1, <2>2, EmptySeq
  <2>4. Head(s) = s[1] /\ Last(s) = s[m]
    BY <2>1, <2>3, HeadTailProperties DEF Last
  <2> QED  BY <2>1, <2>2, <2>3, <2>4
<1>2. PICK f : /\ f[0] = 0
               /\ \A k \in 1..m : f[k] = f[k - 1] + s[k].bytes[w]
               /\ DrawnBytes(s, w) = f[m]
  BY <1>1, DrawnSum
<1>3. ASSUME NEW k \in 1..m
      PROVE  /\ p(k) \in Nat /\ q(k) \in Nat /\ s[k].bytes[w] \in Nat
             /\ s[k].bytes[w] <= q(k) - p(k)
             /\ same => s[k].bytes[w] = q(k) - p(k)
  <2>1. InOrder(s[k].from, s[k].to)
    BY <1>1
  <2>2. s[k].from \in Sample /\ s[k].to \in Sample
    BY <1>1, ElementOfSeq, PointParts
  <2>3. s[k].from.no <= s[k].to.no
    BY <2>1, <2>2, SampleParts DEF InOrder
  <2> QED  BY <1>1, <2>1, <2>3, PointTraffic
<1>4. \A k \in 1..(m - 1) : q(k) = p(k + 1)
  BY DEF CountersInv, SeriesConnected, Connected
<1> DEFINE Adds(k) == /\ f[k] \in Nat /\ f[k] <= q(k) - p(1)
                      /\ same => f[k] = q(k) - p(1)
           T == {k \in Nat : k \in 1..m => Adds(k)}
<1> HIDE DEF same, s, m, p, q
<1>5. 0 \in T
  OBVIOUS
<1>6. ASSUME NEW k \in T PROVE k + 1 \in T
  <2> SUFFICES ASSUME k + 1 \in 1..m PROVE Adds(k + 1)
    OBVIOUS
  <2>1. k \in Nat /\ (k + 1) - 1 = k /\ 1 \in 1..m
    BY <1>1
  <2>2. f[k + 1] = f[k] + s[k + 1].bytes[w]
    BY <1>2, <2>1
  <2>3. CASE k = 0
    BY <1>2, <1>3, <2>1, <2>2, <2>3
  <2>4. CASE k # 0
    <3>1. k \in 1..(m - 1) /\ k \in 1..m
      BY <1>1, <2>1, <2>4
    <3>2. Adds(k) /\ q(k) = p(k + 1)
      BY <1>4, <3>1
    <3> QED  BY SMTT(30), <1>3, <2>1, <2>2, <3>1, <3>2
  <2> QED  BY <2>3, <2>4
<1>7. T \in SUBSET Nat
  OBVIOUS
<1> HIDE DEF T
<1>8. \A k \in Nat : k \in T
  BY <1>5, <1>6, <1>7, AllNaturals
<1> USE DEF T
<1>9. Adds(m)
  BY <1>1, <1>8
<1> QED  BY <1>1, <1>2, <1>9 DEF same, s, m, p, q

-----------------------------------------------------------------------------
(* Theorems *)

\* Each point shows the difference of two snapshots, and begins where the one
\* before it ended, however loads and live points take turns.
THEOREM CountersInvariant == Spec => []CountersInv
BY InitCounters, CountersStep, PTL DEF Spec

\* Nothing but counters, snapshots and points is read, stored and drawn.
THEOREM CountersTypeCorrect == Spec => []TypeOK
<1>1. CountersInv => TypeOK
  BY DEF CountersInv
<1> QED  BY <1>1, CountersInvariant, PTL

LEMMA InitOrder == Init => NumberedOnce /\ ReadInOrder
<1> SUFFICES ASSUME Init PROVE NumberedOnce /\ ReadInOrder
  OBVIOUS
<1>1. \A n \in Names : Snapshots(n) = {}
  <2>1. Ends(<<>>) = {}
    BY EmptySeq DEF Ends
  <2> QED  BY <2>1 DEF Init, Snapshots
<1>2. \A n \in Names : \A w \in Ways : readings[n][w] = NoSample
  BY DEF Init, NotRead
<1> QED  BY <1>1, <1>2 DEF NumberedOnce, ReadInOrder

\* If the files can be read, any two snapshots of an interface tell what
\* passed between them, wherever they are kept.
THEOREM SnapshotsInOrder ==
  ASSUME ReadMayFail = FALSE
  PROVE  Spec => [](CountersInv /\ NumberedOnce /\ ReadInOrder)
<1> DEFINE Inv == CountersInv /\ NumberedOnce /\ ReadInOrder
<1>1. Init => Inv
  BY InitCounters, InitOrder
<1>2. Inv /\ [Next]_vars => Inv'
  <2>1. ASSUME Inv, UNCHANGED vars PROVE NumberedOnce' /\ ReadInOrder'
    BY <2>1 DEF vars, NumberedOnce, ReadInOrder, Snapshots, CounterNow, Counter
  <2> QED  BY <2>1, CountersStep, NumberedStep, ReadInOrderStep
<1> QED  BY <1>1, <1>2, PTL DEF Spec

\* Only a pair of snapshots that a clock set back has put in the wrong order
\* shows traffic that there was not.
THEOREM OnlySetBackSpikes ==
  ASSUME ReadMayFail = FALSE
  PROVE  Spec => []SpikeOnlyAtSetBack
<1>1. CountersInv /\ NumberedOnce /\ ReadInOrder => SpikeOnlyAtSetBack
  <2> SUFFICES ASSUME CountersInv, NumberedOnce, ReadInOrder,
                      NEW n \in Names, NEW i \in DOMAIN series[n], NEW w \in Ways,
                      series[n][i].from.no <= series[n][i].to.no
               PROVE  series[n][i].bytes[w]
                        <= series[n][i].to[w].passed - series[n][i].from[w].passed
    BY DEF SpikeOnlyAtSetBack
  <2>1. series[n] \in Seq(Point)
    BY DEF CountersInv, TypeOK
  <2>2. i \in 1..Len(series[n])
    BY <2>1, LenProperties
  <2> QED  BY <2>2, PointTraffic
<1> QED  BY <1>1, SnapshotsInOrder, PTL

\* A series shows the traffic between its first and its last snapshot, and
\* never more, as long as its snapshots are in order.
THEOREM SeriesShowsTraffic ==
  ASSUME ReadMayFail = FALSE
  PROVE  Spec => []DrawnIsTraffic
<1>1. CountersInv /\ NumberedOnce /\ ReadInOrder => DrawnIsTraffic
  BY TrafficAddsUp DEF DrawnIsTraffic
<1> QED  BY <1>1, SnapshotsInOrder, PTL

=============================================================================
