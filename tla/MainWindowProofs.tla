-------------------------- MODULE MainWindowProofs --------------------------
(***************************************************************************)
(* Theorems about MainWindow, for any set of interfaces, any window and    *)
(* any behaviour of the database.                                          *)
(*                                                                         *)
(* The inductive invariant adds two facts to the invariants it is for.     *)
(* LoadsTracked says which events make up the load in progress; without it *)
(* the counter pending_queries_count_ could not be related to the queues.  *)
(* NothingFromTheFuture bounds every timestamp by the clock, so that the   *)
(* snapshots of a reply have a first and a last one.                       *)
(*                                                                         *)
(* First come facts about the operators: what Max and Min of a set of      *)
(* timestamps are, what the points of a loaded series look like, and what  *)
(* posting, handling and serving one event does to the answers that the    *)
(* load in progress waits for.  The queues and the id are parameters of    *)
(* those, so that each can be used for the steps of several handlers.      *)
(* The second part is about what the series hold.                          *)
(***************************************************************************)
EXTENDS MainWindow, TLAPS, FiniteSetTheorems, WellFoundedInduction

-----------------------------------------------------------------------------
(* The points of a series *)

\* A set of natural numbers that is not empty has a least element.
LEMMA LeastNatural ==
  ASSUME NEW T \in SUBSET Nat, T # {}
  PROVE  \E x \in T : \A y \in T : x <= y
<1>1. PICK x \in T : \A y \in T : ~(<<y, x>> \in OpToRel(<, Nat))
  BY NatLessThanWellFounded, WFMin
<1>2. ASSUME NEW y \in T PROVE x <= y
  <2>1. <<y, x>> \in OpToRel(<, Nat) <=> y < x
    BY DEF OpToRel
  <2>2. ~(y < x)
    BY <1>1, <2>1
  <2>3. x \in Nat /\ y \in Nat
    OBVIOUS
  <2> QED  BY <2>2, <2>3
<1> QED  BY <1>2

\* It has a greatest one if it is bounded.
LEMMA GreatestNatural ==
  ASSUME NEW T \in SUBSET Nat, T # {}, NEW b \in Nat, \A t \in T : t <= b
  PROVE  \E x \in T : \A y \in T : x >= y
<1> DEFINE D == {b - t : t \in T}
<1>1. D \in SUBSET Nat
  <2>1. ASSUME NEW t \in T PROVE b - t \in Nat
    <3>1. t \in Nat /\ t <= b
      OBVIOUS
    <3> QED  BY <3>1
  <2> QED  BY <2>1
<1>2. D # {}
  OBVIOUS
<1>3. PICK d \in D : \A e \in D : d <= e
  BY <1>1, <1>2, LeastNatural
<1>4. PICK x \in T : d = b - x
  OBVIOUS
<1>5. \A y \in T : b - x <= b - y
  BY <1>3, <1>4
<1> QED  BY <1>5

\* Min is the least element of such a set.
LEMMA MinNatural ==
  ASSUME NEW T \in SUBSET Nat, T # {}
  PROVE  Min(T) \in T /\ \A y \in T : Min(T) <= y
BY LeastNatural DEF Min

\* Max is the greatest element of a bounded one.
LEMMA MaxNatural ==
  ASSUME NEW T \in SUBSET Nat, T # {}, NEW b \in Nat, \A t \in T : t <= b
  PROVE  Max(T) \in T /\ \A y \in T : Max(T) >= y
BY GreatestNatural DEF Max

\* The snapshot before t is loaded, and none lies between it and t.
LEMMA PreviousIsLast ==
  ASSUME NEW S \in SUBSET Nat, NEW t \in Nat, \E u \in S : u < t
  PROVE  /\ Previous(S, t) \in S
         /\ Previous(S, t) < t
         /\ \A u \in S : u < t => u <= Previous(S, t)
<1> DEFINE T == {u \in S : u < t}
<1>1. T \in SUBSET Nat
  OBVIOUS
<1>2. T # {}
  OBVIOUS
<1>3. \A u \in T : u <= t
  <2>1. ASSUME NEW u \in T PROVE u <= t
    <3>1. u \in Nat /\ u < t
      OBVIOUS
    <3> QED  BY <3>1
  <2> QED  BY <2>1
<1>4. Max(T) \in T /\ \A y \in T : Max(T) >= y
  BY <1>1, <1>2, <1>3, MaxNatural
<1> QED  BY <1>4 DEF Previous

\* Every point drawn from a reply is a filler or measures the traffic since
\* the snapshot before.
LEMMA LoadedPointsType ==
  ASSUME NEW S \in SUBSET Nat
  PROVE  LoadedPoints(S) \in SUBSET [from : Nat, x : Nat]
<1> SUFFICES ASSUME NEW t \in S, \E v \in S : v < t
             PROVE  {Measured(Previous(S, t), t)} \cup GapFillers(Previous(S, t), t)
                      \subseteq [from : Nat, x : Nat]
  BY DEF LoadedPoints
<1>1. Previous(S, t) \in Nat /\ Previous(S, t) < t /\ t \in Nat
  BY PreviousIsLast
<1>2. Measured(Previous(S, t), t) \in [from : Nat, x : Nat]
  BY <1>1 DEF Measured
<1>3. GapFillers(Previous(S, t), t) \subseteq [from : Nat, x : Nat]
  BY <1>1 DEF GapFillers, Filler
<1> QED  BY <1>2, <1>3

\* The measured ones among them are known by the snapshots they are drawn at.
LEMMA LoadedMeasured ==
  ASSUME NEW S \in SUBSET Nat, NEW p
  PROVE  (p \in LoadedPoints(S) /\ IsMeasured(p))
           <=> \E t \in S : /\ \E v \in S : v < t
                            /\ p = Measured(Previous(S, t), t)
<1>1. ASSUME p \in LoadedPoints(S), IsMeasured(p)
      PROVE  \E t \in S : (\E v \in S : v < t) /\ p = Measured(Previous(S, t), t)
  <2>1. PICK t \in S : /\ \E v \in S : v < t
                       /\ p \in {Measured(Previous(S, t), t)}
                                  \cup GapFillers(Previous(S, t), t)
    BY <1>1 DEF LoadedPoints
  <2>2. Previous(S, t) \in Nat /\ Previous(S, t) < t /\ t \in Nat
    BY <2>1, PreviousIsLast
  <2>3. p \notin GapFillers(Previous(S, t), t)
    BY <1>1, <2>2 DEF GapFillers, Filler, IsMeasured
  <2> QED  BY <2>1, <2>3
<1>2. ASSUME NEW t \in S, \E v \in S : v < t, p = Measured(Previous(S, t), t)
      PROVE  p \in LoadedPoints(S) /\ IsMeasured(p)
  <2>1. p \in LoadedPoints(S)
    BY <1>2 DEF LoadedPoints
  <2>2. Previous(S, t) < t
    BY <1>2, PreviousIsLast
  <2> QED  BY <1>2, <2>1, <2>2 DEF IsMeasured, Measured
<1> QED  BY <1>1, <1>2

-----------------------------------------------------------------------------
(* The load in progress *)

GetOf(e, id) == e.type = "get" /\ e.id = id

ReplyOf(e, id) == e.type = "snapshots" /\ e.id = id

\* Awaited, for any queues d and u and any load id.
AwaitedIn(d, u, id) ==
  {d[k].name : k \in {j \in 1..Len(d) : GetOf(d[j], id)}}
    \cup {u[k].name : k \in {j \in 1..Len(u) : ReplyOf(u[j], id)}}

\* Each interface is awaited through one event only.
OneEventEach(d, u, id) ==
  /\ \A j, k \in 1..Len(d) :
       GetOf(d[j], id) /\ GetOf(d[k], id) /\ d[j].name = d[k].name => j = k
  /\ \A j, k \in 1..Len(u) :
       ReplyOf(u[j], id) /\ ReplyOf(u[k], id) /\ u[j].name = u[k].name => j = k
  /\ \A j \in 1..Len(d), k \in 1..Len(u) :
       GetOf(d[j], id) /\ ReplyOf(u[k], id) => d[j].name # u[k].name

\* No event belongs to a load that has not been started yet.
NoLaterLoad(d, u, id) ==
  /\ \A j \in 1..Len(d) : d[j].type = "get" => d[j].id <= id
  /\ \A j \in 1..Len(u) : u[j].type = "snapshots" => u[j].id <= id

LoadsCounted(d, u, id) == OneEventEach(d, u, id) /\ NoLaterLoad(d, u, id)

\* An interface is awaited if its request or its reply is under way.
LEMMA AwaitedMember ==
  ASSUME NEW d, NEW u, NEW id, NEW n
  PROVE  n \in AwaitedIn(d, u, id)
           <=> \/ \E k \in 1..Len(d) : GetOf(d[k], id) /\ d[k].name = n
               \/ \E k \in 1..Len(u) : ReplyOf(u[k], id) /\ u[k].name = n
BY DEF AwaitedIn

\* Awaited is what the two queues hold for the load in progress.
LEMMA AwaitedIsAwaitedIn ==
  Awaited = AwaitedIn(dbq, uiq, current_load_request_id_)
BY DEF Awaited, AwaitedIn, IsCurrentGet, IsCurrentReply, GetOf, ReplyOf

\* The rest of a queue is what follows its head.
LEMMA TailElements ==
  ASSUME NEW S, NEW q \in Seq(S), q # <<>>
  PROVE  /\ Tail(q) \in Seq(S)
         /\ Head(q) \in S /\ Head(q) = q[1]
         /\ Len(Tail(q)) = Len(q) - 1 /\ Len(q) \in Nat /\ Len(q) > 0
         /\ \A k \in 1..(Len(q) - 1) : Tail(q)[k] = q[k + 1]
         /\ \A k \in 2..Len(q) : q[k] = Tail(q)[k - 1]
OBVIOUS

\* A posted event comes last and leaves those before it in place.
LEMMA AppendElements ==
  ASSUME NEW S, NEW q \in Seq(S), NEW e \in S
  PROVE  /\ Append(q, e) \in Seq(S)
         /\ Len(Append(q, e)) = Len(q) + 1 /\ Len(q) \in Nat
         /\ \A k \in 1..Len(q) : Append(q, e)[k] = q[k]
         /\ Append(q, e)[Len(q) + 1] = e
OBVIOUS

\* The fields of the events that belong to a load.
LEMMA GetFields ==
  ASSUME NEW e \in DbRequests, e.type = "get"
  PROVE  e.id \in Nat /\ e.name \in Interfaces /\ e.start \in Int /\ e.end \in Int
BY DEF DbRequests

\* The fields of a request to store a sample.
LEMMA AddFields ==
  ASSUME NEW e \in DbRequests, e.type = "add"
  PROVE  e.stats \in SUBSET Interfaces /\ e.ts \in Nat
BY DEF DbRequests

\* The fields of a posted sample.
LEMMA StatsFields ==
  ASSUME NEW e \in UiEvents, e.type = "stats"
  PROVE  e.stats \in SUBSET Interfaces /\ e.ts \in Nat
BY DEF UiEvents, DatabaseReady, InitializationFailed

\* The fields of a reply.
LEMMA ReplyFields ==
  ASSUME NEW e \in UiEvents, e.type = "snapshots"
  PROVE  e.id \in Nat /\ e.name \in Interfaces /\ e.data \in SUBSET Nat
BY DEF UiEvents, DatabaseReady, InitializationFailed

-----------------------------------------------------------------------------

\* Handling an event that is no reply to the current load leaves what is awaited.
LEMMA OtherEventHandled ==
  ASSUME NEW d \in Seq(DbRequests), NEW u \in Seq(UiEvents), NEW id \in Nat,
         LoadsCounted(d, u, id),
         u # <<>>, ~ReplyOf(Head(u), id)
  PROVE  /\ AwaitedIn(d, Tail(u), id) = AwaitedIn(d, u, id)
         /\ LoadsCounted(d, Tail(u), id)
<1> DEFINE v == Tail(u)
<1>1. /\ Head(u) = u[1]
      /\ Len(v) = Len(u) - 1 /\ Len(u) \in Nat /\ Len(u) > 0
      /\ \A k \in 1..(Len(u) - 1) : v[k] = u[k + 1]
      /\ \A k \in 2..Len(u) : u[k] = v[k - 1]
  BY TailElements
<1> HIDE DEF v
<1>2. ASSUME NEW n PROVE n \in AwaitedIn(d, v, id) <=> n \in AwaitedIn(d, u, id)
  <2>1. ASSUME NEW k \in 1..Len(v), ReplyOf(v[k], id), v[k].name = n
        PROVE  \E j \in 1..Len(u) : ReplyOf(u[j], id) /\ u[j].name = n
    <3>1. k + 1 \in 1..Len(u) /\ u[k + 1] = v[k]
      BY <1>1
    <3> QED  BY <2>1, <3>1
  <2>2. ASSUME NEW k \in 1..Len(u), ReplyOf(u[k], id), u[k].name = n
        PROVE  \E j \in 1..Len(v) : ReplyOf(v[j], id) /\ v[j].name = n
    <3>1. k # 1
      BY <2>2, <1>1
    <3>2. k - 1 \in 1..Len(v) /\ u[k] = v[k - 1]
      BY <1>1, <3>1
    <3> QED  BY <2>2, <3>2
  <2> QED  BY <2>1, <2>2, AwaitedMember
<1>3. \A k \in 1..Len(v) : k + 1 \in 1..Len(u) /\ v[k] = u[k + 1]
  BY <1>1
<1>4. ASSUME NEW j \in 1..Len(v), NEW k \in 1..Len(v),
             ReplyOf(v[j], id), ReplyOf(v[k], id), v[j].name = v[k].name
      PROVE  j = k
  <2>1. j + 1 = k + 1
    BY <1>3, <1>4 DEF LoadsCounted, OneEventEach
  <2> QED  BY <2>1
<1>5. OneEventEach(d, v, id)
  BY <1>3, <1>4 DEF LoadsCounted, OneEventEach
<1>6. NoLaterLoad(d, v, id)
  BY <1>3 DEF LoadsCounted, NoLaterLoad
<1> QED  BY <1>2, <1>5, <1>6 DEF v, LoadsCounted

\* Posting an event that is no reply awaits nothing more.
LEMMA OtherEventPosted ==
  ASSUME NEW d \in Seq(DbRequests), NEW u \in Seq(UiEvents), NEW id \in Nat,
         LoadsCounted(d, u, id),
         NEW e \in UiEvents, e.type # "snapshots"
  PROVE  /\ AwaitedIn(d, Append(u, e), id) = AwaitedIn(d, u, id)
         /\ LoadsCounted(d, Append(u, e), id)
<1> DEFINE v == Append(u, e)
<1>1. /\ Len(v) = Len(u) + 1 /\ Len(u) \in Nat
      /\ \A k \in 1..Len(u) : v[k] = u[k]
      /\ v[Len(u) + 1] = e
  BY AppendElements
<1> HIDE DEF v
<1>2. \A k \in 1..Len(v) :
        v[k].type = "snapshots" => k \in 1..Len(u) /\ v[k] = u[k]
  BY <1>1
<1>3. \A k \in 1..Len(u) : k \in 1..Len(v) /\ v[k] = u[k]
  BY <1>1
<1>4. ASSUME NEW n PROVE n \in AwaitedIn(d, v, id) <=> n \in AwaitedIn(d, u, id)
  <2>1. (\E k \in 1..Len(v) : ReplyOf(v[k], id) /\ v[k].name = n)
          <=> \E k \in 1..Len(u) : ReplyOf(u[k], id) /\ u[k].name = n
    BY <1>2, <1>3 DEF ReplyOf
  <2> QED  BY <2>1, AwaitedMember
<1>5. ASSUME NEW k \in 1..Len(v), ReplyOf(v[k], id)
      PROVE  k \in 1..Len(u) /\ v[k] = u[k]
  BY <1>2, <1>5 DEF ReplyOf
<1>6. OneEventEach(d, v, id)
  BY <1>5 DEF LoadsCounted, OneEventEach
<1>7. NoLaterLoad(d, v, id)
  BY <1>2 DEF LoadsCounted, NoLaterLoad
<1> QED  BY <1>4, <1>6, <1>7 DEF v, LoadsCounted

\* Nor does posting the request to store a sample.
LEMMA SampleRequestPosted ==
  ASSUME NEW d \in Seq(DbRequests), NEW u \in Seq(UiEvents), NEW id \in Nat,
         LoadsCounted(d, u, id),
         NEW e \in DbRequests, e.type = "add"
  PROVE  /\ AwaitedIn(Append(d, e), u, id) = AwaitedIn(d, u, id)
         /\ LoadsCounted(Append(d, e), u, id)
<1> DEFINE c == Append(d, e)
<1>1. /\ Len(c) = Len(d) + 1 /\ Len(d) \in Nat
      /\ \A k \in 1..Len(d) : c[k] = d[k]
      /\ c[Len(d) + 1] = e
  BY AppendElements
<1> HIDE DEF c
<1>2. \A k \in 1..Len(c) : c[k].type = "get" => k \in 1..Len(d) /\ c[k] = d[k]
  BY <1>1
<1>3. \A k \in 1..Len(d) : k \in 1..Len(c) /\ c[k] = d[k]
  BY <1>1
<1>4. ASSUME NEW n PROVE n \in AwaitedIn(c, u, id) <=> n \in AwaitedIn(d, u, id)
  <2>1. (\E k \in 1..Len(c) : GetOf(c[k], id) /\ c[k].name = n)
          <=> \E k \in 1..Len(d) : GetOf(d[k], id) /\ d[k].name = n
    BY <1>2, <1>3 DEF GetOf
  <2> QED  BY <2>1, AwaitedMember
<1>5. OneEventEach(c, u, id)
  BY SMTT(30), <1>2 DEF LoadsCounted, OneEventEach, GetOf
<1>6. NoLaterLoad(c, u, id)
  BY <1>2 DEF LoadsCounted, NoLaterLoad
<1> QED  BY <1>4, <1>5, <1>6 DEF c, LoadsCounted

\* Serving the request to store a sample answers none that is awaited.
LEMMA SampleRequestServed ==
  ASSUME NEW d \in Seq(DbRequests), NEW u \in Seq(UiEvents), NEW id \in Nat,
         LoadsCounted(d, u, id),
         d # <<>>, Head(d).type = "add"
  PROVE  /\ AwaitedIn(Tail(d), u, id) = AwaitedIn(d, u, id)
         /\ LoadsCounted(Tail(d), u, id)
<1> DEFINE c == Tail(d)
<1>1. /\ Head(d) = d[1]
      /\ Len(c) = Len(d) - 1 /\ Len(d) \in Nat /\ Len(d) > 0
      /\ \A k \in 1..(Len(d) - 1) : c[k] = d[k + 1]
      /\ \A k \in 2..Len(d) : d[k] = c[k - 1]
  BY TailElements
<1> HIDE DEF c
<1>2. \A k \in 1..Len(c) : k + 1 \in 1..Len(d) /\ c[k] = d[k + 1]
  BY <1>1
<1>3. \A k \in 1..Len(d) :
        d[k].type = "get" => k - 1 \in 1..Len(c) /\ d[k] = c[k - 1]
  <2>1. ASSUME NEW k \in 1..Len(d), d[k].type = "get"
        PROVE  k - 1 \in 1..Len(c) /\ d[k] = c[k - 1]
    <3>1. k # 1
      BY <1>1, <2>1
    <3> QED  BY <1>1, <3>1
  <2> QED  BY <2>1
<1>4. ASSUME NEW n PROVE n \in AwaitedIn(c, u, id) <=> n \in AwaitedIn(d, u, id)
  <2>1. (\E k \in 1..Len(c) : GetOf(c[k], id) /\ c[k].name = n)
          <=> \E k \in 1..Len(d) : GetOf(d[k], id) /\ d[k].name = n
    BY <1>2, <1>3 DEF GetOf
  <2> QED  BY <2>1, AwaitedMember
<1>5. ASSUME NEW j \in 1..Len(c), NEW k \in 1..Len(c),
             GetOf(c[j], id), GetOf(c[k], id), c[j].name = c[k].name
      PROVE  j = k
  <2>1. j + 1 = k + 1
    BY <1>2, <1>5 DEF LoadsCounted, OneEventEach
  <2> QED  BY <2>1
<1>6. OneEventEach(c, u, id)
  BY <1>2, <1>5 DEF LoadsCounted, OneEventEach
<1>7. NoLaterLoad(c, u, id)
  BY <1>2 DEF LoadsCounted, NoLaterLoad
<1> QED  BY <1>4, <1>6, <1>7 DEF c, LoadsCounted

-----------------------------------------------------------------------------
\* Serving a request turns it into a reply, which is awaited in its stead.
LEMMA RequestServed ==
  ASSUME NEW d \in Seq(DbRequests), NEW u \in Seq(UiEvents), NEW id \in Nat,
         LoadsCounted(d, u, id),
         d # <<>>, Head(d).type = "get",
         NEW e \in UiEvents,
         e.type = "snapshots", e.id = Head(d).id, e.name = Head(d).name
  PROVE  /\ AwaitedIn(Tail(d), Append(u, e), id) = AwaitedIn(d, u, id)
         /\ LoadsCounted(Tail(d), Append(u, e), id)
<1> DEFINE c == Tail(d)
           v == Append(u, e)
<1>1. /\ Head(d) = d[1]
      /\ Len(c) = Len(d) - 1 /\ Len(d) \in Nat /\ Len(d) > 0
      /\ \A k \in 1..(Len(d) - 1) : c[k] = d[k + 1]
      /\ \A k \in 2..Len(d) : d[k] = c[k - 1]
  BY TailElements
<1>2. /\ Len(v) = Len(u) + 1 /\ Len(u) \in Nat
      /\ \A k \in 1..Len(u) : v[k] = u[k]
      /\ v[Len(u) + 1] = e
  BY AppendElements
<1> HIDE DEF c, v
<1>3. \A k \in 1..Len(c) : k + 1 \in 1..Len(d) /\ k + 1 # 1 /\ c[k] = d[k + 1]
  BY <1>1
<1>4. \A k \in 1..Len(d) : k # 1 => k - 1 \in 1..Len(c) /\ d[k] = c[k - 1]
  BY <1>1
<1>5. \A k \in 1..Len(v) : k # Len(u) + 1 => k \in 1..Len(u) /\ v[k] = u[k]
  BY <1>2
<1>6. \A k \in 1..Len(u) : k \in 1..Len(v) /\ v[k] = u[k]
  BY <1>2
<1>7. Len(u) + 1 \in 1..Len(v) /\ 1 \in 1..Len(d)
  BY <1>1, <1>2
<1>8. ReplyOf(v[Len(u) + 1], id) <=> GetOf(d[1], id)
  BY <1>1, <1>2 DEF ReplyOf, GetOf
<1>9. v[Len(u) + 1].name = d[1].name
  BY <1>1, <1>2
<1>10. ASSUME NEW n PROVE n \in AwaitedIn(c, v, id) <=> n \in AwaitedIn(d, u, id)
  <2>1. ASSUME NEW k \in 1..Len(c), GetOf(c[k], id), c[k].name = n
        PROVE  \E j \in 1..Len(d) : GetOf(d[j], id) /\ d[j].name = n
    BY <2>1, <1>3
  <2>2. ASSUME NEW k \in 1..Len(v), ReplyOf(v[k], id), v[k].name = n
        PROVE  \/ \E j \in 1..Len(d) : GetOf(d[j], id) /\ d[j].name = n
               \/ \E j \in 1..Len(u) : ReplyOf(u[j], id) /\ u[j].name = n
    BY <2>2, <1>5, <1>7, <1>8, <1>9
  <2>3. ASSUME NEW k \in 1..Len(d), GetOf(d[k], id), d[k].name = n
        PROVE  \/ \E j \in 1..Len(c) : GetOf(c[j], id) /\ c[j].name = n
               \/ \E j \in 1..Len(v) : ReplyOf(v[j], id) /\ v[j].name = n
    BY <2>3, <1>4, <1>7, <1>8, <1>9
  <2>4. ASSUME NEW k \in 1..Len(u), ReplyOf(u[k], id), u[k].name = n
        PROVE  \E j \in 1..Len(v) : ReplyOf(v[j], id) /\ v[j].name = n
    BY <2>4, <1>6
  <2> QED  BY <2>1, <2>2, <2>3, <2>4, AwaitedMember
<1>11. ASSUME NEW j \in 1..Len(c), NEW k \in 1..Len(c),
              GetOf(c[j], id), GetOf(c[k], id), c[j].name = c[k].name
       PROVE  j = k
  <2>1. j + 1 = k + 1
    BY SMTT(30), <1>3, <1>11 DEF LoadsCounted, OneEventEach
  <2> QED  BY <2>1
<1>12. ASSUME NEW j \in 1..Len(v), NEW k \in 1..Len(v),
              ReplyOf(v[j], id), ReplyOf(v[k], id), v[j].name = v[k].name
       PROVE  j = k
  BY SMTT(30), <1>5, <1>7, <1>8, <1>9, <1>12 DEF LoadsCounted, OneEventEach
<1>13. ASSUME NEW j \in 1..Len(c), NEW k \in 1..Len(v),
              GetOf(c[j], id), ReplyOf(v[k], id)
       PROVE  c[j].name # v[k].name
  BY SMTT(30), <1>3, <1>5, <1>7, <1>8, <1>9, <1>13 DEF LoadsCounted, OneEventEach
<1>14. OneEventEach(c, v, id)
  BY <1>11, <1>12, <1>13 DEF OneEventEach
<1>15. NoLaterLoad(c, v, id)
  <2>1. \A k \in 1..Len(c) : c[k].type = "get" => c[k].id <= id
    BY <1>3 DEF LoadsCounted, NoLaterLoad
  <2>2. \A k \in 1..Len(v) : v[k].type = "snapshots" => v[k].id <= id
    BY <1>1, <1>2, <1>5, <1>7 DEF LoadsCounted, NoLaterLoad
  <2> QED  BY <2>1, <2>2 DEF NoLaterLoad
<1> QED  BY <1>10, <1>14, <1>15 DEF c, v, LoadsCounted

\* Handling a reply to the current load removes its interface, and no other.
LEMMA ReplyTaken ==
  ASSUME NEW d \in Seq(DbRequests), NEW u \in Seq(UiEvents), NEW id \in Nat,
         LoadsCounted(d, u, id),
         u # <<>>, ReplyOf(Head(u), id)
  PROVE  /\ Head(u).name \in AwaitedIn(d, u, id)
         /\ AwaitedIn(d, Tail(u), id) = AwaitedIn(d, u, id) \ {Head(u).name}
         /\ LoadsCounted(d, Tail(u), id)
<1> DEFINE v == Tail(u)
           h == Head(u)
<1>1. /\ h = u[1]
      /\ Len(v) = Len(u) - 1 /\ Len(u) \in Nat /\ Len(u) > 0
      /\ \A k \in 1..(Len(u) - 1) : v[k] = u[k + 1]
      /\ \A k \in 2..Len(u) : u[k] = v[k - 1]
  BY TailElements
<1>2. ReplyOf(h, id)
  OBVIOUS
<1> HIDE DEF v, h
<1>3. \A k \in 1..Len(v) : k + 1 \in 1..Len(u) /\ k + 1 # 1 /\ v[k] = u[k + 1]
  BY <1>1
<1>4. \A k \in 1..Len(u) : k # 1 => k - 1 \in 1..Len(v) /\ u[k] = v[k - 1]
  BY <1>1
<1>5. 1 \in 1..Len(u) /\ ReplyOf(u[1], id) /\ u[1].name = h.name
  BY <1>1, <1>2
<1>6. h.name \in AwaitedIn(d, u, id)
  BY <1>5, AwaitedMember
<1>7. ASSUME NEW n
      PROVE  n \in AwaitedIn(d, v, id) <=> n \in AwaitedIn(d, u, id) /\ n # h.name
  <2>1. ASSUME NEW k \in 1..Len(d), GetOf(d[k], id)
        PROVE  d[k].name # h.name
    BY <2>1, <1>5 DEF LoadsCounted, OneEventEach
  <2>2. ASSUME NEW k \in 1..Len(v), ReplyOf(v[k], id)
        PROVE  /\ v[k].name # h.name
               /\ \E j \in 1..Len(u) : ReplyOf(u[j], id) /\ u[j].name = v[k].name
    BY <2>2, <1>3, <1>5 DEF LoadsCounted, OneEventEach
  <2>3. ASSUME NEW k \in 1..Len(u), ReplyOf(u[k], id), u[k].name # h.name
        PROVE  \E j \in 1..Len(v) : ReplyOf(v[j], id) /\ v[j].name = u[k].name
    BY <2>3, <1>4, <1>5
  <2>4. n \in AwaitedIn(d, v, id) => n \in AwaitedIn(d, u, id) /\ n # h.name
    BY SMTT(30), <2>1, <2>2, AwaitedMember
  <2>5. n \in AwaitedIn(d, u, id) /\ n # h.name => n \in AwaitedIn(d, v, id)
    BY <2>3, AwaitedMember
  <2> QED  BY <2>4, <2>5
<1>8. ASSUME NEW j \in 1..Len(v), NEW k \in 1..Len(v),
             ReplyOf(v[j], id), ReplyOf(v[k], id), v[j].name = v[k].name
      PROVE  j = k
  <2>1. j + 1 = k + 1
    BY <1>3, <1>8 DEF LoadsCounted, OneEventEach
  <2> QED  BY <2>1
<1>9. OneEventEach(d, v, id)
  BY <1>3, <1>8 DEF LoadsCounted, OneEventEach
<1>10. NoLaterLoad(d, v, id)
  BY <1>3 DEF LoadsCounted, NoLaterLoad
<1> QED  BY <1>6, <1>7, <1>9, <1>10 DEF v, h, LoadsCounted

\* A finite set can be listed without repetition.
LEMMA SetToSeqLists ==
  ASSUME NEW S, IsFiniteSet(S)
  PROVE  /\ SetToSeq(S) \in Seq(S)
         /\ Len(SetToSeq(S)) = Cardinality(S)
         /\ \A j, k \in 1..Cardinality(S) :
              SetToSeq(S)[j] = SetToSeq(S)[k] => j = k
         /\ \A n \in S : \E k \in 1..Cardinality(S) : SetToSeq(S)[k] = n
<1> DEFINE D == 1..Cardinality(S)
           f == SetToSeq(S)
<1>1. Cardinality(S) \in Nat /\ ExistsBijection(D, S)
  BY FS_CardinalityType
<1>2. \E g \in [D -> S] : IsInjective(g)
  BY <1>1 DEF ExistsBijection, Bijection, Injection, IsInjective
<1>3. f \in [D -> S] /\ IsInjective(f)
  BY <1>2 DEF SetToSeq
<1>4. f \in Injection(D, S)
  BY <1>3 DEF Injection
<1>5. IsFiniteSet(D) /\ Cardinality(D) = Cardinality(S)
  BY <1>1, FS_Interval
<1>6. f \in Surjection(D, S)
  BY <1>4, <1>5, FS_Injection
<1>7. \A n \in S : \E k \in D : f[k] = n
  BY <1>6 DEF Surjection
<1>8. \A j, k \in D : f[j] = f[k] => j = k
  BY <1>3 DEF IsInjective
<1>9. f \in Seq(S) /\ Len(f) = Cardinality(S)
  BY <1>1, <1>3
<1> QED  BY <1>7, <1>8, <1>9

\* The sequence names lists the set S, and the queue q asks for each in turn.
Lists(names, S) ==
  /\ names \in Seq(S)
  /\ \A j, k \in 1..Len(names) : names[j] = names[k] => j = k
  /\ \A n \in S : \E k \in 1..Len(names) : names[k] = n

AsksFor(q, names, id) ==
  /\ Len(q) = Len(names)
  /\ \A k \in 1..Len(names) : GetOf(q[k], id) /\ q[k].name = names[k]

\* The queue c is q behind d.
Joins(c, d, q) ==
  /\ c \in Seq(DbRequests)
  /\ Len(c) = Len(d) + Len(q)
  /\ \A k \in 1..Len(d) : c[k] = d[k]
  /\ \A k \in 1..Len(q) : c[Len(d) + k] = q[k]

\* The elements of a queue to which a sequence of requests was appended.
LEMMA ConcatenationJoins ==
  ASSUME NEW d \in Seq(DbRequests), NEW q \in Seq(DbRequests)
  PROVE  Joins(d \o q, d, q)
<1>1. d \o q \in Seq(DbRequests) /\ Len(d \o q) = Len(d) + Len(q)
  OBVIOUS
<1>2. ASSUME NEW k \in 1..Len(d) PROVE (d \o q)[k] = d[k]
  OBVIOUS
<1>3. ASSUME NEW k \in 1..Len(q) PROVE (d \o q)[Len(d) + k] = q[k]
  OBVIOUS
<1> QED  BY <1>1, <1>2, <1>3 DEF Joins

\* A new load awaits every interface it asks for; what is under way for the
\* load before no longer counts.
LEMMA LoadStarted ==
  ASSUME NEW d \in Seq(DbRequests), NEW u \in Seq(UiEvents), NEW id \in Nat,
         LoadsCounted(d, u, id),
         NEW S \in SUBSET Interfaces, NEW names, Lists(names, S),
         NEW q \in Seq(DbRequests), AsksFor(q, names, id + 1),
         NEW c, Joins(c, d, q)
  PROVE  /\ c \in Seq(DbRequests)
         /\ \A k \in 1..Len(d) : c[k] = d[k]
         /\ \A k \in 1..Len(c) : k \notin 1..Len(d) =>
              k > Len(d) /\ c[k].type = "get" /\ c[k].name \in S
         /\ AwaitedIn(c, u, id + 1) = S
         /\ LoadsCounted(c, u, id + 1)
<1>1. /\ \A j, k \in 1..Len(names) : names[j] = names[k] => j = k
      /\ \A n \in S : \E k \in 1..Len(names) : names[k] = n
  BY DEF Lists
<1>2. \A k \in 1..Len(names) : names[k] \in S
  BY DEF Lists
<1>3. Len(q) = Len(names) /\ Len(d) \in Nat /\ Len(names) \in Nat
  BY DEF Lists, AsksFor
<1>4. \A k \in 1..Len(names) :
        /\ GetOf(q[k], id + 1) /\ q[k].id = id + 1 /\ q[k].name = names[k]
  BY DEF GetOf, AsksFor
<1>5. /\ c \in Seq(DbRequests)
      /\ Len(c) = Len(d) + Len(names) /\ Len(d) \in Nat /\ Len(names) \in Nat
      /\ \A k \in 1..Len(d) : c[k] = d[k]
      /\ \A k \in 1..Len(names) : c[Len(d) + k] = q[k]
  BY <1>3 DEF Joins
<1>6. ASSUME NEW k \in 1..Len(d) PROVE ~GetOf(c[k], id + 1)
  <2>1. d[k].type = "get" => d[k].id \in Nat /\ d[k].id <= id
    BY GetFields DEF LoadsCounted, NoLaterLoad
  <2> QED  BY <2>1, <1>5 DEF GetOf
<1>7. ASSUME NEW k \in 1..Len(u) PROVE ~ReplyOf(u[k], id + 1)
  <2>1. u[k].type = "snapshots" => u[k].id \in Nat /\ u[k].id <= id
    BY ReplyFields DEF LoadsCounted, NoLaterLoad
  <2> QED  BY <2>1 DEF ReplyOf
<1>8. ASSUME NEW k \in 1..Len(c), k \notin 1..Len(d)
      PROVE  /\ k - Len(d) \in 1..Len(names)
             /\ c[k] = q[k - Len(d)]
  <2> DEFINE m == k - Len(d)
  <2>1. m \in 1..Len(names) /\ k = Len(d) + m
    BY <1>5, <1>8
  <2> HIDE DEF m
  <2>2. c[k] = q[m]
    BY <1>5, <2>1
  <2> QED  BY <2>1, <2>2 DEF m
<1>9. ASSUME NEW k \in 1..Len(names)
      PROVE  /\ Len(d) + k \in 1..Len(c)
             /\ GetOf(c[Len(d) + k], id + 1) /\ c[Len(d) + k].name = names[k]
  <2>1. c[Len(d) + k] = q[k]
    BY <1>5
  <2>2. Len(d) + k \in 1..Len(c)
    BY <1>5
  <2>3. GetOf(q[k], id + 1) /\ q[k].name = names[k]
    BY <1>4
  <2> QED  BY <2>1, <2>2, <2>3
<1>10. ASSUME NEW n PROVE n \in AwaitedIn(c, u, id + 1) <=> n \in S
  <2>1. ASSUME NEW k \in 1..Len(c), GetOf(c[k], id + 1)
        PROVE  c[k].name \in S
    <3> DEFINE m == k - Len(d)
    <3>1. m \in 1..Len(names) /\ c[k] = q[m]
      BY <2>1, <1>6, <1>8
    <3> HIDE DEF m
    <3>2. c[k].name = names[m] /\ names[m] \in S
      BY <3>1, <1>2, <1>4
    <3> QED  BY <3>2
  <2>2. ASSUME n \in S
        PROVE  \E k \in 1..Len(c) : GetOf(c[k], id + 1) /\ c[k].name = n
    <3>1. PICK k \in 1..Len(names) : names[k] = n
      BY <2>2, <1>1
    <3> DEFINE m == Len(d) + k
    <3>2. m \in 1..Len(c) /\ GetOf(c[m], id + 1) /\ c[m].name = n
      BY <3>1, <1>9
    <3> HIDE DEF m
    <3> QED  BY <3>2
  <2>3. n \in AwaitedIn(c, u, id + 1)
          <=> \E k \in 1..Len(c) : GetOf(c[k], id + 1) /\ c[k].name = n
    BY <1>7, AwaitedMember
  <2> QED  BY <2>1, <2>2, <2>3
<1>11. ASSUME NEW j \in 1..Len(c), NEW k \in 1..Len(c),
              GetOf(c[j], id + 1), GetOf(c[k], id + 1), c[j].name = c[k].name
       PROVE  j = k
  <2>1. j \notin 1..Len(d) /\ k \notin 1..Len(d)
    BY <1>6, <1>11
  <2>2. names[j - Len(d)] = names[k - Len(d)]
    BY <2>1, <1>4, <1>8, <1>11
  <2>3. j - Len(d) = k - Len(d)
    BY <2>1, <2>2, <1>1, <1>8
  <2> QED  BY <2>3, <1>5
<1>12. OneEventEach(c, u, id + 1)
  BY <1>7, <1>11 DEF OneEventEach
<1>13. NoLaterLoad(c, u, id + 1)
  <2>1. ASSUME NEW k \in 1..Len(c), c[k].type = "get" PROVE c[k].id <= id + 1
    <3>1. CASE k \in 1..Len(d)
      <4>1. c[k] = d[k] /\ d[k] \in DbRequests /\ d[k].type = "get"
        BY <3>1, <2>1, <1>5
      <4>2. d[k].id \in Nat /\ d[k].id <= id
        BY <3>1, <4>1, GetFields DEF LoadsCounted, NoLaterLoad
      <4> QED  BY <4>1, <4>2
    <3>2. CASE k \notin 1..Len(d)
      <4>1. k - Len(d) \in 1..Len(names) /\ c[k] = q[k - Len(d)]
        BY <3>2, <1>8
      <4>2. c[k].id = id + 1
        BY <4>1, <1>4
      <4> QED  BY <4>2
    <3> QED  BY <3>1, <3>2
  <2>2. ASSUME NEW k \in 1..Len(u), u[k].type = "snapshots" PROVE u[k].id <= id + 1
    <3>1. u[k].id \in Nat /\ u[k].id <= id
      BY <2>2, ReplyFields DEF LoadsCounted, NoLaterLoad
    <3> QED  BY <3>1
  <2> QED  BY <2>1, <2>2 DEF NoLaterLoad
<1>14. ASSUME NEW k \in 1..Len(c), k \notin 1..Len(d)
       PROVE  k > Len(d) /\ c[k].type = "get" /\ c[k].name \in S
  <2>1. k - Len(d) \in 1..Len(names) /\ c[k] = q[k - Len(d)]
    BY <1>8, <1>14
  <2>2. c[k].type = "get" /\ c[k].name \in S
    BY <2>1, <1>2, <1>4 DEF GetOf
  <2> QED  BY <1>5, <1>14, <2>2
<1> QED  BY <1>5, <1>10, <1>12, <1>13, <1>14 DEF LoadsCounted

\* The awaited interfaces are some of the finitely many there are.
LEMMA AwaitedFinite ==
  ASSUME NEW d \in Seq(DbRequests), NEW u \in Seq(UiEvents), NEW id \in Nat
  PROVE  /\ AwaitedIn(d, u, id) \subseteq Interfaces
         /\ IsFiniteSet(AwaitedIn(d, u, id))
<1>1. \A k \in 1..Len(d) : GetOf(d[k], id) => d[k].name \in Interfaces
  BY GetFields DEF GetOf
<1>2. \A k \in 1..Len(u) : ReplyOf(u[k], id) => u[k].name \in Interfaces
  BY ReplyFields DEF ReplyOf
<1>3. AwaitedIn(d, u, id) \subseteq Interfaces
  BY <1>1, <1>2, AwaitedMember
<1> QED  BY <1>3, FS_Subset, MainWindowAssumption

-----------------------------------------------------------------------------
(* The invariant *)

LoadsTracked ==
  /\ LoadsCounted(dbq, uiq, current_load_request_id_)
  /\ pending_queries_count_
       = Cardinality(AwaitedIn(dbq, uiq, current_load_request_id_))

RequestIsPast(e, time) == e.type = "add" => e.ts <= time

EventIsPast(e, time) ==
  /\ e.type = "stats" => e.ts <= time
  /\ e.type = "snapshots" => \A t \in e.data : t <= time

RequestsPast(d, time) == \A k \in 1..Len(d) : RequestIsPast(d[k], time)

EventsPast(u, time) == \A k \in 1..Len(u) : EventIsPast(u[k], time)

RowsPast(r, time) == \A name \in Interfaces : \A t \in r[name] : t <= time

NothingFromTheFuture ==
  RowsPast(rows, now) /\ RequestsPast(dbq, now) /\ EventsPast(uiq, now)

\* Nothing can be dragged before something was loaded.
ShownBeforeDragged ==
  drag_enabled_ \/ dragging_ \/ is_manual_view_active_
    => first_timestamp_ # NoTime

IInv ==
  /\ TypeOK
  /\ LoadsTracked
  /\ NothingFromTheFuture
  /\ ManualAlwaysSnapsBack
  /\ NewInterfaceNotForgotten
  /\ ShownBeforeDragged

\* The step neither starts a load nor takes in an answer, nor does it quit.
LoadKept ==
  /\ UNCHANGED <<series_map_, current_load_request_id_, pending_queries_count_>>
  /\ AwaitedIn(dbq', uiq', current_load_request_id_')
       = AwaitedIn(dbq, uiq, current_load_request_id_)
  /\ app' # "quit" <=> app # "quit"

USE MainWindowAssumption, GapAssumption

\* The constructor of main_window leaves a state in which the invariant holds.
THEOREM InitIInv == Init => IInv
<1> SUFFICES ASSUME Init PROVE IInv
  OBVIOUS
<1> USE DEF Init
<1>1. TypeOK
  <2>1. rows \in [Interfaces -> SUBSET Nat]
    OBVIOUS
  <2>2. axis_x_ \in [min : Int, max : Int]
    OBVIOUS
  <2>3. dbq \in Seq(DbRequests) /\ uiq \in Seq(UiEvents)
    OBVIOUS
  <2>4. points \in [Interfaces -> SUBSET [from : Nat, x : Nat]]
    OBVIOUS
  <2>5. last_stats \in [Interfaces -> Nat \cup {NoTime}]
    OBVIOUS
  <2> QED  BY <2>1, <2>2, <2>3, <2>4, <2>5 DEF TypeOK
<1>2. LoadsTracked
  <2>1. AwaitedIn(<<>>, <<>>, 0) = {}
    BY DEF AwaitedIn
  <2>2. LoadsCounted(<<>>, <<>>, 0)
    BY DEF LoadsCounted, OneEventEach, NoLaterLoad
  <2> QED  BY <2>1, <2>2, FS_EmptySet DEF LoadsTracked
<1>3. NothingFromTheFuture
  <2>1. RowsPast(rows, now)
    BY DEF RowsPast
  <2>2. RequestsPast(<<>>, now) /\ EventsPast(<<>>, now)
    BY DEF RequestsPast, EventsPast
  <2> QED  BY <2>1, <2>2 DEF NothingFromTheFuture
<1>4. ManualAlwaysSnapsBack /\ NewInterfaceNotForgotten /\ ShownBeforeDragged
  BY DEF ManualAlwaysSnapsBack, NewInterfaceNotForgotten, ShownBeforeDragged
<1> QED  BY <1>1, <1>2, <1>3, <1>4 DEF IInv

-----------------------------------------------------------------------------
\* Past events stay past when a queue grows or shrinks and the clock advances.

\* Stored rows stay in the past as the clock advances.
LEMMA RowsStayPast ==
  ASSUME NEW r \in [Interfaces -> SUBSET Nat],
         NEW s \in Nat, NEW t \in Nat, s <= t, RowsPast(r, s)
  PROVE  RowsPast(r, t)
<1> SUFFICES ASSUME NEW name \in Interfaces, NEW v \in r[name]
             PROVE  v <= t
  BY DEF RowsPast
<1>1. v \in Nat /\ v <= s
  BY DEF RowsPast
<1> QED  BY <1>1

\* Samples on their way to the database stay in the past.
LEMMA RequestsStayPast ==
  ASSUME NEW d \in Seq(DbRequests), NEW s \in Nat, NEW t \in Nat, s <= t,
         RequestsPast(d, s)
  PROVE  RequestsPast(d, t)
BY AddFields DEF RequestsPast, RequestIsPast

\* Samples and replies on their way to the UI thread stay in the past.
LEMMA EventsStayPast ==
  ASSUME NEW u \in Seq(UiEvents), NEW s \in Nat, NEW t \in Nat, s <= t,
         EventsPast(u, s)
  PROVE  EventsPast(u, t)
<1> SUFFICES ASSUME NEW k \in 1..Len(u)
             PROVE  EventIsPast(u[k], t)
  BY DEF EventsPast
<1>1. u[k] \in UiEvents /\ EventIsPast(u[k], s)
  BY DEF EventsPast
<1>2. u[k].type = "stats" => u[k].ts <= t
  BY <1>1, StatsFields DEF EventIsPast
<1>3. ASSUME u[k].type = "snapshots", NEW v \in u[k].data PROVE v <= t
  <2>1. v \in Nat /\ v <= s
    BY <1>1, <1>3, ReplyFields DEF EventIsPast
  <2> QED  BY <2>1
<1> QED  BY <1>2, <1>3 DEF EventIsPast

\* Taking an event off a queue of past events leaves past events.
LEMMA PastTail ==
  ASSUME NEW S, NEW q \in Seq(S), q # <<>>, NEW t
  PROVE  /\ RequestsPast(q, t) => RequestsPast(Tail(q), t) /\ RequestIsPast(Head(q), t)
         /\ EventsPast(q, t) => EventsPast(Tail(q), t) /\ EventIsPast(Head(q), t)
<1> DEFINE r == Tail(q)
           h == Head(q)
<1>1. /\ h = q[1] /\ 1 \in 1..Len(q)
      /\ \A k \in 1..Len(r) : k + 1 \in 1..Len(q) /\ r[k] = q[k + 1]
  BY TailElements
<1> HIDE DEF r, h
<1>2. RequestsPast(q, t) => RequestsPast(r, t) /\ RequestIsPast(h, t)
  BY <1>1 DEF RequestsPast
<1>3. EventsPast(q, t) => EventsPast(r, t) /\ EventIsPast(h, t)
  BY <1>1 DEF EventsPast
<1> QED  BY <1>2, <1>3 DEF r, h

\* Posting a past event leaves past events.
LEMMA PastAppend ==
  ASSUME NEW S, NEW q \in Seq(S), NEW e \in S, NEW t
  PROVE  /\ RequestsPast(q, t) /\ RequestIsPast(e, t) => RequestsPast(Append(q, e), t)
         /\ EventsPast(q, t) /\ EventIsPast(e, t) => EventsPast(Append(q, e), t)
<1> DEFINE r == Append(q, e)
<1>1. \A k \in 1..Len(r) : (k \in 1..Len(q) /\ r[k] = q[k]) \/ r[k] = e
  BY AppendElements
<1> HIDE DEF r
<1>2. RequestsPast(q, t) /\ RequestIsPast(e, t) => RequestsPast(r, t)
  BY <1>1 DEF RequestsPast
<1>3. EventsPast(q, t) /\ EventIsPast(e, t) => EventsPast(r, t)
  BY <1>1 DEF EventsPast
<1> QED  BY <1>2, <1>3 DEF r

-----------------------------------------------------------------------------
\* Each action preserves the invariant.

\* A sample carries the time at which it is taken.
LEMMA CollectStatsStep ==
  ASSUME IInv, CollectStats
  PROVE  IInv' /\ LoadKept
<1> PICK d \in Steps, stats \in SUBSET Interfaces :
      /\ now' = now + d
      /\ uiq' = Append(uiq, StatsCollected(stats, now'))
      /\ UNCHANGED <<storeVars, dbq, app, seriesVars, newVars, loadVars,
                     first_timestamp_, viewVars, axis_x_, snap_back_timer_,
                     drag_enabled_, chartVars, isolationVars>>
  BY DEF CollectStats
<1> USE DEF storeVars, seriesVars, newVars, loadVars, viewVars, chartVars, isolationVars
<1> DEFINE e == StatsCollected(stats, now')
<1>1. now' \in Nat /\ now <= now'
  BY DEF IInv, TypeOK
<1>2. e \in UiEvents /\ e.type = "stats" /\ e.ts = now'
  BY <1>1 DEF StatsCollected, UiEvents
<1> HIDE DEF e
<1>3. uiq \in Seq(UiEvents) /\ uiq' = Append(uiq, e)
  BY DEF IInv, TypeOK, e
<1>4. TypeOK'
  BY <1>1, <1>2, <1>3 DEF IInv, TypeOK
<1>5. LoadsTracked'
  BY <1>2, <1>3, OtherEventPosted DEF IInv, TypeOK, LoadsTracked
<1>6. NothingFromTheFuture'
  <2>1. RowsPast(rows, now')
    BY <1>1, RowsStayPast DEF IInv, TypeOK, NothingFromTheFuture
  <2>2. RequestsPast(dbq, now')
    BY <1>1, RequestsStayPast DEF IInv, TypeOK, NothingFromTheFuture
  <2>3. EventsPast(uiq, now')
    BY <1>1, EventsStayPast DEF IInv, TypeOK, NothingFromTheFuture
  <2>4. EventIsPast(e, now')
    BY <1>1, <1>2 DEF EventIsPast
  <2>5. EventsPast(uiq', now')
    BY <1>2, <1>3, <2>3, <2>4, PastAppend
  <2> QED  BY <2>1, <2>2, <2>5 DEF NothingFromTheFuture
<1>7. LoadKept
  BY <1>2, <1>3, OtherEventPosted DEF IInv, TypeOK, LoadsTracked, LoadKept
<1> QED  BY <1>4, <1>5, <1>6, <1>7 DEF IInv, ManualAlwaysSnapsBack,
              NewInterfaceNotForgotten, ShownBeforeDragged

\* What load_data_for_display does to the load in progress, whatever the
\* handler that calls it does to the queue u of the UI thread.
LEMMA LoadDataForDisplayStep ==
  ASSUME IInv,
         NEW known \in SUBSET Interfaces, NEW start \in Int, NEW end \in Int,
         NEW u \in Seq(UiEvents),
         LoadsCounted(dbq, u, current_load_request_id_),
         pending_queries_count_
           = Cardinality(AwaitedIn(dbq, u, current_load_request_id_)),
         LoadDataForDisplay(known, start, end)
  PROVE  /\ dbq' \in Seq(DbRequests)
         /\ current_load_request_id_' \in Nat
         /\ pending_queries_count_' \in Nat
         /\ LoadsCounted(dbq', u, current_load_request_id_')
         /\ pending_queries_count_'
              = Cardinality(AwaitedIn(dbq', u, current_load_request_id_'))
         /\ RequestsPast(dbq', now)
         /\ known # {} =>
              /\ current_load_request_id_' = current_load_request_id_ + 1
              /\ pending_queries_count_' = Cardinality(known)
              /\ AwaitedIn(dbq', u, current_load_request_id_') = known
         /\ known = {} /\ first_timestamp_ # NoTime => UNCHANGED <<loadVars, dbq>>
<1> DEFINE id == current_load_request_id_
<1>1. dbq \in Seq(DbRequests) /\ id \in Nat /\ pending_queries_count_ \in Nat
  BY DEF IInv, TypeOK
<1>2. RequestsPast(dbq, now)
  BY DEF IInv, NothingFromTheFuture
<1>3. CASE known = {} /\ UNCHANGED <<loadVars, dbq>>
  BY <1>1, <1>2, <1>3 DEF loadVars
<1>4. CASE /\ known # {} \/ first_timestamp_ = NoTime
           /\ id' = id + 1
           /\ pending_queries_count_' = Cardinality(known)
           /\ dbq' = dbq \o [k \in 1..Len(SetToSeq(known)) |->
                               GetRequest(id + 1, SetToSeq(known)[k], start, end)]
  <2>1. IsFiniteSet(known)
    BY FS_Subset
  <2>2. /\ dbq' \in Seq(DbRequests)
        /\ \A k \in 1..Len(dbq) : dbq'[k] = dbq[k]
        /\ \A k \in 1..Len(dbq') : k \notin 1..Len(dbq) =>
             k > Len(dbq) /\ dbq'[k].type = "get" /\ dbq'[k].name \in known
        /\ AwaitedIn(dbq', u, id + 1) = known
        /\ LoadsCounted(dbq', u, id + 1)
    <3> DEFINE names == SetToSeq(known)
               q == [k \in 1..Len(names) |-> GetRequest(id + 1, names[k], start, end)]
    <3>1. Lists(names, known)
      BY <2>1, SetToSeqLists DEF Lists
    <3>2. dbq' = dbq \o q
      BY <1>4
    <3> HIDE DEF names
    <3>3. ASSUME NEW k \in 1..Len(names)
          PROVE  /\ GetRequest(id + 1, names[k], start, end) \in DbRequests
                 /\ GetOf(GetRequest(id + 1, names[k], start, end), id + 1)
                 /\ GetRequest(id + 1, names[k], start, end).name = names[k]
      <4>1. names[k] \in Interfaces
        BY <3>1 DEF Lists
      <4>2. id + 1 \in Nat
        BY <1>1
      <4> HIDE DEF id
      <4> QED  BY <4>1, <4>2 DEF GetRequest, DbRequests, GetOf
    <3>4. Len(names) \in Nat
      BY <3>1 DEF Lists
    <3>5. q \in Seq(DbRequests) /\ Len(q) = Len(names)
      BY <3>3, <3>4
    <3>6. \A k \in 1..Len(names) : q[k] = GetRequest(id + 1, names[k], start, end)
      OBVIOUS
    <3>7. AsksFor(q, names, id + 1)
      BY <3>3, <3>5, <3>6 DEF AsksFor
    <3> HIDE DEF q
    <3>8. Joins(dbq', dbq, q)
      BY <1>1, <3>2, <3>5, ConcatenationJoins
    <3>9. dbq \in Seq(DbRequests) /\ id \in Nat /\ LoadsCounted(dbq, u, id)
      BY <1>1
    <3> HIDE DEF id
    <3> QED  BY <3>1, <3>5, <3>7, <3>8, <3>9, LoadStarted
  <2>3. RequestsPast(dbq', now)
    BY <1>2, <2>2 DEF RequestsPast, RequestIsPast
  <2>4. Cardinality(known) \in Nat
    BY <2>1, FS_CardinalityType
  <2> QED  BY <1>1, <1>4, <2>2, <2>3, <2>4
<1> QED  BY <1>3, <1>4 DEF LoadDataForDisplay, PendingAfterRequest, NextLoadId

\* transition_to_live_view replaces the load in progress or leaves it alone.
LEMMA TransitionToLiveViewStep ==
  ASSUME IInv,
         NEW u \in Seq(UiEvents),
         LoadsCounted(dbq, u, current_load_request_id_),
         pending_queries_count_
           = Cardinality(AwaitedIn(dbq, u, current_load_request_id_)),
         TransitionToLiveView
  PROVE  /\ dbq' \in Seq(DbRequests)
         /\ current_load_request_id_' \in Nat
         /\ pending_queries_count_' \in Nat
         /\ LoadsCounted(dbq', u, current_load_request_id_')
         /\ pending_queries_count_'
              = Cardinality(AwaitedIn(dbq', u, current_load_request_id_'))
         /\ RequestsPast(dbq', now)
         /\ is_manual_view_active_' = FALSE
         /\ title' = "live"
         /\ \/ UNCHANGED <<loadVars, dbq>>
            \/ /\ series_map_ # {}
               /\ current_load_request_id_' = current_load_request_id_ + 1
               /\ pending_queries_count_' = Cardinality(series_map_)
               /\ AwaitedIn(dbq', u, current_load_request_id_') = series_map_
<1>1. CASE ~is_manual_view_active_ /\ title = "live"
  BY <1>1 DEF TransitionToLiveView, viewVars, loadVars, IInv, TypeOK,
              NothingFromTheFuture
<1>2. CASE ~(~is_manual_view_active_ /\ title = "live")
  <2>1. LoadDataForDisplay(series_map_, now - VisibleWindow, now)
    BY <1>2 DEF TransitionToLiveView
  <2>2. /\ series_map_ \in SUBSET Interfaces
        /\ now - VisibleWindow \in Int /\ now \in Int
    BY DEF IInv, TypeOK
  <2>3. first_timestamp_ # NoTime
    BY <1>2 DEF IInv, TypeOK, ManualAlwaysSnapsBack, ShownBeforeDragged
  <2>4. is_manual_view_active_' = FALSE /\ title' = "live"
    BY <1>2 DEF TransitionToLiveView
  <2> QED  BY <2>1, <2>2, <2>3, <2>4, LoadDataForDisplayStep
<1> QED  BY <1>1, <1>2
-----------------------------------------------------------------------------
\* The steps of the database thread.

\* Opening and pruning the database awaits no reply.
LEMMA InitializeStep ==
  ASSUME IInv, Initialize
  PROVE  IInv' /\ LoadKept
<1> USE DEF collectorVars, uiVars, seriesVars, newVars, loadVars, viewVars,
            chartVars, isolationVars
<1>1. PICK e \in {DatabaseReady, InitializationFailed} : uiq' = Append(uiq, e)
  BY DEF Initialize
<1>2. e \in UiEvents /\ e.type \notin {"stats", "snapshots"}
  BY DEF UiEvents, DatabaseReady, InitializationFailed
<1>3. /\ UNCHANGED <<now, open_sample, dbq, uiVars>>
      /\ initialized' = TRUE /\ db_open' \in BOOLEAN
  BY DEF Initialize
<1>4. rows' \in [Interfaces -> SUBSET Nat] /\ RowsPast(rows', now)
  <2>1. rows \in [Interfaces -> SUBSET Nat] /\ RowsPast(rows, now)
    BY DEF IInv, TypeOK, NothingFromTheFuture
  <2>2. CASE UNCHANGED rows
    BY <2>1, <2>2
  <2>3. CASE rows' = [i \in Interfaces |-> {t \in rows[i] : t >= now - Retention}]
    BY <2>1, <2>3 DEF RowsPast
  <2> QED  BY <2>2, <2>3 DEF Initialize, PruneOldData
<1>5. uiq \in Seq(UiEvents)
  BY DEF IInv, TypeOK
<1>6. TypeOK'
  BY <1>1, <1>2, <1>3, <1>4, <1>5 DEF IInv, TypeOK
<1>7. LoadsTracked'
  <2>1. UNCHANGED <<dbq, current_load_request_id_, pending_queries_count_>>
    BY <1>3
  <2> QED  BY <1>1, <1>2, <2>1, OtherEventPosted DEF IInv, TypeOK, LoadsTracked
<1>8. NothingFromTheFuture'
  <2>1. EventIsPast(e, now)
    BY <1>2 DEF EventIsPast
  <2>2. EventsPast(uiq', now)
    BY <1>1, <1>2, <1>5, <2>1, PastAppend DEF IInv, NothingFromTheFuture
  <2> QED  BY <1>3, <1>4, <2>2 DEF IInv, NothingFromTheFuture
<1>9. ManualAlwaysSnapsBack' /\ NewInterfaceNotForgotten' /\ ShownBeforeDragged'
  BY <1>3 DEF IInv, ManualAlwaysSnapsBack, NewInterfaceNotForgotten, ShownBeforeDragged
<1>10. LoadKept
  BY <1>1, <1>2, <1>3, OtherEventPosted DEF IInv, TypeOK, LoadsTracked, LoadKept
<1> QED  BY <1>6, <1>7, <1>8, <1>9, <1>10 DEF IInv

\* Storing a sample adds rows of the past only, also when it fails half way.
LEMMA AddSnapshotsStep ==
  ASSUME IInv, AddSnapshots
  PROVE  IInv' /\ LoadKept
<1> USE DEF collectorVars, uiVars, seriesVars, newVars, loadVars, viewVars,
            chartVars, isolationVars
<1> DEFINE e == Head(dbq)
           c == Tail(dbq)
<1>1. dbq \in Seq(DbRequests) /\ dbq # <<>> /\ e.type = "add"
  BY DEF IInv, TypeOK, AddSnapshots, NextRequest
<1>2. /\ e \in DbRequests /\ c \in Seq(DbRequests)
      /\ RequestsPast(c, now) /\ RequestIsPast(e, now)
  BY <1>1, TailElements, PastTail DEF IInv, NothingFromTheFuture
<1>3. dbq' = c /\ UNCHANGED <<now, initialized, db_open, uiq, uiVars>>
  BY DEF AddSnapshots
<1>4. PICK written \in SUBSET e.stats :
        rows' = [i \in Interfaces |-> IF i \in written THEN rows[i] \cup {e.ts}
                                                       ELSE rows[i]]
  BY DEF AddSnapshots
<1>5. LoadsCounted(c, uiq, current_load_request_id_)
      /\ AwaitedIn(c, uiq, current_load_request_id_)
           = AwaitedIn(dbq, uiq, current_load_request_id_)
  BY <1>1, SampleRequestServed DEF IInv, TypeOK, LoadsTracked
<1> HIDE DEF e, c
<1>6. rows' \in [Interfaces -> SUBSET Nat] /\ RowsPast(rows', now)
  <2>1. rows \in [Interfaces -> SUBSET Nat] /\ RowsPast(rows, now)
    BY DEF IInv, TypeOK, NothingFromTheFuture
  <2>2. e.ts \in Nat /\ e.ts <= now
    BY <1>1, <1>2, AddFields DEF RequestIsPast
  <2> QED  BY <1>4, <2>1, <2>2 DEF RowsPast
<1>7. TypeOK'
  <2>1. e.ts \in Nat
    BY <1>1, <1>2, AddFields
  <2>2. UNCHANGED open_sample \/ open_sample' = e.ts
    BY DEF AddSnapshots, e
  <2> QED  BY <1>2, <1>3, <1>6, <2>1, <2>2 DEF IInv, TypeOK
<1>8. LoadsTracked'
  BY <1>3, <1>5 DEF IInv, LoadsTracked
<1>9. NothingFromTheFuture'
  BY <1>2, <1>3, <1>6 DEF IInv, NothingFromTheFuture
<1>10. ManualAlwaysSnapsBack' /\ NewInterfaceNotForgotten' /\ ShownBeforeDragged'
  BY <1>3 DEF IInv, ManualAlwaysSnapsBack, NewInterfaceNotForgotten, ShownBeforeDragged
<1>11. LoadKept
  BY <1>3, <1>5 DEF LoadKept
<1> QED  BY <1>7, <1>8, <1>9, <1>10, <1>11 DEF IInv

\* A transaction that is rolled back takes its rows away.
LEMMA FailedStatementStep ==
  ASSUME IInv, FailedStatement
  PROVE  IInv' /\ LoadKept
<1> USE DEF collectorVars, uiVars, seriesVars, newVars, loadVars, viewVars,
            chartVars, isolationVars
<1>1. /\ UNCHANGED <<now, initialized, db_open, dbq, uiq, uiVars>>
      /\ open_sample' = NoTime
      /\ rows' = [i \in Interfaces |-> rows[i] \ {open_sample}]
  BY DEF FailedStatement
<1>2. rows' \in [Interfaces -> SUBSET Nat] /\ RowsPast(rows', now)
  BY <1>1 DEF IInv, TypeOK, NothingFromTheFuture, RowsPast
<1>3. TypeOK'
  BY <1>1, <1>2 DEF IInv, TypeOK
<1>4. LoadsTracked'
  BY <1>1 DEF IInv, LoadsTracked
<1>5. NothingFromTheFuture'
  BY <1>1, <1>2 DEF IInv, NothingFromTheFuture
<1>6. ManualAlwaysSnapsBack' /\ NewInterfaceNotForgotten' /\ ShownBeforeDragged'
  BY <1>1 DEF IInv, ManualAlwaysSnapsBack, NewInterfaceNotForgotten, ShownBeforeDragged
<1>7. LoadKept
  BY <1>1 DEF LoadKept
<1> QED  BY <1>3, <1>4, <1>5, <1>6, <1>7 DEF IInv

\* A range query finds stored rows only.
LEMMA FoundRowsAreRows ==
  ASSUME rows \in [Interfaces -> SUBSET Nat], RowsPast(rows, now), now \in Nat,
         NEW name \in Interfaces, NEW start \in Int, NEW end \in Int,
         NEW data \in FoundRows(name, start, end)
  PROVE  data \in SUBSET Nat /\ \A t \in data : t <= now
<1> DEFINE S == rows[name]
<1>1. S \in SUBSET Nat /\ \A t \in S : t <= now
  BY DEF RowsPast
<1> HIDE DEF S
<1>2. LastBefore(S, start) \subseteq S
  <2>1. CASE \E t \in S : t < start
    <3> DEFINE T == {t \in S : t < start}
    <3>1. T \in SUBSET Nat /\ T # {} /\ \A t \in T : t <= now
      BY <1>1, <2>1
    <3> HIDE DEF T
    <3>2. Max(T) \in T
      BY <3>1, MaxNatural
    <3> QED  BY <2>1, <3>2 DEF LastBefore, Previous, T
  <2> QED  BY <2>1 DEF LastBefore
<1>3. Within(S, start, end) \subseteq S
  BY DEF Within
<1>4. data \subseteq S
  BY <1>2, <1>3 DEF FoundRows, Readable, S
<1> QED  BY <1>1, <1>4

\* A range query turns a request into the reply that is awaited in its stead.
LEMMA GetSnapshotsInRangeStep ==
  ASSUME IInv, GetSnapshotsInRange
  PROVE  IInv' /\ LoadKept
<1> USE DEF collectorVars, storeVars, uiVars, seriesVars, newVars, loadVars,
            viewVars, chartVars, isolationVars
<1> DEFINE h == Head(dbq)
           c == Tail(dbq)
<1>1. dbq \in Seq(DbRequests) /\ dbq # <<>> /\ h.type = "get"
  BY DEF IInv, TypeOK, GetSnapshotsInRange, NextRequest
<1>2. h \in DbRequests /\ c \in Seq(DbRequests) /\ RequestsPast(c, now)
  BY <1>1, TailElements, PastTail DEF IInv, NothingFromTheFuture
<1>3. dbq' = c /\ UNCHANGED <<now, storeVars, uiVars>>
  BY DEF GetSnapshotsInRange
<1>4. PICK data \in FoundRows(h.name, h.start, h.end) :
        uiq' = Append(uiq, SnapshotsReady(h.id, h.name, data))
  BY DEF GetSnapshotsInRange
<1> DEFINE e == SnapshotsReady(h.id, h.name, data)
<1>5. h.id \in Nat /\ h.name \in Interfaces /\ h.start \in Int /\ h.end \in Int
  BY <1>1, <1>2, GetFields
<1>6. data \in SUBSET Nat /\ \A t \in data : t <= now
  BY <1>5, FoundRowsAreRows DEF IInv, TypeOK, NothingFromTheFuture
<1> HIDE DEF h, c
<1>7. /\ e \in UiEvents
      /\ e.type = "snapshots" /\ e.id = h.id /\ e.name = h.name /\ e.data = data
  BY <1>5, <1>6 DEF SnapshotsReady, UiEvents
<1> HIDE DEF e
<1>8. uiq \in Seq(UiEvents) /\ uiq' = Append(uiq, e)
  BY <1>4 DEF IInv, TypeOK, e
<1>9. TypeOK'
  BY <1>2, <1>3, <1>7, <1>8 DEF IInv, TypeOK
<1>10. LoadsTracked'
  <2>1. /\ LoadsCounted(dbq', uiq', current_load_request_id_)
        /\ AwaitedIn(dbq', uiq', current_load_request_id_)
             = AwaitedIn(dbq, uiq, current_load_request_id_)
    BY <1>1, <1>3, <1>7, <1>8, RequestServed DEF IInv, TypeOK, LoadsTracked, h, c
  <2> QED  BY <1>3, <2>1 DEF IInv, LoadsTracked
<1>11. NothingFromTheFuture'
  <2>1. EventIsPast(e, now)
    BY <1>6, <1>7 DEF EventIsPast
  <2>2. EventsPast(uiq', now)
    BY <1>7, <1>8, <2>1, PastAppend DEF IInv, NothingFromTheFuture
  <2> QED  BY <1>2, <1>3, <2>2 DEF IInv, NothingFromTheFuture
<1>12. ManualAlwaysSnapsBack' /\ NewInterfaceNotForgotten' /\ ShownBeforeDragged'
  BY <1>3 DEF IInv, ManualAlwaysSnapsBack, NewInterfaceNotForgotten, ShownBeforeDragged
<1>13. LoadKept
  <2>1. AwaitedIn(dbq', uiq', current_load_request_id_)
          = AwaitedIn(dbq, uiq, current_load_request_id_)
    BY <1>1, <1>3, <1>7, <1>8, RequestServed DEF IInv, TypeOK, LoadsTracked, h, c
  <2> QED  BY <1>3, <2>1 DEF LoadKept
<1> QED  BY <1>9, <1>10, <1>11, <1>12, <1>13 DEF IInv
-----------------------------------------------------------------------------
\* The steps that handle a posted event.

\* A sample is stored, drawn and its new interfaces are scheduled.
LEMMA HandleStatsCollectedStep ==
  ASSUME IInv, HandleStatsCollected
  PROVE  IInv' /\ LoadKept
<1> USE DEF collectorVars, storeVars, loadVars, viewVars, chartVars, isolationVars
<1> DEFINE e == Head(uiq)
           v == Tail(uiq)
           stats == e.stats
           ts == e.ts
           fresh == stats \ (series_map_ \cup new_interfaces_queue_)
<1>1. uiq \in Seq(UiEvents) /\ uiq # <<>> /\ e.type = "stats"
  BY DEF IInv, TypeOK, HandleStatsCollected, NextEvent
<1>2. /\ e \in UiEvents /\ v \in Seq(UiEvents)
      /\ EventsPast(v, now) /\ EventIsPast(e, now)
  BY <1>1, TailElements, PastTail DEF IInv, NothingFromTheFuture
<1>3. stats \in SUBSET Interfaces /\ ts \in Nat /\ ts <= now
  BY <1>1, <1>2, StatsFields DEF EventIsPast
<1>4. /\ LoadsCounted(dbq, v, current_load_request_id_)
      /\ AwaitedIn(dbq, v, current_load_request_id_)
           = AwaitedIn(dbq, uiq, current_load_request_id_)
  BY <1>1, OtherEventHandled DEF IInv, TypeOK, LoadsTracked, ReplyOf
<1>5. /\ uiq' = v
      /\ RequestAddSnapshots(stats, ts)
      /\ new_interfaces_queue_' = new_interfaces_queue_ \cup fresh
      /\ ScheduleNewInterfaces(fresh)
      /\ UNCHANGED <<now, initialized, db_open, rows, open_sample, app, series_map_, loadVars,
                     first_timestamp_, viewVars, snap_back_timer_, chartVars,
                     isolationVars>>
  BY DEF HandleStatsCollected
<1>6. \/ UNCHANGED <<points, last_stats, axis_x_, drag_enabled_>>
      \/ /\ points' = [i \in Interfaces |->
                         IF i \in Drawn(stats)
                         THEN AppendLive(points[i], last_stats[i], ts, VisibleWindow)
                         ELSE points[i]]
         /\ last_stats' = [i \in Interfaces |->
                             IF i \in stats \cap series_map_ THEN ts
                             ELSE last_stats[i]]
         /\ axis_x_' = LiveRange(ts)
         /\ drag_enabled_' = (drag_enabled_ \/ (/\ first_timestamp_ # NoTime
                                                /\ ts - first_timestamp_ > VisibleWindow))
  BY DEF HandleStatsCollected
<1> HIDE DEF e, v, stats, ts
<1>7. /\ dbq' \in Seq(DbRequests)
      /\ LoadsCounted(dbq', v, current_load_request_id_)
      /\ AwaitedIn(dbq', v, current_load_request_id_)
           = AwaitedIn(dbq, uiq, current_load_request_id_)
      /\ RequestsPast(dbq', now)
  <2> DEFINE r == AddRequest(stats, ts)
  <2>1. dbq \in Seq(DbRequests) /\ RequestsPast(dbq, now)
    BY DEF IInv, TypeOK, NothingFromTheFuture
  <2>2. r \in DbRequests /\ r.type = "add" /\ RequestIsPast(r, now)
    BY <1>3 DEF AddRequest, DbRequests, RequestIsPast
  <2>3. dbq' = dbq \/ dbq' = Append(dbq, r)
    BY <1>5 DEF RequestAddSnapshots
  <2> HIDE DEF r
  <2>4. CASE dbq' = dbq
    BY <1>4, <2>1, <2>4
  <2>5. CASE dbq' = Append(dbq, r)
    <3>1. Append(dbq, r) \in Seq(DbRequests)
      BY <2>1, <2>2, AppendElements
    <3>2. /\ LoadsCounted(Append(dbq, r), v, current_load_request_id_)
          /\ AwaitedIn(Append(dbq, r), v, current_load_request_id_)
               = AwaitedIn(dbq, v, current_load_request_id_)
      BY <1>2, <1>4, <2>1, <2>2, SampleRequestPosted DEF IInv, TypeOK
    <3>3. RequestsPast(Append(dbq, r), now)
      BY <2>1, <2>2, PastAppend
    <3> QED  BY <1>4, <2>5, <3>1, <3>2, <3>3, Zenon
  <2> QED  BY <2>3, <2>4, <2>5
<1>8. /\ points' \in [Interfaces -> SUBSET [from : Nat, x : Nat]]
      /\ last_stats' \in [Interfaces -> Nat \cup {NoTime}]
      /\ axis_x_' \in [min : Int, max : Int]
      /\ drag_enabled_' \in BOOLEAN
      /\ drag_enabled_' => drag_enabled_ \/ first_timestamp_ # NoTime
  <2>1. /\ points \in [Interfaces -> SUBSET [from : Nat, x : Nat]]
        /\ last_stats \in [Interfaces -> Nat \cup {NoTime}]
        /\ axis_x_ \in [min : Int, max : Int] /\ drag_enabled_ \in BOOLEAN
    BY DEF IInv, TypeOK
  <2>2. ASSUME NEW i \in Interfaces, i \in Drawn(stats)
        PROVE  AppendLive(points[i], last_stats[i], ts, VisibleWindow)
                 \in SUBSET [from : Nat, x : Nat]
    <3>1. last_stats[i] \in Nat /\ points[i] \in SUBSET [from : Nat, x : Nat]
      BY <2>1, <2>2 DEF Drawn
    <3>2. Measured(last_stats[i], ts) \in [from : Nat, x : Nat]
      BY <1>3, <3>1 DEF Measured
    <3> QED  BY <3>1, <3>2 DEF AppendLive, TrimBefore
  <2>3. LiveRange(ts) \in [min : Int, max : Int]
    BY <1>3 DEF LiveRange
  <2>4. CASE UNCHANGED <<points, last_stats, axis_x_, drag_enabled_>>
    BY <2>1, <2>4
  <2>5. CASE ~UNCHANGED <<points, last_stats, axis_x_, drag_enabled_>>
    <3>1. points' \in [Interfaces -> SUBSET [from : Nat, x : Nat]]
      BY <1>6, <2>1, <2>2, <2>5
    <3>2. last_stats' \in [Interfaces -> Nat \cup {NoTime}]
      BY <1>3, <1>6, <2>1, <2>5
    <3>3. axis_x_' \in [min : Int, max : Int]
      BY <1>6, <2>3, <2>5
    <3>4. drag_enabled_' \in BOOLEAN
          /\ (drag_enabled_' => drag_enabled_ \/ first_timestamp_ # NoTime)
      BY <1>6, <2>1, <2>5
    <3> QED  BY <3>1, <3>2, <3>3, <3>4
  <2> QED  BY <2>4, <2>5
<1>9. /\ new_interfaces_queue_' \subseteq Interfaces \ series_map_
      /\ single_shots' \in Nat
      /\ new_interfaces_queue_' # {} => single_shots' > 0
  <2>1. /\ new_interfaces_queue_ \subseteq Interfaces \ series_map_
        /\ single_shots \in Nat
        /\ new_interfaces_queue_ # {} => single_shots > 0
    BY DEF IInv, TypeOK, NewInterfaceNotForgotten
  <2>2. CASE fresh = {}
    BY <1>5, <2>1, <2>2 DEF ScheduleNewInterfaces
  <2>3. CASE fresh # {}
    <3>1. single_shots' = single_shots + 1
      BY <1>5, <2>3 DEF ScheduleNewInterfaces
    <3> QED  BY <1>3, <1>5, <2>1, <3>1
  <2> QED  BY <2>2, <2>3
<1>10. TypeOK'
  <2>1. UNCHANGED <<now, initialized, db_open, rows, open_sample, app, series_map_,
                    current_load_request_id_, pending_queries_count_,
                    first_timestamp_, is_manual_view_active_, title,
                    snap_back_timer_, dragging_, gestures, visible,
                    isolated_interface_name_>>
    BY <1>5
  <2>2. uiq' \in Seq(UiEvents)
    BY <1>2, <1>5
  <2> QED  BY <1>7, <1>8, <1>9, <2>1, <2>2 DEF IInv, TypeOK
<1>11. LoadsTracked'
  BY <1>5, <1>7 DEF IInv, LoadsTracked
<1>12. NothingFromTheFuture'
  BY <1>2, <1>5, <1>7 DEF IInv, NothingFromTheFuture
<1>13. ManualAlwaysSnapsBack' /\ ShownBeforeDragged'
  BY <1>5, <1>8 DEF IInv, ManualAlwaysSnapsBack, ShownBeforeDragged
<1>14. NewInterfaceNotForgotten'
  BY <1>9 DEF NewInterfaceNotForgotten
<1>15. LoadKept
  BY <1>5, <1>7 DEF LoadKept
<1> QED  BY <1>10, <1>11, <1>12, <1>13, <1>14, <1>15 DEF IInv

\* A reply to a superseded load was not counted and is dropped.
LEMMA IgnoreStaleSnapshotsStep ==
  ASSUME IInv, IgnoreStaleSnapshots
  PROVE  IInv' /\ LoadKept
<1> USE DEF collectorVars, storeVars, uiVars, seriesVars, newVars, loadVars,
            viewVars, chartVars, isolationVars
<1>1. uiq \in Seq(UiEvents) /\ uiq # <<>> /\ ~ReplyOf(Head(uiq), current_load_request_id_)
  BY DEF IInv, TypeOK, IgnoreStaleSnapshots, NextEvent, IsStale, ReplyOf
<1>2. uiq' = Tail(uiq) /\ UNCHANGED <<now, storeVars, dbq, uiVars>>
  BY DEF IgnoreStaleSnapshots
<1>3. Tail(uiq) \in Seq(UiEvents) /\ EventsPast(Tail(uiq), now)
  BY <1>1, TailElements, PastTail DEF IInv, NothingFromTheFuture
<1>4. TypeOK'
  BY <1>2, <1>3 DEF IInv, TypeOK
<1>5. LoadsTracked'
  <2>1. /\ LoadsCounted(dbq, uiq', current_load_request_id_)
        /\ AwaitedIn(dbq, uiq', current_load_request_id_)
             = AwaitedIn(dbq, uiq, current_load_request_id_)
    BY <1>1, <1>2, OtherEventHandled DEF IInv, TypeOK, LoadsTracked
  <2> QED  BY <1>2, <2>1 DEF IInv, LoadsTracked
<1>6. NothingFromTheFuture'
  BY <1>2, <1>3 DEF IInv, NothingFromTheFuture
<1>7. ManualAlwaysSnapsBack' /\ NewInterfaceNotForgotten' /\ ShownBeforeDragged'
  BY <1>2 DEF IInv, ManualAlwaysSnapsBack, NewInterfaceNotForgotten, ShownBeforeDragged
<1>8. LoadKept
  BY <1>1, <1>2, OtherEventHandled DEF IInv, TypeOK, LoadsTracked, LoadKept
<1> QED  BY <1>4, <1>5, <1>6, <1>7, <1>8 DEF IInv

\* The first and the last of at least two loaded snapshots.
LEMMA TwoSnapshots ==
  ASSUME NEW data \in SUBSET Nat, NEW time \in Nat, \A t \in data : t <= time,
         Cardinality(data) >= 2
  PROVE  Max(data) \in Nat /\ Min(data \ {Min(data)}) \in Nat
<1>1. data # {}
  BY FS_EmptySet
<1>2. Max(data) \in data /\ Min(data) \in data
  BY <1>1, MaxNatural, MinNatural
<1>3. data \ {Min(data)} # {}
  <2>1. Cardinality({Min(data)}) = 1
    BY FS_Singleton
  <2>2. data # {Min(data)}
    BY <2>1
  <2> QED  BY <1>2, <2>2
<1> DEFINE rest == data \ {Min(data)}
<1>4. rest \in SUBSET Nat /\ rest # {}
  BY <1>3
<1> HIDE DEF rest
<1>5. Min(rest) \in Nat
  BY <1>4, MinNatural
<1> QED  BY <1>2, <1>5 DEF rest

\* A reply to the current load was counted once and is awaited no more.
LEMMA HandleSnapshotsLoadedStep ==
  ASSUME IInv, HandleSnapshotsLoaded
  PROVE  IInv'
<1> USE DEF collectorVars, storeVars, newVars, viewVars, chartVars
<1> DEFINE id == current_load_request_id_
           e == Head(uiq)
           v == Tail(uiq)
           name == e.name
           data == e.data
<1>1. uiq \in Seq(UiEvents) /\ uiq # <<>> /\ e.type = "snapshots" /\ ReplyOf(e, id)
  BY DEF IInv, TypeOK, HandleSnapshotsLoaded, NextEvent, IsStale, ReplyOf
<1>2. /\ e \in UiEvents /\ v \in Seq(UiEvents)
      /\ EventsPast(v, now) /\ EventIsPast(e, now)
  BY <1>1, TailElements, PastTail DEF IInv, NothingFromTheFuture
<1>3. name \in Interfaces /\ data \in SUBSET Nat /\ \A t \in data : t <= now
  BY <1>1, <1>2, ReplyFields DEF EventIsPast
<1>4. /\ name \in AwaitedIn(dbq, uiq, id)
      /\ AwaitedIn(dbq, v, id) = AwaitedIn(dbq, uiq, id) \ {name}
      /\ LoadsCounted(dbq, v, id)
  BY <1>1, ReplyTaken DEF IInv, TypeOK, LoadsTracked
<1>5. /\ uiq' = v
      /\ points' = IF name \in series_map_ THEN SeriesAfterLoad(name, data) ELSE points
      /\ last_stats' = IF name \in series_map_ THEN LastStatsAfterLoad(name, data)
                       ELSE last_stats
      /\ first_timestamp_' =
           IF /\ name \in series_map_ /\ Cardinality(data) >= 2
              /\ first_timestamp_ = NoTime
           THEN Min(data \ {Min(data)}) ELSE first_timestamp_
      /\ pending_queries_count_' = pending_queries_count_ - 1
      /\ ProcessLoadedDataBatch \/ UNCHANGED <<axis_x_, visible>>
      /\ UNCHANGED <<now, initialized, db_open, rows, open_sample, dbq, app, series_map_, newVars,
                     id, viewVars, snap_back_timer_, drag_enabled_, chartVars,
                     isolated_interface_name_>>
  BY DEF HandleSnapshotsLoaded
<1> HIDE DEF e, v, name, data
<1>6. points' \in [Interfaces -> SUBSET [from : Nat, x : Nat]]
  <2>1. points \in [Interfaces -> SUBSET [from : Nat, x : Nat]]
    BY DEF IInv, TypeOK
  <2>2. LoadedPoints(data) \in SUBSET [from : Nat, x : Nat]
    BY <1>3, LoadedPointsType
  <2> QED  BY <1>5, <2>1, <2>2 DEF SeriesAfterLoad
<1>7. last_stats' \in [Interfaces -> Nat \cup {NoTime}]
  <2>1. last_stats \in [Interfaces -> Nat \cup {NoTime}]
    BY DEF IInv, TypeOK
  <2>2. CASE name \in series_map_ /\ Cardinality(data) >= 2
    <3>1. Max(data) \in Nat
      BY <1>3, <2>2, TwoSnapshots DEF IInv, TypeOK
    <3> QED  BY <1>5, <2>1, <2>2, <3>1 DEF LastStatsAfterLoad
  <2>3. CASE ~(name \in series_map_ /\ Cardinality(data) >= 2)
    BY <1>5, <2>1, <2>3 DEF LastStatsAfterLoad
  <2> QED  BY <2>2, <2>3
<1>8. /\ first_timestamp_' \in Nat \cup {NoTime}
      /\ first_timestamp_ # NoTime => first_timestamp_' # NoTime
  <2>1. first_timestamp_ \in Nat \cup {NoTime}
    BY DEF IInv, TypeOK
  <2>2. CASE /\ name \in series_map_ /\ Cardinality(data) >= 2
             /\ first_timestamp_ = NoTime
    <3>1. Min(data \ {Min(data)}) \in Nat
      BY <1>3, <2>2, TwoSnapshots DEF IInv, TypeOK
    <3> QED  BY <1>5, <2>2, <3>1
  <2>3. CASE ~(/\ name \in series_map_ /\ Cardinality(data) >= 2
               /\ first_timestamp_ = NoTime)
    BY <1>5, <2>1, <2>3
  <2> QED  BY <2>2, <2>3
<1>9. /\ pending_queries_count_' = Cardinality(AwaitedIn(dbq, v, id))
      /\ pending_queries_count_' \in Nat
  <2>1. IsFiniteSet(AwaitedIn(dbq, uiq, id))
    BY AwaitedFinite DEF IInv, TypeOK
  <2>2. IsFiniteSet(AwaitedIn(dbq, v, id))
    BY <1>4, <2>1, FS_Subset
  <2>3. pending_queries_count_ = Cardinality(AwaitedIn(dbq, uiq, id))
    BY DEF IInv, LoadsTracked
  <2>4. Cardinality(AwaitedIn(dbq, v, id)) = Cardinality(AwaitedIn(dbq, uiq, id)) - 1
    BY ZenonT(60), <1>4, <2>1, FS_RemoveElement
  <2>5. Cardinality(AwaitedIn(dbq, v, id)) \in Nat
    BY <2>2, FS_CardinalityType
  <2> QED  BY <1>5, <2>3, <2>4, <2>5
<1>10. axis_x_' \in [min : Int, max : Int] /\ visible' \subseteq series_map_
  <2>1. /\ axis_x_ \in [min : Int, max : Int] /\ visible \subseteq series_map_
        /\ now \in Nat
    BY DEF IInv, TypeOK
  <2>2. LiveRange(now) \in [min : Int, max : Int]
    BY <2>1 DEF LiveRange
  <2>3. VisibleIn(series_map_, isolated_interface_name_) \subseteq series_map_
    BY DEF VisibleIn
  <2> QED  BY <1>5, <2>1, <2>2, <2>3 DEF ProcessLoadedDataBatch
<1>11. TypeOK'
  <2>1. UNCHANGED <<now, initialized, db_open, rows, open_sample, dbq, app, series_map_,
                    new_interfaces_queue_, single_shots, current_load_request_id_,
                    is_manual_view_active_, title, snap_back_timer_,
                    drag_enabled_, dragging_, gestures, isolated_interface_name_>>
    BY <1>5
  <2>2. uiq' \in Seq(UiEvents)
    BY <1>2, <1>5
  <2> QED  BY <1>6, <1>7, <1>8, <1>9, <1>10, <2>1, <2>2 DEF IInv, TypeOK
<1>12. LoadsTracked'
  BY <1>4, <1>5, <1>9 DEF LoadsTracked
<1>13. NothingFromTheFuture'
  BY <1>2, <1>5 DEF IInv, NothingFromTheFuture
<1>14. ManualAlwaysSnapsBack' /\ NewInterfaceNotForgotten' /\ ShownBeforeDragged'
  BY <1>5, <1>8 DEF IInv, ManualAlwaysSnapsBack, NewInterfaceNotForgotten, ShownBeforeDragged
<1> QED  BY <1>11, <1>12, <1>13, <1>14 DEF IInv

\* on_database_ready does at most what a transition to the live view does.
LEMMA OnDatabaseReadyStep ==
  ASSUME IInv, OnDatabaseReady
  PROVE  IInv'
<1> USE DEF collectorVars, storeVars, seriesVars, newVars, chartVars, isolationVars
<1>1. uiq \in Seq(UiEvents) /\ uiq # <<>> /\ ~ReplyOf(Head(uiq), current_load_request_id_)
  BY DEF IInv, TypeOK, OnDatabaseReady, NextEvent, ReplyOf
<1>2. /\ uiq' = Tail(uiq)
      /\ TransitionToLiveView
      /\ UNCHANGED <<now, initialized, db_open, rows, open_sample, app, seriesVars, newVars,
                     first_timestamp_, axis_x_, snap_back_timer_, drag_enabled_,
                     chartVars, isolationVars>>
  BY DEF OnDatabaseReady
<1> DEFINE v == Tail(uiq)
<1>3. v \in Seq(UiEvents) /\ EventsPast(v, now)
  BY <1>1, TailElements, PastTail DEF IInv, NothingFromTheFuture
<1>4. /\ LoadsCounted(dbq, v, current_load_request_id_)
      /\ AwaitedIn(dbq, v, current_load_request_id_)
           = AwaitedIn(dbq, uiq, current_load_request_id_)
  BY <1>1, OtherEventHandled DEF IInv, TypeOK, LoadsTracked
<1>5. uiq' = v
  BY <1>2
<1> HIDE DEF v
<1>6. /\ dbq' \in Seq(DbRequests)
      /\ current_load_request_id_' \in Nat
      /\ pending_queries_count_' \in Nat
      /\ LoadsCounted(dbq', v, current_load_request_id_')
      /\ pending_queries_count_'
           = Cardinality(AwaitedIn(dbq', v, current_load_request_id_'))
      /\ RequestsPast(dbq', now)
      /\ is_manual_view_active_' = FALSE
      /\ title' = "live"
  BY <1>2, <1>3, <1>4, TransitionToLiveViewStep DEF IInv, LoadsTracked
<1>7. TypeOK'
  BY <1>2, <1>3, <1>5, <1>6 DEF IInv, TypeOK
<1>8. LoadsTracked'
  BY <1>5, <1>6 DEF LoadsTracked
<1>9. NothingFromTheFuture'
  BY <1>2, <1>3, <1>5, <1>6 DEF IInv, NothingFromTheFuture
<1>10. ManualAlwaysSnapsBack' /\ NewInterfaceNotForgotten' /\ ShownBeforeDragged'
  BY <1>2, <1>6 DEF IInv, ManualAlwaysSnapsBack, NewInterfaceNotForgotten, ShownBeforeDragged
<1> QED  BY <1>7, <1>8, <1>9, <1>10 DEF IInv

\* The error box changes nothing that is counted.
LEMMA OnInitializationFailedStep ==
  ASSUME IInv, OnInitializationFailed
  PROVE  IInv' /\ LoadKept
<1> USE DEF collectorVars, storeVars, seriesVars, newVars, loadVars, viewVars,
            chartVars, isolationVars
<1>1. uiq \in Seq(UiEvents) /\ uiq # <<>> /\ ~ReplyOf(Head(uiq), current_load_request_id_)
  BY DEF IInv, TypeOK, OnInitializationFailed, NextEvent, ReplyOf
<1>2. /\ uiq' = Tail(uiq) /\ app' = "error_box"
      /\ UNCHANGED <<now, storeVars, dbq, seriesVars, newVars, loadVars,
                     first_timestamp_, viewVars, axis_x_, snap_back_timer_,
                     drag_enabled_, chartVars, isolationVars>>
  BY DEF OnInitializationFailed
<1>3. Tail(uiq) \in Seq(UiEvents) /\ EventsPast(Tail(uiq), now)
  BY <1>1, TailElements, PastTail DEF IInv, NothingFromTheFuture
<1>4. TypeOK'
  BY <1>2, <1>3 DEF IInv, TypeOK
<1>5. LoadsTracked'
  <2>1. /\ LoadsCounted(dbq, uiq', current_load_request_id_)
        /\ AwaitedIn(dbq, uiq', current_load_request_id_)
             = AwaitedIn(dbq, uiq, current_load_request_id_)
    BY <1>1, <1>2, OtherEventHandled DEF IInv, TypeOK, LoadsTracked
  <2> QED  BY <1>2, <2>1 DEF IInv, LoadsTracked
<1>6. NothingFromTheFuture'
  BY <1>2, <1>3 DEF IInv, NothingFromTheFuture
<1>7. ManualAlwaysSnapsBack' /\ NewInterfaceNotForgotten' /\ ShownBeforeDragged'
  BY <1>2 DEF IInv, ManualAlwaysSnapsBack, NewInterfaceNotForgotten, ShownBeforeDragged
<1>8. LoadKept
  <2>1. app # "quit"
    BY DEF OnInitializationFailed, NextEvent
  <2> QED  BY <1>1, <1>2, <2>1, OtherEventHandled DEF IInv, TypeOK, LoadsTracked, LoadKept
<1> QED  BY <1>4, <1>5, <1>6, <1>7, <1>8 DEF IInv
-----------------------------------------------------------------------------
\* The steps of the timers and of the user.

\* Waiting interfaces get their series and are asked for with the others.
LEMMA ProcessNewInterfacesStep ==
  ASSUME IInv, ProcessNewInterfaces
  PROVE  IInv'
<1> USE DEF collectorVars, storeVars, viewVars, chartVars
<1> DEFINE known == series_map_ \cup new_interfaces_queue_
<1>1. /\ single_shots > 0 /\ single_shots' = single_shots - 1
      /\ UNCHANGED <<now, initialized, db_open, rows, open_sample, uiq, app, points, last_stats,
                     first_timestamp_, viewVars, axis_x_, snap_back_timer_,
                     drag_enabled_, chartVars, isolated_interface_name_>>
  BY DEF ProcessNewInterfaces
<1>2. \/ UNCHANGED <<series_map_, visible, new_interfaces_queue_, loadVars, dbq>>
         /\ new_interfaces_queue_ = {}
      \/ /\ series_map_' = known
         /\ visible' = visible \cup (new_interfaces_queue_ \ series_map_)
         /\ new_interfaces_queue_' = {}
         /\ LoadDataForDisplay(known, now - VisibleWindow, now)
  BY DEF ProcessNewInterfaces, AddSeriesForInterfaces
<1>3. /\ known \in SUBSET Interfaces
      /\ now - VisibleWindow \in Int /\ now \in Int
      /\ series_map_ \subseteq Interfaces /\ visible \subseteq series_map_
      /\ new_interfaces_queue_ \subseteq Interfaces \ series_map_
      /\ isolated_interface_name_ \in series_map_ \cup {NoInterface}
      /\ single_shots \in Nat
  BY DEF IInv, TypeOK
<1>4. /\ dbq' \in Seq(DbRequests)
      /\ current_load_request_id_' \in Nat
      /\ pending_queries_count_' \in Nat
      /\ LoadsCounted(dbq', uiq, current_load_request_id_')
      /\ pending_queries_count_'
           = Cardinality(AwaitedIn(dbq', uiq, current_load_request_id_'))
      /\ RequestsPast(dbq', now)
  <2>1. CASE UNCHANGED <<series_map_, visible, new_interfaces_queue_, loadVars, dbq>>
    BY <2>1 DEF IInv, TypeOK, LoadsTracked, NothingFromTheFuture, loadVars
  <2>2. CASE LoadDataForDisplay(known, now - VisibleWindow, now)
    <3> HIDE DEF known
    <3> QED  BY <1>3, <2>2, LoadDataForDisplayStep DEF IInv, TypeOK, LoadsTracked
  <2> QED  BY <1>2, <2>1, <2>2
<1>5. /\ series_map_' \subseteq Interfaces /\ visible' \subseteq series_map_'
      /\ isolated_interface_name_' \in series_map_' \cup {NoInterface}
      /\ new_interfaces_queue_' \subseteq Interfaces \ series_map_'
      /\ new_interfaces_queue_' = {}
      /\ single_shots' \in Nat
  BY <1>1, <1>2, <1>3
<1>6. TypeOK'
  BY <1>1, <1>4, <1>5 DEF IInv, TypeOK
<1>7. LoadsTracked'
  BY <1>1, <1>4 DEF LoadsTracked
<1>8. NothingFromTheFuture'
  BY <1>1, <1>4 DEF IInv, NothingFromTheFuture
<1>9. ManualAlwaysSnapsBack' /\ NewInterfaceNotForgotten' /\ ShownBeforeDragged'
  BY <1>1, <1>5 DEF IInv, ManualAlwaysSnapsBack, NewInterfaceNotForgotten, ShownBeforeDragged
<1> QED  BY <1>6, <1>7, <1>8, <1>9 DEF IInv

\* The snap-back stops the timer and ends the manual view in one step.
LEMMA SnapBackToLiveViewStep ==
  ASSUME IInv, SnapBackToLiveView
  PROVE  IInv'
<1> USE DEF collectorVars, storeVars, seriesVars, newVars, chartVars, isolationVars
<1>1. /\ snap_back_timer_' = FALSE
      /\ TransitionToLiveView
      /\ UNCHANGED <<now, initialized, db_open, rows, open_sample, uiq, app, seriesVars, newVars,
                     first_timestamp_, axis_x_, drag_enabled_, chartVars,
                     isolationVars>>
  BY DEF SnapBackToLiveView
<1>2. /\ dbq' \in Seq(DbRequests)
      /\ current_load_request_id_' \in Nat
      /\ pending_queries_count_' \in Nat
      /\ LoadsCounted(dbq', uiq, current_load_request_id_')
      /\ pending_queries_count_'
           = Cardinality(AwaitedIn(dbq', uiq, current_load_request_id_'))
      /\ RequestsPast(dbq', now)
      /\ is_manual_view_active_' = FALSE
      /\ title' = "live"
  BY <1>1, TransitionToLiveViewStep DEF IInv, TypeOK, LoadsTracked
<1>3. TypeOK'
  BY <1>1, <1>2 DEF IInv, TypeOK
<1>4. LoadsTracked'
  BY <1>1, <1>2 DEF LoadsTracked
<1>5. NothingFromTheFuture'
  BY <1>1, <1>2 DEF IInv, NothingFromTheFuture
<1>6. ManualAlwaysSnapsBack' /\ NewInterfaceNotForgotten' /\ ShownBeforeDragged'
  BY <1>1, <1>2 DEF IInv, ManualAlwaysSnapsBack, NewInterfaceNotForgotten, ShownBeforeDragged
<1> QED  BY <1>3, <1>4, <1>5, <1>6 DEF IInv

\* The end of a drag loads the range of the axis and restarts the timer.
LEMMA MouseReleaseStep ==
  ASSUME IInv, MouseRelease
  PROVE  IInv'
<1> USE DEF collectorVars, storeVars, seriesVars, newVars, viewVars, isolationVars
<1>1. /\ dragging_' = FALSE /\ snap_back_timer_' = TRUE
      /\ LoadDataForDisplay(series_map_, axis_x_.min, axis_x_.max)
      /\ UNCHANGED <<now, initialized, db_open, rows, open_sample, uiq, app, seriesVars, newVars,
                     first_timestamp_, viewVars, axis_x_, drag_enabled_, gestures,
                     isolationVars>>
  BY DEF MouseRelease, OnInteractionFinished, StartSnapBackTimer
<1>2. /\ series_map_ \in SUBSET Interfaces
      /\ axis_x_.min \in Int /\ axis_x_.max \in Int
  BY DEF IInv, TypeOK
<1>3. /\ dbq' \in Seq(DbRequests)
      /\ current_load_request_id_' \in Nat
      /\ pending_queries_count_' \in Nat
      /\ LoadsCounted(dbq', uiq, current_load_request_id_')
      /\ pending_queries_count_'
           = Cardinality(AwaitedIn(dbq', uiq, current_load_request_id_'))
      /\ RequestsPast(dbq', now)
  BY <1>1, <1>2, LoadDataForDisplayStep DEF IInv, TypeOK, LoadsTracked
<1>4. TypeOK'
  BY <1>1, <1>3 DEF IInv, TypeOK
<1>5. LoadsTracked'
  BY <1>1, <1>3 DEF LoadsTracked
<1>6. NothingFromTheFuture'
  BY <1>1, <1>3 DEF IInv, NothingFromTheFuture
<1>7. ManualAlwaysSnapsBack' /\ NewInterfaceNotForgotten' /\ ShownBeforeDragged'
  BY <1>1 DEF IInv, ManualAlwaysSnapsBack, NewInterfaceNotForgotten, ShownBeforeDragged
<1> QED  BY <1>4, <1>5, <1>6, <1>7 DEF IInv

\* A step that leaves the queues, the rows and the load alone keeps what the
\* invariant says of them.
LEMMA LoadsLeftAlone ==
  ASSUME IInv, UNCHANGED <<now, rows, dbq, uiq, loadVars>>
  PROVE  LoadsTracked' /\ NothingFromTheFuture'
BY DEF IInv, LoadsTracked, NothingFromTheFuture, loadVars

\* The remaining steps change nothing but the view, the chart or app.
LEMMA ViewStep ==
  ASSUME IInv,
         MousePress \/ MouseMove \/ ToggleSeriesVisibility
           \/ DismissErrorBox \/ QuitApplication \/ UNCHANGED vars
  PROVE  IInv' /\ UNCHANGED <<now, rows, dbq, uiq, loadVars, series_map_>>
<1> USE DEF collectorVars, storeVars, seriesVars, newVars, loadVars, viewVars,
            chartVars, isolationVars
<1>1. CASE MousePress
  <2>1. TypeOK'
    BY <1>1 DEF IInv, TypeOK, MousePress, OnInteractionStarted, StartSnapBackTimer
  <2>2. ManualAlwaysSnapsBack' /\ NewInterfaceNotForgotten' /\ ShownBeforeDragged'
    BY <1>1 DEF IInv, ManualAlwaysSnapsBack, NewInterfaceNotForgotten,
         ShownBeforeDragged, MousePress, OnInteractionStarted, StartSnapBackTimer
  <2>3. UNCHANGED <<now, rows, dbq, uiq, loadVars, series_map_>>
    BY <1>1 DEF MousePress
  <2> QED  BY <2>1, <2>2, <2>3, LoadsLeftAlone DEF IInv
<1>2. CASE MouseMove
  <2>1. axis_x_' \in [min : Int, max : Int]
    <3>1. PICK d \in DragSteps :
            axis_x_' = [min |-> axis_x_.min + d, max |-> axis_x_.max + d]
      BY <1>2 DEF MouseMove
    <3>2. d \in Int /\ axis_x_.min \in Int /\ axis_x_.max \in Int
      BY DEF IInv, TypeOK
    <3> QED  BY <3>1, <3>2
  <2>2. TypeOK'
    BY <1>2, <2>1 DEF IInv, TypeOK, MouseMove
  <2>3. ManualAlwaysSnapsBack' /\ NewInterfaceNotForgotten' /\ ShownBeforeDragged'
    BY <1>2 DEF IInv, ManualAlwaysSnapsBack, NewInterfaceNotForgotten,
         ShownBeforeDragged, MouseMove
  <2>4. UNCHANGED <<now, rows, dbq, uiq, loadVars, series_map_>>
    BY <1>2 DEF MouseMove
  <2> QED  BY <2>2, <2>3, <2>4, LoadsLeftAlone DEF IInv
<1>3. CASE ToggleSeriesVisibility
  <2>1. /\ visible' \subseteq series_map_
        /\ isolated_interface_name_' \in series_map_ \cup {NoInterface}
    BY <1>3 DEF ToggleSeriesVisibility, VisibleIn
  <2>2. TypeOK'
    BY <1>3, <2>1 DEF IInv, TypeOK, ToggleSeriesVisibility
  <2>3. ManualAlwaysSnapsBack' /\ NewInterfaceNotForgotten' /\ ShownBeforeDragged'
    BY <1>3 DEF IInv, ManualAlwaysSnapsBack, NewInterfaceNotForgotten,
         ShownBeforeDragged, ToggleSeriesVisibility
  <2>4. UNCHANGED <<now, rows, dbq, uiq, loadVars, series_map_>>
    BY <1>3 DEF ToggleSeriesVisibility
  <2> QED  BY <2>2, <2>3, <2>4, LoadsLeftAlone DEF IInv
<1>4. CASE DismissErrorBox \/ QuitApplication
  <2>1. TypeOK'
    BY SMTT(30), <1>4 DEF IInv, TypeOK, DismissErrorBox, QuitApplication
  <2>2. ManualAlwaysSnapsBack' /\ NewInterfaceNotForgotten' /\ ShownBeforeDragged'
    BY <1>4 DEF IInv, ManualAlwaysSnapsBack, NewInterfaceNotForgotten,
         ShownBeforeDragged, DismissErrorBox, QuitApplication
  <2>3. UNCHANGED <<now, rows, dbq, uiq, loadVars, series_map_>>
    BY <1>4 DEF DismissErrorBox, QuitApplication
  <2> QED  BY <2>1, <2>2, <2>3, LoadsLeftAlone DEF IInv
<1>5. CASE UNCHANGED vars
  <2>1. TypeOK'
    BY <1>5 DEF IInv, TypeOK, vars
  <2>2. ManualAlwaysSnapsBack' /\ NewInterfaceNotForgotten' /\ ShownBeforeDragged'
    BY <1>5 DEF IInv, ManualAlwaysSnapsBack, NewInterfaceNotForgotten,
         ShownBeforeDragged, vars
  <2>3. UNCHANGED <<now, rows, dbq, uiq, loadVars, series_map_>>
    BY <1>5 DEF vars
  <2> QED  BY <2>1, <2>2, <2>3, LoadsLeftAlone DEF IInv
<1> QED  BY <1>1, <1>2, <1>3, <1>4, <1>5

-----------------------------------------------------------------------------
\* IInv is inductive: no step of any thread, timer or gesture breaks it.
LEMMA NextIInv == IInv /\ [Next]_vars => IInv'
<1> SUFFICES ASSUME IInv, [Next]_vars PROVE IInv'
  OBVIOUS
<1>1. CASE CollectStats
  BY <1>1, CollectStatsStep
<1>2. CASE DatabaseThread
  BY <1>2, InitializeStep, AddSnapshotsStep, GetSnapshotsInRangeStep DEF DatabaseThread
<1>3. CASE PostedEvents
  BY <1>3, HandleStatsCollectedStep, IgnoreStaleSnapshotsStep,
     HandleSnapshotsLoadedStep, OnDatabaseReadyStep, OnInitializationFailedStep
     DEF PostedEvents
<1>4. CASE ProcessNewInterfaces
  BY <1>4, ProcessNewInterfacesStep
<1>5. CASE SnapBackToLiveView
  BY <1>5, SnapBackToLiveViewStep
<1>6. CASE User
  BY <1>6, MouseReleaseStep, ViewStep DEF User
<1>7. CASE UNCHANGED vars
  BY <1>7, ViewStep
<1>8. CASE FailedStatement
  BY <1>8, FailedStatementStep
<1> QED  BY <1>1, <1>2, <1>3, <1>4, <1>5, <1>6, <1>7, <1>8 DEF Next

\* The inductive invariant holds in every reachable state of the program.
THEOREM Invariance == Spec => []IInv
<1>1. Init => IInv
  BY InitIInv
<1>2. IInv /\ [Next]_vars => IInv'
  BY NextIInv
<1> QED  BY <1>1, <1>2, PTL DEF Spec

\* The queues hold well-formed messages and main_window's maps have entries for
\* known interfaces only, for any interfaces, history and database behaviour.
THEOREM TypeCorrect == Spec => []TypeOK
<1>1. IInv => TypeOK
  BY DEF IInv
<1> QED  BY <1>1, Invariance, PTL

\* pending_queries_count_ is the number of replies still to come to the load
\* in progress, however many superseded loads are under way in the queues.
THEOREM PendingCorrect == Spec => []PendingIsOutstanding
<1>1. IInv => PendingIsOutstanding
  BY AwaitedIsAwaitedIn DEF IInv, LoadsTracked, PendingIsOutstanding
<1> QED  BY <1>1, Invariance, PTL

\* The chart is never in the manual view without a running snap-back timer,
\* and its title tells which view it shows.
THEOREM ManualViewEnds == Spec => []ManualAlwaysSnapsBack
<1>1. IInv => ManualAlwaysSnapsBack
  BY DEF IInv
<1> QED  BY <1>1, Invariance, PTL

\* Whenever an interface waits for its series, a call of process_new_interfaces
\* is posted that will add them.
THEOREM NewInterfacesScheduled == Spec => []NewInterfaceNotForgotten
<1>1. IInv => NewInterfaceNotForgotten
  BY DEF IInv
<1> QED  BY <1>1, Invariance, PTL

-----------------------------------------------------------------------------
(* MainWindow implements BatchLoad: under the mapping of MainWindow, which *)
(* reads the awaited interfaces off the two queues, every step of the      *)
(* program starts a load, takes in one answer, quits, or is invisible.     *)

\* Awaited before and after a step.
LEMMA AwaitedAtStep ==
  /\ Awaited = AwaitedIn(dbq, uiq, current_load_request_id_)
  /\ Awaited' = AwaitedIn(dbq', uiq', current_load_request_id_')
BY DEF Awaited, AwaitedIn, IsCurrentGet, IsCurrentReply, GetOf, ReplyOf

\* BatchLoad counts as MainWindow does.
LEMMA SameCardinality == \A S : BL!Cardinality(S) = Cardinality(S)
BY DEF Cardinality, BL!Cardinality

\* Nothing is on the chart and nothing was loaded when the program starts.
LEMMA InitImplements == Init => BL!Init
<1> SUFFICES ASSUME Init PROVE BL!Init
  OBVIOUS
<1>1. Awaited = {}
  BY DEF Init, Awaited
<1> QED  BY <1>1 DEF Init, BL!Init

\* A step that keeps the load is not seen by BatchLoad.
LEMMA KeptIsStutter ==
  ASSUME IInv, LoadKept
  PROVE  UNCHANGED BL!blVars
BY AwaitedAtStep DEF LoadKept, BL!blVars

\* A step that replaces the load is a Start of all the series there are then.
LEMMA ReplacedIsStart ==
  ASSUME IInv, app # "quit", app' # "quit",
         series_map_' # {}, series_map_ \subseteq series_map_',
         series_map_' \subseteq Interfaces,
         current_load_request_id_' = current_load_request_id_ + 1,
         pending_queries_count_' = Cardinality(series_map_'),
         AwaitedIn(dbq', uiq', current_load_request_id_') = series_map_'
  PROVE  BL!Next
<1>1. Awaited' = series_map_'
  BY AwaitedAtStep
<1> DEFINE S == series_map_'
<1>2. /\ S \in SUBSET Interfaces /\ S # {} /\ series_map_ \subseteq S
      /\ (app # "quit") /\ ((app' # "quit") = (app # "quit"))
  OBVIOUS
<1>3. BL!Start(S)
  BY <1>1, <1>2, SameCardinality DEF BL!Start
<1> HIDE DEF S
<1> QED  BY <1>2, <1>3 DEF BL!Next

\* The transition to the live view replaces the load or leaves it alone.
LEMMA TransitionImplements ==
  ASSUME IInv, app # "quit", UNCHANGED <<app, series_map_>>,
         uiq' \in Seq(UiEvents),
         LoadsCounted(dbq, uiq', current_load_request_id_),
         AwaitedIn(dbq, uiq', current_load_request_id_)
           = AwaitedIn(dbq, uiq, current_load_request_id_),
         TransitionToLiveView
  PROVE  BL!Next \/ UNCHANGED BL!blVars
<1>1. pending_queries_count_ = Cardinality(AwaitedIn(dbq, uiq', current_load_request_id_))
  BY DEF IInv, LoadsTracked
<1>2. \/ UNCHANGED <<loadVars, dbq>>
      \/ /\ series_map_ # {}
         /\ current_load_request_id_' = current_load_request_id_ + 1
         /\ pending_queries_count_' = Cardinality(series_map_)
         /\ AwaitedIn(dbq', uiq', current_load_request_id_') = series_map_
  BY <1>1, TransitionToLiveViewStep
<1>3. CASE UNCHANGED <<loadVars, dbq>>
  <2>1. LoadKept
    BY <1>3 DEF LoadKept, loadVars
  <2> QED  BY <2>1, KeptIsStutter
<1>4. CASE ~UNCHANGED <<loadVars, dbq>>
  <2>1. series_map_ \subseteq Interfaces
    BY DEF IInv, TypeOK
  <2> QED  BY <1>2, <1>4, <2>1, ReplacedIsStart
<1> QED  BY <1>3, <1>4

\* on_database_ready starts a load or is not seen.
LEMMA OnDatabaseReadyImplements ==
  ASSUME IInv, OnDatabaseReady
  PROVE  BL!Next \/ UNCHANGED BL!blVars
<1>1. /\ uiq \in Seq(UiEvents) /\ uiq # <<>> /\ app # "quit"
      /\ ~ReplyOf(Head(uiq), current_load_request_id_)
  BY DEF IInv, TypeOK, OnDatabaseReady, NextEvent, ReplyOf
<1>2. uiq' = Tail(uiq) /\ TransitionToLiveView /\ UNCHANGED <<app, series_map_>>
  BY DEF OnDatabaseReady, seriesVars
<1>3. /\ uiq' \in Seq(UiEvents)
      /\ LoadsCounted(dbq, uiq', current_load_request_id_)
      /\ AwaitedIn(dbq, uiq', current_load_request_id_)
           = AwaitedIn(dbq, uiq, current_load_request_id_)
  BY <1>1, <1>2, TailElements, OtherEventHandled DEF IInv, TypeOK, LoadsTracked
<1> QED  BY <1>1, <1>2, <1>3, TransitionImplements

\* The snap-back starts a load or is not seen.
LEMMA SnapBackImplements ==
  ASSUME IInv, SnapBackToLiveView
  PROVE  BL!Next \/ UNCHANGED BL!blVars
<1>1. app # "quit" /\ TransitionToLiveView /\ UNCHANGED <<app, series_map_, uiq>>
  BY DEF SnapBackToLiveView, seriesVars
<1>2. uiq \in Seq(UiEvents) /\ LoadsCounted(dbq, uiq, current_load_request_id_)
  BY DEF IInv, TypeOK, LoadsTracked
<1> QED  BY <1>1, <1>2, TransitionImplements

\* process_new_interfaces starts a load of the old and the new series, or is
\* not seen when nothing waits.
LEMMA ProcessNewInterfacesImplements ==
  ASSUME IInv, ProcessNewInterfaces
  PROVE  BL!Next \/ UNCHANGED BL!blVars
<1> DEFINE known == series_map_ \cup new_interfaces_queue_
<1>1. app # "quit" /\ UNCHANGED <<app, uiq>>
  BY DEF ProcessNewInterfaces
<1>2. CASE new_interfaces_queue_ = {}
  <2>1. UNCHANGED <<series_map_, loadVars, dbq>>
    BY <1>2 DEF ProcessNewInterfaces
  <2>2. LoadKept
    BY <1>1, <2>1 DEF LoadKept, loadVars
  <2> QED  BY <2>2, KeptIsStutter
<1>3. CASE new_interfaces_queue_ # {}
  <2>1. series_map_' = known /\ LoadDataForDisplay(known, now - VisibleWindow, now)
    BY <1>3 DEF ProcessNewInterfaces, AddSeriesForInterfaces
  <2>2. /\ known \in SUBSET Interfaces /\ known # {} /\ series_map_ \subseteq known
        /\ now - VisibleWindow \in Int /\ now \in Int
        /\ uiq \in Seq(UiEvents)
    BY <1>3 DEF IInv, TypeOK
  <2> HIDE DEF known
  <2>3. /\ current_load_request_id_' = current_load_request_id_ + 1
        /\ pending_queries_count_' = Cardinality(known)
        /\ AwaitedIn(dbq', uiq, current_load_request_id_') = known
    BY <2>1, <2>2, LoadDataForDisplayStep DEF IInv, LoadsTracked
  <2> QED  BY <1>1, <2>1, <2>2, <2>3, ReplacedIsStart
<1> QED  BY <1>2, <1>3

\* The end of a drag starts a load, unless there are no series.
LEMMA MouseReleaseImplements ==
  ASSUME IInv, MouseRelease
  PROVE  BL!Next \/ UNCHANGED BL!blVars
<1>1. /\ app = "running" /\ dragging_
      /\ LoadDataForDisplay(series_map_, axis_x_.min, axis_x_.max)
      /\ UNCHANGED <<app, uiq, series_map_>>
  BY DEF MouseRelease, OnInteractionFinished, seriesVars
<1>2. /\ series_map_ \in SUBSET Interfaces /\ uiq \in Seq(UiEvents)
      /\ axis_x_.min \in Int /\ axis_x_.max \in Int
      /\ first_timestamp_ # NoTime
  BY <1>1 DEF IInv, TypeOK, ShownBeforeDragged
<1>3. /\ series_map_ # {} =>
           /\ current_load_request_id_' = current_load_request_id_ + 1
           /\ pending_queries_count_' = Cardinality(series_map_)
           /\ AwaitedIn(dbq', uiq, current_load_request_id_') = series_map_
      /\ series_map_ = {} => UNCHANGED <<loadVars, dbq>>
  BY <1>1, <1>2, LoadDataForDisplayStep DEF IInv, LoadsTracked
<1>4. CASE series_map_ = {}
  <2>1. LoadKept
    BY <1>1, <1>3, <1>4 DEF LoadKept, loadVars
  <2> QED  BY <2>1, KeptIsStutter
<1>5. CASE series_map_ # {}
  BY <1>1, <1>2, <1>3, <1>5, ReplacedIsStart
<1> QED  BY <1>4, <1>5

\* A reply to the load in progress is the arrival of the answer it awaits.
LEMMA HandleSnapshotsLoadedImplements ==
  ASSUME IInv, HandleSnapshotsLoaded
  PROVE  BL!Next
<1> DEFINE id == current_load_request_id_
           name == Head(uiq).name
<1>1. /\ uiq \in Seq(UiEvents) /\ uiq # <<>> /\ ReplyOf(Head(uiq), id)
      /\ app # "quit"
  BY DEF IInv, TypeOK, HandleSnapshotsLoaded, NextEvent, IsStale, ReplyOf
<1>2. /\ name \in AwaitedIn(dbq, uiq, id)
      /\ AwaitedIn(dbq, Tail(uiq), id) = AwaitedIn(dbq, uiq, id) \ {name}
  BY <1>1, ReplyTaken DEF IInv, TypeOK, LoadsTracked
<1>3. /\ uiq' = Tail(uiq)
      /\ pending_queries_count_' = pending_queries_count_ - 1
      /\ UNCHANGED <<dbq, app, series_map_, id>>
  BY DEF HandleSnapshotsLoaded
<1>4. name \in Interfaces
  BY <1>2, AwaitedFinite DEF IInv, TypeOK
<1> HIDE DEF name
<1>5. name \in Awaited /\ Awaited' = Awaited \ {name}
  BY <1>2, <1>3, AwaitedAtStep
<1>6. BL!Arrive(name)
  BY <1>1, <1>3, <1>5 DEF BL!Arrive
<1> QED  BY <1>4, <1>6 DEF BL!Next, BL!SomeArrival

\* Quitting is seen as such; what else the user does is not.
LEMMA ViewImplements ==
  ASSUME IInv,
         MousePress \/ MouseMove \/ ToggleSeriesVisibility
           \/ DismissErrorBox \/ QuitApplication \/ UNCHANGED vars
  PROVE  BL!Next \/ UNCHANGED BL!blVars
<1>1. UNCHANGED <<dbq, uiq, loadVars, series_map_>>
  BY ViewStep
<1>2. UNCHANGED <<series_map_, current_load_request_id_, pending_queries_count_>>
      /\ Awaited' = Awaited
  BY <1>1, AwaitedAtStep DEF loadVars
<1>3. CASE DismissErrorBox \/ QuitApplication
  <2>1. app # "quit" /\ app' \in {"running", "quit"}
    BY <1>3 DEF DismissErrorBox, QuitApplication
  <2>2. CASE app' = "quit"
    <3>1. BL!Quit
      BY <1>2, <2>1, <2>2 DEF BL!Quit
    <3> QED  BY <3>1 DEF BL!Next
  <2>3. CASE app' = "running"
    <3>1. (app # "quit")' = (app # "quit")
      BY <2>1, <2>3
    <3>2. UNCHANGED BL!blVars
      BY <1>2, <3>1 DEF BL!blVars
    <3> QED  BY <3>2
  <2> QED  BY <2>1, <2>2, <2>3
<1>4. CASE MousePress \/ MouseMove \/ ToggleSeriesVisibility \/ UNCHANGED vars
  <2>1. UNCHANGED app
    BY <1>4 DEF MousePress, MouseMove, ToggleSeriesVisibility, vars
  <2>2. LoadKept
    BY <1>1, <2>1 DEF LoadKept, loadVars
  <2> QED  BY <2>2, KeptIsStutter
<1> QED  BY <1>3, <1>4

\* Every step of the program is a step of BatchLoad or invisible to it.
LEMMA NextImplements == IInv /\ [Next]_vars => [BL!Next]_(BL!blVars)
<1> SUFFICES ASSUME IInv, [Next]_vars
             PROVE  BL!Next \/ UNCHANGED BL!blVars
  OBVIOUS
<1>1. CASE CollectStats
  BY <1>1, CollectStatsStep, KeptIsStutter
<1>2. CASE DatabaseThread
  BY <1>2, InitializeStep, AddSnapshotsStep, GetSnapshotsInRangeStep,
     KeptIsStutter DEF DatabaseThread
<1>3. CASE PostedEvents
  BY <1>3, HandleStatsCollectedStep, IgnoreStaleSnapshotsStep,
     OnInitializationFailedStep, KeptIsStutter,
     HandleSnapshotsLoadedImplements, OnDatabaseReadyImplements DEF PostedEvents
<1>4. CASE ProcessNewInterfaces
  BY <1>4, ProcessNewInterfacesImplements
<1>5. CASE SnapBackToLiveView
  BY <1>5, SnapBackImplements
<1>6. CASE User
  BY <1>6, MouseReleaseImplements, ViewImplements DEF User
<1>7. CASE UNCHANGED vars
  BY <1>7, ViewImplements
<1>8. CASE FailedStatement
  BY <1>8, FailedStatementStep, KeptIsStutter
<1> QED  BY <1>1, <1>2, <1>3, <1>4, <1>5, <1>6, <1>7, <1>8 DEF Next

\* load_data_for_display and handle_snapshots_loaded implement BatchLoad: every
\* load asks for all series, each of its answers is taken in and counted once,
\* and no answer to a superseded load is, whatever happens in between.
THEOREM Implementation == Spec => ImplementsBatchLoad
<1>1. Init => BL!Init
  BY InitImplements
<1>2. IInv /\ [Next]_vars => [BL!Next]_(BL!blVars)
  BY NextImplements
<1> QED  BY <1>1, <1>2, Invariance, PTL DEF Spec, ImplementsBatchLoad, BL!Spec

-----------------------------------------------------------------------------
(* The series                                                              *)
(*                                                                         *)
(* No traffic is drawn twice or left out, what is drawn is stored, a       *)
(* series stays short, a query always follows stored samples, and the      *)
(* isolated interface is the one that is shown.                            *)
(*                                                                         *)
(* These rest on a second inductive invariant, SeriesInv, that holds on    *)
(* top of IInv.  SamplesComeLater orders the samples on their way behind   *)
(* all that was handled; without it a live point could overlap a loaded    *)
(* one.  OneWindowLoaded bounds what a load draws.  EverythingKept follows *)
(* every sample through the queue of the database into its rows, which an  *)
(* earlier session may have left and initialize may still prune.           *)

\* The elements of a queue, by type.
Of(q, type) == {e \in ToSet(q) : e.type = type}

\* Every sample on its way to main_window was taken after the time t.
SampledAfter(u, t) == \A e \in Of(u, "stats") : t < e.ts

InOrder(u) ==
  \A j, k \in 1..Len(u) :
    j < k /\ u[j].type = "stats" /\ u[k].type = "stats" => u[j].ts < u[k].ts

\* The samples that main_window has yet to handle are later than everything
\* that was stored, loaded or drawn, and each is later than those before it.
SamplesComeLater ==
  /\ InOrder(uiq)
  /\ \A name \in Interfaces : \A t \in rows[name] : SampledAfter(uiq, t)
  /\ \A e \in Of(dbq, "add") : SampledAfter(uiq, e.ts)
  /\ \A e \in Of(uiq, "snapshots") : \A t \in e.data : SampledAfter(uiq, t)
  /\ \A name \in Interfaces : last_stats[name] # NoTime =>
       SampledAfter(uiq, last_stats[name]) /\ last_stats[name] <= now

MeasuredIn(P) == {p \in P : IsMeasured(p)}

Apart(M) == \A p, q \in M : p = q \/ p.x <= q.from \/ q.x <= p.from

Linked(M) ==
  \A p \in M : (\A q \in M : p.from <= q.from) \/ (\E q \in M : q.x = p.from)

\* The intervals that M covers follow each other without a gap up to the time
\* last.
Connected(M, last) ==
  /\ M # {} => /\ last \in Nat
               /\ \E p \in M : p.x = last
               /\ \A p \in M : p.x <= last
  /\ Apart(M)
  /\ Linked(M)

\* The points of P, fillers included, end at the time last at the latest, and one
\* filler at most is more than two windows before another point.
Far(P) == {p \in P : \E q \in P : q.x - p.x > 2 * VisibleWindow}

Compact(P, last) ==
  /\ P # {} => last \in Nat /\ \A p \in P : p.x <= last
  /\ \A p, q \in Far(P) : ~IsMeasured(p) /\ p = q

SeriesConnected ==
  \A name \in Interfaces : /\ Connected(MeasuredIn(points[name]), last_stats[name])
                            /\ Compact(points[name], last_stats[name])

\* The snapshots of one reply that are drawn lie in one window.
Narrow(data) ==
  \A s, t \in data :
    (\E r \in data : r < s) /\ (\E r \in data : r < t) => t - s <= VisibleWindow

OneWindowLoaded ==
  /\ axis_x_.max - axis_x_.min <= VisibleWindow
  /\ \A e \in Of(dbq, "get") : e.end - e.start <= VisibleWindow
  /\ \A e \in Of(uiq, "snapshots") : Narrow(e.data)

\* The samples of an interface that are stored or about to be, for good: what
\* an earlier session left may be pruned until the database is initialized.
Kept(name) ==
  (IF initialized THEN rows[name] ELSE {})
    \cup {e.ts : e \in {a \in Of(dbq, "add") : name \in a.stats}}

\* A query for an interface is behind a stored sample of it.
QueryHasRows(d, k) ==
  \/ initialized /\ rows[d[k].name] # {}
  \/ \E j \in 1..(k - 1) : d[j].type = "add" /\ d[k].name \in d[j].stats

QueriesFollowSamples ==
  \A k \in 1..Len(dbq) : dbq[k].type = "get" => QueryHasRows(dbq, k)

\* The database is open once it is initialized and never left in a transaction.
DatabaseWorks == (initialized => db_open) /\ open_sample = NoTime

\* Once sampled, a timestamp stays in the queue of the database or in its rows.
\* What the chart holds, what it measures from, what a reply carries and what a
\* query is about are all among these.
EverythingKept ==
  DbMayFail \/
    /\ DatabaseWorks
    /\ \A e \in Of(uiq, "snapshots") : e.data \subseteq Kept(e.name)
    /\ \A name \in Interfaces :
         last_stats[name] # NoTime => last_stats[name] \in Kept(name)
    /\ \A name \in Interfaces : \A p \in MeasuredIn(points[name]) :
         {p.from, p.x} \subseteq Kept(name)
    /\ \A name \in series_map_ \cup new_interfaces_queue_ : Kept(name) # {}
    /\ QueriesFollowSamples

SeriesInv ==
  /\ SamplesComeLater
  /\ SeriesConnected
  /\ OneWindowLoaded
  /\ EverythingKept
  /\ IsolationShown

USE MainWindowAssumption, GapAssumption

-----------------------------------------------------------------------------
\* The operators on series.

\* A live point continues a connected series; what the trimming drops is older
\* than all that stays.
LEMMA AppendLiveConnected ==
  ASSUME NEW P \in SUBSET [from : Nat, x : Nat], NEW last \in Nat,
         NEW ts \in Nat, last < ts, Connected(MeasuredIn(P), last)
  PROVE  Connected(MeasuredIn(AppendLive(P, last, ts, VisibleWindow)), ts)
<1> DEFINE M == MeasuredIn(P)
           n == Measured(last, ts)
           cutoff == ts - 2 * VisibleWindow
           N == MeasuredIn(AppendLive(P, last, ts, VisibleWindow))
<1>1. n.from = last /\ n.x = ts
  BY DEF Measured
<1>2. cutoff \in Int /\ cutoff <= ts
  OBVIOUS
<1>3. \A p \in M : p.from \in Nat /\ p.x \in Nat /\ p.from < p.x
  BY DEF MeasuredIn, IsMeasured
<1>4. \A p : p \in N <=> (p \in M \/ p = n) /\ p.x >= cutoff
  <2>1. IsMeasured(n)
    BY <1>1 DEF IsMeasured
  <2> QED  BY <2>1 DEF MeasuredIn, AppendLive, TrimBefore
<1>5. Connected(M, last)
  OBVIOUS
<1> HIDE DEF M, n, cutoff, N
<1>6. \A p \in M : p.x <= last
  BY <1>5 DEF Connected
<1>7. n \in N
  BY <1>1, <1>2, <1>4
<1>8. \A p \in N : /\ p.x \in Nat /\ p.from \in Nat
                   /\ p.from < p.x /\ p.x <= ts /\ p.x >= cutoff
  BY <1>1, <1>2, <1>3, <1>4, <1>6
<1>9. Apart(N)
  <2> SUFFICES ASSUME NEW p \in N, NEW q \in N
               PROVE  p = q \/ p.x <= q.from \/ q.x <= p.from
    BY DEF Apart
  <2>1. CASE p \in M /\ q \in M
    BY <1>5, <2>1 DEF Connected, Apart
  <2>2. CASE p = n \/ q = n
    BY <1>1, <1>4, <1>6, <2>2
  <2> QED  BY <1>4, <2>1, <2>2
<1>10. Linked(N)
  <2> SUFFICES ASSUME NEW p \in N
               PROVE  (\A q \in N : p.from <= q.from) \/ (\E q \in N : q.x = p.from)
    BY DEF Linked
  <2>1. CASE p = n
    <3>1. CASE N = {n}
      BY <1>8, <2>1, <3>1
    <3>2. CASE N # {n}
      <4>1. PICK r \in N : r \in M
        BY <1>4, <1>7, <3>2
      <4>2. PICK q \in M : q.x = last
        BY <1>5, <4>1 DEF Connected
      <4>3. q.x >= cutoff
        BY <1>2, <1>6, <1>8, <4>1, <4>2
      <4> QED  BY <1>1, <1>4, <2>1, <4>2, <4>3
    <3> QED  BY <3>1, <3>2
  <2>2. CASE p \in M /\ \A q \in M : p.from <= q.from
    BY <1>1, <1>3, <1>4, <1>6, <2>2
  <2>3. CASE p \in M /\ \E q \in M : q.x = p.from
    <3>1. PICK q \in M : q.x = p.from
      BY <2>3
    <3>2. CASE q \in N
      BY <3>1, <3>2
    <3>3. CASE q \notin N
      <4>1. p.from < cutoff
        BY <1>2, <1>3, <1>4, <3>1, <3>3
      <4>2. ASSUME NEW r \in N PROVE p.from <= r.from
        BY <1>2, <1>8, <1>9, <4>1 DEF Apart
      <4> QED  BY <4>2
    <3> QED  BY <3>2, <3>3
  <2> QED  BY <1>4, <1>5, <2>1, <2>2, <2>3 DEF Connected, Linked
<1>11. N # {} => ts \in Nat /\ (\E p \in N : p.x = ts) /\ \A p \in N : p.x <= ts
  BY <1>1, <1>7, <1>8
<1>12. Connected(N, ts)
  BY <1>9, <1>10, <1>11 DEF Connected
<1> QED  BY <1>12 DEF N

\* The trimming leaves two windows, whatever fillers a load has drawn.
LEMMA AppendLiveCompact ==
  ASSUME NEW P \in SUBSET [from : Nat, x : Nat], NEW last \in Nat,
         NEW ts \in Nat, last < ts, Compact(P, last)
  PROVE  Compact(AppendLive(P, last, ts, VisibleWindow), ts)
<1> DEFINE N == AppendLive(P, last, ts, VisibleWindow)
<1>1. Measured(last, ts).x = ts
  BY DEF Measured
<1>2. ASSUME NEW p \in N
      PROVE  p.x \in Nat /\ p.x <= ts /\ p.x >= ts - 2 * VisibleWindow
  <2>1. (p \in P \/ p = Measured(last, ts)) /\ p.x >= ts - 2 * VisibleWindow
    BY DEF AppendLive, TrimBefore
  <2>2. CASE p \in P
    BY <2>1, <2>2 DEF Compact
  <2>3. CASE p = Measured(last, ts)
    BY <1>1, <2>1, <2>3
  <2> QED  BY <2>1, <2>2, <2>3
<1> HIDE DEF N
<1>3. ASSUME NEW p \in N, NEW q \in N PROVE ~(q.x - p.x > 2 * VisibleWindow)
  <2>1. /\ p.x \in Nat /\ p.x >= ts - 2 * VisibleWindow
        /\ q.x \in Nat /\ q.x <= ts
    BY <1>2
  <2> QED  BY <2>1
<1>4. Far(N) = {}
  BY <1>3 DEF Far
<1> QED  BY <1>2, <1>4 DEF Compact, N

\* A single snapshot draws nothing: it is only the baseline of the next one.
LEMMA LoadedNothing ==
  ASSUME NEW data \in SUBSET Nat, NEW time \in Nat, \A t \in data : t <= time,
         ~(Cardinality(data) >= 2)
  PROVE  LoadedPoints(data) = {}
<1> SUFFICES ASSUME NEW t \in data, NEW v \in data, v < t PROVE FALSE
  BY DEF LoadedPoints
<1>1. IsFiniteSet(data)
  BY FS_BoundedSetOfNaturals
<1>2. {t, v} \subseteq data /\ Cardinality({t, v}) = 2
  <2>1. t # v
    OBVIOUS
  <2>2. Cardinality({t}) = 1 /\ IsFiniteSet({t})
    BY FS_Singleton
  <2>3. Cardinality({t} \cup {v}) = Cardinality({t}) + 1
    BY <2>1, <2>2, FS_AddElement
  <2>4. {t} \cup {v} = {t, v}
    OBVIOUS
  <2> QED  BY <2>2, <2>3, <2>4
<1>3. Cardinality({t, v}) <= Cardinality(data)
  BY <1>1, <1>2, FS_Subset
<1>4. Cardinality(data) \in Nat
  BY <1>1, FS_CardinalityType
<1> QED  BY <1>2, <1>3, <1>4

\* The points drawn from a reply are connected.
LEMMA LoadedConnected ==
  ASSUME NEW data \in SUBSET Nat, NEW time \in Nat, \A t \in data : t <= time
  PROVE  /\ Cardinality(data) >= 2 =>
              Connected(MeasuredIn(LoadedPoints(data)), Max(data))
         /\ \A p \in MeasuredIn(LoadedPoints(data)) : p.from \in data /\ p.x \in data
<1> DEFINE M == MeasuredIn(LoadedPoints(data))
           Later == {t \in data : \E v \in data : v < t}
<1>1. ASSUME NEW p PROVE p \in M <=> \E t \in Later : p = Measured(Previous(data, t), t)
  BY LoadedMeasured DEF MeasuredIn
<1>2. ASSUME NEW t \in Later
      PROVE  /\ t \in data /\ t \in Nat
             /\ Previous(data, t) \in data /\ Previous(data, t) \in Nat
             /\ Previous(data, t) < t
             /\ \A u \in data : u < t => u <= Previous(data, t)
  BY PreviousIsLast
<1>3. \A p \in M : /\ p.x \in Later /\ p.from = Previous(data, p.x)
                   /\ p = Measured(p.from, p.x)
  BY <1>1 DEF Measured
<1>4. \A t \in Later : \E p \in M : p.x = t
  <2> SUFFICES ASSUME NEW t \in Later PROVE \E p \in M : p.x = t
    OBVIOUS
  <2> DEFINE p == Measured(Previous(data, t), t)
  <2>1. p \in M
    BY <1>1
  <2>2. p.x = t
    BY DEF Measured
  <2> QED  BY <2>1, <2>2
<1>5. \A t \in data : t \in Later \/ \A u \in data : t <= u
  OBVIOUS
<1> HIDE DEF M, Later
<1>6. \A p \in M : p.from \in data /\ p.x \in data
  BY <1>2, <1>3
<1>7. ASSUME Cardinality(data) >= 2
      PROVE  Connected(M, Max(data))
  <2>1. data # {}
    BY <1>7, FS_EmptySet
  <2>2. Max(data) \in data /\ \A y \in data : Max(data) >= y
    BY <2>1, MaxNatural
  <2> DEFINE last == Max(data)
  <2>3. last \in data /\ last \in Nat /\ \A y \in data : last >= y
    BY <2>2
  <2> HIDE DEF last
  <2>4. last \in Later
    <3>1. data # {last}
      <4>1. Cardinality({last}) = 1
        BY FS_Singleton
      <4> QED  BY <1>7, <4>1
    <3>2. PICK v \in data : v # last
      BY <2>3, <3>1
    <3>3. v \in Nat /\ v <= last
      BY <2>3
    <3>4. v < last
      BY <2>3, <3>2, <3>3
    <3> QED  BY <1>5, <2>3, <3>3, <3>4
  <2>5. \E p \in M : p.x = last
    BY <1>4, <2>4
  <2>6. \A p \in M : p.x <= last
    BY <1>6, <2>3
  <2>7. Apart(M)
    <3> SUFFICES ASSUME NEW p \in M, NEW q \in M
                 PROVE  p = q \/ p.x <= q.from \/ q.x <= p.from
      BY DEF Apart
    <3>1. /\ p.x \in Later /\ p.from = Previous(data, p.x) /\ p = Measured(p.from, p.x)
          /\ q.x \in Later /\ q.from = Previous(data, q.x) /\ q = Measured(q.from, q.x)
      BY <1>3
    <3>2. p.x \in data /\ q.x \in data /\ p.x \in Nat /\ q.x \in Nat
      BY <1>2, <3>1
    <3>3. CASE p.x = q.x
      BY <3>1, <3>3
    <3>4. CASE p.x < q.x
      BY <1>2, <3>1, <3>2, <3>4
    <3>5. CASE q.x < p.x
      BY <1>2, <3>1, <3>2, <3>5
    <3> QED  BY <3>2, <3>3, <3>4, <3>5
  <2>8. Linked(M)
    <3> SUFFICES ASSUME NEW p \in M
                 PROVE  (\A q \in M : p.from <= q.from) \/ (\E q \in M : q.x = p.from)
      BY DEF Linked
    <3>1. p.from \in Later \/ \A u \in data : p.from <= u
      BY <1>5, <1>6
    <3> QED  BY <1>4, <1>6, <3>1
  <2> QED  BY <2>3, <2>5, <2>6, <2>7, <2>8 DEF Connected, last
<1> QED  BY <1>6, <1>7 DEF M

\* So are the fillers, but for the one behind the baseline: it may be drawn long
\* before the window that was loaded, all other points are in it or next to it.
LEMMA LoadedCompact ==
  ASSUME NEW data \in SUBSET Nat, NEW time \in Nat, \A t \in data : t <= time,
         Narrow(data), Cardinality(data) >= 2
  PROVE  Compact(LoadedPoints(data), Max(data))
<1> DEFINE P == LoadedPoints(data)
           last == Max(data)
           Later == {t \in data : \E v \in data : v < t}
           BehindBaseline(p) == \E b \in data : (\A u \in data : b <= u) /\ p = Filler(b + 1)
<1>1. last \in Nat /\ \A t \in data : t <= last
  <2>1. data # {}
    BY FS_EmptySet
  <2> QED  BY <2>1, MaxNatural
<1>2. \A s, t \in Later : s \in Nat /\ t \in Nat /\ t - s <= VisibleWindow
  BY DEF Narrow
<1>3. ASSUME NEW p \in P
      PROVE  /\ p.x \in Nat
             /\ \E t \in Later : p.x <= t
             /\ BehindBaseline(p) \/ \E t \in Later : p.x >= t - 1
  <2>1. PICK t \in Later :
          p \in {Measured(Previous(data, t), t)} \cup GapFillers(Previous(data, t), t)
    BY DEF LoadedPoints
  <2> DEFINE b == Previous(data, t)
  <2>2. t \in Nat /\ b \in data /\ b \in Nat /\ b < t
    BY PreviousIsLast
  <2> HIDE DEF b, Later
  <2>3. \/ p = Measured(b, t)
        \/ b + 1 <= t /\ p = Filler(b + 1)
        \/ p = Filler(t - 1) /\ t - 1 \in Nat
    BY <2>1, <2>2 DEF GapFillers, b
  <2>4. p.x \in Nat /\ p.x <= t /\ (p.x >= t - 1 \/ p = Filler(b + 1))
    BY <2>2, <2>3 DEF Measured, Filler
  <2>5. CASE p = Filler(b + 1)
    <3>1. CASE \A u \in data : b <= u
      BY <2>2, <2>4, <2>5, <3>1
    <3>2. CASE b \in Later
      <4>1. p.x >= b - 1
        BY <2>2, <2>5 DEF Filler
      <4> QED  BY <2>4, <3>2, <4>1
    <3>3. b \in Later \/ \A u \in data : b <= u
      BY <2>2 DEF Later
    <3> QED  BY <3>1, <3>2, <3>3
  <2> QED  BY <2>4, <2>5
<1>4. \A p \in P : p.x <= last
  <2> SUFFICES ASSUME NEW p \in P PROVE p.x <= last
    OBVIOUS
  <2>1. PICK t \in data : p.x <= t
    BY <1>3
  <2> QED  BY <1>1, <1>3, <2>1
<1> HIDE DEF P, last, Later
<1>5. ASSUME NEW p \in Far(P) PROVE BehindBaseline(p)
  <2>1. PICK q \in P : p \in P /\ q.x - p.x > 2 * VisibleWindow
    BY DEF Far
  <2>2. PICK t \in Later : q.x <= t
    BY <1>3
  <2>3. ASSUME NEW s \in Later, p.x >= s - 1 PROVE FALSE
    BY <1>2, <1>3, <2>1, <2>2, <2>3
  <2> QED  BY <1>3, <2>1, <2>3
<1>6. ASSUME NEW p \in Far(P), NEW q \in Far(P) PROVE ~IsMeasured(p) /\ p = q
  <2>1. PICK b \in data : (\A u \in data : b <= u) /\ p = Filler(b + 1)
    BY <1>5
  <2>2. PICK c \in data : (\A u \in data : c <= u) /\ q = Filler(c + 1)
    BY <1>5
  <2>3. b \in Nat /\ b = c
    BY <2>1, <2>2
  <2> QED  BY <2>1, <2>2, <2>3 DEF Filler, IsMeasured
<1> QED  BY <1>1, <1>4, <1>6 DEF Compact, P, last

\* A query for one window finds stored rows, of which one at most is older.
LEMMA FoundRowsNarrow ==
  ASSUME rows \in [Interfaces -> SUBSET Nat],
         NEW name \in Interfaces, NEW start \in Int, NEW end \in Int,
         end - start <= VisibleWindow,
         NEW data \in FoundRows(name, start, end)
  PROVE  data \subseteq rows[name] /\ Narrow(data)
<1> DEFINE S == rows[name]
<1>1. S \in SUBSET Nat
  OBVIOUS
<1>2. data \subseteq LastBefore(S, start) \cup Within(S, start, end)
  BY DEF FoundRows, Readable
<1> HIDE DEF S
<1>3. /\ LastBefore(S, start) \subseteq S
      /\ \A s, t \in LastBefore(S, start) : s = t /\ s < start
  <2>1. CASE \E t \in S : t < start
    <3>1. PICK t \in S : t < start
      BY <2>1
    <3>2. start \in Nat
      BY <1>1, <3>1
    <3>3. Previous(S, start) \in S /\ Previous(S, start) < start
      BY <1>1, <2>1, <3>2, PreviousIsLast
    <3> QED  BY <2>1, <3>3 DEF LastBefore
  <2>2. CASE ~\E t \in S : t < start
    BY <2>2 DEF LastBefore
  <2> QED  BY <2>1, <2>2
<1>4. \A t \in Within(S, start, end) : t \in S /\ start <= t /\ t <= end
  BY DEF Within
<1>5. ASSUME NEW s \in data, NEW r \in data, r < s
      PROVE  s \in Nat /\ start <= s /\ s <= end
  <2>1. r \in Nat /\ s \in Nat
    BY <1>1, <1>2, <1>3, <1>4
  <2>2. s \notin LastBefore(S, start)
    <3>1. SUFFICES ASSUME s \in LastBefore(S, start) PROVE FALSE
      OBVIOUS
    <3>2. s < start
      BY <1>3, <3>1
    <3>3. r \notin Within(S, start, end)
      BY <1>4, <1>5, <2>1, <3>2
    <3> QED  BY <1>2, <1>3, <1>5, <2>1, <3>1, <3>3
  <2> QED  BY <1>2, <1>4, <2>1, <2>2
<1>6. Narrow(data)
  <2> SUFFICES ASSUME NEW s \in data, NEW t \in data,
                      \E r \in data : r < s, \E r \in data : r < t
               PROVE  t - s <= VisibleWindow
    BY DEF Narrow
  <2>1. s \in Nat /\ start <= s /\ t \in Nat /\ t <= end
    BY <1>5
  <2> QED  BY <2>1
<1>7. data \subseteq S
  BY <1>2, <1>3, <1>4
<1> QED  BY <1>6, <1>7 DEF S

-----------------------------------------------------------------------------
\* The elements of a queue after an event was posted or taken.

\* An element of the queue is at one of its positions.
LEMMA OfPositions ==
  ASSUME NEW S, NEW q \in Seq(S), NEW type, NEW e
  PROVE  e \in Of(q, type) <=> \E k \in 1..Len(q) : q[k] = e /\ e.type = type
BY DEF Of, ToSet

\* A posted event joins those of its type.
LEMMA OfAppend ==
  ASSUME NEW S, NEW q \in Seq(S), NEW e \in S
  PROVE  /\ Of(Append(q, e), e.type) = Of(q, e.type) \cup {e}
         /\ \A type : type # e.type => Of(Append(q, e), type) = Of(q, type)
<1> DEFINE r == Append(q, e)
<1>1. /\ r \in Seq(S) /\ Len(r) = Len(q) + 1 /\ Len(q) \in Nat
      /\ \A k \in 1..Len(q) : r[k] = q[k]
      /\ r[Len(q) + 1] = e
  BY AppendElements
<1> HIDE DEF r
<1>2. \A k : k \in 1..Len(r) <=> k \in 1..Len(q) \/ k = Len(q) + 1
  BY <1>1
<1>3. ASSUME NEW type, NEW x
      PROVE  x \in Of(r, type) <=> x \in Of(q, type) \/ (x = e /\ x.type = type)
  <2>1. x \in Of(r, type) <=> \E k \in 1..Len(r) : r[k] = x /\ x.type = type
    BY <1>1, OfPositions
  <2>2. x \in Of(q, type) <=> \E k \in 1..Len(q) : q[k] = x /\ x.type = type
    BY OfPositions
  <2> QED  BY <1>1, <1>2, <2>1, <2>2
<1>4. Of(r, e.type) = Of(q, e.type) \cup {e}
  <2>1. \A x : x \in Of(r, e.type) <=> x \in Of(q, e.type) \/ x = e
    BY <1>3
  <2> QED  BY <2>1
<1>5. ASSUME NEW type, type # e.type PROVE Of(r, type) = Of(q, type)
  <2>1. \A x : x \in Of(r, type) <=> x \in Of(q, type)
    BY <1>3, <1>5
  <2> QED  BY <2>1
<1> QED  BY <1>4, <1>5 DEF r

\* An event that is taken leaves the others.
LEMMA OfTail ==
  ASSUME NEW S, NEW q \in Seq(S), q # <<>>
  PROVE  /\ \A type : Of(Tail(q), type) \subseteq Of(q, type)
         /\ \A type : Of(q, type) \subseteq Of(Tail(q), type) \cup {Head(q)}
         /\ \A type : type # Head(q).type => Of(Tail(q), type) = Of(q, type)
         /\ Head(q) \in Of(q, Head(q).type)
<1> DEFINE r == Tail(q)
           h == Head(q)
<1>1. /\ r \in Seq(S) /\ h = q[1] /\ 1 \in 1..Len(q)
      /\ \A k \in 1..Len(r) : k + 1 \in 1..Len(q) /\ r[k] = q[k + 1]
  BY TailElements
<1>2. \A k \in 1..Len(q) : k = 1 \/ (k - 1 \in 1..Len(r) /\ r[k - 1] = q[k])
  BY TailElements
<1> HIDE DEF r, h
<1>3. ASSUME NEW type, NEW x
      PROVE  /\ x \in Of(r, type) => x \in Of(q, type)
             /\ x \in Of(q, type) => x \in Of(r, type) \/ x = h
             /\ x \in Of(q, type) => x.type = type
  <2>1. x \in Of(r, type) <=> \E k \in 1..Len(r) : r[k] = x /\ x.type = type
    BY <1>1, OfPositions
  <2>2. x \in Of(q, type) <=> \E k \in 1..Len(q) : q[k] = x /\ x.type = type
    BY OfPositions
  <2>3. x \in Of(r, type) => x \in Of(q, type)
    BY <1>1, <2>1, <2>2
  <2>4. x \in Of(q, type) => x \in Of(r, type) \/ x = h
    BY <1>1, <1>2, <2>1, <2>2
  <2> QED  BY <2>2, <2>3, <2>4
<1>4. h \in Of(q, h.type)
  BY <1>1, OfPositions
<1> QED  BY <1>3, <1>4 DEF r, h

\* A later sample may be posted behind the others.
LEMMA InOrderAppend ==
  ASSUME NEW u \in Seq(UiEvents), NEW e \in UiEvents, InOrder(u),
         e.type = "stats" => \A s \in Of(u, "stats") : s.ts < e.ts
  PROVE  InOrder(Append(u, e))
<1> DEFINE v == Append(u, e)
<1>1. /\ Len(v) = Len(u) + 1 /\ Len(u) \in Nat
      /\ \A k \in 1..Len(u) : v[k] = u[k]
      /\ v[Len(u) + 1] = e
  BY AppendElements
<1> HIDE DEF v
<1>2. SUFFICES ASSUME NEW j \in 1..Len(v), NEW k \in 1..Len(v), j < k,
                      v[j].type = "stats", v[k].type = "stats"
               PROVE  v[j].ts < v[k].ts
  BY DEF InOrder, v
<1>3. j \in 1..Len(u) /\ v[j] = u[j]
  BY <1>1, <1>2
<1>4. CASE k \in 1..Len(u)
  BY <1>1, <1>2, <1>3, <1>4 DEF InOrder
<1>5. CASE k = Len(u) + 1
  <2>1. u[j] \in Of(u, "stats")
    BY <1>2, <1>3, OfPositions
  <2> QED  BY <1>1, <1>2, <1>3, <1>5, <2>1
<1> QED  BY <1>1, <1>4, <1>5

\* The sample taken from the queue is earlier than those left.
LEMMA InOrderTail ==
  ASSUME NEW u \in Seq(UiEvents), u # <<>>, InOrder(u)
  PROVE  /\ InOrder(Tail(u))
         /\ Head(u).type = "stats" => SampledAfter(Tail(u), Head(u).ts)
<1> DEFINE v == Tail(u)
<1>1. /\ v \in Seq(UiEvents) /\ Head(u) = u[1] /\ 1 \in 1..Len(u)
      /\ \A k \in 1..Len(v) : k + 1 \in 1..Len(u) /\ 1 < k + 1 /\ v[k] = u[k + 1]
  BY TailElements
<1>2. \A j, k \in 1..Len(v) : j < k => j + 1 < k + 1
  OBVIOUS
<1> HIDE DEF v
<1>3. InOrder(v)
  BY <1>1, <1>2 DEF InOrder
<1>4. ASSUME Head(u).type = "stats", NEW e \in Of(v, "stats")
      PROVE  Head(u).ts < e.ts
  <2>1. PICK k \in 1..Len(v) : v[k] = e /\ e.type = "stats"
    BY <1>1, <1>4, OfPositions
  <2> QED  BY <1>1, <1>4, <2>1 DEF InOrder
<1> QED  BY <1>3, <1>4 DEF v, SampledAfter

-----------------------------------------------------------------------------
\* The steps that touch neither the rows nor a series.

\* The queue c of the database is d with queries for some of names behind it,
\* each for at most one window.
Asked(c, d, names) ==
  /\ c \in Seq(DbRequests) /\ Len(d) <= Len(c)
  /\ \A k \in 1..Len(d) : c[k] = d[k]
  /\ \A k \in 1..Len(c) : k > Len(d) =>
       /\ c[k].type = "get" /\ c[k].name \in names
       /\ c[k].end - c[k].start <= VisibleWindow

\* Such queries leave the samples in the queue alone.
LEMMA AskedElements ==
  ASSUME NEW d \in Seq(DbRequests), NEW names, NEW c, Asked(c, d, names)
  PROVE  /\ Of(c, "add") = Of(d, "add")
         /\ \A e \in Of(c, "get") :
              e \in Of(d, "get") \/ e.end - e.start <= VisibleWindow
<1>1. /\ c \in Seq(DbRequests) /\ Len(c) \in Nat /\ Len(d) \in Nat
      /\ \A k \in 1..Len(d) : k \in 1..Len(c) /\ c[k] = d[k]
      /\ \A k \in 1..Len(c) : k \in 1..Len(d) \/ k > Len(d)
  BY DEF Asked
<1>2. \A type, e : e \in Of(c, type) <=> \E k \in 1..Len(c) : c[k] = e /\ e.type = type
  BY <1>1, OfPositions
<1>3. \A type, e : e \in Of(d, type) <=> \E k \in 1..Len(d) : d[k] = e /\ e.type = type
  BY OfPositions
<1>4. \A k \in 1..Len(c) : k > Len(d) =>
        c[k].type = "get" /\ c[k].end - c[k].start <= VisibleWindow
  BY DEF Asked
<1>5. ASSUME NEW e PROVE e \in Of(c, "add") <=> e \in Of(d, "add")
  BY <1>1, <1>2, <1>3, <1>4
<1>6. ASSUME NEW e \in Of(c, "get")
      PROVE  e \in Of(d, "get") \/ e.end - e.start <= VisibleWindow
  BY <1>1, <1>2, <1>3, <1>4
<1> QED  BY <1>5, <1>6

\* A step that asks for nothing is such a step.
LEMMA NothingAsked ==
  ASSUME NEW d \in Seq(DbRequests), NEW names
  PROVE  Asked(d, d, names)
BY DEF Asked

\* load_data_for_display posts queries for the range it is given.
LEMMA LoadAsks ==
  ASSUME IInv,
         NEW known \in SUBSET Interfaces, NEW start \in Int, NEW end \in Int,
         end - start <= VisibleWindow,
         LoadDataForDisplay(known, start, end)
  PROVE  Asked(dbq', dbq, known)
<1> DEFINE id == current_load_request_id_ + 1
           names == SetToSeq(known)
           q == [k \in 1..Len(names) |-> GetRequest(id, names[k], start, end)]
<1>1. dbq \in Seq(DbRequests) /\ id \in Nat
  BY DEF IInv, TypeOK
<1>2. CASE dbq' = dbq
  BY <1>1, <1>2, NothingAsked
<1>3. CASE dbq' = dbq \o q
  <2>1. IsFiniteSet(known)
    BY FS_Subset
  <2>2. names \in Seq(known) /\ Len(names) \in Nat
    BY <2>1, SetToSeqLists
  <2> HIDE DEF names, id
  <2>3. ASSUME NEW k \in 1..Len(names)
        PROVE  /\ GetRequest(id, names[k], start, end) \in DbRequests
               /\ GetRequest(id, names[k], start, end).type = "get"
               /\ GetRequest(id, names[k], start, end).name \in known
               /\ GetRequest(id, names[k], start, end).start = start
               /\ GetRequest(id, names[k], start, end).end = end
    <3>1. names[k] \in known
      BY <2>2
    <3> QED  BY <1>1, <3>1 DEF GetRequest, DbRequests
  <2>4. /\ q \in Seq(DbRequests) /\ Len(q) = Len(names)
        /\ \A k \in 1..Len(q) : /\ q[k].type = "get" /\ q[k].name \in known
                                /\ q[k].start = start /\ q[k].end = end
    BY <2>2, <2>3
  <2> HIDE DEF q
  <2>5. Joins(dbq', dbq, q)
    BY <1>1, <1>3, <2>4, ConcatenationJoins
  <2>6. Len(dbq) \in Nat /\ Len(q) \in Nat
    BY <1>1, <2>2, <2>4
  <2>7. ASSUME NEW k \in 1..Len(dbq'), k > Len(dbq)
        PROVE  /\ dbq'[k].type = "get" /\ dbq'[k].name \in known
               /\ dbq'[k].end - dbq'[k].start <= VisibleWindow
    <3> DEFINE j == k - Len(dbq)
    <3>1. j \in 1..Len(q) /\ k = Len(dbq) + j
      BY <2>5, <2>6, <2>7 DEF Joins
    <3>2. dbq'[k] = q[j]
      BY <2>5, <3>1 DEF Joins
    <3> HIDE DEF j
    <3> QED  BY <2>4, <3>1, <3>2
  <2> QED  BY <2>5, <2>6, <2>7 DEF Asked, Joins
<1> QED  BY <1>2, <1>3 DEF LoadDataForDisplay, NextLoadId, loadVars

\* What such a step does: it may take an event, ask for data of the interfaces
\* main_window knows, and shift the axis.
Quiet ==
  /\ UNCHANGED <<now, initialized, db_open, rows, open_sample, points, last_stats>>
  /\ uiq' = uiq \/ (uiq # <<>> /\ uiq' = Tail(uiq))
  /\ Asked(dbq', dbq, series_map_ \cup new_interfaces_queue_)
  /\ series_map_' \cup new_interfaces_queue_' = series_map_ \cup new_interfaces_queue_
  /\ axis_x_'.max - axis_x_'.min = axis_x_.max - axis_x_.min

\* transition_to_live_view asks for the live range if it asks at all.
LEMMA TransitionAsks ==
  ASSUME IInv, TransitionToLiveView
  PROVE  Asked(dbq', dbq, series_map_ \cup new_interfaces_queue_)
<1>1. /\ dbq \in Seq(DbRequests) /\ series_map_ \in SUBSET Interfaces
      /\ now - VisibleWindow \in Int /\ now \in Int
      /\ now - (now - VisibleWindow) <= VisibleWindow
  BY DEF IInv, TypeOK
<1>2. CASE dbq' = dbq
  BY <1>1, <1>2, NothingAsked
<1>3. CASE LoadDataForDisplay(series_map_, now - VisibleWindow, now)
  <2>1. Asked(dbq', dbq, series_map_)
    BY <1>1, <1>3, LoadAsks
  <2> QED  BY <2>1 DEF Asked
<1> QED  BY <1>2, <1>3 DEF TransitionToLiveView

LEMMA QuietSteps ==
  ASSUME IInv, OneWindowLoaded,
         \/ IgnoreStaleSnapshots \/ OnDatabaseReady \/ OnInitializationFailed
         \/ ProcessNewInterfaces \/ SnapBackToLiveView \/ User \/ UNCHANGED vars
  PROVE  Quiet
<1> USE DEF collectorVars, storeVars, uiVars, seriesVars, newVars, loadVars,
            viewVars, chartVars, isolationVars
<1> DEFINE known == series_map_ \cup new_interfaces_queue_
<1>1. /\ dbq \in Seq(DbRequests) /\ series_map_ \in SUBSET Interfaces
      /\ known \in SUBSET Interfaces
      /\ now \in Int /\ now - VisibleWindow \in Int
      /\ now - (now - VisibleWindow) <= VisibleWindow
      /\ axis_x_.min \in Int /\ axis_x_.max \in Int
  BY DEF IInv, TypeOK
<1>2. Asked(dbq, dbq, known)
  BY <1>1, NothingAsked
<1>3. CASE IgnoreStaleSnapshots
  BY <1>2, <1>3 DEF IgnoreStaleSnapshots, NextEvent, Quiet
<1>4. CASE OnDatabaseReady
  BY <1>4, TransitionAsks DEF OnDatabaseReady, NextEvent, Quiet
<1>5. CASE OnInitializationFailed
  BY <1>2, <1>5 DEF OnInitializationFailed, NextEvent, Quiet
<1>6. CASE ProcessNewInterfaces
  <2>1. /\ UNCHANGED <<now, initialized, db_open, rows, open_sample, points, last_stats, uiq, axis_x_>>
        /\ \/ UNCHANGED <<series_map_, new_interfaces_queue_, dbq>>
           \/ /\ series_map_' = known
              /\ new_interfaces_queue_' = {}
              /\ LoadDataForDisplay(known, now - VisibleWindow, now)
    BY <1>6 DEF ProcessNewInterfaces, AddSeriesForInterfaces
  <2>2. series_map_' \cup new_interfaces_queue_' = known
    BY <2>1
  <2>3. Asked(dbq', dbq, known)
    <3> HIDE DEF known
    <3>1. CASE dbq' = dbq
      BY <1>2, <3>1
    <3>2. CASE LoadDataForDisplay(known, now - VisibleWindow, now)
      BY <1>1, <3>2, LoadAsks
    <3> QED  BY <2>1, <3>1, <3>2
  <2> QED  BY <2>1, <2>2, <2>3 DEF Quiet
<1>7. CASE SnapBackToLiveView
  BY <1>7, TransitionAsks DEF SnapBackToLiveView, Quiet
<1>8. CASE MouseRelease
  <2>1. LoadDataForDisplay(series_map_, axis_x_.min, axis_x_.max)
    BY <1>8 DEF MouseRelease, OnInteractionFinished
  <2>2. axis_x_.max - axis_x_.min <= VisibleWindow
    BY DEF OneWindowLoaded
  <2>3. Asked(dbq', dbq, series_map_)
    BY <1>1, <2>1, <2>2, LoadAsks
  <2>4. Asked(dbq', dbq, known)
    BY <2>3 DEF Asked
  <2> QED  BY <1>8, <2>4 DEF MouseRelease, Quiet
<1>9. CASE MouseMove
  <2>1. PICK d \in DragSteps :
          axis_x_' = [min |-> axis_x_.min + d, max |-> axis_x_.max + d]
    BY <1>9 DEF MouseMove
  <2>2. axis_x_'.max - axis_x_'.min = axis_x_.max - axis_x_.min
    <3>1. d \in Int
      OBVIOUS
    <3> QED  BY <1>1, <2>1, <3>1
  <2> QED  BY <1>2, <1>9, <2>2 DEF MouseMove, Quiet
<1>10. CASE MousePress \/ ToggleSeriesVisibility \/ DismissErrorBox
            \/ QuitApplication \/ UNCHANGED vars
  BY <1>2, <1>10 DEF MousePress, ToggleSeriesVisibility, DismissErrorBox,
                     QuitApplication, vars, Quiet
<1> QED  BY <1>3, <1>4, <1>5, <1>6, <1>7, <1>8, <1>9, <1>10 DEF User

-----------------------------------------------------------------------------
\* Every step keeps the order of the samples.

\* The fields of the events under way.
LEMMA ElementFields ==
  ASSUME IInv
  PROVE  /\ \A e \in Of(dbq, "add") :
              e \in DbRequests /\ e.type = "add" /\ e.stats \in SUBSET Interfaces
              /\ e.ts \in Nat /\ e.ts <= now
         /\ \A e \in Of(dbq, "get") :
              e.type = "get" /\ e.name \in Interfaces
              /\ e.start \in Int /\ e.end \in Int
         /\ \A e \in Of(uiq, "stats") :
              e.type = "stats" /\ e.stats \in SUBSET Interfaces
              /\ e.ts \in Nat /\ e.ts <= now
         /\ \A e \in Of(uiq, "snapshots") :
              e.type = "snapshots" /\ e.name \in Interfaces
              /\ e.data \in SUBSET Nat /\ \A t \in e.data : t <= now
<1>1. /\ dbq \in Seq(DbRequests) /\ uiq \in Seq(UiEvents)
      /\ RequestsPast(dbq, now) /\ EventsPast(uiq, now)
  BY DEF IInv, TypeOK, NothingFromTheFuture
<1>2. ASSUME NEW type, NEW e \in Of(dbq, type)
      PROVE  e \in DbRequests /\ e.type = type /\ RequestIsPast(e, now)
  BY <1>1, OfPositions DEF RequestsPast
<1>3. ASSUME NEW type, NEW e \in Of(uiq, type)
      PROVE  e \in UiEvents /\ e.type = type /\ EventIsPast(e, now)
  BY <1>1, OfPositions DEF EventsPast
<1>4. ASSUME NEW e \in Of(dbq, "add")
      PROVE  e \in DbRequests /\ e.type = "add" /\ e.stats \in SUBSET Interfaces
             /\ e.ts \in Nat /\ e.ts <= now
  BY <1>2, AddFields DEF RequestIsPast
<1>5. ASSUME NEW e \in Of(dbq, "get")
      PROVE  e.type = "get" /\ e.name \in Interfaces /\ e.start \in Int /\ e.end \in Int
  BY <1>2, GetFields
<1>6. ASSUME NEW e \in Of(uiq, "stats")
      PROVE  e.type = "stats" /\ e.stats \in SUBSET Interfaces
             /\ e.ts \in Nat /\ e.ts <= now
  BY <1>3, StatsFields DEF EventIsPast
<1>7. ASSUME NEW e \in Of(uiq, "snapshots")
      PROVE  e.type = "snapshots" /\ e.name \in Interfaces
             /\ e.data \in SUBSET Nat /\ \A t \in e.data : t <= now
  BY <1>3, ReplyFields DEF EventIsPast
<1> QED  BY <1>4, <1>5, <1>6, <1>7

\* A step that adds no sample, no row and no reply keeps the order.
LEMMA OrderKept ==
  ASSUME IInv, SamplesComeLater, UNCHANGED <<now, last_stats>>,
         \A name \in Interfaces : rows'[name] \subseteq rows[name],
         Of(dbq', "add") \subseteq Of(dbq, "add"),
         Of(uiq', "stats") \subseteq Of(uiq, "stats"),
         Of(uiq', "snapshots") \subseteq Of(uiq, "snapshots"),
         InOrder(uiq')
  PROVE  SamplesComeLater'
<1>1. \A t : SampledAfter(uiq, t) => SampledAfter(uiq', t)
  BY DEF SampledAfter
<1>2. \A name \in Interfaces : \A t \in rows'[name] : SampledAfter(uiq', t)
  BY <1>1 DEF SamplesComeLater
<1>3. \A e \in Of(dbq', "add") : SampledAfter(uiq', e.ts)
  BY <1>1 DEF SamplesComeLater
<1>4. \A e \in Of(uiq', "snapshots") : \A t \in e.data : SampledAfter(uiq', t)
  BY <1>1 DEF SamplesComeLater
<1>5. \A name \in Interfaces : last_stats'[name] # NoTime =>
        SampledAfter(uiq', last_stats'[name]) /\ last_stats'[name] <= now'
  BY <1>1 DEF SamplesComeLater
<1> QED  BY <1>2, <1>3, <1>4, <1>5 DEF SamplesComeLater

LEMMA QuietOrder ==
  ASSUME IInv, SamplesComeLater, Quiet
  PROVE  SamplesComeLater'
<1>1. /\ uiq \in Seq(UiEvents) /\ dbq \in Seq(DbRequests)
      /\ uiq' = uiq \/ (uiq # <<>> /\ uiq' = Tail(uiq))
      /\ UNCHANGED <<now, last_stats, rows>>
      /\ InOrder(uiq)
  BY DEF IInv, TypeOK, Quiet, SamplesComeLater
<1>2. Of(dbq', "add") = Of(dbq, "add")
  BY <1>1, AskedElements DEF Quiet
<1>3. InOrder(uiq') /\ \A type : Of(uiq', type) \subseteq Of(uiq, type)
  BY <1>1, InOrderTail, OfTail
<1> QED  BY <1>1, <1>2, <1>3, OrderKept

\* A new sample is later than all there is.
LEMMA CollectOrder ==
  ASSUME IInv, SamplesComeLater, CollectStats
  PROVE  SamplesComeLater'
<1> PICK d \in Steps, stats \in SUBSET Interfaces :
      /\ now' = now + d
      /\ uiq' = Append(uiq, StatsCollected(stats, now'))
      /\ UNCHANGED <<rows, dbq, last_stats>>
  BY DEF CollectStats, storeVars, seriesVars
<1> DEFINE e == StatsCollected(stats, now')
<1>1. now \in Nat /\ now' \in Nat /\ now < now'
  BY DEF IInv, TypeOK
<1>2. e \in UiEvents /\ e.type = "stats" /\ e.ts = now'
  BY <1>1 DEF StatsCollected, UiEvents
<1> HIDE DEF e
<1>3. uiq \in Seq(UiEvents) /\ uiq' = Append(uiq, e)
  BY DEF IInv, TypeOK, e
<1>4. /\ Of(uiq', "stats") = Of(uiq, "stats") \cup {e}
      /\ Of(uiq', "snapshots") = Of(uiq, "snapshots")
  <2>1. "snapshots" # e.type
    BY <1>2
  <2> QED  BY <1>2, <1>3, <2>1, OfAppend
<1>5. ASSUME NEW t \in Nat, t <= now, SampledAfter(uiq, t)
      PROVE  SampledAfter(uiq', t)
  BY <1>1, <1>2, <1>4, <1>5 DEF SampledAfter
<1>6. InOrder(uiq')
  <2>1. \A s \in Of(uiq, "stats") : s.ts < e.ts
    BY <1>1, <1>2, ElementFields
  <2> QED  BY <1>2, <1>3, <2>1, InOrderAppend DEF SamplesComeLater
<1>7. ASSUME NEW name \in Interfaces, NEW t \in rows[name]
      PROVE  SampledAfter(uiq', t)
  <2>1. t \in Nat /\ t <= now /\ SampledAfter(uiq, t)
    BY DEF IInv, TypeOK, NothingFromTheFuture, RowsPast, SamplesComeLater
  <2> QED  BY <1>5, <2>1
<1>8. ASSUME NEW a \in Of(dbq, "add") PROVE SampledAfter(uiq', a.ts)
  <2>1. a.ts \in Nat /\ a.ts <= now /\ SampledAfter(uiq, a.ts)
    BY ElementFields DEF SamplesComeLater
  <2> QED  BY <1>5, <2>1
<1>9. ASSUME NEW r \in Of(uiq, "snapshots"), NEW t \in r.data
      PROVE  SampledAfter(uiq', t)
  <2>1. t \in Nat /\ t <= now /\ SampledAfter(uiq, t)
    BY ElementFields DEF SamplesComeLater
  <2> QED  BY <1>5, <2>1
<1>10. ASSUME NEW name \in Interfaces, last_stats[name] # NoTime
       PROVE  SampledAfter(uiq', last_stats[name]) /\ last_stats[name] <= now'
  <2>1. last_stats[name] \in Nat
    BY <1>10 DEF IInv, TypeOK
  <2>2. last_stats[name] <= now /\ SampledAfter(uiq, last_stats[name])
    BY <1>10 DEF SamplesComeLater
  <2> QED  BY <1>1, <1>5, <2>1, <2>2
<1> QED  BY <1>4, <1>6, <1>7, <1>8, <1>9, <1>10 DEF SamplesComeLater

\* Pruning only removes rows.
LEMMA InitializeOrder ==
  ASSUME IInv, SamplesComeLater, Initialize
  PROVE  SamplesComeLater'
<1>1. PICK e \in {DatabaseReady, InitializationFailed} : uiq' = Append(uiq, e)
  BY DEF Initialize
<1>2. /\ e \in UiEvents /\ "stats" # e.type /\ "snapshots" # e.type
      /\ uiq \in Seq(UiEvents)
  BY DEF UiEvents, DatabaseReady, InitializationFailed, IInv, TypeOK
<1>3. UNCHANGED <<now, dbq, last_stats>>
  BY DEF Initialize, collectorVars, uiVars, seriesVars
<1>4. \A name \in Interfaces : rows'[name] \subseteq rows[name]
  BY DEF Initialize, PruneOldData
<1>5. Of(uiq', "stats") = Of(uiq, "stats") /\ Of(uiq', "snapshots") = Of(uiq, "snapshots")
  BY <1>1, <1>2, OfAppend
<1>6. InOrder(uiq')
  BY <1>1, <1>2, InOrderAppend DEF SamplesComeLater
<1> QED  BY <1>3, <1>4, <1>5, <1>6, OrderKept

\* A stored sample was handled before those under way.
LEMMA AddSnapshotsOrder ==
  ASSUME IInv, SamplesComeLater, AddSnapshots
  PROVE  SamplesComeLater'
<1> DEFINE e == Head(dbq)
<1>1. dbq \in Seq(DbRequests) /\ dbq # <<>> /\ e.type = "add"
  BY DEF IInv, TypeOK, AddSnapshots, NextRequest
<1>2. dbq' = Tail(dbq) /\ UNCHANGED <<now, uiq, last_stats>>
  BY DEF AddSnapshots, collectorVars, uiVars, seriesVars
<1>3. \A name \in Interfaces : rows'[name] \subseteq rows[name] \cup {e.ts}
  BY DEF AddSnapshots
<1>4. e \in Of(dbq, "add") /\ Of(dbq', "add") \subseteq Of(dbq, "add")
  BY <1>1, <1>2, OfTail
<1> HIDE DEF e
<1>5. \A name \in Interfaces : \A t \in rows'[name] : SampledAfter(uiq, t)
  BY <1>3, <1>4 DEF SamplesComeLater
<1> QED  BY <1>2, <1>4, <1>5 DEF SamplesComeLater

\* A transaction that is rolled back adds nothing.
LEMMA FailedStatementOrder ==
  ASSUME IInv, SamplesComeLater, FailedStatement
  PROVE  SamplesComeLater'
<1>1. /\ UNCHANGED <<now, last_stats, dbq, uiq>>
      /\ \A name \in Interfaces : rows'[name] \subseteq rows[name]
  BY DEF FailedStatement, collectorVars, uiVars, seriesVars
<1> QED  BY <1>1, OrderKept DEF SamplesComeLater

\* What serving a query does to the queues.
LEMMA GetSnapshotsEffect ==
  ASSUME IInv, OneWindowLoaded, GetSnapshotsInRange
  PROVE  /\ dbq \in Seq(DbRequests) /\ dbq # <<>> /\ Head(dbq).type = "get"
         /\ dbq' = Tail(dbq)
         /\ initialized
         /\ UNCHANGED <<now, initialized, db_open, rows, open_sample, series_map_, points,
                        last_stats, new_interfaces_queue_, axis_x_>>
         /\ Of(dbq', "add") = Of(dbq, "add")
         /\ Of(dbq', "get") \subseteq Of(dbq, "get")
         /\ \E r \in UiEvents :
              /\ r.type = "snapshots" /\ r.name \in Interfaces
              /\ r.data \subseteq rows[r.name] /\ Narrow(r.data)
              /\ uiq \in Seq(UiEvents) /\ uiq' = Append(uiq, r)
              /\ Of(uiq', "stats") = Of(uiq, "stats")
              /\ Of(uiq', "snapshots") = Of(uiq, "snapshots") \cup {r}
<1> DEFINE h == Head(dbq)
<1>1. /\ dbq \in Seq(DbRequests) /\ dbq # <<>> /\ h.type = "get" /\ initialized
      /\ uiq \in Seq(UiEvents) /\ rows \in [Interfaces -> SUBSET Nat]
  BY DEF IInv, TypeOK, GetSnapshotsInRange, NextRequest
<1>2. PICK data \in FoundRows(h.name, h.start, h.end) :
        uiq' = Append(uiq, SnapshotsReady(h.id, h.name, data))
  BY DEF GetSnapshotsInRange
<1>3. /\ dbq' = Tail(dbq)
      /\ UNCHANGED <<now, initialized, db_open, rows, open_sample, series_map_, points,
                     last_stats, new_interfaces_queue_, axis_x_>>
  BY DEF GetSnapshotsInRange, collectorVars, storeVars, uiVars, seriesVars, newVars
<1>4. /\ h \in Of(dbq, "get") /\ Of(dbq', "add") = Of(dbq, "add")
      /\ Of(dbq', "get") \subseteq Of(dbq, "get") /\ h.id \in Nat
  <2>1. "add" # h.type
    BY <1>1
  <2> QED  BY <1>1, <1>3, <2>1, OfTail, TailElements, GetFields
<1> HIDE DEF h
<1>5. /\ h.name \in Interfaces /\ h.start \in Int /\ h.end \in Int
      /\ h.end - h.start <= VisibleWindow
  BY <1>4, ElementFields DEF OneWindowLoaded
<1>6. data \subseteq rows[h.name] /\ Narrow(data)
  BY <1>1, <1>5, FoundRowsNarrow
<1> DEFINE r == SnapshotsReady(h.id, h.name, data)
<1>7. r \in UiEvents /\ r.type = "snapshots" /\ r.name = h.name /\ r.data = data
  <2>1. data \in SUBSET Nat
    BY <1>1, <1>5, <1>6
  <2> QED  BY <1>4, <1>5, <2>1 DEF SnapshotsReady, UiEvents
<1>8. uiq' = Append(uiq, r)
  BY <1>2
<1> HIDE DEF r
<1>9. /\ Of(uiq', "stats") = Of(uiq, "stats")
      /\ Of(uiq', "snapshots") = Of(uiq, "snapshots") \cup {r}
  <2>1. "stats" # r.type
    BY <1>7
  <2> QED  BY <1>1, <1>7, <1>8, <2>1, OfAppend
<1>10. /\ r.name \in Interfaces /\ r.data \subseteq rows[r.name] /\ Narrow(r.data)
  BY <1>5, <1>6, <1>7
<1> QED  BY <1>1, <1>3, <1>4, <1>7, <1>8, <1>9, <1>10 DEF h

\* A reply holds stored rows, which were handled before the samples under way.
LEMMA GetSnapshotsOrder ==
  ASSUME IInv, SamplesComeLater, OneWindowLoaded, GetSnapshotsInRange
  PROVE  SamplesComeLater'
<1>1. PICK r \in UiEvents :
        /\ r.type = "snapshots" /\ r.name \in Interfaces
        /\ r.data \subseteq rows[r.name]
        /\ uiq \in Seq(UiEvents) /\ uiq' = Append(uiq, r)
        /\ Of(uiq', "stats") = Of(uiq, "stats")
        /\ Of(uiq', "snapshots") = Of(uiq, "snapshots") \cup {r}
  BY GetSnapshotsEffect
<1>2. UNCHANGED <<now, rows, last_stats>> /\ Of(dbq', "add") = Of(dbq, "add")
  BY GetSnapshotsEffect
<1>3. InOrder(uiq')
  BY <1>1, InOrderAppend DEF SamplesComeLater
<1>4. \A t : SampledAfter(uiq', t) <=> SampledAfter(uiq, t)
  BY <1>1 DEF SampledAfter
<1>5. \A t \in r.data : SampledAfter(uiq', t)
  BY <1>1, <1>4 DEF SamplesComeLater
<1>6. \A e \in Of(uiq', "snapshots") : \A t \in e.data : SampledAfter(uiq', t)
  BY <1>1, <1>4, <1>5 DEF SamplesComeLater
<1> QED  BY <1>2, <1>3, <1>4, <1>6 DEF SamplesComeLater

\* What the handler of a sample does to the queues and to last_stats.
LEMMA HandleStatsEffect ==
  ASSUME IInv, HandleStatsCollected
  PROVE  LET e == Head(uiq)
         IN /\ e \in Of(uiq, "stats") /\ e.stats \in SUBSET Interfaces
            /\ e.ts \in Nat /\ e.ts <= now
            /\ uiq' = Tail(uiq) /\ uiq # <<>> /\ uiq \in Seq(UiEvents)
            /\ UNCHANGED <<now, initialized, db_open, rows, open_sample, series_map_>>
            /\ dbq \in Seq(DbRequests)
            /\ \/ dbq' = dbq /\ e.stats = {}
               \/ /\ dbq' = Append(dbq, AddRequest(e.stats, e.ts))
                  /\ AddRequest(e.stats, e.ts) \in DbRequests
            /\ new_interfaces_queue_' \subseteq new_interfaces_queue_ \cup e.stats
            /\ \/ UNCHANGED <<points, last_stats, axis_x_>>
               \/ /\ points' = [i \in Interfaces |->
                                  IF i \in Drawn(e.stats)
                                  THEN AppendLive(points[i], last_stats[i], e.ts,
                                                  VisibleWindow)
                                  ELSE points[i]]
                  /\ last_stats' = [i \in Interfaces |->
                                      IF i \in e.stats \cap series_map_ THEN e.ts
                                      ELSE last_stats[i]]
                  /\ axis_x_' = LiveRange(e.ts)
<1> DEFINE e == Head(uiq)
<1>1. uiq \in Seq(UiEvents) /\ uiq # <<>> /\ e.type = "stats"
  BY DEF IInv, TypeOK, HandleStatsCollected, NextEvent
<1>2. e \in Of(uiq, "stats")
  BY <1>1, OfTail
<1>3. e.stats \in SUBSET Interfaces /\ e.ts \in Nat /\ e.ts <= now
  BY <1>2, ElementFields
<1>4. AddRequest(e.stats, e.ts) \in DbRequests
  BY <1>3 DEF AddRequest, DbRequests
<1>5. dbq \in Seq(DbRequests)
  BY DEF IInv, TypeOK
<1>6. \/ dbq' = dbq /\ e.stats = {}
      \/ dbq' = Append(dbq, AddRequest(e.stats, e.ts))
  BY DEF HandleStatsCollected, RequestAddSnapshots
<1>7. /\ uiq' = Tail(uiq)
      /\ UNCHANGED <<now, initialized, db_open, rows, open_sample, series_map_>>
      /\ new_interfaces_queue_' \subseteq new_interfaces_queue_ \cup e.stats
  BY DEF HandleStatsCollected, collectorVars, storeVars
<1>8. \/ UNCHANGED <<points, last_stats, axis_x_>>
      \/ /\ points' = [i \in Interfaces |->
                         IF i \in Drawn(e.stats)
                         THEN AppendLive(points[i], last_stats[i], e.ts, VisibleWindow)
                         ELSE points[i]]
         /\ last_stats' = [i \in Interfaces |->
                             IF i \in e.stats \cap series_map_ THEN e.ts
                             ELSE last_stats[i]]
         /\ axis_x_' = LiveRange(e.ts)
  BY DEF HandleStatsCollected
<1> HIDE DEF e
<1>9. \/ dbq' = dbq /\ e.stats = {}
      \/ /\ dbq' = Append(dbq, AddRequest(e.stats, e.ts))
         /\ AddRequest(e.stats, e.ts) \in DbRequests
  BY <1>4, <1>6
<1> QED  BY <1>1, <1>2, <1>3, <1>5, <1>7, <1>8, <1>9 DEF e

\* The sample that is handled is the first of those under way.
LEMMA HandleStatsOrder ==
  ASSUME IInv, SamplesComeLater, HandleStatsCollected
  PROVE  SamplesComeLater'
<1> PICK e : e = Head(uiq)
  OBVIOUS
<1>1. /\ e \in Of(uiq, "stats") /\ e.type = "stats" /\ e.ts \in Nat /\ e.ts <= now
      /\ uiq' = Tail(uiq) /\ uiq # <<>> /\ uiq \in Seq(UiEvents)
      /\ UNCHANGED <<now, rows>>
      /\ dbq \in Seq(DbRequests)
      /\ \/ dbq' = dbq
         \/ /\ dbq' = Append(dbq, AddRequest(e.stats, e.ts))
            /\ AddRequest(e.stats, e.ts) \in DbRequests
      /\ \/ last_stats' = last_stats
         \/ last_stats' = [i \in Interfaces |->
                             IF i \in e.stats \cap series_map_ THEN e.ts
                             ELSE last_stats[i]]
  BY HandleStatsEffect, ElementFields
<1>2. InOrder(uiq') /\ SampledAfter(uiq', e.ts)
  BY <1>1, InOrderTail DEF SamplesComeLater
<1>3. \A type : Of(uiq', type) \subseteq Of(uiq, type)
  BY <1>1, OfTail
<1>4. \A t : SampledAfter(uiq, t) => SampledAfter(uiq', t)
  BY <1>3 DEF SampledAfter
<1>5. ASSUME NEW a \in Of(dbq', "add")
      PROVE  a \in Of(dbq, "add") \/ a.ts = e.ts
  <2> DEFINE r == AddRequest(e.stats, e.ts)
  <2>1. r.type = "add" /\ r.ts = e.ts
    BY DEF AddRequest
  <2>2. dbq' = dbq \/ (dbq' = Append(dbq, r) /\ r \in DbRequests)
    BY <1>1
  <2> HIDE DEF r
  <2>3. CASE dbq' = Append(dbq, r) /\ r \in DbRequests
    <3>1. dbq \in Seq(DbRequests)
      BY <1>1
    <3>2. Of(Append(dbq, r), r.type) = Of(dbq, r.type) \cup {r}
      BY ONLY <2>3, <3>1, OfAppend
    <3> QED  BY <2>1, <2>3, <3>2
  <2> QED  BY <2>2, <2>3
<1>6. \A name \in Interfaces : \A t \in rows'[name] : SampledAfter(uiq', t)
  BY <1>1, <1>4 DEF SamplesComeLater
<1>7. \A a \in Of(dbq', "add") : SampledAfter(uiq', a.ts)
  BY <1>2, <1>4, <1>5 DEF SamplesComeLater
<1>8. \A r \in Of(uiq', "snapshots") : \A t \in r.data : SampledAfter(uiq', t)
  BY <1>3, <1>4 DEF SamplesComeLater
<1>9. ASSUME NEW name \in Interfaces, last_stats'[name] # NoTime
      PROVE  SampledAfter(uiq', last_stats'[name]) /\ last_stats'[name] <= now'
  <2>1. last_stats'[name] = e.ts \/ last_stats'[name] = last_stats[name]
    BY <1>1
  <2> QED  BY <1>1, <1>2, <1>4, <1>9, <2>1 DEF SamplesComeLater
<1> QED  BY <1>2, <1>6, <1>7, <1>8, <1>9 DEF SamplesComeLater

\* What the handler of a reply does to the queue and the series.
LEMMA HandleSnapshotsEffect ==
  ASSUME IInv, HandleSnapshotsLoaded
  PROVE  LET e == Head(uiq)
         IN /\ e \in Of(uiq, "snapshots") /\ e.name \in Interfaces
            /\ e.data \in SUBSET Nat /\ \A t \in e.data : t <= now
            /\ uiq' = Tail(uiq) /\ uiq # <<>> /\ uiq \in Seq(UiEvents)
            /\ UNCHANGED <<now, initialized, db_open, rows, open_sample, dbq, series_map_,
                           new_interfaces_queue_, isolated_interface_name_>>
            /\ axis_x_' \in {axis_x_, LiveRange(now)}
            /\ \/ UNCHANGED <<points, last_stats>>
               \/ /\ points' = [points EXCEPT ![e.name] = LoadedPoints(e.data)]
                  /\ last_stats' =
                       IF Cardinality(e.data) >= 2
                       THEN [last_stats EXCEPT ![e.name] = Max(e.data)]
                       ELSE last_stats
<1> DEFINE e == Head(uiq)
<1>1. uiq \in Seq(UiEvents) /\ uiq # <<>> /\ e.type = "snapshots"
  BY DEF IInv, TypeOK, HandleSnapshotsLoaded, NextEvent
<1>2. e \in Of(uiq, "snapshots")
  BY <1>1, OfTail
<1>3. e.name \in Interfaces /\ e.data \in SUBSET Nat /\ \A t \in e.data : t <= now
  BY <1>2, ElementFields
<1>4. /\ uiq' = Tail(uiq)
      /\ UNCHANGED <<now, initialized, db_open, rows, open_sample, dbq, series_map_,
                     new_interfaces_queue_, isolated_interface_name_>>
  BY DEF HandleSnapshotsLoaded, collectorVars, storeVars, newVars
<1>5. axis_x_' \in {axis_x_, LiveRange(now)}
  BY DEF HandleSnapshotsLoaded, ProcessLoadedDataBatch
<1>6. \/ UNCHANGED <<points, last_stats>>
      \/ /\ points' = [points EXCEPT ![e.name] = LoadedPoints(e.data)]
         /\ last_stats' = IF Cardinality(e.data) >= 2
                          THEN [last_stats EXCEPT ![e.name] = Max(e.data)]
                          ELSE last_stats
  BY DEF HandleSnapshotsLoaded, SeriesAfterLoad, LastStatsAfterLoad
<1> HIDE DEF e
<1> QED  BY <1>1, <1>2, <1>3, <1>4, <1>5, <1>6 DEF e

\* The last snapshot of a reply was handled before the samples under way.
LEMMA HandleSnapshotsOrder ==
  ASSUME IInv, SamplesComeLater, HandleSnapshotsLoaded
  PROVE  SamplesComeLater'
<1> PICK e : e = Head(uiq)
  OBVIOUS
<1>1. /\ e \in Of(uiq, "snapshots") /\ e.name \in Interfaces
      /\ e.data \in SUBSET Nat /\ \A t \in e.data : t <= now
      /\ uiq' = Tail(uiq) /\ uiq # <<>> /\ uiq \in Seq(UiEvents)
      /\ UNCHANGED <<now, rows, dbq>>
      /\ \/ last_stats' = last_stats
         \/ /\ Cardinality(e.data) >= 2
            /\ last_stats' = [last_stats EXCEPT ![e.name] = Max(e.data)]
  BY HandleSnapshotsEffect
<1>2. /\ now \in Nat /\ last_stats \in [Interfaces -> Nat \cup {NoTime}]
  BY DEF IInv, TypeOK
<1>3. InOrder(uiq')
  BY <1>1, InOrderTail DEF SamplesComeLater
<1>4. \A type : Of(uiq', type) \subseteq Of(uiq, type)
  BY <1>1, OfTail
<1>5. \A t : SampledAfter(uiq, t) => SampledAfter(uiq', t)
  BY <1>4 DEF SampledAfter
<1>6. \A name \in Interfaces : \A t \in rows'[name] : SampledAfter(uiq', t)
  BY <1>1, <1>5 DEF SamplesComeLater
<1>7. \A a \in Of(dbq', "add") : SampledAfter(uiq', a.ts)
  BY <1>1, <1>5 DEF SamplesComeLater
<1>8. \A r \in Of(uiq', "snapshots") : \A t \in r.data : SampledAfter(uiq', t)
  BY <1>4, <1>5 DEF SamplesComeLater
<1>9. ASSUME NEW name \in Interfaces, last_stats'[name] # NoTime
      PROVE  SampledAfter(uiq', last_stats'[name]) /\ last_stats'[name] <= now'
  <2>1. CASE last_stats'[name] = last_stats[name]
    BY <1>1, <1>5, <1>9, <2>1 DEF SamplesComeLater
  <2>2. CASE Cardinality(e.data) >= 2 /\ last_stats'[name] = Max(e.data)
    <3>1. e.data # {}
      BY <2>2, FS_EmptySet
    <3>2. Max(e.data) \in e.data
      BY <1>1, <1>2, <3>1, MaxNatural
    <3> QED  BY <1>1, <1>5, <2>2, <3>2 DEF SamplesComeLater
  <2> QED  BY <1>1, <1>2, <2>1, <2>2
<1> QED  BY <1>3, <1>6, <1>7, <1>8, <1>9 DEF SamplesComeLater

-----------------------------------------------------------------------------
\* Every step keeps the series connected.

LEMMA NothingConnected ==
  ASSUME NEW last
  PROVE  Connected(MeasuredIn({}), last) /\ Compact({}, last)
BY DEF MeasuredIn, Connected, Apart, Linked, Compact, Far

LEMMA ConnectedKept ==
  ASSUME SeriesConnected, UNCHANGED <<points, last_stats>>
  PROVE  SeriesConnected'
BY DEF SeriesConnected

\* A live point starts where the series ends and ends at the new sample.
LEMMA HandleStatsConnected ==
  ASSUME IInv, SamplesComeLater, SeriesConnected, HandleStatsCollected
  PROVE  SeriesConnected'
<1> PICK e : e = Head(uiq)
  OBVIOUS
<1>1. /\ e \in Of(uiq, "stats") /\ e.ts \in Nat /\ e.stats \in SUBSET Interfaces
      /\ \/ UNCHANGED <<points, last_stats>>
         \/ /\ points' = [i \in Interfaces |->
                            IF i \in Drawn(e.stats)
                            THEN AppendLive(points[i], last_stats[i], e.ts, VisibleWindow)
                            ELSE points[i]]
            /\ last_stats' = [i \in Interfaces |->
                                IF i \in e.stats \cap series_map_ THEN e.ts
                                ELSE last_stats[i]]
  BY HandleStatsEffect
<1>2. CASE UNCHANGED <<points, last_stats>>
  BY <1>2, ConnectedKept
<1>3. CASE ~UNCHANGED <<points, last_stats>>
  <2> SUFFICES ASSUME NEW name \in Interfaces
               PROVE  /\ Connected(MeasuredIn(points'[name]), last_stats'[name])
                      /\ Compact(points'[name], last_stats'[name])
    BY DEF SeriesConnected
  <2>1. /\ points[name] \in SUBSET [from : Nat, x : Nat]
        /\ last_stats[name] \in Nat \cup {NoTime}
        /\ Connected(MeasuredIn(points[name]), last_stats[name])
        /\ Compact(points[name], last_stats[name])
    BY DEF IInv, TypeOK, SeriesConnected
  <2>2. /\ points'[name] = IF name \in Drawn(e.stats)
                           THEN AppendLive(points[name], last_stats[name], e.ts,
                                           VisibleWindow)
                           ELSE points[name]
        /\ last_stats'[name] = IF name \in e.stats \cap series_map_ THEN e.ts
                               ELSE last_stats[name]
    BY <1>1, <1>3
  <2>3. CASE name \in Drawn(e.stats)
    <3>1. last_stats[name] \in Nat /\ name \in e.stats \cap series_map_
      BY <2>1, <2>3 DEF Drawn
    <3>2. last_stats[name] < e.ts
      BY <1>1, <3>1 DEF SamplesComeLater, SampledAfter
    <3> QED  BY <1>1, <2>1, <2>2, <2>3, <3>1, <3>2,
             AppendLiveConnected, AppendLiveCompact
  <2>4. CASE name \notin Drawn(e.stats) /\ name \in e.stats \cap series_map_
    <3>1. last_stats[name] = NoTime
      BY <2>4 DEF Drawn
    <3>2. points[name] = {}
      BY <2>1, <3>1 DEF Compact
    <3> QED  BY <2>2, <2>4, <3>2, NothingConnected
  <2>5. CASE name \notin Drawn(e.stats) /\ name \notin e.stats \cap series_map_
    BY <2>1, <2>2, <2>5
  <2> QED  BY <2>3, <2>4, <2>5
<1> QED  BY <1>2, <1>3

\* A reply replaces the series and moves its end, or leaves nothing measured.
LEMMA HandleSnapshotsConnected ==
  ASSUME IInv, OneWindowLoaded, SeriesConnected, HandleSnapshotsLoaded
  PROVE  SeriesConnected'
<1> PICK e : e = Head(uiq)
  OBVIOUS
<1>1. /\ e \in Of(uiq, "snapshots") /\ e.name \in Interfaces
      /\ e.data \in SUBSET Nat /\ \A t \in e.data : t <= now
      /\ \/ UNCHANGED <<points, last_stats>>
         \/ /\ points' = [points EXCEPT ![e.name] = LoadedPoints(e.data)]
            /\ last_stats' = IF Cardinality(e.data) >= 2
                             THEN [last_stats EXCEPT ![e.name] = Max(e.data)]
                             ELSE last_stats
  BY HandleSnapshotsEffect
<1>2. CASE UNCHANGED <<points, last_stats>>
  BY <1>2, ConnectedKept
<1>3. CASE ~UNCHANGED <<points, last_stats>>
  <2>1. /\ Cardinality(e.data) >= 2 =>
             /\ Connected(MeasuredIn(LoadedPoints(e.data)), Max(e.data))
             /\ Compact(LoadedPoints(e.data), Max(e.data))
        /\ ~(Cardinality(e.data) >= 2) => LoadedPoints(e.data) = {}
    <3>1. Narrow(e.data) /\ now \in Nat
      BY <1>1 DEF OneWindowLoaded, IInv, TypeOK
    <3> QED  BY <1>1, <3>1, LoadedConnected, LoadedCompact, LoadedNothing
  <2> SUFFICES ASSUME NEW name \in Interfaces
               PROVE  /\ Connected(MeasuredIn(points'[name]), last_stats'[name])
                      /\ Compact(points'[name], last_stats'[name])
    BY DEF SeriesConnected
  <2>2. /\ DOMAIN points = Interfaces /\ DOMAIN last_stats = Interfaces
        /\ Connected(MeasuredIn(points[name]), last_stats[name])
        /\ Compact(points[name], last_stats[name])
    BY DEF IInv, TypeOK, SeriesConnected
  <2>3. CASE name # e.name
    BY <1>1, <1>3, <2>2, <2>3
  <2>4. CASE name = e.name
    <3>1. points'[name] = LoadedPoints(e.data)
      BY <1>1, <1>3, <2>2, <2>4
    <3>2. CASE Cardinality(e.data) >= 2
      <4>1. last_stats'[name] = Max(e.data)
        BY <1>1, <1>3, <2>2, <2>4, <3>2
      <4> QED  BY <2>1, <3>1, <3>2, <4>1
    <3>3. CASE ~(Cardinality(e.data) >= 2)
      BY <2>1, <3>1, <3>3, NothingConnected
    <3> QED  BY <3>2, <3>3
  <2> QED  BY <2>3, <2>4
<1> QED  BY <1>2, <1>3

-----------------------------------------------------------------------------
\* Every load covers one window.

\* A step that posts no wider query and no wider reply keeps loads narrow.
LEMMA WindowKept ==
  ASSUME OneWindowLoaded,
         axis_x_'.max - axis_x_'.min <= VisibleWindow,
         \A e \in Of(dbq', "get") :
           e \in Of(dbq, "get") \/ e.end - e.start <= VisibleWindow,
         \A e \in Of(uiq', "snapshots") :
           e \in Of(uiq, "snapshots") \/ Narrow(e.data)
  PROVE  OneWindowLoaded'
BY DEF OneWindowLoaded

\* The axis shows at most one window, is moved by it, and a reply to a query
\* for a window holds no more.
LEMMA WindowStep ==
  ASSUME IInv, OneWindowLoaded, [Next]_vars
  PROVE  OneWindowLoaded'
<1>1. /\ dbq \in Seq(DbRequests) /\ uiq \in Seq(UiEvents) /\ now \in Nat
      /\ axis_x_.max - axis_x_.min <= VisibleWindow
  BY DEF IInv, TypeOK, OneWindowLoaded
<1>2. ASSUME NEW t \in Nat
      PROVE  LiveRange(t).max - LiveRange(t).min <= VisibleWindow
  BY DEF LiveRange
<1>3. CASE Quiet
  <2>1. \A type : Of(uiq', type) \subseteq Of(uiq, type)
    BY <1>1, <1>3, OfTail DEF Quiet
  <2>2. \A e \in Of(dbq', "get") :
          e \in Of(dbq, "get") \/ e.end - e.start <= VisibleWindow
    BY <1>1, <1>3, AskedElements DEF Quiet
  <2>3. axis_x_'.max - axis_x_'.min <= VisibleWindow
    BY <1>1, <1>3 DEF Quiet
  <2> QED  BY <2>1, <2>2, <2>3, WindowKept
<1>4. CASE CollectStats
  <2>1. PICK d \in Steps, stats \in SUBSET Interfaces :
          /\ now' = now + d
          /\ uiq' = Append(uiq, StatsCollected(stats, now'))
          /\ UNCHANGED <<dbq, axis_x_>>
    BY <1>4 DEF CollectStats
  <2> DEFINE e == StatsCollected(stats, now')
  <2>2. now' \in Nat
    BY <1>1, <2>1
  <2>3. e \in UiEvents /\ "snapshots" # e.type
    BY <2>2 DEF StatsCollected, UiEvents
  <2>4. uiq' = Append(uiq, e)
    BY <2>1
  <2> HIDE DEF e
  <2>5. Of(uiq', "snapshots") = Of(uiq, "snapshots")
    BY <1>1, <2>3, <2>4, OfAppend
  <2> QED  BY <1>1, <2>1, <2>5, WindowKept
<1>5. CASE Initialize
  <2>1. PICK e \in {DatabaseReady, InitializationFailed} : uiq' = Append(uiq, e)
    BY <1>5 DEF Initialize
  <2>2. e \in UiEvents /\ "snapshots" # e.type
    BY DEF UiEvents, DatabaseReady, InitializationFailed
  <2>3. Of(uiq', "snapshots") = Of(uiq, "snapshots")
    BY <1>1, <2>1, <2>2, OfAppend
  <2>4. UNCHANGED <<dbq, axis_x_>>
    BY <1>5 DEF Initialize, uiVars
  <2> QED  BY <1>1, <2>3, <2>4, WindowKept
<1>6. CASE AddSnapshots
  <2>1. dbq # <<>> /\ dbq' = Tail(dbq) /\ UNCHANGED <<uiq, axis_x_>>
    BY <1>6 DEF AddSnapshots, NextRequest, uiVars
  <2>2. Of(dbq', "get") \subseteq Of(dbq, "get")
    BY <1>1, <2>1, OfTail
  <2> QED  BY <1>1, <2>1, <2>2, WindowKept
<1>7. CASE GetSnapshotsInRange
  <2>1. PICK r \in UiEvents :
          Narrow(r.data) /\ Of(uiq', "snapshots") = Of(uiq, "snapshots") \cup {r}
    BY <1>7, GetSnapshotsEffect
  <2>2. Of(dbq', "get") \subseteq Of(dbq, "get") /\ UNCHANGED axis_x_
    BY <1>7, GetSnapshotsEffect
  <2> QED  BY <1>1, <2>1, <2>2, WindowKept
<1>8. CASE HandleStatsCollected
  <2> PICK e : e = Head(uiq)
    OBVIOUS
  <2>1. /\ uiq' = Tail(uiq) /\ uiq # <<>> /\ e.ts \in Nat
        /\ \/ dbq' = dbq
           \/ /\ dbq' = Append(dbq, AddRequest(e.stats, e.ts))
              /\ AddRequest(e.stats, e.ts) \in DbRequests
        /\ axis_x_' = axis_x_ \/ axis_x_' = LiveRange(e.ts)
    BY <1>8, HandleStatsEffect
  <2>2. Of(uiq', "snapshots") \subseteq Of(uiq, "snapshots")
    BY <1>1, <2>1, OfTail
  <2>3. Of(dbq', "get") = Of(dbq, "get")
    <3> DEFINE r == AddRequest(e.stats, e.ts)
    <3>1. "get" # r.type
      BY DEF AddRequest
    <3>2. dbq' = dbq \/ (dbq' = Append(dbq, r) /\ r \in DbRequests)
      BY <2>1
    <3> HIDE DEF r
    <3>3. CASE dbq' = Append(dbq, r) /\ r \in DbRequests
      <4>1. dbq \in Seq(DbRequests)
        BY <1>1
      <4>2. Of(Append(dbq, r), "get") = Of(dbq, "get")
        BY ONLY <3>1, <3>3, <4>1, OfAppend
      <4> QED  BY <3>3, <4>2
    <3> QED  BY <3>2, <3>3
  <2>4. axis_x_'.max - axis_x_'.min <= VisibleWindow
    BY <1>1, <1>2, <2>1
  <2> QED  BY <2>2, <2>3, <2>4, WindowKept
<1>9. CASE HandleSnapshotsLoaded
  <2>1. /\ uiq' = Tail(uiq) /\ uiq # <<>> /\ dbq' = dbq
        /\ axis_x_' \in {axis_x_, LiveRange(now)}
    BY <1>9, HandleSnapshotsEffect
  <2>2. Of(uiq', "snapshots") \subseteq Of(uiq, "snapshots")
    BY <1>1, <2>1, OfTail
  <2>3. axis_x_'.max - axis_x_'.min <= VisibleWindow
    BY <1>1, <1>2, <2>1
  <2> QED  BY <2>1, <2>2, <2>3, WindowKept
<1>10. CASE FailedStatement
  BY <1>1, <1>10, WindowKept DEF FailedStatement, uiVars
<1> QED  BY <1>3, <1>4, <1>5, <1>6, <1>7, <1>8, <1>9, <1>10, QuietSteps
            DEF Next, DatabaseThread, PostedEvents

-----------------------------------------------------------------------------
\* The isolated interface is the one that is shown.

\* Wherever the visuals were updated last.
LEMMA VisibleShown ==
  ASSUME IInv
  PROVE  VisibleIn(series_map_, isolated_interface_name_)
           = IF isolated_interface_name_ = NoInterface THEN series_map_
             ELSE {isolated_interface_name_}
<1>1. isolated_interface_name_ \in series_map_ \cup {NoInterface}
  BY DEF IInv, TypeOK
<1> QED  BY <1>1, Zenon DEF VisibleIn

\* Series are added together with the load whose last reply updates the
\* visuals; until then a reply is awaited.
LEMMA IsolationStep ==
  ASSUME IInv, IInv', IsolationShown, [Next]_vars
  PROVE  IsolationShown'
<1> USE DEF collectorVars, storeVars, uiVars, seriesVars, newVars, loadVars,
            viewVars, chartVars, isolationVars
<1>1. ASSUME UNCHANGED <<series_map_, visible, isolated_interface_name_>>,
             pending_queries_count_' = 0 =>
               pending_queries_count_ = 0 \/ series_map_ = {}
      PROVE  IsolationShown'
  <2>1. CASE pending_queries_count_' = 0 => pending_queries_count_ = 0
    BY <1>1, <2>1 DEF IsolationShown
  <2>2. CASE series_map_ = {}
    <3>1. visible = {} /\ isolated_interface_name_ = NoInterface
      BY <2>2 DEF IInv, TypeOK
    <3> QED  BY <1>1, <2>2, <3>1 DEF IsolationShown
  <2> QED  BY <1>1, <2>1, <2>2
<1>2. ASSUME NEW known \in SUBSET Interfaces, NEW start, NEW end,
             LoadDataForDisplay(known, start, end)
      PROVE  \/ UNCHANGED pending_queries_count_ /\ known = {}
             \/ pending_queries_count_' = Cardinality(known)
  BY <1>2 DEF LoadDataForDisplay, PendingAfterRequest
<1>3. ASSUME NEW known \in SUBSET Interfaces, Cardinality(known) = 0
      PROVE  known = {}
  BY <1>3, FS_Subset, FS_EmptySet
<1>4. series_map_ \in SUBSET Interfaces /\ new_interfaces_queue_ \in SUBSET Interfaces
  BY DEF IInv, TypeOK
<1>5. CASE CollectStats \/ DatabaseThread \/ FailedStatement
  BY <1>1, <1>5 DEF CollectStats, DatabaseThread, Initialize, AddSnapshots,
                    GetSnapshotsInRange, FailedStatement
<1>6. CASE HandleStatsCollected \/ IgnoreStaleSnapshots \/ OnInitializationFailed
  BY <1>1, <1>6 DEF HandleStatsCollected, IgnoreStaleSnapshots, OnInitializationFailed
<1>7. CASE HandleSnapshotsLoaded
  <2>1. /\ UNCHANGED <<series_map_, isolated_interface_name_>>
        /\ pending_queries_count_' <= 0 =>
             visible' = VisibleIn(series_map_, isolated_interface_name_)
    BY <1>7 DEF HandleSnapshotsLoaded, ProcessLoadedDataBatch
  <2> QED  BY <2>1, VisibleShown DEF IsolationShown
<1>8. CASE OnDatabaseReady \/ SnapBackToLiveView
  <2>1. /\ UNCHANGED <<series_map_, visible, isolated_interface_name_>>
        /\ TransitionToLiveView
    BY <1>8 DEF OnDatabaseReady, SnapBackToLiveView
  <2>2. \/ UNCHANGED pending_queries_count_
        \/ pending_queries_count_' = Cardinality(series_map_)
    BY <1>2, <1>4, <2>1 DEF TransitionToLiveView
  <2> QED  BY <1>1, <1>3, <1>4, <2>1, <2>2
<1>9. CASE MouseRelease
  <2>1. /\ UNCHANGED <<series_map_, visible, isolated_interface_name_>>
        /\ LoadDataForDisplay(series_map_, axis_x_.min, axis_x_.max)
    BY <1>9 DEF MouseRelease, OnInteractionFinished
  <2>2. \/ UNCHANGED pending_queries_count_
        \/ pending_queries_count_' = Cardinality(series_map_)
    BY <1>2, <1>4, <2>1
  <2> QED  BY <1>1, <1>3, <1>4, <2>1, <2>2
<1>10. CASE ProcessNewInterfaces
  <2> DEFINE known == series_map_ \cup new_interfaces_queue_
  <2>1. \/ UNCHANGED <<series_map_, visible, pending_queries_count_>>
        \/ /\ new_interfaces_queue_ # {}
           /\ LoadDataForDisplay(known, now - VisibleWindow, now)
    BY <1>10 DEF ProcessNewInterfaces
  <2>2. UNCHANGED isolated_interface_name_
    BY <1>10 DEF ProcessNewInterfaces
  <2>3. CASE UNCHANGED <<series_map_, visible, pending_queries_count_>>
    BY <1>1, <2>2, <2>3
  <2>4. CASE /\ new_interfaces_queue_ # {}
             /\ LoadDataForDisplay(known, now - VisibleWindow, now)
    <3>1. known \in SUBSET Interfaces /\ known # {}
      BY <1>4, <2>4
    <3> HIDE DEF known
    <3>2. pending_queries_count_' = Cardinality(known)
      BY <1>2, <2>4, <3>1
    <3>3. pending_queries_count_' # 0
      BY <1>3, <3>1, <3>2
    <3> QED  BY <3>3 DEF IsolationShown
  <2> QED  BY <2>1, <2>3, <2>4
<1>11. CASE ToggleSeriesVisibility
  <2>1. /\ UNCHANGED series_map_
        /\ visible' = VisibleIn(series_map_, isolated_interface_name_')
        /\ isolated_interface_name_' \in series_map_ \cup {NoInterface}
    BY <1>11 DEF ToggleSeriesVisibility
  <2> QED  BY <2>1 DEF IsolationShown, VisibleIn
<1>12. CASE MousePress \/ MouseMove \/ DismissErrorBox \/ QuitApplication
            \/ UNCHANGED vars
  BY <1>1, <1>12 DEF MousePress, MouseMove, DismissErrorBox, QuitApplication, vars
<1> QED  BY <1>5, <1>6, <1>7, <1>8, <1>9, <1>10, <1>11, <1>12
            DEF Next, PostedEvents, User

-----------------------------------------------------------------------------
\* Nothing that was sampled is lost on its way to the rows.

\* While rows and queued samples only join, what is kept grows.
LEMMA KeptGrows ==
  ASSUME initialized' = initialized,
         NEW name \in Interfaces, rows[name] \subseteq rows'[name],
         Of(dbq, "add") \subseteq Of(dbq', "add")
  PROVE  Kept(name) \subseteq Kept(name)'
<1> DEFINE A == {a \in Of(dbq, "add") : name \in a.stats}
           B == {a \in Of(dbq', "add") : name \in a.stats}
<1>1. A \subseteq B
  OBVIOUS
<1>2. {e.ts : e \in A} \subseteq {e.ts : e \in B}
  BY <1>1
<1> QED  BY <1>2 DEF Kept

\* What is kept of an interface, element by element.
LEMMA KeptMember ==
  ASSUME NEW name, NEW t
  PROVE  t \in Kept(name) <=> \/ initialized /\ t \in rows[name]
                              \/ \E e \in Of(dbq, "add") : name \in e.stats /\ t = e.ts
BY DEF Kept

\* A step that keeps what was kept, and draws, answers and schedules only for
\* what is kept.
LEMMA KeptOn ==
  ASSUME IInv, EverythingKept, ~DbMayFail,
         DatabaseWorks',
         \A name \in Interfaces : Kept(name) \subseteq Kept(name)',
         \A e \in Of(uiq', "snapshots") :
           e \in Of(uiq, "snapshots") \/ e.data \subseteq Kept(e.name)',
         \A name \in Interfaces : last_stats'[name] # NoTime =>
           last_stats'[name] = last_stats[name] \/ last_stats'[name] \in Kept(name)',
         \A name \in Interfaces : \A p \in MeasuredIn(points'[name]) :
           p \in MeasuredIn(points[name]) \/ {p.from, p.x} \subseteq Kept(name)',
         \A name \in series_map_' \cup new_interfaces_queue_' :
           name \in series_map_ \cup new_interfaces_queue_ \/ Kept(name)' # {},
         QueriesFollowSamples'
  PROVE  EverythingKept'
<1>1. /\ \A e \in Of(uiq, "snapshots") : e.name \in Interfaces
      /\ series_map_ \cup new_interfaces_queue_ \subseteq Interfaces
  BY ElementFields DEF IInv, TypeOK
<1>2. /\ \A e \in Of(uiq, "snapshots") : e.data \subseteq Kept(e.name)
      /\ \A name \in Interfaces :
           last_stats[name] # NoTime => last_stats[name] \in Kept(name)
      /\ \A name \in Interfaces : \A p \in MeasuredIn(points[name]) :
           {p.from, p.x} \subseteq Kept(name)
      /\ \A name \in series_map_ \cup new_interfaces_queue_ : Kept(name) # {}
  BY DEF EverythingKept
<1>3. ASSUME NEW e \in Of(uiq', "snapshots") PROVE e.data \subseteq Kept(e.name)'
  BY <1>1, <1>2
<1>4. ASSUME NEW name \in Interfaces, last_stats'[name] # NoTime
      PROVE  last_stats'[name] \in Kept(name)'
  BY <1>2, <1>4
<1>5. ASSUME NEW name \in Interfaces, NEW p \in MeasuredIn(points'[name])
      PROVE  {p.from, p.x} \subseteq Kept(name)'
  BY <1>2
<1>6. ASSUME NEW name \in series_map_' \cup new_interfaces_queue_'
      PROVE  Kept(name)' # {}
  BY <1>1, <1>2
<1> QED  BY <1>3, <1>4, <1>5, <1>6 DEF EverythingKept

\* A query may be posted for an interface with a sample that is kept.
LEMMA QueriesExtended ==
  ASSUME IInv, QueriesFollowSamples,
         Len(dbq) <= Len(dbq'), dbq' \in Seq(DbRequests),
         \A k \in 1..Len(dbq) : dbq'[k] = dbq[k],
         initialized =>
           initialized' /\ \A name \in Interfaces : rows[name] \subseteq rows'[name],
         \A k \in 1..Len(dbq') : k > Len(dbq) /\ dbq'[k].type = "get" =>
           initialized' = initialized /\ Kept(dbq'[k].name) # {}
  PROVE  QueriesFollowSamples'
<1>1. dbq \in Seq(DbRequests) /\ Len(dbq) \in Nat /\ Len(dbq') \in Nat
  BY DEF IInv, TypeOK
<1>2. SUFFICES ASSUME NEW k \in 1..Len(dbq'), dbq'[k].type = "get"
               PROVE  \/ initialized' /\ rows'[dbq'[k].name] # {}
                      \/ \E j \in 1..(k - 1) :
                           dbq'[j].type = "add" /\ dbq'[k].name \in dbq'[j].stats
  BY DEF QueriesFollowSamples, QueryHasRows
<1>3. dbq'[k].name \in Interfaces
  <2>1. dbq'[k] \in DbRequests
    OBVIOUS
  <2> QED  BY <1>2, <2>1, GetFields
<1>4. CASE k \in 1..Len(dbq)
  <2>1. dbq'[k] = dbq[k]
    BY <1>4
  <2>2. \/ initialized /\ rows[dbq[k].name] # {}
        \/ \E j \in 1..(k - 1) :
             dbq[j].type = "add" /\ dbq[k].name \in dbq[j].stats
    BY <1>2, <1>4, <2>1 DEF QueriesFollowSamples, QueryHasRows
  <2>3. \A j \in 1..(k - 1) : dbq'[j] = dbq[j]
    BY <1>1, <1>4
  <2>4. CASE initialized /\ rows[dbq[k].name] # {}
    BY <1>3, <2>1, <2>4
  <2>5. CASE \E j \in 1..(k - 1) :
               dbq[j].type = "add" /\ dbq[k].name \in dbq[j].stats
    BY <2>1, <2>3, <2>5
  <2> QED  BY <2>2, <2>4, <2>5
<1>5. CASE k > Len(dbq)
  <2>1. PICK t : t \in Kept(dbq'[k].name)
    BY <1>2, <1>5
  <2>2. CASE initialized /\ t \in rows[dbq'[k].name]
    BY <1>3, <2>2
  <2>3. CASE \E e \in Of(dbq, "add") : dbq'[k].name \in e.stats
    <3>1. PICK e \in Of(dbq, "add") : dbq'[k].name \in e.stats
      BY <2>3
    <3>2. PICK j \in 1..Len(dbq) : dbq[j] = e /\ e.type = "add"
      BY <1>1, <3>1, OfPositions
    <3>3. j \in 1..(k - 1) /\ dbq'[j] = e
      BY <1>1, <1>5, <3>2
    <3> QED  BY <3>1, <3>2, <3>3
  <2> QED  BY <2>1, <2>2, <2>3, KeptMember
<1> QED  BY <1>1, <1>4, <1>5

\* The sample before a query may be stored, as it leaves a row.
LEMMA QueriesServed ==
  ASSUME IInv, QueriesFollowSamples,
         dbq # <<>>, dbq' = Tail(dbq), initialized',
         \A name \in Interfaces : rows[name] \subseteq rows'[name],
         Head(dbq).type = "add" =>
           \A name \in Head(dbq).stats : rows'[name] # {}
  PROVE  QueriesFollowSamples'
<1> DEFINE c == Tail(dbq)
<1>1. /\ dbq \in Seq(DbRequests) /\ c \in Seq(DbRequests) /\ Head(dbq) = dbq[1]
      /\ Len(c) = Len(dbq) - 1 /\ Len(dbq) \in Nat
      /\ \A k \in 1..(Len(dbq) - 1) : c[k] = dbq[k + 1]
      /\ \A k \in 2..Len(dbq) : dbq[k] = c[k - 1]
  BY TailElements DEF IInv, TypeOK
<1>2. dbq' = c
  OBVIOUS
<1> HIDE DEF c
<1>3. SUFFICES ASSUME NEW k \in 1..Len(c), c[k].type = "get"
               PROVE  \/ rows'[c[k].name] # {}
                      \/ \E j \in 1..(k - 1) :
                           c[j].type = "add" /\ c[k].name \in c[j].stats
  BY <1>2 DEF QueriesFollowSamples, QueryHasRows
<1>4. c[k].name \in Interfaces
  <2>1. c[k] \in DbRequests
    BY <1>1
  <2> QED  BY <1>3, <2>1, GetFields
<1>5. k + 1 \in 1..Len(dbq) /\ c[k] = dbq[k + 1]
  BY <1>1
<1>6. \/ initialized /\ rows[dbq[k + 1].name] # {}
      \/ \E j \in 1..k : dbq[j].type = "add" /\ dbq[k + 1].name \in dbq[j].stats
  BY <1>3, <1>5 DEF QueriesFollowSamples, QueryHasRows
<1>7. CASE rows[dbq[k + 1].name] # {}
  BY <1>4, <1>5, <1>7
<1>8. CASE \E j \in 1..k : dbq[j].type = "add" /\ dbq[k + 1].name \in dbq[j].stats
  <2>1. PICK j \in 1..k : dbq[j].type = "add" /\ dbq[k + 1].name \in dbq[j].stats
    BY <1>8
  <2>2. CASE j = 1
    BY <1>1, <1>5, <2>1, <2>2
  <2>3. CASE j # 1
    <3>1. j - 1 \in 1..(k - 1) /\ j \in 2..Len(dbq)
      BY <1>5, <2>3
    <3>2. dbq[j] = c[j - 1]
      BY <1>1, <3>1
    <3> QED  BY <1>5, <2>1, <3>1, <3>2
  <2> QED  BY <2>2, <2>3
<1> QED  BY <1>6, <1>7, <1>8

LEMMA QuietKept ==
  ASSUME IInv, EverythingKept, ~DbMayFail, Quiet
  PROVE  EverythingKept'
<1>1. /\ UNCHANGED <<initialized, db_open, rows, open_sample, points, last_stats>>
      /\ uiq' = uiq \/ (uiq # <<>> /\ uiq' = Tail(uiq))
      /\ Asked(dbq', dbq, series_map_ \cup new_interfaces_queue_)
      /\ series_map_' \cup new_interfaces_queue_'
           = series_map_ \cup new_interfaces_queue_
  BY DEF Quiet
<1>2. dbq \in Seq(DbRequests) /\ uiq \in Seq(UiEvents)
  BY DEF IInv, TypeOK
<1>3. Of(uiq', "snapshots") \subseteq Of(uiq, "snapshots")
  BY <1>1, <1>2, OfTail
<1>4. Of(dbq', "add") = Of(dbq, "add")
  BY <1>1, <1>2, AskedElements
<1>5. \A name \in Interfaces : Kept(name) \subseteq Kept(name)'
  BY <1>1, <1>4, KeptGrows
<1>6. QueriesFollowSamples'
  <2>1. /\ Len(dbq) <= Len(dbq') /\ dbq' \in Seq(DbRequests)
        /\ \A k \in 1..Len(dbq) : dbq'[k] = dbq[k]
        /\ \A k \in 1..Len(dbq') : k > Len(dbq) =>
             dbq'[k].name \in series_map_ \cup new_interfaces_queue_
    BY <1>1 DEF Asked
  <2>2. \A k \in 1..Len(dbq') : k > Len(dbq) => Kept(dbq'[k].name) # {}
    BY <2>1 DEF EverythingKept
  <2>3. QueriesFollowSamples
    BY DEF EverythingKept
  <2> QED  BY <1>1, <2>1, <2>2, <2>3, QueriesExtended
<1>7. DatabaseWorks'
  BY <1>1 DEF EverythingKept, DatabaseWorks
<1> QED  BY <1>1, <1>3, <1>5, <1>6, <1>7, KeptOn

\* A step of the collector or initialize leaves what is kept alone: pruning
\* removes rows of earlier sessions, which do not count yet.
LEMMA StartKept ==
  ASSUME IInv, EverythingKept, ~DbMayFail, CollectStats \/ Initialize
  PROVE  EverythingKept'
<1>1. UNCHANGED <<dbq, points, last_stats, series_map_, new_interfaces_queue_>>
  BY DEF CollectStats, Initialize, uiVars, seriesVars, newVars
<1>2. Of(uiq', "snapshots") = Of(uiq, "snapshots")
  <2>1. uiq \in Seq(UiEvents) /\ now \in Nat
    BY DEF IInv, TypeOK
  <2>2. \E e \in UiEvents : uiq' = Append(uiq, e) /\ "snapshots" # e.type
    <3>1. CASE CollectStats
      <4>1. PICK d \in Steps, stats \in SUBSET Interfaces :
              now' = now + d /\ uiq' = Append(uiq, StatsCollected(stats, now'))
        BY <3>1 DEF CollectStats
      <4>2. now' \in Nat
        BY <2>1, <4>1
      <4>3. /\ StatsCollected(stats, now') \in UiEvents
            /\ "snapshots" # StatsCollected(stats, now').type
        BY <4>2 DEF StatsCollected, UiEvents
      <4> QED  BY <4>1, <4>3
    <3>2. CASE Initialize
      <4>1. PICK e \in {DatabaseReady, InitializationFailed} : uiq' = Append(uiq, e)
        BY <3>2 DEF Initialize
      <4>2. e \in UiEvents /\ "snapshots" # e.type
        BY DEF UiEvents, DatabaseReady, InitializationFailed
      <4> QED  BY <4>1, <4>2
    <3> QED  BY <3>1, <3>2
  <2>3. PICK e \in UiEvents : uiq' = Append(uiq, e) /\ "snapshots" # e.type
    BY <2>2
  <2>4. Of(Append(uiq, e), "snapshots") = Of(uiq, "snapshots")
    BY ONLY <2>1, <2>3, OfAppend
  <2> QED  BY <2>3, <2>4
<1>3. /\ initialized => initialized' /\ UNCHANGED rows
      /\ DatabaseWorks'
  <2>1. CASE CollectStats
    BY <2>1 DEF CollectStats, storeVars, EverythingKept, DatabaseWorks
  <2>2. CASE Initialize
    BY <2>2 DEF Initialize, EverythingKept, DatabaseWorks
  <2> QED  BY <2>1, <2>2
<1>4. ASSUME NEW name \in Interfaces PROVE Kept(name) \subseteq Kept(name)'
  <2>1. CASE initialized
    <3>1. initialized' = initialized
      BY <1>3, <2>1 DEF IInv, TypeOK, CollectStats, Initialize, storeVars
    <3> QED  BY <1>1, <1>3, <2>1, <3>1, KeptGrows
  <2>2. CASE ~initialized
    BY <1>1, <2>2 DEF Kept
  <2> QED  BY <2>1, <2>2
<1>5. QueriesFollowSamples'
  <2>1. QueriesFollowSamples /\ dbq \in Seq(DbRequests) /\ Len(dbq) \in Nat
    BY DEF EverythingKept, IInv, TypeOK
  <2> QED  BY <1>1, <1>3, <2>1, QueriesExtended
<1> QED  BY <1>1, <1>2, <1>3, <1>4, <1>5, KeptOn

\* A sample leaves the queue for the rows.
LEMMA AddSnapshotsKept ==
  ASSUME IInv, EverythingKept, ~DbMayFail, AddSnapshots
  PROVE  EverythingKept'
<1> PICK e : e = Head(dbq)
  OBVIOUS
<1>1. /\ dbq \in Seq(DbRequests) /\ dbq # <<>> /\ e.type = "add"
      /\ initialized /\ dbq' = Tail(dbq)
      /\ UNCHANGED <<initialized, db_open, open_sample, uiq, points, last_stats,
                     series_map_, new_interfaces_queue_>>
  BY DEF IInv, TypeOK, AddSnapshots, NextRequest, uiVars, seriesVars, newVars
<1>2. rows' = [i \in Interfaces |-> IF i \in e.stats THEN rows[i] \cup {e.ts} ELSE rows[i]]
  <2>1. db_open /\ open_sample = NoTime
    BY <1>1 DEF EverythingKept, DatabaseWorks
  <2> QED  BY <2>1 DEF AddSnapshots
<1>3. /\ Of(dbq, "add") \subseteq Of(dbq', "add") \cup {e}
      /\ e \in Of(dbq, "add")
  BY <1>1, OfTail
<1>4. e.stats \in SUBSET Interfaces
  BY <1>3, ElementFields
<1>5. ASSUME NEW name \in Interfaces, NEW t \in Kept(name) PROVE t \in Kept(name)'
  <2>1. \/ initialized /\ t \in rows[name]
        \/ \E a \in Of(dbq, "add") : name \in a.stats /\ t = a.ts
    BY <1>5, KeptMember
  <2>2. CASE t \in rows[name]
    <3>1. t \in rows'[name]
      BY <1>2, <2>2
    <3> QED  BY <1>1, <3>1 DEF Kept
  <2>3. CASE \E a \in Of(dbq, "add") : name \in a.stats /\ t = a.ts
    <3>1. PICK a \in Of(dbq, "add") : name \in a.stats /\ t = a.ts
      BY <2>3
    <3>2. CASE a = e
      <4>1. t \in rows'[name]
        BY <1>2, <3>1, <3>2
      <4> QED  BY <1>1, <4>1 DEF Kept
    <3>3. CASE a # e
      <4>1. a \in Of(dbq', "add")
        BY <1>3, <3>3
      <4> QED  BY <3>1, <4>1 DEF Kept
    <3> QED  BY <3>2, <3>3
  <2> QED  BY <2>1, <2>2, <2>3
<1>6. QueriesFollowSamples'
  <2>1. \A name \in Interfaces : rows[name] \subseteq rows'[name]
    BY <1>2
  <2>2. \A name \in e.stats : rows'[name] # {}
    BY <1>2, <1>4
  <2>3. QueriesFollowSamples
    BY DEF EverythingKept
  <2> QED  BY <1>1, <2>1, <2>2, <2>3, QueriesServed
<1>7. DatabaseWorks'
  BY <1>1 DEF EverythingKept, DatabaseWorks
<1> QED  BY <1>1, <1>5, <1>6, <1>7, KeptOn

\* A reply carries stored rows.
LEMMA GetSnapshotsKept ==
  ASSUME IInv, OneWindowLoaded, EverythingKept, ~DbMayFail, GetSnapshotsInRange
  PROVE  EverythingKept'
<1>1. PICK r \in UiEvents :
        /\ r.type = "snapshots" /\ r.name \in Interfaces
        /\ r.data \subseteq rows[r.name]
        /\ Of(uiq', "snapshots") = Of(uiq, "snapshots") \cup {r}
  BY GetSnapshotsEffect
<1>2. /\ dbq # <<>> /\ Head(dbq).type = "get" /\ dbq' = Tail(dbq) /\ initialized
      /\ UNCHANGED <<initialized, db_open, rows, open_sample, series_map_, points, last_stats,
                     new_interfaces_queue_>>
      /\ Of(dbq', "add") = Of(dbq, "add")
  BY GetSnapshotsEffect
<1>3. \A name \in Interfaces : Kept(name) \subseteq Kept(name)'
  BY <1>2, KeptGrows
<1>4. r.data \subseteq Kept(r.name)'
  BY <1>1, <1>2 DEF Kept
<1>5. QueriesFollowSamples'
  <2>1. QueriesFollowSamples
    BY DEF EverythingKept
  <2>2. Head(dbq).type # "add"
    BY <1>2
  <2>3. initialized' /\ \A name \in Interfaces : rows[name] \subseteq rows'[name]
    BY <1>2
  <2> QED  BY <1>2, <2>1, <2>2, <2>3, QueriesServed
<1>6. DatabaseWorks'
  BY <1>2 DEF EverythingKept, DatabaseWorks
<1> QED  BY <1>1, <1>2, <1>3, <1>4, <1>5, <1>6, KeptOn

\* A sample is queued for the database before it is drawn.
LEMMA HandleStatsKept ==
  ASSUME IInv, EverythingKept, ~DbMayFail, HandleStatsCollected
  PROVE  EverythingKept'
<1> PICK e : e = Head(uiq)
  OBVIOUS
<1> DEFINE r == AddRequest(e.stats, e.ts)
<1>1. /\ e.stats \in SUBSET Interfaces /\ e.ts \in Nat
      /\ uiq' = Tail(uiq) /\ uiq # <<>> /\ uiq \in Seq(UiEvents)
      /\ UNCHANGED <<initialized, db_open, rows, open_sample, series_map_>>
      /\ dbq \in Seq(DbRequests)
      /\ \/ dbq' = dbq /\ e.stats = {}
         \/ dbq' = Append(dbq, r) /\ r \in DbRequests
      /\ new_interfaces_queue_' \subseteq new_interfaces_queue_ \cup e.stats
      /\ \/ UNCHANGED <<points, last_stats>>
         \/ /\ points' = [i \in Interfaces |->
                            IF i \in Drawn(e.stats)
                            THEN AppendLive(points[i], last_stats[i], e.ts, VisibleWindow)
                            ELSE points[i]]
            /\ last_stats' = [i \in Interfaces |->
                                IF i \in e.stats \cap series_map_ THEN e.ts
                                ELSE last_stats[i]]
  BY HandleStatsEffect
<1>2. r.type = "add" /\ r.stats = e.stats /\ r.ts = e.ts
  BY DEF AddRequest
<1> HIDE DEF r
<1>3. \/ Of(dbq', "add") = Of(dbq, "add") /\ e.stats = {}
      \/ Of(dbq', "add") = Of(dbq, "add") \cup {r}
  <2>1. CASE dbq' = dbq /\ e.stats = {}
    BY <2>1
  <2>2. CASE dbq' = Append(dbq, r) /\ r \in DbRequests
    <3>1. dbq \in Seq(DbRequests)
      BY <1>1
    <3>2. Of(Append(dbq, r), r.type) = Of(dbq, r.type) \cup {r}
      BY ONLY <2>2, <3>1, OfAppend
    <3> QED  BY <1>2, <2>2, <3>2
  <2> QED  BY <1>1, <2>1, <2>2
<1>4. \A name \in Interfaces : Kept(name) \subseteq Kept(name)'
  BY <1>1, <1>3, KeptGrows
<1>5. ASSUME NEW name \in e.stats PROVE e.ts \in Kept(name)'
  <2>1. r \in Of(dbq', "add")
    BY <1>3
  <2> QED  BY <1>2, <2>1 DEF Kept
<1>6. Of(uiq', "snapshots") \subseteq Of(uiq, "snapshots")
  BY <1>1, OfTail
<1>7. \A name \in Interfaces :
        last_stats'[name] = last_stats[name] \/ last_stats'[name] \in Kept(name)'
  BY <1>1, <1>5
<1>8. ASSUME NEW name \in Interfaces, NEW p \in MeasuredIn(points'[name])
      PROVE  p \in MeasuredIn(points[name]) \/ {p.from, p.x} \subseteq Kept(name)'
  <2>1. CASE points'[name] = points[name]
    BY <1>8, <2>1
  <2>2. CASE /\ name \in Drawn(e.stats)
             /\ points'[name] = AppendLive(points[name], last_stats[name], e.ts,
                                           VisibleWindow)
    <3>1. p \in MeasuredIn(points[name]) \/ p = Measured(last_stats[name], e.ts)
      BY <1>8, <2>2 DEF AppendLive, TrimBefore, MeasuredIn
    <3>2. name \in e.stats /\ last_stats[name] # NoTime
      BY <2>2 DEF Drawn
    <3>3. last_stats[name] \in Kept(name)' /\ e.ts \in Kept(name)'
      BY <1>4, <1>5, <3>2 DEF EverythingKept
    <3> QED  BY <3>1, <3>3 DEF Measured
  <2> QED  BY <1>1, <2>1, <2>2
<1>9. \A name \in series_map_' \cup new_interfaces_queue_' :
        name \in series_map_ \cup new_interfaces_queue_ \/ Kept(name)' # {}
  BY <1>1, <1>5
<1>10. QueriesFollowSamples'
  <2>1. QueriesFollowSamples
    BY DEF EverythingKept
  <2>2. /\ Len(dbq) <= Len(dbq') /\ dbq' \in Seq(DbRequests)
        /\ \A k \in 1..Len(dbq) : dbq'[k] = dbq[k]
        /\ \A k \in 1..Len(dbq') : k > Len(dbq) => dbq'[k].type # "get"
    <3>1. CASE dbq' = dbq
      BY <1>1, <3>1
    <3>2. CASE dbq' = Append(dbq, r) /\ r \in DbRequests
      <4>1. dbq \in Seq(DbRequests)
        BY <1>1
      <4>2. /\ dbq' \in Seq(DbRequests) /\ Len(dbq') = Len(dbq) + 1
            /\ Len(dbq) \in Nat /\ dbq'[Len(dbq) + 1] = r
            /\ \A k \in 1..Len(dbq) : dbq'[k] = dbq[k]
        BY ONLY <3>2, <4>1, AppendElements
      <4>3. \A k \in 1..Len(dbq') : k > Len(dbq) => dbq'[k] = r
        BY <4>2
      <4> QED  BY <1>2, <4>2, <4>3
    <3> QED  BY <1>1, <3>1, <3>2
  <2> QED  BY <1>1, <2>1, <2>2, QueriesExtended
<1>11. DatabaseWorks'
  BY <1>1 DEF EverythingKept, DatabaseWorks
<1> QED  BY <1>4, <1>6, <1>7, <1>8, <1>9, <1>10, <1>11, KeptOn

\* The points drawn from a reply join snapshots it carries.
LEMMA HandleSnapshotsKept ==
  ASSUME IInv, OneWindowLoaded, EverythingKept, ~DbMayFail, HandleSnapshotsLoaded
  PROVE  EverythingKept'
<1> PICK e : e = Head(uiq)
  OBVIOUS
<1>1. /\ e \in Of(uiq, "snapshots") /\ e.name \in Interfaces
      /\ e.data \in SUBSET Nat /\ \A t \in e.data : t <= now
      /\ uiq' = Tail(uiq) /\ uiq # <<>> /\ uiq \in Seq(UiEvents)
      /\ UNCHANGED <<initialized, db_open, rows, open_sample, dbq, series_map_,
                     new_interfaces_queue_>>
      /\ \/ UNCHANGED <<points, last_stats>>
         \/ /\ points' = [points EXCEPT ![e.name] = LoadedPoints(e.data)]
            /\ last_stats' = IF Cardinality(e.data) >= 2
                             THEN [last_stats EXCEPT ![e.name] = Max(e.data)]
                             ELSE last_stats
  BY HandleSnapshotsEffect
<1>2. \A name \in Interfaces : Kept(name) = Kept(name)'
  BY <1>1 DEF Kept
<1>3. e.data \subseteq Kept(e.name)'
  BY <1>1, <1>2 DEF EverythingKept
<1>4. /\ Narrow(e.data) /\ now \in Nat
      /\ DOMAIN points = Interfaces /\ DOMAIN last_stats = Interfaces
  BY <1>1 DEF OneWindowLoaded, IInv, TypeOK
<1>5. \A p \in MeasuredIn(LoadedPoints(e.data)) : p.from \in e.data /\ p.x \in e.data
  BY <1>1, <1>4, LoadedConnected
<1>6. ASSUME NEW name \in Interfaces
      PROVE  last_stats'[name] = last_stats[name] \/ last_stats'[name] \in Kept(name)'
  <2>1. CASE name = e.name /\ Cardinality(e.data) >= 2 /\ last_stats'[name] = Max(e.data)
    <3>1. e.data # {}
      BY <2>1, FS_EmptySet
    <3>2. Max(e.data) \in e.data
      BY <1>1, <1>4, <3>1, MaxNatural
    <3> QED  BY <1>3, <2>1, <3>2
  <2> QED  BY <1>1, <1>4, <2>1
<1>7. ASSUME NEW name \in Interfaces, NEW p \in MeasuredIn(points'[name])
      PROVE  p \in MeasuredIn(points[name]) \/ {p.from, p.x} \subseteq Kept(name)'
  <2>1. points'[name] = points[name] \/ (name = e.name /\ points'[name] = LoadedPoints(e.data))
    BY <1>1, <1>4
  <2> QED  BY <1>3, <1>5, <1>7, <2>1
<1>8. Of(uiq', "snapshots") \subseteq Of(uiq, "snapshots")
  BY <1>1, OfTail
<1>9. QueriesFollowSamples'
  BY <1>1 DEF EverythingKept, QueriesFollowSamples, QueryHasRows
<1>10. DatabaseWorks'
  BY <1>1 DEF EverythingKept, DatabaseWorks
<1> QED  BY <1>1, <1>2, <1>6, <1>7, <1>8, <1>9, <1>10, KeptOn

-----------------------------------------------------------------------------
\* SeriesInv is inductive on top of IInv.

\* The window opens with nothing drawn, asked for or under way.
LEMMA InitSeriesInv == Init => SeriesInv
<1> SUFFICES ASSUME Init PROVE SeriesInv
  OBVIOUS
<1> USE DEF Init
<1>1. \A type : Of(<<>>, type) = {}
  BY DEF Of, ToSet
<1>2. SamplesComeLater
  <2>1. InOrder(<<>>)
    BY DEF InOrder
  <2> QED  BY <1>1, <2>1 DEF SamplesComeLater, SampledAfter
<1>3. \A name \in Interfaces : points[name] = {} /\ MeasuredIn(points[name]) = {}
  BY DEF MeasuredIn
<1>4. SeriesConnected
  BY <1>3, NothingConnected DEF SeriesConnected
<1>5. OneWindowLoaded
  BY <1>1 DEF OneWindowLoaded
<1>6. EverythingKept
  <2>1. QueriesFollowSamples
    BY DEF QueriesFollowSamples
  <2> QED  BY <1>1, <1>3, <2>1 DEF EverythingKept, DatabaseWorks
<1>7. IsolationShown
  BY DEF IsolationShown
<1> QED  BY <1>2, <1>4, <1>5, <1>6, <1>7 DEF SeriesInv

\* No step of any thread, timer or gesture breaks it.
LEMMA NextSeriesInv ==
  ASSUME IInv, IInv', SeriesInv, [Next]_vars
  PROVE  SeriesInv'
<1>1. /\ SamplesComeLater /\ SeriesConnected /\ OneWindowLoaded
      /\ EverythingKept /\ IsolationShown
  BY DEF SeriesInv
<1>2. OneWindowLoaded' /\ IsolationShown'
  BY <1>1, WindowStep, IsolationStep
<1>3. CASE Quiet
  <2>1. SamplesComeLater'
    BY <1>1, <1>3, QuietOrder
  <2>2. SeriesConnected'
    BY <1>1, <1>3, ConnectedKept DEF Quiet
  <2>3. EverythingKept'
    BY <1>1, <1>3, QuietKept DEF EverythingKept
  <2> QED  BY <1>2, <2>1, <2>2, <2>3 DEF SeriesInv
<1>4. CASE CollectStats
  <2>1. SeriesConnected'
    BY <1>1, <1>4, ConnectedKept DEF CollectStats, seriesVars
  <2>2. EverythingKept'
    BY <1>1, <1>4, StartKept DEF EverythingKept
  <2> QED  BY <1>1, <1>2, <1>4, <2>1, <2>2, CollectOrder DEF SeriesInv
<1>5. CASE Initialize
  <2>1. SeriesConnected'
    BY <1>1, <1>5, ConnectedKept DEF Initialize, uiVars, seriesVars
  <2>2. EverythingKept'
    BY <1>1, <1>5, StartKept DEF EverythingKept
  <2> QED  BY <1>1, <1>2, <1>5, <2>1, <2>2, InitializeOrder DEF SeriesInv
<1>6. CASE AddSnapshots
  <2>1. SeriesConnected'
    BY <1>1, <1>6, ConnectedKept DEF AddSnapshots, uiVars, seriesVars
  <2>2. EverythingKept'
    BY <1>1, <1>6, AddSnapshotsKept DEF EverythingKept
  <2> QED  BY <1>1, <1>2, <1>6, <2>1, <2>2, AddSnapshotsOrder DEF SeriesInv
<1>7. CASE GetSnapshotsInRange
  <2>1. SeriesConnected'
    BY <1>1, <1>7, ConnectedKept DEF GetSnapshotsInRange, uiVars, seriesVars
  <2>2. EverythingKept'
    BY <1>1, <1>7, GetSnapshotsKept DEF EverythingKept
  <2> QED  BY <1>1, <1>2, <1>7, <2>1, <2>2, GetSnapshotsOrder DEF SeriesInv
<1>8. CASE HandleStatsCollected
  <2>1. EverythingKept'
    BY <1>1, <1>8, HandleStatsKept DEF EverythingKept
  <2> QED  BY <1>1, <1>2, <1>8, <2>1, HandleStatsOrder, HandleStatsConnected DEF SeriesInv
<1>9. CASE HandleSnapshotsLoaded
  <2>1. EverythingKept'
    BY <1>1, <1>9, HandleSnapshotsKept DEF EverythingKept
  <2> QED  BY <1>1, <1>2, <1>9, <2>1, HandleSnapshotsOrder, HandleSnapshotsConnected
              DEF SeriesInv
<1>10. CASE FailedStatement
  <2>1. SeriesConnected'
    BY <1>1, <1>10, ConnectedKept DEF FailedStatement, uiVars, seriesVars
  <2>2. EverythingKept'
    BY <1>10 DEF EverythingKept, FailedStatement
  <2> QED  BY <1>1, <1>2, <1>10, <2>1, <2>2, FailedStatementOrder DEF SeriesInv
<1> QED  BY <1>1, <1>3, <1>4, <1>5, <1>6, <1>7, <1>8, <1>9, <1>10, QuietSteps
            DEF Next, DatabaseThread, PostedEvents

\* The second inductive invariant holds in every reachable state too.
THEOREM SeriesInvariance == Spec => []SeriesInv
<1>1. Init => SeriesInv
  BY InitSeriesInv
<1>2. IInv /\ IInv' /\ SeriesInv /\ [Next]_vars => SeriesInv'
  BY NextSeriesInv
<1> QED  BY <1>1, <1>2, Invariance, PTL DEF Spec

\* However loads replace the series and live points extend them, no traffic is
\* drawn twice.
THEOREM NoTrafficTwice == Spec => []TrafficDrawnOnce
<1>1. SeriesInv => TrafficDrawnOnce
  BY DEF SeriesInv, SeriesConnected, Connected, Apart, TrafficDrawnOnce,
         MeasuredPoints, MeasuredIn
<1> QED  BY <1>1, SeriesInvariance, PTL

\* Nor is any left out in the middle of a series or before the next live point.
THEOREM NoTrafficLost == Spec => []NoTrafficSkipped
<1>1. ASSUME IInv, SeriesInv PROVE NoTrafficSkipped
  <2> SUFFICES ASSUME NEW name \in Interfaces, MeasuredPoints(name) # {}
               PROVE  /\ last_stats[name] = Max({p.x : p \in MeasuredPoints(name)})
                      /\ Linked(MeasuredPoints(name))
    BY DEF NoTrafficSkipped, Linked
  <2>1. /\ MeasuredPoints(name) = MeasuredIn(points[name])
        /\ Connected(MeasuredIn(points[name]), last_stats[name])
        /\ points[name] \in SUBSET [from : Nat, x : Nat]
    BY <1>1 DEF MeasuredPoints, MeasuredIn, SeriesInv, SeriesConnected, IInv, TypeOK
  <2> DEFINE M == MeasuredPoints(name)
             last == last_stats[name]
             X == {p.x : p \in M}
  <2>2. /\ last \in Nat /\ Linked(M)
        /\ \E p \in M : p.x = last
        /\ \A p \in M : p.x <= last
    BY <2>1 DEF Connected
  <2>3. X \in SUBSET Nat
    BY <2>1 DEF MeasuredIn
  <2>4. last \in X /\ \A t \in X : t <= last
    BY <2>2
  <2> HIDE DEF X, M, last
  <2>5. Max(X) \in X /\ \A t \in X : Max(X) >= t
    BY <2>2, <2>3, <2>4, MaxNatural
  <2>6. Max(X) = last
    <3>1. Max(X) \in Nat /\ Max(X) <= last /\ Max(X) >= last
      BY <2>3, <2>4, <2>5
    <3> QED  BY <2>2, <3>1
  <2> QED  BY <2>2, <2>6 DEF X, M, last
<1> QED  BY <1>1, Invariance, SeriesInvariance, PTL

\* However long the program runs, all points of a series lie in two visible
\* windows but for one filler at most, the one behind the baseline of a load.
THEOREM SeriesStayShort == Spec => []SeriesBounded
<1>1. SeriesInv => SeriesBounded
  BY DEF SeriesInv, SeriesConnected, Compact, Far, SeriesBounded, FarPoints
<1> QED  BY <1>1, SeriesInvariance, PTL

\* Unless the database fails, both snapshots of every point that is drawn are
\* stored or queued to be.
THEOREM DrawnStaysStored == Spec => []DrawnIsStored
<1>1. ASSUME IInv, SeriesInv, ~DbMayFail,
             NEW name \in Interfaces, NEW p \in MeasuredPoints(name)
      PROVE  {p.from, p.x} \subseteq rows[name] \cup QueuedSamples(name)
  <2>1. {p.from, p.x} \subseteq Kept(name)
    BY <1>1 DEF SeriesInv, EverythingKept, MeasuredPoints, MeasuredIn
  <2>2. ASSUME NEW t \in Kept(name) PROVE t \in rows[name] \cup QueuedSamples(name)
    <3>1. CASE t \in rows[name]
      BY <3>1
    <3>2. CASE \E e \in Of(dbq, "add") : name \in e.stats /\ t = e.ts
      BY <3>2 DEF Of, ToSet, QueuedSamples
    <3> QED  BY <3>1, <3>2, KeptMember
  <2> QED  BY <2>1, <2>2
<1>2. IInv /\ SeriesInv => DrawnIsStored
  BY <1>1 DEF DrawnIsStored
<1> QED  BY <1>2, Invariance, SeriesInvariance, PTL

\* Unless the database fails, a query never overtakes the first sample of the
\* interface it is about.
THEOREM QueriesFindRows == Spec => []QueriedInterfaceHasRows
<1>1. ASSUME IInv, SeriesInv PROVE QueriedInterfaceHasRows
  <2>1. dbq \in Seq(DbRequests) /\ DOMAIN dbq = 1..Len(dbq)
    BY <1>1 DEF IInv, TypeOK
  <2>2. DbMayFail \/ QueriesFollowSamples
    BY <1>1 DEF SeriesInv, EverythingKept
  <2> QED  BY <2>1, <2>2 DEF QueriesFollowSamples, QueryHasRows, QueriedInterfaceHasRows
<1> QED  BY <1>1, Invariance, SeriesInvariance, PTL

\* Once no reply is awaited, the isolated interface is the only one that is
\* shown, and all are when none is isolated.
THEOREM IsolationIsShown == Spec => []IsolationShown
<1>1. SeriesInv => IsolationShown
  BY DEF SeriesInv
<1> QED  BY <1>1, SeriesInvariance, PTL
=============================================================================
