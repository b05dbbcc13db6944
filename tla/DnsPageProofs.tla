--------------------------- MODULE DnsPageProofs ----------------------------
(***************************************************************************)
(* Theorems about DnsPage, for any domains, clock, packets, gestures and   *)
(* failures of the database: which window and which domain the three parts *)
(* of the page show once nothing is awaited, and what no late answer may   *)
(* draw in the chart or fill into the table of details.                    *)
(*                                                                         *)
(* The inductive invariant relates each part of the page to what is asked  *)
(* for it under the current ids: either it is still to be answered, or the *)
(* part shows the answer.                                                  *)
(***************************************************************************)
EXTENDS DnsPage, TLAPS, WellFoundedInduction

Posted(q) == {q[k] : k \in 1..Len(q)}

\* What a request or a reply for the page is about.
Subject(e) ==
  [domain |-> IF e.type \in {"get_details", "details"} THEN e.domain ELSE NoDomain,
   asked |-> e.asked]

AskedIn(q, type, id) ==
  {Subject(e) : e \in {f \in Posted(q) : f.type = type /\ f.id = id}}

\* What e adds to that.
Asks(e, type, id) == IF e.type = type /\ e.id = id THEN {Subject(e)} ELSE {}

\* By id, what was asked and is not yet handled: for the chart, for the list
\* and for the details.
ChartAsked(id) == AskedIn(dbq, "get_qps", id) \union AskedIn(uiq, "qps", id)
ListAsked(id) == AskedIn(dbq, "get_domains", id) \union AskedIn(uiq, "domains", id)
DetailsAsked(id) == AskedIn(dbq, "get_details", id) \union AskedIn(uiq, "details", id)

ToChart == ChartAsked(current_request_id_)
ToList == ListAsked(current_request_id_)
ToDetails == DetailsAsked(current_details_request_id_)

\* Nothing is asked under an id that is not yet given out.
IdsKnown ==
  /\ \A id \in Nat : id > current_request_id_ => ChartAsked(id) = {} /\ ListAsked(id) = {}
  /\ \A id \in Nat : id > current_details_request_id_ => DetailsAsked(id) = {}

Before(q, first, second, id) ==
  \A i, j \in 1..Len(q) :
    /\ q[i].type = first /\ q[i].id = id
    /\ q[j].type = second /\ q[j].id = id
    => i < j

\* The chart is asked for, and answered, before the list.
ChartBeforeList ==
  /\ Before(dbq, "get_qps", "get_domains", current_request_id_)
  /\ Before(uiq, "qps", "domains", current_request_id_)
  /\ AskedIn(uiq, "domains", current_request_id_) # {}
       => AskedIn(dbq, "get_qps", current_request_id_) = {}

\* Both are asked for the same window, and once the chart is drawn the list
\* that is shown or still to come is the one for it.
OneWindow ==
  /\ \A s, t \in ToChart \union ToList : s.asked = t.asked
  /\ ToChart # {} => ToList # {}
  /\ chart # NoChart /\ ToChart = {} =>
       /\ \A s \in ToList : s.asked = chart.asked
       /\ ToList = {} => domains.asked = chart.asked

\* The axis leaves the chart only while the mouse is down.
ChartFills ==
  chart # NoChart /\ ~dragging_ /\ ToChart = {} => chart.drawn = axis_x_

\* Since the mouse was released in the manual view, all that is asked for is
\* the range of the axis.
ManualWindow ==
  is_manual_view_active_ /\ ~dragging_ =>
    /\ \A s \in ToChart \union ToList : s.asked = axis_x_
    /\ chart # NoChart /\ ToChart = {} => chart.asked = axis_x_
    /\ current # NoDomain /\ ToList = {} =>
         /\ \A s \in ToDetails : s.asked = axis_x_
         /\ ToDetails = {} => details.asked = axis_x_

\* The current request for details is about the current domain.
DetailsOfCurrent ==
  current # NoDomain =>
    /\ \A s \in ToDetails : s.domain = current
    /\ ToDetails = {} => details.domain = current

PageOK == OneWindow /\ ChartFills /\ ManualWindow /\ DetailsOfCurrent

PageInv == TypeOK /\ IdsKnown /\ ChartBeforeList /\ PageOK

USE DnsPageAssumption

-----------------------------------------------------------------------------
\* The queues.

LEMMA PostedFacts ==
  ASSUME NEW S, NEW q \in Seq(S)
  PROVE  /\ \A e \in S : Posted(Append(q, e)) = Posted(q) \union {e}
         /\ q # <<>> => /\ Posted(q) = {Head(q)} \union Posted(Tail(q))
                        /\ Head(q) \in S
<1>1. Len(q) \in Nat /\ DOMAIN q = 1..Len(q)
  OBVIOUS
<1>2. ASSUME NEW e \in S PROVE Posted(Append(q, e)) = Posted(q) \union {e}
  <2> DEFINE r == Append(q, e)
  <2>1. Len(r) = Len(q) + 1 /\ r[Len(q) + 1] = e /\ \A k \in 1..Len(q) : r[k] = q[k]
    OBVIOUS
  <2> HIDE DEF r
  <2>2. 1..Len(r) = 1..Len(q) \union {Len(q) + 1}
    BY <1>1, <2>1
  <2> QED  BY <2>1, <2>2 DEF Posted, r
<1>3. ASSUME q # <<>>
      PROVE  Posted(q) = {Head(q)} \union Posted(Tail(q)) /\ Head(q) \in S
  <2> DEFINE r == Tail(q)
  <2>1. /\ Len(q) > 0 /\ Len(r) = Len(q) - 1 /\ Head(q) = q[1] /\ Head(q) \in S
        /\ \A k \in 1..Len(r) : r[k] = q[k + 1] /\ k + 1 \in 1..Len(q)
    BY <1>1, <1>3
  <2>2. \A k \in 1..Len(q) : k # 1 => k - 1 \in 1..Len(r) /\ q[k] = r[k - 1]
    BY <1>1, <1>3
  <2> HIDE DEF r
  <2>3. ASSUME NEW x \in Posted(q) PROVE x = Head(q) \/ x \in Posted(r)
    <3>1. PICK k \in 1..Len(q) : x = q[k]
      BY DEF Posted
    <3>2. CASE k = 1
      BY <2>1, <3>1, <3>2
    <3>3. CASE k # 1
      BY <2>2, <3>1, <3>3 DEF Posted
    <3> QED  BY <3>2, <3>3
  <2>4. ASSUME NEW x \in Posted(r) PROVE x \in Posted(q)
    BY <2>1 DEF Posted
  <2>5. Head(q) \in Posted(q)
    BY <1>1, <2>1 DEF Posted
  <2> QED  BY <2>1, <2>3, <2>4, <2>5 DEF r
<1> QED  BY <1>2, <1>3

\* What an event adds that is posted, and what remains when one is taken.
LEMMA AskedAppend ==
  ASSUME NEW S, NEW q \in Seq(S), NEW e \in S
  PROVE  \A type, id : AskedIn(Append(q, e), type, id)
                         = AskedIn(q, type, id) \union Asks(e, type, id)
<1>1. Posted(Append(q, e)) = Posted(q) \union {e}
  BY PostedFacts
<1> QED  BY <1>1 DEF AskedIn, Asks

LEMMA AskedTail ==
  ASSUME NEW S, NEW q \in Seq(S), q # <<>>
  PROVE  \A type, id : AskedIn(q, type, id)
                         = AskedIn(Tail(q), type, id) \union Asks(Head(q), type, id)
<1>1. Posted(q) = {Head(q)} \union Posted(Tail(q))
  BY PostedFacts
<1> QED  BY <1>1 DEF AskedIn, Asks

\* An order in a queue is kept when the first event is taken ...
LEMMA BeforeTail ==
  ASSUME NEW S, NEW q \in Seq(S), q # <<>>, NEW first, NEW second, NEW id,
         Before(q, first, second, id)
  PROVE  Before(Tail(q), first, second, id)
<1> DEFINE r == Tail(q)
<1>1. \A k \in 1..Len(r) : r[k] = q[k + 1] /\ k + 1 \in 1..Len(q) /\ k \in Nat
  OBVIOUS
<1> HIDE DEF r
<1>2. ASSUME NEW i \in 1..Len(r), NEW j \in 1..Len(r),
             r[i].type = first /\ r[i].id = id, r[j].type = second /\ r[j].id = id
      PROVE  i < j
  <2>1. i + 1 \in 1..Len(q) /\ j + 1 \in 1..Len(q) /\ q[i + 1] = r[i] /\ q[j + 1] = r[j]
        /\ i \in Nat /\ j \in Nat
    BY <1>1
  <2>2. i + 1 < j + 1
    BY <1>2, <2>1 DEF Before
  <2> QED  BY <2>1, <2>2
<1> QED  BY <1>2 DEF Before, r

\* ... and when one is posted, unless it had to come before one that is there.
LEMMA BeforeAppend ==
  ASSUME NEW S, NEW q \in Seq(S), NEW e \in S, NEW first, NEW second, NEW id,
         Before(q, first, second, id), first # second,
         e.type = first /\ e.id = id => AskedIn(q, second, id) = {}
  PROVE  Before(Append(q, e), first, second, id)
<1> DEFINE r == Append(q, e)
<1>1. /\ Len(r) = Len(q) + 1 /\ r[Len(q) + 1] = e /\ Len(q) \in Nat
      /\ \A k \in 1..Len(q) : r[k] = q[k]
  OBVIOUS
<1> HIDE DEF r
<1>2. ASSUME NEW i \in 1..Len(r), NEW j \in 1..Len(r),
             r[i].type = first /\ r[i].id = id, r[j].type = second /\ r[j].id = id
      PROVE  i < j
  <2>1. CASE i \in 1..Len(q) /\ j \in 1..Len(q)
    BY <1>1, <1>2, <2>1 DEF Before
  <2>2. CASE i \in 1..Len(q) /\ j = Len(q) + 1
    BY <1>1, <2>2
  <2>3. CASE i = Len(q) + 1 /\ j \in 1..Len(q)
    <3>1. q[j] \in Posted(q) /\ q[j].type = second /\ q[j].id = id
      BY <1>1, <1>2, <2>3 DEF Posted
    <3>2. Subject(q[j]) \in AskedIn(q, second, id)
      BY <3>1 DEF AskedIn
    <3> QED  BY <1>1, <1>2, <2>3, <3>2
  <2>4. CASE i = Len(q) + 1 /\ j = Len(q) + 1
    BY <1>1, <1>2, <2>4
  <2> QED  BY <1>1, <2>1, <2>2, <2>3, <2>4
<1> QED  BY <1>2 DEF Before, r

\* With the later one at its head, a queue holds none of the earlier ones.
LEMMA NoneBeforeHead ==
  ASSUME NEW S, NEW q \in Seq(S), q # <<>>, NEW first, NEW second, NEW id,
         Before(q, first, second, id), Head(q).type = second, Head(q).id = id
  PROVE  AskedIn(q, first, id) = {}
<1>1. 1 \in 1..Len(q) /\ q[1] = Head(q)
  OBVIOUS
<1>2. ASSUME NEW k \in 1..Len(q), q[k].type = first, q[k].id = id PROVE FALSE
  <2>1. k < 1
    BY <1>1, <1>2 DEF Before
  <2> QED  BY <2>1
<1> QED  BY <1>2 DEF AskedIn, Posted

LEMMA NoneIsBefore ==
  ASSUME NEW q, NEW first, NEW second, NEW id, AskedIn(q, first, id) = {}
  PROVE  Before(q, first, second, id)
BY DEF AskedIn, Posted, Before

-----------------------------------------------------------------------------
\* What the steps do to the queues.

\* The types of the events that matter for the page.
DbTypes == {"get_qps", "get_domains", "get_details"}
UiTypes == {"qps", "domains", "details"}

\* The parts of a request, by its type.
LEMMA RequestParts ==
  ASSUME NEW e \in DbRequests
  PROVE  /\ e.type \in DbTypes \union {"packet"}
         /\ e.type \in DbTypes => e.id \in Nat /\ e.asked \in Windows
         /\ e.type = "get_details" => e.domain \in Domains
         /\ e.type = "packet" =>
              /\ e \in [type : {"packet"}, domain : Domains, ts : Nat, is_query : BOOLEAN]
              /\ e \in UiEvents
BY DEF DbRequests, DbTypes, UiEvents

LEMMA ReplyParts ==
  ASSUME NEW e \in UiEvents
  PROVE  /\ e.type \in UiTypes \union {"packet", "database_ready"}
         /\ e.type \in UiTypes => e.id \in Nat /\ e.asked \in Windows
         /\ e.type = "qps" => e.first \in Int \union {NoTime}
         /\ e.type = "domains" => e.names \in SUBSET Domains
         /\ e.type = "details" => e.domain \in Domains
         /\ e.type = "packet" => e \in DbRequests
BY DEF UiEvents, DatabaseReady, UiTypes, DbRequests

LEMMA QueuesTyped ==
  ASSUME TypeOK
  PROVE  dbq \in Seq(DbRequests) /\ uiq \in Seq(UiEvents)
BY DEF TypeOK

\* An event that neither asks nor answers can be posted and taken freely.
LEMMA UiUnasked ==
  ASSUME TypeOK,
         \/ \E e \in UiEvents : e.type \notin UiTypes /\ uiq' = Append(uiq, e)
         \/ uiq # <<>> /\ Head(uiq).type \notin UiTypes /\ uiq' = Tail(uiq)
         \/ uiq' = uiq
  PROVE  /\ uiq' \in Seq(UiEvents)
         /\ \A type \in UiTypes : \A id : AskedIn(uiq', type, id) = AskedIn(uiq, type, id)
         /\ \A id : Before(uiq, "qps", "domains", id) => Before(uiq', "qps", "domains", id)
<1>0. uiq \in Seq(UiEvents)
  BY QueuesTyped
<1>1. ASSUME NEW e \in UiEvents, e.type \notin UiTypes, uiq' = Append(uiq, e)
      PROVE  /\ uiq' \in Seq(UiEvents)
             /\ \A type \in UiTypes : \A id : AskedIn(uiq', type, id) = AskedIn(uiq, type, id)
             /\ \A id : Before(uiq, "qps", "domains", id) => Before(uiq', "qps", "domains", id)
  <2>1. uiq' \in Seq(UiEvents)
    BY <1>0, <1>1
  <2>2. ASSUME NEW type \in UiTypes, NEW id
        PROVE  AskedIn(uiq', type, id) = AskedIn(uiq, type, id)
    <3>1. AskedIn(Append(uiq, e), type, id) = AskedIn(uiq, type, id) \union Asks(e, type, id)
      BY ONLY <1>0, e \in UiEvents, AskedAppend
    <3> QED  BY <1>1, <3>1 DEF Asks
  <2>3. ASSUME NEW id, Before(uiq, "qps", "domains", id)
        PROVE  Before(uiq', "qps", "domains", id)
    <3>1. e.type # "qps"
      BY <1>1 DEF UiTypes
    <3> QED  BY <1>0, <1>1, <2>3, <3>1, BeforeAppend
  <2> QED  BY <2>1, <2>2, <2>3
<1>2. ASSUME uiq # <<>>, Head(uiq).type \notin UiTypes, uiq' = Tail(uiq)
      PROVE  /\ uiq' \in Seq(UiEvents)
             /\ \A type \in UiTypes : \A id : AskedIn(uiq', type, id) = AskedIn(uiq, type, id)
             /\ \A id : Before(uiq, "qps", "domains", id) => Before(uiq', "qps", "domains", id)
  <2>1. uiq' \in Seq(UiEvents)
    BY <1>0, <1>2
  <2>2. ASSUME NEW type \in UiTypes, NEW id
        PROVE  AskedIn(uiq', type, id) = AskedIn(uiq, type, id)
    <3>1. AskedIn(uiq, type, id)
            = AskedIn(Tail(uiq), type, id) \union Asks(Head(uiq), type, id)
      BY ONLY <1>0, <1>2, AskedTail
    <3> QED  BY <1>2, <3>1 DEF Asks
  <2>3. ASSUME NEW id, Before(uiq, "qps", "domains", id)
        PROVE  Before(uiq', "qps", "domains", id)
    BY <1>0, <1>2, <2>3, BeforeTail
  <2> QED  BY <2>1, <2>2, <2>3
<1> QED  BY <1>0, <1>1, <1>2

LEMMA DbUnasked ==
  ASSUME TypeOK,
         \/ \E e \in DbRequests : e.type = "packet" /\ dbq' = Append(dbq, e)
         \/ dbq # <<>> /\ Head(dbq).type = "packet" /\ dbq' = Tail(dbq)
         \/ dbq' = dbq
  PROVE  /\ dbq' \in Seq(DbRequests)
         /\ \A type \in DbTypes : \A id : AskedIn(dbq', type, id) = AskedIn(dbq, type, id)
         /\ \A id : Before(dbq, "get_qps", "get_domains", id)
                      => Before(dbq', "get_qps", "get_domains", id)
<1>0. dbq \in Seq(DbRequests) /\ \A type \in DbTypes : type # "packet"
  BY QueuesTyped DEF DbTypes
<1>1. ASSUME NEW e \in DbRequests, e.type = "packet", dbq' = Append(dbq, e)
      PROVE  /\ dbq' \in Seq(DbRequests)
             /\ \A type \in DbTypes : \A id : AskedIn(dbq', type, id) = AskedIn(dbq, type, id)
             /\ \A id : Before(dbq, "get_qps", "get_domains", id)
                          => Before(dbq', "get_qps", "get_domains", id)
  <2>1. dbq' \in Seq(DbRequests)
    BY <1>0, <1>1
  <2>2. ASSUME NEW type \in DbTypes, NEW id
        PROVE  AskedIn(dbq', type, id) = AskedIn(dbq, type, id)
    <3>1. AskedIn(Append(dbq, e), type, id) = AskedIn(dbq, type, id) \union Asks(e, type, id)
      BY ONLY <1>0, e \in DbRequests, AskedAppend
    <3> QED  BY <1>0, <1>1, <3>1 DEF Asks
  <2>3. ASSUME NEW id, Before(dbq, "get_qps", "get_domains", id)
        PROVE  Before(dbq', "get_qps", "get_domains", id)
    BY <1>0, <1>1, <2>3, BeforeAppend
  <2> QED  BY <2>1, <2>2, <2>3
<1>2. ASSUME dbq # <<>>, Head(dbq).type = "packet", dbq' = Tail(dbq)
      PROVE  /\ dbq' \in Seq(DbRequests)
             /\ \A type \in DbTypes : \A id : AskedIn(dbq', type, id) = AskedIn(dbq, type, id)
             /\ \A id : Before(dbq, "get_qps", "get_domains", id)
                          => Before(dbq', "get_qps", "get_domains", id)
  <2>1. dbq' \in Seq(DbRequests)
    BY <1>0, <1>2
  <2>2. ASSUME NEW type \in DbTypes, NEW id
        PROVE  AskedIn(dbq', type, id) = AskedIn(dbq, type, id)
    <3>1. AskedIn(dbq, type, id)
            = AskedIn(Tail(dbq), type, id) \union Asks(Head(dbq), type, id)
      BY ONLY <1>0, <1>2, AskedTail
    <3> QED  BY <1>0, <1>2, <3>1 DEF Asks
  <2>3. ASSUME NEW id, Before(dbq, "get_qps", "get_domains", id)
        PROVE  Before(dbq', "get_qps", "get_domains", id)
    BY <1>0, <1>2, <2>3, BeforeTail
  <2> QED  BY <2>1, <2>2, <2>3
<1> QED  BY <1>0, <1>1, <1>2

\* What is asked stays so while the database answers it.
LEMMA Answered ==
  ASSUME PageInv, dbq # <<>>, NEW reply \in UiEvents,
         <<Head(dbq).type, reply.type>> \in
            {<<"get_qps", "qps">>, <<"get_domains", "domains">>, <<"get_details", "details">>},
         reply.id = Head(dbq).id, Subject(reply) = Subject(Head(dbq)),
         dbq' = Tail(dbq), uiq' = Append(uiq, reply),
         UNCHANGED current_request_id_
  PROVE  /\ dbq' \in Seq(DbRequests) /\ uiq' \in Seq(UiEvents)
         /\ \A id : /\ ChartAsked(id)' = ChartAsked(id)
                    /\ ListAsked(id)' = ListAsked(id)
                    /\ DetailsAsked(id)' = DetailsAsked(id)
         /\ ChartBeforeList'
<1> DEFINE e == Head(dbq)
           c == current_request_id_
<1>0. dbq \in Seq(DbRequests) /\ uiq \in Seq(UiEvents) /\ e \in DbRequests
  BY QueuesTyped DEF PageInv
<1>1. dbq' \in Seq(DbRequests) /\ uiq' \in Seq(UiEvents)
  BY <1>0
<1>2. \A type, id : AskedIn(dbq, type, id) = AskedIn(Tail(dbq), type, id) \union Asks(Head(dbq), type, id)
  BY ONLY <1>0, dbq # <<>>, AskedTail
<1>3. \A type, id : AskedIn(Append(uiq, reply), type, id)
                      = AskedIn(uiq, type, id) \union Asks(reply, type, id)
  BY ONLY <1>0, reply \in UiEvents, AskedAppend
<1>4. \A type, id : /\ AskedIn(dbq, type, id) = AskedIn(dbq', type, id) \union Asks(e, type, id)
                    /\ AskedIn(uiq', type, id) = AskedIn(uiq, type, id) \union Asks(reply, type, id)
  BY <1>2, <1>3
<1>5. /\ <<e.type, reply.type>> \in {<<"get_qps", "qps">>, <<"get_domains", "domains">>,
                                     <<"get_details", "details">>}
      /\ reply.id = e.id /\ Subject(reply) = Subject(e)
  OBVIOUS
<1>6. Before(dbq', "get_qps", "get_domains", c)
  BY <1>0, BeforeTail DEF PageInv, ChartBeforeList
<1>7. ASSUME e.type = "get_domains", e.id = c PROVE AskedIn(dbq, "get_qps", c) = {}
  <2>1. Before(dbq, "get_qps", "get_domains", c)
    BY DEF PageInv, ChartBeforeList
  <2> QED  BY ONLY <1>0, <1>7, <2>1, dbq # <<>>, NoneBeforeHead
<1> HIDE DEF e
<1>8. ASSUME NEW id
      PROVE  /\ ChartAsked(id)' = ChartAsked(id)
             /\ ListAsked(id)' = ListAsked(id)
             /\ DetailsAsked(id)' = DetailsAsked(id)
  <2>1. CASE e.type = "get_qps" /\ reply.type = "qps"
    BY ONLY <1>4, <1>5, <2>1 DEF ChartAsked, ListAsked, DetailsAsked, Asks
  <2>2. CASE e.type = "get_domains" /\ reply.type = "domains"
    BY ONLY <1>4, <1>5, <2>2 DEF ChartAsked, ListAsked, DetailsAsked, Asks
  <2>3. CASE e.type = "get_details" /\ reply.type = "details"
    BY ONLY <1>4, <1>5, <2>3 DEF ChartAsked, ListAsked, DetailsAsked, Asks
  <2> QED  BY <1>5, <2>1, <2>2, <2>3
<1>9. Before(uiq', "qps", "domains", c)
  <2>1. ASSUME reply.type = "qps", reply.id = c PROVE AskedIn(uiq, "domains", c) = {}
    <3>1. e.type = "get_qps" /\ e.id = c
      BY <1>5, <2>1
    <3>2. AskedIn(dbq, "get_qps", c) # {}
      BY <1>4, <3>1 DEF Asks
    <3> QED  BY <3>2 DEF PageInv, ChartBeforeList
  <2> QED  BY <1>0, <2>1, BeforeAppend DEF PageInv, ChartBeforeList
<1>10. ASSUME AskedIn(uiq', "domains", c) # {} PROVE AskedIn(dbq', "get_qps", c) = {}
  <2>1. CASE AskedIn(uiq, "domains", c) # {}
    <3>1. AskedIn(dbq, "get_qps", c) = {}
      BY <2>1 DEF PageInv, ChartBeforeList
    <3> QED  BY ONLY <3>1, <1>4
  <2>2. CASE reply.type = "domains" /\ reply.id = c
    <3>1. e.type = "get_domains" /\ e.id = c
      BY <1>5, <2>2
    <3> QED  BY ONLY <1>4, <1>7, <3>1
  <2> QED  BY <1>4, <1>10, <2>1, <2>2 DEF Asks
<1> QED  BY <1>1, <1>8, <1>6, <1>9, <1>10 DEF ChartBeforeList

\* A new id, under which the chart and the list are asked for w.
LEMMA DataRequested ==
  ASSUME PageInv, NEW w \in Windows, RequestData(w),
         uiq' \in Seq(UiEvents), UNCHANGED current_details_request_id_,
         \A type \in UiTypes : \A id : AskedIn(uiq', type, id) = AskedIn(uiq, type, id)
  PROVE  /\ dbq' \in Seq(DbRequests) /\ current_request_id_' \in Nat
         /\ ToChart' # {} /\ ToList' # {} /\ ToDetails' = ToDetails
         /\ \A s \in ToChart' \union ToList' : s.asked = w
         /\ IdsKnown' /\ ChartBeforeList'
<1> DEFINE n == current_request_id_ + 1
           q == QpsRequest(n, w)
           d == DomainsRequest(n, w)
           r == Append(dbq, q)
<1>1. /\ current_request_id_' = n /\ n \in Nat /\ n > current_request_id_
      /\ dbq' = dbq \o <<q, d>> /\ dbq \in Seq(DbRequests)
  BY QueuesTyped DEF RequestData, PageInv, TypeOK
<1>2. q \in DbRequests /\ d \in DbRequests
  BY <1>1 DEF QpsRequest, DomainsRequest, DbRequests
<1>3. /\ q.type = "get_qps" /\ q.id = n /\ Subject(q).asked = w
      /\ d.type = "get_domains" /\ d.id = n /\ Subject(d).asked = w
  BY DEF QpsRequest, DomainsRequest, Subject
<1> HIDE DEF q, d, n
<1>4. dbq' = Append(r, d) /\ r \in Seq(DbRequests) /\ dbq' \in Seq(DbRequests)
  BY <1>1, <1>2
<1> HIDE DEF r
<1>5. \A type, id : AskedIn(dbq', type, id)
                      = AskedIn(dbq, type, id) \union Asks(q, type, id) \union Asks(d, type, id)
  <2>1. \A type, id : AskedIn(Append(dbq, q), type, id)
                        = AskedIn(dbq, type, id) \union Asks(q, type, id)
    BY ONLY <1>1, <1>2, AskedAppend
  <2>2. \A type, id : AskedIn(Append(r, d), type, id)
                        = AskedIn(r, type, id) \union Asks(d, type, id)
    BY ONLY <1>2, <1>4, AskedAppend
  <2> QED  BY <1>4, <2>1, <2>2 DEF r
<1>6. ASSUME NEW id
      PROVE  /\ id = n => /\ ChartAsked(id)' = ChartAsked(id) \union {Subject(q)}
                          /\ ListAsked(id)' = ListAsked(id) \union {Subject(d)}
             /\ id # n => ChartAsked(id)' = ChartAsked(id) /\ ListAsked(id)' = ListAsked(id)
             /\ DetailsAsked(id)' = DetailsAsked(id)
  <2>1. /\ AskedIn(uiq', "qps", id) = AskedIn(uiq, "qps", id)
        /\ AskedIn(uiq', "domains", id) = AskedIn(uiq, "domains", id)
        /\ AskedIn(uiq', "details", id) = AskedIn(uiq, "details", id)
    BY DEF UiTypes
  <2> QED  BY ONLY <1>3, <1>5, <2>1 DEF ChartAsked, ListAsked, DetailsAsked, Asks
<1>7. ChartAsked(n) = {} /\ ListAsked(n) = {}
  BY <1>1 DEF PageInv, IdsKnown
<1>8. /\ ToChart' = {Subject(q)} /\ ToList' = {Subject(d)} /\ ToDetails' = ToDetails
  <2>1. ASSUME NEW id, id = n
        PROVE  ChartAsked(id)' = {Subject(q)} /\ ListAsked(id)' = {Subject(d)}
    BY <1>6, <1>7, <2>1
  <2>2. PICK id : id = n
    OBVIOUS
  <2>3. ToChart' = ChartAsked(id)' /\ ToList' = ListAsked(id)'
    BY ONLY <1>1, <2>2 DEF ToChart, ToList, ChartAsked, ListAsked
  <2>4. ToDetails' = ToDetails
    <3>1. PICK k : k = current_details_request_id_
      OBVIOUS
    <3>2. DetailsAsked(k)' = DetailsAsked(k)
      BY <1>6
    <3> QED  BY <3>1, <3>2 DEF ToDetails, DetailsAsked
  <2> QED  BY <2>1, <2>2, <2>3, <2>4
<1>9. IdsKnown'
  <2>1. ASSUME NEW id \in Nat, id > n PROVE ChartAsked(id)' = {} /\ ListAsked(id)' = {}
    <3>1. id > current_request_id_ /\ id # n
      BY <1>1, <2>1 DEF PageInv, TypeOK, n
    <3> QED  BY <1>6, <3>1 DEF PageInv, IdsKnown
  <2>2. ASSUME NEW id \in Nat, id > current_details_request_id_ PROVE DetailsAsked(id)' = {}
    BY <1>6, <2>2 DEF PageInv, IdsKnown
  <2> QED  BY <1>1, <2>1, <2>2 DEF IdsKnown
<1>10. ChartBeforeList'
  <2>1. /\ AskedIn(dbq, "get_qps", n) = {} /\ AskedIn(dbq, "get_domains", n) = {}
        /\ AskedIn(uiq, "qps", n) = {} /\ AskedIn(uiq, "domains", n) = {}
    BY <1>7 DEF ChartAsked, ListAsked
  <2>2. Before(dbq, "get_qps", "get_domains", n)
    BY <2>1, NoneIsBefore
  <2>3. Before(r, "get_qps", "get_domains", n)
    BY <1>1, <1>2, <2>1, <2>2, BeforeAppend DEF r
  <2>4. Before(dbq', "get_qps", "get_domains", n)
    BY <1>2, <1>3, <1>4, <2>3, BeforeAppend
  <2>5. AskedIn(uiq', "qps", n) = {} /\ AskedIn(uiq', "domains", n) = {}
    BY <2>1 DEF UiTypes
  <2>6. Before(uiq', "qps", "domains", n)
    BY <2>5, NoneIsBefore
  <2> QED  BY <1>1, <2>4, <2>5, <2>6 DEF ChartBeforeList
<1> QED  BY <1>1, <1>3, <1>4, <1>8, <1>9, <1>10

\* A new id, under which the details of a domain are asked for.
LEMMA DetailsRequested ==
  ASSUME PageInv, NEW domain \in Domains, RequestDetails(domain)
  PROVE  /\ dbq' \in Seq(DbRequests)
         /\ current_details_request_id_' = current_details_request_id_ + 1
         /\ AskedIn(dbq', "get_details", current_details_request_id_')
              = {[domain |-> domain, asked |-> ViewWindow]}
         /\ \A id : id # current_details_request_id_' =>
              AskedIn(dbq', "get_details", id) = AskedIn(dbq, "get_details", id)
         /\ \A type \in {"get_qps", "get_domains"} : \A id :
              AskedIn(dbq', type, id) = AskedIn(dbq, type, id)
         /\ Before(dbq', "get_qps", "get_domains", current_request_id_)
<1> DEFINE n == current_details_request_id_ + 1
           e == DetailsRequest(n, domain, ViewWindow)
<1>1. /\ current_details_request_id_' = n /\ n \in Nat /\ n > current_details_request_id_
      /\ dbq' = Append(dbq, e) /\ dbq \in Seq(DbRequests)
  BY QueuesTyped DEF RequestDetails, PageInv, TypeOK
<1>2. ViewWindow \in Windows
  BY DEF ViewWindow, LiveWindow, Window, Windows, PageInv, TypeOK
<1>3. e \in DbRequests
  BY <1>1, <1>2 DEF DetailsRequest, DbRequests
<1>4. e.type = "get_details" /\ e.id = n
      /\ Subject(e) = [domain |-> domain, asked |-> ViewWindow]
  BY DEF DetailsRequest, Subject
<1> HIDE DEF e, n
<1>5. \A type, id : AskedIn(dbq', type, id) = AskedIn(dbq, type, id) \union Asks(e, type, id)
  <2>1. \A type, id : AskedIn(Append(dbq, e), type, id)
                        = AskedIn(dbq, type, id) \union Asks(e, type, id)
    BY ONLY <1>1, <1>3, AskedAppend
  <2> QED  BY <1>1, <2>1
<1>6. AskedIn(dbq, "get_details", n) = {}
  BY <1>1 DEF PageInv, IdsKnown, DetailsAsked
<1>7. Before(dbq', "get_qps", "get_domains", current_request_id_)
  BY <1>1, <1>3, <1>4, BeforeAppend DEF PageInv, ChartBeforeList
<1>8. dbq' \in Seq(DbRequests)
  BY <1>1, <1>3
<1>9. e.type = "get_details" /\ e.id = n
  BY <1>4
<1>12. AskedIn(dbq', "get_details", n) = {Subject(e)}
  <2>1. Asks(e, "get_details", n) = {Subject(e)}
    BY ONLY <1>9 DEF Asks
  <2> QED  BY ONLY <1>5, <1>6, <2>1
<1>10. ASSUME NEW id, id # n
       PROVE  AskedIn(dbq', "get_details", id) = AskedIn(dbq, "get_details", id)
  <2>1. Asks(e, "get_details", id) = {}
    BY ONLY <1>9, <1>10 DEF Asks
  <2>2. AskedIn(dbq', "get_details", id)
          = AskedIn(dbq, "get_details", id) \union Asks(e, "get_details", id)
    BY ONLY <1>5
  <2> QED  BY ONLY <2>1, <2>2
<1>11. ASSUME NEW type \in {"get_qps", "get_domains"}, NEW id
       PROVE  AskedIn(dbq', type, id) = AskedIn(dbq, type, id)
  <2>1. Asks(e, type, id) = {}
    BY ONLY <1>9, type \in {"get_qps", "get_domains"} DEF Asks
  <2>2. AskedIn(dbq', type, id) = AskedIn(dbq, type, id) \union Asks(e, type, id)
    BY ONLY <1>5
  <2> QED  BY ONLY <2>1, <2>2
<1> QED  BY <1>1, <1>4, <1>7, <1>8, <1>10, <1>11, <1>12 DEF n

\* With it the details that are awaited are these, whatever reply is taken.
LEMMA DetailsAwaited ==
  ASSUME PageInv, NEW domain \in Domains, RequestDetails(domain),
         UNCHANGED current_request_id_,
         \A type \in UiTypes : \A id : AskedIn(uiq', type, id) \subseteq AskedIn(uiq, type, id)
  PROVE  /\ ToDetails' # {}
         /\ \A s \in ToDetails' : s.domain = domain /\ s.asked = ViewWindow
         /\ current_details_request_id_' \in Nat
         /\ IdsKnown'
<1> DEFINE n == current_details_request_id_ + 1
<1>1. /\ current_details_request_id_' = n /\ n \in Nat /\ n > current_details_request_id_
      /\ current_request_id_' = current_request_id_
  BY DEF RequestDetails, PageInv, TypeOK
<1>2. /\ AskedIn(dbq', "get_details", n) = {[domain |-> domain, asked |-> ViewWindow]}
      /\ \A id : id # n => AskedIn(dbq', "get_details", id) = AskedIn(dbq, "get_details", id)
      /\ \A id : /\ AskedIn(dbq', "get_qps", id) = AskedIn(dbq, "get_qps", id)
                 /\ AskedIn(dbq', "get_domains", id) = AskedIn(dbq, "get_domains", id)
  BY DetailsRequested
<1>3. \A id : /\ AskedIn(uiq', "qps", id) \subseteq AskedIn(uiq, "qps", id)
              /\ AskedIn(uiq', "domains", id) \subseteq AskedIn(uiq, "domains", id)
              /\ AskedIn(uiq', "details", id) \subseteq AskedIn(uiq, "details", id)
  BY DEF UiTypes
<1>4. AskedIn(uiq, "details", n) = {}
  BY <1>1 DEF PageInv, IdsKnown, DetailsAsked
<1>5. \A id \in Nat : id > current_request_id_' => ChartAsked(id)' = {} /\ ListAsked(id)' = {}
  BY <1>1, <1>2, <1>3 DEF PageInv, IdsKnown, ChartAsked, ListAsked
<1>6. ASSUME NEW id \in Nat, id > n PROVE DetailsAsked(id)' = {}
  <2>1. id > current_details_request_id_ /\ id # n
    BY <1>1, <1>6 DEF PageInv, TypeOK
  <2>2. DetailsAsked(id) = {}
    BY <2>1 DEF PageInv, IdsKnown
  <2> QED  BY <1>2, <1>3, <2>1, <2>2 DEF DetailsAsked
<1>7. ToDetails' = {[domain |-> domain, asked |-> ViewWindow]}
  BY <1>1, <1>2, <1>3, <1>4 DEF ToDetails, DetailsAsked
<1> QED  BY <1>1, <1>5, <1>6, <1>7 DEF IdsKnown

\* The page stays as it is.
SamePage ==
  UNCHANGED <<current_request_id_, current_details_request_id_,
              is_manual_view_active_, axis_x_, chart, domains, current, details,
              dragging_>>

\* What is not asked under a current id does not matter to the page.
LEMMA PageKept ==
  ASSUME PageInv, SamePage,
         \A id : /\ ChartAsked(id)' \subseteq ChartAsked(id)
                 /\ ListAsked(id)' \subseteq ListAsked(id)
                 /\ DetailsAsked(id)' \subseteq DetailsAsked(id),
         ToChart' = ToChart, ToList' = ToList, ToDetails' = ToDetails
  PROVE  IdsKnown' /\ PageOK'
<1>1. IdsKnown'
  BY DEF IdsKnown, SamePage, PageInv
<1>2. OneWindow'
  BY DEF OneWindow, SamePage, PageInv, PageOK
<1>3. ChartFills'
  BY DEF ChartFills, SamePage, PageInv, PageOK
<1>4. ManualWindow'
  BY DEF ManualWindow, SamePage, PageInv, PageOK
<1>5. DetailsOfCurrent'
  BY DEF DetailsOfCurrent, SamePage, PageInv, PageOK
<1> QED  BY <1>1, <1>2, <1>3, <1>4, <1>5 DEF PageOK

\* The same when only events that ask for nothing come and go.
LEMMA Unasked ==
  ASSUME PageInv, SamePage,
         \/ \E e \in UiEvents : e.type \notin UiTypes /\ uiq' = Append(uiq, e)
         \/ uiq # <<>> /\ Head(uiq).type \notin UiTypes /\ uiq' = Tail(uiq)
         \/ uiq' = uiq,
         \/ \E e \in DbRequests : e.type = "packet" /\ dbq' = Append(dbq, e)
         \/ dbq # <<>> /\ Head(dbq).type = "packet" /\ dbq' = Tail(dbq)
         \/ dbq' = dbq
  PROVE  /\ dbq' \in Seq(DbRequests) /\ uiq' \in Seq(UiEvents)
         /\ IdsKnown' /\ ChartBeforeList' /\ PageOK'
<1>1. /\ uiq' \in Seq(UiEvents)
      /\ \A type \in UiTypes : \A id : AskedIn(uiq', type, id) = AskedIn(uiq, type, id)
      /\ \A id : Before(uiq, "qps", "domains", id) => Before(uiq', "qps", "domains", id)
  BY UiUnasked DEF PageInv
<1>2. /\ dbq' \in Seq(DbRequests)
      /\ \A type \in DbTypes : \A id : AskedIn(dbq', type, id) = AskedIn(dbq, type, id)
      /\ \A id : Before(dbq, "get_qps", "get_domains", id)
                   => Before(dbq', "get_qps", "get_domains", id)
  BY DbUnasked DEF PageInv
<1>3. current_request_id_' = current_request_id_
      /\ current_details_request_id_' = current_details_request_id_
  BY DEF SamePage
<1>4. \A id : /\ ChartAsked(id)' = ChartAsked(id)
              /\ ListAsked(id)' = ListAsked(id)
              /\ DetailsAsked(id)' = DetailsAsked(id)
  BY ONLY <1>1, <1>2 DEF ChartAsked, ListAsked, DetailsAsked, UiTypes, DbTypes
<1>5. ToChart' = ToChart /\ ToList' = ToList /\ ToDetails' = ToDetails
  BY ONLY <1>1, <1>2, <1>3
    DEF ToChart, ToList, ToDetails, ChartAsked, ListAsked, DetailsAsked, UiTypes, DbTypes
<1>6. IdsKnown' /\ PageOK'
  BY <1>4, <1>5, PageKept
<1>7. ChartBeforeList'
  BY <1>1, <1>2, <1>3 DEF ChartBeforeList, PageInv, UiTypes, DbTypes
<1> QED  BY <1>1, <1>2, <1>6, <1>7

\* The current reply is taken: what else was asked is still asked.
LEMMA ReplyTaken ==
  ASSUME PageInv, uiq # <<>>, Head(uiq).type \in UiTypes, uiq' = Tail(uiq)
  PROVE  /\ uiq' \in Seq(UiEvents) /\ Head(uiq) \in UiEvents
         /\ \A type, id : AskedIn(uiq, type, id)
                            = AskedIn(uiq', type, id) \union Asks(Head(uiq), type, id)
         /\ \A type, id : AskedIn(uiq', type, id) \subseteq AskedIn(uiq, type, id)
         /\ Before(uiq', "qps", "domains", current_request_id_)
<1>1. uiq \in Seq(UiEvents)
  BY QueuesTyped DEF PageInv
<1>2. \A type, id : AskedIn(uiq, type, id)
                      = AskedIn(Tail(uiq), type, id) \union Asks(Head(uiq), type, id)
  BY ONLY <1>1, uiq # <<>>, AskedTail
<1>3. uiq' \in Seq(UiEvents) /\ Head(uiq) \in UiEvents
  BY <1>1
<1>4. Before(uiq', "qps", "domains", current_request_id_)
  BY <1>1, BeforeTail DEF PageInv, ChartBeforeList
<1>5. \A type, id : AskedIn(uiq', type, id) \subseteq AskedIn(uiq, type, id)
  BY <1>2
<1> QED  BY <1>2, <1>3, <1>4, <1>5

\* What the page awaits after fresh data was asked for.
LEMMA DataAwaited ==
  ASSUME PageInv, NEW w \in Windows, ToChart' # {}, ToList' # {}, ToDetails' = ToDetails,
         \A s \in ToChart' \union ToList' : s.asked = w,
         UNCHANGED <<chart, domains, current, details>>,
         (is_manual_view_active_ /\ ~dragging_)' => w = axis_x_'
  PROVE  PageOK'
<1>1. OneWindow'
  BY DEF OneWindow
<1>2. ChartFills'
  BY DEF ChartFills
<1>3. ManualWindow'
  BY DEF ManualWindow
<1>4. DetailsOfCurrent'
  BY DEF DetailsOfCurrent, PageInv, PageOK
<1> QED  BY <1>1, <1>2, <1>3, <1>4 DEF PageOK

-----------------------------------------------------------------------------
\* The clock, the capture thread and the database.

LEMMA PacketTyped ==
  ASSUME TypeOK, NEW domain \in Domains, NEW is_query \in BOOLEAN
  PROVE  /\ Packet(domain, now, is_query) \in UiEvents
         /\ Packet(domain, now, is_query).type = "packet"
BY DEF Packet, UiEvents, TypeOK

LEMMA TickKeeps == ASSUME PageInv, Tick PROVE PageInv'
<1>1. IdsKnown' /\ ChartBeforeList' /\ PageOK'
  BY Unasked DEF Tick, pageVars, timerVars, dragVars, listVars, userVars, SamePage
<1>2. TypeOK'
  BY DEF PageInv, TypeOK, Tick, storeVars, pageVars, timerVars, dragVars, listVars, userVars
<1> QED  BY <1>1, <1>2 DEF PageInv

LEMMA ProcessPacketKeeps == ASSUME PageInv, ProcessPacket PROVE PageInv'
<1>1. PICK domain \in Domains, is_query \in BOOLEAN :
        uiq' = Append(uiq, Packet(domain, now, is_query))
  BY DEF ProcessPacket
<1>2. /\ Packet(domain, now, is_query) \in UiEvents
      /\ Packet(domain, now, is_query).type \notin UiTypes
  BY PacketTyped DEF PageInv, UiTypes
<1>3. SamePage /\ dbq' = dbq
  BY DEF ProcessPacket, pageVars, timerVars, dragVars, listVars, userVars, SamePage
<1>4. uiq' \in Seq(UiEvents) /\ IdsKnown' /\ ChartBeforeList' /\ PageOK'
  BY <1>1, <1>2, <1>3, Unasked
<1>5. TypeOK'
  BY <1>4
    DEF PageInv, TypeOK, ProcessPacket, storeVars, pageVars, timerVars, dragVars, listVars, userVars
<1> QED  BY <1>4, <1>5 DEF PageInv

LEMMA InitializeKeeps == ASSUME PageInv, Initialize PROVE PageInv'
<1>1. DatabaseReady \in UiEvents /\ DatabaseReady.type \notin UiTypes
  BY DEF DatabaseReady, UiEvents, UiTypes
<1>2. SamePage /\ dbq' = dbq /\ (uiq' = Append(uiq, DatabaseReady) \/ uiq' = uiq)
  BY DEF Initialize, pageVars, timerVars, dragVars, listVars, userVars, SamePage
<1>3. uiq' \in Seq(UiEvents) /\ IdsKnown' /\ ChartBeforeList' /\ PageOK'
  BY <1>1, <1>2, Unasked
<1>4. dns_logs' \subseteq dns_logs /\ db_open' \in BOOLEAN /\ initialized' = TRUE
  BY DEF Initialize, PruneOldData
<1>5. TypeOK'
  BY <1>3, <1>4
    DEF PageInv, TypeOK, Initialize, pageVars, timerVars, dragVars, listVars, userVars
<1> QED  BY <1>3, <1>5 DEF PageInv

\* The request at the head is of its type.
LEMMA HeadRequest ==
  ASSUME PageInv, NEW type, NextRequest(type)
  PROVE  dbq # <<>> /\ Head(dbq) \in DbRequests /\ Head(dbq).type = type
<1>1. dbq \in Seq(DbRequests) /\ dbq # <<>>
  BY QueuesTyped DEF PageInv, NextRequest
<1> QED  BY <1>1 DEF NextRequest

LEMMA AddDnsLogKeeps == ASSUME PageInv, AddDnsLog PROVE PageInv'
<1>1. dbq # <<>> /\ Head(dbq) \in DbRequests /\ Head(dbq).type = "packet"
  BY HeadRequest DEF AddDnsLog
<1>2. SamePage /\ uiq' = uiq /\ dbq' = Tail(dbq)
  BY DEF AddDnsLog, pageVars, timerVars, dragVars, listVars, userVars, SamePage
<1>3. dbq' \in Seq(DbRequests) /\ IdsKnown' /\ ChartBeforeList' /\ PageOK'
  BY <1>1, <1>2, Unasked
<1>4. Head(dbq) \in [type : {"packet"}, domain : Domains, ts : Nat, is_query : BOOLEAN]
  <2>1. PICK e \in DbRequests : e = Head(dbq) /\ e.type = "packet"
    BY <1>1
  <2> QED  BY ONLY <2>1, RequestParts
<1>5. dns_logs' \subseteq
        [type : {"packet"}, domain : Domains, ts : Nat, is_query : BOOLEAN]
  BY <1>4 DEF AddDnsLog, PageInv, TypeOK
<1>6. TypeOK'
  BY <1>3, <1>5
    DEF PageInv, TypeOK, AddDnsLog, pageVars, timerVars, dragVars, listVars, userVars
<1> QED  BY <1>3, <1>6 DEF PageInv

\* A reply that says what was asked leaves the page as it is.
LEMMA ReplyKeeps ==
  ASSUME PageInv, NEW type, NextRequest(type), NEW reply \in UiEvents,
         <<type, reply.type>> \in
            {<<"get_qps", "qps">>, <<"get_domains", "domains">>, <<"get_details", "details">>},
         reply.id = Head(dbq).id, Subject(reply) = Subject(Head(dbq)),
         dbq' = Tail(dbq), uiq' = Append(uiq, reply),
         UNCHANGED <<now, packets, storeVars, pageVars>>
  PROVE  PageInv'
<1>1. dbq # <<>> /\ Head(dbq).type = type
  BY DEF NextRequest
<1>2. SamePage
  BY DEF pageVars, timerVars, dragVars, listVars, userVars, SamePage
<1>3. current_request_id_' = current_request_id_
      /\ current_details_request_id_' = current_details_request_id_
  BY <1>2 DEF SamePage
<1>4. /\ dbq' \in Seq(DbRequests) /\ uiq' \in Seq(UiEvents)
      /\ \A id : /\ ChartAsked(id)' = ChartAsked(id)
                 /\ ListAsked(id)' = ListAsked(id)
                 /\ DetailsAsked(id)' = DetailsAsked(id)
      /\ ChartBeforeList'
  BY <1>1, <1>3, Answered
<1>5. ToChart' = ToChart /\ ToList' = ToList /\ ToDetails' = ToDetails
  BY ONLY <1>3, <1>4
    DEF ToChart, ToList, ToDetails, ChartAsked, ListAsked, DetailsAsked
<1>6. IdsKnown' /\ PageOK'
  BY <1>2, <1>4, <1>5, PageKept
<1>7. TypeOK'
  BY <1>4 DEF PageInv, TypeOK, storeVars, pageVars, timerVars, dragVars, listVars, userVars
<1> QED  BY <1>4, <1>6, <1>7 DEF PageInv

\* A set of natural numbers that is not empty has a least element.
LEMMA LeastTime ==
  ASSUME NEW T \in SUBSET Nat, T # {}
  PROVE  Min(T) \in Nat
<1>1. PICK t \in T : \A u \in T : ~(<<u, t>> \in OpToRel(<, Nat))
  BY NatLessThanWellFounded, WFMin
<1>2. ASSUME NEW u \in T PROVE t <= u
  <2>1. <<u, t>> \in OpToRel(<, Nat) <=> u < t
    BY DEF OpToRel
  <2>2. ~(u < t) /\ u \in Nat /\ t \in Nat
    BY <1>1, <2>1
  <2> QED  BY <2>2
<1> QED  BY <1>2 DEF Min

\* What a query finds are records, and its first interval is a time.
LEMMA FoundFacts ==
  ASSUME TypeOK, NEW w, NEW records \in QpsFound(w) \union DomainsFound(w)
  PROVE  /\ FirstInterval(records) \in Int \union {NoTime}
         /\ {r.domain : r \in records} \in SUBSET Domains
<1>1. records \subseteq [type : {"packet"}, domain : Domains, ts : Nat, is_query : BOOLEAN]
  <2>1. records \subseteq Matching(w)
    BY DEF QpsFound, DomainsFound, Found, UpToInterval, OfSomeDomains
  <2> QED  BY <2>1 DEF Matching, TypeOK
<1> DEFINE times == {r.ts : r \in {q \in records : q.is_query}}
<1>2. times \in SUBSET Nat
  <2>1. ASSUME NEW r \in records PROVE r.ts \in Nat
    BY <1>1
  <2> QED  BY <2>1
<1>0. FirstInterval(records)
        = IF times = {} THEN NoTime ELSE (Min(times) \div ChartInterval) * ChartInterval
  BY Zenon DEF FirstInterval, Interval
<1> HIDE DEF times
<1>3. ASSUME times = {} PROVE FirstInterval(records) \in Int \union {NoTime}
  BY <1>0, <1>3
<1>4. ASSUME times # {} PROVE FirstInterval(records) \in Int \union {NoTime}
  <2>1. Min(times) \in Nat /\ ChartInterval \in Nat \ {0}
    BY <1>2, <1>4, LeastTime
  <2>2. FirstInterval(records) = (Min(times) \div ChartInterval) * ChartInterval
    BY <1>0, <1>4
  <2>3. (Min(times) \div ChartInterval) * ChartInterval \in Int
    BY <2>1
  <2> QED  BY <2>2, <2>3
<1>5. {r.domain : r \in records} \in SUBSET Domains
  BY <1>1
<1> QED  BY <1>3, <1>4, <1>5

LEMMA GetQpsStatsKeeps == ASSUME PageInv, GetQpsStats PROVE PageInv'
<1>1. PICK records \in QpsFound(Head(dbq).asked) :
        uiq' = Append(uiq, QpsStatsReady(Head(dbq).id, Head(dbq).asked, FirstInterval(records)))
  BY DEF GetQpsStats
<1> DEFINE reply == QpsStatsReady(Head(dbq).id, Head(dbq).asked, FirstInterval(records))
<1>2. Head(dbq).id \in Nat /\ Head(dbq).asked \in Windows /\ Head(dbq).type = "get_qps"
  BY HeadRequest, RequestParts DEF GetQpsStats, DbTypes
<1>3. FirstInterval(records) \in Int \union {NoTime}
  BY FoundFacts DEF PageInv
<1>4. reply \in UiEvents
  BY <1>2, <1>3 DEF QpsStatsReady, UiEvents
<1>5. /\ reply.type = "qps" /\ reply.id = Head(dbq).id
      /\ Subject(reply) = Subject(Head(dbq))
  BY <1>2 DEF QpsStatsReady, Subject
<1> HIDE DEF reply
<1> QED  BY <1>1, <1>4, <1>5, ReplyKeeps DEF GetQpsStats, reply

LEMMA GetAllDomainsKeeps == ASSUME PageInv, GetAllDomains PROVE PageInv'
<1>1. PICK records \in DomainsFound(Head(dbq).asked) :
        uiq' = Append(uiq, AllDomainsReady(Head(dbq).id, Head(dbq).asked,
                                           {r.domain : r \in records}))
  BY DEF GetAllDomains
<1> DEFINE reply == AllDomainsReady(Head(dbq).id, Head(dbq).asked, {r.domain : r \in records})
<1>2. Head(dbq).id \in Nat /\ Head(dbq).asked \in Windows /\ Head(dbq).type = "get_domains"
  BY HeadRequest, RequestParts DEF GetAllDomains, DbTypes
<1>3. {r.domain : r \in records} \in SUBSET Domains
  BY FoundFacts DEF PageInv
<1>4. reply \in UiEvents
  BY <1>2, <1>3 DEF AllDomainsReady, UiEvents
<1>5. /\ reply.type = "domains" /\ reply.id = Head(dbq).id
      /\ Subject(reply) = Subject(Head(dbq))
  BY <1>2 DEF AllDomainsReady, Subject
<1> HIDE DEF reply
<1> QED  BY <1>1, <1>4, <1>5, ReplyKeeps DEF GetAllDomains, reply

LEMMA GetDnsDetailsKeeps == ASSUME PageInv, GetDnsDetailsForDomain PROVE PageInv'
<1> DEFINE reply == DnsDetailsReady(Head(dbq).id, Head(dbq).asked, Head(dbq).domain)
<1>1. /\ Head(dbq).id \in Nat /\ Head(dbq).asked \in Windows /\ Head(dbq).type = "get_details"
      /\ Head(dbq).domain \in Domains
  BY HeadRequest, RequestParts DEF GetDnsDetailsForDomain, DbTypes
<1>2. reply \in UiEvents
  BY <1>1 DEF DnsDetailsReady, UiEvents
<1>3. /\ reply.type = "details" /\ reply.id = Head(dbq).id
      /\ Subject(reply) = Subject(Head(dbq))
  BY <1>1 DEF DnsDetailsReady, Subject
<1>4. uiq' = Append(uiq, reply)
  BY DEF GetDnsDetailsForDomain
<1> HIDE DEF reply
<1> QED  BY <1>2, <1>3, <1>4, ReplyKeeps DEF GetDnsDetailsForDomain

-----------------------------------------------------------------------------
\* The handlers of the posted events.

\* The event at the head is of its type.
LEMMA HeadEvent ==
  ASSUME PageInv, NEW type, NextEvent(type)
  PROVE  uiq # <<>> /\ Head(uiq) \in UiEvents /\ Head(uiq).type = type
<1>1. uiq \in Seq(UiEvents) /\ uiq # <<>>
  BY QueuesTyped DEF PageInv, NextEvent
<1> QED  BY <1>1 DEF NextEvent

LEMMA ForwardPacketKeeps == ASSUME PageInv, ForwardPacket PROVE PageInv'
<1>1. uiq # <<>> /\ Head(uiq) \in UiEvents /\ Head(uiq).type = "packet"
  BY HeadEvent DEF ForwardPacket
<1>2. Head(uiq) \in DbRequests /\ Head(uiq).type \notin UiTypes
  BY <1>1, ReplyParts DEF UiTypes
<1>3. SamePage /\ uiq' = Tail(uiq) /\ dbq' = Append(dbq, Head(uiq))
  BY DEF ForwardPacket, pageVars, timerVars, dragVars, listVars, userVars, SamePage
<1>4. /\ dbq' \in Seq(DbRequests) /\ uiq' \in Seq(UiEvents)
      /\ IdsKnown' /\ ChartBeforeList' /\ PageOK'
  BY <1>1, <1>2, <1>3, Unasked
<1>5. TypeOK'
  BY <1>4
    DEF PageInv, TypeOK, ForwardPacket, storeVars, pageVars, timerVars, dragVars, listVars, userVars
<1> QED  BY <1>4, <1>5 DEF PageInv

\* The window in view, which is that of the axis in the manual view.
LEMMA ViewWindowTyped ==
  ASSUME TypeOK
  PROVE  /\ ViewWindow \in Windows /\ LiveWindow \in Windows
         /\ is_manual_view_active_ => ViewWindow = axis_x_
BY DEF ViewWindow, LiveWindow, Window, Windows, TypeOK

LEMMA TriggerInitialLoadKeeps == ASSUME PageInv, TriggerInitialLoad PROVE PageInv'
<1>1. uiq # <<>> /\ Head(uiq) \in UiEvents /\ Head(uiq).type \notin UiTypes
  BY HeadEvent DEF TriggerInitialLoad, UiTypes
<1>2. CASE dbq' = dbq /\ current_request_id_' = current_request_id_
  <2>1. SamePage /\ uiq' = Tail(uiq)
    BY <1>2 DEF TriggerInitialLoad, dragVars, listVars, userVars, SamePage
  <2>2. uiq' \in Seq(UiEvents) /\ IdsKnown' /\ ChartBeforeList' /\ PageOK'
    BY <1>1, <1>2, <2>1, Unasked
  <2>3. refresh_timer_' \in BOOLEAN
    BY DEF TriggerInitialLoad, PageInv, TypeOK
  <2>4. TypeOK'
    BY <1>2, <2>2, <2>3
      DEF PageInv, TypeOK, TriggerInitialLoad, storeVars, dragVars, listVars, userVars
  <2> QED  BY <2>2, <2>4 DEF PageInv
<1>3. CASE RequestData(ViewWindow) /\ refresh_timer_' = TRUE
  <2>1. /\ uiq' \in Seq(UiEvents)
        /\ \A type \in UiTypes : \A id : AskedIn(uiq', type, id) = AskedIn(uiq, type, id)
    <3>1. TypeOK /\ uiq' = Tail(uiq)
      BY DEF PageInv, TriggerInitialLoad
    <3> QED  BY <1>1, <3>1, UiUnasked
  <2>2. /\ ViewWindow \in Windows /\ current_details_request_id_' = current_details_request_id_
        /\ is_manual_view_active_ => ViewWindow = axis_x_
    BY ViewWindowTyped DEF PageInv, TriggerInitialLoad
  <2>3. /\ dbq' \in Seq(DbRequests) /\ current_request_id_' \in Nat
        /\ ToChart' # {} /\ ToList' # {} /\ ToDetails' = ToDetails
        /\ \A s \in ToChart' \union ToList' : s.asked = ViewWindow
        /\ IdsKnown' /\ ChartBeforeList'
    BY <1>3, <2>1, <2>2, DataRequested
  <2>4. /\ UNCHANGED <<chart, domains, current, details>>
        /\ (is_manual_view_active_ /\ ~dragging_)' => ViewWindow = axis_x_'
    BY <2>2 DEF TriggerInitialLoad, listVars, userVars
  <2>5. PageOK'
    BY <2>2, <2>3, <2>4, DataAwaited
  <2>6. TypeOK'
    BY <1>3, <2>1, <2>3
      DEF PageInv, TypeOK, TriggerInitialLoad, storeVars, dragVars, listVars, userVars
  <2> QED  BY <2>3, <2>5, <2>6 DEF PageInv
<1> QED  BY <1>2, <1>3 DEF TriggerInitialLoad

LEMMA IgnoreStaleReplyKeeps == ASSUME PageInv, IgnoreStaleReply PROVE PageInv'
<1>1. uiq # <<>> /\ Head(uiq).type \in UiTypes /\ uiq' = Tail(uiq)
  BY DEF IgnoreStaleReply, NextEvent, UiTypes
<1>2. /\ uiq' \in Seq(UiEvents)
      /\ \A type, id : AskedIn(uiq, type, id)
                         = AskedIn(uiq', type, id) \union Asks(Head(uiq), type, id)
      /\ \A type, id : AskedIn(uiq', type, id) \subseteq AskedIn(uiq, type, id)
      /\ Before(uiq', "qps", "domains", current_request_id_)
  BY <1>1, ReplyTaken
<1>3. SamePage /\ dbq' = dbq
  BY DEF IgnoreStaleReply, pageVars, timerVars, dragVars, listVars, userVars, SamePage
<1>4. /\ Asks(Head(uiq), "qps", current_request_id_) = {}
      /\ Asks(Head(uiq), "domains", current_request_id_) = {}
      /\ Asks(Head(uiq), "details", current_details_request_id_) = {}
  BY DEF IgnoreStaleReply, IsStale, Asks
<1>5. /\ AskedIn(uiq', "qps", current_request_id_) = AskedIn(uiq, "qps", current_request_id_)
      /\ AskedIn(uiq', "domains", current_request_id_)
           = AskedIn(uiq, "domains", current_request_id_)
      /\ AskedIn(uiq', "details", current_details_request_id_)
           = AskedIn(uiq, "details", current_details_request_id_)
  BY <1>2, <1>4
<1>6. current_request_id_' = current_request_id_
      /\ current_details_request_id_' = current_details_request_id_
  BY <1>3 DEF SamePage
<1>7. ToChart' = ToChart /\ ToList' = ToList /\ ToDetails' = ToDetails
  BY ONLY <1>3, <1>5, <1>6
    DEF ToChart, ToList, ToDetails, ChartAsked, ListAsked, DetailsAsked
<1>8. \A id : /\ ChartAsked(id)' \subseteq ChartAsked(id)
              /\ ListAsked(id)' \subseteq ListAsked(id)
              /\ DetailsAsked(id)' \subseteq DetailsAsked(id)
  BY <1>2, <1>3 DEF ChartAsked, ListAsked, DetailsAsked
<1>9. IdsKnown' /\ PageOK'
  BY <1>3, <1>7, <1>8, PageKept
<1>10. ChartBeforeList'
  BY <1>2, <1>3, <1>5, <1>6 DEF ChartBeforeList, PageInv
<1>11. TypeOK'
  BY <1>2
    DEF PageInv, TypeOK, IgnoreStaleReply, storeVars, pageVars, timerVars, dragVars, listVars,
        userVars
<1> QED  BY <1>9, <1>10, <1>11 DEF PageInv

\* What is taken from the queue, and what is awaited no more.
LEMMA CurrentReplyTaken ==
  ASSUME PageInv, NEW type \in UiTypes, NextEvent(type), ~IsStale(Head(uiq)),
         uiq' = Tail(uiq), UNCHANGED <<dbq, current_request_id_, current_details_request_id_>>
  PROVE  /\ uiq' \in Seq(UiEvents)
         /\ type = "qps" =>
              /\ ToChart = ToChart' \union {Subject(Head(uiq))}
              /\ ToList' = ToList /\ ToDetails' = ToDetails
         /\ type = "details" =>
              /\ ToDetails = ToDetails' \union {Subject(Head(uiq))}
              /\ ToChart' = ToChart /\ ToList' = ToList
         /\ IdsKnown' /\ ChartBeforeList'
<1>1. uiq # <<>> /\ Head(uiq).type = type
  BY DEF NextEvent
<1>2. /\ uiq' \in Seq(UiEvents)
      /\ \A t, id : AskedIn(uiq, t, id) = AskedIn(uiq', t, id) \union Asks(Head(uiq), t, id)
      /\ \A t, id : AskedIn(uiq', t, id) \subseteq AskedIn(uiq, t, id)
      /\ Before(uiq', "qps", "domains", current_request_id_)
  BY <1>1, ReplyTaken
<1>3. type = "qps" =>
        /\ Asks(Head(uiq), "qps", current_request_id_) = {Subject(Head(uiq))}
        /\ Asks(Head(uiq), "domains", current_request_id_) = {}
        /\ Asks(Head(uiq), "details", current_details_request_id_) = {}
  BY <1>1 DEF IsStale, Asks
<1>4. type = "details" =>
        /\ Asks(Head(uiq), "details", current_details_request_id_) = {Subject(Head(uiq))}
        /\ Asks(Head(uiq), "domains", current_request_id_) = {}
        /\ Asks(Head(uiq), "qps", current_request_id_) = {}
  BY <1>1 DEF IsStale, Asks
<1>5. type = "qps" =>
        /\ ToChart = ToChart' \union {Subject(Head(uiq))}
        /\ ToList' = ToList /\ ToDetails' = ToDetails
  BY <1>2, <1>3 DEF ToChart, ToList, ToDetails, ChartAsked, ListAsked, DetailsAsked
<1>6. type = "details" =>
        /\ ToDetails = ToDetails' \union {Subject(Head(uiq))}
        /\ ToChart' = ToChart /\ ToList' = ToList
  BY <1>2, <1>4 DEF ToChart, ToList, ToDetails, ChartAsked, ListAsked, DetailsAsked
<1>7. IdsKnown'
  BY <1>2 DEF IdsKnown, PageInv, ChartAsked, ListAsked, DetailsAsked
<1>8. ChartBeforeList'
  BY <1>2 DEF ChartBeforeList, PageInv
<1> QED  BY <1>2, <1>5, <1>6, <1>7, <1>8

LEMMA HandleQpsStatsReadyKeeps == ASSUME PageInv, HandleQpsStatsReady PROVE PageInv'
<1> DEFINE s == Subject(Head(uiq))
<1>1. Head(uiq) \in UiEvents /\ Head(uiq).type = "qps"
  BY HeadEvent DEF HandleQpsStatsReady
<1>2. Head(uiq).asked \in Windows /\ Head(uiq).first \in Int \union {NoTime}
  BY <1>1, ReplyParts DEF UiTypes
<1>3. /\ uiq' \in Seq(UiEvents)
      /\ ToChart = ToChart' \union {s} /\ ToList' = ToList /\ ToDetails' = ToDetails
      /\ IdsKnown' /\ ChartBeforeList'
  <2>1. "qps" \in UiTypes /\ NextEvent("qps") /\ ~IsStale(Head(uiq)) /\ uiq' = Tail(uiq)
        /\ UNCHANGED <<dbq, current_request_id_, current_details_request_id_>>
    BY DEF HandleQpsStatsReady, UiTypes
  <2> QED  BY <2>1, CurrentReplyTaken
<1>4. s.asked = Head(uiq).asked
  BY DEF Subject
<1> HIDE DEF s
<1>5. /\ chart' = [asked |-> s.asked, drawn |-> ViewWindow]
      /\ axis_x_' = (IF is_manual_view_active_ THEN axis_x_ ELSE ViewWindow)
      /\ UNCHANGED <<domains, current, details, dragging_, is_manual_view_active_>>
  BY <1>4 DEF HandleQpsStatsReady, listVars, userVars
<1>6. ViewWindow \in Windows /\ (is_manual_view_active_ => ViewWindow = axis_x_)
  BY ViewWindowTyped DEF PageInv
<1>7. s \in ToChart /\ ToList # {} /\ \A t \in ToList : t.asked = s.asked
  BY <1>3 DEF PageInv, PageOK, OneWindow
<1>8. OneWindow'
  BY <1>3, <1>5, <1>7 DEF PageInv, PageOK, OneWindow
<1>9. ChartFills'
  BY <1>5, <1>6 DEF ChartFills
<1>10. ManualWindow'
  BY <1>3, <1>5, <1>7 DEF PageInv, PageOK, ManualWindow
<1>11. DetailsOfCurrent'
  BY <1>3, <1>5 DEF PageInv, PageOK, DetailsOfCurrent
<1>12. first_timestamp_' \in Int \union {NoTime} /\ drag_enabled_' \in BOOLEAN
  <2>1. EnableDragging(Head(uiq).first)
    BY DEF HandleQpsStatsReady
  <2>2. first_timestamp_ \in Int \union {NoTime} /\ drag_enabled_ \in BOOLEAN
    BY DEF PageInv, TypeOK
  <2>3. CASE drag_enabled_ \/ Head(uiq).first = NoTime
    BY <2>1, <2>2, <2>3 DEF EnableDragging, dragVars
  <2>4. CASE ~(drag_enabled_ \/ Head(uiq).first = NoTime)
    <3>1. /\ first_timestamp_' = (IF first_timestamp_ = NoTime THEN Head(uiq).first
                                  ELSE first_timestamp_)
          /\ drag_enabled_' = (now - first_timestamp_' > HistoryDuration)
      BY <2>1, <2>4 DEF EnableDragging
    <3>2. first_timestamp_' \in Int \union {NoTime}
      BY ONLY <1>2, <2>2, <3>1
    <3>3. drag_enabled_' \in BOOLEAN
      BY ONLY <3>1
    <3> QED  BY <3>2, <3>3
  <2> QED  BY <2>3, <2>4
<1>13. axis_x_' \in Windows /\ chart' \in [asked : Windows \cup {NoWindow},
                                          drawn : Windows \cup {NoWindow}]
  BY <1>2, <1>4, <1>5, <1>6 DEF PageInv, TypeOK
<1>14. TypeOK'
  BY <1>3, <1>12, <1>13
    DEF PageInv, TypeOK, HandleQpsStatsReady, storeVars, timerVars, listVars, userVars
<1> QED  BY <1>3, <1>8, <1>9, <1>10, <1>11, <1>14 DEF PageInv, PageOK

LEMMA HandleDnsDetailsReadyKeeps == ASSUME PageInv, HandleDnsDetailsReady PROVE PageInv'
<1> DEFINE s == Subject(Head(uiq))
<1>1. Head(uiq) \in UiEvents /\ Head(uiq).type = "details"
  BY HeadEvent DEF HandleDnsDetailsReady
<1>2. Head(uiq).asked \in Windows /\ Head(uiq).domain \in Domains
  BY <1>1, ReplyParts DEF UiTypes
<1>3. /\ uiq' \in Seq(UiEvents)
      /\ ToDetails = ToDetails' \union {s} /\ ToChart' = ToChart /\ ToList' = ToList
      /\ IdsKnown' /\ ChartBeforeList'
  <2>1. "details" \in UiTypes /\ NextEvent("details") /\ ~IsStale(Head(uiq)) /\ uiq' = Tail(uiq)
        /\ UNCHANGED <<dbq, current_request_id_, current_details_request_id_>>
    BY DEF HandleDnsDetailsReady, UiTypes
  <2> QED  BY <2>1, CurrentReplyTaken
<1>4. s.asked = Head(uiq).asked /\ s.domain = Head(uiq).domain
  BY <1>1 DEF Subject
<1> HIDE DEF s
<1>5. /\ details' = [domain |-> s.domain, asked |-> s.asked]
      /\ UNCHANGED <<chart, domains, current, axis_x_, dragging_, is_manual_view_active_>>
  BY <1>4 DEF HandleDnsDetailsReady, listVars, userVars
<1>6. s \in ToDetails /\ details'.asked = s.asked /\ details'.domain = s.domain
  BY <1>3, <1>5
<1>7. OneWindow'
  BY <1>3, <1>5 DEF PageInv, PageOK, OneWindow
<1>8. ChartFills'
  BY <1>3, <1>5 DEF PageInv, PageOK, ChartFills
<1>9. ManualWindow'
  BY <1>3, <1>5, <1>6 DEF PageInv, PageOK, ManualWindow
<1>10. DetailsOfCurrent'
  BY <1>3, <1>5, <1>6 DEF PageInv, PageOK, DetailsOfCurrent
<1>11. TypeOK'
  BY <1>2, <1>3, <1>4, <1>5
    DEF PageInv, TypeOK, HandleDnsDetailsReady, storeVars, timerVars, dragVars, listVars, userVars
<1> QED  BY <1>3, <1>7, <1>8, <1>9, <1>10, <1>11 DEF PageInv, PageOK

LEMMA HandleAllDomainsReadyKeeps == ASSUME PageInv, HandleAllDomainsReady PROVE PageInv'
<1> DEFINE h == Head(uiq)
           c == current_request_id_
           kept == Keeps(h.names)
<1>1. uiq # <<>> /\ h \in UiEvents /\ h.type = "domains" /\ h.id = c
  BY HeadEvent DEF HandleAllDomainsReady, IsStale
<1>2. h.asked \in Windows /\ h.names \in SUBSET Domains
  BY <1>1, ReplyParts DEF UiTypes
<1>3. /\ uiq' \in Seq(UiEvents)
      /\ \A type, id : AskedIn(uiq, type, id)
                         = AskedIn(uiq', type, id) \union Asks(h, type, id)
      /\ \A type, id : AskedIn(uiq', type, id) \subseteq AskedIn(uiq, type, id)
      /\ Before(uiq', "qps", "domains", c)
  <2>1. uiq # <<>> /\ Head(uiq).type \in UiTypes /\ uiq' = Tail(uiq)
    BY <1>1 DEF HandleAllDomainsReady, UiTypes
  <2> QED  BY <2>1, ReplyTaken
<1>4. /\ domains' = [names |-> h.names, asked |-> h.asked]
      /\ details' = NoDetails
      /\ has_selection' = kept
      /\ current' = (IF kept THEN current ELSE NoDomain)
      /\ UNCHANGED <<now, packets, storeVars, timerVars, current_request_id_,
                     is_manual_view_active_, axis_x_, dragVars, chart, dragging_, gestures>>
  BY DEF HandleAllDomainsReady, userVars
<1>5. /\ kept => RequestDetails(current) /\ current \in h.names
      /\ ~kept => UNCHANGED <<current_details_request_id_, dbq>>
  BY DEF HandleAllDomainsReady, ReselectDomain, Keeps
\* The chart was answered before the list.
<1>6. ToChart = {}
  <2>1. Before(uiq, "qps", "domains", c) /\ uiq \in Seq(UiEvents)
    BY QueuesTyped DEF PageInv, ChartBeforeList
  <2>2. AskedIn(uiq, "qps", c) = {}
    BY ONLY <1>1, <2>1, NoneBeforeHead
  <2>3. Asks(h, "domains", c) # {}
    BY <1>1 DEF Asks
  <2>4. AskedIn(uiq, "domains", c) # {}
    BY <1>3, <2>3
  <2>5. AskedIn(dbq, "get_qps", c) = {}
    BY <2>4 DEF PageInv, ChartBeforeList
  <2> QED  BY <2>2, <2>5 DEF ToChart, ChartAsked
<1>7. /\ Asks(h, "qps", c) = {} /\ Asks(h, "domains", c) = {Subject(h)}
      /\ Subject(h).asked = h.asked
      /\ \A id : Asks(h, "details", id) = {}
  BY <1>1 DEF Asks, Subject
<1> HIDE DEF h, kept
\* Of the queue to the database only the requests for details change.
<1>8. /\ dbq' \in Seq(DbRequests)
      /\ \A id : AskedIn(dbq', "get_qps", id) = AskedIn(dbq, "get_qps", id)
      /\ \A id : AskedIn(dbq', "get_domains", id) = AskedIn(dbq, "get_domains", id)
      /\ Before(dbq', "get_qps", "get_domains", c)
  <2>1. CASE kept
    <3>1. current \in Domains /\ RequestDetails(current)
      BY <1>2, <1>5, <2>1
    <3>2. "get_qps" \in {"get_qps", "get_domains"} /\ "get_domains" \in {"get_qps", "get_domains"}
      OBVIOUS
    <3>3. /\ dbq' \in Seq(DbRequests)
          /\ \A type \in {"get_qps", "get_domains"} : \A id :
               AskedIn(dbq', type, id) = AskedIn(dbq, type, id)
          /\ Before(dbq', "get_qps", "get_domains", current_request_id_)
      BY <3>1, DetailsRequested
    <3> QED  BY <3>2, <3>3
  <2>2. CASE ~kept
    BY <1>5, <2>2, QueuesTyped DEF PageInv, ChartBeforeList
  <2> QED  BY <2>1, <2>2
<1>9. c' = c
  BY <1>4
<1>10. ToChart' = {}
  BY <1>3, <1>6, <1>8, <1>9 DEF ToChart, ChartAsked
<1>11. ToList = ToList' \union {Subject(h)}
  BY <1>3, <1>7, <1>8, <1>9 DEF ToList, ListAsked
<1>12. ChartBeforeList'
  BY <1>3, <1>8, <1>9 DEF ChartBeforeList, PageInv
<1>13. OneWindow'
  BY <1>4, <1>6, <1>7, <1>10, <1>11 DEF PageInv, PageOK, OneWindow
<1>14. ChartFills'
  BY <1>4, <1>6, <1>10 DEF PageInv, PageOK, ChartFills
<1>15. /\ kept => /\ ToDetails' # {}
                  /\ \A s \in ToDetails' : s.domain = current /\ s.asked = ViewWindow
                  /\ IdsKnown' /\ current_details_request_id_' \in Nat
       /\ ~kept => IdsKnown' /\ current_details_request_id_' \in Nat
  <2>1. CASE kept
    <3>1. current \in Domains /\ RequestDetails(current)
      BY <1>2, <1>5, <2>1
    <3> QED  BY <1>3, <1>9, <2>1, <3>1, DetailsAwaited
  <2>2. CASE ~kept
    BY <1>3, <1>5, <1>9, <2>2
      DEF IdsKnown, PageInv, TypeOK, ChartAsked, ListAsked, DetailsAsked
  <2> QED  BY <2>1, <2>2
<1>16. is_manual_view_active_ => ViewWindow = axis_x_
  BY ViewWindowTyped DEF PageInv
<1>17. ManualWindow'
  <2>1. (is_manual_view_active_ /\ ~dragging_)' =>
          /\ \A s \in (ToChart \union ToList)' : s.asked = axis_x_'
          /\ (chart # NoChart /\ ToChart = {})' => chart'.asked = axis_x_'
    BY <1>4, <1>6, <1>10, <1>11 DEF PageInv, PageOK, ManualWindow
  <2>2. (is_manual_view_active_ /\ ~dragging_)' /\ current' # NoDomain =>
          /\ \A s \in ToDetails' : s.asked = axis_x_'
          /\ ToDetails' # {}
    BY <1>4, <1>15, <1>16
  <2> QED  BY <2>1, <2>2 DEF ManualWindow
<1>18. DetailsOfCurrent'
  BY <1>4, <1>15 DEF DetailsOfCurrent
<1>19. TypeOK'
  <2>1. domains' \in [names : SUBSET Domains, asked : Windows \cup {NoWindow}]
    BY <1>2, <1>4
  <2>2. current' \in domains'.names \cup {NoDomain} /\ has_selection' \in BOOLEAN
    BY <1>4, <1>5 DEF kept, Keeps, PageInv, TypeOK
  <2>3. details' \in [domain : Domains \cup {NoDomain}, asked : Windows \cup {NoWindow}]
    BY <1>4 DEF NoDetails
  <2> QED  BY <1>3, <1>4, <1>8, <1>15, <2>1, <2>2, <2>3
             DEF PageInv, TypeOK, storeVars, timerVars, dragVars
<1> QED  BY <1>12, <1>13, <1>14, <1>15, <1>17, <1>18, <1>19 DEF PageInv, PageOK

-----------------------------------------------------------------------------
\* The timers and the user.

\* Nothing happens to the replies while the page asks for data.
LEMMA DataRequestKeeps ==
  ASSUME PageInv, NEW w \in Windows, RequestData(w),
         UNCHANGED <<now, packets, storeVars, uiq, refresh_timer_,
                     current_details_request_id_, axis_x_, dragVars, chart,
                     listVars, details, gestures>>,
         snap_back_timer_' \in BOOLEAN, is_manual_view_active_' \in BOOLEAN,
         dragging_' \in BOOLEAN,
         (is_manual_view_active_ /\ ~dragging_)' => w = axis_x_'
  PROVE  PageInv'
<1>1. uiq' \in Seq(UiEvents)
      /\ \A type \in UiTypes : \A id : AskedIn(uiq', type, id) = AskedIn(uiq, type, id)
  BY QueuesTyped DEF PageInv
<1>2. /\ dbq' \in Seq(DbRequests) /\ current_request_id_' \in Nat
      /\ ToChart' # {} /\ ToList' # {} /\ ToDetails' = ToDetails
      /\ \A s \in ToChart' \union ToList' : s.asked = w
      /\ IdsKnown' /\ ChartBeforeList'
  BY <1>1, DataRequested
<1>3. UNCHANGED <<chart, domains, current, details>>
  BY DEF listVars
<1>4. PageOK'
  BY <1>2, <1>3, DataAwaited
<1>5. TypeOK'
  BY <1>1, <1>2 DEF PageInv, TypeOK, storeVars, dragVars, listVars
<1> QED  BY <1>2, <1>4, <1>5 DEF PageInv

LEMMA OnRefreshTimeoutKeeps == ASSUME PageInv, OnRefreshTimeout PROVE PageInv'
<1>1. /\ RequestData(ViewWindow) /\ ViewWindow \in Windows
      /\ UNCHANGED <<now, packets, storeVars, uiq, refresh_timer_,
                     current_details_request_id_, axis_x_, dragVars, chart,
                     listVars, details, gestures>>
      /\ snap_back_timer_' \in BOOLEAN /\ dragging_' \in BOOLEAN
      /\ is_manual_view_active_' = FALSE
  BY ViewWindowTyped DEF OnRefreshTimeout, timerVars, userVars, PageInv, TypeOK
<1> QED  BY <1>1, DataRequestKeeps

LEMMA SnapBackKeeps == ASSUME PageInv, SnapBackToLiveView PROVE PageInv'
<1>1. /\ RequestData(LiveWindow) /\ LiveWindow \in Windows
      /\ UNCHANGED <<now, packets, storeVars, uiq, refresh_timer_,
                     current_details_request_id_, axis_x_, dragVars, chart,
                     listVars, details, gestures>>
      /\ snap_back_timer_' \in BOOLEAN /\ dragging_' \in BOOLEAN
      /\ is_manual_view_active_' = FALSE
  BY ViewWindowTyped DEF SnapBackToLiveView, userVars, PageInv, TypeOK
<1> QED  BY <1>1, DataRequestKeeps

LEMMA MouseReleaseKeeps == ASSUME PageInv, MouseRelease PROVE PageInv'
<1>1. /\ RequestData(ViewWindow) /\ ViewWindow \in Windows
      /\ UNCHANGED <<now, packets, storeVars, uiq, refresh_timer_,
                     current_details_request_id_, axis_x_, dragVars, chart,
                     listVars, details, gestures>>
      /\ snap_back_timer_' \in BOOLEAN /\ dragging_' \in BOOLEAN
      /\ is_manual_view_active_' \in BOOLEAN
      /\ is_manual_view_active_' => ViewWindow = axis_x_'
  BY ViewWindowTyped DEF MouseRelease, StartSnapBackTimer, PageInv, TypeOK
<1> QED  BY <1>1, DataRequestKeeps

\* While the mouse is down the axis may be anywhere.
LEMMA DragKeeps ==
  ASSUME PageInv, dragging_' = TRUE, axis_x_' \in Windows, gestures' \in Nat,
         snap_back_timer_' \in BOOLEAN, is_manual_view_active_' \in BOOLEAN,
         UNCHANGED <<now, packets, storeVars, dbq, uiq, refresh_timer_,
                     current_request_id_, current_details_request_id_,
                     dragVars, chart, listVars, details>>
  PROVE  PageInv'
<1>1. ToChart' = ToChart /\ ToList' = ToList /\ ToDetails' = ToDetails
  BY DEF ToChart, ToList, ToDetails, ChartAsked, ListAsked, DetailsAsked
<1>2. IdsKnown' /\ ChartBeforeList'
  BY DEF IdsKnown, ChartBeforeList, ChartAsked, ListAsked, DetailsAsked, PageInv
<1>3. OneWindow'
  BY <1>1 DEF OneWindow, PageInv, PageOK, listVars
<1>4. ChartFills' /\ ManualWindow'
  BY DEF ChartFills, ManualWindow
<1>5. DetailsOfCurrent'
  BY <1>1 DEF DetailsOfCurrent, PageInv, PageOK, listVars
<1>6. TypeOK'
  BY DEF PageInv, TypeOK, storeVars, dragVars, listVars
<1> QED  BY <1>2, <1>3, <1>4, <1>5, <1>6 DEF PageInv, PageOK

LEMMA MousePressKeeps == ASSUME PageInv, MousePress PROVE PageInv'
BY DragKeeps DEF MousePress, StartSnapBackTimer, PageInv, TypeOK

LEMMA MouseMoveKeeps == ASSUME PageInv, MouseMove PROVE PageInv'
<1>1. PICK d \in DragSteps : axis_x_' = Window(axis_x_.min + d, axis_x_.max + d)
  BY DEF MouseMove
<1>2. d \in Int /\ axis_x_ \in Windows
  BY DEF PageInv, TypeOK
<1>3. axis_x_' \in Windows
  BY <1>1, <1>2 DEF Window, Windows
<1>4. dragging_ = TRUE
  BY DEF MouseMove, PageInv, TypeOK
<1> QED  BY <1>3, <1>4, DragKeeps DEF MouseMove, timerVars, PageInv, TypeOK

LEMMA ChooseDomainKeeps == ASSUME PageInv, ChooseDomain PROVE PageInv'
<1>1. PICK domain \in domains.names, selects \in BOOLEAN :
        current' = domain /\ has_selection' = selects /\ RequestForCurrent(domain)
  BY DEF ChooseDomain
<1>2. domain \in Domains /\ domain # NoDomain
  BY DEF PageInv, TypeOK
<1>3. /\ UNCHANGED <<now, packets, storeVars, uiq, timerVars, current_request_id_,
                     is_manual_view_active_, axis_x_, dragVars, chart, domains,
                     details, dragging_>>
      /\ gestures' \in Nat
  BY DEF ChooseDomain, PageInv, TypeOK
<1>4. CASE domain = current
  <2>1. SamePage /\ uiq' = uiq /\ dbq' = dbq
    BY <1>1, <1>3, <1>4 DEF SamePage, RequestForCurrent
  <2>2. IdsKnown' /\ ChartBeforeList' /\ PageOK'
    BY <2>1, Unasked
  <2>3. TypeOK'
    BY <1>1, <1>3, <2>1 DEF PageInv, TypeOK, storeVars, timerVars, dragVars, SamePage
  <2> QED  BY <2>2, <2>3 DEF PageInv
<1>5. CASE domain # current
  <2>1. RequestDetails(domain)
    BY <1>1, <1>5 DEF RequestForCurrent
  <2>2. /\ dbq' \in Seq(DbRequests)
        /\ \A type \in {"get_qps", "get_domains"} : \A id :
             AskedIn(dbq', type, id) = AskedIn(dbq, type, id)
        /\ Before(dbq', "get_qps", "get_domains", current_request_id_)
    BY <1>2, <2>1, DetailsRequested
  <2>3. \A id : /\ AskedIn(dbq', "get_qps", id) = AskedIn(dbq, "get_qps", id)
                /\ AskedIn(dbq', "get_domains", id) = AskedIn(dbq, "get_domains", id)
    BY <2>2
  <2>4. /\ ToDetails' # {}
        /\ \A s \in ToDetails' : s.domain = domain /\ s.asked = ViewWindow
        /\ current_details_request_id_' \in Nat
        /\ IdsKnown'
    BY <1>2, <1>3, <2>1, DetailsAwaited
  <2>5. ToChart' = ToChart /\ ToList' = ToList
    BY <1>3, <2>3 DEF ToChart, ToList, ChartAsked, ListAsked
  <2>6. ChartBeforeList'
    BY <1>3, <2>2, <2>3 DEF ChartBeforeList, PageInv
  <2>7. OneWindow'
    BY <1>3, <2>5 DEF OneWindow, PageInv, PageOK
  <2>8. ChartFills'
    BY <1>3, <2>5 DEF ChartFills, PageInv, PageOK
  <2>9. is_manual_view_active_ => ViewWindow = axis_x_
    BY ViewWindowTyped DEF PageInv
  <2>10. ManualWindow'
    BY <1>3, <2>4, <2>5, <2>9 DEF ManualWindow, PageInv, PageOK
  <2>11. DetailsOfCurrent'
    BY <1>1, <2>4 DEF DetailsOfCurrent
  <2>12. TypeOK'
    BY <1>1, <1>3, <2>2, <2>4 DEF PageInv, TypeOK, storeVars, timerVars, dragVars
  <2> QED  BY <2>4, <2>6, <2>7, <2>8, <2>10, <2>11, <2>12 DEF PageInv, PageOK
<1> QED  BY <1>4, <1>5

-----------------------------------------------------------------------------
\* The invariant, and what it says of the page.

LEMMA PageInit == ASSUME Init PROVE PageInv
<1>1. \A type, id : AskedIn(dbq, type, id) = {} /\ AskedIn(uiq, type, id) = {}
  BY DEF Init, AskedIn, Posted
<1>2. \A id : ChartAsked(id) = {} /\ ListAsked(id) = {} /\ DetailsAsked(id) = {}
  BY <1>1 DEF ChartAsked, ListAsked, DetailsAsked
<1>3. ToChart = {} /\ ToList = {} /\ ToDetails = {}
  BY <1>2 DEF ToChart, ToList, ToDetails
<1>4. IdsKnown
  BY <1>2 DEF IdsKnown
<1>5. ChartBeforeList
  BY <1>1, NoneIsBefore DEF ChartBeforeList
<1>6. PageOK
  BY <1>3 DEF Init, PageOK, OneWindow, ChartFills, ManualWindow, DetailsOfCurrent
<1>7. dns_logs \subseteq [type : {"packet"}, domain : Domains, ts : Nat, is_query : BOOLEAN]
  BY DEF Init
<1>8. dbq \in Seq(DbRequests) /\ uiq \in Seq(UiEvents)
  BY DEF Init
<1>9. TypeOK
  <2>1. axis_x_ \in Windows
    BY DEF Init, Window, Windows
  <2>2. chart \in [asked : Windows \cup {NoWindow}, drawn : Windows \cup {NoWindow}]
    BY DEF Init, NoChart
  <2>3. domains \in [names : SUBSET Domains, asked : Windows \cup {NoWindow}]
    BY DEF Init
  <2>4. details \in [domain : Domains \cup {NoDomain}, asked : Windows \cup {NoWindow}]
    BY DEF Init, NoDetails
  <2>5. current \in domains.names \cup {NoDomain} /\ first_timestamp_ \in Int \cup {NoTime}
    BY DEF Init
  <2> QED  BY <1>7, <1>8, <2>1, <2>2, <2>3, <2>4, <2>5 DEF Init, TypeOK
<1> QED  BY <1>4, <1>5, <1>6, <1>9 DEF PageInv

LEMMA PageNext == ASSUME PageInv, [Next]_vars PROVE PageInv'
<1>1. CASE Tick
  BY <1>1, TickKeeps
<1>2. CASE ProcessPacket
  BY <1>2, ProcessPacketKeeps
<1>3. CASE DatabaseThread
  BY <1>3, InitializeKeeps, AddDnsLogKeeps, GetQpsStatsKeeps, GetAllDomainsKeeps,
     GetDnsDetailsKeeps DEF DatabaseThread
<1>4. CASE PostedEvents
  BY <1>4, ForwardPacketKeeps, TriggerInitialLoadKeeps, IgnoreStaleReplyKeeps,
     HandleQpsStatsReadyKeeps, HandleAllDomainsReadyKeeps, HandleDnsDetailsReadyKeeps
     DEF PostedEvents
<1>5. CASE OnRefreshTimeout
  BY <1>5, OnRefreshTimeoutKeeps
<1>6. CASE SnapBackToLiveView
  BY <1>6, SnapBackKeeps
<1>7. CASE User
  BY <1>7, MousePressKeeps, MouseMoveKeeps, MouseReleaseKeeps, ChooseDomainKeeps DEF User
<1>8. CASE UNCHANGED vars
  <2>1. SamePage /\ dbq' = dbq /\ uiq' = uiq
    BY <1>8 DEF vars, dragVars, listVars, userVars, SamePage
  <2>2. IdsKnown' /\ ChartBeforeList' /\ PageOK'
    BY <2>1, Unasked
  <2>3. TypeOK'
    BY <1>8 DEF PageInv, TypeOK, vars, storeVars, timerVars, dragVars, listVars, userVars
  <2> QED  BY <2>2, <2>3 DEF PageInv
<1> QED  BY <1>1, <1>2, <1>3, <1>4, <1>5, <1>6, <1>7, <1>8 DEF Next

\* Every part of the page shows the answer to the newest request for it, or
\* that request is still to be answered, for the domain and the window in view.
THEOREM PageInvariant == Spec => []PageInv
BY PageInit, PageNext, PTL DEF Spec

\* The state is of its type, whatever the packets and the user do.
THEOREM PageTypeCorrect == Spec => []TypeOK
<1>1. PageInv => TypeOK
  BY DEF PageInv
<1> QED  BY <1>1, PageInvariant, PTL

\* What is awaited in the terms of the queues.
LEMMA NotAwaited ==
  /\ ~DataOutstanding => ToChart = {} /\ ToList = {}
  /\ ~DetailsOutstanding => ToDetails = {}
BY DEF DataOutstanding, DetailsOutstanding, ToChart, ToList, ToDetails,
       ChartAsked, ListAsked, DetailsAsked, AskedIn, Posted

\* While a domain of the list is current, the table of details shows that domain
\* as soon as the newest request for details is answered, however the refreshes
\* of the list come in between.
THEOREM DetailsOfCurrentShown == Spec => []DetailsFollowCurrent
<1>1. PageInv => DetailsFollowCurrent
  BY NotAwaited DEF PageInv, PageOK, DetailsOfCurrent, DetailsFollowCurrent
<1> QED  BY <1>1, PageInvariant, PTL

\* When nothing is awaited and nothing dragged, the chart fills the axis and was
\* asked for the window of the list; in the manual view this is the range of the
\* axis, and that of the details of the current domain.
THEOREM PartsBelongTogether == Spec => []PageAgrees
<1>1. PageInv => PageAgrees
  BY NotAwaited
    DEF PageInv, PageOK, OneWindow, ChartFills, ManualWindow, PageAgrees, AtRest
<1> QED  BY <1>1, PageInvariant, PTL

\* The steps that change the chart and the details.
LEMMA OnlyHandlersDraw ==
  ASSUME [Next]_vars
  PROVE  /\ chart' # chart => HandleQpsStatsReady
         /\ details' # details /\ details' # NoDetails => HandleDnsDetailsReady
<1>1. CASE Tick \/ ProcessPacket
  BY <1>1 DEF Tick, ProcessPacket, pageVars
<1>2. CASE DatabaseThread
  BY <1>2 DEF DatabaseThread, Initialize, AddDnsLog, GetQpsStats, GetAllDomains,
              GetDnsDetailsForDomain, pageVars
<1>3. CASE PostedEvents
  BY <1>3 DEF PostedEvents, ForwardPacket, TriggerInitialLoad, IgnoreStaleReply,
              HandleQpsStatsReady, HandleAllDomainsReady, HandleDnsDetailsReady, pageVars
<1>4. CASE OnRefreshTimeout \/ SnapBackToLiveView
  BY <1>4 DEF OnRefreshTimeout, SnapBackToLiveView
<1>5. CASE User
  BY <1>5 DEF User, MousePress, MouseMove, MouseRelease, ChooseDomain
<1>6. CASE UNCHANGED vars
  BY <1>6 DEF vars
<1> QED  BY <1>1, <1>2, <1>3, <1>4, <1>5, <1>6 DEF Next

\* The reply at the head that is not stale is one that is awaited.
LEMMA HeadAwaited ==
  ASSUME PageInv, NEW type \in UiTypes, NextEvent(type), ~IsStale(Head(uiq))
  PROVE  /\ type = "qps" => Subject(Head(uiq)) \in ToChart
         /\ type = "details" => Subject(Head(uiq)) \in ToDetails
<1>1. uiq # <<>> /\ uiq \in Seq(UiEvents) /\ Head(uiq).type = type
  BY QueuesTyped DEF NextEvent, PageInv
<1>2. Head(uiq) \in Posted(uiq)
  BY ONLY <1>1, PostedFacts
<1> QED  BY <1>1, <1>2 DEF IsStale, ToChart, ToDetails, ChartAsked, DetailsAsked, AskedIn

\* Once the mouse is up in the manual view, the chart is only drawn with answers
\* that were asked for the range it was left at.
THEOREM NoLateChart == Spec => NoStaleChart
<1>1. ASSUME PageInv, [Next]_vars, chart' # chart, is_manual_view_active_, ~dragging_
      PROVE  chart'.asked = axis_x_
  <2>1. HandleQpsStatsReady
    BY <1>1, OnlyHandlersDraw
  <2>2. "qps" \in UiTypes /\ NextEvent("qps") /\ ~IsStale(Head(uiq))
        /\ chart'.asked = Subject(Head(uiq)).asked
    BY <2>1 DEF HandleQpsStatsReady, Subject, UiTypes
  <2>3. Subject(Head(uiq)) \in ToChart
    BY <1>1, <2>2, HeadAwaited
  <2> QED  BY <1>1, <2>2, <2>3 DEF PageInv, PageOK, ManualWindow
<1>2. PageInv /\ [Next]_vars
        => [chart' # chart /\ is_manual_view_active_ /\ ~dragging_
              => chart'.asked = axis_x_]_vars
  BY <1>1
<1> QED  BY <1>2, PageInvariant, PTL DEF Spec, NoStaleChart

\* While a domain is current, no answer fills the table of details with those of
\* another domain.
THEOREM NoLateDetails == Spec => NoStaleDetails
<1>1. ASSUME PageInv, [Next]_vars, details' # details, details' # NoDetails,
             current # NoDomain
      PROVE  details'.domain = current
  <2>1. HandleDnsDetailsReady
    BY <1>1, OnlyHandlersDraw
  <2>2. "details" \in UiTypes /\ NextEvent("details") /\ ~IsStale(Head(uiq))
        /\ details'.domain = Subject(Head(uiq)).domain
    BY <2>1 DEF HandleDnsDetailsReady, NextEvent, Subject, UiTypes
  <2>3. Subject(Head(uiq)) \in ToDetails
    BY <1>1, <2>2, HeadAwaited
  <2> QED  BY <1>1, <2>2, <2>3 DEF PageInv, PageOK, DetailsOfCurrent
<1>2. PageInv /\ [Next]_vars
        => [details' # details /\ details' # NoDetails /\ current # NoDomain
              => details'.domain = current]_vars
  BY <1>1
<1> QED  BY <1>2, PageInvariant, PTL DEF Spec, NoStaleDetails
=============================================================================
