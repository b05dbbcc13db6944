--------------------------- MODULE WorkersProofs ---------------------------
(***************************************************************************)
(* Theorems about Workers, for any number of samples and packets: nothing  *)
(* runs on a collector or a logger that is gone, and what is collected is  *)
(* stored in order and once, but for a tail of it.                         *)
(*                                                                         *)
(* The inductive invariant adds to these what the destructor of the window *)
(* and shutdown_log rely on: which threads have ended at each step of      *)
(* main, and when the collector has a device open.                         *)
(***************************************************************************)
EXTENDS Workers, TLAPS, WellFoundedInduction

Events == Kinds \X Nat

\* Where main is when the destructor of main_window has found that every
\* thread has finished.
Beyond == {"window_gone", "flushed", "joining", "dropping", "exited"}

\* The device is open while packets arrive, and closed before its owner goes.
CaptureGuarded ==
  /\ capture # "off" => device_
  /\ device_ => loop["dns"] # "finished"
  /\ capture = "packet" => collected["packet"] < MaxPackets

\* A step of the destructor or of shutdown_log comes after what it waits for.
ShutdownOrdered ==
  /\ \A t \in Threads : quit[t] => main # "exec"
  /\ main \in Beyond => \A t \in Threads : loop[t] = "finished"
  /\ main \in {"dropping", "exited"} => flusher = "ended"
  /\ ~logger => main = "exited"

WInv ==
  /\ TypeOK
  /\ collected \in [Kinds -> Nat]
  /\ inbox["db"] \in Seq(Events)
  /\ CaptureGuarded
  /\ ShutdownOrdered
  /\ OnlyTailLost

USE WorkersAssumption

-----------------------------------------------------------------------------
\* The numbers of the events in a queue.

\* Those of one kind in q are the ones from n + 1 to last, in order.
Counted(q, k, n, last) == NumbersOf(q, k) = (n + 1)..last

\* A set of natural numbers that is not empty has a least element.
LEMMA LeastDistance ==
  ASSUME NEW D \in SUBSET Nat, D # {}
  PROVE  \E d \in D : \A c \in D : d <= c
<1>1. PICK d \in D : \A c \in D : ~(<<c, d>> \in OpToRel(<, Nat))
  BY NatLessThanWellFounded, WFMin
<1>2. ASSUME NEW c \in D PROVE d <= c
  <2>1. <<c, d>> \in OpToRel(<, Nat) <=> c < d
    BY DEF OpToRel
  <2>2. ~(c < d) /\ c \in Nat /\ d \in Nat
    BY <1>1, <2>1
  <2> QED  BY <2>2
<1> QED  BY <1>2

\* The positions of a queue.
LEMMA Positions ==
  ASSUME NEW S, NEW q \in Seq(S)
  PROVE  DOMAIN q = 1..Len(q) /\ Len(q) \in Nat
OBVIOUS

\* Whether an event is appended before or after the queues are joined.
LEMMA ConcatAppend ==
  ASSUME NEW a \in Seq(Events), NEW b \in Seq(Events), NEW e \in Events
  PROVE  /\ a \o Append(b, e) = Append(a \o b, e)
         /\ Append(a, e) \o b = a \o (<<e>> \o b)
OBVIOUS

\* The same for the removal of the first event.
LEMMA ConcatTail ==
  ASSUME NEW a \in Seq(Events), NEW b \in Seq(Events), a # <<>>
  PROVE  /\ Tail(a) \o b = Tail(a \o b) /\ Head(a \o b) = Head(a)
         /\ a \o b # <<>>
         /\ \A c \in Seq(Events) : Append(c, Head(a)) \o Tail(a) = c \o a
BY SMTT(30)

\* The numbers 1, 2, ... with the next one.
LEMMA NextNumber ==
  ASSUME NEW s \in Seq(Nat), s = [j \in DOMAIN s |-> j],
         NEW r, r = Append(s, Len(s) + 1)
  PROVE  r = [j \in DOMAIN r |-> j]
<1>1. /\ Len(s) \in Nat /\ DOMAIN s = 1..Len(s)
      /\ r \in Seq(Nat) /\ DOMAIN r = 1..(Len(s) + 1)
      /\ r[Len(s) + 1] = Len(s) + 1
      /\ \A j \in 1..Len(s) : r[j] = s[j]
  OBVIOUS
<1>2. \A j \in 1..Len(s) : s[j] = j
  BY <1>1
<1>3. \A j \in DOMAIN r : r[j] = j
  BY <1>1, <1>2
<1>4. r = [j \in DOMAIN r |-> r[j]]
  BY <1>1
<1> QED  BY <1>3, <1>4

\* What it means that a queue is in order.
LEMMA OrderOf ==
  ASSUME NEW q \in Seq(Events)
  PROVE  InOrder(q) <=>
           \A i, j \in 1..Len(q) : i < j /\ q[i][1] = q[j][1] => q[i][2] < q[j][2]
BY Positions DEF InOrder

\* The numbers of a kind are the second components of its events.
LEMMA NumberMember ==
  ASSUME NEW q \in Seq(Events), NEW k, NEW n
  PROVE  n \in NumbersOf(q, k)
           <=> \E j \in 1..Len(q) : q[j][1] = k /\ q[j][2] = n
BY Positions DEF NumbersOf

\* The head of an ordered queue carries the least number of its kind; without
\* it the others of its kind remain, and all of the other kind.
LEMMA HeadIsNext ==
  ASSUME NEW q \in Seq(Events), q # <<>>, InOrder(q),
         NEW n \in Nat, NEW last \in Nat,
         NEW k \in Kinds, Counted(q, k, n, last)
  PROVE  /\ InOrder(Tail(q)) /\ Tail(q) \in Seq(Events)
         /\ Head(q)[1] = k => /\ Head(q)[2] = n + 1
                              /\ n + 1 <= last
                              /\ Counted(Tail(q), k, n + 1, last)
         /\ Head(q)[1] # k => Counted(Tail(q), k, n, last)
<1> DEFINE r == Tail(q)
<1>1. /\ r \in Seq(Events) /\ Len(q) \in Nat /\ Len(q) > 0
      /\ Len(r) = Len(q) - 1 /\ Len(r) \in Nat /\ Head(q) = q[1] /\ Head(q) \in Events
      /\ \A j \in 1..Len(r) : r[j] = q[j + 1] /\ j + 1 \in 1..Len(q)
  OBVIOUS
<1>0. \A j \in 1..Len(q) : j # 1 => j - 1 \in 1..Len(r) /\ q[j] = r[j - 1]
  OBVIOUS
<1> HIDE DEF r
<1>2. InOrder(r)
  <2> SUFFICES ASSUME NEW i \in 1..Len(r), NEW j \in 1..Len(r),
                      i < j, r[i][1] = r[j][1]
               PROVE  r[i][2] < r[j][2]
    BY <1>1, OrderOf
  <2>1. /\ i + 1 \in 1..Len(q) /\ j + 1 \in 1..Len(q) /\ i + 1 < j + 1
        /\ r[i] = q[i + 1] /\ r[j] = q[j + 1]
    BY <1>1
  <2> QED  BY <2>1, OrderOf
<1>3. \A j \in 1..Len(q) : q[j][1] \in Kinds /\ q[j][2] \in Nat
  BY DEF Events
<1>4. ASSUME NEW m
      PROVE  m \in NumbersOf(q, k)
               <=> m \in NumbersOf(r, k) \/ (Head(q)[1] = k /\ Head(q)[2] = m)
  <2>1. ASSUME NEW j \in 1..Len(q), q[j][1] = k, q[j][2] = m, j # 1
        PROVE  m \in NumbersOf(r, k)
    <3>1. j - 1 \in 1..Len(r) /\ r[j - 1] = q[j]
      BY <1>0, <2>1
    <3> QED  BY <3>1, <2>1, <1>1, NumberMember
  <2>2. ASSUME NEW j \in 1..Len(r), r[j][1] = k, r[j][2] = m
        PROVE  m \in NumbersOf(q, k)
    <3>1. j + 1 \in 1..Len(q) /\ q[j + 1] = r[j]
      BY <1>1
    <3> QED  BY <3>1, <2>2, NumberMember
  <2>3. 1 \in 1..Len(q)
    BY <1>1
  <2> QED  BY <2>1, <2>2, <2>3, <1>1, NumberMember
<1>5. ASSUME Head(q)[1] = k PROVE Head(q)[2] \notin NumbersOf(r, k)
  <2>1. \A j \in 1..Len(r) : r[j][1] = k => Head(q)[2] < r[j][2]
    <3>1. ASSUME NEW j \in 1..Len(r), r[j][1] = k PROVE Head(q)[2] < r[j][2]
      <4>1. j + 1 \in 1..Len(q) /\ 1 \in 1..Len(q) /\ 1 < j + 1 /\ q[j + 1] = r[j]
        BY <1>1
      <4> QED  BY ZenonT(60), <4>1, <3>1, <1>1, <1>5, OrderOf
    <3> QED  BY <3>1
  <2>2. Head(q)[2] \in Nat
    BY <1>1, <1>3
  <2> QED  BY <2>1, <2>2, <1>1, NumberMember
<1>6. ASSUME Head(q)[1] = k
      PROVE  Head(q)[2] = n + 1 /\ n + 1 <= last
  <2>1. Head(q)[2] \in (n + 1)..last
    BY <1>4, <1>6 DEF Counted
  <2>2. n + 1 \in NumbersOf(q, k)
    BY <2>1 DEF Counted
  <2>3. ASSUME n + 1 \in NumbersOf(r, k) PROVE FALSE
    <3>1. PICK j \in 1..Len(r) : r[j][1] = k /\ r[j][2] = n + 1
      BY <2>3, <1>1, NumberMember
    <3>2. Head(q)[2] < n + 1
      <4>1. j + 1 \in 1..Len(q) /\ 1 \in 1..Len(q) /\ 1 < j + 1 /\ q[j + 1] = r[j]
        BY <1>1
      <4> QED  BY <4>1, <3>1, <1>1, <1>6, OrderOf
    <3> QED  BY <3>2, <2>1
  <2> QED  BY <2>1, <2>2, <2>3, <1>4
<1>7. ASSUME Head(q)[1] = k PROVE Counted(r, k, n + 1, last)
  <2>1. ASSUME NEW m PROVE m \in NumbersOf(r, k) <=> m \in (n + 1 + 1)..last
    BY <1>4, <1>5, <1>6, <1>7 DEF Counted
  <2> QED  BY <2>1 DEF Counted
<1>8. ASSUME Head(q)[1] # k PROVE Counted(r, k, n, last)
  BY <1>4, <1>8 DEF Counted
<1> QED  BY <1>1, <1>2, <1>6, <1>7, <1>8 DEF r

\* A new event with the number after the last one keeps the order.
LEMMA NextPosted ==
  ASSUME NEW q \in Seq(Events), InOrder(q),
         NEW n \in [Kinds -> Nat], NEW last \in [Kinds -> Nat],
         \A k \in Kinds : n[k] <= last[k] /\ Counted(q, k, n[k], last[k]),
         NEW kind \in Kinds
  PROVE  LET r == Append(q, <<kind, last[kind] + 1>>) IN
         /\ InOrder(r) /\ r \in Seq(Events)
         /\ \A k \in Kinds :
              Counted(r, k, n[k], IF k = kind THEN last[k] + 1 ELSE last[k])
<1> DEFINE e == <<kind, last[kind] + 1>>
           r == Append(q, e)
<1>1. /\ r \in Seq(Events) /\ Len(r) = Len(q) + 1 /\ Len(q) \in Nat /\ Len(r) \in Nat
      /\ e[1] = kind /\ e[2] = last[kind] + 1
      /\ \A j \in 1..Len(q) : r[j] = q[j]
      /\ r[Len(r)] = e
  BY DEF Events
<1> HIDE DEF r, e
<1>2. ASSUME NEW k \in Kinds, NEW j \in 1..Len(q), q[j][1] = k
      PROVE  q[j][2] \in (n[k] + 1)..last[k]
  BY <1>2, NumberMember DEF Counted
<1>3. InOrder(r)
  <2> SUFFICES ASSUME NEW i \in 1..Len(r), NEW j \in 1..Len(r), i < j, r[i][1] = r[j][1]
               PROVE  r[i][2] < r[j][2]
    BY <1>1, OrderOf
  <2>1. CASE j \in 1..Len(q)
    <3>1. i \in 1..Len(q) /\ r[i] = q[i] /\ r[j] = q[j]
      BY <2>1, <1>1
    <3> QED  BY <2>1, <3>1, OrderOf
  <2>2. CASE j = Len(r)
    <3>1. i \in 1..Len(q) /\ r[i] = q[i] /\ q[i][1] = kind
      BY <2>2, <1>1
    <3>2. q[i][2] \in (n[kind] + 1)..last[kind]
      BY <3>1, <1>2
    <3> QED  BY <2>2, <3>1, <3>2, <1>1
  <2>3. j \in 1..Len(q) \/ j = Len(r)
    BY <1>1
  <2> QED  BY <2>1, <2>2, <2>3
<1>4. ASSUME NEW k \in Kinds
      PROVE  Counted(r, k, n[k], IF k = kind THEN last[k] + 1 ELSE last[k])
  <2>1. ASSUME NEW m
        PROVE  m \in NumbersOf(r, k)
                 <=> m \in NumbersOf(q, k) \/ (k = kind /\ m = last[kind] + 1)
    <3>1. \A j \in 1..Len(r) : j \in 1..Len(q) \/ j = Len(r)
      BY <1>1
    <3>2. \A j \in 1..Len(q) : j \in 1..Len(r)
      BY <1>1
    <3>3. Len(r) \in 1..Len(r)
      BY <1>1
    <3>4. ASSUME m \in NumbersOf(r, k)
          PROVE  m \in NumbersOf(q, k) \/ (k = kind /\ m = last[kind] + 1)
      <4>1. PICK j \in 1..Len(r) : r[j][1] = k /\ r[j][2] = m
        BY <3>4, <1>1, NumberMember
      <4>2. CASE j \in 1..Len(q)
        <5>1. q[j][1] = k /\ q[j][2] = m
          BY <4>1, <4>2, <1>1
        <5> QED  BY <5>1, <4>2, NumberMember
      <4>3. CASE j = Len(r)
        BY <4>1, <4>3, <1>1
      <4> QED  BY <3>1, <4>2, <4>3
    <3>5. ASSUME m \in NumbersOf(q, k) PROVE m \in NumbersOf(r, k)
      <4>1. PICK j \in 1..Len(q) : q[j][1] = k /\ q[j][2] = m
        BY <3>5, NumberMember
      <4>2. j \in 1..Len(r) /\ r[j] = q[j]
        BY <3>2, <1>1
      <4> QED  BY <4>1, <4>2, <1>1, NumberMember
    <3>6. ASSUME k = kind, m = last[kind] + 1 PROVE m \in NumbersOf(r, k)
      BY <3>6, <3>3, <1>1, NumberMember
    <3> QED  BY <3>4, <3>5, <3>6
  <2>2. CASE k = kind
    <3>1. ASSUME NEW m
          PROVE  m \in NumbersOf(r, k) <=> m \in (n[k] + 1)..(last[k] + 1)
      BY <2>1, <2>2 DEF Counted
    <3> QED  BY <3>1, <2>2 DEF Counted
  <2>3. CASE k # kind
    BY <2>1, <2>3 DEF Counted
  <2> QED  BY <2>2, <2>3
<1> QED  BY <1>1, <1>3, <1>4 DEF r, e

\* The front part of an ordered queue ends with one number of each kind: what
\* follows it is the tail that is lost when the window ends.
LEMMA FrontIsCounted ==
  ASSUME NEW a \in Seq(Events), NEW b \in Seq(Events), InOrder(a \o b),
         NEW k \in Kinds, NEW n \in Nat, NEW last \in Nat, n <= last,
         Counted(a \o b, k, n, last)
  PROVE  /\ InOrder(a)
         /\ \E m \in n..last : Counted(a, k, n, m)
<1> DEFINE q == a \o b
<1>1. /\ q \in Seq(Events) /\ Len(q) = Len(a) + Len(b) /\ Len(q) \in Nat
      /\ Len(a) \in Nat /\ Len(b) \in Nat
      /\ \A j \in 1..Len(a) : q[j] = a[j] /\ j \in 1..Len(q)
  OBVIOUS
<1> HIDE DEF q
<1>2. InOrder(a)
  <2> SUFFICES ASSUME NEW i \in 1..Len(a), NEW j \in 1..Len(a),
                      i < j, a[i][1] = a[j][1]
               PROVE  a[i][2] < a[j][2]
    BY OrderOf
  <2>1. InOrder(q)
    BY DEF q
  <2> QED  BY <2>1, <1>1, OrderOf
<1>3. \A m : m \in NumbersOf(a, k) => m \in (n + 1)..last
  <2>1. ASSUME NEW m \in NumbersOf(a, k) PROVE m \in NumbersOf(q, k)
    BY <1>1, NumberMember
  <2> QED  BY <2>1 DEF Counted, q
\* What is smaller than a number in the front part is in the front part.
<1>4. ASSUME NEW m \in NumbersOf(a, k), NEW l \in (n + 1)..m
      PROVE  l \in NumbersOf(a, k)
  <2>1. PICK j \in 1..Len(a) : a[j][1] = k /\ a[j][2] = m
    BY NumberMember
  <2>2. l \in NumbersOf(q, k)
    BY <1>3 DEF Counted, q
  <2>3. PICK i \in 1..Len(q) : q[i][1] = k /\ q[i][2] = l
    BY <2>2, <1>1, NumberMember
  <2>4. i <= j
    <3>1. InOrder(q)
      BY DEF q
    <3>2. j < i => m < l
      BY <3>1, <2>1, <2>3, <1>1, OrderOf
    <3>3. m \in Nat /\ l \in Nat /\ l <= m
      BY <1>3
    <3> QED  BY <3>2, <3>3
  <2>5. i \in 1..Len(a) /\ a[i] = q[i]
    BY <2>4, <1>1
  <2> QED  BY <2>3, <2>5, NumberMember
<1>5. CASE NumbersOf(a, k) = {}
  <2>1. Counted(a, k, n, n)
    BY <1>5 DEF Counted
  <2> QED  BY <1>2, <2>1
<1>6. CASE NumbersOf(a, k) # {}
  \* The greatest one; there is one because it is the least distance to last.
  <2> DEFINE D == {d \in Nat : last - d \in NumbersOf(a, k)}
  <2>1. D \in SUBSET Nat /\ D # {}
    <3>1. PICK m \in NumbersOf(a, k) : TRUE
      BY <1>6
    <3>2. last - m \in Nat /\ last - (last - m) = m
      BY <1>3
    <3> QED  BY <3>1, <3>2
  <2>2. PICK d \in D : \A c \in D : d <= c
    BY <2>1, LeastDistance
  <2> DEFINE m == last - d
  <2>3. m \in NumbersOf(a, k) /\ m \in n..last
    BY <2>2, <1>3
  <2>4. ASSUME NEW l \in NumbersOf(a, k) PROVE l <= m
    <3>1. last - l \in D
      BY <1>3
    <3> QED  BY <3>1, <2>2, <1>3
  <2>5. \A l : l \in NumbersOf(a, k) <=> l \in (n + 1)..m
    BY <2>3, <2>4, <1>3, <1>4
  <2>6. Counted(a, k, n, m)
    BY <2>5 DEF Counted
  <2> QED  BY <1>2, <2>3, <2>6
<1> QED  BY <1>5, <1>6

-----------------------------------------------------------------------------
\* What is on the way to the database.

\* The kinds and numbers of the events are as the invariant says.
LEMMA WayTyped ==
  ASSUME WInv
  PROVE  /\ OnTheWay \in Seq(Events) /\ inbox["db"] \in Seq(Events) /\ uiq \in Seq(Events)
         /\ InOrder(OnTheWay)
         /\ collected \in [Kinds -> Nat] /\ stored \in [Kinds -> Seq(Nat)]
         /\ \A k \in Kinds : Len(stored[k]) \in Nat
<1>1. inbox["db"] \in Seq(Events) /\ uiq \in Seq(Events)
  BY DEF WInv, TypeOK, Events
<1>2. OnTheWay \in Seq(Events)
  BY <1>1 DEF OnTheWay
<1> QED  BY <1>1, <1>2 DEF WInv, TypeOK, OnlyTailLost

\* A step that leaves the events and what is stored alone loses nothing.
LEMMA TailKept ==
  ASSUME OnlyTailLost,
         inbox'["db"] = inbox["db"], UNCHANGED <<uiq, stored, collected>>,
         main' = "exec" <=> main = "exec"
  PROVE  OnlyTailLost'
<1>1. OnTheWay' = OnTheWay
  BY DEF OnTheWay
<1> QED  BY <1>1 DEF OnlyTailLost

\* The steps of the threads other than those that collect, store or forward
\* something, and other than those of main.
LEMMA QuietWorkerStep ==
  ASSUME WInv,
         \/ StartCollection \/ StartCapture \/ PacketArrived \/ Initialize
         \/ StopCapture \/ CaptureStopped \/ \E t \in Threads : FinishThread(t)
  PROVE  WInv'
<1> USE DEF WInv, TypeOK, logVars, captureVars, dataVars, flusherVars
<1>1. CASE StartCollection
  <2>1. inbox'["db"] = inbox["db"]
    BY <1>1 DEF StartCollection, NextEvent, Threads
  <2>2. inbox' \in [Threads -> Seq(({"start"} \union Kinds) \X Nat)]
    BY <1>1 DEF StartCollection, NextEvent, Threads
  <2>5. /\ timer' = TRUE
        /\ UNCHANGED <<main, loop, quit, logVars, uiq, captureVars, dataVars>>
    BY <1>1 DEF StartCollection, NextEvent
  <2>3. TypeOK'
    BY <2>2, <2>5
  <2>4. CaptureGuarded' /\ ShutdownOrdered'
    BY <2>5 DEF CaptureGuarded, ShutdownOrdered
  <2> QED  BY <2>1, <2>3, <2>4, <2>5, TailKept
<1>2. CASE StartCapture
  <2>1. inbox'["db"] = inbox["db"]
    BY <1>2 DEF StartCapture, NextEvent, Threads
  <2>2. inbox' \in [Threads -> Seq(({"start"} \union Kinds) \X Nat)]
    BY <1>2 DEF StartCapture, NextEvent, Threads
  <2>5. /\ UNCHANGED <<main, loop, quit, logVars, uiq, timer, stopping, dataVars>>
        /\ device_' \in BOOLEAN /\ capture' \in {"off", "listening", "packet"}
        /\ loop["dns"] = "running"
        /\ \/ device_' = TRUE /\ capture' # "packet"
           \/ device_' = device_ /\ capture' = capture
    BY <1>2 DEF StartCapture, NextEvent
  <2>3. TypeOK'
    BY <2>2, <2>5
  <2>4. CaptureGuarded' /\ ShutdownOrdered'
    BY <2>5 DEF CaptureGuarded, ShutdownOrdered
  <2> QED  BY <2>1, <2>3, <2>4, <2>5, TailKept
<1>3. CASE PacketArrived
  <2> USE <1>3 DEF PacketArrived
  <2>1. TypeOK'
    OBVIOUS
  <2>2. CaptureGuarded' /\ ShutdownOrdered'
    BY DEF CaptureGuarded, ShutdownOrdered
  <2> QED  BY <2>1, <2>2, TailKept
<1>4. CASE Initialize
  <2> USE <1>4 DEF Initialize
  <2>1. TypeOK'
    BY DEF Threads
  <2>2. CaptureGuarded' /\ ShutdownOrdered'
    BY DEF CaptureGuarded, ShutdownOrdered, Threads, Beyond
  <2> QED  BY <2>1, <2>2, TailKept
<1>5. CASE StopCapture
  <2> USE <1>5 DEF StopCapture
  <2>1. TypeOK' /\ CaptureGuarded' /\ ShutdownOrdered'
    BY DEF CaptureGuarded, ShutdownOrdered
  <2> QED  BY <2>1, TailKept
<1>6. CASE CaptureStopped
  <2> USE <1>6 DEF CaptureStopped
  <2>1. TypeOK' /\ CaptureGuarded' /\ ShutdownOrdered'
    BY ZenonT(60) DEF CaptureGuarded, ShutdownOrdered
  <2> QED  BY <2>1, TailKept
<1>7. ASSUME NEW t \in Threads, FinishThread(t) PROVE WInv'
  <2> USE <1>7 DEF FinishThread
  <2>1. TypeOK'
    OBVIOUS
  <2>2. CaptureGuarded' /\ ShutdownOrdered'
    BY DEF CaptureGuarded, ShutdownOrdered
  <2> QED  BY <2>1, <2>2, TailKept
<1> QED  BY <1>1, <1>2, <1>3, <1>4, <1>5, <1>6, <1>7

\* The steps of the log and of the flusher, which leave the workers alone.
LEMMA LogStep ==
  ASSUME WInv, LogMessage \/ FlusherStep
  PROVE  WInv'
<1> USE DEF WInv, TypeOK, workerVars, flusherVars
<1>1. /\ UNCHANGED <<main, workerVars, logger>>
      /\ flusher = "ended" => flusher' = "ended"
  BY DEF LogMessage, FlusherStep, Flusher, TakeMutex, StartWaiting, Wake,
         AfterWait, BeginFlushAll, FlushAll
<1>2. TypeOK'
  <2>1. /\ buffered' \in BOOLEAN /\ active_' \in BOOLEAN
        /\ flusher' \in {"lock", "check", "wait", "woken", "callback", "flush", "ended"}
        /\ mutex_' \in {NoOne, "main", "flusher"}
        /\ logger_map_mutex_' \in {NoOne, "main", "flusher"}
    BY DEF LogMessage, FlusherStep, Flusher, TakeMutex, StartWaiting, Wake,
           AfterWait, BeginFlushAll, FlushAll
  <2> QED  BY <1>1, <2>1
<1>3. CaptureGuarded' /\ ShutdownOrdered'
  BY <1>1 DEF CaptureGuarded, ShutdownOrdered
<1>4. OnlyTailLost'
  BY <1>1, TailKept
<1> QED  BY <1>1, <1>2, <1>3, <1>4

\* The steps of main after the destructor has begun.
LEMMA EndStep ==
  ASSUME WInv,
         \/ ThreadJoined \/ WaitTimesOut \/ DeleteChildren
         \/ FlushDefaultLogger \/ StopFlusher \/ JoinFlusher \/ DropAll
  PROVE  WInv'
<1> USE DEF WInv, TypeOK, workerVars, flusherVars, logVars, captureVars, dataVars
<1>1. CASE ThreadJoined \/ WaitTimesOut
  <2> USE <1>1 DEF ThreadJoined, WaitTimesOut, GoOn
  <2>1. main' \in {"data", "db", "cleaned"}
    BY DEF After, Threads
  <2>2. main \in {"dns", "data", "db"}
    BY DEF Threads
  <2>6. quit' \in [Threads -> BOOLEAN]
    OBVIOUS
  <2>3. TypeOK'
    BY <2>1, <2>6
  <2>4. CaptureGuarded' /\ ShutdownOrdered'
    BY <2>1, <2>2 DEF CaptureGuarded, ShutdownOrdered, Beyond
  <2>5. OnlyTailLost'
    BY <2>1, <2>2, TailKept
  <2> QED  BY <2>3, <2>4, <2>5
<1>2. CASE DeleteChildren
  <2>1. /\ main = "cleaned" /\ main' \in {"window_gone", "aborted"}
        /\ main' = "window_gone" => \A t \in Threads : loop[t] = "finished"
        /\ UNCHANGED <<workerVars, logVars>>
    BY <1>2 DEF DeleteChildren
  <2>2. TypeOK'
    BY <2>1
  <2>3. CaptureGuarded'
    BY <2>1 DEF CaptureGuarded
  <2>4. ShutdownOrdered'
    BY <2>1 DEF ShutdownOrdered, Beyond
  <2> QED  BY <2>1, <2>2, <2>3, <2>4, TailKept
\* shutdown_log: main goes on within the same set of places.
<1>3. CASE FlushDefaultLogger \/ StopFlusher \/ JoinFlusher \/ DropAll
  <2>1. /\ main \in Beyond /\ main' \in Beyond
        /\ UNCHANGED <<workerVars, flusher, mutex_, logger_map_mutex_>>
        /\ buffered' \in BOOLEAN /\ active_' \in BOOLEAN /\ logger' \in BOOLEAN
        /\ main' \in {"dropping", "exited"} => flusher = "ended"
        /\ ~logger' => main' = "exited"
    <3>1. CASE FlushDefaultLogger
      BY <3>1 DEF FlushDefaultLogger, ShutdownOrdered, Beyond
    <3>2. CASE StopFlusher
      BY <3>2 DEF StopFlusher, ShutdownOrdered, Beyond
    <3>3. CASE JoinFlusher
      BY <3>3 DEF JoinFlusher, ShutdownOrdered, Beyond
    <3>4. CASE DropAll
      BY <3>4 DEF DropAll, ShutdownOrdered, Beyond
    <3> QED  BY <1>3, <3>1, <3>2, <3>3, <3>4
  <2>2. TypeOK'
    BY <2>1 DEF Beyond
  <2>3. CaptureGuarded'
    BY <2>1 DEF CaptureGuarded
  <2>4. ShutdownOrdered'
    BY <2>1 DEF ShutdownOrdered, Beyond
  <2> QED  BY <2>1, <2>2, <2>3, <2>4, TailKept DEF Beyond
<1> QED  BY <1>1, <1>2, <1>3

-----------------------------------------------------------------------------
\* The steps on what is collected and stored.

\* The next number of a kind is put on the way as the program runs; when the
\* window has ended, what is posted to it is lost.
LEMMA EmitStep ==
  ASSUME WInv, NEW kind \in Kinds, collected[kind] < Limit[kind], Emit(kind),
         UNCHANGED <<main, inbox>>
  PROVE  OnlyTailLost' /\ collected' \in [Kinds -> Nat]
         /\ uiq' \in Seq(Kinds \X Nat)
         /\ \A k \in Kinds : collected'[k] \in 0..Limit[k]
<1> DEFINE e == <<kind, collected[kind] + 1>>
<1>1. /\ collected' = [collected EXCEPT ![kind] = @ + 1]
      /\ collected'[kind] = collected[kind] + 1
      /\ \A k \in Kinds : k # kind => collected'[k] = collected[k]
      /\ collected' \in [Kinds -> Nat]
      /\ uiq' = Append(uiq, e) /\ stored' = stored
      /\ \A k \in Kinds : collected[k] \in Nat
  BY WayTyped DEF Emit
<1>2. e \in Events /\ uiq' \in Seq(Kinds \X Nat)
  BY <1>1, WayTyped DEF Events
<1>3. \A k \in Kinds : Limit[k] \in Nat
  BY DEF Limit, Kinds
<1>4. \A k \in Kinds : collected'[k] \in 0..Limit[k]
  BY <1>1, <1>3 DEF WInv, TypeOK
<1>5. CASE main # "exec"
  <2>1. OnTheWay' = OnTheWay
    BY <1>5 DEF OnTheWay
  <2>2. ASSUME NEW k \in Kinds
        PROVE  \E last \in Len(stored[k])..collected'[k] :
                  NumbersOf(OnTheWay, k) = (Len(stored[k]) + 1)..last
    <3>1. PICK last \in Len(stored[k])..collected[k] :
             NumbersOf(OnTheWay, k) = (Len(stored[k]) + 1)..last
      BY DEF WInv, OnlyTailLost
    <3>2. last \in Len(stored[k])..collected'[k]
      BY <1>1, <3>1, WayTyped
    <3> QED  BY <3>1, <3>2
  <2> QED  BY <1>1, <1>2, <1>4, <1>5, <2>1, <2>2 DEF WInv, OnlyTailLost
<1>6. CASE main = "exec"
  <2> DEFINE q == OnTheWay
             n == [k \in Kinds |-> Len(stored[k])]
  <2>1. OnTheWay' = Append(q, e)
    <3>1. q = inbox["db"] \o uiq /\ OnTheWay' = inbox["db"] \o Append(uiq, e)
      BY <1>1, <1>6 DEF OnTheWay
    <3>2. inbox["db"] \in Seq(Events) /\ uiq \in Seq(Events) /\ e \in Events
      BY <1>2, WayTyped
    <3> HIDE DEF q, e
    <3>3. inbox["db"] \o Append(uiq, e) = Append(inbox["db"] \o uiq, e)
      BY ONLY <3>2, ConcatAppend
    <3> QED  BY <3>1, <3>3
  <2>2. \A k \in Kinds : n[k] <= collected[k] /\ Counted(q, k, n[k], collected[k])
    <3>1. ASSUME NEW k \in Kinds
          PROVE  n[k] <= collected[k] /\ Counted(q, k, n[k], collected[k])
      <4>1. PICK last \in Len(stored[k])..collected[k] :
               /\ NumbersOf(OnTheWay, k) = (Len(stored[k]) + 1)..last
               /\ main = "exec" => last = collected[k]
        BY DEF WInv, OnlyTailLost
      <4>2. last = collected[k] /\ Len(stored[k]) \in Nat /\ collected[k] \in Nat
        BY <4>1, <1>6, <1>1, WayTyped
      <4> QED  BY <4>1, <4>2 DEF Counted
    <3> QED  BY <3>1
  <2>3. q \in Seq(Events) /\ InOrder(q) /\ n \in [Kinds -> Nat]
        /\ collected \in [Kinds -> Nat]
    BY WayTyped
  <2> HIDE DEF q, n
  <2>4. /\ InOrder(Append(q, e))
        /\ \A k \in Kinds : Counted(Append(q, e), k, n[k],
                                     IF k = kind THEN collected[kind] + 1 ELSE collected[k])
    BY <2>2, <2>3, NextPosted
  <2>5. \A k \in Kinds : NumbersOf(OnTheWay', k) = (Len(stored[k]) + 1)..collected'[k]
    BY <2>1, <2>4, <1>1 DEF Counted, n
  <2>6. \A k \in Kinds : collected'[k] \in Len(stored[k])..collected'[k]
    BY <2>2, <1>1, WayTyped DEF n
  <2>7. OnlyTailLost'
    <3>1. InOrder(OnTheWay')
      BY <2>1, <2>4
    <3>2. \A k \in Kinds : stored'[k] = [j \in DOMAIN stored'[k] |-> j]
      BY <1>1 DEF WInv, OnlyTailLost
    <3>3. ASSUME NEW k \in Kinds
          PROVE  \E last \in Len(stored'[k])..collected'[k] :
                    /\ NumbersOf(OnTheWay', k) = (Len(stored'[k]) + 1)..last
                    /\ main' = "exec" => last = collected'[k]
      BY <2>5, <2>6, <1>1
    <3> QED  BY <3>1, <3>2, <3>3 DEF OnlyTailLost
  <2> QED  BY <2>7, <1>1, <1>2, <1>4
<1> QED  BY <1>5, <1>6

\* The two steps that collect something.
LEMMA CollectStep ==
  ASSUME WInv, CollectStats \/ ProcessPacket
  PROVE  WInv'
<1> USE DEF logVars, captureVars, dataVars, flusherVars
<1>0. /\ \A k \in Kinds : collected[k] \in Nat
      /\ Kinds = {"sample", "packet"}
      /\ Limit["sample"] = MaxSamples /\ Limit["packet"] = MaxPackets
  BY DEF WInv, Kinds, Limit
<1>1. CASE CollectStats
  <2>1. /\ Emit("sample") /\ collected["sample"] < MaxSamples
        /\ UNCHANGED <<main, loop, quit, inbox, timer, captureVars, logVars>>
    BY <1>1 DEF CollectStats
  <2>2. /\ OnlyTailLost' /\ collected' \in [Kinds -> Nat]
        /\ uiq' \in Seq(Kinds \X Nat)
        /\ \A k \in Kinds : collected'[k] \in 0..Limit[k]
    BY <1>0, <2>1, EmitStep
  <2>3. stored' = stored /\ collected'["packet"] = collected["packet"]
    BY <1>0, <2>1, WayTyped DEF Emit
  <2>4. TypeOK'
    BY <2>1, <2>2, <2>3 DEF WInv, TypeOK
  <2>5. CaptureGuarded' /\ ShutdownOrdered'
    BY <2>1, <2>3 DEF WInv, CaptureGuarded, ShutdownOrdered
  <2>6. inbox'["db"] \in Seq(Events)
    BY <2>1 DEF WInv
  <2> QED  BY <2>2, <2>4, <2>5, <2>6 DEF WInv
<1>2. CASE ProcessPacket
  <2>1. /\ capture = "packet" /\ capture' = "listening"
        /\ Emit("packet") \/ UNCHANGED <<uiq, dataVars>>
        /\ UNCHANGED <<main, loop, quit, inbox, timer, device_, stopping, logVars>>
    BY <1>2 DEF ProcessPacket
  <2>2. /\ OnlyTailLost' /\ collected' \in [Kinds -> Nat]
        /\ uiq' \in Seq(Kinds \X Nat)
        /\ \A k \in Kinds : collected'[k] \in 0..Limit[k]
        /\ stored' = stored
    <3>1. CASE Emit("packet")
      <4>1. collected["packet"] < Limit["packet"]
        BY <2>1, <1>0 DEF WInv, CaptureGuarded
      <4> QED  BY <1>0, <2>1, <3>1, <4>1, EmitStep DEF Emit
    <3>2. CASE UNCHANGED <<uiq, dataVars>>
      BY <2>1, <3>2, TailKept DEF WInv, TypeOK
    <3> QED  BY <2>1, <3>1, <3>2
  <2>3. TypeOK
    BY DEF WInv
  <2>4. TypeOK'
    BY ONLY <2>1, <2>2, <2>3 DEF TypeOK, logVars, flusherVars
  <2>5. CaptureGuarded' /\ ShutdownOrdered'
    BY <2>1 DEF WInv, CaptureGuarded, ShutdownOrdered
  <2>6. inbox'["db"] \in Seq(Events)
    BY <2>1 DEF WInv
  <2> QED  BY <2>2, <2>4, <2>5, <2>6 DEF WInv
<1> QED  BY <1>1, <1>2

\* The event that is stored carries the number after the last one stored.
LEMMA StoreStep ==
  ASSUME WInv, StoreEvent
  PROVE  WInv'
<1> USE DEF logVars, captureVars, dataVars, flusherVars
<1> DEFINE q == OnTheWay
           e == Head(inbox["db"])
<1>1. /\ inbox["db"] # <<>> /\ inbox["db"] \in Seq(Events) /\ e \in Events
      /\ inbox'["db"] = Tail(inbox["db"])
      /\ inbox' \in [Threads -> Seq(({"start"} \union Kinds) \X Nat)]
  BY WayTyped DEF StoreEvent, NextEvent, WInv, TypeOK, Threads
<1>2. /\ stored' = [stored EXCEPT ![e[1]] = Append(@, e[2])]
      /\ UNCHANGED <<main, loop, quit, logVars, uiq, timer, captureVars, collected>>
  BY DEF StoreEvent, NextEvent
<1>3. e[1] \in Kinds /\ e[2] \in Nat
  BY <1>1 DEF Events
<1>4. /\ stored' \in [Kinds -> Seq(Nat)]
      /\ \A k \in Kinds : k # e[1] => stored'[k] = stored[k]
      /\ stored'[e[1]] = Append(stored[e[1]], e[2])
      /\ Len(stored'[e[1]]) = Len(stored[e[1]]) + 1
  <2>1. stored \in [Kinds -> Seq(Nat)]
    BY WayTyped
  <2> HIDE DEF e
  <2>2. stored[e[1]] \in Seq(Nat) /\ Append(stored[e[1]], e[2]) \in Seq(Nat)
        /\ Len(Append(stored[e[1]], e[2])) = Len(stored[e[1]]) + 1
    BY <1>3, <2>1
  <2>3. stored'[e[1]] = Append(stored[e[1]], e[2])
    BY <1>2, <1>3, <2>1
  <2>4. \A k \in Kinds : k # e[1] => stored'[k] = stored[k]
    BY <1>2, <2>1
  <2>5. stored' \in [Kinds -> Seq(Nat)]
    BY <1>2, <2>1, <2>2
  <2> QED  BY <2>2, <2>3, <2>4, <2>5
<1>5. /\ q # <<>> /\ Head(q) = e /\ OnTheWay' = Tail(q)
      /\ q \in Seq(Events) /\ InOrder(q)
  <2> DEFINE b == IF main = "exec" THEN uiq ELSE <<>>
  <2>1. b \in Seq(Events) /\ q = inbox["db"] \o b /\ OnTheWay' = Tail(inbox["db"]) \o b
    BY <1>1, <1>2, WayTyped DEF OnTheWay
  <2> HIDE DEF b
  <2>2. /\ Tail(inbox["db"]) \o b = Tail(inbox["db"] \o b)
        /\ Head(inbox["db"] \o b) = Head(inbox["db"]) /\ inbox["db"] \o b # <<>>
    BY ONLY <1>1, <2>1, ConcatTail
  <2> QED  BY <2>1, <2>2, WayTyped
<1> HIDE DEF q, e
<1>6. ASSUME NEW k \in Kinds
      PROVE  /\ InOrder(Tail(q))
             /\ stored'[k] = [j \in DOMAIN stored'[k] |-> j]
             /\ \E last \in Len(stored'[k])..collected[k] :
                  /\ NumbersOf(Tail(q), k) = (Len(stored'[k]) + 1)..last
                  /\ main = "exec" => last = collected[k]
  <2> DEFINE n == Len(stored[k])
  <2>1. PICK last \in n..collected[k] :
           /\ NumbersOf(OnTheWay, k) = (n + 1)..last
           /\ main = "exec" => last = collected[k]
    BY DEF WInv, OnlyTailLost
  <2>2. n \in Nat /\ last \in Nat /\ collected[k] \in Nat
    BY <2>1, WayTyped
  <2>3. Counted(q, k, n, last)
    BY <2>1 DEF Counted, q
  <2> HIDE DEF n
  <2>4. /\ InOrder(Tail(q))
        /\ e[1] = k => e[2] = n + 1 /\ n + 1 <= last /\ Counted(Tail(q), k, n + 1, last)
        /\ e[1] # k => Counted(Tail(q), k, n, last)
    BY <1>5, <2>2, <2>3, HeadIsNext
  <2>5. CASE e[1] = k
    <3>1. /\ Len(stored'[k]) = n + 1 /\ last \in (n + 1)..collected[k]
          /\ NumbersOf(Tail(q), k) = (n + 1 + 1)..last
      BY <2>1, <2>2, <2>4, <2>5, <1>4 DEF Counted, n
    <3>2. stored'[k] = [j \in DOMAIN stored'[k] |-> j]
      <4> DEFINE s == stored[k]
      <4>1. s = [j \in DOMAIN s |-> j]
        BY DEF WInv, OnlyTailLost
      <4>2. s \in Seq(Nat) /\ stored'[k] = Append(s, Len(s) + 1)
        BY <1>4, <2>4, <2>5, WayTyped DEF n
      <4> HIDE DEF s
      <4> QED  BY <4>1, <4>2, NextNumber
    <3> QED  BY <3>1, <3>2, <2>1, <2>4
  <2>6. CASE e[1] # k
    <3>1. stored'[k] = stored[k]
      BY <2>6, <1>4
    <3>2. NumbersOf(Tail(q), k) = (n + 1)..last
      BY <2>4, <2>6 DEF Counted
    <3>3. stored[k] = [j \in DOMAIN stored[k] |-> j]
      BY DEF WInv, OnlyTailLost
    <3> QED  BY <3>1, <3>2, <3>3, <2>1, <2>4 DEF n
  <2> QED  BY <2>5, <2>6
<1>7. OnlyTailLost'
  BY <1>2, <1>5, <1>6 DEF OnlyTailLost, Kinds
<1>8. TypeOK'
  BY SMTT(30), <1>1, <1>2, <1>4 DEF WInv, TypeOK
<1>9. CaptureGuarded' /\ ShutdownOrdered'
  BY <1>2 DEF WInv, CaptureGuarded, ShutdownOrdered
<1>10. inbox'["db"] \in Seq(Events) /\ collected' \in [Kinds -> Nat]
  BY <1>1, <1>2 DEF WInv
<1> QED  BY <1>7, <1>8, <1>9, <1>10 DEF WInv

\* What the window forwards is on the way to the database before and after.
LEMMA ForwardStep ==
  ASSUME WInv, ForwardEvent
  PROVE  WInv'
<1> USE DEF logVars, captureVars, dataVars, flusherVars
<1>1. /\ main = "exec" /\ uiq # <<>> /\ uiq' = Tail(uiq)
      /\ UNCHANGED <<main, loop, quit, timer, captureVars, dataVars, logVars>>
      /\ uiq \in Seq(Events) /\ inbox["db"] \in Seq(Events)
  BY WayTyped DEF ForwardEvent
<1>2. /\ inbox'["db"] = Append(inbox["db"], Head(uiq))
      /\ inbox' \in [Threads -> Seq(({"start"} \union Kinds) \X Nat)]
      /\ uiq' \in Seq(Events) /\ Head(uiq) \in Events
  <2>1. uiq' \in Seq(Events) /\ Head(uiq) \in Events
    BY <1>1
  <2>2. inbox \in [Threads -> Seq(({"start"} \union Kinds) \X Nat)]
        /\ inbox' = [inbox EXCEPT !["db"] = Append(inbox["db"], Head(uiq))]
    BY DEF ForwardEvent, WInv, TypeOK
  <2>3. "db" \in Threads
    BY DEF Threads
  <2> DEFINE X == ({"start"} \union Kinds) \X Nat
  <2>4. Head(uiq) \in X /\ inbox["db"] \in Seq(X)
    BY <2>1, <2>2, <2>3 DEF Events
  <2>5. Append(inbox["db"], Head(uiq)) \in Seq(X)
    <3> HIDE DEF X
    <3> QED  BY ONLY <2>4
  <2> QED  BY <2>1, <2>2, <2>3, <2>5
<1>3. OnTheWay' = OnTheWay
  <2>1. OnTheWay = inbox["db"] \o uiq
        /\ OnTheWay' = Append(inbox["db"], Head(uiq)) \o Tail(uiq)
    BY <1>1, <1>2 DEF OnTheWay
  <2> QED  BY <2>1, <1>1, ConcatTail
<1>4. OnlyTailLost'
  BY <1>1, <1>3 DEF WInv, OnlyTailLost
<1>5. TypeOK'
  BY <1>1, <1>2 DEF WInv, TypeOK, Events
<1>6. CaptureGuarded' /\ ShutdownOrdered'
  BY <1>1 DEF WInv, CaptureGuarded, ShutdownOrdered
<1>7. inbox'["db"] \in Seq(Events) /\ collected' \in [Kinds -> Nat]
  BY <1>1, <1>2 DEF WInv
<1> QED  BY <1>4, <1>5, <1>6, <1>7 DEF WInv

\* Without the queue of the window, or of the database once that is to end,
\* a front part of what was on the way remains.
LEMMA TailDropped ==
  ASSUME WInv, UNCHANGED <<stored, collected>>, main' # "exec",
         NEW a \in Seq(Events), NEW b \in Seq(Events),
         OnTheWay = a \o b, OnTheWay' = a
  PROVE  OnlyTailLost'
<1>1. InOrder(a \o b)
  BY DEF WInv, OnlyTailLost
<1>2. ASSUME NEW k \in Kinds
      PROVE  /\ InOrder(a)
             /\ \E last \in Len(stored[k])..collected[k] :
                   NumbersOf(a, k) = (Len(stored[k]) + 1)..last
  <2> DEFINE n == Len(stored[k])
  <2>1. PICK last \in n..collected[k] : NumbersOf(a \o b, k) = (n + 1)..last
    BY DEF WInv, OnlyTailLost
  <2>2. n \in Nat /\ last \in Nat /\ n <= last /\ last <= collected[k] /\ collected[k] \in Nat
    BY <2>1, WayTyped
  <2> HIDE DEF n
  <2>3. Counted(a \o b, k, n, last)
    BY <2>1 DEF Counted
  <2>4. InOrder(a) /\ \E m \in n..last : Counted(a, k, n, m)
    BY <1>1, <2>2, <2>3, FrontIsCounted
  <2>5. PICK m \in n..last : Counted(a, k, n, m)
    BY <2>4
  <2>6. m \in n..collected[k] /\ NumbersOf(a, k) = (n + 1)..m
    BY <2>2, <2>5 DEF Counted
  <2> QED  BY <2>4, <2>6 DEF n
<1>3. \A k \in Kinds : stored[k] = [j \in DOMAIN stored[k] |-> j]
  BY DEF WInv, OnlyTailLost
<1> QED  BY <1>2, <1>3 DEF OnlyTailLost, Kinds

\* A thread that was told to quit drops what was posted to it.
LEMMA LeaveStep ==
  ASSUME WInv, NEW t \in Threads, LeaveLoop(t)
  PROVE  WInv'
<1> USE DEF logVars, captureVars, dataVars, flusherVars
<1>1. /\ loop[t] = "running" /\ quit[t]
      /\ loop' = [loop EXCEPT ![t] = "leaving"]
      /\ inbox' = [inbox EXCEPT ![t] = <<>>]
      /\ timer' \in BOOLEAN
      /\ UNCHANGED <<main, quit, uiq, captureVars, dataVars, logVars>>
  BY DEF LeaveLoop, WInv, TypeOK
<1>2. main # "exec"
  BY <1>1 DEF WInv, ShutdownOrdered
<1>3. /\ inbox' \in [Threads -> Seq(({"start"} \union Kinds) \X Nat)]
      /\ inbox'["db"] = IF t = "db" THEN <<>> ELSE inbox["db"]
      /\ loop' \in [Threads -> {"starting", "running", "leaving", "finished"}]
      /\ \A u \in Threads : loop'[u] = IF u = t THEN "leaving" ELSE loop[u]
  BY <1>1 DEF WInv, TypeOK, Threads
<1>4. TypeOK'
  BY <1>1, <1>3 DEF WInv, TypeOK
<1>5. CaptureGuarded' /\ ShutdownOrdered'
  BY <1>1, <1>2, <1>3 DEF WInv, CaptureGuarded, ShutdownOrdered, Threads
<1>6. OnlyTailLost'
  <2>1. /\ inbox["db"] \in Seq(Events) /\ OnTheWay = inbox["db"] \o <<>>
        /\ OnTheWay' = inbox'["db"] \o <<>>
    BY <1>1, <1>2, WayTyped DEF OnTheWay
  <2>2. CASE t = "db"
    <3>1. OnTheWay = <<>> \o inbox["db"] /\ OnTheWay' = <<>>
      BY <1>3, <2>1, <2>2
    <3>2. UNCHANGED <<stored, collected>> /\ main' # "exec"
      BY <1>1, <1>2
    <3>3. <<>> \in Seq(Events) /\ inbox["db"] \in Seq(Events)
      BY <2>1
    <3> QED  BY <3>1, <3>2, <3>3, TailDropped
  <2>3. CASE t # "db"
    BY <1>1, <1>3, <2>3, TailKept DEF WInv
  <2> QED  BY <2>2, <2>3
<1>7. inbox'["db"] \in Seq(Events) /\ collected' \in [Kinds -> Nat]
  BY <1>1, <1>3, WayTyped
<1> QED  BY <1>4, <1>5, <1>6, <1>7 DEF WInv

\* When the window ends, what was posted to it is lost: a tail of what was
\* on the way.
LEMMA QuitStep ==
  ASSUME WInv, QuitApplication
  PROVE  WInv'
<1> USE DEF logVars, captureVars, dataVars, flusherVars
<1>1. /\ main = "exec" /\ main' = "dns"
      /\ quit' \in [Threads -> BOOLEAN]
      /\ UNCHANGED <<loop, inbox, uiq, timer, captureVars, dataVars, logVars>>
  BY DEF QuitApplication, GoOn, After, WInv, TypeOK
<1>2. TypeOK'
  BY <1>1 DEF WInv, TypeOK
<1>3. CaptureGuarded' /\ ShutdownOrdered'
  BY <1>1 DEF WInv, CaptureGuarded, ShutdownOrdered, Beyond
<1>4. /\ inbox["db"] \in Seq(Events) /\ uiq \in Seq(Events)
      /\ OnTheWay = inbox["db"] \o uiq /\ OnTheWay' = inbox["db"]
  BY <1>1, WayTyped DEF OnTheWay
<1>5. OnlyTailLost'
  BY <1>1, <1>4, TailDropped
<1> QED  BY <1>1, <1>2, <1>3, <1>5 DEF WInv

-----------------------------------------------------------------------------
\* The program starts in a state of the invariant, and no step leaves it.

LEMMA InitWInv == Init => WInv
<1> SUFFICES ASSUME Init PROVE WInv
  OBVIOUS
<1> USE DEF Init
<1>1. /\ inbox \in [Threads -> Seq(({"start"} \union Kinds) \X Nat)]
      /\ inbox["db"] = <<>>
  BY DEF Threads, Start
<1>2. TypeOK
  <2>1. \A k \in Kinds : Limit[k] \in Nat /\ collected[k] = 0
    BY DEF Kinds, Limit
  <2>2. \A k \in Kinds : collected[k] \in 0..Limit[k]
    BY <2>1
  <2>3. uiq \in Seq(Kinds \X Nat) /\ stored \in [Kinds -> Seq(Nat)]
    OBVIOUS
  <2>4. /\ loop \in [Threads -> {"starting", "running", "leaving", "finished"}]
        /\ quit \in [Threads -> BOOLEAN]
    OBVIOUS
  <2> QED  BY <1>1, <2>2, <2>3, <2>4 DEF TypeOK
<1>3. CaptureGuarded /\ ShutdownOrdered
  BY DEF CaptureGuarded, ShutdownOrdered, Beyond
<1>4. OnlyTailLost
  <2>1. OnTheWay = <<>> /\ <<>> \in Seq(Events)
    BY <1>1 DEF OnTheWay
  <2>2. InOrder(<<>>) /\ \A k : NumbersOf(<<>>, k) = {}
    BY DEF InOrder, NumbersOf
  <2>3. \A k \in Kinds : stored[k] = <<>> /\ collected[k] = 0 /\ Len(stored[k]) = 0
    OBVIOUS
  <2>4. (0 + 1)..0 = {} /\ 0 \in 0..0 /\ <<>> = [j \in DOMAIN <<>> |-> j]
    OBVIOUS
  <2>5. ASSUME NEW k \in Kinds
        PROVE  \E last \in Len(stored[k])..collected[k] :
                  /\ NumbersOf(OnTheWay, k) = (Len(stored[k]) + 1)..last
                  /\ main = "exec" => last = collected[k]
    BY <2>1, <2>2, <2>3, <2>4
  <2>6. InOrder(OnTheWay)
    BY <2>1, <2>2
  <2>7. \A k \in Kinds : stored[k] = [j \in DOMAIN stored[k] |-> j]
    BY <2>3, <2>4
  <2> QED  BY ONLY <2>5, <2>6, <2>7 DEF OnlyTailLost
<1>5. collected \in [Kinds -> Nat]
  OBVIOUS
<1>6. inbox["db"] \in Seq(Events)
  <2>1. <<>> \in Seq(Events)
    OBVIOUS
  <2> QED  BY ONLY <1>1, <2>1
<1> QED  BY ONLY <1>2, <1>3, <1>4, <1>5, <1>6 DEF WInv

LEMMA NextWInv == WInv /\ [Next]_vars => WInv'
<1> SUFFICES ASSUME WInv, [Next]_vars PROVE WInv'
  OBVIOUS
<1>1. CASE \/ StartCollection \/ StartCapture \/ PacketArrived \/ Initialize
           \/ StopCapture \/ CaptureStopped \/ \E t \in Threads : FinishThread(t)
  BY <1>1, QuietWorkerStep
<1>2. CASE CollectStats \/ ProcessPacket
  BY <1>2, CollectStep
<1>3. CASE StoreEvent
  BY <1>3, StoreStep
<1>4. CASE ForwardEvent
  BY <1>4, ForwardStep
<1>5. CASE \E t \in Threads : LeaveLoop(t)
  BY <1>5, LeaveStep
<1>6. CASE QuitApplication
  BY <1>6, QuitStep
<1>7. CASE LogMessage \/ FlusherStep
  BY <1>7, LogStep
<1>8. CASE \/ ThreadJoined \/ WaitTimesOut \/ DeleteChildren
           \/ FlushDefaultLogger \/ StopFlusher \/ JoinFlusher \/ DropAll
  BY <1>8, EndStep
<1>9. CASE UNCHANGED vars
  <2>1. UNCHANGED <<main, loop, quit, inbox, uiq, timer, device_, capture, stopping,
                    collected, stored, logger, buffered, flusher, active_, mutex_,
                    logger_map_mutex_>>
    BY <1>9 DEF vars
  <2>2. TypeOK' /\ CaptureGuarded' /\ ShutdownOrdered'
    BY <2>1 DEF WInv, TypeOK, CaptureGuarded, ShutdownOrdered
  <2>3. OnlyTailLost'
    BY <2>1, TailKept DEF WInv
  <2> QED  BY <2>1, <2>2, <2>3 DEF WInv
<1> QED  BY <1>1, <1>2, <1>3, <1>4, <1>5, <1>6, <1>7, <1>8, <1>9 DEF Next

\* The invariant and with it the types of the variables, at any time.
THEOREM WorkersInvariant == Spec => []WInv
BY InitWInv, NextWInv, PTL DEF Spec

THEOREM WorkersTypeCorrect == Spec => []TypeOK
<1>1. WInv => TypeOK
  BY DEF WInv
<1> QED  BY <1>1, WorkersInvariant, PTL

\* The capture thread never calls process_packet on a dns_collector that is
\* gone: its destructor runs before the thread counts as finished, and it
\* closes the device, which waits for the capture.
THEOREM CollectorStays == Spec => []CollectorOutlivesCapture
<1>1. WInv => CollectorOutlivesCapture
  BY DEF WInv, CaptureGuarded, CollectorOutlivesCapture
<1> QED  BY <1>1, WorkersInvariant, PTL

\* When drop_all deletes the default logger, no other thread is left to use it.
THEOREM LoggerStays == Spec => []LoggerOutlivesThreads
<1>1. WInv => LoggerOutlivesThreads
  BY DEF WInv, CaptureGuarded, ShutdownOrdered, LoggerOutlivesThreads, Beyond, Threads
<1> QED  BY <1>1, WorkersInvariant, PTL

\* Every sample and packet is stored in order and once, or is on its way, and
\* what the end of the program loses is a tail, for any number of them.
THEOREM NothingButTailLost == Spec => []OnlyTailLost
<1>1. WInv => OnlyTailLost
  BY DEF WInv
<1> QED  BY <1>1, WorkersInvariant, PTL
=============================================================================
