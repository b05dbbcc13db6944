-------------------------- MODULE RotatingFileProofs ------------------------
(***************************************************************************)
(* Theorems about RotatingFile: through rotations, crashes, failed writes, *)
(* renames and restarts what is counted of a file does not outgrow         *)
(* max_size_, the files read as a RecentLog, and a rotation that fails to  *)
(* reopen the file ends the log.                                           *)
(*                                                                         *)
(* Size and content of the files are computed along sequences.  The first  *)
(* part shows that those computations are defined, and what they yield for *)
(* the sequences that the steps make, by induction over their positions.   *)
(***************************************************************************)
EXTENDS RotatingFile, TLAPS, SequenceTheorems, WellFoundedInduction

USE RotatingFileAssumption

-----------------------------------------------------------------------------
(* Induction over positions *)

\* A set of natural numbers that has zero and each successor has them all.
LEMMA AllNaturals ==
  ASSUME NEW S \in SUBSET Nat, 0 \in S, \A n \in S : n + 1 \in S
  PROVE  \A n \in Nat : n \in S
<1> DEFINE Rest == Nat \ S
<1> SUFFICES ASSUME Rest # {} PROVE FALSE
  OBVIOUS
<1>1. PICK x \in Rest : \A y \in Rest : ~(<<y, x>> \in OpToRel(<, Nat))
  BY NatLessThanWellFounded, WFMin
<1>2. x \in Nat /\ x # 0 /\ x - 1 \in Nat
  OBVIOUS
<1>3. x - 1 \notin Rest
  <2>1. ASSUME NEW y \in Rest PROVE ~(y < x)
    <3>1. <<y, x>> \in OpToRel(<, Nat) <=> y < x
      BY DEF OpToRel
    <3> QED  BY <1>1, <3>1
  <2>2. x - 1 < x
    BY <1>2
  <2> QED  BY <2>1, <2>2
<1>4. x - 1 \in S
  BY <1>2, <1>3
<1>5. (x - 1) + 1 \in S
  BY <1>4
<1>6. (x - 1) + 1 = x
  BY <1>2
<1> QED  BY <1>5, <1>6

\* What a value becomes when a step is taken at each position.
Carried(V, m, base, step) ==
  {f \in [0..m -> V] : f[0] = base /\ \A k \in 1..m : f[k] = step[k][f[k - 1]]}

\* It can be carried from the first position to the last.
LEMMA CarriedAlong ==
  ASSUME NEW V, NEW m \in Nat, NEW base \in V, NEW step \in [1..m -> [V -> V]]
  PROVE  Carried(V, m, base, step) # {}
<1> DEFINE Good(f, n) == /\ f \in [0..n -> V] /\ f[0] = base
                         /\ \A k \in 1..n : f[k] = step[k][f[k - 1]]
           S == {n \in Nat : n <= m => \E f : Good(f, n)}
<1>1. 0 \in S
  <2> DEFINE f == [k \in 0..0 |-> base]
  <2>1. Good(f, 0)
    OBVIOUS
  <2> QED  BY <2>1
<1>2. ASSUME NEW n \in S PROVE n + 1 \in S
  <2> SUFFICES ASSUME n + 1 <= m PROVE \E f : Good(f, n + 1)
    OBVIOUS
  <2>1. n \in Nat /\ n <= m /\ n + 1 \in 1..m
    OBVIOUS
  <2>2. PICK f : Good(f, n)
    BY <1>2, <2>1
  <2> DEFINE g == [k \in 0..(n + 1) |-> IF k = n + 1 THEN step[n + 1][f[n]] ELSE f[k]]
  <2>3. f[n] \in V /\ step[n + 1][f[n]] \in V
    BY <2>1, <2>2
  <2>4. g \in [0..(n + 1) -> V] /\ g[0] = base
    BY <2>1, <2>2, <2>3
  <2>5. ASSUME NEW k \in 1..(n + 1) PROVE g[k] = step[k][g[k - 1]]
    <3>1. CASE k = n + 1
      BY <2>1, <3>1
    <3>2. CASE k # n + 1
      <4>1. k \in 1..n /\ k - 1 \in 0..n /\ k - 1 # n + 1 /\ k \in 0..(n + 1) /\ k - 1 \in 0..(n + 1)
        BY <2>1, <3>2
      <4>2. g[k] = f[k] /\ g[k - 1] = f[k - 1]
        BY <3>2, <4>1
      <4> QED  BY <2>2, <4>1, <4>2
    <3> QED  BY <3>1, <3>2
  <2>6. Good(g, n + 1)
    BY <2>4, <2>5
  <2> QED  BY <2>6
<1> HIDE DEF Good
<1>3. S \in SUBSET Nat
  OBVIOUS
<1> HIDE DEF S
<1>4. m \in S
  BY <1>1, <1>2, <1>3, AllNaturals
<1>5. \E f : Good(f, m)
  BY <1>4 DEF S
<1> QED  BY <1>5 DEF Good, Carried

-----------------------------------------------------------------------------
(* The sum of a sequence of numbers *)

\* f[k] is the sum of the first k numbers of w.
IsSum(f, w) ==
  /\ f \in [0..Len(w) -> Nat] /\ f[0] = 0
  /\ \A k \in 1..Len(w) : f[k] = f[k - 1] + w[k]

LEMMA NumberSequence ==
  ASSUME NEW w \in Seq(Nat)
  PROVE  Len(w) \in Nat /\ \A k \in 1..Len(w) : w[k] \in Nat
BY LenProperties, ElementOfSeq

LEMMA TotalIsSum ==
  ASSUME NEW w \in Seq(Nat)
  PROVE  \E f : IsSum(f, w) /\ Total(w) = f[Len(w)]
<1> DEFINE m == Len(w)
           step == [k \in 1..m |-> [v \in Nat |-> v + w[k]]]
           Sums(f) == f = [k \in 0..m |-> IF k = 0 THEN 0 ELSE f[k - 1] + w[k]]
           sum == CHOOSE f : Sums(f)
<1>1. m \in Nat /\ \A k \in 1..m : w[k] \in Nat
  BY NumberSequence
<1>2. step \in [1..m -> [Nat -> Nat]]
  BY <1>1
<1>3. PICK f \in [0..m -> Nat] : f[0] = 0 /\ \A k \in 1..m : f[k] = step[k][f[k - 1]]
  <2>1. Carried(Nat, m, 0, step) # {}
    <3> HIDE DEF m, step
    <3> QED  BY <1>1, <1>2, CarriedAlong
  <2> QED  BY <2>1 DEF Carried
<1>4. \A k \in 1..m : f[k] = f[k - 1] + w[k]
  <2> TAKE k \in 1..m
  <2>1. k - 1 \in 0..m
    BY <1>1
  <2>2. f[k - 1] \in Nat
    BY <1>3, <2>1
  <2> QED  BY <1>3, <2>2
<1>5. Sums(f)
  <2>1. \A k \in 0..m : f[k] = IF k = 0 THEN 0 ELSE f[k - 1] + w[k]
    BY <1>1, <1>3, <1>4
  <2> QED  BY <1>3, <2>1
<1>6. Sums(sum)
  BY <1>5
<1> HIDE DEF sum
<1>7. sum[0] = 0 /\ \A k \in 1..m : sum[k] = sum[k - 1] + w[k]
  BY <1>1, <1>6
<1> DEFINE S == {n \in Nat : n <= m => sum[n] \in Nat}
<1>8. \A n \in S : n + 1 \in S
  <2> SUFFICES ASSUME NEW n \in S, n + 1 <= m PROVE sum[n + 1] \in Nat
    OBVIOUS
  <2>1. n + 1 \in 1..m /\ (n + 1) - 1 = n /\ sum[n] \in Nat
    BY <1>1
  <2>2. sum[n + 1] = sum[n] + w[n + 1]
    BY <1>7, <2>1
  <2> QED  BY <1>1, <2>1, <2>2
<1>9. \A n \in Nat : n \in S
  <2>1. 0 \in S
    BY <1>7
  <2>2. S \in SUBSET Nat
    OBVIOUS
  <2> HIDE DEF S
  <2> QED  BY <1>8, <2>1, <2>2, AllNaturals
<1>10. \A k \in 0..m : sum[k] \in Nat
  BY <1>1, <1>9
<1>11. sum \in [0..m -> Nat]
  BY <1>6, <1>10
<1>12. Total(w) = sum[m]
  BY DEF Total, sum
<1> QED  BY <1>7, <1>11, <1>12 DEF IsSum

LEMMA TotalType == \A w \in Seq(Nat) : Total(w) \in Nat
<1> SUFFICES ASSUME NEW w \in Seq(Nat) PROVE Total(w) \in Nat
  OBVIOUS
<1>1. PICK f : IsSum(f, w) /\ Total(w) = f[Len(w)]
  BY TotalIsSum
<1>2. Len(w) \in 0..Len(w)
  BY NumberSequence
<1> QED  BY <1>1, <1>2 DEF IsSum

\* The sum is no greater than that of a sequence which has at each position at
\* least as much; what is nothing needs no counterpart.
LEMMA TotalBelow ==
  ASSUME NEW w \in Seq(Nat), NEW v \in Seq(Nat),
         \A k \in 1..Len(w) : w[k] = 0 \/ (k <= Len(v) /\ w[k] <= v[k])
  PROVE  Total(w) <= Total(v)
<1> DEFINE m == Len(w)
           n == Len(v)
<1>1. /\ m \in Nat /\ \A k \in 1..m : w[k] \in Nat
      /\ n \in Nat /\ \A k \in 1..n : v[k] \in Nat
      /\ \A k \in 1..m : w[k] = 0 \/ (k <= n /\ w[k] <= v[k])
  BY NumberSequence
<1>2. PICK f : IsSum(f, w) /\ Total(w) = f[m]
  BY TotalIsSum
<1>3. PICK g : IsSum(g, v) /\ Total(v) = g[n]
  BY TotalIsSum
<1>4. /\ \A k \in 0..m : f[k] \in Nat
      /\ f[0] = 0 /\ \A k \in 1..m : f[k] = f[k - 1] + w[k]
      /\ \A k \in 0..n : g[k] \in Nat
      /\ g[0] = 0 /\ \A k \in 1..n : g[k] = g[k - 1] + v[k]
  BY <1>2, <1>3 DEF IsSum
<1> HIDE DEF m, n
<1> DEFINE Lower(k) == k <= m => \A j \in 0..n : k <= j \/ j = n => f[k] <= g[j]
           S == {k \in Nat : Lower(k)}
<1>5. Lower(0)
  <2> SUFFICES ASSUME NEW j \in 0..n PROVE f[0] <= g[j]
    OBVIOUS
  <2> QED  BY <1>4
<1>6. ASSUME NEW k \in Nat, Lower(k) PROVE Lower(k + 1)
  <2> SUFFICES ASSUME k + 1 <= m, NEW j \in 0..n, k + 1 <= j \/ j = n
               PROVE  f[k + 1] <= g[j]
    OBVIOUS
  <2>1. /\ k + 1 \in 1..m /\ (k + 1) - 1 = k /\ k \in 0..m /\ k <= m
        /\ f[k + 1] = f[k] + w[k + 1] /\ f[k] \in Nat /\ w[k + 1] \in Nat
        /\ g[j] \in Nat /\ j \in Nat
    <3>1. k + 1 \in 1..m /\ (k + 1) - 1 = k /\ k \in 0..m /\ k <= m /\ j \in Nat
      BY <1>1
    <3> QED  BY <1>1, <1>4, <3>1
  <2>2. CASE w[k + 1] = 0
    <3>1. f[k] <= g[j]
      BY <1>1, <1>6, <2>1
    <3> QED  BY <2>1, <2>2, <3>1
  <2>3. CASE k + 1 <= n /\ w[k + 1] <= v[k + 1]
    <3>1. k + 1 <= j /\ j - 1 \in Nat
      BY <1>1, <2>1, <2>3
    <3>2. \A i \in 0..n : k + 1 <= i => f[k + 1] <= g[i]
      <4> DEFINE T == {i \in Nat : k + 1 + i <= n => f[k + 1] <= g[k + 1 + i]}
      <4>1. 0 \in T
        <5>1. k + 1 \in 1..n /\ k \in 0..n
          BY <1>1, <2>3
        <5>2. g[k + 1] = g[k] + v[k + 1] /\ f[k] <= g[k] /\ g[k] \in Nat /\ v[k + 1] \in Nat
          BY <1>1, <1>4, <1>6, <2>1, <5>1
        <5>3. f[k + 1] <= g[k + 1]
          <6>1. f[k] \in Nat /\ w[k + 1] \in Nat /\ f[k + 1] = f[k] + w[k + 1]
            BY <2>1
          <6>2. w[k + 1] <= v[k + 1]
            BY <2>3
          <6> QED  BY ONLY <5>2, <6>1, <6>2
        <5>4. k + 1 + 0 = k + 1
          OBVIOUS
        <5> QED  BY <5>3, <5>4
      <4>2. ASSUME NEW i \in T PROVE i + 1 \in T
        <5> SUFFICES ASSUME k + 1 + (i + 1) <= n PROVE f[k + 1] <= g[k + 1 + (i + 1)]
          OBVIOUS
        <5> DEFINE q == k + 1 + (i + 1)
        <5>1. q \in 1..n /\ q - 1 = k + 1 + i /\ q - 1 \in 0..n /\ f[k + 1] <= g[q - 1]
          BY <1>1
        <5> HIDE DEF q
        <5>2. g[q] = g[q - 1] + v[q] /\ g[q - 1] \in Nat /\ v[q] \in Nat
          BY <1>1, <1>4, <5>1
        <5>3. g[q - 1] <= g[q]
          BY <5>2
        <5>4. f[k + 1] <= g[q]
          <6>1. f[k + 1] \in Nat
            BY <1>4, <2>1, <1>1
          <6>2. g[q] \in Nat
            BY <5>2
          <6> QED  BY ONLY <5>1, <5>2, <5>3, <6>1, <6>2
        <5> QED  BY <5>4 DEF q
      <4>3. T \in SUBSET Nat
        OBVIOUS
      <4> HIDE DEF T
      <4>4. \A i \in Nat : i \in T
        BY <4>1, <4>2, <4>3, AllNaturals
      <4>5. ASSUME NEW i \in 0..n, k + 1 <= i PROVE f[k + 1] <= g[i]
        <5>1. i - (k + 1) \in Nat /\ k + 1 + (i - (k + 1)) = i
          BY <1>1, <4>5
        <5>2. i - (k + 1) \in T
          BY <4>4, <5>1
        <5> QED  BY <1>1, <5>1, <5>2 DEF T
      <4> QED  BY <4>5
    <3> QED  BY <3>1, <3>2
  <2> QED  BY <1>1, <2>1, <2>2, <2>3
<1> HIDE DEF Lower
<1>7. 0 \in S /\ S \in SUBSET Nat /\ \A k \in S : k + 1 \in S
  BY <1>5, <1>6
<1> HIDE DEF S
<1>8. m \in S
  BY <1>1, <1>7, AllNaturals
<1>9. Lower(m)
  BY <1>8 DEF S
<1>10. f[m] <= g[n]
  <2>1. n \in 0..n /\ m <= m
    BY <1>1
  <2> QED  BY <1>9, <2>1 DEF Lower
<1> QED  BY <1>2, <1>3, <1>10

LEMMA TotalAppend ==
  ASSUME NEW w \in Seq(Nat), NEW a \in Nat
  PROVE  Total(Append(w, a)) = Total(w) + a
<1> DEFINE v == Append(w, a)
           n == Len(w)
<1>1. /\ v \in Seq(Nat) /\ Len(v) = n + 1 /\ n \in Nat
      /\ \A k \in 1..n : v[k] = w[k]
      /\ v[n + 1] = a
  BY AppendProperties, NumberSequence
<1> HIDE DEF v
<1>2. PICK f : IsSum(f, w) /\ Total(w) = f[n]
  BY TotalIsSum
<1>3. PICK g : IsSum(g, v) /\ Total(v) = g[n + 1]
  BY <1>1, TotalIsSum
<1> HIDE DEF n
<1>4. f[n] = g[n]
  <2> DEFINE S == {k \in Nat : k <= n => f[k] = g[k]}
  <2>1. 0 \in S
    BY <1>2, <1>3 DEF IsSum
  <2>2. ASSUME NEW k \in S PROVE k + 1 \in S
    <3> SUFFICES ASSUME k + 1 <= n PROVE f[k + 1] = g[k + 1]
      OBVIOUS
    <3>1. k \in Nat /\ k + 1 \in 1..n /\ (k + 1) - 1 = k /\ f[k] = g[k] /\ k + 1 \in 1..(n + 1)
      BY <1>1
    <3>2. f[k + 1] = f[k] + w[k + 1] /\ g[k + 1] = g[k] + v[k + 1]
      BY <1>1, <1>2, <1>3, <3>1 DEF IsSum, n
    <3> QED  BY <1>1, <3>1, <3>2
  <2>3. S \in SUBSET Nat
    OBVIOUS
  <2> HIDE DEF S
  <2>4. n \in S
    BY <1>1, <2>1, <2>2, <2>3, AllNaturals
  <2> QED  BY <1>1, <2>4 DEF S
<1>5. g[n + 1] = g[n] + v[n + 1]
  <2>1. n + 1 \in 1..Len(v) /\ (n + 1) - 1 = n
    BY <1>1
  <2> QED  BY <1>3, <2>1 DEF IsSum
<1> QED  BY <1>1, <1>2, <1>3, <1>4, <1>5 DEF v, n

-----------------------------------------------------------------------------
(* The size of a file, and what is counted of it *)

Messages == Seq(Message)

LEMMA MessageSizes ==
  ASSUME NEW s \in Messages
  PROVE  Len(s) \in Nat /\ \A k \in 1..Len(s) : s[k] \in Message /\ s[k].size \in Nat \ {0}
<1>1. Len(s) \in Nat /\ \A k \in 1..Len(s) : s[k] \in Message
  BY LenProperties, ElementOfSeq DEF Messages
<1>2. \A e \in Message : e.size \in Nat \ {0}
  BY DEF Message
<1> QED  BY <1>1, <1>2

AllSizes(s) == [k \in DOMAIN s |-> s[k].size]
CountedSizes(s) == [k \in DOMAIN s |-> IF s[k].counted THEN s[k].size ELSE 0]

LEMMA SizeSequences ==
  ASSUME NEW s \in Messages
  PROVE  /\ AllSizes(s) \in Seq(Nat) /\ Len(AllSizes(s)) = Len(s)
         /\ \A k \in 1..Len(s) : AllSizes(s)[k] = s[k].size
         /\ CountedSizes(s) \in Seq(Nat) /\ Len(CountedSizes(s)) = Len(s)
         /\ \A k \in 1..Len(s) :
              CountedSizes(s)[k] = IF s[k].counted THEN s[k].size ELSE 0
<1> DEFINE m == Len(s)
           a == AllSizes(s)
           c == CountedSizes(s)
<1>1. m \in Nat /\ \A k \in 1..m : s[k].size \in Nat
  BY MessageSizes
<1>2. DOMAIN s = 1..m
  BY LenProperties DEF Messages
<1>3. /\ a = [k \in 1..m |-> s[k].size]
      /\ c = [k \in 1..m |-> IF s[k].counted THEN s[k].size ELSE 0]
  BY <1>2 DEF AllSizes, CountedSizes
<1> HIDE DEF m, a, c
<1>4. /\ a \in [1..m -> Nat] /\ \A k \in 1..m : a[k] = s[k].size
      /\ c \in [1..m -> Nat] /\ \A k \in 1..m : c[k] = IF s[k].counted THEN s[k].size ELSE 0
  BY <1>1, <1>3
<1>5. a \in Seq(Nat) /\ Len(a) = m
  BY ONLY <1>1, <1>4
<1>6. c \in Seq(Nat) /\ Len(c) = m
  BY ONLY <1>1, <1>4
<1> QED  BY <1>4, <1>5, <1>6 DEF m, a, c

LEMMA SizeTypes ==
  ASSUME NEW s \in Messages
  PROVE  SizeOf(s) \in Nat /\ CountedSize(s) \in Nat /\ CountedSize(s) <= SizeOf(s)
<1>1. SizeOf(s) = Total(AllSizes(s)) /\ CountedSize(s) = Total(CountedSizes(s))
  BY DEF SizeOf, CountedSize, AllSizes, CountedSizes
<1>2. ASSUME NEW k \in 1..Len(s)
      PROVE  \/ CountedSizes(s)[k] = 0
             \/ k <= Len(s) /\ CountedSizes(s)[k] <= AllSizes(s)[k]
  <2>1. s[k].size \in Nat /\ k <= Len(s)
    BY MessageSizes
  <2> QED  BY <2>1, SizeSequences
<1>3. Total(CountedSizes(s)) <= Total(AllSizes(s))
  BY <1>2, SizeSequences, TotalBelow
<1> QED  BY <1>1, <1>3, SizeSequences, TotalType

\* What is counted of s is counted of t.
Covered(s, t) ==
  \A j \in 1..Len(s) :
    s[j].counted => j <= Len(t) /\ t[j].counted /\ s[j].size <= t[j].size

LEMMA CoveredSize ==
  ASSUME NEW s \in Messages, NEW t \in Messages, Covered(s, t)
  PROVE  CountedSize(s) <= CountedSize(t)
<1>1. CountedSize(s) = Total(CountedSizes(s)) /\ CountedSize(t) = Total(CountedSizes(t))
  BY DEF CountedSize, CountedSizes
<1>2. ASSUME NEW k \in 1..Len(s)
      PROVE  \/ CountedSizes(s)[k] = 0
             \/ k <= Len(t) /\ CountedSizes(s)[k] <= CountedSizes(t)[k]
  <2>1. CASE ~s[k].counted
    BY <2>1, SizeSequences
  <2>2. CASE s[k].counted
    <3>1. k <= Len(t) /\ t[k].counted /\ s[k].size <= t[k].size
      BY <2>2 DEF Covered
    <3>2. k \in 1..Len(t)
      BY <3>1, MessageSizes
    <3> QED  BY <2>2, <3>1, <3>2, SizeSequences
  <2> QED  BY <2>1, <2>2
<1> QED  BY <1>1, <1>2, SizeSequences, TotalBelow

LEMMA SizeOfEmpty == CountedSize(<<>>) = 0
<1>1. <<>> \in Messages /\ Len(<<>>) = 0
  BY DEF Messages
<1>2. CountedSizes(<<>>) \in Seq(Nat) /\ Len(CountedSizes(<<>>)) = 0
  BY <1>1, SizeSequences
<1>3. PICK f : IsSum(f, CountedSizes(<<>>)) /\ Total(CountedSizes(<<>>)) = f[0]
  BY <1>2, TotalIsSum
<1> QED  BY <1>3 DEF IsSum, CountedSize, CountedSizes

\* A message that is counted adds its size.
LEMMA SizeOfAppend ==
  ASSUME NEW s \in Messages, NEW m \in Message, m.counted
  PROVE  CountedSize(Append(s, m)) = CountedSize(s) + m.size
<1> DEFINE t == Append(s, m)
           a == CountedSizes(s)
           n == Len(s)
<1>1. /\ t \in Messages /\ Len(t) = n + 1 /\ n \in Nat
      /\ \A k \in 1..n : t[k] = s[k]
      /\ t[n + 1] = m /\ m.size \in Nat
  BY AppendProperties, MessageSizes DEF Messages, Message
<1>2. /\ a \in Seq(Nat) /\ Len(a) = n
      /\ \A k \in 1..n : a[k] = IF s[k].counted THEN s[k].size ELSE 0
  BY SizeSequences
<1> DEFINE c == CountedSizes(t)
<1> HIDE DEF t, n
<1>3. /\ c \in Seq(Nat) /\ Len(c) = n + 1
      /\ \A k \in 1..(n + 1) : c[k] = IF t[k].counted THEN t[k].size ELSE 0
  <2>1. /\ CountedSizes(t) \in Seq(Nat) /\ Len(CountedSizes(t)) = Len(t)
        /\ \A k \in 1..Len(t) : CountedSizes(t)[k] = IF t[k].counted THEN t[k].size ELSE 0
    BY <1>1, SizeSequences
  <2> QED  BY <1>1, <2>1
<1> HIDE DEF a, c
<1> DEFINE d == Append(a, m.size)
<1>4. /\ d \in Seq(Nat) /\ Len(d) = n + 1
      /\ \A k \in 1..n : d[k] = a[k]
      /\ d[n + 1] = m.size
  BY <1>1, <1>2, AppendProperties
<1> HIDE DEF d
<1>5. c = d
  <2>1. ASSUME NEW k \in 1..(n + 1) PROVE c[k] = d[k]
    <3>1. k \in 1..n \/ k = n + 1
      BY <1>1
    <3>2. CASE k \in 1..n
      <4>1. c[k] = IF s[k].counted THEN s[k].size ELSE 0
        BY <1>1, <1>3, <3>2
      <4> QED  BY <1>2, <1>4, <3>2, <4>1
    <3>3. CASE k = n + 1
      BY <1>1, <1>3, <1>4, <3>3
    <3> QED  BY <3>1, <3>2, <3>3
  <2> QED  BY <1>3, <1>4, <2>1, SeqEqual
<1>6. Total(d) = Total(a) + m.size
  BY <1>1, <1>2, TotalAppend DEF d
<1> QED  BY <1>5, <1>6 DEF CountedSize, CountedSizes, a, c, t

-----------------------------------------------------------------------------
(* The files joined to one log *)

Texts == Seq(Messages)

\* f[k] is what the first k of the m files of F read, one after the other.
IsJoin(f, F, m) ==
  /\ f[0] = <<>>
  /\ \A k \in 0..m : f[k] \in Messages
  /\ \A k \in 1..m : F[k] \in Messages /\ f[k] = f[k - 1] \o F[k]

LEMMA TextMessages ==
  ASSUME NEW F \in Texts
  PROVE  Len(F) \in Nat /\ \A k \in 1..Len(F) : F[k] \in Messages
BY LenProperties, ElementOfSeq DEF Texts

LEMMA MessagesConcat ==
  ASSUME NEW s \in Messages, NEW t \in Messages
  PROVE  /\ s \o t \in Messages /\ s \o <<>> = s /\ <<>> \o s = s
         /\ Len(s \o t) = Len(s) + Len(t)
BY ConcatProperties, ConcatEmptySeq DEF Messages

LEMMA MessagesAssociative ==
  ASSUME NEW s \in Messages, NEW t \in Messages, NEW u \in Messages
  PROVE  (s \o t) \o u = s \o (t \o u)
BY ConcatAssociative DEF Messages

LEMMA SuffixPlaces ==
  ASSUME NEW s \in Messages, NEW t \in Messages
  PROVE  /\ Len(s \o t) = Len(s) + Len(t)
         /\ \A j \in 1..Len(t) : /\ Len(s) + j \in 1..Len(s \o t)
                                  /\ (s \o t)[Len(s) + j] = t[j]
<1>1. /\ s \o t \in Messages /\ Len(s \o t) = Len(s) + Len(t)
      /\ Len(s) \in Nat /\ Len(t) \in Nat
  BY MessagesConcat, MessageSizes
<1>2. \A i \in 1..(Len(s) + Len(t)) :
        (s \o t)[i] = IF i <= Len(s) THEN s[i] ELSE t[i - Len(s)]
  BY ConcatProperties DEF Messages
<1>3. ASSUME NEW j \in 1..Len(t)
      PROVE  Len(s) + j \in 1..(Len(s) + Len(t)) /\ (s \o t)[Len(s) + j] = t[j]
  <2>1. /\ Len(s) + j \in 1..(Len(s) + Len(t)) /\ ~(Len(s) + j <= Len(s))
        /\ (Len(s) + j) - Len(s) = j
    BY <1>1
  <2> QED  BY <1>2, <2>1
<1> QED  BY <1>1, <1>3

LEMMA PrefixPlaces ==
  ASSUME NEW s \in Messages, NEW t \in Messages
  PROVE  /\ Len(s) <= Len(s \o t)
         /\ \A j \in 1..Len(s) : j \in 1..Len(s \o t) /\ (s \o t)[j] = s[j]
<1>1. /\ s \o t \in Messages /\ Len(s \o t) = Len(s) + Len(t)
      /\ Len(s) \in Nat /\ Len(t) \in Nat
  BY MessagesConcat, MessageSizes
<1>2. \A i \in 1..(Len(s) + Len(t)) :
        (s \o t)[i] = IF i <= Len(s) THEN s[i] ELSE t[i - Len(s)]
  BY ConcatProperties DEF Messages
<1>3. ASSUME NEW j \in 1..Len(s)
      PROVE  j \in 1..(Len(s) + Len(t)) /\ (s \o t)[j] = s[j]
  <2>1. j \in 1..(Len(s) + Len(t)) /\ j <= Len(s)
    BY <1>1
  <2> QED  BY <1>2, <2>1
<1>4. Len(s) <= Len(s) + Len(t)
  BY <1>1
<1> QED  BY <1>1, <1>3, <1>4

LEMMA AppendAssociative ==
  ASSUME NEW s \in Messages, NEW t \in Messages, NEW m \in Message
  PROVE  s \o Append(t, m) = Append(s \o t, m)
<1>1. <<m>> \in Messages
  BY DEF Messages
<1>2. Append(t, m) = t \o <<m>>
  BY AppendIsConcat DEF Messages
<1>3. Append(s \o t, m) = (s \o t) \o <<m>>
  BY MessagesConcat, AppendIsConcat DEF Messages
<1>4. (s \o t) \o <<m>> = s \o (t \o <<m>>)
  BY <1>1, MessagesAssociative
<1> QED  BY <1>2, <1>3, <1>4

LEMMA JoinedIsJoin ==
  ASSUME NEW F \in Texts
  PROVE  \E f : IsJoin(f, F, Len(F)) /\ Joined(F) = f[Len(F)]
<1> DEFINE m == Len(F)
           step == [k \in 1..m |-> [v \in Messages |-> v \o F[k]]]
           Joins(f) == f = [k \in 0..m |-> IF k = 0 THEN <<>> ELSE f[k - 1] \o F[k]]
           join == CHOOSE f : Joins(f)
<1>1. m \in Nat /\ \A k \in 1..m : F[k] \in Messages
  BY TextMessages
<1>2. step \in [1..m -> [Messages -> Messages]]
  BY <1>1, MessagesConcat
<1>3. <<>> \in Messages
  BY DEF Messages
<1>4. PICK f \in [0..m -> Messages] : f[0] = <<>> /\ \A k \in 1..m : f[k] = step[k][f[k - 1]]
  <2>1. Carried(Messages, m, <<>>, step) # {}
    <3> HIDE DEF m, step
    <3> QED  BY <1>1, <1>2, <1>3, CarriedAlong
  <2> QED  BY <2>1 DEF Carried
<1>5. \A k \in 1..m : f[k] = f[k - 1] \o F[k]
  <2> TAKE k \in 1..m
  <2>1. k - 1 \in 0..m
    BY <1>1
  <2>2. f[k - 1] \in Messages
    BY <1>4, <2>1
  <2> QED  BY <1>4, <2>2
<1> HIDE DEF m
<1>6. Joins(f)
  <2>1. ASSUME NEW k \in 0..m PROVE f[k] = IF k = 0 THEN <<>> ELSE f[k - 1] \o F[k]
    <3>1. CASE k = 0
      BY <1>4, <3>1
    <3>2. CASE k # 0
      <4>1. k \in 1..m
        BY <1>1, <3>2
      <4> QED  BY <1>5, <3>2, <4>1
    <3> QED  BY <3>1, <3>2
  <2>2. f = [k \in 0..m |-> f[k]]
    BY <1>4
  <2> QED  BY <2>1, <2>2
<1>7. Joins(join)
  BY <1>6
<1> HIDE DEF join
<1>8. join[0] = <<>> /\ \A k \in 1..m : join[k] = join[k - 1] \o F[k]
  <2>1. 0 \in 0..m /\ \A k \in 1..m : k \in 0..m /\ k # 0
    BY <1>1
  <2> QED  BY <1>7, <2>1
<1> DEFINE S == {n \in Nat : n <= m => join[n] \in Messages}
<1>9. \A n \in S : n + 1 \in S
  <2> SUFFICES ASSUME NEW n \in S, n + 1 <= m PROVE join[n + 1] \in Messages
    OBVIOUS
  <2>1. n + 1 \in 1..m /\ (n + 1) - 1 = n /\ join[n] \in Messages
    BY <1>1
  <2>2. join[n + 1] = join[n] \o F[n + 1]
    BY <1>8, <2>1
  <2> QED  BY <1>1, <2>1, <2>2, MessagesConcat
<1>10. \A n \in Nat : n \in S
  <2>1. 0 \in S
    BY <1>3, <1>8
  <2>2. S \in SUBSET Nat
    OBVIOUS
  <2> HIDE DEF S
  <2> QED  BY <1>9, <2>1, <2>2, AllNaturals
<1>11. \A k \in 0..m : join[k] \in Messages
  BY <1>1, <1>10
<1>12. Joined(F) = join[m]
  BY DEF Joined, join, m
<1> QED  BY <1>1, <1>8, <1>11, <1>12 DEF IsJoin, m

LEMMA JoinedType == \A F \in Texts : Joined(F) \in Messages
<1> SUFFICES ASSUME NEW F \in Texts PROVE Joined(F) \in Messages
  OBVIOUS
<1>1. PICK f : IsJoin(f, F, Len(F)) /\ Joined(F) = f[Len(F)]
  BY JoinedIsJoin
<1>2. Len(F) \in 0..Len(F)
  BY TextMessages
<1> QED  BY <1>1, <1>2 DEF IsJoin

\* Texts that agree from a place on are joined alike from it on.
LEMMA JoinsAgree ==
  ASSUME NEW F, NEW G, NEW f, NEW g, NEW m \in Nat, IsJoin(f, F, m), IsJoin(g, G, m),
         NEW a \in Nat, NEW n \in Nat, a <= n, n <= m,
         f[a] = g[a], \A k \in (a + 1)..n : F[k] = G[k]
  PROVE  f[n] = g[n]
<1> DEFINE S == {k \in Nat : a + k <= n => f[a + k] = g[a + k]}
<1>1. 0 \in S
  OBVIOUS
<1>2. ASSUME NEW k \in S PROVE k + 1 \in S
  <2> SUFFICES ASSUME a + (k + 1) <= n PROVE f[a + (k + 1)] = g[a + (k + 1)]
    OBVIOUS
  <2> DEFINE p == a + (k + 1)
  <2>1. /\ k \in Nat /\ p - 1 = a + k /\ f[p - 1] = g[p - 1] /\ p \in (a + 1)..n
        /\ p \in 1..m
    OBVIOUS
  <2> HIDE DEF p
  <2>2. f[p] = f[p - 1] \o F[p] /\ g[p] = g[p - 1] \o G[p]
    BY <2>1 DEF IsJoin
  <2>3. f[p] = g[p]
    BY <2>1, <2>2
  <2> QED  BY <2>3 DEF p
<1>3. S \in SUBSET Nat
  OBVIOUS
<1>4. n - a \in Nat /\ a + (n - a) = n
  OBVIOUS
<1> HIDE DEF S
<1>5. n - a \in S
  BY <1>1, <1>2, <1>3, <1>4, AllNaturals
<1> QED  BY <1>4, <1>5 DEF S

\* Nothing is read from empty files.
LEMMA JoinedEmpty ==
  ASSUME NEW F \in Texts, \A k \in 1..Len(F) : F[k] = <<>>
  PROVE  Joined(F) = <<>>
<1> DEFINE m == Len(F)
<1>1. m \in Nat
  BY TextMessages
<1>2. PICK f : IsJoin(f, F, m) /\ Joined(F) = f[m]
  BY JoinedIsJoin
<1>3. \A k \in 1..m : F[k] = <<>>
  OBVIOUS
<1> HIDE DEF m
<1> DEFINE Good(k) == k <= m => f[k] = <<>>
           S == {k \in Nat : Good(k)}
<1>4. Good(0)
  BY <1>2 DEF IsJoin
<1>5. ASSUME NEW k \in Nat, Good(k) PROVE Good(k + 1)
  <2> SUFFICES ASSUME k + 1 <= m PROVE f[k + 1] = <<>>
    OBVIOUS
  <2>1. k + 1 \in 1..m /\ (k + 1) - 1 = k /\ f[k] = <<>>
    BY <1>1, <1>5
  <2>2. f[k + 1] = <<>> \o <<>>
    BY <1>2, <1>3, <2>1 DEF IsJoin
  <2>3. <<>> \in Messages
    BY DEF Messages
  <2> QED  BY <2>2, <2>3, MessagesConcat
<1> HIDE DEF Good
<1>6. 0 \in S /\ S \in SUBSET Nat /\ \A k \in S : k + 1 \in S
  BY <1>4, <1>5
<1> HIDE DEF S
<1>7. m \in S
  BY <1>1, <1>6, AllNaturals
<1>8. Good(m)
  BY <1>7 DEF S
<1> QED  BY <1>1, <1>2, <1>8 DEF Good

\* The last text comes last.
LEMMA JoinedLast ==
  ASSUME NEW F \in Texts, NEW G \in Texts, NEW m \in Nat \ {0}, Len(F) = m, Len(G) = m,
         \A k \in 1..(m - 1) : F[k] = G[k]
  PROVE  \E P \in Messages : Joined(F) = P \o F[m] /\ Joined(G) = P \o G[m]
<1>1. m - 1 \in Nat /\ m - 1 <= m /\ m \in 1..m /\ m - 1 \in 0..m /\ 0 <= m - 1
  OBVIOUS
<1>2. PICK f : IsJoin(f, F, m) /\ Joined(F) = f[m]
  BY JoinedIsJoin
<1>3. PICK g : IsJoin(g, G, m) /\ Joined(G) = g[m]
  BY JoinedIsJoin
<1>4. f[0] = g[0] /\ f[m - 1] \in Messages
  BY <1>1, <1>2, <1>3 DEF IsJoin
<1>5. \A k \in (0 + 1)..(m - 1) : F[k] = G[k]
  OBVIOUS
<1>6. f[m - 1] = g[m - 1]
  BY <1>1, <1>2, <1>3, <1>4, <1>5, JoinsAgree
<1>7. f[m] = f[m - 1] \o F[m] /\ g[m] = g[m - 1] \o G[m]
  BY <1>1, <1>2, <1>3 DEF IsJoin
<1> QED  BY <1>2, <1>3, <1>4, <1>6, <1>7

\* A text may move into an empty place after it.
LEMMA JoinedShift ==
  ASSUME NEW F \in Texts, NEW G \in Texts, NEW m \in Nat, Len(F) = m, Len(G) = m,
         NEW p \in 1..m, p + 1 <= m,
         F[p] = <<>>, G[p] = F[p + 1], G[p + 1] = <<>>,
         \A k \in 1..m : k # p /\ k # p + 1 => F[k] = G[k]
  PROVE  Joined(F) = Joined(G)
<1>1. /\ m <= m /\ p + 1 \in 1..m /\ 0 <= p - 1
      /\ p - 1 \in Nat /\ p + 1 \in Nat /\ p - 1 <= m
      /\ p - 1 \in 0..m /\ p \in 0..m /\ (p + 1) - 1 = p
  OBVIOUS
<1>2. PICK f : IsJoin(f, F, m) /\ Joined(F) = f[m]
  BY JoinedIsJoin
<1>3. PICK g : IsJoin(g, G, m) /\ Joined(G) = g[m]
  BY JoinedIsJoin
<1>4. f[0] = g[0] /\ f[p - 1] \in Messages /\ g[p] \in Messages
  BY <1>1, <1>2, <1>3 DEF IsJoin
<1>5. f[p - 1] = g[p - 1]
  <2>1. ASSUME NEW k \in (0 + 1)..(p - 1) PROVE F[k] = G[k]
    <3>1. k \in 1..m /\ k # p /\ k # p + 1
      OBVIOUS
    <3> QED  BY <3>1
  <2> QED  BY <1>1, <1>2, <1>3, <1>4, <2>1, JoinsAgree
<1>6. f[p + 1] = g[p + 1]
  <2>1. f[p] = f[p - 1] \o F[p] /\ f[p + 1] = f[p] \o F[p + 1]
    BY <1>1, <1>2 DEF IsJoin
  <2>2. g[p] = g[p - 1] \o G[p] /\ g[p + 1] = g[p] \o G[p + 1]
    BY <1>1, <1>3 DEF IsJoin
  <2>3. f[p - 1] \o <<>> = f[p - 1] /\ g[p] \o <<>> = g[p]
    BY <1>4, <2>2, ConcatEmptySeq DEF Messages
  <2> QED  BY <1>5, <2>1, <2>2, <2>3
<1>7. f[m] = g[m]
  <2>1. \A k \in ((p + 1) + 1)..m : F[k] = G[k]
    BY <1>1
  <2> QED  BY <1>1, <1>2, <1>3, <1>6, <2>1, JoinsAgree
<1> QED  BY <1>2, <1>3, <1>7

\* The first text comes first.
LEMMA JoinedFirst ==
  ASSUME NEW F \in Texts, NEW G \in Texts, NEW m \in Nat \ {0}, Len(F) = m, Len(G) = m,
         G[1] = <<>>, \A k \in 2..m : F[k] = G[k]
  PROVE  Joined(F) = F[1] \o Joined(G)
<1>1. m - 1 \in Nat /\ 1 \in 1..m /\ 1 - 1 = 0 /\ (m - 1) + 1 = m
  OBVIOUS
<1>2. PICK f : IsJoin(f, F, m) /\ Joined(F) = f[m]
  BY JoinedIsJoin
<1>3. PICK g : IsJoin(g, G, m) /\ Joined(G) = g[m]
  BY JoinedIsJoin
<1> DEFINE Good(k) == k + 1 <= m => f[k + 1] = F[1] \o g[k + 1]
           S == {k \in Nat : Good(k)}
<1>4. F[1] \in Messages
  BY <1>1, <1>2 DEF IsJoin
<1>5. 0 \in S
  <2>1. f[1] = <<>> \o F[1] /\ g[1] = <<>> \o <<>>
    <3>1. f[1] = f[1 - 1] \o F[1] /\ g[1] = g[1 - 1] \o G[1]
      BY <1>1, <1>2, <1>3 DEF IsJoin
    <3>2. f[1 - 1] = <<>> /\ g[1 - 1] = <<>>
      BY <1>1, <1>2, <1>3 DEF IsJoin
    <3> QED  BY <3>1, <3>2
  <2>2. <<>> \in Messages
    BY DEF Messages
  <2>3. <<>> \o F[1] = F[1] /\ F[1] \o <<>> = F[1] /\ <<>> \o <<>> = <<>>
    BY <1>4, <2>2, ConcatEmptySeq DEF Messages
  <2>4. 0 + 1 = 1 /\ f[1] = F[1] \o g[1]
    BY <2>1, <2>3
  <2>5. f[0 + 1] = F[1] \o g[0 + 1]
    BY <2>4
  <2>6. Good(0)
    BY <2>5
  <2> HIDE DEF Good
  <2> QED  BY <2>6
<1>6. ASSUME NEW k \in S PROVE k + 1 \in S
  <2>0. k \in Nat /\ k + 1 \in Nat /\ Good(k)
    <3> HIDE DEF Good
    <3> QED  OBVIOUS
  <2> SUFFICES Good(k + 1)
    <3> HIDE DEF Good
    <3> QED  BY <2>0
  <2> SUFFICES ASSUME (k + 1) + 1 <= m PROVE f[(k + 1) + 1] = F[1] \o g[(k + 1) + 1]
    OBVIOUS
  <2> DEFINE p == (k + 1) + 1
  <2>1. /\ k \in Nat /\ p - 1 = k + 1 /\ p \in 1..m /\ p - 1 \in 0..m /\ p \in 2..m
        /\ f[p - 1] = F[1] \o g[p - 1]
    BY <1>1, <2>0
  <2> HIDE DEF p
  <2>2. f[p] = (F[1] \o g[p - 1]) \o F[p] /\ g[p] = g[p - 1] \o F[p]
        /\ g[p - 1] \in Messages /\ F[p] \in Messages
    BY <1>2, <1>3, <2>1 DEF IsJoin
  <2>3. (F[1] \o g[p - 1]) \o F[p] = F[1] \o (g[p - 1] \o F[p])
    BY <1>4, <2>2, MessagesAssociative
  <2>4. f[p] = F[1] \o g[p]
    BY <2>2, <2>3
  <2> QED  BY <2>4 DEF p
<1> HIDE DEF Good
<1>7. S \in SUBSET Nat
  OBVIOUS
<1> HIDE DEF S
<1>8. m - 1 \in S
  BY <1>1, <1>5, <1>6, <1>7, AllNaturals
<1>9. Good(m - 1)
  BY <1>8 DEF S
<1> QED  BY <1>1, <1>2, <1>3, <1>9 DEF Good

-----------------------------------------------------------------------------
(* The files on the disk *)

\* File of any disk, and the files from the oldest place to the newest.
FileOf(d, i) == IF i \in DOMAIN d THEN d[i] ELSE <<>>
Text(d) == [j \in 1..(MaxFiles + 1) |-> FileOf(d, MaxFiles + 1 - j)]
IsDisk(d) == DOMAIN d \subseteq 0..MaxFiles /\ \A i \in DOMAIN d : d[i] \in Messages

LEMMA FileType ==
  ASSUME NEW d, IsDisk(d)
  PROVE  \A i : FileOf(d, i) \in Messages
<1>1. <<>> \in Messages
  BY DEF Messages
<1> QED  BY <1>1 DEF FileOf, IsDisk

LEMMA WithFile ==
  ASSUME NEW d, IsDisk(d), NEW i \in 0..MaxFiles, NEW s \in Messages
  PROVE  /\ IsDisk(With(d, i, s))
         /\ DOMAIN With(d, i, s) = DOMAIN d \union {i}
         /\ \A k : FileOf(With(d, i, s), k) = IF k = i THEN s ELSE FileOf(d, k)
<1> DEFINE e == With(d, i, s)
<1>1. /\ DOMAIN e = DOMAIN d \union {i}
      /\ \A k \in DOMAIN e : e[k] = IF k = i THEN s ELSE d[k]
  BY DEF With
<1> HIDE DEF e
<1>2. IsDisk(e)
  BY <1>1 DEF IsDisk
<1>3. ASSUME NEW k PROVE FileOf(e, k) = IF k = i THEN s ELSE FileOf(d, k)
  BY <1>1 DEF FileOf
<1> QED  BY <1>1, <1>2, <1>3 DEF e

LEMMA WithoutFile ==
  ASSUME NEW d, IsDisk(d), NEW i
  PROVE  /\ IsDisk(Without(d, {i}))
         /\ DOMAIN Without(d, {i}) = DOMAIN d \ {i}
         /\ \A k : FileOf(Without(d, {i}), k) = IF k = i THEN <<>> ELSE FileOf(d, k)
<1> DEFINE e == Without(d, {i})
<1>1. /\ DOMAIN e = DOMAIN d \ {i}
      /\ \A k \in DOMAIN e : e[k] = d[k]
  BY DEF Without, Restrict
<1> HIDE DEF e
<1>2. IsDisk(e)
  BY <1>1 DEF IsDisk
<1>3. ASSUME NEW k PROVE FileOf(e, k) = IF k = i THEN <<>> ELSE FileOf(d, k)
  BY <1>1 DEF FileOf
<1> QED  BY <1>1, <1>2, <1>3 DEF e

LEMMA TextType ==
  ASSUME NEW d, IsDisk(d)
  PROVE  /\ Text(d) \in Texts /\ Len(Text(d)) = MaxFiles + 1
         /\ \A j \in 1..(MaxFiles + 1) : Text(d)[j] = FileOf(d, MaxFiles + 1 - j)
<1> DEFINE m == MaxFiles + 1
           F == Text(d)
<1>1. m \in Nat
  OBVIOUS
<1>2. F = [j \in 1..m |-> F[j]] /\ \A j \in 1..m : F[j] = FileOf(d, MaxFiles + 1 - j)
  BY DEF Text
<1>3. \A j \in 1..m : F[j] \in Messages
  BY <1>2, FileType
<1> HIDE DEF F, m
<1>4. F \in [1..m -> Messages]
  BY <1>2, <1>3
<1>5. F \in Texts /\ Len(F) = m
  <2>1. F \in Seq(Messages)
    BY ONLY <1>1, <1>4
  <2>2. Len(F) = m
    BY ONLY <1>1, <1>4
  <2> QED  BY <2>1, <2>2 DEF Texts
<1>6. \A j \in 1..m : F[j] = FileOf(d, MaxFiles + 1 - j)
  BY <1>2
<1> QED  BY ONLY <1>5, <1>6 DEF F, m

\* The newest file is read last.
LEMMA NewestFile ==
  ASSUME NEW d, NEW e, IsDisk(d), IsDisk(e),
         \A k \in 1..MaxFiles : FileOf(d, k) = FileOf(e, k)
  PROVE  \E P \in Messages : /\ Joined(Text(d)) = P \o FileOf(d, 0)
                             /\ Joined(Text(e)) = P \o FileOf(e, 0)
<1> DEFINE m == MaxFiles + 1
<1>1. m \in Nat \ {0} /\ m \in 1..m /\ m - m = 0
  OBVIOUS
<1>2. /\ Text(d) \in Texts /\ Len(Text(d)) = m /\ Text(d)[m] = FileOf(d, 0)
      /\ Text(e) \in Texts /\ Len(Text(e)) = m /\ Text(e)[m] = FileOf(e, 0)
  BY <1>1, TextType
<1>3. ASSUME NEW k \in 1..(m - 1) PROVE Text(d)[k] = Text(e)[k]
  <2>1. k \in 1..m /\ m - k \in 1..MaxFiles
    OBVIOUS
  <2> QED  BY <2>1, TextType
<1> HIDE DEF m
<1>4. PICK P \in Messages : /\ Joined(Text(d)) = P \o Text(d)[m]
                            /\ Joined(Text(e)) = P \o Text(e)[m]
  BY ONLY ZenonT(60), <1>1, <1>2, <1>3, JoinedLast
<1> QED  BY <1>2, <1>4

\* The oldest file is read first.
LEMMA OldestFile ==
  ASSUME NEW d, NEW e, IsDisk(d), IsDisk(e), FileOf(e, MaxFiles) = <<>>,
         \A k \in 0..(MaxFiles - 1) : FileOf(d, k) = FileOf(e, k)
  PROVE  Joined(Text(d)) = FileOf(d, MaxFiles) \o Joined(Text(e))
<1> DEFINE m == MaxFiles + 1
<1>1. m \in Nat \ {0} /\ 1 \in 1..m /\ m - 1 = MaxFiles
  OBVIOUS
<1>2. /\ Text(d) \in Texts /\ Len(Text(d)) = m /\ Text(d)[1] = FileOf(d, MaxFiles)
      /\ Text(e) \in Texts /\ Len(Text(e)) = m /\ Text(e)[1] = <<>>
  BY <1>1, TextType
<1>3. ASSUME NEW k \in 2..m PROVE Text(d)[k] = Text(e)[k]
  <2>1. k \in 1..m /\ m - k \in 0..(MaxFiles - 1)
    OBVIOUS
  <2> QED  BY <2>1, TextType
<1> HIDE DEF m
<1>4. Joined(Text(d)) = Text(d)[1] \o Joined(Text(e))
  BY ONLY <1>1, <1>2, <1>3, JoinedFirst
<1> QED  BY <1>2, <1>4

\* A rename does not change what is read.
LEMMA RenamedFile ==
  ASSUME NEW d, NEW e, IsDisk(d), IsDisk(e), NEW i \in 1..MaxFiles,
         FileOf(d, i) = <<>>, FileOf(e, i) = FileOf(d, i - 1), FileOf(e, i - 1) = <<>>,
         \A k \in 0..MaxFiles : k # i /\ k # i - 1 => FileOf(d, k) = FileOf(e, k)
  PROVE  Joined(Text(d)) = Joined(Text(e))
<1> DEFINE m == MaxFiles + 1
           p == m - i
<1>1. /\ m \in Nat /\ p \in 1..m /\ p + 1 \in 1..m /\ p + 1 <= m
      /\ m - p = i /\ m - (p + 1) = i - 1
  OBVIOUS
<1>2. /\ Text(d) \in Texts /\ Len(Text(d)) = m
      /\ Text(e) \in Texts /\ Len(Text(e)) = m
  BY TextType
<1>3. /\ Text(d)[p] = FileOf(d, i) /\ Text(d)[p + 1] = FileOf(d, i - 1)
      /\ Text(e)[p] = FileOf(e, i) /\ Text(e)[p + 1] = FileOf(e, i - 1)
  BY <1>1, TextType
<1>4. Text(d)[p] = <<>> /\ Text(e)[p] = Text(d)[p + 1] /\ Text(e)[p + 1] = <<>>
  BY <1>3
<1>5. ASSUME NEW k \in 1..m, k # p, k # p + 1 PROVE Text(d)[k] = Text(e)[k]
  <2>1. m - k \in 0..MaxFiles /\ m - k # i /\ m - k # i - 1
    BY <1>5
  <2> QED  BY <2>1, TextType
<1> HIDE DEF m, p
<1> QED  BY ONLY <1>1, <1>2, <1>4, <1>5, JoinedShift

-----------------------------------------------------------------------------
(* Types *)

Ops == {Off, Idle}
         \union [at : {"write"}, msg : Message, new_size : Nat]
         \union [at : {"remove", "rename"}, i : 0..MaxFiles, msg : Message]

\* The calls that are not over.
Busy == op.at \in {"write", "remove", "rename"}

LEMMA OpTypes ==
  /\ Off \in Ops /\ Idle \in Ops /\ Off.at = "off" /\ Idle.at = "idle"
  /\ \A m \in Message, z \in Nat :
       [at |-> "write", msg |-> m, new_size |-> z] \in Ops
  /\ \A m \in Message, k \in 0..MaxFiles :
       /\ [at |-> "remove", i |-> k, msg |-> m] \in Ops
       /\ [at |-> "rename", i |-> k, msg |-> m] \in Ops
BY DEF Ops, Off, Idle

LEMMA OpCases ==
  ASSUME op \in Ops
  PROVE  \/ op = Off
         \/ op = Idle
         \/ op.at = "write" /\ op.msg \in Message /\ op.new_size \in Nat
         \/ /\ op.at \in {"remove", "rename"} /\ op.i \in 0..MaxFiles /\ op.msg \in Message
            /\ op = [at |-> op.at, i |-> op.i, msg |-> op.msg]
BY DEF Ops

\* A message once fwrite has taken it.
Logged(m) == [m EXCEPT !.counted = TRUE]

LEMMA LoggedMessage ==
  ASSUME NEW m \in Message
  PROVE  /\ Logged(m) \in Message /\ Logged(m).counted
         /\ Logged(m).n = m.n /\ Logged(m).size = m.size
BY DEF Logged, Message

LEMMA BusyMessage ==
  ASSUME op \in Ops, Busy
  PROVE  op.msg \in Message /\ op.msg.n \in 1..MaxMessages /\ op.msg.size \in Nat \ {0}
BY OpCases, OpTypes DEF Busy, Message

LEMMA RotatingOp ==
  ASSUME op \in Ops, op.at \in {"remove", "rename"}
  PROVE  /\ op.i \in 0..MaxFiles /\ op.msg \in Message
         /\ op = [at |-> op.at, i |-> op.i, msg |-> op.msg]
BY OpCases, OpTypes

LEMMA TypeFacts ==
  ASSUME TypeOK
  PROVE  /\ IsDisk(disk) /\ buffer \in Messages /\ op \in Ops
         /\ File(0) \in Messages /\ File(0) \o buffer \in Messages
         /\ \A k : File(k) = FileOf(disk, k) /\ File(k) \in Messages
<1>1. IsDisk(disk) /\ buffer \in Messages /\ op \in Ops
  BY DEF TypeOK, IsDisk, Messages, Ops
<1>2. \A k : File(k) = FileOf(disk, k)
  BY DEF File, FileOf
<1>3. \A k : File(k) \in Messages
  BY <1>1, <1>2, FileType
<1> QED  BY <1>1, <1>2, <1>3, MessagesConcat

\* The parts of a message the sink is given.
LEMMA NextMessage ==
  ASSUME TypeOK, next <= MaxMessages, NEW size \in Sizes
  PROVE  NewMessage(size) \in Message
BY DEF TypeOK, Message, NewMessage

LEMMA BufferParts ==
  ASSUME NEW s \in Messages, NEW k \in 1..Len(s)
  PROVE  /\ SubSeq(s, 1, k) \in Messages /\ SubSeq(s, k + 1, Len(s)) \in Messages
         /\ SubSeq(s, 1, k) \o SubSeq(s, k + 1, Len(s)) = s
<1>1. Len(s) \in Nat /\ \A i \in 1..Len(s) : s[i] \in Message
  BY MessageSizes
<1>2. SubSeq(s, 1, k) \in Messages
  <2>1. \A i \in 1..k : s[i] \in Message
    BY <1>1
  <2>2. 1 \in Int /\ k \in Int
    BY <1>1
  <2> QED  BY <2>1, <2>2, SubSeqProperties DEF Messages
<1>3. SubSeq(s, k + 1, Len(s)) \in Messages
  <2>1. \A i \in (k + 1)..Len(s) : s[i] \in Message
    BY <1>1
  <2>2. k + 1 \in Int /\ Len(s) \in Int
    BY <1>1
  <2> QED  BY <2>1, <2>2, SubSeqProperties DEF Messages
<1>4. SubSeq(s, 1, k) \o SubSeq(s, k + 1, Len(s)) = s
  <2>1. /\ 1 \in 1..(Len(s) + 1) /\ k \in (1 - 1)..Len(s) /\ Len(s) \in k..Len(s)
    BY <1>1
  <2>2. SubSeq(s, 1, k) \o SubSeq(s, k + 1, Len(s)) = SubSeq(s, 1, Len(s))
    BY <2>1, ConcatAdjacentSubSeq DEF Messages
  <2>3. SubSeq(s, 1, Len(s)) = s
    BY SubSeqFull DEF Messages
  <2> QED  BY Zenon, <2>2, <2>3
<1> QED  BY <1>2, <1>3, <1>4

\* File 0 set to a sequence of messages.
LEMMA NewFileZero ==
  ASSUME TypeOK, NEW s \in Messages
  PROVE  /\ IsDisk(With(disk, 0, s))
         /\ FileOf(With(disk, 0, s), 0) = s
         /\ \A k : k # 0 => FileOf(With(disk, 0, s), k) = FileOf(disk, k)
<1>1. IsDisk(disk) /\ 0 \in 0..MaxFiles
  BY TypeFacts
<1>2. IsDisk(With(disk, 0, s))
  BY ONLY <1>1, s \in Messages, WithFile
<1>3. ASSUME NEW k
      PROVE  FileOf(With(disk, 0, s), k) = IF k = 0 THEN s ELSE FileOf(disk, k)
  BY DEF With, FileOf
<1> QED  BY <1>2, <1>3

\* What flushing and closing leave.
LEMMA FlushedFile ==
  ASSUME TypeOK
  PROVE  /\ IsDisk(Flushed)
         /\ FileOf(Flushed, 0) = IF fd_ THEN File(0) \o buffer ELSE File(0)
         /\ \A k : k # 0 => FileOf(Flushed, k) = FileOf(disk, k)
BY TypeFacts, NewFileZero DEF Flushed

-----------------------------------------------------------------------------
(* What a failed write leaves *)

\* Cut keeps the numbers and whether they are counted, and adds nothing.
LEMMA TornFacts ==
  ASSUME NEW s \in Messages, NEW p \in Torn(s)
  PROVE  /\ p \in Messages /\ Len(p) \in Nat /\ Len(p) <= Len(s)
         /\ \A j \in 1..Len(p) : /\ p[j].n = s[j].n /\ p[j].counted = s[j].counted
                                  /\ p[j].size <= s[j].size
<1>1. Len(s) \in Nat /\ \A k \in 1..Len(s) : s[k] \in Message /\ s[k].size \in Nat \ {0}
  BY MessageSizes
<1>2. CASE p = <<>>
  <2>1. <<>> \in Messages /\ Len(<<>>) = 0
    BY DEF Messages
  <2> QED  BY <1>1, <1>2, <2>1
<1>3. CASE p # <<>>
  <2>1. PICK k \in 1..Len(s) : \E b \in 1..s[k].size : p = Cut(s, k, b)
    BY <1>3 DEF Torn
  <2>2. PICK b \in 1..s[k].size : p = Cut(s, k, b)
    BY <2>1
  <2> DEFINE q == SubSeq(s, 1, k - 1)
             m == [s[k] EXCEPT !.size = b]
  <2>3. /\ k \in Nat \ {0} /\ k <= Len(s) /\ k - 1 \in Nat /\ b \in Nat \ {0} /\ b <= s[k].size
        /\ s[k] \in Message
    BY <1>1
  <2>4. m \in Message /\ m.n = s[k].n /\ m.counted = s[k].counted /\ m.size = b
    BY <2>3 DEF Message
  <2>5. q \in Messages /\ Len(q) = k - 1 /\ \A j \in 1..(k - 1) : q[j] = s[j]
    <3>1. \A j \in 1..(k - 1) : s[j] \in Message
      BY <1>1, <2>3
    <3>2. 1 \in Int /\ k - 1 \in Int
      BY <2>3
    <3>3. /\ q \in Seq(Message) /\ Len(q) = (IF 1 <= k - 1 THEN (k - 1) - 1 + 1 ELSE 0)
          /\ \A j \in 1..((k - 1) - 1 + 1) : q[j] = s[1 + j - 1]
      BY <3>1, <3>2, SubSeqProperties
    <3> HIDE DEF q
    <3>4. Len(q) = k - 1
      BY <2>3, <3>3
    <3>5. ASSUME NEW j \in 1..(k - 1) PROVE q[j] = s[j]
      <4>1. j \in 1..((k - 1) - 1 + 1) /\ 1 + j - 1 = j
        BY <2>3
      <4> QED  BY <3>3, <4>1
    <3> QED  BY <3>3, <3>4, <3>5 DEF Messages
  <2>6. p = Append(q, m)
    BY <2>2 DEF Cut
  <2> HIDE DEF q, m
  <2>7. /\ p \in Messages /\ Len(p) = k /\ p[k] = m
        /\ \A j \in 1..(k - 1) : p[j] = q[j]
    <3>1. /\ p \in Seq(Message) /\ Len(p) = Len(q) + 1 /\ p[Len(q) + 1] = m
          /\ \A j \in 1..Len(q) : p[j] = q[j]
      BY <2>4, <2>5, <2>6, AppendProperties DEF Messages
    <3>2. Len(q) + 1 = k
      BY <2>3, <2>5
    <3> QED  BY <2>5, <3>1, <3>2 DEF Messages
  <2>8. ASSUME NEW j \in 1..Len(p)
        PROVE  p[j].n = s[j].n /\ p[j].counted = s[j].counted /\ p[j].size <= s[j].size
    <3>1. CASE j = k
      BY <2>3, <2>4, <2>7, <3>1
    <3>2. CASE j # k
      <4>1. j \in 1..(k - 1) /\ j \in 1..Len(s)
        BY <1>1, <2>3, <2>7, <3>2
      <4>2. p[j] = s[j] /\ s[j].size \in Nat
        BY <1>1, <2>5, <2>7, <4>1
      <4> QED  BY <4>2
    <3> QED  BY <3>1, <3>2
  <2> QED  BY <2>3, <2>7, <2>8
<1> QED  BY <1>2, <1>3

\* What was to be written: the buffer, and perhaps one more message, which is
\* not counted yet.
Attempt(s) ==
  s = buffer \/ \E m \in Message : ~m.counted /\ s = Append(buffer, m)

LEMMA AttemptFacts ==
  ASSUME TypeOK, NEW s, Attempt(s)
  PROVE  /\ s \in Messages /\ Len(buffer) \in Nat /\ Len(s) \in Nat
         /\ Len(buffer) <= Len(s) /\ Len(s) <= Len(buffer) + 1
         /\ \A j \in 1..Len(buffer) : s[j] = buffer[j]
         /\ \A j \in 1..Len(s) : j > Len(buffer) => ~s[j].counted
<1>1. buffer \in Messages /\ Len(buffer) \in Nat
  BY TypeFacts, MessageSizes
<1>2. CASE s = buffer
  BY <1>1, <1>2
<1>3. CASE s # buffer
  <2>1. PICK m \in Message : ~m.counted /\ s = Append(buffer, m)
    BY <1>3 DEF Attempt
  <2>2. /\ s \in Messages /\ Len(s) = Len(buffer) + 1 /\ s[Len(buffer) + 1] = m
        /\ \A j \in 1..Len(buffer) : s[j] = buffer[j]
    BY <1>1, <2>1, AppendProperties DEF Messages
  <2>3. \A j \in 1..Len(s) : j > Len(buffer) => j = Len(buffer) + 1
    BY <1>1, <2>2
  <2> QED  BY <1>1, <2>1, <2>2, <2>3
<1> QED  BY <1>2, <1>3

\* A failed write changes file 0 only.
LEMMA TornDisk ==
  ASSUME TypeOK, NEW s, Attempt(s), LeaveTorn(s)
  PROVE  /\ IsDisk(disk') /\ buffer' = <<>> /\ buffer' \in Messages
         /\ \A k : k # 0 => FileOf(disk', k) = FileOf(disk, k)
         /\ \E p \in Torn(s) : FileOf(disk', 0) = File(0) \o p
<1>1. PICK p \in Torn(s) : disk' = With(disk, 0, File(0) \o p)
  BY DEF LeaveTorn
<1>2. buffer' = <<>> /\ <<>> \in Messages
  BY DEF LeaveTorn, Messages
<1>3. p \in Messages /\ File(0) \o p \in Messages
  BY AttemptFacts, TornFacts, TypeFacts, MessagesConcat
<1>4. /\ IsDisk(With(disk, 0, File(0) \o p))
      /\ FileOf(With(disk, 0, File(0) \o p), 0) = File(0) \o p
      /\ \A k : k # 0 => FileOf(With(disk, 0, File(0) \o p), k) = FileOf(disk, k)
  BY <1>3, NewFileZero
<1> QED  BY <1>1, <1>2, <1>4

-----------------------------------------------------------------------------
(* Every variable keeps its type *)

LEMMA TypeInit == Init => TypeOK
<1> SUFFICES ASSUME Init PROVE TypeOK
  OBVIOUS
<1>1. disk = <<>> /\ buffer = <<>> /\ op = Off /\ next = 1 /\ faults = 0
      /\ fd_ = FALSE /\ current_size_ = 0
  BY DEF Init
<1>2. DOMAIN disk = {} /\ buffer \in Seq(Message)
  BY <1>1
<1>3. op \in Ops
  BY <1>1, OpTypes
<1>4. next \in 1..(MaxMessages + 1) /\ faults \in 0..MaxFaults
  BY <1>1
<1> QED  BY <1>1, <1>2, <1>3, <1>4 DEF TypeOK, Ops

\* The parts of the type, after a step.
LEMMA TypeAfter ==
  ASSUME IsDisk(disk'), buffer' \in Messages, fd_' \in BOOLEAN, current_size_' \in Nat,
         op' \in Ops, next' \in 1..(MaxMessages + 1), faults' \in 0..MaxFaults
  PROVE  TypeOK'
BY DEF TypeOK, IsDisk, Messages, Ops

\* The rotation has come to a place that exists: a rename moves a file into
\* an empty place, and before the oldest is removed nothing has moved.
Shifting ==
  /\ op.at = "remove" /\ op.i < MaxFiles => op.i \notin DOMAIN disk
  /\ op.at = "rename" => /\ op.i > 0 /\ op.i - 1 \in DOMAIN disk
                         /\ op.i \notin DOMAIN disk

\* The message being written is not counted.
Uncounted == Busy => ~op.msg.counted

\* What may be written only in part: all that fwrite was given.
LEMMA WriteAttempt ==
  ASSUME TypeOK, Uncounted, op.at = "write"
  PROVE  Attempt(Append(buffer, op.msg))
BY TypeFacts, BusyMessage DEF Attempt, Uncounted, Busy

LEMMA CrashLeaves ==
  ASSUME TypeOK, Uncounted, Crash
  PROVE  \/ \E s : Attempt(s) /\ LeaveTorn(s) /\ (s # buffer => s = Append(buffer, op.msg) /\ op.at = "write")
         \/ UNCHANGED <<disk, buffer>>
<1>1. CASE fd_ /\ op.at = "write"
  BY <1>1, WriteAttempt DEF Crash
<1>2. CASE fd_ /\ op.at # "write"
  BY <1>2 DEF Crash, Attempt
<1>3. CASE ~fd_
  BY <1>3 DEF Crash
<1> QED  BY <1>1, <1>2, <1>3

LEMMA TypeStep == TypeOK /\ Shifting /\ Uncounted /\ [Next]_vars => TypeOK'
<1> SUFFICES ASSUME TypeOK, Shifting, Uncounted, [Next]_vars PROVE TypeOK'
  OBVIOUS
<1>1. /\ IsDisk(disk) /\ buffer \in Messages /\ op \in Ops
      /\ File(0) \in Messages /\ File(0) \o buffer \in Messages
      /\ <<>> \in Messages
  BY TypeFacts DEF Messages
<1>2. /\ fd_ \in BOOLEAN /\ current_size_ \in Nat
      /\ next \in 1..(MaxMessages + 1) /\ faults \in 0..MaxFaults
  BY DEF TypeOK
<1> USE DEF Fault, NoFault
<1>3. CASE OpenSink
  <2>1. /\ disk' = With(disk, 0, File(0)) /\ fd_' = TRUE
        /\ current_size_' = SizeOf(File(0)) /\ op' = Idle
        /\ UNCHANGED <<buffer, next, faults>>
    BY <1>3 DEF OpenSink
  <2>2. IsDisk(disk')
    BY <1>1, <2>1, NewFileZero
  <2>3. current_size_' \in Nat /\ op' \in Ops
    BY <1>1, <2>1, SizeTypes, OpTypes
  <2> QED  BY <1>1, <1>2, <2>1, <2>2, <2>3, TypeAfter
<1>4. ASSUME NEW size \in Sizes, SinkIt(size) PROVE TypeOK'
  <2>1. /\ next <= MaxMessages /\ next' = next + 1
        /\ UNCHANGED current_size_
        /\ faults' = faults \/ (faults < MaxFaults /\ faults' = faults + 1)
        /\ \/ FitsInFile(size) \/ FileStillEmpty(size)
           \/ StartRotation(size) \/ NoFileToMeasure(size) \/ CannotFlush(size)
    BY <1>4 DEF SinkIt
  <2>0. faults' \in 0..MaxFaults
    BY <1>2, <2>1
  <2> DEFINE msg == NewMessage(size)
  <2>2. msg \in Message /\ next' \in 1..(MaxMessages + 1) /\ MaxFiles \in 0..MaxFiles
        /\ current_size_ + size \in Nat
    BY <1>2, <2>1, NextMessage
  <2> HIDE DEF msg
  <2>3. CASE FitsInFile(size) \/ FileStillEmpty(size)
    <3>1. op' = [at |-> "write", msg |-> msg, new_size |-> current_size_ + size]
          /\ UNCHANGED <<disk, buffer, fd_>>
      BY <2>3 DEF FitsInFile, FileStillEmpty, msg
    <3>2. op' \in Ops
      BY <2>2, <3>1, OpTypes
    <3> QED  BY <1>1, <1>2, <2>0, <2>1, <2>2, <3>1, <3>2, TypeAfter
  <2>4. CASE StartRotation(size)
    <3>1. /\ disk' = Flushed /\ buffer' = <<>> /\ fd_' = FALSE
          /\ op' = [at |-> "remove", i |-> MaxFiles, msg |-> msg]
      BY <2>4 DEF StartRotation, msg
    <3>2. op' \in Ops
      BY <2>2, <3>1, OpTypes
    <3> QED  BY <1>1, <1>2, <2>0, <2>1, <2>2, <3>1, <3>2, FlushedFile, TypeAfter
  <2>5. CASE NoFileToMeasure(size)
    <3>1. op' = Idle /\ UNCHANGED <<disk, buffer, fd_>>
      BY <2>5 DEF NoFileToMeasure
    <3> QED  BY <1>1, <1>2, <2>0, <2>1, <2>2, <3>1, OpTypes, TypeAfter
  <2>6. CASE CannotFlush(size)
    <3>1. LeaveTorn(buffer) /\ Attempt(buffer) /\ op' = Idle /\ UNCHANGED fd_
      BY <2>6 DEF CannotFlush, Attempt
    <3>2. IsDisk(disk') /\ buffer' \in Messages
      BY <3>1, TornDisk
    <3> QED  BY <1>2, <2>0, <2>1, <2>2, <3>1, <3>2, OpTypes, TypeAfter
  <2> QED  BY <2>1, <2>3, <2>4, <2>5, <2>6
<1>5. CASE Write
  <2>1. /\ op.at = "write"
        /\ buffer' = IF fd_ THEN Append(buffer, Logged(op.msg)) ELSE buffer
        /\ current_size_' = op.new_size /\ op' = Idle
        /\ UNCHANGED <<disk, fd_, next, faults>>
    BY <1>5 DEF Write, Logged
  <2>2. Logged(op.msg) \in Message /\ op.new_size \in Nat
    BY <1>1, <2>1, OpCases, OpTypes, LoggedMessage
  <2>3. buffer' \in Messages
    BY <1>1, <2>1, <2>2, AppendProperties DEF Messages
  <2> QED  BY <1>1, <1>2, <2>1, <2>2, <2>3, OpTypes, TypeAfter
<1>6. CASE RemoveTarget
  <2>1. /\ op.at = "remove" /\ op.i > 0
        /\ UNCHANGED <<buffer, fd_, current_size_, next, faults>>
        /\ \/ op' = [op EXCEPT !.i = @ - 1] /\ disk' = disk
           \/ op' = [op EXCEPT !.at = "rename"] /\ disk' = Without(disk, {op.i})
    BY <1>6 DEF RemoveTarget
  <2>2. op.i \in 0..MaxFiles /\ op.i - 1 \in 0..MaxFiles /\ op.msg \in Message
        /\ op = [at |-> "remove", i |-> op.i, msg |-> op.msg]
    BY <1>1, <2>1, RotatingOp
  <2>3. IsDisk(disk')
    <3>1. IsDisk(Without(disk, {op.i}))
      BY <1>1, WithoutFile
    <3> QED  BY <1>1, <2>1, <3>1
  <2>4. \/ op' = [at |-> "remove", i |-> op.i - 1, msg |-> op.msg]
        \/ op' = [at |-> "rename", i |-> op.i, msg |-> op.msg]
    BY <2>1, <2>2
  <2>5. op' \in Ops
    BY <2>2, <2>4, OpTypes
  <2> QED  BY <1>1, <1>2, <2>1, <2>3, <2>5, TypeAfter
<1>7. CASE Rename
  <2>1. /\ op.at = "rename" /\ UNCHANGED <<buffer, fd_, current_size_, next, faults>>
        /\ disk' = With(Without(disk, {op.i - 1}), op.i, disk[op.i - 1])
        /\ op' = [op EXCEPT !.at = "remove", !.i = @ - 1]
    BY <1>7 DEF Rename
  <2>2. /\ op.i \in 1..MaxFiles /\ op.i - 1 \in 0..MaxFiles /\ op.msg \in Message
        /\ op = [at |-> "rename", i |-> op.i, msg |-> op.msg]
    BY <1>1, <2>1, RotatingOp DEF Shifting
  <2>3. IsDisk(Without(disk, {op.i - 1}))
    BY <1>1, WithoutFile
  <2>4. disk[op.i - 1] \in Messages
    BY <1>1, <2>1 DEF IsDisk, Shifting
  <2>5. IsDisk(disk')
    <3>1. op.i \in 0..MaxFiles
      BY <2>2
    <3> QED  BY ONLY <2>1, <2>3, <2>4, <3>1, WithFile
  <2>6. op' = [at |-> "remove", i |-> op.i - 1, msg |-> op.msg]
    BY <2>1, <2>2
  <2>7. op' \in Ops
    BY <2>2, <2>6, OpTypes
  <2> QED  BY <1>1, <1>2, <2>1, <2>5, <2>7, TypeAfter
<1>8. CASE RenameFails
  <2>1. /\ disk' = With(disk, 0, <<>>) /\ fd_' = TRUE /\ current_size_' = 0 /\ op' = Idle
        /\ UNCHANGED <<buffer, next>> /\ faults < MaxFaults /\ faults' = faults + 1
    BY <1>8 DEF RenameFails
  <2>2. IsDisk(disk') /\ faults' \in 0..MaxFaults
    BY <1>1, <1>2, <2>1, NewFileZero
  <2> QED  BY <1>1, <1>2, <2>1, <2>2, OpTypes, TypeAfter
<1>9. CASE ReopenFails
  <2>1. /\ fd_' = FALSE /\ disk' \in {disk, With(disk, 0, <<>>)} /\ op' = Idle
        /\ UNCHANGED <<buffer, current_size_, next>> /\ faults < MaxFaults /\ faults' = faults + 1
    BY <1>9 DEF ReopenFails
  <2>2. IsDisk(disk')
    <3>1. IsDisk(With(disk, 0, <<>>))
      BY <1>1, NewFileZero
    <3> QED  BY <1>1, <2>1, <3>1
  <2>3. faults' \in 0..MaxFaults
    BY <1>2, <2>1
  <2> QED  BY <1>1, <1>2, <2>1, <2>2, <2>3, OpTypes, TypeAfter
<1>10. CASE Reopen
  <2>1. /\ op.at = "remove" /\ op.i = 0 /\ disk' = With(disk, 0, <<>>) /\ fd_' = TRUE
        /\ op' = [at |-> "write", msg |-> op.msg, new_size |-> op.msg.size]
        /\ UNCHANGED <<buffer, current_size_, next, faults>>
    BY <1>10 DEF Reopen
  <2>2. op.msg \in Message /\ op.msg.size \in Nat
    BY <1>1, <2>1, BusyMessage DEF Busy
  <2>3. op' \in Ops
    BY <2>1, <2>2, OpTypes
  <2> QED  BY <1>1, <1>2, <2>1, <2>3, NewFileZero, TypeAfter
<1>11. CASE Flush
  <2>1. PICK k \in 1..Len(buffer) :
          /\ disk' = With(disk, 0, File(0) \o SubSeq(buffer, 1, k))
          /\ buffer' = SubSeq(buffer, k + 1, Len(buffer))
    BY <1>11 DEF Flush
  <2>2. UNCHANGED <<fd_, current_size_, op, next, faults>>
    BY <1>11 DEF Flush
  <2>3. SubSeq(buffer, 1, k) \in Messages /\ buffer' \in Messages
    BY <1>1, <2>1, BufferParts
  <2>4. File(0) \o SubSeq(buffer, 1, k) \in Messages
    BY <1>1, <2>3, MessagesConcat
  <2>5. IsDisk(disk')
    BY <2>1, <2>4, NewFileZero
  <2> QED  BY <1>1, <1>2, <2>2, <2>3, <2>5, TypeAfter
<1>12. CASE CloseSink
  <2>1. /\ disk' = Flushed /\ buffer' = <<>> /\ fd_' = FALSE /\ op' = Off
        /\ UNCHANGED <<current_size_, next, faults>>
    BY <1>12 DEF CloseSink
  <2> QED  BY <1>1, <1>2, <2>1, FlushedFile, OpTypes, TypeAfter
<1>13. CASE Crash
  <2>1. /\ fd_' = FALSE /\ op' = Off
        /\ UNCHANGED <<current_size_, next>> /\ faults < MaxFaults /\ faults' = faults + 1
    BY <1>13 DEF Crash
  <2>2. faults' \in 0..MaxFaults
    BY <1>2, <2>1
  <2>3. IsDisk(disk') /\ buffer' \in Messages
    BY <1>1, <1>13, CrashLeaves, TornDisk
  <2> QED  BY <1>2, <2>1, <2>2, <2>3, OpTypes, TypeAfter
<1>14. CASE WriteFails \/ FlushFails \/ CloseFails
  <2>1. /\ \E s : Attempt(s) /\ LeaveTorn(s)
        /\ fd_' \in BOOLEAN /\ op' \in Ops
        /\ UNCHANGED <<current_size_, next>> /\ faults < MaxFaults /\ faults' = faults + 1
    BY <1>1, <1>2, <1>14, WriteAttempt, OpTypes DEF WriteFails, FlushFails, CloseFails, Attempt
  <2>2. IsDisk(disk') /\ buffer' \in Messages
    BY <2>1, TornDisk
  <2>3. faults' \in 0..MaxFaults
    BY <1>2, <2>1
  <2> QED  BY <1>2, <2>1, <2>2, <2>3, TypeAfter
<1>15. CASE UNCHANGED vars
  BY <1>15 DEF vars, TypeOK
<1> QED  BY <1>3, <1>4, <1>5, <1>6, <1>7, <1>8, <1>9, <1>10, <1>11, <1>12, <1>13, <1>14, <1>15
         DEF Next

-----------------------------------------------------------------------------
(* What a rotation may rely on *)

\* The place a rotation has come to stays the one Shifting describes.
LEMMA ShiftingStep == TypeOK /\ Shifting /\ [Next]_vars => Shifting'
<1> SUFFICES ASSUME TypeOK, Shifting, [Next]_vars PROVE Shifting'
  OBVIOUS
<1>1. op \in Ops /\ IsDisk(disk)
  BY TypeFacts
<1>2. CASE op'.at \notin {"remove", "rename"}
  BY <1>2 DEF Shifting
<1>3. CASE \/ OpenSink \/ Write \/ WriteFails \/ RenameFails \/ ReopenFails \/ Reopen
           \/ Flush \/ FlushFails \/ CloseSink \/ CloseFails \/ Crash
  <2>1. op' = Idle \/ op' = Off \/ op'.at = "write"
    BY <1>3 DEF OpenSink, Write, WriteFails, RenameFails, ReopenFails, Reopen, Flush,
                FlushFails, CloseSink, CloseFails, Crash
  <2> QED  BY <1>2, <2>1, OpTypes
<1>4. ASSUME NEW size \in Sizes, SinkIt(size) PROVE Shifting'
  <2>1. op' = Idle \/ op'.at = "write" \/ (op'.at = "remove" /\ op'.i = MaxFiles)
    BY <1>4 DEF SinkIt, FitsInFile, FileStillEmpty, StartRotation, NoFileToMeasure, CannotFlush
  <2>2. CASE op'.at = "remove" /\ op'.i = MaxFiles
    BY <2>2 DEF Shifting
  <2> QED  BY <1>2, <2>1, <2>2, OpTypes
<1>5. CASE RemoveTarget
  <2>1. op.i \in 0..MaxFiles /\ op.i > 0
        /\ op = [at |-> "remove", i |-> op.i, msg |-> op.msg]
    BY <1>1, <1>5, RotatingOp DEF RemoveTarget
  <2>2. CASE op.i - 1 \notin DOMAIN disk /\ op' = [op EXCEPT !.i = @ - 1] /\ UNCHANGED disk
    <3>1. op'.at = "remove" /\ op'.i = op.i - 1
      BY <2>1, <2>2
    <3> QED  BY <2>2, <3>1 DEF Shifting
  <2>3. CASE /\ op.i - 1 \in DOMAIN disk /\ op' = [op EXCEPT !.at = "rename"]
             /\ disk' = Without(disk, {op.i})
    <3>1. op'.at = "rename" /\ op'.i = op.i
      BY <2>1, <2>3
    <3>2. DOMAIN disk' = DOMAIN disk \ {op.i}
      BY <1>1, <2>3, WithoutFile
    <3>3. op.i - 1 # op.i
      BY <2>1
    <3> QED  BY <2>1, <2>3, <3>1, <3>2, <3>3 DEF Shifting
  <2> QED  BY <1>5, <2>2, <2>3 DEF RemoveTarget
<1>6. CASE Rename
  <2> DEFINE i == op.i
             rest == Without(disk, {i - 1})
  <2>1. /\ i \in 1..MaxFiles /\ i - 1 \in DOMAIN disk
        /\ op = [at |-> "rename", i |-> i, msg |-> op.msg]
    BY <1>1, <1>6, RotatingOp DEF Rename, Shifting
  <2>2. disk' = With(rest, i, disk[i - 1]) /\ op' = [op EXCEPT !.at = "remove", !.i = @ - 1]
    BY <1>6 DEF Rename
  <2>3. op'.at = "remove" /\ op'.i = i - 1
    BY <2>1, <2>2
  <2>4. DOMAIN disk' = (DOMAIN disk \ {i - 1}) \union {i}
    <3>1. IsDisk(rest) /\ DOMAIN rest = DOMAIN disk \ {i - 1}
      BY <1>1, WithoutFile
    <3>2. disk[i - 1] \in Messages /\ i \in 0..MaxFiles
      BY <1>1, <2>1 DEF IsDisk
    <3> HIDE DEF i, rest
    <3>3. DOMAIN With(rest, i, disk[i - 1]) = DOMAIN rest \union {i}
      BY ONLY <3>1, <3>2, WithFile
    <3> QED  BY <2>2, <3>1, <3>3
  <2>5. i - 1 \notin DOMAIN disk'
    BY <2>1, <2>4
  <2> QED  BY <2>3, <2>5 DEF Shifting
<1>7. CASE UNCHANGED vars
  BY <1>7 DEF vars, Shifting
<1> QED  BY <1>3, <1>4, <1>5, <1>6, <1>7 DEF Next

\* fwrite is given what is not counted yet.
LEMMA UncountedStep == TypeOK /\ Uncounted /\ [Next]_vars => Uncounted'
<1> SUFFICES ASSUME TypeOK, Uncounted, [Next]_vars PROVE Uncounted'
  OBVIOUS
<1>1. op \in Ops
  BY TypeFacts
<1>2. CASE op' = Idle \/ op' = Off
  BY <1>2, OpTypes DEF Uncounted, Busy
<1>3. CASE Busy /\ op'.msg = op.msg
  BY <1>3 DEF Uncounted
<1>4. ASSUME NEW size \in Sizes, SinkIt(size) PROVE Uncounted'
  <2>1. op' = Idle \/ op'.msg = NewMessage(size)
    BY <1>4 DEF SinkIt, FitsInFile, FileStillEmpty, StartRotation, NoFileToMeasure, CannotFlush
  <2>2. ~NewMessage(size).counted
    BY DEF NewMessage
  <2> QED  BY <1>2, <2>1, <2>2 DEF Uncounted
<1>5. CASE \/ OpenSink \/ Write \/ WriteFails \/ RenameFails \/ ReopenFails
           \/ Flush \/ FlushFails \/ CloseSink \/ CloseFails \/ Crash
  BY <1>2, <1>5 DEF OpenSink, Write, WriteFails, RenameFails, ReopenFails, Flush,
              FlushFails, CloseSink, CloseFails, Crash
<1>6. CASE RemoveTarget \/ Rename
  <2>1. /\ op.at \in {"remove", "rename"} /\ Busy
        /\ op = [at |-> op.at, i |-> op.i, msg |-> op.msg]
    BY <1>1, <1>6, RotatingOp DEF RemoveTarget, Rename, Busy
  <2>2. \/ op' = [op EXCEPT !.i = @ - 1]
        \/ op' = [op EXCEPT !.at = "rename"]
        \/ op' = [op EXCEPT !.at = "remove", !.i = @ - 1]
    BY <1>6 DEF RemoveTarget, Rename
  <2>3. op'.msg = op.msg
    BY <2>1, <2>2
  <2> QED  BY <1>3, <2>1, <2>3
<1>7. CASE Reopen
  BY <1>3, <1>7 DEF Reopen, Busy
<1>8. CASE UNCHANGED vars
  BY <1>8 DEF vars, Uncounted, Busy
<1> QED  BY <1>4, <1>5, <1>6, <1>7, <1>8 DEF Next

\* No file is open while files are renamed, and nothing is buffered then.
Closed ==
  /\ op.at \in {"off", "remove", "rename"} => ~fd_
  /\ ~fd_ => buffer = <<>>

LEMMA ClosedStep == TypeOK /\ Closed /\ [Next]_vars => Closed'
<1> SUFFICES ASSUME TypeOK, Closed, [Next]_vars PROVE Closed'
  OBVIOUS
<1>1. op \in Ops
  BY TypeFacts
<1>2. CASE OpenSink \/ RenameFails \/ Reopen
  <2>1. fd_' = TRUE /\ (op' = Idle \/ op'.at = "write")
    BY <1>2 DEF OpenSink, RenameFails, Reopen
  <2> QED  BY <2>1, OpTypes DEF Closed
<1>3. ASSUME NEW size \in Sizes, SinkIt(size) PROVE Closed'
  <2>1. CASE FitsInFile(size) \/ FileStillEmpty(size) \/ NoFileToMeasure(size)
    <3>1. UNCHANGED <<buffer, fd_>> /\ (op' = Idle \/ op'.at = "write")
      BY <2>1 DEF FitsInFile, FileStillEmpty, NoFileToMeasure
    <3> QED  BY <3>1, OpTypes DEF Closed
  <2>2. CASE StartRotation(size)
    BY <2>2 DEF StartRotation, Closed
  <2>3. CASE CannotFlush(size)
    BY <2>3, OpTypes DEF CannotFlush, LeaveTorn, Closed
  <2> QED  BY <1>3, <2>1, <2>2, <2>3 DEF SinkIt
<1>4. CASE Write
  <2>1. op' = Idle /\ UNCHANGED fd_ /\ (~fd_ => UNCHANGED buffer)
    BY <1>4 DEF Write
  <2> QED  BY <2>1, OpTypes DEF Closed
<1>5. CASE RemoveTarget \/ Rename
  <2>1. op.at \in {"remove", "rename"} /\ UNCHANGED <<buffer, fd_>>
    BY <1>5 DEF RemoveTarget, Rename
  <2> QED  BY <2>1 DEF Closed
<1>6. CASE ReopenFails
  <2>1. op.at \in {"remove", "rename"} /\ fd_' = FALSE /\ UNCHANGED buffer
    BY <1>6 DEF ReopenFails
  <2> QED  BY <2>1 DEF Closed
<1>7. CASE Flush \/ WriteFails \/ FlushFails
  <2>1. fd_ /\ op' = Idle /\ UNCHANGED fd_
    BY <1>7 DEF Flush, WriteFails, FlushFails
  <2> QED  BY <2>1, OpTypes DEF Closed
<1>8. CASE CloseSink \/ CloseFails \/ Crash
  BY <1>8 DEF CloseSink, CloseFails, Crash, LeaveTorn, Closed
<1>9. CASE UNCHANGED vars
  BY <1>9 DEF vars, Closed
<1> QED  BY <1>2, <1>3, <1>4, <1>5, <1>6, <1>7, <1>8, <1>9 DEF Next

-----------------------------------------------------------------------------
(* The size that is counted is at least what is counted of the file *)

\* What has been written to file 0, flushed or not.
Whole == File(0) \o buffer

Measured ==
  /\ fd_ => CountedSize(Whole) <= current_size_
  /\ op.at = "write" /\ fd_ =>
       /\ CountedSize(Whole) + op.msg.size <= op.new_size
       /\ op.new_size <= MaxSize \/ Whole = <<>>

\* How a step changes what has been written to file 0.
LEMMA WholeOpened ==
  ASSUME TypeOK, Closed, OpenSink
  PROVE  Whole' = File(0) /\ Whole = File(0)
<1>1. buffer = <<>> /\ buffer' = <<>> /\ disk' = With(disk, 0, File(0))
  BY OpTypes DEF OpenSink, Closed
<1>2. File(0) \in Messages
  BY TypeFacts
<1>3. File(0)' = File(0)
  BY <1>1, <1>2, NewFileZero DEF File, FileOf
<1> QED  BY <1>1, <1>2, <1>3, MessagesConcat DEF Whole

LEMMA WholeWritten ==
  ASSUME TypeOK, Write
  PROVE  /\ fd_ => Whole' = Append(Whole, Logged(op.msg))
         /\ ~fd_ => Whole' = Whole
<1>1. /\ File(0)' = File(0) /\ (fd_ => buffer' = Append(buffer, Logged(op.msg)))
      /\ (~fd_ => buffer' = buffer)
  BY DEF Write, File, Logged
<1>2. Logged(op.msg) \in Message /\ File(0) \in Messages /\ buffer \in Messages
  BY TypeFacts, BusyMessage, LoggedMessage DEF Write, Busy
<1>3. File(0) \o Append(buffer, Logged(op.msg)) = Append(File(0) \o buffer, Logged(op.msg))
  BY <1>2, AppendAssociative
<1> QED  BY <1>1, <1>3 DEF Whole

LEMMA WholeFlushed ==
  ASSUME TypeOK, Flush
  PROVE  Whole' = Whole
<1>1. PICK k \in 1..Len(buffer) :
        /\ disk' = With(disk, 0, File(0) \o SubSeq(buffer, 1, k))
        /\ buffer' = SubSeq(buffer, k + 1, Len(buffer))
  BY DEF Flush
<1>2. buffer \in Messages /\ File(0) \in Messages
  BY TypeFacts
<1>3. /\ SubSeq(buffer, 1, k) \in Messages /\ buffer' \in Messages
      /\ SubSeq(buffer, 1, k) \o buffer' = buffer
  BY <1>1, <1>2, BufferParts
<1>4. File(0) \o SubSeq(buffer, 1, k) \in Messages
  BY <1>2, <1>3, MessagesConcat
<1>5. File(0)' = File(0) \o SubSeq(buffer, 1, k)
  BY <1>1, <1>4, NewFileZero DEF File, FileOf
<1>6. (File(0) \o SubSeq(buffer, 1, k)) \o buffer' = File(0) \o (SubSeq(buffer, 1, k) \o buffer')
  BY <1>2, <1>3, MessagesAssociative
<1> QED  BY <1>3, <1>5, <1>6 DEF Whole

\* A file 0 that is truncated with nothing in the buffer.
LEMMA WholeTruncated ==
  ASSUME TypeOK, Closed, ~fd_, disk' = With(disk, 0, <<>>), buffer' = buffer
  PROVE  Whole' = <<>>
<1>1. buffer' = <<>> /\ <<>> \in Messages
  BY DEF Closed, Messages
<1>2. File(0)' = <<>>
  BY <1>1, NewFileZero DEF File, FileOf
<1> QED  BY <1>1, <1>2, MessagesConcat DEF Whole

\* s reads like the beginning of t.
Begins(s, t) == Len(s) <= Len(t) /\ \A j \in 1..Len(s) : s[j].n = t[j].n

LEMMA BeginsAfter ==
  ASSUME NEW p \in Messages, NEW s \in Messages, NEW t \in Messages, Begins(s, t)
  PROVE  Begins(p \o s, p \o t)
<1>1. /\ Len(p) \in Nat /\ Len(s) \in Nat /\ Len(t) \in Nat /\ Len(s) <= Len(t)
      /\ Len(p \o s) = Len(p) + Len(s) /\ Len(p \o t) = Len(p) + Len(t)
  BY MessageSizes, MessagesConcat DEF Begins
<1>2. ASSUME NEW j \in 1..Len(p \o s) PROVE (p \o s)[j].n = (p \o t)[j].n
  <2>1. CASE j <= Len(p)
    <3>1. j \in 1..Len(p)
      BY <1>1, <2>1
    <3> QED  BY <3>1, PrefixPlaces
  <2>2. CASE ~(j <= Len(p))
    <3> DEFINE i == j - Len(p)
    <3>1. i \in 1..Len(s) /\ i \in 1..Len(t) /\ Len(p) + i = j
      BY <1>1, <2>2
    <3> HIDE DEF i
    <3>2. (p \o s)[Len(p) + i] = s[i] /\ (p \o t)[Len(p) + i] = t[i] /\ s[i].n = t[i].n
      BY <3>1, SuffixPlaces DEF Begins
    <3> QED  BY <3>1, <3>2
  <2> QED  BY <2>1, <2>2
<1>3. Len(p \o s) <= Len(p \o t)
  BY <1>1
<1> QED  BY <1>2, <1>3 DEF Begins

LEMMA CoveredAfter ==
  ASSUME NEW p \in Messages, NEW s \in Messages, NEW t \in Messages, Covered(s, t)
  PROVE  Covered(p \o s, p \o t)
<1>1. /\ Len(p) \in Nat /\ Len(s) \in Nat /\ Len(t) \in Nat
      /\ Len(p \o s) = Len(p) + Len(s) /\ Len(p \o t) = Len(p) + Len(t)
  BY MessageSizes, MessagesConcat
<1>2. ASSUME NEW j \in 1..Len(p \o s), (p \o s)[j].counted
      PROVE  /\ j <= Len(p \o t) /\ (p \o t)[j].counted
             /\ (p \o s)[j].size <= (p \o t)[j].size
  <2>1. CASE j <= Len(p)
    <3>1. j \in 1..Len(p) /\ j <= Len(p) + Len(t) /\ p[j].size \in Nat
      BY <1>1, <2>1, MessageSizes
    <3>2. (p \o s)[j] = p[j] /\ (p \o t)[j] = p[j]
      BY <3>1, PrefixPlaces
    <3> QED  BY <1>1, <1>2, <3>1, <3>2
  <2>2. CASE ~(j <= Len(p))
    <3> DEFINE i == j - Len(p)
    <3>1. i \in 1..Len(s) /\ Len(p) + i = j /\ i \in Nat
      BY <1>1, <2>2
    <3> HIDE DEF i
    <3>2. (p \o s)[j] = s[i]
      BY <3>1, SuffixPlaces
    <3>3. i <= Len(t) /\ t[i].counted /\ s[i].size <= t[i].size
      BY <1>2, <3>1, <3>2 DEF Covered
    <3>4. i \in 1..Len(t)
      BY <1>1, <3>1, <3>3
    <3>5. (p \o t)[j] = t[i] /\ j <= Len(p \o t)
      BY <1>1, <3>1, <3>3, <3>4, SuffixPlaces
    <3> QED  BY <3>2, <3>3, <3>5
  <2> QED  BY <2>1, <2>2
<1> QED  BY <1>2 DEF Covered

\* After a failed write the file holds a part of what was to be in it, and what
\* is counted of it was counted before.
LEMMA TornWhole ==
  ASSUME TypeOK, NEW s, Attempt(s), LeaveTorn(s)
  PROVE  /\ Whole' \in Messages /\ Covered(Whole', Whole)
         /\ Begins(Whole', File(0) \o s)
<1>1. PICK p \in Torn(s) : FileOf(disk', 0) = File(0) \o p
  BY TornDisk
<1>2. /\ s \in Messages /\ Len(buffer) \in Nat /\ Len(s) \in Nat
      /\ \A j \in 1..Len(buffer) : s[j] = buffer[j]
      /\ \A j \in 1..Len(s) : j > Len(buffer) => ~s[j].counted
      /\ buffer \in Messages /\ File(0) \in Messages
  BY AttemptFacts, TypeFacts
<1>3. /\ p \in Messages /\ Len(p) \in Nat /\ Len(p) <= Len(s)
      /\ \A j \in 1..Len(p) : /\ p[j].n = s[j].n /\ p[j].counted = s[j].counted
                               /\ p[j].size <= s[j].size
  BY <1>2, TornFacts
<1>4. Whole' = File(0) \o p
  <2>1. Whole' = FileOf(disk', 0) \o <<>>
    BY TornDisk DEF Whole, File, FileOf
  <2> QED  BY <1>1, <1>2, <1>3, <2>1, MessagesConcat
<1>5. Covered(p, buffer)
  <2> SUFFICES ASSUME NEW j \in 1..Len(p), p[j].counted
               PROVE  j <= Len(buffer) /\ buffer[j].counted /\ p[j].size <= buffer[j].size
    BY DEF Covered
  <2>1. j \in 1..Len(s) /\ s[j].counted
    BY <1>2, <1>3
  <2>2. j <= Len(buffer) /\ j \in 1..Len(buffer)
    BY <1>2, <2>1
  <2> QED  BY <1>2, <1>3, <2>1, <2>2
<1>6. Begins(p, s)
  BY <1>3 DEF Begins
<1> QED  BY <1>2, <1>3, <1>4, <1>5, <1>6, MessagesConcat, CoveredAfter, BeginsAfter DEF Whole

\* What counts for the next rotation is no less than what is counted in the file.
LEMMA MeasuredStep ==
  TypeOK /\ Uncounted /\ Closed /\ Measured /\ [Next]_vars => Measured'
<1> SUFFICES ASSUME TypeOK, Uncounted, Closed, Measured, [Next]_vars PROVE Measured'
  OBVIOUS
<1>1. /\ op \in Ops /\ fd_ \in BOOLEAN /\ current_size_ \in Nat
      /\ Whole \in Messages /\ CountedSize(Whole) \in Nat
  <2>1. op \in Ops /\ fd_ \in BOOLEAN /\ current_size_ \in Nat /\ Whole \in Messages
    BY TypeFacts DEF TypeOK, Whole
  <2> QED  BY <2>1, SizeTypes
<1>2. CASE fd_' = FALSE
  BY <1>2 DEF Measured
<1>3. CASE OpenSink
  <2>1. current_size_' = SizeOf(File(0)) /\ op' = Idle /\ Whole' = File(0)
    BY <1>3, WholeOpened DEF OpenSink
  <2>2. CountedSize(File(0)) <= SizeOf(File(0))
    BY TypeFacts, SizeTypes
  <2> QED  BY <2>1, <2>2, OpTypes DEF Measured
<1>4. ASSUME NEW s, Attempt(s), LeaveTorn(s), UNCHANGED <<fd_, current_size_>>, op'.at # "write"
      PROVE  Measured'
  <2>1. /\ Whole' \in Messages /\ CountedSize(Whole') \in Nat
        /\ CountedSize(Whole') <= CountedSize(Whole)
    <3>1. Whole' \in Messages /\ Covered(Whole', Whole)
      BY <1>4, TornWhole
    <3> QED  BY <1>1, <3>1, SizeTypes, CoveredSize
  <2>2. fd_ => CountedSize(Whole') <= current_size_
    BY <1>1, <2>1 DEF Measured
  <2> QED  BY <1>4, <2>2 DEF Measured
<1>5. ASSUME NEW size \in Sizes, SinkIt(size) PROVE Measured'
  <2>1. op = Idle /\ current_size_' = current_size_
    BY <1>5 DEF SinkIt
  <2>2. CASE FitsInFile(size) \/ FileStillEmpty(size)
    <3>1. /\ op' = [at |-> "write", msg |-> NewMessage(size),
                    new_size |-> current_size_ + size]
          /\ UNCHANGED <<disk, buffer, fd_>>
          /\ current_size_ + size <= MaxSize \/ Whole = <<>>
      BY <2>2 DEF FitsInFile, FileStillEmpty, Whole
    <3>2. Whole' = Whole /\ op'.at = "write" /\ op'.new_size = current_size_ + size
          /\ op'.msg.size = size /\ size \in Nat
      BY <3>1 DEF Whole, File, NewMessage
    <3>3. fd_' => CountedSize(Whole) <= current_size_
      BY <2>1, <3>1 DEF Measured
    <3>4. fd_' => CountedSize(Whole) + size <= current_size_ + size
      BY <1>1, <3>2, <3>3
    <3> QED  BY <2>1, <3>1, <3>2, <3>3, <3>4 DEF Measured
  <2>3. CASE StartRotation(size)
    BY <1>2, <2>3 DEF StartRotation
  <2>4. CASE NoFileToMeasure(size)
    <3>1. fd_' = FALSE
      BY <1>1, <2>4 DEF NoFileToMeasure
    <3> QED  BY <1>2, <3>1
  <2>5. CASE CannotFlush(size)
    <3>1. LeaveTorn(buffer) /\ op' = Idle /\ fd_' = fd_ /\ Attempt(buffer)
      BY <2>5 DEF CannotFlush, Attempt
    <3> QED  BY <1>4, <2>1, <3>1, OpTypes
  <2> QED  BY <1>5, <2>2, <2>3, <2>4, <2>5 DEF SinkIt
<1>6. CASE Write
  <2>1. op.at = "write" /\ op' = Idle /\ current_size_' = op.new_size /\ fd_' = fd_
    BY <1>6 DEF Write
  <2>2. CASE fd_
    <3>1. op.msg \in Message
      BY <1>1, <2>1, BusyMessage DEF Busy
    <3>2. CountedSize(Append(Whole, Logged(op.msg))) = CountedSize(Whole) + op.msg.size
      BY <1>1, <3>1, LoggedMessage, SizeOfAppend
    <3>3. Whole' = Append(Whole, Logged(op.msg))
      BY <1>6, <2>2, WholeWritten
    <3>4. CountedSize(Whole) + op.msg.size <= op.new_size
      BY <2>1, <2>2 DEF Measured
    <3>5. CountedSize(Whole') <= current_size_'
      BY <2>1, <3>2, <3>3, <3>4
    <3> QED  BY <2>1, <3>5, OpTypes DEF Measured
  <2> QED  BY <1>1, <1>2, <2>1, <2>2
<1>7. CASE RemoveTarget \/ Rename
  <2>1. op.at \in {"remove", "rename"} /\ fd_' = fd_
    BY <1>7 DEF RemoveTarget, Rename
  <2> QED  BY <1>1, <1>2, <2>1 DEF Closed
<1>8. CASE RenameFails
  <2>1. /\ op.at = "rename" /\ disk' = With(disk, 0, <<>>) /\ current_size_' = 0
        /\ op' = Idle /\ buffer' = buffer
    BY <1>8 DEF RenameFails
  <2>2. Whole' = <<>>
    BY <2>1, WholeTruncated DEF Closed
  <2> QED  BY <2>1, <2>2, SizeOfEmpty, OpTypes DEF Measured
<1>9. CASE Reopen
  <2>1. /\ op.at = "remove" /\ disk' = With(disk, 0, <<>>) /\ buffer' = buffer
        /\ op' = [at |-> "write", msg |-> op.msg, new_size |-> op.msg.size]
        /\ current_size_' = current_size_
    BY <1>9 DEF Reopen
  <2>2. Whole' = <<>>
    BY <2>1, WholeTruncated DEF Closed
  <2>3. op'.at = "write" /\ op'.new_size = op.msg.size /\ op'.msg = op.msg
        /\ op.msg.size \in Nat
    BY <1>1, <2>1, BusyMessage DEF Busy
  <2> QED  BY <1>1, <2>1, <2>2, <2>3, SizeOfEmpty DEF Measured
<1>10. CASE Flush
  <2>1. op' = op /\ fd_' = fd_ /\ current_size_' = current_size_ /\ op = Idle
    BY <1>10 DEF Flush
  <2> QED  BY <1>10, <2>1, WholeFlushed, OpTypes DEF Measured
<1>11. CASE WriteFails
  <2>1. /\ op.at = "write" /\ LeaveTorn(Append(buffer, op.msg)) /\ op' = Idle
        /\ UNCHANGED <<fd_, current_size_>>
    BY <1>11 DEF WriteFails
  <2>2. Attempt(Append(buffer, op.msg))
    BY <2>1, WriteAttempt
  <2> QED  BY <1>4, <2>1, <2>2, OpTypes
<1>12. CASE FlushFails
  <2>1. /\ op = Idle /\ LeaveTorn(buffer) /\ Attempt(buffer)
        /\ UNCHANGED <<fd_, current_size_, op>>
    BY <1>12 DEF FlushFails, Attempt
  <2> QED  BY <1>4, <2>1, OpTypes
<1>13. CASE ReopenFails \/ CloseSink \/ CloseFails \/ Crash
  BY <1>2, <1>13 DEF ReopenFails, CloseSink, CloseFails, Crash
<1>14. CASE UNCHANGED vars
  BY <1>14 DEF vars, Measured, Whole, File
<1> QED  BY <1>3, <1>5, <1>6, <1>7, <1>8, <1>9, <1>10, <1>11, <1>12, <1>13, <1>14 DEF Next

-----------------------------------------------------------------------------
(* No file outgrows the limit *)

Fits(s) ==
  CountedSize(s) > MaxSize =>
    \A j, k \in DOMAIN s : s[j].counted /\ s[k].counted => j = k

LEMMA BoundParts == SizeBounded <=> Fits(Whole) /\ \A i \in 1..MaxFiles : Fits(File(i))
<1>1. SizeBounded <=> \A i \in 0..MaxFiles : Fits(IF i = 0 THEN Whole ELSE File(i))
  BY DEF SizeBounded, Fits, Whole
<1>2. 0 \in 0..MaxFiles /\ \A i \in 0..MaxFiles : i = 0 \/ i \in 1..MaxFiles
  OBVIOUS
<1>3. \A i \in 1..MaxFiles : i # 0 /\ i \in 0..MaxFiles
  OBVIOUS
<1> QED  BY <1>1, <1>2, <1>3

LEMMA BoundAfter ==
  ASSUME Fits(Whole'), \A i \in 1..MaxFiles : Fits(FileOf(disk', i))
  PROVE  SizeBounded'
<1>1. SizeBounded' <=> \A i \in 0..MaxFiles : Fits(IF i = 0 THEN Whole' ELSE FileOf(disk', i))
  BY DEF SizeBounded, Fits, Whole, File, FileOf
<1>2. \A i \in 0..MaxFiles : i = 0 \/ i \in 1..MaxFiles
  OBVIOUS
<1> QED  BY <1>1, <1>2

\* What fits still does when less of it is counted.
LEMMA CoveredFits ==
  ASSUME NEW s \in Messages, NEW t \in Messages, Covered(s, t), Fits(t)
  PROVE  Fits(s)
<1> SUFFICES ASSUME CountedSize(s) > MaxSize, NEW j \in DOMAIN s, NEW k \in DOMAIN s,
                    s[j].counted, s[k].counted
             PROVE  j = k
  BY DEF Fits
<1>1. /\ DOMAIN s = 1..Len(s) /\ DOMAIN t = 1..Len(t)
      /\ Len(s) \in Nat /\ Len(t) \in Nat
  BY LenProperties DEF Messages
<1>2. CountedSize(t) > MaxSize
  <2>1. CountedSize(s) \in Nat /\ CountedSize(t) \in Nat /\ CountedSize(s) <= CountedSize(t)
    BY SizeTypes, CoveredSize
  <2> QED  BY <2>1
<1>3. j <= Len(t) /\ t[j].counted /\ k <= Len(t) /\ t[k].counted
  BY <1>1 DEF Covered
<1>4. j \in DOMAIN t /\ k \in DOMAIN t
  BY <1>1, <1>3
<1> QED  BY <1>2, <1>3, <1>4 DEF Fits

\* What fits still does when its end is lost.
LEMMA PrefixFits ==
  ASSUME NEW s \in Messages, NEW t \in Messages, Fits(s \o t)
  PROVE  Fits(s)
<1>1. s \o t \in Messages
  BY MessagesConcat
<1>2. Covered(s, s \o t)
  <2>1. \A j \in 1..Len(s) : /\ (s \o t)[j] = s[j] /\ s[j].size \in Nat
                             /\ j \in 1..Len(s \o t) /\ j <= Len(s \o t)
    BY PrefixPlaces, MessageSizes
  <2> QED  BY <2>1 DEF Covered
<1> QED  BY <1>1, <1>2, CoveredFits

LEMMA EmptyFits == Fits(<<>>)
BY SizeOfEmpty DEF Fits

LEMMA FileFits ==
  ASSUME TypeOK, SizeBounded
  PROVE  \A i \in 0..MaxFiles : Fits(File(i))
<1>1. File(0) \in Messages /\ buffer \in Messages
  BY TypeFacts
<1>2. Fits(File(0))
  BY <1>1, BoundParts, PrefixFits DEF Whole
<1> QED  BY <1>2, BoundParts

LEMMA BoundStep ==
  TypeOK /\ Shifting /\ Uncounted /\ Closed /\ Measured /\ SizeBounded /\ [Next]_vars
    => SizeBounded'
<1> SUFFICES ASSUME TypeOK, Shifting, Uncounted, Closed, Measured, SizeBounded, [Next]_vars
             PROVE  SizeBounded'
  OBVIOUS
<1>1. /\ op \in Ops /\ IsDisk(disk) /\ fd_ \in BOOLEAN /\ buffer \in Messages
      /\ \A k : FileOf(disk, k) = File(k)
  BY TypeFacts DEF TypeOK
<1>2. /\ Fits(Whole) /\ Fits(File(0)) /\ 0 \in 0..MaxFiles
      /\ \A k \in 1..MaxFiles : Fits(FileOf(disk, k)) /\ k # 0
  BY <1>1, BoundParts, FileFits
<1>3. CASE disk' = disk /\ buffer' = buffer
  <2>1. Whole' = Whole
    BY <1>3 DEF Whole, File
  <2> QED  BY <1>2, <1>3, <2>1, BoundAfter
<1>4. CASE OpenSink
  <2>1. disk' = With(disk, 0, File(0)) /\ File(0) \in Messages
    BY <1>4, TypeFacts DEF OpenSink
  <2>2. \A k : k # 0 => FileOf(disk', k) = FileOf(disk, k)
    BY <2>1, NewFileZero
  <2> QED  BY <1>2, <1>4, <2>2, WholeOpened, BoundAfter
<1>4a. ASSUME NEW s, Attempt(s), LeaveTorn(s) PROVE SizeBounded'
  <2>1. \A k : k # 0 => FileOf(disk', k) = FileOf(disk, k)
    BY <1>4a, TornDisk
  <2>2. Fits(Whole')
    <3>1. Whole' \in Messages /\ Covered(Whole', Whole) /\ Whole \in Messages
      BY <1>4a, TornWhole, TypeFacts DEF Whole
    <3> QED  BY <1>2, <3>1, CoveredFits
  <2> QED  BY <1>2, <2>1, <2>2, BoundAfter
<1>5. ASSUME NEW size \in Sizes, SinkIt(size) PROVE SizeBounded'
  <2>1. CASE FitsInFile(size) \/ FileStillEmpty(size) \/ NoFileToMeasure(size)
    BY <1>3, <2>1 DEF FitsInFile, FileStillEmpty, NoFileToMeasure
  <2>2. CASE StartRotation(size)
    <3>1. fd_ /\ disk' = Flushed /\ buffer' = <<>>
      BY <2>2 DEF StartRotation
    <3>2. /\ FileOf(disk', 0) = Whole
          /\ \A k : k # 0 => FileOf(disk', k) = FileOf(disk, k)
      BY <3>1, FlushedFile DEF Whole
    <3>3. Whole' = Whole
      <4>1. Whole' = FileOf(disk', 0) \o buffer'
        BY DEF Whole, File, FileOf
      <4>2. Whole \in Messages
        BY TypeFacts DEF Whole
      <4> QED  BY <3>1, <3>2, <4>1, <4>2, MessagesConcat, EmptySeq DEF Messages
    <3> QED  BY <1>2, <3>2, <3>3, BoundAfter
  <2>3. CASE CannotFlush(size)
    BY <1>4a, <2>3 DEF CannotFlush, Attempt
  <2> QED  BY <1>5, <2>1, <2>2, <2>3 DEF SinkIt
<1>6. CASE Write
  <2>1. /\ op.at = "write" /\ disk' = disk /\ (~fd_ => buffer' = buffer)
    BY <1>6 DEF Write
  <2>2. CASE fd_
    <3>1. op.msg \in Message /\ Whole \in Messages /\ Logged(op.msg) \in Message
      BY <1>1, <2>1, TypeFacts, BusyMessage, LoggedMessage DEF Busy, Whole
    <3>2. Whole' = Append(Whole, Logged(op.msg)) /\ Whole' \in Messages
      BY <1>6, <2>2, <3>1, WholeWritten, AppendProperties DEF Messages
    <3>3. CountedSize(Whole') <= op.new_size /\ CountedSize(Whole') \in Nat
      <4>1. CountedSize(Whole') = CountedSize(Whole) + op.msg.size
        BY <3>1, <3>2, LoggedMessage, SizeOfAppend
      <4>2. CountedSize(Whole) + op.msg.size <= op.new_size
        BY <2>1, <2>2 DEF Measured
      <4> QED  BY <3>2, <4>1, <4>2, SizeTypes
    <3>4. CASE op.new_size <= MaxSize
      <4>1. op.new_size \in Nat
        BY <1>1, <2>1, OpCases, OpTypes
      <4>2. Fits(Whole')
        BY <3>3, <3>4, <4>1 DEF Fits
      <4> QED  BY <1>2, <2>1, <4>2, BoundAfter
    <3>5. CASE Whole = <<>>
      <4>1. DOMAIN Whole' = {1}
        BY <3>1, <3>2, <3>5
      <4>2. Fits(Whole')
        BY <4>1 DEF Fits
      <4> QED  BY <1>2, <2>1, <4>2, BoundAfter
    <3> QED  BY <2>1, <2>2, <3>4, <3>5 DEF Measured
  <2> QED  BY <1>1, <1>3, <2>1, <2>2
<1>7. CASE RemoveTarget
  <2>1. /\ op.at = "remove" /\ op.i > 0 /\ buffer' = buffer
        /\ disk' = disk \/ disk' = Without(disk, {op.i})
    BY <1>7 DEF RemoveTarget
  <2>2. CASE disk' = Without(disk, {op.i})
    <3>1. op.i # 0 /\ op.i \in 0..MaxFiles
      BY <1>1, <2>1, RotatingOp
    <3>2. \A k : FileOf(disk', k) = IF k = op.i THEN <<>> ELSE FileOf(disk, k)
      <4>1. \A k : FileOf(Without(disk, {op.i}), k) = IF k = op.i THEN <<>> ELSE FileOf(disk, k)
        BY <1>1, WithoutFile
      <4> QED  BY <2>2, <4>1
    <3>3. Whole' = Whole
      <4>1. File(0)' = File(0)
        BY <1>1, <3>1, <3>2 DEF File, FileOf
      <4> QED  BY <2>1, <4>1 DEF Whole
    <3> QED  BY <1>2, <3>2, <3>3, EmptyFits, BoundAfter
  <2> QED  BY <1>3, <2>1, <2>2
<1>8. CASE Rename
  <2> DEFINE i == op.i
             rest == Without(disk, {i - 1})
  <2>1. i \in 1..MaxFiles /\ i - 1 \in 0..MaxFiles /\ i \in 0..MaxFiles /\ i - 1 \in DOMAIN disk
    BY <1>1, <1>8, RotatingOp DEF Rename, Shifting
  <2>2. disk' = With(rest, i, disk[i - 1]) /\ buffer' = buffer /\ op.at = "rename"
    BY <1>8 DEF Rename
  <2>3. disk[i - 1] \in Messages /\ disk[i - 1] = FileOf(disk, i - 1)
    BY <1>1, <2>1 DEF IsDisk, FileOf
  <2>4. IsDisk(rest) /\ \A k : FileOf(rest, k) = IF k = i - 1 THEN <<>> ELSE FileOf(disk, k)
    BY <1>1, WithoutFile
  <2>5. \A k : FileOf(disk', k) = IF k = i THEN disk[i - 1] ELSE FileOf(rest, k)
    <3> HIDE DEF rest, i
    <3>1. \A k : FileOf(With(rest, i, disk[i - 1]), k)
                   = IF k = i THEN disk[i - 1] ELSE FileOf(rest, k)
      BY ONLY ZenonT(60), <2>1, <2>3, <2>4, WithFile
    <3> QED  BY <2>2, <3>1
  <2>6. Fits(disk[i - 1])
    BY <1>1, <2>1, <2>3, FileFits
  <2>7. \A k \in 1..MaxFiles : Fits(FileOf(disk', k))
    BY <1>2, <2>4, <2>5, <2>6, EmptyFits
  <2>8. Fits(Whole')
    <3>1. Whole' = FileOf(disk', 0) \o buffer' /\ FileOf(disk', 0) \in {<<>>, File(0)}
      BY <1>1, <2>1, <2>4, <2>5 DEF Whole, File, FileOf
    <3>2. buffer' = <<>>
      BY <2>2 DEF Closed
    <3>3. <<>> \in Messages /\ File(0) \in Messages
      BY TypeFacts DEF Messages
    <3>4. Whole' \in {<<>>, File(0)}
      BY <3>1, <3>2, <3>3, ConcatEmptySeq DEF Messages
    <3> QED  BY <1>2, <3>4, EmptyFits
  <2> QED  BY <2>7, <2>8, BoundAfter
<1>9. CASE RenameFails \/ Reopen
  <2>1. ~fd_ /\ disk' = With(disk, 0, <<>>) /\ buffer' = buffer
    BY <1>9 DEF RenameFails, Reopen, Closed
  <2>2. <<>> \in Messages
    BY DEF Messages
  <2>3. \A k : k # 0 => FileOf(disk', k) = FileOf(disk, k)
    BY <2>1, <2>2, NewFileZero
  <2> QED  BY <1>2, <2>1, <2>3, WholeTruncated, EmptyFits, BoundAfter
<1>10. CASE ReopenFails
  <2>1. ~fd_ /\ buffer' = buffer /\ (disk' = disk \/ disk' = With(disk, 0, <<>>))
    BY <1>10 DEF ReopenFails, Closed
  <2>2. CASE disk' = With(disk, 0, <<>>)
    <3>1. <<>> \in Messages
      BY DEF Messages
    <3>2. \A k : k # 0 => FileOf(disk', k) = FileOf(disk, k)
      BY <2>2, <3>1, NewFileZero
    <3> QED  BY <1>2, <2>1, <2>2, <3>2, WholeTruncated, EmptyFits, BoundAfter
  <2> QED  BY <1>3, <2>1, <2>2
<1>11. CASE Flush
  <2>1. PICK k \in 1..Len(buffer) : disk' = With(disk, 0, File(0) \o SubSeq(buffer, 1, k))
    BY <1>11 DEF Flush
  <2>2. File(0) \o SubSeq(buffer, 1, k) \in Messages
    BY <1>1, <2>1, BufferParts, TypeFacts, MessagesConcat
  <2>3. \A j : j # 0 => FileOf(disk', j) = FileOf(disk, j)
    BY <2>1, <2>2, NewFileZero
  <2> QED  BY <1>2, <1>11, <2>3, WholeFlushed, BoundAfter
<1>12. CASE CloseSink
  <2>1. disk' = Flushed /\ buffer' = <<>>
    BY <1>12 DEF CloseSink
  <2>2. /\ FileOf(disk', 0) \in {Whole, File(0)}
        /\ \A k : k # 0 => FileOf(disk', k) = FileOf(disk, k)
    BY <2>1, FlushedFile DEF Whole
  <2>3. Whole' \in {Whole, File(0)}
    <3>1. Whole' = FileOf(disk', 0) \o <<>>
      BY <2>1 DEF Whole, File, FileOf
    <3>2. Whole \in Messages /\ File(0) \in Messages
      BY TypeFacts DEF Whole
    <3> QED  BY <2>2, <3>1, <3>2, ConcatEmptySeq DEF Messages
  <2> QED  BY <1>2, <2>2, <2>3, BoundAfter
<1>13. CASE WriteFails \/ FlushFails \/ CloseFails
  <2>1. \E s : Attempt(s) /\ LeaveTorn(s)
    BY <1>13, WriteAttempt DEF WriteFails, FlushFails, CloseFails, Attempt
  <2> QED  BY <1>4a, <2>1
<1>14. CASE Crash
  BY <1>3, <1>14, <1>4a, CrashLeaves
<1>15. CASE UNCHANGED vars
  BY <1>3, <1>15 DEF vars
<1> QED  BY <1>4, <1>5, <1>6, <1>7, <1>8, <1>9, <1>10, <1>11, <1>12, <1>13, <1>14, <1>15
         DEF Next

-----------------------------------------------------------------------------
(* The theorems about sizes and a failed rotation *)

RotInv == TypeOK /\ Shifting /\ Uncounted /\ Closed /\ Measured /\ SizeBounded

LEMMA RotInit == Init => RotInv
<1> SUFFICES ASSUME Init PROVE RotInv
  OBVIOUS
<1>1. TypeOK
  BY TypeInit
<1>2. disk = <<>> /\ buffer = <<>> /\ op = Off /\ fd_ = FALSE
  BY DEF Init
<1>3. Shifting /\ Uncounted /\ Closed /\ Measured
  BY <1>2, OpTypes DEF Shifting, Uncounted, Busy, Closed, Measured
<1>4. SizeBounded
  <2>1. \A i : File(i) = <<>>
    BY <1>2 DEF File
  <2>2. Whole = <<>>
    <3>1. <<>> \in Messages
      BY DEF Messages
    <3> QED  BY <1>2, <2>1, <3>1, MessagesConcat DEF Whole
  <2> QED  BY <2>1, <2>2, EmptyFits, BoundParts
<1> QED  BY <1>1, <1>3, <1>4 DEF RotInv

LEMMA RotStep == RotInv /\ [Next]_vars => RotInv'
BY TypeStep, ShiftingStep, UncountedStep, ClosedStep, MeasuredStep, BoundStep DEF RotInv

\* A rotation keeps its invariant, wherever it is cut off.
THEOREM RotationInvariance == Spec => []RotInv
BY RotInit, RotStep, PTL DEF Spec

\* The files, the buffer and the call in progress keep their types.
THEOREM RotatingTypeCorrect == Spec => []TypeOK
<1>1. RotInv => TypeOK
  BY DEF RotInv
<1> QED  BY <1>1, RotationInvariance, PTL

\* Of no file of the log is more counted than max_size_, but for one that a
\* single message fills, whatever crashes and fails, writes included, however
\* often the program restarts.
THEOREM FilesBounded == Spec => []SizeBounded
<1>1. RotInv => SizeBounded
  BY DEF RotInv
<1> QED  BY <1>1, RotationInvariance, PTL

\* After a rotation that could not open the file anew nothing is written to
\* the disk, and the file is not opened again, until the process ends.
THEOREM FailedReopenEndsLog == Spec => NeverReopened
<1> DEFINE Step == op.at \in {"idle", "write"} /\ ~fd_ => ~fd_' /\ disk' = disk
<1>1. TypeOK /\ Next => Step
  <2> SUFFICES ASSUME TypeOK, Next, op.at \in {"idle", "write"}, ~fd_
               PROVE  ~fd_' /\ disk' = disk
    OBVIOUS
  <2>1. op # Off
    BY OpTypes
  <2>2. /\ ~OpenSink /\ ~RemoveTarget /\ ~Rename /\ ~RenameFails /\ ~ReopenFails /\ ~Reopen
        /\ ~Flush /\ ~WriteFails /\ ~FlushFails /\ ~CloseFails
    BY <2>1 DEF OpenSink, RemoveTarget, Rename, RenameFails, ReopenFails, Reopen, Flush,
                WriteFails, FlushFails, CloseFails
  <2>3. ASSUME NEW size \in Sizes, SinkIt(size) PROVE fd_' = fd_ /\ disk' = disk
    BY <2>3 DEF SinkIt, FitsInFile, FileStillEmpty, StartRotation, NoFileToMeasure,
                CannotFlush
  <2>4. CASE Write
    BY <2>4 DEF Write
  <2>5. CASE CloseSink
    BY <2>5 DEF CloseSink, Flushed
  <2>6. CASE Crash
    BY <2>6 DEF Crash
  <2> QED  BY <2>2, <2>3, <2>4, <2>5, <2>6 DEF Next
<1>2. TypeOK /\ [Next]_vars => [Step]_vars
  BY <1>1
<1> QED  BY <1>2, RotatingTypeCorrect, PTL DEF Spec, NeverReopened

-----------------------------------------------------------------------------
(* What is read from the files after a step *)

Log == Oldest2Newest

LEMMA LogIs == /\ Log = Joined(Text(disk)) \o buffer
               /\ Log' = Joined(Text(disk')) \o buffer'
BY DEF Log, Oldest2Newest, Text, File, FileOf

LEMMA LogType ==
  ASSUME TypeOK
  PROVE  Log \in Messages /\ Whole \in Messages /\ Joined(Text(disk)) \in Messages
<1>1. Text(disk) \in Texts /\ buffer \in Messages
  BY TypeFacts, TextType
<1>2. Joined(Text(disk)) \in Messages
  BY <1>1, JoinedType
<1> QED  BY <1>1, <1>2, TypeFacts, LogIs, MessagesConcat DEF Whole

\* A step that changes nothing but the newest file and the buffer.
LEMMA NewestChanges ==
  ASSUME TypeOK, IsDisk(disk'), buffer' \in Messages,
         \A k \in 1..MaxFiles : FileOf(disk', k) = FileOf(disk, k)
  PROVE  \E P \in Messages : Log = P \o Whole /\ Log' = P \o Whole'
<1>1. IsDisk(disk) /\ buffer \in Messages
  BY TypeFacts
<1>2. PICK P \in Messages : /\ Joined(Text(disk)) = P \o FileOf(disk, 0)
                            /\ Joined(Text(disk')) = P \o FileOf(disk', 0)
  BY <1>1, NewestFile
<1>3. FileOf(disk, 0) \in Messages /\ FileOf(disk', 0) \in Messages
  BY <1>1, FileType
<1>4. /\ (P \o FileOf(disk, 0)) \o buffer = P \o (FileOf(disk, 0) \o buffer)
      /\ (P \o FileOf(disk', 0)) \o buffer' = P \o (FileOf(disk', 0) \o buffer')
  <2>1. (P \o FileOf(disk, 0)) \o buffer = P \o (FileOf(disk, 0) \o buffer)
    BY ONLY <1>1, <1>3, P \in Messages, MessagesAssociative
  <2>2. (P \o FileOf(disk', 0)) \o buffer' = P \o (FileOf(disk', 0) \o buffer')
    BY ONLY buffer' \in Messages, <1>3, P \in Messages, MessagesAssociative
  <2> QED  BY <2>1, <2>2
<1>5. Whole = FileOf(disk, 0) \o buffer /\ Whole' = FileOf(disk', 0) \o buffer'
  BY DEF Whole, File, FileOf
<1> QED  BY <1>2, <1>4, <1>5, LogIs

\* A step that changes what none of the files reads.
LEMMA NothingChanges ==
  ASSUME buffer' = buffer, \A k : FileOf(disk', k) = FileOf(disk, k)
  PROVE  Log' = Log
<1>1. Text(disk') = Text(disk)
  BY DEF Text
<1> QED  BY <1>1, LogIs

Kept == faults' = faults /\ Log' = Log
Added ==
  /\ faults' \in {faults, faults + 1}
  /\ op.at = "write" /\ ~Busy'
  /\ Len(Log') = Len(Log) + 1 /\ Begins(Log, Log')
  /\ Log'[Len(Log) + 1].n = op.msg.n
OldLost == faults' = faults /\ \E s \in Messages : Log = s \o Log'
NewLost == faults' = faults + 1 /\ Begins(Log', Log)

LEMMA SameLost ==
  ASSUME faults' = faults + 1, Log' = Log, Log \in Messages
  PROVE  NewLost
BY MessageSizes DEF NewLost, Begins

\* A message after those there are.
LEMMA BeginsAppend ==
  ASSUME NEW s \in Messages, NEW m \in Message
  PROVE  /\ Len(Append(s, m)) = Len(s) + 1 /\ Append(s, m)[Len(s) + 1] = m
         /\ Begins(s, Append(s, m)) /\ Append(s, m) \in Messages
<1>1. Len(s) \in Nat
  BY MessageSizes
<1>2. /\ Append(s, m) \in Messages /\ Len(Append(s, m)) = Len(s) + 1
      /\ Append(s, m)[Len(s) + 1] = m
      /\ \A j \in 1..Len(s) : Append(s, m)[j] = s[j]
  BY AppendProperties DEF Messages
<1> QED  BY <1>1, <1>2 DEF Begins

\* A failed write adds what has been written of the message, or takes some of
\* the newest.
LEMMA TornLog ==
  ASSUME TypeOK, ~Busy', faults' = faults + 1, NEW s, Attempt(s), LeaveTorn(s),
         s # buffer => op.at = "write" /\ s = Append(buffer, op.msg)
  PROVE  Added \/ NewLost
<1>1. /\ IsDisk(disk') /\ buffer' \in Messages
      /\ \A k \in 1..MaxFiles : FileOf(disk', k) = FileOf(disk, k)
  BY TornDisk
<1>2. PICK P \in Messages : Log = P \o Whole /\ Log' = P \o Whole'
  BY <1>1, NewestChanges
<1>3. /\ Whole' \in Messages /\ Begins(Whole', File(0) \o s) /\ Whole \in Messages
      /\ op \in Ops /\ Log' \in Messages /\ Log \in Messages
      /\ Len(Log) \in Nat /\ Len(Log') \in Nat
  <2>1. /\ Whole' \in Messages /\ Begins(Whole', File(0) \o s) /\ Whole \in Messages
        /\ op \in Ops /\ Log \in Messages
    BY TornWhole, TypeFacts, LogType
  <2>2. Log' \in Messages
    BY <1>2, <2>1, MessagesConcat
  <2> QED  BY <2>1, <2>2, MessageSizes
<1>4. CASE s = buffer
  <2>1. Begins(Whole', Whole)
    BY <1>3, <1>4 DEF Whole
  <2> QED  BY <1>2, <1>3, <2>1, BeginsAfter DEF NewLost
<1>5. CASE s # buffer
  <2> DEFINE m == op.msg
  <2>1. m \in Message /\ op.at = "write" /\ s = Append(buffer, m)
    BY <1>3, <1>5, BusyMessage DEF Busy
  <2>2. File(0) \o s = Append(Whole, m)
    BY <2>1, TypeFacts, AppendAssociative DEF Whole
  <2> HIDE DEF m
  <2>3. P \o (File(0) \o s) = Append(Log, m)
    <3>1. P \o Append(Whole, m) = Append(P \o Whole, m)
      BY <1>3, <2>1, AppendAssociative
    <3> QED  BY <1>2, <2>2, <3>1
  <2>4. File(0) \o s \in Messages
    BY <1>3, <2>1, <2>2, BeginsAppend
  <2>5. Begins(Log', Append(Log, m))
    BY <1>2, <1>3, <2>3, <2>4, BeginsAfter
  <2>6. /\ Len(Append(Log, m)) = Len(Log) + 1 /\ Append(Log, m)[Len(Log) + 1] = m
        /\ \A j \in 1..Len(Log) : Append(Log, m)[j].n = Log[j].n
    BY <1>3, <2>1, BeginsAppend DEF Begins
  <2>7. /\ Len(Log') <= Len(Log) + 1
        /\ \A j \in 1..Len(Log') : Log'[j].n = Append(Log, m)[j].n
    BY <2>5, <2>6 DEF Begins
  <2>8. CASE Len(Log') = Len(Log) + 1
    <3>1. Log'[Len(Log) + 1].n = m.n
      BY <1>3, <2>6, <2>7, <2>8
    <3>2. Begins(Log, Log')
      BY <1>3, <2>6, <2>7, <2>8 DEF Begins
    <3> QED  BY <2>1, <2>8, <3>1, <3>2 DEF Added, m
  <2>9. CASE Len(Log') # Len(Log) + 1
    <3>1. Len(Log') <= Len(Log)
      BY <1>3, <2>7, <2>9
    <3>2. \A j \in 1..Len(Log') : Log'[j].n = Log[j].n
      BY <1>3, <2>6, <2>7, <3>1
    <3> QED  BY <3>1, <3>2 DEF NewLost, Begins
  <2> QED  BY <2>8, <2>9
<1> QED  BY <1>4, <1>5

\* An empty or truncated file 0 takes the newest messages with it.
LEMMA TruncatedNewest ==
  ASSUME TypeOK, Closed, ~fd_, disk' = With(disk, 0, <<>>), buffer' = buffer
  PROVE  Begins(Log', Log)
<1>1. <<>> \in Messages /\ buffer' \in Messages
  BY TypeFacts DEF Messages
<1>2. IsDisk(disk') /\ \A k : k # 0 => FileOf(disk', k) = FileOf(disk, k)
  BY <1>1, NewFileZero
<1>3. \A k \in 1..MaxFiles : FileOf(disk', k) = FileOf(disk, k)
  BY <1>2
<1>4. PICK P \in Messages : Log = P \o Whole /\ Log' = P \o Whole'
  BY <1>1, <1>2, <1>3, NewestChanges
<1>5. Whole' = <<>>
  BY WholeTruncated
<1>6. Log' = P /\ Whole \in Messages
  BY <1>4, <1>5, LogType, ConcatEmptySeq DEF Messages
<1> QED  BY <1>4, <1>6, PrefixPlaces DEF Begins

LEMMA SinkItKeeps ==
  ASSUME RotInv, NEW size \in Sizes, SinkIt(size)
  PROVE  Kept \/ Added \/ NewLost
<1>1. /\ TypeOK
      /\ \/ /\ FitsInFile(size) \/ FileStillEmpty(size) \/ StartRotation(size)
               \/ NoFileToMeasure(size)
            /\ faults' = faults
         \/ CannotFlush(size) /\ faults' = faults + 1
  BY DEF RotInv, SinkIt, NoFault, Fault
<1>2. CASE /\ FitsInFile(size) \/ FileStillEmpty(size) \/ NoFileToMeasure(size)
           /\ faults' = faults
  <2>1. disk' = disk /\ buffer' = buffer
    BY <1>2 DEF FitsInFile, FileStillEmpty, NoFileToMeasure
  <2> QED  BY <1>2, <2>1, NothingChanges DEF Kept
<1>3. CASE StartRotation(size) /\ faults' = faults
  <2>1. fd_ /\ disk' = Flushed /\ buffer' = <<>> /\ <<>> \in Messages
    BY <1>3 DEF StartRotation, Messages
  <2>2. /\ IsDisk(disk') /\ FileOf(disk', 0) = Whole
        /\ \A k : k # 0 => FileOf(disk', k) = FileOf(disk, k)
    BY <1>1, <2>1, FlushedFile DEF Whole
  <2>3. Whole' = Whole
    <3>1. Whole' = FileOf(disk', 0) \o <<>> /\ Whole \in Messages
      BY <1>1, <2>1, LogType DEF Whole, File, FileOf
    <3> QED  BY <2>2, <3>1, ConcatEmptySeq DEF Messages
  <2>4. \A k \in 1..MaxFiles : FileOf(disk', k) = FileOf(disk, k)
    BY <2>2
  <2>5. PICK P \in Messages : Log = P \o Whole /\ Log' = P \o Whole'
    BY <1>1, <2>1, <2>2, <2>4, NewestChanges
  <2> QED  BY <1>3, <2>3, <2>5 DEF Kept
<1>4. CASE CannotFlush(size) /\ faults' = faults + 1
  <2>1. LeaveTorn(buffer) /\ Attempt(buffer) /\ op' = Idle
    BY <1>4 DEF CannotFlush, Attempt
  <2>2. ~Busy'
    BY <2>1, OpTypes DEF Busy
  <2> QED  BY <1>1, <1>4, <2>1, <2>2, TornLog
<1> QED  BY <1>1, <1>2, <1>3, <1>4

LEMMA WriteAdds ==
  ASSUME RotInv, Write
  PROVE  Kept \/ Added
<1>1. /\ TypeOK /\ faults' = faults /\ disk' = disk /\ op.at = "write" /\ op' = Idle
      /\ Log \in Messages
  BY LogType DEF RotInv, Write, NoFault
<1>2. CASE fd_
  <2> DEFINE m == Logged(op.msg)
  <2>1. /\ m \in Message /\ m.n = op.msg.n
        /\ Whole \in Messages /\ buffer \in Messages /\ IsDisk(disk)
    BY <1>1, LogType, TypeFacts, BusyMessage, LoggedMessage DEF Busy
  <2>2. buffer' \in Messages
    BY <1>2, <2>1, AppendProperties DEF Write, Messages, Logged
  <2>3. Whole' = Append(Whole, m)
    BY <1>1, <1>2, WholeWritten
  <2>4. PICK P \in Messages : Log = P \o Whole /\ Log' = P \o Whole'
    BY <1>1, <2>1, <2>2, NewestChanges
  <2> HIDE DEF m
  <2>5. P \o Append(Whole, m) = Append(P \o Whole, m)
    BY <2>1, AppendAssociative
  <2>6. Log' = Append(Log, m)
    BY <2>3, <2>4, <2>5
  <2>7. /\ Len(Log') = Len(Log) + 1 /\ Begins(Log, Log')
        /\ Log'[Len(Log) + 1].n = op.msg.n
    BY <1>1, <2>1, <2>6, BeginsAppend
  <2>8. ~Busy'
    BY <1>1, OpTypes DEF Busy
  <2> QED  BY <1>1, <2>7, <2>8 DEF Added
<1>3. CASE ~fd_
  BY <1>1, <1>3, NothingChanges DEF Write, Kept
<1> QED  BY <1>2, <1>3

LEMMA RemoveTargetDrops ==
  ASSUME RotInv, RemoveTarget
  PROVE  Kept \/ OldLost
<1>1. TypeOK /\ Closed /\ Shifting /\ faults' = faults /\ op.at = "remove" /\ buffer' = buffer
  BY DEF RotInv, RemoveTarget, NoFault
<1>2. buffer = <<>> /\ op.i \in 0..MaxFiles /\ IsDisk(disk)
  BY <1>1, TypeFacts, RotatingOp DEF Closed
<1>3. CASE disk' = disk
  BY <1>1, <1>3, NothingChanges DEF Kept
<1>4. CASE disk' = Without(disk, {op.i}) /\ op.i = MaxFiles
  <2>1. /\ IsDisk(disk') /\ FileOf(disk', MaxFiles) = <<>>
        /\ \A k : k # MaxFiles => FileOf(disk', k) = FileOf(disk, k)
    <3>1. /\ IsDisk(Without(disk, {op.i}))
          /\ \A k : FileOf(Without(disk, {op.i}), k) = IF k = op.i THEN <<>> ELSE FileOf(disk, k)
      BY <1>2, WithoutFile
    <3> QED  BY <1>4, <3>1
  <2>2. \A k \in 0..(MaxFiles - 1) : FileOf(disk, k) = FileOf(disk', k)
    BY <2>1
  <2>3. Joined(Text(disk)) = FileOf(disk, MaxFiles) \o Joined(Text(disk'))
    BY <1>2, <2>1, <2>2, OldestFile
  <2>4. Joined(Text(disk)) \in Messages /\ Joined(Text(disk')) \in Messages
    BY <1>2, <2>1, TextType, JoinedType
  <2>5. Log = Joined(Text(disk)) /\ Log' = Joined(Text(disk'))
    BY <1>1, <1>2, <2>4, LogIs, ConcatEmptySeq DEF Messages
  <2>6. FileOf(disk, MaxFiles) \in Messages
    BY <1>2, FileType
  <2> QED  BY <1>1, <2>3, <2>5, <2>6 DEF OldLost
<1>5. CASE disk' = Without(disk, {op.i}) /\ op.i # MaxFiles
  <2>1. \A k : FileOf(disk', k) = IF k = op.i THEN <<>> ELSE FileOf(disk, k)
    <3>1. \A k : FileOf(Without(disk, {op.i}), k) = IF k = op.i THEN <<>> ELSE FileOf(disk, k)
      BY <1>2, WithoutFile
    <3> QED  BY <1>5, <3>1
  <2>2. FileOf(disk, op.i) = <<>>
    BY <1>1, <1>2, <1>5 DEF Shifting, FileOf
  <2> QED  BY <1>1, <2>1, <2>2, NothingChanges DEF Kept
<1> QED  BY <1>3, <1>4, <1>5 DEF RemoveTarget

LEMMA RenameKeeps ==
  ASSUME RotInv, Rename
  PROVE  Kept
<1> DEFINE i == op.i
           rest == Without(disk, {i - 1})
<1>1. TypeOK /\ Shifting /\ faults' = faults /\ op.at = "rename" /\ buffer' = buffer
  BY DEF RotInv, Rename, NoFault
<1>2. /\ i \in 1..MaxFiles /\ i \in 0..MaxFiles /\ i - 1 \in DOMAIN disk /\ i \notin DOMAIN disk
      /\ i - 1 # i /\ IsDisk(disk)
  BY <1>1, TypeFacts, RotatingOp DEF Shifting
<1>3. disk' = With(rest, i, disk[i - 1])
  BY DEF Rename
<1>4. disk[i - 1] \in Messages /\ disk[i - 1] = FileOf(disk, i - 1) /\ FileOf(disk, i) = <<>>
  BY <1>2 DEF IsDisk, FileOf
<1>5. IsDisk(rest) /\ \A k : FileOf(rest, k) = IF k = i - 1 THEN <<>> ELSE FileOf(disk, k)
  BY <1>2, WithoutFile
<1>6. IsDisk(disk') /\ \A k : FileOf(disk', k) = IF k = i THEN disk[i - 1] ELSE FileOf(rest, k)
  <2> HIDE DEF rest, i
  <2>1. /\ IsDisk(With(rest, i, disk[i - 1]))
        /\ \A k : FileOf(With(rest, i, disk[i - 1]), k)
                  = IF k = i THEN disk[i - 1] ELSE FileOf(rest, k)
    BY ONLY <1>2, <1>4, <1>5, WithFile
  <2> QED  BY <1>3, <2>1
<1>7. /\ FileOf(disk', i) = FileOf(disk, i - 1) /\ FileOf(disk', i - 1) = <<>>
      /\ \A k \in 0..MaxFiles : k # i /\ k # i - 1 => FileOf(disk, k) = FileOf(disk', k)
  BY <1>2, <1>4, <1>5, <1>6
<1>8. Joined(Text(disk)) = Joined(Text(disk'))
  <2> HIDE DEF i
  <2> QED  BY ONLY <1>2, <1>4, <1>6, <1>7, RenamedFile
<1> QED  BY <1>1, <1>8, LogIs DEF Kept

LEMMA ReopenDrops ==
  ASSUME RotInv, Reopen
  PROVE  Kept \/ OldLost
<1>1. /\ TypeOK /\ Closed /\ Shifting /\ faults' = faults /\ op.at = "remove" /\ op.i = 0
      /\ buffer' = buffer /\ disk' = With(disk, 0, <<>>)
  BY DEF RotInv, Reopen, NoFault
<1>2. buffer = <<>> /\ IsDisk(disk) /\ <<>> \in Messages
  BY <1>1, TypeFacts DEF Closed, Messages
<1>3. /\ IsDisk(disk') /\ FileOf(disk', 0) = <<>>
      /\ \A k : k # 0 => FileOf(disk', k) = FileOf(disk, k)
  BY <1>1, <1>2, NewFileZero
<1>4. CASE MaxFiles = 0
  <2>1. \A k \in 0..(MaxFiles - 1) : FileOf(disk, k) = FileOf(disk', k)
    BY <1>4
  <2>2. Joined(Text(disk)) = FileOf(disk, MaxFiles) \o Joined(Text(disk'))
    BY <1>2, <1>3, <1>4, <2>1, OldestFile
  <2>3. Joined(Text(disk)) \in Messages /\ Joined(Text(disk')) \in Messages
    BY <1>2, <1>3, TextType, JoinedType
  <2>4. Log = Joined(Text(disk)) /\ Log' = Joined(Text(disk'))
    BY <1>1, <1>2, <2>3, LogIs, ConcatEmptySeq DEF Messages
  <2>5. FileOf(disk, MaxFiles) \in Messages
    BY <1>2, FileType
  <2> QED  BY <1>1, <2>2, <2>4, <2>5 DEF OldLost
<1>5. CASE MaxFiles # 0
  <2>1. FileOf(disk, 0) = <<>>
    BY <1>1, <1>5 DEF Shifting, FileOf
  <2> QED  BY <1>1, <1>3, <2>1, NothingChanges DEF Kept
<1> QED  BY <1>4, <1>5

LEMMA OthersChange ==
  ASSUME RotInv,
         \/ OpenSink \/ WriteFails \/ RenameFails \/ ReopenFails
         \/ Flush \/ FlushFails \/ CloseSink \/ CloseFails \/ Crash
  PROVE  Kept \/ Added \/ NewLost
<1>1. TypeOK /\ Closed
  BY DEF RotInv
<1>2. /\ IsDisk(disk) /\ buffer \in Messages /\ File(0) \in Messages /\ Whole \in Messages
      /\ <<>> \in Messages /\ \A s \in Messages : s \o <<>> = s
  BY <1>1, TypeFacts, LogType, MessagesConcat DEF Messages
<1>3. CASE OpenSink
  <2>1. disk' = With(disk, 0, File(0)) /\ buffer' = buffer /\ faults' = faults
    BY <1>3 DEF OpenSink, NoFault
  <2>2. IsDisk(disk') /\ \A k \in 1..MaxFiles : FileOf(disk', k) = FileOf(disk, k)
    BY <1>1, <1>2, <2>1, NewFileZero
  <2>3. PICK P \in Messages : Log = P \o Whole /\ Log' = P \o Whole'
    BY <1>1, <1>2, <2>1, <2>2, NewestChanges
  <2> QED  BY <1>1, <1>3, <2>1, <2>3, WholeOpened DEF Kept
<1>4. CASE RenameFails
  <2>1. /\ ~fd_ /\ disk' = With(disk, 0, <<>>) /\ buffer' = buffer /\ faults' = faults + 1
    BY <1>1, <1>4 DEF RenameFails, Closed, Fault
  <2> QED  BY <1>1, <2>1, TruncatedNewest DEF NewLost
<1>5. CASE ReopenFails
  <2>1. /\ ~fd_ /\ disk' \in {disk, With(disk, 0, <<>>)} /\ buffer' = buffer
        /\ faults' = faults + 1
    BY <1>1, <1>5 DEF ReopenFails, Closed, Fault
  <2>2. CASE disk' = disk
    <3>1. Log' = Log /\ Log \in Messages
      BY <1>1, <2>1, <2>2, NothingChanges, LogType
    <3> QED  BY <2>1, <3>1, SameLost
  <2>3. CASE disk' = With(disk, 0, <<>>)
    BY <1>1, <2>1, <2>3, TruncatedNewest DEF NewLost
  <2> QED  BY <2>1, <2>2, <2>3
<1>6. CASE Flush
  <2>1. PICK k \in 1..Len(buffer) :
          /\ disk' = With(disk, 0, File(0) \o SubSeq(buffer, 1, k))
          /\ buffer' = SubSeq(buffer, k + 1, Len(buffer))
    BY <1>6 DEF Flush
  <2>2. buffer' \in Messages /\ File(0) \o SubSeq(buffer, 1, k) \in Messages
    BY <1>2, <2>1, BufferParts, MessagesConcat
  <2>3. IsDisk(disk') /\ \A j \in 1..MaxFiles : FileOf(disk', j) = FileOf(disk, j)
    BY <1>1, <2>1, <2>2, NewFileZero
  <2>4. PICK P \in Messages : Log = P \o Whole /\ Log' = P \o Whole'
    BY <1>1, <2>2, <2>3, NewestChanges
  <2>5. faults' = faults /\ Whole' = Whole
    BY <1>1, <1>6, WholeFlushed DEF Flush, NoFault
  <2> QED  BY <2>4, <2>5 DEF Kept
<1>7. CASE CloseSink
  <2>1. disk' = Flushed /\ buffer' = <<>> /\ faults' = faults
    BY <1>7 DEF CloseSink, NoFault
  <2>2. /\ IsDisk(disk') /\ FileOf(disk', 0) = IF fd_ THEN Whole ELSE File(0)
        /\ \A k \in 1..MaxFiles : FileOf(disk', k) = FileOf(disk, k)
    BY <1>1, <2>1, FlushedFile DEF Whole
  <2>3. Whole' = Whole
    <3>1. Whole' = FileOf(disk', 0) \o <<>>
      BY <2>1 DEF Whole, File, FileOf
    <3>2. ~fd_ => Whole = File(0)
      BY <1>1, <1>2 DEF Closed, Whole
    <3>3. FileOf(disk', 0) = Whole
      BY <2>2, <3>2
    <3> QED  BY <1>2, <3>1, <3>3
  <2>4. PICK P \in Messages : Log = P \o Whole /\ Log' = P \o Whole'
    BY <1>1, <1>2, <2>1, <2>2, NewestChanges
  <2> QED  BY <2>1, <2>3, <2>4 DEF Kept
<1>8. CASE WriteFails \/ FlushFails \/ CloseFails
  <2>1. PICK s : /\ Attempt(s) /\ LeaveTorn(s)
                 /\ s # buffer => op.at = "write" /\ s = Append(buffer, op.msg)
    <3>1. Uncounted
      BY DEF RotInv
    <3> QED  BY <1>1, <1>8, <3>1, WriteAttempt DEF WriteFails, FlushFails, CloseFails, Attempt
  <2>2. faults' = faults + 1 /\ (op' = Idle \/ op' = Off)
    BY <1>8 DEF WriteFails, FlushFails, CloseFails, Fault
  <2>3. ~Busy'
    BY <2>2, OpTypes DEF Busy
  <2> QED  BY <1>1, <2>1, <2>2, <2>3, TornLog
<1>9. CASE Crash
  <2>1. faults' = faults + 1 /\ ~Busy' /\ Uncounted
    BY <1>9, OpTypes DEF Crash, Fault, Busy, RotInv
  <2>2. CASE UNCHANGED <<disk, buffer>>
    <3>1. Log' = Log /\ Log \in Messages
      BY <1>1, <2>2, NothingChanges, LogType
    <3> QED  BY <2>1, <3>1, SameLost
  <2>3. ASSUME NEW s, Attempt(s), LeaveTorn(s),
               s # buffer => s = Append(buffer, op.msg) /\ op.at = "write"
        PROVE  Added \/ NewLost
    BY <1>1, <2>1, <2>3, TornLog
  <2> QED  BY <1>1, <1>9, <2>1, <2>2, <2>3, CrashLeaves
<1> QED  BY <1>3, <1>4, <1>5, <1>6, <1>7, <1>8, <1>9

\* Each step of the sink is one of these to the reader of the files.
LEMMA LogStep == RotInv /\ Next => Kept \/ Added \/ OldLost \/ NewLost
BY SinkItKeeps, WriteAdds, RemoveTargetDrops, RenameKeeps, ReopenDrops, OthersChange DEF Next

-----------------------------------------------------------------------------
(* The messages read are older than the one that is being logged *)

Newest == IF Busy THEN op.msg.n ELSE next

Numbered ==
  /\ Busy => op.msg.n < next
  /\ \A j \in 1..Len(Log) : Log[j].n < Newest

\* The number that the next message has, or the one being logged, only grows.
LEMMA NewestGrows ==
  ASSUME TypeOK, Shifting, Numbered, Next
  PROVE  /\ Newest \in Nat /\ Newest' \in Nat /\ Newest <= Newest' 
         /\ Busy' => op'.msg.n < next'
         /\ Busy /\ ~Busy' => op.msg.n < Newest'
<1>1. op \in Ops /\ next \in Nat /\ (Busy => op.msg.n \in Nat /\ op.msg.n < next)
  BY TypeFacts, BusyMessage DEF TypeOK, Numbered
<1>2. Newest \in Nat /\ Newest <= next
  BY <1>1 DEF Newest
<1>3. CASE next' = next /\ op' \in {Idle, Off}
  <2>1. ~Busy' /\ Newest' = next
    BY <1>3, OpTypes DEF Newest, Busy
  <2> QED  BY <1>1, <1>2, <2>1
<1>4. CASE next' = next /\ Busy /\ Busy' /\ op'.msg = op.msg
  BY <1>1, <1>4 DEF Newest
<1>5. ASSUME NEW size \in Sizes, SinkIt(size)
      PROVE  /\ Newest' \in Nat /\ Newest <= Newest'
             /\ Busy' => op'.msg.n < next'
             /\ ~Busy
  <2>1. op = Idle /\ next' = next + 1
    BY <1>5 DEF SinkIt
  <2>2. Newest = next /\ ~Busy
    BY <2>1, OpTypes DEF Newest, Busy
  <2>3. op' = Idle \/ (Busy' /\ op'.msg.n = next)
    BY <1>5 DEF SinkIt, FitsInFile, FileStillEmpty, StartRotation, NoFileToMeasure,
                CannotFlush, NewMessage, Busy
  <2>4. CASE op' = Idle
    BY <1>1, <2>1, <2>2, <2>4, OpTypes DEF Newest, Busy
  <2>5. CASE Busy' /\ op'.msg.n = next
    BY <1>1, <2>1, <2>2, <2>5 DEF Newest
  <2> QED  BY <2>3, <2>4, <2>5, <2>2
<1>6. CASE \/ OpenSink \/ Write \/ WriteFails \/ RenameFails \/ ReopenFails
           \/ Flush \/ FlushFails \/ CloseSink \/ CloseFails \/ Crash
  <2>1. next' = next /\ op' \in {Idle, Off}
    BY <1>6 DEF OpenSink, Write, WriteFails, RenameFails, ReopenFails, Flush, FlushFails,
                CloseSink, CloseFails, Crash
  <2> QED  BY <1>3, <2>1
<1>7. CASE RemoveTarget \/ Rename
  <2>1. /\ op.at \in {"remove", "rename"} /\ next' = next /\ Busy
        /\ op = [at |-> op.at, i |-> op.i, msg |-> op.msg]
    BY <1>1, <1>7, RotatingOp DEF RemoveTarget, Rename, Busy
  <2>2. \/ op' = [op EXCEPT !.i = @ - 1]
        \/ op' = [op EXCEPT !.at = "rename"]
        \/ op' = [op EXCEPT !.at = "remove", !.i = @ - 1]
    BY <1>7 DEF RemoveTarget, Rename
  <2>3. op'.at \in {"remove", "rename"} /\ op'.msg = op.msg
    BY <2>1, <2>2
  <2> QED  BY <1>2, <1>4, <2>1, <2>3 DEF Busy
<1>8. CASE Reopen
  <2>1. /\ op.at = "remove" /\ next' = next
        /\ op' = [at |-> "write", msg |-> op.msg, new_size |-> op.msg.size]
    BY <1>8 DEF Reopen
  <2>2. Busy /\ Busy' /\ op'.msg = op.msg
    BY <2>1 DEF Busy
  <2> QED  BY <1>2, <1>4, <2>1, <2>2
<1> QED  BY <1>2, <1>5, <1>6, <1>7, <1>8 DEF Next

LEMMA LogInit == Init => Log = <<>>
<1> SUFFICES ASSUME Init PROVE Log = <<>>
  OBVIOUS
<1>1. disk = <<>> /\ buffer = <<>> /\ DOMAIN disk = {} /\ <<>> \in Messages
  BY DEF Init, Messages
<1>2. IsDisk(disk) /\ \A i : FileOf(disk, i) = <<>>
  BY <1>1 DEF IsDisk, FileOf
<1>3. Text(disk) \in Texts /\ \A k \in 1..Len(Text(disk)) : Text(disk)[k] = <<>>
  <2>1. /\ Text(disk) \in Texts /\ Len(Text(disk)) = MaxFiles + 1
        /\ \A j \in 1..(MaxFiles + 1) : Text(disk)[j] = FileOf(disk, MaxFiles + 1 - j)
    BY <1>2, TextType
  <2> QED  BY <1>2, <2>1
<1>4. Joined(Text(disk)) = <<>>
  BY <1>3, JoinedEmpty
<1> QED  BY <1>1, <1>4, LogIs, MessagesConcat

LEMMA LogTypeAfter ==
  ASSUME IsDisk(disk'), buffer' \in Messages
  PROVE  Log' \in Messages
<1>1. Joined(Text(disk')) \in Messages
  BY TextType, JoinedType
<1> QED  BY <1>1, LogIs, MessagesConcat

LEMMA NumberedStep == RotInv /\ Numbered /\ [Next]_vars => Numbered'
<1> SUFFICES ASSUME RotInv, Numbered, [Next]_vars PROVE Numbered'
  OBVIOUS
<1>1. CASE UNCHANGED vars
  BY <1>1 DEF vars, Numbered, Busy, Newest, Log, Oldest2Newest, File
<1>2. CASE Next
  <2>1. /\ Newest \in Nat /\ Newest' \in Nat /\ Newest <= Newest'
        /\ Busy' => op'.msg.n < next'
        /\ Busy /\ ~Busy' => op.msg.n < Newest'
    BY <1>2, NewestGrows DEF RotInv
  <2>2. Log \in Messages /\ Log' \in Messages /\ op \in Ops
    <3>1. TypeOK'
      BY <1>2, TypeStep DEF RotInv
    <3>2. IsDisk(disk') /\ buffer' \in Messages
      BY <3>1 DEF TypeOK, IsDisk, Messages
    <3> QED  BY <3>2, LogType, LogTypeAfter, TypeFacts DEF RotInv
  <2>3. /\ \A j \in 1..Len(Log) : Log[j] \in Message /\ Log[j].n \in Nat /\ Log[j].n < Newest
        /\ Len(Log) \in Nat /\ Len(Log') \in Nat
    BY <2>2, MessageSizes DEF Numbered, Message
  <2>4. ASSUME NEW j \in 1..Len(Log') PROVE Log'[j].n < Newest'
    <3>1. CASE \E i \in 1..Len(Log) : Log'[j] = Log[i]
      BY <2>1, <2>3, <3>1
    <3>2. CASE Kept
      BY <3>1, <3>2 DEF Kept
    <3>3. CASE Added
      <4>1. /\ Len(Log') = Len(Log) + 1 /\ Log'[Len(Log) + 1].n = op.msg.n
            /\ \A i \in 1..Len(Log) : Log[i].n = Log'[i].n
            /\ Busy /\ ~Busy'
        BY <3>3 DEF Added, Begins, Busy
      <4>2. CASE j = Len(Log) + 1
        BY <2>1, <4>1, <4>2
      <4>3. CASE j # Len(Log) + 1
        <5>1. j \in 1..Len(Log)
          BY <2>3, <4>1, <4>3
        <5> QED  BY <2>1, <2>3, <4>1, <5>1
      <4> QED  BY <4>2, <4>3
    <3>4. CASE OldLost
      <4>1. PICK s \in Messages : Log = s \o Log'
        BY <3>4 DEF OldLost
      <4>2. Len(s) + j \in 1..Len(Log) /\ Log[Len(s) + j] = Log'[j]
        BY <2>2, <2>3, <4>1, SuffixPlaces
      <4> QED  BY <3>1, <4>2
    <3>5. CASE NewLost
      <4>1. Len(Log') <= Len(Log) /\ Log'[j].n = Log[j].n
        BY <3>5 DEF NewLost, Begins
      <4>2. j \in 1..Len(Log)
        BY <2>3, <4>1
      <4> QED  BY <2>1, <2>3, <4>1, <4>2
    <3> QED  BY <1>2, <3>2, <3>3, <3>4, <3>5, LogStep
  <2> QED  BY <2>1, <2>4 DEF Numbered
<1> QED  BY <1>1, <1>2

LEMMA NumberedInit == Init => Numbered
<1> SUFFICES ASSUME Init PROVE Numbered
  OBVIOUS
<1>1. op = Off /\ Log = <<>> /\ Len(<<>>) = 0
  BY LogInit DEF Init
<1>2. ~Busy
  BY <1>1, OpTypes DEF Busy
<1> QED  BY <1>1, <1>2 DEF Numbered

-----------------------------------------------------------------------------
(* The files read as a RecentLog *)

\* What the reader of a RecentLog knows of messages: their numbers.
Numbers(s) == [j \in DOMAIN s |-> s[j].n]

LEMMA NumbersFacts ==
  ASSUME NEW s \in Messages
  PROVE  /\ Numbers(s) \in Seq(Nat) /\ Len(Numbers(s)) = Len(s) /\ Len(s) \in Nat
         /\ DOMAIN Numbers(s) = 1..Len(s)
         /\ \A j \in 1..Len(s) : Numbers(s)[j] = s[j].n
<1> DEFINE a == Numbers(s)
           m == Len(s)
<1>1. m \in Nat /\ DOMAIN s = 1..m /\ \A j \in 1..m : s[j].n \in Nat
  <2>1. m \in Nat /\ \A j \in 1..m : s[j] \in Message
    BY MessageSizes
  <2>2. DOMAIN s = 1..m
    BY LenProperties DEF Messages
  <2> HIDE DEF m
  <2>3. \A e \in Message : e.n \in Nat
    BY DEF Message
  <2> QED  BY <2>1, <2>2, <2>3
<1>2. a = [j \in 1..m |-> s[j].n]
  BY <1>1 DEF Numbers
<1> HIDE DEF a, m
<1>3. a \in [1..m -> Nat] /\ DOMAIN a = 1..m /\ \A j \in 1..m : a[j] = s[j].n
  BY <1>1, <1>2
<1>4. a \in Seq(Nat) /\ Len(a) = m
  BY ONLY <1>1, <1>3
<1> QED  BY <1>1, <1>3, <1>4 DEF a, m

LEMMA IsPrefixIf ==
  ASSUME NEW a \in Seq(Nat), NEW b \in Seq(Nat), Len(a) <= Len(b),
         \A j \in 1..Len(a) : a[j] = b[j]
  PROVE  Files!IsPrefix(a, b)
<1>1. Len(a) \in Nat /\ Len(b) \in Nat
  OBVIOUS
<1>2. SubSeq(a, 1, Len(a)) = a
  BY SubSeqFull
<1>3. SubSeq(b, 1, Len(a)) = a
  <2> DEFINE c == SubSeq(b, 1, Len(a))
  <2>1. \A j \in 1..Len(a) : b[j] \in Nat
    BY <1>1
  <2>2. /\ c \in Seq(Nat) /\ Len(c) = Len(a)
        /\ \A j \in 1..Len(a) : c[j] = a[j]
    BY <1>1, <2>1, SubSeqProperties
  <2> HIDE DEF c
  <2>3. c = a
    BY <2>2, SeqEqual
  <2> QED  BY <2>3 DEF c
<1> QED  BY <1>2, <1>3 DEF Files!IsPrefix

LEMMA ReverseFacts ==
  ASSUME NEW a \in Seq(Nat)
  PROVE  /\ Files!Reverse(a) \in Seq(Nat) /\ Len(Files!Reverse(a)) = Len(a)
         /\ \A j \in 1..Len(a) : Files!Reverse(a)[j] = a[(Len(a) - j) + 1]
<1> DEFINE m == Len(a)
           r == Files!Reverse(a)
<1>1. m \in Nat /\ \A j \in 1..m : (m - j) + 1 \in 1..m /\ a[(m - j) + 1] \in Nat
  OBVIOUS
<1>2. r = [j \in 1..m |-> a[(m - j) + 1]]
  BY DEF Files!Reverse
<1> HIDE DEF r, m
<1>3. r \in [1..m -> Nat] /\ \A j \in 1..m : r[j] = a[(m - j) + 1]
  BY <1>1, <1>2
<1>4. r \in Seq(Nat) /\ Len(r) = m
  BY ONLY <1>1, <1>3
<1> QED  BY <1>3, <1>4 DEF r, m

LEMMA IsSuffixIf ==
  ASSUME NEW a \in Seq(Nat), NEW b \in Seq(Nat), NEW d \in Nat, Len(b) = d + Len(a),
         \A j \in 1..Len(a) : a[j] = b[d + j]
  PROVE  Files!IsSuffix(a, b)
<1> DEFINE m == Len(a)
           r == Files!Reverse(a)
           q == Files!Reverse(b)
<1>1. m \in Nat /\ Len(b) = d + m
  OBVIOUS
<1>2. /\ r \in Seq(Nat) /\ Len(r) = m
      /\ \A j \in 1..m : r[j] = a[(m - j) + 1]
  BY ReverseFacts
<1>3. /\ q \in Seq(Nat) /\ Len(q) = d + m
      /\ \A j \in 1..(d + m) : q[j] = b[((d + m) - j) + 1]
  <2>1. /\ q \in Seq(Nat) /\ Len(q) = Len(b)
        /\ \A j \in 1..Len(b) : q[j] = b[(Len(b) - j) + 1]
    BY ReverseFacts
  <2> HIDE DEF q, m
  <2> QED  BY <1>1, <2>1
<1>4. \A j \in 1..m : a[j] = b[d + j]
  OBVIOUS
<1> HIDE DEF m, r, q
<1>5. ASSUME NEW j \in 1..m PROVE r[j] = q[j]
  <2>1. /\ j \in 1..(d + m) /\ (m - j) + 1 \in 1..m
        /\ d + ((m - j) + 1) = ((d + m) - j) + 1
    <3>1. m \in Nat /\ d \in Nat /\ j \in 1..m
      BY <1>1
    <3> QED  BY ONLY <3>1
  <2>2. r[j] = a[(m - j) + 1] /\ q[j] = b[((d + m) - j) + 1]
    BY <1>2, <1>3, <2>1
  <2>3. a[(m - j) + 1] = b[d + ((m - j) + 1)]
    BY <1>4, <2>1
  <2>4. b[d + ((m - j) + 1)] = b[((d + m) - j) + 1]
    BY <2>1
  <2> QED  BY <2>2, <2>3, <2>4
<1>6. Len(r) <= Len(q) /\ \A j \in 1..Len(r) : r[j] = q[j]
  <2>1. Len(r) = m /\ Len(q) = d + m
    BY ONLY <1>2, <1>3
  <2>2. m <= d + m
    BY <1>1
  <2> QED  BY ONLY <1>5, <2>1, <2>2
<1>7. Files!IsPrefix(r, q)
  BY <1>2, <1>3, <1>6, IsPrefixIf
<1> QED  BY <1>7 DEF Files!IsSuffix, r, q

\* A step of the sink is a step of the log that is read, or none.
LEMMA LogRefines ==
  RotInv /\ Numbered /\ Next /\ Log' \in Messages
    => Files!Next \/ (Numbers(Log') = Numbers(Log) /\ faults' = faults)
<1> SUFFICES ASSUME RotInv, Numbered, Next, Log' \in Messages
             PROVE  Files!Next \/ (Numbers(Log') = Numbers(Log) /\ faults' = faults)
  OBVIOUS
<1> DEFINE a == Numbers(Log)
           b == Numbers(Log')
<1>1. Log \in Messages /\ op \in Ops
  BY LogType, TypeFacts DEF RotInv
<1>2. /\ a \in Seq(Nat) /\ Len(a) = Len(Log) /\ Len(Log) \in Nat /\ DOMAIN a = 1..Len(Log)
      /\ b \in Seq(Nat) /\ Len(b) = Len(Log') /\ Len(Log') \in Nat
      /\ \A j \in 1..Len(Log) : a[j] = Log[j].n
      /\ \A j \in 1..Len(Log') : b[j] = Log'[j].n
  BY <1>1, NumbersFacts
<1>3. /\ Files!Append1 <=> /\ Len(b) = Len(a) + 1 /\ Files!IsPrefix(a, b)
                           /\ \A j \in DOMAIN a : a[j] < b[Len(b)]
                           /\ faults' \in {faults, faults + 1}
      /\ Files!DropOldest <=> Files!IsSuffix(b, a) /\ faults' = faults
      /\ Files!LoseNewest <=> Files!IsPrefix(b, a) /\ faults' = faults + 1
  BY DEF Files!Append1, Files!DropOldest, Files!LoseNewest, Files!Last, Numbers, Log
<1> HIDE DEF a, b
<1>4. CASE Kept
  BY <1>4 DEF Kept, a, b
<1>5. CASE Added
  <2>1. /\ faults' \in {faults, faults + 1} /\ Busy
        /\ Len(Log') = Len(Log) + 1 /\ Log'[Len(Log) + 1].n = op.msg.n
        /\ \A i \in 1..Len(Log) : Log[i].n = Log'[i].n
    BY <1>5 DEF Added, Begins, Busy
  <2>2. \A i \in 1..Len(Log) : i \in 1..Len(Log') /\ a[i] = b[i]
    BY SMTT(30), <1>2, <2>1
  <2>3. Files!IsPrefix(a, b)
    BY SMTT(30), <1>2, <2>1, <2>2, IsPrefixIf
  <2>4. \A j \in DOMAIN a : a[j] < b[Len(b)]
    <3>1. Len(b) = Len(Log) + 1 /\ Len(b) \in 1..Len(Log') /\ b[Len(b)] = op.msg.n
      BY <1>2, <2>1
    <3>2. \A j \in 1..Len(Log) : Log[j].n < op.msg.n
      BY <2>1 DEF Numbered, Newest
    <3> QED  BY <1>2, <3>1, <3>2
  <2>5. Files!Append1
    BY <1>2, <1>3, <2>1, <2>3, <2>4
  <2> QED  BY <2>5 DEF Files!Next
<1>6. CASE OldLost
  <2>1. PICK s \in Messages : Log = s \o Log'
    BY <1>6 DEF OldLost
  <2>2. /\ Len(s) \in Nat /\ Len(Log) = Len(s) + Len(Log')
        /\ \A j \in 1..Len(Log') : Len(s) + j \in 1..Len(Log) /\ Log[Len(s) + j] = Log'[j]
    BY <2>1, SuffixPlaces, MessageSizes
  <2>3. \A j \in 1..Len(b) : b[j] = a[Len(s) + j]
    BY <1>2, <2>2
  <2>4. Files!IsSuffix(b, a)
    BY <1>2, <2>2, <2>3, IsSuffixIf
  <2>5. Files!DropOldest
    BY <1>3, <1>6, <2>4 DEF OldLost
  <2> QED  BY <2>5 DEF Files!Next
<1>7. CASE NewLost
  <2>1. Len(Log') <= Len(Log) /\ \A j \in 1..Len(Log') : Log'[j].n = Log[j].n
    BY <1>7 DEF NewLost, Begins
  <2>2. \A j \in 1..Len(Log') : j \in 1..Len(Log)
    BY <1>2, <2>1
  <2>3. \A j \in 1..Len(b) : b[j] = a[j]
    BY <1>2, <2>1, <2>2
  <2>4. Files!IsPrefix(b, a)
    BY <1>2, <2>1, <2>3, IsPrefixIf
  <2>5. Files!LoseNewest
    BY <1>3, <1>7, <2>4 DEF NewLost
  <2> QED  BY <2>5 DEF Files!Next
<1> QED  BY <1>4, <1>5, <1>6, <1>7, LogStep

\* Read from the oldest file to the newest, what the sink has logged is a
\* RecentLog: in order and without holes, whatever a rotation, a crash, a
\* failed system call or a restart does to the files.
THEOREM LogIsRecentLog == Spec => ImplementsRecentLog
<1> DEFINE mapped == [j \in DOMAIN Oldest2Newest |-> Oldest2Newest[j].n]
<1>1. Init => Files!Init
  <2> SUFFICES ASSUME Init PROVE Files!Init
    OBVIOUS
  <2>1. mapped = <<>>
    BY LogInit DEF Log
  <2> QED  BY <2>1 DEF Files!Init, Init
<1>2. RotInv /\ Numbered /\ [Next]_vars => [Files!Next]_<<mapped, faults>>
  <2> SUFFICES ASSUME RotInv, Numbered, [Next]_vars
               PROVE  [Files!Next]_<<mapped, faults>>
    OBVIOUS
  <2>1. CASE UNCHANGED vars
    BY <2>1 DEF vars, Oldest2Newest, File
  <2>2. CASE Next
    <3>1. TypeOK'
      BY <2>2, TypeStep DEF RotInv
    <3>2. IsDisk(disk') /\ buffer' \in Messages
      BY <3>1 DEF TypeOK, IsDisk, Messages
    <3>3. Files!Next \/ (Numbers(Log') = Numbers(Log) /\ faults' = faults)
      BY <2>2, <3>2, LogTypeAfter, LogRefines
    <3> QED  BY <3>3 DEF Numbers, Log
  <2> QED  BY <2>1, <2>2
<1>3. Spec => []Numbered
  BY NumberedInit, NumberedStep, RotationInvariance, PTL DEF Spec
<1> QED  BY <1>1, <1>2, <1>3, RotationInvariance, PTL DEF Spec, ImplementsRecentLog, Files!Spec
=============================================================================
