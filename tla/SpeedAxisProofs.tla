--------------------------- MODULE SpeedAxisProofs --------------------------
(***************************************************************************)
(* Theorems about SpeedAxis: whatever the speeds, the window, the least    *)
(* height and the tolerance are, no visible point is cut off at rest, and  *)
(* the axis fits.                                                          *)
(*                                                                         *)
(* Neither is inductive alone.  A load is fitted to the series that were   *)
(* visible before it, so that WouldBeVisible has to say that they are no   *)
(* fewer than those visible after it.  An axis that is kept since the      *)
(* change is small is high enough only because it is never lower than      *)
(* MinRange.  And a gesture ends with a load, not at rest, only because    *)
(* there is a series to load: GesturesOnSeries.                            *)
(***************************************************************************)
EXTENDS SpeedAxis, TLAPS, FiniteSetTheorems, WellFoundedInduction

USE SpeedAxisAssumption

\* Max is taken of finite sets.
FiniteSeries ==
  /\ \A i \in Interfaces : IsFiniteSet(points[i]) /\ IsFiniteSet(stored[i])

NeverLowerThanMin == axis_y_ >= MinRange

WouldBeVisible == VisibleIn(isolated_interface_name_) \subseteq visible

GesturesOnSeries == dragging_ \/ is_manual_view_active_ => series_map_ # {}

\* The axis is as high as points, series and range ask for, but for a change
\* that is not worth a redraw.
FittedTo(drawn, shown, range, height) ==
  /\ height - NewMax(drawn, shown, range) <= Tolerance
  /\ NewMax(drawn, shown, range) - height <= Tolerance

AxisInv ==
  /\ TypeOK
  /\ FiniteSeries
  /\ NeverLowerThanMin
  /\ WouldBeVisible
  /\ GesturesOnSeries
  /\ NothingCutOff
  /\ AxisFits

-----------------------------------------------------------------------------
(* The highest of finitely many numbers *)

\* A set of natural numbers that is not empty has a least element.
LEMMA LeastNatural ==
  ASSUME NEW T \in SUBSET Nat, T # {}
  PROVE  \E x \in T : \A y \in T : x <= y
<1>1. PICK x \in T : \A y \in T : ~(<<y, x>> \in OpToRel(<, Nat))
  BY NatLessThanWellFounded, WFMin
<1>2. ASSUME NEW y \in T PROVE x <= y
  <2>1. <<y, x>> \in OpToRel(<, Nat) <=> y < x
    BY DEF OpToRel
  <2>2. ~(y < x)
    BY <1>1, <2>1
  <2>3. x \in Nat /\ y \in Nat
    OBVIOUS
  <2> QED  BY <2>2, <2>3
<1> QED  BY <1>2

\* A finite one has a greatest: a smallest set without one would have one when
\* any of its elements is put aside, which the two of them contradict.
LEMMA GreatestOfFinite ==
  ASSUME NEW S \in SUBSET Nat, IsFiniteSet(S), S # {}
  PROVE  \E x \in S : \A y \in S : x >= y
<1> DEFINE Greatest(A) == \E x \in A : \A y \in A : x >= y
           Bad == {A \in SUBSET S : A # {} /\ ~Greatest(A)}
           Sizes == {Cardinality(A) : A \in Bad}
<1> SUFFICES ASSUME ~Greatest(S) PROVE FALSE
  OBVIOUS
<1>1. \A A \in Bad : IsFiniteSet(A) /\ Cardinality(A) \in Nat
  BY FS_Subset, FS_CardinalityType
<1>2. S \in Bad
  OBVIOUS
<1>3. Sizes \in SUBSET Nat /\ Sizes # {}
  BY <1>1, <1>2
<1>4. PICK n \in Sizes : \A m \in Sizes : n <= m
  BY <1>3, LeastNatural
<1>5. PICK A \in Bad : n = Cardinality(A)
  OBVIOUS
<1>6. PICK x \in A : TRUE
  OBVIOUS
<1>7. IsFiniteSet(A) /\ Cardinality(A) \in Nat
  BY <1>1
<1>8. Cardinality(A \ {x}) = Cardinality(A) - 1
  BY <1>6, <1>7, FS_RemoveElement
<1>9. A \ {x} \notin Bad
  <2> SUFFICES ASSUME A \ {x} \in Bad PROVE FALSE
    OBVIOUS
  <2>1. Cardinality(A \ {x}) \in Sizes
    OBVIOUS
  <2>2. n <= Cardinality(A \ {x})
    BY <1>4, <2>1
  <2> QED  BY ONLY <1>5, <1>7, <1>8, <2>2
<1>10. A \ {x} # {} => Greatest(A \ {x})
  BY <1>9
<1>11. CASE A \ {x} = {}
  <2>1. \A y \in A : y = x
    BY <1>11
  <2>2. x \in Nat
    BY <1>6
  <2> QED  BY <1>6, <2>1, <2>2
<1>12. CASE A \ {x} # {}
  <2>1. PICK m \in A \ {x} : \A y \in A \ {x} : m >= y
    BY <1>10, <1>12
  <2>2. x \in Nat /\ m \in Nat /\ A \subseteq Nat
    BY <1>6, <2>1
  <2>3. CASE m >= x
    <3>1. \A y \in A : m >= y
      BY <2>1, <2>3
    <3> QED  BY <2>1, <3>1
  <2>4. CASE x >= m
    <3>1. \A y \in A : x >= y
      BY <2>1, <2>2, <2>4
    <3> QED  BY <1>6, <3>1
  <2> QED  BY <2>2, <2>3, <2>4
<1> QED  BY <1>11, <1>12

\* The values of a function on a finite set.
LEMMA FiniteImage ==
  ASSUME NEW S, IsFiniteSet(S), NEW f
  PROVE  IsFiniteSet({f[x] : x \in S})
<1> DEFINE T == {f[x] : x \in S}
           g == [x \in S |-> f[x]]
<1>1. g \in Surjection(S, T)
  BY DEF Surjection
<1> QED  BY <1>1, FS_Surjection

\* A set of two.
LEMMA FinitePair == \A a, b : IsFiniteSet({a}) /\ IsFiniteSet({a, b})
<1> SUFFICES ASSUME NEW a, NEW b PROVE IsFiniteSet({a}) /\ IsFiniteSet({a, b})
  OBVIOUS
<1>1. {} \union {a} = {a} /\ {a} \union {b} = {a, b}
  OBVIOUS
<1>2. IsFiniteSet({} \union {a})
  BY FS_EmptySet, FS_AddElement
<1>3. IsFiniteSet({a} \union {b})
  BY <1>1, <1>2, FS_AddElement
<1> QED  BY <1>1, <1>2, <1>3

\* What Max is of.
LEMMA MaxOfFinite ==
  ASSUME NEW S \in SUBSET Nat, IsFiniteSet(S), S # {}
  PROVE  Max(S) \in S /\ \A y \in S : Max(S) >= y
BY GreatestOfFinite DEF Max

-----------------------------------------------------------------------------
(* The height that is asked for *)

Drawing == [Interfaces -> SUBSET Points]

FiniteDrawing(drawn) == \A i \in Interfaces : IsFiniteSet(drawn[i])

Heights(drawn, shown, range) ==
  {0} \union UNION {{p.y : p \in InRange(drawn[i], range)} : i \in shown}

\* Highest is one of the heights and none is above it.
LEMMA HighestIsHighest ==
  ASSUME NEW drawn \in Drawing, FiniteDrawing(drawn),
         NEW shown \in SUBSET Interfaces, NEW range
  PROVE  /\ Heights(drawn, shown, range) \subseteq {0} \union Speeds
         /\ Highest(drawn, shown, range) \in Heights(drawn, shown, range)
         /\ \A y \in Heights(drawn, shown, range) : y <= Highest(drawn, shown, range)
<1> DEFINE Of(i) == {p.y : p \in InRange(drawn[i], range)}
           H == Heights(drawn, shown, range)
<1>1. \A i \in shown : InRange(drawn[i], range) \subseteq Points
  BY DEF InRange, Drawing
<1>2. \A i \in shown : Of(i) \subseteq Speeds
  BY <1>1 DEF Points
<1>3. ASSUME NEW i \in shown PROVE IsFiniteSet(Of(i))
  <2>1. InRange(drawn[i], range) \subseteq drawn[i] /\ IsFiniteSet(drawn[i])
    BY DEF InRange, FiniteDrawing
  <2>2. IsFiniteSet(InRange(drawn[i], range))
    BY <2>1, FS_Subset
  <2> DEFINE f == [p \in InRange(drawn[i], range) |-> p.y]
  <2>3. IsFiniteSet({f[p] : p \in InRange(drawn[i], range)})
    BY <2>2, FiniteImage
  <2> QED  BY <2>3
<1>4. H = {0} \union UNION {Of(i) : i \in shown}
  BY DEF Heights
<1>5. H \subseteq {0} \union Speeds
  BY <1>2, <1>4
<1>6. IsFiniteSet(shown)
  BY FS_Subset
<1> HIDE DEF Of
<1> DEFINE F == [i \in shown |-> Of(i)]
           U == UNION {Of(i) : i \in shown}
<1>7. IsFiniteSet({Of(i) : i \in shown})
  <2>1. IsFiniteSet({F[i] : i \in shown})
    BY <1>6, FiniteImage
  <2> QED  BY <2>1
<1>8. IsFiniteSet(U)
  BY <1>3, <1>7, FS_UNION
<1>9. IsFiniteSet(H)
  <2> HIDE DEF U
  <2>1. IsFiniteSet({0} \union U)
    BY <1>8, FinitePair, FS_Union
  <2> QED  BY <1>4, <2>1 DEF U
<1>10. H \in SUBSET Nat /\ H # {}
  <2>1. 0 \in H
    BY <1>4
  <2>2. {0} \union Speeds \subseteq Nat
    OBVIOUS
  <2> QED  BY ONLY <1>5, <2>1, <2>2
<1>11. Highest(drawn, shown, range) = Max(H)
  BY DEF Highest, Heights
<1> HIDE DEF H
<1>12. Max(H) \in H /\ \A y \in H : Max(H) >= y
  BY <1>9, <1>10, MaxOfFinite
<1>13. \A y \in H : y \in Nat
  BY <1>10
<1> QED  BY <1>5, <1>11, <1>12, <1>13 DEF H

\* It is zero or a speed.
LEMMA HighestType ==
  ASSUME NEW drawn \in Drawing, FiniteDrawing(drawn),
         NEW shown \in SUBSET Interfaces, NEW range
  PROVE  /\ Highest(drawn, shown, range) \in Nat
         /\ Highest(drawn, shown, range) \in {0} \union Speeds
<1>1. Highest(drawn, shown, range) \in {0} \union Speeds
  BY HighestIsHighest
<1>2. Highest(drawn, shown, range) = 0 \/ Highest(drawn, shown, range) \in Speeds
  BY <1>1
<1>3. Speeds \subseteq Nat
  OBVIOUS
<1>4. ASSUME Highest(drawn, shown, range) \in Speeds PROVE Highest(drawn, shown, range) \in Nat
  BY ONLY <1>3, <1>4
<1> QED  BY <1>1, <1>2, <1>4

\* Hiding series does not make it higher.
LEMMA HighestOfFewer ==
  ASSUME NEW drawn \in Drawing, FiniteDrawing(drawn), NEW range,
         NEW shown \in SUBSET Interfaces, NEW fewer \in SUBSET shown
  PROVE  Highest(drawn, fewer, range) <= Highest(drawn, shown, range)
<1>1. Heights(drawn, fewer, range) \subseteq Heights(drawn, shown, range)
  BY DEF Heights
<1>2. fewer \in SUBSET Interfaces
  OBVIOUS
<1>3. Highest(drawn, fewer, range) \in Heights(drawn, fewer, range)
  BY <1>2, HighestIsHighest
<1> QED  BY <1>1, <1>3, HighestIsHighest

\* The larger of the least height and of what is asked for.
LEMMA NewMaxIs ==
  ASSUME NEW drawn \in Drawing, FiniteDrawing(drawn),
         NEW shown \in SUBSET Interfaces, NEW range
  PROVE  LET wanted == (6 * Highest(drawn, shown, range)) \div 5
             new == NewMax(drawn, shown, range)
         IN  /\ wanted \in Nat /\ new \in Nat
             /\ new >= MinRange /\ new >= wanted
<1> DEFINE h == Highest(drawn, shown, range)
           w == (6 * h) \div 5
<1>1. h \in Nat
  BY HighestType
<1> HIDE DEF h
<1>2. w \in Nat
  BY <1>1
<1>3. NewMax(drawn, shown, range) = Max({MinRange, w})
  BY DEF NewMax, h
<1> HIDE DEF w
<1>4. {MinRange, w} \in SUBSET Nat /\ {MinRange, w} # {} /\ IsFiniteSet({MinRange, w})
  BY <1>2, FinitePair
<1>5. Max({MinRange, w}) \in Nat /\ Max({MinRange, w}) >= MinRange /\ Max({MinRange, w}) >= w
  BY <1>4, MaxOfFinite
<1> QED  BY <1>2, <1>3, <1>5 DEF w, h

\* An axis that fits up to the tolerance is above the highest point: a fifth of
\* a speed that counts is more than the tolerance.
LEMMA FittedIsHighEnough ==
  ASSUME NEW drawn \in Drawing, FiniteDrawing(drawn),
         NEW shown \in SUBSET Interfaces, NEW range, NEW height \in Nat,
         height >= MinRange, FittedTo(drawn, shown, range, height)
  PROVE  Highest(drawn, shown, range) <= height
<1> DEFINE h == Highest(drawn, shown, range)
           new == NewMax(drawn, shown, range)
<1>1. h \in Nat /\ h \in {0} \union Speeds
  BY HighestType
<1>2. new \in Nat /\ new >= (6 * h) \div 5
  BY NewMaxIs
<1>3. new - height <= Tolerance
  BY DEF FittedTo
<1>4. h > MinRange => h >= 5 * Tolerance
  BY <1>1
<1> HIDE DEF h, new
<1>5. CASE h <= MinRange
  BY <1>1, <1>5 DEF h
<1>6. CASE h > MinRange
  <2>1. h >= 5 * Tolerance
    BY <1>4, <1>6
  <2>2. (6 * h) \div 5 >= h + Tolerance
    BY <1>1, <2>1
  <2>3. (6 * h) \div 5 \in Nat
    BY <1>1
  <2> HIDE DEF h
  <2>4. h <= height
    BY <1>1, <1>2, <1>3, <2>2, <2>3
  <2> QED  BY <2>4 DEF h
<1> QED  BY <1>1, <1>5, <1>6

\* What rescale_y_axis leaves.
LEMMA RescaledFits ==
  ASSUME NEW drawn \in Drawing, FiniteDrawing(drawn),
         NEW shown \in SUBSET Interfaces, NEW range,
         axis_y_ \in Nat, NeverLowerThanMin, RescaleYAxis(drawn, shown, range)
  PROVE  /\ axis_y_' \in Nat /\ axis_y_' >= MinRange
         /\ FittedTo(drawn, shown, range, axis_y_')
<1> DEFINE new == NewMax(drawn, shown, range)
<1>1. new \in Nat /\ new >= MinRange
  BY NewMaxIs
<1>2. axis_y_' = IF axis_y_ - new > Tolerance \/ new - axis_y_ > Tolerance
                 THEN new ELSE axis_y_
  BY DEF RescaleYAxis
<1> HIDE DEF new
<1>3. /\ axis_y_' \in Nat /\ axis_y_' >= MinRange
      /\ axis_y_' - new <= Tolerance /\ new - axis_y_' <= Tolerance
  BY <1>1, <1>2 DEF NeverLowerThanMin
<1> QED  BY <1>3 DEF new, FittedTo

-----------------------------------------------------------------------------
(* The invariant *)

USE DEF Drawing, FiniteDrawing

\* At rest or not, an axis that fits what is shown cuts nothing off, also when
\* some of the series it was fitted to are hidden after that.
LEMMA SettledAxis ==
  ASSUME NEW drawn \in Drawing, FiniteDrawing(drawn),
         NEW shown \in SUBSET Interfaces, NEW still \in SUBSET shown, NEW range,
         NEW height \in Nat, height >= MinRange, FittedTo(drawn, shown, range, height)
  PROVE  Highest(drawn, still, range) <= height
<1>1. /\ Highest(drawn, shown, range) \in Nat
      /\ Highest(drawn, shown, range) <= height
  BY HighestType, FittedIsHighEnough
<1>2. Highest(drawn, still, range) <= Highest(drawn, shown, range)
  BY HighestOfFewer
<1>3. Highest(drawn, still, range) \in Nat
  <2>1. still \in SUBSET Interfaces
    OBVIOUS
  <2> QED  BY <2>1, HighestType
<1> QED  BY <1>1, <1>2, <1>3

\* What AxisInv says of the drawing.
LEMMA DrawingOfInv ==
  ASSUME AxisInv
  PROVE  /\ points \in Drawing /\ FiniteDrawing(points)
         /\ stored \in Drawing /\ FiniteDrawing(stored)
         /\ visible \in SUBSET Interfaces /\ series_map_ \in SUBSET Interfaces
         /\ axis_y_ \in Nat
BY DEF AxisInv, TypeOK, FiniteSeries

\* A load that was started has a reply to come for each series.
LEMMA LoadNotAtRest ==
  ASSUME NEW known, NEW range, Load(known, range), known # {}
  PROVE  ~AtRest'
<1>1. DOMAIN replies' = known
  BY DEF Load
<1>2. replies' # <<>>
  <2>1. DOMAIN <<>> = {}
    OBVIOUS
  <2> QED  BY <1>1, <2>1
<1> QED  BY <1>2 DEF AtRest

\* The points that a load will find are stored.
LEMMA LoadFindsStored ==
  ASSUME NEW known \in SUBSET Interfaces, NEW range, Load(known, range),
         AxisInv, UNCHANGED stored
  PROVE  /\ DOMAIN replies' = known
         /\ \A i \in DOMAIN replies' : replies'[i] \subseteq stored'[i]
BY DEF Load, InRange

LEMMA InitAxisInv == Init => AxisInv
<1> SUFFICES ASSUME Init PROVE AxisInv
  OBVIOUS
<1>1. /\ points = [i \in Interfaces |-> {}] /\ stored = points
      /\ visible = {} /\ series_map_ = {}
  BY DEF Init
<1>2. TypeOK
  <2>1. axis_x_ \in [min : Int, max : Int]
    BY DEF Init, LiveRange
  <2>2. DOMAIN replies = {}
    BY DEF Init
  <2>3. stored \in [Interfaces -> SUBSET Points] /\ points \in [Interfaces -> SUBSET Points]
    BY <1>1
  <2>4. now \in 0..MaxTime /\ axis_y_ \in Nat
    BY DEF Init
  <2>5. isolated_interface_name_ = NoInterface /\ is_manual_view_active_ = FALSE
        /\ dragging_ = FALSE
    BY DEF Init
  <2> QED  BY ONLY <1>1, <2>1, <2>2, <2>3, <2>4, <2>5 DEF TypeOK
<1>3. FiniteSeries
  BY <1>1, FS_EmptySet DEF FiniteSeries
<1>4. axis_y_ = MinRange /\ axis_y_ \in Nat /\ NeverLowerThanMin
  BY DEF Init, NeverLowerThanMin
<1>5. WouldBeVisible /\ GesturesOnSeries
  BY <1>1 DEF Init, WouldBeVisible, VisibleIn, GesturesOnSeries
<1>6. NewMax(points, visible, axis_x_) = axis_y_
  <2>1. Highest(points, visible, axis_x_) = Max({0})
    <3>1. {{p.y : p \in InRange(points[i], axis_x_)} : i \in visible} = {}
      BY <1>1
    <3>2. {0} \union UNION {{p.y : p \in InRange(points[i], axis_x_)} : i \in visible} = {0}
      BY <3>1
    <3> QED  BY <3>2 DEF Highest
  <2>2. Max({0}) = 0
    BY DEF Max
  <2>3. (6 * 0) \div 5 = 0
    OBVIOUS
  <2>4. Max({MinRange, 0}) = MinRange
    <3>1. Max({MinRange, 0}) \in {MinRange, 0} /\ \A y \in {MinRange, 0} : Max({MinRange, 0}) >= y
      <4>1. {MinRange, 0} \in SUBSET Nat /\ {MinRange, 0} # {}
        OBVIOUS
      <4> QED  BY <4>1, FinitePair, MaxOfFinite
    <3> QED  BY <3>1
  <2> QED  BY <1>4, <2>1, <2>2, <2>3, <2>4 DEF NewMax
<1>7. FittedTo(points, visible, axis_x_, axis_y_)
  BY <1>4, <1>6 DEF FittedTo
<1>8. points \in Drawing /\ FiniteDrawing(points) /\ visible \in SUBSET Interfaces
  BY <1>1, FS_EmptySet
<1>9. Highest(points, visible, axis_x_) <= axis_y_
  BY <1>4, <1>7, <1>8, FittedIsHighEnough DEF NeverLowerThanMin
<1> QED  BY <1>2, <1>3, <1>4, <1>5, <1>7, <1>9 DEF AxisInv, NothingCutOff, AxisFits, FittedTo

\* Steps after which something is dragged or awaited, with the same points and
\* the same height of the axis.
LEMMA NotYetAtRest ==
  ASSUME AxisInv, TypeOK', ~AtRest', UNCHANGED <<points, stored, axis_y_>>,
         WouldBeVisible', GesturesOnSeries'
  PROVE  AxisInv'
BY DEF AxisInv, FiniteSeries, NeverLowerThanMin, NothingCutOff, AxisFits

-----------------------------------------------------------------------------
(* The steps *)

LEMMA SampleFits == AxisInv /\ HandleStatsCollected => AxisInv'
<1> SUFFICES ASSUME AxisInv, HandleStatsCollected PROVE AxisInv'
  OBVIOUS
<1>1. /\ points \in Drawing /\ FiniteDrawing(points)
      /\ stored \in Drawing /\ FiniteDrawing(stored)
      /\ visible \in SUBSET Interfaces /\ series_map_ \in SUBSET Interfaces
      /\ axis_y_ \in Nat
  BY DrawingOfInv
<1>2. now' = now + 1 /\ now' \in 0..MaxTime /\ now' \in Int
  BY DEF HandleStatsCollected, AxisInv, TypeOK
<1>3. /\ series_map_' = series_map_ /\ visible' = visible /\ replies' = replies
      /\ isolated_interface_name_' = isolated_interface_name_
      /\ is_manual_view_active_' = is_manual_view_active_ /\ dragging_' = dragging_
  BY DEF HandleStatsCollected
<1>4. PICK sampled \in SUBSET Interfaces : \E speed \in [sampled -> Speeds] :
        LET new(i) == IF i \in sampled THEN {[x |-> now', y |-> speed[i]]} ELSE {} IN
        /\ stored' = [i \in Interfaces |-> stored[i] \union new(i)]
        /\ IF is_manual_view_active_
           THEN UNCHANGED <<points, axis_x_, axis_y_>>
           ELSE /\ points' = [i \in Interfaces |->
                     IF i \in series_map_ \intersect sampled
                     THEN {p \in points[i] \union new(i) : p.x >= now' - 2 * Window}
                     ELSE points[i]]
                /\ axis_x_' = LiveRange(now')
                /\ RescaleYAxis(points', visible, axis_x_')
  BY DEF HandleStatsCollected
<1>4a. PICK speed \in [sampled -> Speeds] :
        LET new(i) == IF i \in sampled THEN {[x |-> now', y |-> speed[i]]} ELSE {} IN
        /\ stored' = [i \in Interfaces |-> stored[i] \union new(i)]
        /\ IF is_manual_view_active_
           THEN UNCHANGED <<points, axis_x_, axis_y_>>
           ELSE /\ points' = [i \in Interfaces |->
                     IF i \in series_map_ \intersect sampled
                     THEN {p \in points[i] \union new(i) : p.x >= now' - 2 * Window}
                     ELSE points[i]]
                /\ axis_x_' = LiveRange(now')
                /\ RescaleYAxis(points', visible, axis_x_')
  BY <1>4
<1> DEFINE new(i) == IF i \in sampled THEN {[x |-> now', y |-> speed[i]]} ELSE {}
<1>5. \A i \in Interfaces : new(i) \subseteq Points /\ IsFiniteSet(new(i))
  <2> SUFFICES ASSUME NEW i \in Interfaces
               PROVE  new(i) \subseteq Points /\ IsFiniteSet(new(i))
    OBVIOUS
  <2>1. CASE i \in sampled
    <3>1. speed[i] \in Speeds
      BY <1>4a, <2>1
    <3>2. [x |-> now', y |-> speed[i]] \in Points
      BY <1>2, <3>1 DEF Points
    <3> QED  BY <2>1, <3>2, FinitePair
  <2>2. CASE i \notin sampled
    BY <2>2, FS_EmptySet
  <2> QED  BY <2>1, <2>2
<1>6. stored' = [i \in Interfaces |-> stored[i] \union new(i)]
  BY <1>4a
<1> HIDE DEF new
<1>7. stored' \in Drawing /\ FiniteDrawing(stored')
      /\ \A i \in Interfaces : stored[i] \subseteq stored'[i]
  BY <1>1, <1>5, <1>6, FS_Union
<1>8. points' \in Drawing /\ FiniteDrawing(points')
  <2>1. CASE is_manual_view_active_
    BY <1>1, <1>4a, <2>1
  <2>2. CASE ~is_manual_view_active_
    <3>1. points' = [i \in Interfaces |->
                     IF i \in series_map_ \intersect sampled
                     THEN {p \in points[i] \union new(i) : p.x >= now' - 2 * Window}
                     ELSE points[i]]
      BY <1>4a, <2>2 DEF new
    <3>2. ASSUME NEW i \in Interfaces
          PROVE  points'[i] \subseteq points[i] \union new(i)
      BY <3>1
    <3>3. ASSUME NEW i \in Interfaces
          PROVE  IsFiniteSet(points'[i]) /\ points'[i] \subseteq Points
      <4>1. IsFiniteSet(points[i] \union new(i))
        BY <1>1, <1>5, FS_Union
      <4> QED  BY <1>1, <1>5, <3>2, <4>1, FS_Subset
    <3>4. DOMAIN points' = Interfaces /\ points' = [i \in Interfaces |-> points'[i]]
      BY <3>1
    <3> QED  BY <3>3, <3>4
  <2> QED  BY <2>1, <2>2
<1>9. axis_x_' \in [min : Int, max : Int]
  <2>1. LiveRange(now') \in [min : Int, max : Int]
    BY <1>2 DEF LiveRange
  <2> QED  BY <1>4a, <2>1 DEF AxisInv, TypeOK
<1>10. /\ axis_y_' \in Nat /\ axis_y_' >= MinRange
       /\ \/ UNCHANGED <<points, axis_x_, axis_y_>>
          \/ FittedTo(points', visible', axis_x_', axis_y_')
  <2>1. CASE is_manual_view_active_
    BY <1>1, <1>4a, <2>1 DEF AxisInv, NeverLowerThanMin
  <2>2. CASE ~is_manual_view_active_
    <3>1. RescaleYAxis(points', visible, axis_x_')
      BY <1>4a, <2>2
    <3> QED  BY <1>1, <1>3, <1>8, <3>1, RescaledFits DEF AxisInv
  <2> QED  BY <2>1, <2>2
<1>11. TypeOK'
  <2>1. /\ visible' \subseteq series_map_' /\ series_map_' \subseteq Interfaces
        /\ isolated_interface_name_' \in series_map_' \union {NoInterface}
        /\ DOMAIN replies' \subseteq series_map_'
        /\ is_manual_view_active_' \in BOOLEAN /\ dragging_' \in BOOLEAN
    BY <1>3 DEF AxisInv, TypeOK
  <2>2. \A i \in DOMAIN replies' : replies'[i] \subseteq stored'[i]
    BY <1>1, <1>3, <1>7 DEF AxisInv, TypeOK
  <2> QED  BY <1>2, <1>7, <1>8, <1>9, <1>10, <2>1, <2>2 DEF TypeOK
<1>12. FiniteSeries' /\ NeverLowerThanMin' /\ WouldBeVisible' /\ GesturesOnSeries'
  BY <1>3, <1>7, <1>8, <1>10 DEF AxisInv, FiniteSeries, NeverLowerThanMin,
     WouldBeVisible, VisibleIn, GesturesOnSeries
<1>13. NothingCutOff' /\ AxisFits'
  <2>1. CASE UNCHANGED <<points, axis_x_, axis_y_>>
    BY <1>3, <2>1 DEF AxisInv, NothingCutOff, AxisFits, AtRest
  <2>2. CASE FittedTo(points', visible', axis_x_', axis_y_')
    <3>1. Highest(points', visible', axis_x_') <= axis_y_'
      BY <1>1, <1>3, <1>8, <1>10, <2>2, FittedIsHighEnough
    <3> QED  BY <2>2, <3>1 DEF NothingCutOff, AxisFits, FittedTo
  <2> QED  BY <1>10, <2>1, <2>2
<1> QED  BY <1>11, <1>12, <1>13 DEF AxisInv

LEMMA NewSeriesFit == AxisInv /\ ProcessNewInterfaces => AxisInv'
<1> SUFFICES ASSUME AxisInv, ProcessNewInterfaces PROVE AxisInv'
  OBVIOUS
<1>1. PICK new \in (SUBSET (Interfaces \ series_map_)) \ {{}} :
        /\ series_map_' = series_map_ \union new
        /\ visible' = visible \union new
        /\ Load(series_map_', LiveRange(now))
  BY DEF ProcessNewInterfaces
<1>2. UNCHANGED <<now, stored, points, isolated_interface_name_,
                  is_manual_view_active_, dragging_, axis_x_, axis_y_>>
  BY DEF ProcessNewInterfaces
<1>3. series_map_' \in SUBSET Interfaces /\ series_map_' # {}
  <2>1. series_map_ \subseteq Interfaces
    BY DrawingOfInv
  <2>2. new \subseteq Interfaces /\ new # {} /\ series_map_' = series_map_ \union new
    BY <1>1
  <2> QED  BY ONLY <2>1, <2>2
<1>4. ~AtRest'
  BY <1>1, <1>3, LoadNotAtRest
<1>5. /\ DOMAIN replies' = series_map_'
      /\ \A i \in DOMAIN replies' : replies'[i] \subseteq stored'[i]
  BY <1>1, <1>2, <1>3, LoadFindsStored
<1>6. TypeOK'
  BY <1>1, <1>2, <1>3, <1>5 DEF AxisInv, TypeOK
<1>7. WouldBeVisible' /\ GesturesOnSeries'
  BY <1>1, <1>2, <1>3 DEF AxisInv, WouldBeVisible, VisibleIn, GesturesOnSeries
<1> QED  BY <1>2, <1>4, <1>6, <1>7, NotYetAtRest

LEMMA RepliesFit == AxisInv /\ HandleSnapshotsLoaded => AxisInv'
<1> SUFFICES ASSUME AxisInv, HandleSnapshotsLoaded PROVE AxisInv'
  OBVIOUS
<1>1. /\ points \in Drawing /\ FiniteDrawing(points)
      /\ stored \in Drawing /\ FiniteDrawing(stored)
      /\ visible \in SUBSET Interfaces /\ series_map_ \in SUBSET Interfaces
      /\ axis_y_ \in Nat /\ visible \subseteq series_map_
  BY DrawingOfInv DEF AxisInv, TypeOK
<1>2. UNCHANGED <<now, stored, series_map_, isolated_interface_name_,
                  is_manual_view_active_, dragging_>>
  BY DEF HandleSnapshotsLoaded
<1>3. PICK i \in DOMAIN replies :
       /\ points' = [points EXCEPT ![i] = replies[i]]
       /\ replies' = [j \in DOMAIN replies \ {i} |-> replies[j]]
       /\ IF DOMAIN replies = {i}
          THEN ProcessLoadedDataBatch(points')
          ELSE UNCHANGED <<visible, axis_x_, axis_y_>>
  BY DEF HandleSnapshotsLoaded
<1>4. i \in Interfaces /\ replies[i] \subseteq stored[i] /\ DOMAIN replies \subseteq series_map_
  BY <1>1 DEF AxisInv, TypeOK
<1>5. points' \in Drawing /\ FiniteDrawing(points')
  <2>1. IsFiniteSet(replies[i]) /\ replies[i] \subseteq Points
    BY <1>1, <1>4, FS_Subset
  <2> QED  BY <1>1, <1>3, <2>1
<1>6. \A j \in DOMAIN replies' : replies'[j] \subseteq stored'[j]
  BY <1>2, <1>3 DEF AxisInv, TypeOK
<1>7. DOMAIN replies' = DOMAIN replies \ {i}
  BY <1>3
<1>8. CASE DOMAIN replies # {i}
  <2>1. UNCHANGED <<visible, axis_x_, axis_y_>>
    BY <1>3, <1>8
  <2>2. ~AtRest'
    <3>1. DOMAIN replies' # {}
      BY <1>7, <1>8
    <3>2. DOMAIN <<>> = {}
      OBVIOUS
    <3> QED  BY <3>1, <3>2 DEF AtRest
  <2>3. TypeOK'
    BY <1>2, <1>5, <1>6, <1>7, <2>1 DEF AxisInv, TypeOK
  <2> QED  BY <1>1, <1>2, <1>5, <2>1, <2>2, <2>3
           DEF AxisInv, FiniteSeries, NeverLowerThanMin, WouldBeVisible, VisibleIn,
               GesturesOnSeries, NothingCutOff, AxisFits
<1>9. CASE DOMAIN replies = {i}
  <2>1. /\ axis_x_' = IF is_manual_view_active_ THEN axis_x_ ELSE LiveRange(now)
        /\ RescaleYAxis(points', visible, axis_x_')
        /\ visible' = VisibleIn(isolated_interface_name_)
    BY <1>3, <1>9 DEF ProcessLoadedDataBatch
  <2>2. axis_x_' \in [min : Int, max : Int]
    BY <2>1 DEF AxisInv, TypeOK, LiveRange
  <2>3. visible' \subseteq visible /\ visible' \subseteq series_map_'
    BY <1>1, <1>2, <2>1 DEF AxisInv, WouldBeVisible
  <2>4. /\ axis_y_' \in Nat /\ axis_y_' >= MinRange
        /\ FittedTo(points', visible, axis_x_', axis_y_')
    BY <1>1, <1>5, <2>1, RescaledFits DEF AxisInv
  <2>5. TypeOK'
    BY <1>2, <1>5, <1>6, <1>7, <2>2, <2>3, <2>4 DEF AxisInv, TypeOK
  <2>6. Highest(points', visible', axis_x_') <= axis_y_'
    BY <1>1, <1>5, <2>3, <2>4, SettledAxis
  <2>7. isolated_interface_name_' = NoInterface => visible' = visible
    BY <1>1, <1>2, <2>1, <2>3 DEF VisibleIn
  <2>8. AxisFits'
    BY <2>4, <2>7 DEF AxisFits, FittedTo
  <2>9. WouldBeVisible' /\ GesturesOnSeries'
    BY <1>2, <2>1 DEF AxisInv, WouldBeVisible, VisibleIn, GesturesOnSeries
  <2> QED  BY <1>1, <1>2, <1>5, <2>4, <2>5, <2>6, <2>8, <2>9
           DEF AxisInv, FiniteSeries, NeverLowerThanMin, NothingCutOff
<1> QED  BY <1>8, <1>9

LEMMA IsolationFits == AxisInv /\ ToggleSeriesVisibility => AxisInv'
<1> SUFFICES ASSUME AxisInv, ToggleSeriesVisibility PROVE AxisInv'
  OBVIOUS
<1>1. /\ points \in Drawing /\ FiniteDrawing(points)
      /\ series_map_ \in SUBSET Interfaces /\ axis_y_ \in Nat
  BY DrawingOfInv
<1>2. UNCHANGED <<now, stored, points, series_map_, replies,
                  is_manual_view_active_, dragging_, axis_x_>>
  BY DEF ToggleSeriesVisibility
<1>3. /\ isolated_interface_name_' \in series_map_ \union {NoInterface}
      /\ visible' = VisibleIn(isolated_interface_name_')
      /\ RescaleYAxis(points, visible', axis_x_)
  BY DEF ToggleSeriesVisibility
<1>4. visible' \subseteq series_map_
  BY <1>3 DEF VisibleIn
<1>5. /\ axis_y_' \in Nat /\ axis_y_' >= MinRange
      /\ FittedTo(points', visible', axis_x_', axis_y_')
  <2>1. visible' \in SUBSET Interfaces
    BY <1>1, <1>4
  <2>2. /\ axis_y_' \in Nat /\ axis_y_' >= MinRange
        /\ FittedTo(points, visible', axis_x_, axis_y_')
    BY <1>1, <1>3, <2>1, RescaledFits DEF AxisInv
  <2> QED  BY <1>2, <2>2
<1>6. Highest(points', visible', axis_x_') <= axis_y_'
  BY <1>1, <1>2, <1>4, <1>5, SettledAxis
<1>7. TypeOK'
  BY <1>2, <1>3, <1>4, <1>5 DEF AxisInv, TypeOK
<1>8. FiniteSeries' /\ NeverLowerThanMin' /\ WouldBeVisible' /\ GesturesOnSeries'
  BY <1>2, <1>3, <1>5 DEF AxisInv, FiniteSeries, NeverLowerThanMin,
     WouldBeVisible, VisibleIn, GesturesOnSeries
<1> QED  BY <1>5, <1>6, <1>7, <1>8 DEF AxisInv, NothingCutOff, AxisFits, FittedTo

LEMMA GesturesFit ==
  AxisInv /\ (OnInteractionStarted \/ MouseMoveEvent \/ OnInteractionFinished
              \/ SnapBackToLiveView) => AxisInv'
<1> SUFFICES ASSUME AxisInv PROVE OnInteractionStarted \/ MouseMoveEvent
                 \/ OnInteractionFinished \/ SnapBackToLiveView => AxisInv'
  OBVIOUS
<1>1. series_map_ \in SUBSET Interfaces
  BY DrawingOfInv
<1>2. ASSUME OnInteractionStarted PROVE AxisInv'
  <2>1. /\ dragging_' = TRUE /\ is_manual_view_active_' = TRUE /\ series_map_ # {}
        /\ UNCHANGED <<now, stored, points, series_map_, visible,
                       isolated_interface_name_, replies, axis_x_, axis_y_>>
    BY <1>2 DEF OnInteractionStarted
  <2>2. TypeOK' /\ ~AtRest'
    BY <2>1 DEF AxisInv, TypeOK, AtRest
  <2>3. WouldBeVisible' /\ GesturesOnSeries'
    BY <2>1 DEF AxisInv, WouldBeVisible, VisibleIn, GesturesOnSeries
  <2> QED  BY <2>1, <2>2, <2>3, NotYetAtRest
<1>3. ASSUME MouseMoveEvent PROVE AxisInv'
  <2>1. /\ dragging_
        /\ UNCHANGED <<now, stored, points, series_map_, visible,
                       isolated_interface_name_, replies, is_manual_view_active_,
                       dragging_, axis_y_>>
    BY <1>3 DEF MouseMoveEvent
  <2>2. PICK d \in {-1, 1} : axis_x_' = [min |-> axis_x_.min + d, max |-> axis_x_.max + d]
    BY <1>3 DEF MouseMoveEvent
  <2>3. axis_x_' \in [min : Int, max : Int]
    BY <2>2 DEF AxisInv, TypeOK
  <2>4. TypeOK' /\ ~AtRest'
    BY <2>1, <2>3 DEF AxisInv, TypeOK, AtRest
  <2>5. WouldBeVisible' /\ GesturesOnSeries'
    BY <2>1 DEF AxisInv, WouldBeVisible, VisibleIn, GesturesOnSeries
  <2> QED  BY <2>1, <2>4, <2>5, NotYetAtRest
<1>4. ASSUME OnInteractionFinished PROVE AxisInv'
  <2>1. /\ dragging_ /\ dragging_' = FALSE /\ Load(series_map_, axis_x_)
        /\ UNCHANGED <<now, stored, points, series_map_, visible,
                 isolated_interface_name_, is_manual_view_active_, axis_x_, axis_y_>>
    BY <1>4 DEF OnInteractionFinished
  <2>2. series_map_ # {}
    BY <2>1 DEF AxisInv, GesturesOnSeries
  <2>3. ~AtRest'
    BY <2>1, <2>2, LoadNotAtRest
  <2>4. /\ DOMAIN replies' = series_map_
        /\ \A i \in DOMAIN replies' : replies'[i] \subseteq stored'[i]
    BY <1>1, <2>1, LoadFindsStored
  <2>5. TypeOK'
    BY <2>1, <2>4 DEF AxisInv, TypeOK
  <2>6. WouldBeVisible' /\ GesturesOnSeries'
    BY <2>1, <2>2 DEF AxisInv, WouldBeVisible, VisibleIn, GesturesOnSeries
  <2> QED  BY <2>1, <2>3, <2>5, <2>6, NotYetAtRest
<1>5. ASSUME SnapBackToLiveView PROVE AxisInv'
  <2>1. /\ is_manual_view_active_ /\ is_manual_view_active_' = FALSE
        /\ Load(series_map_, LiveRange(now))
        /\ UNCHANGED <<now, stored, points, series_map_, visible,
                 isolated_interface_name_, dragging_, axis_x_, axis_y_>>
    BY <1>5 DEF SnapBackToLiveView
  <2>2. series_map_ # {}
    BY <2>1 DEF AxisInv, GesturesOnSeries
  <2>3. ~AtRest'
    BY <2>1, <2>2, LoadNotAtRest
  <2>4. /\ DOMAIN replies' = series_map_
        /\ \A i \in DOMAIN replies' : replies'[i] \subseteq stored'[i]
    BY <1>1, <2>1, LoadFindsStored
  <2>5. TypeOK'
    BY <2>1, <2>4 DEF AxisInv, TypeOK
  <2>6. WouldBeVisible' /\ GesturesOnSeries'
    BY <2>1, <2>2 DEF AxisInv, WouldBeVisible, VisibleIn, GesturesOnSeries
  <2> QED  BY <2>1, <2>3, <2>5, <2>6, NotYetAtRest
<1> QED  BY <1>2, <1>3, <1>4, <1>5

-----------------------------------------------------------------------------
(* The theorems *)

LEMMA NextAxisInv == AxisInv /\ [Next]_vars => AxisInv'
<1> SUFFICES ASSUME AxisInv, [Next]_vars PROVE AxisInv'
  OBVIOUS
<1>1. CASE UNCHANGED vars
  BY <1>1 DEF vars, AxisInv, TypeOK, FiniteSeries, NeverLowerThanMin, WouldBeVisible,
              VisibleIn, GesturesOnSeries, NothingCutOff, AxisFits, AtRest
<1>2. CASE Next
  BY <1>2, SampleFits, NewSeriesFit, RepliesFit, IsolationFits, GesturesFit DEF Next
<1> QED  BY <1>1, <1>2

\* The inductive invariant of the vertical axis holds in every reachable state.
THEOREM AxisInvariance == Spec => []AxisInv
<1> QED  BY InitAxisInv, NextAxisInv, PTL DEF Spec

\* What rescale_y_axis and the handlers around it work on is of its type.
THEOREM AxisTypeCorrect == Spec => []TypeOK
<1>1. AxisInv => TypeOK
  BY DEF AxisInv
<1> QED  BY <1>1, AxisInvariance, PTL

\* With any speeds, window, least height and tolerance, the axis cuts off no
\* visible point once no reply is awaited and nothing is dragged.
THEOREM PointsAreInside == Spec => []NothingCutOff
<1>1. AxisInv => NothingCutOff
  BY DEF AxisInv
<1> QED  BY <1>1, AxisInvariance, PTL

\* Nor is it higher or lower than they ask for by more than the tolerance.
THEOREM HeightFits == Spec => []AxisFits
<1>1. AxisInv => AxisFits
  BY DEF AxisInv
<1> QED  BY <1>1, AxisInvariance, PTL
=============================================================================
