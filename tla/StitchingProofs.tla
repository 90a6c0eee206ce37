--------------------------- MODULE StitchingProofs ---------------------------
(***************************************************************************)
(* Proofs about Stitching, for any set of devices of any sizes and         *)
(* resolutions whose edges are swiped in any order: every variable has its *)
(* type, content has one size on the whole stitch, neighbours lie next to  *)
(* each other, a device that handled its messages agrees with the master,  *)
(* and locations keep their place.                                         *)
(*                                                                         *)
(* The invariants are inductive in layers: Typed bounds the values and     *)
(* scales, Informed says what the messages on the way to a device add up   *)
(* to, Paired adds that they come in pairs, and Laid extends Typed with    *)
(* where the devices lie.                                                  *)
(***************************************************************************)
EXTENDS Stitching, SetInduction, SequenceTheorems, TLAPS

\* Transformation t has a scale that device d can have: that of some
\* coordinate system.
Exact(d, t) == \E r \in Devices : t.scale * PPI[r] = Unit * PPI[d]

\* The scales of the stitched devices are those of one coordinate system.
OneSystem ==
    \E r \in Devices : \A d \in placed : place[d].scale * PPI[r] = Unit * PPI[d]

\* Every transformation that a device knows or is about to be told is one of
\* its own.
AllExact ==
    \A d \in Devices :
        /\ Exact(d, transformation[d])
        /\ \A i \in 1..Len(down[d]) : Exact(d, down[d][i].t)

\* The inductive invariant of the values.
Typed == TypeOK /\ OneSystem /\ AllExact

\* What device d believes of itself, as the message that told it so, before
\* and after the messages on the way to it.
Belief(d) ==
    [name |-> IF stitched[d] THEN "wasstitched" ELSE "wasunstitched",
     t |-> transformation[d]]
Word(d, i) == IF i = 0 THEN Belief(d) ELSE down[d][i]
LastWord(d) == Word(d, Len(down[d]))

\* The last message to a device that never lost its connection is what the
\* master believes.
SteadyInformed ==
    \A d \in steady :
        IF d \in placed THEN LastWord(d) = WasStitched(place[d])
                        ELSE LastWord(d).name = "wasunstitched"

\* A device that is not stitched has its own coordinates.
UnstitchedDefault ==
    \A d \in Devices : ~stitched[d] => transformation[d] = Default(d)

\* The inductive invariant of what the devices believe.
Informed == Typed /\ SteadyInformed /\ UnstitchedDefault

\* Messages to a device alternate, and one that unstitches a remote undoes the
\* one before.
InTurn(d, i) ==
    /\ Word(d, i).name # Word(d, i - 1).name
    /\ Word(d, i).name = "wasunstitched" /\ d # Master => Word(d, i).t = Word(d, i - 1).t
SteadyInTurn == \A d \in steady : \A i \in 1..Len(down[d]) : InTurn(d, i)

\* A location on a remote is where the stitch of the remote moved it.
SteadyMarked ==
    \A d \in steady \ {Master} :
        location[d] = IF stitched[d] THEN OnWasStitched(Mark(d), transformation[d])
                                     ELSE Mark(d)

\* The inductive invariant of the locations.
Paired == Informed /\ SteadyInTurn /\ SteadyMarked

\* Length l of device d is a whole number on every device.
Whole(d, l) == l \in Int /\ \A r \in Devices : \E q \in Int : q * PPI[d] = l * PPI[r]

\* The devices lie on the grid of the reference of their coordinate system.
OneGrid ==
    \E r \in Devices : \A d \in placed :
        /\ place[d].scale * PPI[r] = Unit * PPI[d]
        /\ Whole(r, place[d].x) /\ Whole(r, place[d].y)

\* The sides of the viewport of d, turned by a rotation.
TurnedWidth(d, rotation) == IF rotation \in {0, 180} THEN Width[d] ELSE Height[d]
TurnedHeight(d, rotation) == IF rotation \in {0, 180} THEN Height[d] ELSE Width[d]

\* Transformation t covers the viewport of d.
Covers(d, t) ==
    /\ t.width = Over(TurnedWidth(d, t.rotation), t.scale)
    /\ t.height = Over(TurnedHeight(d, t.rotation), t.scale)
AllCovered == \A d \in placed : Covers(d, place[d])

\* The transformation of n, whose swipe at edge en was paired with the swipe
\* of o at edge eo.
Joined(o, eo, n, en) == NextTo(SwipeOn(o, eo), place[o], SwipeOn(n, en), PPI[o], PPI[n])

\* A device lies where its swipe put it next to one that is still there.
NextToSomeone ==
    \A d \in placed : beside[d] # Nobody =>
        \E o \in placed \ {d} : \E eo, en \in Edges :
            /\ beside[d] = [device |-> o, theirs |-> SwipeOn(o, eo), mine |-> SwipeOn(d, en)]
            /\ place[d] = Joined(o, eo, d, en)

\* The inductive invariant of the places.
Laid == Typed /\ OneGrid /\ AllCovered /\ NextToSomeone

-----------------------------------------------------------------------------
(* Lemmas on numbers and sequences.                                        *)

\* Exact division is undone by multiplication.
LEMMA Divides ==
    ASSUME NEW a \in Int, NEW b \in Nat \ {0}, a % b = 0
    PROVE  a \div b \in Int /\ (a \div b) * b = a
OBVIOUS

\* A multiple is divided by what it is a multiple of.
LEMMA DividesMultiple ==
    ASSUME NEW a \in Int, NEW b \in Nat \ {0}
    PROVE  (a * b) \div b = a
OBVIOUS

\* A positive factor is cancelled.
LEMMA Cancels ==
    ASSUME NEW a \in Int, NEW b \in Int, NEW c \in Nat \ {0}, a * c = b * c
    PROVE  a = b
OBVIOUS

\* A product of whole numbers is a whole number.
LEMMA Product ==
    ASSUME NEW a \in Nat, NEW b \in Nat
    PROVE  a * b \in Nat
OBVIOUS

-----------------------------------------------------------------------------
(* Lemmas on the geometry: the values have their types.                    *)

\* Scaled lengths are lengths.
LEMMA TimesTyped ==
    ASSUME NEW l \in Int, NEW s \in Nat \ {0}
    PROVE  Times(l, s) \in Int /\ Over(l, s) \in Int
BY UnitAssumption DEF Times, Over

\* Shrinking divides every length of a rectangle.
LEMMA ShrinkIs ==
    ASSUME NEW l \in Rectangle, NEW s \in Nat \ {0}
    PROVE  /\ Shrink(l, s) = [x |-> Over(l.x, s), y |-> Over(l.y, s),
                              width |-> Over(l.width, s), height |-> Over(l.height, s)]
           /\ Shrink(l, s) \in Rectangle
<1>1. DOMAIN l = {"x", "y", "width", "height"} /\ {l.x, l.y, l.width, l.height} \subseteq Int
  BY DEF Rectangle
<1>2. Shrink(l, s) = [x |-> Over(l.x, s), y |-> Over(l.y, s),
                      width |-> Over(l.width, s), height |-> Over(l.height, s)]
  BY <1>1 DEF Shrink
<1> QED
  BY <1>1, <1>2, TimesTyped DEF Rectangle

\* A swipe seen on a device that is not turned is a rectangle of integers.
LEMMA RotateSwipeTyped ==
    ASSUME NEW s \in Swipe, NEW rotation \in Rotations
    PROVE  RotateSwipe(s, rotation) \in Rectangle
<1>1. {s.x, s.y, s.width, s.height} \subseteq Int
  BY DEF Swipe
<1>2. s.width - s.x \in Int /\ s.height - s.y \in Int
  BY <1>1
<1>3. CASE rotation = 0
  BY <1>1, <1>3 DEF RotateSwipe, Rectangle
<1>4. CASE rotation = 90
  BY <1>1, <1>2, <1>4 DEF RotateSwipe, Rectangle
<1>5. CASE rotation = 180
  BY <1>1, <1>2, <1>5 DEF RotateSwipe, Rectangle
<1>6. CASE rotation = 270
  BY <1>1, <1>2, <1>6 DEF RotateSwipe, Rectangle
<1> QED
  BY <1>3, <1>4, <1>5, <1>6 DEF Rotations

\* Devices are turned against each other by right angles.
LEMMA RelativeRotationTyped ==
    ASSUME NEW e \in Edges, NEW f \in Edges
    PROVE  RelativeRotation(e, f) \in Rotations
<1>1. IndexForEdge(e) \in 0..3 /\ IndexForEdge(f) \in 0..3
  BY DEF IndexForEdge, Edges
<1>2. (IndexForEdge(e) - IndexForEdge(f)) % 4 \in 0..3
  BY <1>1
<1> HIDE DEF IndexForEdge
<1> QED
  BY <1>2 DEF RelativeRotation, Rotations

\* So are devices along a chain.
LEMMA TurnedTyped ==
    ASSUME NEW r \in Rotations, NEW t \in Rotations
    PROVE  (r + t) % 360 \in Rotations
BY DEF Rotations

\* A swipe ends at an edge of its device.
LEMMA SwipeOnTyped ==
    ASSUME NEW d \in Devices, NEW e \in Edges
    PROVE  SwipeOn(d, e) \in Swipe /\ SwipeOn(d, e).device = d /\ SwipeOn(d, e).edge = e
<1>1. /\ Width[d] \in Nat /\ Height[d] \in Nat /\ Offset[d] \in Nat
  BY DevicesAssumption
<1>2. /\ SwipeOn(d, e).x \in Nat /\ SwipeOn(d, e).y \in Nat
  BY <1>1 DEF SwipeOn, Edges
<1>3. SwipeOn(d, e) = [device |-> d, edge |-> e, width |-> Width[d], height |-> Height[d],
                       x |-> SwipeOn(d, e).x, y |-> SwipeOn(d, e).y]
  BY DEF SwipeOn
<1> QED
  BY <1>1, <1>2, <1>3 DEF Swipe

\* The own coordinates of a device are a transformation of it.
LEMMA DefaultTyped ==
    ASSUME NEW d \in Devices
    PROVE  Default(d) \in Transformation /\ Exact(d, Default(d))
BY DevicesAssumption, UnitAssumption DEF Default, Transformation, Exact, Rotations

\* A mark is a rectangle.
LEMMA MarkTyped ==
    ASSUME NEW d \in Devices
    PROVE  Mark(d) \in Rectangle
BY DevicesAssumption DEF Mark, Rectangle

\* A rectangle that is moved has the size it had.
LEMMA MovedIs ==
    ASSUME NEW g \in Rectangle, NEW x \in Int, NEW y \in Int
    PROVE  LET r == [g EXCEPT !.x = x, !.y = y]
           IN  /\ r \in Rectangle
               /\ r = [x |-> x, y |-> y, width |-> g.width, height |-> g.height]
<1> DEFINE r == [g EXCEPT !.x = x, !.y = y]
<1>1. r \in Rectangle
  BY DEF Rectangle
<1>2. r.x = x /\ r.y = y /\ r.width = g.width /\ r.height = g.height
  BY DEF Rectangle
<1> HIDE DEF r
<1>3. r = [x |-> r.x, y |-> r.y, width |-> r.width, height |-> r.height]
  BY <1>1 DEF Rectangle
<1>4. r = [x |-> x, y |-> y, width |-> g.width, height |-> g.height]
  BY <1>2, <1>3
<1> QED
  BY <1>1, <1>4 DEF r

\* Locations stay rectangles.
LEMMA OnWasStitchedTyped ==
    ASSUME NEW g \in Rectangle, NEW t \in Transformation
    PROVE  /\ OnWasStitched(g, t) \in Rectangle
           /\ OnWasStitched(g, t) =
                [x |-> Over(g.x, t.scale) + t.x, y |-> Over(g.y, t.scale) + t.y,
                 width |-> Over(g.width, t.scale), height |-> Over(g.height, t.scale)]
<1> DEFINE r == Shrink(g, t.scale)
<1>1. t.scale \in Nat \ {0} /\ t.x \in Int /\ t.y \in Int
  BY DEF Transformation
<1>2. /\ r \in Rectangle
      /\ r = [x |-> Over(g.x, t.scale), y |-> Over(g.y, t.scale),
              width |-> Over(g.width, t.scale), height |-> Over(g.height, t.scale)]
  BY <1>1, ShrinkIs
<1>3. r.x + t.x \in Int /\ r.y + t.y \in Int
  BY <1>1, <1>2 DEF Rectangle
<1>4. OnWasStitched(g, t) = [r EXCEPT !.x = r.x + t.x, !.y = r.y + t.y]
  BY DEF OnWasStitched
<1> HIDE DEF r
<1>5. [r EXCEPT !.x = r.x + t.x, !.y = r.y + t.y] =
        [x |-> r.x + t.x, y |-> r.y + t.y, width |-> r.width, height |-> r.height]
  <2>1. r \in Rectangle
    BY <1>2
  <2> QED
    BY <2>1, <1>3, MovedIs
<1>6. /\ r.x = Over(g.x, t.scale) /\ r.y = Over(g.y, t.scale)
      /\ r.width = Over(g.width, t.scale) /\ r.height = Over(g.height, t.scale)
  BY <1>2
<1>7. r.width \in Int /\ r.height \in Int
  BY <1>2 DEF Rectangle
<1>8. OnWasStitched(g, t) = [x |-> r.x + t.x, y |-> r.y + t.y,
                            width |-> r.width, height |-> r.height]
  BY <1>4, <1>5
<1>9. OnWasStitched(g, t) \in Rectangle
  BY <1>3, <1>7, <1>8 DEF Rectangle
<1> QED
  BY <1>6, <1>8, <1>9

\* The same when they are moved back.
LEMMA OnWasUnstitchedTyped ==
    ASSUME NEW g \in Rectangle, NEW t \in Transformation
    PROVE  /\ OnWasUnstitched(g, t) \in Rectangle
           /\ OnWasUnstitched(g, t) =
                [x |-> Times(g.x - t.x, t.scale), y |-> Times(g.y - t.y, t.scale),
                 width |-> Times(g.width, t.scale), height |-> Times(g.height, t.scale)]
<1> DEFINE r == [g EXCEPT !.x = g.x - t.x, !.y = g.y - t.y]
<1>1. t.scale \in Nat \ {0} /\ t.x \in Int /\ t.y \in Int
  BY DEF Transformation
<1>2. {g.x, g.y, g.width, g.height, g.x - t.x, g.y - t.y} \subseteq Int
  BY <1>1 DEF Rectangle
<1>3. r = [x |-> g.x - t.x, y |-> g.y - t.y, width |-> g.width, height |-> g.height]
  BY <1>2, MovedIs
<1>4. DOMAIN r = {"x", "y", "width", "height"}
  BY <1>3
<1>5. OnWasUnstitched(g, t) = [k \in DOMAIN r |-> Times(r[k], t.scale)]
  BY DEF OnWasUnstitched
<1> HIDE DEF r
<1>6. OnWasUnstitched(g, t) =
        [x |-> Times(g.x - t.x, t.scale), y |-> Times(g.y - t.y, t.scale),
         width |-> Times(g.width, t.scale), height |-> Times(g.height, t.scale)]
  BY <1>3, <1>4, <1>5
<1>7. /\ Times(g.x - t.x, t.scale) \in Int /\ Times(g.y - t.y, t.scale) \in Int
      /\ Times(g.width, t.scale) \in Int /\ Times(g.height, t.scale) \in Int
  BY <1>1, <1>2, TimesTyped
<1> QED
  BY <1>6, <1>7 DEF Rectangle

-----------------------------------------------------------------------------
(* Lemmas on scales.                                                       *)

\* What the assumptions say of two devices.
LEMMA Units ==
    ASSUME NEW d \in Devices
    PROVE  /\ PPI[d] \in Nat \ {0} /\ Unit \in Nat \ {0}
           /\ Unit * PPI[d] \in Nat \ {0}
BY DevicesAssumption, UnitAssumption

\* A device that is stitched to a device of a coordinate system gets the scale
\* that it has in the same system.
LEMMA NextScale ==
    ASSUME NEW d \in Devices, NEW e \in Devices, NEW r \in Devices, NEW s \in Nat,
           s * PPI[r] = Unit * PPI[e]
    PROVE  /\ NewScale(PPI[d], PPI[e], s) \in Nat \ {0}
           /\ NewScale(PPI[d], PPI[e], s) * PPI[r] = Unit * PPI[d]
<1> DEFINE k == (PPI[d] * Unit) \div PPI[r]
<1>1. PPI[d] \in Nat \ {0} /\ PPI[e] \in Nat \ {0} /\ PPI[r] \in Nat \ {0} /\ Unit \in Nat \ {0}
  BY Units
<1>2. (PPI[d] * Unit) % PPI[r] = 0
  BY ExactUnits
<1>3. k \in Int /\ k * PPI[r] = PPI[d] * Unit
  <2>1. PPI[d] * Unit \in Int
    BY <1>1
  <2> QED
    BY <1>1, <1>2, <2>1, Divides
<1> HIDE DEF k
<1>4. k \in Nat \ {0}
  <2>1. k * PPI[r] > 0
    BY <1>1, <1>3
  <2> QED
    BY <1>1, <1>3, <2>1
<1>5. PPI[d] * s = k * PPI[e]
  <2>1. (PPI[d] * s) * PPI[r] = PPI[d] * (s * PPI[r])
    BY <1>1
  <2>2. PPI[d] * (s * PPI[r]) = (PPI[d] * Unit) * PPI[e]
    BY <1>1
  <2>3. (k * PPI[r]) * PPI[e] = (k * PPI[e]) * PPI[r]
    BY <1>1, <1>3
  <2>4. (PPI[d] * s) * PPI[r] = (k * PPI[e]) * PPI[r]
    BY <1>3, <2>1, <2>2, <2>3
  <2>5. PPI[d] * s \in Int /\ k * PPI[e] \in Int
    BY <1>1, <1>3
  <2> QED
    BY <1>1, <2>4, <2>5, Cancels
<1>6. NewScale(PPI[d], PPI[e], s) = k
  BY <1>1, <1>3, <1>5, DividesMultiple DEF NewScale
<1> QED
  BY <1>1, <1>3, <1>4, <1>6

\* What CWStitchManager computes for a stitched device is a transformation.
LEMMA NextToTyped ==
    ASSUME NEW s \in Swipe, NEW n \in Swipe, NEW t \in Transformation,
           NEW p \in Nat, NEW q \in Nat, NewScale(q, p, t.scale) \in Nat \ {0}
    PROVE  /\ NextTo(s, t, n, p, q) \in Transformation
           /\ NextTo(s, t, n, p, q).scale = NewScale(q, p, t.scale)
<1> DEFINE scale == NewScale(q, p, t.scale)
           rotation == (RelativeRotation(s.edge, n.edge) + t.rotation) % 360
           there == Shrink(RotateSwipe(s, t.rotation), t.scale)
           here == Shrink(RotateSwipe(n, rotation), scale)
<1>1. /\ t.scale \in Nat \ {0} /\ t.rotation \in Rotations /\ t.x \in Int /\ t.y \in Int
      /\ s.edge \in Edges /\ n.edge \in Edges
  BY DEF Transformation, Swipe
<1>2. rotation \in Rotations
  BY <1>1, RelativeRotationTyped, TurnedTyped
<1>3. there \in Rectangle
  BY <1>1, RotateSwipeTyped, ShrinkIs
<1>4. here \in Rectangle
  <2> HIDE DEF rotation
  <2> QED
    BY <1>2, RotateSwipeTyped, ShrinkIs
<1>5. NextTo(s, t, n, p, q) =
        [x |-> t.x + there.x - here.x, y |-> t.y + there.y - here.y,
         width |-> here.width, height |-> here.height,
         rotation |-> rotation, scale |-> scale]
  BY DEF NextTo
<1> HIDE DEF scale, rotation, there, here
<1>6. /\ {there.x, there.y, here.x, here.y, here.width, here.height} \subseteq Int
  BY <1>3, <1>4 DEF Rectangle
<1>7. t.x + there.x - here.x \in Int /\ t.y + there.y - here.y \in Int
  BY <1>1, <1>6
<1>8. scale \in Nat \ {0}
  BY DEF scale
<1>9. NextTo(s, t, n, p, q) \in Transformation
  BY <1>2, <1>5, <1>6, <1>7, <1>8 DEF Transformation
<1>10. NextTo(s, t, n, p, q).scale = scale
  BY <1>5
<1> QED
  BY <1>9, <1>10 DEF scale

-----------------------------------------------------------------------------
(* Lemmas on the swipes on record.                                         *)

\* The index that SelectInSeq finds is the first of a set, or 0.
LEMMA LeastIsIn ==
    ASSUME NEW q, NEW I \in SUBSET (1..Len(q)), Len(q) \in Nat
    PROVE  /\ (IF I # {} THEN Min(I) ELSE 0) \in 0..Len(q)
           /\ I # {} => Min(I) \in I
           /\ I = {} <=> (IF I # {} THEN Min(I) ELSE 0) = 0
<1>1. I \subseteq Nat
  OBVIOUS
<1>2. I # {} => Min(I) \in I
  BY <1>1, LeastNumber DEF Min
<1>3. \A i \in I : i \in 0..Len(q) /\ i # 0
  OBVIOUS
<1>4. CASE I = {}
  BY <1>4
<1>5. CASE I # {}
  BY <1>2, <1>3, <1>5
<1> QED
  BY <1>4, <1>5

\* A swipe is only paired with one of another device.
LEMMA PartnerIs ==
    ASSUME TypeOK, NEW d \in Devices, Partner(d) # 0
    PROVE  /\ Partner(d) \in 1..Len(swipes)
           /\ swipes[Partner(d)].device \in Devices \ {d}
           /\ swipes[Partner(d)].edge \in Edges
<1> DEFINE I == {i \in 1..Len(swipes) : /\ swipes[i].device # d
                                        /\ swipes[i].recent
                                        /\ swipes[i].device \in connected}
<1>1. swipes \in Seq([device : Devices, edge : Edges, recent : BOOLEAN])
  BY DEF TypeOK
<1>2. Len(swipes) \in Nat
  BY <1>1
<1>3. Partner(d) = IF I # {} THEN Min(I) ELSE 0
  BY DEF Partner, SelectInSeq
<1>4. Partner(d) \in I
  <2>1. I \in SUBSET (1..Len(swipes))
    OBVIOUS
  <2> HIDE DEF I
  <2> QED
    BY <1>2, <1>3, <2>1, LeastIsIn
<1>5. Partner(d) \in 1..Len(swipes) /\ swipes[Partner(d)].device # d
  BY <1>4
<1>6. swipes[Partner(d)] \in [device : Devices, edge : Edges, recent : BOOLEAN]
  <2> DEFINE S == [device : Devices, edge : Edges, recent : BOOLEAN]
             k == Partner(d)
  <2>1. swipes \in Seq(S) /\ k \in 1..Len(swipes)
    BY <1>1, <1>5
  <2> HIDE DEF S, k
  <2>2. swipes[k] \in S
    BY <2>1
  <2> QED
    BY <2>2 DEF S, k
<1> QED
  BY <1>5, <1>6

\* Remembering a swipe keeps one swipe of a device at most.
LEMMA RememberTyped ==
    ASSUME TypeOK, NEW d \in Devices, NEW edge \in Edges
    PROVE  /\ Remember(d, edge) \in Seq([device : Devices, edge : Edges, recent : BOOLEAN])
           /\ \A i, j \in 1..Len(Remember(d, edge)) :
                Remember(d, edge)[i].device = Remember(d, edge)[j].device => i = j
<1> DEFINE S == [device : Devices, edge : Edges, recent : BOOLEAN]
           I == {i \in 1..Len(swipes) : swipes[i].device = d}
           k == IF I # {} THEN Min(I) ELSE 0
           swipe == [device |-> d, edge |-> edge, recent |-> TRUE]
<1>1. /\ swipes \in Seq(S)
      /\ \A i, j \in 1..Len(swipes) : swipes[i].device = swipes[j].device => i = j
  BY DEF TypeOK
<1>2. Len(swipes) \in Nat
  BY <1>1
<1>3. Remember(d, edge) = IF k = 0 THEN Append(swipes, swipe) ELSE [swipes EXCEPT ![k] = swipe]
  BY DEF Remember, SelectInSeq
<1>4. /\ k \in 0..Len(swipes)
      /\ k # 0 => k \in I
      /\ k = 0 => I = {}
  <2>1. I \in SUBSET (1..Len(swipes))
    OBVIOUS
  <2> HIDE DEF I
  <2> QED
    BY <1>2, <2>1, LeastIsIn
<1>5. /\ k # 0 => swipes[k].device = d
      /\ k = 0 => \A i \in 1..Len(swipes) : swipes[i].device # d
  BY <1>4
<1>6. swipe \in S /\ swipe.device = d
  OBVIOUS
<1> HIDE DEF k, I, swipe
<1>7. CASE k = 0
  <2>1. Append(swipes, swipe) \in Seq(S)
    BY <1>1, <1>6
  <2>2. /\ Len(Append(swipes, swipe)) = Len(swipes) + 1
        /\ \A i \in 1..Len(swipes) : Append(swipes, swipe)[i] = swipes[i]
        /\ Append(swipes, swipe)[Len(swipes) + 1] = swipe
    BY <1>1, <1>6
  <2>3. ASSUME NEW i \in 1..(Len(swipes) + 1), NEW j \in 1..(Len(swipes) + 1),
               Append(swipes, swipe)[i].device = Append(swipes, swipe)[j].device
        PROVE  i = j
    <3> HIDE DEF S
    <3>1. CASE i \in 1..Len(swipes) /\ j \in 1..Len(swipes)
      BY <1>1, <2>2, <2>3, <3>1
    <3>2. CASE i = Len(swipes) + 1 /\ j \in 1..Len(swipes)
      BY <1>5, <1>6, <1>7, <2>2, <2>3, <3>2
    <3>3. CASE j = Len(swipes) + 1 /\ i \in 1..Len(swipes)
      BY <1>5, <1>6, <1>7, <2>2, <2>3, <3>3
    <3>4. CASE i = Len(swipes) + 1 /\ j = Len(swipes) + 1
      BY <3>4
    <3> QED
      BY <1>2, <3>1, <3>2, <3>3, <3>4
  <2>4. Remember(d, edge) = Append(swipes, swipe)
    BY <1>3, <1>7
  <2>5. \A i, j \in 1..Len(Remember(d, edge)) :
          Remember(d, edge)[i].device = Remember(d, edge)[j].device => i = j
    BY <2>2, <2>3, <2>4
  <2> QED
    BY <2>1, <2>4, <2>5
<1>8. CASE k # 0
  <2>1. k \in 1..Len(swipes)
    BY <1>2, <1>4, <1>8
  <2>2. [swipes EXCEPT ![k] = swipe] \in Seq(S) /\ Len([swipes EXCEPT ![k] = swipe]) = Len(swipes)
    BY <1>1, <1>6, <2>1
  <2>3. \A i \in 1..Len(swipes) :
          [swipes EXCEPT ![k] = swipe][i].device = swipes[i].device
    BY <1>1, <1>5, <1>6, <1>8, <2>1
  <2>4. Remember(d, edge) = [swipes EXCEPT ![k] = swipe]
    BY <1>3, <1>8
  <2>5. \A i, j \in 1..Len(Remember(d, edge)) :
          Remember(d, edge)[i].device = Remember(d, edge)[j].device => i = j
    <3> HIDE DEF S
    <3> QED
      BY <1>1, <2>2, <2>3, <2>4
  <2> QED
    BY <2>2, <2>4, <2>5
<1> QED
  BY <1>7, <1>8

-----------------------------------------------------------------------------
(* What a step does.                                                       *)

\* Device n is stitched to o, which is the reference of a new coordinate
\* system if nothing was stitched.
Stitches(o, eo, n, en) ==
    /\ o # n
    /\ n \notin placed
    /\ o \in placed \/ placed = {}
    /\ placed' = placed \cup {o, n}
    /\ place' = [place EXCEPT ![n] = Joined(o, eo, n, en)]
    /\ beside' = [beside EXCEPT ![n] =
                    [device |-> o, theirs |-> SwipeOn(o, eo), mine |-> SwipeOn(n, en)]]
    /\ down' = [down EXCEPT ![n] = Tell(n, <<WasStitched(Joined(o, eo, n, en))>>),
                            ![o] = IF placed = {} THEN Tell(o, <<WasStitched(Default(o))>>)
                                                  ELSE down[o]]

\* A pair of swipes stitches one of the two devices, or changes nothing.
LEMMA DetectedStitches ==
    ASSUME TypeOK, NEW d \in Devices, NEW e \in Devices, NEW ed \in Edges, NEW ee \in Edges,
           d # e, DetectedStitch(SwipeOn(e, ee), SwipeOn(d, ed))
    PROVE  \/ UNCHANGED <<placed, place, beside, down>>
           \/ Stitches(d, ed, e, ee)
           \/ Stitches(e, ee, d, ed)
<1> DEFINE first == SwipeOn(e, ee)
           second == SwipeOn(d, ed)
           r == Reference(first, second)
           known == IF placed = {} THEN {r} ELSE placed
<1>1. first.device = e /\ second.device = d
  BY SwipeOnTyped
<1>2. r \in {d, e}
  BY <1>1 DEF Reference
<1>3. down \in [Devices -> Seq([name : {"wasstitched", "wasunstitched"}, t : Transformation])]
      /\ placed \subseteq Devices
  BY DEF TypeOK
<1>4. ASSUME NEW o \in Devices, NEW eo \in Edges, NEW n \in Devices, NEW en \in Edges,
             {o, n} = {d, e}, o # n,
             o \in known, n \notin known, StitchTo(SwipeOn(o, eo), SwipeOn(n, en), r)
      PROVE  Stitches(o, eo, n, en)
  <2>1. SwipeOn(o, eo).device = o /\ SwipeOn(n, en).device = n
    BY SwipeOnTyped
  <2> HIDE DEF r
  <2>2. n \notin placed /\ (o \in placed \/ placed = {})
    BY <1>4
  <2>3. /\ placed' = placed \cup {o, n}
        /\ place' = [place EXCEPT ![n] = Joined(o, eo, n, en)]
        /\ beside' = [beside EXCEPT ![n] =
                        [device |-> o, theirs |-> SwipeOn(o, eo), mine |-> SwipeOn(n, en)]]
        /\ down' = [down EXCEPT
             ![r] = IF placed = {} THEN Tell(r, <<WasStitched(Default(r))>>) ELSE @,
             ![n] = Tell(n, <<WasStitched(Joined(o, eo, n, en))>>)]
    BY <1>4, <2>1 DEF StitchTo, Joined
  <2>4. CASE placed = {}
    <3>1. r = o
      BY <1>4, <2>4
    <3>2. down' = [down EXCEPT ![n] = Tell(n, <<WasStitched(Joined(o, eo, n, en))>>),
                               ![o] = Tell(o, <<WasStitched(Default(o))>>)]
      BY <1>3, <1>4, <2>3, <2>4, <3>1
    <3> QED
      BY <1>4, <2>2, <2>3, <2>4, <3>2 DEF Stitches
  <2>5. CASE placed # {}
    <3>1. down' = [down EXCEPT ![n] = Tell(n, <<WasStitched(Joined(o, eo, n, en))>>),
                               ![o] = down[o]]
      BY <1>2, <1>3, <1>4, <2>3, <2>5
    <3> QED
      BY <1>4, <2>2, <2>3, <2>5, <3>1 DEF Stitches
  <2> QED
    BY <2>4, <2>5
<1>5. \/ \E old, new \in {first, second} :
           /\ old.device \in known
           /\ new.device \notin known
           /\ StitchTo(old, new, r)
      \/ UNCHANGED <<placed, place, beside, down>>
  BY DEF DetectedStitch
<1>6. CASE UNCHANGED <<placed, place, beside, down>>
  BY <1>6
<1>7. CASE \E old, new \in {first, second} :
             /\ old.device \in known
             /\ new.device \notin known
             /\ StitchTo(old, new, r)
  <2>1. PICK old \in {first, second}, new \in {first, second} :
             /\ old.device \in known
             /\ new.device \notin known
             /\ StitchTo(old, new, r)
    BY <1>7
  <2> HIDE DEF known, r
  <2>2. CASE old = first /\ new = second
    <3>1. e \in known /\ d \notin known /\ StitchTo(SwipeOn(e, ee), SwipeOn(d, ed), r)
      BY <1>1, <2>1, <2>2
    <3>2. Stitches(e, ee, d, ed)
      BY <1>4, <3>1
    <3> QED
      BY <3>2
  <2>3. CASE old = second /\ new = first
    <3>1. d \in known /\ e \notin known /\ StitchTo(SwipeOn(d, ed), SwipeOn(e, ee), r)
      BY <1>1, <2>1, <2>3
    <3>2. Stitches(d, ed, e, ee)
      BY <1>4, <3>1
    <3> QED
      BY <3>2
  <2>4. old # new
    BY <2>1
  <2> QED
    BY <2>1, <2>2, <2>3, <2>4
<1> QED
  BY <1>5, <1>6, <1>7

\* What becomes of a swipe that arrives at the master.
LEMMA DetectedDoes ==
    ASSUME TypeOK, NEW d \in Devices, DetectedSwipe(d)
    PROVE  /\ UNCHANGED <<connected, deviceVars, steady, budget>>
           /\ up[d] # <<>> /\ up' = [up EXCEPT ![d] = Tail(@)]
           /\ swipes' = swipes \/ \E edge \in Edges : swipes' = Remember(d, edge)
           /\ \/ UNCHANGED <<placed, place, beside, down>>
              \/ \E o, n \in Devices : \E eo, en \in Edges : Stitches(o, eo, n, en)
<1> DEFINE edge == Head(up[d])
           i == Partner(d)
<1>1. edge \in Edges
  <2>1. up[d] \in Seq(Edges \cup {QuitStitch}) /\ up[d] # <<>> /\ edge # QuitStitch
    BY DEF TypeOK, DetectedSwipe, Arrives
  <2> QED
    BY <2>1
<1>2. UNCHANGED <<connected, deviceVars, steady, budget>>
      /\ up[d] # <<>> /\ up' = [up EXCEPT ![d] = Tail(@)]
  BY DEF DetectedSwipe, Arrives
<1> HIDE DEF edge
<1>3. CASE d \notin connected /\ UNCHANGED <<swipes, placed, place, beside, down>>
  BY <1>2, <1>3
<1>4. CASE /\ d \in connected
           /\ i # 0
           /\ DetectedStitch(SwipeOn(swipes[i].device, swipes[i].edge), SwipeOn(d, edge))
           /\ UNCHANGED swipes
  <2>1. swipes[i].device \in Devices /\ swipes[i].device # d /\ swipes[i].edge \in Edges
    BY <1>4, PartnerIs
  <2> DEFINE e == swipes[i].device
             ee == swipes[i].edge
  <2> HIDE DEF i, e, ee
  <2>2. /\ e \in Devices /\ e # d /\ ee \in Edges
        /\ DetectedStitch(SwipeOn(e, ee), SwipeOn(d, edge))
    BY <1>4, <2>1 DEF e, ee
  <2>3. \/ UNCHANGED <<placed, place, beside, down>>
        \/ Stitches(d, edge, e, ee)
        \/ Stitches(e, ee, d, edge)
    BY <1>1, <2>2, DetectedStitches
  <2> QED
    BY <1>1, <1>2, <1>4, <2>2, <2>3
<1>5. CASE /\ d \in connected
           /\ i = 0
           /\ swipes' = Remember(d, edge)
           /\ UNCHANGED <<placed, place, beside, down>>
  BY <1>1, <1>2, <1>5
<1> QED
  BY <1>3, <1>4, <1>5 DEF DetectedSwipe, edge

\* A message about the stitch.
Message == [name : {"wasstitched", "wasunstitched"}, t : Transformation]

\* A device that is still there gets one more message.
LEMMA TellIs ==
    ASSUME TypeOK, NEW d \in Devices, NEW m \in Message
    PROVE  /\ Tell(d, <<m>>) \in Seq(Message)
           /\ d \in alive => Tell(d, <<m>>) = Append(down[d], m)
           /\ d \notin alive => Tell(d, <<m>>) = <<>>
<1>1. down[d] \in Seq(Message) /\ (d \notin alive => down[d] = <<>>)
  BY DEF TypeOK, Message
<1>2. down[d] \o <<m>> = Append(down[d], m)
  BY <1>1
<1> QED
  BY <1>1, <1>2 DEF Tell

\* The coordinate system in which a device is stitched next.
LEMMA SystemOf ==
    ASSUME Typed, NEW o \in Devices, o \in placed \/ placed = {}
    PROVE  /\ place[o] \in Transformation
           /\ \E r \in Devices : /\ place[o].scale * PPI[r] = Unit * PPI[o]
                                 /\ \A d \in placed : place[d].scale * PPI[r] = Unit * PPI[d]
<1>1. place[o] \in Transformation
  BY DEF Typed, TypeOK
<1>2. CASE o \in placed
  BY <1>1, <1>2 DEF Typed, OneSystem
<1>3. CASE placed = {}
  <2>1. place[o] = Default(o)
    BY <1>3 DEF Typed, TypeOK
  <2>2. place[o].scale * PPI[o] = Unit * PPI[o]
    BY <2>1 DEF Default
  <2> QED
    BY <1>1, <1>3, <2>2
<1> QED
  BY <1>2, <1>3

\* The transformation of a device that is stitched.
LEMMA JoinedTyped ==
    ASSUME Typed, NEW o \in Devices, NEW eo \in Edges, NEW n \in Devices, NEW en \in Edges,
           o \in placed \/ placed = {}
    PROVE  /\ Joined(o, eo, n, en) \in Transformation
           /\ Exact(n, Joined(o, eo, n, en))
           /\ \E r \in Devices :
                /\ Joined(o, eo, n, en).scale * PPI[r] = Unit * PPI[n]
                /\ place[o].scale * PPI[r] = Unit * PPI[o]
                /\ \A d \in placed : place[d].scale * PPI[r] = Unit * PPI[d]
<1>1. PICK r \in Devices : /\ place[o].scale * PPI[r] = Unit * PPI[o]
                           /\ \A d \in placed : place[d].scale * PPI[r] = Unit * PPI[d]
  BY SystemOf
<1>2. place[o] \in Transformation /\ place[o].scale \in Nat
  BY SystemOf DEF Transformation
<1>3. /\ NewScale(PPI[n], PPI[o], place[o].scale) \in Nat \ {0}
      /\ NewScale(PPI[n], PPI[o], place[o].scale) * PPI[r] = Unit * PPI[n]
  BY <1>1, <1>2, NextScale
<1>4. SwipeOn(o, eo) \in Swipe /\ SwipeOn(n, en) \in Swipe
  BY SwipeOnTyped
<1>5. PPI[o] \in Nat /\ PPI[n] \in Nat
  BY Units
<1>6. /\ Joined(o, eo, n, en) \in Transformation
      /\ Joined(o, eo, n, en).scale = NewScale(PPI[n], PPI[o], place[o].scale)
  BY <1>2, <1>3, <1>4, <1>5, NextToTyped DEF Joined
<1> QED
  BY <1>1, <1>3, <1>6 DEF Exact

\* A stitch keeps the types and the coordinate system.
LEMMA StitchesTyped ==
    ASSUME Typed, NEW o \in Devices, NEW eo \in Edges, NEW n \in Devices, NEW en \in Edges,
           Stitches(o, eo, n, en)
    PROVE  /\ placed' \subseteq Devices
           /\ place' \in [Devices -> Transformation]
           /\ \A d \in Devices \ placed' : place'[d] = Default(d) /\ beside'[d] = Nobody
           /\ beside' \in [Devices ->
                             {Nobody} \cup [device : Devices, theirs : Swipe, mine : Swipe]]
           /\ down' \in [Devices -> Seq(Message)]
           /\ \A d \in Devices \ alive : down'[d] = <<>>
           /\ OneSystem'
<1> DEFINE t == Joined(o, eo, n, en)
<1>1. TypeOK
  BY DEF Typed
<1>2. /\ o # n /\ n \notin placed
      /\ placed' = placed \cup {o, n}
      /\ place' = [place EXCEPT ![n] = t]
      /\ beside' = [beside EXCEPT ![n] =
                    [device |-> o, theirs |-> SwipeOn(o, eo), mine |-> SwipeOn(n, en)]]
      /\ down' = [down EXCEPT ![n] = Tell(n, <<WasStitched(t)>>),
                              ![o] = IF placed = {} THEN Tell(o, <<WasStitched(Default(o))>>)
                                                    ELSE down[o]]
  BY DEF Stitches
<1>3. /\ t \in Transformation
      /\ \E r \in Devices :
           /\ t.scale * PPI[r] = Unit * PPI[n]
           /\ place[o].scale * PPI[r] = Unit * PPI[o]
           /\ \A d \in placed : place[d].scale * PPI[r] = Unit * PPI[d]
  BY JoinedTyped DEF Stitches
<1> HIDE DEF t
<1>4. /\ placed \subseteq Devices
      /\ place \in [Devices -> Transformation]
      /\ \A d \in Devices \ placed : place[d] = Default(d) /\ beside[d] = Nobody
      /\ beside \in [Devices ->
                             {Nobody} \cup [device : Devices, theirs : Swipe, mine : Swipe]]
      /\ down \in [Devices -> Seq(Message)]
      /\ \A d \in Devices \ alive : down[d] = <<>>
  BY <1>1 DEF TypeOK, Message
<1>5. /\ SwipeOn(o, eo) \in Swipe /\ SwipeOn(n, en) \in Swipe
  BY SwipeOnTyped
<1>6. [device |-> o, theirs |-> SwipeOn(o, eo), mine |-> SwipeOn(n, en)]
         \in [device : Devices, theirs : Swipe, mine : Swipe]
  BY <1>5
<1>7. WasStitched(t) \in Message /\ WasStitched(Default(o)) \in Message
  BY <1>3, DefaultTyped DEF WasStitched, Message
<1>8. /\ Tell(n, <<WasStitched(t)>>) \in Seq(Message)
      /\ Tell(o, <<WasStitched(Default(o))>>) \in Seq(Message)
      /\ n \notin alive => Tell(n, <<WasStitched(t)>>) = <<>>
      /\ o \notin alive => Tell(o, <<WasStitched(Default(o))>>) = <<>>
  BY <1>1, <1>7, TellIs
<1>9. placed' \subseteq Devices /\ place' \in [Devices -> Transformation]
  BY <1>2, <1>3, <1>4
<1>10. \A d \in Devices \ placed' : place'[d] = Default(d) /\ beside'[d] = Nobody
  BY <1>2, <1>4
<1>11. beside' \in [Devices ->
                             {Nobody} \cup [device : Devices, theirs : Swipe, mine : Swipe]]
  BY <1>2, <1>4, <1>6
<1>12. down' \in [Devices -> Seq(Message)] /\ \A d \in Devices \ alive : down'[d] = <<>>
  <2> HIDE DEF Message
  <2> QED
    BY <1>2, <1>4, <1>8
<1>13. OneSystem'
  <2>1. PICK r \in Devices :
           /\ t.scale * PPI[r] = Unit * PPI[n]
           /\ place[o].scale * PPI[r] = Unit * PPI[o]
           /\ \A d \in placed : place[d].scale * PPI[r] = Unit * PPI[d]
    BY <1>3
  <2>2. place'[n] = t /\ \A d \in Devices \ {n} : place'[d] = place[d]
    BY <1>2, <1>4
  <2>3. ASSUME NEW d \in placed'
        PROVE  place'[d].scale * PPI[r] = Unit * PPI[d]
    BY <1>2, <1>4, <2>1, <2>2
  <2> QED
    BY <2>1, <2>3 DEF OneSystem
<1> QED
  BY <1>9, <1>10, <1>11, <1>12, <1>13

\* Every message to a device that is told of a stitch has one of its scales.
LEMMA StitchesExact ==
    ASSUME Typed, NEW o \in Devices, NEW eo \in Edges, NEW n \in Devices, NEW en \in Edges,
           Stitches(o, eo, n, en),
           NEW d \in Devices, NEW i \in 1..Len(down'[d])
    PROVE  Exact(d, down'[d][i].t)
<1> DEFINE t == Joined(o, eo, n, en)
<1>1. TypeOK /\ AllExact /\ down \in [Devices -> Seq(Message)]
  BY DEF Typed, TypeOK, Message
<1>2. Exact(n, t) /\ t \in Transformation /\ Exact(o, Default(o)) /\ Default(o) \in Transformation
  BY JoinedTyped, DefaultTyped DEF Stitches
<1> HIDE DEF t
<1>3. ASSUME NEW m \in Message, Exact(d, m.t), down'[d] = Tell(d, <<m>>)
      PROVE  Exact(d, down'[d][i].t)
  <2>1. down'[d] = Append(down[d], m) \/ down'[d] = <<>>
    BY <1>1, <1>3, TellIs
  <2>2. down'[d] = Append(down[d], m)
    BY <2>1
  <2>3. Len(down'[d]) = Len(down[d]) + 1 /\ Len(down[d]) \in Nat
    BY <1>1, <2>2
  <2>4. CASE i = Len(down[d]) + 1
    BY <1>1, <1>3, <2>2, <2>4
  <2>5. CASE i \in 1..Len(down[d])
    <3>1. down'[d][i] = down[d][i]
      BY <1>1, <2>2, <2>5
    <3> QED
      BY <1>1, <2>5, <3>1 DEF AllExact
  <2> QED
    BY <2>3, <2>4, <2>5
<1>4. WasStitched(t) \in Message /\ WasStitched(Default(o)) \in Message
      /\ WasStitched(t).t = t /\ WasStitched(Default(o)).t = Default(o)
  BY <1>2 DEF WasStitched, Message
<1>5. /\ down' = [down EXCEPT ![n] = Tell(n, <<WasStitched(t)>>),
                              ![o] = IF placed = {} THEN Tell(o, <<WasStitched(Default(o))>>)
                                                    ELSE down[o]]
      /\ o # n
  BY DEF Stitches, t
<1>6. CASE d = n
  <2>1. down'[d] = Tell(d, <<WasStitched(t)>>)
    BY <1>1, <1>5, <1>6
  <2> QED
    BY <1>2, <1>3, <1>4, <1>6, <2>1
<1>7. CASE d = o /\ placed = {}
  <2>1. down'[d] = Tell(d, <<WasStitched(Default(o))>>)
    BY <1>1, <1>5, <1>7
  <2> QED
    BY <1>2, <1>3, <1>4, <1>7, <2>1
<1>8. CASE d # n /\ ~(d = o /\ placed = {})
  <2>1. down'[d] = down[d]
    BY <1>1, <1>5, <1>8
  <2> QED
    BY <1>1, <2>1 DEF AllExact
<1> QED
  BY <1>6, <1>7, <1>8

-----------------------------------------------------------------------------
(* Types, scales and the coordinate system.                                *)

\* A budget that is not used up is used by one.
LEMMA BudgetTyped ==
    ASSUME TypeOK
    PROVE  LET B == [swipes : 0..MaxSwipes, quits : 0..MaxQuits, drops : 0..MaxDrops]
           IN  /\ budget.swipes > 0 => [budget EXCEPT !.swipes = budget.swipes - 1] \in B
               /\ budget.quits > 0 => [budget EXCEPT !.quits = budget.quits - 1] \in B
               /\ budget.drops > 0 => [budget EXCEPT !.drops = budget.drops - 1] \in B
<1> DEFINE B == [swipes : 0..MaxSwipes, quits : 0..MaxQuits, drops : 0..MaxDrops]
<1>1. MaxSwipes \in Nat /\ MaxQuits \in Nat /\ MaxDrops \in Nat
  BY DevicesAssumption
<1>2. budget \in B
  BY DEF TypeOK
<1>3. /\ budget.swipes \in 0..MaxSwipes /\ budget.quits \in 0..MaxQuits
      /\ budget.drops \in 0..MaxDrops
  BY <1>2
<1>4. /\ budget.swipes > 0 => budget.swipes - 1 \in 0..MaxSwipes
      /\ budget.quits > 0 => budget.quits - 1 \in 0..MaxQuits
      /\ budget.drops > 0 => budget.drops - 1 \in 0..MaxDrops
  BY <1>1, <1>3
<1>5. budget.swipes > 0 => [budget EXCEPT !.swipes = budget.swipes - 1] \in B
  BY <1>2, <1>4
<1>6. budget.quits > 0 => [budget EXCEPT !.quits = budget.quits - 1] \in B
  BY <1>2, <1>4
<1>7. budget.drops > 0 => [budget EXCEPT !.drops = budget.drops - 1] \in B
  BY <1>2, <1>4
<1> QED
  BY <1>5, <1>6, <1>7

\* The invariant of the values holds initially.
LEMMA InitTyped == Init => Typed
<1> SUFFICES ASSUME Init PROVE Typed
  OBVIOUS
<1>1. \A d \in Devices : Default(d) \in Transformation /\ Exact(d, Default(d)) /\ Mark(d) \in Rectangle
  BY DefaultTyped, MarkTyped
<1>2. TypeOK
  BY <1>1, DevicesAssumption DEF Init, TypeOK
<1>3. OneSystem
  BY DevicesAssumption DEF Init, OneSystem
<1>4. AllExact
  BY <1>1 DEF Init, AllExact
<1> QED
  BY <1>2, <1>3, <1>4 DEF Typed

\* A swipe, or an attempt to leave, only adds a message to the master.
LEMMA SendingTyped ==
    ASSUME Typed, NEW d \in Devices, Quit(d) \/ \E edge \in SwipeEdges[d] : LocalSwipe(d, edge)
    PROVE  Typed'
<1>1. TypeOK /\ SwipeEdges[d] \subseteq Edges
  BY DevicesAssumption DEF Typed
<1>2. /\ UNCHANGED <<masterVars, deviceVars, down, steady>>
      /\ \E m \in Edges \cup {QuitStitch} : up' = [up EXCEPT ![d] = Append(@, m)]
  BY <1>1 DEF Quit, LocalSwipe
<1>3. up' \in [Devices -> Seq(Edges \cup {QuitStitch})]
  <2>1. PICK m \in Edges \cup {QuitStitch} : up' = [up EXCEPT ![d] = Append(@, m)]
    BY <1>2
  <2>2. up \in [Devices -> Seq(Edges \cup {QuitStitch})]
    BY <1>1 DEF TypeOK
  <2> QED
    BY <2>1, <2>2
<1>4. budget' \in [swipes : 0..MaxSwipes, quits : 0..MaxQuits, drops : 0..MaxDrops]
  <2>1. CASE Quit(d)
    BY <1>1, <2>1, BudgetTyped DEF Quit
  <2>2. CASE \E edge \in SwipeEdges[d] : LocalSwipe(d, edge)
    BY <1>1, <2>2, BudgetTyped DEF LocalSwipe
  <2> QED
    BY <2>1, <2>2
<1>5. TypeOK'
  BY <1>1, <1>2, <1>3, <1>4 DEF TypeOK, masterVars, deviceVars
<1>6. OneSystem' /\ AllExact'
  BY <1>2 DEF Typed, OneSystem, AllExact, Exact, masterVars, deviceVars
<1> QED
  BY <1>5, <1>6 DEF Typed

\* A device takes over the transformation it is told, or its own.
LEMMA ReceivingTyped ==
    ASSUME Typed, NEW d \in Devices, OnStitched(d) \/ OnUnstitched(d)
    PROVE  Typed'
<1> DEFINE m == Head(down[d])
<1>1. TypeOK /\ down \in [Devices -> Seq(Message)] /\ down[d] # <<>>
      /\ down' = [down EXCEPT ![d] = Tail(@)]
  BY DEF Typed, TypeOK, Message, OnStitched, OnUnstitched, Receives
<1>2. m = down[d][1] /\ 1 \in 1..Len(down[d]) /\ m \in Message
  BY <1>1
<1>3. m.t \in Transformation /\ Exact(d, m.t)
  BY <1>2 DEF Typed, AllExact, Message
<1>4. Default(d) \in Transformation /\ Exact(d, Default(d))
  BY DefaultTyped
<1>5. location[d] \in Rectangle
  BY <1>1 DEF TypeOK
<1>6. /\ OnWasStitched(location[d], m.t) \in Rectangle
      /\ OnWasUnstitched(location[d], m.t) \in Rectangle
  BY <1>3, <1>5, OnWasStitchedTyped, OnWasUnstitchedTyped
<1>7. \E t \in {m.t, Default(d)}, l \in Rectangle, b \in BOOLEAN :
        /\ transformation' = [transformation EXCEPT ![d] = t]
        /\ location' = [location EXCEPT ![d] = l]
        /\ stitched' = [stitched EXCEPT ![d] = b]
  <2>1. CASE OnStitched(d)
    BY <1>6, <2>1 DEF OnStitched
  <2>2. CASE OnUnstitched(d)
    BY <1>6, <2>2 DEF OnUnstitched
  <2> QED
    BY <2>1, <2>2
<1>8. UNCHANGED <<masterVars, alive, up, steady, budget>>
  BY DEF OnStitched, OnUnstitched
<1> HIDE DEF m
<1>9. PICK t \in {m.t, Default(d)}, l \in Rectangle, b \in BOOLEAN :
        /\ transformation' = [transformation EXCEPT ![d] = t]
        /\ location' = [location EXCEPT ![d] = l]
        /\ stitched' = [stitched EXCEPT ![d] = b]
  BY <1>7
<1>10. t \in Transformation /\ Exact(d, t)
  BY <1>3, <1>4
<1>11. down' \in [Devices -> Seq(Message)] /\ \A e \in Devices \ alive : down'[e] = <<>>
  <2> HIDE DEF Message
  <2>1. \A e \in Devices \ alive : down[e] = <<>>
    BY <1>1 DEF TypeOK
  <2> QED
    BY <1>1, <2>1
<1>12. TypeOK'
  BY <1>1, <1>8, <1>9, <1>10, <1>11 DEF TypeOK, masterVars, Message
<1>13. OneSystem'
  BY <1>8 DEF Typed, OneSystem, masterVars
<1>14. AllExact'
  <2>1. ASSUME NEW e \in Devices
        PROVE  Exact(e, transformation'[e])
    BY <1>1, <1>9, <1>10 DEF Typed, AllExact, TypeOK
  <2>2. ASSUME NEW e \in Devices, NEW i \in 1..Len(down'[e])
        PROVE  Exact(e, down'[e][i].t)
    <3>1. CASE e = d
      <4>1. down'[e] = Tail(down[d]) /\ down[d] \in Seq(Message)
        BY <1>1, <3>1
      <4>2. i + 1 \in 1..Len(down[d]) /\ down'[e][i] = down[d][i + 1]
        BY <1>1, <4>1
      <4> QED
        BY <3>1, <4>2 DEF Typed, AllExact
    <3>2. CASE e # d
      BY <1>1, <3>2 DEF Typed, AllExact
    <3> QED
      BY <3>1, <3>2
  <2> QED
    BY <2>1, <2>2 DEF AllExact, Exact
<1> QED
  BY <1>12, <1>13, <1>14 DEF Typed

\* A swipe that arrives is paired, remembered or ignored.
LEMMA DetectedTyped ==
    ASSUME Typed, NEW d \in Devices, DetectedSwipe(d)
    PROVE  Typed'
<1>1. TypeOK
  BY DEF Typed
<1>2. /\ UNCHANGED <<connected, deviceVars, steady, budget>>
      /\ up[d] # <<>> /\ up' = [up EXCEPT ![d] = Tail(@)]
      /\ swipes' = swipes \/ \E edge \in Edges : swipes' = Remember(d, edge)
      /\ \/ UNCHANGED <<placed, place, beside, down>>
         \/ \E o, n \in Devices : \E eo, en \in Edges : Stitches(o, eo, n, en)
  BY <1>1, DetectedDoes
<1>3. up' \in [Devices -> Seq(Edges \cup {QuitStitch})]
  BY <1>1, <1>2 DEF TypeOK
<1>4. /\ swipes' \in Seq([device : Devices, edge : Edges, recent : BOOLEAN])
      /\ \A i, j \in 1..Len(swipes') : swipes'[i].device = swipes'[j].device => i = j
  <2>1. CASE swipes' = swipes
    BY <1>1, <2>1 DEF TypeOK
  <2>2. CASE \E edge \in Edges : swipes' = Remember(d, edge)
    BY <1>1, <2>2, RememberTyped
  <2> QED
    BY <1>2, <2>1, <2>2
<1>5. CASE UNCHANGED <<placed, place, beside, down>>
  <2>1. TypeOK'
    BY <1>1, <1>2, <1>3, <1>4, <1>5 DEF TypeOK, deviceVars
  <2>2. OneSystem' /\ AllExact'
    BY <1>2, <1>5 DEF Typed, OneSystem, AllExact, Exact, deviceVars
  <2> QED
    BY <2>1, <2>2 DEF Typed
<1>6. CASE \E o, n \in Devices : \E eo, en \in Edges : Stitches(o, eo, n, en)
  <2>1. PICK o \in Devices, n \in Devices, eo \in Edges, en \in Edges : Stitches(o, eo, n, en)
    BY <1>6
  <2>2. /\ placed' \subseteq Devices
        /\ place' \in [Devices -> Transformation]
        /\ \A e \in Devices \ placed' : place'[e] = Default(e) /\ beside'[e] = Nobody
        /\ beside' \in [Devices ->
                          {Nobody} \cup [device : Devices, theirs : Swipe, mine : Swipe]]
        /\ down' \in [Devices -> Seq(Message)]
        /\ \A e \in Devices \ alive : down'[e] = <<>>
        /\ OneSystem'
    BY <2>1, StitchesTyped
  <2>3. TypeOK'
    BY <1>1, <1>2, <1>3, <1>4, <2>2 DEF TypeOK, deviceVars, Message
  <2>4. ASSUME NEW e \in Devices, NEW i \in 1..Len(down'[e])
        PROVE  Exact(e, down'[e][i].t)
    BY <2>1, <2>4, StitchesExact
  <2>5. transformation' = transformation
    BY <1>2 DEF deviceVars
  <2>6. AllExact'
    BY <2>4, <2>5 DEF Typed, AllExact, Exact
  <2> QED
    BY <2>2, <2>3, <2>6 DEF Typed
<1> QED
  BY <1>2, <1>5, <1>6

\* A device that left a stitch has its own coordinates again.
LEMMA UnstitchTyped ==
    ASSUME Typed, NEW d \in Devices, UnstitchDevice(d)
    PROVE  Typed'
<1>1. TypeOK /\ down \in [Devices -> Seq(Message)]
  BY DEF Typed, TypeOK, Message
<1>2. /\ UNCHANGED <<swipes, connected, deviceVars, steady, budget>>
      /\ up[d] # <<>> /\ up' = [up EXCEPT ![d] = Tail(@)]
  BY DEF UnstitchDevice, Arrives
<1>3. up' \in [Devices -> Seq(Edges \cup {QuitStitch})]
  BY <1>1, <1>2 DEF TypeOK
<1>4. CASE UNCHANGED <<placed, place, beside, down>>
  <2>1. TypeOK'
    BY <1>1, <1>2, <1>3, <1>4 DEF TypeOK, deviceVars
  <2>2. OneSystem' /\ AllExact'
    BY <1>2, <1>4 DEF Typed, OneSystem, AllExact, Exact, deviceVars
  <2> QED
    BY <2>1, <2>2 DEF Typed
<1>5. CASE /\ d \in placed
           /\ placed' = placed \ {d}
           /\ place' = [place EXCEPT ![d] = Default(d)]
           /\ beside' = [e \in Devices |->
                           IF e = d \/ beside[e].device = d THEN Nobody ELSE beside[e]]
           /\ TellUnstitched(d)
  <2> DEFINE m == WasUnstitched(KnownTransformation(d))
  <2>1. KnownTransformation(d) \in Transformation /\ Exact(d, KnownTransformation(d))
    <3>1. CASE d = Master
      BY <1>1, <3>1 DEF KnownTransformation, Typed, AllExact, TypeOK
    <3>2. CASE d # Master
      BY <1>1, <1>5, <3>2 DEF KnownTransformation, Typed, OneSystem, Exact, TypeOK
    <3> QED
      BY <3>1, <3>2
  <2>2. m \in Message /\ m.t = KnownTransformation(d)
    BY <2>1 DEF WasUnstitched, Message
  <2>3. down' = [down EXCEPT ![d] = Tell(d, <<m>>)]
    BY <1>5 DEF TellUnstitched
  <2> HIDE DEF m
  <2>4. /\ Tell(d, <<m>>) \in Seq(Message)
        /\ d \in alive => Tell(d, <<m>>) = Append(down[d], m)
        /\ d \notin alive => Tell(d, <<m>>) = <<>>
    BY <1>1, <2>2, TellIs
  <2>5. down' \in [Devices -> Seq(Message)] /\ \A e \in Devices \ alive : down'[e] = <<>>
    <3>1. \A e \in Devices \ alive : down[e] = <<>>
      BY <1>1 DEF TypeOK
    <3> HIDE DEF Message
    <3> QED
      BY <1>1, <2>3, <2>4, <3>1
  <2>6. placed' \subseteq Devices /\ place' \in [Devices -> Transformation]
        /\ beside' \in [Devices ->
                          {Nobody} \cup [device : Devices, theirs : Swipe, mine : Swipe]]
        /\ \A e \in Devices \ placed' : place'[e] = Default(e) /\ beside'[e] = Nobody
    BY <1>1, <1>5, DefaultTyped DEF TypeOK
  <2>7. TypeOK'
    BY <1>1, <1>2, <1>3, <2>5, <2>6 DEF TypeOK, deviceVars, Message
  <2>8. OneSystem'
    BY <1>1, <1>5 DEF Typed, OneSystem, TypeOK
  <2>9. ASSUME NEW e \in Devices, NEW i \in 1..Len(down'[e])
        PROVE  Exact(e, down'[e][i].t)
    <3>1. CASE e = d
      <4>1. down'[d] = Append(down[d], m)
        BY <1>1, <2>3, <2>4, <2>9, <3>1
      <4>2. down[d] \in Seq(Message) /\ Len(down[d]) \in Nat
        BY <1>1
      <4>3. CASE i = Len(down[d]) + 1
        BY <2>1, <2>2, <3>1, <4>1, <4>2, <4>3
      <4>4. CASE i \in 1..Len(down[d])
        <5>1. down'[d][i] = down[d][i]
          BY <4>1, <4>2, <4>4
        <5> QED
          BY <3>1, <4>4, <5>1 DEF Typed, AllExact
      <4>5. Len(down'[d]) = Len(down[d]) + 1
        BY <4>1, <4>2
      <4> QED
        BY <3>1, <4>2, <4>3, <4>4, <4>5
    <3>2. CASE e # d
      BY <1>1, <2>3, <3>2 DEF Typed, AllExact
    <3> QED
      BY <3>1, <3>2
  <2>10. AllExact'
    BY <1>2, <2>9 DEF Typed, AllExact, Exact, deviceVars
  <2> QED
    BY <2>7, <2>8, <2>10 DEF Typed
<1> QED
  BY <1>4, <1>5 DEF UnstitchDevice, Nobody

\* The other steps change neither what is stitched nor what is on the way to a
\* page that stays.
LEMMA OthersTyped ==
    ASSUME Typed,
           \/ \E d \in Devices : \/ Drop(d) \/ RemoteDisconnected(d)
                                 \/ Reload(d) \/ RemoteInfo(d)
           \/ \E i \in 1..Len(swipes) : Expire(i)
           \/ UNCHANGED vars
    PROVE  Typed'
<1>1. TypeOK
  BY DEF Typed
<1>2. ASSUME NEW d \in Devices, Drop(d)
      PROVE  Typed'
  <2>1. budget' \in [swipes : 0..MaxSwipes, quits : 0..MaxQuits, drops : 0..MaxDrops]
    BY <1>1, <1>2, BudgetTyped DEF Drop
  <2>2. /\ alive' = alive \ {d} /\ down' = [down EXCEPT ![d] = <<>>] /\ steady' = steady \ {d}
        /\ UNCHANGED <<masterVars, stitched, transformation, location, up>>
    BY <1>2 DEF Drop
  <2>3. down' \in [Devices -> Seq(Message)] /\ \A e \in Devices \ alive' : down'[e] = <<>>
    <3>1. down \in [Devices -> Seq(Message)] /\ \A e \in Devices \ alive : down[e] = <<>>
      BY <1>1 DEF TypeOK, Message
    <3> HIDE DEF Message
    <3>2. <<>> \in Seq(Message)
      OBVIOUS
    <3> QED
      BY <2>2, <3>1, <3>2
  <2>4. /\ alive' \subseteq Devices /\ steady' \subseteq alive' /\ Master \in connected \cap alive'
    BY <1>1, <1>2, <2>2 DEF TypeOK, Drop
  <2>5. TypeOK'
    BY <1>1, <2>1, <2>2, <2>3, <2>4 DEF TypeOK, masterVars, Message
  <2>6. OneSystem'
    BY <2>2 DEF Typed, OneSystem, masterVars
  <2>7. AllExact'
    <3>1. ASSUME NEW e \in Devices, NEW i \in 1..Len(down'[e])
          PROVE  down'[e][i] = down[e][i] /\ i \in 1..Len(down[e])
      BY <1>1, <2>2 DEF TypeOK
    <3> QED
      BY <2>2, <3>1 DEF Typed, AllExact, Exact
  <2> QED
    BY <2>5, <2>6, <2>7 DEF Typed
<1>3. ASSUME NEW d \in Devices, Reload(d)
      PROVE  Typed'
  <2>1. /\ alive' = alive \cup {d}
        /\ stitched' = [stitched EXCEPT ![d] = FALSE]
        /\ transformation' = [transformation EXCEPT ![d] = Default(d)]
        /\ location' = [location EXCEPT ![d] = Mark(d)]
        /\ UNCHANGED <<masterVars, up, down, steady, budget>>
    BY <1>3 DEF Reload
  <2>2. Default(d) \in Transformation /\ Exact(d, Default(d)) /\ Mark(d) \in Rectangle
    BY DefaultTyped, MarkTyped
  <2>3. TypeOK'
    BY <1>1, <2>1, <2>2 DEF TypeOK, masterVars
  <2>4. OneSystem'
    BY <2>1 DEF Typed, OneSystem, masterVars
  <2>5. AllExact'
    BY <1>1, <2>1, <2>2 DEF Typed, AllExact, Exact, TypeOK
  <2> QED
    BY <2>3, <2>4, <2>5 DEF Typed
<1>4. ASSUME NEW d \in Devices, RemoteDisconnected(d) \/ RemoteInfo(d)
      PROVE  Typed'
  <2>1. /\ UNCHANGED <<swipes, placed, place, beside, deviceVars, up, down, steady, budget>>
        /\ connected' = connected \cup {d} \/ (connected' = connected \ {d} /\ d \notin alive)
    BY <1>4 DEF RemoteDisconnected, RemoteInfo
  <2>2. connected' \subseteq Devices /\ Master \in connected'
    BY <1>1, <2>1 DEF TypeOK
  <2>3. TypeOK'
    BY <1>1, <2>1, <2>2 DEF TypeOK, deviceVars
  <2>4. OneSystem' /\ AllExact'
    BY <2>1 DEF Typed, OneSystem, AllExact, Exact, deviceVars
  <2> QED
    BY <2>3, <2>4 DEF Typed
<1>5. ASSUME NEW i \in 1..Len(swipes), Expire(i)
      PROVE  Typed'
  <2> DEFINE S == [device : Devices, edge : Edges, recent : BOOLEAN]
  <2>1. /\ swipes' = [swipes EXCEPT ![i].recent = FALSE]
        /\ UNCHANGED <<placed, place, connected, beside, deviceVars, up, down, steady, budget>>
    BY <1>5 DEF Expire
  <2>2. /\ swipes \in Seq(S)
        /\ \A j, k \in 1..Len(swipes) : swipes[j].device = swipes[k].device => j = k
    BY <1>1 DEF TypeOK
  <2>3. swipes[i] \in S
    <3> HIDE DEF S
    <3> QED
      BY <2>2
  <2> DEFINE gone == [swipes[i] EXCEPT !.recent = FALSE]
  <2>4. gone \in S /\ gone.device = swipes[i].device
    BY <2>3
  <2>5. swipes' = [swipes EXCEPT ![i] = gone]
    BY <2>1
  <2> HIDE DEF S, gone
  <2>6. swipes' \in Seq(S) /\ Len(swipes') = Len(swipes)
    BY <2>2, <2>4, <2>5
  <2>7. \A j \in 1..Len(swipes) : swipes'[j].device = swipes[j].device
    BY <2>2, <2>4, <2>5
  <2>8. \A j, k \in 1..Len(swipes') : swipes'[j].device = swipes'[k].device => j = k
    BY <2>2, <2>6, <2>7
  <2>9. TypeOK'
    BY <1>1, <2>1, <2>6, <2>8 DEF TypeOK, deviceVars, S
  <2>10. OneSystem' /\ AllExact'
    BY <2>1 DEF Typed, OneSystem, AllExact, Exact, deviceVars
  <2> QED
    BY <2>9, <2>10 DEF Typed
<1>6. ASSUME UNCHANGED vars
      PROVE  Typed'
  <2>1. TypeOK'
    BY <1>1, <1>6 DEF TypeOK, vars, masterVars, deviceVars
  <2>2. OneSystem' /\ AllExact'
    BY <1>6 DEF Typed, OneSystem, AllExact, Exact, vars, masterVars, deviceVars
  <2> QED
    BY <2>1, <2>2 DEF Typed
<1> QED
  BY <1>2, <1>3, <1>4, <1>5, <1>6

\* The cases of a step.
LEMMA StepCases ==
    ASSUME [Next]_vars
    PROVE  \/ \E d \in Devices : \/ Quit(d) \/ \E edge \in SwipeEdges[d] : LocalSwipe(d, edge)
                                 \/ OnStitched(d) \/ OnUnstitched(d)
                                 \/ DetectedSwipe(d)
                                 \/ UnstitchDevice(d)
           \/ \/ \E d \in Devices : \/ Drop(d) \/ RemoteDisconnected(d)
                                    \/ Reload(d) \/ RemoteInfo(d)
              \/ \E i \in 1..Len(swipes) : Expire(i)
              \/ UNCHANGED vars
BY DEF Next, Handle

\* In every reachable state the variables have their types, and the scales of
\* the stitched devices are those of one coordinate system.
THEOREM AlwaysTyped == Spec => []Typed
<1>1. ASSUME Typed, [Next]_vars
      PROVE  Typed'
  BY <1>1, StepCases, SendingTyped, ReceivingTyped, DetectedTyped, UnstitchTyped, OthersTyped
<1> QED
  BY <1>1, InitTyped, PTL DEF Spec

\* Every variable of the stitching has its type in every reachable state.
THEOREM TypeCorrect == Spec => []TypeOK
<1>1. Typed => TypeOK
  BY DEF Typed
<1> QED
  BY <1>1, AlwaysTyped, PTL

\* Content has one physical size on all stitched devices, along a chain of
\* swipes and after devices of the chain have left.
THEOREM ContentHasOneSize == Spec => []OneSize
<1>1. ASSUME Typed
      PROVE  OneSize
  <2>1. SUFFICES ASSUME NEW d \in placed, NEW e \in placed
                 PROVE  place[d].scale * PPI[e] = place[e].scale * PPI[d]
    BY DEF OneSize
  <2>2. PICK r \in Devices : \A f \in placed : place[f].scale * PPI[r] = Unit * PPI[f]
    BY <1>1 DEF Typed, OneSystem
  <2>3. d \in Devices /\ e \in Devices
        /\ place[d].scale \in Nat /\ place[e].scale \in Nat
    BY <1>1 DEF Typed, TypeOK, Transformation
  <2>4. PPI[d] \in Nat \ {0} /\ PPI[e] \in Nat \ {0} /\ PPI[r] \in Nat \ {0} /\ Unit \in Nat \ {0}
    BY <2>3, Units
  <2>5. (place[d].scale * PPI[e]) * PPI[r] = (place[d].scale * PPI[r]) * PPI[e]
    BY <2>3, <2>4
  <2>6. (place[e].scale * PPI[d]) * PPI[r] = (place[e].scale * PPI[r]) * PPI[d]
    BY <2>3, <2>4
  <2>7. (Unit * PPI[d]) * PPI[e] = (Unit * PPI[e]) * PPI[d]
    BY <2>4
  <2>8. (place[d].scale * PPI[e]) * PPI[r] = (place[e].scale * PPI[d]) * PPI[r]
    BY <2>2, <2>5, <2>6, <2>7
  <2>9. place[d].scale * PPI[e] \in Int /\ place[e].scale * PPI[d] \in Int
    BY <2>3, <2>4
  <2> QED
    BY <2>4, <2>8, <2>9, Cancels
<1> QED
  BY <1>1, AlwaysTyped, PTL

-----------------------------------------------------------------------------
(* What a step means for one device whose connection never broke.          *)

\* The device believes what it did, and is where it was.
SameBelief(d) ==
    /\ stitched'[d] = stitched[d] /\ transformation'[d] = transformation[d]
    /\ location'[d] = location[d]

\* Nothing happens to it.
Rests(d) ==
    /\ SameBelief(d)
    /\ down'[d] = down[d]
    /\ d \in placed' <=> d \in placed
    /\ place'[d] = place[d]

\* The master stitches it.
Joins(d) ==
    /\ SameBelief(d)
    /\ d \notin placed /\ d \in placed'
    /\ WasStitched(place'[d]) \in Message
    /\ down'[d] = Append(down[d], WasStitched(place'[d]))

\* The master unstitches it.
Leaves(d) ==
    /\ SameBelief(d)
    /\ d \in placed /\ d \notin placed'
    /\ WasUnstitched(KnownTransformation(d)) \in Message
    /\ down'[d] = Append(down[d], WasUnstitched(KnownTransformation(d)))

\* It learns of one or the other.
Learns(d) ==
    /\ d \in placed' <=> d \in placed
    /\ place'[d] = place[d]
    /\ down[d] # <<>> /\ down'[d] = Tail(down[d])
    /\ LET m == Head(down[d])
       IN  \/ /\ m.name = "wasstitched"
              /\ stitched'[d] = TRUE /\ transformation'[d] = m.t
              /\ location'[d] = OnWasStitched(location[d], m.t)
           \/ /\ m.name = "wasunstitched"
              /\ stitched'[d] = FALSE /\ transformation'[d] = Default(d)
              /\ location'[d] = OnWasUnstitched(location[d], m.t)

\* A stitch tells the devices it stitches, and no others.
LEMMA StitchesMeans ==
    ASSUME Typed, NEW o \in Devices, NEW eo \in Edges, NEW n \in Devices, NEW en \in Edges,
           Stitches(o, eo, n, en), UNCHANGED deviceVars,
           NEW d \in alive
    PROVE  Rests(d) \/ Joins(d)
<1> DEFINE t == Joined(o, eo, n, en)
<1>1. TypeOK /\ d \in Devices /\ down \in [Devices -> Seq(Message)]
      /\ placed \subseteq Devices /\ place \in [Devices -> Transformation]
  BY DEF Typed, TypeOK, Message
<1>2. SameBelief(d)
  BY DEF SameBelief, deviceVars
<1>3. t \in Transformation
  BY JoinedTyped DEF Stitches
<1> HIDE DEF t
<1>4. WasStitched(t) \in Message /\ WasStitched(Default(o)) \in Message
  BY <1>3, DefaultTyped DEF WasStitched, Message
<1>5. /\ Tell(d, <<WasStitched(t)>>) = Append(down[d], WasStitched(t))
      /\ Tell(d, <<WasStitched(Default(o))>>) = Append(down[d], WasStitched(Default(o)))
  BY <1>1, <1>4, TellIs
<1>6. /\ o # n /\ n \notin placed
      /\ placed' = placed \cup {o, n}
      /\ o \in placed \/ placed = {}
      /\ place' = [place EXCEPT ![n] = t]
      /\ down' = [down EXCEPT ![n] = Tell(n, <<WasStitched(t)>>),
                              ![o] = IF placed = {} THEN Tell(o, <<WasStitched(Default(o))>>)
                                                    ELSE down[o]]
  BY DEF Stitches, t
<1>7. CASE d = n
  <2>1. place'[d] = t /\ down'[d] = Tell(d, <<WasStitched(t)>>)
    BY <1>1, <1>6, <1>7
  <2> QED
    BY <1>2, <1>4, <1>5, <1>6, <1>7, <2>1 DEF Joins
<1>8. CASE d = o /\ placed = {}
  <2>1. place'[d] = Default(o) /\ down'[d] = Tell(d, <<WasStitched(Default(o))>>)
    BY <1>1, <1>6, <1>8 DEF TypeOK
  <2> QED
    BY <1>2, <1>4, <1>5, <1>6, <1>8, <2>1 DEF Joins
<1>9. CASE d # n /\ ~(d = o /\ placed = {})
  <2>1. place'[d] = place[d] /\ down'[d] = down[d]
    BY <1>1, <1>6, <1>9
  <2>2. d \in placed' <=> d \in placed
    BY <1>6, <1>9
  <2> QED
    BY <1>2, <2>1, <2>2 DEF Rests
<1> QED
  BY <1>7, <1>8, <1>9

\* The four things that a step can be for such a device.
LEMMA Courses ==
    ASSUME Typed, [Next]_vars, NEW d \in steady'
    PROVE  d \in steady /\ (Rests(d) \/ Joins(d) \/ Leaves(d) \/ Learns(d))
<1>1. TypeOK /\ steady \subseteq alive /\ alive \subseteq Devices
      /\ down \in [Devices -> Seq(Message)]
  BY DEF Typed, TypeOK, Message
<1>2. ASSUME NEW e \in Devices, Quit(e) \/ \E edge \in SwipeEdges[e] : LocalSwipe(e, edge)
      PROVE  d \in steady /\ Rests(d)
  <2>1. UNCHANGED <<masterVars, deviceVars, down, steady>>
    BY <1>2 DEF Quit, LocalSwipe
  <2> QED
    BY <2>1 DEF Rests, SameBelief, masterVars, deviceVars
<1>3. ASSUME NEW e \in Devices, OnStitched(e) \/ OnUnstitched(e)
      PROVE  d \in steady /\ (Rests(d) \/ Learns(d))
  <2>1. UNCHANGED <<masterVars, steady>>
    BY <1>3 DEF OnStitched, OnUnstitched
  <2>2. d \in steady /\ d \in Devices
    BY <1>1, <2>1
  <2>3. stitched \in [Devices -> BOOLEAN]
        /\ transformation \in [Devices -> Transformation]
        /\ location \in [Devices -> Rectangle]
    BY <1>1 DEF TypeOK
  <2>4. CASE e # d
    <3>1. down'[d] = down[d] /\ SameBelief(d)
      BY <1>1, <1>3, <2>2, <2>3, <2>4 DEF OnStitched, OnUnstitched, Receives, SameBelief
    <3> QED
      BY <2>1, <2>2, <3>1 DEF Rests, masterVars
  <2>5. CASE e = d /\ OnStitched(e)
    BY <1>1, <2>1, <2>2, <2>3, <2>5 DEF OnStitched, Receives, Learns, masterVars
  <2>6. CASE e = d /\ OnUnstitched(e)
    BY <1>1, <2>1, <2>2, <2>3, <2>6 DEF OnUnstitched, Receives, Learns, masterVars
  <2> QED
    BY <1>3, <2>2, <2>4, <2>5, <2>6
<1>4. ASSUME NEW e \in Devices, DetectedSwipe(e)
      PROVE  d \in steady /\ (Rests(d) \/ Joins(d))
  <2>1. /\ UNCHANGED <<deviceVars, steady>>
        /\ \/ UNCHANGED <<placed, place, beside, down>>
           \/ \E o, n \in Devices : \E eo, en \in Edges : Stitches(o, eo, n, en)
    BY <1>1, <1>4, DetectedDoes
  <2>2. CASE UNCHANGED <<placed, place, beside, down>>
    BY <2>1, <2>2 DEF Rests, SameBelief, deviceVars
  <2>3. CASE \E o, n \in Devices : \E eo, en \in Edges : Stitches(o, eo, n, en)
    BY <1>1, <2>1, <2>3, StitchesMeans
  <2> QED
    BY <2>1, <2>2, <2>3
<1>5. ASSUME NEW e \in Devices, UnstitchDevice(e)
      PROVE  d \in steady /\ (Rests(d) \/ Leaves(d))
  <2>1. UNCHANGED <<deviceVars, steady>>
    BY <1>5 DEF UnstitchDevice
  <2>2. d \in steady /\ d \in Devices /\ d \in alive /\ SameBelief(d)
    BY <1>1, <2>1 DEF SameBelief, deviceVars
  <2>3. CASE UNCHANGED <<placed, place, beside, down>>
    BY <2>2, <2>3 DEF Rests
  <2>4. CASE /\ e \in placed
             /\ placed' = placed \ {e}
             /\ place' = [place EXCEPT ![e] = Default(e)]
             /\ TellUnstitched(e)
    <3>1. CASE e # d
      BY <1>1, <2>2, <2>4, <3>1 DEF Rests, TellUnstitched, Typed, TypeOK
    <3>2. CASE e = d
      <4>1. KnownTransformation(d) \in Transformation
        BY <1>1, <2>2 DEF KnownTransformation, TypeOK
      <4>2. WasUnstitched(KnownTransformation(d)) \in Message
        BY <4>1 DEF WasUnstitched, Message
      <4>3. down'[d] = Tell(d, <<WasUnstitched(KnownTransformation(d))>>)
        BY <1>1, <2>2, <2>4, <3>2 DEF TellUnstitched
      <4>4. down'[d] = Append(down[d], WasUnstitched(KnownTransformation(d)))
        BY <1>1, <2>2, <4>2, <4>3, TellIs
      <4> QED
        BY <2>2, <2>4, <3>2, <4>2, <4>4 DEF Leaves
    <3> QED
      BY <2>2, <3>1, <3>2
  <2> QED
    BY <1>5, <2>2, <2>3, <2>4 DEF UnstitchDevice
<1>6. ASSUME NEW e \in Devices, Drop(e)
      PROVE  d \in steady /\ Rests(d)
  <2>1. /\ down' = [down EXCEPT ![e] = <<>>] /\ steady' = steady \ {e}
        /\ UNCHANGED <<masterVars, stitched, transformation, location, up>>
    BY <1>6 DEF Drop
  <2>2. d \in steady /\ d # e
    BY <2>1
  <2> QED
    BY <1>1, <2>1, <2>2 DEF Rests, SameBelief, masterVars
<1>7. ASSUME NEW e \in Devices, Reload(e)
      PROVE  d \in steady /\ Rests(d)
  <2>1. /\ stitched' = [stitched EXCEPT ![e] = FALSE]
        /\ transformation' = [transformation EXCEPT ![e] = Default(e)]
        /\ location' = [location EXCEPT ![e] = Mark(e)]
        /\ UNCHANGED <<masterVars, up, down, steady, budget>>
        /\ e \notin alive
    BY <1>7 DEF Reload
  <2>2. d \in steady /\ d # e
    BY <1>1, <2>1
  <2>3. SameBelief(d)
    BY <1>1, <2>1, <2>2 DEF SameBelief, TypeOK
  <2> QED
    BY <2>1, <2>2, <2>3 DEF Rests, masterVars
<1>8. ASSUME NEW e \in Devices, RemoteDisconnected(e) \/ RemoteInfo(e)
      PROVE  d \in steady /\ Rests(d)
  BY <1>8 DEF RemoteDisconnected, RemoteInfo, Rests, SameBelief, deviceVars
<1>9. ASSUME NEW i \in 1..Len(swipes), Expire(i)
      PROVE  d \in steady /\ Rests(d)
  BY <1>9 DEF Expire, Rests, SameBelief, deviceVars
<1>10. ASSUME UNCHANGED vars
      PROVE  d \in steady /\ Rests(d)
  BY <1>10 DEF vars, Rests, SameBelief, masterVars, deviceVars
<1> QED
  BY <1>2, <1>3, <1>4, <1>5, <1>6, <1>7, <1>8, <1>9, <1>10, StepCases

-----------------------------------------------------------------------------
(* The messages that a device is yet to handle.                            *)

\* A device that rests is told nothing new.
LEMMA RestingWords ==
    ASSUME NEW d, Rests(d)
    PROVE  /\ Len(down'[d]) = Len(down[d])
           /\ \A i : Word(d, i)' = Word(d, i)
           /\ LastWord(d)' = LastWord(d)
BY DEF Rests, SameBelief, Word, LastWord, Belief

\* One more message to a device is its last word.
LEMMA ToldWords ==
    ASSUME TypeOK, NEW d \in Devices, NEW m \in Message, SameBelief(d),
           down'[d] = Append(down[d], m)
    PROVE  /\ Len(down[d]) \in Nat
           /\ Len(down'[d]) = Len(down[d]) + 1
           /\ \A i \in 0..Len(down[d]) : Word(d, i)' = Word(d, i)
           /\ \A i : i = Len(down[d]) + 1 => Word(d, i)' = m
           /\ LastWord(d)' = m
<1>1. down[d] \in Seq(Message)
  BY DEF TypeOK, Message
<1> HIDE DEF Message
<1>2. Len(down[d]) \in Nat /\ Len(down'[d]) = Len(down[d]) + 1
  BY <1>1
<1>3. Belief(d)' = Belief(d)
  BY DEF SameBelief, Belief
<1>4. \A i \in 1..Len(down[d]) : down'[d][i] = down[d][i]
  BY <1>1
<1>5. \A i \in 0..Len(down[d]) : Word(d, i)' = Word(d, i)
  BY <1>2, <1>3, <1>4 DEF Word
<1>6. down'[d][Len(down[d]) + 1] = m
  BY <1>1
<1>7. \A i : i = Len(down[d]) + 1 => Word(d, i)' = m
  BY <1>2, <1>6 DEF Word
<1>8. LastWord(d)' = m
  BY <1>2, <1>6 DEF LastWord, Word
<1> QED
  BY <1>2, <1>5, <1>7, <1>8

\* A device that learns of a message believes it; all others remain to be
\* handled.
LEMMA LearntWords ==
    ASSUME TypeOK, NEW d \in Devices, Learns(d)
    PROVE  /\ Len(down[d]) \in Nat \ {0}
           /\ Len(down'[d]) = Len(down[d]) - 1
           /\ \A i \in 1..Len(down'[d]) : Word(d, i)' = Word(d, i + 1)
           /\ Word(d, 0)'.name = Word(d, 1).name
           /\ Word(d, 1).name = "wasstitched" => Word(d, 0)' = Word(d, 1)
           /\ Word(d, 1).name \in {"wasstitched", "wasunstitched"}
           /\ LastWord(d)'.name = LastWord(d).name
           /\ LastWord(d).name = "wasstitched" => LastWord(d)' = LastWord(d)
<1> DEFINE m == Head(down[d])
<1>1. down[d] \in Seq(Message) /\ down[d] # <<>> /\ down'[d] = Tail(down[d])
  BY DEF TypeOK, Message, Learns
<1>2. m \in Message /\ m = down[d][1]
  BY <1>1
<1>3. m = [name |-> m.name, t |-> m.t] /\ m.name \in {"wasstitched", "wasunstitched"}
  BY <1>2 DEF Message
<1>4. /\ Len(down[d]) \in Nat \ {0} /\ Len(down'[d]) = Len(down[d]) - 1
      /\ \A i \in 1..Len(down'[d]) : down'[d][i] = down[d][i + 1]
  <2> HIDE DEF Message
  <2> QED
    BY <1>1
<1>5. Word(d, 1) = m
  BY <1>2 DEF Word
<1>6. \A i \in 1..Len(down'[d]) : Word(d, i)' = Word(d, i + 1)
  BY <1>4 DEF Word
<1> HIDE DEF m
<1>7. \/ /\ m.name = "wasstitched"
         /\ stitched'[d] = TRUE /\ transformation'[d] = m.t
      \/ /\ m.name = "wasunstitched"
         /\ stitched'[d] = FALSE /\ transformation'[d] = Default(d)
  BY DEF Learns, m
<1>8. Word(d, 0)' = [name |-> IF stitched'[d] THEN "wasstitched" ELSE "wasunstitched",
                     t |-> transformation'[d]]
  BY DEF Word, Belief
<1>9. Word(d, 0)'.name = m.name
  BY <1>7, <1>8
<1>10. m.name = "wasstitched" => Word(d, 0)' = m
  <2>1. SUFFICES ASSUME m.name = "wasstitched" PROVE Word(d, 0)' = m
    OBVIOUS
  <2>2. stitched'[d] = TRUE /\ transformation'[d] = m.t
    BY <1>7, <2>1
  <2> QED
    BY <1>3, <1>8, <2>1, <2>2
<1>11. LastWord(d)'.name = LastWord(d).name
       /\ (LastWord(d).name = "wasstitched" => LastWord(d)' = LastWord(d))
  <2>1. CASE Len(down[d]) = 1
    <3>1. LastWord(d) = m /\ LastWord(d)' = Word(d, 0)'
      BY <1>4, <1>5, <2>1 DEF LastWord, Word
    <3> QED
      BY <1>9, <1>10, <3>1
  <2>2. CASE Len(down[d]) # 1
    <3>1. Len(down'[d]) \in 1..Len(down'[d])
      <4>1. \A n \in Nat \ {0} : n # 1 => n - 1 \in 1..(n - 1)
        OBVIOUS
      <4>2. Len(down[d]) - 1 \in 1..(Len(down[d]) - 1)
        BY <1>4, <2>2, <4>1
      <4> QED
        BY <1>4, <4>2
    <3>2. LastWord(d)' = LastWord(d)
      BY <1>4, <2>2, <3>1 DEF LastWord, Word
    <3> QED
      BY <3>2
  <2> QED
    BY <2>1, <2>2
<1> QED
  BY <1>3, <1>4, <1>5, <1>6, <1>9, <1>10, <1>11

-----------------------------------------------------------------------------
(* What devices believe in the end.                                        *)

\* No device is stitched initially, and none believes to be.
LEMMA InitInformed == Init => SteadyInformed /\ UnstitchedDefault
BY DEF Init, SteadyInformed, UnstitchedDefault, LastWord, Word, Belief

\* The last word to a device is what the master believes, after every step.
LEMMA InformedKept ==
    ASSUME Informed, [Next]_vars
    PROVE  SteadyInformed'
<1>1. Typed /\ TypeOK
  BY DEF Informed, Typed
<1>2. SUFFICES ASSUME NEW d \in steady'
               PROVE  IF d \in placed' THEN LastWord(d)' = WasStitched(place'[d])
                                       ELSE LastWord(d)'.name = "wasunstitched"
  BY DEF SteadyInformed, WasStitched
<1>3. d \in steady /\ (Rests(d) \/ Joins(d) \/ Leaves(d) \/ Learns(d))
  BY <1>1, <1>2, Courses
<1>4. d \in Devices
  BY <1>1, <1>3 DEF TypeOK
<1>5. IF d \in placed THEN LastWord(d) = WasStitched(place[d])
                      ELSE LastWord(d).name = "wasunstitched"
  BY <1>3 DEF Informed, SteadyInformed
<1>6. CASE Rests(d)
  BY <1>5, <1>6, RestingWords DEF Rests
<1>7. CASE Joins(d)
  <2>1. LastWord(d)' = WasStitched(place'[d])
    BY <1>1, <1>4, <1>7, ToldWords DEF Joins
  <2> QED
    BY <1>7, <2>1 DEF Joins
<1>8. CASE Leaves(d)
  <2>1. LastWord(d)' = WasUnstitched(KnownTransformation(d))
    BY <1>1, <1>4, <1>8, ToldWords DEF Leaves
  <2> QED
    BY <1>8, <2>1 DEF Leaves, WasUnstitched
<1>9. CASE Learns(d)
  <2>1. /\ LastWord(d)'.name = LastWord(d).name
        /\ LastWord(d).name = "wasstitched" => LastWord(d)' = LastWord(d)
    BY <1>1, <1>4, <1>9, LearntWords
  <2>2. (d \in placed' <=> d \in placed) /\ place'[d] = place[d]
    BY <1>9 DEF Learns
  <2>3. WasStitched(place[d]).name = "wasstitched"
    BY DEF WasStitched
  <2> QED
    BY <1>5, <2>1, <2>2, <2>3
<1> QED
  BY <1>3, <1>6, <1>7, <1>8, <1>9

\* A device has its own coordinates whenever it is not stitched.
LEMMA DefaultKept ==
    ASSUME TypeOK, UnstitchedDefault, [Next]_vars
    PROVE  UnstitchedDefault'
<1>1. SUFFICES ASSUME NEW e \in Devices, ~stitched'[e]
               PROVE  transformation'[e] = Default(e)
  BY DEF UnstitchedDefault, Default
<1>2. ~stitched[e] => transformation[e] = Default(e)
  BY DEF UnstitchedDefault
<1>3. stitched \in [Devices -> BOOLEAN] /\ transformation \in [Devices -> Transformation]
  BY DEF TypeOK
<1>4. ASSUME NEW d \in Devices, OnStitched(d)
      PROVE  transformation'[e] = Default(e)
  <2>1. d # e
    BY <1>1, <1>3, <1>4 DEF OnStitched
  <2> QED
    BY <1>1, <1>2, <1>3, <1>4, <2>1 DEF OnStitched
<1>5. ASSUME NEW d \in Devices, OnUnstitched(d)
      PROVE  transformation'[e] = Default(e)
  BY <1>1, <1>2, <1>3, <1>5 DEF OnUnstitched
<1>6. ASSUME NEW d \in Devices, Reload(d)
      PROVE  transformation'[e] = Default(e)
  BY <1>1, <1>2, <1>3, <1>6 DEF Reload
<1>7. CASE UNCHANGED <<stitched, transformation>>
  BY <1>1, <1>2, <1>7
<1>8. \/ \E d \in Devices : OnStitched(d) \/ OnUnstitched(d) \/ Reload(d)
      \/ UNCHANGED <<stitched, transformation>>
  <2>1. ASSUME NEW d \in Devices, Quit(d) \/ \E edge \in SwipeEdges[d] : LocalSwipe(d, edge)
        PROVE  UNCHANGED <<stitched, transformation>>
    BY <2>1 DEF Quit, LocalSwipe, deviceVars
  <2>2. ASSUME NEW d \in Devices, DetectedSwipe(d) \/ UnstitchDevice(d)
        PROVE  UNCHANGED <<stitched, transformation>>
    BY <2>2 DEF DetectedSwipe, UnstitchDevice, deviceVars
  <2>3. ASSUME NEW d \in Devices, Drop(d) \/ RemoteDisconnected(d) \/ RemoteInfo(d)
        PROVE  UNCHANGED <<stitched, transformation>>
    BY <2>3 DEF Drop, RemoteDisconnected, RemoteInfo, deviceVars
  <2>4. ASSUME NEW i \in 1..Len(swipes), Expire(i)
        PROVE  UNCHANGED <<stitched, transformation>>
    BY <2>4 DEF Expire, deviceVars
  <2>5. ASSUME UNCHANGED vars
        PROVE  UNCHANGED <<stitched, transformation>>
    BY <2>5 DEF vars, deviceVars
  <2> QED
    BY <2>1, <2>2, <2>3, <2>4, <2>5, StepCases
<1> QED
  BY <1>4, <1>5, <1>6, <1>7, <1>8

\* In every reachable state the messages on the way to a device end in what the
\* master believes of it.
THEOREM AlwaysInformed == Spec => []Informed
<1>1. Init => Informed
  BY InitTyped, InitInformed DEF Informed
<1>2. ASSUME Informed, [Next]_vars, Typed'
      PROVE  Informed'
  <2>1. TypeOK
    BY <1>2 DEF Informed, Typed
  <2>2. SteadyInformed'
    BY <1>2, InformedKept
  <2>3. UnstitchedDefault'
    BY <1>2, <2>1, DefaultKept DEF Informed
  <2> QED
    BY <1>2, <2>2, <2>3 DEF Informed
<1> QED
  BY <1>1, <1>2, AlwaysTyped, PTL DEF Spec

\* A device whose connection never broke and that has handled its messages is
\* stitched as the master believes, with the same transformation.
THEOREM DevicesAgree == Spec => []SteadyAgree
<1>1. ASSUME Informed
      PROVE  SteadyAgree
  <2>1. SUFFICES ASSUME NEW d \in steady, down[d] = <<>>
                 PROVE  (stitched[d] <=> d \in placed) /\ transformation[d] = place[d]
    BY DEF SteadyAgree
  <2>2. TypeOK /\ SteadyInformed /\ UnstitchedDefault
    BY <1>1 DEF Informed, Typed
  <2>3. d \in Devices /\ stitched[d] \in BOOLEAN
    BY <2>2 DEF TypeOK
  <2>4. LastWord(d) = Belief(d)
    BY <2>1 DEF LastWord, Word
  <2>5. CASE d \in placed
    <3>1. Belief(d) = WasStitched(place[d])
      BY <2>2, <2>4, <2>5 DEF SteadyInformed
    <3>2. /\ Belief(d).name = "wasstitched" /\ Belief(d).t = place[d]
      BY <3>1 DEF WasStitched
    <3> QED
      BY <2>3, <2>5, <3>2 DEF Belief
  <2>6. CASE d \notin placed
    <3>1. Belief(d).name = "wasunstitched"
      BY <2>2, <2>4, <2>6 DEF SteadyInformed
    <3>2. ~stitched[d]
      BY <2>3, <3>1 DEF Belief
    <3>3. transformation[d] = Default(d) /\ place[d] = Default(d)
      BY <2>2, <2>3, <2>6, <3>2 DEF UnstitchedDefault, TypeOK
    <3> QED
      BY <2>6, <3>2, <3>3
  <2> QED
    BY <2>5, <2>6
<1> QED
  BY <1>1, AlwaysInformed, PTL

-----------------------------------------------------------------------------
(* Locations.                                                              *)

\* The lengths of a device are whole, and so are their differences.
LEMMA WholeLengths ==
    ASSUME NEW d \in Devices
    PROVE  /\ Whole(d, Width[d]) /\ Whole(d, Height[d]) /\ Whole(d, Offset[d])
           /\ Whole(d, Width[d] - Offset[d]) /\ Whole(d, Height[d] - Offset[d])
<1>1. Width[d] \in Int /\ Height[d] \in Int /\ Offset[d] \in Int
  BY DevicesAssumption
<1>2. ASSUME NEW l \in {Width[d], Height[d], Offset[d]}
      PROVE  Whole(d, l)
  <2>1. SUFFICES ASSUME NEW r \in Devices
                 PROVE  \E q \in Int : q * PPI[d] = l * PPI[r]
    BY <1>1 DEF Whole
  <2>2. (l * PPI[r]) % PPI[d] = 0
    BY ExactUnits
  <2>3. l * PPI[r] \in Int /\ PPI[d] \in Nat \ {0}
    BY <1>1, Units
  <2> QED
    BY <2>2, <2>3, Divides
<1>3. ASSUME NEW l \in Int, NEW k \in Int, Whole(d, l), Whole(d, k)
      PROVE  Whole(d, l - k)
  <2>1. SUFFICES ASSUME NEW r \in Devices
                 PROVE  \E q \in Int : q * PPI[d] = (l - k) * PPI[r]
    BY DEF Whole
  <2>2. PICK q \in Int : q * PPI[d] = l * PPI[r]
    BY <1>3 DEF Whole
  <2>3. PICK p \in Int : p * PPI[d] = k * PPI[r]
    BY <1>3 DEF Whole
  <2>4. PPI[d] \in Int /\ PPI[r] \in Int
    BY Units
  <2>5. (q - p) * PPI[d] = (l - k) * PPI[r]
    BY <2>2, <2>3, <2>4
  <2> QED
    BY <2>5
<1> QED
  BY <1>1, <1>2, <1>3

\* Dividing such a length by a scale of the device is undone by multiplying it.
LEMMA OverIsUndone ==
    ASSUME NEW d \in Devices, NEW t \in Transformation, Exact(d, t),
           NEW l, Whole(d, l)
    PROVE  /\ Over(l, t.scale) * t.scale = l * Unit
           /\ Times(Over(l, t.scale), t.scale) = l
<1> DEFINE s == t.scale
<1>1. PICK r \in Devices : s * PPI[r] = Unit * PPI[d]
  BY DEF Exact
<1>2. PICK q \in Int : q * PPI[d] = l * PPI[r]
  BY DEF Whole
<1>3. s \in Nat \ {0} /\ l \in Int
  BY DEF Transformation, Whole
<1> HIDE DEF s
<1>4. Unit \in Nat \ {0} /\ PPI[d] \in Nat \ {0} /\ PPI[r] \in Nat \ {0}
  BY Units
<1>5. l * Unit = q * s
  <2>1. (l * Unit) * PPI[d] = l * (Unit * PPI[d])
    BY <1>3, <1>4
  <2>2. l * (s * PPI[r]) = (l * PPI[r]) * s
    BY <1>3, <1>4
  <2>3. (q * PPI[d]) * s = (q * s) * PPI[d]
    BY <1>3, <1>4
  <2>4. (l * Unit) * PPI[d] = (q * s) * PPI[d]
    BY <1>1, <1>2, <2>1, <2>2, <2>3
  <2>5. l * Unit \in Int /\ q * s \in Int
    BY <1>3, <1>4
  <2> QED
    BY <1>4, <2>4, <2>5, Cancels
<1>6. Over(l, s) = q
  BY <1>3, <1>5, DividesMultiple DEF Over
<1>7. Times(Over(l, s), s) = l
  <2>1. Times(q, s) = (l * Unit) \div Unit
    BY <1>5 DEF Times
  <2> QED
    BY <1>3, <1>4, <1>6, <2>1, DividesMultiple
<1> QED
  BY <1>5, <1>6, <1>7 DEF s

\* Unstitching with the transformation of the stitch moves a mark back.
LEMMA UnstitchingUndoes ==
    ASSUME NEW d \in Devices, NEW t \in Transformation, Exact(d, t)
    PROVE  OnWasUnstitched(OnWasStitched(Mark(d), t), t) = Mark(d)
<1> DEFINE g == OnWasStitched(Mark(d), t)
           s == t.scale
<1>1. Mark(d) \in Rectangle
  BY MarkTyped
<1>2. /\ Mark(d).x = Offset[d] /\ Mark(d).y = Offset[d]
      /\ Mark(d).width = Width[d] - Offset[d] /\ Mark(d).height = Height[d] - Offset[d]
  BY DEF Mark
<1>3. /\ g \in Rectangle
      /\ g = [x |-> Over(Mark(d).x, s) + t.x, y |-> Over(Mark(d).y, s) + t.y,
              width |-> Over(Mark(d).width, s), height |-> Over(Mark(d).height, s)]
  BY <1>1, OnWasStitchedTyped
<1>4. /\ g.x = Over(Mark(d).x, s) + t.x /\ g.y = Over(Mark(d).y, s) + t.y
      /\ g.width = Over(Mark(d).width, s) /\ g.height = Over(Mark(d).height, s)
  BY <1>3
<1>5. g \in Rectangle
  BY <1>3
<1> HIDE DEF g
<1>6. OnWasUnstitched(g, t) =
        [x |-> Times(g.x - t.x, s), y |-> Times(g.y - t.y, s),
         width |-> Times(g.width, s), height |-> Times(g.height, s)]
  BY <1>5, OnWasUnstitchedTyped
<1>7. /\ t.x \in Int /\ t.y \in Int /\ s \in Nat \ {0}
      /\ Mark(d).x \in Int /\ Mark(d).y \in Int
  BY <1>1 DEF Transformation, Rectangle
<1>8. Over(Mark(d).x, s) \in Int /\ Over(Mark(d).y, s) \in Int
  BY <1>7, TimesTyped
<1>9. g.x - t.x = Over(Mark(d).x, s) /\ g.y - t.y = Over(Mark(d).y, s)
  BY <1>4, <1>7, <1>8
<1>10. /\ Whole(d, Mark(d).x) /\ Whole(d, Mark(d).y)
       /\ Whole(d, Mark(d).width) /\ Whole(d, Mark(d).height)
  BY <1>2, WholeLengths
<1>11. /\ Times(Over(Mark(d).x, s), s) = Mark(d).x
       /\ Times(Over(Mark(d).y, s), s) = Mark(d).y
       /\ Times(Over(Mark(d).width, s), s) = Mark(d).width
       /\ Times(Over(Mark(d).height, s), s) = Mark(d).height
  BY <1>10, OverIsUndone
<1>12. OnWasUnstitched(g, t) = [x |-> Mark(d).x, y |-> Mark(d).y,
                                width |-> Mark(d).width, height |-> Mark(d).height]
  BY <1>4, <1>6, <1>9, <1>11
<1> QED
  BY <1>2, <1>12 DEF g, Mark

\* A device that is not turned finds a mark where it put it.
LEMMA MarkIsFound ==
    ASSUME NEW d \in Devices, NEW t \in Transformation, Exact(d, t), t.rotation = 0
    PROVE  ToLocal(OnWasStitched(Mark(d), t), t) = Mark(d)
<1> DEFINE g == OnWasStitched(Mark(d), t)
           r == [x |-> g.x - t.x, y |-> g.y - t.y, width |-> g.width, height |-> g.height]
<1>1. g \in Rectangle
  BY MarkTyped, OnWasStitchedTyped
<1>2. ToLocal(g, t) = [k \in DOMAIN r |-> Times(r[k], t.scale)]
  <2> HIDE DEF g
  <2> QED
    BY DEF ToLocal
<1>3. [k \in DOMAIN r |-> Times(r[k], t.scale)] =
        [x |-> Times(g.x - t.x, t.scale), y |-> Times(g.y - t.y, t.scale),
         width |-> Times(g.width, t.scale), height |-> Times(g.height, t.scale)]
  <2> HIDE DEF g
  <2> QED
    OBVIOUS
<1> HIDE DEF g, r
<1>4. ToLocal(g, t) = OnWasUnstitched(g, t)
  BY <1>1, <1>2, <1>3, OnWasUnstitchedTyped
<1> QED
  BY <1>4, UnstitchingUndoes DEF g

\* Its own coordinates do not move a mark.
LEMMA DefaultMovesNothing ==
    ASSUME NEW d \in Devices
    PROVE  OnWasStitched(Mark(d), Default(d)) = Mark(d)
<1>1. Mark(d) \in Rectangle /\ Default(d) \in Transformation
  BY MarkTyped, DefaultTyped
<1>2. Default(d).x = 0 /\ Default(d).y = 0 /\ Default(d).scale = Unit
  BY DEF Default
<1>3. \A l \in Int : Over(l, Unit) = l
  BY DividesMultiple, UnitAssumption DEF Over
<1>4. /\ Mark(d).x \in Int /\ Mark(d).y \in Int
      /\ Mark(d).width \in Int /\ Mark(d).height \in Int
  BY <1>1 DEF Rectangle
<1>5. /\ Over(Mark(d).x, Unit) + 0 = Mark(d).x /\ Over(Mark(d).y, Unit) + 0 = Mark(d).y
      /\ Over(Mark(d).width, Unit) = Mark(d).width
      /\ Over(Mark(d).height, Unit) = Mark(d).height
  BY <1>3, <1>4
<1>6. OnWasStitched(Mark(d), Default(d)) =
        [x |-> Over(Mark(d).x, Unit) + 0, y |-> Over(Mark(d).y, Unit) + 0,
         width |-> Over(Mark(d).width, Unit), height |-> Over(Mark(d).height, Unit)]
  BY <1>1, <1>2, OnWasStitchedTyped
<1>7. OnWasStitched(Mark(d), Default(d)) =
        [x |-> Mark(d).x, y |-> Mark(d).y, width |-> Mark(d).width, height |-> Mark(d).height]
  BY <1>5, <1>6
<1> QED
  BY <1>7 DEF Mark

\* There are no messages initially, and every mark is where it was put.
LEMMA InitPaired == Init => SteadyInTurn /\ SteadyMarked
BY DEF Init, SteadyInTurn, SteadyMarked

\* Messages to a device alternate after every step.
LEMMA TurnsKept ==
    ASSUME Informed, SteadyInTurn, [Next]_vars
    PROVE  SteadyInTurn'
<1>1. Typed /\ TypeOK
  BY DEF Informed, Typed
<1>2. SUFFICES ASSUME NEW d \in steady', NEW i \in 1..Len(down'[d])
               PROVE  /\ Word(d, i)'.name # Word(d, i - 1)'.name
                      /\ Word(d, i)'.name = "wasunstitched" /\ d # Master
                           => Word(d, i)'.t = Word(d, i - 1)'.t
  BY DEF SteadyInTurn, InTurn
<1>3. d \in steady /\ (Rests(d) \/ Joins(d) \/ Leaves(d) \/ Learns(d))
  BY <1>1, <1>2, Courses
<1>4. d \in Devices
  BY <1>1, <1>3 DEF TypeOK
<1>5. \A j \in 1..Len(down[d]) : InTurn(d, j)
  BY <1>3 DEF SteadyInTurn
<1>6. IF d \in placed THEN LastWord(d) = WasStitched(place[d])
                      ELSE LastWord(d).name = "wasunstitched"
  BY <1>3 DEF Informed, SteadyInformed
<1>7. CASE Rests(d)
  <2>1. Len(down'[d]) = Len(down[d]) /\ \A j : Word(d, j)' = Word(d, j)
    BY <1>7, RestingWords
  <2>2. i \in 1..Len(down[d]) /\ Word(d, i)' = Word(d, i) /\ Word(d, i - 1)' = Word(d, i - 1)
    BY <2>1
  <2> QED
    BY <1>5, <2>2 DEF InTurn
<1>8. ASSUME NEW m \in Message, SameBelief(d), down'[d] = Append(down[d], m),
             m.name # LastWord(d).name,
             m.name = "wasunstitched" /\ d # Master => m.t = LastWord(d).t
      PROVE  /\ Word(d, i)'.name # Word(d, i - 1)'.name
             /\ Word(d, i)'.name = "wasunstitched" /\ d # Master
                  => Word(d, i)'.t = Word(d, i - 1)'.t
  <2>1. /\ Len(down[d]) \in Nat
        /\ Len(down'[d]) = Len(down[d]) + 1
        /\ \A j \in 0..Len(down[d]) : Word(d, j)' = Word(d, j)
        /\ \A j : j = Len(down[d]) + 1 => Word(d, j)' = m
    BY <1>1, <1>4, <1>8, ToldWords
  <2>2. CASE i = Len(down[d]) + 1
    <3>1. i - 1 = Len(down[d]) /\ i - 1 \in 0..Len(down[d])
      BY <2>1, <2>2
    <3>2. Word(d, i)' = m /\ Word(d, i - 1)' = LastWord(d)
      BY <2>1, <2>2, <3>1 DEF LastWord
    <3> QED
      BY <1>8, <3>2
  <2>3. CASE i \in 1..Len(down[d])
    <3>1. i \in 0..Len(down[d]) /\ i - 1 \in 0..Len(down[d])
      BY <2>1, <2>3
    <3>2. Word(d, i)' = Word(d, i) /\ Word(d, i - 1)' = Word(d, i - 1)
      BY <2>1, <3>1
    <3> QED
      BY <1>5, <2>3, <3>2 DEF InTurn
  <2> QED
    BY <2>1, <2>2, <2>3
<1>9. CASE Joins(d)
  <2>1. LastWord(d).name = "wasunstitched" /\ WasStitched(place'[d]).name = "wasstitched"
    BY <1>6, <1>9 DEF Joins, WasStitched
  <2> QED
    BY <1>8, <1>9, <2>1 DEF Joins
<1>10. CASE Leaves(d)
  <2>1. LastWord(d).name = "wasstitched" /\ LastWord(d).t = place[d]
    BY <1>6, <1>10 DEF Leaves, WasStitched
  <2>2. /\ WasUnstitched(KnownTransformation(d)).name = "wasunstitched"
        /\ d # Master => WasUnstitched(KnownTransformation(d)).t = place[d]
    BY DEF WasUnstitched, KnownTransformation
  <2> QED
    BY <1>8, <1>10, <2>1, <2>2 DEF Leaves
<1>11. CASE Learns(d)
  <2>1. /\ Len(down[d]) \in Nat \ {0}
        /\ Len(down'[d]) = Len(down[d]) - 1
        /\ \A j \in 1..Len(down'[d]) : Word(d, j)' = Word(d, j + 1)
        /\ Word(d, 0)'.name = Word(d, 1).name
        /\ Word(d, 1).name = "wasstitched" => Word(d, 0)' = Word(d, 1)
        /\ Word(d, 1).name \in {"wasstitched", "wasunstitched"}
    BY <1>1, <1>4, <1>11, LearntWords
  <2>2. i + 1 \in 1..Len(down[d]) /\ i \in Nat /\ (i + 1) - 1 = i
    BY <2>1
  <2>3. /\ Word(d, i + 1).name # Word(d, i).name
        /\ Word(d, i + 1).name = "wasunstitched" /\ d # Master
             => Word(d, i + 1).t = Word(d, i).t
    BY <1>5, <2>2 DEF InTurn
  <2>4. Word(d, i)' = Word(d, i + 1)
    BY <2>1
  <2>5. CASE i = 1
    <3>1. Word(d, i - 1)'.name = Word(d, i).name
      BY <2>1, <2>5
    <3>2. Word(d, i).name = "wasstitched" => Word(d, i - 1)' = Word(d, i)
      BY <2>1, <2>5
    <3>3. Word(d, i).name \in {"wasstitched", "wasunstitched"}
      BY <2>1, <2>5
    <3> QED
      BY <2>3, <2>4, <3>1, <3>2, <3>3
  <2>6. CASE i # 1
    <3>1. i - 1 \in 1..Len(down'[d]) /\ (i - 1) + 1 = i
      BY <2>1, <2>2, <2>6
    <3>2. Word(d, i - 1)' = Word(d, i)
      BY <2>1, <3>1
    <3> QED
      BY <2>3, <2>4, <3>2
  <2> QED
    BY <2>5, <2>6
<1> QED
  BY <1>3, <1>7, <1>9, <1>10, <1>11

\* A mark is moved back by the message that undoes the one that moved it.
LEMMA MarkedKept ==
    ASSUME Paired, [Next]_vars
    PROVE  SteadyMarked'
<1>1. Informed /\ Typed /\ TypeOK /\ SteadyInTurn /\ SteadyMarked
  BY DEF Paired, Informed, Typed
<1>2. SUFFICES ASSUME NEW d \in steady', d # Master
               PROVE  location'[d] =
                        IF stitched'[d] THEN OnWasStitched(Mark(d), transformation'[d])
                                        ELSE Mark(d)
  BY DEF SteadyMarked, Mark, OnWasStitched, Shrink, Over
<1>3. d \in steady /\ (Rests(d) \/ Joins(d) \/ Leaves(d) \/ Learns(d))
  BY <1>1, <1>2, Courses
<1>4. d \in Devices
  BY <1>1, <1>3 DEF TypeOK
<1>5. location[d] = IF stitched[d] THEN OnWasStitched(Mark(d), transformation[d])
                                   ELSE Mark(d)
  BY <1>1, <1>2, <1>3 DEF SteadyMarked
<1>6. CASE SameBelief(d)
  BY <1>5, <1>6 DEF SameBelief
<1>7. CASE Learns(d)
  <2> DEFINE m == Head(down[d])
  <2>1. 1 \in 1..Len(down[d]) /\ Word(d, 1) = m
    BY <1>1, <1>4, <1>7 DEF TypeOK, Learns, Word
  <2>2. /\ m.name # Belief(d).name
        /\ m.name = "wasunstitched" => m.t = Belief(d).t
    <3>1. InTurn(d, 1) /\ Word(d, 1 - 1) = Belief(d)
      BY <1>1, <1>3, <2>1 DEF SteadyInTurn, Word
    <3> QED
      BY <1>2, <2>1, <3>1 DEF InTurn
  <2>3. /\ Belief(d).t = transformation[d]
        /\ stitched[d] => Belief(d).name = "wasstitched"
        /\ ~stitched[d] => Belief(d).name = "wasunstitched"
    BY DEF Belief
  <2>4. transformation[d] \in Transformation /\ Exact(d, transformation[d])
    BY <1>1, <1>4 DEF Typed, TypeOK, AllExact
  <2> HIDE DEF m
  <2>5. CASE /\ m.name = "wasstitched"
             /\ stitched'[d] = TRUE /\ transformation'[d] = m.t
             /\ location'[d] = OnWasStitched(location[d], m.t)
    <3>1. ~stitched[d]
      BY <2>2, <2>3, <2>5
    <3>2. location[d] = Mark(d)
      BY <1>5, <3>1
    <3> QED
      BY <2>5, <3>2
  <2>6. CASE /\ m.name = "wasunstitched"
             /\ stitched'[d] = FALSE /\ transformation'[d] = Default(d)
             /\ location'[d] = OnWasUnstitched(location[d], m.t)
    <3>1. stitched[d] /\ m.t = transformation[d]
      BY <2>2, <2>3, <2>6
    <3>2. location[d] = OnWasStitched(Mark(d), transformation[d])
      BY <1>5, <3>1
    <3>3. location'[d] = Mark(d)
      BY <1>4, <2>4, <2>6, <3>1, <3>2, UnstitchingUndoes
    <3> QED
      BY <2>6, <3>3
  <2> QED
    BY <1>7, <2>5, <2>6 DEF Learns, m
<1> QED
  BY <1>3, <1>6, <1>7 DEF Rests, Joins, Leaves

\* In every reachable state the messages to a device come in pairs, and its
\* locations are where the last one moved them.
THEOREM AlwaysPaired == Spec => []Paired
<1>1. Init /\ Informed => Paired
  BY InitPaired DEF Paired
<1>2. ASSUME Paired, [Next]_vars, Informed'
      PROVE  Paired'
  BY <1>2, TurnsKept, MarkedKept DEF Paired
<1> QED
  BY <1>1, <1>2, AlwaysInformed, PTL DEF Spec

\* Being stitched and unstitched in any order leaves what a location marks on
\* its own remote where it was, unless the remote is stitched turned.
THEOREM MarksStayPut == Spec => []MarksStay
<1>1. ASSUME Paired
      PROVE  MarksStay
  <2>1. SUFFICES ASSUME NEW d \in steady \ {Master}, transformation[d].rotation = 0
                 PROVE  ToLocal(location[d], transformation[d]) = Mark(d)
    BY DEF MarksStay
  <2>2. Informed /\ Typed /\ TypeOK /\ SteadyMarked
    BY <1>1 DEF Paired, Informed, Typed
  <2>3. d \in Devices
    BY <2>2 DEF TypeOK
  <2>4. transformation[d] \in Transformation /\ Exact(d, transformation[d])
    BY <2>2, <2>3 DEF Typed, TypeOK, AllExact
  <2>5. location[d] = OnWasStitched(Mark(d), transformation[d])
    <3>1. CASE stitched[d]
      BY <2>1, <2>2, <3>1 DEF SteadyMarked
    <3>2. CASE ~stitched[d]
      <4>1. location[d] = Mark(d) /\ transformation[d] = Default(d)
        BY <2>1, <2>2, <2>3, <3>2 DEF SteadyMarked, Informed, UnstitchedDefault
      <4> QED
        BY <2>3, <4>1, DefaultMovesNothing
    <3> QED
      BY <3>1, <3>2
  <2> QED
    BY <2>1, <2>3, <2>4, <2>5, MarkIsFound
<1> QED
  BY <1>1, AlwaysPaired, PTL

-----------------------------------------------------------------------------
(* Where stitched devices lie.                                             *)

\* A length of a device, as seen by another one, is on the grid of the latter.
LEMMA SeenIsWhole ==
    ASSUME NEW d \in Devices, NEW r \in Devices, NEW s \in Nat \ {0},
           s * PPI[r] = Unit * PPI[d], NEW l, Whole(d, l)
    PROVE  Whole(r, Over(l, s)) /\ Over(l, s) * s = l * Unit
<1> DEFINE q == Over(l, s)
<1>1. l \in Int
  BY DEF Whole
<1>2. PPI[d] \in Nat \ {0} /\ PPI[r] \in Nat \ {0} /\ Unit \in Nat \ {0}
  BY Units
<1>3. q \in Int /\ q * s = l * Unit
  <2>1. PICK p \in Int : p * PPI[d] = l * PPI[r]
    BY DEF Whole
  <2>2. (l * Unit) * PPI[d] = l * (Unit * PPI[d])
    BY <1>1, <1>2
  <2>3. l * (s * PPI[r]) = (l * PPI[r]) * s
    BY <1>1, <1>2
  <2>4. (p * PPI[d]) * s = (p * s) * PPI[d]
    BY <1>2, <2>1
  <2>5. (l * Unit) * PPI[d] = (p * s) * PPI[d]
    BY <2>1, <2>2, <2>3, <2>4
  <2>6. l * Unit \in Int /\ p * s \in Int
    BY <1>1, <1>2, <2>1
  <2>7. l * Unit = p * s
    BY <1>2, <2>5, <2>6, Cancels
  <2>8. q = p
    BY <2>1, <2>7, DividesMultiple DEF Over
  <2> QED
    BY <2>1, <2>7, <2>8
<1> HIDE DEF q
<1>4. ASSUME NEW e \in Devices
      PROVE  \E p \in Int : p * PPI[r] = q * PPI[e]
  <2>1. PICK p \in Int : p * PPI[d] = l * PPI[e]
    BY DEF Whole
  <2>2. PPI[e] \in Nat \ {0}
    BY Units
  <2>3. (q * PPI[e]) * s = (q * s) * PPI[e]
    BY <1>3, <2>2
  <2>4. (l * Unit) * PPI[e] = (l * PPI[e]) * Unit
    BY <1>1, <1>2, <2>2
  <2>5. (p * PPI[d]) * Unit = p * (Unit * PPI[d])
    BY <1>2, <2>1
  <2>6. p * (s * PPI[r]) = (p * PPI[r]) * s
    BY <1>2, <2>1
  <2>7. (q * PPI[e]) * s = (p * PPI[r]) * s
    BY <1>3, <2>1, <2>3, <2>4, <2>5, <2>6
  <2>8. q * PPI[e] \in Int /\ p * PPI[r] \in Int
    BY <1>2, <1>3, <2>1, <2>2
  <2>9. q * PPI[e] = p * PPI[r]
    BY <2>7, <2>8, Cancels
  <2> QED
    BY <2>1, <2>9
<1>5. Whole(r, q)
  BY <1>3, <1>4 DEF Whole
<1> QED
  BY <1>3, <1>5 DEF q

\* Lengths on a grid are added and subtracted on it.
LEMMA WholeSums ==
    ASSUME NEW d \in Devices, NEW l, NEW k, Whole(d, l), Whole(d, k)
    PROVE  /\ Whole(d, l + k) /\ Whole(d, l - k)
           /\ Whole(d, 0)
<1>1. l \in Int /\ k \in Int
  BY DEF Whole
<1>2. ASSUME NEW r \in Devices
      PROVE  /\ \E q \in Int : q * PPI[d] = (l - k) * PPI[r]
             /\ \E q \in Int : q * PPI[d] = (l + k) * PPI[r]
             /\ \E q \in Int : q * PPI[d] = 0 * PPI[r]
  <2>1. PICK q \in Int : q * PPI[d] = l * PPI[r]
    BY DEF Whole
  <2>2. PICK p \in Int : p * PPI[d] = k * PPI[r]
    BY DEF Whole
  <2>3. PPI[d] \in Int /\ PPI[r] \in Int
    BY Units
  <2>4. (q - p) * PPI[d] = (l - k) * PPI[r] /\ (q + p) * PPI[d] = (l + k) * PPI[r]
    BY <1>1, <2>1, <2>2, <2>3
  <2>5. 0 * PPI[d] = 0 * PPI[r]
    BY <2>3
  <2>6. q - p \in Int /\ q + p \in Int /\ 0 \in Int
    BY <2>1, <2>2
  <2> QED
    BY <2>4, <2>5, <2>6
<1>3. l + k \in Int /\ l - k \in Int /\ 0 \in Int
  BY <1>1
<1>4. Whole(d, l + k)
  BY <1>2, <1>3 DEF Whole
<1>5. Whole(d, l - k)
  BY <1>2, <1>3 DEF Whole
<1>6. Whole(d, 0)
  BY <1>2, <1>3 DEF Whole
<1> QED
  BY <1>4, <1>5, <1>6

\* A length moved by a place on the grid, before and after it is divided.
LEMMA MovedOver ==
    ASSUME NEW d \in Devices, NEW r \in Devices, NEW s \in Nat \ {0},
           s * PPI[r] = Unit * PPI[d], NEW l, Whole(d, l), NEW x, Whole(r, x)
    PROVE  Over(l + Times(x, s), s) = Over(l, s) + x
<1>1. l \in Int /\ x \in Int
  BY DEF Whole
<1>2. PPI[d] \in Nat \ {0} /\ PPI[r] \in Nat \ {0} /\ Unit \in Nat \ {0}
  BY Units
<1>3. PICK p \in Int : p * PPI[r] = x * PPI[d]
  BY DEF Whole
<1>4. x * s = p * Unit
  <2>1. (x * s) * PPI[r] = x * (s * PPI[r])
    BY <1>1, <1>2
  <2>2. x * (Unit * PPI[d]) = (x * PPI[d]) * Unit
    BY <1>1, <1>2
  <2>3. (p * PPI[r]) * Unit = (p * Unit) * PPI[r]
    BY <1>2, <1>3
  <2>4. (x * s) * PPI[r] = (p * Unit) * PPI[r]
    BY <1>3, <2>1, <2>2, <2>3
  <2>5. x * s \in Int /\ p * Unit \in Int
    BY <1>1, <1>2, <1>3
  <2> QED
    BY <1>2, <2>4, <2>5, Cancels
<1>5. Times(x, s) = p
  BY <1>2, <1>3, <1>4, DividesMultiple DEF Times
<1>6. Over(l, s) \in Int /\ Over(l, s) * s = l * Unit
  BY SeenIsWhole DEF Whole
<1> DEFINE q == Over(l, s)
<1> HIDE DEF q
<1>7. (l + p) * Unit = (q + x) * s
  <2>1. (l + p) * Unit = l * Unit + p * Unit
    BY <1>1, <1>2, <1>3
  <2>2. (q + x) * s = q * s + x * s
    BY <1>1, <1>6 DEF q
  <2> QED
    BY <1>4, <1>6, <2>1, <2>2 DEF q
<1>8. ((q + x) * s) \div s = q + x
  <2>1. q + x \in Int
    BY <1>1, <1>6 DEF q
  <2> QED
    BY <2>1, DividesMultiple
<1>9. Over(l + p, s) = q + x
  BY <1>7, <1>8 DEF Over
<1> QED
  BY <1>5, <1>9 DEF q

-----------------------------------------------------------------------------
(* The sides on which swipes end.                                          *)

\* The side of a turned device that is its edge: 0 is its top, 1 is left, 2 is
\* the bottom and 3 is right.
Side(edge, rotation) == (IndexForEdge(edge) + rotation \div 90) % 4

\* A point, and the size of what it lies on, on the sides.
OnSide(r, side) ==
    /\ side = 0 => r.y = 0
    /\ side = 1 => r.x = 0
    /\ side = 2 => r.y = r.height
    /\ side = 3 => r.x = r.width

\* The numbers of the edges.
LEMMA EdgeNumbers ==
    /\ IndexForEdge("top") = 0 /\ IndexForEdge("left") = 1
    /\ IndexForEdge("bottom") = 2 /\ IndexForEdge("right") = 3
BY DEF IndexForEdge

\* Where the two swipes of a pair end, their devices lie on opposite sides.
LEMMA OppositeSides ==
    ASSUME NEW e \in Edges, NEW f \in Edges, NEW rotation \in Rotations
    PROVE  /\ Side(e, rotation) \in 0..3
           /\ Side(f, (RelativeRotation(e, f) + rotation) % 360) = (Side(e, rotation) + 2) % 4
<1> DEFINE i == IndexForEdge(e)
           j == IndexForEdge(f)
<1>1. i \in {0, 1, 2, 3} /\ j \in {0, 1, 2, 3}
  BY EdgeNumbers DEF Edges
<1>2. RelativeRotation(e, f) = <<180, 270, 0, 90>>[((i - j) % 4) + 1]
  BY DEF RelativeRotation
<1> HIDE DEF i, j
<1>3. /\ (i - j) % 4 = 0 => RelativeRotation(e, f) = 180
      /\ (i - j) % 4 = 1 => RelativeRotation(e, f) = 270
      /\ (i - j) % 4 = 2 => RelativeRotation(e, f) = 0
      /\ (i - j) % 4 = 3 => RelativeRotation(e, f) = 90
  BY <1>2
<1>4. \A k \in {0, 90, 180, 270} :
        /\ k \div 90 \in {0, 1, 2, 3}
        /\ ((180 + k) % 360) \div 90 = (2 + k \div 90) % 4
        /\ ((270 + k) % 360) \div 90 = (3 + k \div 90) % 4
        /\ ((0 + k) % 360) \div 90 = (k \div 90) % 4
        /\ ((90 + k) % 360) \div 90 = (1 + k \div 90) % 4
  OBVIOUS
<1> DEFINE k == rotation \div 90
           n == ((RelativeRotation(e, f) + rotation) % 360) \div 90
<1>5. /\ k \in {0, 1, 2, 3}
      /\ (i - j) % 4 = 0 => n = (2 + k) % 4
      /\ (i - j) % 4 = 1 => n = (3 + k) % 4
      /\ (i - j) % 4 = 2 => n = k % 4
      /\ (i - j) % 4 = 3 => n = (1 + k) % 4
  BY <1>3, <1>4 DEF Rotations
<1>6. /\ Side(e, rotation) = (i + k) % 4
      /\ Side(f, (RelativeRotation(e, f) + rotation) % 360) = (j + n) % 4
  BY DEF Side, i, j
<1> HIDE DEF k, n
<1>7. n = (((i - j) + 2) + k) % 4
  BY <1>1, <1>5
<1>8. (j + n) % 4 = (((i + k) % 4) + 2) % 4
  BY <1>1, <1>5, <1>7
<1>9. (i + k) % 4 \in 0..3
  BY <1>1, <1>5
<1> QED
  BY <1>6, <1>8, <1>9

\* A swipe ends on the grid and on the side of its edge, however its device is
\* turned.
LEMMA TurnedSwipe ==
    ASSUME NEW d \in Devices, NEW e \in Edges, NEW rotation \in Rotations
    PROVE  LET r == RotateSwipe(SwipeOn(d, e), rotation)
           IN  /\ r \in Rectangle
               /\ Whole(d, r.x) /\ Whole(d, r.y)
               /\ r.width = TurnedWidth(d, rotation) /\ r.height = TurnedHeight(d, rotation)
               /\ OnSide(r, Side(e, rotation))
<1> DEFINE s == SwipeOn(d, e)
           r == RotateSwipe(s, rotation)
           W == Width[d]
           H == Height[d]
           O == Offset[d]
<1>1. r \in Rectangle
  BY SwipeOnTyped, RotateSwipeTyped
<1>2. /\ s.width = W /\ s.height = H
      /\ e = "top" => s.x = O /\ s.y = 0
      /\ e = "left" => s.x = 0 /\ s.y = O
      /\ e = "bottom" => s.x = O /\ s.y = H
      /\ e = "right" => s.x = W /\ s.y = O
  BY DEF SwipeOn
<1> HIDE DEF s
<1>3. /\ rotation = 0 => r = [x |-> s.x, y |-> s.y, width |-> s.width, height |-> s.height]
      /\ rotation = 90 => r = [x |-> s.y, y |-> s.width - s.x,
                               width |-> s.height, height |-> s.width]
      /\ rotation = 180 => r = [x |-> s.width - s.x, y |-> s.height - s.y,
                                width |-> s.width, height |-> s.height]
      /\ rotation = 270 => r = [x |-> s.height - s.y, y |-> s.x,
                                width |-> s.height, height |-> s.width]
  BY DEF RotateSwipe
<1> HIDE DEF r
<1>4. /\ rotation = 0 => r.x = s.x /\ r.y = s.y /\ r.width = W /\ r.height = H
      /\ rotation = 90 => r.x = s.y /\ r.y = W - s.x /\ r.width = H /\ r.height = W
      /\ rotation = 180 => r.x = W - s.x /\ r.y = H - s.y /\ r.width = W /\ r.height = H
      /\ rotation = 270 => r.x = H - s.y /\ r.y = s.x /\ r.width = H /\ r.height = W
  BY <1>2, <1>3
<1>5. W \in Int /\ H \in Int /\ O \in Int
  BY DevicesAssumption
<1>6. Whole(d, W) /\ Whole(d, H) /\ Whole(d, O) /\ Whole(d, 0)
      /\ Whole(d, W - O) /\ Whole(d, H - O)
  BY WholeLengths, WholeSums
<1> HIDE DEF W, H, O
<1>7. W - 0 = W /\ H - 0 = H /\ W - W = 0 /\ H - H = 0
  BY <1>5
<1>8. Whole(d, s.x) /\ Whole(d, s.y) /\ Whole(d, W - s.x) /\ Whole(d, H - s.y)
  BY <1>2, <1>6, <1>7 DEF Edges
<1>9. Whole(d, r.x) /\ Whole(d, r.y)
  BY <1>4, <1>8 DEF Rotations
<1>10. r.width = TurnedWidth(d, rotation) /\ r.height = TurnedHeight(d, rotation)
  BY <1>4 DEF TurnedWidth, TurnedHeight, Rotations, W, H
<1>11. 0 \div 90 = 0 /\ 90 \div 90 = 1 /\ 180 \div 90 = 2 /\ 270 \div 90 = 3
  OBVIOUS
<1>12. OnSide(r, Side(e, rotation))
  <2>1. CASE e = "top"
    <3>1. s.x = O /\ s.y = 0 /\ IndexForEdge(e) = 0
      BY <1>2, <2>1, EdgeNumbers
    <3> QED
      BY <1>4, <1>7, <1>11, <3>1 DEF OnSide, Side, Rotations
  <2>2. CASE e = "left"
    <3>1. s.x = 0 /\ s.y = O /\ IndexForEdge(e) = 1
      BY <1>2, <2>2, EdgeNumbers
    <3> QED
      BY <1>4, <1>7, <1>11, <3>1 DEF OnSide, Side, Rotations
  <2>3. CASE e = "bottom"
    <3>1. s.x = O /\ s.y = H /\ IndexForEdge(e) = 2
      BY <1>2, <2>3, EdgeNumbers
    <3> QED
      BY <1>4, <1>7, <1>11, <3>1 DEF OnSide, Side, Rotations
  <2>4. CASE e = "right"
    <3>1. s.x = W /\ s.y = O /\ IndexForEdge(e) = 3
      BY <1>2, <2>4, EdgeNumbers
    <3> QED
      BY <1>4, <1>7, <1>11, <3>1 DEF OnSide, Side, Rotations
  <2> QED
    BY <2>1, <2>2, <2>3, <2>4 DEF Edges
<1> QED
  BY <1>1, <1>9, <1>10, <1>12 DEF r, s

-----------------------------------------------------------------------------
(* Global coordinates.                                                     *)

\* A rectangle on device d, as it lies on the device turned by a rotation.
Turned(d, l, rotation) ==
    CASE rotation = 0 -> l
      [] rotation = 90 ->
           [x |-> l.y, y |-> TurnedHeight(d, 90) - l.x - l.width,
            width |-> l.height, height |-> l.width]
      [] rotation = 180 ->
           [x |-> TurnedWidth(d, 180) - l.x - l.width,
            y |-> TurnedHeight(d, 180) - l.y - l.height,
            width |-> l.width, height |-> l.height]
      [] rotation = 270 ->
           [x |-> TurnedWidth(d, 270) - l.y - l.height, y |-> l.x,
            width |-> l.height, height |-> l.width]

\* A transformation of device d in the coordinate system of r.
Lies(d, t, r) ==
    /\ t \in Transformation
    /\ t.scale * PPI[r] = Unit * PPI[d]
    /\ Whole(r, t.x) /\ Whole(r, t.y)
    /\ Covers(d, t)

\* CWLocation turns, shrinks and moves a rectangle.
LEMMA GlobalIs ==
    ASSUME NEW d \in Devices, NEW r \in Devices, NEW t, Lies(d, t, r),
           NEW l \in Rectangle,
           Turned(d, l, t.rotation) \in Rectangle,
           Whole(d, Turned(d, l, t.rotation).x), Whole(d, Turned(d, l, t.rotation).y)
    PROVE  LET p == Turned(d, l, t.rotation)
           IN  ToGlobal(l, t) =
                 [x |-> Over(p.x, t.scale) + t.x, y |-> Over(p.y, t.scale) + t.y,
                  width |-> Over(p.width, t.scale), height |-> Over(p.height, t.scale)]
<1> DEFINE s == t.scale
           w == Times(t.width, s)
           h == Times(t.height, s)
           p == Turned(d, l, t.rotation)
           turned == CASE t.rotation = 0 -> l
                       [] t.rotation = 90 ->
                            [x |-> l.y, y |-> h - l.x - l.width,
                             width |-> l.height, height |-> l.width]
                       [] t.rotation = 180 ->
                            [x |-> w - l.x - l.width, y |-> h - l.y - l.height,
                             width |-> l.width, height |-> l.height]
                       [] t.rotation = 270 ->
                            [x |-> w - l.y - l.height, y |-> l.x,
                             width |-> l.height, height |-> l.width]
<1>1. /\ t \in Transformation /\ s * PPI[r] = Unit * PPI[d]
      /\ Whole(r, t.x) /\ Whole(r, t.y)
      /\ t.width = Over(TurnedWidth(d, t.rotation), s)
      /\ t.height = Over(TurnedHeight(d, t.rotation), s)
  BY DEF Lies, Covers
<1>2. s \in Nat \ {0} /\ t.x \in Int /\ t.y \in Int /\ t.rotation \in Rotations
  BY <1>1 DEF Transformation
<1>3. Exact(d, t)
  BY <1>1 DEF Exact
<1>4. Whole(d, TurnedWidth(d, t.rotation)) /\ Whole(d, TurnedHeight(d, t.rotation))
  BY WholeLengths DEF TurnedWidth, TurnedHeight
<1>5. w = TurnedWidth(d, t.rotation) /\ h = TurnedHeight(d, t.rotation)
  BY <1>1, <1>3, <1>4, OverIsUndone
<1>6. p = turned
  <2> HIDE DEF w, h
  <2>1. CASE t.rotation = 0
    BY <2>1 DEF Turned
  <2>2. CASE t.rotation = 90
    BY <1>5, <2>2 DEF Turned
  <2>3. CASE t.rotation = 180
    BY <1>5, <2>3 DEF Turned
  <2>4. CASE t.rotation = 270
    BY <1>5, <2>4 DEF Turned
  <2> QED
    BY <1>2, <2>1, <2>2, <2>3, <2>4 DEF Rotations
<1>7. ToGlobal(l, t) = Shrink([turned EXCEPT !.x = turned.x + Times(t.x, s),
                                             !.y = turned.y + Times(t.y, s)], s)
  BY DEF ToGlobal
<1> HIDE DEF w, h, turned
<1>8. p \in Rectangle /\ Whole(d, p.x) /\ Whole(d, p.y)
  OBVIOUS
<1> HIDE DEF p
<1> DEFINE moved == [x |-> p.x + Times(t.x, s), y |-> p.y + Times(t.y, s),
                     width |-> p.width, height |-> p.height]
<1>9. {p.x, p.y, p.width, p.height, Times(t.x, s), Times(t.y, s)} \subseteq Int
  BY <1>2, <1>8, TimesTyped DEF Rectangle
<1>10. p.x + Times(t.x, s) \in Int /\ p.y + Times(t.y, s) \in Int
  BY <1>9
<1>11. [p EXCEPT !.x = p.x + Times(t.x, s), !.y = p.y + Times(t.y, s)] = moved
       /\ moved \in Rectangle
  <2>1. p \in Rectangle
    BY <1>8
  <2>2. [p EXCEPT !.x = p.x + Times(t.x, s), !.y = p.y + Times(t.y, s)] = moved
    BY <1>10, <2>1, MovedIs
  <2>3. moved \in Rectangle
    BY <1>9, <1>10 DEF Rectangle
  <2> QED
    BY <2>2, <2>3
<1>12. ToGlobal(l, t) = Shrink(moved, s)
  BY <1>6, <1>7, <1>11
<1>13. /\ moved.x = p.x + Times(t.x, s) /\ moved.y = p.y + Times(t.y, s)
       /\ moved.width = p.width /\ moved.height = p.height /\ moved \in Rectangle
  BY <1>11
<1> HIDE DEF moved
<1>14. Shrink(moved, s) = [x |-> Over(moved.x, s), y |-> Over(moved.y, s),
                           width |-> Over(moved.width, s), height |-> Over(moved.height, s)]
  BY <1>2, <1>13, ShrinkIs
<1>15. /\ Over(p.x + Times(t.x, s), s) = Over(p.x, s) + t.x
       /\ Over(p.y + Times(t.y, s), s) = Over(p.y, s) + t.y
  BY <1>1, <1>2, <1>8, MovedOver
<1> QED
  BY <1>12, <1>13, <1>14, <1>15 DEF p

\* The end of a swipe has the place that CWStitchManager computes with.
LEMMA GlobalEnd ==
    ASSUME NEW d \in Devices, NEW r \in Devices, NEW t, Lies(d, t, r), NEW e \in Edges
    PROVE  LET p == RotateSwipe(SwipeOn(d, e), t.rotation)
           IN  ToGlobal(EndOf(SwipeOn(d, e)), t) =
                 [x |-> Over(p.x, t.scale) + t.x, y |-> Over(p.y, t.scale) + t.y,
                  width |-> 0, height |-> 0]
<1> DEFINE s == SwipeOn(d, e)
           l == EndOf(s)
           p == RotateSwipe(s, t.rotation)
           q == Turned(d, l, t.rotation)
<1>1. t \in Transformation /\ t.rotation \in Rotations /\ t.scale \in Nat \ {0}
  BY DEF Lies, Transformation
<1>2. s \in Swipe /\ s.width = Width[d] /\ s.height = Height[d]
  BY SwipeOnTyped DEF SwipeOn
<1>3. p \in Rectangle /\ Whole(d, p.x) /\ Whole(d, p.y)
  BY <1>1, TurnedSwipe
<1> HIDE DEF s
<1>4. {s.x, s.y, s.width, s.height} \subseteq Int
  BY <1>2 DEF Swipe
<1>5. l = [x |-> s.x, y |-> s.y, width |-> 0, height |-> 0] /\ l \in Rectangle
  BY <1>4 DEF EndOf, Rectangle
<1>6. l.x = s.x /\ l.y = s.y /\ l.width = 0 /\ l.height = 0
  BY <1>5
<1> HIDE DEF l
<1>7. q = [x |-> p.x, y |-> p.y, width |-> 0, height |-> 0]
  <2>1. CASE t.rotation = 0
    BY <1>5, <2>1 DEF Turned, RotateSwipe
  <2>2. CASE t.rotation = 90
    <3>1. q = [x |-> l.y, y |-> s.width - s.x - 0, width |-> 0, height |-> 0]
      BY <1>2, <1>6, <2>2 DEF Turned, TurnedHeight
    <3>2. p.x = s.y /\ p.y = s.width - s.x
      BY <2>2 DEF RotateSwipe
    <3>3. s.width - s.x - 0 = s.width - s.x
      BY <1>4
    <3> QED
      BY <1>6, <3>1, <3>2, <3>3
  <2>3. CASE t.rotation = 180
    <3>1. q = [x |-> s.width - s.x - 0, y |-> s.height - s.y - 0, width |-> 0, height |-> 0]
      BY <1>2, <1>6, <2>3 DEF Turned, TurnedWidth, TurnedHeight
    <3>2. p.x = s.width - s.x /\ p.y = s.height - s.y
      BY <2>3 DEF RotateSwipe
    <3>3. s.width - s.x - 0 = s.width - s.x /\ s.height - s.y - 0 = s.height - s.y
      BY <1>4
    <3> QED
      BY <3>1, <3>2, <3>3
  <2>4. CASE t.rotation = 270
    <3>1. q = [x |-> s.height - s.y - 0, y |-> l.x, width |-> 0, height |-> 0]
      BY <1>2, <1>6, <2>4 DEF Turned, TurnedWidth
    <3>2. p.x = s.height - s.y /\ p.y = s.x
      BY <2>4 DEF RotateSwipe
    <3>3. s.height - s.y - 0 = s.height - s.y
      BY <1>4
    <3> QED
      BY <1>6, <3>1, <3>2, <3>3
  <2> QED
    BY <1>1, <2>1, <2>2, <2>3, <2>4 DEF Rotations
<1> HIDE DEF p, q
<1>8. q.x = p.x /\ q.y = p.y /\ q.width = 0 /\ q.height = 0
  BY <1>7
<1>9. q \in Rectangle
  BY <1>3, <1>7 DEF Rectangle
<1>10. ToGlobal(l, t) =
         [x |-> Over(q.x, t.scale) + t.x, y |-> Over(q.y, t.scale) + t.y,
          width |-> Over(q.width, t.scale), height |-> Over(q.height, t.scale)]
  <2>1. q \in Rectangle /\ Whole(d, q.x) /\ Whole(d, q.y)
    BY <1>3, <1>8, <1>9
  <2> QED
    BY <1>5, <2>1, GlobalIs DEF q
<1>11. Over(0, t.scale) = 0
  BY <1>1, UnitAssumption DEF Over
<1> QED
  BY <1>8, <1>10, <1>11 DEF p, l, s

\* The viewport of a device lies where its transformation says.
LEMMA GlobalViewport ==
    ASSUME NEW d \in Devices, NEW r \in Devices, NEW t, Lies(d, t, r)
    PROVE  ToGlobal(Viewport(d), t) =
             [x |-> t.x, y |-> t.y, width |-> t.width, height |-> t.height]
<1> DEFINE l == Viewport(d)
           q == Turned(d, l, t.rotation)
           W == TurnedWidth(d, t.rotation)
           H == TurnedHeight(d, t.rotation)
<1>1. /\ t \in Transformation /\ t.rotation \in Rotations /\ t.scale \in Nat \ {0}
      /\ t.x \in Int /\ t.y \in Int
  BY DEF Lies, Transformation
<1>2. Width[d] \in Int /\ Height[d] \in Int
  BY DevicesAssumption
<1>3. l = [x |-> 0, y |-> 0, width |-> Width[d], height |-> Height[d]] /\ l \in Rectangle
  BY <1>2 DEF Viewport, Rectangle
<1>4. l.x = 0 /\ l.y = 0 /\ l.width = Width[d] /\ l.height = Height[d]
  BY <1>3
<1> HIDE DEF l
<1>5. Width[d] - 0 - Width[d] = 0 /\ Height[d] - 0 - Height[d] = 0
  BY <1>2
<1>6. q = [x |-> 0, y |-> 0, width |-> W, height |-> H]
  <2>1. CASE t.rotation = 0
    BY <1>3, <2>1 DEF Turned, TurnedWidth, TurnedHeight
  <2>2. CASE t.rotation = 90
    BY <1>4, <1>5, <2>2 DEF Turned, TurnedWidth, TurnedHeight
  <2>3. CASE t.rotation = 180
    BY <1>4, <1>5, <2>3 DEF Turned, TurnedWidth, TurnedHeight
  <2>4. CASE t.rotation = 270
    BY <1>4, <1>5, <2>4 DEF Turned, TurnedWidth, TurnedHeight
  <2> QED
    BY <1>1, <2>1, <2>2, <2>3, <2>4 DEF Rotations
<1>7. W \in Int /\ H \in Int
  BY <1>2 DEF TurnedWidth, TurnedHeight
<1> HIDE DEF q, W, H
<1>8. q.x = 0 /\ q.y = 0 /\ q.width = W /\ q.height = H
  BY <1>6
<1>9. q \in Rectangle
  BY <1>6, <1>7 DEF Rectangle
<1>10. Whole(d, 0)
  BY WholeLengths, WholeSums
<1>11. ToGlobal(l, t) =
         [x |-> Over(q.x, t.scale) + t.x, y |-> Over(q.y, t.scale) + t.y,
          width |-> Over(q.width, t.scale), height |-> Over(q.height, t.scale)]
  <2>1. q \in Rectangle /\ Whole(d, q.x) /\ Whole(d, q.y)
    BY <1>8, <1>9, <1>10
  <2> QED
    BY <1>3, <2>1, GlobalIs DEF q
<1>12. Over(0, t.scale) = 0
  BY <1>1, UnitAssumption DEF Over
<1>13. Over(W, t.scale) = t.width /\ Over(H, t.scale) = t.height
  BY DEF Lies, Covers, W, H
<1>14. 0 + t.x = t.x /\ 0 + t.y = t.y
  BY <1>1
<1> QED
  BY <1>8, <1>11, <1>12, <1>13, <1>14 DEF l

-----------------------------------------------------------------------------
(* Neighbours.                                                             *)

\* What CWStitchManager computes, by its parts.
LEMMA JoinedIs ==
    ASSUME NEW o \in Devices, NEW eo \in Edges, NEW n \in Devices, NEW en \in Edges,
           NEW r \in Devices, Lies(o, place[o], r)
    PROVE  LET t == Joined(o, eo, n, en)
               p == RotateSwipe(SwipeOn(o, eo), place[o].rotation)
               q == RotateSwipe(SwipeOn(n, en), t.rotation)
           IN  /\ t \in Transformation
               /\ t.rotation = (RelativeRotation(eo, en) + place[o].rotation) % 360
               /\ t.scale * PPI[r] = Unit * PPI[n]
               /\ t.x = place[o].x + Over(p.x, place[o].scale) - Over(q.x, t.scale)
               /\ t.y = place[o].y + Over(p.y, place[o].scale) - Over(q.y, t.scale)
               /\ t.width = Over(q.width, t.scale) /\ t.height = Over(q.height, t.scale)
<1> DEFINE t == Joined(o, eo, n, en)
           u == place[o]
           scale == NewScale(PPI[n], PPI[o], u.scale)
           rotation == (RelativeRotation(eo, en) + u.rotation) % 360
           p == RotateSwipe(SwipeOn(o, eo), u.rotation)
           q == RotateSwipe(SwipeOn(n, en), rotation)
           there == Shrink(p, u.scale)
           here == Shrink(q, scale)
<1>1. u \in Transformation /\ u.scale \in Nat \ {0} /\ u.rotation \in Rotations
      /\ u.scale * PPI[r] = Unit * PPI[o]
  BY DEF Lies, Transformation
<1>2. scale \in Nat \ {0} /\ scale * PPI[r] = Unit * PPI[n]
  BY <1>1, NextScale
<1>3. SwipeOn(o, eo) \in Swipe /\ SwipeOn(n, en) \in Swipe
      /\ SwipeOn(o, eo).edge = eo /\ SwipeOn(n, en).edge = en
  BY SwipeOnTyped
<1>4. PPI[o] \in Nat /\ PPI[n] \in Nat
  BY Units
<1>5. t \in Transformation
  BY <1>1, <1>2, <1>3, <1>4, NextToTyped DEF Joined
<1>6. rotation \in Rotations
  BY <1>1, RelativeRotationTyped, TurnedTyped
<1> HIDE DEF rotation, scale
<1>7. p \in Rectangle /\ q \in Rectangle
  BY <1>1, <1>3, <1>6, RotateSwipeTyped
<1>8. /\ there = [x |-> Over(p.x, u.scale), y |-> Over(p.y, u.scale),
                  width |-> Over(p.width, u.scale), height |-> Over(p.height, u.scale)]
      /\ here = [x |-> Over(q.x, scale), y |-> Over(q.y, scale),
                 width |-> Over(q.width, scale), height |-> Over(q.height, scale)]
  BY <1>1, <1>2, <1>7, ShrinkIs
<1>9. t = [x |-> u.x + there.x - here.x, y |-> u.y + there.y - here.y,
           width |-> here.width, height |-> here.height,
           rotation |-> rotation, scale |-> scale]
  BY <1>3 DEF Joined, NextTo, rotation, scale
<1> HIDE DEF t, p, there, here, u
<1>10. /\ t.x = u.x + there.x - here.x /\ t.y = u.y + there.y - here.y
       /\ t.width = here.width /\ t.height = here.height
       /\ t.rotation = rotation /\ t.scale = scale
  BY <1>9
<1>11. /\ there.x = Over(p.x, u.scale) /\ there.y = Over(p.y, u.scale)
       /\ here.x = Over(q.x, scale) /\ here.y = Over(q.y, scale)
       /\ here.width = Over(q.width, scale) /\ here.height = Over(q.height, scale)
  BY <1>8
<1>12. q = RotateSwipe(SwipeOn(n, en), t.rotation)
  BY <1>10
<1>13. t.scale * PPI[r] = Unit * PPI[n]
  BY <1>2, <1>10
<1>14. t.rotation = (RelativeRotation(eo, en) + u.rotation) % 360
  BY <1>10 DEF rotation
<1> HIDE DEF q
<1>15. /\ t.x = u.x + Over(p.x, u.scale) - Over(q.x, t.scale)
       /\ t.y = u.y + Over(p.y, u.scale) - Over(q.y, t.scale)
       /\ t.width = Over(q.width, t.scale) /\ t.height = Over(q.height, t.scale)
  BY <1>10, <1>11
<1> QED
  BY <1>5, <1>12, <1>13, <1>14, <1>15 DEF t, p, u

\* A device that is stitched lies on the grid of its coordinate system.
LEMMA JoinedLies ==
    ASSUME NEW o \in Devices, NEW eo \in Edges, NEW n \in Devices, NEW en \in Edges,
           NEW r \in Devices, Lies(o, place[o], r)
    PROVE  Lies(n, Joined(o, eo, n, en), r)
<1> DEFINE t == Joined(o, eo, n, en)
           u == place[o]
           p == RotateSwipe(SwipeOn(o, eo), u.rotation)
           q == RotateSwipe(SwipeOn(n, en), t.rotation)
<1>1. /\ t \in Transformation
      /\ t.scale * PPI[r] = Unit * PPI[n]
      /\ t.x = u.x + Over(p.x, u.scale) - Over(q.x, t.scale)
      /\ t.y = u.y + Over(p.y, u.scale) - Over(q.y, t.scale)
      /\ t.width = Over(q.width, t.scale) /\ t.height = Over(q.height, t.scale)
  BY JoinedIs
<1> HIDE DEF t, u
<1>2. /\ u \in Transformation /\ u.scale \in Nat \ {0} /\ u.rotation \in Rotations
      /\ u.scale * PPI[r] = Unit * PPI[o]
      /\ Whole(r, u.x) /\ Whole(r, u.y)
  BY DEF Lies, Transformation, u
<1>3. t.scale \in Nat \ {0} /\ t.rotation \in Rotations
  BY <1>1 DEF Transformation
<1>4. /\ Whole(o, p.x) /\ Whole(o, p.y)
      /\ Whole(n, q.x) /\ Whole(n, q.y)
      /\ q.width = TurnedWidth(n, t.rotation) /\ q.height = TurnedHeight(n, t.rotation)
  BY <1>2, <1>3, TurnedSwipe
<1> HIDE DEF p, q
<1>5. /\ Whole(r, Over(p.x, u.scale)) /\ Whole(r, Over(p.y, u.scale))
      /\ Whole(r, Over(q.x, t.scale)) /\ Whole(r, Over(q.y, t.scale))
  BY <1>1, <1>2, <1>3, <1>4, SeenIsWhole
<1>6. /\ Whole(r, Over(p.x, u.scale) - Over(q.x, t.scale))
      /\ Whole(r, Over(p.y, u.scale) - Over(q.y, t.scale))
  BY <1>5, WholeSums
<1>7. Whole(r, t.x)
  <2>1. Whole(r, u.x + (Over(p.x, u.scale) - Over(q.x, t.scale)))
    BY <1>2, <1>6, WholeSums
  <2> QED
    BY <1>1, <2>1
<1>8. Whole(r, t.y)
  <2>1. Whole(r, u.y + (Over(p.y, u.scale) - Over(q.y, t.scale)))
    BY <1>2, <1>6, WholeSums
  <2> QED
    BY <1>1, <2>1
<1>9. Covers(n, t)
  BY <1>1, <1>4 DEF Covers
<1>10. Lies(n, t, r)
  BY <1>1, <1>7, <1>8, <1>9 DEF Lies
<1> QED
  BY <1>10 DEF t

\* The ends of the two swipes are one point, and the viewports are apart.
LEMMA JoinedTouches ==
    ASSUME NEW o \in Devices, NEW eo \in Edges, NEW n \in Devices, NEW en \in Edges,
           NEW r \in Devices, Lies(o, place[o], r)
    PROVE  /\ ToGlobal(EndOf(SwipeOn(n, en)), Joined(o, eo, n, en))
                = ToGlobal(EndOf(SwipeOn(o, eo)), place[o])
           /\ Apart(ToGlobal(Viewport(n), Joined(o, eo, n, en)),
                    ToGlobal(Viewport(o), place[o]))
<1> DEFINE t == Joined(o, eo, n, en)
           u == place[o]
           p == RotateSwipe(SwipeOn(o, eo), u.rotation)
           q == RotateSwipe(SwipeOn(n, en), t.rotation)
           side == Side(eo, u.rotation)
<1>1. /\ t \in Transformation
      /\ t.rotation = (RelativeRotation(eo, en) + u.rotation) % 360
      /\ t.x = u.x + Over(p.x, u.scale) - Over(q.x, t.scale)
      /\ t.y = u.y + Over(p.y, u.scale) - Over(q.y, t.scale)
      /\ t.width = Over(q.width, t.scale) /\ t.height = Over(q.height, t.scale)
  BY JoinedIs
<1>2. Lies(n, t, r)
  BY JoinedLies
<1> HIDE DEF t, u
<1>3. Lies(o, u, r) /\ u \in Transformation
  BY DEF Lies, u
<1>4. /\ u.x \in Int /\ u.y \in Int /\ u.scale \in Nat \ {0} /\ u.rotation \in Rotations
      /\ u.width \in Int /\ u.height \in Int
      /\ t.x \in Int /\ t.y \in Int /\ t.scale \in Nat \ {0} /\ t.rotation \in Rotations
      /\ t.width \in Int /\ t.height \in Int
  BY <1>1, <1>3 DEF Transformation
<1>5. /\ p \in Rectangle /\ p.width = TurnedWidth(o, u.rotation)
      /\ p.height = TurnedHeight(o, u.rotation)
      /\ OnSide(p, side)
  BY <1>4, TurnedSwipe
<1>6. q \in Rectangle /\ OnSide(q, Side(en, t.rotation))
  BY <1>4, TurnedSwipe
<1>7. side \in 0..3 /\ Side(en, t.rotation) = (side + 2) % 4
  BY <1>1, <1>4, OppositeSides
<1>8. u.width = Over(p.width, u.scale) /\ u.height = Over(p.height, u.scale)
  BY <1>3, <1>5 DEF Lies, Covers
<1>9. /\ ToGlobal(EndOf(SwipeOn(n, en)), t) =
           [x |-> Over(q.x, t.scale) + t.x, y |-> Over(q.y, t.scale) + t.y,
            width |-> 0, height |-> 0]
      /\ ToGlobal(EndOf(SwipeOn(o, eo)), u) =
           [x |-> Over(p.x, u.scale) + u.x, y |-> Over(p.y, u.scale) + u.y,
            width |-> 0, height |-> 0]
  BY <1>2, <1>3, GlobalEnd
<1>10. /\ ToGlobal(Viewport(n), t) = [x |-> t.x, y |-> t.y, width |-> t.width, height |-> t.height]
       /\ ToGlobal(Viewport(o), u) = [x |-> u.x, y |-> u.y, width |-> u.width, height |-> u.height]
  BY <1>2, <1>3, GlobalViewport
<1> HIDE DEF p, q, side
<1>11. /\ Over(p.x, u.scale) \in Int /\ Over(p.y, u.scale) \in Int
       /\ Over(q.x, t.scale) \in Int /\ Over(q.y, t.scale) \in Int
  BY <1>4, <1>5, <1>6, TimesTyped DEF Rectangle
<1>12. /\ Over(q.x, t.scale) + t.x = Over(p.x, u.scale) + u.x
       /\ Over(q.y, t.scale) + t.y = Over(p.y, u.scale) + u.y
  BY <1>1, <1>4, <1>11
<1>13. Over(0, t.scale) = 0 /\ Over(0, u.scale) = 0
  BY <1>4, UnitAssumption DEF Over
<1>14. \/ t.x + t.width <= u.x \/ u.x + u.width <= t.x
       \/ t.y + t.height <= u.y \/ u.y + u.height <= t.y
  <2>1. CASE side = 0
    <3>1. p.y = 0 /\ q.y = q.height
      BY <1>5, <1>6, <1>7, <2>1 DEF OnSide
    <3>2. t.y = u.y + 0 - t.height
      BY <1>1, <1>13, <3>1
    <3> QED
      BY <1>4, <3>2
  <2>2. CASE side = 1
    <3>1. p.x = 0 /\ q.x = q.width
      BY <1>5, <1>6, <1>7, <2>2 DEF OnSide
    <3>2. t.x = u.x + 0 - t.width
      BY <1>1, <1>13, <3>1
    <3> QED
      BY <1>4, <3>2
  <2>3. CASE side = 2
    <3>1. p.y = p.height /\ q.y = 0
      BY <1>5, <1>6, <1>7, <2>3 DEF OnSide
    <3>2. t.y = u.y + u.height - 0
      BY <1>1, <1>8, <1>13, <3>1
    <3> QED
      BY <1>4, <3>2
  <2>4. CASE side = 3
    <3>1. p.x = p.width /\ q.x = 0
      BY <1>5, <1>6, <1>7, <2>4 DEF OnSide
    <3>2. t.x = u.x + u.width - 0
      BY <1>1, <1>8, <1>13, <3>1
    <3> QED
      BY <1>4, <3>2
  <2> QED
    BY <1>7, <2>1, <2>2, <2>3, <2>4
<1>15. Apart(ToGlobal(Viewport(n), t), ToGlobal(Viewport(o), u))
  BY <1>10, <1>14 DEF Apart
<1> QED
  BY <1>9, <1>12, <1>15 DEF t, u

\* What a step means for the places of the devices.
LEMMA PlacesChange ==
    ASSUME Typed, [Next]_vars
    PROVE  \/ UNCHANGED <<placed, place, beside>>
           \/ \E o, n \in Devices : \E eo, en \in Edges : Stitches(o, eo, n, en)
           \/ \E e \in placed : /\ placed' = placed \ {e}
                                /\ place' = [place EXCEPT ![e] = Default(e)]
                                /\ beside' = [d \in Devices |->
                                     IF d = e \/ beside[d].device = e THEN Nobody ELSE beside[d]]
<1>1. ASSUME NEW d \in Devices,
             \/ Quit(d) \/ \E edge \in SwipeEdges[d] : LocalSwipe(d, edge)
             \/ OnStitched(d) \/ OnUnstitched(d)
             \/ Drop(d) \/ RemoteDisconnected(d) \/ Reload(d) \/ RemoteInfo(d)
      PROVE  UNCHANGED <<placed, place, beside>>
  BY <1>1 DEF Quit, LocalSwipe, OnStitched, OnUnstitched, Drop, RemoteDisconnected, Reload,
              RemoteInfo, masterVars
<1>2. ASSUME NEW i \in 1..Len(swipes), Expire(i)
      PROVE  UNCHANGED <<placed, place, beside>>
  BY <1>2 DEF Expire
<1>3. ASSUME UNCHANGED vars
      PROVE  UNCHANGED <<placed, place, beside>>
  BY <1>3 DEF vars, masterVars
<1>4. ASSUME NEW d \in Devices, DetectedSwipe(d)
      PROVE  \/ UNCHANGED <<placed, place, beside>>
             \/ \E o, n \in Devices : \E eo, en \in Edges : Stitches(o, eo, n, en)
  <2>1. \/ UNCHANGED <<placed, place, beside, down>>
        \/ \E o, n \in Devices : \E eo, en \in Edges : Stitches(o, eo, n, en)
    BY <1>4, DetectedDoes DEF Typed
  <2> QED
    BY <2>1
<1>5. ASSUME NEW e \in Devices, UnstitchDevice(e)
      PROVE  \/ UNCHANGED <<placed, place, beside>>
             \/ /\ e \in placed
                /\ placed' = placed \ {e}
                /\ place' = [place EXCEPT ![e] = Default(e)]
                /\ beside' = [d \in Devices |->
                     IF d = e \/ beside[d].device = e THEN Nobody ELSE beside[d]]
  BY <1>5 DEF UnstitchDevice
<1> QED
  BY <1>1, <1>2, <1>3, <1>4, <1>5, StepCases

\* No device has a place initially.
LEMMA InitLaid == Init => OneGrid /\ AllCovered /\ NextToSomeone
BY DevicesAssumption DEF Init, OneGrid, AllCovered, NextToSomeone

\* A device that is not stitched lies at the origin of its own coordinates.
LEMMA DefaultLies ==
    ASSUME NEW d \in Devices
    PROVE  Lies(d, Default(d), d)
<1>1. Whole(d, 0)
  BY WholeLengths, WholeSums
<1>2. Width[d] \in Int /\ Height[d] \in Int /\ Unit \in Nat \ {0}
  BY DevicesAssumption, UnitAssumption
<1>3. Over(Width[d], Unit) = Width[d] /\ Over(Height[d], Unit) = Height[d]
  BY <1>2, DividesMultiple DEF Over
<1>4. /\ Default(d).x = 0 /\ Default(d).y = 0
      /\ Default(d).width = Width[d] /\ Default(d).height = Height[d]
      /\ Default(d).rotation = 0 /\ Default(d).scale = Unit
  BY DEF Default
<1>5. Covers(d, Default(d))
  BY <1>3, <1>4 DEF Covers, TurnedWidth, TurnedHeight
<1> QED
  BY <1>1, <1>4, <1>5, DefaultTyped DEF Lies

\* Stitched devices lie on one grid.
LEMMA AllLie ==
    ASSUME Typed, OneGrid, AllCovered
    PROVE  \E r \in Devices : \A d \in placed : Lies(d, place[d], r)
<1>1. PICK r \in Devices : \A d \in placed :
        /\ place[d].scale * PPI[r] = Unit * PPI[d]
        /\ Whole(r, place[d].x) /\ Whole(r, place[d].y)
  BY DEF OneGrid
<1>2. \A d \in placed : place[d] \in Transformation
  BY DEF Typed, TypeOK
<1> QED
  BY <1>1, <1>2 DEF Lies, AllCovered

\* A stitch extends the grid.
LEMMA StitchLaid ==
    ASSUME Laid, NEW o \in Devices, NEW eo \in Edges, NEW n \in Devices, NEW en \in Edges,
           Stitches(o, eo, n, en)
    PROVE  OneGrid' /\ AllCovered' /\ NextToSomeone'
<1> DEFINE t == Joined(o, eo, n, en)
           b == [device |-> o, theirs |-> SwipeOn(o, eo), mine |-> SwipeOn(n, en)]
<1>1. /\ o # n /\ n \notin placed
      /\ o \in placed \/ placed = {}
      /\ placed' = placed \cup {o, n}
      /\ place' = [place EXCEPT ![n] = t]
      /\ beside' = [beside EXCEPT ![n] = b]
  BY DEF Stitches
<1>2. /\ place \in [Devices -> Transformation] /\ placed \subseteq Devices
      /\ \A d \in Devices \ placed : place[d] = Default(d) /\ beside[d] = Nobody
      /\ DOMAIN beside = Devices
  BY DEF Laid, Typed, TypeOK
<1>3. \E r \in Devices : Lies(o, place[o], r) /\ \A d \in placed : Lies(d, place[d], r)
  <2>1. CASE o \in placed
    BY <2>1, AllLie DEF Laid
  <2>2. CASE placed = {}
    <3>1. place[o] = Default(o)
      BY <1>2, <2>2
    <3>2. Lies(o, place[o], o)
      BY <3>1, DefaultLies
    <3> QED
      BY <2>2, <3>2
  <2> QED
    BY <1>1, <2>1, <2>2
<1>4. PICK r \in Devices : Lies(o, place[o], r) /\ \A d \in placed : Lies(d, place[d], r)
  BY <1>3
<1>5. Lies(n, t, r)
  BY <1>4, JoinedLies
<1> HIDE DEF t, b
<1>6. /\ place'[n] = t /\ beside'[n] = b
      /\ \A d \in Devices \ {n} : place'[d] = place[d] /\ beside'[d] = beside[d]
  BY <1>1, <1>2
<1>7. \A d \in placed' : Lies(d, place'[d], r)
  <2>1. SUFFICES ASSUME NEW d \in placed'
                 PROVE  Lies(d, place'[d], r)
    OBVIOUS
  <2>2. CASE d = n
    BY <1>5, <1>6, <2>2
  <2>3. CASE d # n
    <3>1. place'[d] = place[d] /\ (d = o \/ d \in placed)
      BY <1>1, <1>2, <1>6, <2>1, <2>3
    <3> QED
      BY <1>4, <3>1
  <2> QED
    BY <2>2, <2>3
<1>8. OneGrid'
  BY <1>7 DEF OneGrid, Lies, Whole
<1>9. AllCovered'
  BY <1>7 DEF AllCovered, Lies, Covers, Over, TurnedWidth, TurnedHeight
<1>10. ASSUME NEW d \in placed', beside'[d] # Nobody
       PROVE  \E p \in placed' \ {d} : \E ep, ed \in Edges :
                /\ beside'[d] = [device |-> p, theirs |-> SwipeOn(p, ep), mine |-> SwipeOn(d, ed)]
                /\ place'[d] = NextTo(SwipeOn(p, ep), place'[p], SwipeOn(d, ed), PPI[p], PPI[d])
  <2>1. CASE d = n
    <3>1. place'[o] = place[o] /\ o \in placed' \ {d}
      BY <1>1, <1>6, <2>1
    <3>2. place'[d] = NextTo(SwipeOn(o, eo), place'[o], SwipeOn(d, en), PPI[o], PPI[d])
      BY <1>6, <2>1, <3>1 DEF t, Joined
    <3>3. beside'[d] = [device |-> o, theirs |-> SwipeOn(o, eo), mine |-> SwipeOn(d, en)]
      BY <1>6, <2>1 DEF b
    <3> QED
      BY <3>1, <3>2, <3>3
  <2>2. CASE d # n
    <3>1. d \in Devices /\ beside[d] # Nobody /\ beside'[d] = beside[d] /\ place'[d] = place[d]
      BY <1>1, <1>2, <1>6, <1>10, <2>2
    <3>2. d \in placed
      BY <1>2, <3>1
    <3>3. PICK p \in placed \ {d}, ep \in Edges, ed \in Edges :
            /\ beside[d] = [device |-> p, theirs |-> SwipeOn(p, ep), mine |-> SwipeOn(d, ed)]
            /\ place[d] = Joined(p, ep, d, ed)
      BY <3>1, <3>2 DEF Laid, NextToSomeone
    <3>4. place'[p] = place[p] /\ p \in placed' \ {d}
      BY <1>1, <1>2, <1>6, <3>3
    <3>5. place'[d] = NextTo(SwipeOn(p, ep), place'[p], SwipeOn(d, ed), PPI[p], PPI[d])
      BY <3>1, <3>3, <3>4 DEF Joined
    <3> QED
      BY <3>1, <3>3, <3>4, <3>5
  <2> QED
    BY <2>1, <2>2
<1>11. NextToSomeone'
  BY <1>10 DEF NextToSomeone, Joined, NextTo, SwipeOn, Nobody
<1> QED
  BY <1>8, <1>9, <1>11

\* A device that leaves takes its neighbours' memory of it along.
LEMMA UnstitchLaid ==
    ASSUME Laid, NEW e \in placed,
           placed' = placed \ {e},
           place' = [place EXCEPT ![e] = Default(e)],
           beside' = [d \in Devices |->
                        IF d = e \/ beside[d].device = e THEN Nobody ELSE beside[d]]
    PROVE  OneGrid' /\ AllCovered' /\ NextToSomeone'
<1>1. place \in [Devices -> Transformation] /\ placed \subseteq Devices
  BY DEF Laid, Typed, TypeOK
<1>2. \A d \in placed' : d \in placed /\ d # e /\ place'[d] = place[d]
  BY <1>1
<1>3. OneGrid'
  <2>1. PICK r \in Devices : \A d \in placed :
          /\ place[d].scale * PPI[r] = Unit * PPI[d]
          /\ Whole(r, place[d].x) /\ Whole(r, place[d].y)
    BY DEF Laid, OneGrid
  <2> QED
    BY <1>2, <2>1 DEF OneGrid, Whole
<1>4. AllCovered'
  BY <1>2 DEF Laid, AllCovered, Covers, Over, TurnedWidth, TurnedHeight
<1>5. ASSUME NEW d \in placed', beside'[d] # Nobody
      PROVE  \E p \in placed' \ {d} : \E ep, ed \in Edges :
               /\ beside'[d] = [device |-> p, theirs |-> SwipeOn(p, ep), mine |-> SwipeOn(d, ed)]
               /\ place'[d] = NextTo(SwipeOn(p, ep), place'[p], SwipeOn(d, ed), PPI[p], PPI[d])
  <2>1. d \in placed /\ d \in Devices /\ beside'[d] = beside[d] /\ beside[d].device # e
        /\ place'[d] = place[d]
    BY <1>1, <1>2, <1>5
  <2>2. PICK p \in placed \ {d}, ep \in Edges, ed \in Edges :
            /\ beside[d] = [device |-> p, theirs |-> SwipeOn(p, ep), mine |-> SwipeOn(d, ed)]
            /\ place[d] = Joined(p, ep, d, ed)
    BY <1>5, <2>1 DEF Laid, NextToSomeone
  <2>3. p # e
    BY <2>1, <2>2
  <2>4. p \in placed' \ {d} /\ place'[p] = place[p]
    BY <1>1, <2>2, <2>3
  <2>5. place'[d] = NextTo(SwipeOn(p, ep), place'[p], SwipeOn(d, ed), PPI[p], PPI[d])
    BY <2>1, <2>2, <2>4 DEF Joined
  <2> QED
    BY <2>1, <2>2, <2>4, <2>5
<1>6. NextToSomeone'
  BY <1>5 DEF NextToSomeone, Joined, NextTo, SwipeOn, Nobody
<1> QED
  BY <1>3, <1>4, <1>6

\* In every reachable state the stitched devices lie on one grid, each where
\* its swipe put it next to one that is still there.
THEOREM AlwaysLaid == Spec => []Laid
<1>1. Init => Laid
  BY InitTyped, InitLaid DEF Laid
<1>2. ASSUME Laid, [Next]_vars, Typed'
      PROVE  Laid'
  <2>1. Typed
    BY <1>2 DEF Laid
  <2>2. CASE UNCHANGED <<placed, place, beside>>
    <3>1. OneGrid' /\ AllCovered'
      BY <1>2, <2>2 DEF Laid, OneGrid, AllCovered, Covers, Whole, TurnedWidth, TurnedHeight, Over
    <3>2. NextToSomeone'
      <4>1. NextToSomeone
        BY <1>2 DEF Laid
      <4> QED
        BY <2>2, <4>1 DEF NextToSomeone, Joined
    <3> QED
      BY <1>2, <3>1, <3>2 DEF Laid
  <2>3. CASE \E o, n \in Devices : \E eo, en \in Edges : Stitches(o, eo, n, en)
    BY <1>2, <2>3, StitchLaid DEF Laid
  <2>4. CASE \E e \in placed :
               /\ placed' = placed \ {e}
               /\ place' = [place EXCEPT ![e] = Default(e)]
               /\ beside' = [d \in Devices |->
                    IF d = e \/ beside[d].device = e THEN Nobody ELSE beside[d]]
    BY <1>2, <2>4, UnstitchLaid DEF Laid
  <2> QED
    BY <1>2, <2>1, <2>2, <2>3, <2>4, PlacesChange
<1> QED
  BY <1>1, <1>2, AlwaysTyped, PTL DEF Spec

\* The global coordinates fit the table: the ends of the two swipes of a stitch
\* are the same point, and the viewports of the neighbours do not overlap,
\* however both are turned and whatever their scales are.
THEOREM NeighboursFit == Spec => []NeighboursTouch
<1>1. ASSUME Laid
      PROVE  NeighboursTouch
  <2>1. SUFFICES ASSUME NEW d \in placed, beside[d].device # NoDevice
                 PROVE  /\ ToGlobal(EndOf(beside[d].mine), place[d])
                             = ToGlobal(EndOf(beside[d].theirs), place[beside[d].device])
                        /\ Apart(ToGlobal(Viewport(d), place[d]),
                                 ToGlobal(Viewport(beside[d].device), place[beside[d].device]))
    BY DEF NeighboursTouch
  <2>2. placed \subseteq Devices
    BY <1>1 DEF Laid, Typed, TypeOK
  <2>3. beside[d] # Nobody
    BY <2>1 DEF Nobody
  <2>4. PICK o \in placed \ {d}, eo \in Edges, en \in Edges :
            /\ beside[d] = [device |-> o, theirs |-> SwipeOn(o, eo), mine |-> SwipeOn(d, en)]
            /\ place[d] = Joined(o, eo, d, en)
    BY <1>1, <2>3 DEF Laid, NextToSomeone
  <2>5. PICK r \in Devices : \A e \in placed : Lies(e, place[e], r)
    BY <1>1, AllLie DEF Laid
  <2>6. /\ ToGlobal(EndOf(SwipeOn(d, en)), place[d]) = ToGlobal(EndOf(SwipeOn(o, eo)), place[o])
        /\ Apart(ToGlobal(Viewport(d), place[d]), ToGlobal(Viewport(o), place[o]))
    BY <2>2, <2>4, <2>5, JoinedTouches
  <2> QED
    BY <2>4, <2>6
<1> QED
  BY <1>1, AlwaysLaid, PTL

-----------------------------------------------------------------------------
(* From a device to the global coordinates and back.                       *)

\* The length l of a device with scale s is the whole number q in the global
\* coordinates.
Corresponds(l, q, s) == l \in Int /\ q \in Int /\ q * s = l * Unit

\* Then it is scaled back and forth.
LEMMA ScaledBack ==
    ASSUME NEW s \in Nat \ {0}, NEW l, NEW q, Corresponds(l, q, s)
    PROVE  l \in Int /\ q \in Int /\ Over(l, s) = q /\ Times(q, s) = l
<1>1. Unit \in Nat \ {0} /\ l \in Int /\ q \in Int /\ q * s = l * Unit
  BY UnitAssumption DEF Corresponds
<1>2. (l * Unit) \div s = q
  <2>1. (q * s) \div s = q
    BY <1>1, DividesMultiple
  <2> QED
    BY <1>1, <2>1
<1>3. (q * s) \div Unit = l
  <2>1. (l * Unit) \div Unit = l
    BY <1>1, DividesMultiple
  <2> QED
    BY <1>1, <2>1
<1> QED
  BY <1>1, <1>2, <1>3 DEF Over, Times

\* So do sums and differences.
LEMMA ScaledSum ==
    ASSUME NEW s \in Nat \ {0}, NEW a, NEW b, NEW p, NEW q,
           Corresponds(a, p, s), Corresponds(b, q, s)
    PROVE  Corresponds(a + b, p + q, s) /\ Corresponds(a - b, p - q, s)
<1>1. /\ a \in Int /\ b \in Int /\ p \in Int /\ q \in Int /\ Unit \in Int /\ s \in Int
      /\ p * s = a * Unit /\ q * s = b * Unit
  BY UnitAssumption DEF Corresponds
<1>2. (p + q) * s = (a + b) * Unit /\ (p - q) * s = (a - b) * Unit
  BY <1>1
<1> QED
  BY <1>1, <1>2 DEF Corresponds

\* A transformation whose lengths are whole numbers on its device.
WholeOn(t) ==
    \A k \in {"x", "y", "width", "height"} : (t[k] * t.scale) % Unit = 0

\* A rectangle on that device whose lengths are whole numbers in the global
\* coordinates.
WholeIn(l, t) ==
    \A k \in {"x", "y", "width", "height"} : (l[k] * Unit) % t.scale = 0

\* The same for the sides of a rectangle.
AllCorrespond(r, o, s) ==
    /\ Corresponds(r.x, o.x, s) /\ Corresponds(r.y, o.y, s)
    /\ Corresponds(r.width, o.width, s) /\ Corresponds(r.height, o.height, s)

\* Where a rectangle is when it is moved and shrunk.
LEMMA PlacedIs ==
    ASSUME NEW t \in Transformation, NEW r \in Rectangle, NEW o,
           Corresponds(Times(t.x, t.scale), t.x, t.scale),
           Corresponds(Times(t.y, t.scale), t.y, t.scale),
           AllCorrespond(r, o, t.scale)
    PROVE  Shrink([r EXCEPT !.x = r.x + Times(t.x, t.scale),
                            !.y = r.y + Times(t.y, t.scale)], t.scale)
             = [x |-> o.x + t.x, y |-> o.y + t.y, width |-> o.width, height |-> o.height]
<1> DEFINE s == t.scale
           X == Times(t.x, s)
           Y == Times(t.y, s)
<1>1. /\ s \in Nat \ {0} /\ Corresponds(X, t.x, s) /\ Corresponds(Y, t.y, s)
      /\ AllCorrespond(r, o, s)
  BY DEF Transformation
<1> HIDE DEF s, X, Y
<1> DEFINE g == [r EXCEPT !.x = r.x + X, !.y = r.y + Y]
<1>2. Corresponds(r.x + X, o.x + t.x, s) /\ Corresponds(r.y + Y, o.y + t.y, s)
  BY <1>1, ScaledSum DEF AllCorrespond
<1>3. /\ r.x + X \in Int /\ r.y + Y \in Int
      /\ Over(r.x + X, s) = o.x + t.x /\ Over(r.y + Y, s) = o.y + t.y
      /\ Over(r.width, s) = o.width /\ Over(r.height, s) = o.height
  BY <1>1, <1>2, ScaledBack DEF AllCorrespond
<1>4. g = [x |-> r.x + X, y |-> r.y + Y, width |-> r.width, height |-> r.height]
  BY <1>3, MovedIs
<1>5. r.width \in Int /\ r.height \in Int
  BY DEF Rectangle
<1>6. /\ g \in Rectangle
      /\ g.x = r.x + X /\ g.y = r.y + Y /\ g.width = r.width /\ g.height = r.height
  <2> HIDE DEF g
  <2> QED
    BY <1>3, <1>4, <1>5 DEF Rectangle
<1> HIDE DEF g
<1>7. Shrink(g, s) = [x |-> Over(g.x, s), y |-> Over(g.y, s),
                      width |-> Over(g.width, s), height |-> Over(g.height, s)]
  BY <1>1, <1>6, ShrinkIs
<1>8. Shrink(g, s) = [x |-> o.x + t.x, y |-> o.y + t.y, width |-> o.width, height |-> o.height]
  BY <1>3, <1>6, <1>7
<1> QED
  BY <1>8 DEF g, s, X, Y

\* CWLocation._toLocal undoes _toGlobal, for each of the rotations and wherever
\* the device lies, while no division on the way leaves a rest (the code computes
\* with fractions): a location that a device sends in global coordinates and
\* reads again is the one it had.
THEOREM LocalUndoesGlobal ==
    ASSUME NEW t \in Transformation, WholeOn(t), NEW l \in Rectangle, WholeIn(l, t)
    PROVE  ToLocal(ToGlobal(l, t), t) = l
<1> DEFINE s == t.scale
           X == Times(t.x, s)
           Y == Times(t.y, s)
           W == Times(t.width, s)
           H == Times(t.height, s)
           x == Over(l.x, s)
           y == Over(l.y, s)
           w == Over(l.width, s)
           h == Over(l.height, s)
<1>1. /\ s \in Nat \ {0} /\ Unit \in Nat \ {0} /\ t.rotation \in Rotations
      /\ t.x \in Int /\ t.y \in Int /\ t.width \in Int /\ t.height \in Int
      /\ l.x \in Int /\ l.y \in Int /\ l.width \in Int /\ l.height \in Int
  BY UnitAssumption DEF Transformation, Rectangle
<1>2. l = [x |-> l.x, y |-> l.y, width |-> l.width, height |-> l.height]
  BY DEF Rectangle
<1>3. /\ (t.x * s) % Unit = 0 /\ (t.y * s) % Unit = 0
      /\ (t.width * s) % Unit = 0 /\ (t.height * s) % Unit = 0
  BY DEF WholeOn
<1>4. /\ (l.x * Unit) % s = 0 /\ (l.y * Unit) % s = 0
      /\ (l.width * Unit) % s = 0 /\ (l.height * Unit) % s = 0
  BY DEF WholeIn
<1> HIDE DEF s
<1>5. ASSUME NEW a \in Int, (a * s) % Unit = 0
      PROVE  Corresponds(Times(a, s), a, s)
  <2>1. a * s \in Int
    BY <1>1
  <2> QED
    BY <1>1, <1>5, <2>1, Divides DEF Times, Corresponds
<1>6. ASSUME NEW a \in Int, (a * Unit) % s = 0
      PROVE  Corresponds(a, Over(a, s), s)
  <2>1. a * Unit \in Int
    BY <1>1
  <2> QED
    BY <1>1, <1>6, <2>1, Divides DEF Over, Corresponds
<1>7. /\ Corresponds(X, t.x, s) /\ Corresponds(Y, t.y, s)
      /\ Corresponds(W, t.width, s) /\ Corresponds(H, t.height, s)
  BY <1>1, <1>3, <1>5
<1>8. /\ Corresponds(l.x, x, s) /\ Corresponds(l.y, y, s)
      /\ Corresponds(l.width, w, s) /\ Corresponds(l.height, h, s)
  BY <1>1, <1>4, <1>6
<1> HIDE DEF X, Y, W, H, x, y, w, h
<1>9. /\ X \in Int /\ Y \in Int /\ x \in Int /\ y \in Int /\ w \in Int /\ h \in Int
      /\ Times(x, s) = l.x /\ Times(y, s) = l.y
      /\ Times(w, s) = l.width /\ Times(h, s) = l.height
  BY <1>1, <1>7, <1>8, ScaledBack
<1>10. /\ Corresponds(W - l.x - l.width, t.width - x - w, s)
       /\ Corresponds(H - l.x - l.width, t.height - x - w, s)
       /\ Corresponds(W - l.y - l.height, t.width - y - h, s)
       /\ Corresponds(H - l.y - l.height, t.height - y - h, s)
  BY <1>1, <1>7, <1>8, ScaledSum
<1>11. ASSUME NEW r, r = [x |-> x, y |-> y, width |-> w, height |-> h]
       PROVE  [k \in DOMAIN r |-> Times(r[k], s)] = l
  <2>1. DOMAIN r = {"x", "y", "width", "height"}
    BY <1>11
  <2> QED
    BY <1>2, <1>9, <1>11, <2>1
<1> DEFINE rotated == CASE t.rotation = 0 -> l
               [] t.rotation = 90 ->
                    [x |-> l.y, y |-> H - l.x - l.width,
                     width |-> l.height, height |-> l.width]
               [] t.rotation = 180 ->
                    [x |-> W - l.x - l.width, y |-> H - l.y - l.height,
                     width |-> l.width, height |-> l.height]
               [] t.rotation = 270 ->
                    [x |-> W - l.y - l.height, y |-> l.x,
                     width |-> l.height, height |-> l.width]
<1>12. ToGlobal(l, t) = Shrink([rotated EXCEPT !.x = rotated.x + X, !.y = rotated.y + Y], s)
  BY DEF ToGlobal, s, X, Y, W, H
<1> HIDE DEF rotated
<1>13. ASSUME NEW o, rotated \in Rectangle, AllCorrespond(rotated, o, s)
       PROVE  ToGlobal(l, t) = [x |-> o.x + t.x, y |-> o.y + t.y,
                                width |-> o.width, height |-> o.height]
  BY <1>7, <1>12, <1>13, PlacedIs DEF s, X, Y
<1>14. CASE t.rotation = 0
  <2>1. rotated = [x |-> l.x, y |-> l.y,
                  width |-> l.width, height |-> l.height]
    BY <1>2, <1>14 DEF rotated
  <2>2. /\ rotated.x = l.x /\ rotated.y = l.y
        /\ rotated.width = l.width /\ rotated.height = l.height
    BY <2>1
  <2> DEFINE o == [x |-> x, y |-> y, width |-> w, height |-> h]
  <2>3. AllCorrespond(rotated, o, s)
    BY <1>8, <1>10, <2>2 DEF AllCorrespond
  <2>4. rotated \in Rectangle
    BY <2>1, <2>2, <2>3 DEF Rectangle, Corresponds, AllCorrespond
  <2>5. ToGlobal(l, t) = [x |-> x + t.x, y |-> y + t.y,
                          width |-> w, height |-> h]
    BY <1>13, <2>3, <2>4
  <2> QED
    BY <1>1, <1>9, <1>11, <1>14, <2>5 DEF ToLocal, s
<1>15. CASE t.rotation = 90
  <2>1. rotated = [x |-> l.y, y |-> H - l.x - l.width,
                  width |-> l.height, height |-> l.width]
    BY <1>2, <1>15 DEF rotated
  <2>2. /\ rotated.x = l.y /\ rotated.y = H - l.x - l.width
        /\ rotated.width = l.height /\ rotated.height = l.width
    BY <2>1
  <2> DEFINE o == [x |-> y, y |-> t.height - x - w, width |-> h, height |-> w]
  <2>3. AllCorrespond(rotated, o, s)
    BY <1>8, <1>10, <2>2 DEF AllCorrespond
  <2>4. rotated \in Rectangle
    BY <2>1, <2>2, <2>3 DEF Rectangle, Corresponds, AllCorrespond
  <2>5. ToGlobal(l, t) = [x |-> y + t.x, y |-> t.height - x - w + t.y,
                          width |-> h, height |-> w]
    BY <1>13, <2>3, <2>4
  <2> QED
    BY <1>1, <1>9, <1>11, <1>15, <2>5 DEF ToLocal, s
<1>16. CASE t.rotation = 180
  <2>1. rotated = [x |-> W - l.x - l.width, y |-> H - l.y - l.height,
                  width |-> l.width, height |-> l.height]
    BY <1>2, <1>16 DEF rotated
  <2>2. /\ rotated.x = W - l.x - l.width /\ rotated.y = H - l.y - l.height
        /\ rotated.width = l.width /\ rotated.height = l.height
    BY <2>1
  <2> DEFINE o == [x |-> t.width - x - w, y |-> t.height - y - h, width |-> w, height |-> h]
  <2>3. AllCorrespond(rotated, o, s)
    BY <1>8, <1>10, <2>2 DEF AllCorrespond
  <2>4. rotated \in Rectangle
    BY <2>1, <2>2, <2>3 DEF Rectangle, Corresponds, AllCorrespond
  <2>5. ToGlobal(l, t) = [x |-> t.width - x - w + t.x, y |-> t.height - y - h + t.y,
                          width |-> w, height |-> h]
    BY <1>13, <2>3, <2>4
  <2> QED
    BY <1>1, <1>9, <1>11, <1>16, <2>5 DEF ToLocal, s
<1>17. CASE t.rotation = 270
  <2>1. rotated = [x |-> W - l.y - l.height, y |-> l.x,
                  width |-> l.height, height |-> l.width]
    BY <1>2, <1>17 DEF rotated
  <2>2. /\ rotated.x = W - l.y - l.height /\ rotated.y = l.x
        /\ rotated.width = l.height /\ rotated.height = l.width
    BY <2>1
  <2> DEFINE o == [x |-> t.width - y - h, y |-> x, width |-> h, height |-> w]
  <2>3. AllCorrespond(rotated, o, s)
    BY <1>8, <1>10, <2>2 DEF AllCorrespond
  <2>4. rotated \in Rectangle
    BY <2>1, <2>2, <2>3 DEF Rectangle, Corresponds, AllCorrespond
  <2>5. ToGlobal(l, t) = [x |-> t.width - y - h + t.x, y |-> x + t.y,
                          width |-> h, height |-> w]
    BY <1>13, <2>3, <2>4
  <2> QED
    BY <1>1, <1>9, <1>11, <1>17, <2>5 DEF ToLocal, s
<1> QED
  BY <1>1, <1>14, <1>15, <1>16, <1>17 DEF Rotations

=============================================================================
