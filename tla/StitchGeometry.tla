--------------------------- MODULE StitchGeometry ---------------------------
(***************************************************************************)
(* The coordinates of stitched devices: how CWStitchManager places a       *)
(* device next to another one from the two halves of a swipe, and how      *)
(* CWLocation converts between the coordinates of a device and the global  *)
(* ones.  The two share no code; what they agree on is the device          *)
(* transformation [x, y, width, height, rotation, scale].                  *)
(*                                                                         *)
(* Lengths are integers.  A scale is kept as a multiple of 1/Unit, and     *)
(* lengths are such that every scale divides them (ExactUnits of           *)
(* Stitching), so that the divisions below are as exact as the code's.     *)
(***************************************************************************)
EXTENDS Integers

CONSTANT Unit  \* the scale 1.0

ASSUME UnitAssumption == Unit \in Nat \ {0}

Edges == {"top", "left", "bottom", "right"}
Rotations == {0, 90, 180, 270}

Transformation == [x : Int, y : Int, width : Int, height : Int,
                   rotation : Rotations, scale : Nat \ {0}]

Times(length, scale) == (length * scale) \div Unit
Over(length, scale) == (length * Unit) \div scale

\* l with all its lengths divided by a scale.
Shrink(l, scale) == [k \in DOMAIN l |-> Over(l[k], scale)]

IndexForEdge(edge) ==
    [top |-> 0, left |-> 1, bottom |-> 2, right |-> 3][edge]

\* Broken variant: the difference of the edges is taken the other way round.
RelativeRotationSwapped(stitchedEdge, newEdge) ==
    LET index == (IndexForEdge(newEdge) - IndexForEdge(stitchedEdge)) % 4
    IN  <<180, 270, 0, 90>>[index + 1]

\* How far a device is turned against the one it is stitched to.
RelativeRotation(stitchedEdge, newEdge) ==
    LET index == (IndexForEdge(stitchedEdge) - IndexForEdge(newEdge)) % 4
    IN  <<180, 270, 0, 90>>[index + 1]

\* rotateSwipe: where a swipe ended, and the viewport of its device, seen on
\* a device that is not rotated.
RotateSwipe(s, rotation) ==
    CASE rotation = 0 ->
           [x |-> s.x, y |-> s.y, width |-> s.width, height |-> s.height]
      [] rotation = 90 ->
           [x |-> s.y, y |-> s.width - s.x,
            width |-> s.height, height |-> s.width]
      [] rotation = 180 ->
           [x |-> s.width - s.x, y |-> s.height - s.y,
            width |-> s.width, height |-> s.height]
      [] rotation = 270 ->
           [x |-> s.height - s.y, y |-> s.x,
            width |-> s.height, height |-> s.width]

\* Broken variant: the scale of the reference device is left out.
NewScaleUnchained(newPPI, stitchedPPI, scale) == (newPPI * Unit) \div stitchedPPI

NewScale(newPPI, stitchedPPI, scale) == (newPPI * scale) \div stitchedPPI

\* The transformation of the device of swipe n next to the device of swipe s,
\* which has transformation t.
NextTo(s, t, n, stitchedPPI, newPPI) ==
    LET scale == NewScale(newPPI, stitchedPPI, t.scale)
        rotation == (RelativeRotation(s.edge, n.edge) + t.rotation) % 360
        there == Shrink(RotateSwipe(s, t.rotation), t.scale)
        here == Shrink(RotateSwipe(n, rotation), scale)
    IN  [x |-> t.x + there.x - here.x, y |-> t.y + there.y - here.y,
         width |-> here.width, height |-> here.height,
         rotation |-> rotation, scale |-> scale]

-----------------------------------------------------------------------------
(* CWLocation: rectangles, and points as rectangles of size 0.             *)

Rectangle == [x : Int, y : Int, width : Int, height : Int]

\* CWLocation._toGlobal on a device with transformation t.
ToGlobal(l, t) ==
    LET w == Times(t.width, t.scale)
        h == Times(t.height, t.scale)
        r == CASE t.rotation = 0 -> l
               [] t.rotation = 90 ->
                    [x |-> l.y, y |-> h - l.x - l.width,
                     width |-> l.height, height |-> l.width]
               [] t.rotation = 180 ->
                    [x |-> w - l.x - l.width, y |-> h - l.y - l.height,
                     width |-> l.width, height |-> l.height]
               [] t.rotation = 270 ->
                    [x |-> w - l.y - l.height, y |-> l.x,
                     width |-> l.height, height |-> l.width]
    IN  Shrink([r EXCEPT !.x = @ + Times(t.x, t.scale),
                         !.y = @ + Times(t.y, t.scale)], t.scale)

\* CWLocation._toLocal on a device with transformation t.
ToLocal(g, t) ==
    LET x == g.x - t.x
        y == g.y - t.y
        r == CASE t.rotation = 0 ->
                    [x |-> x, y |-> y, width |-> g.width, height |-> g.height]
               [] t.rotation = 90 ->
                    [x |-> t.height - (y + g.height), y |-> x,
                     width |-> g.height, height |-> g.width]
               [] t.rotation = 180 ->
                    [x |-> t.width - (x + g.width),
                     y |-> t.height - (y + g.height),
                     width |-> g.width, height |-> g.height]
               [] t.rotation = 270 ->
                    [x |-> y, y |-> t.width - (x + g.width),
                     width |-> g.height, height |-> g.width]
    IN  [k \in DOMAIN r |-> Times(r[k], t.scale)]

\* Broken variant: the translation is scaled with the rest.
OnWasStitchedShifted(g, t) ==
    Shrink([g EXCEPT !.x = @ + t.x, !.y = @ + t.y], t.scale)

\* What the handlers of a location do to it when its device is stitched, and
\* when it is unstitched, with transformation t.
OnWasStitched(g, t) ==
    LET r == Shrink(g, t.scale)
    IN  [r EXCEPT !.x = @ + t.x, !.y = @ + t.y]

OnWasUnstitched(g, t) ==
    LET r == [g EXCEPT !.x = @ - t.x, !.y = @ - t.y]
    IN  [k \in DOMAIN r |-> Times(r[k], t.scale)]

=============================================================================
