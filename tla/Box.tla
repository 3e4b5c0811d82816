-------------------------------- MODULE Box --------------------------------
(***************************************************************************)
(* The rectangles of geom/box: x0 <= x < x1 and y0 <= y < y1, y upwards.   *)
(* A box with no point in it is empty, however its corners lie.            *)
(***************************************************************************)
EXTENDS Integers

box(x0, y0, x1, y1) == [x0 |-> x0, y0 |-> y0, x1 |-> x1, y1 |-> y1]

Lesser(a, b) == IF a < b THEN a ELSE b
Greater(a, b) == IF a > b THEN a ELSE b

is_empty(b) == b.x0 >= b.x1 \/ b.y0 >= b.y1

contains_point(b, x, y) == x >= b.x0 /\ x < b.x1 /\ y >= b.y0 /\ y < b.y1

contains_box(inner, outer) ==
  /\ inner.x0 >= outer.x0 /\ inner.y0 >= outer.y0
  /\ inner.x1 <= outer.x1 /\ inner.y1 <= outer.y1

could_hold(b, w, h) == b.x1 - b.x0 >= w /\ b.y1 - b.y0 >= h

intersects(a, b) ==
  /\ a.x0 < b.x1 /\ a.x1 > b.x0
  /\ a.y0 < b.y1 /\ a.y1 > b.y0

intersection(a, b) ==
  box(Greater(a.x0, b.x0), Greater(a.y0, b.y0),
      Lesser(a.x1, b.x1), Lesser(a.y1, b.y1))

union(a, b) ==
  box(Lesser(a.x0, b.x0), Lesser(a.y0, b.y0),
      Greater(a.x1, b.x1), Greater(a.y1, b.y1))

grow(b, change) ==
  box(b.x0 - change, b.y0 - change, b.x1 + change, b.y1 + change)

translated(b, x, y) == box(b.x0 + x, b.y0 + y, b.x1 + x, b.y1 + y)

\* How much of b lies outside a, on each side.
clipped(a, b) ==
  box(Greater(a.x0 - b.x0, 0), Greater(a.y0 - b.y0, 0),
      Greater(b.x1 - a.x1, 0), Greater(b.y1 - a.y1, 0))

\* Clearing the low bits of a two's complement number rounds it down.
RoundedDown(n, unit) == (n \div unit) * unit
RoundedUp(n, unit) == ((n + unit - 1) \div unit) * unit

round(b, log2x, log2y) ==
  box(RoundedDown(b.x0, 2 ^ log2x), RoundedDown(b.y0, 2 ^ log2y),
      RoundedUp(b.x1, 2 ^ log2x), RoundedUp(b.y1, 2 ^ log2y))

round4(b) == round(b, 2, 2)

=============================================================================
