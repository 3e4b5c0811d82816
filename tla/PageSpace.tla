----------------------------- MODULE PageSpace -----------------------------
(***************************************************************************)
(* What a packer is to its clients, as geom/packer.h has it but for one    *)
(* call: a page with some rectangles taken from it.  A rectangle is free   *)
(* when it crosses none of those.  A box is refused only when no place     *)
(* inside the margins is free for it, and it is put against the edge the   *)
(* caller asked for.  packer_place_at is to ignore the margins there, and  *)
(* does not in packer.c: it is here as the code has it.                    *)
(***************************************************************************)
EXTENDS Box

CONSTANTS
  Page,        \* the page
  Locs,        \* the corners boxes may be put towards
  Sizes,       \* the widths and heights asked for
  Areas,       \* the areas clients take by position
  ClearDirs    \* the sides a line may be cleared on

VARIABLES
  taken,     \* the rectangles taken
  margins,   \* where boxes may be placed
  short,     \* memory has run out during a call: space may have been lost
  reply      \* what the last call asked for, and the answer to it

vars == <<taken, margins, short, reply>>

Done == [result |-> "OK", asked |-> <<>>, pos |-> {}]
Answers(result, pos) == reply'.result = result /\ reply'.pos = pos

Free(b) == \A t \in taken : ~ intersects(b, t)

Places(w, h) ==
  {b \in {box(x, y, x + w, y + h) : x \in Page.x0 .. Page.x1 - w,
                                    y \in Page.y0 .. Page.y1 - h} :
     contains_box(b, margins) /\ Free(b)}

IsTop(loc) == loc \in {"TOP_LEFT", "TOP_RIGHT"}
IsLeft(loc) == loc \in {"TOP_LEFT", "BOTTOM_LEFT"}

\* Boxes go to the highest or lowest place, and to the side asked for where
\* the margins do not cut the page at that edge.
Flush(loc) ==
  IF IsTop(loc) THEN margins.y1 >= Page.y1 ELSE margins.y0 <= Page.y0

Best(b, S, loc) ==
  /\ \A c \in S : IF IsTop(loc) THEN c.y1 <= b.y1 ELSE c.y0 >= b.y0
  /\ Flush(loc) =>
       \A c \in S : c.y0 = b.y0 =>
         IF IsLeft(loc) THEN c.x0 >= b.x0 ELSE c.x1 <= b.x1

\* The strip above the highest place a new line can begin, or all of it.
LineStarts(dir) ==
  CASE dir = "LEFT"  -> {b \in Places(1, 1) : b.x0 = margins.x0}
    [] dir = "RIGHT" -> {b \in Places(1, 1) : b.x1 = margins.x1}
    [] dir = "BOTH"  -> Places(margins.x1 - margins.x0, 1)

Cleared(dir) ==
  IF LineStarts(dir) = {} THEN margins
  ELSE LET top == CHOOSE b \in LineStarts(dir) :
                    \A c \in LineStarts(dir) : c.y1 <= b.y1
       IN [margins EXCEPT !.y0 = top.y1]

-----------------------------------------------------------------------------

Init ==
  /\ taken = {}
  /\ margins = Page
  /\ short = FALSE
  /\ reply = Done

SetMargins ==
  /\ margins' \in [x0 : Int, y0 : Int, x1 : Int, y1 : Int]
  /\ ~ is_empty(margins')
  /\ reply' = Done
  /\ UNCHANGED <<taken, short>>

\* A call that takes the area a, or runs out of memory and takes nothing.
Take(a, pos) ==
  /\ \/ taken' = taken \cup {a} /\ Answers("OK", pos) /\ UNCHANGED short
     \/ Answers("OOM", {}) /\ short' = TRUE /\ UNCHANGED taken
  /\ UNCHANGED margins

\* Of an area only what is inside the margins is taken (packer.c:403); see
\* PlaceAtIgnoresMargins of Packer for what packer.h says.
PlaceAt(area) ==
  /\ reply'.asked = <<"place_at", area>>
  /\ LET a == intersection(margins, area)
     IN IF is_empty(a) THEN Answers("EMPTY", {}) /\ UNCHANGED <<taken, margins, short>>
                       ELSE Take(a, {})

PlaceBy(loc, w, h) ==
  /\ reply'.asked = <<"place_by", loc, w, h>>
  /\ \/ /\ w = 0 \/ h = 0
        /\ Answers("EMPTY", {})
        /\ UNCHANGED <<taken, margins, short>>
     \/ /\ w > 0 /\ h > 0
        /\ short \/ Places(w, h) = {}
        /\ Answers("DIDNT_FIT", {})
        /\ UNCHANGED <<taken, margins, short>>
     \/ /\ w > 0 /\ h > 0
        /\ \E b \in Places(w, h) :
             /\ short \/ Best(b, Places(w, h), loc)
             /\ Take(b, {b})

Clear(dir) ==
  /\ reply'.asked = <<"clear", dir>>
  /\ \/ ~ short /\ Take(Cleared(dir), {})
     \/ short /\ \E y \in margins.y0 .. margins.y1 :
                   Take([margins EXCEPT !.y0 = y], {})

Next ==
  \/ SetMargins
  \/ \E area \in Areas : PlaceAt(area)
  \/ \E loc \in Locs, w, h \in Sizes : PlaceBy(loc, w, h)
  \/ \E dir \in ClearDirs : Clear(dir)

Spec == Init /\ [][Next]_vars

=============================================================================
