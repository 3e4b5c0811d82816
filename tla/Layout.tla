------------------------------- MODULE Layout -------------------------------
(***************************************************************************)
(* geom/layout: layout_place puts boxes of given least and greatest widths *)
(* on lines, using a packer from which the client may have taken areas     *)
(* already.  A step is one pass of the loop up to its next packer call.    *)
(*                                                                         *)
(* chosen_width has ChosenRoom places and its index is not checked: no     *)
(* list of elements given here is longer.                                  *)
(***************************************************************************)
EXTENDS Packer

CONSTANTS
  ElementLists,   \* the lists of elements clients lay out
  LayoutLocs,     \* the values of spec->loc
  Spacings,       \* the values of spec->spacing and spec->leading
  BoxRoom,        \* the values of nboxes
  MaxObstacles,   \* bound: areas taken before layout_place is called
  ChosenRoom      \* the length of chosen_width

VARIABLES
  pc,            \* what layout_place does next; "client" before it is called
  spec,          \* the arguments of the call
  i, first, k,   \* its indices, from 1
  nextw, clear,
  chosen_width,
  boxes          \* the boxes written to the client's array

Elements ==
  {[type |-> "NEWLINE"]} \cup [type : {"BOX"}, min : Nat, max : Nat, height : Nat]

\* What the constants are: boxes whose least width is not above their greatest,
\* and all the lengths that layout_place comes by.
LayoutFits ==
  /\ PackerFits
  /\ ElementLists \subseteq Seq(Elements)
  /\ LayoutLocs \subseteq Locs
  /\ Spacings \subseteq Lengths
  /\ 0 .. Page.x1 - Page.x0 \subseteq Lengths
  /\ \A es \in ElementLists : \A n \in 1 .. Len(es) :
       es[n].type = "BOX" =>
         /\ es[n].min <= es[n].max
         /\ 0 .. es[n].max \subseteq Lengths /\ es[n].height \in Lengths

layoutVars == <<pc, spec, i, first, k, nextw, clear, chosen_width, boxes>>
allVars == <<vars, layoutVars>>

Newline == [type |-> "NEWLINE"]
BoxElement(min, max, height) ==
  [type |-> "BOX", min |-> min, max |-> max, height |-> height]

N == Len(spec.elements)
IsBox(n) == spec.elements[n].type = "BOX"
Idle == [elements |-> <<>>]

LayoutInit ==
  /\ Init
  /\ pc = "client" /\ spec = Idle
  /\ i = 1 /\ first = 1 /\ k = 1
  /\ nextw = 0 /\ clear = FALSE
  /\ chosen_width = <<>> /\ boxes = <<>>

layout_place ==
  /\ pc = "client" /\ Cardinality(taken) <= MaxObstacles
  /\ \E es \in ElementLists, loc \in LayoutLocs, dir \in ClearDirs,
        s \in Spacings, room \in BoxRoom :
       /\ Len(es) <= ChosenRoom
       /\ spec' = [elements |-> es, loc |-> loc, clear |-> dir, spacing |-> s,
                   leading |-> s, nboxes |-> room]
       /\ chosen_width' = [n \in 1 .. Len(es) |-> 0]
       /\ pc' = IF es = <<>> THEN "done" ELSE "line"
  /\ UNCHANGED <<vars, i, first, k, nextw, clear, boxes>>

\* Mutant: only the padding is counted.
Need_SpacingOnly(n) == spec.spacing

\* The room the n-th element needs when it is not the first of its line.
Need(n) == spec.spacing + spec.elements[n].min

\* A turn of the loop that fits boxes on a line: the width of the next box is
\* chosen, and taken from the room left, unless the line is at its end.
Turn(T) ==
  LET n == T.next + 1
      width == Lesser(T.left, spec.elements[T.next].max)
      goes == n <= N /\ IsBox(n)
  IN IF ~ T.going \/ T.left < T.need THEN T
     ELSE [next   |-> n,
           widths |-> Append(T.widths, width),
           left   |-> T.left - width,
           need   |-> IF goes THEN Need(n) ELSE T.need,
           going  |-> goes]

\* How far a line that begins at start with the given room reaches, and the
\* widths chosen: the spaces between boxes are not taken from the room left.
LineFrom(start, room) ==
  LET turns[t \in 0 .. N] ==
        IF t = 0
        THEN [next |-> start, widths |-> <<>>, left |-> room,
              need |-> spec.elements[start].min, going |-> TRUE]
        ELSE Turn(turns[t - 1])
  IN turns[N]

\* Whether there is not the room that the next of the line's boxes needs.
Full(line) == line.left < line.need

\* After the line's boxes: clear it, begin the next, or return.
Onward(full, next) ==
  IF full THEN "clear" ELSE IF next > N THEN "done" ELSE "line"

BeginLine ==
  /\ pc = "line"
  /\ first' = i /\ k' = i
  /\ \E L \in packer_sort(spec.loc) :
       /\ areas' = L.areas
       /\ nextw' = NextWidth(L)
  /\ sorted' = TRUE /\ order' = spec.loc
  /\ IF IsBox(i)
     THEN LET line == LineFrom(i, nextw')
          IN /\ i' = line.next
             /\ clear' = Full(line)
             /\ chosen_width' = [n \in DOMAIN chosen_width |->
                  IF n \in i .. line.next - 1 THEN line.widths[n - i + 1]
                                              ELSE chosen_width[n]]
             /\ pc' = CASE i > 1 \/ ~ IsBox(1) -> "pad"
                        [] i = 1 /\ line.next > 1 -> "place"
                        [] OTHER -> Onward(Full(line), line.next)
     ELSE i' = i + 1 /\ clear' = TRUE /\ pc' = "clear" /\ UNCHANGED chosen_width
  /\ UNCHANGED <<allocedareas, margins, consumed_area, taken, short, reply, spec, boxes>>

\* After a packer call: on to next, or out of the function.  A box that did
\* not fit ends it without an error.
Then(next) ==
  pc' = CASE reply'.result = "OK" -> next
          [] reply'.result = "DIDNT_FIT" -> "done"
          [] OTHER -> "failed"

\* The padding above a line.
PadLine ==
  /\ pc = "pad"
  /\ packer_place_by(spec.loc, nextw, spec.leading)
  /\ Then(IF k < i THEN "place" ELSE Onward(clear, i))
  /\ UNCHANGED <<spec, i, first, k, nextw, clear, chosen_width, boxes>>

PadBox ==
  /\ pc = "space"
  /\ packer_place_by(spec.loc, spec.spacing, spec.elements[k].height)
  /\ Then("place")
  /\ UNCHANGED <<spec, i, first, k, nextw, clear, chosen_width, boxes>>

PlaceBox ==
  /\ pc = "place"
  /\ packer_place_by(spec.loc, chosen_width[k], spec.elements[k].height)
  /\ IF reply'.result # "OK"
     THEN Then("done") /\ UNCHANGED <<k, boxes>>
     ELSE IF Len(boxes) = spec.nboxes
     THEN pc' = "failed" /\ UNCHANGED <<k, boxes>>
     ELSE /\ pc' = IF k + 1 < i THEN "space" ELSE Onward(clear, i)
          /\ k' = k + 1
          /\ \E b \in reply'.pos : boxes' = Append(boxes, b)
  /\ UNCHANGED <<spec, i, first, nextw, clear, chosen_width>>

ClearLine ==
  /\ pc = "clear"
  /\ packer_clear(spec.clear)
  /\ Then(IF i > N THEN "done" ELSE "line")
  /\ UNCHANGED <<spec, i, first, k, nextw, clear, chosen_width, boxes>>

LayoutStep == BeginLine \/ PadLine \/ PadBox \/ PlaceBox \/ ClearLine

Client == pc = "client" /\ Next /\ UNCHANGED layoutVars

LayoutNext == Client \/ layout_place \/ LayoutStep

Busy == {"line", "pad", "space", "place", "clear"}

\* A step that goes on with the call.  Only a LayoutStep does, each does, and
\* one is enabled wherever this is: its weak fairness is theirs.
Proceeds == pc \in Busy /\ pc' \in (Busy \cup {"done", "failed"}) \ {pc}

\* layout_place is a plain call: nothing keeps it from its next step.
LayoutSpec == LayoutInit /\ [][LayoutNext]_allVars /\ WF_pc(Proceeds)

-----------------------------------------------------------------------------
(* Properties. *)

\* How many of the first m elements are boxes.
BoxesTo(m) == Cardinality({n \in 1 .. m : IsBox(n)})

\* The boxes answered are those of the first elements in turn, as high as
\* asked and no narrower or wider than allowed (layout.c, the calls of
\* packer_place_by), wherever the packer found room for them.
BoxesAsAsked ==
  \A n \in DOMAIN boxes :
    \E m \in 1 .. N :
      /\ IsBox(m) /\ BoxesTo(m) = n
      /\ boxes[n].y1 - boxes[n].y0 = spec.elements[m].height
      /\ boxes[n].x1 - boxes[n].x0 \in spec.elements[m].min .. spec.elements[m].max

\* A free place for the first box lies where a cleared line begins.
RoomForFirst ==
  /\ spec.loc = "TOP_LEFT" /\ spec.clear \in {"LEFT", "BOTH"}
  /\ margins.y1 = Page.y1 /\ ~ short
  /\ \E y \in margins.y0 .. margins.y1 - 1 :
       LET width == IF spec.clear = "BOTH" THEN margins.x1 - margins.x0
                                           ELSE spec.elements[1].min
           b == box(margins.x0, y, margins.x0 + width, y + 1)
       IN /\ width >= spec.elements[1].min
          /\ contains_box(b, intersection(margins, Page))
          /\ \A t \in taken : ~ intersects(b, t)

\* layout_place returns when its first element is a line break or has room at
\* the beginning of some line.
LayoutReturns ==
  (pc = "line" /\ i = 1 /\ (IsBox(1) => RoomForFirst)) ~> pc \in {"done", "failed"}

\* layout_place returns: it clears a line because "there's space, but it's not
\* enough for the next element" (layout.c:140), so the next line has more.
LayoutAlwaysReturns == pc = "line" ~> pc \in {"done", "failed"}

=============================================================================
