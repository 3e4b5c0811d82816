------------------------------- MODULE Packer -------------------------------
(***************************************************************************)
(* geom/packer: the free space of a page, kept as a list of free boxes     *)
(* that may overlap.  Taking an area splits every free box it crosses into *)
(* at most four; an emptied box stays in the list until the next sort.     *)
(*                                                                         *)
(* A call is one step.  qsort leaves equal elements in any order.  The     *)
(* areas taken so far, and what the last call asked for, are not kept by   *)
(* the program but by its clients.                                         *)
(***************************************************************************)
EXTENDS Box, SequencesExt, FiniteSetsExt

CONSTANTS
  Page,          \* dims
  MarginSets,    \* the margins clients set
  Locs,          \* packer_loc_t, or part of it
  Sizes,         \* the widths and heights clients ask for
  Lengths,       \* those that anyone does, layout too
  Areas,         \* the areas clients take by position
  ClearDirs,     \* packer_cleardir_t, or part of it
  InitialAreas,  \* INITIALAREAS
  Extreme,       \* INT_MAX, and INT_MIN negated
  MayFail,       \* whether realloc may fail
  MaxTaken       \* bound: areas taken from the page

VARIABLES
  areas, allocedareas,
  margins,
  order, sorted,     \* the order last sorted to, and whether it still holds
  consumed_area,
  taken, short,      \* the areas taken; whether a call ran out of memory
  reply              \* what the last call asked for, and the answer to it

Corners == [x0 : Int, y0 : Int, x1 : Int, y1 : Int]

\* What the constants are: boxes with integer corners, a page that holds a
\* point, and a list with room for it.
PackerFits ==
  /\ Page \in Corners /\ ~ is_empty(Page)
  /\ MarginSets \subseteq Corners /\ Areas \subseteq Corners
  /\ Sizes \subseteq Lengths /\ Lengths \subseteq Nat
  /\ ClearDirs \subseteq {"LEFT", "RIGHT", "BOTH"}
  /\ Locs \subseteq {"TOP_LEFT", "TOP_RIGHT", "BOTTOM_LEFT", "BOTTOM_RIGHT"}
  /\ InitialAreas \in Nat \ {0}

list == <<areas, allocedareas, order, sorted>>
vars == <<areas, allocedareas, margins, order, sorted, consumed_area,
          taken, short, reply>>

Answer(result, asked, pos) == [result |-> result, asked |-> asked, pos |-> pos]
Done == Answer("OK", <<>>, {})

Invalid == box(0, 0, 0, 0)
Nothing == box(Extreme, Extreme, -Extreme, -Extreme)

Init ==
  /\ areas = <<Page>>
  /\ allocedareas = InitialAreas
  /\ margins = Page
  /\ order = "TOP_LEFT" /\ sorted = TRUE
  /\ consumed_area = Nothing
  /\ taken = {} /\ short = FALSE
  /\ reply = Done

-----------------------------------------------------------------------------
(* Adding and removing areas.  L is the list, its room and whether it is   *)
(* still sorted; ok says whether memory sufficed.                          *)

List == [areas |-> areas, room |-> allocedareas, sorted |-> sorted, ok |-> TRUE]

\* Mutant: the list grows without its allocation.
add_area_NoGrow(L, area, fails) ==
  IF \E i \in DOMAIN L.areas : ~ is_empty(L.areas[i]) /\ contains_box(area, L.areas[i])
  THEN L
  ELSE [L EXCEPT !.areas = Append(@, area), !.sorted = FALSE]

add_area(L, area, fails) ==
  IF \E i \in DOMAIN L.areas : ~ is_empty(L.areas[i]) /\ contains_box(area, L.areas[i])
  THEN L
  ELSE LET grows == Len(L.areas) + 1 > L.room
       IN IF grows /\ fails
          THEN [L EXCEPT !.ok = FALSE]
          ELSE [L EXCEPT !.areas = Append(@, area), !.sorted = FALSE,
                         !.room = IF grows THEN 2 * @ ELSE @]

\* Mutant: nothing is kept above the area.
Remains_NoTop(b, area) ==
  <<[b EXCEPT !.x1 = area.x0], [b EXCEPT !.x0 = area.x1], [b EXCEPT !.y1 = area.y0], Invalid>>

\* What is left of b on the left of area, on its right, below and above it:
\* nothing, an empty box, where b does not reach beyond it there.
Remains(b, area) ==
  <<[b EXCEPT !.x1 = area.x0], [b EXCEPT !.x0 = area.x1],
    [b EXCEPT !.y1 = area.y0], [b EXCEPT !.y0 = area.y1]>>

\* One of them is added, unless there has been a failure.
Keep(L, part, fails) ==
  IF L.ok /\ ~ is_empty(part) THEN add_area(L, part, fails) ELSE L

\* The i-th area is replaced by what remains of it.
Split(L, i, area, fails) ==
  LET b == L.areas[i]
      part == Remains(b, area)
      gone == [L EXCEPT !.areas[i] = Invalid, !.sorted = FALSE]
  IN IF ~ L.ok \/ is_empty(b) \/ ~ intersects(b, area) THEN L
     ELSE Keep(Keep(Keep(Keep(gone, part[1], fails), part[2], fails), part[3], fails), part[4], fails)

\* Mutant: the list stays marked as sorted.
remove_area_Sorted(L, area, fails) ==
  LET splits[i \in 0 .. Len(L.areas)] ==
        IF i = 0 THEN L ELSE Split(splits[i - 1], i, area, fails)
  IN [splits[Len(L.areas)] EXCEPT !.sorted = L.sorted]

\* L after area is removed: only the areas L began with are split.
remove_area(L, area, fails) ==
  LET splits[i \in 0 .. Len(L.areas)] ==
        IF i = 0 THEN L ELSE Split(splits[i - 1], i, area, fails)
  IN splits[Len(L.areas)]

\* The call takes area from the list L and answers, or runs out of memory.
Take(L, area, asked, pos) ==
  \E fails \in (IF MayFail THEN BOOLEAN ELSE {FALSE}) :
    \E R \in {remove_area(L, area, fails)} :
      /\ areas' = R.areas /\ allocedareas' = R.room /\ sorted' = R.sorted
      /\ IF R.ok
         THEN /\ consumed_area' = union(consumed_area, area)
              /\ taken' = taken \cup {area}
              /\ reply' = Answer("OK", asked, pos)
              /\ UNCHANGED short
         ELSE /\ short' = TRUE
              /\ reply' = Answer("OOM", asked, {})
              /\ UNCHANGED <<consumed_area, taken>>

-----------------------------------------------------------------------------
(* Sorting. *)

\* The first of three differences that is not 0 decides.
Before(a, b, ord) ==
  LET down == b.y1 - a.y1
      up == a.y0 - b.y0
      left == a.x0 - b.x0
      right == b.x1 - a.x1
      Lex(u, v, w) == \/ u < 0
                      \/ u = 0 /\ v < 0
                      \/ u = 0 /\ v = 0 /\ w < 0
  IN CASE ord = "TOP_LEFT"     -> Lex(down, left, right)
       [] ord = "TOP_RIGHT"    -> Lex(down, right, left)
       [] ord = "BOTTOM_LEFT"  -> Lex(up, left, right)
       [] ord = "BOTTOM_RIGHT" -> Lex(up, right, left)

NonEmpty(s) == {b \in ToSet(s) : ~ is_empty(b)}

\* Every way to put the boxes S in order; the list holds no box twice.
Sortings(S, ord) ==
  LET f[T \in SUBSET S] ==
        IF T = {} THEN {<<>>}
        ELSE UNION {{<<b>> \o s : s \in f[T \ {b}]} :
                    b \in {c \in T : \A d \in T : ~ Before(d, c, ord)}}
  IN f[S]

\* Mutant: a list sorted to another order is taken to be in this one.
packer_sort_AnyOrder(ord) ==
  IF sorted
  THEN {List}
  ELSE {[List EXCEPT !.areas = s, !.sorted = TRUE] : s \in Sortings(NonEmpty(areas), ord)}

\* The lists packer_sort may leave: sorted, the invalid areas trimmed.
packer_sort(ord) ==
  IF sorted /\ order = ord
  THEN {List}
  ELSE {[List EXCEPT !.areas = s, !.sorted = TRUE] : s \in Sortings(NonEmpty(areas), ord)}

\* The i-th area within the margins.
Inside(L, i) == intersection(L.areas[i], margins)

\* The places that packer_start and packer_next stop at in turn.
Walk(L) == {i \in DOMAIN L.areas : ~ is_empty(Inside(L, i))}

-----------------------------------------------------------------------------
(* The calls. *)

\* Margins that leave nothing are kept valid as a single point.
packer_set_margins(m) ==
  LET b == box(Page.x0 + m.x0, Page.y0 + m.y0, Page.x1 - m.x1, Page.y1 - m.y1)
  IN /\ margins' = IF is_empty(b) THEN box(b.x0, b.y0, b.x0 + 1, b.y0 + 1) ELSE b
     /\ reply' = Done
     /\ UNCHANGED <<areas, allocedareas, order, sorted, consumed_area, taken, short>>

packer_place_at(area) ==
  LET b == intersection(margins, area)
  IN /\ IF is_empty(b)
        THEN reply' = Answer("EMPTY", <<"place_at", area>>, {})
             /\ UNCHANGED <<areas, allocedareas, sorted, consumed_area, taken, short>>
        ELSE Take(List, b, <<"place_at", area>>, {})
     /\ UNCHANGED <<margins, order>>

\* The width of the first area of the list L.
NextWidth(L) ==
  IF Walk(L) = {} THEN 0
  ELSE LET b == Inside(L, Min(Walk(L))) IN b.x1 - b.x0

packer_next_width(loc) ==
  /\ \E L \in packer_sort(loc) : areas' = L.areas /\ sorted' = TRUE
  /\ order' = loc
  /\ reply' = Done
  /\ UNCHANGED <<allocedareas, margins, consumed_area, taken, short>>

\* The corner of b that loc names, w by h.
Corner(b, loc, w, h) ==
  LET left == loc \in {"TOP_LEFT", "BOTTOM_LEFT"}
      top == loc \in {"TOP_LEFT", "TOP_RIGHT"}
  IN box(IF left THEN b.x0 ELSE b.x1 - w, IF top THEN b.y1 - h ELSE b.y0,
         IF left THEN b.x0 + w ELSE b.x1, IF top THEN b.y1 ELSE b.y0 + h)

packer_place_by(loc, w, h) ==
  \/ /\ w = 0 \/ h = 0
     /\ reply' = Answer("EMPTY", <<"place_by", loc, w, h>>, {})
     /\ UNCHANGED <<list, margins, consumed_area, taken, short>>
  \/ /\ w > 0 /\ h > 0
     /\ \E L \in packer_sort(loc) :
          LET fits == {i \in Walk(L) : could_hold(Inside(L, i), w, h)}
          IN IF fits = {}
             THEN /\ areas' = L.areas /\ sorted' = TRUE
                  /\ reply' = Answer("DIDNT_FIT", <<"place_by", loc, w, h>>, {})
                  /\ UNCHANGED <<allocedareas, consumed_area, taken, short>>
             ELSE LET b == Corner(Inside(L, Min(fits)), loc, w, h)
                  IN Take(L, b, <<"place_by", loc, w, h>>, {b})
     /\ order' = loc
     /\ UNCHANGED margins

\* Mutant: only an area that reaches beyond the margins counts.
Touches_Beyond(b, dir) ==
  /\ dir \in {"LEFT", "BOTH"} => b.x0 < margins.x0
  /\ dir \in {"RIGHT", "BOTH"} => b.x1 > margins.x1

\* Whether b touches the edges that dir names.
Touches(b, dir) ==
  /\ dir \in {"LEFT", "BOTH"} => b.x0 <= margins.x0
  /\ dir \in {"RIGHT", "BOTH"} => b.x1 >= margins.x1

packer_clear(dir) ==
  /\ \E L \in packer_sort("TOP_LEFT") :
       LET found == {i \in Walk(L) : Touches(Inside(L, i), dir)}
           clearbox == IF found = {} THEN margins
                       ELSE [margins EXCEPT !.y0 = Inside(L, Min(found)).y1]
       IN Take(L, clearbox, <<"clear", dir>>, {})
  /\ order' = "TOP_LEFT"
  /\ UNCHANGED margins

\* The callback sees Walk of the list and changes nothing.
packer_map == packer_next_width(order)

Next ==
  \/ packer_map
  \/ \E m \in MarginSets : packer_set_margins(m)
  \/ \E loc \in Locs : packer_next_width(loc)
  \/ /\ Cardinality(taken) < MaxTaken
     /\ \/ \E area \in Areas : packer_place_at(area)
        \/ \E loc \in Locs, w, h \in Sizes : packer_place_by(loc, w, h)
        \/ \E dir \in ClearDirs : packer_clear(dir)

Spec == Init /\ [][Next]_vars

-----------------------------------------------------------------------------
(* Properties. *)

\* The list of areas is within its allocation, and the answer is one of the
\* packer's result codes, with at most one box.
TypeOK ==
  /\ areas \in Seq(Corners) /\ Len(areas) <= allocedareas
  /\ margins \in Corners /\ ~ is_empty(margins)
  /\ order \in {"TOP_LEFT", "TOP_RIGHT", "BOTTOM_LEFT", "BOTTOM_RIGHT"}
  /\ sorted \in BOOLEAN /\ short \in BOOLEAN
  /\ reply.result \in {"OK", "EMPTY", "DIDNT_FIT", "OOM"}
  /\ Cardinality(reply.pos) <= 1

\* While the list is marked as sorted, it is, and holds no invalid area: the
\* next call of the same order walks it as it stands (packer.c:262).
ListInOrder ==
  sorted => /\ \A m, n \in DOMAIN areas : m < n => ~ Before(areas[n], areas[m], order)
            /\ \A n \in DOMAIN areas : ~ is_empty(areas[n])

\* Every box on the page that crosses nothing taken lies whole in one area of
\* the list, so a search that looks at one area at a time misses no place;
\* and no area crosses what was taken (packer.c:149, remove_area).
HoldsEveryFreeBox ==
  ~ short =>
    \A x0 \in Page.x0 .. Page.x1, y0 \in Page.y0 .. Page.y1 :
      \A x1 \in x0 + 1 .. Page.x1, y1 \in y0 + 1 .. Page.y1 :
        LET b == box(x0, y0, x1, y1)
        IN (\E a \in NonEmpty(areas) : contains_box(b, a))
             <=> (\A t \in taken : ~ intersects(b, t))

\* The list of free areas is sorted where it is said to be, and complete.
FreeAreasComplete == TypeOK /\ ListInOrder /\ HoldsEveryFreeBox

\* What the packer places is free and against the edge asked for, and it says
\* that a box does not fit only when no place of that size is free.
Promise == INSTANCE PageSpace WITH Sizes <- Lengths
KeepsSpace == Promise!Spec

\* An area placed absolutely "ignores any margins" (geom/packer.h:43): all of
\* it that is on the page is taken, and nothing of it is refused.
PlaceAtIgnoresMargins ==
  [][\A area \in Areas :
       LET onpage == intersection(Page, area)
       IN  packer_place_at(area) /\ ~ is_empty(onpage) =>
             /\ reply'.result # "EMPTY"
             /\ reply'.result = "OK" => onpage \in taken']_vars

=============================================================================
