---------------------------- MODULE PackerProofs ----------------------------
(***************************************************************************)
(* The packer's free list: that its areas are exactly the free space, that *)
(* it is in order while it is marked so, and that it is within its         *)
(* allocation, through failures, for any page, sizes and margins; so that  *)
(* the packer implements PageSpace.                                        *)
(*                                                                         *)
(* And that all of this holds beneath layout_place, which places the boxes *)
(* it was asked to in turn: its invariant ties the line it is on and the   *)
(* widths chosen for it to the elements that the boxes placed were for.    *)
(***************************************************************************)
EXTENDS Layout, SequenceLemmas, FiniteSetTheorems

Lists == {L \in [areas : Seq(Corners), room : Nat \ {0}, sorted : BOOLEAN, ok : BOOLEAN] :
            Len(L.areas) <= L.room}

-----------------------------------------------------------------------------
(* Parts of the invariant. *)

\* Some area of the sequence A holds c.
Covers(A, c) == \E n \in DOMAIN A : ~ is_empty(A[n]) /\ contains_box(c, A[n])

\* No area that is not empty is in A twice: sorting may keep them as a set.
NoTwice(A) == \A m, n \in DOMAIN A : A[m] = A[n] /\ ~ is_empty(A[n]) => m = n

\* What crosses nothing taken is in one area of A.
Complete(A) ==
  \A c \in Corners :
    ~ is_empty(c) /\ contains_box(c, Page) /\ (\A t \in taken : ~ intersects(c, t))
      => Covers(A, c)

\* No area of A crosses anything taken.
Clear(A) ==
  \A n \in DOMAIN A : ~ is_empty(A[n]) => \A t \in taken : ~ intersects(A[n], t)

\* No area of A reaches beyond the page.
OnPage(A) ==
  \A n \in DOMAIN A : ~ is_empty(A[n]) => contains_box(A[n], Page)

InOrder(A, ord) ==
  /\ \A m, n \in DOMAIN A : m < n => ~ Before(A[n], A[m], ord)
  /\ \A n \in DOMAIN A : ~ is_empty(A[n])

\* The inductive invariant.
PInv ==
  /\ TypeOK
  /\ allocedareas \in Nat \ {0}
  /\ taken \subseteq Corners
  /\ ListInOrder
  /\ NoTwice(areas)
  /\ Clear(areas) /\ OnPage(areas)
  /\ ~ short => Complete(areas)

-----------------------------------------------------------------------------
(* Boxes. *)

\* intersection and the corners of a box are boxes.
LEMMA BoxTypes ==
  /\ \A x0, y0, x1, y1 \in Int : box(x0, y0, x1, y1) \in Corners
  /\ \A a, b \in Corners : intersection(a, b) \in Corners
  /\ Invalid \in Corners /\ is_empty(Invalid)
BY DEF box, Corners, intersection, Greater, Lesser, Invalid, is_empty

\* What is inside a box that does not cross t does not cross t.
LEMMA InsideStaysClear ==
  ASSUME NEW c \in Corners, NEW a \in Corners, NEW t \in Corners,
         contains_box(c, a), ~ intersects(a, t)
  PROVE  ~ intersects(c, t)
BY DEF Corners, contains_box, intersects

LEMMA InsideInside ==
  ASSUME NEW c \in Corners, NEW a \in Corners, NEW b \in Corners,
         contains_box(c, a), contains_box(a, b)
  PROVE  contains_box(c, b)
BY DEF Corners, contains_box

LEMMA InsideItself ==
  ASSUME NEW c \in Corners
  PROVE  contains_box(c, c)
BY DEF Corners, contains_box

\* What remains of b beside area is inside b and does not cross area.
LEMMA RemainsClear ==
  ASSUME NEW b \in Corners, NEW area \in Corners, intersects(b, area), NEW v \in 1 .. 4
  PROVE  /\ Remains(b, area)[v] \in Corners
         /\ ~ is_empty(Remains(b, area)[v]) => /\ contains_box(Remains(b, area)[v], b)
                                               /\ ~ intersects(Remains(b, area)[v], area)
<1>1. CASE v = 1
  BY <1>1 DEF Remains, Corners, contains_box, intersects, is_empty
<1>2. CASE v = 2
  BY <1>2 DEF Remains, Corners, contains_box, intersects, is_empty
<1>3. CASE v = 3
  BY <1>3 DEF Remains, Corners, contains_box, intersects, is_empty
<1>4. CASE v = 4
  BY <1>4 DEF Remains, Corners, contains_box, intersects, is_empty
<1> QED BY <1>1, <1>2, <1>3, <1>4

\* Nothing else of b remains: what does not cross area is in one of the four.
LEMMA RemainsAll ==
  ASSUME NEW b \in Corners, NEW area \in Corners, NEW c \in Corners,
         ~ is_empty(c), contains_box(c, b), ~ intersects(c, area)
  PROVE  \E v \in 1 .. 4 : /\ ~ is_empty(Remains(b, area)[v])
                           /\ contains_box(c, Remains(b, area)[v])
<1> DEFINE R(v) == Remains(b, area)[v]
<1>1. \/ c.x1 <= area.x0 \/ c.x0 >= area.x1 \/ c.y1 <= area.y0 \/ c.y0 >= area.y1
  BY DEF intersects, Corners
<1>2. CASE c.x1 <= area.x0
  <2>1. ~ is_empty(R(1)) /\ contains_box(c, R(1))
    BY <1>2 DEF Remains, Corners, contains_box, is_empty
  <2> QED BY <2>1
<1>3. CASE c.x0 >= area.x1
  <2>1. ~ is_empty(R(2)) /\ contains_box(c, R(2))
    BY <1>3 DEF Remains, Corners, contains_box, is_empty
  <2> QED BY <2>1
<1>4. CASE c.y1 <= area.y0
  <2>1. ~ is_empty(R(3)) /\ contains_box(c, R(3))
    BY <1>4 DEF Remains, Corners, contains_box, is_empty
  <2> QED BY <2>1
<1>5. CASE c.y0 >= area.y1
  <2>1. ~ is_empty(R(4)) /\ contains_box(c, R(4))
    BY <1>5 DEF Remains, Corners, contains_box, is_empty
  <2> QED BY <2>1
<1> QED BY <1>1, <1>2, <1>3, <1>4, <1>5

-----------------------------------------------------------------------------
(* Adding areas. *)

\* R is L after some areas inside b, none of them crossing area, were added.
Grown(L, R, b, area) ==
  /\ R \in Lists
  /\ Len(L.areas) <= Len(R.areas)
  /\ \A n \in DOMAIN L.areas : R.areas[n] = L.areas[n]
  /\ \A n \in DOMAIN R.areas \ DOMAIN L.areas :
       ~ is_empty(R.areas[n]) /\ contains_box(R.areas[n], b) /\ ~ intersects(R.areas[n], area)
  /\ R.ok => L.ok
  /\ R.sorted => L.sorted /\ R.areas = L.areas
  /\ NoTwice(L.areas) => NoTwice(R.areas)

LEMMA ListTypes ==
  ASSUME NEW L \in Lists
  PROVE  /\ L.areas \in Seq(Corners) /\ L.room \in Nat \ {0} /\ L.sorted \in BOOLEAN
         /\ L.ok \in BOOLEAN /\ Len(L.areas) <= L.room
         /\ Len(L.areas) \in Nat /\ DOMAIN L.areas = 1 .. Len(L.areas)
         /\ \A n \in DOMAIN L.areas : L.areas[n] \in Corners
<1>1. L.areas \in Seq(Corners) /\ L.room \in Nat \ {0} /\ L.sorted \in BOOLEAN
      /\ L.ok \in BOOLEAN /\ Len(L.areas) <= L.room
  BY DEF Lists
<1> QED BY <1>1, LenProperties, ElementOfSeq

LEMMA GrownSame ==
  ASSUME NEW L \in Lists, NEW b, NEW area
  PROVE  Grown(L, L, b, area)
BY ListTypes DEF Grown

LEMMA GrownGrown ==
  ASSUME NEW L, NEW M, NEW R, NEW b, NEW area, L \in Lists,
         Grown(L, M, b, area), Grown(M, R, b, area)
  PROVE  Grown(L, R, b, area)
<1>1. M \in Lists /\ R \in Lists
  BY DEF Grown
<1>2. /\ DOMAIN L.areas = 1 .. Len(L.areas) /\ Len(L.areas) \in Nat
      /\ DOMAIN M.areas = 1 .. Len(M.areas) /\ Len(M.areas) \in Nat
      /\ DOMAIN R.areas = 1 .. Len(R.areas) /\ Len(R.areas) \in Nat
  BY <1>1, ListTypes
<1>3. Len(L.areas) <= Len(M.areas) /\ Len(M.areas) <= Len(R.areas)
  BY DEF Grown
<1>4. \A n \in DOMAIN L.areas : n \in DOMAIN M.areas /\ R.areas[n] = L.areas[n]
  BY <1>2, <1>3 DEF Grown
<1>5. ASSUME NEW n \in DOMAIN R.areas \ DOMAIN L.areas
      PROVE  ~ is_empty(R.areas[n]) /\ contains_box(R.areas[n], b) /\ ~ intersects(R.areas[n], area)
  <2>1. CASE n \in DOMAIN M.areas
    <3>1. R.areas[n] = M.areas[n]
      BY <2>1 DEF Grown
    <3> QED BY <2>1, <3>1, <1>5 DEF Grown
  <2>2. CASE n \notin DOMAIN M.areas
    BY <2>2, <1>5 DEF Grown
  <2> QED BY <2>1, <2>2
<1>6. Len(L.areas) <= Len(R.areas)
  BY <1>2, <1>3
<1> QED BY <1>1, <1>4, <1>5, <1>6 DEF Grown

LEMMA GrownCovers ==
  ASSUME NEW L, NEW R, NEW b, NEW area, L \in Lists, Grown(L, R, b, area),
         NEW c, Covers(L.areas, c)
  PROVE  Covers(R.areas, c)
<1>1. PICK n \in DOMAIN L.areas : ~ is_empty(L.areas[n]) /\ contains_box(c, L.areas[n])
  BY DEF Covers
<1>2. n \in DOMAIN R.areas /\ R.areas[n] = L.areas[n]
  BY ListTypes DEF Grown
<1> QED BY <1>1, <1>2 DEF Covers

LEMMA CoversInside ==
  ASSUME NEW A \in Seq(Corners), NEW a \in Corners, NEW c \in Corners,
         Covers(A, a), contains_box(c, a)
  PROVE  Covers(A, c)
<1>1. PICK n \in DOMAIN A : ~ is_empty(A[n]) /\ contains_box(a, A[n])
  BY DEF Covers
<1>2. A[n] \in Corners
  BY <1>1, ElementOfSeq, LenProperties
<1> QED BY <1>1, <1>2, InsideInside DEF Covers

\* add_area appends the area unless one area holds it already.
LEMMA Added ==
  ASSUME NEW L \in Lists, NEW area \in Corners, NEW fails \in BOOLEAN,
         NEW b, NEW cut, ~ is_empty(area), contains_box(area, b), ~ intersects(area, cut)
  PROVE  /\ Grown(L, add_area(L, area, fails), b, cut)
         /\ add_area(L, area, fails).ok => Covers(add_area(L, area, fails).areas, area)
<1> DEFINE R == add_area(L, area, fails)
           n == Len(L.areas)
<1>1. /\ L.areas \in Seq(Corners) /\ L.room \in Nat \ {0} /\ n \in Nat /\ n <= L.room
      /\ L.sorted \in BOOLEAN /\ L.ok \in BOOLEAN /\ DOMAIN L.areas = 1 .. n
  BY ListTypes
<1>2. CASE \E u \in DOMAIN L.areas : ~ is_empty(L.areas[u]) /\ contains_box(area, L.areas[u])
  <2>1. R = L
    BY <1>2 DEF add_area
  <2> QED BY <2>1, <1>2, GrownSame DEF Covers
<1>3. CASE /\ ~ \E u \in DOMAIN L.areas : ~ is_empty(L.areas[u]) /\ contains_box(area, L.areas[u])
           /\ n + 1 > L.room /\ fails
  <2>1. R = [L EXCEPT !.ok = FALSE]
    BY <1>3 DEF add_area
  <2>2. /\ R.areas = L.areas /\ R.room = L.room /\ R.sorted = L.sorted /\ ~ R.ok
        /\ R \in Lists
    BY <2>1 DEF Lists
  <2>3. Grown(L, R, b, cut)
    BY <2>2 DEF Grown
  <2> QED BY <2>2, <2>3
<1>4. CASE /\ ~ \E u \in DOMAIN L.areas : ~ is_empty(L.areas[u]) /\ contains_box(area, L.areas[u])
           /\ ~ (n + 1 > L.room /\ fails)
  <2> DEFINE A == Append(L.areas, area)
             more == IF n + 1 > L.room THEN 2 * L.room ELSE L.room
  <2>1. R = [L EXCEPT !.areas = A, !.sorted = FALSE, !.room = more]
    BY <1>4 DEF add_area
  <2>2. /\ A \in Seq(Corners) /\ Len(A) = n + 1 /\ A[n + 1] = area
        /\ \A u \in 1 .. n : A[u] = L.areas[u]
    BY <1>1, AppendProperties
  <2>3. more \in Nat \ {0} /\ n + 1 <= more
    BY <1>1
  <2> HIDE DEF A, more
  <2>4. /\ R.areas = A /\ R.room = more /\ R.sorted = FALSE /\ R.ok = L.ok
        /\ R \in [areas : Seq(Corners), room : Nat \ {0}, sorted : BOOLEAN, ok : BOOLEAN]
    BY <2>1, <2>2, <2>3 DEF Lists
  <2>5. R \in Lists
    BY <2>2, <2>3, <2>4 DEF Lists
  <2> HIDE DEF R
  <2>6. DOMAIN A = 1 .. n + 1
    BY <2>2, LenProperties
  <2>7. NoTwice(L.areas) => NoTwice(A)
    <3> SUFFICES ASSUME NoTwice(L.areas), NEW u \in DOMAIN A, NEW j \in DOMAIN A,
                        A[u] = A[j], ~ is_empty(A[j])
                 PROVE  u = j
      BY DEF NoTwice
    <3>1. \A v \in 1 .. n : L.areas[v] = area => is_empty(L.areas[v])
      BY <1>4, <1>1, InsideItself
    <3>2. CASE u \in 1 .. n /\ j \in 1 .. n
      BY <3>2, <2>2, <1>1 DEF NoTwice
    <3>3. CASE u = n + 1 /\ j = n + 1
      BY <3>3
    <3>4. CASE u = n + 1 /\ j \in 1 .. n
      BY <3>4, <3>1, <2>2
    <3>5. CASE j = n + 1 /\ u \in 1 .. n
      BY <3>5, <3>1, <2>2
    <3> QED BY <3>2, <3>3, <3>4, <3>5, <2>6, <1>1
  <2>8. \A v \in DOMAIN A \ DOMAIN L.areas : A[v] = area
    BY <2>2, <2>6, <1>1
  <2>9. n <= Len(A)
    BY <2>2, <1>1
  <2>10. Grown(L, R, b, cut)
    BY <2>2, <2>4, <2>5, <2>7, <2>8, <2>9, <1>1 DEF Grown
  <2>11. Covers(R.areas, area)
    BY <2>2, <2>4, <2>6, <1>1, InsideItself DEF Covers
  <2> QED BY <2>10, <2>11 DEF R
<1> QED BY <1>2, <1>3, <1>4

-----------------------------------------------------------------------------
(* Splitting an area. *)

LEMMA Kept ==
  ASSUME NEW L \in Lists, NEW part \in Corners, NEW fails \in BOOLEAN, NEW b, NEW cut,
         ~ is_empty(part) => contains_box(part, b) /\ ~ intersects(part, cut)
  PROVE  /\ Grown(L, Keep(L, part, fails), b, cut)
         /\ Keep(L, part, fails).ok /\ ~ is_empty(part) => Covers(Keep(L, part, fails).areas, part)
<1>1. CASE L.ok /\ ~ is_empty(part)
  <2>1. Keep(L, part, fails) = add_area(L, part, fails)
    BY <1>1 DEF Keep
  <2> QED BY <1>1, <2>1, Added
<1>2. CASE ~ (L.ok /\ ~ is_empty(part))
  <2>1. Keep(L, part, fails) = L
    BY <1>2 DEF Keep
  <2> QED BY <1>2, <2>1, GrownSame
<1> QED BY <1>1, <1>2

\* What R keeps of L when the i-th area is split by area.
Parted(L, R, area, u) ==
  /\ R \in Lists
  /\ Len(L.areas) <= Len(R.areas)
  /\ \A n \in DOMAIN L.areas : n # u => R.areas[n] = L.areas[n]
  /\ R.ok => (~ is_empty(R.areas[u]) => ~ intersects(R.areas[u], area))
  /\ \A n \in DOMAIN R.areas \ DOMAIN L.areas : ~ intersects(R.areas[n], area)
  /\ \A n \in DOMAIN R.areas : ~ is_empty(R.areas[n]) => Covers(L.areas, R.areas[n])
  /\ R.ok => L.ok
  /\ R.sorted => L.sorted /\ R.areas = L.areas
  /\ NoTwice(L.areas) => NoTwice(R.areas)
  /\ R.ok => \A c \in Corners :
       ~ is_empty(c) /\ Covers(L.areas, c) /\ ~ intersects(c, area) => Covers(R.areas, c)

LEMMA SplitParts ==
  ASSUME NEW L \in Lists, NEW area \in Corners, NEW fails \in BOOLEAN, NEW u \in DOMAIN L.areas
  PROVE  Parted(L, Split(L, u, area, fails), area, u)
<1> DEFINE b == L.areas[u]
           part == Remains(b, area)
           gone == [L EXCEPT !.areas[u] = Invalid, !.sorted = FALSE]
           R == Split(L, u, area, fails)
<1>1. /\ L.areas \in Seq(Corners) /\ L.room \in Nat \ {0} /\ L.sorted \in BOOLEAN
      /\ L.ok \in BOOLEAN /\ Len(L.areas) <= L.room /\ Len(L.areas) \in Nat
      /\ DOMAIN L.areas = 1 .. Len(L.areas) /\ \A n \in DOMAIN L.areas : L.areas[n] \in Corners
  BY ListTypes
<1>2. CASE ~ L.ok \/ is_empty(b) \/ ~ intersects(b, area)
  <2>1. R = L
    BY <1>2 DEF Split
  <2>2. \A n \in DOMAIN L.areas : ~ is_empty(L.areas[n]) => Covers(L.areas, L.areas[n])
    BY <1>1, InsideItself DEF Covers
  <2>3. L.ok => (~ is_empty(L.areas[u]) => ~ intersects(L.areas[u], area))
    BY <1>2
  <2> QED BY <2>1, <2>2, <2>3, <1>1 DEF Parted
<1>3. CASE ~ (~ L.ok \/ is_empty(b) \/ ~ intersects(b, area))
  <2> DEFINE A == [L.areas EXCEPT ![u] = Invalid]
             K1 == Keep(gone, part[1], fails)
             K2 == Keep(K1, part[2], fails)
             K3 == Keep(K2, part[3], fails)
             K4 == Keep(K3, part[4], fails)
  <2>1. R = K4
    BY <1>3 DEF Split
  <2>2. /\ A \in Seq(Corners) /\ Len(A) = Len(L.areas) /\ DOMAIN A = DOMAIN L.areas
        /\ A[u] = Invalid /\ \A n \in DOMAIN L.areas : n # u => A[n] = L.areas[n]
    BY <1>1, BoxTypes, ExceptSeq
  <2>3. gone = [L EXCEPT !.areas = A, !.sorted = FALSE]
    BY DEF Lists
  <2> HIDE DEF A
  <2>4. /\ gone.areas = A /\ gone.room = L.room /\ gone.sorted = FALSE /\ gone.ok = L.ok
        /\ gone \in [areas : Seq(Corners), room : Nat \ {0}, sorted : BOOLEAN, ok : BOOLEAN]
    BY <2>2, <2>3, <1>1 DEF Lists
  <2>5. gone \in Lists
    BY <2>2, <2>4, <1>1 DEF Lists
  <2>6. /\ b \in Corners /\ intersects(b, area) /\ ~ is_empty(b) /\ L.ok
    BY <1>1, <1>3
  <2>7. \A v \in 1 .. 4 : /\ part[v] \in Corners
                          /\ ~ is_empty(part[v]) => contains_box(part[v], b) /\ ~ intersects(part[v], area)
    BY <2>6, RemainsClear
  <2> HIDE DEF gone, part
  <2>8. 1 \in 1 .. 4 /\ 2 \in 1 .. 4 /\ 3 \in 1 .. 4 /\ 4 \in 1 .. 4
    OBVIOUS
  <2>9. Grown(gone, K1, b, area) /\ (K1.ok /\ ~ is_empty(part[1]) => Covers(K1.areas, part[1]))
    BY <2>5, <2>7, <2>8, Kept
  <2>10. K1 \in Lists
    BY <2>9 DEF Grown
  <2> HIDE DEF K1
  <2>11. Grown(K1, K2, b, area) /\ (K2.ok /\ ~ is_empty(part[2]) => Covers(K2.areas, part[2]))
    BY <2>10, <2>7, <2>8, Kept
  <2>12. K2 \in Lists
    BY <2>11 DEF Grown
  <2> HIDE DEF K2
  <2>13. Grown(K2, K3, b, area) /\ (K3.ok /\ ~ is_empty(part[3]) => Covers(K3.areas, part[3]))
    BY <2>12, <2>7, <2>8, Kept
  <2>14. K3 \in Lists
    BY <2>13 DEF Grown
  <2> HIDE DEF K3
  <2>15. Grown(K3, K4, b, area) /\ (K4.ok /\ ~ is_empty(part[4]) => Covers(K4.areas, part[4]))
    BY <2>14, <2>7, <2>8, Kept
  <2>16. K4 \in Lists
    BY <2>15 DEF Grown
  <2> HIDE DEF K4
  <2>17. Grown(K2, K4, b, area) /\ Grown(K1, K4, b, area) /\ Grown(gone, K4, b, area)
    BY <2>5, <2>9, <2>10, <2>11, <2>12, <2>13, <2>14, <2>15, GrownGrown
  <2>18. K4.ok => K1.ok /\ K2.ok /\ K3.ok
    BY <2>15, <2>17 DEF Grown
  <2>19. ASSUME NEW v \in 1 .. 4, K4.ok, ~ is_empty(part[v])
         PROVE  Covers(K4.areas, part[v])
    <3>1. CASE v = 1
      BY <3>1, <2>19, <2>9, <2>18, <2>17, <2>10, GrownCovers
    <3>2. CASE v = 2
      BY <3>2, <2>19, <2>11, <2>18, <2>17, <2>12, GrownCovers
    <3>3. CASE v = 3
      BY <3>3, <2>19, <2>13, <2>18, <2>15, <2>14, GrownCovers
    <3>4. CASE v = 4
      BY <3>4, <2>19, <2>15
    <3> QED BY <3>1, <3>2, <3>3, <3>4
  <2>20. /\ DOMAIN K4.areas = 1 .. Len(K4.areas) /\ Len(K4.areas) \in Nat
         /\ K4.areas \in Seq(Corners) /\ \A n \in DOMAIN K4.areas : K4.areas[n] \in Corners
    BY <2>16, ListTypes
  <2>21. /\ Len(L.areas) <= Len(K4.areas)
         /\ \A n \in DOMAIN L.areas : n \in DOMAIN K4.areas /\ K4.areas[n] = A[n]
         /\ \A n \in DOMAIN K4.areas \ DOMAIN L.areas :
              /\ ~ is_empty(K4.areas[n]) /\ contains_box(K4.areas[n], b)
              /\ ~ intersects(K4.areas[n], area)
         /\ K4.ok => L.ok
         /\ ~ K4.sorted
         /\ NoTwice(A) => NoTwice(K4.areas)
    BY <2>17, <2>4, <2>2, <2>20, <1>1 DEF Grown
  <2>22. is_empty(K4.areas[u])
    BY <2>21, <2>2, BoxTypes
  <2>23. NoTwice(L.areas) => NoTwice(A)
    BY <2>2, BoxTypes DEF NoTwice
  <2>24. ASSUME NEW n \in DOMAIN K4.areas, ~ is_empty(K4.areas[n])
         PROVE  Covers(L.areas, K4.areas[n])
    <3>1. CASE n \in DOMAIN L.areas
      <4>1. K4.areas[n] = L.areas[n] /\ K4.areas[n] \in Corners
        BY <3>1, <2>24, <2>21, <2>22, <2>2, <2>20
      <4> QED BY <3>1, <4>1, <2>24, InsideItself DEF Covers
    <3>2. CASE n \notin DOMAIN L.areas
      BY <3>2, <2>24, <2>21, <2>6 DEF Covers
    <3> QED BY <3>1, <3>2
  <2>25. ASSUME NEW c \in Corners, K4.ok, ~ is_empty(c), Covers(L.areas, c), ~ intersects(c, area)
         PROVE  Covers(K4.areas, c)
    <3>1. PICK n \in DOMAIN L.areas : ~ is_empty(L.areas[n]) /\ contains_box(c, L.areas[n])
      BY <2>25 DEF Covers
    <3>2. CASE n = u
      <4>1. \E v \in 1 .. 4 : ~ is_empty(part[v]) /\ contains_box(c, part[v])
        BY <3>1, <3>2, <2>6, <2>25, RemainsAll DEF part
      <4>2. PICK v \in 1 .. 4 : ~ is_empty(part[v]) /\ contains_box(c, part[v])
        BY <4>1
      <4> QED BY <4>2, <2>7, <2>19, <2>20, <2>25, CoversInside
    <3>3. CASE n # u
      <4>1. n \in DOMAIN K4.areas /\ K4.areas[n] = L.areas[n]
        BY <3>1, <3>3, <2>21, <2>2
      <4> QED BY <3>1, <4>1 DEF Covers
    <3> QED BY <3>2, <3>3
  <2>26. \A n \in DOMAIN L.areas : n # u => K4.areas[n] = L.areas[n]
    BY <2>21, <2>2
  <2>27. Parted(L, K4, area, u)
    BY <2>16, <2>21, <2>22, <2>23, <2>24, <2>25, <2>26 DEF Parted
  <2> QED BY <2>1, <2>27
<1> QED BY <1>2, <1>3

-----------------------------------------------------------------------------
(* Removing an area. *)

\* What R keeps of L when its first m areas are split by area.
Cleared(L, R, area, m) ==
  /\ R \in Lists
  /\ Len(L.areas) <= Len(R.areas)
  /\ \A n \in DOMAIN L.areas : n > m => R.areas[n] = L.areas[n]
  /\ R.ok => \A n \in DOMAIN R.areas :
       (n <= m \/ n \notin DOMAIN L.areas) /\ ~ is_empty(R.areas[n]) => ~ intersects(R.areas[n], area)
  /\ \A n \in DOMAIN R.areas : ~ is_empty(R.areas[n]) => Covers(L.areas, R.areas[n])
  /\ R.sorted => L.sorted /\ R.areas = L.areas
  /\ NoTwice(L.areas) => NoTwice(R.areas)
  /\ R.ok => \A c \in Corners :
       ~ is_empty(c) /\ Covers(L.areas, c) /\ ~ intersects(c, area) => Covers(R.areas, c)

LEMMA ClearedNone ==
  ASSUME NEW L \in Lists, NEW area
  PROVE  Cleared(L, L, area, 0)
<1>1. \A n \in DOMAIN L.areas : /\ L.areas[n] \in Corners
                               /\ n > 0 /\ ~ n <= 0
  BY ListTypes
<1>2. \A n \in DOMAIN L.areas : ~ is_empty(L.areas[n]) => Covers(L.areas, L.areas[n])
  BY <1>1, InsideItself DEF Covers
<1> QED BY <1>1, <1>2, ListTypes DEF Cleared

LEMMA ClearedOneMore ==
  ASSUME NEW L \in Lists, NEW M, NEW area \in Corners, NEW fails \in BOOLEAN,
         NEW u \in DOMAIN L.areas, Cleared(L, M, area, u - 1)
  PROVE  Cleared(L, Split(M, u, area, fails), area, u)
<1> DEFINE R == Split(M, u, area, fails)
<1>1. /\ M \in Lists /\ Len(L.areas) \in Nat /\ DOMAIN L.areas = 1 .. Len(L.areas)
      /\ Len(M.areas) \in Nat /\ DOMAIN M.areas = 1 .. Len(M.areas)
      /\ Len(L.areas) <= Len(M.areas)
      /\ L.areas \in Seq(Corners) /\ M.areas \in Seq(Corners)
      /\ \A n \in DOMAIN M.areas : M.areas[n] \in Corners
  BY ListTypes DEF Cleared
<1>2. Parted(M, R, area, u)
  BY <1>1, SplitParts
<1> HIDE DEF R
<1>3. /\ R \in Lists /\ Len(R.areas) \in Nat /\ DOMAIN R.areas = 1 .. Len(R.areas)
      /\ Len(M.areas) <= Len(R.areas) /\ \A n \in DOMAIN R.areas : R.areas[n] \in Corners
  BY <1>2, ListTypes DEF Parted
<1>4. ASSUME NEW n \in DOMAIN L.areas, n > u
      PROVE  R.areas[n] = L.areas[n]
  <2>1. n \in DOMAIN M.areas /\ n > u - 1 /\ n # u
    BY <1>1, <1>4
  <2> QED BY <1>2, <2>1 DEF Parted, Cleared
<1>5. ASSUME R.ok, NEW n \in DOMAIN R.areas, n <= u \/ n \notin DOMAIN L.areas,
             ~ is_empty(R.areas[n])
      PROVE  ~ intersects(R.areas[n], area)
  <2>1. CASE n = u
    BY <2>1, <1>2, <1>5 DEF Parted
  <2>2. CASE n # u /\ n \in DOMAIN M.areas
    <3>1. R.areas[n] = M.areas[n] /\ M.ok
      BY <2>2, <1>2, <1>5 DEF Parted
    <3>2. n <= u - 1 \/ n \notin DOMAIN L.areas
      BY <2>2, <1>5, <1>1
    <3> QED BY <3>1, <3>2, <2>2, <1>5 DEF Cleared
  <2>3. CASE n \notin DOMAIN M.areas
    BY <2>3, <1>2, <1>5 DEF Parted
  <2> QED BY <2>1, <2>2, <2>3
<1>6. ASSUME NEW n \in DOMAIN R.areas, ~ is_empty(R.areas[n])
      PROVE  Covers(L.areas, R.areas[n])
  <2>1. PICK v \in DOMAIN M.areas : ~ is_empty(M.areas[v]) /\ contains_box(R.areas[n], M.areas[v])
    BY <1>2, <1>6 DEF Parted, Covers
  <2>2. Covers(L.areas, M.areas[v])
    BY <2>1 DEF Cleared
  <2> QED BY <1>1, <1>3, <1>6, <2>1, <2>2, CoversInside
<1>7. R.sorted => L.sorted /\ R.areas = L.areas
  BY <1>2 DEF Parted, Cleared
<1>8. NoTwice(L.areas) => NoTwice(R.areas)
  BY <1>2 DEF Parted, Cleared
<1>9. R.ok => \A c \in Corners :
        ~ is_empty(c) /\ Covers(L.areas, c) /\ ~ intersects(c, area) => Covers(R.areas, c)
  BY <1>2 DEF Parted, Cleared
<1>10. Len(L.areas) <= Len(R.areas)
  BY <1>1, <1>3
<1> QED BY <1>3, <1>4, <1>5, <1>6, <1>7, <1>8, <1>9, <1>10 DEF Cleared, R

\* One after another, the splits of the areas that L began with.
IsSplits(f, L, area, fails, m) ==
  /\ DOMAIN f = 0 .. m
  /\ f[0] = L
  /\ \A u \in 1 .. m : f[u] = Split(f[u - 1], u, area, fails)

LEMMA SplitsExist ==
  ASSUME NEW L, NEW area, NEW fails, NEW n \in Nat
  PROVE  \E f : IsSplits(f, L, area, fails, n)
<1> DEFINE Bad == {m \in Nat : ~ \E f : IsSplits(f, L, area, fails, m)}
<1> SUFFICES ASSUME Bad # {} PROVE FALSE
  OBVIOUS
<1>1. PICK m : m = Min(Bad)
  OBVIOUS
<1>2. m \in Bad /\ \A v \in Bad : m <= v
  BY <1>1, MinOf
<1>3. m # 0
  <2>1. IsSplits([u \in 0 .. 0 |-> L], L, area, fails, 0)
    BY DEF IsSplits
  <2> QED BY <2>1, <1>2
<1>4. m \in Nat /\ m - 1 \in Nat /\ ~ m <= m - 1
  BY <1>2, <1>3
<1>5. PICK f : IsSplits(f, L, area, fails, m - 1)
  BY <1>2, <1>4
<1> DEFINE g == [u \in 0 .. m |-> IF u = m THEN Split(f[m - 1], m, area, fails) ELSE f[u]]
<1>6. /\ DOMAIN g = 0 .. m /\ g[m] = Split(f[m - 1], m, area, fails)
      /\ \A u \in 0 .. m - 1 : g[u] = f[u]
  BY <1>4
<1> HIDE DEF g
<1>7. g[0] = L
  BY <1>4, <1>5, <1>6 DEF IsSplits
<1>8. ASSUME NEW u \in 1 .. m PROVE g[u] = Split(g[u - 1], u, area, fails)
  <2>1. CASE u = m
    BY <2>1, <1>4, <1>6
  <2>2. CASE u # m
    <3>1. u \in 1 .. m - 1 /\ u \in 0 .. m - 1 /\ u - 1 \in 0 .. m - 1
      BY <2>2, <1>4
    <3> QED BY <3>1, <1>5, <1>6 DEF IsSplits
  <2> QED BY <2>1, <2>2
<1>9. IsSplits(g, L, area, fails, m)
  BY <1>6, <1>7, <1>8 DEF IsSplits
<1> QED BY <1>2, <1>9

LEMMA RemoveIsSplits ==
  ASSUME NEW L \in Lists, NEW area, NEW fails
  PROVE  \E f : /\ IsSplits(f, L, area, fails, Len(L.areas))
                /\ remove_area(L, area, fails) = f[Len(L.areas)]
<1> DEFINE n == Len(L.areas)
           IsIt(g) == g = [u \in 0 .. n |-> IF u = 0 THEN L ELSE Split(g[u - 1], u, area, fails)]
<1>1. n \in Nat
  BY ListTypes
<1>2. PICK f : IsSplits(f, L, area, fails, n)
  BY <1>1, SplitsExist
<1> HIDE DEF n
<1>3. IsIt([u \in 0 .. n |-> f[u]])
  <2>1. \A u \in 0 .. n : u # 0 => u \in 1 .. n /\ u - 1 \in 0 .. n
    BY <1>1
  <2> QED BY <1>1, <1>2, <2>1 DEF IsSplits
<1>4. PICK h : IsIt(h) /\ remove_area(L, area, fails) = h[n]
  BY <1>3 DEF remove_area, n
<1>5. IsSplits(h, L, area, fails, n)
  <2>1. \A u \in 1 .. n : u # 0 /\ u \in 0 .. n
    BY <1>1
  <2>2. 0 \in 0 .. n
    BY <1>1
  <2> QED BY <1>4, <2>1, <2>2 DEF IsSplits
<1> QED BY <1>4, <1>5 DEF n

\* remove_area leaves what does not cross area, and nothing that does.
LEMMA RemoveClears ==
  ASSUME NEW L \in Lists, NEW area \in Corners, NEW fails \in BOOLEAN
  PROVE  Cleared(L, remove_area(L, area, fails), area, Len(L.areas))
<1> DEFINE n == Len(L.areas)
<1>1. n \in Nat /\ DOMAIN L.areas = 1 .. n
  BY ListTypes
<1>2. PICK f : IsSplits(f, L, area, fails, n) /\ remove_area(L, area, fails) = f[n]
  BY RemoveIsSplits
<1> DEFINE Bad == {m \in Nat : m <= n /\ ~ Cleared(L, f[m], area, m)}
<1>3. CASE Bad # {}
  <2>1. PICK m : m = Min(Bad)
    OBVIOUS
  <2>2. m \in Bad /\ \A v \in Bad : m <= v
    BY <2>1, <1>3, MinOf
  <2>3. m # 0
    BY <2>2, <1>2, ClearedNone DEF IsSplits
  <2>4. m - 1 \in Nat /\ m - 1 <= n /\ ~ m <= m - 1 /\ m \in 1 .. n
    BY <1>1, <2>2, <2>3
  <2>5. Cleared(L, f[m - 1], area, m - 1)
    BY <2>2, <2>4
  <2>6. f[m] = Split(f[m - 1], m, area, fails)
    BY <1>2, <2>4 DEF IsSplits
  <2> QED BY <2>2, <2>4, <2>5, <2>6, <1>1, ClearedOneMore
<1>4. CASE Bad = {}
  BY <1>1, <1>2, <1>4
<1> QED BY <1>3, <1>4

-----------------------------------------------------------------------------
(* Sorting. *)

Firsts(T, ord) == {c \in T : \A d \in T : ~ Before(d, c, ord)}

\* The ways to put T in order, from those g gives for smaller sets.
Longer(g, T, ord) ==
  IF T = {} THEN {<<>>}
  ELSE UNION {{<<b>> \o s : s \in g[T \ {b}]} : b \in Firsts(T, ord)}

IsLonger(g, T, ord, s) ==
  \/ T = {} /\ s = <<>>
  \/ T # {} /\ \E b \in Firsts(T, ord) : \E r \in g[T \ {b}] : s = <<b>> \o r

LEMMA LongerMembers ==
  ASSUME NEW g, NEW T, NEW ord, NEW s
  PROVE  s \in Longer(g, T, ord) <=> IsLonger(g, T, ord, s)
<1>1. CASE T = {}
  BY <1>1 DEF Longer, IsLonger
<1>2. CASE T # {}
  <2> DEFINE Put(b) == {<<b>> \o r : r \in g[T \ {b}]}
  <2>1. Longer(g, T, ord) = UNION {Put(b) : b \in Firsts(T, ord)}
    BY <1>2 DEF Longer
  <2>2. \A b : s \in Put(b) <=> \E r \in g[T \ {b}] : s = <<b>> \o r
    OBVIOUS
  <2> HIDE DEF Put
  <2>3. s \in Longer(g, T, ord) <=> \E b \in Firsts(T, ord) : s \in Put(b)
    BY <2>1
  <2> QED BY <1>2, <2>2, <2>3 DEF IsLonger
<1> QED BY <1>1, <1>2

LEMMA LongerSame ==
  ASSUME NEW f, NEW g, NEW T, NEW ord, \A b \in T : f[T \ {b}] = g[T \ {b}]
  PROVE  Longer(f, T, ord) = Longer(g, T, ord)
<1>1. \A b \in Firsts(T, ord) : f[T \ {b}] = g[T \ {b}]
  BY DEF Firsts
<1>2. ASSUME NEW s PROVE s \in Longer(f, T, ord) <=> s \in Longer(g, T, ord)
  <2>1. IsLonger(f, T, ord, s) <=> IsLonger(g, T, ord, s)
    BY <1>1 DEF IsLonger
  <2> QED BY <2>1, LongerMembers
<1> QED BY <1>2

Small(S, m) == {T \in SUBSET S : Cardinality(T) <= m}

LEMMA SmallLess ==
  ASSUME NEW S, IsFiniteSet(S), NEW m \in Nat, NEW T \in Small(S, m), NEW b \in T
  PROVE  /\ T \ {b} \in Small(S, m) /\ m # 0 /\ T \ {b} \in Small(S, m - 1)
         /\ Cardinality(T \ {b}) = Cardinality(T) - 1 /\ Cardinality(T) \in Nat /\ IsFiniteSet(T)
<1>1. IsFiniteSet(T) /\ T \in SUBSET S /\ Cardinality(T) <= m
  BY FS_Subset DEF Small
<1>2. Cardinality(T) \in Nat /\ Cardinality(T \ {b}) = Cardinality(T) - 1 /\ IsFiniteSet(T \ {b})
  BY <1>1, FS_CardinalityType, FS_RemoveElement
<1>3. Cardinality(T \ {b}) \in Nat
  BY <1>2, FS_CardinalityType
<1>4. m # 0 /\ Cardinality(T \ {b}) <= m - 1 /\ Cardinality(T \ {b}) <= m
  BY <1>1, <1>2, <1>3
<1> QED BY <1>1, <1>2, <1>4 DEF Small

IsSortings(f, S, ord, m) ==
  /\ DOMAIN f = Small(S, m)
  /\ \A T \in Small(S, m) : f[T] = Longer(f, T, ord)

LEMMA SortingsExist ==
  ASSUME NEW S, IsFiniteSet(S), NEW ord, NEW n \in Nat
  PROVE  \E f : IsSortings(f, S, ord, n)
<1> DEFINE Bad == {m \in Nat : ~ \E f : IsSortings(f, S, ord, m)}
<1> SUFFICES ASSUME Bad # {} PROVE FALSE
  OBVIOUS
<1>1. PICK m : m = Min(Bad)
  OBVIOUS
<1>2. m \in Bad /\ \A v \in Bad : m <= v
  BY <1>1, MinOf
<1>3. \E f : \A T \in Small(S, m) : \A b \in T :
        /\ T \ {b} \in DOMAIN f
        /\ f[T \ {b}] = Longer(f, T \ {b}, ord)
  <2>1. CASE m = 0
    BY <2>1, SmallLess
  <2>2. CASE m # 0
    <3>1. m \in Nat /\ m - 1 \in Nat /\ ~ m <= m - 1
      BY <1>2, <2>2
    <3>2. PICK f : IsSortings(f, S, ord, m - 1)
      BY <1>2, <3>1
    <3> QED BY <3>1, <3>2, SmallLess DEF IsSortings
  <2> QED BY <2>1, <2>2
<1>4. PICK f : \A T \in Small(S, m) : \A b \in T : f[T \ {b}] = Longer(f, T \ {b}, ord)
  BY <1>3
<1> DEFINE g == [T \in Small(S, m) |-> Longer(f, T, ord)]
<1>5. ASSUME NEW T \in Small(S, m) PROVE g[T] = Longer(g, T, ord)
  <2>1. ASSUME NEW b \in T PROVE f[T \ {b}] = g[T \ {b}]
    <3>1. T \ {b} \in Small(S, m)
      BY <1>2, SmallLess
    <3> QED BY <1>4, <3>1
  <2>2. g[T] = Longer(f, T, ord)
    OBVIOUS
  <2> HIDE DEF g
  <2> QED BY <2>1, <2>2, LongerSame
<1>6. IsSortings(g, S, ord, m)
  BY <1>5 DEF IsSortings
<1> QED BY <1>2, <1>6

LEMMA SortingsAre ==
  ASSUME NEW S, IsFiniteSet(S), NEW ord
  PROVE  \E f : /\ IsSortings(f, S, ord, Cardinality(S))
                /\ Sortings(S, ord) = f[S]
<1> DEFINE n == Cardinality(S)
           IsIt(g) == g = [T \in SUBSET S |->
                             IF T = {} THEN {<<>>}
                             ELSE UNION {{<<b>> \o s : s \in g[T \ {b}]} :
                                         b \in {c \in T : \A d \in T : ~ Before(d, c, ord)}}]
<1>1. n \in Nat /\ Small(S, n) = SUBSET S
  BY FS_CardinalityType, FS_Subset DEF Small
<1>2. PICK f : IsSortings(f, S, ord, n)
  BY <1>1, SortingsExist
<1>3. IsIt([T \in SUBSET S |-> f[T]])
  <2> DEFINE g == [T \in SUBSET S |-> f[T]]
  <2>1. ASSUME NEW T \in SUBSET S PROVE g[T] = Longer(g, T, ord)
    <3>1. g[T] = Longer(f, T, ord)
      BY <1>1, <1>2 DEF IsSortings
    <3>2. \A b \in T : f[T \ {b}] = g[T \ {b}]
      OBVIOUS
    <3> HIDE DEF g
    <3> QED BY <3>1, <3>2, LongerSame
  <2>2. g = [T \in SUBSET S |-> Longer(g, T, ord)]
    BY <2>1
  <2> HIDE DEF g
  <2>3. IsIt(g)
    BY <2>2 DEF Longer, Firsts
  <2> QED BY <2>3 DEF g
<1>4. PICK h : IsIt(h) /\ Sortings(S, ord) = h[S]
  BY <1>3 DEF Sortings
<1>5. h = [T \in SUBSET S |-> Longer(h, T, ord)]
  BY <1>4 DEF Longer, Firsts
<1>6. IsSortings(h, S, ord, n)
  BY <1>1, <1>5 DEF IsSortings
<1> QED BY <1>4, <1>6

\* s holds each of T once, in order.
Ordered(s, T, ord) ==
  /\ s \in Seq(T) /\ Len(s) = Cardinality(T)
  /\ \A e \in T : \E n \in DOMAIN s : s[n] = e
  /\ \A m, n \in DOMAIN s : s[m] = s[n] => m = n
  /\ \A m, n \in DOMAIN s : m < n => ~ Before(s[n], s[m], ord)

\* The first of T before the rest in order.
LEMMA OrderedLonger ==
  ASSUME NEW T, IsFiniteSet(T), NEW ord, NEW b \in Firsts(T, ord), NEW r,
         Ordered(r, T \ {b}, ord)
  PROVE  Ordered(<<b>> \o r, T, ord)
<1> DEFINE s == <<b>> \o r
           v == Len(r)
<1>1. /\ b \in T /\ \A d \in T : ~ Before(d, b, ord)
  BY DEF Firsts
<1>2. /\ r \in Seq(T \ {b}) /\ v \in Nat /\ DOMAIN r = 1 .. v
      /\ \A n \in 1 .. v : r[n] \in T \ {b}
  BY LenProperties, ElementOfSeq DEF Ordered
<1>3. r \in Seq(T) /\ <<b>> \in Seq(T) /\ Len(<<b>>) = 1 /\ <<b>>[1] = b
  BY <1>1, <1>2
<1>4. /\ s \in Seq(T) /\ Len(s) = 1 + v
      /\ \A n \in 1 .. 1 + v : s[n] = IF n <= 1 THEN <<b>>[n] ELSE r[n - 1]
  BY <1>3, ConcatProperties
<1> HIDE DEF s, v
<1>5. DOMAIN s = 1 .. 1 + v
  BY <1>4, LenProperties
<1>6. s[1] = b /\ \A n \in 2 .. 1 + v : s[n] = r[n - 1] /\ n - 1 \in 1 .. v
  BY <1>2, <1>3, <1>4
<1>7. \A n \in 1 .. 1 + v : n = 1 \/ n \in 2 .. 1 + v
  BY <1>2
<1>8. Len(s) = Cardinality(T)
  <2>1. Cardinality(T \ {b}) = Cardinality(T) - 1 /\ Cardinality(T) \in Nat
    BY <1>1, FS_RemoveElement, FS_CardinalityType
  <2>2. v = Cardinality(T \ {b})
    BY DEF Ordered, v
  <2> QED BY <2>1, <2>2, <1>4
<1>9. ASSUME NEW e \in T PROVE \E n \in DOMAIN s : s[n] = e
  <2>1. CASE e = b
    BY <2>1, <1>2, <1>5, <1>6
  <2>2. CASE e # b
    <3>1. PICK n \in 1 .. v : r[n] = e
      BY <2>2, <1>2 DEF Ordered
    <3>2. n + 1 \in 2 .. 1 + v /\ n + 1 \in 1 .. 1 + v /\ n + 1 - 1 = n
      BY <1>2, <3>1
    <3>3. s[n + 1] = r[n + 1 - 1]
      BY <1>6, <3>2
    <3> QED BY <1>5, <3>1, <3>2, <3>3
  <2> QED BY <2>1, <2>2
<1>10. ASSUME NEW m \in DOMAIN s, NEW n \in DOMAIN s, s[m] = s[n]
       PROVE  m = n
  <2>1. CASE m = 1 /\ n = 1
    BY <2>1
  <2>2. CASE m = 1 /\ n \in 2 .. 1 + v
    BY <2>2, <1>2, <1>6, <1>10
  <2>3. CASE n = 1 /\ m \in 2 .. 1 + v
    BY <2>3, <1>2, <1>6, <1>10
  <2>4. CASE m \in 2 .. 1 + v /\ n \in 2 .. 1 + v
    <3>1. r[m - 1] = r[n - 1] /\ m - 1 \in DOMAIN r /\ n - 1 \in DOMAIN r
      BY <2>4, <1>2, <1>6, <1>10
    <3>2. m - 1 = n - 1
      BY <3>1 DEF Ordered
    <3> QED BY <3>2, <2>4
  <2> QED BY <2>1, <2>2, <2>3, <2>4, <1>5, <1>7
<1>11. ASSUME NEW m \in DOMAIN s, NEW n \in DOMAIN s, m < n
       PROVE  ~ Before(s[n], s[m], ord)
  <2>1. n \in 2 .. 1 + v /\ s[n] = r[n - 1] /\ n - 1 \in DOMAIN r
    BY <1>2, <1>5, <1>6, <1>11
  <2>2. CASE m = 1
    BY <2>1, <2>2, <1>1, <1>2, <1>6
  <2>3. CASE m \in 2 .. 1 + v
    <3>1. s[m] = r[m - 1] /\ m - 1 \in DOMAIN r /\ m - 1 < n - 1
      BY <2>1, <2>3, <1>2, <1>6, <1>11
    <3> QED BY <2>1, <3>1 DEF Ordered
  <2> QED BY <2>2, <2>3, <1>5, <1>7
<1>12. Ordered(s, T, ord)
  BY <1>4, <1>8, <1>9, <1>10, <1>11 DEF Ordered
<1> QED BY <1>12 DEF s

\* Each way to put the boxes in order holds each of them once, in order.
LEMMA SortingsOrdered ==
  ASSUME NEW S, IsFiniteSet(S), NEW ord, NEW s \in Sortings(S, ord)
  PROVE  Ordered(s, S, ord)
<1> DEFINE n == Cardinality(S)
<1>1. n \in Nat /\ S \in Small(S, n)
  BY FS_CardinalityType DEF Small
<1>2. PICK f : IsSortings(f, S, ord, n) /\ Sortings(S, ord) = f[S]
  BY SortingsAre
<1> DEFINE Bad == {m \in Nat : \E T \in Small(S, n) :
                     Cardinality(T) = m /\ \E r \in f[T] : ~ Ordered(r, T, ord)}
<1>3. CASE Bad # {}
  <2>1. PICK m : m = Min(Bad)
    OBVIOUS
  <2>2. m \in Bad /\ \A v \in Bad : m <= v
    BY <2>1, <1>3, MinOf
  <2>3. PICK T \in Small(S, n) : Cardinality(T) = m /\ \E r \in f[T] : ~ Ordered(r, T, ord)
    BY <2>2
  <2>4. PICK r \in f[T] : ~ Ordered(r, T, ord)
    BY <2>3
  <2>5. r \in Longer(f, T, ord)
    BY <1>2, <2>4 DEF IsSortings
  <2>6. CASE T = {} /\ r = <<>>
    <3>1. Ordered(<<>>, {}, ord)
      BY FS_EmptySet DEF Ordered
    <3> QED BY <2>4, <2>6, <3>1
  <2>7. CASE T # {} /\ \E b \in Firsts(T, ord) : \E q \in f[T \ {b}] : r = <<b>> \o q
    <3>1. PICK b \in Firsts(T, ord) : \E q \in f[T \ {b}] : r = <<b>> \o q
      BY <2>7
    <3>2. PICK q \in f[T \ {b}] : r = <<b>> \o q
      BY <3>1
    <3>3. b \in T
      BY DEF Firsts
    <3>4. /\ T \ {b} \in Small(S, n) /\ Cardinality(T \ {b}) = m - 1
          /\ IsFiniteSet(T)
      BY <1>1, <2>3, <3>3, SmallLess
    <3>5. m - 1 \in Nat /\ ~ m <= m - 1
      <4>1. IsFiniteSet(T \ {b})
        BY <3>4, FS_RemoveElement
      <4>2. m - 1 \in Nat
        BY <3>4, <4>1, FS_CardinalityType
      <4> QED BY <2>2, <4>2
    <3>6. m - 1 \notin Bad
      BY <2>2, <3>5
    <3>7. Ordered(q, T \ {b}, ord)
      BY <3>2, <3>4, <3>5, <3>6
    <3>8. Ordered(<<b>> \o q, T, ord)
      BY <3>4, <3>7, OrderedLonger
    <3> QED BY <2>4, <3>2, <3>8
  <2>8. IsLonger(f, T, ord, r)
    BY <2>5, LongerMembers
  <2> QED BY <2>6, <2>7, <2>8 DEF IsLonger
<1>4. CASE Bad = {}
  <2>1. n \notin Bad
    BY <1>4
  <2>2. \A r \in f[S] : Ordered(r, S, ord)
    BY <1>1, <2>1
  <2> QED BY <1>2, <2>2
<1> QED BY <1>3, <1>4

-----------------------------------------------------------------------------
(* The list as the calls see it. *)

LEMMA NonEmptyMembers ==
  ASSUME NEW A, NEW a
  PROVE  a \in NonEmpty(A) <=> \E n \in DOMAIN A : A[n] = a /\ ~ is_empty(A[n])
BY DEF NonEmpty, ToSet

LEMMA CoversMembers ==
  ASSUME NEW A, NEW c
  PROVE  Covers(A, c) <=> \E a \in NonEmpty(A) : contains_box(c, a)
BY NonEmptyMembers DEF Covers

\* No more boxes than places.
LEMMA NonEmptyFits ==
  ASSUME NEW A \in Seq(Corners)
  PROVE  /\ IsFiniteSet(NonEmpty(A)) /\ NonEmpty(A) \subseteq Corners
         /\ Cardinality(NonEmpty(A)) \in Nat /\ Cardinality(NonEmpty(A)) <= Len(A)
<1>1. Len(A) \in Nat /\ DOMAIN A = 1 .. Len(A) /\ \A n \in 1 .. Len(A) : A[n] \in Corners
  BY LenProperties, ElementOfSeq
<1>2. IsFiniteSet(1 .. Len(A)) /\ Cardinality(1 .. Len(A)) = Len(A)
  <2>1. ASSUME NEW v \in Nat PROVE IsFiniteSet(1 .. v) /\ Cardinality(1 .. v) = v
    <3>1. 1 \in Int /\ v \in Int /\ (IF 1 > v THEN 0 ELSE v - 1 + 1) = v
      OBVIOUS
    <3> QED BY <3>1, FS_Interval
  <2> QED BY <1>1, <2>1
<1>3. A \in [1 .. Len(A) -> ToSet(A)] /\ \A a \in ToSet(A) : \E n \in 1 .. Len(A) : A[n] = a
  BY <1>1, LenProperties DEF ToSet
<1>4. A \in Surjection(1 .. Len(A), ToSet(A))
  BY <1>3 DEF Surjection
<1>5. IsFiniteSet(ToSet(A)) /\ Cardinality(ToSet(A)) <= Len(A)
  BY <1>2, <1>4, FS_Surjection
<1>6. NonEmpty(A) \subseteq ToSet(A) /\ NonEmpty(A) \subseteq Corners
  BY <1>1 DEF NonEmpty, ToSet
<1>7. /\ IsFiniteSet(NonEmpty(A)) /\ Cardinality(NonEmpty(A)) <= Cardinality(ToSet(A))
  BY <1>5, <1>6, FS_Subset
<1>8. Cardinality(NonEmpty(A)) \in Nat /\ Cardinality(ToSet(A)) \in Nat
  BY <1>5, <1>7, FS_CardinalityType
<1> QED BY <1>1, <1>5, <1>6, <1>7, <1>8

\* What the list is whatever call is made.
ListOK ==
  /\ areas \in Seq(Corners) /\ Len(areas) <= allocedareas /\ allocedareas \in Nat \ {0}
  /\ order \in {"TOP_LEFT", "TOP_RIGHT", "BOTTOM_LEFT", "BOTTOM_RIGHT"}
  /\ sorted \in BOOLEAN
  /\ ListInOrder /\ NoTwice(areas)

\* L is the list sorted to loc.
SortedTo(L, loc) ==
  /\ L \in Lists /\ L.room = allocedareas /\ L.sorted /\ L.ok
  /\ InOrder(L.areas, loc) /\ NoTwice(L.areas)
  /\ NonEmpty(L.areas) = NonEmpty(areas)

LEMMA ListIsList ==
  ASSUME ListOK
  PROVE  /\ List \in Lists /\ List.areas = areas /\ List.room = allocedareas
         /\ List.sorted = sorted /\ List.ok = TRUE
BY DEF ListOK, List, Lists

\* packer_sort sorts the list and loses nothing but what is empty.
LEMMA SortSorts ==
  ASSUME ListOK, NEW loc, NEW L \in packer_sort(loc)
  PROVE  SortedTo(L, loc)
<1>1. CASE sorted /\ order = loc
  <2>1. L = List
    BY <1>1 DEF packer_sort
  <2>2. InOrder(areas, loc)
    BY <1>1 DEF ListOK, ListInOrder, InOrder
  <2> QED BY <1>1, <2>1, <2>2, ListIsList DEF ListOK, SortedTo
<1>2. CASE ~ (sorted /\ order = loc)
  <2> DEFINE S == NonEmpty(areas)
  <2>1. PICK s \in Sortings(S, loc) : L = [List EXCEPT !.areas = s, !.sorted = TRUE]
    BY <1>2 DEF packer_sort
  <2>2. IsFiniteSet(S) /\ S \subseteq Corners /\ Cardinality(S) \in Nat /\ Cardinality(S) <= Len(areas)
    BY NonEmptyFits DEF ListOK
  <2>3. Ordered(s, S, loc)
    BY <2>1, <2>2, SortingsOrdered
  <2>4. \A a \in S : ~ is_empty(a)
    BY DEF NonEmpty
  <2>5. NonEmpty(s) = S
    <3>1. ASSUME NEW a \in S PROVE a \in NonEmpty(s)
      BY <2>3, <2>4, NonEmptyMembers DEF Ordered
    <3>2. ASSUME NEW a \in NonEmpty(s) PROVE a \in S
      <4>1. PICK n \in DOMAIN s : s[n] = a
        BY <3>2, NonEmptyMembers
      <4>2. s \in Seq(S)
        BY <2>3 DEF Ordered
      <4> QED BY <4>1, <4>2, ElementOfSeq, LenProperties
    <3> QED BY <3>1, <3>2
  <2> HIDE DEF S
  <2>6. /\ s \in Seq(S) /\ Len(s) \in Nat /\ DOMAIN s = 1 .. Len(s)
        /\ \A n \in DOMAIN s : s[n] \in S
    BY <2>3, ElementOfSeq, LenProperties DEF Ordered
  <2>7. s \in Seq(Corners)
    BY <2>2, <2>6
  <2>8. Len(s) <= allocedareas
    <3>1. Len(s) <= Len(areas) /\ Len(areas) \in Nat
      BY <2>2, <2>3, LenProperties DEF Ordered, ListOK
    <3> QED BY <3>1, <2>6 DEF ListOK
  <2>9. /\ L.areas = s /\ L.room = allocedareas /\ L.sorted = TRUE /\ L.ok = TRUE
        /\ L \in [areas : Seq(Corners), room : Nat \ {0}, sorted : BOOLEAN, ok : BOOLEAN]
    BY <2>1, <2>7, ListIsList DEF Lists, List, ListOK
  <2>10. L \in Lists
    BY <2>8, <2>9 DEF Lists
  <2>11. InOrder(s, loc)
    BY <2>3, <2>4, <2>6 DEF Ordered, InOrder
  <2>12. NoTwice(s)
    BY <2>3 DEF Ordered, NoTwice
  <2> QED BY <2>5, <2>9, <2>10, <2>11, <2>12 DEF SortedTo, S
<1> QED BY <1>1, <1>2

-----------------------------------------------------------------------------
(* Every step keeps the invariant. *)

AnswerOK(r) ==
  r.result \in {"OK", "EMPTY", "DIDNT_FIT", "OOM"} /\ Cardinality(r.pos) <= 1

LEMMA Answers ==
  /\ \A asked : \A result \in {"OK", "EMPTY", "DIDNT_FIT", "OOM"} :
       AnswerOK(Answer(result, asked, {}))
  /\ \A asked, b : AnswerOK(Answer("OK", asked, {b}))
  /\ AnswerOK(Done)
<1>1. ASSUME NEW b PROVE Cardinality({}) <= 1 /\ Cardinality({b}) <= 1
  <2>1. Cardinality({}) = 0 /\ Cardinality({b}) = 1
    BY FS_EmptySet, FS_Singleton
  <2> QED BY <2>1
<1>2. \A result, asked, pos : /\ Answer(result, asked, pos).result = result
                             /\ Answer(result, asked, pos).pos = pos
  BY DEF Answer
<1>3. \A r : (\E result \in {"OK", "EMPTY", "DIDNT_FIT", "OOM"} : r.result = result)
               /\ (r.pos = {} \/ \E b : r.pos = {b}) => AnswerOK(r)
  BY <1>1 DEF AnswerOK
<1>4. \A asked, b : AnswerOK(Answer("OK", asked, {b}))
  BY <1>2, <1>3
<1>5. \A asked : \A result \in {"OK", "EMPTY", "DIDNT_FIT", "OOM"} : AnswerOK(Answer(result, asked, {}))
  BY <1>2, <1>3
<1> QED BY <1>4, <1>5 DEF Done

\* The free space is the areas of A, and no less unless memory has run out.
Space(A) == Clear(A) /\ OnPage(A) /\ (~ short => Complete(A))

LEMMA SpaceSame ==
  ASSUME NEW A, NEW B, NonEmpty(A) = NonEmpty(B), Space(A)
  PROVE  Space(B)
<1>1. \A c : Covers(A, c) <=> Covers(B, c)
  BY CoversMembers
<1>2. Complete(A) => Complete(B)
  BY <1>1 DEF Complete
<1>3. Clear(A) => Clear(B)
  <2> SUFFICES ASSUME Clear(A), NEW n \in DOMAIN B, ~ is_empty(B[n]), NEW t \in taken
               PROVE  ~ intersects(B[n], t)
    BY DEF Clear
  <2>1. B[n] \in NonEmpty(A)
    BY NonEmptyMembers
  <2>2. PICK v \in DOMAIN A : A[v] = B[n] /\ ~ is_empty(A[v])
    BY <2>1, NonEmptyMembers
  <2> QED BY <2>2 DEF Clear
<1>4. OnPage(A) => OnPage(B)
  <2> SUFFICES ASSUME OnPage(A), NEW n \in DOMAIN B, ~ is_empty(B[n])
               PROVE  contains_box(B[n], Page)
    BY DEF OnPage
  <2>1. B[n] \in NonEmpty(A)
    BY NonEmptyMembers
  <2>2. PICK v \in DOMAIN A : A[v] = B[n] /\ ~ is_empty(A[v])
    BY <2>1, NonEmptyMembers
  <2> QED BY <2>2 DEF OnPage
<1> QED BY <1>2, <1>3, <1>4 DEF Space

\* Taking an area leaves the rest of the free space, and none of the area.
LEMMA TakeKeeps ==
  ASSUME PackerFits, NEW L \in Lists, NEW area \in Corners, NEW asked, NEW pos,
         AnswerOK(Answer("OK", asked, pos)),
         Take(L, area, asked, pos), L.ok,
         taken \subseteq Corners, short \in BOOLEAN, Space(L.areas), NoTwice(L.areas),
         L.sorted => InOrder(L.areas, order')
  PROVE  /\ areas' \in Seq(Corners) /\ Len(areas') <= allocedareas'
         /\ allocedareas' \in Nat \ {0} /\ sorted' \in BOOLEAN
         /\ NoTwice(areas') /\ (sorted' => InOrder(areas', order'))
         /\ taken' \subseteq Corners /\ short' \in BOOLEAN /\ AnswerOK(reply')
         /\ Space(areas)'
<1>1. PICK fails \in (IF MayFail THEN BOOLEAN ELSE {FALSE}) :
        LET R == remove_area(L, area, fails)
        IN /\ areas' = R.areas /\ allocedareas' = R.room /\ sorted' = R.sorted
           /\ IF R.ok
              THEN /\ consumed_area' = union(consumed_area, area)
                   /\ taken' = taken \cup {area}
                   /\ reply' = Answer("OK", asked, pos)
                   /\ UNCHANGED short
              ELSE /\ short' = TRUE
                   /\ reply' = Answer("OOM", asked, {})
                   /\ UNCHANGED <<consumed_area, taken>>
  BY DEF Take
<1> DEFINE R == remove_area(L, area, fails)
           n == Len(L.areas)
<1>2. fails \in BOOLEAN
  OBVIOUS
<1>3. Cleared(L, R, area, n)
  BY <1>2, RemoveClears
<1>4. /\ areas' = R.areas /\ allocedareas' = R.room /\ sorted' = R.sorted
      /\ R.ok => taken' = taken \cup {area} /\ reply' = Answer("OK", asked, pos) /\ short' = short
      /\ ~ R.ok => short' = TRUE /\ reply' = Answer("OOM", asked, {}) /\ taken' = taken
  BY <1>1
<1> HIDE DEF R
<1>5. R \in Lists
  BY <1>3 DEF Cleared
<1>6. /\ areas' \in Seq(Corners) /\ Len(areas') <= allocedareas'
      /\ allocedareas' \in Nat \ {0} /\ sorted' \in BOOLEAN /\ R.ok \in BOOLEAN
      /\ \A v \in DOMAIN areas' : areas'[v] \in Corners
  BY <1>4, <1>5, ListTypes
<1>7. NoTwice(areas') /\ (sorted' => InOrder(areas', order'))
  BY <1>3, <1>4 DEF Cleared
<1>8. taken' \subseteq Corners /\ short' \in BOOLEAN /\ AnswerOK(reply')
  BY <1>4, <1>6, Answers
<1>9. ASSUME ~ short' PROVE R.ok /\ ~ short /\ taken' = taken \cup {area}
  BY <1>4, <1>6, <1>9
<1>10. ASSUME ~ short', NEW c \in Corners, ~ is_empty(c), contains_box(c, Page),
              \A t \in taken' : ~ intersects(c, t)
       PROVE  Covers(areas', c)
  <2>1. ~ intersects(c, area) /\ \A t \in taken : ~ intersects(c, t)
    BY <1>9, <1>10
  <2>2. Covers(L.areas, c)
    BY <1>9, <1>10, <2>1 DEF Space, Complete
  <2> QED BY <1>3, <1>4, <1>9, <1>10, <2>1, <2>2 DEF Cleared
<1>11. ASSUME NEW v \in DOMAIN areas', ~ is_empty(areas'[v])
       PROVE  \E m \in DOMAIN L.areas : /\ ~ is_empty(L.areas[m]) /\ L.areas[m] \in Corners
                                        /\ contains_box(areas'[v], L.areas[m])
  <2>1. Covers(L.areas, areas'[v])
    BY <1>3, <1>4, <1>11 DEF Cleared
  <2> QED BY <2>1, ListTypes DEF Covers
<1>12. ASSUME NEW v \in DOMAIN areas', ~ is_empty(areas'[v]), NEW t \in taken'
       PROVE  ~ intersects(areas'[v], t)
  <2>1. v <= n \/ v \notin DOMAIN L.areas
    BY ListTypes
  <2>2. CASE t \notin taken
    <3>1. R.ok /\ t = area
      BY <2>2, <1>4, <1>6, <1>12
    <3> QED BY <2>1, <3>1, <1>3, <1>4, <1>12 DEF Cleared
  <2>3. CASE t \in taken
    <3>1. PICK m \in DOMAIN L.areas : /\ ~ is_empty(L.areas[m]) /\ L.areas[m] \in Corners
                                      /\ contains_box(areas'[v], L.areas[m])
      BY <1>11, <1>12
    <3>2. ~ intersects(L.areas[m], t) /\ t \in Corners
      BY <3>1, <2>3 DEF Space, Clear
    <3> QED BY <3>1, <3>2, <1>6, InsideStaysClear
  <2> QED BY <2>2, <2>3
<1>13. ASSUME NEW v \in DOMAIN areas', ~ is_empty(areas'[v])
       PROVE  contains_box(areas'[v], Page)
  <2>1. PICK m \in DOMAIN L.areas : /\ ~ is_empty(L.areas[m]) /\ L.areas[m] \in Corners
                                    /\ contains_box(areas'[v], L.areas[m])
    BY <1>11, <1>13
  <2>2. contains_box(L.areas[m], Page) /\ Page \in Corners
    BY <2>1 DEF Space, OnPage, PackerFits
  <2> QED BY <2>1, <2>2, <1>6, InsideInside
<1>14. Space(areas)'
  BY <1>10, <1>12, <1>13 DEF Space, Complete, Clear, OnPage
<1> QED BY <1>6, <1>7, <1>8, <1>14

\* The parts of the invariant.
LEMMA InvParts ==
  PInv <=> /\ ListOK
           /\ margins \in Corners /\ ~ is_empty(margins)
           /\ taken \subseteq Corners /\ short \in BOOLEAN /\ AnswerOK(reply)
           /\ Space(areas)
BY DEF PInv, TypeOK, ListOK, AnswerOK, Space

LEMMA OrderedList ==
  ListInOrder <=> (sorted => InOrder(areas, order))
BY DEF ListInOrder, InOrder

LEMMA InitInv ==
  ASSUME PackerFits, Init
  PROVE  PInv
<1>1. areas = <<Page>> /\ Page \in Corners /\ ~ is_empty(Page)
  BY DEF Init, PackerFits
<1>2. areas \in Seq(Corners) /\ Len(areas) = 1 /\ DOMAIN areas = {1} /\ areas[1] = Page
  BY <1>1
<1>3. ListOK
  BY <1>1, <1>2 DEF Init, PackerFits, ListOK, NoTwice, ListInOrder, Before
<1>4. AnswerOK(reply)
  BY Answers DEF Init
<1>5. contains_box(Page, Page)
  BY <1>1, InsideItself
<1>6. Space(areas)
  BY <1>1, <1>2, <1>5 DEF Init, Space, Complete, Clear, OnPage, Covers, PackerFits
<1> QED BY <1>1, <1>3, <1>4, <1>6, InvParts DEF Init

\* An area of the list within the margins is a box.
LEMMA InsideTypes ==
  ASSUME NEW L \in Lists, margins \in Corners
  PROVE  /\ \A n \in DOMAIN L.areas : Inside(L, n) \in Corners
         /\ Walk(L) \subseteq DOMAIN L.areas /\ Walk(L) \subseteq Nat
<1>1. /\ DOMAIN L.areas = 1 .. Len(L.areas) /\ Len(L.areas) \in Nat
      /\ \A n \in DOMAIN L.areas : L.areas[n] \in Corners
  BY ListTypes
<1> QED BY <1>1, BoxTypes DEF Inside, Walk

LEMMA SetMarginsKeeps ==
  ASSUME PackerFits, PInv, NEW m \in MarginSets, packer_set_margins(m)
  PROVE  PInv'
<1> DEFINE b == box(Page.x0 + m.x0, Page.y0 + m.y0, Page.x1 - m.x1, Page.y1 - m.y1)
           p == box(b.x0, b.y0, b.x0 + 1, b.y0 + 1)
<1>1. b \in Corners /\ p \in Corners /\ ~ is_empty(p)
  BY DEF PackerFits, Corners, box, is_empty
<1>2. /\ margins' = IF is_empty(b) THEN p ELSE b
      /\ reply' = Done
      /\ UNCHANGED <<areas, allocedareas, order, sorted, consumed_area, taken, short>>
  BY DEF packer_set_margins
<1> HIDE DEF b, p
<1>3. margins' \in Corners /\ ~ is_empty(margins')
  BY <1>1, <1>2
<1>4. AnswerOK(reply')
  BY <1>2, Answers
<1>5. ListOK' /\ Space(areas)' /\ taken' \subseteq Corners /\ short' \in BOOLEAN
  BY <1>2, InvParts DEF ListOK, ListInOrder, Space, Complete, Clear, OnPage
<1> QED BY <1>3, <1>4, <1>5, InvParts DEF PInv, TypeOK, ListOK, AnswerOK, Space

\* What taking an area from a list in order loc establishes.
LEMMA TakeInv ==
  ASSUME PackerFits, PInv, NEW L \in Lists, NEW area \in Corners, NEW asked, NEW pos,
         AnswerOK(Answer("OK", asked, pos)),
         Take(L, area, asked, pos), L.ok, NoTwice(L.areas), Space(L.areas),
         L.sorted => InOrder(L.areas, order'),
         order' \in {"TOP_LEFT", "TOP_RIGHT", "BOTTOM_LEFT", "BOTTOM_RIGHT"},
         margins' = margins
  PROVE  PInv'
<1>1. /\ areas' \in Seq(Corners) /\ Len(areas') <= allocedareas'
      /\ allocedareas' \in Nat \ {0} /\ sorted' \in BOOLEAN
      /\ NoTwice(areas') /\ (sorted' => InOrder(areas', order'))
      /\ taken' \subseteq Corners /\ short' \in BOOLEAN /\ AnswerOK(reply')
      /\ Space(areas)'
  BY InvParts, TakeKeeps
<1>2. ListInOrder'
  BY <1>1 DEF ListInOrder, InOrder
<1>3. margins' \in Corners /\ ~ is_empty(margins')
  BY InvParts
<1> QED BY <1>1, <1>2, <1>3 DEF PInv, TypeOK, AnswerOK, Space

\* The list sorted is taken from.
LEMMA TakeSorted ==
  ASSUME PackerFits, PInv, NEW loc \in {"TOP_LEFT", "TOP_RIGHT", "BOTTOM_LEFT", "BOTTOM_RIGHT"},
         NEW L \in packer_sort(loc), NEW area \in Corners, NEW asked, NEW pos,
         AnswerOK(Answer("OK", asked, pos)),
         Take(L, area, asked, pos), order' = loc, margins' = margins
  PROVE  PInv'
<1>1. SortedTo(L, loc)
  BY InvParts, SortSorts
<1>2. Space(L.areas)
  BY <1>1, InvParts, SpaceSame DEF SortedTo
<1> QED BY <1>1, <1>2, TakeInv DEF SortedTo

\* The list is only sorted.
LEMMA SortedInv ==
  ASSUME PInv, NEW loc \in {"TOP_LEFT", "TOP_RIGHT", "BOTTOM_LEFT", "BOTTOM_RIGHT"},
         NEW L \in packer_sort(loc), areas' = L.areas, sorted' = TRUE, order' = loc,
         AnswerOK(reply'), UNCHANGED <<allocedareas, margins, consumed_area, taken, short>>
  PROVE  PInv'
<1>1. SortedTo(L, loc)
  BY InvParts, SortSorts
<1>2. Space(L.areas)
  BY <1>1, InvParts, SpaceSame DEF SortedTo
<1>3. /\ areas' \in Seq(Corners) /\ Len(areas') <= allocedareas' /\ allocedareas' \in Nat \ {0}
      /\ NoTwice(areas') /\ InOrder(areas', order')
  BY <1>1, ListTypes DEF SortedTo
<1>4. ListInOrder'
  BY <1>3 DEF ListInOrder, InOrder
<1>5. Space(areas)'
  BY <1>2 DEF Space, Complete, Clear, OnPage
<1>6. /\ margins' \in Corners /\ ~ is_empty(margins') /\ taken' \subseteq Corners /\ short' \in BOOLEAN
  BY InvParts
<1> QED BY <1>3, <1>4, <1>5, <1>6 DEF PInv, TypeOK, AnswerOK, Space

LEMMA PlaceAtKeeps ==
  ASSUME PackerFits, PInv, NEW area \in Areas, packer_place_at(area)
  PROVE  PInv'
<1> DEFINE b == intersection(margins, area)
<1>1. b \in Corners
  BY InvParts, BoxTypes DEF PackerFits
<1>2. CASE is_empty(b)
  <2>1. /\ reply' = Answer("EMPTY", <<"place_at", area>>, {})
        /\ UNCHANGED <<areas, allocedareas, sorted, consumed_area, taken, short, margins, order>>
    BY <1>2 DEF packer_place_at
  <2>2. AnswerOK(reply')
    BY <2>1, Answers
  <2>3. /\ ListOK' /\ Space(areas)' /\ taken' \subseteq Corners /\ short' \in BOOLEAN
        /\ margins' \in Corners /\ ~ is_empty(margins')
    BY <2>1, InvParts DEF ListOK, ListInOrder, Space, Complete, Clear, OnPage
  <2> QED BY <2>2, <2>3 DEF PInv, TypeOK, ListOK, AnswerOK, Space
<1>3. CASE ~ is_empty(b)
  <2>1. Take(List, b, <<"place_at", area>>, {}) /\ margins' = margins /\ order' = order
    BY <1>3 DEF packer_place_at
  <2> HIDE DEF b
  <2>2. /\ List \in Lists /\ List.ok /\ NoTwice(List.areas) /\ Space(List.areas)
        /\ List.sorted => InOrder(List.areas, order')
    BY <2>1, InvParts, ListIsList, OrderedList DEF ListOK
  <2>3. order' \in {"TOP_LEFT", "TOP_RIGHT", "BOTTOM_LEFT", "BOTTOM_RIGHT"}
    BY <2>1, InvParts DEF ListOK
  <2>4. AnswerOK(Answer("OK", <<"place_at", area>>, {}))
    BY Answers
  <2> QED BY <1>1, <2>1, <2>2, <2>3, <2>4, TakeInv
<1> QED BY <1>2, <1>3

LEMMA NextWidthKeeps ==
  ASSUME PackerFits, PInv, NEW loc \in {"TOP_LEFT", "TOP_RIGHT", "BOTTOM_LEFT", "BOTTOM_RIGHT"},
         packer_next_width(loc)
  PROVE  PInv'
<1>1. PICK L \in packer_sort(loc) : areas' = L.areas /\ sorted' = TRUE
  BY DEF packer_next_width
<1>2. /\ order' = loc /\ reply' = Done
      /\ UNCHANGED <<allocedareas, margins, consumed_area, taken, short>>
  BY DEF packer_next_width
<1>3. AnswerOK(reply')
  BY <1>2, Answers
<1> QED BY <1>1, <1>2, <1>3, SortedInv

LEMMA CornerTypes ==
  ASSUME NEW b \in Corners, NEW loc, NEW w \in Int, NEW h \in Int
  PROVE  Corner(b, loc, w, h) \in Corners
<1>1. b.x0 \in Int /\ b.y0 \in Int /\ b.x1 \in Int /\ b.y1 \in Int
  BY DEF Corners
<1> DEFINE left == loc \in {"TOP_LEFT", "BOTTOM_LEFT"}
           top == loc \in {"TOP_LEFT", "TOP_RIGHT"}
<1>2. /\ (IF left THEN b.x0 ELSE b.x1 - w) \in Int /\ (IF left THEN b.x0 + w ELSE b.x1) \in Int
      /\ (IF top THEN b.y1 - h ELSE b.y0) \in Int /\ (IF top THEN b.y1 ELSE b.y0 + h) \in Int
  BY <1>1
<1> QED BY <1>2, BoxTypes DEF Corner

LEMMA PlaceByKeeps ==
  ASSUME PackerFits, PInv, NEW loc \in {"TOP_LEFT", "TOP_RIGHT", "BOTTOM_LEFT", "BOTTOM_RIGHT"},
         NEW w \in Nat, NEW h \in Nat, packer_place_by(loc, w, h)
  PROVE  PInv'
<1>1. CASE /\ reply' = Answer("EMPTY", <<"place_by", loc, w, h>>, {})
           /\ UNCHANGED <<list, margins, consumed_area, taken, short>>
  <2>1. AnswerOK(reply')
    BY <1>1, Answers
  <2>2. /\ ListOK' /\ Space(areas)' /\ taken' \subseteq Corners /\ short' \in BOOLEAN
        /\ margins' \in Corners /\ ~ is_empty(margins')
    BY <1>1, InvParts DEF list, ListOK, ListInOrder, Space, Complete, Clear, OnPage
  <2> QED BY <2>1, <2>2 DEF PInv, TypeOK, ListOK, AnswerOK, Space
<1>2. ASSUME NEW L \in packer_sort(loc),
             LET fits == {u \in Walk(L) : could_hold(Inside(L, u), w, h)}
             IN IF fits = {}
                THEN /\ areas' = L.areas /\ sorted' = TRUE
                     /\ reply' = Answer("DIDNT_FIT", <<"place_by", loc, w, h>>, {})
                     /\ UNCHANGED <<allocedareas, consumed_area, taken, short>>
                ELSE LET b == Corner(Inside(L, Min(fits)), loc, w, h)
                     IN Take(L, b, <<"place_by", loc, w, h>>, {b}),
             order' = loc, UNCHANGED margins
      PROVE  PInv'
  <2> DEFINE fits == {u \in Walk(L) : could_hold(Inside(L, u), w, h)}
             b == Corner(Inside(L, Min(fits)), loc, w, h)
  <2>1. CASE fits = {}
    <3>1. /\ areas' = L.areas /\ sorted' = TRUE /\ reply' = Answer("DIDNT_FIT", <<"place_by", loc, w, h>>, {})
          /\ UNCHANGED <<allocedareas, consumed_area, taken, short>>
      BY <1>2, <2>1
    <3>2. AnswerOK(reply')
      BY <3>1, Answers
    <3> QED BY <1>2, <3>1, <3>2, SortedInv
  <2>2. CASE fits # {}
    <3>1. Take(L, b, <<"place_by", loc, w, h>>, {b})
      BY <1>2, <2>2
    <3>2. L \in Lists
      BY InvParts, SortSorts DEF SortedTo
    <3>3. fits \subseteq Nat /\ fits \subseteq DOMAIN L.areas
      BY <3>2, InvParts, InsideTypes
    <3>4. Min(fits) \in DOMAIN L.areas
      BY <2>2, <3>3, MinOf
    <3>5. Inside(L, Min(fits)) \in Corners
      BY <3>2, <3>4, InvParts, InsideTypes
    <3> HIDE DEF fits
    <3>6. b \in Corners
      BY <3>5, CornerTypes
    <3> HIDE DEF b
    <3>7. AnswerOK(Answer("OK", <<"place_by", loc, w, h>>, {b}))
      BY Answers
    <3> QED BY <1>2, <3>1, <3>6, <3>7, TakeSorted
  <2> QED BY <2>1, <2>2
<1> QED BY <1>1, <1>2 DEF packer_place_by

LEMMA ClearKeeps ==
  ASSUME PackerFits, PInv, NEW dir, packer_clear(dir)
  PROVE  PInv'
<1>1. PICK L \in packer_sort("TOP_LEFT") :
        LET found == {u \in Walk(L) : Touches(Inside(L, u), dir)}
            clearbox == IF found = {} THEN margins
                        ELSE [margins EXCEPT !.y0 = Inside(L, Min(found)).y1]
        IN Take(L, clearbox, <<"clear", dir>>, {})
  BY DEF packer_clear
<1> DEFINE found == {u \in Walk(L) : Touches(Inside(L, u), dir)}
           clearbox == IF found = {} THEN margins
                       ELSE [margins EXCEPT !.y0 = Inside(L, Min(found)).y1]
<1>2. Take(L, clearbox, <<"clear", dir>>, {}) /\ order' = "TOP_LEFT" /\ margins' = margins
  BY <1>1 DEF packer_clear
<1>3. L \in Lists
  BY InvParts, SortSorts DEF SortedTo
<1>4. found \subseteq Nat /\ found \subseteq DOMAIN L.areas
  BY <1>3, InvParts, InsideTypes
<1>5. clearbox \in Corners
  <2>1. CASE found = {}
    BY <2>1, InvParts
  <2>2. CASE found # {}
    <3>1. Min(found) \in DOMAIN L.areas
      BY <2>2, <1>4, MinOf
    <3>2. Inside(L, Min(found)) \in Corners
      BY <3>1, <1>3, InvParts, InsideTypes
    <3> HIDE DEF found
    <3> QED BY <2>2, <3>2, InvParts DEF Corners
  <2> QED BY <2>1, <2>2
<1> HIDE DEF clearbox
<1>6. AnswerOK(Answer("OK", <<"clear", dir>>, {}))
  BY Answers
<1> QED BY <1>2, <1>5, <1>6, TakeSorted

LEMMA NextInv ==
  ASSUME PackerFits, PInv, [Next]_vars
  PROVE  PInv'
<1>1. CASE UNCHANGED vars
  <2>1. ListOK' /\ Space(areas)' /\ taken' \subseteq Corners /\ short' \in BOOLEAN
        /\ margins' \in Corners /\ ~ is_empty(margins') /\ AnswerOK(reply')
    BY <1>1, InvParts DEF vars, ListOK, ListInOrder, Space, Complete, Clear, OnPage
  <2> QED BY <2>1 DEF PInv, TypeOK, ListOK, AnswerOK, Space
<1>2. CASE packer_map
  <2>1. order \in {"TOP_LEFT", "TOP_RIGHT", "BOTTOM_LEFT", "BOTTOM_RIGHT"}
    BY InvParts DEF ListOK
  <2> QED BY <1>2, <2>1, NextWidthKeeps DEF packer_map
<1>3. ASSUME NEW m \in MarginSets, packer_set_margins(m) PROVE PInv'
  BY <1>3, SetMarginsKeeps
<1>4. ASSUME NEW loc \in Locs, packer_next_width(loc) PROVE PInv'
  BY <1>4, NextWidthKeeps DEF PackerFits
<1>5. ASSUME NEW area \in Areas, packer_place_at(area) PROVE PInv'
  BY <1>5, PlaceAtKeeps
<1>6. ASSUME NEW loc \in Locs, NEW w \in Sizes, NEW h \in Sizes, packer_place_by(loc, w, h)
      PROVE  PInv'
  BY <1>6, PlaceByKeeps DEF PackerFits
<1>7. ASSUME NEW dir \in ClearDirs, packer_clear(dir) PROVE PInv'
  BY <1>7, ClearKeeps
<1> QED BY <1>1, <1>2, <1>3, <1>4, <1>5, <1>6, <1>7 DEF Next

\* PInv is inductive: the list of free areas is typed, within its allocation,
\* in order while marked so, without duplicates, and is the free space.
THEOREM PackerInductive == ASSUME PackerFits PROVE Spec => []PInv
<1>1. Init => PInv
  BY InitInv
<1>2. PInv /\ [Next]_vars => PInv'
  BY NextInv
<1> QED BY <1>1, <1>2, PTL DEF Spec

\* Completeness of PInv is HoldsEveryFreeBox on the page.
LEMMA InvComplete ==
  ASSUME PackerFits, PInv
  PROVE  FreeAreasComplete
<1>1. ASSUME ~ short, NEW x0 \in Page.x0 .. Page.x1, NEW y0 \in Page.y0 .. Page.y1,
             NEW x1 \in x0 + 1 .. Page.x1, NEW y1 \in y0 + 1 .. Page.y1
      PROVE  (\E a \in NonEmpty(areas) : contains_box(box(x0, y0, x1, y1), a))
               <=> (\A t \in taken : ~ intersects(box(x0, y0, x1, y1), t))
  <2> DEFINE b == box(x0, y0, x1, y1)
  <2>1. Page.x0 \in Int /\ Page.x1 \in Int /\ Page.y0 \in Int /\ Page.y1 \in Int
    BY DEF PackerFits, Corners
  <2>2. b \in Corners /\ contains_box(b, Page) /\ ~ is_empty(b)
    BY <2>1 DEF Corners, box, contains_box, is_empty
  <2> HIDE DEF b
  <2>3. ASSUME \A t \in taken : ~ intersects(b, t)
        PROVE  \E a \in NonEmpty(areas) : contains_box(b, a)
    <3>1. Covers(areas, b)
      BY <1>1, <2>2, <2>3 DEF PInv, Complete, b
    <3> QED BY <3>1, CoversMembers
  <2>4. ASSUME NEW a \in NonEmpty(areas), contains_box(b, a), NEW t \in taken
        PROVE  ~ intersects(b, t)
    <3>1. PICK n \in DOMAIN areas : areas[n] = a /\ ~ is_empty(areas[n])
      BY NonEmptyMembers
    <3>2. ~ intersects(a, t)
      BY <1>1, <3>1 DEF PInv, Clear
    <3>3. a \in Corners /\ t \in Corners
      BY InvParts, NonEmptyFits DEF ListOK
    <3> QED BY <2>2, <2>4, <3>2, <3>3, InsideStaysClear
  <2> QED BY <2>3, <2>4 DEF b
<1>2. HoldsEveryFreeBox
  BY <1>1 DEF HoldsEveryFreeBox
<1> QED BY <1>2 DEF PInv, FreeAreasComplete

\* packer_place_by and packer_clear look at one area at a time and miss no
\* place: the areas are exactly the free space, whatever was taken before,
\* until memory runs out.
THEOREM FreeSpaceComplete == ASSUME PackerFits PROVE Spec => []FreeAreasComplete
<1>1. PInv => FreeAreasComplete
  BY InvComplete
<1> QED BY <1>1, PackerInductive, PTL

-----------------------------------------------------------------------------
(* The packer implements PageSpace. *)

LEMMA SameBoxes ==
  /\ \A x0, y0, x1, y1 : Promise!box(x0, y0, x1, y1) = box(x0, y0, x1, y1)
  /\ \A a, b : /\ Promise!intersects(a, b) <=> intersects(a, b)
               /\ Promise!contains_box(a, b) <=> contains_box(a, b)
               /\ Promise!intersection(a, b) = intersection(a, b)
  /\ \A a : Promise!is_empty(a) <=> is_empty(a)
  /\ Promise!Done = Done
BY DEF Promise!box, box, Promise!intersects, intersects, Promise!contains_box, contains_box,
       Promise!intersection, intersection, Promise!Greater, Greater, Promise!Lesser, Lesser,
       Promise!is_empty, is_empty, Promise!Done, Done, Answer

LEMMA BoxFields ==
  /\ \A x0, y0, x1, y1 : /\ box(x0, y0, x1, y1).x0 = x0 /\ box(x0, y0, x1, y1).y0 = y0
                         /\ box(x0, y0, x1, y1).x1 = x1 /\ box(x0, y0, x1, y1).y1 = y1
  /\ \A b \in Corners : b = box(b.x0, b.y0, b.x1, b.y1)
  /\ \A b \in Corners : b.x0 \in Int /\ b.y0 \in Int /\ b.x1 \in Int /\ b.y1 \in Int
BY DEF box, Corners

\* A place for w by h: that size, on the page, within the margins and free.
IsPlace(b, w, h) ==
  /\ b \in Corners /\ b.x1 = b.x0 + w /\ b.y1 = b.y0 + h
  /\ contains_box(b, Page) /\ contains_box(b, margins)
  /\ \A t \in taken : ~ intersects(b, t)

LEMMA PlacesAre ==
  ASSUME PackerFits, NEW w \in Nat, NEW h \in Nat, NEW b
  PROVE  b \in Promise!Places(w, h) <=> IsPlace(b, w, h)
<1> DEFINE X == Page.x0 .. Page.x1 - w
           Y == Page.y0 .. Page.y1 - h
<1>1. Page.x0 \in Int /\ Page.x1 \in Int /\ Page.y0 \in Int /\ Page.y1 \in Int
  BY BoxFields DEF PackerFits
<1>2. b \in Promise!Places(w, h) <=>
        /\ \E x \in X : \E y \in Y : b = box(x, y, x + w, y + h)
        /\ contains_box(b, margins) /\ \A t \in taken : ~ intersects(b, t)
  BY SameBoxes DEF Promise!Places, Promise!Free
<1>3. ASSUME NEW x \in X, NEW y \in Y, b = box(x, y, x + w, y + h)
      PROVE  b \in Corners /\ b.x1 = b.x0 + w /\ b.y1 = b.y0 + h /\ contains_box(b, Page)
  <2>1. x \in Int /\ y \in Int /\ x >= Page.x0 /\ x + w <= Page.x1 /\ y >= Page.y0 /\ y + h <= Page.y1
    BY <1>1
  <2> HIDE DEF X, Y
  <2>2. x + w \in Int /\ y + h \in Int
    BY <2>1
  <2>3. b \in Corners /\ b.x0 = x /\ b.y0 = y /\ b.x1 = x + w /\ b.y1 = y + h
    BY <1>3, <2>1, <2>2, BoxTypes, BoxFields
  <2> QED BY <2>1, <2>3 DEF contains_box
<1>4. ASSUME b \in Corners, b.x1 = b.x0 + w, b.y1 = b.y0 + h, contains_box(b, Page)
      PROVE  \E x \in X : \E y \in Y : b = box(x, y, x + w, y + h)
  <2>1. b.x0 \in Int /\ b.y0 \in Int /\ b = box(b.x0, b.y0, b.x0 + w, b.y0 + h)
    BY <1>4, BoxFields
  <2>2. b.x0 >= Page.x0 /\ b.x0 + w <= Page.x1 /\ b.y0 >= Page.y0 /\ b.y0 + h <= Page.y1
    BY <1>4 DEF contains_box
  <2>3. b.x0 \in X /\ b.y0 \in Y
    BY <1>1, <2>1, <2>2
  <2> QED BY <2>1, <2>3
<1> QED BY <1>2, <1>3, <1>4 DEF IsPlace

\* What packer_place_by is given of an area: its part within the margins.
LEMMA InsideIs ==
  ASSUME PackerFits, NEW L \in Lists, margins \in Corners, taken \subseteq Corners,
         Space(L.areas), NEW n \in Walk(L)
  PROVE  /\ n \in DOMAIN L.areas /\ L.areas[n] \in Corners
         /\ ~ is_empty(L.areas[n]) /\ contains_box(L.areas[n], Page)
         /\ Inside(L, n) \in Corners /\ ~ is_empty(Inside(L, n))
         /\ contains_box(Inside(L, n), L.areas[n])
         /\ contains_box(Inside(L, n), margins) /\ contains_box(Inside(L, n), Page)
         /\ \A t \in taken : ~ intersects(Inside(L, n), t)
<1> DEFINE a == L.areas[n]
           b == Inside(L, n)
<1>1. n \in DOMAIN L.areas /\ a \in Corners /\ b \in Corners /\ ~ is_empty(b)
  BY ListTypes, InsideTypes DEF Walk
<1>2. b = intersection(a, margins)
  BY DEF Inside
<1> HIDE DEF b, a
<1>3. ~ is_empty(a) /\ contains_box(b, a) /\ contains_box(b, margins)
  BY <1>1, <1>2 DEF Corners, intersection, box, Greater, Lesser, is_empty, contains_box
<1>4. contains_box(a, Page) /\ \A t \in taken : ~ intersects(a, t)
  BY <1>1, <1>3 DEF Space, Clear, OnPage, a
<1>5. contains_box(b, Page)
  BY <1>1, <1>3, <1>4, InsideInside DEF PackerFits
<1>6. \A t \in taken : ~ intersects(b, t)
  BY <1>1, <1>3, <1>4, InsideStaysClear
<1> QED BY <1>1, <1>3, <1>4, <1>5, <1>6 DEF a, b

\* Until memory runs out, every place lies in what it is given of some area.
LEMMA PlaceInside ==
  ASSUME PackerFits, NEW L \in Lists, margins \in Corners, Space(L.areas), ~ short,
         NEW w \in Nat \ {0}, NEW h \in Nat \ {0}, NEW c, IsPlace(c, w, h)
  PROVE  \E n \in Walk(L) : contains_box(c, Inside(L, n)) /\ could_hold(Inside(L, n), w, h)
<1>1. c \in Corners /\ ~ is_empty(c) /\ contains_box(c, Page)
  BY DEF IsPlace, Corners, is_empty
<1>2. Covers(L.areas, c)
  BY <1>1 DEF Space, Complete, IsPlace
<1>3. PICK n \in DOMAIN L.areas : ~ is_empty(L.areas[n]) /\ contains_box(c, L.areas[n])
  BY <1>2 DEF Covers
<1> DEFINE a == L.areas[n]
<1>4. a \in Corners
  BY ListTypes
<1>5. contains_box(c, a) /\ contains_box(c, margins)
  BY <1>3 DEF IsPlace
<1>6. Inside(L, n) = intersection(a, margins)
  BY DEF Inside
<1> HIDE DEF a
<1>7. contains_box(c, intersection(a, margins)) /\ ~ is_empty(intersection(a, margins))
      /\ could_hold(intersection(a, margins), w, h)
  BY <1>1, <1>4, <1>5 DEF IsPlace, Corners, intersection, box, Greater, Lesser, is_empty,
                          contains_box, could_hold
<1>8. n \in Walk(L)
  BY <1>6, <1>7 DEF Walk
<1> QED BY <1>6, <1>7, <1>8

\* The corner of an area that holds w by h is that size and in the area.
LEMMA CornerIs ==
  ASSUME NEW b \in Corners, NEW loc \in {"TOP_LEFT", "TOP_RIGHT", "BOTTOM_LEFT", "BOTTOM_RIGHT"},
         NEW w \in Nat, NEW h \in Nat, could_hold(b, w, h)
  PROVE  /\ Corner(b, loc, w, h) \in Corners
         /\ contains_box(Corner(b, loc, w, h), b)
         /\ Corner(b, loc, w, h).x1 = Corner(b, loc, w, h).x0 + w
         /\ Corner(b, loc, w, h).y1 = Corner(b, loc, w, h).y0 + h
         /\ IF Promise!IsTop(loc) THEN Corner(b, loc, w, h).y1 = b.y1
                                  ELSE Corner(b, loc, w, h).y0 = b.y0
         /\ IF Promise!IsLeft(loc) THEN Corner(b, loc, w, h).x0 = b.x0
                                   ELSE Corner(b, loc, w, h).x1 = b.x1
<1>1. CASE loc = "TOP_LEFT"
  BY <1>1 DEF Corner, Corners, box, contains_box, could_hold, Promise!IsTop, Promise!IsLeft
<1>2. CASE loc = "TOP_RIGHT"
  BY <1>2 DEF Corner, Corners, box, contains_box, could_hold, Promise!IsTop, Promise!IsLeft
<1>3. CASE loc = "BOTTOM_LEFT"
  BY <1>3 DEF Corner, Corners, box, contains_box, could_hold, Promise!IsTop, Promise!IsLeft
<1>4. CASE loc = "BOTTOM_RIGHT"
  BY <1>4 DEF Corner, Corners, box, contains_box, could_hold, Promise!IsTop, Promise!IsLeft
<1> QED BY <1>1, <1>2, <1>3, <1>4

\* How far c lies behind b, an area within the margins m of the page P,
\* towards the edge of loc and, where m leaves that edge, to its side.
Behind(c, b, m, P, loc) ==
  /\ Promise!IsTop(loc) =>
       /\ c.y1 <= b.y1
       /\ m.y1 >= P.y1 /\ c.y1 = b.y1 => IF Promise!IsLeft(loc) THEN c.x0 >= b.x0 ELSE c.x1 <= b.x1
  /\ ~ Promise!IsTop(loc) =>
       /\ c.y0 >= b.y0
       /\ m.y0 <= P.y0 /\ c.y0 = b.y0 => IF Promise!IsLeft(loc) THEN c.x0 >= b.x0 ELSE c.x1 <= b.x1

\* An area that B does not come before in the order of loc reaches as far
\* as B towards the edge, and to that side where the margins leave the edge.
LEMMA FirstReaches ==
  ASSUME NEW A \in Corners, NEW B \in Corners, NEW m \in Corners, NEW P \in Corners,
         contains_box(A, P), contains_box(B, P),
         NEW loc \in {"TOP_LEFT", "TOP_RIGHT", "BOTTOM_LEFT", "BOTTOM_RIGHT"},
         ~ Before(B, A, loc),
         NEW c \in Corners, contains_box(c, B), contains_box(c, m)
  PROVE  Behind(c, intersection(A, m), m, P, loc)
<1>1. CASE loc = "TOP_LEFT"
  BY <1>1 DEF Behind, Before, intersection, Corners, box, Greater, Lesser, contains_box,
              Promise!IsTop, Promise!IsLeft
<1>2. CASE loc = "TOP_RIGHT"
  BY <1>2 DEF Behind, Before, intersection, Corners, box, Greater, Lesser, contains_box,
              Promise!IsTop, Promise!IsLeft
<1>3. CASE loc = "BOTTOM_LEFT"
  BY <1>3 DEF Behind, Before, intersection, Corners, box, Greater, Lesser, contains_box,
              Promise!IsTop, Promise!IsLeft
<1>4. CASE loc = "BOTTOM_RIGHT"
  BY <1>4 DEF Behind, Before, intersection, Corners, box, Greater, Lesser, contains_box,
              Promise!IsTop, Promise!IsLeft
<1> QED BY <1>1, <1>2, <1>3, <1>4

\* The first of some places of a list in order is before none of the rest.
LEMMA FirstBefore ==
  ASSUME NEW A \in Seq(Corners), NEW loc \in {"TOP_LEFT", "TOP_RIGHT", "BOTTOM_LEFT", "BOTTOM_RIGHT"},
         InOrder(A, loc), NEW S \in SUBSET DOMAIN A, NEW v \in S
  PROVE  Min(S) \in S /\ ~ Before(A[v], A[Min(S)], loc)
<1>1. DOMAIN A = 1 .. Len(A) /\ Len(A) \in Nat /\ \A n \in DOMAIN A : A[n] \in Corners
  BY LenProperties, ElementOfSeq
<1>2. S \subseteq Nat
  BY <1>1
<1>3. Min(S) \in S /\ Min(S) <= v
  BY <1>2, MinOf
<1>4. ASSUME NEW a \in Corners PROVE ~ Before(a, a, loc)
  <2>1. /\ a.y1 - a.y1 = 0 /\ a.y0 - a.y0 = 0 /\ a.x0 - a.x0 = 0 /\ a.x1 - a.x1 = 0
        /\ ~ 0 < 0
    BY DEF Corners
  <2> QED BY <2>1 DEF Before
<1>5. CASE Min(S) = v
  BY <1>1, <1>3, <1>4, <1>5
<1>6. CASE Min(S) # v
  <2>1. Min(S) < v /\ Min(S) \in DOMAIN A /\ v \in DOMAIN A
    BY <1>1, <1>3, <1>6
  <2> QED BY <1>3, <2>1 DEF InOrder
<1> QED BY <1>5, <1>6

\* What is taken is taken in PageSpace too.
LEMMA TakeTakes ==
  ASSUME NEW L, NEW area, NEW asked, NEW pos, Take(L, area, asked, pos), margins' = margins
  PROVE  Promise!Take(area, pos) /\ reply'.asked = asked
<1>1. PICK fails \in (IF MayFail THEN BOOLEAN ELSE {FALSE}) :
        LET R == remove_area(L, area, fails)
        IN IF R.ok
           THEN /\ taken' = taken \cup {area}
                /\ reply' = Answer("OK", asked, pos)
                /\ UNCHANGED short
           ELSE /\ short' = TRUE
                /\ reply' = Answer("OOM", asked, {})
                /\ UNCHANGED taken
  BY DEF Take
<1>2. \/ taken' = taken \cup {area} /\ reply' = Answer("OK", asked, pos) /\ short' = short
      \/ reply' = Answer("OOM", asked, {}) /\ short' = TRUE /\ taken' = taken
  BY <1>1
<1> QED BY <1>2 DEF Promise!Take, Promise!Answers, Answer

\* A list sorted keeps the free space.
LEMMA SortedSpace ==
  ASSUME PInv, NEW loc \in {"TOP_LEFT", "TOP_RIGHT", "BOTTOM_LEFT", "BOTTOM_RIGHT"},
         NEW L \in packer_sort(loc)
  PROVE  /\ L \in Lists /\ InOrder(L.areas, loc) /\ Space(L.areas)
         /\ L.areas \in Seq(Corners) /\ margins \in Corners /\ taken \subseteq Corners
<1>1. SortedTo(L, loc)
  BY InvParts, SortSorts
<1>2. Space(L.areas)
  BY <1>1, InvParts, SpaceSame DEF SortedTo
<1> QED BY <1>1, <1>2, InvParts, ListTypes DEF SortedTo

\* packer_place_by refuses only what has no place, and places the rest first.
LEMMA PlaceByImplements ==
  ASSUME PackerFits, PInv,
         NEW loc \in Locs, NEW w \in Lengths, NEW h \in Lengths, packer_place_by(loc, w, h)
  PROVE  Promise!PlaceBy(loc, w, h)
<1>1. loc \in {"TOP_LEFT", "TOP_RIGHT", "BOTTOM_LEFT", "BOTTOM_RIGHT"} /\ w \in Nat /\ h \in Nat
  BY DEF PackerFits
<1>2. CASE /\ w = 0 \/ h = 0
           /\ reply' = Answer("EMPTY", <<"place_by", loc, w, h>>, {})
           /\ UNCHANGED <<list, margins, consumed_area, taken, short>>
  BY <1>2 DEF Promise!PlaceBy, Promise!Answers, Answer
<1>3. ASSUME w > 0, h > 0, NEW L \in packer_sort(loc),
             LET fits == {u \in Walk(L) : could_hold(Inside(L, u), w, h)}
             IN IF fits = {}
                THEN /\ areas' = L.areas /\ sorted' = TRUE
                     /\ reply' = Answer("DIDNT_FIT", <<"place_by", loc, w, h>>, {})
                     /\ UNCHANGED <<allocedareas, consumed_area, taken, short>>
                ELSE LET b == Corner(Inside(L, Min(fits)), loc, w, h)
                     IN Take(L, b, <<"place_by", loc, w, h>>, {b}),
             UNCHANGED margins
      PROVE  Promise!PlaceBy(loc, w, h)
  <2> DEFINE fits == {u \in Walk(L) : could_hold(Inside(L, u), w, h)}
             u == Min(fits)
             b == Corner(Inside(L, u), loc, w, h)
  <2>1. /\ L \in Lists /\ InOrder(L.areas, loc) /\ Space(L.areas)
        /\ L.areas \in Seq(Corners) /\ margins \in Corners /\ taken \subseteq Corners
    BY <1>1, SortedSpace
  <2>2. w \in Nat \ {0} /\ h \in Nat \ {0}
    BY <1>1, <1>3
  <2>3. ASSUME ~ short, NEW c, IsPlace(c, w, h)
        PROVE  \E n \in fits : contains_box(c, Inside(L, n))
    BY <2>1, <2>2, <2>3, PlaceInside
  <2>4. CASE fits = {}
    <3>1. reply' = Answer("DIDNT_FIT", <<"place_by", loc, w, h>>, {}) /\ UNCHANGED <<taken, short, margins>>
      BY <1>3, <2>4
    <3>2. short \/ Promise!Places(w, h) = {}
      BY <1>1, <2>3, <2>4, PlacesAre
    <3> QED BY <1>3, <3>1, <3>2 DEF Promise!PlaceBy, Promise!Answers, Answer
  <2>5. CASE fits # {}
    <3>1. Take(L, b, <<"place_by", loc, w, h>>, {b})
      BY <1>3, <2>5
    <3>2. fits \subseteq Walk(L) /\ Walk(L) \subseteq DOMAIN L.areas /\ Walk(L) \subseteq Nat
      BY <2>1, InsideTypes
    <3>3. u \in fits
      BY <2>5, <3>2, MinOf
    <3>4. /\ u \in Walk(L) /\ could_hold(Inside(L, u), w, h)
          /\ L.areas[u] \in Corners /\ contains_box(L.areas[u], Page)
          /\ Inside(L, u) \in Corners /\ contains_box(Inside(L, u), margins)
          /\ contains_box(Inside(L, u), Page)
          /\ \A t \in taken : ~ intersects(Inside(L, u), t)
      BY <2>1, <3>3, InsideIs
    <3>5. \A n \in fits : ~ Before(L.areas[n], L.areas[u], loc)
      BY <1>1, <2>1, <3>2, FirstBefore
    <3> HIDE DEF fits, u
    <3>6. /\ b \in Corners /\ contains_box(b, Inside(L, u))
          /\ b.x1 = b.x0 + w /\ b.y1 = b.y0 + h
          /\ IF Promise!IsTop(loc) THEN b.y1 = Inside(L, u).y1 ELSE b.y0 = Inside(L, u).y0
          /\ IF Promise!IsLeft(loc) THEN b.x0 = Inside(L, u).x0 ELSE b.x1 = Inside(L, u).x1
      BY <1>1, <3>4, CornerIs
    <3> HIDE DEF b
    <3>7. IsPlace(b, w, h)
      <4>1. contains_box(b, Page) /\ contains_box(b, margins)
        BY <2>1, <3>4, <3>6, InsideInside DEF PackerFits
      <4>2. \A t \in taken : ~ intersects(b, t)
        BY <2>1, <3>4, <3>6, InsideStaysClear
      <4> QED BY <3>6, <4>1, <4>2 DEF IsPlace
    <3>8. ASSUME ~ short PROVE Promise!Best(b, Promise!Places(w, h), loc)
      <4>1. ASSUME NEW c \in Promise!Places(w, h)
            PROVE  /\ IF Promise!IsTop(loc) THEN c.y1 <= b.y1 ELSE c.y0 >= b.y0
                   /\ Promise!Flush(loc) /\ c.y0 = b.y0 =>
                        IF Promise!IsLeft(loc) THEN c.x0 >= b.x0 ELSE c.x1 <= b.x1
        <5>1. IsPlace(c, w, h)
          BY <1>1, PlacesAre
        <5>2. PICK n \in fits : contains_box(c, Inside(L, n))
          BY <2>3, <3>8, <5>1
        <5>3. /\ L.areas[n] \in Corners /\ contains_box(L.areas[n], Page)
              /\ Inside(L, n) \in Corners /\ contains_box(Inside(L, n), L.areas[n])
          BY <2>1, <3>2, <5>2, InsideIs
        <5>4. c \in Corners /\ contains_box(c, margins) /\ c.y1 = c.y0 + h /\ Page \in Corners
          BY <5>1 DEF IsPlace, PackerFits
        <5>5. contains_box(c, L.areas[n])
          BY <5>2, <5>3, <5>4, InsideInside
        <5>6. Inside(L, u) = intersection(L.areas[u], margins)
          BY DEF Inside
        <5>7. ~ Before(L.areas[n], L.areas[u], loc)
          BY <3>5, <5>2
        <5>8. Behind(c, Inside(L, u), margins, Page, loc)
          <6>1. ASSUME NEW A \in Corners, NEW B \in Corners, contains_box(A, Page),
                       contains_box(B, Page), contains_box(c, B), ~ Before(B, A, loc)
                PROVE  Behind(c, intersection(A, margins), margins, Page, loc)
            BY <1>1, <2>1, <5>4, <6>1, FirstReaches
          <6>2. /\ L.areas[u] \in Corners /\ contains_box(L.areas[u], Page)
                /\ L.areas[n] \in Corners /\ contains_box(L.areas[n], Page)
            BY <3>4, <5>3
          <6> QED BY <5>5, <5>6, <5>7, <6>1, <6>2
        <5>9. c.y0 = b.y0 => c.y1 = b.y1
          BY <3>6, <5>4
        <5> QED BY <3>6, <5>8, <5>9 DEF Promise!Flush, Behind
      <4> QED BY <4>1 DEF Promise!Best
    <3>9. b \in Promise!Places(w, h)
      BY <1>1, <3>7, PlacesAre
    <3>10. Promise!Take(b, {b}) /\ reply'.asked = <<"place_by", loc, w, h>>
      BY <1>3, <3>1, TakeTakes
    <3> QED BY <1>3, <3>8, <3>9, <3>10 DEF Promise!PlaceBy
  <2> QED BY <2>4, <2>5
<1> QED BY <1>2, <1>3 DEF packer_place_by

\* The width of the strips that PageSpace begins a line with.
LineWidth(dir) == IF dir = "BOTH" THEN margins.x1 - margins.x0 ELSE 1

LEMMA LineStartsAre ==
  ASSUME PackerFits, margins \in Corners, ~ is_empty(margins),
         NEW dir \in {"LEFT", "RIGHT", "BOTH"}, NEW b
  PROVE  /\ LineWidth(dir) \in Nat \ {0}
         /\ b \in Promise!LineStarts(dir) <=> IsPlace(b, LineWidth(dir), 1) /\ Touches(b, dir)
<1>1. LineWidth(dir) \in Nat \ {0} /\ margins.x1 - margins.x0 \in Nat
  BY DEF LineWidth, Corners, is_empty
<1>2. ASSUME IsPlace(b, LineWidth(dir), 1)
      PROVE  /\ b.x0 \in Int /\ b.x1 \in Int /\ margins.x0 \in Int /\ margins.x1 \in Int
             /\ margins.x0 <= b.x0 /\ b.x1 <= margins.x1 /\ b.x1 = b.x0 + LineWidth(dir)
  BY <1>2 DEF IsPlace, Corners, contains_box
<1>3. CASE dir = "LEFT"
  <2>1. b \in Promise!LineStarts(dir) <=> b \in Promise!Places(1, 1) /\ b.x0 = margins.x0
    BY <1>3 DEF Promise!LineStarts
  <2>2. b \in Promise!Places(1, 1) <=> IsPlace(b, 1, 1)
    BY PlacesAre
  <2>3. LineWidth(dir) = 1 /\ (Touches(b, dir) <=> b.x0 <= margins.x0)
    BY <1>3 DEF LineWidth, Touches
  <2> QED BY <1>1, <1>2, <2>1, <2>2, <2>3
<1>4. CASE dir = "RIGHT"
  <2>1. b \in Promise!LineStarts(dir) <=> b \in Promise!Places(1, 1) /\ b.x1 = margins.x1
    BY <1>4 DEF Promise!LineStarts
  <2>2. b \in Promise!Places(1, 1) <=> IsPlace(b, 1, 1)
    BY PlacesAre
  <2>3. LineWidth(dir) = 1 /\ (Touches(b, dir) <=> b.x1 >= margins.x1)
    BY <1>4 DEF LineWidth, Touches
  <2> QED BY <1>1, <1>2, <2>1, <2>2, <2>3
<1>5. CASE dir = "BOTH"
  <2>1. LineWidth(dir) = margins.x1 - margins.x0
        /\ (Touches(b, dir) <=> b.x0 <= margins.x0 /\ b.x1 >= margins.x1)
    BY <1>5 DEF LineWidth, Touches
  <2>2. b \in Promise!LineStarts(dir) <=> b \in Promise!Places(margins.x1 - margins.x0, 1)
    BY <1>5 DEF Promise!LineStarts
  <2>3. b \in Promise!Places(margins.x1 - margins.x0, 1)
          <=> IsPlace(b, margins.x1 - margins.x0, 1)
    BY <1>1, PlacesAre
  <2>4. IsPlace(b, LineWidth(dir), 1) => b.x0 <= margins.x0 /\ b.x1 >= margins.x1
    BY <1>2, <2>1
  <2> QED BY <1>1, <2>1, <2>2, <2>3, <2>4
<1> QED BY <1>3, <1>4, <1>5

\* An area within the margins that touches the edges named can begin a line.
LEMMA AreaBeginsLine ==
  ASSUME NEW a \in Corners, ~ is_empty(a), contains_box(a, margins), contains_box(a, Page),
         margins \in Corners, PackerFits, taken \subseteq Corners,
         \A t \in taken : ~ intersects(a, t),
         NEW dir \in {"LEFT", "RIGHT", "BOTH"}, Touches(a, dir)
  PROVE  \E b : IsPlace(b, LineWidth(dir), 1) /\ Touches(b, dir) /\ b.y1 = a.y1
<1> DEFINE b == box(IF dir = "RIGHT" THEN a.x1 - 1 ELSE a.x0, a.y1 - 1,
                    IF dir = "LEFT" THEN a.x0 + 1 ELSE a.x1, a.y1)
<1>1. /\ a.x0 \in Int /\ a.x1 \in Int /\ a.y0 \in Int /\ a.y1 \in Int
      /\ a.x0 < a.x1 /\ a.y0 < a.y1
      /\ margins.x0 \in Int /\ margins.x1 \in Int
      /\ margins.x0 <= a.x0 /\ a.x1 <= margins.x1
  BY DEF Corners, is_empty, contains_box
<1>2. /\ b \in Corners /\ b.y0 = a.y1 - 1 /\ b.y1 = a.y1
      /\ b.x0 = IF dir = "RIGHT" THEN a.x1 - 1 ELSE a.x0
      /\ b.x1 = IF dir = "LEFT" THEN a.x0 + 1 ELSE a.x1
  BY <1>1 DEF box, Corners
<1> HIDE DEF b
<1>3. contains_box(b, a)
  BY <1>1, <1>2 DEF contains_box
<1>4. b.x1 = b.x0 + LineWidth(dir) /\ Touches(b, dir)
  <2>1. CASE dir = "LEFT"
    BY <1>1, <1>2, <2>1 DEF LineWidth, Touches
  <2>2. CASE dir = "RIGHT"
    BY <1>1, <1>2, <2>2 DEF LineWidth, Touches
  <2>3. CASE dir = "BOTH"
    BY <1>1, <1>2, <2>3 DEF LineWidth, Touches
  <2> QED BY <2>1, <2>2, <2>3
<1>5. b.y1 = b.y0 + 1
  BY <1>1, <1>2
<1>6. contains_box(b, margins) /\ contains_box(b, Page)
  BY <1>2, <1>3, InsideInside DEF PackerFits
<1>7. \A t \in taken : ~ intersects(b, t)
  BY <1>2, <1>3, InsideStaysClear
<1> QED BY <1>2, <1>4, <1>5, <1>6, <1>7 DEF IsPlace

\* The area that packer_clear finds reaches exactly as high as the highest
\* place a line can begin, and it finds none only when there is none.
LEMMA FoundIsHighest ==
  ASSUME PackerFits, NEW L \in Lists, InOrder(L.areas, "TOP_LEFT"), Space(L.areas),
         margins \in Corners, ~ is_empty(margins), taken \subseteq Corners, ~ short,
         NEW dir \in {"LEFT", "RIGHT", "BOTH"},
         NEW found, found = {u \in Walk(L) : Touches(Inside(L, u), dir)}
  PROVE  Promise!Cleared(dir) = IF found = {} THEN margins
                                ELSE [margins EXCEPT !.y0 = Inside(L, Min(found)).y1]
<1> DEFINE S == Promise!LineStarts(dir)
<1>1. ASSUME NEW c \in S
      PROVE  c \in Corners /\ \E n \in found : contains_box(c, Inside(L, n))
  <2>1. IsPlace(c, LineWidth(dir), 1) /\ Touches(c, dir) /\ LineWidth(dir) \in Nat \ {0}
    BY <1>1, LineStartsAre
  <2>2. PICK n \in Walk(L) : contains_box(c, Inside(L, n))
    BY <2>1, PlaceInside
  <2>3. c \in Corners /\ Inside(L, n) \in Corners
    BY <2>1, InsideIs DEF IsPlace
  <2>4. Touches(Inside(L, n), dir)
    BY <2>1, <2>2, <2>3 DEF Touches, contains_box, Corners
  <2> QED BY <2>2, <2>3, <2>4
<1>2. ASSUME NEW n \in found
      PROVE  Inside(L, n) \in Corners /\ \E b \in S : b.y1 = Inside(L, n).y1
  <2>1. n \in Walk(L) /\ Touches(Inside(L, n), dir)
    OBVIOUS
  <2>2. /\ Inside(L, n) \in Corners /\ ~ is_empty(Inside(L, n))
        /\ contains_box(Inside(L, n), margins) /\ contains_box(Inside(L, n), Page)
        /\ \A t \in taken : ~ intersects(Inside(L, n), t)
    BY <2>1, InsideIs
  <2>3. \E b : IsPlace(b, LineWidth(dir), 1) /\ Touches(b, dir) /\ b.y1 = Inside(L, n).y1
    BY <2>1, <2>2, AreaBeginsLine
  <2> QED BY <2>2, <2>3, LineStartsAre
<1>3. CASE found = {}
  <2>1. S = {}
    BY <1>1, <1>3
  <2> QED BY <1>3, <2>1 DEF Promise!Cleared
<1>4. CASE found # {}
  <2> DEFINE u == Min(found)
             y == Inside(L, u).y1
  <2>1. Walk(L) \subseteq DOMAIN L.areas /\ Walk(L) \subseteq Nat
    BY InsideTypes
  <2>2. found \subseteq Walk(L) /\ found \subseteq Nat
    BY <2>1
  <2>3. u \in found
    BY <1>4, <2>2, MinOf
  <2>4. L.areas \in Seq(Corners)
    BY ListTypes
  <2>5. \A n \in found : ~ Before(L.areas[n], L.areas[u], "TOP_LEFT")
    BY <2>1, <2>2, <2>4, FirstBefore
  <2>6. L.areas[u] \in Corners /\ contains_box(L.areas[u], Page)
    BY <2>2, <2>3, InsideIs
  <2> HIDE DEF u, S
  <2>7. PICK b \in S : b.y1 = y
    BY <1>2, <2>3
  <2>8. ASSUME NEW c \in S PROVE c.y1 <= y
    <3>1. PICK n \in found : contains_box(c, Inside(L, n))
      BY <1>1
    <3>2. /\ L.areas[n] \in Corners /\ contains_box(L.areas[n], Page)
          /\ Inside(L, n) \in Corners /\ contains_box(Inside(L, n), L.areas[n])
          /\ contains_box(Inside(L, n), margins)
      BY <2>2, <3>1, InsideIs
    <3>3. c \in Corners /\ contains_box(c, L.areas[n]) /\ contains_box(c, margins)
      BY <1>1, <3>1, <3>2, InsideInside
    <3>4. ASSUME NEW A \in Corners, NEW B \in Corners, contains_box(A, Page),
                 contains_box(B, Page), contains_box(c, B), ~ Before(B, A, "TOP_LEFT")
          PROVE  Behind(c, intersection(A, margins), margins, Page, "TOP_LEFT")
      BY <3>3, <3>4, FirstReaches DEF PackerFits
    <3>5. ~ Before(L.areas[n], L.areas[u], "TOP_LEFT")
      BY <2>5, <3>1
    <3>6. Behind(c, intersection(L.areas[u], margins), margins, Page, "TOP_LEFT")
      BY <2>6, <3>2, <3>3, <3>4, <3>5
    <3>7. Promise!IsTop("TOP_LEFT")
      BY DEF Promise!IsTop
    <3> QED BY <3>6, <3>7 DEF Behind, Inside
  <2>9. \A c \in S : c.y1 \in Int
    BY <1>1 DEF Corners
  <2> DEFINE top == CHOOSE d \in S : \A c \in S : c.y1 <= d.y1
  <2>10. b \in S /\ \A c \in S : c.y1 <= b.y1
    BY <2>7, <2>8
  <2>11. top \in S /\ \A c \in S : c.y1 <= top.y1
    BY <2>10
  <2> HIDE DEF top
  <2>12. top.y1 = y
    <3>1. top.y1 <= b.y1 /\ b.y1 <= top.y1 /\ top.y1 \in Int /\ b.y1 \in Int
      BY <2>9, <2>10, <2>11
    <3> QED BY <2>7, <3>1
  <2>13. Promise!Cleared(dir) = [margins EXCEPT !.y0 = top.y1]
    BY <2>7 DEF Promise!Cleared, S, top
  <2> QED BY <1>4, <2>12, <2>13 DEF u
<1> QED BY <1>3, <1>4

LEMMA ClearImplements ==
  ASSUME PackerFits, PInv, NEW dir \in ClearDirs, packer_clear(dir)
  PROVE  Promise!Clear(dir)
<1>1. PICK L \in packer_sort("TOP_LEFT") :
        LET found == {u \in Walk(L) : Touches(Inside(L, u), dir)}
            clearbox == IF found = {} THEN margins
                        ELSE [margins EXCEPT !.y0 = Inside(L, Min(found)).y1]
        IN Take(L, clearbox, <<"clear", dir>>, {})
  BY DEF packer_clear
<1> DEFINE found == {u \in Walk(L) : Touches(Inside(L, u), dir)}
           clearbox == IF found = {} THEN margins
                       ELSE [margins EXCEPT !.y0 = Inside(L, Min(found)).y1]
<1>2. Take(L, clearbox, <<"clear", dir>>, {}) /\ margins' = margins
  BY <1>1 DEF packer_clear
<1>3. dir \in {"LEFT", "RIGHT", "BOTH"}
  BY DEF PackerFits
<1>4. /\ L \in Lists /\ InOrder(L.areas, "TOP_LEFT") /\ Space(L.areas)
      /\ margins \in Corners /\ taken \subseteq Corners
  BY SortedSpace
<1>5. ~ is_empty(margins) /\ short \in BOOLEAN
  BY DEF PInv, TypeOK
<1>6. Promise!Take(clearbox, {}) /\ reply'.asked = <<"clear", dir>>
  BY <1>2, TakeTakes
<1>8. CASE ~ short
  <2>1. Promise!Cleared(dir) = clearbox
    <3>1. found = {u \in Walk(L) : Touches(Inside(L, u), dir)}
      OBVIOUS
    <3> HIDE DEF found
    <3> QED BY <1>3, <1>4, <1>5, <1>8, <3>1, FoundIsHighest
  <2> HIDE DEF clearbox
  <2> QED BY <1>6, <1>8, <2>1 DEF Promise!Clear
<1>9. CASE short
  <2>1. \E y \in margins.y0 .. margins.y1 : clearbox = [margins EXCEPT !.y0 = y]
    <3>1. CASE found = {}
      <4>1. margins = [margins EXCEPT !.y0 = margins.y0]
        BY <1>4 DEF Corners
      <4>2. margins.y0 \in margins.y0 .. margins.y1
        BY <1>4, <1>5 DEF Corners, is_empty
      <4> QED BY <3>1, <4>1, <4>2
    <3>2. CASE found # {}
      <4>1. found \subseteq Walk(L) /\ found \subseteq Nat
        BY <1>4, InsideTypes
      <4>2. Min(found) \in Walk(L)
        BY <3>2, <4>1, MinOf
      <4> DEFINE b == Inside(L, Min(found))
      <4>3. b \in Corners /\ ~ is_empty(b) /\ contains_box(b, margins)
        BY <1>4, <4>2, InsideIs
      <4>4. clearbox = [margins EXCEPT !.y0 = b.y1]
        BY <3>2
      <4> HIDE DEF b, clearbox
      <4>5. b.y1 \in margins.y0 .. margins.y1
        BY <1>4, <4>3 DEF Corners, is_empty, contains_box
      <4> QED BY <4>4, <4>5
    <3> QED BY <3>1, <3>2
  <2> HIDE DEF clearbox
  <2>2. PICK y \in margins.y0 .. margins.y1 : clearbox = [margins EXCEPT !.y0 = y]
    BY <2>1
  <2>3. Promise!Take([margins EXCEPT !.y0 = y], {})
    BY <1>6, <2>2
  <2> QED BY <1>6, <1>9, <2>3 DEF Promise!Clear
<1> QED BY <1>5, <1>8, <1>9

LEMMA PlaceAtImplements ==
  ASSUME NEW area \in Areas, packer_place_at(area)
  PROVE  Promise!PlaceAt(area)
<1> DEFINE b == intersection(margins, area)
<1>1. Promise!intersection(margins, area) = b /\ (Promise!is_empty(b) <=> is_empty(b))
  BY SameBoxes
<1>2. CASE is_empty(b)
  <2>1. reply' = Answer("EMPTY", <<"place_at", area>>, {}) /\ UNCHANGED <<taken, margins, short>>
    BY <1>2 DEF packer_place_at
  <2> QED BY <1>1, <1>2, <2>1 DEF Promise!PlaceAt, Promise!Answers, Answer
<1>3. CASE ~ is_empty(b)
  <2>1. Take(List, b, <<"place_at", area>>, {}) /\ margins' = margins
    BY <1>3 DEF packer_place_at
  <2> HIDE DEF b
  <2>2. Promise!Take(b, {}) /\ reply'.asked = <<"place_at", area>>
    BY <2>1, TakeTakes
  <2> QED BY <1>1, <1>3, <2>2 DEF Promise!PlaceAt
<1> QED BY <1>2, <1>3

\* A call that takes nothing and answers OK is one of set_margins.
LEMMA QuietImplements ==
  ASSUME margins' \in Corners, ~ is_empty(margins'), reply' = Done,
         taken' = taken, short' = short
  PROVE  Promise!SetMargins
BY SameBoxes DEF Promise!SetMargins, Corners

LEMMA NextImplements ==
  ASSUME PackerFits, PInv, PInv', [Next]_vars
  PROVE  [Promise!Next]_(Promise!vars)
<1>1. margins' \in Corners /\ ~ is_empty(margins')
  BY DEF PInv, TypeOK
<1>2. CASE UNCHANGED vars
  BY <1>2 DEF vars, Promise!vars
<1>3. ASSUME NEW loc, packer_next_width(loc) PROVE Promise!SetMargins
  BY <1>1, <1>3, QuietImplements DEF packer_next_width
<1>4. CASE packer_map
  BY <1>3, <1>4 DEF packer_map, Promise!Next
<1>5. ASSUME NEW m \in MarginSets, packer_set_margins(m) PROVE Promise!SetMargins
  <2>1. reply' = Done /\ taken' = taken /\ short' = short
    BY <1>5 DEF packer_set_margins
  <2> QED BY <1>1, <2>1, QuietImplements
<1>6. ASSUME NEW area \in Areas, packer_place_at(area) PROVE Promise!Next
  BY <1>6, PlaceAtImplements DEF Promise!Next
<1>7. ASSUME NEW loc \in Locs, NEW w \in Sizes, NEW h \in Sizes, packer_place_by(loc, w, h)
      PROVE  Promise!Next
  BY <1>7, PlaceByImplements DEF Promise!Next, PackerFits
<1>8. ASSUME NEW dir \in ClearDirs, packer_clear(dir) PROVE Promise!Next
  BY <1>8, ClearImplements DEF Promise!Next
<1> QED BY <1>2, <1>3, <1>4, <1>5, <1>6, <1>7, <1>8 DEF Next, Promise!Next

\* The packer keeps what geom/packer.h promises, PageSpace: a box is refused
\* only when no place within the margins is free, goes to the edge asked for,
\* and a line is cleared to the highest place the next one can begin.
THEOREM PackerImplements == ASSUME PackerFits PROVE Spec => KeepsSpace
<1>1. Init => Promise!Init
  BY SameBoxes DEF Init, Promise!Init
<1>2. PInv /\ PInv' /\ [Next]_vars => [Promise!Next]_(Promise!vars)
  BY NextImplements
<1> QED BY <1>1, <1>2, PackerInductive, PTL DEF Spec, KeepsSpace, Promise!Spec

-----------------------------------------------------------------------------
(* layout_place upon the packer. *)

Specs ==
  [elements : ElementLists, loc : LayoutLocs, clear : ClearDirs, spacing : Spacings,
   leading : Spacings, nboxes : BoxRoom]

\* The widths that the n-th element may be given.
Widths(n) == spec.elements[n].min .. spec.elements[n].max

\* The boxes of the elements from one place to before another are chosen.
Chosen(from, to) == \A n \in from .. to - 1 : IsBox(n) /\ chosen_width[n] \in Widths(n)

\* The inductive invariant: between lines every box so far is placed, and
\* within a line those before the k-th, the rest of the line being chosen.
LInv ==
  /\ pc \in {"client"} \cup Busy \cup {"done", "failed"}
  /\ pc = "client" => spec = Idle /\ i = 1 /\ k = 1 /\ boxes = <<>>
  /\ pc # "client" => spec \in Specs /\ chosen_width \in [1 .. N -> Int]
  /\ i \in 1 .. N + 1 /\ k \in 1 .. i
  /\ pc = "line" => i <= N
  /\ nextw \in 0 .. Page.x1 - Page.x0
  /\ boxes \in Seq(Corners)
  /\ pc \in {"line", "clear"} => Len(boxes) = BoxesTo(i - 1)
  /\ pc \in {"pad", "place", "space"} => Len(boxes) = BoxesTo(k - 1) /\ Chosen(k, i)
  /\ pc \in {"place", "space"} => k < i
  /\ BoxesAsAsked

\* What the arguments of layout_place are.
LEMMA SpecParts ==
  ASSUME LayoutFits, spec \in Specs
  PROVE  /\ N \in Nat /\ spec.elements \in Seq(Elements) /\ DOMAIN spec.elements = 1 .. N
         /\ spec.loc \in Locs /\ spec.clear \in ClearDirs
         /\ spec.spacing \in Lengths /\ spec.leading \in Lengths
         /\ Lengths \subseteq Nat
         /\ \A n \in 1 .. N : IsBox(n) =>
              /\ spec.elements[n].min \in Nat /\ spec.elements[n].max \in Nat
              /\ spec.elements[n].height \in Lengths
              /\ spec.elements[n].min <= spec.elements[n].max
              /\ Widths(n) \subseteq Lengths
<1>1. /\ spec.elements \in ElementLists /\ spec.loc \in LayoutLocs /\ spec.clear \in ClearDirs
      /\ spec.spacing \in Spacings /\ spec.leading \in Spacings
  BY DEF Specs
<1> DEFINE es == spec.elements
<1>2. es \in Seq(Elements) /\ N = Len(es)
  BY <1>1 DEF LayoutFits, N
<1> HIDE DEF es
<1>3. N \in Nat /\ DOMAIN es = 1 .. N /\ \A n \in 1 .. N : es[n] \in Elements
  BY <1>2, LenProperties, ElementOfSeq
<1>4. Lengths \subseteq Nat
  BY DEF LayoutFits, PackerFits
<1>5. ASSUME NEW n \in 1 .. N, IsBox(n)
      PROVE  /\ es[n].min \in Nat /\ es[n].max \in Nat /\ es[n].height \in Lengths
             /\ es[n].min <= es[n].max /\ Widths(n) \subseteq Lengths
  <2>1. es[n].type = "BOX" /\ es[n] \in Elements
    BY <1>3, <1>5 DEF IsBox, es
  <2>2. es[n].min \in Nat /\ es[n].max \in Nat
    BY <2>1 DEF Elements
  <2>3. /\ es[n].min <= es[n].max
        /\ 0 .. es[n].max \subseteq Lengths /\ es[n].height \in Lengths
    BY <1>1, <1>2, <2>1 DEF LayoutFits, es
  <2>4. Widths(n) \subseteq 0 .. es[n].max
    BY <2>2 DEF Widths, es
  <2> QED BY <2>2, <2>3, <2>4
<1> QED BY <1>1, <1>2, <1>3, <1>4, <1>5 DEF LayoutFits, es

\* How many boxes there are among the first m elements, and one more.
LEMMA BoxesToNext ==
  ASSUME NEW m \in Nat
  PROVE  /\ BoxesTo(m) \in Nat /\ BoxesTo(0) = 0
         /\ IsBox(m + 1) => BoxesTo(m + 1) = BoxesTo(m) + 1
         /\ ~ IsBox(m + 1) => BoxesTo(m + 1) = BoxesTo(m)
<1> DEFINE S(n) == {b \in 1 .. n : IsBox(b)}
<1>1. IsFiniteSet(S(m))
  <2>1. IsFiniteSet(1 .. m)
    BY FS_Interval
  <2> QED BY <2>1, FS_Subset
<1>2. S(0) = {}
  OBVIOUS
<1>3. IsBox(m + 1) => S(m + 1) = S(m) \cup {m + 1} /\ m + 1 \notin S(m)
  OBVIOUS
<1>4. ~ IsBox(m + 1) => S(m + 1) = S(m)
  OBVIOUS
<1>5. BoxesTo(m) = Cardinality(S(m)) /\ BoxesTo(0) = Cardinality(S(0))
      /\ BoxesTo(m + 1) = Cardinality(S(m + 1))
  BY DEF BoxesTo
<1> HIDE DEF S
<1>6. Cardinality(S(m)) \in Nat
  BY <1>1, FS_CardinalityType
<1>7. Cardinality(S(0)) = 0
  BY <1>2, FS_EmptySet
<1>8. IsBox(m + 1) => Cardinality(S(m + 1)) = Cardinality(S(m)) + 1
  BY <1>1, <1>3, FS_AddElement
<1> QED BY <1>4, <1>5, <1>6, <1>7, <1>8

\* What a line that begins at start has come to after some turns.
LineOK(T, start) ==
  /\ T.next \in start .. N + 1
  /\ T.widths \in Seq(Int) /\ Len(T.widths) = T.next - start
  /\ \A n \in start .. T.next - 1 : IsBox(n) /\ T.widths[n - start + 1] \in Widths(n)
  /\ T.left \in Nat /\ T.going \in BOOLEAN
  /\ T.going => /\ T.next <= N /\ IsBox(T.next)
                /\ T.need \in Nat /\ spec.elements[T.next].min <= T.need

LEMMA TurnKeeps ==
  ASSUME LayoutFits, spec \in Specs, NEW start \in 1 .. N, NEW T, LineOK(T, start)
  PROVE  LineOK(Turn(T), start)
<1> DEFINE n == T.next + 1
           width == Lesser(T.left, spec.elements[T.next].max)
           goes == n <= N /\ IsBox(n)
           R == [next   |-> n,
                 widths |-> Append(T.widths, width),
                 left   |-> T.left - width,
                 need   |-> IF goes THEN Need(n) ELSE T.need,
                 going  |-> goes]
<1>1. CASE ~ T.going \/ T.left < T.need
  BY <1>1 DEF Turn
<1>2. CASE ~ (~ T.going \/ T.left < T.need)
  <2>1. Turn(T) = R
    BY <1>2 DEF Turn
  <2>2. /\ T.going /\ T.next \in start .. N /\ IsBox(T.next) /\ T.next \in 1 .. N
        /\ T.need \in Nat /\ spec.elements[T.next].min <= T.need /\ T.need <= T.left
        /\ N \in Nat /\ start \in Nat /\ T.left \in Nat
    BY <1>2, SpecParts DEF LineOK
  <2>3. /\ spec.elements[T.next].min \in Nat /\ spec.elements[T.next].max \in Nat
        /\ spec.elements[T.next].min <= spec.elements[T.next].max
    BY <2>2, SpecParts
  <2>4. width \in Widths(T.next) /\ width \in Nat /\ width <= T.left
    BY <2>2, <2>3 DEF Lesser, Widths
  <2> HIDE DEF width
  <2>5. R.next = n /\ R.left = T.left - width /\ R.going = goes /\ R.widths = Append(T.widths, width)
        /\ R.need = IF goes THEN Need(n) ELSE T.need
    OBVIOUS
  <2>6. goes => Need(n) \in Nat /\ spec.elements[n].min <= Need(n)
    <3>1. ASSUME goes PROVE n \in 1 .. N /\ IsBox(n)
      BY <2>2, <3>1
    <3>2. spec.spacing \in Nat
      BY SpecParts
    <3>3. ASSUME goes PROVE spec.elements[n].min \in Nat
      BY <3>1, <3>3, SpecParts
    <3> HIDE DEF goes
    <3> QED BY <3>2, <3>3 DEF Need
  <2>7. /\ T.widths \in Seq(Int) /\ Len(T.widths) = T.next - start /\ width \in Int
        /\ \A b \in start .. T.next - 1 : IsBox(b) /\ T.widths[b - start + 1] \in Widths(b)
    BY <2>4 DEF LineOK
  <2>8. /\ R.widths \in Seq(Int) /\ Len(R.widths) = n - start
        /\ R.widths[T.next - start + 1] = width
        /\ \A b \in 1 .. T.next - start : R.widths[b] = T.widths[b]
    BY <2>2, <2>5, <2>7, AppendProperties
  <2> HIDE DEF R
  <2>9. ASSUME NEW b \in start .. n - 1
        PROVE  IsBox(b) /\ R.widths[b - start + 1] \in Widths(b)
    <3>1. CASE b = T.next
      BY <3>1, <2>2, <2>4, <2>8
    <3>2. CASE b # T.next
      <4>1. b \in start .. T.next - 1 /\ b - start + 1 \in 1 .. T.next - start
        BY <3>2, <2>2
      <4> QED BY <4>1, <2>7, <2>8
    <3> QED BY <3>1, <3>2
  <2>10. n \in start .. N + 1 /\ T.left - width \in Nat /\ goes \in BOOLEAN
    BY <2>2, <2>4
  <2> QED BY <2>1, <2>5, <2>6, <2>8, <2>9, <2>10 DEF LineOK
<1> QED BY <1>1, <1>2

\* A line before any turn.
Beginning(start, room) ==
  [next |-> start, widths |-> <<>>, left |-> room,
   need |-> spec.elements[start].min, going |-> TRUE]

IsTurns(f, start, room, m) ==
  /\ DOMAIN f = 0 .. m
  /\ f[0] = Beginning(start, room)
  /\ \A t \in 1 .. m : f[t] = Turn(f[t - 1])

LEMMA TurnsExist ==
  ASSUME NEW start, NEW room, NEW n \in Nat
  PROVE  \E f : IsTurns(f, start, room, n)
<1> DEFINE Bad == {m \in Nat : ~ \E f : IsTurns(f, start, room, m)}
<1> SUFFICES ASSUME Bad # {} PROVE FALSE
  OBVIOUS
<1>1. PICK m : m = Min(Bad)
  OBVIOUS
<1>2. m \in Bad /\ \A v \in Bad : m <= v
  BY <1>1, MinOf
<1>3. m # 0
  <2>1. IsTurns([t \in 0 .. 0 |-> Beginning(start, room)], start, room, 0)
    BY DEF IsTurns
  <2> QED BY <2>1, <1>2
<1>4. m \in Nat /\ m - 1 \in Nat /\ ~ m <= m - 1
  BY <1>2, <1>3
<1>5. PICK f : IsTurns(f, start, room, m - 1)
  BY <1>2, <1>4
<1> DEFINE g == [t \in 0 .. m |-> IF t = m THEN Turn(f[m - 1]) ELSE f[t]]
<1>6. /\ DOMAIN g = 0 .. m /\ g[m] = Turn(f[m - 1])
      /\ \A t \in 0 .. m - 1 : g[t] = f[t]
  BY <1>4
<1> HIDE DEF g
<1>7. g[0] = Beginning(start, room)
  BY <1>4, <1>5, <1>6 DEF IsTurns
<1>8. ASSUME NEW t \in 1 .. m PROVE g[t] = Turn(g[t - 1])
  <2>1. CASE t = m
    BY <2>1, <1>4, <1>6
  <2>2. CASE t # m
    <3>1. t \in 1 .. m - 1 /\ t \in 0 .. m - 1 /\ t - 1 \in 0 .. m - 1
      BY <2>2, <1>4
    <3> QED BY <3>1, <1>5, <1>6 DEF IsTurns
  <2> QED BY <2>1, <2>2
<1>9. IsTurns(g, start, room, m)
  BY <1>6, <1>7, <1>8 DEF IsTurns
<1> QED BY <1>2, <1>9

\* The line that layout_place fits is one of chosen widths, all allowed.
LEMMA LineFits ==
  ASSUME LayoutFits, spec \in Specs, NEW start \in 1 .. N, IsBox(start), NEW room \in Nat
  PROVE  LineOK(LineFrom(start, room), start)
<1> DEFINE IsIt(g) == g = [t \in 0 .. N |-> IF t = 0 THEN Beginning(start, room)
                                            ELSE Turn(g[t - 1])]
<1>1. N \in Nat
  BY SpecParts
<1>2. PICK f : IsTurns(f, start, room, N)
  BY <1>1, TurnsExist
<1>3. IsIt([t \in 0 .. N |-> f[t]])
  <2>1. \A t \in 0 .. N : t # 0 => t \in 1 .. N /\ t - 1 \in 0 .. N
    BY <1>1
  <2> QED BY <1>1, <1>2, <2>1 DEF IsTurns
<1>4. PICK h : IsIt(h) /\ LineFrom(start, room) = h[N]
  BY <1>3 DEF LineFrom, Beginning
<1>5. IsTurns(h, start, room, N)
  <2>1. \A t \in 1 .. N : t # 0 /\ t \in 0 .. N
    BY <1>1
  <2>2. 0 \in 0 .. N
    BY <1>1
  <2> QED BY <1>4, <2>1, <2>2 DEF IsTurns
<1> HIDE DEF IsIt
<1>6. LineOK(Beginning(start, room), start)
  <2>1. spec.elements[start].min \in Nat
    BY SpecParts
  <2>2. start \in Nat /\ start <= N
    BY <1>1
  <2> QED BY <1>1, <2>1, <2>2 DEF Beginning, LineOK
<1> DEFINE Bad == {m \in Nat : m <= N /\ ~ LineOK(h[m], start)}
<1>7. CASE Bad # {}
  <2>1. PICK m : m = Min(Bad)
    OBVIOUS
  <2>2. m \in Bad /\ \A v \in Bad : m <= v
    BY <2>1, <1>7, MinOf
  <2>3. m # 0
    BY <2>2, <1>5, <1>6 DEF IsTurns
  <2>4. m - 1 \in Nat /\ m - 1 <= N /\ ~ m <= m - 1 /\ m \in 1 .. N
    BY <1>1, <2>2, <2>3
  <2>5. LineOK(h[m - 1], start)
    BY <2>2, <2>4
  <2>6. h[m] = Turn(h[m - 1])
    BY <1>5, <2>4 DEF IsTurns
  <2> QED BY <2>2, <2>5, <2>6, TurnKeeps
<1>8. CASE Bad = {}
  BY <1>1, <1>4, <1>8
<1> QED BY <1>7, <1>8

\* While the arguments stay, so does what is read from them.
LEMMA SameSpec ==
  ASSUME spec' = spec
  PROVE  /\ N' = N
         /\ \A n : /\ IsBox(n)' <=> IsBox(n)
                   /\ BoxesTo(n)' = BoxesTo(n)
                   /\ Widths(n)' = Widths(n)
         /\ BoxesTo(i - 1)' = BoxesTo(i' - 1) /\ BoxesTo(k - 1)' = BoxesTo(k' - 1)
         /\ boxes' = boxes => (BoxesAsAsked' <=> BoxesAsAsked)
<1>1. /\ N' = N
      /\ BoxesTo(i - 1)' = BoxesTo(i' - 1) /\ BoxesTo(k - 1)' = BoxesTo(k' - 1)
  BY DEF N, BoxesTo, IsBox
<1>2. ASSUME NEW n PROVE (IsBox(n)' <=> IsBox(n)) /\ BoxesTo(n)' = BoxesTo(n) /\ Widths(n)' = Widths(n)
  BY DEF IsBox, BoxesTo, Widths
<1>3. ASSUME boxes' = boxes PROVE BoxesAsAsked' <=> BoxesAsAsked
  BY <1>3 DEF N, IsBox, BoxesTo, BoxesAsAsked
<1> QED BY <1>1, <1>2, <1>3

\* The invariant on the parts that a packer call of layout_place leaves.
LEMMA CallKeeps ==
  ASSUME LInv, pc # "client", UNCHANGED <<spec, i, k, nextw, chosen_width, boxes>>,
         pc' \in Busy \cup {"done", "failed"},
         pc' = "line" => i <= N,
         pc' \in {"line", "clear"} => Len(boxes) = BoxesTo(i - 1),
         pc' \in {"pad", "place", "space"} => Len(boxes) = BoxesTo(k - 1) /\ Chosen(k, i),
         pc' \in {"place", "space"} => k < i
  PROVE  LInv'
<1>1. pc' # "client" /\ pc' \in {"client"} \cup Busy \cup {"done", "failed"}
  BY DEF Busy
<1>2. /\ i' = i /\ k' = k /\ nextw' = nextw /\ chosen_width' = chosen_width
      /\ boxes' = boxes /\ spec' = spec
  OBVIOUS
<1>3. /\ N' = N /\ BoxesTo(i - 1)' = BoxesTo(i - 1) /\ BoxesTo(k - 1)' = BoxesTo(k - 1)
      /\ (Chosen(k, i)' <=> Chosen(k, i)) /\ (BoxesAsAsked' <=> BoxesAsAsked)
  BY <1>2 DEF N, IsBox, BoxesTo, Widths, BoxesAsAsked, Chosen
<1>4. /\ spec \in Specs /\ chosen_width \in [1 .. N -> Int]
      /\ i \in 1 .. N + 1 /\ k \in 1 .. i /\ nextw \in 0 .. Page.x1 - Page.x0
      /\ boxes \in Seq(Corners) /\ BoxesAsAsked
  BY DEF LInv
<1>5. Specs' = Specs /\ Corners' = Corners
  BY DEF Specs, Corners
<1> QED BY <1>1, <1>2, <1>3, <1>4, <1>5 DEF LInv

LEMMA NextWidthTypes ==
  ASSUME PackerFits, PInv, NEW loc \in {"TOP_LEFT", "TOP_RIGHT", "BOTTOM_LEFT", "BOTTOM_RIGHT"},
         NEW L \in packer_sort(loc)
  PROVE  NextWidth(L) \in 0 .. Page.x1 - Page.x0
<1>1. L \in Lists /\ Space(L.areas) /\ margins \in Corners /\ taken \subseteq Corners
  BY SortedSpace
<1>2. /\ Page.x0 \in Int /\ Page.x1 \in Int /\ Page.x0 < Page.x1
  BY DEF PackerFits, Corners, is_empty
<1>3. CASE Walk(L) = {}
  BY <1>2, <1>3 DEF NextWidth
<1>4. CASE Walk(L) # {}
  <2> DEFINE b == Inside(L, Min(Walk(L)))
  <2>1. Min(Walk(L)) \in Walk(L)
    BY <1>1, <1>4, InsideTypes, MinOf
  <2>2. b \in Corners /\ ~ is_empty(b) /\ contains_box(b, Page)
    BY <1>1, <2>1, InsideIs
  <2>3. NextWidth(L) = b.x1 - b.x0
    BY <1>4 DEF NextWidth
  <2> HIDE DEF b
  <2> QED BY <1>2, <2>2, <2>3 DEF Corners, is_empty, contains_box
<1> QED BY <1>3, <1>4

\* A step of a packer call keeps the packer's invariant and promise.
SpaceKept == PInv' /\ [Promise!Next]_(Promise!vars)

LEMMA PlaceKept ==
  ASSUME LayoutFits, PInv, LInv, pc # "client", NEW w \in Lengths, NEW h \in Lengths,
         packer_place_by(spec.loc, w, h)
  PROVE  SpaceKept
<1>1. spec.loc \in Locs /\ PackerFits
  BY SpecParts DEF LInv, LayoutFits
<1>2. spec.loc \in {"TOP_LEFT", "TOP_RIGHT", "BOTTOM_LEFT", "BOTTOM_RIGHT"} /\ w \in Nat /\ h \in Nat
  BY <1>1 DEF PackerFits
<1>3. PInv'
  BY <1>1, <1>2, PlaceByKeeps
<1>4. Promise!PlaceBy(spec.loc, w, h)
  BY <1>1, PlaceByImplements
<1> QED BY <1>1, <1>3, <1>4 DEF SpaceKept, Promise!Next

LEMMA PadLineKeeps ==
  ASSUME LayoutFits, PInv, LInv, PadLine
  PROVE  SpaceKept /\ LInv'
<1>1. /\ pc = "pad" /\ packer_place_by(spec.loc, nextw, spec.leading)
      /\ Then(IF k < i THEN "place" ELSE Onward(clear, i))
      /\ UNCHANGED <<spec, i, k, nextw, chosen_width, boxes>>
  BY DEF PadLine
<1>2. /\ pc # "client" /\ spec \in Specs
      /\ Len(boxes) = BoxesTo(k - 1) /\ Chosen(k, i) /\ i \in 1 .. N + 1 /\ k \in 1 .. i
      /\ nextw \in 0 .. Page.x1 - Page.x0
  BY <1>1 DEF LInv
<1>3. nextw \in Lengths /\ spec.leading \in Lengths /\ N \in Nat
  BY <1>2, SpecParts DEF LayoutFits
<1>4. SpaceKept
  BY <1>1, <1>2, <1>3, PlaceKept
<1>5. \/ k < i /\ pc' = "place"
      \/ k = i /\ pc' = "clear"
      \/ k = i /\ pc' = "line" /\ i <= N
      \/ pc' \in {"done", "failed"}
  BY <1>1, <1>2, <1>3 DEF Then, Onward
<1>6. LInv'
  <2>1. /\ pc' \in Busy \cup {"done", "failed"}
        /\ pc' = "line" => i <= N
        /\ pc' \in {"line", "clear"} => Len(boxes) = BoxesTo(i - 1)
        /\ pc' \in {"pad", "place", "space"} => Len(boxes) = BoxesTo(k - 1) /\ Chosen(k, i)
        /\ pc' \in {"place", "space"} => k < i
    BY <1>2, <1>5 DEF Busy
  <2> QED BY <1>1, <1>2, <2>1, CallKeeps
<1> QED BY <1>4, <1>6

\* The element that layout_place is at within a line.
LEMMA AtBox ==
  ASSUME LayoutFits, LInv, pc \in {"place", "space"}
  PROVE  /\ k \in 1 .. N /\ k < i /\ IsBox(k) /\ chosen_width[k] \in Widths(k)
         /\ chosen_width[k] \in Lengths /\ spec.elements[k].height \in Lengths
         /\ i \in 1 .. N + 1 /\ N \in Nat /\ Len(boxes) = BoxesTo(k - 1) /\ Chosen(k, i)
<1>1. /\ spec \in Specs /\ i \in 1 .. N + 1 /\ k \in 1 .. i /\ k < i /\ Chosen(k, i)
      /\ Len(boxes) = BoxesTo(k - 1)
  BY DEF LInv
<1>2. N \in Nat
  BY <1>1, SpecParts
<1>3. k \in 1 .. N /\ k \in k .. i - 1
  BY <1>1, <1>2
<1>4. IsBox(k) /\ chosen_width[k] \in Widths(k)
  BY <1>1, <1>3 DEF Chosen
<1> QED BY <1>1, <1>2, <1>3, <1>4, SpecParts

LEMMA PadBoxKeeps ==
  ASSUME LayoutFits, PInv, LInv, PadBox
  PROVE  SpaceKept /\ LInv'
<1>1. /\ pc = "space" /\ packer_place_by(spec.loc, spec.spacing, spec.elements[k].height)
      /\ Then("place")
      /\ UNCHANGED <<spec, i, k, nextw, chosen_width, boxes>>
  BY DEF PadBox
<1>2. /\ pc # "client" /\ spec \in Specs
      /\ Len(boxes) = BoxesTo(k - 1) /\ Chosen(k, i) /\ k < i
      /\ spec.elements[k].height \in Lengths
  BY <1>1, AtBox DEF LInv
<1>3. spec.spacing \in Lengths
  BY <1>2, SpecParts
<1>4. SpaceKept
  BY <1>1, <1>2, <1>3, PlaceKept
<1>5. pc' \in {"place", "done", "failed"}
  BY <1>1 DEF Then
<1>6. LInv'
  <2>1. /\ pc' \in Busy \cup {"done", "failed"} /\ pc' # "line" /\ pc' # "clear"
    BY <1>5 DEF Busy
  <2> QED BY <1>1, <1>2, <2>1, CallKeeps
<1> QED BY <1>4, <1>6

\* The line begun is chosen, and all that comes before it is placed.
LEMMA BeginLineKeeps ==
  ASSUME LayoutFits, PInv, LInv, BeginLine
  PROVE  SpaceKept /\ LInv'
<1>1. /\ pc = "line" /\ k' = i /\ sorted' = TRUE /\ order' = spec.loc
      /\ UNCHANGED <<allocedareas, margins, consumed_area, taken, short, reply, spec, boxes>>
  BY DEF BeginLine
<1>2. PICK L \in packer_sort(spec.loc) : areas' = L.areas /\ nextw' = NextWidth(L)
  BY DEF BeginLine
<1>3. /\ spec \in Specs /\ chosen_width \in [1 .. N -> Int] /\ pc # "client"
      /\ i \in 1 .. N + 1 /\ i <= N /\ Len(boxes) = BoxesTo(i - 1)
      /\ boxes \in Seq(Corners) /\ BoxesAsAsked
  BY <1>1 DEF LInv
<1>4. /\ N \in Nat /\ i \in 1 .. N /\ PackerFits
      /\ spec.loc \in {"TOP_LEFT", "TOP_RIGHT", "BOTTOM_LEFT", "BOTTOM_RIGHT"}
  <2>1. N \in Nat /\ spec.loc \in Locs
    BY <1>3, SpecParts
  <2>2. PackerFits
    BY DEF LayoutFits
  <2>3. Locs \subseteq {"TOP_LEFT", "TOP_RIGHT", "BOTTOM_LEFT", "BOTTOM_RIGHT"}
    BY <2>2 DEF PackerFits
  <2>4. i \in 1 .. N
    BY <1>3, <2>1
  <2> QED BY <2>1, <2>2, <2>3, <2>4
<1>5. AnswerOK(reply')
  BY <1>1, InvParts
<1>6. PInv'
  BY <1>1, <1>2, <1>4, <1>5, SortedInv
<1>7. UNCHANGED Promise!vars
  BY <1>1 DEF Promise!vars
<1>8. nextw' \in 0 .. Page.x1 - Page.x0 /\ nextw' \in Nat
  <2>1. nextw' \in 0 .. Page.x1 - Page.x0
    BY <1>2, <1>4, NextWidthTypes
  <2>2. Page.x0 \in Int /\ Page.x1 \in Int
    BY <1>4 DEF PackerFits, Corners
  <2> QED BY <2>1, <2>2
<1>9. /\ N' = N /\ BoxesAsAsked'
      /\ BoxesTo(i - 1)' = BoxesTo(i' - 1) /\ BoxesTo(k - 1)' = BoxesTo(k' - 1)
      /\ \A n : (IsBox(n)' <=> IsBox(n)) /\ BoxesTo(n)' = BoxesTo(n) /\ Widths(n)' = Widths(n)
  BY <1>1, <1>3, SameSpec
<1>10. CASE IsBox(i)
  <2> DEFINE line == LineFrom(i, nextw')
  <2>1. /\ i' = line.next
        /\ chosen_width' = [n \in DOMAIN chosen_width |->
             IF n \in i .. line.next - 1 THEN line.widths[n - i + 1] ELSE chosen_width[n]]
        /\ pc' = CASE i > 1 \/ ~ IsBox(1) -> "pad"
                   [] i = 1 /\ line.next > 1 -> "place"
                   [] OTHER -> Onward(Full(line), line.next)
    BY <1>10 DEF BeginLine
  <2>2. LineOK(line, i)
    BY <1>3, <1>4, <1>8, <1>10, LineFits
  <2> HIDE DEF line
  <2>3. /\ line.next \in i .. N + 1 /\ Len(line.widths) = line.next - i /\ line.widths \in Seq(Int)
        /\ \A n \in i .. line.next - 1 : IsBox(n) /\ line.widths[n - i + 1] \in Widths(n)
    BY <2>2 DEF LineOK
  <2>4. \A n \in i .. line.next - 1 : n \in 1 .. N /\ n - i + 1 \in 1 .. line.next - i
    BY <1>4, <2>3
  <2>5. \A n \in i .. line.next - 1 : line.widths[n - i + 1] \in Int
    BY <2>3, <2>4, ElementOfSeq
  <2>6. chosen_width' \in [1 .. N -> Int]
    BY <1>3, <2>1, <2>5
  <2>7. \A n \in i .. line.next - 1 : IsBox(n) /\ chosen_width'[n] \in Widths(n)
    BY <1>3, <2>1, <2>3, <2>4
  <2>8. \/ pc' = "pad"
        \/ pc' = "place" /\ i < line.next
        \/ i = line.next /\ pc' \in {"clear", "done"}
        \/ i = line.next /\ line.next <= N /\ pc' = "line"
    <3>1. CASE i > 1 \/ ~ IsBox(1)
      BY <2>1, <3>1
    <3>2. CASE ~ (i > 1 \/ ~ IsBox(1)) /\ line.next > 1
      BY <1>4, <2>1, <3>2
    <3>3. CASE ~ (i > 1 \/ ~ IsBox(1)) /\ ~ line.next > 1
      <4>1. i = 1 /\ line.next = 1
        BY <1>4, <2>3, <3>3
      <4>2. pc' = Onward(Full(line), line.next)
        BY <2>1, <3>3
      <4> QED BY <1>4, <4>1, <4>2 DEF Onward
    <3> QED BY <3>1, <3>2, <3>3
  <2>9. pc' \in {"pad", "place", "clear", "done", "line"}
    BY <2>8
  <2>10. /\ i' \in 1 .. N + 1 /\ k' \in 1 .. i' /\ i' = line.next /\ k' = i
    BY <1>1, <1>4, <2>1, <2>3
  <2>11. Chosen(k, i)'
    BY <1>9, <2>7, <2>10 DEF Chosen
  <2>12. /\ Len(boxes') = BoxesTo(k - 1)'
         /\ k' = i' => Len(boxes') = BoxesTo(i - 1)'
    <3>1. BoxesTo(k' - 1) = BoxesTo(i - 1)
      BY <1>1
    <3>2. Len(boxes') = BoxesTo(i - 1) /\ (k' = i' => BoxesTo(k' - 1) = BoxesTo(i' - 1))
      BY <1>1, <1>3
    <3> QED BY <1>9, <3>1, <3>2
  <2>13. /\ pc' \in {"client"} \cup Busy \cup {"done", "failed"} /\ pc' # "client"
         /\ pc' = "line" => i' <= N
         /\ pc' \in {"line", "clear"} => k' = i'
         /\ pc' \in {"place", "space"} => k' < i'
    BY <2>8, <2>9, <2>10 DEF Busy
  <2>14. spec' \in Specs /\ boxes' \in Seq(Corners)
    BY <1>1, <1>3
  <2>15. LInv'
    BY <1>8, <1>9, <2>6, <2>10, <2>11, <2>12, <2>13, <2>14 DEF LInv, Specs, Corners
  <2> QED BY <1>6, <1>7, <2>15 DEF SpaceKept
<1>11. CASE ~ IsBox(i)
  <2>1. i' = i + 1 /\ pc' = "clear" /\ chosen_width' = chosen_width
    BY <1>11 DEF BeginLine
  <2>2. BoxesTo(i) = BoxesTo(i - 1)
    <3>1. i - 1 \in Nat /\ (i - 1) + 1 = i
      BY <1>4
    <3> QED BY <1>11, <3>1, BoxesToNext
  <2>3. i' \in 1 .. N + 1 /\ k' \in 1 .. i' /\ i' - 1 = i
    BY <1>1, <1>4, <2>1
  <2>4. Len(boxes') = BoxesTo(i - 1)'
    <3>1. BoxesTo(i' - 1) = BoxesTo(i)
      BY <2>3
    <3>2. Len(boxes') = BoxesTo(i - 1)
      BY <1>1, <1>3
    <3> QED BY <1>9, <2>2, <3>1, <3>2
  <2>5. pc' \in {"client"} \cup Busy \cup {"done", "failed"} /\ pc' = "clear"
    BY <2>1 DEF Busy
  <2>6. spec' \in Specs /\ boxes' \in Seq(Corners) /\ chosen_width' \in [1 .. N -> Int]
    BY <1>1, <1>3, <2>1
  <2>7. LInv'
    BY <1>8, <1>9, <2>3, <2>4, <2>5, <2>6 DEF LInv, Specs, Corners
  <2> QED BY <1>6, <1>7, <2>7 DEF SpaceKept
<1> QED BY <1>10, <1>11

\* A box placed is that of the k-th element, and as it asks.
LEMMA PlaceBoxKeeps ==
  ASSUME LayoutFits, PInv, LInv, PlaceBox
  PROVE  SpaceKept /\ LInv'
<1> DEFINE w == chosen_width[k]
           h == spec.elements[k].height
<1>1. /\ pc = "place" /\ packer_place_by(spec.loc, w, h)
      /\ UNCHANGED <<spec, i, nextw, chosen_width>>
  BY DEF PlaceBox
<1>2. /\ k \in 1 .. N /\ k < i /\ IsBox(k) /\ w \in Widths(k) /\ w \in Lengths /\ h \in Lengths
      /\ i \in 1 .. N + 1 /\ N \in Nat /\ Len(boxes) = BoxesTo(k - 1) /\ Chosen(k, i)
  BY <1>1, AtBox
<1>3. /\ spec \in Specs /\ chosen_width \in [1 .. N -> Int] /\ pc # "client"
      /\ boxes \in Seq(Corners) /\ BoxesAsAsked /\ nextw \in 0 .. Page.x1 - Page.x0
  BY <1>1 DEF LInv
<1>4. SpaceKept
  BY <1>1, <1>2, <1>3, PlaceKept
<1>5. CASE pc' \in {"done", "failed"} /\ UNCHANGED <<k, boxes>>
  <2>1. pc' \in Busy \cup {"done", "failed"} /\ pc' \notin {"line", "clear", "pad", "place", "space"}
    BY <1>5
  <2>2. LInv'
    BY <1>1, <1>3, <1>5, <2>1, CallKeeps
  <2> QED BY <1>4, <2>2
<1>6. CASE /\ reply'.result = "OK"
           /\ pc' = IF k + 1 < i THEN "space" ELSE Onward(clear, i)
           /\ k' = k + 1
           /\ \E b \in reply'.pos : boxes' = Append(boxes, b)
  <2>1. spec.loc \in Locs /\ PackerFits /\ w \in Nat /\ h \in Nat
    BY <1>2, <1>3, SpecParts DEF LayoutFits
  <2>2. Promise!PlaceBy(spec.loc, w, h)
    BY <1>1, <1>2, <2>1, PlaceByImplements
  <2>3. PICK c \in Promise!Places(w, h) : Promise!Take(c, {c})
    BY <1>6, <2>2 DEF Promise!PlaceBy, Promise!Answers
  <2>4. reply'.pos = {c}
    BY <1>6, <2>3 DEF Promise!Take, Promise!Answers
  <2>5. boxes' = Append(boxes, c)
    BY <1>6, <2>4
  <2>6. c \in Corners /\ c.x1 = c.x0 + w /\ c.y1 = c.y0 + h
    BY <2>1, <2>3, PlacesAre DEF IsPlace
  <2>7. /\ boxes' \in Seq(Corners) /\ Len(boxes) \in Nat /\ Len(boxes') = Len(boxes) + 1
        /\ boxes'[Len(boxes) + 1] = c /\ \A n \in 1 .. Len(boxes) : boxes'[n] = boxes[n]
    BY <1>3, <2>5, <2>6, AppendProperties
  <2>8. BoxesTo(k) = BoxesTo(k - 1) + 1
    <3>1. k - 1 \in Nat /\ (k - 1) + 1 = k
      BY <1>2
    <3> QED BY <1>2, <3>1, BoxesToNext
  <2>9. /\ N' = N
        /\ BoxesTo(i - 1)' = BoxesTo(i' - 1) /\ BoxesTo(k - 1)' = BoxesTo(k' - 1)
        /\ \A n : (IsBox(n)' <=> IsBox(n)) /\ BoxesTo(n)' = BoxesTo(n) /\ Widths(n)' = Widths(n)
    BY <1>1, SameSpec
  <2>10. k' \in 1 .. i' /\ i' \in 1 .. N + 1 /\ i' = i /\ k' - 1 = k
    BY <1>1, <1>2, <1>6
  <2>11. /\ Len(boxes') = BoxesTo(k - 1)'
         /\ k' = i' => Len(boxes') = BoxesTo(i - 1)'
    <3>1. BoxesTo(k' - 1) = BoxesTo(k) /\ (k' = i' => BoxesTo(k' - 1) = BoxesTo(i' - 1))
      BY <2>10
    <3>2. Len(boxes') = BoxesTo(k)
      BY <1>2, <2>7, <2>8
    <3> QED BY <2>9, <3>1, <3>2
  <2>12. /\ pc' \in {"client"} \cup Busy \cup {"done", "failed"} /\ pc' # "client"
         /\ pc' = "line" => i' <= N
         /\ pc' \in {"line", "clear"} => k' = i'
         /\ pc' \in {"place", "space"} => k' < i'
    BY <1>2, <1>6, <2>10 DEF Busy, Onward
  <2>13. Chosen(k, i)'
    <3>1. \A n \in k + 1 .. i - 1 : n \in k .. i - 1
      BY <1>2
    <3> QED BY <1>1, <1>2, <1>6, <2>9, <3>1 DEF Chosen
  <2>14. BoxesAsAsked'
    <3> SUFFICES ASSUME NEW n \in DOMAIN boxes'
                 PROVE  \E m \in 1 .. N :
                          /\ IsBox(m) /\ BoxesTo(m) = n
                          /\ boxes'[n].y1 - boxes'[n].y0 = spec.elements[m].height
                          /\ boxes'[n].x1 - boxes'[n].x0 \in Widths(m)
      BY <1>1, <2>9 DEF BoxesAsAsked, Widths
    <3>1. CASE n = Len(boxes) + 1
      <4>1. IsBox(k) /\ BoxesTo(k) = n /\ boxes'[n] = c
        BY <1>2, <2>7, <2>8, <3>1
      <4>2. w \in Int /\ h \in Int /\ c.x0 \in Int /\ c.y0 \in Int
        BY <2>1, <2>6 DEF Corners
      <4>3. c.y1 - c.y0 = h /\ c.x1 - c.x0 = w
        BY <2>6, <4>2
      <4> QED BY <1>2, <4>1, <4>3
    <3>2. CASE n # Len(boxes) + 1
      <4>1. n \in 1 .. Len(boxes) /\ n \in DOMAIN boxes
        BY <1>3, <2>7, <3>2, LenProperties
      <4> QED BY <1>3, <2>7, <4>1 DEF BoxesAsAsked, Widths
    <3> QED BY <3>1, <3>2
  <2>15. /\ spec' \in Specs /\ chosen_width' \in [1 .. N -> Int]
         /\ nextw' \in 0 .. Page.x1 - Page.x0
    BY <1>1, <1>3
  <2>16. LInv'
    BY <2>7, <2>9, <2>10, <2>11, <2>12, <2>13, <2>14, <2>15 DEF LInv, Specs, Corners
  <2> QED BY <1>4, <2>16
<1> QED
  <2>1. CASE reply'.result # "OK"
    BY <1>5, <2>1 DEF PlaceBox, Then
  <2>2. CASE reply'.result = "OK" /\ Len(boxes) = spec.nboxes
    BY <1>5, <2>2 DEF PlaceBox
  <2>3. CASE reply'.result = "OK" /\ Len(boxes) # spec.nboxes
    BY <1>6, <2>3 DEF PlaceBox
  <2> QED BY <2>1, <2>2, <2>3

LEMMA ClearLineKeeps ==
  ASSUME LayoutFits, PInv, LInv, ClearLine
  PROVE  SpaceKept /\ LInv'
<1>1. /\ pc = "clear" /\ packer_clear(spec.clear)
      /\ Then(IF i > N THEN "done" ELSE "line")
      /\ UNCHANGED <<spec, i, k, nextw, chosen_width, boxes>>
  BY DEF ClearLine
<1>2. /\ pc # "client" /\ spec \in Specs /\ Len(boxes) = BoxesTo(i - 1) /\ i \in 1 .. N + 1
  BY <1>1 DEF LInv
<1>3. N \in Nat /\ spec.clear \in ClearDirs /\ PackerFits
  BY <1>2, SpecParts DEF LayoutFits
<1>4. SpaceKept
  <2>1. PInv'
    BY <1>1, <1>3, ClearKeeps
  <2>2. Promise!Clear(spec.clear)
    BY <1>1, <1>3, ClearImplements
  <2> QED BY <1>3, <2>1, <2>2 DEF SpaceKept, Promise!Next
<1>5. pc' \in {"done", "failed"} \/ (pc' = "line" /\ i <= N)
  BY <1>1, <1>2, <1>3 DEF Then
<1>6. LInv'
  <2>1. /\ pc' \in Busy \cup {"done", "failed"}
        /\ pc' = "line" => i <= N
        /\ pc' \in {"line", "clear"} => Len(boxes) = BoxesTo(i - 1)
        /\ pc' \notin {"pad", "place", "space"}
    BY <1>2, <1>5 DEF Busy
  <2> QED BY <1>1, <1>2, <2>1, CallKeeps
<1> QED BY <1>4, <1>6

LEMMA LayoutPlaceKeeps ==
  ASSUME LayoutFits, PInv, LInv, layout_place
  PROVE  SpaceKept /\ LInv'
<1>1. PICK es \in ElementLists, loc \in LayoutLocs, dir \in ClearDirs,
           s \in Spacings, room \in BoxRoom :
        /\ spec' = [elements |-> es, loc |-> loc, clear |-> dir, spacing |-> s,
                    leading |-> s, nboxes |-> room]
        /\ chosen_width' = [n \in 1 .. Len(es) |-> 0]
        /\ pc' = IF es = <<>> THEN "done" ELSE "line"
  BY DEF layout_place
<1>2. pc = "client" /\ UNCHANGED <<vars, i, first, k, nextw, clear, boxes>>
  BY DEF layout_place
<1>3. i = 1 /\ k = 1 /\ boxes = <<>> /\ nextw \in 0 .. Page.x1 - Page.x0
  BY <1>2 DEF LInv
<1>4. spec' \in Specs /\ spec'.elements = es
  BY <1>1 DEF Specs
<1>5. es \in Seq(Elements) /\ Len(es) \in Nat /\ (es # <<>> => Len(es) >= 1)
  BY DEF LayoutFits
<1>6. N' = Len(es)
  BY <1>4 DEF N
<1>7. /\ i' = 1 /\ k' = 1 /\ boxes' = <<>> /\ nextw' \in 0 .. Page.x1 - Page.x0
      /\ chosen_width' \in [1 .. N' -> Int]
  BY <1>1, <1>2, <1>3, <1>6
<1>8. BoxesTo(0)' = 0
  <2>1. BoxesTo(0)' = Cardinality({})
    BY DEF BoxesTo
  <2> QED BY <2>1, FS_EmptySet
<1>9. BoxesAsAsked'
  BY <1>7 DEF BoxesAsAsked
<1>10. /\ pc' \in {"client"} \cup Busy \cup {"done", "failed"}
       /\ pc' \in {"done", "line"} /\ pc' # "client"
       /\ pc' = "line" => i' <= N'
  BY <1>1, <1>5, <1>6, <1>7 DEF Busy
<1>11. i' \in 1 .. N' + 1 /\ k' \in 1 .. i'
  BY <1>5, <1>6, <1>7
<1>12. boxes' \in Seq(Corners) /\ Len(boxes') = 0 /\ i' - 1 = 0
  BY <1>7
<1>13. LInv'
  BY <1>4, <1>7, <1>8, <1>9, <1>10, <1>11, <1>12 DEF LInv, Specs, Corners
<1>14. PInv'
  <2>1. UNCHANGED vars /\ PackerFits
    BY <1>2 DEF LayoutFits
  <2> QED BY <2>1, NextInv
<1>15. UNCHANGED Promise!vars
  BY <1>2 DEF vars, Promise!vars
<1> QED BY <1>13, <1>14, <1>15 DEF SpaceKept

LEMMA ClientKeeps ==
  ASSUME LayoutFits, PInv, LInv, [Next]_vars, UNCHANGED layoutVars
  PROVE  SpaceKept /\ LInv'
<1>1. PackerFits
  BY DEF LayoutFits
<1>2. PInv'
  BY <1>1, NextInv
<1>3. [Promise!Next]_(Promise!vars)
  BY <1>1, <1>2, NextImplements
<1>4. /\ pc' = pc /\ spec' = spec /\ i' = i /\ k' = k /\ nextw' = nextw
      /\ chosen_width' = chosen_width /\ boxes' = boxes
  BY DEF layoutVars
<1>5. /\ N' = N /\ BoxesTo(i - 1)' = BoxesTo(i - 1) /\ BoxesTo(k - 1)' = BoxesTo(k - 1)
      /\ (Chosen(k, i)' <=> Chosen(k, i)) /\ (BoxesAsAsked' <=> BoxesAsAsked)
  BY <1>4 DEF N, IsBox, BoxesTo, Widths, BoxesAsAsked, Chosen
<1>6. LInv'
  BY <1>4, <1>5 DEF LInv, Specs, Corners
<1> QED BY <1>2, <1>3, <1>6 DEF SpaceKept

LEMMA LayoutNextKeeps ==
  ASSUME LayoutFits, PInv, LInv, [LayoutNext]_allVars
  PROVE  SpaceKept /\ LInv'
<1>1. CASE UNCHANGED allVars
  <2>1. [Next]_vars /\ UNCHANGED layoutVars
    BY <1>1 DEF allVars
  <2> QED BY <2>1, ClientKeeps
<1>2. CASE Client
  BY <1>2, ClientKeeps DEF Client
<1>3. CASE layout_place
  BY <1>3, LayoutPlaceKeeps
<1>4. CASE LayoutStep
  BY <1>4, BeginLineKeeps, PadLineKeeps, PadBoxKeeps, PlaceBoxKeeps, ClearLineKeeps DEF LayoutStep
<1> QED BY <1>1, <1>2, <1>3, <1>4 DEF LayoutNext

LEMMA LayoutInitInv ==
  ASSUME LayoutFits, LayoutInit
  PROVE  PInv /\ LInv /\ Promise!Init
<1>1. PackerFits /\ Init
  BY DEF LayoutFits, LayoutInit
<1>2. PInv
  BY <1>1, InitInv
<1>3. Promise!Init
  BY <1>1, SameBoxes DEF Init, Promise!Init
<1>4. Page.x1 - Page.x0 \in Nat
  BY <1>1 DEF PackerFits, Corners, is_empty
<1>5. N = 0
  BY DEF LayoutInit, Idle, N
<1>6. LInv
  BY <1>4, <1>5 DEF LayoutInit, LInv, BoxesAsAsked, Busy
<1> QED BY <1>2, <1>3, <1>6

\* The packer's and layout_place's invariants are inductive together.
THEOREM LayoutInductive == ASSUME LayoutFits PROVE LayoutSpec => [](PInv /\ LInv)
<1>1. LayoutInit => PInv /\ LInv
  BY LayoutInitInv
<1>2. PInv /\ LInv /\ [LayoutNext]_allVars => (PInv /\ LInv)'
  BY LayoutNextKeeps DEF SpaceKept
<1> QED BY <1>1, <1>2, PTL DEF LayoutSpec

\* layout_place answers the boxes of its first box elements, in their order,
\* as high as asked and as wide as allowed: whatever was taken before, however
\* the lines fall, and wherever the packer found the room.
THEOREM LayoutAnswersBoxes == ASSUME LayoutFits PROVE LayoutSpec => []BoxesAsAsked
<1>1. PInv /\ LInv => BoxesAsAsked
  BY DEF LInv
<1> QED BY <1>1, LayoutInductive, PTL

\* The free list stays the free space while layout_place places and clears.
THEOREM LayoutKeepsFreeSpace == ASSUME LayoutFits PROVE LayoutSpec => []FreeAreasComplete
<1>1. PInv /\ LInv => FreeAreasComplete
  BY InvComplete DEF LayoutFits
<1> QED BY <1>1, LayoutInductive, PTL

\* layout_place and its packer's other clients together see what
\* geom/packer.h promises of the packer.
THEOREM LayoutKeepsSpace == ASSUME LayoutFits PROVE LayoutSpec => KeepsSpace
<1>1. LayoutInit => Promise!Init
  BY LayoutInitInv
<1>2. PInv /\ LInv /\ [LayoutNext]_allVars => [Promise!Next]_(Promise!vars)
  BY LayoutNextKeeps DEF SpaceKept
<1> QED BY <1>1, <1>2, LayoutInductive, PTL DEF LayoutSpec, KeepsSpace, Promise!Spec

=============================================================================
