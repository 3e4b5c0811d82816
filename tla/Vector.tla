------------------------------- MODULE Vector -------------------------------
(***************************************************************************)
(* datastruct/vector: an array of which the element's width can change,    *)
(* byte by byte, in a block of memory that is reallocated to size.         *)
(***************************************************************************)
EXTENDS Integers, Sequences, SequencesExt

CONSTANTS
  Widths,      \* the widths clients ask for
  MaxLength,   \* bound: the elements clients ask for
  Values,      \* what clients store
  MayFail      \* whether realloc may fail

VARIABLES
  width, used, allocated,
  base,    \* the bytes of the block
  block,   \* "null", "live", "freed" by realloc, or "wild": written outside of it
  result   \* the last code answered

vars == <<width, used, allocated, base, block, result>>

Unwritten == -1   \* a byte the program never wrote

Element(v) == [b \in 1 .. width |-> 10 * v + b]

\* The n bytes from offset "from" moved to offset "to".
Moved(mem, to, from, n) ==
  [b \in DOMAIN mem |-> IF b \in to + 1 .. to + n THEN mem[b - to + from] ELSE mem[b]]

Stored(mem, index, bytes) ==
  [b \in DOMAIN mem |->
     IF b \in index * width + 1 .. index * width + Len(bytes)
     THEN bytes[b - index * width] ELSE mem[b]]

Upwards(n) == IF n = 0 THEN <<>> ELSE [i \in 1 .. n - 1 |-> i]

\* Mutant: the elements are moved last first.
array_squeeze_Backwards(mem, n, old, new) ==
  FoldLeft(LAMBDA m, i : Moved(m, i * new, i * old, new), mem, Reverse(Upwards(n)))

array_squeeze(mem, n, old, new) ==
  FoldLeft(LAMBDA m, i : Moved(m, i * new, i * old, new), mem, Upwards(n))

array_stretch(mem, n, old, new) ==
  LET apart == FoldLeft(LAMBDA m, i : Moved(m, i * new, i * old, old),
                        mem, Reverse(Upwards(n)))
  IN  [b \in DOMAIN mem |-> IF (b - 1) % new >= old THEN 0 ELSE apart[b]]

Resized(mem, size) ==
  [b \in 1 .. size |-> IF b <= Len(mem) THEN mem[b] ELSE Unwritten]

-----------------------------------------------------------------------------

Init ==
  /\ width \in Widths
  /\ used = 0 /\ allocated = 0 /\ base = <<>> /\ block = "null"
  /\ result = "OK"

\* realloc answers a null pointer: it is out of memory, or was asked for no
\* bytes of a block, which it may then have freed.
Refused(size) ==
  /\ \/ MayFail /\ block' = block
     \/ size = 0 /\ block = "live" /\ block' = "freed"
  /\ result' = "OOM" /\ UNCHANGED <<width, used, allocated>>

vector_clear ==
  used' = 0 /\ UNCHANGED <<width, allocated, base, block, result>>

\* need elements, from what was allocated.
Room(need) == IF need > allocated THEN Resized(base, need * width) ELSE base

Ensured(need) ==
  /\ base' = Room(need)
  /\ allocated' = IF need > allocated THEN need ELSE allocated
  /\ block' = IF need > allocated THEN "live" ELSE block
  /\ result' = "OK"

vector_ensure(need) ==
  \/ Ensured(need) /\ UNCHANGED <<width, used>>
  \/ need > allocated /\ Refused(need * width) /\ UNCHANGED base

vector_set_length(length) ==
  \/ /\ used' = length /\ allocated' = length
     /\ base' = Resized(base, length * width) /\ block' = "live"
     /\ result' = "OK" /\ UNCHANGED width
  \/ Refused(length * width) /\ UNCHANGED base

vector_set(index, v) ==
  /\ index < allocated
  /\ base' = Stored(base, index, Element(v))
  /\ used' = IF index < used THEN used ELSE index + 1
  /\ UNCHANGED <<width, allocated, block, result>>

\* vector_insert is the case of one value.
vector_insert_many(vs) ==
  \/ /\ allocated' = IF used + Len(vs) > allocated THEN used + Len(vs) ELSE allocated
     /\ block' = "live" /\ result' = "OK"
     /\ base' = FoldLeft(LAMBDA m, i : Stored(m, used + i - 1, Element(vs[i])),
                         Room(used + Len(vs)), [i \in DOMAIN vs |-> i])
     /\ used' = used + Len(vs)
     /\ UNCHANGED width
  \/ used + Len(vs) > allocated /\ Refused((used + Len(vs)) * width) /\ UNCHANGED base

Squeezed(w) ==
  IF w < width THEN array_squeeze(base, used, width, w) ELSE base

SameWidth(w) ==
  /\ w \in {0, width}
  /\ result' = IF w = 0 THEN "BAD_ARG" ELSE "OK"
  /\ UNCHANGED <<width, used, allocated, base, block>>

\* With no elements array_stretch starts one element before the block, which
\* for a null pointer is at the end of memory.
WidenNothing(w) ==
  /\ w > width /\ block = "null"
  /\ block' = "wild"
  /\ UNCHANGED <<width, used, allocated, base, result>>

NewWidth(w) ==
  /\ w \notin {0, width}
  /\ ~ (w > width /\ block = "null")
  /\ LET resized == Resized(Squeezed(w), used * w)
     IN  base' = IF w > width THEN array_stretch(resized, used, width, w) ELSE resized
  /\ width' = w /\ allocated' = used
  /\ result' = "OK" /\ UNCHANGED <<used, block>>

NoNewWidth(w) ==
  /\ w \notin {0, width}
  /\ allocated * width # used * w
  /\ Refused(used * w)
  /\ base' = Squeezed(w)

vector_set_width(w) == SameWidth(w) \/ WidenNothing(w) \/ NewWidth(w) \/ NoNewWidth(w)

Next ==
  /\ block \in {"null", "live"}
  /\ \/ vector_clear
     \/ \E n \in 0 .. MaxLength : vector_ensure(n) \/ vector_set_length(n)
     \/ \E i \in 0 .. MaxLength - 1, v \in Values : vector_set(i, v)
     \/ \E vs \in [1 .. 1 -> Values] \cup [1 .. 2 -> Values] :
          used + Len(vs) <= MaxLength /\ vector_insert_many(vs)
     \/ \E w \in Widths \cup {0} : vector_set_width(w)

Spec == Init /\ [][Next]_vars

-----------------------------------------------------------------------------

Array == INSTANCE FlexArray WITH
  Elements <- {[b \in 1 .. w |-> 10 * v + b] : w \in Widths, v \in Values},
  elems <- [i \in 1 .. used |-> SubSeq(base, (i - 1) * width + 1, i * width)]

\* A step that keeps the elements, or one of the exceptions below.
ElementsKept ==
  \/ block' \in {"freed", "wild"}
  \/ Array!Next
  \/ /\ Array!FailNarrowing
     /\ \E w \in Widths : w < width /\ base' = Squeezed(w)

\* Elements keep their bytes, cut off or filled with zeroes, through any mix
\* of calls that change the number allocated, the length and the width in
\* place; a call that fails leaves them alone.  Not so a narrowing that fails
\* after it has squeezed the elements (set-width.c:33), nor when realloc
\* frees a vector asked down to no bytes (set-length.c:17) or a vector
\* without a block is widened (stretch.c:65).
KeepsElements == Array!Init /\ [][ElementsKept]_vars

=============================================================================
