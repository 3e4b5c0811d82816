---------------------------- MODULE BinarySearch ----------------------------
(***************************************************************************)
(* bsearch_int and its siblings (utils/bsearch): where a value is in an    *)
(* array in ascending order, by halving a range whose length is a power of *)
(* two. One step is one turn of the loop.                                  *)
(***************************************************************************)
EXTENDS Integers, Sequences, FiniteSetsExt

CONSTANTS
  Values,      \* the values in arrays
  Wanted,      \* the values looked for
  MaxElems     \* bound: the elements of an array

\* Whatever is compared is a number.
ValuesFit == Values \subseteq Int /\ Wanted \subseteq Int /\ MaxElems \in Nat

VARIABLES
  array, want,
  range,       \* searchRange
  i,           \* the element the search is at
  c,           \* the element last read
  pc           \* "start", "loop", or "done"

vars == <<array, want, range, i, c, pc>>

Ascending(n) == {a \in [1 .. n -> Values] : \A j \in 1 .. n - 1 : a[j] <= a[j + 1]}

Init ==
  /\ array \in UNION {Ascending(n) : n \in 0 .. MaxElems}
  /\ want \in Wanted
  /\ range = 0 /\ i = -1 /\ c = 0 /\ pc = "start"

-----------------------------------------------------------------------------

nelems == Len(array)

\* "Returns the power of two less than or equal to the argument."
power2le(x) == Max({2 ^ k : k \in {k \in 0 .. x : 2 ^ k <= x}})

\* Mutant: the elements after those, whether there are as many or not.
rangeShift_Half(n, r) == r

\* The array holds a whole power of two of elements up to its place
\* searchRange - 1; the elements after that are the end of as many again.
rangeShift(n, r) == n - r

NoElements ==
  /\ pc = "start" /\ array = <<>>
  /\ pc' = "done"
  /\ UNCHANGED <<array, want, range, i, c>>

Start ==
  /\ pc = "start" /\ array # <<>>
  /\ LET r == power2le(nelems)
     IN  /\ range' = r
         /\ i' = IF want > array[r] THEN rangeShift(nelems, r) ELSE r - 1
  /\ pc' = "loop"
  /\ UNCHANGED <<array, want, c>>

\* The loop has come to its end: what it read last is the answer, or nothing is.
Answer(place, read) == IF read = want THEN place ELSE -1

Halve ==
  /\ pc = "loop"
  /\ range' = range \div 2
  /\ c' = array[i + 1]
  /\ LET to == CASE want < c' -> i - range'
                 [] want > c' -> i + range'
                 [] OTHER -> i
     IN  IF want # c' /\ range' # 0
           THEN i' = to /\ pc' = "loop"
           ELSE i' = Answer(to, c') /\ pc' = "done"
  /\ UNCHANGED <<array, want>>

Next == NoElements \/ Start \/ Halve

Spec == Init /\ [][Next]_vars

-----------------------------------------------------------------------------

\* The search reads nothing but the array's elements, and answers a place the
\* value has there, or -1 exactly when it has none.
FindsIffThere ==
  /\ pc = "loop" => i \in 0 .. nelems - 1
  /\ pc = "done" => IF \E j \in DOMAIN array : array[j] = want
                      THEN i \in 0 .. nelems - 1 /\ array[i + 1] = want
                      ELSE i = -1

=============================================================================
