----------------------------- MODULE FlexArray -----------------------------
(***************************************************************************)
(* What datastruct/vector.h promises: a sequence of elements, each of the  *)
(* same number of bytes, of which both lengths can be changed.             *)
(***************************************************************************)
EXTENDS Integers, Sequences

CONSTANT Elements   \* what clients store: sequences of bytes

VARIABLES width, elems, result

arrayVars == <<width, elems, result>>

Init == elems = <<>> /\ result = "OK"

\* The elements before and after a call, as far as both go.
Kept(indices) == \A i \in indices : elems'[i] = elems[i]
Both == DOMAIN elems \cap DOMAIN elems'

\* What is new of a longer array is not promised.
SetLength == result' = "OK" /\ Kept(Both) /\ UNCHANGED width

Clear == elems' = <<>> /\ UNCHANGED <<width, result>>

Assigned(i) ==
  /\ i \in DOMAIN elems'
  /\ elems'[i] \in Elements /\ Len(elems'[i]) = width
  /\ Kept(Both \ {i})

Set == /\ \E i \in DOMAIN elems' :
            /\ Assigned(i)
            /\ Len(elems') = IF i > Len(elems) THEN i ELSE Len(elems)
       /\ UNCHANGED <<width, result>>

Insert ==
  /\ Len(elems') > Len(elems)
  /\ Kept(DOMAIN elems)
  /\ \A i \in DOMAIN elems' \ DOMAIN elems : Assigned(i)
  /\ result' = "OK" /\ UNCHANGED width

\* Bytes are cut off, or zeroes added, at the end of each element.
SetWidth ==
  /\ elems' = [i \in DOMAIN elems |->
                 [b \in 1 .. width' |-> IF b <= width THEN elems[i][b] ELSE 0]]
  /\ result' = "OK"

Fail == result' \in {"OOM", "BAD_ARG"} /\ UNCHANGED <<width, elems>>

\* Not promised by the header: a change of width that failed may have lost
\* the elements' bytes.
FailNarrowing ==
  result' = "OOM" /\ Len(elems') = Len(elems) /\ UNCHANGED width

Next == Clear \/ SetLength \/ Set \/ Insert \/ SetWidth \/ Fail

=============================================================================
