------------------------------ MODULE AtomNames ------------------------------
(***************************************************************************)
(* What datastruct/atom.h promises: numbers that name blocks of data.  A   *)
(* block has one number at a time, which is its until it is deleted or set *)
(* to another block, whatever happens to the others.                       *)
(***************************************************************************)
EXTENDS Integers, Functions, FiniteSets

CONSTANT Blocks

VARIABLES
  names,    \* the block each atom in use names
  answer    \* the last call's result and the atom it gave

vars == <<names, answer>>

Answer(result, atom) == [result |-> result, atom |-> atom]
NotFound == -1

Init == names = [a \in {} |-> {}] /\ answer = Answer("none", NotFound)

With(a, block) == [x \in DOMAIN names \cup {a} |-> IF x = a THEN block ELSE names[x]]

New(block) ==
  \/ /\ \E a \in DOMAIN names : names[a] = block /\ answer' = Answer("NAME_EXISTS", a)
     /\ UNCHANGED names
  \/ /\ block \notin Range(names)
     /\ answer'.result = "OK" /\ answer'.atom \in Nat \ DOMAIN names
     /\ names' = With(answer'.atom, block)
  \/ /\ block \notin Range(names)
     /\ answer' = Answer("OOM", NotFound) /\ UNCHANGED names

\* An atom of no block can be set too, and may be left without one.
Set(a, block) ==
  \/ /\ \A other \in DOMAIN names \ {a} : names[other] # block
     /\ answer' = Answer("OK", a)
     /\ \/ names' = With(a, block)
        \/ a \notin DOMAIN names /\ UNCHANGED names
  \/ /\ \E other \in DOMAIN names \ {a} : names[other] = block
     /\ answer' = Answer("NAME_EXISTS", a) /\ UNCHANGED names
  \/ /\ block \notin Range(names)
     /\ answer' = Answer("OOM", a) /\ UNCHANGED names
  \/ /\ a \notin DOMAIN names
     /\ answer'.atom = a /\ answer'.result \in {"SET_EMPTY", "OUT_OF_RANGE", "ASSERT"} /\ UNCHANGED names

\* Deleting an atom of no block does nothing, or fails an assertion.
Delete(a) ==
  /\ names' = [x \in DOMAIN names \ {a} |-> names[x]]
  /\ \/ answer' = Answer("deleted", a)
     \/ a \notin DOMAIN names /\ answer' = Answer("ASSERT", a)

Next ==
  \/ \E block \in Blocks : New(block) \/ Set(answer'.atom, block)
  \/ Delete(answer'.atom)

Spec == Init /\ [][Next]_vars

=============================================================================
