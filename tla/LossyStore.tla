----------------------------- MODULE LossyStore -----------------------------
(***************************************************************************)
(* What datastruct/cache.h promises of a cache, without saying how.        *)
(*                                                                         *)
(* The cache holds, for each key, the blocks that were put under it and    *)
(* have not been lost, oldest first: putting a key again does not replace  *)
(* what is there.  A lookup answers with the oldest block of its key, byte *)
(* for byte as it was put, or says that there is none.  A block is lost    *)
(* only while a put is making room, and then a key loses its oldest block; *)
(* a put that is accepted ends with its block stored, a put that is        *)
(* refused changes nothing.                                                *)
(***************************************************************************)
EXTENDS Integers, Sequences

CONSTANTS
  Keys,
  Blocks,      \* the blocks a client may put
  None         \* no put is in progress

VARIABLES
  contents,    \* the blocks held for each key, oldest first
  putting,     \* the put in progress: its key and block, or None
  out          \* what the last finished call gave its client

vars == <<contents, putting, out>>

Puts == [key : Keys, block : Blocks]
Answer(result, block) == [result |-> result, block |-> block]
NoAnswer == Answer("none", <<>>)

Init ==
  /\ contents = [k \in Keys |-> <<>>]
  /\ putting = None
  /\ out = NoAnswer

Lookup(k) ==
  /\ putting = None
  /\ out' = IF contents[k] = <<>> THEN Answer("miss", <<>>)
                                  ELSE Answer("hit", Head(contents[k]))
  /\ UNCHANGED <<contents, putting>>

Refuse ==
  /\ putting = None
  /\ out' = Answer("too_big", <<>>)
  /\ UNCHANGED <<contents, putting>>

Begin(p) ==
  /\ putting = None
  /\ putting' = p
  /\ out' = NoAnswer
  /\ UNCHANGED contents

Lose(k) ==
  /\ putting # None
  /\ contents[k] # <<>>
  /\ contents' = [contents EXCEPT ![k] = Tail(@)]
  /\ UNCHANGED <<putting, out>>

Commit ==
  /\ putting # None
  /\ contents' = [contents EXCEPT ![putting.key] = Append(@, putting.block)]
  /\ out' = Answer("ok", putting.block)
  /\ putting' = None

Clear ==
  /\ putting = None
  /\ contents' = [k \in Keys |-> <<>>]
  /\ out' = NoAnswer
  /\ UNCHANGED putting

\* Calls that only concern the statistics.
Other ==
  /\ putting = None
  /\ out' = NoAnswer
  /\ UNCHANGED <<contents, putting>>

Next ==
  \/ \E k \in Keys : Lookup(k) \/ Lose(k)
  \/ \E p \in Puts : Begin(p)
  \/ Refuse
  \/ Commit
  \/ Clear
  \/ Other

Spec == Init /\ [][Next]_vars

=============================================================================
