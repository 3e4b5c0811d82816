------------------------------ MODULE BitQueue ------------------------------
(***************************************************************************)
(* What datastruct/bitfifo.h promises: a queue of at most Capacity bits.   *)
(* Bits come out in the order they went in; a write that does not fit, or  *)
(* a read of more bits than there are, is refused and changes nothing.     *)
(***************************************************************************)
EXTENDS Integers, Sequences

CONSTANTS
  Capacity,   \* the bits the queue holds
  Writes,     \* the sequences of bits clients write
  Reads       \* the numbers of bits clients read

VARIABLES
  queue,      \* the bits held, oldest first
  reply       \* the last call's result and the bits it returned

vars == <<queue, reply>>

Reply(result, bits) == [result |-> result, bits |-> bits]

Init == queue = <<>> /\ reply = Reply("none", <<>>)

\* A full queue refuses even an empty write.
Enqueue(bits) ==
  IF Len(queue) = Capacity \/ Len(queue) + Len(bits) > Capacity
  THEN reply' = Reply("FULL", <<>>) /\ UNCHANGED queue
  ELSE reply' = Reply("OK", <<>>) /\ queue' = queue \o bits

\* An empty queue refuses even an empty read.
Dequeue(n) ==
  \/ queue = <<>> /\ reply' = Reply("EMPTY", <<>>) /\ UNCHANGED queue
  \/ queue # <<>> /\ n > Len(queue)
     /\ reply' = Reply("INSUFFICIENT", <<>>) /\ UNCHANGED queue
  \/ queue # <<>> /\ n <= Len(queue)
     /\ reply' = Reply("OK", SubSeq(queue, 1, n))
     /\ queue' = SubSeq(queue, n + 1, Len(queue))

Clear == queue' = <<>> /\ reply' = Reply("none", <<>>)

Next ==
  \/ \E bits \in Writes : Enqueue(bits)
  \/ \E n \in Reads : Dequeue(n)
  \/ Clear

Spec == Init /\ [][Next]_vars

=============================================================================
