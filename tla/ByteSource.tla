----------------------------- MODULE ByteSource -----------------------------
(***************************************************************************)
(* What io/stream.h promises of a stream over fixed data: its bytes one    *)
(* after the other from a position, and the end when there are no more.    *)
(***************************************************************************)
EXTENDS Integers, Sequences

VARIABLES
  data,     \* the bytes
  pos,      \* how many are before the position
  answer    \* the answer to the last call: a sequence of no or one number

vars == <<data, pos, answer>>

EOF == <<>>

Init == pos = 0 /\ answer = EOF

Get ==
  /\ IF pos < Len(data) THEN pos' = pos + 1 /\ answer' = <<data[pos + 1]>>
                        ELSE pos' = pos /\ answer' = EOF
  /\ UNCHANGED data

\* The last byte is put back.
Unget == pos > 0 /\ pos' = pos - 1 /\ UNCHANGED <<data, answer>>

\* How many bytes can be had without another call: some unless at the end.
Fill ==
  /\ \/ pos < Len(data) /\ \E n \in 1 .. Len(data) - pos : answer' = <<n>>
     \/ pos >= Len(data) /\ answer' = EOF
  /\ UNCHANGED <<data, pos>>

Seek == pos' \in Nat /\ UNCHANGED <<data, answer>>

Next == Get \/ Unget \/ Fill \/ Seek

Spec == Init /\ [][Next]_vars

=============================================================================
