------------------------------ MODULE BitSets ------------------------------
(***************************************************************************)
(* What datastruct/bitvec.h promises: vectors are sets of numbers.         *)
(* "Unallocated bits are notionally always present and read as zero."      *)
(***************************************************************************)
EXTENDS Integers, FiniteSets

CONSTANTS Vectors, Bits

VARIABLES
  members,   \* the bits set in each vector
  answer     \* what the last call answered

setVars == <<members, answer>>

Least(S) == IF S = {} THEN -1 ELSE CHOOSE n \in S : \A m \in S : n <= m

Becomes(v, S) == members' = [members EXCEPT ![v] = S]

Set(v, n) == Becomes(v, members[v] \cup {n})
Clear(v, n) == Becomes(v, members[v] \ {n})
Toggle(v, n) == IF n \in members[v] THEN Clear(v, n) ELSE Set(v, n)

\* How far this reaches is left open: "this is probably doing the wrong
\* thing by setting all 'known' bits", set-all.c.
SetAll(v) == \E n \in 0 .. Cardinality(Bits) : Becomes(v, 0 .. n - 1)

Change ==
  /\ \/ \E v \in Vectors, n \in Bits : Set(v, n) \/ Clear(v, n) \/ Toggle(v, n)
     \/ \E v \in Vectors : SetAll(v) \/ Becomes(v, {})
  /\ answer' = <<"OK">>

\* *c is a new vector.
Combine ==
  /\ \E a, b, c \in Vectors :
       \/ Becomes(c, members[a] \cap members[b])
       \/ Becomes(c, members[a] \cup members[b])
  /\ answer' = <<"OK">>

Fail == answer' = <<"OOM">> /\ UNCHANGED members

Get(v, n) == answer' = <<"get", v, n, n \in members[v]>>
Count(v) == answer' = <<"count", v, Cardinality(members[v])>>
Equal(a, b) == answer' = <<"eq", a, b, members[a] = members[b]>>
After(v, n) == answer' = <<"next", v, n, Least({m \in members[v] : m > n})>>

Query ==
  /\ \/ \E v \in Vectors, n \in Bits : Get(v, n) \/ After(v, n)
     \/ \E v \in Vectors : Count(v) \/ After(v, -1)
     \/ \E a, b \in Vectors : Equal(a, b)
  /\ UNCHANGED members

SetsInit == members = [v \in Vectors |-> {}] /\ answer = <<"OK">>

Next == Change \/ Combine \/ Fail \/ Query

=============================================================================
