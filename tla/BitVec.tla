------------------------------- MODULE BitVec -------------------------------
(***************************************************************************)
(* datastruct/bitvec: vectors of bits in words, allocated up to the last   *)
(* bit ever set.  A word is the set of its bits that are one.              *)
(***************************************************************************)
EXTENDS Integers, Sequences, FiniteSets, FiniteSetsExt

CONSTANTS
  Vectors,    \* the client's vectors
  WordBits,   \* bits in a word
  MaxBits,    \* bound: the bits clients use
  MayFail     \* whether realloc may fail

VARIABLES
  vec,      \* the words of each vector
  answer    \* what the last call answered

vars == <<vec, answer>>

Bits == 0 .. MaxBits - 1
Word(bit) == bit \div WordBits
InWord(bit) == bit % WordBits

Full == 0 .. WordBits - 1

Lesser(a, b) == IF a < b THEN a ELSE b
Greater(a, b) == IF a > b THEN a ELSE b

\* Words are counted from 0, sequences from 1.
At(v, word) == vec[v][word + 1]
length(v) == Len(vec[v])

bitvec_ensure(words, need) ==
  [w \in 1 .. Greater(need, Len(words)) |-> IF w <= Len(words) THEN words[w] ELSE {}]

Init ==
  /\ vec = [v \in Vectors |-> <<>>]
  /\ answer = <<"OK">>

NoMemory == MayFail /\ answer' = <<"OOM">> /\ UNCHANGED vec

\* The word of bit, grown to if need be, changes to what f makes of it.
Changed(v, bit, f(_)) ==
  /\ answer' = <<"OK">>
  /\ LET grown == bitvec_ensure(vec[v], Word(bit) + 1)
     IN  vec' = [vec EXCEPT ![v] = [grown EXCEPT ![Word(bit) + 1] = f(@)]]

CanFail(v, bit) == Word(bit) >= length(v) /\ NoMemory

bitvec_set(v, bit) ==
  Changed(v, bit, LAMBDA w : w \cup {InWord(bit)}) \/ CanFail(v, bit)

bitvec_toggle(v, bit) ==
  \/ Changed(v, bit, LAMBDA w : (w \cup {InWord(bit)}) \ (w \cap {InWord(bit)}))
  \/ CanFail(v, bit)

bitvec_clear(v, bit) ==
  /\ answer' = <<"OK">>
  /\ IF Word(bit) >= length(v) THEN UNCHANGED vec
     ELSE vec' = [vec EXCEPT ![v][Word(bit) + 1] = @ \ {InWord(bit)}]

bitvec_set_all(v) ==
  /\ answer' = <<"OK">>
  /\ vec' = [vec EXCEPT ![v] = [w \in 1 .. length(v) |-> Full]]

bitvec_clear_all(v) ==
  /\ answer' = <<"OK">>
  /\ vec' = [vec EXCEPT ![v] = [w \in 1 .. length(v) |-> {}]]

\* A new vector takes the place of c.
Created(c, words) ==
  \/ answer' = <<"OK">> /\ vec' = [vec EXCEPT ![c] = words]
  \/ NoMemory

bitvec_and(a, b, c) ==
  Created(c, [w \in 1 .. Lesser(length(a), length(b)) |-> vec[a][w] \cap vec[b][w]])

bitvec_or(a, b, c) ==
  LET longest == IF length(a) > length(b) THEN a ELSE b
      min == Lesser(length(a), length(b))
  IN  Created(c, [w \in 1 .. length(longest) |->
                    IF w <= min THEN vec[a][w] \cup vec[b][w] ELSE vec[longest][w]])

Answers(a) == answer' = a /\ UNCHANGED vec

bitvec_get(v, bit) ==
  Answers(<<"get", v, bit, Word(bit) < length(v) /\ InWord(bit) \in At(v, Word(bit))>>)

bitvec_count(v) ==
  Answers(<<"count", v, MapThenSumSet(LAMBDA w : Cardinality(vec[v][w]), DOMAIN vec[v])>>)

\* Mutant: vectors of different lengths are different.
bitvec_eq_Lengths(a, b) == Answers(<<"eq", a, b, vec[a] = vec[b]>>)

bitvec_eq(a, b) ==
  LET l == Lesser(length(a), length(b))
      p == IF length(a) = l THEN b ELSE a
  IN  Answers(<<"eq", a, b,
                /\ \A w \in 1 .. l : vec[a][w] = vec[b][w]
                /\ \A w \in l + 1 .. length(p) : vec[p][w] = {}>>)

\* The bits of bit's word that have been considered are masked off, but the
\* mask stays on through words with no bit set to the first that has one.
NextOf(v, n) ==
  LET skip == n < 0 \/ InWord(n) = WordBits - 1
      hi == IF n < 0 THEN 0 ELSE IF skip THEN Word(n) + 1 ELSE Word(n)
      lo == IF skip THEN -1 ELSE InWord(n)
      set == {w \in hi .. length(v) - 1 : At(v, w) # {}}
      first == Min(set)
      left == {b \in At(v, first) : b > lo}
      later == set \ {first}
  IN  IF set = {} THEN -1
      ELSE IF left # {} THEN first * WordBits + Min(left)
      ELSE IF later = {} THEN -1
      ELSE Min(later) * WordBits + Min(At(v, Min(later)))

bitvec_next(v, n) == Answers(<<"next", v, n, NextOf(v, n)>>)

Next ==
  \/ \E v \in Vectors, n \in Bits :
       \/ bitvec_set(v, n) \/ bitvec_clear(v, n) \/ bitvec_toggle(v, n)
       \/ bitvec_get(v, n) \/ bitvec_next(v, n)
  \/ \E v \in Vectors :
       \/ bitvec_set_all(v) \/ bitvec_clear_all(v)
       \/ bitvec_count(v) \/ bitvec_next(v, -1)
  \/ \E a, b \in Vectors :
       \/ bitvec_eq(a, b)
       \/ \E c \in Vectors : bitvec_and(a, b, c) \/ bitvec_or(a, b, c)

Spec == Init /\ [][Next]_vars

-----------------------------------------------------------------------------

Members(words) ==
  UNION {{(w - 1) * WordBits + b : b \in words[w]} : w \in DOMAIN words}

Sets == INSTANCE BitSets WITH members <- [v \in Vectors |-> Members(vec[v])]

\* bitvec_next(v, n) where bit n is not set, its word neither.
FromClear ==
  /\ answer'[1] = "next"
  /\ LET v == answer'[2]
         n == answer'[3]
     IN  /\ n >= 0 /\ \A m \in Members(vec[v]) : Word(m) # Word(n)
         /\ bitvec_next(v, n)

\* Vectors are sets of numbers, however many words each has come to have:
\* "they're not the same length, but do have the same bits set", eq.c.
\* bitvec_next is right for a bit of whose word some bit is set, as when a
\* client goes from each set bit to the next.
AreSets == Sets!SetsInit /\ [][Sets!Next \/ FromClear]_vars

\* datastruct/bitvec.h: "Returns the number of the next set bit after 'n'."
NextIsNext == [][Sets!Next]_vars

=============================================================================
