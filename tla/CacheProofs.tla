---------------------------- MODULE CacheProofs ----------------------------
(***************************************************************************)
(* That Cache keeps its store, for any keys, values, bins, entries, store  *)
(* length, quantum and clock.                                              *)
(*                                                                         *)
(* None of the properties is inductive alone: purge can only be shown to   *)
(* hand the right units back if every entry is on one chain, and the type  *)
(* of what cache_get returns needs every entry's block to lie inside the   *)
(* store.  IInv is their conjunction, with what must be known of a request *)
(* whose block is taken and not yet linked.                                *)
(*                                                                         *)
(* The lemmas about the lists come first: what purge and cache_put make of *)
(* the free list, and what moving an entry makes of the chains.            *)
(***************************************************************************)
EXTENDS CacheAge, SequenceLemmas

\* F with its elements from k + 1 to q - 1 replaced by m.
Spliced(F, k, m, q) == SubSeq(F, 1, k) \o <<m>> \o SubSeq(F, q, Len(F))

\* The length and the elements of R, a spliced sequence.
SplicedAs(S, F, k, m, q, R) ==
  /\ R \in Seq(S)
  /\ Len(R) = k + 2 + Len(F) - q
  /\ \A i \in 1 .. k : R[i] = F[i]
  /\ R[k + 1] = m
  /\ \A i \in k + 2 .. Len(R) : R[i] = F[i + q - k - 2]

\* Spliced is as SplicedAs says (it is how purge makes its list).
LEMMA Splice ==
  ASSUME NEW S, NEW F \in Seq(S), NEW m \in S,
         NEW k \in 0 .. Len(F), NEW q \in k + 1 .. Len(F) + 1,
         NEW R, R = Spliced(F, k, m, q)
  PROVE  SplicedAs(S, F, k, m, q, R)
<1> DEFINE A == SubSeq(F, 1, k)
           C == SubSeq(F, q, Len(F))
           AM == A \o <<m>>
<1>1. Len(F) \in Nat /\ \A i \in 1 .. Len(F) : F[i] \in S
  BY LenProperties, ElementOfSeq
<1>2. /\ A \in Seq(S)
      /\ Len(A) = k
      /\ \A i \in 1 .. k : A[i] = F[i]
  BY <1>1, SubSeqProperties
<1>3. /\ C \in Seq(S)
      /\ Len(C) = Len(F) + 1 - q
      /\ \A i \in 1 .. Len(C) : C[i] = F[q + i - 1]
  BY <1>1, SubSeqProperties
<1>4. <<m>> \in Seq(S) /\ Len(<<m>>) = 1 /\ <<m>>[1] = m
  OBVIOUS
<1> HIDE DEF A, C
<1>5. /\ AM \in Seq(S)
      /\ Len(AM) = k + 1
      /\ \A i \in 1 .. k : AM[i] = F[i]
      /\ AM[k + 1] = m
  <2> DEFINE B == <<m>>
  <2>1. B \in Seq(S) /\ Len(B) = 1 /\ B[1] = m
    BY <1>4
  <2> HIDE DEF B
  <2>2. /\ A \o B \in Seq(S)
        /\ Len(A \o B) = Len(A) + Len(B)
        /\ \A i \in 1 .. Len(A) + Len(B) :
             (A \o B)[i] = IF i <= Len(A) THEN A[i] ELSE B[i - Len(A)]
    BY <1>2, <2>1, ConcatProperties
  <2>3. /\ A \o B \in Seq(S)
        /\ Len(A \o B) = k + 1
        /\ \A i \in 1 .. k : (A \o B)[i] = F[i]
        /\ (A \o B)[k + 1] = m
    BY <1>1, <1>2, <2>1, <2>2
  <2> QED BY <2>3 DEF B
<1> HIDE DEF AM
<1>6. /\ AM \o C \in Seq(S)
      /\ Len(AM \o C) = k + 2 + Len(F) - q
      /\ \A i \in 1 .. Len(AM) + Len(C) :
           (AM \o C)[i] = IF i <= Len(AM) THEN AM[i] ELSE C[i - Len(AM)]
  <2>1. /\ AM \o C \in Seq(S)
        /\ Len(AM \o C) = Len(AM) + Len(C)
        /\ \A i \in 1 .. Len(AM) + Len(C) :
             (AM \o C)[i] = IF i <= Len(AM) THEN AM[i] ELSE C[i - Len(AM)]
    BY <1>3, <1>5, ConcatProperties
  <2>2. Len(AM) + Len(C) = k + 2 + Len(F) - q
    BY <1>1, <1>3, <1>5
  <2> QED BY <2>1, <2>2
<1>7. ASSUME NEW i \in k + 2 .. Len(AM \o C)
      PROVE  (AM \o C)[i] = F[i + q - k - 2]
  <2>1. Len(F) \in Nat /\ k \in Nat /\ q \in Nat /\ q >= k + 1 /\ q <= Len(F) + 1
    BY <1>1
  <2>2. /\ Len(AM) = k + 1
        /\ Len(C) = Len(F) + 1 - q
        /\ i \in k + 2 .. k + 2 + Len(F) - q
    BY <1>3, <1>5, <1>6
  <2>3. /\ i \in 1 .. Len(AM) + Len(C) /\ ~ (i <= Len(AM))
        /\ i - Len(AM) \in 1 .. Len(C) /\ q + (i - Len(AM)) - 1 = i + q - k - 2
    BY <2>1, <2>2
  <2>4. (AM \o C)[i] = C[i - Len(AM)]
    BY <1>6, <2>3
  <2>5. C[i - Len(AM)] = F[q + (i - Len(AM)) - 1]
    BY <1>3, <2>3
  <2> QED BY <2>3, <2>4, <2>5
<1>8. (\A i \in 1 .. k : (AM \o C)[i] = F[i]) /\ (AM \o C)[k + 1] = m
  BY <1>1, <1>3, <1>5, <1>6
<1>9. R = AM \o C
  BY DEF AM, A, C, Spliced
<1> QED BY <1>6, <1>7, <1>8, <1>9 DEF SplicedAs

-----------------------------------------------------------------------------

BlockUnits(block) == Extent(block.at, block.length)
Covers(free, u) == \E i \in DOMAIN free : u \in BlockUnits(free[i])

\* A free list as FreeListCoalesced describes it, inside the store.
IsFreeList(free) ==
  /\ free \in Seq(FreeBlock)
  /\ \A i, j \in DOMAIN free : i < j => free[i].at + free[i].length < free[j].at
  /\ \A i \in DOMAIN free : free[i].at + free[i].length <= StoreLen + 1

\* An extent is an interval.
LEMMA ExtentUnits ==
  ASSUME NEW at \in Int, NEW length \in Int, NEW u
  PROVE  u \in Extent(at, length) <=> u \in Int /\ at <= u /\ u < at + length
BY DEF Extent

\* The fields of a free block are numbers within the store.
LEMMA BlockFields ==
  ASSUME NEW b \in FreeBlock
  PROVE  /\ b.at \in Nat /\ b.at >= 1 /\ b.at <= StoreLen
         /\ b.length \in Nat /\ b.length >= 1 /\ b.length <= StoreLen
  BY StoreAssumption DEF FreeBlock, Units

\* Of two blocks that are apart, the one that starts first ends first.
LEMMA BlocksAreIntervals ==
  ASSUME NEW a \in FreeBlock, NEW b \in FreeBlock,
         BlockUnits(a) \cap BlockUnits(b) = {}
  PROVE  /\ a.at < b.at => a.at + a.length <= b.at
         /\ a.at # b.at
<1>1. /\ a.at \in Int /\ b.at \in Int
      /\ a.length \in Int /\ b.length \in Int
      /\ a.length >= 1 /\ b.length >= 1
  BY StoreAssumption DEF FreeBlock, Units
<1>2. a.at \in BlockUnits(a) /\ b.at \in BlockUnits(b)
  BY <1>1 DEF BlockUnits, Extent
<1>3. a.at < b.at /\ a.at + a.length > b.at => b.at \in BlockUnits(a)
  BY <1>1 DEF BlockUnits, Extent
<1> QED BY <1>1, <1>2, <1>3

\* purge keeps the free list a free list and adds the block's units to it.
LEMMA ReleasedIsFreeList ==
  ASSUME NEW F, IsFreeList(F),
         NEW block \in FreeBlock, block.at + block.length <= StoreLen + 1,
         \A i \in DOMAIN F : BlockUnits(F[i]) \cap BlockUnits(block) = {},
         NEW p, Straddled(F, block.at, p)
  PROVE  LET R == Released(F, block, p)
         IN  /\ IsFreeList(R)
             /\ \A u : Covers(R, u) <=> Covers(F, u) \/ u \in BlockUnits(block)
             /\ \A i \in DOMAIN R :
                  \/ R[i].at = block.at
                  \/ \E j \in DOMAIN F : R[i].at = F[j].at
<1> DEFINE meetsRight == p <= Len(F) /\ block.at + block.length = F[p].at
           meetsLeft  == p > 1 /\ F[p-1].at + F[p-1].length = block.at
           newlength  == IF meetsRight THEN block.length + F[p].length ELSE block.length
           m == IF meetsLeft
                THEN [at |-> F[p-1].at, length |-> F[p-1].length + newlength]
                ELSE [at |-> block.at, length |-> newlength]
           k == IF meetsLeft THEN p - 2 ELSE p - 1
           q == IF meetsRight THEN p + 1 ELSE p
           R == SubSeq(F, 1, k) \o <<m>> \o SubSeq(F, q, Len(F))
<1>1. Released(F, block, p) = R
  BY DEF Released
<1> HIDE DEF R
<1>2. /\ F \in Seq(FreeBlock)
      /\ Len(F) \in Nat
      /\ DOMAIN F = 1 .. Len(F)
      /\ \A i \in 1 .. Len(F) : F[i] \in FreeBlock
  BY LenProperties, ElementOfSeq DEF IsFreeList
<1>3. /\ StoreLen \in Nat
      /\ block.at \in Nat /\ block.length \in Nat
      /\ block.at >= 1 /\ block.length >= 1
      /\ \A i \in 1 .. Len(F) : /\ F[i].at \in Nat /\ F[i].length \in Nat
                               /\ F[i].at >= 1 /\ F[i].length >= 1
                               /\ F[i].at + F[i].length <= StoreLen + 1
  <2>1. \A i \in 1 .. Len(F) : F[i].at + F[i].length <= StoreLen + 1
    BY <1>2 DEF IsFreeList
  <2> QED BY <1>2, <2>1, BlockFields, StoreAssumption
<1>4. p \in 1 .. Len(F) + 1 /\ Len(F) \in Nat /\ p \in Nat
  BY <1>2 DEF Straddled
<1>5. \A i \in 1 .. p - 1 : F[i].at + F[i].length <= block.at
  <2> TAKE i \in 1 .. p - 1
  <2>1. i \in 1 .. Len(F) /\ F[i].at <= block.at
    BY <1>2, <1>4 DEF Straddled
  <2>2. F[i] \in FreeBlock /\ BlockUnits(F[i]) \cap BlockUnits(block) = {}
    BY <1>2, <2>1
  <2>3. F[i].at # block.at /\ (F[i].at < block.at => F[i].at + F[i].length <= block.at)
    BY <2>2, BlocksAreIntervals
  <2> QED BY <1>3, <2>1, <2>3
<1>6. p <= Len(F) => block.at + block.length <= F[p].at
  <2> HAVE p <= Len(F)
  <2>1. p \in 1 .. Len(F) /\ block.at < F[p].at
    BY <1>2, <1>4 DEF Straddled
  <2>2. F[p] \in FreeBlock /\ BlockUnits(F[p]) \cap BlockUnits(block) = {}
    BY <1>2, <2>1
  <2>3. BlockUnits(block) \cap BlockUnits(F[p]) = {}
    BY <2>2
  <2> QED BY <2>1, <2>2, <2>3, BlocksAreIntervals
<1>7. \A i, j \in 1 .. Len(F) : i < j => F[i].at + F[i].length < F[j].at
  BY <1>2 DEF IsFreeList
<1>8. k \in 0 .. Len(F) /\ q \in k + 1 .. Len(F) + 1 /\ k <= p - 1 /\ p <= q
  BY <1>2, <1>4
<1>9. /\ m.at = IF meetsLeft THEN F[p-1].at ELSE block.at
      /\ m.length = IF meetsLeft THEN F[p-1].length + newlength ELSE newlength
      /\ m = [at |-> m.at, length |-> m.length]
  OBVIOUS
<1> HIDE DEF m
<1>left. p > 1 => p - 1 \in 1 .. Len(F) /\ p - 1 \in 1 .. p - 1
  BY <1>2, <1>4
<1>right. p <= Len(F) => p \in 1 .. Len(F)
  BY <1>2, <1>4
\* Where the merged block starts and ends.
<1>start. /\ m.at \in Nat /\ m.at >= 1 /\ m.at <= block.at
          /\ meetsLeft => m.at = F[p-1].at
          /\ ~ meetsLeft => m.at = block.at
  BY <1>3, <1>5, <1>9, <1>left
<1>end. /\ m.length \in Nat
        /\ m.at + m.length >= block.at + block.length
        /\ m.at + m.length <= StoreLen + 1
        /\ meetsRight => m.at + m.length = F[p].at + F[p].length
        /\ ~ meetsRight => m.at + m.length = block.at + block.length
  <2>1. newlength \in Nat /\ newlength >= block.length
    BY <1>3, <1>right
  <2>2. meetsRight => block.at + newlength = F[p].at + F[p].length
    BY <1>3, <1>right
  <2>3. ~ meetsRight => newlength = block.length
    OBVIOUS
  <2>4. m.length \in Nat /\ m.at + m.length = block.at + newlength
    <3> HIDE DEF newlength
    <3>1. CASE meetsLeft
      <4>1. F[p-1].at \in Nat /\ F[p-1].length \in Nat /\ block.at \in Nat
        BY <1>3, <1>left, <3>1
      <4>2. F[p-1].at + F[p-1].length = block.at
        BY <3>1
      <4>3. m.at = F[p-1].at /\ m.length = F[p-1].length + newlength
        BY <1>9, <3>1
      <4> QED BY <2>1, <4>1, <4>2, <4>3
    <3>2. CASE ~ meetsLeft
      BY <1>3, <1>9, <2>1, <3>2
    <3> QED BY <3>1, <3>2
  <2> HIDE DEF newlength
  <2>5. meetsRight => m.at + m.length <= StoreLen + 1
    BY <1>3, <1>right, <2>2, <2>4
  <2> QED BY <1>3, <1>right, <1>start, <2>1, <2>2, <2>3, <2>4, <2>5
<1>10. m \in FreeBlock
  <2>1. m.at \in Units /\ m.length \in 1 .. StoreLen
    <3>1. /\ StoreLen \in Nat /\ block.at \in Nat /\ block.length \in Nat
          /\ block.at >= 1 /\ block.length >= 1
      BY <1>3
    <3>2. /\ m.at \in Nat /\ m.at >= 1 /\ m.at <= block.at /\ m.length \in Nat
          /\ m.at + m.length >= block.at + block.length
          /\ m.at + m.length <= StoreLen + 1
      BY <1>start, <1>end
    <3> QED BY <3>1, <3>2 DEF Units
  <2> QED BY <1>9, <2>1 DEF FreeBlock
<1> HIDE DEF newlength
\* The merged block keeps a gap from the blocks on its two sides.
<1>11. \A i \in 1 .. k : F[i].at + F[i].length < m.at
  <2> TAKE i \in 1 .. k
  <2>1. CASE meetsLeft
    <3>1. i \in 1 .. Len(F) /\ p - 1 \in 1 .. Len(F) /\ i < p - 1
      BY <1>2, <1>4, <2>1
    <3> QED BY <1>7, <1>start, <2>1, <3>1
  <2>2. CASE ~ meetsLeft
    <3>1. i \in 1 .. Len(F) /\ i <= p - 1 /\ p > 1 /\ i \in 1 .. p - 1
      BY <1>2, <1>4, <2>2
    <3>2. F[p-1].at + F[p-1].length < block.at
      <4>1. F[p-1].at + F[p-1].length # block.at
        BY <2>2, <3>1
      <4>2. F[p-1].at + F[p-1].length <= block.at
        BY <1>5, <1>left, <3>1
      <4>3. F[p-1].at + F[p-1].length \in Nat /\ block.at \in Nat
        BY <1>3, <1>left, <3>1
      <4> QED BY <4>1, <4>2, <4>3
    <3>3. i = p - 1 \/ F[i].at + F[i].length < F[p-1].at
      BY <1>4, <1>7, <1>left, <3>1
    <3>4. /\ F[p-1].at \in Nat /\ F[p-1].length \in Nat /\ block.at \in Nat
          /\ F[i].at \in Nat /\ F[i].length \in Nat
      BY <1>3, <1>left, <3>1
    <3>5. F[i].at + F[i].length < block.at
      BY <3>2, <3>3, <3>4
    <3> QED BY <1>start, <2>2, <3>5
  <2> QED BY <2>1, <2>2
<1>12. \A i \in q .. Len(F) : m.at + m.length < F[i].at
  <2> TAKE i \in q .. Len(F)
  <2>1. CASE meetsRight
    <3>1. i \in 1 .. Len(F) /\ p \in 1 .. Len(F) /\ p < i
      BY <1>2, <1>4, <2>1
    <3> QED BY <1>7, <1>end, <2>1, <3>1
  <2>2. CASE ~ meetsRight
    <3>1. p \in 1 .. Len(F) /\ i \in 1 .. Len(F) /\ p <= i
      BY <1>2, <1>4, <2>2
    <3>2. block.at + block.length < F[p].at
      <4>1. block.at + block.length # F[p].at
        BY <1>4, <2>2, <3>1
      <4>2. block.at + block.length <= F[p].at
        BY <1>4, <1>6, <3>1
      <4>3. F[p].at \in Nat /\ block.at + block.length \in Nat
        BY <1>3, <3>1
      <4> QED BY <4>1, <4>2, <4>3
    <3>3. /\ F[p].at \in Nat /\ F[p].length \in Nat /\ F[i].at \in Nat
          /\ p = i \/ F[p].at + F[p].length < F[i].at
      BY <1>3, <1>7, <3>1
    <3>4. F[p].at <= F[i].at
      BY <3>3
    <3>5. m.at + m.length = block.at + block.length
      BY <1>end, <2>2
    <3>6. block.at + block.length \in Nat
      BY <1>3
    <3> QED BY <3>2, <3>3, <3>4, <3>5, <3>6
  <2> QED BY <2>1, <2>2
\* It takes the place of the block and of the neighbours it touched.
<1>13. \A u : u \in BlockUnits(m) <=>
                \/ u \in BlockUnits(block)
                \/ \E i \in k + 1 .. q - 1 : u \in BlockUnits(F[i])
  <2> TAKE u
  <2>1. u \in BlockUnits(m) <=> u \in Int /\ m.at <= u /\ u < m.at + m.length
    BY <1>start, <1>end DEF BlockUnits, Extent
  <2>2. u \in BlockUnits(block) <=> u \in Int /\ block.at <= u /\ u < block.at + block.length
    BY <1>3 DEF BlockUnits, Extent
  <2>3. \A i \in 1 .. Len(F) :
          u \in BlockUnits(F[i]) <=> u \in Int /\ F[i].at <= u /\ u < F[i].at + F[i].length
    BY <1>3 DEF BlockUnits, Extent
  <2>4. (\E i \in k + 1 .. q - 1 : u \in BlockUnits(F[i])) <=>
          \/ meetsLeft /\ u \in BlockUnits(F[p-1])
          \/ meetsRight /\ u \in BlockUnits(F[p])
    <3>1. CASE meetsLeft /\ meetsRight
      <4>1. k = p - 2 /\ q = p + 1
        BY <3>1
      <4>2. k + 1 = p - 1 /\ q - 1 = p
        BY <1>4, <4>1
      <4>3. p - 1 .. p = {p - 1, p}
        BY <1>4
      <4> HIDE DEF meetsLeft, meetsRight, k, q
      <4> QED BY <3>1, <4>2, <4>3
    <3>2. CASE meetsLeft /\ ~ meetsRight
      <4>1. k = p - 2 /\ q = p
        BY <3>2
      <4>2. k + 1 = p - 1 /\ q - 1 = p - 1
        BY <1>4, <4>1
      <4>3. p - 1 .. p - 1 = {p - 1}
        BY <1>4
      <4> HIDE DEF meetsLeft, meetsRight, k, q
      <4> QED BY <3>2, <4>2, <4>3
    <3>3. CASE ~ meetsLeft /\ meetsRight
      <4>1. k = p - 1 /\ q = p + 1
        BY <3>3
      <4>2. k + 1 = p /\ q - 1 = p
        BY <1>4, <4>1
      <4>3. p .. p = {p}
        BY <1>4
      <4>4. k + 1 .. q - 1 = {p}
        BY <4>2, <4>3
      <4> HIDE DEF meetsLeft, meetsRight, k, q
      <4> QED BY <3>3, <4>4
    <3>4. CASE ~ meetsLeft /\ ~ meetsRight
      <4>1. k = p - 1 /\ q = p
        BY <3>4
      <4>2. k + 1 = p /\ q - 1 = p - 1
        BY <1>4, <4>1
      <4>3. p .. p - 1 = {}
        BY <1>4
      <4> HIDE DEF meetsLeft, meetsRight, k, q
      <4> QED BY <3>4, <4>2, <4>3
    <3> QED BY <3>1, <3>2, <3>3, <3>4
  <2> HIDE DEF k, q
  <2>5. meetsLeft => /\ u \in BlockUnits(F[p-1]) <=>
                          u \in Int /\ m.at <= u /\ u < block.at
                     /\ m.at \in Nat /\ m.at <= block.at
    <3> HAVE meetsLeft
    <3>1. F[p-1].at = m.at /\ F[p-1].at + F[p-1].length = block.at
      BY <1>start
    <3> QED BY <1>left, <1>start, <2>3, <3>1
  <2>6. meetsRight => u \in BlockUnits(F[p]) <=>
                        /\ u \in Int
                        /\ block.at + block.length <= u
                        /\ u < m.at + m.length
    <3> HAVE meetsRight
    <3>1. /\ F[p].at = block.at + block.length
          /\ F[p].at + F[p].length = m.at + m.length
      BY <1>end
    <3> QED BY <1>right, <2>3, <3>1
  <2>7. ~ meetsLeft => m.at = block.at
    BY <1>start
  <2>8. ~ meetsRight => m.at + m.length = block.at + block.length
    BY <1>end
  <2>9. /\ m.at \in Nat /\ m.length \in Nat /\ block.at \in Nat /\ block.length \in Nat
        /\ m.at <= block.at /\ block.at + block.length <= m.at + m.length
        /\ block.length >= 1
    BY <1>3, <1>start, <1>end
  <2> HIDE DEF meetsLeft, meetsRight
  <2> QED BY <2>1, <2>2, <2>4, <2>5, <2>6, <2>7, <2>8, <2>9
<1>14. m.at = block.at \/ \E j \in 1 .. Len(F) : m.at = F[j].at
  BY <1>2, <1>left, <1>start
<1> HIDE DEF k, q
<1>15. /\ R \in Seq(FreeBlock)
       /\ Len(R) = k + 2 + Len(F) - q
       /\ \A i \in 1 .. k : R[i] = F[i]
       /\ R[k + 1] = m
       /\ \A i \in k + 2 .. Len(R) : R[i] = F[i + q - k - 2]
  <2>1. R = Spliced(F, k, m, q)
    BY DEF R, Spliced
  <2>2. k \in 0 .. Len(F) /\ q \in k + 1 .. Len(F) + 1
    BY <1>8
  <2>3. F \in Seq(FreeBlock)
    BY <1>2
  <2>4. SplicedAs(FreeBlock, F, k, m, q, R)
    BY ONLY <1>10, <2>1, <2>2, <2>3, Splice, ZenonT(30)
  <2> QED BY <2>4 DEF SplicedAs
<1>16. DOMAIN R = 1 .. Len(R) /\ Len(R) \in Nat
  BY <1>15, LenProperties
<1>sizes. /\ k \in Nat /\ q \in Nat /\ Len(F) \in Nat
          /\ k <= Len(F) /\ q >= k + 1 /\ q <= Len(F) + 1
          /\ Len(R) = k + 2 + Len(F) - q
  BY <1>2, <1>8, <1>15
\* The blocks after the merged one have moved in the list by q - k - 2.
<1>moved. \A i \in k + 2 .. Len(R) : /\ i + q - k - 2 \in q .. Len(F)
                                   /\ i + q - k - 2 \in 1 .. Len(F)
  BY <1>sizes
<1>17. ASSUME NEW i \in 1 .. Len(R)
       PROVE  i \in 1 .. k \/ i = k + 1 \/ i \in k + 2 .. Len(R)
  BY <1>sizes
<1>sources. ASSUME NEW i \in DOMAIN R
            PROVE  R[i] = m \/ \E j \in 1 .. Len(F) : R[i] = F[j]
  <2>1. CASE i \in 1 .. k
    <3>1. i \in 1 .. Len(F) /\ R[i] = F[i]
      BY <1>15, <1>sizes, <2>1
    <3> QED BY <3>1
  <2>2. CASE i = k + 1
    BY <1>15, <2>2
  <2>3. CASE i \in k + 2 .. Len(R)
    BY <1>15, <1>moved, <2>3
  <2> QED BY <1>16, <1>17, <2>1, <2>2, <2>3
<1>18. ASSUME NEW i \in DOMAIN R, NEW j \in DOMAIN R, i < j
       PROVE  R[i].at + R[i].length < R[j].at
  <2>0. i \in 1 .. Len(R) /\ j \in 1 .. Len(R) /\ Len(F) \in Nat
    BY <1>2, <1>16
  <2>1. CASE i \in 1 .. k /\ j \in 1 .. k
    <3>1. i \in 1 .. Len(F) /\ j \in 1 .. Len(F) /\ R[i] = F[i] /\ R[j] = F[j]
      BY <1>8, <1>15, <2>0, <2>1
    <3> QED BY <1>7, <1>18, <3>1
  <2>2. CASE i \in 1 .. k /\ j = k + 1
    BY <1>11, <1>15, <2>2
  <2>3. CASE i \in 1 .. k /\ j \in k + 2 .. Len(R)
    <3>1. /\ i \in 1 .. Len(F) /\ j + q - k - 2 \in 1 .. Len(F)
          /\ i < j + q - k - 2 /\ R[i] = F[i] /\ R[j] = F[j + q - k - 2]
      <4>1. i \in 1 .. Len(F) /\ i < j + q - k - 2
        BY <1>sizes, <2>3
      <4> QED BY <1>15, <1>moved, <2>3, <4>1
    <3> QED BY <1>7, <3>1
  <2>4. CASE i = k + 1 /\ j \in k + 2 .. Len(R)
    <3>1. j + q - k - 2 \in q .. Len(F) /\ R[i] = m /\ R[j] = F[j + q - k - 2]
      <4>1. j \in k + 2 .. Len(R)
        BY <1>sizes, <2>4
      <4> QED BY <1>15, <1>moved, <2>4, <4>1
    <3> QED BY <1>12, <3>1
  <2>5. CASE i \in k + 2 .. Len(R) /\ j \in k + 2 .. Len(R)
    <3>1. /\ i + q - k - 2 \in 1 .. Len(F) /\ j + q - k - 2 \in 1 .. Len(F)
          /\ i + q - k - 2 < j + q - k - 2
          /\ R[i] = F[i + q - k - 2] /\ R[j] = F[j + q - k - 2]
      <4>1. i + q - k - 2 < j + q - k - 2
        BY <1>sizes, <1>18, <2>5
      <4> QED BY <1>15, <1>moved, <2>5, <4>1
    <3> QED BY <1>7, <3>1
  <2> QED BY <1>sizes, <1>17, <1>18, <2>0, <2>1, <2>2, <2>3, <2>4, <2>5
<1>19. \A i \in DOMAIN R : R[i].at + R[i].length <= StoreLen + 1
  <2> TAKE i \in DOMAIN R
  <2> QED BY <1>3, <1>end, <1>sources
<1>20. \A u : Covers(R, u) <=> Covers(F, u) \/ u \in BlockUnits(block)
  <2> TAKE u
  <2>1. ASSUME NEW i \in DOMAIN R, u \in BlockUnits(R[i])
        PROVE  Covers(F, u) \/ u \in BlockUnits(block)
    <3>1. CASE R[i] = m
      <4>1. \A j \in k + 1 .. q - 1 : j \in 1 .. Len(F)
        BY <1>sizes
      <4> QED BY <1>2, <1>13, <2>1, <3>1, <4>1 DEF Covers
    <3>2. CASE \E j \in 1 .. Len(F) : R[i] = F[j]
      BY <1>2, <2>1, <3>2 DEF Covers
    <3> QED BY <1>sources, <3>1, <3>2
  <2>2. k + 1 \in DOMAIN R
    BY <1>16, <1>sizes
  <2>3. u \in BlockUnits(m) => Covers(R, u)
    BY <1>15, <2>2 DEF Covers
  <2>4. u \in BlockUnits(block) => Covers(R, u)
    BY <1>13, <2>3
  <2>5. ASSUME NEW j \in 1 .. Len(F), u \in BlockUnits(F[j])
        PROVE  Covers(R, u)
    <3>1. CASE j \in 1 .. k
      <4>1. j \in DOMAIN R /\ R[j] = F[j]
        BY <1>15, <1>16, <1>sizes, <3>1
      <4> QED BY <2>5, <4>1 DEF Covers
    <3>2. CASE j \in k + 1 .. q - 1
      BY <1>13, <2>3, <2>5, <3>2
    <3>3. CASE j \in q .. Len(F)
      <4>1. j + k + 2 - q \in k + 2 .. Len(R) /\ (j + k + 2 - q) + q - k - 2 = j
        BY <1>sizes, <3>3
      <4>2. R[j + k + 2 - q] = F[j]
        BY <1>15, <4>1
      <4>3. j + k + 2 - q \in DOMAIN R
        BY <1>16, <1>sizes, <4>1
      <4> QED BY <2>5, <4>2, <4>3 DEF Covers
    <3> QED BY <1>sizes, <3>1, <3>2, <3>3
  <2> QED BY <1>2, <2>1, <2>4, <2>5 DEF Covers
<1>21. ASSUME NEW i \in DOMAIN R
       PROVE  R[i].at = block.at \/ \E j \in DOMAIN F : R[i].at = F[j].at
  BY <1>2, <1>sources, <1>14
<1> QED BY <1>1, <1>15, <1>18, <1>19, <1>20, <1>21 DEF IsFreeList

\* What cache_put leaves of free list F when it takes n units of block i.
TakenFrom(F, i, n) ==
  IF F[i].length > n THEN [F EXCEPT ![i].length = @ - n] ELSE RemoveAt(F, i)

\* cache_put takes n units from the end of a free block, or all of it: the
\* free list stays a free list, and only those units leave it.
LEMMA TakenIsFreeList ==
  ASSUME NEW F, IsFreeList(F), NEW i \in DOMAIN F,
         NEW n \in 1 .. StoreLen, n <= F[i].length,
         NEW R, R = TakenFrom(F, i, n)
  PROVE  /\ IsFreeList(R)
         /\ \A u : Covers(R, u) <=>
                     Covers(F, u) /\ u \notin Extent(F[i].at + F[i].length - n, n)
         /\ \A j \in DOMAIN R : \E h \in DOMAIN F : R[j].at = F[h].at
<1>1. /\ F \in Seq(FreeBlock)
      /\ Len(F) \in Nat
      /\ DOMAIN F = 1 .. Len(F)
      /\ \A j \in 1 .. Len(F) : F[j] \in FreeBlock
  BY LenProperties, ElementOfSeq DEF IsFreeList
<1>2. /\ StoreLen \in Nat /\ n \in Nat /\ n >= 1
      /\ \A j \in 1 .. Len(F) : /\ F[j].at \in Nat /\ F[j].length \in Nat
                               /\ F[j].at >= 1 /\ F[j].length >= 1
                               /\ F[j].length <= StoreLen
                               /\ F[j].at + F[j].length <= StoreLen + 1
  <2>1. \A j \in 1 .. Len(F) : F[j].at + F[j].length <= StoreLen + 1
    BY <1>1 DEF IsFreeList
  <2> QED BY <1>1, <2>1, BlockFields, StoreAssumption
<1>3. \A j, h \in 1 .. Len(F) : j < h => F[j].at + F[j].length < F[h].at
  BY <1>1 DEF IsFreeList
<1>4. i \in 1 .. Len(F) /\ i \in Nat
  BY <1>1
<1>5. ASSUME NEW u, NEW j \in 1 .. Len(F)
      PROVE  u \in BlockUnits(F[j]) <=> u \in Int /\ F[j].at <= u /\ u < F[j].at + F[j].length
  <2>1. F[j].at \in Int /\ F[j].length \in Int
    BY <1>2
  <2> QED BY <2>1, ExtentUnits DEF BlockUnits
<1>6. ASSUME NEW u
      PROVE  u \in Extent(F[i].at + F[i].length - n, n) <=>
               u \in Int /\ F[i].at + F[i].length - n <= u /\ u < F[i].at + F[i].length
  <2>1. /\ F[i].at + F[i].length - n \in Int /\ n \in Int
        /\ (F[i].at + F[i].length - n) + n = F[i].at + F[i].length
    BY <1>2, <1>4
  <2> QED BY <2>1, ExtentUnits
\* The units taken are in no other block.
<1>7. ASSUME NEW u \in Extent(F[i].at + F[i].length - n, n),
             NEW j \in 1 .. Len(F), j # i
      PROVE  u \notin BlockUnits(F[j])
  <2>1. u \in Int /\ F[i].at <= u /\ u < F[i].at + F[i].length
    <3>1. u \in Int /\ F[i].at + F[i].length - n <= u /\ u < F[i].at + F[i].length
      BY <1>6, <1>7
    <3>2. F[i].at \in Nat /\ F[i].length \in Nat /\ n \in Nat
      BY <1>2, <1>4
    <3> QED BY <3>1, <3>2
  <2>2. j < i \/ i < j
    BY <1>4, <1>7
  <2>3. j < i => F[j].at + F[j].length < F[i].at
    BY <1>3, <1>4
  <2>4. i < j => F[i].at + F[i].length < F[j].at
    BY <1>3, <1>4
  <2>5. /\ F[i].at \in Nat /\ F[i].length \in Nat
        /\ F[j].at \in Nat /\ F[j].length \in Nat
    BY <1>2, <1>4
  <2>6. u \in BlockUnits(F[j]) <=> u \in Int /\ F[j].at <= u /\ u < F[j].at + F[j].length
    BY <1>5
  <2>7. CASE j < i
    BY <2>1, <2>3, <2>5, <2>6, <2>7
  <2>8. CASE i < j
    BY <2>1, <2>4, <2>5, <2>6, <2>8
  <2> QED BY <2>2, <2>7, <2>8
<1>8. CASE F[i].length > n
  <2> DEFINE b == [F[i] EXCEPT !.length = @ - n]
  <2>1. R = [F EXCEPT ![i] = b]
    BY <1>8 DEF TakenFrom
  <2>2. b \in FreeBlock /\ b.at = F[i].at /\ b.length = F[i].length - n
    <3>1. F[i] \in FreeBlock /\ F[i].length - n \in 1 .. StoreLen
      BY <1>1, <1>2, <1>4, <1>8
    <3> QED BY <3>1 DEF FreeBlock
  <2> HIDE DEF b
  <2>3. /\ R \in Seq(FreeBlock)
        /\ Len(R) = Len(F)
        /\ \A j \in 1 .. Len(F) : R[j] = IF j = i THEN b ELSE F[j]
    BY <1>1, <1>4, <2>1, <2>2, ExceptSeq
  <2>4. DOMAIN R = 1 .. Len(F)
    BY <2>3, LenProperties
  <2>5. ASSUME NEW j \in 1 .. Len(F)
        PROVE  /\ R[j].at = F[j].at
               /\ R[j].at \in Nat /\ R[j].length \in Nat
               /\ R[j].at + R[j].length <= F[j].at + F[j].length
    <3>1. F[j].at \in Nat /\ F[j].length \in Nat /\ n \in Nat
      BY <1>2
    <3>2. CASE j = i
      <4>1. R[j] = b /\ b.at = F[j].at /\ b.length = F[j].length - n /\ F[j].length > n
        BY <1>8, <2>2, <2>3, <3>2
      <4> QED BY <3>1, <4>1
    <3>3. CASE j # i
      <4>1. R[j] = F[j]
        BY <2>3, <3>3
      <4> QED BY <3>1, <4>1
    <3> QED BY <3>2, <3>3
  <2>6. \A j, h \in DOMAIN R : j < h => R[j].at + R[j].length < R[h].at
    <3> SUFFICES ASSUME NEW j \in 1 .. Len(F), NEW h \in 1 .. Len(F), j < h
                 PROVE  R[j].at + R[j].length < R[h].at
      BY <2>4
    <3>1. F[j].at + F[j].length < F[h].at
      BY <1>3
    <3>2. F[j].at + F[j].length \in Nat /\ F[h].at \in Nat
      BY <1>2
    <3>3. /\ R[j].at \in Nat /\ R[j].length \in Nat
          /\ R[j].at + R[j].length <= F[j].at + F[j].length
          /\ R[h].at = F[h].at
      BY <2>5
    <3> QED BY <3>1, <3>2, <3>3
  <2>7. \A j \in DOMAIN R : R[j].at + R[j].length <= StoreLen + 1
    <3> SUFFICES ASSUME NEW j \in 1 .. Len(F)
                 PROVE  R[j].at + R[j].length <= StoreLen + 1
      BY <2>4
    <3>1. /\ F[j].at + F[j].length \in Nat
          /\ F[j].at + F[j].length <= StoreLen + 1
      BY <1>2
    <3>2. /\ R[j].at \in Nat /\ R[j].length \in Nat /\ StoreLen \in Nat
          /\ R[j].at + R[j].length <= F[j].at + F[j].length
      BY <1>2, <2>5
    <3> QED BY <3>1, <3>2
  <2>8. ASSUME NEW u
        PROVE  u \in BlockUnits(b) <=>
                 /\ u \in BlockUnits(F[i])
                 /\ u \notin Extent(F[i].at + F[i].length - n, n)
    <3>1. u \in BlockUnits(b) <=> u \in Int /\ F[i].at <= u /\ u < F[i].at + F[i].length - n
      <4>1. /\ b.at = F[i].at /\ b.length = F[i].length - n
            /\ F[i].at \in Nat /\ F[i].length \in Nat /\ n \in Nat
        BY <1>2, <1>4, <2>2
      <4>2. b.at \in Int /\ b.length \in Int /\ b.at + b.length = F[i].at + F[i].length - n
        BY <4>1
      <4>3. u \in BlockUnits(b) <=> u \in b.at .. b.at + b.length - 1
        BY DEF BlockUnits, Extent
      <4> QED BY <4>1, <4>2, <4>3
    <3>2. F[i].at \in Nat /\ F[i].length \in Nat
      BY <1>2, <1>4
    <3>3. u \in BlockUnits(F[i]) <=> u \in Int /\ F[i].at <= u /\ u < F[i].at + F[i].length
      BY <1>4, <1>5
    <3>4. u \in Extent(F[i].at + F[i].length - n, n) <=>
            u \in Int /\ F[i].at + F[i].length - n <= u /\ u < F[i].at + F[i].length
      BY <1>6
    <3>5. n \in Nat /\ n >= 1
      BY <1>2
    <3> QED BY <1>8, <3>1, <3>2, <3>3, <3>4, <3>5
  <2>9. ASSUME NEW u
        PROVE  Covers(R, u) <=>
                 Covers(F, u) /\ u \notin Extent(F[i].at + F[i].length - n, n)
    <3>1. Covers(R, u) <=> \E j \in 1 .. Len(F) : u \in BlockUnits(R[j])
      BY <2>4 DEF Covers
    <3>2. Covers(F, u) <=> \E j \in 1 .. Len(F) : u \in BlockUnits(F[j])
      BY <1>1 DEF Covers
    <3> QED BY <1>4, <1>7, <2>3, <2>8, <3>1, <3>2
  <2> QED BY <1>1, <2>3, <2>4, <2>5, <2>6, <2>7, <2>9 DEF IsFreeList
<1>9. CASE ~ (F[i].length > n)
  <2>1. R = RemoveAt(F, i) /\ F[i].length = n
    BY <1>2, <1>4, <1>9 DEF TakenFrom
  <2>2. /\ R \in Seq(FreeBlock)
        /\ Len(R) = Len(F) - 1
        /\ \A j \in 1 .. i - 1 : R[j] = F[j]
        /\ \A j \in i .. Len(F) - 1 : R[j] = F[j + 1]
    BY <1>1, <1>4, <2>1, Removed
  <2>3. DOMAIN R = 1 .. Len(F) - 1
    BY <2>2, LenProperties
  \* The place in F of the block at j in R.
  <2> DEFINE place(j) == IF j < i THEN j ELSE j + 1
  <2>4. ASSUME NEW j \in 1 .. Len(F) - 1
        PROVE  place(j) \in 1 .. Len(F) /\ place(j) # i /\ R[j] = F[place(j)]
    <3>1. CASE j < i
      <4>1. j \in 1 .. i - 1
        BY <1>1, <1>4, <3>1
      <4>2. place(j) = j /\ j \in 1 .. Len(F) /\ j # i
        BY <1>1, <1>4, <3>1
      <4>3. R[j] = F[j]
        BY <2>2, <4>1
      <4> HIDE DEF place
      <4> QED BY <4>2, <4>3
    <3>2. CASE ~ (j < i)
      <4>1. j \in i .. Len(F) - 1
        BY <1>1, <1>4, <3>2
      <4>2. place(j) = j + 1 /\ j + 1 \in 1 .. Len(F) /\ j + 1 # i
        BY <1>1, <1>4, <3>2
      <4>3. R[j] = F[j + 1]
        BY <2>2, <4>1
      <4> HIDE DEF place
      <4> QED BY <4>2, <4>3
    <3> QED BY <3>1, <3>2
  <2>5. \A j, h \in 1 .. Len(F) - 1 : j < h => place(j) < place(h)
    BY <1>1, <1>4
  <2>6. ASSUME NEW h \in 1 .. Len(F), h # i
        PROVE  \E j \in 1 .. Len(F) - 1 : h = place(j)
    <3>1. CASE h < i
      <4>1. h \in 1 .. Len(F) - 1 /\ h = place(h)
        BY <1>1, <1>4, <3>1
      <4> QED BY <4>1
    <3>2. CASE ~ (h < i)
      <4>1. h - 1 \in 1 .. Len(F) - 1 /\ h = place(h - 1)
        BY <1>1, <1>4, <2>6, <3>2
      <4> QED BY <4>1
    <3> QED BY <3>1, <3>2
  <2> HIDE DEF place
  <2>7. \A j, h \in DOMAIN R : j < h => R[j].at + R[j].length < R[h].at
    <3> SUFFICES ASSUME NEW j \in 1 .. Len(F) - 1, NEW h \in 1 .. Len(F) - 1, j < h
                 PROVE  R[j].at + R[j].length < R[h].at
      BY <2>3
    <3>1. /\ place(j) \in 1 .. Len(F) /\ place(h) \in 1 .. Len(F)
          /\ R[j] = F[place(j)] /\ R[h] = F[place(h)]
      BY <2>4
    <3>2. place(j) < place(h)
      BY <2>5
    <3> QED BY <1>3, <3>1, <3>2
  <2>8. \A j \in DOMAIN R : R[j].at + R[j].length <= StoreLen + 1
    BY <1>2, <2>3, <2>4
  <2>9. ASSUME NEW u
        PROVE  Covers(R, u) <=>
                 Covers(F, u) /\ u \notin Extent(F[i].at + F[i].length - n, n)
    <3>1. Covers(R, u) <=> \E j \in 1 .. Len(F) - 1 : u \in BlockUnits(R[j])
      BY <2>3 DEF Covers
    <3>2. Covers(F, u) <=> \E j \in 1 .. Len(F) : u \in BlockUnits(F[j])
      BY <1>1 DEF Covers
    <3>3. u \in Extent(F[i].at + F[i].length - n, n) <=> u \in BlockUnits(F[i])
      <4>1. F[i].at + F[i].length - n = F[i].at
        BY <1>2, <1>4, <2>1
      <4> QED BY <2>1, <4>1 DEF BlockUnits
    <3>4. ASSUME NEW j \in 1 .. Len(F) - 1, u \in BlockUnits(R[j])
          PROVE  Covers(F, u) /\ u \notin BlockUnits(F[i])
      <4>1. place(j) \in 1 .. Len(F) /\ place(j) # i /\ u \in BlockUnits(F[place(j)])
        BY <2>4, <3>4
      <4> QED BY <1>7, <3>2, <3>3, <4>1
    <3>5. ASSUME NEW h \in 1 .. Len(F), h # i, u \in BlockUnits(F[h])
          PROVE  Covers(R, u)
      BY <2>4, <2>6, <3>1, <3>5
    <3> QED BY <3>1, <3>2, <3>3, <3>4, <3>5
  <2> QED BY <1>1, <2>2, <2>3, <2>4, <2>7, <2>8, <2>9 DEF IsFreeList
<1> QED BY <1>8, <1>9

-----------------------------------------------------------------------------
(* Chains. *)

\* The chains hold every entry once.
OneChain(B) ==
  /\ B \in [0 .. NBins -> Seq(Entries)]
  /\ \A c \in 0 .. NBins : IsInjective(B[c])
  /\ \A c, d \in 0 .. NBins : c # d => ToSet(B[c]) \cap ToSet(B[d]) = {}
  /\ \A e \in Entries : \E c \in 0 .. NBins : e \in ToSet(B[c])

\* Unlinking the head of a chain without repetitions takes it out.
LEMMA Unlinked ==
  ASSUME NEW S, NEW s \in Seq(S), s # <<>>, IsInjective(s)
  PROVE  /\ Head(s) \in S
         /\ Head(s) \in ToSet(s)
         /\ Tail(s) \in Seq(S)
         /\ IsInjective(Tail(s))
         /\ ToSet(Tail(s)) = ToSet(s) \ {Head(s)}
<1>1. /\ Len(s) \in Nat
      /\ DOMAIN s = 1 .. Len(s)
  BY LenProperties
<1>2. Len(s) >= 1
  BY <1>1, EmptySeq
<1> DEFINE t == Tail(s)
           h == Head(s)
<1>3. /\ h \in S
      /\ h = s[1]
      /\ t \in Seq(S)
      /\ Len(t) = Len(s) - 1
      /\ \A i \in 1 .. Len(t) : t[i] = s[i + 1]
  <2>1. h = s[1]
    BY <1>1, <1>2
  <2> QED BY <2>1, HeadTailProperties
<1> HIDE DEF t, h
<1>4. DOMAIN t = 1 .. Len(s) - 1
  BY <1>3, LenProperties
<1>5. \A i, j \in 1 .. Len(s) : s[i] = s[j] => i = j
  BY <1>1 DEF IsInjective
<1>6. ASSUME NEW i \in 1 .. Len(s) - 1
      PROVE  t[i] = s[i + 1] /\ i + 1 \in 1 .. Len(s) /\ i + 1 # 1
  BY <1>1, <1>3
<1>7. IsInjective(t)
  <2> SUFFICES ASSUME NEW i \in 1 .. Len(s) - 1, NEW j \in 1 .. Len(s) - 1, t[i] = t[j]
               PROVE  i = j
    BY <1>4 DEF IsInjective
  <2>1. s[i + 1] = s[j + 1]
    BY <1>6
  <2>2. i + 1 = j + 1
    BY <1>5, <1>6, <2>1
  <2> QED BY <1>1, <2>2
<1>8. 1 \in 1 .. Len(s)
  BY <1>1, <1>2
<1>9. ASSUME NEW x \in ToSet(t)
      PROVE  x \in ToSet(s) /\ x # h
  <2>1. PICK i \in 1 .. Len(s) - 1 : x = t[i]
    BY <1>4 DEF ToSet
  <2> QED BY <1>1, <1>3, <1>5, <1>6, <1>8, <2>1 DEF ToSet
<1>10. ASSUME NEW x \in ToSet(s), x # h
       PROVE  x \in ToSet(t)
  <2>1. PICK i \in 1 .. Len(s) : x = s[i]
    BY <1>1 DEF ToSet
  <2>2. i # 1
    BY <1>3, <1>10, <2>1
  <2>3. i - 1 \in 1 .. Len(s) - 1 /\ (i - 1) + 1 = i
    BY <1>1, <2>2
  <2>4. t[i - 1] = s[i]
    BY <1>6, <2>3
  <2> QED BY <1>4, <2>1, <2>3, <2>4 DEF ToSet
<1>11. h \in ToSet(s)
  BY <1>1, <1>3, <1>8 DEF ToSet
<1> QED BY <1>3, <1>7, <1>9, <1>10, <1>11 DEF t, h

AtEnd(t, e, s) == t = <<e>> \o s \/ t = Append(s, e)

\* Linking an entry at either end of a chain adds it.
LEMMA LinkedAtEnd ==
  ASSUME NEW S, NEW s \in Seq(S), IsInjective(s),
         NEW e \in S, e \notin ToSet(s),
         NEW t, AtEnd(t, e, s)
  PROVE  /\ t \in Seq(S)
         /\ IsInjective(t)
         /\ \A x : x \in ToSet(t) <=> x \in ToSet(s) \/ x = e
<1>1. /\ Len(s) \in Nat
      /\ DOMAIN s = 1 .. Len(s)
  BY LenProperties
<1>2. \A i, j \in 1 .. Len(s) : s[i] = s[j] => i = j
  BY <1>1 DEF IsInjective
<1>3. \A i \in 1 .. Len(s) : s[i] # e
  BY <1>1 DEF ToSet
\* Either way e has one place in t, and shift gives the others' old places.
<1>4. CASE t = <<e>> \o s
  <2> DEFINE B == <<e>>
  <2>1. B \in Seq(S) /\ Len(B) = 1 /\ B[1] = e
    OBVIOUS
  <2> HIDE DEF B
  <2>2. /\ B \o s \in Seq(S)
        /\ Len(B \o s) = Len(B) + Len(s)
        /\ \A i \in 1 .. Len(B) + Len(s) :
             (B \o s)[i] = IF i <= Len(B) THEN B[i] ELSE s[i - Len(B)]
    BY <2>1, ConcatProperties
  <2>3. t = B \o s
    BY <1>4 DEF B
  <2>4. t \in Seq(S) /\ Len(t) = Len(s) + 1 /\ t[1] = e
    BY <1>1, <2>1, <2>2, <2>3
  <2>5. ASSUME NEW i \in 2 .. Len(s) + 1
        PROVE  t[i] = s[i - 1] /\ i - 1 \in 1 .. Len(s)
    BY <1>1, <2>1, <2>2, <2>3
  <2>6. DOMAIN t = 1 .. Len(s) + 1
    BY <2>4, LenProperties
  <2>7. IsInjective(t)
    <3> SUFFICES ASSUME NEW i \in 1 .. Len(s) + 1, NEW j \in 1 .. Len(s) + 1, t[i] = t[j]
                 PROVE  i = j
      BY <2>6 DEF IsInjective
    <3>1. CASE i = 1 \/ j = 1
      <4>1. ASSUME NEW h \in 1 .. Len(s) + 1, t[h] = e PROVE h = 1
        <5>1. h # 1 => h \in 2 .. Len(s) + 1
          BY <1>1
        <5> QED BY <1>3, <2>5, <4>1, <5>1
      <4> QED BY <2>4, <3>1, <4>1
    <3>2. CASE i # 1 /\ j # 1
      <4>1. i \in 2 .. Len(s) + 1 /\ j \in 2 .. Len(s) + 1
        BY <1>1, <3>2
      <4>2. i - 1 = j - 1
        BY <1>2, <2>5, <4>1
      <4> QED BY <1>1, <4>2
    <3> QED BY <3>1, <3>2
  <2>8. ASSUME NEW x \in ToSet(t) PROVE x \in ToSet(s) \cup {e}
    <3>1. PICK i \in 1 .. Len(s) + 1 : x = t[i]
      BY <2>6 DEF ToSet
    <3>2. i # 1 => i \in 2 .. Len(s) + 1
      BY <1>1
    <3> QED BY <1>1, <2>4, <2>5, <3>1, <3>2 DEF ToSet
  <2>9. ASSUME NEW x \in ToSet(s) PROVE x \in ToSet(t)
    <3>1. PICK i \in 1 .. Len(s) : x = s[i]
      BY <1>1 DEF ToSet
    <3>2. i + 1 \in 2 .. Len(s) + 1 /\ (i + 1) - 1 = i /\ i + 1 \in 1 .. Len(s) + 1
      BY <1>1
    <3>3. t[i + 1] = s[i]
      BY <2>5, <3>2
    <3> QED BY <2>6, <3>1, <3>2, <3>3 DEF ToSet
  <2>10. e \in ToSet(t)
    <3>1. 1 \in 1 .. Len(s) + 1
      BY <1>1
    <3> QED BY <2>4, <2>6, <3>1 DEF ToSet
  <2> QED BY <2>4, <2>7, <2>8, <2>9, <2>10
<1>5. CASE t = Append(s, e)
  <2> DEFINE n == Len(s) + 1
  <2>1. /\ t \in Seq(S)
        /\ Len(t) = n
        /\ \A i \in 1 .. Len(s) : t[i] = s[i]
        /\ t[n] = e
    BY <1>5, AppendProperties
  <2>2. DOMAIN t = 1 .. n
    BY <2>1, LenProperties
  <2>3. \A i \in 1 .. n : i \in 1 .. Len(s) \/ i = n
    BY <1>1
  <2>4. n \in 1 .. n /\ \A i \in 1 .. Len(s) : i \in 1 .. n
    BY <1>1
  <2> HIDE DEF n
  <2>5. IsInjective(t)
    BY <1>2, <1>3, <2>1, <2>2, <2>3 DEF IsInjective
  <2>6. ToSet(t) = ToSet(s) \cup {e}
    BY <1>1, <2>1, <2>2, <2>3, <2>4 DEF ToSet
  <2> QED BY <2>1, <2>5, <2>6
<1> QED BY <1>4, <1>5 DEF AtEnd

\* D is B with the head e of chain a moved to an end of chain b, now t.
Moves(B, a, b, e, t, D) ==
  /\ B[a] # <<>>
  /\ e = Head(B[a])
  /\ AtEnd(t, e, B[b])
  /\ D = [B EXCEPT ![a] = Tail(B[a]), ![b] = t]

\* Moving the head of one chain to an end of another keeps every entry on
\* one chain.
LEMMA MovedEntry ==
  ASSUME NEW B, OneChain(B), NEW a \in 0 .. NBins, NEW b \in 0 .. NBins, a # b,
         NEW e, NEW t, NEW D, Moves(B, a, b, e, t, D)
  PROVE  /\ OneChain(D)
         /\ e \in Entries
         /\ e \in ToSet(B[a])
         /\ \A x : x \in ToSet(D[a]) <=> x \in ToSet(B[a]) /\ x # e
         /\ \A x : x \in ToSet(D[b]) <=> x \in ToSet(B[b]) \/ x = e
         /\ \A c \in 0 .. NBins : c # a /\ c # b => D[c] = B[c]
<1>1. B \in [0 .. NBins -> Seq(Entries)] /\ B[a] \in Seq(Entries) /\ B[b] \in Seq(Entries)
  BY DEF OneChain
<1>2. B[a] # <<>> /\ e = Head(B[a]) /\ AtEnd(t, e, B[b])
  BY DEF Moves
<1>3. /\ e \in Entries
      /\ e \in ToSet(B[a])
      /\ Tail(B[a]) \in Seq(Entries)
      /\ IsInjective(Tail(B[a]))
      /\ ToSet(Tail(B[a])) = ToSet(B[a]) \ {e}
  <2>1. IsInjective(B[a])
    BY DEF OneChain
  <2> QED BY ONLY <1>2, <1>1, <2>1, Unlinked, Zenon
<1>4. e \notin ToSet(B[b])
  BY <1>3 DEF OneChain
<1>5. /\ t \in Seq(Entries)
      /\ IsInjective(t)
      /\ ToSet(t) = ToSet(B[b]) \cup {e}
  <2>1. IsInjective(B[b])
    BY DEF OneChain
  <2>2. AtEnd(t, e, B[b])
    BY <1>2
  <2>3. t \in Seq(Entries)
    BY ONLY <1>1, <1>3, <1>4, <2>1, <2>2, LinkedAtEnd, Zenon
  <2>4. IsInjective(t)
    BY ONLY <1>1, <1>3, <1>4, <2>1, <2>2, LinkedAtEnd, Zenon
  <2>5. \A x : x \in ToSet(t) <=> x \in ToSet(B[b]) \/ x = e
    BY ONLY <1>1, <1>3, <1>4, <2>1, <2>2, LinkedAtEnd, Zenon
  <2> QED BY <2>3, <2>4, <2>5
<1> DEFINE s == Tail(B[a])
<1>6. /\ D \in [0 .. NBins -> Seq(Entries)]
      /\ D[a] = s
      /\ D[b] = t
      /\ \A c \in 0 .. NBins : c # a /\ c # b => D[c] = B[c]
  <2>1. s \in Seq(Entries) /\ D = [B EXCEPT ![a] = s, ![b] = t]
    BY <1>3 DEF Moves
  <2> HIDE DEF s
  <2> QED BY <1>1, <1>5, <2>1
<1>7. IsInjective(s) /\ ToSet(s) = ToSet(B[a]) \ {e}
  BY <1>3
<1> HIDE DEF s
<1>8. ASSUME NEW c \in 0 .. NBins
      PROVE  IsInjective(D[c])
  <2>1. IsInjective(B[c])
    BY DEF OneChain
  <2> QED BY <1>5, <1>6, <1>7, <2>1
<1>9. ASSUME NEW c \in 0 .. NBins, NEW d \in 0 .. NBins, c # d
      PROVE  ToSet(D[c]) \cap ToSet(D[d]) = {}
  <2>1. \A x, y \in 0 .. NBins : x # y => ToSet(B[x]) \cap ToSet(B[y]) = {}
    BY DEF OneChain
  <2>2. ASSUME NEW x \in 0 .. NBins, NEW y \in ToSet(D[x])
        PROVE  IF y = e THEN x # a /\ (x = b \/ e \in ToSet(B[x])) ELSE y \in ToSet(B[x])
    <3>1. CASE x = a
      BY <1>6, <1>7, <3>1
    <3>2. CASE x = b
      BY <1>5, <1>6, <3>2
    <3>3. CASE x # a /\ x # b
      BY <1>6, <3>3
    <3> QED BY <3>1, <3>2, <3>3
  <2>3. \A x \in 0 .. NBins : x # a => e \notin ToSet(B[x])
    BY <1>3, <2>1
  <2> SUFFICES ASSUME NEW x, x \in ToSet(D[c]), x \in ToSet(D[d]) PROVE FALSE
    OBVIOUS
  <2>4. CASE x = e
    <3>1. c = b /\ d = b
      BY <2>2, <2>3, <2>4
    <3> QED BY <1>9, <3>1
  <2>5. CASE x # e
    <3>1. x \in ToSet(B[c]) /\ x \in ToSet(B[d])
      BY <2>2, <2>5
    <3> QED BY <1>9, <2>1, <3>1
  <2> QED BY <2>4, <2>5
<1>10. ASSUME NEW x \in Entries
      PROVE  \E c \in 0 .. NBins : x \in ToSet(D[c])
  <2>1. PICK c \in 0 .. NBins : x \in ToSet(B[c])
    BY DEF OneChain
  <2> QED BY <1>5, <1>6, <1>7, <2>1
<1> QED BY <1>3, <1>5, <1>6, <1>7, <1>8, <1>9, <1>10 DEF OneChain

-----------------------------------------------------------------------------
(* The part of a chain that is in a set. *)

\* f[i] is the part of the first i elements of s that is in S.
IsAmong(f, s, S, m) ==
  /\ DOMAIN f = 0 .. m
  /\ f[0] = <<>>
  /\ \A i \in 1 .. m : f[i] = IF s[i] \in S THEN Append(f[i - 1], s[i]) ELSE f[i - 1]

LEMMA AmongExists ==
  ASSUME NEW s, NEW S, NEW n \in Nat
  PROVE  \E f : IsAmong(f, s, S, n)
<1> DEFINE Bad == {m \in Nat : ~ \E f : IsAmong(f, s, S, m)}
<1> SUFFICES ASSUME Bad # {} PROVE FALSE
  OBVIOUS
<1>1. PICK m : m = Min(Bad)
  OBVIOUS
<1>2. m \in Bad /\ \A k \in Bad : m <= k
  BY <1>1, MinOf
<1>3. m # 0
  <2>1. IsAmong([i \in 0 .. 0 |-> <<>>], s, S, 0)
    BY DEF IsAmong
  <2> QED BY <2>1, <1>2
<1>4. m \in Nat /\ m - 1 \in Nat /\ ~ m <= m - 1
  BY <1>2, <1>3
<1>5. PICK f : IsAmong(f, s, S, m - 1)
  BY <1>2, <1>4
<1>6. PICK last : last = IF s[m] \in S THEN Append(f[m - 1], s[m]) ELSE f[m - 1]
  OBVIOUS
<1> DEFINE g == [i \in 0 .. m |-> IF i = m THEN last ELSE f[i]]
<1>7. /\ DOMAIN g = 0 .. m /\ g[m] = last
      /\ \A i \in 0 .. m - 1 : g[i] = f[i]
  BY <1>4
<1> HIDE DEF g
<1>8. g[0] = <<>>
  BY <1>4, <1>5, <1>7 DEF IsAmong
<1>9. ASSUME NEW i \in 1 .. m
      PROVE  g[i] = IF s[i] \in S THEN Append(g[i - 1], s[i]) ELSE g[i - 1]
  <2>1. CASE i = m
    <3>1. g[i - 1] = f[m - 1] /\ g[i] = last
      BY <2>1, <1>4, <1>7
    <3> QED BY <2>1, <3>1, <1>6
  <2>2. CASE i # m
    <3>1. i \in 1 .. m - 1 /\ i \in 0 .. m - 1 /\ i - 1 \in 0 .. m - 1
      BY <2>2, <1>4
    <3>2. g[i] = f[i] /\ g[i - 1] = f[i - 1]
      BY <3>1, <1>7
    <3>3. f[i] = IF s[i] \in S THEN Append(f[i - 1], s[i]) ELSE f[i - 1]
      BY <3>1, <1>5 DEF IsAmong
    <3> QED BY <3>2, <3>3
  <2> QED BY <2>1, <2>2
<1>10. IsAmong(g, s, S, m)
  BY <1>7, <1>8, <1>9 DEF IsAmong
<1> QED BY <1>2, <1>10

\* Among is the last of them.
LEMMA AmongIs ==
  ASSUME NEW T, NEW s \in Seq(T), NEW S
  PROVE  \E f : IsAmong(f, s, S, Len(s)) /\ Among(s, S) = f[Len(s)]
<1> DEFINE n == Len(s)
           IsIt(g) == g = [i \in 0 .. n |->
                             IF i = 0 THEN <<>>
                             ELSE IF s[i] \in S THEN Append(g[i - 1], s[i]) ELSE g[i - 1]]
           f == CHOOSE g : IsIt(g)
<1>1. n \in Nat
  BY LenProperties
<1>2. PICK g : IsAmong(g, s, S, n)
  BY <1>1, AmongExists
<1>3. IsIt(g)
  <2> DEFINE h == [i \in 0 .. n |->
                     IF i = 0 THEN <<>>
                     ELSE IF s[i] \in S THEN Append(g[i - 1], s[i]) ELSE g[i - 1]]
  <2>0. PICK d : d = DOMAIN g /\ d = 0 .. n
    BY <1>2 DEF IsAmong
  <2>1. \A i \in 0 .. n : i = 0 \/ i \in 1 .. n
    BY <1>1
  <2>2. \A i \in 0 .. n : g[i] = h[i]
    BY <1>2, <2>1 DEF IsAmong
  <2>3. g = [i \in 0 .. n |-> g[i]]
    BY <1>2 DEF IsAmong
  <2>4. h = [i \in 0 .. n |-> h[i]]
    OBVIOUS
  <2> HIDE DEF h
  <2>5. g = h
    BY <2>2, <2>3, <2>4
  <2> QED BY <2>5 DEF h
<1>4. IsIt(f)
  BY <1>3
<1>5. Among(s, S) = f[n]
  BY DEF Among
<1> HIDE DEF f
<1>6. IsAmong(f, s, S, n)
  <2>1. DOMAIN f = 0 .. n /\ f[0] = <<>>
    BY <1>1, <1>4
  <2>2. ASSUME NEW i \in 1 .. n
        PROVE  f[i] = IF s[i] \in S THEN Append(f[i - 1], s[i]) ELSE f[i - 1]
    <3>1. i \in 0 .. n /\ i # 0
      BY <1>1
    <3> QED BY <1>4, <3>1
  <2> QED BY <2>1, <2>2 DEF IsAmong
<1> QED BY <1>5, <1>6

\* Chains that agree so far have the same part so far.
LEMMA AmongSame ==
  ASSUME NEW s, NEW S, NEW t, NEW U, NEW m \in Nat, NEW n \in Nat, NEW l \in Nat,
         l <= m, l <= n,
         NEW f, IsAmong(f, s, S, m), NEW g, IsAmong(g, t, U, n),
         \A i \in 1 .. l : s[i] = t[i] /\ (s[i] \in S <=> t[i] \in U)
  PROVE  f[l] = g[l]
<1> DEFINE Bad == {i \in Nat : i <= l /\ f[i] # g[i]}
<1> SUFFICES ASSUME Bad # {} PROVE FALSE
  OBVIOUS
<1>1. PICK k : k = Min(Bad)
  OBVIOUS
<1>2. k \in Bad /\ \A i \in Bad : k <= i
  BY <1>1, MinOf
<1> HIDE DEF Bad
<1>3. k \in Nat /\ k <= l /\ f[k] # g[k]
  BY <1>2 DEF Bad
<1>4. k # 0
  BY <1>3 DEF IsAmong
<1>5. k \in 1 .. l /\ k \in 1 .. m /\ k \in 1 .. n /\ k - 1 \in Nat /\ k - 1 <= l /\ ~ k <= k - 1
  BY <1>3, <1>4
<1>6. f[k - 1] = g[k - 1]
  BY <1>2, <1>5 DEF Bad
<1>7. /\ f[k] = IF s[k] \in S THEN Append(f[k - 1], s[k]) ELSE f[k - 1]
      /\ g[k] = IF t[k] \in U THEN Append(g[k - 1], t[k]) ELSE g[k - 1]
  BY <1>5 DEF IsAmong
<1>8. s[k] = t[k] /\ (s[k] \in S <=> t[k] \in U)
  BY <1>5
<1> QED BY <1>3, <1>6, <1>7, <1>8

\* The part is a sequence of elements that are in both.
LEMMA AmongParts ==
  ASSUME NEW T, NEW s \in Seq(T), NEW S, NEW m \in Nat, m <= Len(s),
         NEW f, IsAmong(f, s, S, m)
  PROVE  f[m] \in Seq(T \cap S)
<1> DEFINE Bad == {i \in Nat : i <= m /\ f[i] \notin Seq(T \cap S)}
<1> SUFFICES ASSUME Bad # {} PROVE FALSE
  OBVIOUS
<1>1. PICK k : k = Min(Bad)
  OBVIOUS
<1>2. k \in Bad /\ \A i \in Bad : k <= i
  BY <1>1, MinOf
<1> HIDE DEF Bad
<1>3. k \in Nat /\ k <= m /\ f[k] \notin Seq(T \cap S)
  BY <1>2 DEF Bad
<1>4. k # 0
  BY <1>3, EmptySeq DEF IsAmong
<1>5. k \in 1 .. m /\ k - 1 \in Nat /\ k - 1 <= m /\ ~ k <= k - 1
  BY <1>3, <1>4
<1>6. f[k - 1] \in Seq(T \cap S)
  BY <1>2, <1>5 DEF Bad
<1>7. f[k] = IF s[k] \in S THEN Append(f[k - 1], s[k]) ELSE f[k - 1]
  BY <1>5 DEF IsAmong
<1>8. s[k] \in T
  BY <1>5, LenProperties, ElementOfSeq
<1>9. s[k] \in S => Append(f[k - 1], s[k]) \in Seq(T \cap S)
  BY <1>6, <1>8, AppendProperties
<1> QED BY <1>3, <1>6, <1>7, <1>9

LEMMA AmongType ==
  ASSUME NEW T, NEW s \in Seq(T), NEW S
  PROVE  Among(s, S) \in Seq(T \cap S)
<1>1. PICK f : IsAmong(f, s, S, Len(s)) /\ Among(s, S) = f[Len(s)]
  BY AmongIs
<1>2. Len(s) \in Nat /\ Len(s) <= Len(s)
  BY LenProperties
<1> QED BY <1>1, <1>2, AmongParts

\* Sets that have the same elements of the chain have the same part of it.
LEMMA AmongAgree ==
  ASSUME NEW T, NEW s \in Seq(T), NEW S, NEW U,
         \A x \in ToSet(s) : x \in S <=> x \in U
  PROVE  Among(s, S) = Among(s, U)
<1>1. PICK f : IsAmong(f, s, S, Len(s)) /\ Among(s, S) = f[Len(s)]
  BY AmongIs
<1>2. PICK g : IsAmong(g, s, U, Len(s)) /\ Among(s, U) = g[Len(s)]
  BY AmongIs
<1>3. Len(s) \in Nat /\ Len(s) <= Len(s) /\ DOMAIN s = 1 .. Len(s)
  BY LenProperties
<1>4. \A i \in 1 .. Len(s) : s[i] = s[i] /\ (s[i] \in S <=> s[i] \in U)
  BY <1>3 DEF ToSet
<1> QED BY <1>1, <1>2, <1>3, <1>4, AmongSame

\* An element linked at the end comes last.
LEMMA AmongAppend ==
  ASSUME NEW T, NEW s \in Seq(T), NEW e \in T, NEW S
  PROVE  Among(Append(s, e), S) = IF e \in S THEN Append(Among(s, S), e) ELSE Among(s, S)
<1>1. PICK t : t = Append(s, e)
  OBVIOUS
<1>2. /\ t \in Seq(T) /\ Len(t) = Len(s) + 1 /\ t[Len(s) + 1] = e
      /\ \A i \in 1 .. Len(s) : t[i] = s[i]
  BY <1>1, AppendProperties
<1>3. PICK f : IsAmong(f, s, S, Len(s)) /\ Among(s, S) = f[Len(s)]
  BY AmongIs
<1>4. PICK g : IsAmong(g, t, S, Len(t)) /\ Among(t, S) = g[Len(t)]
  BY <1>2, AmongIs
<1>5. PICK n \in Nat : n = Len(s)
  BY LenProperties
<1>6. n <= n /\ n <= n + 1 /\ n + 1 \in Nat /\ n + 1 \in 1 .. n + 1 /\ (n + 1) - 1 = n
  OBVIOUS
<1>7. f[n] = g[n]
  BY <1>2, <1>3, <1>4, <1>5, <1>6, AmongSame
<1>8. g[n + 1] = IF t[n + 1] \in S THEN Append(g[(n + 1) - 1], t[n + 1]) ELSE g[(n + 1) - 1]
  BY <1>2, <1>4, <1>5, <1>6 DEF IsAmong
<1> QED BY <1>1, <1>2, <1>3, <1>4, <1>5, <1>6, <1>7, <1>8

LEMMA AppendConcat ==
  ASSUME NEW T, NEW a \in Seq(T), NEW b \in Seq(T), NEW c, c = a \o b, NEW e \in T,
         NEW d, d = Append(b, e)
  PROVE  Append(c, e) = a \o d
<1>1. a \o b \in Seq(T) /\ <<e>> \in Seq(T)
  BY ConcatProperties
<1>2. Append(a \o b, e) = (a \o b) \o <<e>> /\ Append(b, e) = b \o <<e>>
  BY <1>1, AppendIsConcat
<1>3. (a \o b) \o <<e>> = a \o (b \o <<e>>)
  BY <1>1, ConcatAssociative
<1> QED BY <1>2, <1>3

\* The head of the chain, when it is in the set, comes first.
LEMMA AmongTail ==
  ASSUME NEW T, NEW s \in Seq(T), s # <<>>, NEW S
  PROVE  Among(s, S) = IF Head(s) \in S THEN <<Head(s)>> \o Among(Tail(s), S)
                                        ELSE Among(Tail(s), S)
<1>1. PICK t : t = Tail(s)
  OBVIOUS
<1>2. PICK h : h = Head(s)
  OBVIOUS
<1>3. PICK n : n = Len(t)
  OBVIOUS
<1>4. /\ t \in Seq(T) /\ h \in T /\ n \in Nat /\ Len(s) = n + 1
      /\ s[1] = h /\ \A i \in 1 .. n : t[i] = s[i + 1]
  <2>1. Len(s) \in Nat /\ Len(s) # 0
    BY LenProperties, EmptySeq
  <2>2. h = s[1]
    BY <1>2, <2>1
  <2> QED BY <1>1, <1>2, <1>3, <2>1, <2>2, HeadTailProperties, LenProperties
<1>5. PICK f : IsAmong(f, s, S, n + 1) /\ Among(s, S) = f[n + 1]
  BY <1>4, AmongIs
<1>6. PICK g : IsAmong(g, t, S, n) /\ Among(t, S) = g[n]
  BY <1>3, <1>4, AmongIs
<1>7. PICK first : first = IF h \in S THEN <<h>> ELSE <<>>
  OBVIOUS
<1>8. first \in Seq(T)
  BY <1>4, <1>7, EmptySeq
<1>9. ASSUME NEW i \in Nat, i <= n PROVE g[i] \in Seq(T)
  <2>1. IsAmong([j \in 0 .. i |-> g[j]], t, S, i)
    <3>1. \A j \in 1 .. i : j \in 0 .. i /\ j - 1 \in 0 .. i /\ j \in 1 .. n
      BY <1>4, <1>9
    <3> QED BY <1>6, <3>1, <1>9 DEF IsAmong
  <2>2. g[i] \in Seq(T \cap S)
    BY <2>1, <1>3, <1>4, <1>9, AmongParts
  <2> QED BY <2>2, SeqDef
<1>9a. \A b \in Seq(T) : \A e \in T : \A c, d :
         c = first \o b /\ d = Append(b, e) => Append(c, e) = first \o d
  <2> TAKE b \in Seq(T)
  <2> TAKE e \in T
  <2> TAKE c, d
  <2> HAVE c = first \o b /\ d = Append(b, e)
  <2> QED BY ONLY first \in Seq(T), b \in Seq(T), e \in T, c = first \o b, d = Append(b, e), AppendConcat
<1>10. f[n + 1] = first \o g[n]
  <2> SUFFICES ASSUME f[n + 1] # first \o g[n] PROVE FALSE
    OBVIOUS
  <2> DEFINE Bad == {i \in Nat : i <= n /\ f[i + 1] # first \o g[i]}
  <2>0. n <= n /\ n \in Bad /\ Bad \subseteq Nat
    BY <1>4
  <2> HIDE DEF Bad
  <2>1. PICK k : k = Min(Bad)
    OBVIOUS
  <2>2. k \in Bad /\ \A i \in Bad : k <= i
    BY <2>0, <2>1, MinOf
  <2>3. k \in Nat /\ k <= n /\ f[k + 1] # first \o g[k]
    BY <2>2 DEF Bad
  <2>4. k + 1 \in 1 .. n + 1 /\ (k + 1) - 1 = k /\ 1 \in 1 .. n + 1 /\ 1 - 1 = 0
    BY <1>4, <2>3
  <2>5. f[k + 1] = IF s[k + 1] \in S THEN Append(f[k], s[k + 1]) ELSE f[k]
    BY <1>5, <2>4 DEF IsAmong
  <2>6. CASE k = 0
    <3>1. f[0] = <<>> /\ g[0] = <<>>
      BY <1>5, <1>6 DEF IsAmong
    <3>2. f[1] = IF h \in S THEN Append(<<>>, h) ELSE <<>>
      BY <1>4, <2>5, <2>6, <3>1
    <3>3. Append(<<>>, h) = <<h>> /\ first \o <<>> = first
      BY <1>8
    <3> QED BY <1>7, <2>3, <2>6, <3>1, <3>2, <3>3
  <2>7. CASE k # 0
    <3>1. k \in 1 .. n /\ k - 1 \in Nat /\ k - 1 <= n /\ ~ k <= k - 1 /\ (k - 1) + 1 = k
      BY <1>4, <2>3, <2>7
    <3>2. f[k] = first \o g[k - 1]
      BY <2>2, <3>1 DEF Bad
    <3>3. g[k] = IF t[k] \in S THEN Append(g[k - 1], t[k]) ELSE g[k - 1]
      BY <1>6, <3>1 DEF IsAmong
    <3>4. t[k] = s[k + 1] /\ t[k] \in T
      BY <1>3, <1>4, <3>1, LenProperties, ElementOfSeq
    <3>5. g[k - 1] \in Seq(T)
      BY <1>9, <3>1
    <3>6. PICK b \in Seq(T) : b = g[k - 1]
      BY <3>5
    <3>7. PICK e \in T : e = t[k]
      BY <3>4
    <3>8. PICK c : c = f[k]
      OBVIOUS
    <3>9. PICK d : d = Append(b, e)
      OBVIOUS
    <3>10. c = first \o b
      BY <3>2, <3>6, <3>8
    <3>11. Append(c, e) = first \o d
      BY ONLY <1>9a, <3>9, <3>10, b \in Seq(T), e \in T
    <3>12. f[k + 1] = IF e \in S THEN Append(c, e) ELSE c
      BY <2>5, <3>4, <3>7, <3>8
    <3>13. g[k] = IF e \in S THEN d ELSE b
      BY <3>3, <3>6, <3>7, <3>9
    <3> QED BY ONLY <2>3, <3>10, <3>11, <3>12, <3>13
  <2> QED BY <2>6, <2>7
<1>11. g[n] \in Seq(T) /\ (first = <<>> => first \o g[n] = g[n])
  BY <1>4, <1>9
<1> QED BY <1>1, <1>2, <1>5, <1>6, <1>7, <1>10, <1>11

\* A chain with nothing in the set has no part in it.
LEMMA AmongNone ==
  ASSUME NEW T, NEW s \in Seq(T), NEW S, \A x \in ToSet(s) : x \notin S
  PROVE  Among(s, S) = <<>>
<1>1. \A x \in ToSet(s) : x \in S <=> x \in {}
  OBVIOUS
<1>2. Among(s, S) = Among(s, {})
  BY <1>1, AmongAgree
<1>3. Among(s, {}) \in Seq(T \cap {})
  BY AmongType
<1>4. PICK a : a = Among(s, {})
  OBVIOUS
<1>5. \A i \in 1 .. Len(a) : a[i] \in {}
  BY <1>3, <1>4, ElementOfSeq
<1>6. Len(a) \in Nat /\ (Len(a) = 0 => a = <<>>)
  BY <1>3, <1>4, LenProperties, EmptySeq
<1> QED BY <1>2, <1>4, <1>5, <1>6

\* The first element of the chain in the set is the first of the part.
LEMMA AmongFirst ==
  ASSUME NEW T, NEW s \in Seq(T), NEW S, NEW i \in DOMAIN s, s[i] \in S,
         \A j \in 1 .. i - 1 : s[j] \notin S
  PROVE  Among(s, S) # <<>> /\ Head(Among(s, S)) = s[i]
<1>1. PICK f : IsAmong(f, s, S, Len(s)) /\ Among(s, S) = f[Len(s)]
  BY AmongIs
<1>2. PICK n \in Nat : n = Len(s) /\ i \in 1 .. n
  BY LenProperties
<1> DEFINE Good(m) == IF m < i THEN f[m] = <<>> ELSE f[m] # <<>> /\ Head(f[m]) = s[i]
           Bad == {m \in Nat : m <= n /\ ~ Good(m)}
<1>3. ASSUME NEW m \in Nat, m <= n PROVE f[m] \in Seq(T)
  <2>1. IsAmong([j \in 0 .. m |-> f[j]], s, S, m)
    <3>1. \A j \in 1 .. m : j \in 0 .. m /\ j - 1 \in 0 .. m /\ j \in 1 .. n
      BY <1>2, <1>3
    <3> QED BY <1>1, <1>2, <3>1, <1>3 DEF IsAmong
  <2>2. f[m] \in Seq(T \cap S)
    BY <2>1, <1>2, <1>3, AmongParts
  <2> QED BY <2>2, SeqDef
<1>4. Good(n)
  <2> HIDE DEF Good
  <2> SUFFICES ASSUME ~ Good(n) PROVE FALSE
    OBVIOUS
  <2>0. n <= n /\ n \in Bad /\ Bad \subseteq Nat
    BY <1>2
  <2> HIDE DEF Bad
  <2>1. PICK k : k = Min(Bad)
    OBVIOUS
  <2>2. k \in Bad /\ \A m \in Bad : k <= m
    BY <2>0, <2>1, MinOf
  <2>3. k \in Nat /\ k <= n /\ ~ Good(k)
    BY <2>2 DEF Bad
  <2>4. k # 0
    <3>1. 0 < i /\ f[0] = <<>>
      BY <1>1, <1>2 DEF IsAmong
    <3> QED BY <2>3, <3>1 DEF Good
  <2>5. k \in 1 .. n /\ k - 1 \in Nat /\ k - 1 <= n /\ ~ k <= k - 1
    BY <2>3, <2>4
  <2>6. Good(k - 1)
    BY <2>2, <2>5 DEF Bad
  <2>7. f[k] = IF s[k] \in S THEN Append(f[k - 1], s[k]) ELSE f[k - 1]
    BY <1>1, <1>2, <2>5 DEF IsAmong
  <2>8. PICK b \in Seq(T) : b = f[k - 1]
    BY <1>3, <2>5
  <2>9. PICK e \in T : e = s[k]
    BY <1>2, <2>5, LenProperties, ElementOfSeq
  <2>10. PICK d : d = Append(b, e)
    OBVIOUS
  <2>11. d # <<>> /\ Head(d) = IF b = <<>> THEN e ELSE Head(b)
    BY <2>10, HeadTailAppend, AppendProperties, EmptySeq
  <2>12. f[k] = IF e \in S THEN d ELSE b
    BY <2>7, <2>8, <2>9, <2>10
  <2>13. IF k - 1 < i THEN b = <<>> ELSE b # <<>> /\ Head(b) = s[i]
    BY <2>6, <2>8 DEF Good
  <2>14. CASE k < i
    <3>1. k \in 1 .. i - 1 /\ k - 1 < i
      BY <1>2, <2>5, <2>14
    <3>2. e \notin S
      BY <2>9, <3>1
    <3> QED BY <2>3, <2>12, <2>13, <2>14, <3>1, <3>2 DEF Good
  <2>15. CASE k = i
    <3>1. k - 1 < i /\ ~ k < i
      BY <1>2, <2>15
    <3> QED BY <2>3, <2>9, <2>11, <2>12, <2>13, <2>15, <3>1 DEF Good
  <2>16. CASE k > i
    <3>1. ~ k - 1 < i /\ ~ k < i
      BY <1>2, <2>5, <2>16
    <3>2. b # <<>> /\ Head(b) = s[i]
      BY <2>13, <3>1
    <3>3. f[k] # <<>> /\ Head(f[k]) = s[i]
      BY <2>11, <2>12, <3>2
    <3> QED BY <2>3, <3>1, <3>3 DEF Good
  <2>17. k < i \/ k = i \/ k > i
    BY <1>2, <2>3
  <2> QED BY <2>14, <2>15, <2>16, <2>17
<1>5. ~ n < i
  BY <1>2
<1> QED BY <1>1, <1>2, <1>4, <1>5

\* Applying a table to a sequence, element by element.
Through(D, c) == [i \in DOMAIN c |-> D[c[i]]]

LEMMA ThroughAppend ==
  ASSUME NEW T, NEW c \in Seq(T), NEW e \in T, NEW D
  PROVE  Through(D, Append(c, e)) = Append(Through(D, c), D[e])
<1>1. PICK a : a = Append(c, e)
  OBVIOUS
<1>2. PICK n \in Nat : n = Len(c)
  BY LenProperties
<1>3. /\ DOMAIN c = 1 .. n /\ DOMAIN a = 1 .. n + 1 /\ a[n + 1] = e
      /\ \A i \in 1 .. n : a[i] = c[i]
  BY <1>1, <1>2, AppendProperties, LenProperties
<1>4. PICK U : U = {D[x] : x \in T}
  OBVIOUS
<1>5. D[e] \in U /\ \A i \in 1 .. n : D[c[i]] \in U
  BY <1>2, <1>4, ElementOfSeq
<1>6. PICK h : h = Through(D, c)
  OBVIOUS
<1>7. DOMAIN h = 1 .. n /\ \A i \in 1 .. n : h[i] = D[c[i]]
  BY <1>3, <1>6 DEF Through
<1>8. h \in Seq(U) /\ Len(h) = n
  <2>1. h \in [1 .. n -> U]
    BY <1>3, <1>5, <1>6 DEF Through
  <2> QED BY <2>1, <1>2, SeqDef, LenProperties
<1>9. PICK r : r = Append(h, D[e])
  OBVIOUS
<1>10. /\ DOMAIN r = 1 .. n + 1 /\ r[n + 1] = D[e]
       /\ \A i \in 1 .. n : r[i] = D[c[i]]
       /\ r \in Seq(U) /\ Len(r) = n + 1
  BY <1>5, <1>7, <1>8, <1>9, AppendProperties, LenProperties
<1>11. PICK t : t = Through(D, a)
  OBVIOUS
<1>12. t = [i \in 1 .. n + 1 |-> D[a[i]]]
  BY <1>3, <1>11 DEF Through
<1>13. \A i \in 1 .. n + 1 : D[a[i]] = r[i]
  <2>1. \A i \in 1 .. n + 1 : i = n + 1 \/ i \in 1 .. n
    BY <1>2
  <2> QED BY <1>3, <1>10, <2>1
<1>14. r = [i \in 1 .. n + 1 |-> r[i]]
  <2>1. r \in [1 .. n + 1 -> U]
    BY <1>10, LenProperties
  <2> QED BY <2>1
<1>15. t = r
  BY <1>12, <1>13, <1>14
<1> QED BY <1>1, <1>6, <1>9, <1>11, <1>15

\* Tables that agree on the elements of a sequence.
LEMMA ThroughSame ==
  ASSUME NEW T, NEW c \in Seq(T), NEW D, NEW E, \A x \in T : D[x] = E[x]
  PROVE  Through(D, c) = Through(E, c)
<1>1. \A i \in DOMAIN c : c[i] \in T
  BY LenProperties, ElementOfSeq
<1> QED BY <1>1 DEF Through

\* Without its head.
LEMMA ThroughTail ==
  ASSUME NEW T, NEW c \in Seq(T), NEW e \in T, NEW D
  PROVE  Through(D, <<e>> \o c) # <<>> /\ Tail(Through(D, <<e>> \o c)) = Through(D, c)
<1>1. PICK a : a = <<e>> \o c
  OBVIOUS
<1>2. PICK n \in Nat : n = Len(c)
  BY LenProperties
<1>3. /\ a \in Seq(T) /\ Len(a) = n + 1
      /\ \A i \in 1 .. n : a[i + 1] = c[i]
  BY <1>1, <1>2
<1>4. DOMAIN c = 1 .. n /\ DOMAIN a = 1 .. n + 1
  BY <1>2, <1>3, LenProperties
<1>5. PICK U : U = {D[x] : x \in T}
  OBVIOUS
<1>6. PICK h : h = Through(D, a)
  OBVIOUS
<1>7. h = [i \in 1 .. n + 1 |-> D[a[i]]]
  BY <1>4, <1>6 DEF Through
<1>8. \A i \in 1 .. n + 1 : D[a[i]] \in U
  BY <1>3, <1>5, ElementOfSeq
<1>9. h \in Seq(U) /\ Len(h) = n + 1 /\ h # <<>>
  <2>1. h \in [1 .. n + 1 -> U] /\ n + 1 \in Nat
    BY <1>7, <1>8
  <2>2. h \in Seq(U) /\ DOMAIN h = 1 .. n + 1
    BY <2>1, SeqDef
  <2>3. Len(h) = n + 1
    BY <2>1, <2>2, LenProperties
  <2> QED BY <2>2, <2>3, EmptySeq
<1>10. PICK r : r = Tail(h)
  OBVIOUS
<1>11. r \in Seq(U) /\ Len(r) = n /\ \A i \in 1 .. n : r[i] = h[i + 1]
  BY <1>9, <1>10, HeadTailProperties
<1>12. \A i \in 1 .. n : i + 1 \in 1 .. n + 1
  OBVIOUS
<1>13. \A i \in 1 .. n : r[i] = D[c[i]]
  BY <1>3, <1>7, <1>11, <1>12
<1>14. r = [i \in 1 .. n |-> r[i]]
  BY <1>11, LenProperties
<1>15. Through(D, c) = [i \in 1 .. n |-> D[c[i]]]
  BY <1>4 DEF Through
<1> QED BY <1>1, <1>6, <1>9, <1>10, <1>13, <1>14, <1>15

-----------------------------------------------------------------------------
(* The invariant. *)

\* Entries in use are on the chain their key hashes to.
OnOwnChain ==
  \A c \in Bins : \A e \in ToSet(bins[c]) :
    entries[e] \in Entry /\ BinOf[entries[e].key] = c

\* Each unit of the store is in one block: an entry's, a free one or the
\* request's.
UnitsAccounted ==
  /\ \A e, f \in Linked : \A u : u \in EntryUnits(e) /\ u \in EntryUnits(f) => e = f
  /\ \A e \in Linked : \A u \in EntryUnits(e) :
       u \in Units /\ ~ Covers(firstfree, u) /\ u \notin RequestUnits
  /\ \A u \in RequestUnits : u \in Units /\ ~ Covers(firstfree, u)
  /\ \A u \in Units : \/ \E e \in Linked : u \in EntryUnits(e)
                      \/ Covers(firstfree, u)
                      \/ u \in RequestUnits

\* A request has its block from PutTake to PutLink, and the client's data is
\* in it.
RequestWritten ==
  /\ pc \in {"idle", "fit"} => req.at = 0
  /\ pc = "link" => req.at \in Units
  /\ \A u \in RequestUnits : store[u] = req.value

IInv ==
  /\ TypeOK
  /\ OneChain(bins)
  /\ OnOwnChain
  /\ IsFreeList(firstfree)
  /\ UnitsAccounted
  /\ DataIntact
  /\ RequestWritten

-----------------------------------------------------------------------------
(* What IInv says of the parts. *)

\* Linked, in terms of the elements of the chains.
LEMMA LinkedElements ==
  \A e : e \in Linked <=> e \in Entries /\ \E c \in Bins : e \in ToSet(bins[c])
BY DEF Linked, ToSet

\* The same of the next state.
LEMMA LinkedElementsNext ==
  \A e : e \in Linked' <=> e \in Entries /\ \E c \in Bins : e \in ToSet(bins'[c])
BY DEF Linked, ToSet

\* The entry of a chain is an entry in use, and its block a block of the store.
LEMMA LinkedBlocks ==
  ASSUME IInv, NEW e \in Linked
  PROVE  /\ e \in Entries
         /\ entries[e] \in Entry
         /\ entries[e].key \in Keys
         /\ entries[e].data \in Units
         /\ entries[e].length \in 1 .. StoreLen
         /\ entries[e].data + entries[e].length <= StoreLen + 1
<1>1. e \in Entries /\ entries[e] \in Entry
  BY LinkedElements DEF IInv, OnOwnChain
<1>2. /\ entries[e].key \in Keys
      /\ entries[e].data \in Units
      /\ entries[e].length \in 1 .. StoreLen
  BY <1>1 DEF Entry
<1>3. entries[e].data + entries[e].length - 1 \in EntryUnits(e)
  BY <1>2, StoreAssumption DEF EntryUnits, Extent, Units
<1>4. entries[e].data + entries[e].length - 1 \in Units
  BY <1>3 DEF IInv, UnitsAccounted
<1> QED BY <1>1, <1>2, <1>4, StoreAssumption DEF Units

\* A client can read every unit of a linked entry's block.
LEMMA StoredIsData ==
  ASSUME IInv, NEW e \in Linked
  PROVE  Stored(e) \in Seq(Values \cup {Header})
<1>1. /\ entries[e].data \in Units
      /\ entries[e].length \in 1 .. StoreLen
      /\ entries[e].data + entries[e].length <= StoreLen + 1
  BY LinkedBlocks
<1> DEFINE n == entries[e].length
           a == entries[e].data
<1>2. n \in Nat /\ \A i \in 1 .. n : a + i - 1 \in Units
  BY <1>1, StoreAssumption DEF Units
<1>3. \A u \in Units : store[u] \in Values \cup {Header}
  BY DEF IInv, TypeOK
<1> HIDE DEF n, a
<1>4. [i \in 1 .. n |-> store[a + i - 1]] \in [1 .. n -> Values \cup {Header}]
  BY <1>2, <1>3
<1>5. [i \in 1 .. n |-> store[a + i - 1]] \in Seq(Values \cup {Header})
  BY <1>2, <1>4, SeqDef
<1> QED BY <1>5 DEF Stored, n, a

\* The length cache_put works with is at least one quantum.
LEMMA RoundedUp ==
  ASSUME NEW length \in Lengths
  PROVE  RoundedLength(length) \in Nat \ {0}
<1>1. /\ length \in Int /\ length >= 1
      /\ Quantum \in Int /\ Quantum >= 1
  BY ClientAssumption, StoreAssumption
<1> DEFINE a == length + Quantum - 1
<1>2. a \in Int /\ a >= Quantum
  BY <1>1
<1> HIDE DEF a
<1>3. a \div Quantum \in Int /\ a \div Quantum >= 1
  BY <1>1, <1>2
<1> QED BY <1>3 DEF RoundedLength, a

\* The statistics stay within their bound.
LEMMA CountTypes ==
  ASSUME TypeOK, NEW counter \in {"hits", "misses", "evictions"}, Count(counter)
  PROVE  stats' \in [hits : 0 .. StatMax, misses : 0 .. StatMax, evictions : 0 .. StatMax]
BY ClockAssumption DEF TypeOK, Count

\* Time stamps stay time stamps when the clock wraps.
LEMMA NextTimeType ==
  ASSUME TypeOK
  PROVE  NextTime \in Times
<1>1. time \in Nat /\ TimeMax \in Nat
  BY ClockAssumption DEF TypeOK, Times
<1> DEFINE a == time + 1
           d == TimeMax + 1
<1>2. a \in Int /\ d \in Int /\ d >= 1
  BY <1>1
<1> HIDE DEF a
<1>3. a % (TimeMax + 1) \in Int /\ a % (TimeMax + 1) >= 0 /\ a % (TimeMax + 1) <= TimeMax
  BY <1>1, <1>2
<1> QED BY <1>1, <1>3 DEF NextTime, Times, a

-----------------------------------------------------------------------------
(* The invariant is inductive: one lemma for each kind of step. *)

\* A block of Units that is one free block covers exactly Units.
LEMMA WholeStore ==
  LET F == <<[at |-> 1, length |-> StoreLen]>>
  IN  /\ IsFreeList(F)
      /\ \A u : Covers(F, u) <=> u \in Units
<1> DEFINE b == [at |-> 1, length |-> StoreLen]
           F == <<b>>
<1>1. b \in FreeBlock /\ b.at = 1 /\ b.length = StoreLen
  BY StoreAssumption DEF FreeBlock, Units
<1> HIDE DEF b
<1>2. F \in Seq(FreeBlock) /\ DOMAIN F = {1} /\ F[1] = b
  BY <1>1
<1> HIDE DEF F
<1>3. IsFreeList(F)
  BY <1>1, <1>2, StoreAssumption DEF IsFreeList
<1>4. ASSUME NEW u PROVE Covers(F, u) <=> u \in Units
  BY <1>1, <1>2, StoreAssumption DEF Covers, BlockUnits, Extent, Units
<1> QED BY <1>3, <1>4 DEF F, b

\* The chains cache_create and cache_empty make: every entry is free.
LEMMA EveryEntryFree ==
  ASSUME NEW B,
         B = [b \in 0 .. NBins |-> IF b = FreeChain THEN [e \in Entries |-> e] ELSE <<>>]
  PROVE  OneChain(B) /\ \A c \in Bins : ToSet(B[c]) = {}
<1>1. NEntries \in Nat /\ NBins \in Nat /\ FreeChain \in 0 .. NBins
  BY StoreAssumption, BinsAssumption DEF FreeChain
<1> DEFINE f == [e \in Entries |-> e]
<1>2. f \in Seq(Entries)
  <2>1. f \in [1 .. NEntries -> Entries]
    BY DEF Entries
  <2> HIDE DEF f
  <2> QED BY <1>1, <2>1, SeqDef
<1>3. IsInjective(f) /\ ToSet(f) = Entries
  BY DEF IsInjective, ToSet
<1>4. <<>> \in Seq(Entries) /\ IsInjective(<<>>) /\ ToSet(<<>>) = {}
  BY DEF IsInjective, ToSet
<1> HIDE DEF f
<1>5. B = [b \in 0 .. NBins |-> IF b = FreeChain THEN f ELSE <<>>]
  BY DEF f
<1>6. ASSUME NEW c \in 0 .. NBins
      PROVE  B[c] = IF c = FreeChain THEN f ELSE <<>>
  BY <1>5
<1>7. B \in [0 .. NBins -> Seq(Entries)]
  BY <1>2, <1>4, <1>5
<1>8. \A c \in 0 .. NBins : IsInjective(B[c])
  BY <1>3, <1>4, <1>6
<1>9. \A c \in 0 .. NBins : c # FreeChain => ToSet(B[c]) = {}
  BY <1>4, <1>6
<1>10. ToSet(B[FreeChain]) = Entries
  BY <1>1, <1>3, <1>6
<1>11. \A c \in Bins : c \in 0 .. NBins /\ c # FreeChain
  BY <1>1 DEF Bins, FreeChain
<1> QED BY <1>1, <1>7, <1>8, <1>9, <1>10, <1>11 DEF OneChain

\* cache_create and cache_construct establish the invariant.
LEMMA InitInv == Init => IInv
<1> SUFFICES ASSUME Init PROVE IInv
  OBVIOUS
<1>1. OneChain(bins) /\ \A c \in Bins : ToSet(bins[c]) = {}
  BY EveryEntryFree DEF Init
<1>2. Linked = {}
  BY <1>1, LinkedElements
<1>3. IsFreeList(firstfree) /\ \A u : Covers(firstfree, u) <=> u \in Units
  BY WholeStore DEF Init
<1>4. RequestUnits = {}
  BY DEF Init, RequestUnits, NoRequest
<1>5. TypeOK
  <2>1. bins \in [0 .. NBins -> Seq(Entries)] /\ firstfree \in Seq(FreeBlock)
    BY <1>1, <1>3 DEF OneChain, IsFreeList
  <2>2. time \in Times /\ stats \in [hits : 0 .. StatMax, misses : 0 .. StatMax, evictions : 0 .. StatMax]
    BY ClockAssumption DEF Init, Times, NoStats
  <2>3. entries \in [Entries -> Entry \cup {FreeEntry}] /\ store \in [Units -> Values \cup {Header}]
    BY DEF Init
  <2>4. <<>> \in Seq(Values \cup {Header})
    BY EmptySeq
  <2>5. out \in [result : {"none", "hit", "miss", "ok", "too_big"}, block : Seq(Values \cup {Header})]
    BY <2>4 DEF Init, NoAnswer, Answer
  <2> QED BY <2>1, <2>2, <2>3, <2>5 DEF Init, TypeOK
<1>6. DataIntact
  <2>1. DOMAIN firstfree = {1} /\ firstfree[1].at = 1 /\ 1 \in Units
    BY StoreAssumption DEF Init, Units
  <2> QED BY <1>2, <2>1 DEF DataIntact, Init
<1>7. UnitsAccounted
  BY <1>2, <1>3, <1>4 DEF UnitsAccounted
<1>8. OnOwnChain /\ RequestWritten
  BY <1>1, <1>4 DEF NoRequest, OnOwnChain, RequestWritten, Init
<1> QED BY <1>1, <1>3, <1>5, <1>6, <1>7, <1>8 DEF IInv

\* cache_empty starts again.
LEMMA EmptyInv == IInv /\ Empty => IInv'
<1> SUFFICES ASSUME IInv, Empty PROVE IInv'
  OBVIOUS
<1>1. OneChain(bins') /\ \A c \in Bins : ToSet(bins'[c]) = {}
  BY EveryEntryFree DEF Empty
<1>2. Linked' = {}
  BY <1>1, LinkedElementsNext
<1>3. IsFreeList(firstfree') /\ \A u : Covers(firstfree', u) <=> u \in Units
  BY WholeStore DEF Empty
<1>4. RequestUnits' = {} /\ req'.at = 0
  BY DEF Empty, RequestUnits, IInv, RequestWritten
<1>5. TypeOK'
  <2>1. bins' \in [0 .. NBins -> Seq(Entries)] /\ firstfree' \in Seq(FreeBlock)
    BY <1>1, <1>3 DEF OneChain, IsFreeList
  <2>2. time' \in Times /\ stats' \in [hits : 0 .. StatMax, misses : 0 .. StatMax, evictions : 0 .. StatMax]
    BY ClockAssumption DEF Empty, Times, NoStats
  <2>3. entries' \in [Entries -> Entry \cup {FreeEntry}] /\ store' \in [Units -> Values \cup {Header}]
    BY DEF Empty, IInv, TypeOK
  <2>4. <<>> \in Seq(Values \cup {Header})
    BY EmptySeq
  <2>5. out' \in [result : {"none", "hit", "miss", "ok", "too_big"}, block : Seq(Values \cup {Header})]
    BY <2>4 DEF Empty, NoAnswer, Answer
  <2>6. pc' = "idle" /\ req' = req /\ req \in Request \cup {NoRequest}
    BY DEF Empty, IInv, TypeOK
  <2> QED BY <2>1, <2>2, <2>3, <2>5, <2>6 DEF TypeOK
<1>6. DataIntact'
  <2>1. /\ DOMAIN firstfree' = {1} /\ firstfree'[1].at = 1
        /\ store' = [store EXCEPT ![1] = Header]
    BY DEF Empty
  <2>2. 1 \in Units /\ store \in [Units -> Values \cup {Header}]
    BY StoreAssumption DEF Units, IInv, TypeOK
  <2> QED BY <1>2, <2>1, <2>2 DEF DataIntact
<1>7. UnitsAccounted'
  BY <1>2, <1>3, <1>4 DEF UnitsAccounted
<1>8. OnOwnChain' /\ RequestWritten'
  BY <1>1, <1>4 DEF OnOwnChain, RequestWritten, Empty
<1> QED BY <1>1, <1>3, <1>5, <1>6, <1>7, <1>8 DEF IInv

\* A step that touches neither the lists nor the store, nor what the request
\* holds of it.
LEMMA SameStore ==
  ASSUME IInv, UNCHANGED <<bins, entries, firstfree, store>>,
         RequestUnits' = RequestUnits, RequestWritten', TypeOK'
  PROVE  IInv'
<1>1. Linked' = Linked
  BY LinkedElements, LinkedElementsNext
<1>2. \A e : EntryUnits(e)' = EntryUnits(e)
  BY DEF EntryUnits
<1>3. \A i : FreeUnits(i)' = FreeUnits(i)
  BY DEF FreeUnits
<1>4. OneChain(bins)' /\ OnOwnChain' /\ IsFreeList(firstfree)'
  BY DEF IInv, OnOwnChain
<1>5. UnitsAccounted'
  BY <1>1, <1>2 DEF IInv, UnitsAccounted
<1>6. DataIntact'
  BY <1>1, <1>2 DEF IInv, DataIntact
<1> QED BY <1>4, <1>5, <1>6 DEF IInv

\* The answer of a call that returns no block is an answer.
LEMMA NoAnswerType ==
  NoAnswer \in [result : {"none", "hit", "miss", "ok", "too_big"}, block : Seq(Values \cup {Header})]
BY EmptySeq DEF NoAnswer, Answer

\* The calls that end at once, and the start of cache_put.
LEMMA QuietInv ==
  ASSUME IInv,
         \/ \E key \in Keys : GetMiss(key)
         \/ \E length \in Lengths : PutTooBig(length)
         \/ \E key \in Keys, value \in Values, length \in Lengths : PutBegin(key, value, length)
         \/ ResetStats
  PROVE  IInv'
<1>1. /\ UNCHANGED <<bins, entries, firstfree, store, time>>
      /\ pc = "idle"
  BY DEF GetMiss, PutTooBig, PutBegin, ResetStats
<1>2. CASE \E key \in Keys, value \in Values, length \in Lengths : PutBegin(key, value, length)
  <2>1. PICK key \in Keys, value \in Values, length \in Lengths : PutBegin(key, value, length)
    BY <1>2
  <2>2. RoundedLength(length) \in 1 .. StoreLen
    BY <2>1, RoundedUp, StoreAssumption DEF PutBegin
  <2>3. /\ req' = [key |-> key, value |-> value, length |-> RoundedLength(length), at |-> 0]
        /\ req' \in Request
        /\ req'.at = 0
        /\ pc' = "fit"
        /\ out' = NoAnswer
        /\ stats' = stats
    BY <2>1, <2>2 DEF PutBegin, Request
  <2>4. RequestUnits' = RequestUnits /\ RequestWritten'
    BY <1>1, <2>3 DEF IInv, RequestUnits, RequestWritten
  <2>5. TypeOK'
    BY <1>1, <2>3, NoAnswerType DEF IInv, TypeOK
  <2> QED BY <1>1, <2>4, <2>5, SameStore
<1>3. CASE \/ \E key \in Keys : GetMiss(key)
           \/ \E length \in Lengths : PutTooBig(length)
           \/ ResetStats
  <2>1. UNCHANGED <<pc, req>>
    BY <1>3 DEF GetMiss, PutTooBig, ResetStats
  <2>2. RequestUnits' = RequestUnits /\ RequestWritten'
    BY <1>1, <2>1 DEF IInv, RequestUnits, RequestWritten
  <2>3. stats' \in [hits : 0 .. StatMax, misses : 0 .. StatMax, evictions : 0 .. StatMax]
    <3>1. CASE \E key \in Keys : GetMiss(key)
      BY <3>1, CountTypes DEF GetMiss, IInv
    <3>2. CASE \E length \in Lengths : PutTooBig(length)
      BY <3>2 DEF PutTooBig, IInv, TypeOK
    <3>3. CASE ResetStats
      BY <3>3, ClockAssumption DEF ResetStats, NoStats
    <3> QED BY <1>3, <3>1, <3>2, <3>3
  <2>4. out' \in [result : {"none", "hit", "miss", "ok", "too_big"}, block : Seq(Values \cup {Header})]
    <3>1. <<>> \in Seq(Values \cup {Header})
      BY EmptySeq
    <3>2. out' \in {Answer("miss", <<>>), Answer("too_big", <<>>), NoAnswer}
      BY <1>3 DEF GetMiss, PutTooBig, ResetStats
    <3>3. \A r \in {"miss", "too_big"} : Answer(r, <<>>) \in
            [result : {"none", "hit", "miss", "ok", "too_big"}, block : Seq(Values \cup {Header})]
      BY <3>1 DEF Answer
    <3> QED BY <3>2, <3>3, NoAnswerType
  <2>5. TypeOK'
    BY <1>1, <2>1, <2>3, <2>4 DEF IInv, TypeOK
  <2> QED BY <1>1, <2>2, <2>5, SameStore
<1> QED BY <1>2, <1>3

\* cache_get stamps the entry it finds: its block stays where it is.
LEMMA GetHitInv ==
  ASSUME IInv, NEW key \in Keys, GetHit(key)
  PROVE  IInv'
<1>1. PICK i \in DOMAIN bins[BinOf[key]] :
        /\ entries' = [entries EXCEPT ![bins[BinOf[key]][i]].time = time]
        /\ out' = Answer("hit", Stored(bins[BinOf[key]][i]))
  BY DEF GetHit
<1> DEFINE b == BinOf[key]
           e == bins[b][i]
<1>2. /\ UNCHANGED <<bins, firstfree, store, pc, req>>
      /\ time' = NextTime
      /\ Count("hits")
  BY DEF GetHit
<1>3. b \in Bins
  BY BinsAssumption
<1>4. e \in ToSet(bins[b]) /\ b \in 0 .. NBins
  BY <1>3, BinsAssumption DEF ToSet, Bins
<1>5. e \in Linked
  <2>1. bins[b] \in Seq(Entries)
    BY <1>4 DEF IInv, OneChain
  <2>2. e \in Entries
    BY <2>1, LenProperties, ElementOfSeq
  <2> QED BY <1>3, <1>4, <2>2, LinkedElements
<1> HIDE DEF e
<1>6. entries[e] \in Entry /\ e \in Entries
  BY <1>5, LinkedBlocks
<1>7. /\ entries' = [entries EXCEPT ![e] = [entries[e] EXCEPT !.time = time]]
      /\ out' = Answer("hit", Stored(e))
  BY <1>1 DEF e
<1>8. time \in Times /\ entries \in [Entries -> Entry \cup {FreeEntry}]
  BY DEF IInv, TypeOK
<1> DEFINE stamped == [entries[e] EXCEPT !.time = time]
<1>9. /\ stamped \in Entry
      /\ stamped.key = entries[e].key
      /\ stamped.data = entries[e].data
      /\ stamped.length = entries[e].length
  BY <1>6, <1>8 DEF Entry
<1> HIDE DEF stamped
<1>10. /\ entries' \in [Entries -> Entry \cup {FreeEntry}]
       /\ entries'[e] = stamped
       /\ \A f \in Entries : f # e => entries'[f] = entries[f]
  <2>1. entries' = [entries EXCEPT ![e] = stamped]
    BY <1>7 DEF stamped
  <2> QED BY <1>6, <1>8, <1>9, <2>1
<1>11. Linked' = Linked
  BY <1>2, LinkedElements, LinkedElementsNext
<1>12. \A f \in Linked : EntryUnits(f)' = EntryUnits(f)
  <2>1. \A f \in Linked : f \in Entries
    BY LinkedElements
  <2>2. \A f \in Linked : entries'[f].data = entries[f].data /\ entries'[f].length = entries[f].length
    BY <1>9, <1>10, <2>1
  <2> QED BY <2>2 DEF EntryUnits
<1>13. OnOwnChain'
  <2> SUFFICES ASSUME NEW c \in Bins, NEW f \in ToSet(bins[c])
               PROVE  entries'[f] \in Entry /\ BinOf[entries'[f].key] = c
    BY <1>2 DEF OnOwnChain
  <2>1. entries[f] \in Entry /\ BinOf[entries[f].key] = c
    BY DEF IInv, OnOwnChain
  <2>2. f \in Entries
    <3>1. c \in 0 .. NBins
      BY BinsAssumption DEF Bins
    <3>2. bins[c] \in Seq(Entries)
      BY <3>1 DEF IInv, OneChain
    <3> QED BY <3>2, LenProperties, ElementOfSeq DEF ToSet
  <2> QED BY <1>9, <1>10, <2>1, <2>2
<1>14. RequestUnits' = RequestUnits /\ RequestWritten'
  BY <1>2 DEF IInv, RequestUnits, RequestWritten
<1>15. UnitsAccounted'
  BY <1>2, <1>11, <1>12, <1>14 DEF IInv, UnitsAccounted
<1>16. DataIntact'
  BY <1>2, <1>11, <1>12 DEF IInv, DataIntact
<1>17. TypeOK'
  <2>1. time' \in Times
    BY <1>2, NextTimeType DEF IInv
  <2>2. stats' \in [hits : 0 .. StatMax, misses : 0 .. StatMax, evictions : 0 .. StatMax]
    BY <1>2, CountTypes DEF IInv
  <2>3. out' \in [result : {"none", "hit", "miss", "ok", "too_big"}, block : Seq(Values \cup {Header})]
    BY <1>5, <1>7, StoredIsData DEF Answer
  <2> QED BY <1>2, <1>10, <2>1, <2>2, <2>3 DEF IInv, TypeOK
<1> QED BY <1>2, <1>13, <1>14, <1>15, <1>16, <1>17 DEF IInv

\* purge takes the head of the chain, and nothing else, out of the linked
\* entries.
LEMMA PurgeUnlinks ==
  ASSUME IInv, NEW b \in Bins, bins[b] # <<>>, Purge(b),
         NEW e, e = Head(bins[b])
  PROVE  /\ OneChain(bins')
         /\ e \in Linked
         /\ Linked' = Linked \ {e}
         /\ \A c \in Bins : \A x : x \in ToSet(bins'[c]) <=> x \in ToSet(bins[c]) /\ x # e
<1> DEFINE t == FreedEntry(e, bins[FreeChain])
<1>1. /\ NBins \in Nat /\ b \in 0 .. NBins /\ FreeChain \in 0 .. NBins /\ b # FreeChain
      /\ \A c \in Bins : c \in 0 .. NBins /\ c # FreeChain
  BY BinsAssumption DEF Bins, FreeChain
<1>2. bins' = [bins EXCEPT ![b] = Tail(bins[b]), ![FreeChain] = t]
  <2>1. bins' = [bins EXCEPT ![b] = Tail(@), ![FreeChain] = FreedEntry(e, @)]
    BY DEF Purge
  <2> QED BY <1>1, <2>1 DEF IInv, OneChain
<1>3. AtEnd(t, e, bins[FreeChain])
  BY DEF AtEnd, FreedEntry
<1> HIDE DEF t
<1>4. /\ OneChain(bins')
      /\ e \in Entries
      /\ e \in ToSet(bins[b])
      /\ \A x : x \in ToSet(bins'[b]) <=> x \in ToSet(bins[b]) /\ x # e
      /\ \A c \in 0 .. NBins : c # b /\ c # FreeChain => bins'[c] = bins[c]
  <2>1. OneChain(bins)
    BY DEF IInv
  <2> DEFINE D == bins'
  <2>2. Moves(bins, b, FreeChain, e, t, D)
    BY <1>2, <1>3, <2>1 DEF Moves
  <2> HIDE DEF D
  <2>0. b \in 0 .. NBins /\ FreeChain \in 0 .. NBins /\ b # FreeChain /\ OneChain(bins)
    BY <1>1, <2>1
  <2>3. OneChain(D) /\ e \in Entries /\ e \in ToSet(bins[b])
    BY ONLY <2>0, <2>2, MovedEntry
  <2>4. \A x : x \in ToSet(D[b]) <=> x \in ToSet(bins[b]) /\ x # e
    BY ONLY <2>0, <2>2, MovedEntry
  <2>5. \A c \in 0 .. NBins : c # b /\ c # FreeChain => D[c] = bins[c]
    BY ONLY <2>0, <2>2, MovedEntry
  <2> QED BY <2>3, <2>4, <2>5 DEF D
<1>5. \A c \in Bins : \A x : x \in ToSet(bins'[c]) <=> x \in ToSet(bins[c]) /\ x # e
  <2> TAKE c \in Bins
  <2>1. CASE c = b
    BY <1>4, <2>1
  <2>2. CASE c # b
    <3>1. bins'[c] = bins[c]
      BY <1>1, <1>4, <2>2
    <3>2. ToSet(bins[c]) \cap ToSet(bins[b]) = {}
      BY <1>1, <2>2 DEF IInv, OneChain
    <3> QED BY <1>4, <3>1, <3>2
  <2> QED BY <2>1, <2>2
<1>6. e \in Linked /\ Linked' = Linked \ {e}
  <2>1. e \in Linked
    BY <1>4, LinkedElements
  <2>2. ASSUME NEW f PROVE f \in Linked' <=> f \in Linked /\ f # e
    BY <1>5, LinkedElements, LinkedElementsNext
  <2> QED BY <2>1, <2>2
<1> QED BY <1>4, <1>5, <1>6

\* purge hands the units of the entry it unlinks to the free list.
LEMMA PurgeInv ==
  ASSUME IInv, NEW b \in Bins, bins[b] # <<>>, Purge(b),
         UNCHANGED <<time, pc, req, out>>,
         stats' \in [hits : 0 .. StatMax, misses : 0 .. StatMax, evictions : 0 .. StatMax]
  PROVE  IInv'
<1>1. PICK e : e = Head(bins[b])
  OBVIOUS
<1> DEFINE block == [at |-> entries[e].data, length |-> entries[e].length]
<1>2. \A c \in Bins : c \in 0 .. NBins
  BY BinsAssumption DEF Bins
<1>3. /\ entries' = [entries EXCEPT ![e] = FreeEntry]
      /\ \E p : Straddled(firstfree, block.at, p) /\ firstfree' = Released(firstfree, block, p)
      /\ store' = [store EXCEPT ![block.at] = Header]
  BY <1>1 DEF Purge
<1>4. /\ OneChain(bins')
      /\ e \in Entries
      /\ e \in Linked
      /\ Linked' = Linked \ {e}
      /\ \A c \in Bins : \A x : x \in ToSet(bins'[c]) <=> x \in ToSet(bins[c]) /\ x # e
  BY <1>1, PurgeUnlinks, LinkedElements
<1>5. \A c \in Bins : \A x : x \in ToSet(bins'[c]) <=> x \in ToSet(bins[c]) /\ x # e
  BY <1>4
<1>6. e \in Linked /\ Linked' = Linked \ {e}
  BY <1>4
<1>7. /\ block \in FreeBlock
      /\ block.at \in Units
      /\ block.at + block.length <= StoreLen + 1
      /\ BlockUnits(block) = EntryUnits(e)
      /\ block.at \in EntryUnits(e)
  <2>1. /\ entries[e].data \in Units
        /\ entries[e].length \in 1 .. StoreLen
        /\ entries[e].data + entries[e].length <= StoreLen + 1
    BY <1>6, LinkedBlocks
  <2>2. entries[e].data \in Extent(entries[e].data, entries[e].length)
    BY <2>1, StoreAssumption DEF Extent, Units
  <2> QED BY <2>1, <2>2 DEF FreeBlock, BlockUnits, EntryUnits
<1> HIDE DEF block
<1>8. entries \in [Entries -> Entry \cup {FreeEntry}] /\ store \in [Units -> Values \cup {Header}]
  BY DEF IInv, TypeOK
<1>9. /\ entries' \in [Entries -> Entry \cup {FreeEntry}]
      /\ \A f \in Entries : f # e => entries'[f] = entries[f]
  BY <1>3, <1>4, <1>8
<1>10. /\ store' \in [Units -> Values \cup {Header}]
       /\ store'[block.at] = Header
       /\ \A u \in Units : u # block.at => store'[u] = store[u]
  BY <1>3, <1>7, <1>8
<1>11. \A f \in Linked' : EntryUnits(f)' = EntryUnits(f) /\ f \in Entries /\ f \in Linked /\ f # e
  <2>1. \A f \in Linked' : f \in Entries /\ f \in Linked /\ f # e
    BY <1>6, LinkedElements
  <2>2. \A f \in Linked' : entries'[f] = entries[f]
    BY <1>9, <2>1
  <2> QED BY <2>1, <2>2 DEF EntryUnits
<1>12. /\ IsFreeList(firstfree')
       /\ \A u : Covers(firstfree', u) <=> Covers(firstfree, u) \/ u \in EntryUnits(e)
       /\ \A i \in DOMAIN firstfree' :
            \/ firstfree'[i].at = block.at
            \/ \E j \in DOMAIN firstfree : firstfree'[i].at = firstfree[j].at
  <2>1. PICK p : Straddled(firstfree, block.at, p) /\ firstfree' = Released(firstfree, block, p)
    BY <1>3
  <2>2. IsFreeList(firstfree)
    BY DEF IInv
  <2>3. \A i \in DOMAIN firstfree : BlockUnits(firstfree[i]) \cap BlockUnits(block) = {}
    <3> SUFFICES ASSUME NEW i \in DOMAIN firstfree, NEW u \in BlockUnits(firstfree[i]),
                        u \in EntryUnits(e)
                 PROVE  FALSE
      BY <1>7
    <3>1. Covers(firstfree, u)
      BY DEF Covers
    <3> QED BY <1>6, <3>1 DEF IInv, UnitsAccounted
  <2>4. LET R == Released(firstfree, block, p)
        IN  /\ IsFreeList(R)
            /\ \A u : Covers(R, u) <=> Covers(firstfree, u) \/ u \in BlockUnits(block)
            /\ \A i \in DOMAIN R :
                 \/ R[i].at = block.at
                 \/ \E j \in DOMAIN firstfree : R[i].at = firstfree[j].at
    BY <1>7, <2>1, <2>2, <2>3, ReleasedIsFreeList
  <2> QED BY <1>7, <2>1, <2>4
<1>13. RequestUnits' = RequestUnits
  BY DEF RequestUnits
<1>14. UnitsAccounted'
  <2>1. \A f, g \in Linked' : \A u : u \in EntryUnits(f)' /\ u \in EntryUnits(g)' => f = g
    BY <1>11 DEF IInv, UnitsAccounted
  <2>2. ASSUME NEW f \in Linked', NEW u \in EntryUnits(f)
        PROVE  u \in Units /\ ~ Covers(firstfree', u) /\ u \notin RequestUnits
    <3>1. f \in Linked /\ f # e
      BY <1>11
    <3>2. u \in Units /\ ~ Covers(firstfree, u) /\ u \notin RequestUnits /\ u \notin EntryUnits(e)
      BY <1>6, <3>1 DEF IInv, UnitsAccounted
    <3> QED BY <1>12, <3>2
  <2>3. ASSUME NEW u \in RequestUnits
        PROVE  u \in Units /\ ~ Covers(firstfree', u)
    <3>1. u \in Units /\ ~ Covers(firstfree, u) /\ u \notin EntryUnits(e)
      BY <1>6 DEF IInv, UnitsAccounted
    <3> QED BY <1>12, <3>1
  <2>4. ASSUME NEW u \in Units
        PROVE  \/ \E f \in Linked' : u \in EntryUnits(f)'
               \/ Covers(firstfree', u)
               \/ u \in RequestUnits
    <3>1. \/ \E f \in Linked : u \in EntryUnits(f)
          \/ Covers(firstfree, u)
          \/ u \in RequestUnits
      BY DEF IInv, UnitsAccounted
    <3>2. ASSUME NEW f \in Linked, f # e, u \in EntryUnits(f)
          PROVE  f \in Linked' /\ u \in EntryUnits(f)'
      BY <1>6, <1>11, <3>2
    <3> QED BY <1>12, <3>1, <3>2
  <2> QED BY <1>11, <1>13, <2>1, <2>2, <2>3, <2>4 DEF UnitsAccounted
<1>15. DataIntact'
  <2>1. ASSUME NEW f \in Linked'
        PROVE  \E v \in Values : \A u \in EntryUnits(f)' : store'[u] = v
    <3>1. f \in Linked /\ f # e /\ EntryUnits(f)' = EntryUnits(f)
      BY <1>11
    <3>2. PICK v \in Values : \A u \in EntryUnits(f) : store[u] = v
      BY <3>1 DEF IInv, DataIntact
    <3>3. \A u \in EntryUnits(f) : u \in Units /\ u # block.at
      BY <1>6, <1>7, <3>1 DEF IInv, UnitsAccounted
    <3> QED BY <1>10, <3>1, <3>2, <3>3
  <2>2. ASSUME NEW i \in DOMAIN firstfree'
        PROVE  store'[firstfree'[i].at] = Header
    <3>1. CASE firstfree'[i].at = block.at
      BY <1>10, <3>1
    <3>2. CASE \E j \in DOMAIN firstfree : firstfree'[i].at = firstfree[j].at
      <4>1. PICK j \in DOMAIN firstfree : firstfree'[i].at = firstfree[j].at
        BY <3>2
      <4>2. store[firstfree[j].at] = Header
        BY DEF IInv, DataIntact
      <4>3. firstfree[j].at \in Units
        <5>1. firstfree[j] \in FreeBlock
          BY LenProperties, ElementOfSeq DEF IInv, IsFreeList
        <5> QED BY <5>1 DEF FreeBlock
      <4> QED BY <1>10, <4>1, <4>2, <4>3
    <3> QED BY <1>12, <3>1, <3>2
  <2> QED BY <2>1, <2>2 DEF DataIntact
<1>16. OnOwnChain'
  <2> SUFFICES ASSUME NEW c \in Bins, NEW f \in ToSet(bins'[c])
               PROVE  entries'[f] \in Entry /\ BinOf[entries'[f].key] = c
    BY DEF OnOwnChain
  <2>1. f \in ToSet(bins[c]) /\ f # e
    BY <1>5
  <2>2. entries[f] \in Entry /\ BinOf[entries[f].key] = c
    BY <2>1 DEF IInv, OnOwnChain
  <2>3. f \in Entries
    <3>1. bins[c] \in Seq(Entries)
      BY <1>2 DEF IInv, OneChain
    <3> QED BY <2>1, <3>1, LenProperties, ElementOfSeq DEF ToSet
  <2> QED BY <1>9, <2>1, <2>2, <2>3
<1>17. RequestWritten'
  <2>1. \A u \in RequestUnits : u \in Units /\ u # block.at
    BY <1>6, <1>7 DEF IInv, UnitsAccounted
  <2> QED BY <1>10, <1>13, <2>1 DEF IInv, RequestWritten
<1>18. TypeOK'
  <2>1. bins' \in [0 .. NBins -> Seq(Entries)] /\ firstfree' \in Seq(FreeBlock)
    BY <1>4, <1>12 DEF OneChain, IsFreeList
  <2> QED BY <1>9, <1>10, <2>1 DEF IInv, TypeOK
<1> QED BY <1>4, <1>12, <1>14, <1>15, <1>16, <1>17, <1>18 DEF IInv

\* evict, in either loop of cache_put.
LEMMA EvictInv == IInv /\ (PutEvict \/ PutEvictEntry) => IInv'
<1> SUFFICES ASSUME IInv, Evict \/ EvictAborts, pc \in {"fit", "link"} PROVE IInv'
  BY DEF PutEvict, PutEvictEntry
<1>1. CASE Evict
  <2>1. PICK b \in Bins : EvicteeBin(b) /\ Purge(b)
    BY <1>1 DEF Evict
  <2>2. bins[b] # <<>>
    BY <2>1 DEF EvicteeBin, Evictable
  <2>3. UNCHANGED <<time, pc, req, out>> /\ Count("evictions")
    BY <1>1 DEF Evict
  <2>4. stats' \in [hits : 0 .. StatMax, misses : 0 .. StatMax, evictions : 0 .. StatMax]
    BY <2>3, CountTypes DEF IInv
  <2> QED BY <2>1, <2>2, <2>3, <2>4, PurgeInv
<1>2. CASE EvictAborts
  <2>1. UNCHANGED <<bins, entries, firstfree, store, time, stats, req, out>> /\ pc' = "abort"
    BY <1>2 DEF EvictAborts
  <2>2. RequestUnits' = RequestUnits /\ RequestWritten'
    BY <2>1 DEF IInv, RequestUnits, RequestWritten
  <2>3. TypeOK'
    BY <2>1 DEF IInv, TypeOK
  <2> QED BY <2>1, <2>2, <2>3, SameStore
<1> QED BY <1>1, <1>2

\* cache_put takes the end of a free block and fills it.
LEMMA PutTakeInv == IInv /\ PutTake => IInv'
<1> SUFFICES ASSUME IInv, PutTake PROVE IInv'
  OBVIOUS
<1>1. PICK i \in DOMAIN firstfree :
        /\ BigEnough(i)
        /\ firstfree' = RemainingFree(i)
        /\ store' = [u \in Units |->
                       IF u \in Extent(TakenAt(i), req.length) THEN req.value ELSE store[u]]
        /\ req' = [req EXCEPT !.at = TakenAt(i)]
  BY DEF PutTake
<1>2. /\ pc = "fit" /\ pc' = "link"
      /\ UNCHANGED <<time, bins, entries, stats, out>>
  BY DEF PutTake
<1> DEFINE n == req.length
           a == firstfree[i].at + firstfree[i].length - n
           Taken == Extent(a, n)
<1>3. /\ req \in Request
      /\ n \in 1 .. StoreLen
      /\ req.value \in Values
      /\ req.at = 0
  BY <1>2 DEF IInv, TypeOK, Request, RequestWritten
<1>4. n <= firstfree[i].length
  <2>1. firstfree[i] \in FreeBlock
    BY LenProperties, ElementOfSeq DEF IInv, IsFreeList
  <2> QED BY <1>1, <1>3, <2>1, BlockFields DEF BigEnough
<1>5. /\ firstfree[i].at \in Nat /\ firstfree[i].at >= 1
      /\ firstfree[i].length \in Nat
      /\ firstfree[i].at + firstfree[i].length <= StoreLen + 1
      /\ StoreLen \in Nat
  <2>1. firstfree[i] \in FreeBlock
    BY LenProperties, ElementOfSeq DEF IInv, IsFreeList
  <2>2. firstfree[i].at + firstfree[i].length <= StoreLen + 1
    BY DEF IInv, IsFreeList
  <2> QED BY <2>1, <2>2, BlockFields, StoreAssumption
<1>6. /\ a \in Units
      /\ Taken \subseteq BlockUnits(firstfree[i])
      /\ \A u \in Taken : u \in Units /\ Covers(firstfree, u)
  <2>1. a \in Nat /\ a >= firstfree[i].at /\ a >= 1 /\ a + n = firstfree[i].at + firstfree[i].length
    BY <1>3, <1>4, <1>5
  <2>2. a <= StoreLen
    BY <1>3, <1>5, <2>1
  <2>3. \A u \in Taken : u \in Units /\ u \in BlockUnits(firstfree[i])
    BY <1>3, <1>5, <2>1 DEF Extent, BlockUnits, Units
  <2> QED BY <1>5, <2>1, <2>2, <2>3 DEF Units, Covers
<1>7. /\ IsFreeList(firstfree')
      /\ \A u : Covers(firstfree', u) <=> Covers(firstfree, u) /\ u \notin Taken
      /\ \A j \in DOMAIN firstfree' : \E h \in DOMAIN firstfree : firstfree'[j].at = firstfree[h].at
  <2>1. firstfree' = TakenFrom(firstfree, i, n)
    BY <1>1 DEF RemainingFree, TakenFrom
  <2>2. IsFreeList(firstfree)
    BY DEF IInv
  <2> DEFINE F == firstfree
             R == firstfree'
  <2>3. F[i].at + F[i].length - n = a
    OBVIOUS
  <2>4. /\ R = TakenFrom(F, i, n) /\ IsFreeList(F) /\ i \in DOMAIN F
        /\ n \in 1 .. StoreLen /\ n <= F[i].length
    BY <1>3, <1>4, <2>1, <2>2
  <2> HIDE DEF F, R, n
  <2>5. /\ IsFreeList(R)
        /\ \A u : Covers(R, u) <=>
                    Covers(F, u) /\ u \notin Extent(F[i].at + F[i].length - n, n)
        /\ \A j \in DOMAIN R : \E h \in DOMAIN F : R[j].at = F[h].at
    BY ONLY <2>4, TakenIsFreeList
  <2> QED BY <2>3, <2>5 DEF F, R
<1>8. /\ req' = [req EXCEPT !.at = a]
      /\ store' = [u \in Units |-> IF u \in Taken THEN req.value ELSE store[u]]
  BY <1>1 DEF TakenAt
<1> HIDE DEF a
<1>9. /\ req' \in Request
      /\ req'.at = a
      /\ req'.length = n
      /\ req'.value = req.value
  BY <1>3, <1>6, <1>8 DEF Request
<1>10. /\ RequestUnits = {}
       /\ RequestUnits' = Taken
  BY <1>3, <1>6, <1>9, StoreAssumption DEF RequestUnits, Units
<1> HIDE DEF n, Taken
<1>11. store \in [Units -> Values \cup {Header}]
  BY DEF IInv, TypeOK
<1>12. /\ store' \in [Units -> Values \cup {Header}]
       /\ \A u \in Units : store'[u] = IF u \in Taken THEN req.value ELSE store[u]
  BY <1>3, <1>8, <1>11
<1>13. Linked' = Linked /\ \A e : EntryUnits(e)' = EntryUnits(e)
  BY <1>2, LinkedElements, LinkedElementsNext DEF EntryUnits
<1>14. \A e \in Linked : \A u \in EntryUnits(e) : u \in Units /\ ~ Covers(firstfree, u) /\ u \notin Taken
  BY <1>6 DEF IInv, UnitsAccounted
<1>15. UnitsAccounted'
  <2>1. \A e, f \in Linked : \A u : u \in EntryUnits(e) /\ u \in EntryUnits(f) => e = f
    BY DEF IInv, UnitsAccounted
  <2>2. \A e \in Linked : \A u \in EntryUnits(e) : u \in Units /\ ~ Covers(firstfree', u) /\ u \notin Taken
    BY <1>7, <1>14
  <2>3. \A u \in Taken : u \in Units /\ ~ Covers(firstfree', u)
    BY <1>6, <1>7
  <2>4. \A u \in Units : \/ \E e \in Linked : u \in EntryUnits(e)
                         \/ Covers(firstfree', u)
                         \/ u \in Taken
    <3>1. \A u \in Units : (\E e \in Linked : u \in EntryUnits(e)) \/ Covers(firstfree, u)
      BY <1>10 DEF IInv, UnitsAccounted
    <3> QED BY <1>7, <3>1
  <2> QED BY <1>10, <1>13, <2>1, <2>2, <2>3, <2>4 DEF UnitsAccounted
<1>16. DataIntact'
  <2>1. ASSUME NEW e \in Linked
        PROVE  \E v \in Values : \A u \in EntryUnits(e) : store'[u] = v
    <3>1. PICK v \in Values : \A u \in EntryUnits(e) : store[u] = v
      BY DEF IInv, DataIntact
    <3> QED BY <1>12, <1>14, <3>1
  \* The header of a free block is its first unit, and that unit stays free.
  <2>2. ASSUME NEW j \in DOMAIN firstfree'
        PROVE  store'[firstfree'[j].at] = Header
    <3>1. PICK h \in DOMAIN firstfree : firstfree'[j].at = firstfree[h].at
      BY <1>7
    <3>2. store[firstfree[h].at] = Header
      BY DEF IInv, DataIntact
    <3>3. firstfree'[j] \in FreeBlock
      BY <1>7, LenProperties, ElementOfSeq DEF IsFreeList
    <3>4. firstfree'[j].at \in BlockUnits(firstfree'[j]) /\ firstfree'[j].at \in Units
      BY <3>3, BlockFields DEF BlockUnits, Extent, FreeBlock
    <3>5. firstfree'[j].at \notin Taken
      BY <1>7, <3>4 DEF Covers
    <3> QED BY <1>12, <3>1, <3>2, <3>4, <3>5
  <2> QED BY <1>13, <2>1, <2>2 DEF DataIntact
<1>17. RequestWritten'
  BY <1>2, <1>6, <1>9, <1>10, <1>12 DEF RequestWritten
<1>18. OneChain(bins') /\ OnOwnChain'
  BY <1>2 DEF IInv, OnOwnChain
<1>19. TypeOK'
  BY <1>2, <1>7, <1>9, <1>12 DEF IInv, TypeOK, IsFreeList
<1> QED BY <1>7, <1>15, <1>16, <1>17, <1>18, <1>19 DEF IInv

\* cache_put takes its entry from the chain of free entries.
LEMMA PutLinks ==
  ASSUME IInv, PutLink, NEW e, e = Head(bins[FreeChain])
  PROVE  /\ OneChain(bins')
         /\ e \in Entries
         /\ e \notin Linked
         /\ Linked' = Linked \cup {e}
         /\ \A c \in Bins : \A x :
              x \in ToSet(bins'[c]) <=> x \in ToSet(bins[c]) \/ (x = e /\ c = BinOf[req.key])
<1> DEFINE b == BinOf[req.key]
           t == Chained(bins[b], e)
<1>1. /\ bins[FreeChain] # <<>>
      /\ bins' = [bins EXCEPT ![FreeChain] = Tail(@), ![b] = Chained(@, e)]
  BY DEF PutLink
<1>2. req.key \in Keys
  BY DEF PutLink, IInv, TypeOK, Request
<1>3. /\ b \in Bins
      /\ NBins \in Nat /\ b \in 0 .. NBins /\ FreeChain \in 0 .. NBins /\ FreeChain # b
      /\ \A c \in Bins : c \in 0 .. NBins /\ c # FreeChain
  BY <1>2, BinsAssumption DEF Bins, FreeChain
<1>4. bins' = [bins EXCEPT ![FreeChain] = Tail(bins[FreeChain]), ![b] = t]
  BY <1>1, <1>3 DEF IInv, OneChain
<1> DEFINE D == bins'
<1>5. OneChain(bins) /\ Moves(bins, FreeChain, b, e, t, D)
  BY <1>1, <1>4 DEF IInv, Moves, AtEnd, Chained
<1> HIDE DEF b, t, D
<1>6. /\ OneChain(D)
      /\ e \in Entries
      /\ e \in ToSet(bins[FreeChain])
      /\ \A x : x \in ToSet(D[b]) <=> x \in ToSet(bins[b]) \/ x = e
      /\ \A c \in 0 .. NBins : c # FreeChain /\ c # b => D[c] = bins[c]
  <2>1. b \in 0 .. NBins /\ FreeChain \in 0 .. NBins /\ FreeChain # b
    BY <1>3
  <2> QED BY ONLY <1>5, <2>1, MovedEntry
<1>7. ASSUME NEW c \in Bins, NEW x
      PROVE  x \in ToSet(D[c]) <=> x \in ToSet(bins[c]) \/ (x = e /\ c = b)
  BY <1>3, <1>6
<1>8. \A c \in Bins : e \notin ToSet(bins[c])
  BY <1>3, <1>6 DEF IInv, OneChain
<1>9. e \notin Linked /\ Linked' = Linked \cup {e}
  <2>1. e \notin Linked
    BY <1>8, LinkedElements
  <2>2. ASSUME NEW f PROVE f \in Linked' <=> f \in Linked \/ f = e
    <3>1. f \in Linked' <=> f \in Entries /\ \E c \in Bins : f \in ToSet(D[c])
      BY LinkedElementsNext DEF D
    <3>2. f \in Linked <=> f \in Entries /\ \E c \in Bins : f \in ToSet(bins[c])
      BY LinkedElements
    <3> QED BY <1>3, <1>6, <1>7, <3>1, <3>2
  <2> QED BY <2>1, <2>2
<1> QED BY <1>6, <1>7, <1>9 DEF b, D

\* cache_put links a free entry to the block it filled.
LEMMA PutLinkInv == IInv /\ PutLink => IInv'
<1> SUFFICES ASSUME IInv, PutLink PROVE IInv'
  OBVIOUS
<1>1. PICK e : e = Head(bins[FreeChain])
  OBVIOUS
<1> DEFINE b == BinOf[req.key]
           new == [key |-> req.key, data |-> req.at, length |-> req.length, time |-> time]
<1>2. /\ pc = "link" /\ pc' = "idle"
      /\ entries' = [entries EXCEPT ![e] = new]
      /\ time' = NextTime
      /\ out' = Answer("ok", [i \in 1 .. req.length |-> store[req.at + i - 1]])
      /\ req' = NoRequest
      /\ UNCHANGED <<firstfree, store, stats>>
  BY <1>1 DEF PutLink
<1>3. /\ req \in Request
      /\ req.key \in Keys
      /\ req.length \in 1 .. StoreLen
      /\ req.value \in Values
      /\ req.at \in Units
      /\ time \in Times
  BY <1>2 DEF IInv, TypeOK, Request, RequestWritten
<1>4. b \in Bins /\ \A c \in Bins : c \in 0 .. NBins
  BY <1>3, BinsAssumption DEF Bins
<1>5. OneChain(bins') /\ e \in Entries
  BY <1>1, PutLinks
<1>6. ASSUME NEW c \in Bins, NEW x
      PROVE  x \in ToSet(bins'[c]) <=> x \in ToSet(bins[c]) \/ (x = e /\ c = b)
  BY <1>1, PutLinks
<1>7. e \notin Linked /\ Linked' = Linked \cup {e}
  BY <1>1, PutLinks
<1>8. \A c \in Bins : e \notin ToSet(bins[c])
  BY <1>5, <1>7, LinkedElements
<1> HIDE DEF b
<1>9. new \in Entry /\ new.key = req.key /\ new.data = req.at /\ new.length = req.length
  BY <1>3 DEF Entry
<1> HIDE DEF new
<1>10. entries \in [Entries -> Entry \cup {FreeEntry}]
  BY DEF IInv, TypeOK
<1>11. /\ entries' \in [Entries -> Entry \cup {FreeEntry}]
       /\ entries'[e] = new
       /\ \A f \in Entries : f # e => entries'[f] = entries[f]
  BY <1>2, <1>5, <1>9, <1>10
<1>12. \A f \in Linked : EntryUnits(f)' = EntryUnits(f)
  <2>1. \A f \in Linked : f \in Entries /\ f # e
    BY <1>7, LinkedElements
  <2> QED BY <1>11, <2>1 DEF EntryUnits
<1>13. EntryUnits(e)' = RequestUnits /\ RequestUnits' = {}
  <2>1. req.at # 0
    BY <1>3, StoreAssumption DEF Units
  <2>2. RequestUnits = Extent(req.at, req.length)
    BY <2>1 DEF RequestUnits
  <2>3. EntryUnits(e)' = Extent(req.at, req.length)
    BY <1>9, <1>11 DEF EntryUnits
  <2>4. RequestUnits' = {}
    BY <1>2 DEF RequestUnits, NoRequest
  <2> QED BY <2>2, <2>3, <2>4
<1>14. UnitsAccounted'
  <2>1. \A f \in Linked' : f = e \/ (f \in Linked /\ EntryUnits(f)' = EntryUnits(f))
    BY <1>7, <1>12
  <2>2. \A f \in Linked : \A u \in EntryUnits(f) : u \in Units /\ ~ Covers(firstfree, u) /\ u \notin RequestUnits
    BY DEF IInv, UnitsAccounted
  <2>3. \A f, g \in Linked' : \A u : u \in EntryUnits(f)' /\ u \in EntryUnits(g)' => f = g
    <3> SUFFICES ASSUME NEW f \in Linked', NEW g \in Linked', NEW u,
                        u \in EntryUnits(f)', u \in EntryUnits(g)'
                 PROVE  f = g
      OBVIOUS
    <3>1. CASE f = e /\ g # e
      BY <1>13, <2>1, <2>2, <3>1
    <3>2. CASE f # e /\ g = e
      BY <1>13, <2>1, <2>2, <3>2
    <3>3. CASE f # e /\ g # e
      BY <2>1, <3>3 DEF IInv, UnitsAccounted
    <3> QED BY <3>1, <3>2, <3>3
  <2>4. ASSUME NEW f \in Linked', NEW u \in EntryUnits(f)'
        PROVE  u \in Units /\ ~ Covers(firstfree, u)
    <3>1. CASE f = e
      BY <1>13, <3>1 DEF IInv, UnitsAccounted
    <3>2. CASE f # e
      BY <2>1, <2>2, <3>2
    <3> QED BY <3>1, <3>2
  <2>5. ASSUME NEW u \in Units
        PROVE  (\E f \in Linked' : u \in EntryUnits(f)') \/ Covers(firstfree, u)
    <3>1. \/ \E f \in Linked : u \in EntryUnits(f)
          \/ Covers(firstfree, u)
          \/ u \in RequestUnits
      BY DEF IInv, UnitsAccounted
    <3> QED BY <1>7, <1>12, <1>13, <3>1
  <2> QED BY <1>2, <1>13, <2>3, <2>4, <2>5 DEF UnitsAccounted
<1>15. DataIntact'
  <2>1. ASSUME NEW f \in Linked'
        PROVE  \E v \in Values : \A u \in EntryUnits(f)' : store[u] = v
    <3>1. CASE f = e
      <4>1. \A u \in RequestUnits : store[u] = req.value
        BY DEF IInv, RequestWritten
      <4> QED BY <1>3, <1>13, <3>1, <4>1
    <3>2. CASE f # e
      <4>1. f \in Linked /\ EntryUnits(f)' = EntryUnits(f)
        BY <1>7, <1>12, <3>2
      <4> QED BY <4>1 DEF IInv, DataIntact
    <3> QED BY <3>1, <3>2
  <2> QED BY <1>2, <2>1 DEF IInv, DataIntact
<1>16. OnOwnChain'
  <2> SUFFICES ASSUME NEW c \in Bins, NEW f \in ToSet(bins'[c])
               PROVE  entries'[f] \in Entry /\ BinOf[entries'[f].key] = c
    BY DEF OnOwnChain
  <2>1. CASE f = e
    <3>1. c = b
      BY <1>6, <1>8, <2>1
    <3> QED BY <1>9, <1>11, <2>1, <3>1 DEF b
  <2>2. CASE f # e
    <3>1. f \in ToSet(bins[c])
      BY <1>6, <2>2
    <3>2. entries[f] \in Entry /\ BinOf[entries[f].key] = c
      BY <3>1 DEF IInv, OnOwnChain
    <3>3. f \in Entries
      <4>1. bins[c] \in Seq(Entries)
        BY <1>4 DEF IInv, OneChain
      <4> QED BY <3>1, <4>1, LenProperties, ElementOfSeq DEF ToSet
    <3> QED BY <1>11, <2>2, <3>2, <3>3
  <2> QED BY <2>1, <2>2
<1>17. RequestWritten'
  BY <1>2, <1>13 DEF RequestWritten, NoRequest
<1>18. TypeOK'
  <2>1. time' \in Times
    BY <1>2, NextTimeType DEF IInv
  <2>2. bins' \in [0 .. NBins -> Seq(Entries)]
    BY <1>5 DEF OneChain
  <2>3. [i \in 1 .. req.length |-> store[req.at + i - 1]] \in Seq(Values \cup {Header})
    <3> DEFINE n == req.length
               a == req.at
    <3>1. n \in Nat /\ \A i \in 1 .. n : a + i - 1 \in Units
      <4>1. Extent(a, n) \subseteq Units
        <5>1. RequestUnits \subseteq Units
          BY DEF IInv, UnitsAccounted
        <5>2. a # 0
          BY <1>3, StoreAssumption DEF Units
        <5> QED BY <5>1, <5>2 DEF RequestUnits
      <4>2. a \in Nat /\ n \in Nat
        BY <1>3, StoreAssumption DEF Units
      <4>3. \A i \in 1 .. n : a + i - 1 \in Extent(a, n)
        BY <4>2 DEF Extent
      <4> QED BY <4>1, <4>2, <4>3
    <3>2. \A u \in Units : store[u] \in Values \cup {Header}
      BY DEF IInv, TypeOK
    <3> HIDE DEF n, a
    <3>3. [i \in 1 .. n |-> store[a + i - 1]] \in [1 .. n -> Values \cup {Header}]
      BY <3>1, <3>2
    <3>4. [i \in 1 .. n |-> store[a + i - 1]] \in Seq(Values \cup {Header})
      BY <3>1, <3>3, SeqDef
    <3> QED BY <3>4 DEF n, a
  <2>4. out' \in [result : {"none", "hit", "miss", "ok", "too_big"}, block : Seq(Values \cup {Header})]
    BY <1>2, <2>3 DEF Answer
  <2> QED BY <1>2, <1>11, <2>1, <2>2, <2>4 DEF IInv, TypeOK
<1>19. IsFreeList(firstfree')
  BY <1>2 DEF IInv
<1> QED BY <1>5, <1>14, <1>15, <1>16, <1>17, <1>18, <1>19 DEF IInv

\* So does a step of something else.
LEMMA StutterInv == IInv /\ UNCHANGED vars => IInv'
<1> SUFFICES ASSUME IInv, UNCHANGED vars PROVE IInv'
  OBVIOUS
<1>1. UNCHANGED <<time, bins, entries, firstfree, store, stats, pc, req, out>>
  BY DEF vars
<1>2. RequestUnits' = RequestUnits /\ RequestWritten'
  BY <1>1 DEF IInv, RequestUnits, RequestWritten
<1>3. TypeOK'
  BY <1>1 DEF IInv, TypeOK
<1> QED BY <1>1, <1>2, <1>3, SameStore

\* Every call, and every step of cache_put, keeps the invariant.
LEMMA StepInv == IInv /\ [Next]_vars => IInv'
<1> SUFFICES ASSUME IInv, [Next]_vars PROVE IInv'
  OBVIOUS
<1>1. CASE \E key \in Keys : GetHit(key)
  BY <1>1, GetHitInv
<1>2. CASE \/ \E key \in Keys : GetMiss(key)
           \/ \E length \in Lengths : PutTooBig(length)
           \/ \E key \in Keys, value \in Values, length \in Lengths : PutBegin(key, value, length)
           \/ ResetStats
  BY <1>2, QuietInv
<1>3. CASE PutEvict \/ PutEvictEntry
  BY <1>3, EvictInv
<1>4. CASE PutTake
  BY <1>4, PutTakeInv
<1>5. CASE PutLink
  BY <1>5, PutLinkInv
<1>6. CASE Empty
  BY <1>6, EmptyInv
<1>7. CASE UNCHANGED vars
  BY <1>7, StutterInv
<1> QED BY <1>1, <1>2, <1>3, <1>4, <1>5, <1>6, <1>7 DEF Next

\* The inductive invariant holds in every state of every behaviour.
THEOREM Inductive == Spec => []IInv
BY InitInv, StepInv, PTL DEF Spec

-----------------------------------------------------------------------------
(* What it implies. *)

\* Type correctness of the whole cache: in particular cache_get never
\* returns a unit from outside the store.
THEOREM TypeCorrect == Spec => []TypeOK
<1>1. IInv => TypeOK
  BY DEF IInv
<1> QED BY <1>1, Inductive, PTL

\* The two checks cache.c makes of its free list in debug builds, for any
\* order of calls: address order, and no two blocks left unmerged by purge.
THEOREM Coalesced == Spec => []FreeListCoalesced
<1>1. IInv => FreeListCoalesced
  BY DEF IInv, IsFreeList, FreeListCoalesced
<1> QED BY <1>1, Inductive, PTL

\* cache_check's walk of the chains meets every entry once, on the chain of
\* its key.
THEOREM OneChainEach == Spec => []EntriesOnOneChain
<1>1. IInv => EntriesOnOneChain
  <2> SUFFICES ASSUME IInv PROVE EntriesOnOneChain
    OBVIOUS
  <2>1. OneChain(bins)
    BY DEF IInv
  <2>2. \A e \in Entries : \E b \in 0 .. NBins : \E i \in DOMAIN bins[b] : bins[b][i] = e
    BY <2>1 DEF OneChain, ToSet
  <2>3. ASSUME NEW b \in 0 .. NBins, NEW c \in 0 .. NBins,
               NEW i \in DOMAIN bins[b], NEW j \in DOMAIN bins[c], bins[b][i] = bins[c][j]
        PROVE  b = c /\ i = j
    <3>1. bins[b][i] \in ToSet(bins[b]) /\ bins[c][j] \in ToSet(bins[c])
      BY DEF ToSet
    <3>2. b = c
      BY <2>1, <2>3, <3>1 DEF OneChain
    <3>3. IsInjective(bins[b])
      BY <2>1 DEF OneChain
    <3> QED BY <2>3, <3>2, <3>3 DEF IsInjective
  <2>4. ASSUME NEW b \in Bins, NEW i \in DOMAIN bins[b]
        PROVE  entries[bins[b][i]] \in Entry /\ BinOf[entries[bins[b][i]].key] = b
    <3>1. bins[b][i] \in ToSet(bins[b])
      BY DEF ToSet
    <3> QED BY <3>1 DEF IInv, OnOwnChain
  <2> QED BY <2>2, <2>3, <2>4 DEF EntriesOnOneChain
<1> QED BY <1>1, Inductive, PTL

\* The free units of block i, as a block's.
LEMMA FreeUnitsAre ==
  ASSUME NEW i \in DOMAIN firstfree, NEW u
  PROVE  u \in FreeUnits(i) => Covers(firstfree, u)
BY DEF FreeUnits, Covers, BlockUnits

\* No byte of the store is in two blocks, whatever the calls.
THEOREM Apart == Spec => []BlocksApart
<1>1. IInv => BlocksApart
  <2> SUFFICES ASSUME IInv PROVE BlocksApart
    OBVIOUS
  <2>1. \A e \in Linked : EntryUnits(e) \subseteq Units \ RequestUnits
    BY DEF IInv, UnitsAccounted
  <2>2. \A e, f \in Linked : e # f => EntryUnits(e) \cap EntryUnits(f) = {}
    BY DEF IInv, UnitsAccounted
  <2>3. ASSUME NEW i \in DOMAIN firstfree, NEW u \in FreeUnits(i)
        PROVE  u \in Units \ RequestUnits /\ \A e \in Linked : u \notin EntryUnits(e)
    <3>1. Covers(firstfree, u)
      BY FreeUnitsAre
    <3>2. u \in Units
      <4>1. firstfree[i] \in FreeBlock /\ firstfree[i].at + firstfree[i].length <= StoreLen + 1
        BY LenProperties, ElementOfSeq DEF IInv, IsFreeList
      <4> QED BY <4>1, BlockFields, StoreAssumption DEF FreeUnits, Extent, Units
    <3> QED BY <3>1, <3>2 DEF IInv, UnitsAccounted
  <2>4. RequestUnits \subseteq Units
    BY DEF IInv, UnitsAccounted
  <2> QED BY <2>1, <2>2, <2>3, <2>4 DEF BlocksApart
<1> QED BY <1>1, Inductive, PTL

\* No byte of the store is lost, whatever the calls.
THEOREM NoLeak == Spec => []NothingLeaks
<1>1. IInv => NothingLeaks
  BY DEF IInv, UnitsAccounted, NothingLeaks, Covers, BlockUnits, FreeUnits
<1> QED BY <1>1, Inductive, PTL

\* What a client stored is what it reads while the entry is linked, however
\* many entries were evicted, split off and merged around it.
THEOREM Intact == Spec => []DataIntact
<1>1. IInv => DataIntact
  BY DEF IInv
<1> QED BY <1>1, Inductive, PTL

-----------------------------------------------------------------------------
(* assert(evictee != NULL). *)

\* No entry is stamped with the time the search for the oldest starts from,
\* and none will be.
StampedBefore ==
  /\ \A e \in Linked : entries[e].time < TimeMax
  /\ pc \in {"fit", "link"} => time < TimeMax

\* With nothing linked, and no block taken, the store is one free block.
LEMMA AllFree ==
  ASSUME IInv, Linked = {}, pc = "fit"
  PROVE  \E i \in DOMAIN firstfree : BigEnough(i)
<1>1. RequestUnits = {}
  BY DEF IInv, RequestWritten, RequestUnits
<1>2. \A u \in Units : Covers(firstfree, u)
  BY <1>1 DEF IInv, UnitsAccounted
<1>3. 1 \in Units /\ StoreLen \in Nat
  BY StoreAssumption DEF Units
<1>4. PICK i \in DOMAIN firstfree : 1 \in BlockUnits(firstfree[i])
  BY <1>2, <1>3 DEF Covers
<1>5. \A j \in DOMAIN firstfree :
        /\ firstfree[j].at \in Nat /\ firstfree[j].at >= 1
        /\ firstfree[j].length \in Nat /\ firstfree[j].length >= 1
  BY LenProperties, ElementOfSeq, BlockFields DEF IInv, IsFreeList
<1>6. firstfree[i].at = 1
  BY <1>4, <1>5 DEF BlockUnits, Extent
\* Were it shorter, the unit after it would be in a block that touches it.
<1>7. firstfree[i].length >= StoreLen
  <2> SUFFICES ASSUME firstfree[i].length < StoreLen PROVE FALSE
    BY <1>3, <1>5
  <2> DEFINE next == 1 + firstfree[i].length
  <2>1. next \in Units
    BY <1>3, <1>5 DEF Units
  <2>2. PICK j \in DOMAIN firstfree : next \in BlockUnits(firstfree[j])
    BY <1>2, <2>1 DEF Covers
  <2>3. firstfree[j].at <= next /\ next < firstfree[j].at + firstfree[j].length
    BY <1>5, <2>1, <2>2 DEF BlockUnits, Extent
  <2>4. i \in Nat /\ j \in Nat
    BY LenProperties DEF IInv, IsFreeList
  <2>5. i < j => firstfree[i].at + firstfree[i].length < firstfree[j].at
    BY DEF IInv, IsFreeList
  <2>6. j < i => firstfree[j].at + firstfree[j].length < firstfree[i].at
    BY DEF IInv, IsFreeList
  <2>7. /\ firstfree[i].length \in Nat
        /\ firstfree[j].at \in Nat /\ firstfree[j].length \in Nat
    BY <1>5
  <2>8. CASE i = j
    BY <1>6, <2>3, <2>7, <2>8
  <2>9. CASE i < j
    BY <1>6, <2>3, <2>5, <2>7, <2>9
  <2>10. CASE j < i
    BY <1>5, <1>6, <2>3, <2>6, <2>7, <2>10
  <2> QED BY <2>4, <2>8, <2>9, <2>10
<1>8. req.length \in Nat /\ req.length <= StoreLen
  BY <1>3 DEF IInv, TypeOK, Request
<1> QED BY <1>3, <1>5, <1>7, <1>8 DEF BigEnough

\* When evict finds nothing to evict there is nothing linked.
LEMMA NothingEvictable ==
  ASSUME IInv, StampedBefore, ~ \E b \in Bins : Evictable(b)
  PROVE  Linked = {}
<1>1. ASSUME NEW b \in Bins, bins[b] # <<>>
      PROVE  FALSE
  <2>1. b \in 0 .. NBins
    BY BinsAssumption DEF Bins
  <2>2. bins[b] \in Seq(Entries) /\ IsInjective(bins[b])
    BY <2>1 DEF IInv, OneChain
  <2>3. Head(bins[b]) \in Entries /\ Head(bins[b]) \in ToSet(bins[b])
    BY <1>1, <2>2, Unlinked
  <2>4. Head(bins[b]) \in Linked
    BY <2>3, LinkedElements
  <2> QED BY <1>1, <2>4 DEF Evictable, HeadTime, StampedBefore
<1>2. \A b \in Bins : ToSet(bins[b]) = {}
  BY <1>1 DEF ToSet
<1> QED BY <1>2, LinkedElements

\* evict never fails its assertion: while the clock has not wrapped there is
\* always an entry to evict when cache_put needs one.
THEOREM EvictFinds ==
  ASSUME ClockBound <= TimeMax
  PROVE  Spec => []NeverAborts
<1> DEFINE Safe == IInv /\ StampedBefore /\ NeverAborts
<1>1. Init => Safe
  <2> SUFFICES ASSUME Init PROVE StampedBefore /\ NeverAborts
    BY InitInv
  <2>1. \A c \in Bins : ToSet(bins[c]) = {}
    BY EveryEntryFree DEF Init
  <2>2. Linked = {}
    BY <2>1, LinkedElements
  <2> QED BY <2>2 DEF Init, StampedBefore, NeverAborts
<1>2. Safe /\ [Next]_vars => Safe'
  <2> SUFFICES ASSUME Safe, [Next]_vars PROVE StampedBefore' /\ NeverAborts'
    BY StepInv
  <2>0. time \in Nat /\ TimeMax \in Nat /\ ClockBound \in Int
    BY ClockAssumption DEF IInv, TypeOK, Times
  <2>1. CASE \E key \in Keys : GetHit(key)
    <3>1. PICK key \in Keys : GetHit(key)
      BY <2>1
    <3>2. PICK e \in Entries : entries' = [entries EXCEPT ![e].time = time]
      <4>1. PICK i \in DOMAIN bins[BinOf[key]] :
              entries' = [entries EXCEPT ![bins[BinOf[key]][i]].time = time]
        BY <3>1 DEF GetHit
      <4>2. bins[BinOf[key]] \in Seq(Entries)
        BY BinsAssumption DEF Bins, IInv, OneChain
      <4> QED BY <4>1, <4>2, LenProperties, ElementOfSeq
    <3>3. UNCHANGED <<bins, pc>> /\ pc = "idle" /\ time < TimeMax
      BY <2>0, <3>1 DEF GetHit
    <3>4. Linked' = Linked /\ \A f \in Linked : f \in Entries /\ entries[f] \in Entry
      BY <3>3, LinkedElements, LinkedElementsNext, LinkedBlocks
    <3>5. \A f \in Linked : entries'[f].time = IF f = e THEN time ELSE entries[f].time
      BY <3>2, <3>4 DEF Entry, IInv, TypeOK
    <3> QED BY <3>3, <3>4, <3>5 DEF StampedBefore, NeverAborts
  <2>2. CASE \/ \E key \in Keys : GetMiss(key)
             \/ \E length \in Lengths : PutTooBig(length)
             \/ ResetStats
             \/ UNCHANGED vars
    <3>1. UNCHANGED <<bins, entries, pc, time>>
      BY <2>2 DEF GetMiss, PutTooBig, ResetStats, vars
    <3>2. Linked' = Linked
      BY <3>1, LinkedElements, LinkedElementsNext
    <3> QED BY <3>1, <3>2 DEF StampedBefore, NeverAborts
  <2>3. CASE \E key \in Keys, value \in Values, length \in Lengths : PutBegin(key, value, length)
    <3>1. UNCHANGED <<bins, entries, time>> /\ pc' = "fit" /\ time < TimeMax
      BY <2>0, <2>3 DEF PutBegin
    <3>2. Linked' = Linked
      BY <3>1, LinkedElements, LinkedElementsNext
    <3> QED BY <3>1, <3>2 DEF StampedBefore, NeverAborts
  <2>4. CASE PutEvict \/ PutEvictEntry
    <3>1. ~ EvictAborts
      <4> SUFFICES ASSUME EvictAborts PROVE FALSE
        OBVIOUS
      <4>1. Linked = {}
        BY NothingEvictable DEF EvictAborts
      <4>2. CASE PutEvict
        BY <4>1, <4>2, AllFree DEF PutEvict
      <4>3. CASE PutEvictEntry
        <5>1. ToSet(bins[FreeChain]) = {}
          BY <4>3 DEF PutEvictEntry, ToSet
        <5>2. 1 \in Entries
          BY StoreAssumption DEF Entries
        <5>3. PICK c \in 0 .. NBins : 1 \in ToSet(bins[c])
          BY <5>2 DEF IInv, OneChain
        <5>4. c \in Bins \/ c = FreeChain
          BY BinsAssumption DEF Bins, FreeChain
        <5> QED BY <4>1, <5>1, <5>2, <5>3, <5>4, LinkedElements
      <4> QED BY <2>4, <4>2, <4>3
    <3>2. PICK b \in Bins : EvicteeBin(b) /\ Purge(b)
      BY <2>4, <3>1 DEF PutEvict, PutEvictEntry, Evict
    <3>3. UNCHANGED <<time, pc>>
      BY <2>4, <3>1 DEF PutEvict, PutEvictEntry, Evict
    <3>4. PICK e : e = Head(bins[b])
      OBVIOUS
    <3>5. Linked' \subseteq Linked /\ e \in Linked /\ e \notin Linked'
      BY <3>2, <3>4, PurgeUnlinks DEF EvicteeBin, Evictable
    <3>6. entries' = [entries EXCEPT ![e] = FreeEntry]
      BY <3>2, <3>4 DEF Purge
    <3>7. \A f \in Linked' : entries'[f] = entries[f]
      BY <3>5, <3>6, LinkedElements DEF IInv, TypeOK
    <3> QED BY <3>3, <3>5, <3>7 DEF StampedBefore, NeverAborts
  <2>5. CASE PutTake
    <3>1. UNCHANGED <<bins, entries, time>> /\ pc = "fit" /\ pc' = "link"
      BY <2>5 DEF PutTake
    <3>2. Linked' = Linked
      BY <3>1, LinkedElements, LinkedElementsNext
    <3> QED BY <3>1, <3>2 DEF StampedBefore, NeverAborts
  <2>6. CASE PutLink
    <3>1. PICK e : e = Head(bins[FreeChain])
      OBVIOUS
    <3>2. /\ entries' = [entries EXCEPT ![e] =
               [key |-> req.key, data |-> req.at, length |-> req.length, time |-> time]]
          /\ pc = "link" /\ pc' = "idle"
      BY <2>6, <3>1 DEF PutLink
    <3>3. e \in Entries /\ Linked' = Linked \cup {e}
      BY <2>6, <3>1, PutLinks
    <3>4. \A f \in Linked' : f \in Entries /\ entries'[f].time = IF f = e THEN time ELSE entries[f].time
      BY <3>2, <3>3, LinkedElements DEF IInv, TypeOK
    <3> QED BY <3>2, <3>3, <3>4 DEF StampedBefore, NeverAborts
  <2>7. CASE Empty
    <3>1. \A c \in Bins : ToSet(bins'[c]) = {}
      BY <2>7, EveryEntryFree DEF Empty
    <3>2. Linked' = {}
      BY <3>1, LinkedElementsNext
    <3> QED BY <2>7, <3>2 DEF Empty, StampedBefore, NeverAborts
  <2> QED BY <2>1, <2>2, <2>3, <2>4, <2>5, <2>6, <2>7 DEF Next
<1>3. Safe => NeverAborts
  OBVIOUS
<1> QED BY <1>1, <1>2, <1>3, PTL DEF Spec

-----------------------------------------------------------------------------
(* The cache implements LossyStore. *)

\* What the entries E and the store M hold for the entry e.
StoredIn(E, M, e) == [j \in 1 .. E[e].length |-> M[E[e].data + j - 1]]

TableOf(E, M) == [e \in Entries |-> StoredIn(E, M, e)]

\* What they hold for the key k along the chain s.
HeldOn(s, E, M, k) ==
  Through(TableOf(E, M), Among(s, {e \in ToSet(s) : E[e].key = k}))

LEMMA OwnElements ==
  ASSUME NEW T, NEW s \in Seq(T)
  PROVE  s \in Seq(ToSet(s)) /\ ToSet(s) \subseteq T
<1>1. Len(s) \in Nat /\ DOMAIN s = 1 .. Len(s) /\ \A i \in 1 .. Len(s) : s[i] \in T
  BY LenProperties, ElementOfSeq
<1>2. s \in [1 .. Len(s) -> T]
  BY LenProperties
<1>3. s \in [1 .. Len(s) -> ToSet(s)]
  BY <1>1, <1>2 DEF ToSet
<1>4. s \in Seq(ToSet(s))
  BY <1>1, <1>3, SeqDef
<1> QED BY <1>1, <1>4 DEF ToSet

LEMMA AmongElements ==
  ASSUME NEW T, NEW s \in Seq(T), NEW S
  PROVE  Among(s, S) \in Seq(T) /\ Among(s, S) \in Seq(ToSet(s))
<1>1. s \in Seq(ToSet(s)) /\ ToSet(s) \subseteq T
  BY OwnElements
<1>2. Among(s, S) \in Seq(ToSet(s) \cap S)
  BY <1>1, AmongType
<1>3. PICK a : a = Among(s, S)
  OBVIOUS
<1>4. a \in Seq(ToSet(s))
  BY <1>2, <1>3, SeqDef
<1>5. a \in Seq(T)
  BY <1>1, <1>4, SeqDef
<1> QED BY <1>3, <1>4, <1>5

\* Only the chain's own entries count.
LEMMA HeldOnSame ==
  ASSUME NEW s \in Seq(Entries), NEW E, NEW M, NEW F, NEW N, NEW k,
         \A e \in ToSet(s) : F[e].key = E[e].key /\ StoredIn(F, N, e) = StoredIn(E, M, e)
  PROVE  HeldOn(s, F, N, k) = HeldOn(s, E, M, k)
<1> DEFINE S == {e \in ToSet(s) : E[e].key = k}
           U == {e \in ToSet(s) : F[e].key = k}
<1>1. S = U
  OBVIOUS
<1> HIDE DEF S, U
<1>2. PICK c : c = Among(s, S)
  OBVIOUS
<1>3. c \in Seq(ToSet(s)) /\ ToSet(s) \subseteq Entries
  BY <1>2, AmongElements, OwnElements
<1>4. \A e \in ToSet(s) : TableOf(F, N)[e] = TableOf(E, M)[e]
  BY <1>3 DEF TableOf
<1>5. Through(TableOf(F, N), c) = Through(TableOf(E, M), c)
  BY <1>3, <1>4, ThroughSame
<1> QED BY <1>1, <1>2, <1>5 DEF HeldOn, S, U

\* Unlinking the head of the chain loses the oldest block of its key.
LEMMA HeldOnTail ==
  ASSUME NEW s \in Seq(Entries), s # <<>>, IsInjective(s), NEW E, NEW M, NEW k
  PROVE  IF E[Head(s)].key = k
         THEN HeldOn(s, E, M, k) # <<>> /\ Tail(HeldOn(s, E, M, k)) = HeldOn(Tail(s), E, M, k)
         ELSE HeldOn(s, E, M, k) = HeldOn(Tail(s), E, M, k)
<1> DEFINE S == {e \in ToSet(s) : E[e].key = k}
           U == {e \in ToSet(Tail(s)) : E[e].key = k}
<1>1. PICK h : h = Head(s)
  OBVIOUS
<1>2. PICK t : t = Tail(s)
  OBVIOUS
<1>3. h \in Entries /\ h \in ToSet(s) /\ t \in Seq(Entries) /\ ToSet(t) = ToSet(s) \ {h}
  BY <1>1, <1>2, Unlinked
<1>4. \A x \in ToSet(t) : x \in S <=> x \in U
  BY <1>2, <1>3
<1>5. h \in S <=> E[h].key = k
  BY <1>3
<1> HIDE DEF S, U
<1>6. PICK c : c = Among(t, S)
  OBVIOUS
<1>7. c = Among(t, U) /\ c \in Seq(Entries)
  BY <1>3, <1>4, <1>6, AmongAgree, AmongElements
<1>8. Among(s, S) = IF h \in S THEN <<h>> \o c ELSE c
  BY <1>1, <1>2, <1>6, AmongTail
<1>9. PICK D : D = TableOf(E, M)
  OBVIOUS
<1>10. HeldOn(s, E, M, k) = Through(D, Among(s, S)) /\ HeldOn(t, E, M, k) = Through(D, c)
  BY <1>2, <1>7, <1>9 DEF HeldOn, S, U
<1>11. Through(D, <<h>> \o c) # <<>> /\ Tail(Through(D, <<h>> \o c)) = Through(D, c)
  BY <1>3, <1>7, ThroughTail
<1>12. CASE h \in S
  <2>1. HeldOn(s, E, M, k) = Through(D, <<h>> \o c)
    BY <1>8, <1>10, <1>12
  <2> QED BY <1>1, <1>2, <1>5, <1>10, <1>11, <1>12, <2>1
<1>13. CASE h \notin S
  BY <1>1, <1>2, <1>5, <1>8, <1>10, <1>13
<1> QED BY <1>12, <1>13

\* Linking an entry at the end adds a youngest block of its key.
LEMMA HeldOnAppend ==
  ASSUME NEW s \in Seq(Entries), NEW e \in Entries, NEW E, NEW M, NEW k
  PROVE  HeldOn(Append(s, e), E, M, k) =
           IF E[e].key = k THEN Append(HeldOn(s, E, M, k), StoredIn(E, M, e))
                           ELSE HeldOn(s, E, M, k)
<1>1. PICK t : t = Append(s, e)
  OBVIOUS
<1> DEFINE S == {x \in ToSet(s) : E[x].key = k}
           U == {x \in ToSet(t) : E[x].key = k}
<1>2. /\ t \in Seq(Entries) /\ Len(t) = Len(s) + 1 /\ t[Len(s) + 1] = e
      /\ \A i \in 1 .. Len(s) : t[i] = s[i]
  BY <1>1, AppendProperties
<1>3. Len(s) \in Nat /\ DOMAIN s = 1 .. Len(s) /\ DOMAIN t = 1 .. Len(s) + 1
  BY <1>2, LenProperties
<1>4. \A i \in 1 .. Len(s) : i \in 1 .. Len(s) + 1
  BY <1>3
<1>5. ToSet(s) \subseteq ToSet(t)
  BY <1>2, <1>3, <1>4 DEF ToSet
<1>6. e \in ToSet(t)
  BY <1>2, <1>3 DEF ToSet
<1>7. (\A x \in ToSet(s) : x \in U <=> x \in S) /\ (e \in U <=> E[e].key = k)
  BY <1>5, <1>6
<1> HIDE DEF S, U
<1>8. PICK c : c = Among(s, U)
  OBVIOUS
<1>9. c = Among(s, S) /\ c \in Seq(Entries)
  BY <1>7, <1>8, AmongAgree, AmongElements
<1>10. Among(t, U) = IF e \in U THEN Append(c, e) ELSE c
  BY <1>1, <1>8, AmongAppend
<1>11. PICK D : D = TableOf(E, M)
  OBVIOUS
<1>12. HeldOn(t, E, M, k) = Through(D, Among(t, U)) /\ HeldOn(s, E, M, k) = Through(D, c)
  BY <1>9, <1>11 DEF HeldOn, S, U
<1>13. Through(D, Append(c, e)) = Append(Through(D, c), D[e]) /\ D[e] = StoredIn(E, M, e)
  <2>1. D[e] = StoredIn(E, M, e)
    BY <1>11 DEF TableOf
  <2> QED BY <1>9, <2>1, ThroughAppend
<1>14. CASE e \in U
  <2>1. HeldOn(t, E, M, k) = Through(D, Append(c, e))
    BY <1>10, <1>12, <1>14
  <2> QED BY <1>1, <1>7, <1>12, <1>13, <1>14, <2>1
<1>15. CASE e \notin U
  BY <1>1, <1>7, <1>10, <1>12, <1>15
<1> QED BY <1>14, <1>15

\* The first entry with the key holds its oldest block.
LEMMA HeldOnFirst ==
  ASSUME NEW s \in Seq(Entries), NEW E, NEW M, NEW k, NEW i \in DOMAIN s, E[s[i]].key = k,
         \A j \in 1 .. i - 1 : E[s[j]].key # k
  PROVE  HeldOn(s, E, M, k) # <<>> /\ Head(HeldOn(s, E, M, k)) = StoredIn(E, M, s[i])
<1> DEFINE S == {e \in ToSet(s) : E[e].key = k}
<1>1. s[i] \in S /\ (\A j \in 1 .. i - 1 : s[j] \notin S)
  BY DEF ToSet
<1> HIDE DEF S
<1>2. PICK c : c = Among(s, S)
  OBVIOUS
<1>3. c # <<>> /\ Head(c) = s[i] /\ c \in Seq(Entries)
  BY <1>1, <1>2, AmongFirst, AmongElements
<1>4. PICK D : D = TableOf(E, M)
  OBVIOUS
<1>5. PICK h : h = Through(D, c)
  OBVIOUS
<1>6. DOMAIN h = 1 .. Len(c) /\ Len(c) \in Nat /\ Len(c) # 0 /\ c[1] = s[i]
  BY <1>3, <1>5, LenProperties, EmptySeq DEF Through
<1>7. h \in Seq({D[x] : x \in Entries}) /\ h # <<>>
  <2>1. \A j \in 1 .. Len(c) : c[j] \in Entries
    BY <1>3, ElementOfSeq
  <2>2. h \in [1 .. Len(c) -> {D[x] : x \in Entries}]
    BY <1>5, <1>6, <2>1 DEF Through
  <2>3. h \in Seq({D[x] : x \in Entries})
    BY <1>6, <2>2, SeqDef
  <2> QED BY <1>6, <2>3, EmptySeq
<1>8. Head(h) = h[1] /\ h[1] = D[s[i]]
  <2>1. 1 \in 1 .. Len(c)
    BY <1>6
  <2>2. h[1] = D[c[1]]
    BY <1>5, <1>6, <2>1 DEF Through
  <2> QED BY <1>6, <1>7, <2>2, HeadTailProperties
<1>9. s[i] \in Entries
  BY LenProperties, ElementOfSeq
<1> QED BY <1>2, <1>4, <1>5, <1>7, <1>8, <1>9 DEF HeldOn, TableOf, S

\* A chain without the key holds nothing for it.
LEMMA HeldOnNone ==
  ASSUME NEW s \in Seq(Entries), NEW E, NEW M, NEW k, \A e \in ToSet(s) : E[e].key # k
  PROVE  HeldOn(s, E, M, k) = <<>>
<1> DEFINE S == {e \in ToSet(s) : E[e].key = k}
<1>1. Among(s, S) = <<>>
  <2>1. \A x \in ToSet(s) : x \notin S
    OBVIOUS
  <2> HIDE DEF S
  <2> QED BY <2>1, AmongNone
<1> HIDE DEF S
<1>2. Through(TableOf(E, M), <<>>) = <<>>
  BY DEF Through
<1> QED BY <1>1, <1>2 DEF HeldOn, S

\* What the cache holds for a key, and will.
LEMMA HeldIs ==
  ASSUME NEW k \in Keys
  PROVE  /\ OneChain(bins) => Held(k) = HeldOn(bins[BinOf[k]], entries, store, k)
         /\ OneChain(bins') => Held(k)' = HeldOn(bins'[BinOf[k]], entries', store', k)
<1>1. BinOf[k] \in Bins /\ BinOf[k] \in 0 .. NBins
  BY BinsAssumption DEF Bins
<1>2. ASSUME NEW s \in Seq(Entries), NEW E, NEW M, NEW c,
             c = Among(s, {e \in ToSet(s) : E[e].key = k})
      PROVE  [i \in DOMAIN c |-> StoredIn(E, M, c[i])] = HeldOn(s, E, M, k)
  <2>1. c \in Seq(Entries)
    BY <1>2, AmongElements
  <2>2. \A i \in DOMAIN c : c[i] \in Entries
    BY <2>1, LenProperties, ElementOfSeq
  <2> QED BY <1>2, <2>2 DEF HeldOn, Through, TableOf
<1>3. ASSUME OneChain(bins)
      PROVE  Held(k) = HeldOn(bins[BinOf[k]], entries, store, k)
  <2>1. bins[BinOf[k]] \in Seq(Entries)
    BY <1>1, <1>3 DEF OneChain
  <2>2. PICK c : c = Among(bins[BinOf[k]], EntriesOf(k))
    OBVIOUS
  <2>3. Held(k) = [i \in DOMAIN c |-> StoredIn(entries, store, c[i])]
    BY <2>2 DEF Held, Stored, StoredIn
  <2> QED BY <1>2, <2>1, <2>2, <2>3 DEF EntriesOf
<1>4. ASSUME OneChain(bins')
      PROVE  Held(k)' = HeldOn(bins'[BinOf[k]], entries', store', k)
  <2>1. bins'[BinOf[k]] \in Seq(Entries)
    BY <1>1, <1>4 DEF OneChain
  <2>2. PICK c : c = Among(bins'[BinOf[k]], EntriesOf(k)')
    OBVIOUS
  <2>3. Held(k)' = [i \in DOMAIN c |-> StoredIn(entries', store', c[i])]
    BY <2>2 DEF Held, Stored, StoredIn
  <2> QED BY <1>2, <2>1, <2>2, <2>3 DEF EntriesOf
<1> QED BY <1>3, <1>4

\* The chain of a key's bin, of linked entries.
LEMMA KeysChain ==
  ASSUME IInv, NEW k \in Keys
  PROVE  /\ BinOf[k] \in Bins /\ bins[BinOf[k]] \in Seq(Entries) /\ IsInjective(bins[BinOf[k]])
         /\ ToSet(bins[BinOf[k]]) \subseteq Linked
<1>1. BinOf[k] \in Bins /\ BinOf[k] \in 0 .. NBins
  BY BinsAssumption DEF Bins
<1>2. bins[BinOf[k]] \in Seq(Entries) /\ IsInjective(bins[BinOf[k]])
  BY <1>1 DEF IInv, OneChain
<1>3. ToSet(bins[BinOf[k]]) \subseteq Entries
  BY <1>2, OwnElements
<1> QED BY <1>1, <1>2, <1>3, LinkedElements

\* An entry whose units do not change stores what it did.
LEMMA StoredStays ==
  ASSUME IInv, NEW e \in Linked, entries'[e].data = entries[e].data,
         entries'[e].length = entries[e].length,
         \A u \in EntryUnits(e) : store'[u] = store[u]
  PROVE  StoredIn(entries', store', e) = StoredIn(entries, store, e)
<1>1. entries[e].data \in Nat /\ entries[e].length \in Nat
  BY LinkedBlocks, StoreAssumption DEF Units
<1>2. \A j \in 1 .. entries[e].length : entries[e].data + j - 1 \in EntryUnits(e)
  BY <1>1 DEF EntryUnits, Extent
<1> QED BY <1>2 DEF StoredIn

\* A step that moves no entry and keeps their keys and blocks.
LEMMA HeldStays ==
  ASSUME IInv, IInv', bins' = bins,
         \A e \in Linked : /\ entries'[e].key = entries[e].key
                           /\ StoredIn(entries', store', e) = StoredIn(entries, store, e)
  PROVE  [k \in Keys |-> Held(k)]' = [k \in Keys |-> Held(k)]
<1>1. ASSUME NEW k \in Keys PROVE Held(k)' = Held(k)
  <2>1. PICK s : s = bins[BinOf[k]]
    OBVIOUS
  <2>2. s \in Seq(Entries) /\ ToSet(s) \subseteq Linked
    BY <2>1, KeysChain
  <2>3. HeldOn(s, entries', store', k) = HeldOn(s, entries, store, k)
    BY <2>2, HeldOnSame
  <2>4. OneChain(bins) /\ OneChain(bins')
    BY DEF IInv
  <2> QED BY <2>1, <2>3, <2>4, HeldIs
<1> QED BY <1>1

\* While a put is in progress it is one of LossyStore's.
LEMMA PuttingIs ==
  ASSUME IInv
  PROVE  /\ pc \in {"fit", "link"} =>
              /\ Putting = [key |-> req.key, block |-> Block(req.value, req.length)]
              /\ Putting \in Promise!Puts /\ Putting # NoPut /\ req.key \in Keys
         /\ pc \notin {"fit", "link"} => Putting = NoPut
<1>1. CASE pc \in {"fit", "link"}
  <2>1. req.key \in Keys /\ req.value \in Values /\ req.length \in 1 .. StoreLen
    BY <1>1 DEF IInv, TypeOK, Request
  <2>2. Putting = [key |-> req.key, block |-> Block(req.value, req.length)]
    BY <1>1 DEF Putting
  <2>3. Block(req.value, req.length) \in ClientBlocks
    BY <2>1 DEF ClientBlocks
  <2>4. Putting \in [key : Keys, block : ClientBlocks]
    BY <2>1, <2>2, <2>3
  <2> QED BY <1>1, <2>1, <2>2, <2>4, NoPutAssumption DEF Promise!Puts
<1>2. CASE pc \notin {"fit", "link"}
  BY <1>2 DEF Putting
<1> QED BY <1>1, <1>2

\* The oldest block of a key is lost.
LEMMA PurgeLoses ==
  ASSUME IInv, IInv', NEW b \in Bins, bins[b] # <<>>, Purge(b)
  PROVE  \E k \in Keys : /\ Held(k) # <<>>
                         /\ [j \in Keys |-> Held(j)]' = [j \in Keys |-> IF j = k THEN Tail(Held(k)) ELSE Held(j)]
<1>1. PICK e : e = Head(bins[b])
  OBVIOUS
<1>2. e \in Linked /\ Linked' = Linked \ {e}
  BY <1>1, PurgeUnlinks
<1>3. PICK k : k = entries[e].key
  OBVIOUS
<1>4. b \in 0 .. NBins /\ FreeChain \in 0 .. NBins /\ \A c \in Bins : c \in 0 .. NBins /\ c # FreeChain
  BY BinsAssumption DEF Bins, FreeChain
<1>5. OneChain(bins) /\ OneChain(bins')
  BY DEF IInv
<1>6. bins[b] \in Seq(Entries) /\ IsInjective(bins[b])
  BY <1>4, <1>5 DEF OneChain
<1>7. e \in ToSet(bins[b]) /\ ToSet(Tail(bins[b])) = ToSet(bins[b]) \ {e} /\ Tail(bins[b]) \in Seq(Entries)
  BY <1>1, <1>6, Unlinked
<1>8. k \in Keys /\ BinOf[k] = b
  BY <1>2, <1>3, <1>7, LinkedBlocks DEF IInv, OnOwnChain
<1>9. \A c \in Bins : bins'[c] = IF c = b THEN Tail(bins[b]) ELSE bins[c]
  BY <1>4, <1>5 DEF Purge, OneChain
<1>10. /\ entries' = [entries EXCEPT ![e] = FreeEntry]
       /\ store' = [store EXCEPT ![entries[e].data] = Header]
  BY <1>1 DEF Purge
<1>11. ASSUME NEW x \in Linked, x # e
       PROVE  /\ entries'[x].key = entries[x].key
              /\ StoredIn(entries', store', x) = StoredIn(entries, store, x)
  <2>1. entries'[x] = entries[x]
    BY <1>10, <1>11, LinkedElements DEF IInv, TypeOK
  <2>2. entries[e].data \in EntryUnits(e)
    <3>1. entries[e].data \in Nat /\ entries[e].length \in Nat /\ entries[e].length >= 1
      BY <1>2, LinkedBlocks, StoreAssumption DEF Units
    <3> QED BY <3>1 DEF EntryUnits, Extent
  <2>3. \A u \in EntryUnits(x) : u # entries[e].data /\ u \in Units
    BY <1>2, <1>11, <2>2 DEF IInv, UnitsAccounted
  <2>4. \A u \in EntryUnits(x) : store'[u] = store[u]
    BY <1>10, <2>3 DEF IInv, TypeOK
  <2> QED BY <2>1, <2>4, StoredStays
<1>12. ASSUME NEW j \in Keys, BinOf[j] # b PROVE Held(j)' = Held(j)
  <2>1. PICK s : s = bins[BinOf[j]]
    OBVIOUS
  <2>2. s \in Seq(Entries) /\ ToSet(s) \subseteq Linked /\ bins'[BinOf[j]] = s
    BY <1>9, <1>12, <2>1, KeysChain
  <2>3. e \notin ToSet(s)
    BY <1>4, <1>5, <1>7, <1>12, <2>1, KeysChain DEF OneChain
  <2>4. HeldOn(s, entries', store', j) = HeldOn(s, entries, store, j)
    BY <1>11, <2>2, <2>3, HeldOnSame
  <2> QED BY <1>5, <2>1, <2>2, <2>4, HeldIs
<1>13. ASSUME NEW j \in Keys, BinOf[j] = b
       PROVE  IF j = k THEN Held(j) # <<>> /\ Held(j)' = Tail(Held(j)) ELSE Held(j)' = Held(j)
  <2>1. PICK s : s = bins[b]
    OBVIOUS
  <2>2. PICK t : t = Tail(s)
    OBVIOUS
  <2>3. /\ s \in Seq(Entries) /\ ToSet(s) \subseteq Linked /\ IsInjective(s) /\ s # <<>>
        /\ t \in Seq(Entries) /\ ToSet(t) = ToSet(s) \ {e}
    BY <1>6, <1>7, <1>8, <2>1, <2>2, KeysChain
  <2>4. HeldOn(t, entries', store', j) = HeldOn(t, entries, store, j)
    BY <1>11, <2>3, HeldOnSame
  <2>5. Held(j) = HeldOn(s, entries, store, j) /\ Held(j)' = HeldOn(t, entries', store', j)
    BY <1>5, <1>9, <1>13, <2>1, <2>2, HeldIs
  <2>6. IF entries[e].key = j
        THEN HeldOn(s, entries, store, j) # <<>>
             /\ Tail(HeldOn(s, entries, store, j)) = HeldOn(t, entries, store, j)
        ELSE HeldOn(s, entries, store, j) = HeldOn(t, entries, store, j)
    BY <1>1, <2>1, <2>2, <2>3, HeldOnTail
  <2> QED BY <1>3, <2>4, <2>5, <2>6
<1>14. \A j \in Keys : Held(j)' = IF j = k THEN Tail(Held(k)) ELSE Held(j)
  BY <1>12, <1>13, <1>8
<1> QED BY <1>8, <1>13, <1>14

\* A step that leaves the request alone leaves the put in progress.
LEMMA PuttingStays ==
  ASSUME pc \in {"fit", "link"} <=> pc' \in {"fit", "link"},
         pc \in {"fit", "link"} => /\ req'.key = req.key /\ req'.value = req.value
                                   /\ req'.length = req.length
  PROVE  Putting' = Putting
<1>1. CASE pc \in {"fit", "link"}
  BY <1>1 DEF Putting, Block
<1>2. CASE pc \notin {"fit", "link"}
  BY <1>2 DEF Putting
<1> QED BY <1>1, <1>2

\* cache_get finds the oldest block of the key.
LEMMA GetHitLooksUp ==
  ASSUME IInv, IInv', NEW key \in Keys, GetHit(key)
  PROVE  Promise!Lookup(key)
<1>1. PICK i \in DOMAIN bins[BinOf[key]] :
        /\ FirstHit(bins[BinOf[key]], i, key)
        /\ entries' = [entries EXCEPT ![bins[BinOf[key]][i]].time = time]
        /\ out' = Answer("hit", Stored(bins[BinOf[key]][i]))
  BY DEF GetHit
<1>2. pc = "idle" /\ UNCHANGED <<bins, store, pc, req>>
  BY DEF GetHit
<1>3. PICK s : s = bins[BinOf[key]]
  OBVIOUS
<1>4. s \in Seq(Entries) /\ ToSet(s) \subseteq Linked /\ i \in DOMAIN s
  BY <1>1, <1>3, KeysChain
<1>5. PICK e : e = s[i]
  OBVIOUS
<1>6. e \in ToSet(s) /\ e \in Linked /\ e \in Entries
  BY <1>4, <1>5, OwnElements DEF ToSet
<1>7. entries[e].key = key /\ \A j \in 1 .. i - 1 : entries[s[j]].key # key
  BY <1>1, <1>3, <1>5 DEF FirstHit
<1>8. entries' = [entries EXCEPT ![e].time = time] /\ out' = Answer("hit", Stored(e))
  BY <1>1, <1>3, <1>5
<1>9. Held(key) # <<>> /\ Head(Held(key)) = Stored(e)
  <2>1. HeldOn(s, entries, store, key) # <<>>
        /\ Head(HeldOn(s, entries, store, key)) = StoredIn(entries, store, e)
    BY <1>4, <1>5, <1>7, HeldOnFirst
  <2>2. Held(key) = HeldOn(s, entries, store, key)
    BY <1>3, HeldIs DEF IInv
  <2>3. Stored(e) = StoredIn(entries, store, e)
    BY DEF Stored, StoredIn
  <2> QED BY <2>1, <2>2, <2>3
<1>10. [k \in Keys |-> Held(k)]' = [k \in Keys |-> Held(k)]
  <2>1. ASSUME NEW x \in Linked
        PROVE  /\ entries'[x].key = entries[x].key
               /\ StoredIn(entries', store', x) = StoredIn(entries, store, x)
    <3>1. x \in Entries /\ entries[x] \in Entry /\ entries[e] \in Entry
      BY <1>6, LinkedBlocks
    <3>2. entries'[x] = IF x = e THEN [entries[e] EXCEPT !.time = time] ELSE entries[x]
      BY <1>6, <1>8, <3>1 DEF IInv, TypeOK
    <3>3. /\ entries'[x].key = entries[x].key /\ entries'[x].data = entries[x].data
          /\ entries'[x].length = entries[x].length
      BY <3>1, <3>2 DEF Entry
    <3> QED BY <1>2, <3>3, StoredStays
  <2> QED BY <1>2, <2>1, HeldStays
<1>11. Putting = NoPut /\ Putting' = Putting
  BY <1>2, PuttingIs, PuttingStays
<1>12. Promise!Answer("hit", Stored(e)) = Answer("hit", Stored(e))
  BY DEF Promise!Answer, Answer
<1> QED BY <1>8, <1>9, <1>10, <1>11, <1>12 DEF Promise!Lookup

LEMMA GetMissLooksUp ==
  ASSUME IInv, IInv', NEW key \in Keys, GetMiss(key)
  PROVE  Promise!Lookup(key)
<1>1. /\ pc = "idle" /\ out' = Answer("miss", <<>>)
      /\ UNCHANGED <<bins, entries, store, pc, req>>
      /\ \A i \in DOMAIN bins[BinOf[key]] : entries[bins[BinOf[key]][i]].key # key
  BY DEF GetMiss
<1>2. PICK s : s = bins[BinOf[key]]
  OBVIOUS
<1>3. s \in Seq(Entries)
  BY <1>2, KeysChain
<1>4. Held(key) = <<>>
  <2>1. \A e \in ToSet(s) : entries[e].key # key
    BY <1>1, <1>2 DEF ToSet
  <2>2. HeldOn(s, entries, store, key) = <<>>
    BY <1>3, <2>1, HeldOnNone
  <2> QED BY <1>2, <2>2, HeldIs DEF IInv
<1>5. [k \in Keys |-> Held(k)]' = [k \in Keys |-> Held(k)]
  BY <1>1, HeldStays
<1>6. Putting = NoPut /\ Putting' = Putting
  BY <1>1, PuttingIs, PuttingStays
<1>7. Promise!Answer("miss", <<>>) = Answer("miss", <<>>)
  BY DEF Promise!Answer, Answer
<1> QED BY <1>1, <1>4, <1>5, <1>6, <1>7 DEF Promise!Lookup

\* Calls that change nothing the store holds.
LEMMA QuietCalls ==
  ASSUME IInv, IInv',
         \/ \E length \in Lengths : PutTooBig(length)
         \/ \E key \in Keys, value \in Values, length \in Lengths : PutBegin(key, value, length)
         \/ ResetStats
  PROVE  Promise!Next
<1>1. pc = "idle" /\ UNCHANGED <<bins, entries, store>>
  BY DEF PutTooBig, PutBegin, ResetStats
<1>2. [k \in Keys |-> Held(k)]' = [k \in Keys |-> Held(k)]
  BY <1>1, HeldStays
<1>3. Putting = NoPut
  BY <1>1, PuttingIs
<1>4. /\ Promise!Answer("too_big", <<>>) = Answer("too_big", <<>>)
      /\ Promise!NoAnswer = NoAnswer
  BY DEF Promise!Answer, Answer, Promise!NoAnswer, NoAnswer
<1>5. CASE \E length \in Lengths : PutTooBig(length)
  <2>1. out' = Answer("too_big", <<>>) /\ pc' = pc /\ req' = req
    BY <1>5 DEF PutTooBig
  <2>2. Putting' = Putting
    BY <1>1, <2>1, PuttingStays
  <2>3. Promise!Refuse
    BY <1>2, <1>3, <1>4, <2>1, <2>2 DEF Promise!Refuse
  <2> QED BY <2>3 DEF Promise!Next
<1>6. CASE \E key \in Keys, value \in Values, length \in Lengths : PutBegin(key, value, length)
  <2>1. out' = NoAnswer /\ pc' = "fit"
    BY <1>6 DEF PutBegin
  <2>2. Putting' \in Promise!Puts
    <3>1. req'.key \in Keys /\ req'.value \in Values /\ req'.length \in 1 .. StoreLen
      BY <2>1 DEF IInv, TypeOK, Request
    <3>2. Putting' = [key |-> req'.key, block |-> Block(req'.value, req'.length)]
      BY <2>1 DEF Putting, Block
    <3>3. Block(req'.value, req'.length) \in ClientBlocks
      BY <3>1 DEF ClientBlocks
    <3> QED BY <3>1, <3>2, <3>3 DEF Promise!Puts
  <2>3. Promise!Begin(Putting')
    BY <1>2, <1>3, <1>4, <2>1 DEF Promise!Begin
  <2> QED BY <2>2, <2>3 DEF Promise!Next
<1>7. CASE ResetStats
  <2>1. out' = NoAnswer /\ pc' = pc /\ req' = req
    BY <1>7 DEF ResetStats
  <2>2. Putting' = Putting
    BY <1>1, <2>1, PuttingStays
  <2>3. Promise!Other
    BY <1>2, <1>3, <1>4, <2>1, <2>2 DEF Promise!Other
  <2> QED BY <2>3 DEF Promise!Next
<1> QED BY <1>5, <1>6, <1>7

\* evict loses a block, whatever its purpose.
LEMMA EvictLoses ==
  ASSUME IInv, IInv', PutEvict \/ PutEvictEntry, ~ EvictAborts
  PROVE  Promise!Next
<1>1. PICK b \in Bins : EvicteeBin(b) /\ Purge(b)
  BY DEF PutEvict, PutEvictEntry, Evict
<1>2. pc \in {"fit", "link"} /\ UNCHANGED <<pc, req, out>>
  BY DEF PutEvict, PutEvictEntry, Evict
<1>3. Putting # NoPut /\ Putting' = Putting
  BY <1>2, PuttingIs, PuttingStays
<1>4. PICK k \in Keys :
        /\ Held(k) # <<>>
        /\ [j \in Keys |-> Held(j)]' = [j \in Keys |-> IF j = k THEN Tail(Held(k)) ELSE Held(j)]
  BY <1>1, PurgeLoses DEF EvicteeBin, Evictable
<1>5. PICK C : C = [j \in Keys |-> Held(j)]
  OBVIOUS
<1>6. C[k] # <<>> /\ [j \in Keys |-> Held(j)]' = [C EXCEPT ![k] = Tail(@)]
  BY <1>4, <1>5
<1>7. Promise!Lose(k)
  BY <1>2, <1>3, <1>5, <1>6 DEF Promise!Lose
<1> QED BY <1>7 DEF Promise!Next

\* The client's data goes where nothing that is held is.
LEMMA PutTakeHolds ==
  ASSUME IInv, IInv', PutTake
  PROVE  [j \in Keys |-> Held(j)]' = [j \in Keys |-> Held(j)] /\ Putting' = Putting /\ out' = out
<1>1. PICK i \in DOMAIN firstfree :
        /\ store' = [u \in Units |->
                       IF u \in Extent(TakenAt(i), req.length) THEN req.value ELSE store[u]]
        /\ req' = [req EXCEPT !.at = TakenAt(i)]
  BY DEF PutTake
<1>2. pc = "fit" /\ pc' = "link" /\ UNCHANGED <<bins, entries, out>>
  BY DEF PutTake
<1>3. /\ req \in Request /\ req'.key = req.key /\ req'.value = req.value
      /\ req'.length = req.length /\ req'.at = TakenAt(i)
  BY <1>1, <1>2 DEF IInv, TypeOK, Request
<1>4. req'.at \in Units /\ req'.at # 0
  BY <1>2, StoreAssumption DEF IInv, RequestWritten, Units
<1>5. RequestUnits' = Extent(TakenAt(i), req.length)
  BY <1>3, <1>4 DEF RequestUnits
<1>6. Linked' = Linked /\ \A e : EntryUnits(e)' = EntryUnits(e)
  BY <1>2, LinkedElements, LinkedElementsNext DEF EntryUnits
<1>7. ASSUME NEW e \in Linked
      PROVE  /\ entries'[e].key = entries[e].key
             /\ StoredIn(entries', store', e) = StoredIn(entries, store, e)
  <2>1. \A u \in EntryUnits(e) : u \in Units /\ u \notin RequestUnits'
    BY <1>6 DEF IInv, UnitsAccounted
  <2>2. \A u \in EntryUnits(e) : store'[u] = store[u]
    BY <1>1, <1>5, <2>1
  <2> QED BY <1>2, <2>2, StoredStays
<1>8. [j \in Keys |-> Held(j)]' = [j \in Keys |-> Held(j)]
  BY <1>2, <1>7, HeldStays
<1>9. Putting' = Putting
  BY <1>2, <1>3, PuttingStays
<1> QED BY <1>2, <1>8, <1>9

\* cache_put ends with its block stored, the youngest of its key.
LEMMA PutLinkCommits ==
  ASSUME IInv, IInv', PutLink
  PROVE  Promise!Commit
<1>1. PICK e : e = Head(bins[FreeChain])
  OBVIOUS
<1>2. PICK k : k = req.key
  OBVIOUS
<1>3. PICK new : new = [key |-> k, data |-> req.at, length |-> req.length, time |-> time]
  OBVIOUS
<1>4. /\ pc = "link" /\ pc' = "idle" /\ bins[FreeChain] # <<>>
      /\ bins' = [bins EXCEPT ![FreeChain] = Tail(@), ![BinOf[k]] = Append(@, e)]
      /\ entries' = [entries EXCEPT ![e] = new]
      /\ store' = store
      /\ out' = Answer("ok", [i \in 1 .. req.length |-> store[req.at + i - 1]])
  BY <1>1, <1>2, <1>3 DEF PutLink, Chained
<1>5. /\ k \in Keys /\ req.at \in Units /\ req.length \in 1 .. StoreLen
      /\ \A u \in RequestUnits : store[u] = req.value
  BY <1>2, <1>4 DEF IInv, TypeOK, Request, RequestWritten
<1>6. e \in Entries /\ e \notin Linked
  BY <1>1, PutLinks
<1>7. OneChain(bins) /\ OneChain(bins')
  BY DEF IInv
<1>8. /\ BinOf[k] \in Bins /\ BinOf[k] # FreeChain
      /\ \A c \in Bins : c \in 0 .. NBins /\ c # FreeChain
  BY <1>5, BinsAssumption DEF Bins, FreeChain
<1>9. \A c \in Bins : bins'[c] = IF c = BinOf[k] THEN Append(bins[c], e) ELSE bins[c]
  BY <1>4, <1>7, <1>8 DEF OneChain
<1>10. entries'[e] = new /\ \A x \in Entries : x # e => entries'[x] = entries[x]
  BY <1>4, <1>6 DEF IInv, TypeOK
<1>11. [i \in 1 .. req.length |-> store[req.at + i - 1]] = Block(req.value, req.length)
  <2>1. req.at \in Nat /\ req.length \in Nat /\ req.at # 0
    BY <1>5, StoreAssumption DEF Units
  <2>2. \A i \in 1 .. req.length : req.at + i - 1 \in RequestUnits
    BY <2>1 DEF RequestUnits, Extent
  <2> QED BY <1>5, <2>2 DEF Block
<1>12. StoredIn(entries', store', e) = Block(req.value, req.length)
  <2>1. entries'[e].length = req.length /\ entries'[e].data = req.at
    BY <1>3, <1>10
  <2>2. StoredIn(entries', store', e) = [i \in 1 .. req.length |-> store[req.at + i - 1]]
    BY <1>4, <2>1 DEF StoredIn
  <2> QED BY <1>11, <2>2
<1>13. ASSUME NEW j \in Keys
       PROVE  Held(j)' = IF j = k THEN Append(Held(j), Block(req.value, req.length)) ELSE Held(j)
  <2>1. PICK s : s = bins[BinOf[j]]
    OBVIOUS
  <2>2. s \in Seq(Entries) /\ ToSet(s) \subseteq Linked /\ BinOf[j] \in Bins
    BY <2>1, KeysChain
  <2>3. \A x \in ToSet(s) : entries'[x] = entries[x]
    BY <1>6, <1>10, <2>2, LinkedElements
  <2>4. \A x \in ToSet(s) : /\ entries'[x].key = entries[x].key
                            /\ StoredIn(entries', store', x) = StoredIn(entries, store, x)
    BY <1>4, <2>3 DEF StoredIn
  <2>5. HeldOn(s, entries', store', j) = HeldOn(s, entries, store, j)
    BY <2>2, <2>4, HeldOnSame
  <2>6. Held(j) = HeldOn(s, entries, store, j)
    BY <1>7, <2>1, HeldIs
  <2>7. CASE BinOf[j] = BinOf[k]
    <3>1. Held(j)' = HeldOn(Append(s, e), entries', store', j)
      BY <1>7, <1>9, <2>1, <2>2, <2>7, HeldIs
    <3>2. HeldOn(Append(s, e), entries', store', j) =
            IF entries'[e].key = j
            THEN Append(HeldOn(s, entries', store', j), StoredIn(entries', store', e))
            ELSE HeldOn(s, entries', store', j)
      BY <1>6, <2>2, HeldOnAppend
    <3>3. entries'[e].key = k
      BY <1>3, <1>10
    <3> QED BY <1>12, <2>5, <2>6, <3>1, <3>2, <3>3
  <2>8. CASE BinOf[j] # BinOf[k]
    <3>1. bins'[BinOf[j]] = s
      BY <1>9, <2>1, <2>2, <2>8
    <3>2. Held(j)' = HeldOn(s, entries', store', j)
      BY <1>7, <3>1, HeldIs
    <3> QED BY <2>5, <2>6, <2>8, <3>2
  <2> QED BY <2>7, <2>8
<1>14. Putting = [key |-> k, block |-> Block(req.value, req.length)] /\ Putting # NoPut
  BY <1>2, <1>4, PuttingIs
<1>15. Putting' = NoPut
  BY <1>4 DEF Putting
<1>16. PICK C : C = [j \in Keys |-> Held(j)]
  OBVIOUS
<1>17. [j \in Keys |-> Held(j)]' = [C EXCEPT ![Putting.key] = Append(@, Putting.block)]
  BY <1>5, <1>13, <1>14, <1>16
<1>18. out' = Promise!Answer("ok", Putting.block)
  BY <1>4, <1>11, <1>14 DEF Promise!Answer, Answer
<1> QED BY <1>14, <1>15, <1>16, <1>17, <1>18 DEF Promise!Commit

\* cache_empty, and the state cache_create leaves.
LEMMA HoldsNothing ==
  ASSUME NEW k \in Keys
  PROVE  /\ Init => Held(k) = <<>>
         /\ Empty => Held(k)' = <<>>
<1>1. BinOf[k] \in Bins
  BY BinsAssumption
<1>2. <<>> \in Seq(Entries) /\ ToSet(<<>>) = {}
  BY DEF ToSet
<1>3. \A E, M : HeldOn(<<>>, E, M, k) = <<>>
  BY <1>2, HeldOnNone
<1>4. BinOf[k] \in 0 .. NBins /\ BinOf[k] # FreeChain
  BY <1>1, BinsAssumption DEF Bins, FreeChain
<1>5. ASSUME Init PROVE Held(k) = <<>>
  <2>1. OneChain(bins)
    BY <1>5, EveryEntryFree DEF Init
  <2>2. bins[BinOf[k]] = <<>>
    BY <1>4, <1>5 DEF Init
  <2> QED BY <1>3, <2>1, <2>2, HeldIs
<1>6. ASSUME Empty PROVE Held(k)' = <<>>
  <2>1. OneChain(bins')
    BY <1>6, EveryEntryFree DEF Empty
  <2>2. bins'[BinOf[k]] = <<>>
    BY <1>4, <1>6 DEF Empty
  <2> QED BY <1>3, <2>1, <2>2, HeldIs
<1> QED BY <1>5, <1>6

LEMMA StepImplements ==
  ASSUME IInv, IInv', NeverAborts', [Next]_vars
  PROVE  [Promise!Next]_(Promise!vars)
<1>1. CASE UNCHANGED vars
  <2>1. UNCHANGED <<bins, entries, store, pc, req, out>>
    BY <1>1 DEF vars
  <2>2. [k \in Keys |-> Held(k)]' = [k \in Keys |-> Held(k)]
    BY <2>1, HeldStays
  <2>3. Putting' = Putting
    BY <2>1, PuttingStays
  <2> QED BY <2>1, <2>2, <2>3 DEF Promise!vars
<1>2. CASE \E key \in Keys : GetHit(key) \/ GetMiss(key)
  BY <1>2, GetHitLooksUp, GetMissLooksUp DEF Promise!Next
<1>3. CASE \/ \E length \in Lengths : PutTooBig(length)
           \/ \E key \in Keys, value \in Values, length \in Lengths : PutBegin(key, value, length)
           \/ ResetStats
  BY <1>3, QuietCalls
<1>4. CASE PutEvict \/ PutEvictEntry
  BY <1>4, EvictLoses DEF NeverAborts, EvictAborts
<1>5. CASE PutTake
  BY <1>5, PutTakeHolds DEF Promise!vars
<1>6. CASE PutLink
  BY <1>6, PutLinkCommits DEF Promise!Next
<1>7. CASE Empty
  <2>1. pc = "idle" /\ out' = NoAnswer /\ pc' = pc /\ req' = req
    BY <1>7 DEF Empty
  <2>2. Putting = NoPut /\ Putting' = Putting
    BY <2>1, PuttingIs, PuttingStays
  <2>3. [k \in Keys |-> Held(k)]' = [k \in Keys |-> <<>>]
    BY <1>7, HoldsNothing
  <2>4. Promise!NoAnswer = NoAnswer
    BY DEF Promise!Answer, Answer, Promise!NoAnswer, NoAnswer
  <2>5. Promise!Clear
    BY <2>1, <2>2, <2>3, <2>4 DEF Promise!Clear
  <2> QED BY <2>5 DEF Promise!Next
<1> QED BY <1>1, <1>2, <1>3, <1>4, <1>5, <1>6, <1>7 DEF Next

\* The cache keeps the promise of datastruct/cache.h, LossyStore, while its
\* clock has not wrapped: a lookup answers with the oldest block of its key
\* that was put and not lost, whole, and only a put loses any.
THEOREM Implements ==
  ASSUME ClockBound <= TimeMax
  PROVE  Spec => KeepsPromise
<1>1. Init => Promise!Init
  <2> SUFFICES ASSUME Init PROVE Promise!Init
    OBVIOUS
  <2>1. [k \in Keys |-> Held(k)] = [k \in Keys |-> <<>>]
    BY HoldsNothing
  <2>2. Putting = NoPut /\ out = NoAnswer
    BY DEF Init, Putting
  <2>3. Promise!NoAnswer = NoAnswer
    BY DEF Promise!Answer, Answer, Promise!NoAnswer, NoAnswer
  <2> QED BY <2>1, <2>2, <2>3 DEF Promise!Init
<1>2. IInv /\ IInv' /\ NeverAborts' /\ [Next]_vars => [Promise!Next]_(Promise!vars)
  BY StepImplements
<1>3. Spec => []IInv
  BY Inductive
<1>4. Spec => []NeverAborts
  BY EvictFinds
<1> QED BY <1>1, <1>2, <1>3, <1>4, PTL DEF Spec, KeepsPromise, Promise!Spec

-----------------------------------------------------------------------------
(* Which entries evict chooses. *)

Restamps ==
  /\ UNCHANGED <<bins, pc>>
  /\ pc = "idle"
  /\ time < TimeMax
  /\ time' = time + 1
  /\ \E e \in Linked : entries' = [entries EXCEPT ![e].time = time]

LeavesChains ==
  /\ UNCHANGED <<bins, entries, time>>
  /\ pc' \in {"fit", "link"} => time < TimeMax \/ pc \in {"fit", "link"}

Evicts(b, e) ==
  /\ EvicteeBin(b)
  /\ bins[b] # <<>>
  /\ e = Head(bins[b])
  /\ Purge(b)
  /\ UNCHANGED <<time, pc>>

Links(e) ==
  /\ PutLink
  /\ e = Head(bins[FreeChain])

Empties ==
  /\ pc = "idle"
  /\ pc' = "idle"
  /\ Linked' = {}
  /\ \A c \in Bins : ToSet(bins'[c]) = {}

\* What a step of the cache does to its chains.
LEMMA ChainSteps ==
  ASSUME ClockBound <= TimeMax, IInv, [Next]_vars
  PROVE  \/ Restamps \/ LeavesChains \/ Empties
         \/ \E b \in Bins : \E e : Evicts(b, e)
         \/ \E e : Links(e)
<1>0. time \in 0 .. TimeMax /\ TimeMax \in Nat /\ ClockBound \in Int
  BY ClockAssumption DEF IInv, TypeOK, Times
<1>1. CASE \E key \in Keys : GetHit(key)
  <2>1. PICK key \in Keys : GetHit(key)
    BY <1>1
  <2>2. PICK i \in DOMAIN bins[BinOf[key]] :
          entries' = [entries EXCEPT ![bins[BinOf[key]][i]].time = time]
    BY <2>1 DEF GetHit
  <2>3. BinOf[key] \in Bins /\ bins[BinOf[key]][i] \in Entries
    <3>1. bins[BinOf[key]] \in Seq(Entries)
      BY BinsAssumption DEF Bins, IInv, OneChain
    <3> QED BY <2>2, <3>1, BinsAssumption, LenProperties, ElementOfSeq
  <2>4. bins[BinOf[key]][i] \in Linked
    BY <2>2, <2>3 DEF Linked
  <2>5. UNCHANGED <<bins, pc>> /\ pc = "idle" /\ time < TimeMax
    BY <1>0, <2>1 DEF GetHit
  <2>6. time' = time + 1
    BY <1>0, <2>1, <2>5 DEF GetHit, NextTime
  <2> QED BY <2>2, <2>4, <2>5, <2>6 DEF Restamps
<1>2. CASE \/ \E key \in Keys : GetMiss(key)
           \/ \E length \in Lengths : PutTooBig(length)
           \/ ResetStats
           \/ UNCHANGED vars
  BY <1>2 DEF GetMiss, PutTooBig, ResetStats, vars, LeavesChains
<1>3. CASE \E key \in Keys, value \in Values, length \in Lengths : PutBegin(key, value, length)
  BY <1>0, <1>3 DEF PutBegin, LeavesChains
<1>4. CASE PutEvict \/ PutEvictEntry
  <2>1. CASE EvictAborts
    BY <2>1 DEF EvictAborts, LeavesChains
  <2>2. CASE Evict
    <3>1. PICK b \in Bins : EvicteeBin(b) /\ Purge(b)
      BY <2>2 DEF Evict
    <3>2. UNCHANGED <<time, pc>>
      BY <2>2 DEF Evict
    <3>3. Evicts(b, Head(bins[b]))
      BY <3>1, <3>2 DEF Evicts, EvicteeBin, Evictable
    <3> QED BY <3>3
  <2> QED BY <1>4, <2>1, <2>2 DEF PutEvict, PutEvictEntry
<1>5. CASE PutTake
  BY <1>5 DEF PutTake, LeavesChains
<1>6. CASE PutLink
  BY <1>6 DEF Links
<1>7. CASE Empty
  <2>1. \A c \in Bins : ToSet(bins'[c]) = {}
    BY <1>7, EveryEntryFree DEF Empty
  <2>2. Linked' = {}
    BY <2>1, LinkedElementsNext
  <2> QED BY <1>7, <2>1, <2>2 DEF Empty, Empties
<1> QED BY <1>1, <1>2, <1>3, <1>4, <1>5, <1>6, <1>7 DEF Next

\* No two entries in use have the same stamp, and the clock is past them all.
StampsDiffer ==
  /\ \A e \in Linked : entries[e].time \in Nat /\ entries[e].time < time
  /\ \A e, f \in Linked : entries[e].time = entries[f].time => e = f
  /\ pc \in {"fit", "link"} => time < TimeMax

LEMMA StampsStayDifferent ==
  ASSUME ClockBound <= TimeMax, IInv, StampsDiffer, [Next]_vars
  PROVE  StampsDiffer'
<1>0. time \in Nat /\ TimeMax \in Nat
  BY ClockAssumption DEF IInv, TypeOK, Times
<1>1. CASE Restamps
  <2>1. PICK e \in Linked : entries' = [entries EXCEPT ![e].time = time]
    BY <1>1 DEF Restamps
  <2>2. Linked' = Linked /\ \A f \in Linked : f \in Entries /\ entries[f] \in Entry
    BY <1>1, LinkedElements, LinkedElementsNext, LinkedBlocks DEF Restamps
  <2>3. \A f \in Linked : entries'[f].time = IF f = e THEN time ELSE entries[f].time
    BY <2>1, <2>2 DEF Entry, IInv, TypeOK
  <2> QED BY <1>0, <1>1, <2>2, <2>3 DEF StampsDiffer, Restamps
<1>2. CASE LeavesChains
  <2>1. Linked' = Linked
    BY <1>2, LinkedElements, LinkedElementsNext DEF LeavesChains
  <2> QED BY <1>2, <2>1 DEF StampsDiffer, LeavesChains
<1>3. CASE Empties
  BY <1>3 DEF StampsDiffer, Empties
<1>4. ASSUME NEW b \in Bins, NEW e, Evicts(b, e) PROVE StampsDiffer'
  <2>1. Linked' = Linked \ {e}
    BY <1>4, PurgeUnlinks DEF Evicts
  <2>2. entries' = [entries EXCEPT ![e] = FreeEntry]
    BY <1>4 DEF Evicts, Purge
  <2>3. \A f \in Linked' : entries'[f] = entries[f]
    BY <2>1, <2>2, LinkedElements DEF IInv, TypeOK
  <2> QED BY <1>4, <2>1, <2>3 DEF StampsDiffer, Evicts
<1>5. ASSUME NEW e, Links(e) PROVE StampsDiffer'
  <2>1. e \in Entries /\ e \notin Linked /\ Linked' = Linked \cup {e}
    BY <1>5, PutLinks DEF Links
  <2>2. entries' = [entries EXCEPT ![e] =
             [key |-> req.key, data |-> req.at, length |-> req.length, time |-> time]]
        /\ pc = "link" /\ pc' = "idle"
    BY <1>5 DEF Links, PutLink
  <2>3. \A f \in Linked' : f \in Entries /\ entries'[f].time = IF f = e THEN time ELSE entries[f].time
    BY <2>1, <2>2, LinkedElements DEF IInv, TypeOK
  <2>4. time < TimeMax /\ time' = time + 1
    <3>1. time < TimeMax
      BY <2>2 DEF StampsDiffer
    <3>2. time' = (time + 1) % (TimeMax + 1)
      BY <1>5 DEF Links, PutLink, NextTime
    <3>3. (time + 1) % (TimeMax + 1) = time + 1
      BY ONLY <1>0, <3>1
    <3> QED BY <3>1, <3>2, <3>3
  <2> QED BY <1>0, <2>1, <2>2, <2>3, <2>4 DEF StampsDiffer
<1> QED BY <1>1, <1>2, <1>3, <1>4, <1>5, ChainSteps

\* Along each chain entries come in the order in which they were put.
ChainsByAge ==
  /\ \A e \in Linked : born[e] \in Nat /\ born[e] <= time
  /\ \A b \in Bins : \A i, j \in DOMAIN bins[b] : i < j => born[bins[b][i]] <= born[bins[b][j]]

LEMMA ChainsStayByAge ==
  ASSUME ClockBound <= TimeMax, IInv, StampsDiffer, ChainsByAge, AgeNext
  PROVE  ChainsByAge'
<1>0. time \in Nat /\ TimeMax \in Nat
  BY ClockAssumption DEF IInv, TypeOK, Times
<1>1. \A e \in Linked' : born'[e] = IF e \in Linked THEN born[e] ELSE time
  BY LinkedElementsNext DEF AgeNext
<1>2. \A c \in Bins : c \in 0 .. NBins /\ c # FreeChain
  BY BinsAssumption DEF Bins, FreeChain
<1>3. \A c \in Bins : bins[c] \in Seq(Entries)
  BY <1>2 DEF IInv, OneChain
<1>4. \A c \in Bins : /\ Len(bins[c]) \in Nat
                      /\ DOMAIN bins[c] = 1 .. Len(bins[c])
                      /\ \A i \in DOMAIN bins[c] : bins[c][i] \in Linked
  <2> TAKE c \in Bins
  <2>1. Len(bins[c]) \in Nat /\ DOMAIN bins[c] = 1 .. Len(bins[c])
    BY <1>3, LenProperties
  <2>2. \A i \in DOMAIN bins[c] : bins[c][i] \in Entries
    BY <1>3, <2>1, ElementOfSeq
  <2> QED BY <2>1, <2>2 DEF Linked
<1>5. CASE UNCHANGED bins /\ time' \in Nat /\ time <= time'
  <2>1. Linked' = Linked
    BY <1>5, LinkedElements, LinkedElementsNext
  <2>2. \A e \in Linked : born'[e] = born[e]
    BY <1>1, <2>1
  <2> QED BY <1>0, <1>4, <1>5, <2>1, <2>2 DEF ChainsByAge
<1>6. CASE Empties
  BY <1>6 DEF ChainsByAge, Empties, ToSet
<1>7. ASSUME NEW b \in Bins, NEW e, Evicts(b, e) PROVE ChainsByAge'
  <2>1. Linked' = Linked \ {e}
    BY <1>7, PurgeUnlinks DEF Evicts
  <2>2. \A c \in Bins : bins'[c] = IF c = b THEN Tail(bins[b]) ELSE bins[c]
    BY <1>2, <1>7, BinsAssumption DEF Evicts, Purge, IInv, OneChain, FreeChain
  <2>3. /\ Len(Tail(bins[b])) = Len(bins[b]) - 1
        /\ DOMAIN Tail(bins[b]) = 1 .. Len(bins[b]) - 1
        /\ \A i \in 1 .. Len(bins[b]) - 1 : Tail(bins[b])[i] = bins[b][i + 1]
    <3>1. bins[b] \in Seq(Entries) /\ bins[b] # <<>>
      BY <1>3, <1>7 DEF Evicts
    <3> QED BY <3>1, HeadTailProperties, LenProperties
  <2>4. \A x \in Linked' : born'[x] = born[x] /\ x \in Linked
    BY <1>1, <2>1
  <2>5. \A c \in Bins : \A i \in DOMAIN bins'[c] : bins'[c][i] \in Linked'
    <3>1. OneChain(bins')
      BY <1>7, PurgeUnlinks DEF Evicts
    <3> TAKE c \in Bins
    <3>2. bins'[c] \in Seq(Entries)
      BY <1>2, <3>1 DEF OneChain
    <3>3. \A i \in DOMAIN bins'[c] : bins'[c][i] \in Entries
      BY <3>2, LenProperties, ElementOfSeq
    <3> QED BY <3>3 DEF Linked
  <2>6. ASSUME NEW c \in Bins, NEW i \in DOMAIN bins'[c], NEW j \in DOMAIN bins'[c], i < j
        PROVE  born'[bins'[c][i]] <= born'[bins'[c][j]]
    <3>1. born'[bins'[c][i]] = born[bins'[c][i]] /\ born'[bins'[c][j]] = born[bins'[c][j]]
      BY <2>4, <2>5
    <3>2. CASE c = b
      <4>1. /\ i \in 1 .. Len(bins[b]) - 1 /\ j \in 1 .. Len(bins[b]) - 1 /\ Len(bins[b]) \in Nat
            /\ bins'[c][i] = bins[b][i + 1] /\ bins'[c][j] = bins[b][j + 1]
        BY <1>4, <2>2, <2>3, <3>2
      <4>2. i + 1 \in DOMAIN bins[b] /\ j + 1 \in DOMAIN bins[b] /\ i + 1 < j + 1
        BY <1>4, <2>6, <4>1
      <4> QED BY <3>1, <4>1, <4>2 DEF ChainsByAge
    <3>3. CASE c # b
      BY <2>2, <2>6, <3>1, <3>3 DEF ChainsByAge
    <3> QED BY <3>2, <3>3
  <2>7. UNCHANGED time
    BY <1>7 DEF Evicts
  <2> QED BY <2>4, <2>6, <2>7 DEF ChainsByAge
<1>8. ASSUME NEW e, Links(e) PROVE ChainsByAge'
  <2>1. e \in Entries /\ e \notin Linked /\ Linked' = Linked \cup {e}
    BY <1>8, PutLinks DEF Links
  <2>2. PICK b : b = BinOf[req.key]
    OBVIOUS
  <2>3. b \in Bins
    BY <1>8, <2>2, BinsAssumption DEF Links, PutLink, IInv, TypeOK, Request
  <2>4. \A c \in Bins : bins'[c] = IF c = b THEN Append(bins[b], e) ELSE bins[c]
    BY <1>2, <1>8, <2>2, <2>3, BinsAssumption DEF Links, PutLink, IInv, OneChain, FreeChain, Chained
  <2>5. PICK s : s = Append(bins[b], e)
    OBVIOUS
  <2>6. /\ DOMAIN s = 1 .. Len(bins[b]) + 1
        /\ s[Len(bins[b]) + 1] = e
        /\ \A i \in 1 .. Len(bins[b]) : s[i] = bins[b][i]
    BY <1>3, <2>1, <2>3, <2>5, AppendProperties, LenProperties
  <2>7. time' = time + 1
    <3>1. time < TimeMax
      BY <1>8 DEF Links, PutLink, StampsDiffer
    <3>2. time' = (time + 1) % (TimeMax + 1)
      BY <1>8 DEF Links, PutLink, NextTime
    <3>3. (time + 1) % (TimeMax + 1) = time + 1
      BY ONLY <1>0, <3>1
    <3> QED BY <3>2, <3>3
  <2>8. \A x \in Linked : born'[x] = born[x] /\ born[x] \in Nat /\ born[x] <= time
    BY <1>1, <2>1 DEF ChainsByAge
  <2>9. born'[e] = time
    BY <1>1, <2>1
  <2>10. ASSUME NEW c \in Bins, NEW i \in DOMAIN bins'[c], NEW j \in DOMAIN bins'[c], i < j
         PROVE  born'[bins'[c][i]] <= born'[bins'[c][j]]
    <3>1. CASE c # b
      BY <1>4, <2>4, <2>8, <2>10, <3>1 DEF ChainsByAge
    <3>2. CASE c = b
      <4>1. bins'[c] = s
        BY <2>4, <2>5, <3>2
      <4>2. /\ Len(bins[b]) \in Nat
            /\ i \in 1 .. Len(bins[b]) + 1 /\ j \in 1 .. Len(bins[b]) + 1
        BY <1>4, <2>3, <2>6, <4>1
      <4>3. i \in DOMAIN bins[b] /\ s[i] = bins[b][i] /\ bins[b][i] \in Linked
        BY <1>4, <2>3, <2>6, <2>10, <4>2
      <4>4. CASE j = Len(bins[b]) + 1
        BY <2>6, <2>8, <2>9, <4>1, <4>3, <4>4
      <4>5. CASE j # Len(bins[b]) + 1
        <5>1. j \in DOMAIN bins[b] /\ s[j] = bins[b][j] /\ bins[b][j] \in Linked
          BY <1>4, <2>3, <2>6, <4>2, <4>5
        <5> QED BY <2>3, <2>8, <2>10, <4>1, <4>3, <5>1 DEF ChainsByAge
      <4> QED BY <4>4, <4>5
    <3> QED BY <3>1, <3>2
  <2> QED BY <1>0, <2>1, <2>7, <2>8, <2>9, <2>10 DEF ChainsByAge
<1>9. CASE Restamps \/ LeavesChains
  BY <1>0, <1>5, <1>9 DEF Restamps, LeavesChains
<1> QED BY <1>6, <1>7, <1>8, <1>9, ChainSteps DEF AgeNext

AgeInv == IInv /\ StampsDiffer /\ ChainsByAge

\* Chains stay by age, and stamps differ, in every state.
LEMMA AgeInductive == ASSUME ClockBound <= TimeMax PROVE AgeSpec => []AgeInv
<1>1. AgeInit => AgeInv
  <2> SUFFICES ASSUME AgeInit PROVE StampsDiffer /\ ChainsByAge
    BY InitInv DEF AgeInit, AgeInv
  <2>1. \A c \in Bins : ToSet(bins[c]) = {}
    BY EveryEntryFree DEF AgeInit, Init
  <2>2. Linked = {}
    BY <2>1, LinkedElements
  <2>3. pc = "idle"
    BY DEF AgeInit, Init
  <2>4. \A c \in Bins : DOMAIN bins[c] = {}
    BY <2>1 DEF ToSet
  <2> QED BY <2>2, <2>3, <2>4 DEF StampsDiffer, ChainsByAge
<1>2. AgeInv /\ [AgeNext]_ageVars => AgeInv'
  <2> SUFFICES ASSUME AgeInv, [AgeNext]_ageVars PROVE AgeInv'
    OBVIOUS
  <2>1. CASE AgeNext
    BY <2>1, StepInv, StampsStayDifferent, ChainsStayByAge DEF AgeInv, AgeNext
  <2>2. CASE UNCHANGED ageVars
    <3>1. IInv'
      BY <2>2, StutterInv DEF AgeInv, ageVars
    <3>2. UNCHANGED <<bins, entries, time, pc, born>>
      BY <2>2 DEF ageVars, vars
    <3>3. Linked' = Linked
      BY <3>2, LinkedElements, LinkedElementsNext
    <3> QED BY <3>1, <3>2, <3>3 DEF AgeInv, StampsDiffer, ChainsByAge
  <2> QED BY <2>1, <2>2
<1> QED BY <1>1, <1>2, PTL DEF AgeSpec

\* An entry is evicted by evict only, and is the first of the chain it takes
\* the entry from.
LEMMA EvictedBy ==
  ASSUME ClockBound <= TimeMax, IInv, [Next]_vars, NEW e \in Evicted
  PROVE  \E b \in Bins : Evicts(b, e)
<1>1. e \in Linked /\ e \notin Linked' /\ pc # "idle"
  BY DEF Evicted
<1>2. ~ (Restamps \/ Empties)
  BY <1>1 DEF Restamps, Empties
<1>3. ~ LeavesChains
  BY <1>1, LinkedElements, LinkedElementsNext DEF LeavesChains
<1>4. ASSUME NEW f, Links(f) PROVE FALSE
  BY <1>1, <1>4, PutLinks DEF Links
<1>5. PICK b \in Bins : \E f : Evicts(b, f)
  BY <1>2, <1>3, <1>4, ChainSteps
<1>6. PICK f : Evicts(b, f)
  BY <1>5
<1>7. Linked' = Linked \ {f}
  BY <1>6, PurgeUnlinks DEF Evicts
<1> QED BY <1>1, <1>6, <1>7

\* The entries of a key's bin are those on its chain.
LEMMA OnBin ==
  ASSUME IInv, NEW b \in Bins, NEW f \in Linked
  PROVE  BinOfEntry(f) = b <=> f \in ToSet(bins[b])
<1>1. PICK c \in Bins : f \in ToSet(bins[c])
  BY LinkedElements
<1>2. \A d \in Bins : f \in ToSet(bins[d]) => BinOf[entries[f].key] = d
  BY DEF IInv, OnOwnChain
<1> QED BY <1>1, <1>2 DEF BinOfEntry

\* cache_put evicts first the entry put first on its chain, whatever has been
\* used since (evict takes the head of a chain, new entries go to its end).
THEOREM EvictsOldest ==
  ASSUME ClockBound <= TimeMax
  PROVE  AgeSpec => EvictsOldestOfChain
<1>1. AgeInv /\ [AgeNext]_ageVars =>
        [\A e \in Evicted : \A f \in Linked :
           BinOfEntry(f) = BinOfEntry(e) => born[e] <= born[f]]_ageVars
  <2> SUFFICES ASSUME AgeInv, AgeNext, NEW e \in Evicted, NEW f \in Linked,
                      BinOfEntry(f) = BinOfEntry(e)
               PROVE  born[e] <= born[f]
    BY DEF AgeInv
  <2>1. PICK b \in Bins : Evicts(b, e)
    BY EvictedBy DEF AgeInv, AgeNext
  <2>2. e \in ToSet(bins[b]) /\ e = bins[b][1] /\ e \in Linked
    <3>1. bins[b] \in Seq(Entries) /\ IsInjective(bins[b]) /\ bins[b] # <<>>
      BY <2>1, BinsAssumption DEF Evicts, AgeInv, IInv, OneChain, Bins
    <3> QED BY <2>1, <3>1, Unlinked, LinkedElements DEF Evicts
  <2>3. f \in ToSet(bins[b])
    BY <2>2, OnBin DEF AgeInv
  <2>4. PICK i \in DOMAIN bins[b] : bins[b][i] = f
    BY <2>3 DEF ToSet
  <2>5. DOMAIN bins[b] = 1 .. Len(bins[b]) /\ Len(bins[b]) \in Nat
    BY BinsAssumption, LenProperties DEF AgeInv, IInv, OneChain, Bins
  <2>6. born[f] \in Nat
    BY DEF AgeInv, ChainsByAge
  <2>7. CASE i = 1
    BY <2>2, <2>4, <2>6, <2>7
  <2>8. CASE i # 1
    BY <2>2, <2>4, <2>5, <2>8 DEF AgeInv, ChainsByAge
  <2> QED BY <2>7, <2>8
<1> QED BY <1>1, AgeInductive, PTL DEF EvictsOldestOfChain, AgeSpec

\* The entry used last is evicted only when nothing is linked but its chain:
\* evict compares the stamps of the chains' first entries, and stamps differ.
THEOREM LastUsedStays ==
  ASSUME ClockBound <= TimeMax
  PROVE  AgeSpec => LastUsedSurvives
<1>1. AgeInv /\ [AgeNext]_ageVars =>
        [\A e \in Evicted :
           (\A f \in Linked : entries[f].time <= entries[e].time)
             => \A f \in Linked : BinOfEntry(f) = BinOfEntry(e)]_ageVars
  <2> SUFFICES ASSUME AgeInv, AgeNext, NEW e \in Evicted, NEW f \in Linked,
                      \A g \in Linked : entries[g].time <= entries[e].time,
                      BinOfEntry(f) # BinOfEntry(e)
               PROVE  FALSE
    BY DEF AgeInv
  <2>0. time \in Nat /\ time <= TimeMax /\ TimeMax \in Nat
    BY ClockAssumption DEF AgeInv, IInv, TypeOK, Times
  <2>1. PICK b \in Bins : Evicts(b, e)
    BY EvictedBy DEF AgeInv, AgeNext
  <2>2. PICK c \in Bins : f \in ToSet(bins[c])
    BY LinkedElements
  <2>3. \A d \in Bins : bins[d] # <<>> =>
          Head(bins[d]) \in ToSet(bins[d]) /\ Head(bins[d]) \in Linked
    <3> TAKE d \in Bins
    <3> HAVE bins[d] # <<>>
    <3>1. bins[d] \in Seq(Entries) /\ IsInjective(bins[d])
      BY BinsAssumption DEF AgeInv, IInv, OneChain, Bins
    <3> QED BY <3>1, Unlinked, LinkedElements
  <2>4. bins[b] # <<>> /\ e = Head(bins[b]) /\ EvicteeBin(b)
    BY <2>1 DEF Evicts
  <2>5. bins[c] # <<>>
    BY <2>2 DEF ToSet
  <2>6. PICK g : g = Head(bins[c])
    OBVIOUS
  <2>7. g \in Linked /\ g \in ToSet(bins[c]) /\ e \in Linked /\ e \in ToSet(bins[b])
    BY <2>3, <2>4, <2>5, <2>6
  <2>8. BinOfEntry(f) = c /\ BinOfEntry(g) = c /\ BinOfEntry(e) = b
    BY <2>2, <2>7, OnBin DEF AgeInv
  <2>9. g # e
    BY <2>8
  <2>10. entries[g].time \in Nat /\ entries[e].time \in Nat /\ entries[g].time < time
    BY <2>7 DEF AgeInv, StampsDiffer
  <2>11. Evictable(c)
    BY <2>0, <2>5, <2>6, <2>10 DEF Evictable, HeadTime
  <2>12. entries[e].time <= entries[g].time
    BY <2>4, <2>6, <2>10, <2>11 DEF EvicteeBin, HeadTime
  <2>13. entries[g].time <= entries[e].time
    BY <2>7
  <2>14. entries[e].time = entries[g].time
    BY <2>10, <2>12, <2>13
  <2> QED BY <2>7, <2>9, <2>14 DEF AgeInv, StampsDiffer
<1> QED BY <1>1, AgeInductive, PTL DEF LastUsedSurvives, AgeSpec

=============================================================================
