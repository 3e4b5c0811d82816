--------------------------- MODULE SequenceLemmas ---------------------------
(***************************************************************************)
(* What a list is once an element is taken from it or put in it: unlinking *)
(* a free block (cache_put), a node of a hash's chain (hash_remove), and   *)
(* linking one (hash_insert).                                              *)
(***************************************************************************)
EXTENDS Integers, SequencesExt, SequenceTheorems, WellFoundedInduction, TLAPS

\* The smallest of some numbers is one of them: the first of some places.
LEMMA MinOf ==
  ASSUME NEW S \in SUBSET Nat, S # {}
  PROVE  Min(S) \in S /\ \A n \in S : Min(S) <= n
<1>1. PICK x \in S : \A y \in S : <<y, x>> \notin OpToRel(<, Nat)
  BY NatLessThanWellFounded, WFMin
<1>2. ASSUME NEW y \in S PROVE ~ (y < x)
  <2>1. y < x => <<y, x>> \in OpToRel(<, Nat)
    BY Zenon DEF OpToRel
  <2> QED BY <1>1, <2>1, Zenon
<1>3. \A y \in S : x <= y
  <2>1. \A y \in S : y \in Nat
    OBVIOUS
  <2> HIDE <1>1
  <2> QED BY <1>2, <2>1
<1> QED BY <1>3 DEF Min

\* A sequence without its element at i.
LEMMA Removed ==
  ASSUME NEW S, NEW F \in Seq(S), NEW i \in 1 .. Len(F)
  PROVE  /\ RemoveAt(F, i) \in Seq(S)
         /\ Len(RemoveAt(F, i)) = Len(F) - 1
         /\ \A j \in 1 .. i - 1 : RemoveAt(F, i)[j] = F[j]
         /\ \A j \in i .. Len(F) - 1 : RemoveAt(F, i)[j] = F[j + 1]
<1> DEFINE A == SubSeq(F, 1, i - 1)
           C == SubSeq(F, i + 1, Len(F))
<1>1. Len(F) \in Nat /\ \A j \in 1 .. Len(F) : F[j] \in S
  BY LenProperties, ElementOfSeq
<1>2. /\ A \in Seq(S)
      /\ Len(A) = i - 1
      /\ \A j \in 1 .. i - 1 : A[j] = F[j]
  BY <1>1, SubSeqProperties
<1>3. /\ C \in Seq(S)
      /\ Len(C) = Len(F) - i
      /\ \A j \in 1 .. Len(C) : C[j] = F[i + j]
  BY <1>1, SubSeqProperties
<1>4. RemoveAt(F, i) = A \o C
  BY DEF RemoveAt
<1> HIDE DEF A, C
<1>5. /\ A \o C \in Seq(S)
      /\ Len(A \o C) = Len(A) + Len(C)
      /\ \A j \in 1 .. Len(A) + Len(C) :
           (A \o C)[j] = IF j <= Len(A) THEN A[j] ELSE C[j - Len(A)]
  BY <1>2, <1>3, ConcatProperties
<1>6. Len(A) + Len(C) = Len(F) - 1
  BY <1>1, <1>2, <1>3
<1>7. ASSUME NEW j \in 1 .. i - 1
      PROVE  (A \o C)[j] = F[j]
  <2>1. j \in 1 .. Len(A) + Len(C) /\ j <= Len(A)
    BY <1>1, <1>2, <1>6
  <2> QED BY <1>2, <1>5, <2>1
<1>8. ASSUME NEW j \in i .. Len(F) - 1
      PROVE  (A \o C)[j] = F[j + 1]
  <2>1. /\ j \in 1 .. Len(A) + Len(C) /\ ~ (j <= Len(A))
        /\ j - Len(A) \in 1 .. Len(C) /\ i + (j - Len(A)) = j + 1
    BY <1>1, <1>2, <1>3, <1>6
  <2> QED BY <1>3, <1>5, <2>1
<1> QED BY <1>4, <1>5, <1>6, <1>7, <1>8

\* Taking an element away leaves every element that is not its equal.
LEMMA RemovedElements ==
  ASSUME NEW S, NEW F \in Seq(S), NEW i \in 1 .. Len(F)
  PROVE  /\ RemoveAt(F, i) \in Seq(S)
         /\ Range(F) \ {F[i]} \subseteq Range(RemoveAt(F, i))
<1>1. Len(F) \in Nat
  BY LenProperties
<1>2. ASSUME NEW j \in 1 .. Len(F), F[j] # F[i]
      PROVE  \E k \in 1 .. Len(RemoveAt(F, i)) : RemoveAt(F, i)[k] = F[j]
  <2>1. CASE j < i
    <3>1. j \in 1 .. i - 1 /\ j \in 1 .. Len(F) - 1
      BY <1>1, <2>1
    <3> QED BY <3>1, Removed
  <2>2. CASE j > i
    <3>1. j - 1 \in i .. Len(F) - 1 /\ j - 1 \in 1 .. Len(F) - 1 /\ (j - 1) + 1 = j
      BY <1>1, <2>2
    <3> QED BY <3>1, Removed
  <2> QED BY <1>1, <1>2, <2>1, <2>2
<1>3. RemoveAt(F, i) \in Seq(S)
  BY Removed
<1>4. DOMAIN F = 1 .. Len(F) /\ DOMAIN RemoveAt(F, i) = 1 .. Len(RemoveAt(F, i))
  BY <1>3, LenProperties
<1> QED BY <1>2, <1>3, <1>4 DEF Range

\* A sequence with an element put in at i.
LEMMA Inserted ==
  ASSUME NEW S, NEW F \in Seq(S), NEW i \in 1 .. Len(F) + 1, NEW e \in S
  PROVE  /\ InsertAt(F, i, e) \in Seq(S)
         /\ Len(InsertAt(F, i, e)) = Len(F) + 1
         /\ \A j \in 1 .. i - 1 : InsertAt(F, i, e)[j] = F[j]
         /\ InsertAt(F, i, e)[i] = e
         /\ \A j \in i .. Len(F) : InsertAt(F, i, e)[j + 1] = F[j]
<1> DEFINE A == SubSeq(F, 1, i - 1)
           C == SubSeq(F, i, Len(F))
           AE == A \o <<e>>
<1>1. Len(F) \in Nat /\ \A j \in 1 .. Len(F) : F[j] \in S
  BY LenProperties, ElementOfSeq
<1>2. /\ A \in Seq(S)
      /\ Len(A) = i - 1
      /\ \A j \in 1 .. i - 1 : A[j] = F[j]
  BY <1>1, SubSeqProperties
<1>3. /\ C \in Seq(S)
      /\ Len(C) = Len(F) - i + 1
      /\ \A j \in 1 .. Len(C) : C[j] = F[i + j - 1]
  BY <1>1, SubSeqProperties
<1>4. <<e>> \in Seq(S) /\ Len(<<e>>) = 1 /\ <<e>>[1] = e
  OBVIOUS
<1>5. InsertAt(F, i, e) = AE \o C
  BY DEF InsertAt
<1> HIDE DEF A, C
<1>6. /\ AE \in Seq(S)
      /\ Len(AE) = i
      /\ \A j \in 1 .. i : AE[j] = IF j <= Len(A) THEN A[j] ELSE <<e>>[j - Len(A)]
  <2>1. Len(A) + Len(<<e>>) = i
    BY <1>2, <1>4
  <2> QED BY <1>2, <1>4, <2>1, ConcatProperties
<1> HIDE DEF AE
<1> DEFINE G == AE \o C
<1>7. /\ G \in Seq(S)
      /\ Len(G) = Len(F) + 1
      /\ \A j \in 1 .. Len(F) + 1 : G[j] = IF j <= i THEN AE[j] ELSE C[j - i]
  <2>1. Len(AE) + Len(C) = Len(F) + 1 /\ Len(AE) = i
    BY <1>1, <1>3, <1>6
  <2>2. AE \in Seq(S) /\ C \in Seq(S)
    BY <1>3, <1>6
  <2>3. /\ G \in Seq(S) /\ Len(G) = Len(AE) + Len(C)
        /\ \A j \in 1 .. Len(AE) + Len(C) :
             G[j] = IF j <= Len(AE) THEN AE[j] ELSE C[j - Len(AE)]
    BY <2>2, ConcatProperties
  <2> HIDE DEF G
  <2> QED BY <2>1, <2>3
<1> HIDE DEF G
<1>8. G[i] = e
  <2>1. ~ (i <= Len(A)) /\ i - Len(A) = 1 /\ i \in 1 .. Len(F) + 1 /\ i \in 1 .. i
    BY <1>1, <1>2
  <2>2. AE[i] = e
    BY <1>4, <1>6, <2>1
  <2>3. G[i] = AE[i]
    BY <1>1, <1>7, <2>1
  <2> QED BY <2>2, <2>3
<1>9. ASSUME NEW j \in 1 .. i - 1 PROVE G[j] = F[j]
  <2>1. j \in 1 .. Len(F) + 1 /\ j \in 1 .. i /\ j <= Len(A) /\ j <= i
    BY <1>1, <1>2
  <2>2. AE[j] = F[j]
    BY <1>2, <1>6, <2>1
  <2> QED BY <1>7, <2>1, <2>2
<1>10. ASSUME NEW j \in i .. Len(F) PROVE G[j + 1] = F[j]
  <2>1. /\ j + 1 \in 1 .. Len(F) + 1 /\ ~ (j + 1 <= i)
        /\ j + 1 - i \in 1 .. Len(C) /\ i + (j + 1 - i) - 1 = j
    BY <1>1, <1>3
  <2>2. G[j + 1] = C[j + 1 - i]
    BY <1>7, <2>1
  <2>3. C[j + 1 - i] = F[i + (j + 1 - i) - 1]
    BY <1>3, <2>1
  <2> QED BY <2>1, <2>2, <2>3
<1> QED BY <1>5, <1>7, <1>8, <1>9, <1>10 DEF G

\* Putting one in adds it, and takes no other away nor moves it forward.
LEMMA InsertedElements ==
  ASSUME NEW S, NEW F \in Seq(S), NEW i \in 1 .. Len(F) + 1, NEW e \in S
  PROVE  /\ InsertAt(F, i, e) \in Seq(S)
         /\ Range(F) \cup {e} \subseteq Range(InsertAt(F, i, e))
         /\ \A j \in DOMAIN F :
              \E k \in DOMAIN InsertAt(F, i, e) : k >= j /\ InsertAt(F, i, e)[k] = F[j]
<1> DEFINE G == InsertAt(F, i, e)
<1>1. Len(F) \in Nat /\ DOMAIN F = 1 .. Len(F)
  BY LenProperties
<1>2. /\ G \in Seq(S) /\ DOMAIN G = 1 .. Len(F) + 1
      /\ \A j \in 1 .. i - 1 : G[j] = F[j]
      /\ G[i] = e
      /\ \A j \in i .. Len(F) : G[j + 1] = F[j]
  <2>1. /\ G \in Seq(S) /\ Len(G) = Len(F) + 1
        /\ \A j \in 1 .. i - 1 : G[j] = F[j]
        /\ G[i] = e
        /\ \A j \in i .. Len(F) : G[j + 1] = F[j]
    BY Inserted
  <2> HIDE DEF G
  <2> QED BY <2>1, LenProperties
<1> HIDE DEF G
<1>3. ASSUME NEW j \in 1 .. Len(F)
      PROVE  \E k \in 1 .. Len(F) + 1 : k >= j /\ G[k] = F[j]
  <2>1. CASE j < i
    <3>1. j \in 1 .. i - 1 /\ j \in 1 .. Len(F) + 1 /\ j >= j
      BY <1>1, <2>1
    <3> QED BY <1>2, <3>1
  <2>2. CASE j >= i
    <3>1. j \in i .. Len(F) /\ j + 1 \in 1 .. Len(F) + 1 /\ j + 1 >= j
      BY <1>1, <2>2
    <3> QED BY <1>2, <3>1
  <2>3. j < i \/ j >= i
    BY <1>1
  <2> QED BY <2>1, <2>2, <2>3
<1>4. e \in Range(G)
  BY <1>1, <1>2 DEF Range
<1>5. ASSUME NEW x \in Range(F) PROVE x \in Range(G)
  <2>1. PICK j \in 1 .. Len(F) : x = F[j]
    BY <1>1 DEF Range
  <2> QED BY <1>2, <1>3, <2>1 DEF Range
<1> QED BY <1>1, <1>2, <1>3, <1>4, <1>5 DEF G

\* If no element is there twice, that stays so when one is taken away, or one
\* put in that is not there.
LEMMA RemovedDistinct ==
  ASSUME NEW S, NEW F \in Seq(S), NEW i \in 1 .. Len(F), IsInjective(F)
  PROVE  /\ IsInjective(RemoveAt(F, i))
         /\ Range(RemoveAt(F, i)) = Range(F) \ {F[i]}
<1> DEFINE G == RemoveAt(F, i)
           Old(j) == IF j < i THEN j ELSE j + 1
<1>1. Len(F) \in Nat /\ DOMAIN F = 1 .. Len(F)
  BY LenProperties
<1>2. /\ G \in Seq(S) /\ DOMAIN G = 1 .. Len(F) - 1
      /\ \A j \in 1 .. i - 1 : G[j] = F[j]
      /\ \A j \in i .. Len(F) - 1 : G[j] = F[j + 1]
  BY Removed, LenProperties
<1> HIDE DEF G
<1>3. ASSUME NEW j \in DOMAIN G
      PROVE  j \in Nat /\ Old(j) \in DOMAIN F /\ Old(j) # i /\ G[j] = F[Old(j)]
  <2>1. CASE j < i
    <3>1. j \in 1 .. i - 1 /\ j \in 1 .. Len(F) /\ Old(j) = j
      BY <1>1, <1>2, <2>1
    <3> QED BY <1>1, <1>2, <2>1, <3>1
  <2>2. CASE ~ j < i
    <3>1. j \in i .. Len(F) - 1 /\ Old(j) = j + 1 /\ j + 1 \in 1 .. Len(F) /\ j + 1 # i
      BY <1>1, <1>2, <2>2
    <3> QED BY <1>1, <1>2, <3>1
  <2> QED BY <2>1, <2>2
<1>4. IsInjective(G)
  <2>1. ASSUME NEW j \in DOMAIN G, NEW k \in DOMAIN G, G[j] = G[k] PROVE j = k
    <3>1. Old(j) = Old(k)
      BY <1>3, <2>1 DEF IsInjective
    <3>2. \A x, y \in Nat : Old(x) = Old(y) => x = y
      OBVIOUS
    <3> QED BY <1>3, <3>1, <3>2
  <2> QED BY <2>1 DEF IsInjective
<1>5. Range(G) \subseteq Range(F) \ {F[i]}
  <2>1. ASSUME NEW j \in DOMAIN G PROVE G[j] \in Range(F) /\ G[j] # F[i]
    BY <1>1, <1>3 DEF IsInjective, Range
  <2> QED BY <2>1 DEF Range
<1>6. Range(F) \ {F[i]} \subseteq Range(G)
  BY RemovedElements DEF G
<1> QED BY <1>4, <1>5, <1>6 DEF G

LEMMA InsertedDistinct ==
  ASSUME NEW S, NEW F \in Seq(S), NEW i \in 1 .. Len(F) + 1, NEW e \in S,
         IsInjective(F), e \notin Range(F)
  PROVE  /\ IsInjective(InsertAt(F, i, e))
         /\ Range(InsertAt(F, i, e)) = Range(F) \cup {e}
<1> DEFINE G == InsertAt(F, i, e)
           Old(j) == IF j < i THEN j ELSE j - 1
<1>1. Len(F) \in Nat /\ DOMAIN F = 1 .. Len(F)
  BY LenProperties
<1>2. /\ G \in Seq(S) /\ DOMAIN G = 1 .. Len(F) + 1
      /\ \A j \in 1 .. i - 1 : G[j] = F[j]
      /\ G[i] = e
      /\ \A j \in i .. Len(F) : G[j + 1] = F[j]
  <2>1. /\ G \in Seq(S) /\ Len(G) = Len(F) + 1
        /\ \A j \in 1 .. i - 1 : G[j] = F[j]
        /\ G[i] = e
        /\ \A j \in i .. Len(F) : G[j + 1] = F[j]
    BY Inserted, SMTT(30)
  <2> HIDE DEF G
  <2> QED BY <2>1, LenProperties
<1> HIDE DEF G
<1>3. ASSUME NEW j \in DOMAIN G, j # i
      PROVE  j \in Nat /\ Old(j) \in DOMAIN F /\ G[j] = F[Old(j)]
  <2>1. CASE j < i
    <3>1. j \in 1 .. i - 1 /\ j \in 1 .. Len(F) /\ Old(j) = j
      BY <1>1, <1>2, <2>1
    <3> QED BY <1>1, <1>2, <3>1
  <2>2. CASE ~ j < i
    <3>1. j - 1 \in i .. Len(F) /\ Old(j) = j - 1 /\ j - 1 \in 1 .. Len(F) /\ (j - 1) + 1 = j
      BY <1>1, <1>2, <1>3, <2>2
    <3>2. j \in Nat
      BY <1>2
    <3> QED BY <1>1, <1>2, <3>1, <3>2
  <2> QED BY <2>1, <2>2
<1>4. \A j \in DOMAIN G : j # i => G[j] \in Range(F) /\ G[j] # e
  BY <1>3 DEF Range
<1>5. IsInjective(G)
  <2>1. ASSUME NEW j \in DOMAIN G, NEW k \in DOMAIN G, G[j] = G[k] PROVE j = k
    <3>1. CASE j = i \/ k = i
      BY <1>2, <1>4, <2>1, <3>1
    <3>2. CASE j # i /\ k # i
      <4>1. Old(j) = Old(k)
        BY <1>3, <2>1, <3>2 DEF IsInjective
      <4>2. \A x, y \in Nat : x # i /\ y # i /\ Old(x) = Old(y) => x = y
        BY <1>1
      <4> QED BY <1>3, <3>2, <4>1, <4>2
    <3> QED BY <3>1, <3>2
  <2> QED BY <2>1 DEF IsInjective
<1>6. Range(G) \subseteq Range(F) \cup {e}
  BY <1>2, <1>4 DEF Range
<1>7. Range(F) \cup {e} \subseteq Range(G)
  BY InsertedElements DEF G
<1> QED BY <1>5, <1>6, <1>7 DEF G

=============================================================================
