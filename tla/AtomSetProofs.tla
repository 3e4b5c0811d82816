---------------------------- MODULE AtomSetProofs ----------------------------
(***************************************************************************)
(* That an atom goes on naming its block, for any blocks and any sizes of  *)
(* pools: AtomSet implements AtomNames.  And that a digest keeps its index *)
(* while a database is there, for any databases that share the set.        *)
(*                                                                         *)
(* What it turns on is that no two locations share bytes, deleted ones     *)
(* included: a place taken again is then nobody else's, and what is        *)
(* written or scribbled there disturbs no other block.                     *)
(***************************************************************************)
EXTENDS DigestDb, SequenceLemmas, FiniteSetTheorems

Loc == [pool : Nat, at : Nat, length : Int \ {0}]

\* The end of a location.
End(loc) == loc.at + Magnitude(loc.length)

\* Each location lies inside its pool, and no two overlap.
Sound(L, P) ==
  /\ L \in Seq(Loc) /\ P \in Seq(Seq(Byte))
  /\ \A a \in DOMAIN L : L[a].pool \in DOMAIN P /\ End(L[a]) <= Len(P[L[a].pool])
  /\ \A i \in DOMAIN P : Len(P[i]) <= BlkPoolSize
  /\ \A a, b \in DOMAIN L :
       a # b /\ L[a].pool = L[b].pool => End(L[a]) <= L[b].at \/ End(L[b]) <= L[a].at

\* The data at a location, in any pools.
Data(P, loc) == SubSeq(P[loc.pool], loc.at + 1, End(loc))

\* The pools with a block written at a location, and the locations with
\* another length for one.
Overwritten(P, loc, block) == [P EXCEPT ![loc.pool] = Written(@, loc.at, block)]
WithLength(L, a, n) == [L EXCEPT ![a].length = n]

\* No block has two atoms.
EachOnce == \A a, b \in Live : Bytes(locs[a + 1]) = Bytes(locs[b + 1]) => a = b

PoolsListed ==
  /\ listed \in BOOLEAN /\ l_used \in Nat
  /\ l_used * LocPoolSize >= Len(locs)
  /\ l_used > 0 => listed

IInv == Sound(locs, blkpools) /\ EachOnce /\ PoolsListed

-----------------------------------------------------------------------------
(* Locations and their data.                                               *)

LEMMA MagnitudeOf ==
  ASSUME NEW n \in Int \ {0}
  PROVE  Magnitude(n) \in Nat \ {0} /\ Magnitude(-n) = Magnitude(n)
BY DEF Magnitude

LEMMA LocOf ==
  ASSUME NEW L, NEW P, Sound(L, P), NEW a \in DOMAIN L
  PROVE  /\ DOMAIN L = 1 .. Len(L) /\ DOMAIN P = 1 .. Len(P)
         /\ Len(L) \in Nat /\ Len(P) \in Nat
         /\ a \in Nat /\ a \in 1 .. Len(L)
         /\ L[a] \in Loc /\ L[a].pool \in DOMAIN P
         /\ L[a].pool \in Nat /\ L[a].at \in Nat /\ L[a].length \in Int \ {0}
         /\ Magnitude(L[a].length) \in Nat \ {0} /\ End(L[a]) \in Nat
         /\ P[L[a].pool] \in Seq(Byte) /\ Len(P[L[a].pool]) \in Nat
         /\ End(L[a]) <= Len(P[L[a].pool])
<1>1. L \in Seq(Loc) /\ P \in Seq(Seq(Byte))
  BY DEF Sound
<1>2. /\ DOMAIN L = 1 .. Len(L) /\ Len(L) \in Nat
      /\ DOMAIN P = 1 .. Len(P) /\ Len(P) \in Nat
  BY <1>1, LenProperties
<1>3. L[a] \in Loc
  BY <1>1, <1>2, ElementOfSeq
<1>4. L[a].pool \in Nat /\ L[a].at \in Nat /\ L[a].length \in Int \ {0}
  BY <1>3 DEF Loc
<1>5. Magnitude(L[a].length) \in Nat \ {0}
  BY <1>4, MagnitudeOf
<1>6. L[a].pool \in DOMAIN P /\ End(L[a]) <= Len(P[L[a].pool])
  BY DEF Sound
<1>7. P[L[a].pool] \in Seq(Byte)
  BY <1>1, <1>2, <1>6, ElementOfSeq
<1>8. Len(P[L[a].pool]) \in Nat
  BY <1>7, LenProperties
<1> QED BY <1>2, <1>3, <1>4, <1>5, <1>6, <1>7, <1>8 DEF End

\* A location's data, byte by byte.
LEMMA DataAt ==
  ASSUME NEW L, NEW P, Sound(L, P), NEW a \in DOMAIN L
  PROVE  /\ Data(P, L[a]) \in Seq(Byte)
         /\ Len(Data(P, L[a])) = Magnitude(L[a].length)
         /\ \A k \in 1 .. Magnitude(L[a].length) :
              Data(P, L[a])[k] = P[L[a].pool][L[a].at + k]
<1> DEFINE s == P[L[a].pool]
           m == L[a].at + 1
           n == End(L[a])
<1>1. /\ L[a].at \in Nat /\ Magnitude(L[a].length) \in Nat \ {0}
      /\ s \in Seq(Byte) /\ Len(s) \in Nat /\ n \in Nat /\ n <= Len(s)
  BY LocOf
<1>2. m \in Int /\ n \in Int /\ m <= n /\ n - m + 1 = Magnitude(L[a].length)
  BY <1>1 DEF End
<1>3. \A i \in m .. n : s[i] \in Byte
  <2>1. \A i \in m .. n : i \in 1 .. Len(s)
    BY <1>1, <1>2
  <2> QED BY <1>1, <2>1, ElementOfSeq
<1>4. /\ SubSeq(s, m, n) \in Seq(Byte)
      /\ Len(SubSeq(s, m, n)) = n - m + 1
      /\ \A i \in 1 .. n - m + 1 : SubSeq(s, m, n)[i] = s[m + i - 1]
  BY <1>2, <1>3, SubSeqProperties
<1>5. \A k \in 1 .. Magnitude(L[a].length) : m + k - 1 = L[a].at + k
  BY <1>1
<1> QED BY <1>2, <1>4, <1>5 DEF Data

\* A location's data is the block whose bytes are there.
LEMMA DataIs ==
  ASSUME NEW L, NEW P, Sound(L, P), NEW a \in DOMAIN L,
         NEW block \in Seq(Byte), Len(block) = Magnitude(L[a].length),
         \A k \in 1 .. Len(block) : P[L[a].pool][L[a].at + k] = block[k]
  PROVE  Data(P, L[a]) = block
<1>1. /\ Data(P, L[a]) \in Seq(Byte)
      /\ Len(Data(P, L[a])) = Len(block)
      /\ \A k \in 1 .. Len(block) : Data(P, L[a])[k] = block[k]
  BY DataAt
<1> QED BY <1>1, SeqEqual

\* Locations at the same place have the same data when their bytes agree.
LEMMA SameData ==
  ASSUME NEW L, NEW P, Sound(L, P), NEW a \in DOMAIN L,
         NEW M, NEW Q, Sound(M, Q), NEW b \in DOMAIN M,
         L[a].pool = M[b].pool, L[a].at = M[b].at,
         Magnitude(L[a].length) = Magnitude(M[b].length),
         \A k \in 1 .. Magnitude(L[a].length) :
           P[L[a].pool][L[a].at + k] = Q[L[a].pool][L[a].at + k]
  PROVE  Data(Q, M[b]) = Data(P, L[a])
<1>1. /\ Data(P, L[a]) \in Seq(Byte) /\ Data(Q, M[b]) \in Seq(Byte)
      /\ Len(Data(P, L[a])) = Len(Data(Q, M[b]))
      /\ Len(Data(Q, M[b])) = Magnitude(L[a].length)
  BY DataAt
<1>2. \A k \in 1 .. Len(Data(Q, M[b])) : Data(Q, M[b])[k] = Data(P, L[a])[k]
  BY <1>1, DataAt
<1> QED BY <1>1, <1>2, SeqEqual

\* Lengths may change sign and bytes may change.
LEMMA StillSound ==
  ASSUME NEW L, NEW P, Sound(L, P),
         NEW M \in Seq(Loc), Len(M) = Len(L),
         \A a \in DOMAIN L : /\ M[a].pool = L[a].pool /\ M[a].at = L[a].at
                             /\ Magnitude(M[a].length) = Magnitude(L[a].length),
         NEW Q \in Seq(Seq(Byte)), Len(Q) = Len(P),
         \A i \in DOMAIN P : Len(Q[i]) = Len(P[i])
  PROVE  Sound(M, Q)
<1>1. L \in Seq(Loc) /\ P \in Seq(Seq(Byte))
  BY DEF Sound
<1>2. DOMAIN M = DOMAIN L /\ DOMAIN Q = DOMAIN P
  BY <1>1, LenProperties
<1>3. \A a \in DOMAIN L : End(M[a]) = End(L[a])
  BY DEF End
<1> QED BY <1>2, <1>3 DEF Sound

\* Two locations may be exchanged.
LEMMA TransposedSound ==
  ASSUME NEW L, NEW P, Sound(L, P),
         NEW a \in Nat, NEW b \in Nat, a < Len(L), b < Len(L)
  PROVE  /\ Sound(Transposed(L, a, b), P)
         /\ Len(Transposed(L, a, b)) = Len(L)
         /\ \A c \in DOMAIN L :
              Transposed(L, a, b)[c] =
                IF c = b + 1 THEN L[a + 1] ELSE IF c = a + 1 THEN L[b + 1] ELSE L[c]
<1> DEFINE T == Transposed(L, a, b)
           E == [L EXCEPT ![a + 1] = L[b + 1]]
<1>1. L \in Seq(Loc) /\ Len(L) \in Nat /\ DOMAIN L = 1 .. Len(L)
  BY LenProperties DEF Sound
<1>2. a + 1 \in 1 .. Len(L) /\ b + 1 \in 1 .. Len(L)
  BY <1>1
<1>3. L[a + 1] \in Loc /\ L[b + 1] \in Loc
  BY <1>1, <1>2, ElementOfSeq
<1>4. /\ E \in Seq(Loc) /\ Len(E) = Len(L)
      /\ \A j \in 1 .. Len(L) : E[j] = IF j = a + 1 THEN L[b + 1] ELSE L[j]
  BY <1>1, <1>2, <1>3, ExceptSeq
<1>5. T = [E EXCEPT ![b + 1] = L[a + 1]]
  BY DEF Transposed
<1> HIDE DEF E, T
<1>6. /\ T \in Seq(Loc) /\ Len(T) = Len(L)
      /\ \A j \in 1 .. Len(L) : T[j] = IF j = b + 1 THEN L[a + 1] ELSE E[j]
  BY <1>2, <1>3, <1>4, <1>5, ExceptSeq
<1>7. \A c \in DOMAIN L :
        T[c] = IF c = b + 1 THEN L[a + 1] ELSE IF c = a + 1 THEN L[b + 1] ELSE L[c]
  BY <1>1, <1>4, <1>6
<1>8. DOMAIN T = DOMAIN L
  BY <1>1, <1>6, LenProperties
<1>9. \A c, d \in DOMAIN L : c # d =>
        \E e, f \in DOMAIN L : e # f /\ T[c] = L[e] /\ T[d] = L[f]
  BY <1>1, <1>2, <1>7
<1>10. \A c \in DOMAIN L : \E e \in DOMAIN L : T[c] = L[e]
  BY <1>1, <1>2, <1>7
<1>11. Sound(T, P)
  <2>1. \A c \in DOMAIN T : T[c].pool \in DOMAIN P /\ End(T[c]) <= Len(P[T[c].pool])
    BY <1>8, <1>10 DEF Sound
  <2>2. ASSUME NEW c \in DOMAIN T, NEW d \in DOMAIN T, c # d, T[c].pool = T[d].pool
        PROVE  End(T[c]) <= T[d].at \/ End(T[d]) <= T[c].at
    <3>1. PICK e \in DOMAIN L, f \in DOMAIN L : e # f /\ T[c] = L[e] /\ T[d] = L[f]
      BY <1>8, <1>9, <2>2
    <3> QED BY <2>2, <3>1 DEF Sound
  <2> QED BY <1>6, <2>1, <2>2 DEF Sound
<1> QED BY <1>6, <1>7, <1>11 DEF T

-----------------------------------------------------------------------------
(* Writing at a location, and adding one.                                  *)

LEMMA WrittenSeq ==
  ASSUME NEW s \in Seq(Byte), NEW at \in Nat, NEW block \in Seq(Byte)
  PROVE  /\ Written(s, at, block) \in Seq(Byte)
         /\ Len(Written(s, at, block)) = Len(s)
         /\ \A k \in 1 .. Len(s) :
              Written(s, at, block)[k] =
                IF k - at \in 1 .. Len(block) THEN block[k - at] ELSE s[k]
<1>1. /\ Len(s) \in Nat /\ DOMAIN s = 1 .. Len(s)
      /\ Len(block) \in Nat /\ DOMAIN block = 1 .. Len(block)
  BY LenProperties
<1>2. \A k \in 1 .. Len(s) :
        (IF k - at \in 1 .. Len(block) THEN block[k - at] ELSE s[k]) \in Byte
  BY <1>1, ElementOfSeq
<1>3. Written(s, at, block) =
        [k \in 1 .. Len(s) |-> IF k - at \in 1 .. Len(block) THEN block[k - at] ELSE s[k]]
  BY <1>1 DEF Written
<1>4. Written(s, at, block) \in [1 .. Len(s) -> Byte]
  BY <1>2, <1>3
<1>5. Written(s, at, block) \in Seq(Byte)
  BY <1>1, <1>4
<1>6. DOMAIN Written(s, at, block) = 1 .. Len(Written(s, at, block))
      /\ Len(Written(s, at, block)) \in Nat
  BY <1>5, LenProperties
<1>7. DOMAIN Written(s, at, block) = 1 .. Len(s)
  BY <1>4
<1>8. \A m, n \in Nat : 1 .. m = 1 .. n => m = n
  <2>1. ASSUME NEW m \in Nat, NEW n \in Nat, m < n PROVE 1 .. m # 1 .. n
    <3>1. n \in 1 .. n /\ n \notin 1 .. m
      BY <2>1
    <3> QED BY <3>1
  <2> QED BY <2>1
<1>9. Len(Written(s, at, block)) = Len(s)
  BY <1>1, <1>6, <1>7, <1>8
<1> QED BY <1>3, <1>5, <1>9

\* What is written at one location is its data then, and nobody else's changes.
LEMMA WriteOne ==
  ASSUME NEW L, NEW P, Sound(L, P), NEW a \in DOMAIN L,
         NEW block \in Seq(Byte), Len(block) = Magnitude(L[a].length),
         NEW Q, Q = Overwritten(P, L[a], block)
  PROVE  /\ Sound(L, Q) /\ Data(Q, L[a]) = block
         /\ \A b \in DOMAIN L \ {a} : Data(Q, L[b]) = Data(P, L[b])
<1> DEFINE i == L[a].pool
           at == L[a].at
           s == P[i]
           n == Magnitude(L[a].length)
<1>1. /\ P \in Seq(Seq(Byte)) /\ L \in Seq(Loc)
      /\ DOMAIN P = 1 .. Len(P) /\ i \in 1 .. Len(P)
      /\ at \in Nat /\ n \in Nat \ {0} /\ s \in Seq(Byte) /\ Len(s) \in Nat
      /\ at + n <= Len(s)
  BY LocOf DEF Sound, End
<1>2. /\ i = L[a].pool /\ at = L[a].at /\ s = P[i] /\ n = Magnitude(L[a].length)
      /\ Len(block) = n
  OBVIOUS
<1>3. Q = [P EXCEPT ![i] = Written(s, at, block)]
  BY DEF Overwritten
<1> HIDE DEF i, at, s, n
<1>4. /\ Written(s, at, block) \in Seq(Byte)
      /\ Len(Written(s, at, block)) = Len(s)
      /\ \A k \in 1 .. Len(s) :
           Written(s, at, block)[k] =
             IF k - at \in 1 .. Len(block) THEN block[k - at] ELSE s[k]
  <2>1. s \in Seq(Byte) /\ at \in Nat
    BY <1>1
  <2> QED BY <2>1, WrittenSeq, Zenon
<1>5. /\ Q \in Seq(Seq(Byte)) /\ Len(Q) = Len(P)
      /\ \A j \in 1 .. Len(P) : Q[j] = IF j = i THEN Written(s, at, block) ELSE P[j]
  BY <1>1, <1>4, <1>3, ExceptSeq
<1>6. \A j \in DOMAIN P : Len(Q[j]) = Len(P[j])
  BY <1>1, <1>4, <1>5, <1>2
<1>7. Sound(L, Q)
  BY <1>1, <1>5, <1>6, StillSound
<1>8. Data(Q, L[a]) = block
  <2>1. Q[i] = Written(s, at, block)
    BY <1>1, <1>5
  <2>2. ASSUME NEW k \in 1 .. n PROVE Q[i][at + k] = block[k]
    <3>1. at + k \in 1 .. Len(s) /\ (at + k) - at = k /\ k \in 1 .. Len(block)
      BY <1>1, <1>2
    <3> QED BY <1>4, <2>1, <3>1
  <2> QED BY <1>2, <1>7, <2>2, DataIs
<1>9. ASSUME NEW b \in DOMAIN L, b # a PROVE Data(Q, L[b]) = Data(P, L[b])
  <2>1. /\ L[b].pool \in 1 .. Len(P) /\ L[b].at \in Nat
        /\ Magnitude(L[b].length) \in Nat \ {0}
        /\ L[b].at + Magnitude(L[b].length) <= Len(P[L[b].pool])
    BY LocOf DEF End
  <2>2. ASSUME NEW k \in 1 .. Magnitude(L[b].length)
        PROVE  P[L[b].pool][L[b].at + k] = Q[L[b].pool][L[b].at + k]
    <3>1. CASE L[b].pool # i
      BY <1>1, <1>5, <2>1, <3>1
    <3>2. CASE L[b].pool = i
      <4>1. at + n <= L[b].at \/ L[b].at + Magnitude(L[b].length) <= at
        BY <1>9, <1>2, <3>2 DEF Sound, End
      <4>2. L[b].at + k \in 1 .. Len(s)
        <5>1. Len(P[L[b].pool]) = Len(s)
          BY <1>2, <3>2
        <5>2. \A x, m, e \in Nat : x + m <= e => \A j \in 1 .. m : x + j \in 1 .. e
          OBVIOUS
        <5>3. L[b].at + Magnitude(L[b].length) <= Len(s)
          BY <2>1, <5>1
        <5> QED BY <1>1, <2>1, <5>2, <5>3
      <4>3. (L[b].at + k) - at \notin 1 .. Len(block)
        <5>1. \A x, y, m \in Nat : x + n <= y \/ y + m <= x =>
                \A j \in 1 .. m : (y + j) - x \notin 1 .. n
          BY <1>1
        <5> QED BY <1>1, <1>2, <2>1, <4>1, <5>1
      <4>4. Q[i] = Written(s, at, block)
        BY <1>1, <1>5
      <4> QED BY <1>2, <1>4, <3>2, <4>2, <4>3, <4>4
    <3> QED BY <3>1, <3>2
  <2> QED BY <1>7, <2>2, SameData
<1> QED BY <1>7, <1>8, <1>9

\* A location takes another length, of the same magnitude.
LEMMA Relabelled ==
  ASSUME NEW L, NEW P, Sound(L, P), NEW a \in DOMAIN L,
         NEW n \in Int \ {0}, Magnitude(n) = Magnitude(L[a].length),
         NEW M, M = WithLength(L, a, n)
  PROVE  /\ Sound(M, P) /\ Len(M) = Len(L) /\ M[a].length = n
         /\ M[a].pool = L[a].pool /\ M[a].at = L[a].at
         /\ \A b \in DOMAIN L \ {a} : M[b] = L[b]
         /\ \A Q : \A b \in DOMAIN L : Data(Q, M[b]) = Data(Q, L[b])
<1> DEFINE l == [L[a] EXCEPT !.length = n]
<1>1. L \in Seq(Loc) /\ DOMAIN L = 1 .. Len(L) /\ P \in Seq(Seq(Byte)) /\ L[a] \in Loc
  BY LocOf DEF Sound
<1>2. l \in Loc /\ l.length = n /\ l.pool = L[a].pool /\ l.at = L[a].at
  BY <1>1 DEF Loc
<1>3. M = [L EXCEPT ![a] = l]
  BY DEF WithLength
<1> HIDE DEF l
<1>4. /\ M \in Seq(Loc) /\ Len(M) = Len(L)
      /\ \A b \in 1 .. Len(L) : M[b] = IF b = a THEN l ELSE L[b]
  BY <1>1, <1>2, <1>3, ExceptSeq
<1>5. \A b \in DOMAIN L : /\ M[b].pool = L[b].pool /\ M[b].at = L[b].at
                          /\ Magnitude(M[b].length) = Magnitude(L[b].length)
  BY <1>1, <1>2, <1>4
<1>6. Sound(M, P)
  BY <1>1, <1>4, <1>5, StillSound
<1>7. \A Q : \A b \in DOMAIN L : Data(Q, M[b]) = Data(Q, L[b])
  BY <1>5 DEF Data, End
<1> QED BY <1>1, <1>2, <1>4, <1>6, <1>7

\* A pool more, of no bytes.
LEMMA PoolAdded ==
  ASSUME NEW L, NEW P, Sound(L, P), BlkPoolSize \in Nat,
         NEW Q, Q = Append(P, <<>>)
  PROVE  /\ Sound(L, Q) /\ Len(P) + 1 \in DOMAIN Q /\ Q[Len(P) + 1] = <<>>
         /\ \A b \in DOMAIN L : Data(Q, L[b]) = Data(P, L[b])
<1>1. P \in Seq(Seq(Byte)) /\ Len(P) \in Nat /\ DOMAIN P = 1 .. Len(P) /\ L \in Seq(Loc)
  BY LenProperties DEF Sound
<1>2. <<>> \in Seq(Byte) /\ Len(<<>>) = 0
  BY EmptySeq
<1>3. /\ Q \in Seq(Seq(Byte)) /\ Len(Q) = Len(P) + 1
      /\ \A i \in 1 .. Len(P) : Q[i] = P[i]
      /\ Q[Len(P) + 1] = <<>>
  BY <1>1, <1>2, AppendProperties
<1>4. DOMAIN Q = 1 .. Len(P) + 1
  BY <1>3, LenProperties
<1>5. \A b \in DOMAIN L : L[b].pool \in DOMAIN P /\ Q[L[b].pool] = P[L[b].pool]
  BY <1>1, <1>3 DEF Sound
<1>6. \A i \in DOMAIN Q : Len(Q[i]) <= BlkPoolSize
  <2>1. \A i \in DOMAIN P : Len(P[i]) <= BlkPoolSize
    BY DEF Sound
  <2>2. ASSUME NEW i \in DOMAIN Q, i # Len(P) + 1 PROVE i \in DOMAIN P
    BY <1>1, <1>4, <2>2
  <2> QED BY <1>1, <1>2, <1>3, <2>1, <2>2
<1>7. DOMAIN P \subseteq DOMAIN Q
  BY <1>1, <1>4
<1>8. Sound(L, Q)
  BY <1>1, <1>3, <1>5, <1>6, <1>7 DEF Sound
<1>9. \A b \in DOMAIN L : Data(Q, L[b]) = Data(P, L[b])
  BY <1>5 DEF Data
<1> QED BY <1>1, <1>3, <1>4, <1>8, <1>9

\* A location more, for a block at the end of a pool that has room for it.
OneMore(L, P, i, block, M, Q) ==
  /\ block \in Seq(Byte) \ {<<>>}
  /\ Len(P[i]) + Len(block) <= BlkPoolSize
  /\ M = Append(L, [pool |-> i, at |-> Len(P[i]), length |-> Len(block)])
  /\ Q = [P EXCEPT ![i] = @ \o block]

LEMMA LocAdded ==
  ASSUME NEW L, NEW P, Sound(L, P), BlkPoolSize \in Nat,
         NEW i \in DOMAIN P, NEW block, NEW M, NEW Q, OneMore(L, P, i, block, M, Q)
  PROVE  /\ Sound(M, Q) /\ Len(M) = Len(L) + 1
         /\ M[Len(L) + 1].length = Len(block)
         /\ Data(Q, M[Len(L) + 1]) = block
         /\ \A b \in DOMAIN L : M[b] = L[b] /\ Data(Q, L[b]) = Data(P, L[b])
<1> DEFINE loc == [pool |-> i, at |-> Len(P[i]), length |-> Len(block)]
<1>1. /\ P \in Seq(Seq(Byte)) /\ Len(P) \in Nat /\ DOMAIN P = 1 .. Len(P)
      /\ L \in Seq(Loc) /\ Len(L) \in Nat /\ DOMAIN L = 1 .. Len(L)
  BY LenProperties DEF Sound
<1>2. /\ P[i] \in Seq(Byte) /\ Len(P[i]) \in Nat
      /\ Len(block) \in Nat \ {0} /\ block \in Seq(Byte)
      /\ Len(P[i]) + Len(block) <= BlkPoolSize
  <2>1. P[i] \in Seq(Byte)
    BY <1>1, ElementOfSeq
  <2>2. block \in Seq(Byte) \ {<<>>} /\ Len(P[i]) + Len(block) <= BlkPoolSize
    BY DEF OneMore
  <2> QED BY <2>1, <2>2, LenProperties, EmptySeq
<1>3. /\ P[i] \o block \in Seq(Byte)
      /\ Len(P[i] \o block) = Len(P[i]) + Len(block)
      /\ \A k \in 1 .. Len(P[i]) + Len(block) :
           (P[i] \o block)[k] = IF k <= Len(P[i]) THEN P[i][k] ELSE block[k - Len(P[i])]
  BY <1>2, ConcatProperties
<1>4. Q = [P EXCEPT ![i] = P[i] \o block]
  BY DEF OneMore
<1>5. /\ Q \in Seq(Seq(Byte)) /\ Len(Q) = Len(P)
      /\ \A j \in 1 .. Len(P) : Q[j] = IF j = i THEN P[i] \o block ELSE P[j]
  BY <1>1, <1>3, <1>4, ExceptSeq
<1>6. DOMAIN Q = DOMAIN P /\ Q[i] = P[i] \o block
  BY <1>1, <1>5, LenProperties
<1>7. /\ loc \in Loc /\ loc.pool = i /\ loc.at = Len(P[i]) /\ loc.length = Len(block)
      /\ Magnitude(loc.length) = Len(block) /\ End(loc) = Len(P[i]) + Len(block)
  BY <1>1, <1>2 DEF Loc, Magnitude, End
<1>8. /\ M \in Seq(Loc) /\ Len(M) = Len(L) + 1 /\ M[Len(L) + 1] = loc
      /\ \A b \in 1 .. Len(L) : M[b] = L[b]
      /\ DOMAIN M = 1 .. Len(L) + 1
  <2>1. M = Append(L, loc)
    BY DEF OneMore
  <2>2. loc \in Loc
    BY <1>7
  <2> HIDE DEF loc
  <2>3. /\ M \in Seq(Loc) /\ Len(M) = Len(L) + 1 /\ M[Len(L) + 1] = loc
        /\ \A b \in 1 .. Len(L) : M[b] = L[b]
    BY <1>1, <2>1, <2>2, AppendProperties
  <2> QED BY <2>3, LenProperties
<1> HIDE DEF loc
<1>9. \A j \in DOMAIN P : Len(P[j]) \in Nat /\ Len(Q[j]) \in Nat /\ Len(P[j]) <= Len(Q[j])
  <2>1. \A j \in DOMAIN P : P[j] \in Seq(Byte)
    BY <1>1, ElementOfSeq
  <2>2. \A j \in DOMAIN P : Len(P[j]) \in Nat
    BY <2>1, LenProperties
  <2>3. /\ Len(Q[i]) = Len(P[i]) + Len(block)
        /\ Len(P[i]) + Len(block) \in Nat /\ Len(P[i]) <= Len(P[i]) + Len(block)
    BY <1>2, <1>3, <1>6
  <2>4. \A j \in DOMAIN P : j = i \/ Q[j] = P[j]
    BY <1>1, <1>5
  <2>5. \A m \in Nat : m <= m
    OBVIOUS
  <2> QED BY <2>2, <2>3, <2>4, <2>5
<1>10. ASSUME NEW b \in DOMAIN M
       PROVE  b = Len(L) + 1 \/ b \in DOMAIN L
  BY <1>1, <1>8
<1>11. Sound(M, Q)
  <2>1. ASSUME NEW b \in DOMAIN M
        PROVE  M[b].pool \in DOMAIN Q /\ End(M[b]) <= Len(Q[M[b].pool])
    <3>1. CASE b = Len(L) + 1
      BY <1>2, <1>3, <1>6, <1>7, <1>8, <3>1
    <3>2. CASE b \in DOMAIN L
      <4>1. /\ M[b] = L[b] /\ L[b].pool \in DOMAIN P
            /\ End(L[b]) \in Nat /\ End(L[b]) <= Len(P[L[b].pool])
        BY <1>1, <1>8, <3>2, LocOf
      <4> QED BY <1>6, <1>9, <4>1
    <3> QED BY <1>10, <3>1, <3>2
  <2>2. \A j \in DOMAIN Q : Len(Q[j]) <= BlkPoolSize
    <3>1. \A j \in DOMAIN P : Len(P[j]) <= BlkPoolSize
      BY DEF Sound
    <3>2. \A j \in DOMAIN P : j = i \/ Q[j] = P[j]
      BY <1>1, <1>5
    <3>3. Len(Q[i]) <= BlkPoolSize
      BY <1>2, <1>3, <1>6
    <3> QED BY <1>6, <3>1, <3>2, <3>3
  <2>3. ASSUME NEW b \in DOMAIN L, L[b].pool = i PROVE End(L[b]) <= loc.at
    BY <1>7, <2>3, LocOf
  <2>4. ASSUME NEW b \in DOMAIN M, NEW c \in DOMAIN M, b # c, M[b].pool = M[c].pool
        PROVE  End(M[b]) <= M[c].at \/ End(M[c]) <= M[b].at
    <3>1. CASE b = Len(L) + 1
      <4>1. c \in DOMAIN L /\ M[b] = loc /\ M[c] = L[c]
        BY <1>1, <1>8, <1>10, <2>4, <3>1
      <4> QED BY <1>7, <2>3, <2>4, <4>1
    <3>2. CASE c = Len(L) + 1
      <4>1. b \in DOMAIN L /\ M[c] = loc /\ M[b] = L[b]
        BY <1>1, <1>8, <1>10, <2>4, <3>2
      <4> QED BY <1>7, <2>3, <2>4, <4>1
    <3>3. CASE b \in DOMAIN L /\ c \in DOMAIN L
      BY <1>1, <1>8, <2>4, <3>3 DEF Sound
    <3> QED BY <1>10, <3>1, <3>2, <3>3
  <2> QED BY <1>5, <1>8, <2>1, <2>2, <2>4 DEF Sound
<1>12. Data(Q, loc) = block
  <2>1. Len(L) + 1 \in DOMAIN M
    BY <1>1, <1>8
  <2>2. ASSUME NEW k \in 1 .. Len(block) PROVE Q[i][Len(P[i]) + k] = block[k]
    <3>1. /\ Len(P[i]) + k \in 1 .. Len(P[i]) + Len(block)
          /\ ~ (Len(P[i]) + k <= Len(P[i])) /\ Len(P[i]) + k - Len(P[i]) = k
      BY <1>2
    <3> QED BY <1>3, <1>6, <3>1
  <2>3. ASSUME NEW c \in DOMAIN M, M[c] = loc PROVE Data(Q, M[c]) = block
    <3>1. Len(block) = Magnitude(M[c].length) /\ block \in Seq(Byte)
      BY <1>2, <1>7, <2>3
    <3>2. \A k \in 1 .. Len(block) : Q[M[c].pool][M[c].at + k] = block[k]
      BY <1>7, <2>2, <2>3
    <3> QED BY <1>11, <3>1, <3>2, DataIs
  <2> QED BY <1>8, <2>1, <2>3
<1>13. ASSUME NEW b \in DOMAIN L PROVE M[b] = L[b] /\ Data(Q, L[b]) = Data(P, L[b])
  <2>1. M[b] = L[b] /\ b \in DOMAIN M
    BY <1>1, <1>8
  <2>2. /\ L[b].pool \in DOMAIN P /\ L[b].at \in Nat /\ Magnitude(L[b].length) \in Nat \ {0}
        /\ L[b].at + Magnitude(L[b].length) <= Len(P[L[b].pool])
    BY LocOf DEF End
  <2>3. ASSUME NEW k \in 1 .. Magnitude(L[b].length)
        PROVE  P[L[b].pool][L[b].at + k] = Q[L[b].pool][L[b].at + k]
    <3>1. CASE L[b].pool # i
      BY <1>1, <1>5, <2>2, <3>1
    <3>2. CASE L[b].pool = i
      <4>1. \A x, m, e \in Nat : x + m <= e => \A j \in 1 .. m : x + j \in 1 .. e
        OBVIOUS
      <4>2. L[b].at + k \in 1 .. Len(P[i])
        BY <1>2, <2>2, <3>2, <4>1
      <4>3. /\ L[b].at + k \in 1 .. Len(P[i]) + Len(block)
            /\ L[b].at + k <= Len(P[i])
        BY <1>2, <4>2
      <4> QED BY <1>3, <1>6, <3>2, <4>3
    <3> QED BY <3>1, <3>2
  <2>4. /\ L[b].pool = M[b].pool /\ L[b].at = M[b].at
        /\ Magnitude(L[b].length) = Magnitude(M[b].length)
    BY <2>1
  <2>5. Data(Q, M[b]) = Data(P, L[b])
    BY <1>11, <2>1, <2>3, <2>4, SameData
  <2> QED BY <2>1, <2>5
<1> QED BY <1>7, <1>8, <1>11, <1>12, <1>13

-----------------------------------------------------------------------------
(* What atom_new leaves.                                                   *)

\* A new record of Placed: a location for the block that was not in use, and
\* the others as they were.
PlacedAs(new, block) ==
  /\ Sound(new.locs, new.blkpools)
  /\ new.atom \in Nat /\ new.atom < Len(new.locs) /\ new.atom \notin Live
  /\ Len(locs) <= Len(new.locs)
  /\ new.locs[new.atom + 1].length = Len(block)
  /\ Data(new.blkpools, new.locs[new.atom + 1]) = block
  /\ \A a \in 0 .. Len(new.locs) - 1 : a # new.atom =>
       /\ a \in 0 .. Len(locs) - 1
       /\ new.locs[a + 1] = locs[a + 1]
       /\ Data(new.blkpools, locs[a + 1]) = Data(blkpools, locs[a + 1])

LEMMA BlockFits ==
  ASSUME BlocksFit, NEW block \in Blocks
  PROVE  /\ block \in Seq(Byte) \ {<<>>} /\ block \in Seq(Byte)
         /\ Len(block) \in Nat \ {0} /\ Len(block) \in Int \ {0}
         /\ Magnitude(Len(block)) = Len(block) /\ Magnitude(-Len(block)) = Len(block)
         /\ BlkPoolSize \in Nat /\ Len(block) <= BlkPoolSize
<1>1. /\ block \in Seq(Byte) \ {<<>>} /\ BlkPoolSize \in Nat /\ Len(block) <= BlkPoolSize
  BY DEF BlocksFit
<1>2. Len(block) \in Nat \ {0}
  BY <1>1, EmptySeq
<1> QED BY <1>1, <1>2 DEF Magnitude

LEMMA ReusedWell ==
  ASSUME BlocksFit, Sound(locs, blkpools), NEW block \in Blocks,
         Reusable(Len(block)) # {}
  PROVE  PlacedAs(Reused(block), block)
<1> DEFINE a == Min(Reusable(Len(block)))
           new == Reused(block)
<1>1. /\ block \in Seq(Byte) /\ Len(block) \in Nat \ {0} /\ Len(block) \in Int \ {0}
      /\ Magnitude(Len(block)) = Len(block) /\ Magnitude(-Len(block)) = Len(block)
  BY BlockFits
<1>2. locs \in Seq(Loc) /\ Len(locs) \in Nat /\ DOMAIN locs = 1 .. Len(locs)
  BY LenProperties DEF Sound
<1>3. a \in Nat /\ a \in 0 .. Len(locs) - 1 /\ locs[a + 1].length = -Len(block)
  <2>1. Reusable(Len(block)) \in SUBSET Nat
    BY <1>2 DEF Reusable
  <2>2. Min(Reusable(Len(block))) \in Reusable(Len(block))
    BY <2>1, MinOf
  <2> QED BY <1>2, <2>2 DEF Reusable
<1>4. /\ new.atom = a
      /\ new.locs = WithLength(locs, a + 1, Len(block))
      /\ new.blkpools = Overwritten(blkpools, locs[a + 1], block)
  BY DEF Reused, WithLength, Overwritten
<1> HIDE DEF a, new
<1>5. a + 1 \in DOMAIN locs /\ Magnitude(locs[a + 1].length) = Len(block)
  BY <1>1, <1>2, <1>3
<1>6. /\ Sound(locs, new.blkpools)
      /\ Data(new.blkpools, locs[a + 1]) = block
      /\ \A b \in DOMAIN locs \ {a + 1} : Data(new.blkpools, locs[b]) = Data(blkpools, locs[b])
  BY <1>1, <1>4, <1>5, WriteOne
<1>7. /\ Sound(new.locs, new.blkpools) /\ Len(new.locs) = Len(locs)
      /\ new.locs[a + 1].length = Len(block)
      /\ \A b \in DOMAIN locs \ {a + 1} : new.locs[b] = locs[b]
      /\ \A Q : \A b \in DOMAIN locs : Data(Q, new.locs[b]) = Data(Q, locs[b])
  BY <1>1, <1>4, <1>5, <1>6, Relabelled
<1>8. a \notin Live
  BY <1>1, <1>3 DEF Live
<1>9. Data(new.blkpools, new.locs[a + 1]) = block
  BY <1>5, <1>6, <1>7
<1>10. ASSUME NEW b \in 0 .. Len(locs) - 1, b # a PROVE b + 1 \in DOMAIN locs \ {a + 1}
  BY <1>2, <1>3, <1>10
<1>11. \A b \in 0 .. Len(locs) - 1 : b # a =>
         /\ new.locs[b + 1] = locs[b + 1]
         /\ Data(new.blkpools, locs[b + 1]) = Data(blkpools, locs[b + 1])
  BY <1>6, <1>7, <1>10
<1>12. a < Len(locs) /\ Len(locs) <= Len(locs)
  BY <1>2, <1>3
<1> QED BY <1>3, <1>4, <1>7, <1>8, <1>9, <1>11, <1>12 DEF PlacedAs, new

LEMMA AddedWell ==
  ASSUME BlocksFit, Sound(locs, blkpools), NEW block \in Blocks
  PROVE  PlacedAs(Added(block), block)
<1> DEFINE full == Gaps(Len(block)) = {}
           pools == IF full THEN Append(blkpools, <<>>) ELSE blkpools
           i == IF full THEN Len(pools) ELSE Min(Gaps(Len(block)))
           new == Added(block)
<1>1. /\ block \in Seq(Byte) \ {<<>>} /\ Len(block) \in Nat \ {0}
      /\ BlkPoolSize \in Nat /\ Len(block) <= BlkPoolSize
  BY BlockFits
<1>2. /\ locs \in Seq(Loc) /\ Len(locs) \in Nat /\ DOMAIN locs = 1 .. Len(locs)
      /\ blkpools \in Seq(Seq(Byte)) /\ Len(blkpools) \in Nat
      /\ DOMAIN blkpools = 1 .. Len(blkpools)
  BY LenProperties DEF Sound
<1>3. /\ Sound(locs, pools) /\ i \in DOMAIN pools
      /\ Len(pools[i]) + Len(block) <= BlkPoolSize
      /\ \A b \in DOMAIN locs : Data(pools, locs[b]) = Data(blkpools, locs[b])
  <2>1. CASE full
    <3>1. pools = Append(blkpools, <<>>) /\ i = Len(pools)
      BY <2>1
    <3> HIDE DEF pools, i
    <3>2. Len(pools) = Len(blkpools) + 1
      <4>1. <<>> \in Seq(Byte)
        BY EmptySeq
      <4> QED BY <1>2, <3>1, <4>1, AppendProperties
    <3>3. /\ Sound(locs, pools) /\ i \in DOMAIN pools /\ pools[i] = <<>>
          /\ \A b \in DOMAIN locs : Data(pools, locs[b]) = Data(blkpools, locs[b])
      BY <1>1, <3>1, <3>2, PoolAdded
    <3>4. Len(<<>>) = 0
      BY EmptySeq
    <3> QED BY <1>1, <3>3, <3>4
  <2>2. CASE ~ full
    <3>1. pools = blkpools /\ i = Min(Gaps(Len(block)))
      BY <2>2
    <3>2. Gaps(Len(block)) \in SUBSET Nat /\ Gaps(Len(block)) # {}
      BY <1>2, <2>2 DEF Gaps
    <3>3. Min(Gaps(Len(block))) \in Gaps(Len(block))
      BY <3>2, MinOf
    <3> HIDE DEF pools, i
    <3>4. i \in DOMAIN blkpools /\ BlkPoolSize - Len(blkpools[i]) >= Len(block)
      BY <3>1, <3>3 DEF Gaps
    <3>5. blkpools[i] \in Seq(Byte)
      BY <1>2, <3>4, ElementOfSeq
    <3>6. Len(blkpools[i]) \in Nat
      BY <3>5, LenProperties
    <3> QED BY <1>1, <3>1, <3>4, <3>6
  <2> QED BY <2>1, <2>2
<1>4. /\ new.atom = Len(locs)
      /\ new.locs = Append(locs, [pool |-> i, at |-> Len(pools[i]), length |-> Len(block)])
      /\ new.blkpools = [pools EXCEPT ![i] = @ \o block]
  BY DEF Added
<1> HIDE DEF pools, i, new
<1>5. OneMore(locs, pools, i, block, new.locs, new.blkpools)
  BY <1>1, <1>3, <1>4 DEF OneMore
<1>6. /\ Sound(new.locs, new.blkpools) /\ Len(new.locs) = Len(locs) + 1
      /\ new.locs[Len(locs) + 1].length = Len(block)
      /\ Data(new.blkpools, new.locs[Len(locs) + 1]) = block
      /\ \A b \in DOMAIN locs :
           new.locs[b] = locs[b] /\ Data(new.blkpools, locs[b]) = Data(pools, locs[b])
  BY <1>1, <1>3, <1>5, LocAdded
<1>7. new.atom \notin Live
  BY <1>2, <1>4 DEF Live
<1>8. ASSUME NEW a \in 0 .. Len(new.locs) - 1, a # new.atom
      PROVE  /\ a \in 0 .. Len(locs) - 1
             /\ new.locs[a + 1] = locs[a + 1]
             /\ Data(new.blkpools, locs[a + 1]) = Data(blkpools, locs[a + 1])
  <2>1. a \in 0 .. Len(locs) - 1 /\ a + 1 \in DOMAIN locs
    <3>1. \A m, n \in Nat : n = m + 1 =>
            \A x \in 0 .. n - 1 : x # m => x \in 0 .. m - 1 /\ x + 1 \in 1 .. m
      OBVIOUS
    <3>2. Len(new.locs) \in Nat
      BY <1>2, <1>6
    <3> QED BY <1>2, <1>4, <1>6, <1>8, <3>1, <3>2
  <2> QED BY <1>3, <1>6, <2>1
<1>9. new.atom \in Nat /\ new.atom < Len(new.locs) /\ Len(locs) <= Len(new.locs)
  BY <1>2, <1>4, <1>6
<1> QED BY <1>4, <1>6, <1>7, <1>8, <1>9 DEF PlacedAs, new

LEMMA PlacedWell ==
  ASSUME BlocksFit, Sound(locs, blkpools), NEW block \in Blocks
  PROVE  PlacedAs(Placed(block), block)
BY ReusedWell, AddedWell DEF Placed

-----------------------------------------------------------------------------
(* Names: the blocks of the locations in use.                              *)

LiveIn(L) == {a \in 0 .. Len(L) - 1 : L[a + 1].length > 0}
NamesIn(L, P) == [a \in LiveIn(L) |-> Data(P, L[a + 1])]

LEMMA NamesNow ==
  /\ LiveIn(locs) = Live
  /\ NamesIn(locs, blkpools) = [a \in Live |-> Bytes(locs[a + 1])]
BY DEF LiveIn, NamesIn, Live, Bytes, Data, End

LEMMA LiveIndex ==
  ASSUME NEW L, NEW P, Sound(L, P), NEW a \in 0 .. Len(L) - 1
  PROVE  a \in Nat /\ a < Len(L) /\ a + 1 \in DOMAIN L /\ Len(L) \in Nat
<1>1. L \in Seq(Loc)
  BY DEF Sound
<1>2. Len(L) \in Nat /\ DOMAIN L = 1 .. Len(L)
  BY <1>1, LenProperties
<1> QED BY <1>2

\* The atoms that hold a block are those that name it.
LEMMA HoldingNames ==
  ASSUME BlocksFit, Sound(locs, blkpools), NEW block \in Blocks
  PROVE  Holding(block) = {a \in Live : NamesIn(locs, blkpools)[a] = block}
<1>1. block \in Seq(Byte) /\ Len(block) \in Nat \ {0}
  BY BlockFits
<1>2. ASSUME NEW a \in Holding(block)
      PROVE  a \in Live /\ NamesIn(locs, blkpools)[a] = block
  <2>1. /\ a \in 0 .. Len(locs) - 1 /\ locs[a + 1].length = Len(block)
        /\ Data(blkpools, locs[a + 1]) = block
    BY DEF Holding, Bytes, Data, End
  <2>2. a \in Live
    BY <1>1, <2>1 DEF Live
  <2> QED BY <2>1, <2>2, NamesNow DEF NamesIn
<1>3. ASSUME NEW a \in Live, NamesIn(locs, blkpools)[a] = block
      PROVE  a \in Holding(block)
  <2>1. a \in 0 .. Len(locs) - 1 /\ locs[a + 1].length > 0
    BY DEF Live
  <2>2. a + 1 \in DOMAIN locs
    BY <2>1, LiveIndex
  <2>3. Data(blkpools, locs[a + 1]) = block
    BY <1>3, NamesNow DEF NamesIn
  <2>4. Len(block) = Magnitude(locs[a + 1].length) /\ locs[a + 1].length \in Int
    BY <2>2, <2>3, DataAt, LocOf
  <2>5. locs[a + 1].length = Len(block)
    BY <2>1, <2>4 DEF Magnitude
  <2>6. Bytes(locs[a + 1]) = block
    BY <2>3 DEF Bytes, Data, End
  <2> QED BY <2>1, <2>5, <2>6 DEF Holding
<1> QED BY <1>2, <1>3

\* Once placed, the block has a name and the others' names are the same.
LEMMA NamesPlaced ==
  ASSUME Sound(locs, blkpools), NEW block, Len(block) \in Nat \ {0},
         NEW new, PlacedAs(new, block)
  PROVE  /\ LiveIn(new.locs) = Live \cup {new.atom}
         /\ NamesIn(new.locs, new.blkpools)[new.atom] = block
         /\ \A a \in Live :
              NamesIn(new.locs, new.blkpools)[a] = NamesIn(locs, blkpools)[a]
<1>1. /\ Sound(new.locs, new.blkpools) /\ Len(locs) <= Len(new.locs)
      /\ new.atom \in Nat /\ new.atom < Len(new.locs) /\ new.atom \notin Live
      /\ new.locs[new.atom + 1].length = Len(block)
      /\ Data(new.blkpools, new.locs[new.atom + 1]) = block
      /\ \A a \in 0 .. Len(new.locs) - 1 : a # new.atom =>
           /\ a \in 0 .. Len(locs) - 1
           /\ new.locs[a + 1] = locs[a + 1]
           /\ Data(new.blkpools, locs[a + 1]) = Data(blkpools, locs[a + 1])
  BY DEF PlacedAs
<1>2. Len(locs) \in Nat /\ Len(new.locs) \in Nat
  BY <1>1, LenProperties DEF Sound
<1>3. new.atom \in LiveIn(new.locs)
  BY <1>1, <1>2 DEF LiveIn
<1>4. ASSUME NEW a \in Live
      PROVE  /\ a \in LiveIn(new.locs)
             /\ NamesIn(new.locs, new.blkpools)[a] = NamesIn(locs, blkpools)[a]
  <2>1. a \in 0 .. Len(locs) - 1 /\ locs[a + 1].length > 0 /\ a # new.atom
    BY <1>1 DEF Live
  <2>2. a \in 0 .. Len(new.locs) - 1
    BY <1>1, <1>2, <2>1
  <2>3. new.locs[a + 1] = locs[a + 1] /\ Data(new.blkpools, locs[a + 1]) = Data(blkpools, locs[a + 1])
    BY <1>1, <2>1, <2>2
  <2>4. a \in LiveIn(new.locs)
    BY <2>1, <2>2, <2>3 DEF LiveIn
  <2> QED BY <2>3, <2>4, NamesNow DEF NamesIn
<1>5. ASSUME NEW a \in LiveIn(new.locs), a # new.atom PROVE a \in Live
  BY <1>1, <1>5 DEF LiveIn, Live
<1>6. NamesIn(new.locs, new.blkpools)[new.atom] = block
  BY <1>1, <1>3 DEF NamesIn
<1> QED BY <1>3, <1>4, <1>5, <1>6

\* Once deleted, an atom has no name; the others' names are the same.
LEMMA NamesDeleted ==
  ASSUME NEW L, NEW P, Sound(L, P), NEW a \in LiveIn(L),
         NEW M, M = WithLength(L, a + 1, -L[a + 1].length),
         NEW Q, Q = Scribbled(P, L[a + 1])
  PROVE  /\ Sound(M, Q) /\ Len(M) = Len(L)
         /\ LiveIn(M) = LiveIn(L) \ {a}
         /\ \A b \in LiveIn(M) : NamesIn(M, Q)[b] = NamesIn(L, P)[b]
<1>1. a \in 0 .. Len(L) - 1 /\ L[a + 1].length > 0
  BY DEF LiveIn
<1>2. a \in Nat /\ a + 1 \in DOMAIN L /\ Len(L) \in Nat
  BY <1>1, LiveIndex
<1>3. /\ L[a + 1].length \in Nat \ {0} /\ -L[a + 1].length \in Int \ {0}
      /\ Magnitude(L[a + 1].length) = L[a + 1].length
      /\ Magnitude(-L[a + 1].length) = Magnitude(L[a + 1].length)
  <2>1. L[a + 1].length \in Int \ {0}
    BY <1>2, LocOf
  <2> QED BY <1>1, <2>1 DEF Magnitude
<1>4. /\ Sound(L, Q)
      /\ \A b \in DOMAIN L \ {a + 1} : Data(Q, L[b]) = Data(P, L[b])
  <2>1. CASE NDebug
    BY <2>1 DEF Scribbled
  <2>2. CASE ~ NDebug
    <3> DEFINE n == L[a + 1].length
               block == [k \in 1 .. n |-> Scribble]
    <3>1. block \in Seq(Byte) /\ Len(block) = n
      <4>1. n \in Nat
        BY <1>3
      <4>2. block \in [1 .. n -> Byte]
        BY DEF Byte, Scribble
      <4> QED BY <4>1, <4>2
    <3>2. Q = Overwritten(P, L[a + 1], block)
      BY <2>2 DEF Scribbled, Overwritten
    <3> HIDE DEF block
    <3> QED BY <1>2, <1>3, <3>1, <3>2, WriteOne
  <2> QED BY <2>1, <2>2
<1>5. /\ Sound(M, Q) /\ Len(M) = Len(L) /\ M[a + 1].length = -L[a + 1].length
      /\ \A b \in DOMAIN L \ {a + 1} : M[b] = L[b]
  BY <1>2, <1>3, <1>4, Relabelled
<1>6. a \notin LiveIn(M)
  BY <1>3, <1>5 DEF LiveIn
<1>7. ASSUME NEW b \in 0 .. Len(L) - 1, b # a
      PROVE  M[b + 1] = L[b + 1] /\ Data(Q, L[b + 1]) = Data(P, L[b + 1])
  <2>1. b + 1 \in DOMAIN L \ {a + 1}
    BY <1>2, <1>7, LiveIndex
  <2> QED BY <1>4, <1>5, <2>1
<1>8. LiveIn(M) = LiveIn(L) \ {a}
  BY <1>5, <1>6, <1>7 DEF LiveIn
<1>9. ASSUME NEW b \in LiveIn(M) PROVE NamesIn(M, Q)[b] = NamesIn(L, P)[b]
  <2>1. b \in LiveIn(L) /\ b # a /\ b \in 0 .. Len(L) - 1
    BY <1>8 DEF LiveIn
  <2> QED BY <1>7, <2>1 DEF NamesIn
<1> QED BY <1>5, <1>8, <1>9

\* Exchanging two locations exchanges what their atoms name.
LEMMA NamesTransposed ==
  ASSUME NEW L, NEW P, Sound(L, P), NEW a \in 0 .. Len(L) - 1, NEW b \in LiveIn(L),
         a \notin LiveIn(L), NEW M, M = Transposed(L, a, b)
  PROVE  /\ Sound(M, P) /\ Len(M) = Len(L)
         /\ LiveIn(M) = (LiveIn(L) \ {b}) \cup {a}
         /\ NamesIn(M, P)[a] = NamesIn(L, P)[b]
         /\ \A c \in LiveIn(L) \ {b} : NamesIn(M, P)[c] = NamesIn(L, P)[c]
<1>1. b \in 0 .. Len(L) - 1 /\ L[b + 1].length > 0 /\ ~ (L[a + 1].length > 0) /\ a # b
  BY DEF LiveIn
<1>2. a \in Nat /\ b \in Nat /\ a < Len(L) /\ b < Len(L)
  BY <1>1, LiveIndex
<1>3. /\ Sound(M, P) /\ Len(M) = Len(L)
      /\ \A c \in DOMAIN L :
           M[c] = IF c = b + 1 THEN L[a + 1] ELSE IF c = a + 1 THEN L[b + 1] ELSE L[c]
  BY <1>2, TransposedSound
<1>4. ASSUME NEW c \in 0 .. Len(L) - 1
      PROVE  M[c + 1] = IF c = b THEN L[a + 1] ELSE IF c = a THEN L[b + 1] ELSE L[c + 1]
  <2>1. c + 1 \in DOMAIN L /\ c \in Nat
    BY LiveIndex
  <2>2. (c + 1 = b + 1 <=> c = b) /\ (c + 1 = a + 1 <=> c = a)
    BY <1>2, <2>1
  <2> QED BY <1>3, <2>1, <2>2
<1>5. LiveIn(M) = (LiveIn(L) \ {b}) \cup {a}
  BY <1>1, <1>3, <1>4 DEF LiveIn
<1>6. NamesIn(M, P)[a] = NamesIn(L, P)[b]
  BY <1>1, <1>4, <1>5 DEF NamesIn
<1>7. ASSUME NEW c \in LiveIn(L) \ {b} PROVE NamesIn(M, P)[c] = NamesIn(L, P)[c]
  <2>1. c \in 0 .. Len(L) - 1 /\ c # a /\ c # b
    BY DEF LiveIn
  <2> QED BY <1>4, <1>5, <2>1 DEF NamesIn
<1> QED BY <1>3, <1>5, <1>6, <1>7

-----------------------------------------------------------------------------
(* Each call keeps the invariant and is one that AtomNames allows.         *)

\* The names before and after a step, as AtomNames sees them.
LEMMA NamesThen ==
  /\ LiveIn(locs') = Live'
  /\ NamesIn(locs', blkpools') = [a \in Live |-> Bytes(locs[a + 1])]'
BY DEF LiveIn, NamesIn, Live, Bytes, Data, End

LEMMA EachOnceNames ==
  ASSUME Sound(locs, blkpools)
  PROVE  EachOnce <=>
           \A a, b \in Live :
             NamesIn(locs, blkpools)[a] = NamesIn(locs, blkpools)[b] => a = b
BY NamesNow DEF EachOnce

LEMMA EachOnceThen ==
  ASSUME \A a, b \in Live' :
           NamesIn(locs', blkpools')[a] = NamesIn(locs', blkpools')[b] => a = b
  PROVE  EachOnce'
BY NamesThen DEF EachOnce

\* There is a location pool for every location.
LEMMA PoolsPlaced ==
  ASSUME BlocksFit, Sound(locs, blkpools), PoolsListed, NEW block \in Blocks
  PROVE  /\ Placed(block).l_used \in Nat
         /\ Placed(block).l_used * LocPoolSize >= Len(Placed(block).locs)
<1>1. /\ LocPoolSize \in Nat \ {0} /\ l_used \in Nat
      /\ l_used * LocPoolSize \in Nat /\ l_used * LocPoolSize >= Len(locs)
  BY DEF BlocksFit, PoolsListed
<1>2. locs \in Seq(Loc) /\ Len(locs) \in Nat /\ DOMAIN locs = 1 .. Len(locs)
  BY LenProperties DEF Sound
<1>3. CASE Reusable(Len(block)) # {}
  <2>1. /\ Placed(block).l_used = l_used
        /\ Placed(block).locs =
             [locs EXCEPT ![Min(Reusable(Len(block))) + 1].length = Len(block)]
    BY <1>3 DEF Placed, Reused
  <2>2. Min(Reusable(Len(block))) \in Reusable(Len(block))
    <3>1. Reusable(Len(block)) \in SUBSET Nat
      BY <1>2 DEF Reusable
    <3> QED BY <1>3, <3>1, MinOf
  <2>3. Min(Reusable(Len(block))) + 1 \in DOMAIN locs
    BY <1>2, <2>2 DEF Reusable
  <2>4. locs[Min(Reusable(Len(block))) + 1].length = -Len(block)
    BY <2>2 DEF Reusable
  <2>5. Len(WithLength(locs, Min(Reusable(Len(block))) + 1, Len(block))) = Len(locs)
    BY <2>3, <2>4, BlockFits, Relabelled
  <2> QED BY <1>1, <2>1, <2>5 DEF WithLength
<1>4. CASE Reusable(Len(block)) = {}
  <2>1. /\ Placed(block).l_used = IF NeedsLocPool THEN l_used + 1 ELSE l_used
        /\ \E loc : Placed(block).locs = Append(locs, loc)
    BY <1>4 DEF Placed, Added
  <2>2. Len(Placed(block).locs) = Len(locs) + 1
    BY <1>2, <2>1
  <2>3. (l_used + 1) * LocPoolSize = l_used * LocPoolSize + LocPoolSize
    BY <1>1
  <2>4. CASE NeedsLocPool
    BY <1>1, <1>2, <2>1, <2>2, <2>3, <2>4
  <2>5. CASE ~ NeedsLocPool
    <3>1. Placed(block).l_used = l_used /\ Len(locs) # l_used * LocPoolSize
      BY <2>1, <2>5 DEF NeedsLocPool
    <3>2. \A m, n \in Nat : n >= m /\ m # n => n >= m + 1
      OBVIOUS
    <3> QED BY <1>1, <1>2, <2>2, <3>1, <3>2
  <2> QED BY <2>4, <2>5
<1> QED BY <1>3, <1>4

\* An allocation that fails changes no name.
LEMMA FailedStep ==
  ASSUME BlocksFit, IInv, NEW block \in Blocks, OutOfMemory(block)
  PROVE  /\ IInv' /\ NamesIn(locs', blkpools') = NamesIn(locs, blkpools)
         /\ Holding(block) = {}
<1>1. /\ locs' = locs /\ blkpools' = blkpools /\ Holding(block) = {}
      /\ \/ listed' \in {listed, TRUE} /\ l_used' = l_used
         \/ listed' = TRUE /\ l_used' = IF NeedsLocPool THEN l_used + 1 ELSE l_used
  BY DEF OutOfMemory
<1>2. PoolsListed'
  <2>1. /\ LocPoolSize \in Nat \ {0} /\ l_used \in Nat /\ listed \in BOOLEAN
        /\ l_used * LocPoolSize \in Nat /\ l_used * LocPoolSize >= Len(locs)
        /\ l_used > 0 => listed
    BY DEF BlocksFit, PoolsListed, IInv
  <2>2. Len(locs) \in Nat
    BY LenProperties DEF IInv, Sound
  <2>3. (l_used + 1) * LocPoolSize = l_used * LocPoolSize + LocPoolSize
    BY <2>1
  <2>4. l_used' \in Nat /\ l_used' * LocPoolSize >= Len(locs)
    <3>1. CASE l_used' = l_used
      BY <2>1, <3>1
    <3>2. CASE l_used' = l_used + 1
      BY <2>1, <2>2, <2>3, <3>2
    <3> QED BY <1>1, <3>1, <3>2
  <2>5. listed' \in BOOLEAN /\ (l_used' > 0 => listed')
    BY <1>1, <2>1
  <2> QED BY <1>1, <2>4, <2>5 DEF PoolsListed
<1>3. Sound(locs, blkpools)' /\ EachOnce'
  BY <1>1 DEF IInv, EachOnce, Live, Bytes
<1> QED BY <1>1, <1>2, <1>3 DEF IInv

\* The first of the atoms that hold a block, which is the only one.
LEMMA FoundAtom ==
  ASSUME BlocksFit, IInv, NEW block \in Blocks, Holding(block) # {}
  PROVE  /\ atom_for_block(block) \in Live
         /\ NamesIn(locs, blkpools)[atom_for_block(block)] = block
         /\ \A a \in Live : NamesIn(locs, blkpools)[a] = block => a = atom_for_block(block)
<1>1. Sound(locs, blkpools) /\ EachOnce
  BY DEF IInv
<1>2. Len(locs) \in Nat
  BY <1>1, LenProperties DEF Sound
<1>3. Holding(block) \in SUBSET Nat
  BY <1>2 DEF Holding
<1>4. atom_for_block(block) \in Holding(block)
  BY <1>3, MinOf DEF atom_for_block
<1>5. Holding(block) = {a \in Live : NamesIn(locs, blkpools)[a] = block}
  BY <1>1, HoldingNames
<1>6. \A a, b \in Live : NamesIn(locs, blkpools)[a] = NamesIn(locs, blkpools)[b] => a = b
  BY <1>1, EachOnceNames
<1> QED BY <1>4, <1>5, <1>6

\* A block placed is named once.
LEMMA OnceMore ==
  ASSUME BlocksFit, IInv, NEW block \in Blocks, Holding(block) = {},
         NEW a \in Nat,
         Live' = Live \cup {a},
         NamesIn(locs', blkpools')[a] = block,
         \A b \in Live \ {a} : NamesIn(locs', blkpools')[b] = NamesIn(locs, blkpools)[b]
  PROVE  EachOnce'
<1>1. Sound(locs, blkpools) /\ EachOnce
  BY DEF IInv
<1>2. \A b \in Live : NamesIn(locs, blkpools)[b] # block
  BY <1>1, HoldingNames
<1>3. \A b, c \in Live : NamesIn(locs, blkpools)[b] = NamesIn(locs, blkpools)[c] => b = c
  BY <1>1, EachOnceNames
<1>4. ASSUME NEW b \in Live', NEW c \in Live',
             NamesIn(locs', blkpools')[b] = NamesIn(locs', blkpools')[c]
      PROVE  b = c
  <2>1. CASE b = a
    BY <1>2, <1>4, <2>1
  <2>2. CASE c = a
    BY <1>2, <1>4, <2>2
  <2>3. CASE b # a /\ c # a
    <3>1. b \in Live \ {a} /\ c \in Live \ {a}
      BY <2>3
    <3> QED BY <1>3, <1>4, <3>1
  <2> QED BY <2>1, <2>2, <2>3
<1> QED BY <1>4, EachOnceThen

\* The names are then those of With.
LEMMA NamesWith ==
  ASSUME NEW a, NEW block,
         Live' = Live \cup {a},
         NamesIn(locs', blkpools')[a] = block,
         \A b \in Live \ {a} : NamesIn(locs', blkpools')[b] = NamesIn(locs, blkpools)[b]
  PROVE  [x \in Live |-> Bytes(locs[x + 1])]' = Promise!With(a, block)
<1> DEFINE N == NamesIn(locs, blkpools)
           M == NamesIn(locs', blkpools')
<1>1. N = [x \in Live |-> Bytes(locs[x + 1])] /\ DOMAIN N = Live
  BY NamesNow
<1>2. M = [x \in Live |-> Bytes(locs[x + 1])]'
  BY NamesThen
<1>3. M = [x \in Live' |-> M[x]]
  BY NamesThen DEF NamesIn
<1>4. Promise!With(a, block) = [x \in DOMAIN N \cup {a} |-> IF x = a THEN block ELSE N[x]]
  BY <1>1 DEF Promise!With
<1>5. M[a] = block /\ \A b \in Live \ {a} : M[b] = N[b]
  OBVIOUS
<1> HIDE DEF M, N
<1>6. M = [x \in Live \cup {a} |-> IF x = a THEN block ELSE N[x]]
  BY <1>3, <1>5
<1> QED BY <1>1, <1>2, <1>4, <1>6

LEMMA NewStep ==
  ASSUME BlocksFit, IInv, NEW block \in Blocks, atom_new(block)
  PROVE  IInv' /\ Promise!New(block)
<1> DEFINE N == [a \in Live |-> Bytes(locs[a + 1])]
<1>1. Sound(locs, blkpools) /\ EachOnce /\ PoolsListed
  BY DEF IInv
<1>2. N = NamesIn(locs, blkpools) /\ DOMAIN N = Live
  BY NamesNow
<1>3. Holding(block) = {a \in Live : NamesIn(locs, blkpools)[a] = block}
  BY <1>1, HoldingNames
<1>4. CASE /\ Holding(block) # {}
           /\ answer' = Answer("NAME_EXISTS", atom_for_block(block))
           /\ UNCHANGED <<locs, listed, l_used, blkpools>>
  <2>1. IInv'
    BY <1>1, <1>4 DEF IInv, EachOnce, Live, Bytes, PoolsListed
  <2>2. N' = N
    BY <1>4 DEF Live, Bytes
  <2>3. /\ atom_for_block(block) \in DOMAIN N /\ N[atom_for_block(block)] = block
        /\ answer' = Promise!Answer("NAME_EXISTS", atom_for_block(block))
    BY <1>2, <1>4, FoundAtom DEF Answer, Promise!Answer
  <2> QED BY <2>1, <2>2, <2>3 DEF Promise!New
<1>5. CASE /\ Holding(block) = {}
           /\ locs' = Placed(block).locs /\ l_used' = Placed(block).l_used
           /\ blkpools' = Placed(block).blkpools
           /\ answer' = Answer("OK", Placed(block).atom)
           /\ listed' = TRUE
  <2> DEFINE new == Placed(block)
  <2>1. PlacedAs(new, block)
    BY <1>1, PlacedWell
  <2>2. Len(block) \in Nat \ {0}
    BY BlockFits
  <2>3. new.l_used \in Nat /\ new.l_used * LocPoolSize >= Len(new.locs)
    BY <1>1, PoolsPlaced
  <2>4. /\ locs' = new.locs /\ blkpools' = new.blkpools /\ l_used' = new.l_used
        /\ answer' = Answer("OK", new.atom)
    BY <1>5
  <2> HIDE DEF new
  <2>5. /\ LiveIn(new.locs) = Live \cup {new.atom}
        /\ NamesIn(new.locs, new.blkpools)[new.atom] = block
        /\ \A a \in Live : NamesIn(new.locs, new.blkpools)[a] = NamesIn(locs, blkpools)[a]
    BY <1>1, <2>1, <2>2, NamesPlaced
  <2>6. /\ Live' = Live \cup {new.atom}
        /\ NamesIn(locs', blkpools')[new.atom] = block
        /\ \A a \in Live \ {new.atom} :
             NamesIn(locs', blkpools')[a] = NamesIn(locs, blkpools)[a]
    BY <2>4, <2>5, NamesThen
  <2>7. new.atom \in Nat /\ new.atom \notin Live /\ Sound(new.locs, new.blkpools)
    BY <2>1 DEF PlacedAs
  <2>8. EachOnce'
    BY <1>5, <2>6, <2>7, OnceMore
  <2>9. PoolsListed'
    BY <1>5, <2>3, <2>4 DEF PoolsListed
  <2>10. IInv'
    BY <2>4, <2>7, <2>8, <2>9 DEF IInv
  <2>11. N' = Promise!With(new.atom, block)
    BY <2>6, NamesWith
  <2>12. answer'.result = "OK" /\ answer'.atom = new.atom
    BY <2>4 DEF Answer
  <2>13. block \notin {N[a] : a \in Live}
    BY <1>2, <1>3, <1>5
  <2> QED BY <1>2, <2>7, <2>10, <2>11, <2>12, <2>13 DEF Promise!New, Promise!Range
<1>6. CASE OutOfMemory(block) /\ answer' = Answer("OOM", atom_NOT_FOUND)
  <2>1. /\ IInv' /\ NamesIn(locs', blkpools') = NamesIn(locs, blkpools)
        /\ Holding(block) = {}
    BY <1>6, FailedStep
  <2>2. N' = N
    BY <1>2, <2>1, NamesThen
  <2>3. block \notin {N[a] : a \in Live}
    BY <1>2, <1>3, <2>1
  <2>4. answer' = Promise!Answer("OOM", Promise!NotFound)
    BY <1>6 DEF Answer, Promise!Answer, Promise!NotFound, atom_NOT_FOUND
  <2> QED BY <1>2, <2>1, <2>2, <2>3, <2>4 DEF Promise!New, Promise!Range
<1> QED BY <1>4, <1>5, <1>6 DEF atom_new

\* A set with no pool has no location, and so no atom to delete.
LEMMA NoPoolNoAtom ==
  ASSUME BlocksFit, Sound(locs, blkpools), PoolsListed, NoPool
  PROVE  Live = {}
<1>1. l_used = 0 /\ l_used * LocPoolSize >= Len(locs)
  BY DEF NoPool, PoolsListed
<1>2. 0 * LocPoolSize = 0
  BY DEF BlocksFit
<1>3. Len(locs) \in Nat
  BY LenProperties DEF Sound
<1>4. Len(locs) = 0
  BY <1>1, <1>2, <1>3
<1> QED BY <1>4 DEF Live

LEMMA DeleteStep ==
  ASSUME BlocksFit, IInv, NEW a \in Nat, atom_delete(a)
  PROVE  IInv' /\ Promise!Delete(a)
<1> DEFINE N == [x \in Live |-> Bytes(locs[x + 1])]
<1>1. Sound(locs, blkpools) /\ EachOnce /\ PoolsListed
  BY DEF IInv
<1>2. N = NamesIn(locs, blkpools) /\ DOMAIN N = Live
  BY NamesNow
<1>3. /\ answer' = Promise!Answer(IF NoPool THEN "ASSERT" ELSE "deleted", a)
      /\ listed' = listed /\ l_used' = l_used
  BY DEF atom_delete, Answer, Promise!Answer
<1>6. NoPool => a \notin Live
  BY <1>1, NoPoolNoAtom
<1>4. CASE a \in Live
  <2>1. /\ locs' = WithLength(locs, a + 1, -locs[a + 1].length)
        /\ blkpools' = Scribbled(blkpools, locs[a + 1])
    BY <1>4, <1>6 DEF atom_delete, WithLength
  <2>2. /\ Sound(locs', blkpools') /\ Len(locs') = Len(locs)
        /\ LiveIn(locs') = LiveIn(locs) \ {a}
        /\ \A b \in LiveIn(locs') : NamesIn(locs', blkpools')[b] = NamesIn(locs, blkpools)[b]
    <3>1. a \in LiveIn(locs)
      BY <1>4, NamesNow
    <3>2. ASSUME NEW M, M = WithLength(locs, a + 1, -locs[a + 1].length),
                 NEW Q, Q = Scribbled(blkpools, locs[a + 1])
          PROVE  /\ Sound(M, Q) /\ Len(M) = Len(locs)
                 /\ LiveIn(M) = LiveIn(locs) \ {a}
                 /\ \A b \in LiveIn(M) : NamesIn(M, Q)[b] = NamesIn(locs, blkpools)[b]
      BY <1>1, <3>1, <3>2, NamesDeleted
    <3> QED BY <2>1, <3>2
  <2>3. /\ Live' = Live \ {a}
        /\ \A b \in Live \ {a} : NamesIn(locs', blkpools')[b] = NamesIn(locs, blkpools)[b]
    BY <2>2, NamesNow, NamesThen
  <2>4. EachOnce'
    <3>1. \A b, c \in Live : NamesIn(locs, blkpools)[b] = NamesIn(locs, blkpools)[c] => b = c
      BY <1>1, EachOnceNames
    <3> QED BY <2>3, <3>1, EachOnceThen
  <2>5. IInv'
    BY <1>1, <1>3, <2>2, <2>4 DEF IInv, PoolsListed
  <2>6. N' = [x \in DOMAIN N \ {a} |-> N[x]]
    <3>1. N' = [x \in Live' |-> NamesIn(locs', blkpools')[x]]
      BY NamesThen DEF NamesIn
    <3> QED BY <1>2, <2>3, <3>1
  <2> QED BY <1>3, <1>4, <1>6, <2>5, <2>6 DEF Promise!Delete
<1>5. CASE a \notin Live
  <2>1. locs' = locs /\ blkpools' = blkpools
    BY <1>5 DEF atom_delete
  <2>2. IInv' /\ N' = N
    BY <1>1, <1>3, <2>1 DEF IInv, EachOnce, Live, Bytes, PoolsListed
  <2>3. N = [x \in DOMAIN N \ {a} |-> N[x]]
    BY <1>5
  <2> QED BY <1>3, <1>5, <2>2, <2>3 DEF Promise!Delete
<1> QED BY <1>4, <1>5

\* atom_set's exchange gives the block to the old atom; where that was deleted
\* and was itself made the new one, nothing is named in the end.
LEMMA ReplacedNames ==
  ASSUME BlocksFit, IInv, NEW a \in Nat, a < Len(locs), NEW block \in Blocks,
         Holding(block) = {}, Replaced(a, block)
  PROVE  /\ Sound(locs, blkpools)'
         /\ Len(locs') = Len(Placed(block).locs) /\ l_used' = Placed(block).l_used
         /\ \/ /\ Live' = Live \cup {a}
               /\ NamesIn(locs', blkpools')[a] = block
               /\ \A b \in Live \ {a} :
                    NamesIn(locs', blkpools')[b] = NamesIn(locs, blkpools)[b]
            \/ /\ a \notin Live /\ Live' = Live
               /\ \A b \in Live : NamesIn(locs', blkpools')[b] = NamesIn(locs, blkpools)[b]
<1> DEFINE new == Placed(block)
           D == WithLength(new.locs, a + 1, -new.locs[a + 1].length)
           Q == Scribbled(new.blkpools, new.locs[a + 1])
           n == new.atom
<1>1. Sound(locs, blkpools)
  BY DEF IInv
<1>2. /\ PlacedAs(new, block) /\ Len(block) \in Nat \ {0}
  BY <1>1, PlacedWell, BlockFits
<1>3. /\ IF new.locs[a + 1].length > 0
         THEN locs' = Transposed(D, a, n) /\ blkpools' = Q
         ELSE locs' = Transposed(new.locs, a, n) /\ blkpools' = new.blkpools
      /\ l_used' = new.l_used
  BY DEF Replaced, WithLength
<1> SUFFICES
      /\ Sound(locs', blkpools') /\ Len(locs') = Len(new.locs) /\ l_used' = new.l_used
      /\ \/ /\ Live' = Live \cup {a}
            /\ NamesIn(locs', blkpools')[a] = block
            /\ \A b \in Live \ {a} :
                 NamesIn(locs', blkpools')[b] = NamesIn(locs, blkpools)[b]
         \/ /\ a \notin Live /\ Live' = Live
            /\ \A b \in Live : NamesIn(locs', blkpools')[b] = NamesIn(locs, blkpools)[b]
  OBVIOUS
<1> HIDE DEF new
<1>4. /\ Sound(new.locs, new.blkpools)
      /\ n \in Nat /\ n < Len(new.locs) /\ n \notin Live /\ Len(locs) <= Len(new.locs)
      /\ new.locs[n + 1].length = Len(block)
      /\ \A b \in 0 .. Len(new.locs) - 1 : b # n => new.locs[b + 1] = locs[b + 1]
  BY <1>2 DEF PlacedAs
<1>5. /\ LiveIn(new.locs) = Live \cup {n}
      /\ NamesIn(new.locs, new.blkpools)[n] = block
      /\ \A b \in Live : NamesIn(new.locs, new.blkpools)[b] = NamesIn(locs, blkpools)[b]
  BY <1>1, <1>2, NamesPlaced
<1>6. Len(locs) \in Nat /\ Len(new.locs) \in Nat
  BY <1>1, <1>4, LenProperties DEF Sound
<1>7. a \in 0 .. Len(new.locs) - 1 /\ (a \in Live <=> locs[a + 1].length > 0)
  <2>1. a \in 0 .. Len(locs) - 1 /\ a \in 0 .. Len(new.locs) - 1
    BY <1>4, <1>6
  <2> QED BY <2>1 DEF Live
<1>8. a \in LiveIn(new.locs) <=> new.locs[a + 1].length > 0
  BY <1>7 DEF LiveIn
<1>9. ASSUME a \in LiveIn(new.locs)
      PROVE  /\ Sound(D, Q) /\ Len(D) = Len(new.locs)
             /\ LiveIn(D) = LiveIn(new.locs) \ {a}
             /\ \A b \in LiveIn(D) : NamesIn(D, Q)[b] = NamesIn(new.locs, new.blkpools)[b]
  <2>1. ASSUME NEW M, M = WithLength(new.locs, a + 1, -new.locs[a + 1].length),
               NEW R, R = Scribbled(new.blkpools, new.locs[a + 1])
        PROVE  /\ Sound(M, R) /\ Len(M) = Len(new.locs)
               /\ LiveIn(M) = LiveIn(new.locs) \ {a}
               /\ \A b \in LiveIn(M) :
                    NamesIn(M, R)[b] = NamesIn(new.locs, new.blkpools)[b]
    BY <1>4, <1>9, <2>1, NamesDeleted
  <2> QED BY <2>1
<1> HIDE DEF D, Q, n
<1>10. CASE a \in Live
  <2>1. a # n /\ a \in LiveIn(new.locs)
    BY <1>4, <1>5, <1>10
  <2>2. locs' = Transposed(D, a, n) /\ blkpools' = Q
    BY <1>3, <1>8, <2>1
  <2>3. /\ Sound(D, Q) /\ Len(D) = Len(new.locs) /\ LiveIn(D) = (Live \cup {n}) \ {a}
        /\ \A b \in LiveIn(D) : NamesIn(D, Q)[b] = NamesIn(new.locs, new.blkpools)[b]
    BY <1>5, <1>9, <2>1
  <2>4. a \in 0 .. Len(D) - 1 /\ n \in LiveIn(D) /\ a \notin LiveIn(D)
    BY <1>7, <2>1, <2>3
  <2>5. ASSUME NEW M, M = Transposed(D, a, n)
        PROVE  /\ Sound(M, Q) /\ Len(M) = Len(D)
               /\ LiveIn(M) = (LiveIn(D) \ {n}) \cup {a}
               /\ NamesIn(M, Q)[a] = NamesIn(D, Q)[n]
               /\ \A c \in LiveIn(D) \ {n} : NamesIn(M, Q)[c] = NamesIn(D, Q)[c]
    BY <2>3, <2>4, <2>5, NamesTransposed
  <2>6. /\ Sound(locs', blkpools') /\ Len(locs') = Len(D)
        /\ LiveIn(locs') = (LiveIn(D) \ {n}) \cup {a}
        /\ NamesIn(locs', blkpools')[a] = NamesIn(D, Q)[n]
        /\ \A c \in LiveIn(D) \ {n} : NamesIn(locs', blkpools')[c] = NamesIn(D, Q)[c]
    BY <2>2, <2>5
  <2>7. Live' = Live \cup {a}
    BY <1>4, <1>10, <2>3, <2>6, NamesThen
  <2>8. NamesIn(locs', blkpools')[a] = block
    BY <1>5, <2>3, <2>4, <2>6
  <2>9. ASSUME NEW b \in Live \ {a}
        PROVE  NamesIn(locs', blkpools')[b] = NamesIn(locs, blkpools)[b]
    <3>1. b \in LiveIn(D) \ {n}
      BY <1>4, <2>3
    <3> QED BY <1>5, <2>3, <2>6, <3>1
  <2> QED BY <1>3, <2>3, <2>6, <2>7, <2>8, <2>9
<1>11. CASE a \notin Live /\ a # n
  <2>1. a \notin LiveIn(new.locs) /\ n \in LiveIn(new.locs)
    BY <1>5, <1>11
  <2>2. locs' = Transposed(new.locs, a, n) /\ blkpools' = new.blkpools
    BY <1>3, <1>8, <2>1
  <2>3. ASSUME NEW M, M = Transposed(new.locs, a, n), NEW R, R = new.blkpools
        PROVE  /\ Sound(M, R) /\ Len(M) = Len(new.locs)
               /\ LiveIn(M) = (LiveIn(new.locs) \ {n}) \cup {a}
               /\ NamesIn(M, R)[a] = NamesIn(new.locs, new.blkpools)[n]
               /\ \A c \in LiveIn(new.locs) \ {n} :
                    NamesIn(M, R)[c] = NamesIn(new.locs, new.blkpools)[c]
    BY <1>4, <1>7, <2>1, <2>3, NamesTransposed
  <2>4. /\ Sound(locs', blkpools') /\ Len(locs') = Len(new.locs)
        /\ LiveIn(locs') = (LiveIn(new.locs) \ {n}) \cup {a}
        /\ NamesIn(locs', blkpools')[a] = NamesIn(new.locs, new.blkpools)[n]
        /\ \A c \in LiveIn(new.locs) \ {n} :
             NamesIn(locs', blkpools')[c] = NamesIn(new.locs, new.blkpools)[c]
    BY <2>2, <2>3
  <2>5. Live' = Live \cup {a}
    BY <1>4, <1>5, <2>4, NamesThen
  <2>6. \A b \in Live \ {a} : NamesIn(locs', blkpools')[b] = NamesIn(locs, blkpools)[b]
    BY <1>4, <1>5, <2>4
  <2> QED BY <1>3, <1>5, <2>4, <2>5, <2>6
<1>12. CASE a \notin Live /\ a = n
  <2>1. a \in LiveIn(new.locs)
    BY <1>5, <1>12
  <2>2. locs' = Transposed(D, a, a) /\ blkpools' = Q
    BY <1>3, <1>8, <1>12, <2>1
  <2>3. /\ Sound(D, Q) /\ Len(D) = Len(new.locs) /\ LiveIn(D) = Live
        /\ \A b \in LiveIn(D) : NamesIn(D, Q)[b] = NamesIn(new.locs, new.blkpools)[b]
    BY <1>5, <1>9, <1>12, <2>1
  <2>4. a < Len(D)
    BY <1>4, <1>12, <2>3
  <2>5. ASSUME NEW M, M = Transposed(D, a, a) PROVE M = D
    <3>1. /\ Sound(M, Q) /\ Len(M) = Len(D)
          /\ \A c \in DOMAIN D :
               M[c] = IF c = a + 1 THEN D[a + 1] ELSE IF c = a + 1 THEN D[a + 1] ELSE D[c]
      BY <2>3, <2>4, <2>5, TransposedSound
    <3>2. D \in Seq(Loc) /\ M \in Seq(Loc)
      BY <2>3, <3>1 DEF Sound
    <3>3. DOMAIN D = 1 .. Len(D)
      BY <3>2, LenProperties
    <3>4. \A c \in 1 .. Len(M) : M[c] = D[c]
      BY <3>1, <3>3
    <3> QED BY <3>1, <3>2, <3>4, SeqEqual
  <2>6. locs' = D
    BY <2>2, <2>5
  <2>7. Live' = Live
    BY <2>3, <2>6, NamesThen
  <2>8. \A b \in Live : NamesIn(locs', blkpools')[b] = NamesIn(locs, blkpools)[b]
    BY <1>5, <2>2, <2>3, <2>6
  <2> QED BY <1>3, <1>12, <2>2, <2>3, <2>6, <2>7, <2>8
<1> QED BY <1>10, <1>11, <1>12

LEMMA SetStep ==
  ASSUME BlocksFit, IInv, NEW a \in Nat, NEW block \in Blocks, atom_set(a, block)
  PROVE  IInv' /\ Promise!Set(a, block)
<1> DEFINE N == [x \in Live |-> Bytes(locs[x + 1])]
<1>1. Sound(locs, blkpools) /\ EachOnce /\ PoolsListed
  BY DEF IInv
<1>2. N = NamesIn(locs, blkpools) /\ DOMAIN N = Live
  BY NamesNow
<1>3. Holding(block) = {b \in Live : NamesIn(locs, blkpools)[b] = block}
  BY <1>1, HoldingNames
<1>4. Len(locs) \in Nat
  BY <1>1, LenProperties DEF Sound
<1>5. CASE SetNothing(a)
  <2>1. /\ ~ a < Len(locs) /\ UNCHANGED <<locs, listed, l_used, blkpools>>
        /\ answer' = Answer(IF ~ listed THEN "SET_EMPTY"
                            ELSE IF NoPool THEN "ASSERT" ELSE "OUT_OF_RANGE", a)
    BY <1>5 DEF SetNothing, ATOMVALID
  <2>2. IInv' /\ N' = N
    BY <1>1, <2>1 DEF IInv, EachOnce, Live, Bytes, PoolsListed
  <2>3. a \notin Live
    BY <1>4, <2>1 DEF Live
  <2>4. answer'.atom = a /\ answer'.result \in {"SET_EMPTY", "OUT_OF_RANGE", "ASSERT"}
    BY <2>1 DEF Answer
  <2> QED BY <1>2, <2>2, <2>3, <2>4 DEF Promise!Set
<1>6. CASE /\ Holding(block) # {}
           /\ answer' = Answer(IF atom_for_block(block) = a THEN "OK" ELSE "NAME_EXISTS", a)
           /\ UNCHANGED <<locs, listed, l_used, blkpools>>
  <2> DEFINE h == atom_for_block(block)
  <2>1. h \in Live /\ N[h] = block /\ \A b \in Live : N[b] = block => b = h
    BY <1>2, <1>6, FoundAtom
  <2> HIDE DEF h
  <2>2. IInv' /\ N' = N
    BY <1>1, <1>6 DEF IInv, EachOnce, Live, Bytes, PoolsListed
  <2>3. answer' = Promise!Answer(IF h = a THEN "OK" ELSE "NAME_EXISTS", a)
    BY <1>6 DEF h, Answer, Promise!Answer
  <2> HIDE DEF N
  <2>4. CASE h = a
    <3>1. \A other \in DOMAIN N \ {a} : N[other] # block
      BY <1>2, <2>1, <2>4
    <3>2. N = [x \in DOMAIN N |-> N[x]]
      BY <1>2 DEF N
    <3>3. N' = [x \in DOMAIN N \cup {a} |-> IF x = a THEN block ELSE N[x]]
      <4>1. DOMAIN N \cup {a} = DOMAIN N /\ N[a] = block
        BY <1>2, <2>1, <2>4
      <4> QED BY <2>2, <3>2, <4>1
    <3>4. answer' = Promise!Answer("OK", a)
      BY <2>3, <2>4
    <3> QED BY <2>2, <3>1, <3>3, <3>4 DEF Promise!Set, Promise!With, N
  <2>5. CASE h # a
    <3>1. \E other \in DOMAIN N \ {a} : N[other] = block
      BY <1>2, <2>1, <2>5
    <3>2. answer' = Promise!Answer("NAME_EXISTS", a)
      BY <2>3, <2>5
    <3> QED BY <2>2, <3>1, <3>2 DEF Promise!Set, N
  <2> QED BY <2>4, <2>5
<1>7. CASE /\ a < Len(locs) /\ Holding(block) = {}
           /\ Replaced(a, block)
           /\ answer' = Answer("OK", a) /\ listed' = listed
  <2>1. /\ Sound(locs, blkpools)'
        /\ Len(locs') = Len(Placed(block).locs) /\ l_used' = Placed(block).l_used
        /\ \/ /\ Live' = Live \cup {a}
              /\ NamesIn(locs', blkpools')[a] = block
              /\ \A b \in Live \ {a} :
                   NamesIn(locs', blkpools')[b] = NamesIn(locs, blkpools)[b]
           \/ /\ a \notin Live /\ Live' = Live
              /\ \A b \in Live : NamesIn(locs', blkpools')[b] = NamesIn(locs, blkpools)[b]
    BY <1>7, ReplacedNames
  <2>2. PoolsListed'
    <3>1. /\ Placed(block).l_used \in Nat
          /\ Placed(block).l_used * LocPoolSize >= Len(Placed(block).locs)
      BY <1>1, PoolsPlaced
    <3>2. listed \in BOOLEAN /\ listed
      <4>1. l_used \in Nat /\ l_used * LocPoolSize >= Len(locs) /\ Len(locs) > 0
        BY <1>1, <1>4, <1>7 DEF PoolsListed
      <4>2. l_used # 0
        <5>1. 0 * LocPoolSize = 0
          BY DEF BlocksFit
        <5> QED BY <1>4, <4>1, <5>1
      <4> QED BY <1>1, <4>1, <4>2 DEF PoolsListed
    <3> QED BY <1>7, <2>1, <3>1, <3>2 DEF PoolsListed
  <2>3. \A other \in DOMAIN N \ {a} : N[other] # block
    BY <1>2, <1>3, <1>7
  <2>4. answer' = Promise!Answer("OK", a)
    BY <1>7 DEF Answer, Promise!Answer
  <2>5. CASE /\ Live' = Live \cup {a}
             /\ NamesIn(locs', blkpools')[a] = block
             /\ \A b \in Live \ {a} :
                  NamesIn(locs', blkpools')[b] = NamesIn(locs, blkpools)[b]
    <3>1. EachOnce'
      BY <1>7, <2>5, OnceMore
    <3>2. N' = Promise!With(a, block)
      BY <2>5, NamesWith
    <3> QED BY <2>1, <2>2, <2>3, <2>4, <3>1, <3>2 DEF IInv, Promise!Set
  <2>6. CASE /\ a \notin Live /\ Live' = Live
             /\ \A b \in Live : NamesIn(locs', blkpools')[b] = NamesIn(locs, blkpools)[b]
    <3>1. EachOnce'
      BY <1>1, <2>6, EachOnceNames, EachOnceThen
    <3>2. N' = N
      BY <2>6, NamesNow, NamesThen DEF NamesIn
    <3> QED BY <1>2, <2>1, <2>2, <2>3, <2>4, <2>6, <3>1, <3>2 DEF IInv, Promise!Set
  <2> QED BY <2>1, <2>5, <2>6
<1>8. CASE OutOfMemory(block) /\ answer' = Answer("OOM", a)
  <2>1. /\ IInv' /\ NamesIn(locs', blkpools') = NamesIn(locs, blkpools)
        /\ Holding(block) = {}
    BY <1>8, FailedStep
  <2>2. N' = N
    BY <1>2, <2>1, NamesThen
  <2>3. block \notin {N[b] : b \in Live}
    BY <1>2, <1>3, <2>1
  <2>4. answer' = Promise!Answer("OOM", a)
    BY <1>8 DEF Answer, Promise!Answer
  <2> QED BY <1>2, <2>1, <2>2, <2>3, <2>4 DEF Promise!Set, Promise!Range
<1> QED BY <1>5, <1>6, <1>7, <1>8 DEF atom_set, ATOMVALID

-----------------------------------------------------------------------------
(* The theorems.                                                           *)

LEMMA Starts == ASSUME BlocksFit, Init PROVE IInv /\ Promise!Init
<1>1. /\ locs = <<>> /\ listed = FALSE /\ l_used = 0 /\ blkpools = <<>>
      /\ answer = Answer("none", atom_NOT_FOUND)
  BY DEF Init, Empty
<1>2. Len(locs) = 0 /\ DOMAIN locs = {} /\ Live = {}
  BY <1>1 DEF Live
<1>3. Sound(locs, blkpools)
  <2>1. locs \in Seq(Loc) /\ blkpools \in Seq(Seq(Byte)) /\ DOMAIN blkpools = {}
    BY <1>1
  <2> QED BY <1>2, <2>1 DEF Sound
<1>4. EachOnce
  BY <1>2 DEF EachOnce
<1>5. PoolsListed
  <2>1. 0 * LocPoolSize = 0
    BY DEF BlocksFit
  <2>2. l_used * LocPoolSize = 0 /\ 0 >= Len(locs)
    BY <1>1, <1>2, <2>1
  <2>3. l_used * LocPoolSize >= Len(locs)
    BY <1>2, <2>2
  <2>4. l_used \in Nat /\ ~ l_used > 0
    BY <1>1
  <2>5. listed \in BOOLEAN
    BY <1>1
  <2> QED BY <2>3, <2>4, <2>5 DEF PoolsListed
<1>6. Promise!Init
  <2>1. [a \in Live |-> Bytes(locs[a + 1])] = [a \in {} |-> {}]
    BY <1>2
  <2>2. answer = Promise!Answer("none", Promise!NotFound)
    BY <1>1 DEF Answer, Promise!Answer, atom_NOT_FOUND, Promise!NotFound
  <2> QED BY <2>1, <2>2 DEF Promise!Init
<1> QED BY <1>3, <1>4, <1>5, <1>6 DEF IInv

LEMMA Steps ==
  ASSUME BlocksFit, MaxAtoms \in Nat, IInv, [Next]_vars
  PROVE  IInv' /\ [Promise!Next]_(Promise!vars)
<1>1. CASE UNCHANGED vars
  <2>1. IInv'
    BY <1>1 DEF IInv, EachOnce, Live, Bytes, PoolsListed, vars
  <2>2. UNCHANGED Promise!vars
    BY <1>1 DEF Promise!vars, vars, Live, Bytes
  <2> QED BY <2>1, <2>2
<1>2. ASSUME NEW block \in Blocks, atom_new(block)
      PROVE  IInv' /\ Promise!Next
  BY <1>2, NewStep DEF Promise!Next
<1>3. ASSUME NEW block \in Blocks, NEW a \in 0 .. MaxAtoms, atom_set(a, block)
      PROVE  IInv' /\ Promise!Next
  <2>1. a \in Nat
    OBVIOUS
  <2>2. IInv' /\ Promise!Set(a, block)
    BY <1>3, <2>1, SetStep
  <2>3. answer'.atom = a
    BY <1>3 DEF atom_set, SetNothing, Answer
  <2> QED BY <2>2, <2>3 DEF Promise!Next
<1>4. ASSUME NEW a \in 0 .. MaxAtoms, atom_delete(a)
      PROVE  IInv' /\ Promise!Next
  <2>1. a \in Nat
    OBVIOUS
  <2>2. IInv' /\ Promise!Delete(a)
    BY <1>4, <2>1, DeleteStep
  <2>3. answer'.atom = a
    BY <1>4 DEF atom_delete, Answer
  <2> QED BY <2>2, <2>3 DEF Promise!Next
<1> QED BY <1>1, <1>2, <1>3, <1>4 DEF Next

\* The invariant the others rest on: locations lie in their pools and share
\* no byte, each block has one atom, and there are pools for the locations.
THEOREM Inductive == ASSUME BlocksFit, MaxAtoms \in Nat PROVE Spec => []IInv
<1>1. Init => IInv
  BY Starts
<1>2. IInv /\ [Next]_vars => IInv'
  BY Steps
<1> QED BY <1>1, <1>2, PTL DEF Spec

\* Whatever is added, set and deleted, each location is a place inside a
\* block pool and no pool is filled past its end.
THEOREM TypeCorrect == ASSUME BlocksFit, MaxAtoms \in Nat PROVE Spec => []TypeOK
<1>1. IInv => TypeOK
  <2> SUFFICES ASSUME IInv PROVE TypeOK
    OBVIOUS
  <2>1. Sound(locs, blkpools) /\ PoolsListed
    BY DEF IInv
  <2>2. ASSUME NEW a \in DOMAIN locs
        PROVE  /\ locs[a].pool \in DOMAIN blkpools
               /\ locs[a].length \in Int \ {0}
               /\ locs[a].at \in Nat
               /\ locs[a].at + Magnitude(locs[a].length) <= Len(blkpools[locs[a].pool])
    BY <2>1, LocOf DEF End
  <2>3. \A i \in DOMAIN blkpools : Len(blkpools[i]) <= BlkPoolSize
    BY <2>1 DEF Sound
  <2> QED BY <2>1, <2>2, <2>3 DEF TypeOK, PoolsListed
<1> QED BY <1>1, Inductive, PTL

\* No block is ever held by two atoms in use, so the first match that
\* atom_for_block finds is the only one.
THEOREM NamedOnce == ASSUME BlocksFit, MaxAtoms \in Nat PROVE Spec => []EachOnce
<1>1. IInv => EachOnce
  BY DEF IInv
<1> QED BY <1>1, Inductive, PTL

\* The set keeps AtomNames' promise: an atom names its block until it is
\* deleted or set, whatever atom_new, atom_set and atom_delete do with the
\* others' places, and an allocation that fails changes no name.
THEOREM Implements == ASSUME BlocksFit, MaxAtoms \in Nat PROVE Spec => AtomNamesKept
<1>1. Init => Promise!Init
  BY Starts
<1>2. IInv /\ [Next]_vars => [Promise!Next]_(Promise!vars)
  BY Steps
<1> QED BY <1>1, <1>2, Inductive, TypeCorrect, PTL DEF Spec, AtomNamesKept, NamesKept, Promise!Spec

-----------------------------------------------------------------------------
(* The digest database.                                                    *)

\* The databases in use, each of which is one user of the digests.
InUse == {d \in Databases : counts[d] > 0}

DInv ==
  /\ IInv
  /\ counts \in [Databases -> Nat]
  /\ CountedOnce

\* The digests' users are the databases in use, as one becomes or ceases to
\* be in use.
LEMMA Users ==
  ASSUME IsFiniteSet(Databases)
  PROVE  /\ IsFiniteSet(InUse) /\ Cardinality(InUse) \in Nat
         /\ Cardinality(InUse) = 0 => InUse = {}
         /\ \A d \in Databases : Cardinality(InUse \cup {d}) = IF d \in InUse THEN Cardinality(InUse) ELSE Cardinality(InUse) + 1
         /\ \A d \in Databases : Cardinality(InUse \ {d}) = IF d \in InUse THEN Cardinality(InUse) - 1 ELSE Cardinality(InUse)
<1>1. IsFiniteSet(InUse)
  BY FS_Subset DEF InUse
<1> QED BY <1>1, FS_AddElement, FS_RemoveElement, FS_CardinalityType, FS_EmptySet

\* An emptied set is sound.
LEMMA EmptiedSound == ASSUME BlocksFit, Emptied PROVE IInv' /\ Live' = {}
<1>1. locs' = <<>> /\ listed' = FALSE /\ l_used' = 0 /\ blkpools' = <<>>
  BY DEF Emptied
<1>2. Len(locs') = 0 /\ DOMAIN locs' = {} /\ DOMAIN blkpools' = {}
  BY <1>1
<1>3. Live' = {}
  BY <1>2 DEF Live
<1>4. Sound(locs', blkpools')
  <2>1. locs' \in Seq(Loc) /\ blkpools' \in Seq(Seq(Byte))
    BY <1>1
  <2> QED BY <1>2, <2>1 DEF Sound
<1>5. EachOnce'
  BY <1>3 DEF EachOnce
<1>6. PoolsListed'
  <2>1. 0 * LocPoolSize = 0
    BY DEF BlocksFit
  <2>2. l_used' * LocPoolSize = 0 /\ 0 >= Len(locs')
    BY <1>1, <1>2, <2>1
  <2>3. l_used' * LocPoolSize >= Len(locs')
    BY <1>2, <2>2
  <2>4. l_used' \in Nat /\ ~ l_used' > 0
    BY <1>1
  <2>5. listed' \in BOOLEAN
    BY <1>1
  <2> QED BY <2>3, <2>4, <2>5 DEF PoolsListed
<1> QED BY <1>3, <1>4, <1>5, <1>6 DEF IInv

\* The set is as it was where a call does not touch it.
LEMMA SetUntouched ==
  ASSUME IInv, UNCHANGED <<locs, listed, l_used, blkpools>>
  PROVE  IInv' /\ Live' = Live /\ \A a \in Live : Bytes(locs[a + 1])' = Bytes(locs[a + 1])
<1>1. Live' = Live /\ \A a \in Live : Bytes(locs[a + 1])' = Bytes(locs[a + 1])
  BY DEF Live, Bytes
<1>2. EachOnce' /\ PoolsListed'
  BY <1>1 DEF IInv, EachOnce, PoolsListed
<1> QED BY <1>1, <1>2 DEF IInv

\* An added digest takes no other's index.
LEMMA DigestAdded ==
  ASSUME BlocksFit, IInv, NEW digest \in Blocks, atom_new(digest)
  PROVE  IInv' /\ \A a \in Live : a \in Live' /\ Bytes(locs[a + 1])' = Bytes(locs[a + 1])
<1> DEFINE N == [a \in Live |-> Bytes(locs[a + 1])]
<1>1. IInv' /\ Promise!New(digest)
  BY NewStep
<1>2. N' = N \/ (answer'.atom \notin DOMAIN N /\ N' = Promise!With(answer'.atom, digest))
  BY <1>1 DEF Promise!New
<1>3. ASSUME NEW a \in Live PROVE a \in DOMAIN N' /\ N'[a] = N[a]
  BY <1>2 DEF Promise!With
<1>4. DOMAIN N' = Live' /\ \A a \in Live' : N'[a] = Bytes(locs[a + 1])'
  OBVIOUS
<1>5. \A a \in Live : N[a] = Bytes(locs[a + 1])
  OBVIOUS
<1> HIDE DEF N
<1> QED BY <1>1, <1>3, <1>4, <1>5

LEMMA DigestSteps ==
  ASSUME BlocksFit, IsFiniteSet(Databases), DInv, [DigestNext]_dbvars
  PROVE  DInv' /\ IndexesHeld
<1>1. /\ IInv /\ counts \in [Databases -> Nat]
      /\ digestdb_refcount = Cardinality(InUse)
      /\ locs # <<>> => digestdb_refcount > 0
  BY DEF DInv, CountedOnce, InUse
<1>2. \A d \in Databases : counts[d] \in Nat /\ (d \in InUse <=> counts[d] > 0)
  BY <1>1 DEF InUse
<1>3. ASSUME UNCHANGED <<locs, listed, l_used, blkpools, digestdb_refcount, counts>>
      PROVE  DInv' /\ IndexesHeld
  <2>1. IInv' /\ Live' = Live /\ \A a \in Live : Bytes(locs[a + 1])' = Bytes(locs[a + 1])
    BY <1>1, <1>3, SetUntouched
  <2> QED BY <1>3, <2>1 DEF DInv, CountedOnce, IndexesHeld
<1>4. ASSUME NEW d \in Databases, db_init(d) PROVE DInv' /\ IndexesHeld
  <2>1. counts' = [counts EXCEPT ![d] = counts[d] + 1] /\ counts' \in [Databases -> Nat]
    BY <1>1, <1>2, <1>4 DEF db_init
  <2>2. InUse' = InUse \cup {d}
    BY <1>2, <2>1 DEF InUse
  <2>3. CASE counts[d] = 0 /\ digestdb_refcount = 0
    <3>1. Emptied /\ digestdb_refcount' = 1
      BY <1>4, <2>3 DEF db_init, digestdb_init
    <3>2. InUse = {}
      BY <1>1, <2>3, Users
    <3>3. Cardinality(InUse') = 1
      BY <1>1, <1>2, <2>2, <2>3, Users
    <3>4. \A e \in Databases : ~ counts[e] > 0
      BY <1>2, <3>2
    <3>5. IInv' /\ locs' = <<>>
      BY <3>1, EmptiedSound DEF Emptied
    <3> QED BY <2>1, <3>1, <3>3, <3>4, <3>5 DEF DInv, CountedOnce, IndexesHeld, InUse
  <2>4. CASE ~ (counts[d] = 0 /\ digestdb_refcount = 0)
    <3>1. UNCHANGED <<locs, listed, l_used, blkpools>>
      BY <1>4, <2>4 DEF db_init, digestdb_init
    <3>2. digestdb_refcount' = IF counts[d] = 0 THEN digestdb_refcount + 1 ELSE digestdb_refcount
      BY <1>4 DEF db_init, digestdb_init
    <3>3. digestdb_refcount' = Cardinality(InUse')
      BY <1>1, <1>2, <2>2, <3>2, Users
    <3>4. IInv' /\ Live' = Live /\ \A a \in Live : Bytes(locs[a + 1])' = Bytes(locs[a + 1])
      BY <1>1, <3>1, SetUntouched
    <3>5. locs' # <<>> => digestdb_refcount' > 0
      BY <1>1, <3>1, <3>2, Users
    <3> QED BY <2>1, <3>1, <3>3, <3>4, <3>5 DEF DInv, CountedOnce, IndexesHeld, InUse
  <2> QED BY <2>3, <2>4
<1>5. ASSUME NEW d \in Databases, db_fin(d), counts[d] # 0 PROVE DInv' /\ IndexesHeld
  <2>1. counts' = [counts EXCEPT ![d] = counts[d] - 1] /\ counts' \in [Databases -> Nat]
    BY <1>1, <1>2, <1>5 DEF db_fin
  <2>2. InUse' = IF counts[d] = 1 THEN InUse \ {d} ELSE InUse
    BY <1>2, <1>5, <2>1 DEF InUse
  <2>3. digestdb_refcount' = IF counts[d] = 1 THEN digestdb_refcount - 1 ELSE digestdb_refcount
    BY <1>5 DEF db_fin, digestdb_fin
  <2>4. d \in InUse
    BY <1>2, <1>5
  <2>5. digestdb_refcount' = Cardinality(InUse')
    BY <1>1, <2>2, <2>3, <2>4, Users
  <2>6. CASE counts[d] = 1 /\ digestdb_refcount = 1
    <3>1. Emptied
      <4>1. digestdb_fin
        BY <1>5, <2>6 DEF db_fin
      <4> QED BY <4>1, <2>6 DEF digestdb_fin, LastUser
    <3>2. InUse' = {}
      <4>1. InUse \ {d} = {}
        <5>1. Cardinality(InUse \ {d}) = 0 /\ IsFiniteSet(InUse \ {d})
          BY <1>1, <2>4, <2>6, Users, FS_RemoveElement
        <5> QED BY <5>1, FS_EmptySet
      <4> QED BY <2>2, <2>6, <4>1
    <3>3. \A e \in Databases : ~ counts'[e] > 0
      BY <3>2 DEF InUse
    <3>4. IInv' /\ locs' = <<>>
      BY <3>1, EmptiedSound DEF Emptied
    <3> QED BY <2>1, <2>5, <3>3, <3>4 DEF DInv, CountedOnce, IndexesHeld, InUse
  <2>7. CASE ~ (counts[d] = 1 /\ digestdb_refcount = 1)
    <3>1. UNCHANGED <<locs, listed, l_used, blkpools>>
      <4>1. CASE counts[d] = 1
        <5>1. digestdb_fin /\ ~ LastUser
          BY <1>5, <2>7, <4>1 DEF db_fin, LastUser
        <5> QED BY <5>1 DEF digestdb_fin
      <4>2. CASE counts[d] # 1
        BY <1>5, <4>2 DEF db_fin
      <4> QED BY <4>1, <4>2
    <3>2. IInv' /\ Live' = Live /\ \A a \in Live : Bytes(locs[a + 1])' = Bytes(locs[a + 1])
      BY <1>1, <3>1, SetUntouched
    <3>3. locs' # <<>> => digestdb_refcount' > 0
      BY <1>1, <2>3, <2>7, <3>1, Users
    <3> QED BY <2>1, <2>5, <3>1, <3>2, <3>3 DEF DInv, CountedOnce, IndexesHeld, InUse
  <2> QED BY <2>6, <2>7
<1>6. ASSUME NEW digest \in Blocks, digestdb_add(digest) PROVE DInv' /\ IndexesHeld
  <2>1. atom_new(digest) /\ digestdb_refcount' = digestdb_refcount /\ counts' = counts
    BY <1>6 DEF digestdb_add
  <2>2. PICK d \in Databases : counts[d] > 0
    BY <1>6 DEF digestdb_add
  <2>3. digestdb_refcount > 0
    <3>1. InUse # {}
      BY <1>2, <2>2
    <3> QED BY <1>1, <3>1, Users
  <2>4. IInv' /\ \A a \in Live : a \in Live' /\ Bytes(locs[a + 1])' = Bytes(locs[a + 1])
    BY <1>1, <2>1, DigestAdded
  <2> QED BY <1>1, <2>1, <2>3, <2>4 DEF DInv, CountedOnce, IndexesHeld, InUse
<1>7. CASE UNCHANGED dbvars
  BY <1>3, <1>7 DEF dbvars, vars
<1>8. ASSUME NEW d \in Databases, db_init_fails(d) PROVE DInv' /\ IndexesHeld
  BY <1>3, <1>8 DEF db_init_fails
<1>9. ASSUME NEW d \in Databases, db_fin(d) PROVE DInv' /\ IndexesHeld
  BY <1>3, <1>5, <1>9 DEF db_fin
<1> QED BY <1>4, <1>6, <1>7, <1>8, <1>9 DEF DigestNext

LEMMA DigestStarts == ASSUME BlocksFit, IsFiniteSet(Databases), DigestInit PROVE DInv
<1>1. /\ Init /\ digestdb_refcount = 0 /\ counts \in [Databases -> Nat]
      /\ \A d \in Databases : counts[d] = 0
  BY DEF DigestInit
<1>2. IInv /\ locs = <<>>
  BY <1>1, Starts DEF Init, Empty
<1>3. {d \in Databases : counts[d] > 0} = {}
  BY <1>1
<1> QED BY <1>1, <1>2, <1>3, FS_EmptySet DEF DInv, CountedOnce

\* The digests are there while a database is in use, and only then, however
\* the databases' counts go up and down.
THEOREM DigestsCounted ==
  ASSUME BlocksFit, IsFiniteSet(Databases)
  PROVE  DigestSpec => [](IInv /\ CountedOnce)
<1>1. DigestInit => DInv
  BY DigestStarts
<1>2. DInv /\ [DigestNext]_dbvars => DInv'
  BY DigestSteps
<1>3. DInv => IInv /\ CountedOnce
  BY DEF DInv
<1> QED BY <1>1, <1>2, <1>3, PTL DEF DigestSpec

\* An index means the same digest as long as any database that was given it is
\* in use: the set is destroyed by the last user only.
THEOREM IndexesKept ==
  ASSUME BlocksFit, IsFiniteSet(Databases)
  PROVE  DigestSpec => DigestIndexesHold
<1>1. DigestInit => DInv
  BY DigestStarts
<1>2. DInv /\ [DigestNext]_dbvars => DInv'
  BY DigestSteps
<1>3. DInv /\ [DigestNext]_dbvars => [IndexesHeld]_dbvars
  BY DigestSteps
<1> QED BY <1>1, <1>2, <1>3, PTL DEF DigestSpec, DigestIndexesHold

=============================================================================
