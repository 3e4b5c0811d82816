------------------------------ MODULE LinkProofs ------------------------------
(***************************************************************************)
(* The components that are cells and links: linked lists keep what was put *)
(* on them, and no cell is on two; the four links of a tree's nodes agree, *)
(* and each call does to every node's children what it says.  For any      *)
(* number of cells and of nodes, numbered alike.                           *)
(***************************************************************************)
EXTENDS NTree, SequenceLemmas, FiniteSetTheorems

-----------------------------------------------------------------------------
(* Linked lists of cells. *)

CONSTANTS Stored, MayFail
VARIABLES cells, rest, first, heads, leaked, given

Lists == INSTANCE HList WITH
  NCells <- NNodes, Values <- Stored, live <- cells, lost <- leaked,
  head <- heads, answer <- given

\* s is the cells from c on, no cell twice.
IsPath(s, c, nxt) ==
  /\ s \in Seq(Nodes) /\ IsInjective(s)
  /\ Len(s) = 0 => c = 0
  /\ Len(s) > 0 => s[1] = c /\ nxt[s[Len(s)]] = 0
  /\ \A i \in 1 .. Len(s) - 1 : nxt[s[i]] = s[i + 1]

\* A path has no more cells than there are.
LEMMA PathLength ==
  ASSUME NNodes \in Nat, NEW c, NEW nxt, NEW s, IsPath(s, c, nxt)
  PROVE  Len(s) \in 0 .. NNodes
<1>1. /\ s \in Seq(Nodes) /\ Len(s) \in Nat /\ DOMAIN s = 1 .. Len(s)
      /\ IsInjective(s) /\ s \in [1 .. Len(s) -> Nodes]
  BY LenProperties DEF IsPath
<1>2. s \in Injection(1 .. Len(s), Nodes)
  BY <1>1 DEF Injection, IsInjective
<1>3. /\ IsFiniteSet(1 .. Len(s)) /\ Cardinality(1 .. Len(s)) = Len(s)
      /\ IsFiniteSet(Nodes) /\ Cardinality(Nodes) = NNodes
  <2>1. Len(s) \in Int /\ 1 \in Int /\ NNodes \in Int
    BY <1>1
  <2>2. /\ IsFiniteSet(1 .. Len(s)) /\ Cardinality(1 .. Len(s)) = Len(s)
        /\ IsFiniteSet(1 .. NNodes) /\ Cardinality(1 .. NNodes) = NNodes
    <3>1. ASSUME NEW n \in Nat PROVE IsFiniteSet(1 .. n) /\ Cardinality(1 .. n) = n
      <4>1. /\ IsFiniteSet(1 .. n)
            /\ Cardinality(1 .. n) = IF 1 > n THEN 0 ELSE n - 1 + 1
        BY FS_Interval
      <4> QED BY <4>1
    <3> QED BY <1>1, <3>1
  <2> QED BY <2>2 DEF Nodes
<1>4. Cardinality(1 .. Len(s)) <= Cardinality(Nodes)
  BY <1>2, <1>3, FS_Injection
<1> QED BY <1>1, <1>3, <1>4

\* Following the links gives the path.
LEMMA AlongIs ==
  ASSUME NNodes \in Nat, NEW c, NEW nxt, NEW s, IsPath(s, c, nxt)
  PROVE  Along(nxt, c, NNodes) = s /\ Lists!Along(nxt, c, NNodes) = s
<1> DEFINE D == 1 .. NNodes + 1
           Link(g, i) == IF i = 1 THEN c ELSE IF g[i - 1] = 0 THEN 0 ELSE nxt[g[i - 1]]
           IsIt(g) == g = [i \in D |-> Link(g, i)]
           Count(g) == CHOOSE k \in 0 .. NNodes + 1 : \A i \in D : g[i] # 0 <=> i <= k
           h == [i \in D |-> IF i <= Len(s) THEN s[i] ELSE 0]
<1>1. Len(s) \in 0 .. NNodes /\ s \in Seq(Nodes) /\ \A i \in 1 .. Len(s) : s[i] \in Nat \ {0}
  <2>1. Len(s) \in 0 .. NNodes /\ s \in Seq(Nodes)
    BY PathLength DEF IsPath
  <2>2. \A i \in 1 .. Len(s) : s[i] \in Nodes
    BY <2>1
  <2> QED BY <2>1, <2>2 DEF Nodes
<1>2. \A i \in D : h[i] = IF i <= Len(s) THEN s[i] ELSE 0
  OBVIOUS
<1>3. ASSUME NEW i \in D PROVE h[i] = Link(h, i)
  <2>1. CASE i = 1
    BY <1>1, <1>2, <2>1 DEF IsPath
  <2>2. CASE i # 1
    <3>1. PICK j : j = i - 1
      OBVIOUS
    <3>2. j \in D /\ i = j + 1 /\ j \in Nat /\ j # 0
      BY <2>2, <3>1
    <3>3. CASE j > Len(s)
      BY <1>1, <1>2, <2>2, <3>1, <3>2, <3>3
    <3>4. CASE j = Len(s)
      <4>1. h[j] = s[j] /\ s[j] # 0 /\ nxt[s[j]] = 0 /\ h[i] = 0
        BY <1>1, <1>2, <3>2, <3>4 DEF IsPath
      <4> QED BY <2>2, <3>1, <4>1
    <3>5. CASE j < Len(s)
      <4>1. j \in 1 .. Len(s) - 1 /\ j \in 1 .. Len(s) /\ i <= Len(s)
        BY <1>1, <3>2, <3>5
      <4>2. h[j] = s[j] /\ s[j] # 0 /\ nxt[s[j]] = s[j + 1] /\ h[i] = s[j + 1]
        BY <1>1, <1>2, <3>2, <4>1 DEF IsPath
      <4> QED BY <2>2, <3>1, <4>2
    <3> QED BY <1>1, <3>2, <3>3, <3>4, <3>5
  <2> QED BY <2>1, <2>2
<1>4. IsIt(h)
  <2> HIDE DEF Link
  <2> QED BY <1>3
<1>5. PICK f : IsIt(f) /\ Along(nxt, c, NNodes) = [i \in 1 .. Count(f) |-> f[i]]
  <2>1. IsIt(CHOOSE g : IsIt(g))
    <3> HIDE DEF IsIt
    <3> QED BY <1>4
  <2>2. Along(nxt, c, NNodes) =
          [i \in 1 .. Count(CHOOSE g : IsIt(g)) |-> (CHOOSE g : IsIt(g))[i]]
    BY DEF Along, NULL
  <2> HIDE DEF IsIt, Count
  <2> QED BY <2>1, <2>2
<1>6. \A i \in D : f[i] = Link(f, i)
  <2> HIDE DEF Link
  <2> QED BY <1>5
<1>7. ASSUME NEW i \in D, f[i] # h[i] PROVE FALSE
  <2> DEFINE Bad == {j \in Nat : j \in D /\ f[j] # h[j]}
  <2>1. i \in Bad
    BY <1>7
  <2>2. PICK j : j = Min(Bad)
    OBVIOUS
  <2>3. j \in Bad /\ \A v \in Bad : j <= v
    BY <2>1, <2>2, MinOf
  <2>4. f[j] = Link(f, j) /\ h[j] = Link(h, j)
    BY <1>3, <1>6, <2>3
  <2>5. j # 1
    BY <2>3, <2>4
  <2>6. j - 1 \in D /\ j - 1 \in Nat /\ ~ j <= j - 1
    BY <2>3, <2>5
  <2>7. f[j - 1] = h[j - 1]
    BY <2>3, <2>6
  <2> HIDE DEF h
  <2> QED BY <2>3, <2>4, <2>5, <2>7
<1>8. ASSUME NEW i \in D PROVE f[i] = IF i <= Len(s) THEN s[i] ELSE 0
  BY <1>2, <1>7
<1>9. Count(f) = Len(s)
  <2> DEFINE Fits(k) == \A i \in D : f[i] # 0 <=> i <= k
  <2>1. Fits(Len(s)) /\ Len(s) \in 0 .. NNodes + 1
    BY <1>1, <1>8
  <2>2. ASSUME NEW k \in 0 .. NNodes + 1, Fits(k) PROVE k = Len(s)
    <3>1. CASE k < Len(s)
      <4>1. PICK i : i = k + 1
        OBVIOUS
      <4>2. i \in D /\ i <= Len(s) /\ ~ i <= k /\ i \in 1 .. Len(s)
        BY <1>1, <3>1, <4>1
      <4>3. f[i] = s[i] /\ s[i] # 0
        BY <1>1, <1>8, <4>2
      <4> QED BY <2>2, <4>2, <4>3
    <3>2. CASE k > Len(s)
      <4>1. PICK i : i = Len(s) + 1
        OBVIOUS
      <4>2. i \in D /\ ~ i <= Len(s) /\ i <= k
        BY <1>1, <3>2, <4>1
      <4>3. f[i] = 0
        BY <1>8, <4>2
      <4> QED BY <2>2, <4>2, <4>3
    <3> QED BY <1>1, <3>1, <3>2
  <2>3. Count(f) = CHOOSE k \in 0 .. NNodes + 1 : Fits(k)
    OBVIOUS
  <2> HIDE DEF Fits, Count
  <2> QED BY <2>1, <2>2, <2>3
<1>10. Along(nxt, c, NNodes) = [i \in 1 .. Len(s) |-> s[i]]
  <2>1. \A i \in 1 .. Len(s) : f[i] = s[i]
    BY <1>1, <1>8
  <2> HIDE DEF Count
  <2> QED BY <1>5, <1>9, <2>1
<1>11. Lists!Along(nxt, c, NNodes) = Along(nxt, c, NNodes)
  BY DEF Along, Lists!Along, NULL, Lists!NULL
<1> QED BY <1>1, <1>10, <1>11

\* What f gives for the cells of s.
Image(s, f) == [i \in 1 .. Len(s) |-> f[s[i]]]

\* A path does not see a change elsewhere.
LEMMA PathElsewhere ==
  ASSUME NEW c, NEW nxt, NEW s, IsPath(s, c, nxt), NEW new,
         \A d \in ToSet(s) : new[d] = nxt[d]
  PROVE  IsPath(s, c, new)
<1>1. Len(s) \in Nat /\ \A i \in 1 .. Len(s) : s[i] \in ToSet(s)
  BY LenProperties DEF IsPath, ToSet
<1>2. Len(s) > 0 => Len(s) \in 1 .. Len(s)
  BY <1>1
<1>3. \A i \in 1 .. Len(s) - 1 : i \in 1 .. Len(s)
  BY <1>1
<1> QED BY <1>1, <1>2, <1>3 DEF IsPath

LEMMA ImageElsewhere ==
  ASSUME NEW s \in Seq(Nodes), NEW f, NEW g, \A d \in ToSet(s) : g[d] = f[d]
  PROVE  Image(s, g) = Image(s, f)
<1>1. \A i \in 1 .. Len(s) : s[i] \in ToSet(s)
  BY LenProperties DEF ToSet
<1> QED BY <1>1 DEF Image

\* s is cells from c on, and the last leads to d.
Leads(s, c, d, nxt) ==
  /\ s \in Seq(Nodes) /\ IsInjective(s)
  /\ Len(s) > 0 /\ s[1] = c /\ nxt[s[Len(s)]] = d
  /\ \A i \in 1 .. Len(s) - 1 : nxt[s[i]] = s[i + 1]

Apart(s, t) == ToSet(s) \cap ToSet(t) = {}

\* Cells that lead to a path make a longer one.
LEMMA CellsJoined ==
  ASSUME NEW p \in Seq(Nodes), NEW q \in Seq(Nodes)
  PROVE  ToSet(p \o q) = ToSet(p) \cup ToSet(q)
<1>1. /\ Len(p) \in Nat /\ Len(q) \in Nat /\ Len(p \o q) = Len(p) + Len(q)
      /\ p \o q \in Seq(Nodes)
  BY ConcatProperties, LenProperties
<1>2. /\ ToSet(p) = {p[i] : i \in 1 .. Len(p)} /\ ToSet(q) = {q[i] : i \in 1 .. Len(q)}
      /\ ToSet(p \o q) = {(p \o q)[i] : i \in 1 .. Len(p) + Len(q)}
  BY <1>1, LenProperties DEF ToSet
<1>3. \A i \in 1 .. Len(p) + Len(q) : (p \o q)[i] = IF i <= Len(p) THEN p[i] ELSE q[i - Len(p)]
  BY ConcatProperties
<1>4. ASSUME NEW i \in 1 .. Len(p) + Len(q) PROVE (p \o q)[i] \in ToSet(p) \cup ToSet(q)
  <2>1. i \in 1 .. Len(p) \/ (~ i <= Len(p) /\ i - Len(p) \in 1 .. Len(q))
    BY <1>1
  <2> QED BY <1>2, <1>3, <2>1
<1>5. ASSUME NEW i \in 1 .. Len(p) PROVE p[i] \in ToSet(p \o q)
  <2>1. i \in 1 .. Len(p) + Len(q) /\ i <= Len(p)
    BY <1>1
  <2> QED BY <1>2, <1>3, <2>1
<1>6. ASSUME NEW i \in 1 .. Len(q) PROVE q[i] \in ToSet(p \o q)
  <2>1. PICK j : j = Len(p) + i
    OBVIOUS
  <2>2. j \in 1 .. Len(p) + Len(q) /\ ~ j <= Len(p) /\ j - Len(p) = i
    BY <1>1, <2>1
  <2> QED BY <1>2, <1>3, <2>2
<1> QED BY <1>2, <1>4, <1>5, <1>6

LEMMA PathJoined ==
  ASSUME NEW lnk, NEW a, NEW b, NEW p, NEW q,
         Leads(p, a, b, lnk), IsPath(q, b, lnk), Apart(p, q)
  PROVE  IsPath(p \o q, a, lnk)
<1> DEFINE pq == p \o q
<1>0. /\ p \in Seq(Nodes) /\ IsInjective(p)
      /\ Len(p) > 0 /\ p[1] = a /\ lnk[p[Len(p)]] = b
      /\ \A i \in 1 .. Len(p) - 1 : lnk[p[i]] = p[i + 1]
  BY DEF Leads
<1>1. /\ q \in Seq(Nodes) /\ IsInjective(q) /\ Len(q) \in Nat /\ Len(p) \in Nat \ {0}
      /\ DOMAIN p = 1 .. Len(p) /\ DOMAIN q = 1 .. Len(q)
  BY <1>0, LenProperties DEF IsPath
<1>2. /\ pq \in Seq(Nodes) /\ Len(pq) = Len(p) + Len(q) /\ DOMAIN pq = 1 .. Len(p) + Len(q)
      /\ \A i \in 1 .. Len(p) : pq[i] = p[i]
      /\ \A i \in 1 .. Len(q) : pq[Len(p) + i] = q[i]
  BY <1>0, <1>1, ConcatProperties, LenProperties
<1> HIDE DEF pq
<1>3. ASSUME NEW i \in 1 .. Len(p) + Len(q)
      PROVE  i \in 1 .. Len(p) \/ \E j \in 1 .. Len(q) : i = Len(p) + j
  <2>1. CASE i <= Len(p)
    BY <1>1, <2>1
  <2>2. CASE i > Len(p)
    <3>1. i - Len(p) \in 1 .. Len(q) /\ i = Len(p) + (i - Len(p))
      BY <1>1, <2>2
    <3> QED BY <3>1
  <2> QED BY <1>1, <2>1, <2>2
<1>4. IsInjective(pq)
  <2> SUFFICES ASSUME NEW i \in 1 .. Len(p) + Len(q), NEW j \in 1 .. Len(p) + Len(q), pq[i] = pq[j]
               PROVE  i = j
    BY <1>2 DEF IsInjective
  <2>1. \A k \in 1 .. Len(p), l \in 1 .. Len(q) : p[k] # q[l]
    BY <1>1 DEF ToSet, Apart
  <2>2. CASE i \in 1 .. Len(p) /\ j \in 1 .. Len(p)
    BY <1>0, <1>1, <1>2, <2>2 DEF IsInjective
  <2>3. ASSUME NEW k \in 1 .. Len(q), i = Len(p) + k PROVE i = j
    <3>1. pq[i] = q[k]
      BY <1>2, <2>3
    <3>2. ~ j \in 1 .. Len(p)
      BY <1>2, <2>1, <3>1
    <3>3. PICK l \in 1 .. Len(q) : j = Len(p) + l
      BY <1>3, <3>2
    <3>4. q[k] = q[l]
      BY <1>2, <3>1, <3>3
    <3> QED BY <1>1, <2>3, <3>3, <3>4 DEF IsInjective
  <2>4. ASSUME NEW k \in 1 .. Len(q), j = Len(p) + k PROVE i = j
    <3>1. pq[j] = q[k]
      BY <1>2, <2>4
    <3>2. ~ i \in 1 .. Len(p)
      BY <1>2, <2>1, <3>1
    <3> QED BY <1>3, <2>3, <3>2
  <2> QED BY <1>3, <2>2, <2>3, <2>4
<1>5. ASSUME NEW i \in 1 .. Len(pq) - 1 PROVE lnk[pq[i]] = pq[i + 1]
  <2>1. CASE i < Len(p)
    <3>1. i \in 1 .. Len(p) - 1 /\ i \in 1 .. Len(p) /\ i + 1 \in 1 .. Len(p)
      BY <1>1, <1>2, <2>1
    <3> QED BY <1>0, <1>2, <3>1
  <2>2. CASE i = Len(p)
    <3>1. Len(q) > 0 /\ i \in 1 .. Len(p) /\ 1 \in 1 .. Len(q) /\ i + 1 = Len(p) + 1
      BY <1>1, <1>2, <2>2
    <3>2. pq[i] = p[Len(p)] /\ pq[i + 1] = q[1] /\ q[1] = b
      BY <1>2, <2>2, <3>1 DEF IsPath
    <3> QED BY <1>0, <3>2
  <2>3. CASE i > Len(p)
    <3>1. PICK j : j = i - Len(p)
      OBVIOUS
    <3>2. /\ j \in 1 .. Len(q) - 1 /\ j \in 1 .. Len(q) /\ j + 1 \in 1 .. Len(q)
          /\ i = Len(p) + j /\ i + 1 = Len(p) + (j + 1)
      BY <1>1, <1>2, <2>3, <3>1
    <3>3. pq[i] = q[j]
      BY <1>2, <3>2
    <3>4. PICK k : k = j + 1
      OBVIOUS
    <3>5. i + 1 = Len(p) + k /\ k \in 1 .. Len(q)
      BY <3>2, <3>4
    <3>6. pq[i + 1] = q[k]
      BY <1>2, <3>5
    <3>7. lnk[q[j]] = q[k]
      BY <3>2, <3>4 DEF IsPath
    <3> QED BY <3>3, <3>6, <3>7
  <2>4. i \in Int /\ Len(p) \in Int
    BY <1>1, <1>2
  <2> QED BY <2>1, <2>2, <2>3, <2>4
<1>6. Len(pq) > 0 /\ pq[1] = a /\ lnk[pq[Len(pq)]] = 0
  <2>1. pq[1] = a /\ Len(pq) > 0
    BY <1>0, <1>1, <1>2
  <2>2. CASE Len(q) = 0
    <3>1. Len(pq) = Len(p) /\ Len(p) \in 1 .. Len(p)
      BY <1>1, <1>2, <2>2
    <3>2. b = 0
      BY <2>2 DEF IsPath
    <3> QED BY <1>0, <1>2, <2>1, <3>1, <3>2
  <2>3. CASE Len(q) # 0
    <3>1. Len(q) > 0 /\ Len(q) \in 1 .. Len(q)
      BY <1>1, <2>3
    <3>2. pq[Len(pq)] = q[Len(q)]
      BY <1>2, <3>1
    <3> QED BY <2>1, <3>1, <3>2 DEF IsPath
  <2> QED BY <2>2, <2>3
<1>7. IsPath(pq, a, lnk)
  <2>1. ~ Len(pq) = 0
    BY <1>1, <1>2
  <2> QED BY <1>2, <1>4, <1>5, <1>6, <2>1 DEF IsPath
<1> QED BY <1>7 DEF pq

LEMMA ImageJoined ==
  ASSUME NEW s \in Seq(Nodes), NEW t \in Seq(Nodes), NEW f
  PROVE  Image(s \o t, f) = Image(s, f) \o Image(t, f)
<1> DEFINE V == {f[c] : c \in Nodes}
<1>1. Len(s) \in Nat /\ Len(t) \in Nat /\ s \o t \in Seq(Nodes)
  BY LenProperties, ConcatProperties
<1>2. Image(s, f) \in Seq(V) /\ Image(t, f) \in Seq(V) /\ Image(s \o t, f) \in Seq(V)
  <2>1. ASSUME NEW u \in Seq(Nodes) PROVE Image(u, f) \in Seq(V)
    <3>1. Len(u) \in Nat /\ \A i \in 1 .. Len(u) : u[i] \in Nodes
      BY LenProperties
    <3> QED BY <3>1 DEF Image
  <2> QED BY <1>1, <2>1
<1>3. Len(Image(s, f)) = Len(s) /\ Len(Image(t, f)) = Len(t)
  BY <1>1 DEF Image
<1> HIDE DEF V
<1>4. /\ Image(s, f) \o Image(t, f) \in Seq(V)
      /\ Len(Image(s, f) \o Image(t, f)) = Len(s) + Len(t)
      /\ \A i \in 1 .. Len(s) + Len(t) :
           (Image(s, f) \o Image(t, f))[i] = IF i <= Len(s) THEN f[s[i]] ELSE f[t[i - Len(s)]]
  <2>1. /\ Image(s, f) \o Image(t, f) \in Seq(V)
        /\ Len(Image(s, f) \o Image(t, f)) = Len(s) + Len(t)
        /\ \A i \in 1 .. Len(s) + Len(t) :
             (Image(s, f) \o Image(t, f))[i] =
               IF i <= Len(s) THEN Image(s, f)[i] ELSE Image(t, f)[i - Len(s)]
    <3>1. PICK a, b : a = Image(s, f) /\ b = Image(t, f)
      OBVIOUS
    <3>2. a \in Seq(V) /\ b \in Seq(V) /\ Len(a) = Len(s) /\ Len(b) = Len(t)
      BY <1>2, <1>3, <3>1
    <3>3. /\ a \o b \in Seq(V) /\ Len(a \o b) = Len(a) + Len(b)
          /\ \A i \in 1 .. Len(a) + Len(b) :
               (a \o b)[i] = IF i <= Len(a) THEN a[i] ELSE b[i - Len(a)]
      BY <3>2, ConcatProperties
    <3> QED BY <3>1, <3>2, <3>3
  <2>2. \A i \in 1 .. Len(s) + Len(t) :
          IF i <= Len(s) THEN i \in 1 .. Len(s) ELSE i - Len(s) \in 1 .. Len(t)
    BY <1>1
  <2> QED BY <2>1, <2>2 DEF Image
<1>5. /\ Len(s \o t) = Len(s) + Len(t)
      /\ \A i \in 1 .. Len(s) + Len(t) : (s \o t)[i] = IF i <= Len(s) THEN s[i] ELSE t[i - Len(s)]
  BY ConcatProperties
<1>6. Len(Image(s \o t, f)) = Len(s) + Len(t)
  BY <1>1, <1>5 DEF Image
<1>7. ASSUME NEW i \in 1 .. Len(s) + Len(t)
      PROVE  Image(s \o t, f)[i] = (Image(s, f) \o Image(t, f))[i]
  BY <1>4, <1>5 DEF Image
<1> QED BY <1>2, <1>4, <1>6, <1>7, SeqEqual

ListTypes ==
  DOMAIN rest = Nodes /\ DOMAIN first = Nodes /\ DOMAIN heads = Lists!Names

\* Of two lists, l has the cells of s and m those of t.  No cell is on both, and
\* one that is lost is on neither.
Own(l, s, m, t, nxt, hd, lv, ls) ==
  /\ IsPath(s, hd[l], nxt) /\ IsPath(t, hd[m], nxt)
  /\ ToSet(s) \cap ToSet(t) = {}
  /\ ls \subseteq Nodes /\ ls \cap (ToSet(s) \cup ToSet(t)) = {}
  /\ lv = ToSet(s) \cup ToSet(t) \cup ls

HListInv ==
  /\ ListTypes
  /\ \E s, t : Own("l", s, "m", t, rest, heads, cells, leaked)

LEMMA OwnEither ==
  ASSUME NEW nxt, NEW hd, NEW lv, NEW ls, NEW l \in Lists!Names, NEW m \in Lists!Names, l # m
  PROVE  (\E s, t : Own("l", s, "m", t, nxt, hd, lv, ls)) <=>
           \E s, t : Own(l, s, m, t, nxt, hd, lv, ls)
<1>1. \A s, t : Own("l", s, "m", t, nxt, hd, lv, ls) <=> Own("m", t, "l", s, nxt, hd, lv, ls)
  BY Zenon DEF Own
<1>2. (l = "l" /\ m = "m") \/ (l = "m" /\ m = "l")
  BY DEF Lists!Names
<1> QED BY <1>1, <1>2, Zenon

LEMMA PathCells ==
  ASSUME NEW c, NEW nxt, NEW s, IsPath(s, c, nxt)
  PROVE  /\ s \in Seq(Nodes) /\ Len(s) \in Nat /\ DOMAIN s = 1 .. Len(s)
         /\ ToSet(s) = {s[i] : i \in 1 .. Len(s)} /\ ToSet(s) \subseteq Nodes
         /\ \A i \in 1 .. Len(s) : s[i] \in Nodes
         /\ Len(s) = 0 <=> c = 0
         /\ Len(s) > 0 => c \in ToSet(s)
<1>1. s \in Seq(Nodes) /\ Len(s) \in Nat /\ DOMAIN s = 1 .. Len(s)
  BY LenProperties DEF IsPath
<1>2. ToSet(s) = {s[i] : i \in 1 .. Len(s)} /\ \A i \in 1 .. Len(s) : s[i] \in Nodes
  BY <1>1 DEF ToSet
<1>3. Len(s) > 0 => 1 \in 1 .. Len(s) /\ c = s[1]
  BY <1>1 DEF IsPath
<1>4. 0 \notin Nodes
  BY DEF Nodes
<1> QED BY <1>1, <1>2, <1>3, <1>4 DEF IsPath

\* What a call makes of the cells, its client sees of the contents.
LEMMA ListStep ==
  ASSUME NNodes \in Nat, ListTypes', NEW l \in Lists!Names, NEW m \in Lists!Names, l # m,
         NEW s, NEW t, Own(l, s, m, t, rest, heads, cells, leaked),
         NEW u, NEW v, Own(l, u, m, v, rest', heads', cells', leaked')
  PROVE  /\ HListInv'
         /\ Lists!Contents(l) = Image(s, first) /\ Lists!Contents(m) = Image(t, first)
         /\ Lists!Contents(l)' = Image(u, first') /\ Lists!Contents(m)' = Image(v, first')
<1>1. /\ Lists!Along(rest, heads[l], NNodes) = s /\ Lists!Along(rest, heads[m], NNodes) = t
      /\ Lists!Along(rest', heads'[l], NNodes) = u /\ Lists!Along(rest', heads'[m], NNodes) = v
  BY AlongIs DEF Own
<1>2. DOMAIN s = 1 .. Len(s) /\ DOMAIN t = 1 .. Len(t) /\ DOMAIN u = 1 .. Len(u) /\ DOMAIN v = 1 .. Len(v)
  BY PathCells DEF Own
<1>3. /\ Lists!Contents(l) = Image(s, first) /\ Lists!Contents(m) = Image(t, first)
      /\ Lists!Contents(l)' = Image(u, first') /\ Lists!Contents(m)' = Image(v, first')
  BY <1>1, <1>2 DEF Lists!Contents, Lists!From, Image
<1>4. \E a, b : Own("l", a, "m", b, rest', heads', cells', leaked')
  BY OwnEither
<1>5. HListInv'
  BY <1>4 DEF HListInv
<1> QED BY <1>3, <1>5

LEMMA FreeCell ==
  ASSUME cells # Nodes, cells \subseteq Nodes, NNodes \in Nat
  PROVE  Lists!FirstFree \in Nodes \ cells
<1> DEFINE S == Nodes \ cells
           Least(c) == \A d \in S : c <= d
<1>1. S \in SUBSET Nat /\ S # {}
  <2>1. Nodes \subseteq Nat
    BY DEF Nodes
  <2> QED BY <2>1
<1>2. Min(S) \in S /\ Least(Min(S))
  BY <1>1, MinOf
<1>3. Lists!FirstFree = CHOOSE c \in S : Least(c)
  BY DEF Lists!FirstFree, Lists!Cells, Nodes
<1> HIDE DEF S, Least
<1>4. Lists!FirstFree \in S
  BY <1>2, <1>3
<1> QED BY <1>4 DEF S

\* A call keeps the cells and does to the contents what it says.
ListKept == HListInv' /\ Lists!Promised

LEMMA OneCell ==
  ASSUME NEW c \in Nodes
  PROVE  /\ <<c>> \in Seq(Nodes) /\ Len(<<c>>) = 1 /\ <<c>>[1] = c
         /\ IsInjective(<<c>>) /\ ToSet(<<c>>) = {c}
BY DEF IsInjective, ToSet

LEMMA PathLonger ==
  ASSUME NEW c \in Nodes, NEW nxt, NEW s, IsPath(s, nxt[c], nxt), c \notin ToSet(s)
  PROVE  IsPath(<<c>> \o s, c, nxt) /\ ToSet(<<c>> \o s) = {c} \cup ToSet(s)
<1>1. PICK one : one = <<c>>
  OBVIOUS
<1>2. /\ one \in Seq(Nodes) /\ Len(one) = 1 /\ one[1] = c /\ IsInjective(one) /\ ToSet(one) = {c}
  BY <1>1, OneCell
<1>3. Apart(one, s)
  BY <1>2 DEF Apart
<1>4. PICK d : d = nxt[c]
  OBVIOUS
<1>5. Leads(one, c, d, nxt)
  BY <1>2, <1>4 DEF Leads
<1>6. IsPath(s, d, nxt)
  BY <1>4
<1>7. IsPath(one \o s, c, nxt)
  BY <1>3, <1>5, <1>6, PathJoined
<1>8. ToSet(one \o s) = ToSet(one) \cup ToSet(s)
  <2>1. s \in Seq(Nodes)
    BY DEF IsPath
  <2> QED BY <1>2, <2>1, CellsJoined
<1> QED BY <1>1, <1>2, <1>7, <1>8

LEMMA PushStep ==
  ASSUME NNodes \in Nat, ListTypes, NEW l \in Lists!Names, NEW m \in Lists!Names, l # m,
         NEW s, NEW t, Own(l, s, m, t, rest, heads, cells, leaked),
         NEW x \in Stored, Lists!hlist_push(l, x)
  PROVE  ListKept
<1>1. cells \subseteq Nodes
  BY PathCells DEF Own
<1>2. PICK c : c = Lists!FirstFree
  OBVIOUS
<1>3. c \in Nodes /\ c \notin cells
  BY <1>1, <1>2, FreeCell DEF Lists!hlist_push, Lists!Cells, Nodes
<1>4. /\ cells' = cells \cup {c} /\ leaked' = leaked
      /\ first' = [first EXCEPT ![c] = x] /\ rest' = [rest EXCEPT ![c] = heads[l]]
      /\ heads' = [heads EXCEPT ![l] = c]
  BY <1>2 DEF Lists!hlist_push
<1>5. c \notin ToSet(s) /\ c \notin ToSet(t) /\ c \notin leaked
  BY <1>3 DEF Own
<1>6. /\ rest'[c] = heads[l] /\ \A d \in ToSet(s) \cup ToSet(t) : rest'[d] = rest[d] /\ first'[d] = first[d]
      /\ first'[c] = x /\ heads'[l] = c /\ heads'[m] = heads[m] /\ ListTypes'
  BY <1>3, <1>4, <1>5, PathCells DEF ListTypes, Own
<1>7. IsPath(s, heads[l], rest') /\ IsPath(t, heads[m], rest')
  BY <1>6, PathElsewhere DEF Own
<1>8. IsPath(<<c>> \o s, c, rest') /\ ToSet(<<c>> \o s) = {c} \cup ToSet(s)
  <2>1. rest'[c] = heads[l] /\ c \notin ToSet(s)
    BY <1>5, <1>6
  <2> QED BY <1>3, <1>7, <2>1, PathLonger
<1>9. Own(l, <<c>> \o s, m, t, rest', heads', cells', leaked')
  BY <1>3, <1>4, <1>5, <1>6, <1>7, <1>8 DEF Own
<1>10. Image(<<c>> \o s, first') = <<x>> \o Image(s, first) /\ Image(t, first') = Image(t, first)
  <2>1. s \in Seq(Nodes) /\ t \in Seq(Nodes) /\ <<c>> \in Seq(Nodes)
    BY <1>3, PathCells DEF Own
  <2>2. Image(<<c>> \o s, first') = Image(<<c>>, first') \o Image(s, first')
    BY <2>1, ImageJoined
  <2>3. Image(<<c>>, first') = <<x>>
    BY <1>6 DEF Image
  <2>4. Image(s, first') = Image(s, first) /\ Image(t, first') = Image(t, first)
    BY <1>6, <2>1, ImageElsewhere
  <2> QED BY <2>2, <2>3, <2>4
<1>11. /\ HListInv'
       /\ Lists!Contents(l) = Image(s, first) /\ Lists!Contents(m) = Image(t, first)
       /\ Lists!Contents(l)' = Image(<<c>> \o s, first') /\ Lists!Contents(m)' = Image(t, first')
  BY <1>6, <1>9, ListStep
<1>12. Lists!Keep(m) /\ Lists!Become(l, <<x>> \o Lists!Contents(l))
  BY <1>10, <1>11 DEF Lists!Keep, Lists!Become
<1> QED BY <1>11, <1>12 DEF ListKept, Lists!Promised

\* The cells of a path but the first are the path from the second on.
LEMMA PathTail ==
  ASSUME NEW c, NEW nxt, NEW s, IsPath(s, c, nxt), Len(s) > 0
  PROVE  /\ IsPath(Tail(s), nxt[c], nxt)
         /\ ToSet(s) = {c} \cup ToSet(Tail(s)) /\ c \notin ToSet(Tail(s))
         /\ \A f : Image(s, f) # <<>> /\ Image(Tail(s), f) = Tail(Image(s, f)) /\ Head(Image(s, f)) = f[c]
<1>1. /\ s \in Seq(Nodes) /\ Len(s) \in Nat \ {0} /\ DOMAIN s = 1 .. Len(s)
      /\ IsInjective(s) /\ s[1] = c /\ nxt[s[Len(s)]] = 0 /\ s # <<>>
  BY PathCells DEF IsPath
<1>2. PICK u : u = Tail(s)
  OBVIOUS
<1>3. /\ u \in Seq(Nodes) /\ Len(u) = Len(s) - 1 /\ DOMAIN u = 1 .. Len(s) - 1
      /\ \A i \in 1 .. Len(s) - 1 : u[i] = s[i + 1]
  BY <1>1, <1>2, HeadTailProperties, LenProperties
<1>4. IsInjective(u)
  <2>1. ASSUME NEW i \in 1 .. Len(s) - 1, NEW j \in 1 .. Len(s) - 1, u[i] = u[j] PROVE i = j
    <3>1. s[i + 1] = s[j + 1] /\ i + 1 \in DOMAIN s /\ j + 1 \in DOMAIN s
      BY <1>1, <1>3, <2>1
    <3>2. i + 1 = j + 1
      BY <1>1, <3>1 DEF IsInjective
    <3> QED BY <3>2
  <2> QED BY <1>3, <2>1 DEF IsInjective
<1>5. IsPath(u, nxt[c], nxt)
  <2>1. CASE Len(s) = 1
    <3>1. Len(u) = 0 /\ nxt[c] = 0
      BY <1>1, <1>3, <2>1
    <3> QED BY <1>3, <1>4, <3>1 DEF IsPath
  <2>2. CASE Len(s) # 1
    <3>1. Len(u) > 0 /\ ~ Len(u) = 0 /\ 1 \in 1 .. Len(s) - 1 /\ Len(s) - 1 \in 1 .. Len(s) - 1
      BY <1>1, <1>3, <2>2
    <3>2. u[1] = nxt[c]
      BY <1>1, <1>3, <3>1 DEF IsPath
    <3>3. u[Len(u)] = s[Len(s)]
      BY <1>1, <1>3, <3>1
    <3>4. ASSUME NEW i \in 1 .. Len(u) - 1 PROVE nxt[u[i]] = u[i + 1]
      <4>1. PICK j : j = i + 1
        OBVIOUS
      <4>2. i \in 1 .. Len(s) - 1 /\ j \in 1 .. Len(s) - 1
        BY <1>1, <1>3, <4>1
      <4>3. u[i] = s[j] /\ u[j] = s[j + 1] /\ nxt[s[j]] = s[j + 1]
        BY <1>3, <4>1, <4>2 DEF IsPath
      <4> QED BY <4>1, <4>3
    <3> QED BY <1>1, <1>3, <1>4, <3>1, <3>2, <3>3, <3>4 DEF IsPath
  <2> QED BY <2>1, <2>2
<1>6. ToSet(s) = {c} \cup ToSet(u) /\ c \notin ToSet(u)
  <2>1. ToSet(s) = {s[i] : i \in 1 .. Len(s)} /\ ToSet(u) = {u[i] : i \in 1 .. Len(s) - 1}
    BY <1>1, <1>3 DEF ToSet
  <2>2. ASSUME NEW i \in 1 .. Len(s) - 1 PROVE u[i] \in ToSet(s) /\ u[i] # c
    <3>1. PICK j : j = i + 1
      OBVIOUS
    <3>2. j \in 1 .. Len(s) /\ 1 \in 1 .. Len(s) /\ j # 1 /\ u[i] = s[j]
      BY <1>1, <1>3, <3>1
    <3> QED BY <1>1, <2>1, <3>2 DEF IsInjective
  <2>3. ASSUME NEW i \in 1 .. Len(s), i # 1 PROVE s[i] \in ToSet(u)
    <3>1. PICK j : j = i - 1
      OBVIOUS
    <3>2. j \in 1 .. Len(s) - 1 /\ j + 1 = i
      BY <1>1, <2>3, <3>1
    <3>3. u[j] = s[i]
      BY <1>3, <3>2
    <3> QED BY <2>1, <3>2, <3>3
  <2>4. c \in ToSet(s)
    BY <1>1, <2>1
  <2>5. ToSet(u) \subseteq ToSet(s) /\ c \notin ToSet(u)
    BY <2>1, <2>2
  <2>6. ASSUME NEW d \in ToSet(s) PROVE d = c \/ d \in ToSet(u)
    BY <1>1, <2>1, <2>3
  <2> QED BY <2>4, <2>5, <2>6
<1>7. ASSUME NEW f
      PROVE  Image(s, f) # <<>> /\ Image(u, f) = Tail(Image(s, f)) /\ Head(Image(s, f)) = f[c]
  <2> DEFINE V == {f[d] : d \in Nodes}
  <2>1. ASSUME NEW w \in Seq(Nodes) PROVE Image(w, f) \in Seq(V) /\ Len(Image(w, f)) = Len(w)
    <3>1. Len(w) \in Nat /\ \A i \in 1 .. Len(w) : w[i] \in Nodes
      BY LenProperties
    <3> QED BY <3>1 DEF Image
  <2> HIDE DEF V
  <2>2. PICK a, b : a = Image(s, f) /\ b = Image(u, f)
    OBVIOUS
  <2>3. a \in Seq(V) /\ b \in Seq(V) /\ Len(a) = Len(s) /\ Len(b) = Len(s) - 1
    BY <1>1, <1>3, <2>1, <2>2
  <2>4. a # <<>>
    BY <1>1, <2>3
  <2>5. Tail(a) \in Seq(V) /\ Len(Tail(a)) = Len(s) - 1 /\ \A i \in 1 .. Len(s) - 1 : Tail(a)[i] = a[i + 1]
    BY <2>3, <2>4, HeadTailProperties
  <2>6. ASSUME NEW i \in 1 .. Len(s) - 1 PROVE b[i] = Tail(a)[i]
    <3>1. PICK j : j = i + 1
      OBVIOUS
    <3>2. j \in 1 .. Len(s)
      BY <1>1, <3>1
    <3>3. b[i] = f[s[j]] /\ Tail(a)[i] = f[s[j]]
      BY <1>3, <2>2, <2>5, <3>1, <3>2 DEF Image
    <3> QED BY <3>3
  <2>7. b = Tail(a)
    BY <2>3, <2>5, <2>6, SeqEqual
  <2>8. Head(a) = f[c]
    <3>1. Head(a) = a[1] /\ 1 \in 1 .. Len(s)
      BY <1>1, <2>3
    <3> QED BY <1>1, <2>2, <3>1 DEF Image
  <2> QED BY <2>2, <2>4, <2>7, <2>8
<1> QED BY <1>2, <1>5, <1>6, <1>7

LEMMA PopStep ==
  ASSUME NNodes \in Nat, ListTypes, NEW l \in Lists!Names, NEW m \in Lists!Names, l # m,
         NEW s, NEW t, Own(l, s, m, t, rest, heads, cells, leaked), Lists!hlist_pop(l)
  PROVE  ListKept
<1>1. PICK c : c = heads[l]
  OBVIOUS
<1>2. IsPath(s, c, rest) /\ IsPath(t, heads[m], rest) /\ c # 0
  BY <1>1 DEF Own, Lists!hlist_pop, Lists!NULL
<1>3. Len(s) > 0
  BY <1>2, PathCells
<1>4. /\ IsPath(Tail(s), rest[c], rest) /\ ToSet(s) = {c} \cup ToSet(Tail(s)) /\ c \notin ToSet(Tail(s))
      /\ Image(s, first) # <<>> /\ Image(Tail(s), first) = Tail(Image(s, first))
      /\ Head(Image(s, first)) = first[c]
  BY <1>2, <1>3, PathTail
<1>5. /\ given' = <<first[c]>> /\ heads' = [heads EXCEPT ![l] = rest[c]] /\ leaked' = leaked
      /\ cells' = cells \ {c}
      /\ rest' = [d \in Nodes |-> IF d \in {c} THEN 0 ELSE rest[d]]
      /\ first' = [d \in Nodes |-> IF d \in {c} THEN 0 ELSE first[d]]
  BY <1>1 DEF Lists!hlist_pop, Lists!Freed, Lists!NULL, Lists!Cells, Nodes
<1>6. c \notin ToSet(t) /\ c \notin leaked
  BY <1>4 DEF Own
<1>7. ToSet(Tail(s)) \subseteq Nodes /\ ToSet(t) \subseteq Nodes
  BY <1>2, <1>4, PathCells
<1>8. /\ \A d \in ToSet(Tail(s)) \cup ToSet(t) : rest'[d] = rest[d] /\ first'[d] = first[d]
      /\ heads'[l] = rest[c] /\ heads'[m] = heads[m] /\ ListTypes'
  BY <1>4, <1>5, <1>6, <1>7 DEF ListTypes
<1>9. IsPath(Tail(s), rest[c], rest') /\ IsPath(t, heads[m], rest')
  BY <1>2, <1>4, <1>8, PathElsewhere
<1>10. Own(l, Tail(s), m, t, rest', heads', cells', leaked')
  BY <1>4, <1>5, <1>6, <1>8, <1>9 DEF Own
<1>11. Image(Tail(s), first') = Image(Tail(s), first) /\ Image(t, first') = Image(t, first)
  <2>1. Tail(s) \in Seq(Nodes) /\ t \in Seq(Nodes)
    BY <1>2, <1>4, PathCells
  <2> QED BY <1>8, <2>1, ImageElsewhere
<1>12. /\ HListInv'
       /\ Lists!Contents(l) = Image(s, first) /\ Lists!Contents(m) = Image(t, first)
       /\ Lists!Contents(l)' = Image(Tail(s), first') /\ Lists!Contents(m)' = Image(t, first')
  BY <1>8, <1>10, ListStep
<1>13. /\ Lists!Keep(m) /\ Lists!Contents(l) # <<>>
       /\ Lists!Become(l, Tail(Lists!Contents(l))) /\ given' = <<Head(Lists!Contents(l))>>
  BY <1>4, <1>5, <1>11, <1>12 DEF Lists!Keep, Lists!Become
<1> QED BY <1>12, <1>13 DEF ListKept, Lists!Promised

\* No cells at all.
LEMMA EmptyPath ==
  ASSUME NEW nxt
  PROVE  IsPath(<<>>, 0, nxt) /\ ToSet(<<>>) = {} /\ \A f : Image(<<>>, f) = <<>>
<1>1. <<>> \in Seq(Nodes) /\ Len(<<>>) = 0 /\ DOMAIN <<>> = {}
  BY EmptySeq
<1>2. IsInjective(<<>>) /\ ToSet(<<>>) = {}
  BY <1>1 DEF IsInjective, ToSet
<1> QED BY <1>1, <1>2 DEF IsPath, Image

LEMMA NoCells ==
  ASSUME NEW nxt, NEW s, IsPath(s, 0, nxt)
  PROVE  s = <<>>
<1>1. s \in Seq(Nodes) /\ Len(s) = 0
  BY PathCells
<1> QED BY <1>1

LEMMA FreeStep ==
  ASSUME NNodes \in Nat, ListTypes, NEW l \in Lists!Names, NEW m \in Lists!Names, l # m,
         NEW s, NEW t, Own(l, s, m, t, rest, heads, cells, leaked), Lists!hlist_free(l)
  PROVE  ListKept
<1>1. ToSet(Lists!From(heads[l])) = ToSet(s)
  BY AlongIs DEF Own, Lists!From
<1>2. /\ heads' = [heads EXCEPT ![l] = 0] /\ leaked' = leaked /\ cells' = cells \ ToSet(s)
      /\ rest' = [d \in Nodes |-> IF d \in ToSet(s) THEN 0 ELSE rest[d]]
      /\ first' = [d \in Nodes |-> IF d \in ToSet(s) THEN 0 ELSE first[d]]
  <2>1. Lists!Freed(ToSet(Lists!From(heads[l])))
    BY DEF Lists!hlist_free, ToSet, Lists!ToSet
  <2>2. Lists!Freed(ToSet(s))
    BY <1>1, <2>1
  <2>3. heads' = [heads EXCEPT ![l] = 0] /\ leaked' = leaked
    BY DEF Lists!hlist_free, Lists!NULL
  <2> QED BY <2>2, <2>3 DEF Lists!Freed, Lists!NULL, Lists!Cells, Nodes
<1>3. t \in Seq(Nodes) /\ ToSet(t) \subseteq Nodes
  BY PathCells DEF Own
<1>4. /\ \A d \in ToSet(t) : rest'[d] = rest[d] /\ first'[d] = first[d]
      /\ heads'[l] = 0 /\ heads'[m] = heads[m] /\ ListTypes'
  BY <1>2, <1>3 DEF ListTypes, Own
<1>5. IsPath(<<>>, 0, rest') /\ ToSet(<<>>) = {} /\ \A f : Image(<<>>, f) = <<>>
  BY EmptyPath
<1>6. IsPath(t, heads[m], rest')
  BY <1>4, PathElsewhere DEF Own
<1>7. Own(l, <<>>, m, t, rest', heads', cells', leaked')
  BY <1>2, <1>4, <1>5, <1>6 DEF Own
<1>8. Image(t, first') = Image(t, first)
  BY <1>3, <1>4, ImageElsewhere
<1>9. /\ HListInv'
      /\ Lists!Contents(m) = Image(t, first)
      /\ Lists!Contents(l)' = Image(<<>>, first') /\ Lists!Contents(m)' = Image(t, first')
  BY <1>4, <1>7, ListStep
<1>10. Lists!Keep(m) /\ Lists!Become(l, <<>>)
  BY <1>5, <1>8, <1>9 DEF Lists!Keep, Lists!Become
<1> QED BY <1>9, <1>10 DEF ListKept, Lists!Promised

LEMMA ToArrayStep ==
  ASSUME NNodes \in Nat, ListTypes, NEW l \in Lists!Names, NEW m \in Lists!Names, l # m,
         NEW s, NEW t, Own(l, s, m, t, rest, heads, cells, leaked), Lists!hlist_to_array(l)
  PROVE  ListKept
<1>1. rest' = rest /\ first' = first /\ heads' = heads /\ cells' = cells /\ leaked' = leaked
  BY DEF Lists!hlist_to_array, Lists!hlists
<1>2. Own(l, s, m, t, rest', heads', cells', leaked') /\ ListTypes'
  BY <1>1 DEF ListTypes
<1>3. /\ HListInv'
      /\ Lists!Contents(l) = Image(s, first) /\ Lists!Contents(m) = Image(t, first)
      /\ Lists!Contents(l)' = Image(s, first') /\ Lists!Contents(m)' = Image(t, first')
  BY <1>2, ListStep
<1>4. Lists!Keep(l) /\ Lists!Keep(m) /\ given' = Lists!Contents(l)
  BY <1>1, <1>3 DEF Lists!Keep, Lists!Become, Lists!hlist_to_array
<1> QED BY <1>3, <1>4 DEF ListKept, Lists!Promised

\* The cells of s from c on and of t from d on, and the last of s linked to d.
Linked(s, c, t, d, nxt, new) ==
  /\ DOMAIN nxt = Nodes /\ c # 0
  /\ IsPath(s, c, nxt) /\ IsPath(t, d, nxt) /\ ToSet(s) \cap ToSet(t) = {}
  /\ new = [nxt EXCEPT ![s[Len(s)]] = d]

LEMMA PathLinked ==
  ASSUME NEW s, NEW c, NEW t, NEW d, NEW nxt, NEW new, Linked(s, c, t, d, nxt, new)
  PROVE  IsPath(s \o t, c, new) /\ ToSet(s \o t) = ToSet(s) \cup ToSet(t)
<1>1. IsPath(s, c, nxt) /\ IsPath(t, d, nxt) /\ ToSet(s) \cap ToSet(t) = {} /\ c # 0
  BY DEF Linked
<1>2. /\ s \in Seq(Nodes) /\ Len(s) \in Nat \ {0} /\ DOMAIN s = 1 .. Len(s)
  BY <1>1, PathCells
<1>3. ToSet(s) = {s[i] : i \in 1 .. Len(s)} /\ ToSet(t) \subseteq Nodes
  BY <1>1, PathCells
<1>4. IsInjective(s) /\ Len(s) > 0 /\ s[1] = c /\ \A i \in 1 .. Len(s) - 1 : nxt[s[i]] = s[i + 1]
  BY <1>1, <1>2 DEF IsPath
<1>5. PICK e : e = s[Len(s)]
  OBVIOUS
<1>6. Len(s) \in Nat \ {0} /\ Len(s) \in 1 .. Len(s)
  <2>1. Len(s) \in Nat \ {0}
    BY <1>2
  <2> QED BY <2>1
<1>7. e \in Nodes /\ e \in ToSet(s) /\ e \notin ToSet(t)
  BY <1>1, <1>2, <1>3, <1>5, <1>6
<1>8. new[e] = d /\ \A f \in Nodes : f # e => new[f] = nxt[f]
  BY <1>5, <1>7 DEF Linked
<1>9. \A f \in ToSet(t) : new[f] = nxt[f]
  BY <1>3, <1>7, <1>8
<1>10. IsPath(t, d, new)
  BY <1>1, <1>9, PathElsewhere
<1>11. ASSUME NEW i \in 1 .. Len(s) - 1 PROVE new[s[i]] = s[i + 1]
  <2>1. i \in 1 .. Len(s) /\ i # Len(s)
    BY <1>6
  <2>2. s[i] # e
    BY <1>2, <1>4, <1>5, <1>6, <2>1 DEF IsInjective
  <2>3. s[i] \in Nodes
    BY <1>1, <2>1, PathCells
  <2> QED BY <1>4, <1>8, <2>2, <2>3
<1>12. Leads(s, c, d, new)
  BY <1>2, <1>4, <1>5, <1>8, <1>11 DEF Leads
<1>13. Apart(s, t)
  BY <1>1 DEF Apart
<1>14. IsPath(s \o t, c, new)
  BY <1>10, <1>12, <1>13, PathJoined
<1>15. ToSet(s \o t) = ToSet(s) \cup ToSet(t)
  <2>1. s \in Seq(Nodes) /\ t \in Seq(Nodes)
    BY <1>1 DEF IsPath
  <2> QED BY <2>1, CellsJoined
<1> QED BY <1>14, <1>15

LEMMA AppendStep ==
  ASSUME NNodes \in Nat, ListTypes, NEW l \in Lists!Names, NEW m \in Lists!Names, l # m,
         NEW s, NEW t, Own(l, s, m, t, rest, heads, cells, leaked), Lists!hlist_append(l, m)
  PROVE  ListKept
<1>1. /\ IsPath(s, heads[l], rest) /\ IsPath(t, heads[m], rest) /\ ToSet(s) \cap ToSet(t) = {}
      /\ cells' = cells /\ first' = first /\ leaked' = leaked
  BY DEF Own, Lists!hlist_append
<1>2. s \in Seq(Nodes) /\ t \in Seq(Nodes)
  BY <1>1, PathCells
<1>3. /\ IsPath(s \o t, heads'[l], rest') /\ ToSet(s \o t) = ToSet(s) \cup ToSet(t)
      /\ heads'[m] = 0 /\ ListTypes'
  <2>1. CASE heads[l] = 0
    <3>1. rest' = rest /\ heads'[l] = heads[m] /\ heads'[m] = 0 /\ ListTypes'
      BY <1>1, <2>1 DEF Lists!hlist_append, Lists!NULL, ListTypes
    <3>2. s = <<>>
      BY <1>1, <2>1, NoCells
    <3>3. s \o t = t /\ ToSet(s) = {}
      BY <1>2, <3>2, ConcatEmptySeq, EmptyPath
    <3> QED BY <1>1, <3>1, <3>3
  <2>2. CASE heads[l] # 0
    <3>1. Last(Lists!From(heads[l])) = s[Len(s)]
      BY <1>1, AlongIs DEF Lists!From, Last
    <3>2. /\ rest' = [rest EXCEPT ![Last(Lists!From(heads[l]))] = heads[m]]
          /\ heads' = [heads EXCEPT ![m] = Lists!NULL]
      BY <2>2 DEF Lists!hlist_append, Lists!NULL, Last, Lists!Last
    <3>3. rest' = [rest EXCEPT ![s[Len(s)]] = heads[m]]
      BY <3>1, <3>2
    <3>4. heads'[l] = heads[l] /\ heads'[m] = 0 /\ ListTypes' /\ DOMAIN rest = Nodes
      BY <1>1, <3>2, <3>3 DEF ListTypes, Lists!NULL
    <3>5. Linked(s, heads[l], t, heads[m], rest, rest')
      BY <1>1, <2>2, <3>3, <3>4 DEF Linked
    <3>6. IsPath(s \o t, heads[l], rest') /\ ToSet(s \o t) = ToSet(s) \cup ToSet(t)
      BY <3>5, PathLinked
    <3> QED BY <3>4, <3>6
  <2> QED BY <2>1, <2>2
<1>4. IsPath(<<>>, 0, rest') /\ ToSet(<<>>) = {} /\ \A f : Image(<<>>, f) = <<>>
  BY EmptyPath
<1>5. Own(l, s \o t, m, <<>>, rest', heads', cells', leaked')
  BY <1>1, <1>3, <1>4 DEF Own
<1>6. /\ HListInv'
      /\ Lists!Contents(l) = Image(s, first) /\ Lists!Contents(m) = Image(t, first)
      /\ Lists!Contents(l)' = Image(s \o t, first') /\ Lists!Contents(m)' = Image(<<>>, first')
  BY <1>3, <1>5, ListStep
<1>7. Image(s \o t, first) = Image(s, first) \o Image(t, first)
  BY <1>2, ImageJoined
<1>8. Lists!Become(m, <<>>) /\ Lists!Become(l, Lists!Contents(l) \o Lists!Contents(m))
  BY <1>1, <1>4, <1>6, <1>7 DEF Lists!Become
<1> QED BY <1>6, <1>8 DEF ListKept, Lists!Promised

\* Where c is in s.
Seat(s, c) == CHOOSE i \in DOMAIN s : s[i] = c

LEMMA SeatIs ==
  ASSUME NEW s, IsInjective(s), NEW i \in DOMAIN s
  PROVE  Seat(s, s[i]) = i
BY DEF Seat, IsInjective

\* The links of the cells of s, from c on, turned round.
Turned(s, c, nxt, new) ==
  /\ IsPath(s, c, nxt)
  /\ new = [d \in Nodes |->
              IF ~ Contains(s, d) THEN nxt[d] ELSE IF d = c THEN 0 ELSE s[Seat(s, d) - 1]]

LEMMA PathReversed ==
  ASSUME NEW s, NEW c, NEW nxt, NEW new, Turned(s, c, nxt, new)
  PROVE  /\ IsPath(Reverse(s), IF s = <<>> THEN 0 ELSE s[Len(s)], new)
         /\ ToSet(Reverse(s)) = ToSet(s)
         /\ \A d \in Nodes \ ToSet(s) : new[d] = nxt[d]
         /\ \A f : Image(Reverse(s), f) = Reverse(Image(s, f))
<1>1. /\ s \in Seq(Nodes) /\ Len(s) \in Nat /\ DOMAIN s = 1 .. Len(s) /\ IsInjective(s)
      /\ \A i \in 1 .. Len(s) : s[i] \in Nodes
  BY PathCells DEF Turned, IsPath
<1>2. PICK n : n = Len(s)
  OBVIOUS
<1>3. n \in Nat
  BY <1>1, <1>2
<1>4. PICK r : r = Reverse(s)
  OBVIOUS
<1>5. r = [i \in 1 .. n |-> s[(n - i) + 1]]
  BY <1>2, <1>4 DEF Reverse
<1>6. \A i \in 1 .. n : (n - i) + 1 \in 1 .. n
  BY <1>3
<1>7. /\ r \in Seq(Nodes) /\ Len(r) = n /\ DOMAIN r = 1 .. n
      /\ \A i \in 1 .. n : r[i] = s[(n - i) + 1]
  <2>1. \A i \in 1 .. n : s[(n - i) + 1] \in Nodes
    BY <1>1, <1>2, <1>6
  <2>2. r \in [1 .. n -> Nodes]
    BY <1>5, <2>1
  <2> QED BY <1>3, <1>5, <2>2
<1>8. ToSet(s) = {s[i] : i \in 1 .. n} /\ ToSet(r) = {r[i] : i \in 1 .. n}
  BY <1>1, <1>2, <1>7 DEF ToSet
<1>9. ToSet(r) = ToSet(s)
  <2>1. ASSUME NEW i \in 1 .. n PROVE s[i] \in ToSet(r) /\ r[i] \in ToSet(s)
    <3>1. PICK j : j = (n - i) + 1
      OBVIOUS
    <3>2. j \in 1 .. n /\ (n - j) + 1 = i
      BY <1>3, <3>1
    <3>3. r[j] = s[i] /\ r[i] = s[j]
      BY <1>7, <3>1, <3>2
    <3> QED BY <1>8, <3>2, <3>3
  <2> QED BY <1>8, <2>1
<1>10. ASSUME NEW i \in 1 .. n
       PROVE  /\ i = 1 => new[s[i]] = 0
              /\ i > 1 => new[s[i]] = s[i - 1]
  <2>1. Contains(s, s[i]) /\ s[i] \in Nodes
    BY <1>1, <1>2 DEF Contains
  <2>2. new[s[i]] = IF s[i] = c THEN 0 ELSE s[Seat(s, s[i]) - 1]
    BY <2>1 DEF Turned
  <2>3. Seat(s, s[i]) = i
    BY <1>1, <1>2, SeatIs
  <2>4. s[1] = c /\ 1 \in 1 .. n
    <3>1. Len(s) > 0 /\ 1 \in 1 .. n
      BY <1>2, <1>3
    <3> QED BY <3>1 DEF Turned, IsPath
  <2>5. i > 1 => s[i] # c
    <3>1. i > 1 => i # 1
      BY <1>3
    <3> QED BY <1>1, <1>2, <2>4, <3>1 DEF IsInjective
  <2> QED BY <2>2, <2>3, <2>4, <2>5
<1>11. IsInjective(r)
  <2>1. ASSUME NEW i \in 1 .. n, NEW j \in 1 .. n, r[i] = r[j] PROVE i = j
    <3>1. PICK k, l : k = (n - i) + 1 /\ l = (n - j) + 1
      OBVIOUS
    <3>2. k \in 1 .. n /\ l \in 1 .. n /\ (k = l => i = j)
      BY <1>3, <3>1
    <3>3. s[k] = s[l]
      BY <1>7, <2>1, <3>1
    <3> QED BY <1>1, <1>2, <3>2, <3>3 DEF IsInjective
  <2> QED BY <1>7, <2>1 DEF IsInjective
<1>12. ASSUME NEW i \in 1 .. n - 1 PROVE new[r[i]] = r[i + 1]
  <2>1. PICK k, j : k = (n - i) + 1 /\ j = i + 1
    OBVIOUS
  <2>2. k \in 1 .. n /\ k > 1 /\ i \in 1 .. n /\ j \in 1 .. n /\ (n - j) + 1 = k - 1
    BY <1>3, <2>1
  <2>3. r[i] = s[k] /\ r[j] = s[k - 1]
    BY <1>7, <2>1, <2>2
  <2> QED BY <1>10, <2>1, <2>2, <2>3
<1>13. n > 0 => r[1] = s[n] /\ new[r[n]] = 0
  <2>1. n > 0 => 1 \in 1 .. n /\ n \in 1 .. n /\ (n - 1) + 1 = n /\ (n - n) + 1 = 1
    BY <1>3
  <2> QED BY <1>7, <1>10, <2>1
<1>14. IsPath(r, IF s = <<>> THEN 0 ELSE s[Len(s)], new)
  <2>1. s = <<>> <=> n = 0
    BY <1>1, <1>2
  <2>2. n = 0 \/ n > 0
    BY <1>3
  <2>3. CASE n = 0
    <3>1. ~ n > 0
      BY <2>3
    <3> QED BY <1>7, <1>11, <1>12, <2>1, <2>3, <3>1 DEF IsPath
  <2>4. CASE n > 0
    <3>1. n # 0
      BY <2>4
    <3> QED BY <1>2, <1>7, <1>11, <1>12, <1>13, <2>1, <2>4, <3>1 DEF IsPath
  <2> QED BY <2>2, <2>3, <2>4
<1>15. ASSUME NEW d \in Nodes \ ToSet(s) PROVE new[d] = nxt[d]
  <2>1. ~ Contains(s, d)
    BY <1>2, <1>8 DEF Contains
  <2> QED BY <2>1 DEF Turned
<1>16. ASSUME NEW f PROVE Image(r, f) = Reverse(Image(s, f))
  <2>1. PICK t : t = Image(s, f)
    OBVIOUS
  <2>2. t = [i \in 1 .. n |-> f[s[i]]]
    BY <1>2, <2>1 DEF Image
  <2>3. Len(t) = n /\ \A i \in 1 .. n : t[i] = f[s[i]]
    BY <1>3, <2>2
  <2>4. Reverse(t) = [i \in 1 .. n |-> t[(n - i) + 1]]
    BY <2>3 DEF Reverse
  <2>5. Image(r, f) = [i \in 1 .. n |-> f[r[i]]]
    BY <1>7 DEF Image
  <2>6. ASSUME NEW i \in 1 .. n PROVE f[r[i]] = t[(n - i) + 1]
    BY <1>6, <1>7, <2>3
  <2> QED BY <2>1, <2>4, <2>5, <2>6
<1> QED BY <1>4, <1>9, <1>14, <1>15, <1>16

LEMMA ReverseStep ==
  ASSUME NNodes \in Nat, ListTypes, NEW l \in Lists!Names, NEW m \in Lists!Names, l # m,
         NEW s, NEW t, Own(l, s, m, t, rest, heads, cells, leaked), Lists!hlist_reverse(l)
  PROVE  ListKept
<1>1. IsPath(s, heads[l], rest) /\ IsPath(t, heads[m], rest) /\ Lists!From(heads[l]) = s
  BY AlongIs DEF Own, Lists!From
<1>2. /\ rest' = [d \in Nodes |->
                    IF ~ Lists!Contains(s, d) THEN rest[d]
                    ELSE IF d = heads[l] THEN 0
                         ELSE s[(CHOOSE i \in DOMAIN s : s[i] = d) - 1]]
      /\ heads' = [heads EXCEPT ![l] = IF s = <<>> THEN 0 ELSE Lists!Last(s)]
      /\ cells' = cells /\ first' = first /\ leaked' = leaked
  BY <1>1 DEF Lists!hlist_reverse, Lists!NULL, Lists!Cells, Nodes
<1>3. Turned(s, heads[l], rest, rest')
  BY <1>1, <1>2 DEF Turned, Contains, Lists!Contains, Seat
<1>4. /\ IsPath(Reverse(s), IF s = <<>> THEN 0 ELSE s[Len(s)], rest')
      /\ ToSet(Reverse(s)) = ToSet(s)
      /\ \A d \in Nodes \ ToSet(s) : rest'[d] = rest[d]
      /\ \A f : Image(Reverse(s), f) = Reverse(Image(s, f))
  BY <1>3, PathReversed
<1>5. /\ heads'[l] = IF s = <<>> THEN 0 ELSE s[Len(s)]
      /\ heads'[m] = heads[m] /\ ListTypes'
  BY <1>2 DEF Lists!Last, ListTypes
<1>6. ToSet(t) \subseteq Nodes \ ToSet(s)
  BY <1>1, PathCells DEF Own
<1>7. IsPath(t, heads[m], rest')
  BY <1>1, <1>4, <1>6, PathElsewhere
<1>8. IsPath(Reverse(s), heads'[l], rest')
  BY <1>4, <1>5
<1>9. Own(l, Reverse(s), m, t, rest', heads', cells', leaked')
  BY <1>2, <1>4, <1>5, <1>7, <1>8 DEF Own
<1>10. /\ HListInv'
       /\ Lists!Contents(l) = Image(s, first) /\ Lists!Contents(m) = Image(t, first)
       /\ Lists!Contents(l)' = Image(Reverse(s), first') /\ Lists!Contents(m)' = Image(t, first')
  BY <1>5, <1>9, ListStep
<1>11. Lists!Reverse(Lists!Contents(l)) = Reverse(Lists!Contents(l))
  BY DEF Reverse, Lists!Reverse
<1>12. Lists!Keep(m) /\ Lists!Become(l, Lists!Reverse(Lists!Contents(l)))
  BY <1>2, <1>4, <1>10, <1>11 DEF Lists!Keep, Lists!Become
<1> QED BY <1>10, <1>12 DEF ListKept, Lists!Promised

\* The cells that a copy takes from, each once.
LEMMA FreeCells ==
  ASSUME NNodes \in Nat, NEW S, S \subseteq Nodes
  PROVE  /\ SetToSeq(S) \in Seq(S) /\ Len(SetToSeq(S)) \in Nat
         /\ DOMAIN SetToSeq(S) = 1 .. Len(SetToSeq(S))
         /\ IsInjective(SetToSeq(S))
<1>1. IsFiniteSet(S)
  <2>1. IsFiniteSet(Nodes)
    <3>1. NNodes \in Int /\ 1 \in Int
      OBVIOUS
    <3>2. IsFiniteSet(1 .. NNodes)
      BY <3>1, FS_Interval
    <3> QED BY <3>2 DEF Nodes
  <2> QED BY <2>1, FS_Subset
<1>2. PICK n : n = Cardinality(S)
  OBVIOUS
<1>3. n \in Nat /\ \E f \in [1 .. n -> S] : IsInjective(f)
  <2>1. n \in Nat /\ ExistsBijection(1 .. n, S)
    BY <1>1, <1>2, FS_CardinalityType
  <2> QED BY <2>1 DEF ExistsBijection, Bijection, Injection, IsInjective
<1>4. SetToSeq(S) = CHOOSE f \in [1 .. n -> S] : IsInjective(f)
  BY <1>2 DEF SetToSeq
<1>5. SetToSeq(S) \in [1 .. n -> S] /\ IsInjective(SetToSeq(S))
  BY <1>3, <1>4
<1> QED BY <1>3, <1>5

\* The k cells of w are linked one to the next, and hold what val has.
Copies(w, k, val, nxt, new, f, g) ==
  /\ k \in Nat /\ w \in Seq(Nodes) /\ Len(w) = k /\ IsInjective(w)
  /\ new = [c \in Nodes |-> IF ~ Contains(w, c) THEN nxt[c]
                                  ELSE IF Seat(w, c) = k THEN 0 ELSE w[Seat(w, c) + 1]]
  /\ g = [c \in Nodes |-> IF Contains(w, c) THEN val[Seat(w, c)] ELSE f[c]]

LEMMA PathCopied ==
  ASSUME NEW w, NEW k, NEW val, NEW nxt, NEW new, NEW f, NEW g, Copies(w, k, val, nxt, new, f, g)
  PROVE  /\ IsPath(w, IF k = 0 THEN 0 ELSE w[1], new)
         /\ Image(w, g) = [i \in 1 .. k |-> val[i]]
         /\ \A c \in Nodes \ ToSet(w) : new[c] = nxt[c] /\ g[c] = f[c]
<1>1. k \in Nat
  BY DEF Copies
<1>2. w \in Seq(Nodes) /\ Len(w) = k /\ IsInjective(w)
  BY DEF Copies
<1>3. DOMAIN w = 1 .. k /\ \A i \in 1 .. k : w[i] \in Nodes
  BY <1>2, LenProperties
<1>4. ToSet(w) = {w[i] : i \in 1 .. k}
  BY <1>3 DEF ToSet
<1>5. ASSUME NEW i \in 1 .. k
      PROVE  new[w[i]] = (IF i = k THEN 0 ELSE w[i + 1]) /\ g[w[i]] = val[i]
  <2>1. Contains(w, w[i]) /\ w[i] \in Nodes
    BY <1>2, <1>3 DEF Contains
  <2>2. Seat(w, w[i]) = i
    BY <1>2, <1>3, SeatIs
  <2>3. /\ new[w[i]] = IF Seat(w, w[i]) = k THEN 0 ELSE w[Seat(w, w[i]) + 1]
        /\ g[w[i]] = val[Seat(w, w[i])]
    BY <2>1 DEF Copies
  <2> QED BY <2>2, <2>3
<1>6. ASSUME NEW c \in Nodes \ ToSet(w) PROVE new[c] = nxt[c] /\ g[c] = f[c]
  <2>1. ~ Contains(w, c)
    BY <1>2, <1>4 DEF Contains
  <2> QED BY <2>1 DEF Copies
<1>7. IsPath(w, IF k = 0 THEN 0 ELSE w[1], new)
  <2>1. \A i \in 1 .. k - 1 : i \in 1 .. k /\ i # k
    BY <1>1
  <2>2. \A i \in 1 .. Len(w) - 1 : new[w[i]] = w[i + 1]
    BY <1>2, <1>5, <2>1
  <2>3. k = 0 \/ (k > 0 /\ k # 0 /\ k \in 1 .. k)
    BY <1>1
  <2>4. k > 0 => new[w[Len(w)]] = 0
    BY <1>2, <1>5, <2>3
  <2>5. k = 0 => ~ k > 0
    OBVIOUS
  <2> QED BY <1>2, <2>2, <2>3, <2>4, <2>5 DEF IsPath
<1>8. Image(w, g) = [i \in 1 .. k |-> val[i]]
  BY <1>2, <1>5 DEF Image
<1> QED BY <1>6, <1>7, <1>8

LEMMA FirstOnes ==
  ASSUME NEW S, NEW s \in Seq(S), NEW k \in Nat, k <= Len(s), NEW w, w = SubSeq(s, 1, k)
  PROVE  w \in Seq(S) /\ Len(w) = k /\ \A i \in 1 .. k : w[i] = s[i]
<1>1. w = [i \in 1 .. k |-> s[i]]
  OBVIOUS
<1>2. \A i \in 1 .. k : s[i] \in S
  <2>1. Len(s) \in Nat
    BY LenProperties
  <2>2. \A i \in 1 .. k : i \in 1 .. Len(s)
    BY <2>1
  <2> QED BY <2>2, LenProperties
<1> QED BY <1>1, <1>2

\* Copied(l, k) takes the first k cells of all, the free ones.
Taken(w, k, all, l) ==
  /\ Copies(w, k, Lists!Contents(l), rest, rest', first, first')
  /\ ToSet(w) = {all[i] : i \in 1 .. k} /\ ToSet(w) \cap cells = {}
  /\ cells' = cells \cup ToSet(w) /\ (k # 0 => w[1] = all[1])
  /\ DOMAIN rest' = Nodes /\ DOMAIN first' = Nodes

LEMMA CopiedStep ==
  ASSUME NNodes \in Nat, ListTypes, cells \subseteq Nodes, NEW l \in Lists!Names,
         NEW k \in Nat, NEW all, all = Lists!SetToSeq(Nodes \ cells), k <= Len(all),
         Lists!Copied(l, k)
  PROVE  \E w : Taken(w, k, all, l)
<1>1. PICK S : S = Nodes \ cells
  OBVIOUS
<1>2. all = SetToSeq(S)
  <2>1. all = Lists!SetToSeq(S)
    BY <1>1
  <2>2. Lists!SetToSeq(S) = SetToSeq(S)
    BY DEF SetToSeq, Lists!SetToSeq, IsInjective, Lists!IsInjective, Cardinality, Lists!Cardinality,
           IsFiniteSet, Lists!IsFiniteSet
  <2> QED BY <2>1, <2>2
<1>3. all \in Seq(S) /\ DOMAIN all = 1 .. Len(all) /\ IsInjective(all) /\ S \subseteq Nodes
  BY <1>1, <1>2, FreeCells
<1>4. Len(all) \in Nat
  BY <1>3, LenProperties
<1>5. PICK w : w = SubSeq(all, 1, k)
  OBVIOUS
<1>6. \A i \in 1 .. k : i \in 1 .. Len(all)
  BY <1>4
<1>7. w \in Seq(S) /\ Len(w) = k /\ \A i \in 1 .. k : w[i] = all[i]
  BY <1>3, <1>5, FirstOnes
<1>8. DOMAIN w = 1 .. k
  BY <1>7, LenProperties
<1>9. IsInjective(w)
  BY <1>3, <1>6, <1>7, <1>8 DEF IsInjective
<1>10. ToSet(w) = {all[i] : i \in 1 .. k}
  BY <1>7, <1>8 DEF ToSet
<1>11. w \in Seq(Nodes) /\ ToSet(w) \cap cells = {}
  <2>1. \A i \in 1 .. k : w[i] \in S
    BY <1>7, <1>8
  <2>2. ToSet(w) \subseteq S
    BY <1>7, <1>10, <2>1
  <2>3. w \in Seq(Nodes)
    BY <1>3, <1>7
  <2> QED BY <1>1, <2>2, <2>3
<1>12. /\ cells' = cells \cup ToSet(w)
       /\ first' = [c \in Nodes |-> IF Contains(w, c) THEN Lists!Contents(l)[Seat(w, c)]
                                          ELSE first[c]]
       /\ rest' = [c \in Nodes |-> IF ~ Contains(w, c) THEN rest[c]
                                         ELSE IF Seat(w, c) = k THEN 0 ELSE w[Seat(w, c) + 1]]
  BY <1>5 DEF Lists!Copied, Seat, Contains, Lists!Contains, ToSet, Lists!ToSet, Lists!NULL, Lists!Cells, Nodes
<1>13. Copies(w, k, Lists!Contents(l), rest, rest', first, first')
  BY <1>7, <1>9, <1>11, <1>12 DEF Copies
<1>14. k # 0 => w[1] = all[1]
  <2>1. k # 0 => 1 \in 1 .. k
    OBVIOUS
  <2> QED BY <1>7, <2>1
<1>15. Taken(w, k, all, l)
  BY <1>10, <1>11, <1>12, <1>13, <1>14 DEF Taken
<1> QED BY <1>15

LEMMA CopyStep ==
  ASSUME NNodes \in Nat, ListTypes, NEW l \in Lists!Names, NEW m \in Lists!Names, l # m,
         NEW s, NEW t, Own(l, s, m, t, rest, heads, cells, leaked), Lists!hlist_copy(l, m)
  PROVE  ListKept
<1>1. PICK all : all = Lists!SetToSeq(Nodes \ cells)
  OBVIOUS
<1>2. IsPath(s, heads[l], rest) /\ IsPath(t, heads[m], rest) /\ heads[m] = 0
  BY DEF Own, Lists!hlist_copy, Lists!NULL
<1>3. t = <<>>
  BY <1>2, NoCells
<1>4. /\ s \in Seq(Nodes) /\ Len(s) \in Nat /\ ToSet(s) \subseteq Nodes
      /\ DOMAIN s = 1 .. Len(s)
  BY <1>2, PathCells
<1>5. IsPath(<<>>, 0, rest') /\ ToSet(<<>>) = {} /\ \A f : Image(<<>>, f) = <<>>
  BY EmptyPath
<1>6. cells = ToSet(s) \cup leaked /\ leaked \subseteq Nodes /\ leaked \cap ToSet(s) = {}
  BY <1>3, <1>5 DEF Own
<1>7. cells \subseteq Nodes
  BY <1>4, <1>6
<1>8. PICK n : n = Len(s)
  OBVIOUS
<1>9. Lists!Contents(l) = Image(s, first)
  BY <1>2, <1>4, AlongIs DEF Lists!Contents, Lists!From, Image
<1>10. Len(Lists!Contents(l)) = n /\ n \in Nat
  BY <1>4, <1>8, <1>9 DEF Image
<1>11. \/ /\ n <= Len(all) /\ Lists!Copied(l, n) /\ leaked' = leaked
          /\ heads' = [heads EXCEPT ![m] = IF n = 0 THEN 0 ELSE all[1]]
       \/ \E k \in 0 .. n - 1 :
            /\ k <= Len(all) /\ Lists!Copied(l, k) /\ leaked' = leaked \cup {all[i] : i \in 1 .. k}
            /\ heads' = heads
  <2>1. LET c == Len(Lists!Contents(l))
            free == Lists!SetToSeq(Nodes \ cells)
        IN  \/ /\ c <= Len(free) /\ Lists!Copied(l, c) /\ leaked' = leaked
               /\ heads' = [heads EXCEPT ![m] = IF c = 0 THEN Lists!NULL ELSE free[1]]
            \/ \E k \in 0 .. c - 1 :
                 /\ k <= Len(free) /\ Lists!Copied(l, k)
                 /\ leaked' = leaked \cup {free[i] : i \in 1 .. k} /\ heads' = heads
    BY Zenon DEF Lists!hlist_copy, Lists!Cells, Nodes
  <2> QED BY <1>1, <1>10, <2>1 DEF Lists!NULL
<1>12. ASSUME NEW k \in Nat, k <= Len(all), Lists!Copied(l, k)
       PROVE  \E w : /\ IsPath(w, IF k = 0 THEN 0 ELSE all[1], rest')
                     /\ Image(w, first') = [i \in 1 .. k |-> Lists!Contents(l)[i]]
                     /\ ToSet(w) = {all[i] : i \in 1 .. k} /\ ToSet(w) \subseteq Nodes
                     /\ ToSet(w) \cap cells = {} /\ cells' = cells \cup ToSet(w)
                     /\ IsPath(s, heads[l], rest') /\ Image(s, first') = Image(s, first)
                     /\ DOMAIN rest' = Nodes /\ DOMAIN first' = Nodes
  <2>0. PICK w : Taken(w, k, all, l)
    BY <1>1, <1>7, <1>12, CopiedStep
  <2>1. /\ Copies(w, k, Lists!Contents(l), rest, rest', first, first')
        /\ ToSet(w) = {all[i] : i \in 1 .. k} /\ ToSet(w) \cap cells = {}
        /\ cells' = cells \cup ToSet(w) /\ (k # 0 => w[1] = all[1])
        /\ DOMAIN rest' = Nodes /\ DOMAIN first' = Nodes
    BY <2>0 DEF Taken
  <2>2. /\ IsPath(w, IF k = 0 THEN 0 ELSE w[1], rest')
        /\ Image(w, first') = [i \in 1 .. k |-> Lists!Contents(l)[i]]
        /\ \A c \in Nodes \ ToSet(w) : rest'[c] = rest[c] /\ first'[c] = first[c]
    BY <2>1, PathCopied
  <2>3. IsPath(w, IF k = 0 THEN 0 ELSE all[1], rest')
    BY <2>1, <2>2
  <2>4. \A c \in ToSet(s) : rest'[c] = rest[c] /\ first'[c] = first[c]
    BY <1>4, <1>6, <2>1, <2>2
  <2>5. IsPath(s, heads[l], rest')
    BY <1>2, <2>4, PathElsewhere
  <2>6. Image(s, first') = Image(s, first)
    BY <1>4, <2>4, ImageElsewhere
  <2>7. ToSet(w) \subseteq Nodes
    BY <2>2, PathCells
  <2> QED BY <2>1, <2>2, <2>3, <2>5, <2>6, <2>7
\* All of l is copied.
<1>13. ASSUME n <= Len(all), Lists!Copied(l, n), leaked' = leaked,
              heads' = [heads EXCEPT ![m] = IF n = 0 THEN 0 ELSE all[1]]
       PROVE  ListKept
  <2>1. PICK w : /\ IsPath(w, IF n = 0 THEN 0 ELSE all[1], rest')
                 /\ Image(w, first') = [i \in 1 .. n |-> Lists!Contents(l)[i]]
                 /\ ToSet(w) \subseteq Nodes
                 /\ ToSet(w) \cap cells = {} /\ cells' = cells \cup ToSet(w)
                 /\ IsPath(s, heads[l], rest') /\ Image(s, first') = Image(s, first)
                 /\ DOMAIN rest' = Nodes /\ DOMAIN first' = Nodes
    BY <1>10, <1>12, <1>13
  <2>2. heads'[m] = (IF n = 0 THEN 0 ELSE all[1]) /\ heads'[l] = heads[l] /\ ListTypes'
    BY <1>13, <2>1 DEF ListTypes
  <2>3. IsPath(w, heads'[m], rest')
    BY <2>1, <2>2
  <2>4. Own(l, s, m, w, rest', heads', cells', leaked')
    BY <1>6, <1>13, <2>1, <2>2, <2>3 DEF Own
  <2>5. Image(w, first') = Image(s, first)
    BY <1>8, <1>9, <2>1 DEF Image
  <2>6. /\ HListInv'
        /\ Lists!Contents(l) = Image(s, first) /\ Lists!Contents(m) = Image(t, first)
        /\ Lists!Contents(l)' = Image(s, first') /\ Lists!Contents(m)' = Image(w, first')
    BY <2>2, <2>4, ListStep
  <2>7. /\ Lists!Keep(l) /\ Lists!Contents(m) = <<>> /\ Lists!Contents(m)' = Lists!Contents(l)
    BY <1>3, <1>5, <2>1, <2>5, <2>6 DEF Lists!Keep, Lists!Become
  <2> QED BY <2>6, <2>7 DEF ListKept, Lists!Promised
\* The cells copied so far are lost.
<1>14. ASSUME NEW k \in 0 .. n - 1, k <= Len(all), Lists!Copied(l, k), heads' = heads,
              leaked' = leaked \cup {all[i] : i \in 1 .. k}
       PROVE  ListKept
  <2>1. k \in Nat
    BY <1>10
  <2>2. PICK w : /\ ToSet(w) = {all[i] : i \in 1 .. k} /\ ToSet(w) \subseteq Nodes
                 /\ ToSet(w) \cap cells = {} /\ cells' = cells \cup ToSet(w)
                 /\ IsPath(s, heads[l], rest') /\ Image(s, first') = Image(s, first)
                 /\ DOMAIN rest' = Nodes /\ DOMAIN first' = Nodes
    BY <1>12, <1>14, <2>1
  <2>3. leaked' = leaked \cup ToSet(w)
    BY <1>14, <2>2
  <2>4. heads'[m] = 0 /\ heads'[l] = heads[l] /\ ListTypes'
    BY <1>2, <1>14, <2>2 DEF ListTypes
  <2>5. Own(l, s, m, <<>>, rest', heads', cells', leaked')
    BY <1>5, <1>6, <2>2, <2>3, <2>4 DEF Own
  <2>6. /\ HListInv'
        /\ Lists!Contents(l) = Image(s, first) /\ Lists!Contents(m) = Image(t, first)
        /\ Lists!Contents(l)' = Image(s, first') /\ Lists!Contents(m)' = Image(<<>>, first')
    BY <2>4, <2>5, ListStep
  <2>7. Lists!Keep(l) /\ Lists!Contents(m) = <<>> /\ Lists!Contents(m)' = <<>>
    BY <1>3, <1>5, <2>2, <2>6 DEF Lists!Keep, Lists!Become
  <2> QED BY <2>6, <2>7 DEF ListKept, Lists!Promised
<1> QED BY <1>11, <1>13, <1>14

LEMMA ListInit ==
  Lists!Init => HListInv
<1> SUFFICES ASSUME Lists!Init PROVE HListInv
  OBVIOUS
<1>1. heads["l"] = 0 /\ heads["m"] = 0 /\ cells = {} /\ leaked = {} /\ ListTypes
  BY DEF Lists!Init, Lists!Names, Lists!NULL, ListTypes, Lists!Cells, Nodes
<1>2. Own("l", <<>>, "m", <<>>, rest, heads, cells, leaked)
  BY <1>1, EmptyPath DEF Own
<1> QED BY <1>1, <1>2 DEF HListInv

LEMMA ListNext ==
  ASSUME NNodes \in Nat, HListInv, Lists!Next
  PROVE  ListKept
<1>1. ListTypes
  BY DEF HListInv
<1>2. ASSUME NEW l \in Lists!Names, NEW m \in Lists!Names, l # m
      PROVE  \E s, t : Own(l, s, m, t, rest, heads, cells, leaked)
  BY <1>2, OwnEither DEF HListInv
<1>3. ASSUME NEW l \in Lists!Names, NEW m \in Lists!Names, l # m,
             \/ \E x \in Stored : Lists!hlist_push(l, x)
             \/ Lists!hlist_pop(l) \/ Lists!hlist_reverse(l) \/ Lists!hlist_free(l)
             \/ Lists!hlist_to_array(l) \/ Lists!hlist_append(l, m) \/ Lists!hlist_copy(l, m)
      PROVE  ListKept
  <2>1. PICK s, t : Own(l, s, m, t, rest, heads, cells, leaked)
    BY <1>2, <1>3
  <2>2. CASE \E x \in Stored : Lists!hlist_push(l, x)
    BY <1>1, <1>3, <2>1, <2>2, PushStep
  <2>3. CASE Lists!hlist_pop(l)
    BY <1>1, <1>3, <2>1, <2>3, PopStep
  <2>4. CASE Lists!hlist_reverse(l)
    BY <1>1, <1>3, <2>1, <2>4, ReverseStep
  <2>5. CASE Lists!hlist_free(l)
    BY <1>1, <1>3, <2>1, <2>5, FreeStep
  <2>6. CASE Lists!hlist_to_array(l)
    BY <1>1, <1>3, <2>1, <2>6, ToArrayStep
  <2>7. CASE Lists!hlist_append(l, m)
    BY <1>1, <1>3, <2>1, <2>7, AppendStep
  <2>8. CASE Lists!hlist_copy(l, m)
    BY <1>1, <1>3, <2>1, <2>8, CopyStep
  <2> QED BY <1>3, <2>2, <2>3, <2>4, <2>5, <2>6, <2>7, <2>8
<1>4. \A l \in Lists!Names : \E m \in Lists!Names : l # m
  BY DEF Lists!Names
<1>5. \E l, m \in Lists!Names :
        /\ l # m
        /\ \/ \E x \in Stored : Lists!hlist_push(l, x)
           \/ Lists!hlist_pop(l) \/ Lists!hlist_reverse(l) \/ Lists!hlist_free(l)
           \/ Lists!hlist_to_array(l) \/ Lists!hlist_append(l, m) \/ Lists!hlist_copy(l, m)
  BY <1>4 DEF Lists!Next
<1> QED BY <1>3, <1>5

\* On every list there is a path of cells, with no cell on both lists and none
\* of those on them lost, whatever calls the client makes (hlist.c, all of
\* datastruct/hlist).
THEOREM HListInductive ==
  ASSUME NNodes \in Nat
  PROVE  Lists!Spec => []HListInv
<1>1. Lists!Init => HListInv
  BY ListInit
<1>2. HListInv /\ [Lists!Next]_Lists!vars => HListInv'
  <2>1. HListInv /\ Lists!Next => HListInv'
    BY ListNext DEF ListKept
  <2>2. HListInv /\ UNCHANGED Lists!vars => HListInv'
    <3> SUFFICES ASSUME HListInv, UNCHANGED Lists!vars PROVE HListInv'
      OBVIOUS
    <3>1. cells' = cells /\ rest' = rest /\ first' = first /\ heads' = heads /\ leaked' = leaked
      BY DEF Lists!vars
    <3>2. PICK s, t : Own("l", s, "m", t, rest, heads, cells, leaked)
      BY DEF HListInv
    <3>3. Own("l", s, "m", t, rest', heads', cells', leaked')
      BY <3>1, <3>2
    <3>4. ListTypes'
      BY <3>1 DEF HListInv, ListTypes
    <3> QED BY <3>3, <3>4 DEF HListInv
  <2> QED BY <2>1, <2>2
<1> QED BY <1>1, <1>2, PTL DEF Lists!Spec

\* Each cell allocated is on one list, or was lost by a copy that failed, and
\* every call does to the contents what it says (KeepsLists of HList).
THEOREM HListsKeep ==
  ASSUME NNodes \in Nat
  PROVE  Lists!Spec => Lists!KeepsLists
<1>1. HListInv => Lists!OwnsCells
  <2> SUFFICES ASSUME HListInv PROVE Lists!OwnsCells
    OBVIOUS
  <2>1. PICK s, t : Own("l", s, "m", t, rest, heads, cells, leaked)
    BY DEF HListInv
  <2>2. Lists!From(heads["l"]) = s /\ Lists!From(heads["m"]) = t
    BY <2>1, AlongIs DEF Own, Lists!From
  <2> QED BY <2>1, <2>2 DEF Own, Lists!OwnsCells, ToSet, Lists!ToSet
<1>2. HListInv /\ [Lists!Next]_Lists!vars => [Lists!Promised]_Lists!vars
  BY ListNext DEF ListKept
<1> QED BY <1>1, <1>2, HListInductive, PTL DEF Lists!Spec, Lists!KeepsLists

-----------------------------------------------------------------------------
(* Trees of nodes: what a node's children are when one is put among them,  *)
(* or taken from them.                                                     *)

\* s is the children of p.
Brood(p, s, nx, pv, pr, ch) ==
  /\ IsPath(s, ch[p], nx)
  /\ ToSet(s) = {n \in Nodes : pr[n] = p}
  /\ \A i \in 1 .. Len(s) : pv[s[i]] = IF i = 1 THEN 0 ELSE s[i - 1]

\* The links to the next of s, which is a path from c.
LEMMA PathLinks ==
  ASSUME NEW s, NEW c, NEW nx, IsPath(s, c, nx)
  PROVE  /\ s \in Seq(Nodes) /\ Len(s) \in Nat /\ DOMAIN s = 1 .. Len(s)
         /\ \A i \in 1 .. Len(s) : s[i] \in Nodes /\ s[i] # 0
         /\ \A i, j \in 1 .. Len(s) : s[i] = s[j] => i = j
         /\ \A i \in 1 .. Len(s) : nx[s[i]] = IF i = Len(s) THEN 0 ELSE s[i + 1]
         /\ c = IF Len(s) = 0 THEN 0 ELSE s[1]
<1>1. s \in Seq(Nodes) /\ Len(s) \in Nat /\ DOMAIN s = 1 .. Len(s)
  BY LenProperties DEF IsPath
<1>2. \A i \in 1 .. Len(s) : s[i] \in Nodes
  BY <1>1
<1>3. \A i \in 1 .. Len(s) : s[i] # 0
  BY <1>2 DEF Nodes
<1>4. \A i, j \in 1 .. Len(s) : s[i] = s[j] => i = j
  BY <1>1 DEF IsPath, IsInjective
<1>5. Len(s) \in Nat
  BY <1>1
<1>6. \A i \in 1 .. Len(s) : i # Len(s) => i \in 1 .. Len(s) - 1
  BY <1>5
<1>7. Len(s) > 0 <=> Len(s) # 0
  BY <1>5
<1>8. \A i \in 1 .. Len(s) : i = Len(s) => Len(s) > 0
  BY <1>5
<1>9. \A i \in 1 .. Len(s) : nx[s[i]] = IF i = Len(s) THEN 0 ELSE s[i + 1]
  BY <1>6, <1>8 DEF IsPath
<1>10. c = IF Len(s) = 0 THEN 0 ELSE s[1]
  BY <1>7 DEF IsPath
<1> QED BY <1>1, <1>2, <1>3, <1>4, <1>9, <1>10

\* And the other way round.
LEMMA LinksPath ==
  ASSUME NEW s \in Seq(Nodes), IsInjective(s), NEW c, NEW nx,
         \A i \in 1 .. Len(s) : nx[s[i]] = IF i = Len(s) THEN 0 ELSE s[i + 1],
         c = IF Len(s) = 0 THEN 0 ELSE s[1]
  PROVE  IsPath(s, c, nx)
<1>1. Len(s) \in Nat
  BY LenProperties
<1>2. \A i \in 1 .. Len(s) - 1 : i \in 1 .. Len(s) /\ i # Len(s)
  BY <1>1
<1>3. Len(s) > 0 => Len(s) \in 1 .. Len(s) /\ Len(s) # 0
  BY <1>1
<1> QED BY <1>1, <1>2, <1>3 DEF IsPath

\* n is put before the k-th of the children of p, or behind them all.
Joins(p, s, k, n, nx, pv, pr, ch, nx2, pv2, pr2, ch2) ==
  LET sib == IF k <= Len(s) THEN s[k] ELSE 0
      before == IF k = 1 THEN 0 ELSE s[k - 1]
  IN  /\ k \in 1 .. Len(s) + 1
      /\ pr2 = [pr EXCEPT ![n] = p]
      /\ nx2 = [m \in Nodes |-> IF m = before THEN n ELSE IF m = n THEN sib ELSE nx[m]]
      /\ pv2 = [m \in Nodes |-> IF m = sib THEN n ELSE IF m = n THEN before ELSE pv[m]]
      /\ ch2 = IF before = 0 THEN [ch EXCEPT ![p] = n] ELSE ch

LEMMA BroodJoined ==
  ASSUME NEW p \in Nodes, NEW n \in Nodes, NEW s, NEW k,
         NEW nx \in [Nodes -> Nodes \cup {0}], NEW pv \in [Nodes -> Nodes \cup {0}],
         NEW pr \in [Nodes -> Nodes \cup {0}], NEW ch \in [Nodes -> Nodes \cup {0}],
         NEW nx2, NEW pv2, NEW pr2, NEW ch2,
         Brood(p, s, nx, pv, pr, ch), pr[n] = 0,
         Joins(p, s, k, n, nx, pv, pr, ch, nx2, pv2, pr2, ch2)
  PROVE  InsertAt(s, k, n) \in Seq(Nodes) /\ Brood(p, InsertAt(s, k, n), nx2, pv2, pr2, ch2)
<1>1. IsPath(s, ch[p], nx) /\ ToSet(s) = {m \in Nodes : pr[m] = p}
  BY DEF Brood
<1>2. /\ s \in Seq(Nodes) /\ Len(s) \in Nat /\ DOMAIN s = 1 .. Len(s)
      /\ \A i \in 1 .. Len(s) : s[i] \in Nodes /\ s[i] # 0
      /\ \A i, j \in 1 .. Len(s) : s[i] = s[j] => i = j
      /\ \A i \in 1 .. Len(s) : nx[s[i]] = IF i = Len(s) THEN 0 ELSE s[i + 1]
      /\ ch[p] = IF Len(s) = 0 THEN 0 ELSE s[1]
  BY <1>1, PathLinks
<1>3. \A i \in 1 .. Len(s) : pv[s[i]] = IF i = 1 THEN 0 ELSE s[i - 1]
  BY DEF Brood
<1>4. \A i \in 1 .. Len(s) : s[i] # n
  <2>1. p # 0
    BY DEF Nodes
  <2>2. \A i \in 1 .. Len(s) : s[i] \in ToSet(s)
    BY <1>2 DEF ToSet
  <2> QED BY <1>1, <2>1, <2>2
<1>5. PICK u : u = InsertAt(s, k, n)
  OBVIOUS
<1>6. PICK sib, before : /\ sib = (IF k <= Len(s) THEN s[k] ELSE 0)
                         /\ before = (IF k = 1 THEN 0 ELSE s[k - 1])
  OBVIOUS
<1>7. /\ k \in 1 .. Len(s) + 1
      /\ pr2 = [pr EXCEPT ![n] = p]
      /\ nx2 = [m \in Nodes |-> IF m = before THEN n ELSE IF m = n THEN sib ELSE nx[m]]
      /\ pv2 = [m \in Nodes |-> IF m = sib THEN n ELSE IF m = n THEN before ELSE pv[m]]
      /\ ch2 = IF before = 0 THEN [ch EXCEPT ![p] = n] ELSE ch
  BY <1>6 DEF Joins
<1>n. Len(s) \in Nat /\ k \in 1 .. Len(s) + 1
  BY <1>2, <1>7
<1>s. s \in Seq(Nodes)
  BY <1>2
<1>8. /\ u \in Seq(Nodes) /\ Len(u) = Len(s) + 1
      /\ \A j \in 1 .. k - 1 : u[j] = s[j]
      /\ u[k] = n
      /\ \A j \in k .. Len(s) : u[j + 1] = s[j]
  BY <1>s, <1>5, <1>n, Inserted
<1>m. Len(u) = Len(s) + 1
  BY <1>8
<1>e. /\ \A j \in 1 .. k - 1 : u[j] = s[j]
      /\ u[k] = n
      /\ \A j \in k .. Len(s) : u[j + 1] = s[j]
  BY <1>8
<1>9. IsInjective(u) /\ ToSet(u) = ToSet(s) \cup {n}
  <2>1. IsInjective(s) /\ n \notin Range(s)
    BY <1>2, <1>4 DEF IsInjective, Range
  <2>2. IsInjective(InsertAt(s, k, n)) /\ Range(InsertAt(s, k, n)) = Range(s) \cup {n}
    BY <1>s, <1>n, <2>1, InsertedDistinct
  <2> QED BY <1>5, <2>2 DEF Range, ToSet
<1>v. \A i, j \in 1 .. Len(s) : s[i] = s[j] => i = j
  BY <1>2
<1>z. \A i \in 1 .. Len(s) : s[i] # 0 /\ s[i] \in Nodes
  BY <1>2
<1>10. /\ before # n /\ sib # n /\ n # 0
       /\ \A j \in 1 .. Len(s) : (s[j] = before <=> j = k - 1) /\ (s[j] = sib <=> j = k)
  <2>1. n # 0
    BY DEF Nodes
  <2>2. k # 1 => k - 1 \in 1 .. Len(s)
    BY <1>n
  <2>3. k <= Len(s) => k \in 1 .. Len(s)
    BY <1>n
  <2>4. ASSUME NEW j \in 1 .. Len(s) PROVE s[j] = before <=> j = k - 1
    <3>1. CASE k = 1
      <4>1. j # k - 1
        BY <3>1
      <4> QED BY <1>z, <1>6, <3>1, <4>1
    <3>2. CASE k # 1
      BY <1>v, <1>6, <2>2, <3>2
    <3> QED BY <3>1, <3>2
  <2>5. ASSUME NEW j \in 1 .. Len(s) PROVE s[j] = sib <=> j = k
    <3>1. CASE k <= Len(s)
      BY <1>v, <1>6, <2>3, <3>1
    <3>2. CASE ~ k <= Len(s)
      <4>1. j # k
        BY <1>n, <3>2
      <4> QED BY <1>z, <1>6, <3>2, <4>1
    <3> QED BY <3>1, <3>2
  <2> QED BY <1>4, <1>6, <2>1, <2>2, <2>3, <2>4, <2>5
<1>11. /\ nx2[n] = sib /\ pv2[n] = before
       /\ \A j \in 1 .. Len(s) : /\ nx2[s[j]] = IF j = k - 1 THEN n ELSE nx[s[j]]
                                 /\ pv2[s[j]] = IF j = k THEN n ELSE pv[s[j]]
  BY <1>z, <1>4, <1>7, <1>10
<1>x. \A i \in 1 .. Len(s) : nx[s[i]] = IF i = Len(s) THEN 0 ELSE s[i + 1]
  BY <1>2
<1>12. ASSUME NEW j \in 1 .. Len(u)
       PROVE  /\ nx2[u[j]] = IF j = Len(u) THEN 0 ELSE u[j + 1]
              /\ pv2[u[j]] = IF j = 1 THEN 0 ELSE u[j - 1]
  <2>1. CASE j < k
    <3>1. j \in 1 .. Len(s) /\ j \in 1 .. k - 1 /\ j # Len(u)
      BY <1>n, <1>m, <2>1
    <3>2. u[j] = s[j]
      BY <1>e, <3>1
    <3>3. nx2[u[j]] = u[j + 1]
      <4>1. CASE j = k - 1
        <5>1. j + 1 = k
          BY <1>n, <4>1
        <5> QED BY <1>e, <1>11, <3>1, <3>2, <4>1, <5>1
      <4>2. CASE j # k - 1
        <5>1. PICK i : i = j + 1
          OBVIOUS
        <5>2. i \in 1 .. k - 1 /\ j # Len(s)
          BY <1>n, <3>1, <4>2, <5>1
        <5>3. u[i] = s[i] /\ nx[s[j]] = s[i]
          BY <1>x, <1>e, <3>1, <5>1, <5>2
        <5> QED BY <1>11, <3>1, <3>2, <4>2, <5>1, <5>3
      <4> QED BY <4>1, <4>2
    <3>4. pv2[u[j]] = IF j = 1 THEN 0 ELSE u[j - 1]
      <4>1. PICK i : i = j - 1
        OBVIOUS
      <4>2. j # 1 => i \in 1 .. k - 1
        BY <1>n, <3>1, <4>1
      <4>3. j # 1 => u[i] = s[i]
        BY <1>e, <4>2
      <4>4. j # k
        BY <1>n, <2>1
      <4> QED BY <1>3, <1>11, <3>1, <3>2, <4>1, <4>3, <4>4
    <3> QED BY <3>1, <3>3, <3>4
  <2>2. CASE j = k
    <3>1. u[j] = n /\ nx2[u[j]] = sib /\ pv2[u[j]] = before
      BY <1>e, <1>11, <2>2
    <3>2. sib = IF j = Len(u) THEN 0 ELSE u[j + 1]
      <4>1. CASE k <= Len(s)
        <5>1. k \in k .. Len(s) /\ j # Len(u)
          BY <1>n, <1>m, <2>2, <4>1
        <5> QED BY <1>6, <1>e, <2>2, <4>1, <5>1
      <4>2. CASE ~ k <= Len(s)
        <5>1. j = Len(u)
          BY <1>n, <1>m, <2>2, <4>2
        <5> QED BY <1>6, <4>2, <5>1
      <4> QED BY <4>1, <4>2
    <3>3. before = IF j = 1 THEN 0 ELSE u[j - 1]
      <4>1. j # 1 => j - 1 \in 1 .. k - 1
        BY <1>n, <2>2
      <4> QED BY <1>6, <1>e, <2>2, <4>1
    <3> QED BY <3>1, <3>2, <3>3
  <2>3. CASE j > k
    <3>1. PICK i : i = j - 1
      OBVIOUS
    <3>2. i \in 1 .. Len(s) /\ i \in k .. Len(s) /\ j = i + 1 /\ i # k - 1 /\ j # 1
      BY <1>n, <1>m, <2>3, <3>1
    <3>3. u[j] = s[i]
      BY <1>e, <3>2
    <3>4. nx2[u[j]] = nx[s[i]] /\ pv2[u[j]] = IF i = k THEN n ELSE pv[s[i]]
      BY <1>11, <3>2, <3>3
    <3>5. nx[s[i]] = IF j = Len(u) THEN 0 ELSE u[j + 1]
      <4>1. CASE i = Len(s)
        <5>1. j = Len(u)
          BY <1>m, <3>2, <4>1
        <5> QED BY <1>x, <3>2, <4>1, <5>1
      <4>2. CASE i # Len(s)
        <5>1. j \in k .. Len(s) /\ j # Len(u)
          BY <1>n, <1>m, <3>2, <4>2
        <5>2. u[j + 1] = s[j]
          BY <1>e, <5>1
        <5> QED BY <1>x, <3>2, <4>2, <5>1, <5>2
      <4> QED BY <4>1, <4>2
    <3>6. (IF i = k THEN n ELSE pv[s[i]]) = u[i]
      <4>1. CASE i = k
        BY <1>e, <4>1
      <4>2. CASE i # k
        <5>1. PICK h : h = i - 1
          OBVIOUS
        <5>2. h \in k .. Len(s) /\ i = h + 1 /\ i # 1
          BY <1>n, <3>2, <4>2, <5>1
        <5>3. u[i] = s[h]
          BY <1>e, <5>2
        <5>4. pv[s[i]] = s[h]
          BY <1>3, <3>2, <5>1, <5>2
        <5> QED BY <4>2, <5>3, <5>4
      <4> QED BY <4>1, <4>2
    <3> QED BY <3>1, <3>2, <3>4, <3>5, <3>6
  <2>4. j < k \/ j = k \/ j > k
    BY <1>n, <1>m
  <2> QED BY <2>1, <2>2, <2>3, <2>4
<1>13. ch2[p] = IF Len(u) = 0 THEN 0 ELSE u[1]
  <2>1. Len(u) # 0 /\ (k # 1 => k - 1 \in 1 .. Len(s) /\ 1 \in 1 .. k - 1 /\ Len(s) # 0)
    BY <1>n, <1>m
  <2>2. CASE k = 1
    <3>1. ch2[p] = n
      BY <1>6, <1>7, <2>2
    <3> QED BY <1>e, <2>1, <2>2, <3>1
  <2>3. CASE k # 1
    <3>1. before # 0
      BY <1>z, <1>6, <2>1, <2>3
    <3>2. ch2[p] = ch[p] /\ ch[p] = s[1]
      BY <1>2, <1>7, <2>1, <2>3, <3>1
    <3> QED BY <1>e, <2>1, <2>3, <3>2
  <2> QED BY <2>2, <2>3
<1>14. IsPath(u, ch2[p], nx2)
  <2>1. u \in Seq(Nodes) /\ IsInjective(u)
    BY <1>8, <1>9
  <2> QED BY <1>12, <1>13, <2>1, LinksPath
<1>15. ToSet(u) = {m \in Nodes : pr2[m] = p}
  BY <1>1, <1>7, <1>9
<1>16. Brood(p, u, nx2, pv2, pr2, ch2)
  BY <1>12, <1>14, <1>15 DEF Brood
<1> QED BY <1>5, <1>8, <1>16

\* t is taken from among its siblings.
Parts(t, nx, pv, pr, ch, nx2, pv2, pr2, ch2) ==
  /\ nx2 = [m \in Nodes |-> IF m = t THEN 0 ELSE IF m = pv[t] THEN nx[t] ELSE nx[m]]
  /\ pv2 = [m \in Nodes |-> IF m = t THEN 0 ELSE IF m = nx[t] THEN pv[t] ELSE pv[m]]
  /\ ch2 = IF pv[t] = 0 /\ pr[t] # 0 THEN [ch EXCEPT ![pr[t]] = nx[t]] ELSE ch
  /\ pr2 = [pr EXCEPT ![t] = 0]

LEMMA BroodParted ==
  ASSUME NEW p \in Nodes, NEW t, NEW s, NEW k \in 1 .. Len(s),
         NEW nx \in [Nodes -> Nodes \cup {0}], NEW pv \in [Nodes -> Nodes \cup {0}],
         NEW pr \in [Nodes -> Nodes \cup {0}], NEW ch \in [Nodes -> Nodes \cup {0}],
         NEW nx2, NEW pv2, NEW pr2, NEW ch2,
         Brood(p, s, nx, pv, pr, ch), t = s[k],
         Parts(t, nx, pv, pr, ch, nx2, pv2, pr2, ch2)
  PROVE  RemoveAt(s, k) \in Seq(Nodes) /\ Brood(p, RemoveAt(s, k), nx2, pv2, pr2, ch2)
<1>1. IsPath(s, ch[p], nx) /\ ToSet(s) = {m \in Nodes : pr[m] = p}
  BY DEF Brood
<1>2. /\ s \in Seq(Nodes) /\ Len(s) \in Nat /\ DOMAIN s = 1 .. Len(s)
      /\ \A i \in 1 .. Len(s) : s[i] \in Nodes /\ s[i] # 0
      /\ \A i, j \in 1 .. Len(s) : s[i] = s[j] => i = j
      /\ \A i \in 1 .. Len(s) : nx[s[i]] = IF i = Len(s) THEN 0 ELSE s[i + 1]
      /\ ch[p] = IF Len(s) = 0 THEN 0 ELSE s[1]
  BY <1>1, PathLinks
<1>3. \A i \in 1 .. Len(s) : pv[s[i]] = IF i = 1 THEN 0 ELSE s[i - 1]
  BY DEF Brood
<1>4. \A i \in 1 .. Len(s) : nx[s[i]] = IF i = Len(s) THEN 0 ELSE s[i + 1]
  BY <1>2
<1>5. \A i, j \in 1 .. Len(s) : s[i] = s[j] => i = j
  BY <1>2
<1>6. \A i \in 1 .. Len(s) : s[i] # 0 /\ s[i] \in Nodes
  BY <1>2
<1>7. Len(s) \in Nat /\ k \in 1 .. Len(s)
  BY <1>2
<1>8. PICK u : u = RemoveAt(s, k)
  OBVIOUS
<1>9. /\ u \in Seq(Nodes) /\ Len(u) = Len(s) - 1
      /\ \A j \in 1 .. k - 1 : u[j] = s[j]
      /\ \A j \in k .. Len(s) - 1 : u[j] = s[j + 1]
  <2>1. s \in Seq(Nodes)
    BY <1>2
  <2> QED BY <1>7, <1>8, <2>1, Removed
<1>10. Len(u) = Len(s) - 1
  BY <1>9
<1>11. /\ \A j \in 1 .. k - 1 : u[j] = s[j]
       /\ \A j \in k .. Len(s) - 1 : u[j] = s[j + 1]
  BY <1>9
<1>12. IsInjective(u) /\ ToSet(u) = ToSet(s) \ {t}
  <2>1. IsInjective(s) /\ s \in Seq(Nodes)
    BY <1>2 DEF IsInjective
  <2>2. IsInjective(RemoveAt(s, k)) /\ Range(RemoveAt(s, k)) = Range(s) \ {s[k]}
    BY <1>7, <2>1, RemovedDistinct
  <2> QED BY <1>8, <2>2 DEF Range, ToSet
<1>13. PICK before, after : before = pv[t] /\ after = nx[t]
  OBVIOUS
<1>14. /\ before = (IF k = 1 THEN 0 ELSE s[k - 1]) /\ after = (IF k = Len(s) THEN 0 ELSE s[k + 1])
       /\ t \in Nodes /\ t # 0 /\ pr[t] = p /\ p # 0
  <2>1. t \in ToSet(s)
    BY <1>2 DEF ToSet
  <2>2. p # 0
    BY DEF Nodes
  <2> QED BY <1>1, <1>3, <1>4, <1>6, <1>7, <1>13, <2>1, <2>2
<1>15. ASSUME NEW j \in 1 .. Len(s)
       PROVE  (s[j] = before <=> j = k - 1) /\ (s[j] = after <=> j = k + 1)
  <2>1. /\ k # 1 => k - 1 \in 1 .. Len(s)
        /\ k # Len(s) => k + 1 \in 1 .. Len(s)
        /\ k = 1 => j # k - 1
        /\ k = Len(s) => j # k + 1
    BY <1>7
  <2>2. s[j] = before <=> j = k - 1
    <3>1. CASE k = 1
      BY <1>6, <1>14, <2>1, <3>1
    <3>2. CASE k # 1
      BY <1>5, <1>14, <2>1, <3>2
    <3> QED BY <3>1, <3>2
  <2>3. s[j] = after <=> j = k + 1
    <3>1. CASE k = Len(s)
      BY <1>6, <1>14, <2>1, <3>1
    <3>2. CASE k # Len(s)
      BY <1>5, <1>14, <2>1, <3>2
    <3> QED BY <3>1, <3>2
  <2> QED BY <2>2, <2>3
<1>16. /\ nx2 = [m \in Nodes |-> IF m = t THEN 0 ELSE IF m = before THEN after ELSE nx[m]]
       /\ pv2 = [m \in Nodes |-> IF m = t THEN 0 ELSE IF m = after THEN before ELSE pv[m]]
       /\ ch2 = IF before = 0 THEN [ch EXCEPT ![p] = after] ELSE ch
       /\ pr2 = [pr EXCEPT ![t] = 0]
  BY <1>13, <1>14 DEF Parts
<1>17. ASSUME NEW j \in 1 .. Len(s), j # k
       PROVE  /\ nx2[s[j]] = IF j = k - 1 THEN after ELSE nx[s[j]]
              /\ pv2[s[j]] = IF j = k + 1 THEN before ELSE pv[s[j]]
  <2>1. s[j] # t /\ s[j] \in Nodes
    BY <1>5, <1>6, <1>7, <1>17
  <2> QED BY <1>15, <1>16, <2>1
<1>18. ASSUME NEW j \in 1 .. Len(u)
       PROVE  /\ nx2[u[j]] = IF j = Len(u) THEN 0 ELSE u[j + 1]
              /\ pv2[u[j]] = IF j = 1 THEN 0 ELSE u[j - 1]
  <2>1. CASE j < k
    <3>1. j \in 1 .. Len(s) /\ j \in 1 .. k - 1 /\ j # k /\ j # k + 1
      BY <1>7, <1>10, <2>1
    <3>2. u[j] = s[j]
      BY <1>11, <3>1
    <3>3. nx2[u[j]] = IF j = Len(u) THEN 0 ELSE u[j + 1]
      <4>1. CASE j = k - 1
        <5>1. j + 1 = k /\ (k = Len(s) <=> j = Len(u)) /\ (k # Len(s) => k \in k .. Len(s) - 1)
          BY <1>7, <1>10, <4>1
        <5>2. nx2[u[j]] = after
          BY <1>17, <3>1, <3>2, <4>1
        <5> QED BY <1>11, <1>14, <5>1, <5>2
      <4>2. CASE j # k - 1
        <5>1. PICK i : i = j + 1
          OBVIOUS
        <5>2. i \in 1 .. k - 1 /\ j # Len(s) /\ j # Len(u)
          BY <1>7, <1>10, <3>1, <4>2, <5>1
        <5>3. u[i] = s[i] /\ nx[s[j]] = s[i]
          BY <1>4, <1>11, <3>1, <5>1, <5>2
        <5> QED BY <1>17, <3>1, <3>2, <4>2, <5>1, <5>2, <5>3
      <4> QED BY <4>1, <4>2
    <3>4. pv2[u[j]] = IF j = 1 THEN 0 ELSE u[j - 1]
      <4>1. PICK i : i = j - 1
        OBVIOUS
      <4>2. j # 1 => i \in 1 .. k - 1
        BY <1>7, <3>1, <4>1
      <4>3. j # 1 => u[i] = s[i]
        BY <1>11, <4>2
      <4> QED BY <1>3, <1>17, <3>1, <3>2, <4>1, <4>3
    <3> QED BY <3>3, <3>4
  <2>2. CASE ~ j < k
    <3>1. PICK i : i = j + 1
      OBVIOUS
    <3>2. /\ i \in 1 .. Len(s) /\ i # k /\ i # k - 1 /\ j \in k .. Len(s) - 1
          /\ (i = Len(s) <=> j = Len(u)) /\ (i = k + 1 <=> j = k) /\ i # 1 /\ i - 1 = j
      BY <1>7, <1>10, <2>2, <3>1
    <3>3. u[j] = s[i]
      BY <1>11, <3>1, <3>2
    <3>4. nx2[u[j]] = nx[s[i]] /\ pv2[u[j]] = IF j = k THEN before ELSE pv[s[i]]
      BY <1>17, <3>2, <3>3
    <3>5. nx[s[i]] = IF j = Len(u) THEN 0 ELSE u[j + 1]
      <4>1. i # Len(s) => i \in k .. Len(s) - 1
        BY <1>7, <3>2
      <4>2. i # Len(s) => u[i] = s[i + 1]
        BY <1>11, <4>1
      <4> QED BY <1>4, <3>1, <3>2, <4>2
    <3>6. (IF j = k THEN before ELSE pv[s[i]]) = IF j = 1 THEN 0 ELSE u[j - 1]
      <4>1. PICK h : h = j - 1
        OBVIOUS
      <4>2. CASE j = k
        <5>1. j # 1 => h \in 1 .. k - 1
          BY <1>7, <4>1, <4>2
        <5> QED BY <1>11, <1>14, <4>1, <4>2, <5>1
      <4>3. CASE j # k
        <5>1. h \in k .. Len(s) - 1 /\ h + 1 = j /\ j # 1
          BY <1>7, <3>2, <4>1, <4>3
        <5>2. u[h] = s[j]
          BY <1>11, <5>1
        <5>3. pv[s[i]] = s[j]
          BY <1>3, <3>2
        <5> QED BY <4>1, <4>3, <5>1, <5>2, <5>3
      <4> QED BY <4>2, <4>3
    <3> QED BY <3>4, <3>5, <3>6
  <2> QED BY <2>1, <2>2
<1>19. ch2[p] = IF Len(u) = 0 THEN 0 ELSE u[1]
  <2>1. /\ k # 1 => k - 1 \in 1 .. Len(s) /\ 1 \in 1 .. k - 1 /\ Len(s) # 0 /\ Len(u) # 0
        /\ k = 1 => (k = Len(s) <=> Len(u) = 0) /\ (k # Len(s) => 1 \in k .. Len(s) - 1)
    BY <1>7, <1>10
  <2>2. CASE k = 1
    <3>1. ch2[p] = after
      BY <1>14, <1>16, <2>2
    <3> QED BY <1>11, <1>14, <2>1, <2>2, <3>1
  <2>3. CASE k # 1
    <3>1. before # 0
      BY <1>6, <1>14, <2>1, <2>3
    <3>2. ch2[p] = ch[p] /\ ch[p] = s[1]
      BY <1>2, <1>16, <2>1, <2>3, <3>1
    <3> QED BY <1>11, <2>1, <2>3, <3>2
  <2> QED BY <2>2, <2>3
<1>20. IsPath(u, ch2[p], nx2)
  <2>1. u \in Seq(Nodes) /\ IsInjective(u)
    BY <1>9, <1>12
  <2> QED BY <1>18, <1>19, <2>1, LinksPath
<1>21. ToSet(u) = {m \in Nodes : pr2[m] = p}
  BY <1>1, <1>12, <1>14, <1>16
<1>22. Brood(p, u, nx2, pv2, pr2, ch2)
  BY <1>18, <1>20, <1>21 DEF Brood
<1> QED BY <1>8, <1>9, <1>22

\* The children of another node do not see it.
LEMMA BroodElsewhere ==
  ASSUME NEW p \in Nodes, NEW s, NEW nx, NEW pv, NEW pr, NEW ch, NEW nx2, NEW pv2, NEW pr2, NEW ch2,
         Brood(p, s, nx, pv, pr, ch), ch2[p] = ch[p],
         \A m \in ToSet(s) : nx2[m] = nx[m] /\ pv2[m] = pv[m],
         \A m \in Nodes : pr2[m] = p <=> pr[m] = p
  PROVE  Brood(p, s, nx2, pv2, pr2, ch2)
<1>1. IsPath(s, ch2[p], nx2)
  BY PathElsewhere DEF Brood
<1>2. \A i \in 1 .. Len(s) : s[i] \in ToSet(s)
  BY PathCells DEF Brood
<1> QED BY <1>1, <1>2 DEF Brood

LinkTypes(lv, nx, pv, pr, ch) ==
  /\ lv \subseteq Nodes
  /\ nx \in [Nodes -> Nodes \cup {0}] /\ pv \in [Nodes -> Nodes \cup {0}]
  /\ pr \in [Nodes -> Nodes \cup {0}] /\ ch \in [Nodes -> Nodes \cup {0}]

\* broods has the children of each node; all links agree with it.
Trees(broods, lv, nx, pv, pr, ch) ==
  /\ LinkTypes(lv, nx, pv, pr, ch)
  /\ broods \in [Nodes -> Seq(Nodes)]
  /\ \A p \in Nodes : Brood(p, broods[p], nx, pv, pr, ch)
  /\ \A n \in Nodes : pr[n] = 0 => pv[n] = 0 /\ nx[n] = 0
  /\ \A n \in Nodes : pr[n] # 0 => n \in lv /\ pr[n] \in lv

\* What is among the children of one node.
LEMMA ParentOfListed ==
  ASSUME NEW broods, NEW lv, NEW nx, NEW pv, NEW pr, NEW ch, Trees(broods, lv, nx, pv, pr, ch),
         NEW p \in Nodes
  PROVE  /\ broods[p] \in Seq(Nodes) /\ Len(broods[p]) \in Nat
         /\ DOMAIN broods[p] = 1 .. Len(broods[p])
         /\ \A n \in Nodes : n \in ToSet(broods[p]) <=> pr[n] = p
         /\ \A i \in 1 .. Len(broods[p]) : /\ broods[p][i] \in Nodes /\ pr[broods[p][i]] = p
                                           /\ broods[p][i] \in lv
         /\ \A i, j \in 1 .. Len(broods[p]) : broods[p][i] = broods[p][j] => i = j
<1>1. Brood(p, broods[p], nx, pv, pr, ch) /\ IsPath(broods[p], ch[p], nx)
  BY DEF Trees, Brood
<1>2. /\ broods[p] \in Seq(Nodes) /\ Len(broods[p]) \in Nat /\ DOMAIN broods[p] = 1 .. Len(broods[p])
      /\ \A i \in 1 .. Len(broods[p]) : broods[p][i] \in Nodes
      /\ \A i, j \in 1 .. Len(broods[p]) : broods[p][i] = broods[p][j] => i = j
  BY <1>1, PathLinks
<1>3. \A n \in Nodes : n \in ToSet(broods[p]) <=> pr[n] = p
  BY <1>1 DEF Brood
<1>4. \A i \in 1 .. Len(broods[p]) : broods[p][i] \in ToSet(broods[p])
  BY <1>2 DEF ToSet
<1>5. p # 0
  BY DEF Nodes
<1>6. \A i \in 1 .. Len(broods[p]) : pr[broods[p][i]] = p /\ broods[p][i] \in lv
  BY <1>2, <1>3, <1>4, <1>5 DEF Trees
<1> QED BY <1>2, <1>3, <1>6

LEMMA TreesJoined ==
  ASSUME NEW broods, NEW lv, NEW nx, NEW pv, NEW pr, NEW ch, Trees(broods, lv, nx, pv, pr, ch),
         NEW nx2, NEW pv2, NEW pr2, NEW ch2, NEW p \in lv, NEW n \in lv, pr[n] = 0, NEW k,
         Joins(p, broods[p], k, n, nx, pv, pr, ch, nx2, pv2, pr2, ch2)
  PROVE  Trees([broods EXCEPT ![p] = InsertAt(broods[p], k, n)], lv, nx2, pv2, pr2, ch2)
<1>1. PICK s : s = broods[p]
  OBVIOUS
<1>2. /\ lv \subseteq Nodes /\ p \in Nodes /\ n \in Nodes
      /\ nx \in [Nodes -> Nodes \cup {0}] /\ pv \in [Nodes -> Nodes \cup {0}]
      /\ pr \in [Nodes -> Nodes \cup {0}] /\ ch \in [Nodes -> Nodes \cup {0}]
      /\ broods \in [Nodes -> Seq(Nodes)] /\ Brood(p, s, nx, pv, pr, ch)
  BY <1>1 DEF Trees, LinkTypes
<1>3. Joins(p, s, k, n, nx, pv, pr, ch, nx2, pv2, pr2, ch2)
  BY <1>1
<1>4. /\ Len(s) \in Nat
      /\ \A m \in Nodes : m \in ToSet(s) <=> pr[m] = p
      /\ \A i \in 1 .. Len(s) : s[i] \in Nodes /\ pr[s[i]] = p
  BY <1>1, <1>2, ParentOfListed
<1>5. PICK sib, before : /\ sib = (IF k <= Len(s) THEN s[k] ELSE 0)
                         /\ before = (IF k = 1 THEN 0 ELSE s[k - 1])
  OBVIOUS
<1>6. /\ k \in 1 .. Len(s) + 1
      /\ pr2 = [pr EXCEPT ![n] = p]
      /\ nx2 = [m \in Nodes |-> IF m = before THEN n ELSE IF m = n THEN sib ELSE nx[m]]
      /\ pv2 = [m \in Nodes |-> IF m = sib THEN n ELSE IF m = n THEN before ELSE pv[m]]
      /\ ch2 = IF before = 0 THEN [ch EXCEPT ![p] = n] ELSE ch
  BY <1>3, <1>5 DEF Joins
<1>7. Len(s) \in Nat /\ k \in 1 .. Len(s) + 1
  BY <1>4, <1>6
<1>8. /\ sib \in Nodes \cup {0} /\ before \in Nodes \cup {0}
      /\ sib # 0 => pr[sib] = p
      /\ before # 0 => pr[before] = p
  <2>1. (k <= Len(s) => k \in 1 .. Len(s)) /\ (k # 1 => k - 1 \in 1 .. Len(s))
    BY <1>7
  <2> QED BY <1>4, <1>5, <2>1
<1>9. 0 \notin Nodes
  BY DEF Nodes
<1>10. LinkTypes(lv, nx2, pv2, pr2, ch2)
  BY <1>2, <1>6, <1>8 DEF LinkTypes
<1>11. PICK u : u = InsertAt(s, k, n)
  OBVIOUS
<1>12. u \in Seq(Nodes) /\ Brood(p, u, nx2, pv2, pr2, ch2)
  BY <1>2, <1>3, <1>11, BroodJoined
<1>13. ASSUME NEW q \in Nodes, q # p PROVE Brood(q, broods[q], nx2, pv2, pr2, ch2)
  <2>1. Brood(q, broods[q], nx, pv, pr, ch)
    BY DEF Trees
  <2>2. ch2[q] = ch[q]
    BY <1>2, <1>6, <1>13
  <2>3. ASSUME NEW m \in ToSet(broods[q]) PROVE nx2[m] = nx[m] /\ pv2[m] = pv[m]
    <3>1. m \in Nodes /\ pr[m] = q
      BY <2>1 DEF Brood
    <3>2. m # n /\ m # sib /\ m # before
      BY <1>8, <1>9, <1>13, <3>1
    <3> QED BY <1>6, <3>1, <3>2
  <2>4. \A m \in Nodes : pr2[m] = q <=> pr[m] = q
    BY <1>2, <1>6, <1>9, <1>13
  <2> QED BY <2>1, <2>2, <2>3, <2>4, BroodElsewhere
<1>14. ASSUME NEW m \in Nodes, pr2[m] = 0 PROVE pv2[m] = 0 /\ nx2[m] = 0
  <2>1. m # n /\ pr[m] = 0
    BY <1>2, <1>6, <1>9, <1>14
  <2>2. m # sib /\ m # before
    BY <1>2, <1>8, <1>9, <2>1
  <2>3. pv[m] = 0 /\ nx[m] = 0
    BY <2>1 DEF Trees
  <2> QED BY <1>6, <2>1, <2>2, <2>3
<1>15. \A m \in Nodes : pr2[m] # 0 => m \in lv /\ pr2[m] \in lv
  BY <1>2, <1>6 DEF Trees
<1>16. PICK new : new = [broods EXCEPT ![p] = u]
  OBVIOUS
<1>17. new \in [Nodes -> Seq(Nodes)] /\ \A q \in Nodes : Brood(q, new[q], nx2, pv2, pr2, ch2)
  BY <1>2, <1>12, <1>13, <1>16
<1>18. Trees(new, lv, nx2, pv2, pr2, ch2)
  BY <1>10, <1>14, <1>15, <1>17 DEF Trees
<1> QED BY <1>1, <1>11, <1>16, <1>18

\* s without t.
Less(s, t) == IF Contains(s, t) THEN RemoveAt(s, CHOOSE i \in DOMAIN s : s[i] = t) ELSE s

LEMMA TreesParted ==
  ASSUME NEW broods, NEW lv, NEW nx, NEW pv, NEW pr, NEW ch, Trees(broods, lv, nx, pv, pr, ch),
         NEW nx2, NEW pv2, NEW pr2, NEW ch2, NEW t \in Nodes,
         Parts(t, nx, pv, pr, ch, nx2, pv2, pr2, ch2)
  PROVE  Trees([q \in Nodes |-> Less(broods[q], t)], lv, nx2, pv2, pr2, ch2)
<1>1. /\ lv \subseteq Nodes
      /\ nx \in [Nodes -> Nodes \cup {0}] /\ pv \in [Nodes -> Nodes \cup {0}]
      /\ pr \in [Nodes -> Nodes \cup {0}] /\ ch \in [Nodes -> Nodes \cup {0}]
      /\ broods \in [Nodes -> Seq(Nodes)]
  BY DEF Trees, LinkTypes
<1>2. /\ nx2 = [m \in Nodes |-> IF m = t THEN 0 ELSE IF m = pv[t] THEN nx[t] ELSE nx[m]]
      /\ pv2 = [m \in Nodes |-> IF m = t THEN 0 ELSE IF m = nx[t] THEN pv[t] ELSE pv[m]]
      /\ ch2 = (IF pv[t] = 0 /\ pr[t] # 0 THEN [ch EXCEPT ![pr[t]] = nx[t]] ELSE ch)
      /\ pr2 = [pr EXCEPT ![t] = 0]
  BY DEF Parts
<1>3. 0 \notin Nodes
  BY DEF Nodes
<1>4. LinkTypes(lv, nx2, pv2, pr2, ch2)
  BY <1>1, <1>2 DEF LinkTypes
<1>5. ASSUME NEW m \in Nodes, m = pv[t] \/ m = nx[t] PROVE pr[m] = pr[t] /\ pr[m] # 0
  <2>1. pr[t] # 0 /\ pr[t] \in Nodes
    BY <1>1, <1>3, <1>5 DEF Trees
  <2>2. PICK p : p = pr[t] /\ p \in Nodes
    BY <2>1
  <2>3. PICK s : s = broods[p] /\ Brood(p, s, nx, pv, pr, ch)
    BY <2>2 DEF Trees
  <2>4. /\ IsPath(s, ch[p], nx) /\ t \in ToSet(s)
        /\ \A i \in 1 .. Len(s) : pv[s[i]] = IF i = 1 THEN 0 ELSE s[i - 1]
    BY <2>2, <2>3 DEF Brood
  <2>5. /\ Len(s) \in Nat /\ DOMAIN s = 1 .. Len(s)
        /\ \A i \in 1 .. Len(s) : nx[s[i]] = IF i = Len(s) THEN 0 ELSE s[i + 1]
    BY <2>4, PathLinks
  <2>6. Len(s) \in Nat
    BY <2>5
  <2>7. PICK i \in 1 .. Len(s) : s[i] = t
    BY <2>4, <2>5 DEF ToSet
  <2>8. \A j \in 1 .. Len(s) : pr[s[j]] = p
    BY <2>2, <2>3, ParentOfListed
  <2>9. (i # 1 => i - 1 \in 1 .. Len(s)) /\ (i # Len(s) => i + 1 \in 1 .. Len(s))
    BY <2>6
  <2>10. pv[t] = 0 \/ pr[pv[t]] = p
    BY <2>4, <2>7, <2>8, <2>9
  <2>11. nx[t] = 0 \/ pr[nx[t]] = p
    BY <2>5, <2>7, <2>8, <2>9
  <2> QED BY <1>3, <1>5, <2>1, <2>2, <2>10, <2>11
<1>6. ASSUME NEW q \in Nodes
      PROVE  Less(broods[q], t) \in Seq(Nodes) /\ Brood(q, Less(broods[q], t), nx2, pv2, pr2, ch2)
  <2>1. Brood(q, broods[q], nx, pv, pr, ch)
    BY DEF Trees
  <2>2. PICK s : s = broods[q]
    OBVIOUS
  <2>3. /\ s \in Seq(Nodes) /\ DOMAIN s = 1 .. Len(s)
        /\ \A n \in Nodes : n \in ToSet(s) <=> pr[n] = q
        /\ \A i, j \in 1 .. Len(s) : s[i] = s[j] => i = j
    BY <2>2, ParentOfListed
  <2>4. Contains(s, t) <=> \E i \in 1 .. Len(s) : s[i] = t
    BY DEF Contains
  <2>5. CASE pr[t] = q
    <3>1. PICK k \in 1 .. Len(s) : s[k] = t
      BY <2>3, <2>5 DEF ToSet
    <3>2. (CHOOSE i \in DOMAIN s : s[i] = t) = k
      BY <2>3, <3>1
    <3>3. Less(s, t) = RemoveAt(s, k)
      BY <2>4, <3>1, <3>2 DEF Less
    <3>4. t = s[k] /\ Brood(q, s, nx, pv, pr, ch)
      BY <2>1, <2>2, <3>1
    <3>5. RemoveAt(s, k) \in Seq(Nodes) /\ Brood(q, RemoveAt(s, k), nx2, pv2, pr2, ch2)
      BY <1>1, <3>4, BroodParted
    <3> QED BY <2>2, <3>3, <3>5
  <2>6. CASE pr[t] # q
    <3>1. ~ \E i \in 1 .. Len(s) : s[i] = t
      BY <2>3, <2>6 DEF ToSet
    <3>2. Less(s, t) = s
      BY <2>4, <3>1 DEF Less
    <3>3. ch2[q] = ch[q]
      BY <1>1, <1>2, <2>6
    <3>4. ASSUME NEW m \in ToSet(s) PROVE nx2[m] = nx[m] /\ pv2[m] = pv[m]
      <4>1. m \in Nodes /\ pr[m] = q
        BY <2>1, <2>2 DEF Brood
      <4>2. m # t /\ m # pv[t] /\ m # nx[t]
        BY <1>5, <2>6, <4>1
      <4> QED BY <1>2, <4>1, <4>2
    <3>5. \A m \in Nodes : pr2[m] = q <=> pr[m] = q
      BY <1>1, <1>2, <1>3, <2>6
    <3>6. Brood(q, s, nx2, pv2, pr2, ch2)
      BY <2>1, <2>2, <3>3, <3>4, <3>5, BroodElsewhere
    <3> QED BY <2>2, <2>3, <3>2, <3>6
  <2> QED BY <2>5, <2>6
<1>7. ASSUME NEW m \in Nodes, pr2[m] = 0 PROVE pv2[m] = 0 /\ nx2[m] = 0
  <2>1. CASE m = t
    BY <1>2, <2>1
  <2>2. CASE m # t
    <3>1. pr[m] = 0 /\ pv[m] = 0 /\ nx[m] = 0
      BY <1>1, <1>2, <1>7, <2>2 DEF Trees
    <3>2. m # pv[t] /\ m # nx[t]
      BY <1>5, <3>1
    <3> QED BY <1>2, <2>2, <3>1, <3>2
  <2> QED BY <2>1, <2>2
<1>8. \A m \in Nodes : pr2[m] # 0 => m \in lv /\ pr2[m] \in lv
  BY <1>1, <1>2 DEF Trees
<1>9. PICK new : new = [q \in Nodes |-> Less(broods[q], t)]
  OBVIOUS
<1>10. new \in [Nodes -> Seq(Nodes)] /\ \A q \in Nodes : Brood(q, new[q], nx2, pv2, pr2, ch2)
  BY <1>6, <1>9
<1>11. Trees(new, lv, nx2, pv2, pr2, ch2)
  BY <1>4, <1>7, <1>8, <1>10 DEF Trees
<1> QED BY <1>9, <1>11

\* The nodes of D go, which are the whole of what is below some roots.
LEMMA TreesFreed ==
  ASSUME NEW broods, NEW lv, NEW nx, NEW pv, NEW pr, NEW ch, Trees(broods, lv, nx, pv, pr, ch),
         NEW D, D \subseteq lv,
         \A m \in Nodes : pr[m] \in D => m \in D, \A m \in D : pr[m] \in D \cup {0}
  PROVE  Trees([q \in Nodes |-> IF q \in D THEN <<>> ELSE broods[q]],
               lv \ D, Freed(nx, D), Freed(pv, D), Freed(pr, D), Freed(ch, D))
<1>1. /\ lv \subseteq Nodes
      /\ nx \in [Nodes -> Nodes \cup {0}] /\ pv \in [Nodes -> Nodes \cup {0}]
      /\ pr \in [Nodes -> Nodes \cup {0}] /\ ch \in [Nodes -> Nodes \cup {0}]
      /\ broods \in [Nodes -> Seq(Nodes)]
  BY DEF Trees, LinkTypes
<1>2. PICK nx2, pv2, pr2, ch2 :
        nx2 = Freed(nx, D) /\ pv2 = Freed(pv, D) /\ pr2 = Freed(pr, D) /\ ch2 = Freed(ch, D)
  OBVIOUS
<1>3. /\ nx2 = [m \in Nodes |-> IF m \in D THEN 0 ELSE nx[m]]
      /\ pv2 = [m \in Nodes |-> IF m \in D THEN 0 ELSE pv[m]]
      /\ pr2 = [m \in Nodes |-> IF m \in D THEN 0 ELSE pr[m]]
      /\ ch2 = [m \in Nodes |-> IF m \in D THEN 0 ELSE ch[m]]
  BY <1>2 DEF Freed, NULL
<1>4. 0 \notin Nodes
  BY DEF Nodes
<1>5. LinkTypes(lv \ D, nx2, pv2, pr2, ch2)
  BY <1>1, <1>3 DEF LinkTypes
<1>6. ASSUME NEW q \in Nodes \ D PROVE Brood(q, broods[q], nx2, pv2, pr2, ch2)
  <2>1. Brood(q, broods[q], nx, pv, pr, ch)
    BY DEF Trees
  <2>2. ASSUME NEW m \in ToSet(broods[q]) PROVE nx2[m] = nx[m] /\ pv2[m] = pv[m]
    <3>1. m \in Nodes /\ pr[m] = q
      BY <2>1 DEF Brood
    <3>2. m \notin D
      BY <1>4, <3>1
    <3> QED BY <1>3, <3>1, <3>2
  <2>3. \A m \in Nodes : pr2[m] = q <=> pr[m] = q
    BY <1>3, <1>4
  <2>4. ch2[q] = ch[q]
    BY <1>3
  <2> QED BY <2>1, <2>2, <2>3, <2>4, BroodElsewhere
<1>7. ASSUME NEW q \in D PROVE Brood(q, <<>>, nx2, pv2, pr2, ch2)
  <2>1. q \in Nodes /\ ch2[q] = 0
    BY <1>1, <1>3
  <2>2. IsPath(<<>>, ch2[q], nx2) /\ ToSet(<<>>) = {}
    BY <2>1, EmptyPath
  <2>3. \A m \in Nodes : pr2[m] # q
    BY <1>3, <1>4, <2>1
  <2>4. Len(<<>>) = 0
    OBVIOUS
  <2> QED BY <2>2, <2>3, <2>4 DEF Brood
<1>8. \A m \in Nodes : pr2[m] = 0 => pv2[m] = 0 /\ nx2[m] = 0
  BY <1>3 DEF Trees
<1>9. \A m \in Nodes : pr2[m] # 0 => m \in lv \ D /\ pr2[m] \in lv \ D
  BY <1>3 DEF Trees
<1>10. PICK new : new = [q \in Nodes |-> IF q \in D THEN <<>> ELSE broods[q]]
  OBVIOUS
<1>11. new \in [Nodes -> Seq(Nodes)] /\ \A q \in Nodes : Brood(q, new[q], nx2, pv2, pr2, ch2)
  BY <1>1, <1>6, <1>7, <1>10
<1>12. Trees(new, lv \ D, nx2, pv2, pr2, ch2)
  BY <1>5, <1>8, <1>9, <1>11 DEF Trees
<1> QED BY <1>2, <1>10, <1>12

-----------------------------------------------------------------------------
(* What is above a node and below it. *)

ParentTypes == live \subseteq Nodes /\ parent \in [Nodes -> live \cup {0}]

\* A set that has of each of its nodes the parent.
Upward(S) == \A m \in S : parent[m] \in S \cup {0}

LEMMA AncestorsAre ==
  ASSUME ParentTypes, NEW m \in Nodes
  PROVE  /\ Ancestors(m) \subseteq Nodes /\ m \in Ancestors(m) /\ Upward(Ancestors(m))
         /\ \A S \in SUBSET Nodes : m \in S /\ Upward(S) => Ancestors(m) \subseteq S
<1>1. Ancestors(m) = {a \in Nodes : \A S \in SUBSET Nodes : m \in S /\ Upward(S) => a \in S}
  BY DEF Ancestors, Upward, NULL
<1>2. ASSUME NEW a \in Ancestors(m), parent[a] # 0 PROVE parent[a] \in Ancestors(m)
  <2>1. parent[a] \in Nodes /\ a \in Nodes
    BY <1>1, <1>2 DEF ParentTypes
  <2>2. ASSUME NEW S \in SUBSET Nodes, m \in S, Upward(S) PROVE parent[a] \in S
    <3>1. a \in S
      BY <1>1, <2>2
    <3> QED BY <1>2, <2>2, <3>1 DEF Upward
  <2> QED BY <1>1, <2>1, <2>2
<1>3. Upward(Ancestors(m))
  BY <1>2 DEF Upward
<1> QED BY <1>1, <1>3

\* The ancestors of a node are itself and those of its parent.
LEMMA AncestorsOfParent ==
  ASSUME ParentTypes, NEW m \in Nodes
  PROVE  /\ parent[m] # 0 => Ancestors(parent[m]) \subseteq Ancestors(m)
         /\ \A a \in Ancestors(m) : a = m \/ (parent[m] # 0 /\ a \in Ancestors(parent[m]))
<1>1. ASSUME parent[m] # 0 PROVE parent[m] \in Nodes /\ Ancestors(parent[m]) \subseteq Ancestors(m)
  <2>1. parent[m] \in Nodes
    BY <1>1 DEF ParentTypes
  <2>2. Ancestors(m) \in SUBSET Nodes /\ Upward(Ancestors(m)) /\ parent[m] \in Ancestors(m)
    BY <1>1, AncestorsAre DEF Upward
  <2> QED BY <2>1, <2>2, AncestorsAre
<1>2. ASSUME NEW a \in Ancestors(m), a # m PROVE parent[m] # 0 /\ a \in Ancestors(parent[m])
  <2>1. CASE parent[m] = 0
    <3>1. {m} \in SUBSET Nodes /\ m \in {m} /\ Upward({m})
      BY <2>1 DEF Upward
    <3>2. Ancestors(m) \subseteq {m}
      BY <3>1, AncestorsAre
    <3> QED BY <1>2, <3>2
  <2>2. CASE parent[m] # 0
    <3>1. PICK U : U = Ancestors(parent[m]) \cup {m}
      OBVIOUS
    <3>2. /\ Ancestors(parent[m]) \subseteq Nodes /\ parent[m] \in Ancestors(parent[m])
          /\ Upward(Ancestors(parent[m]))
      BY <1>1, <2>2, AncestorsAre
    <3>3. U \in SUBSET Nodes /\ m \in U /\ Upward(U)
      BY <3>1, <3>2 DEF Upward
    <3>4. Ancestors(m) \subseteq U
      BY <3>3, AncestorsAre
    <3> QED BY <1>2, <2>2, <3>1, <3>4
  <2> QED BY <2>1, <2>2
<1> QED BY <1>1, <1>2

\* A node's tree has it, the children of all that it has, and their parents
\* but the node's own.
LEMMA TreeIs ==
  ASSUME ParentTypes, NEW t \in Nodes, \A n \in Nodes : parent[n] # 0 => n \in live
  PROVE  /\ Tree(t) \subseteq live
         /\ t \in live => t \in Tree(t)
         /\ \A m \in Nodes : parent[m] \in Tree(t) => m \in Tree(t)
         /\ \A m \in Tree(t) : m # t => parent[m] \in Tree(t)
<1>1. Tree(t) = {n \in live : t \in Ancestors(n)} /\ live \subseteq Nodes /\ 0 \notin Nodes
  BY DEF Tree, ParentTypes, Nodes
<1>2. t \in live => t \in Tree(t)
  BY <1>1, AncestorsAre
<1>3. ASSUME NEW m \in Nodes, parent[m] \in Tree(t) PROVE m \in Tree(t)
  <2>1. parent[m] # 0 /\ t \in Ancestors(parent[m])
    BY <1>1, <1>3
  <2> QED BY <1>1, <2>1, AncestorsOfParent
<1>4. ASSUME NEW m \in Tree(t), m # t PROVE parent[m] \in Tree(t)
  <2>1. m \in Nodes /\ t \in Ancestors(m)
    BY <1>1
  <2>2. parent[m] # 0 /\ t \in Ancestors(parent[m])
    BY <1>4, <2>1, AncestorsOfParent
  <2>3. parent[m] \in live
    BY <2>1, <2>2 DEF ParentTypes
  <2> QED BY <1>1, <2>2, <2>3
<1> QED BY <1>1, <1>2, <1>3, <1>4

\* No way up leads back.
Acyclic(pr) == \A S \in SUBSET Nodes : (\A m \in S : pr[m] \in S) => S = {}

\* A node's parent is not below it.
LEMMA ParentAbove ==
  ASSUME ParentTypes, NEW t \in Nodes, \A n \in Nodes : parent[n] # 0 => n \in live, Acyclic(parent)
  PROVE  parent[t] \notin Tree(t)
<1> SUFFICES ASSUME parent[t] \in Tree(t) PROVE FALSE
  OBVIOUS
<1>1. PICK S : S = Tree(t) \cap Ancestors(parent[t])
  OBVIOUS
<1>2. /\ Tree(t) \subseteq live /\ live \subseteq Nodes /\ 0 \notin Nodes
      /\ \A m \in Tree(t) : m # t => parent[m] \in Tree(t)
  BY TreeIs DEF ParentTypes, Nodes
<1>3. parent[t] \in Nodes
  BY <1>2
<1>4. parent[t] \in Ancestors(parent[t]) /\ Upward(Ancestors(parent[t]))
  BY <1>3, AncestorsAre
<1>5. ASSUME NEW m \in S PROVE parent[m] \in S
  <2>1. parent[m] \in Tree(t)
    BY <1>1, <1>2, <1>5
  <2>2. parent[m] # 0
    BY <1>2, <2>1
  <2>3. parent[m] \in Ancestors(parent[t])
    BY <1>1, <1>4, <2>2 DEF Upward
  <2> QED BY <1>1, <2>1, <2>3
<1>6. S = {}
  BY <1>1, <1>2, <1>5 DEF Acyclic
<1> QED BY <1>1, <1>4, <1>6

LEMMA AcyclicJoined ==
  ASSUME ParentTypes, Acyclic(parent), NEW p \in Nodes, NEW n \in Nodes, n \notin Ancestors(p)
  PROVE  Acyclic([parent EXCEPT ![n] = p])
<1>1. PICK pr2 : pr2 = [parent EXCEPT ![n] = p]
  OBVIOUS
<1>2. pr2[n] = p /\ \A m \in Nodes : m # n => pr2[m] = parent[m]
  BY <1>1 DEF ParentTypes
<1>3. ASSUME NEW S \in SUBSET Nodes, \A m \in S : pr2[m] \in S PROVE S = {}
  <2>1. PICK U : U = S \cap Ancestors(p)
    OBVIOUS
  <2>2. /\ p \in Ancestors(p) /\ Upward(Ancestors(p)) /\ 0 \notin Nodes
    BY AncestorsAre DEF Nodes
  <2>3. ASSUME NEW m \in U PROVE parent[m] \in U
    <3>1. m \in Nodes /\ m # n /\ m \in S /\ m \in Ancestors(p)
      BY <1>3, <2>1
    <3>2. parent[m] \in S /\ parent[m] # 0
      BY <1>2, <1>3, <2>2, <3>1
    <3> QED BY <2>1, <2>2, <3>1, <3>2 DEF Upward
  <2>4. U = {}
    BY <2>1, <2>3 DEF Acyclic
  <2>5. n \notin S
    BY <1>2, <1>3, <2>1, <2>2, <2>4
  <2>6. \A m \in S : parent[m] \in S
    BY <1>2, <1>3, <2>5
  <2> QED BY <2>6 DEF Acyclic
<1> QED BY <1>1, <1>3 DEF Acyclic

\* Taking nodes' links to their parents away closes no circle.
LEMMA AcyclicLess ==
  ASSUME NEW pr, NEW pr2, Acyclic(pr), \A m \in Nodes : pr2[m] = pr[m] \/ pr2[m] = 0
  PROVE  Acyclic(pr2)
<1>1. 0 \notin Nodes
  BY DEF Nodes
<1>2. ASSUME NEW S \in SUBSET Nodes, \A m \in S : pr2[m] \in S PROVE S = {}
  <2>1. \A m \in S : pr[m] \in S
    BY <1>1, <1>2
  <2> QED BY <2>1 DEF Acyclic
<1> QED BY <1>2 DEF Acyclic

-----------------------------------------------------------------------------
(* Copies. *)

\* Which node of t's tree m is the copy of.
Original(m, t, f) == CHOOSE n \in Tree(t) : f[n] = m

\* The links g with those of copies: to the copies of what the nodes' are to,
\* but for the root's.
Doubled(g, t, f, root) ==
  [m \in Nodes |->
     IF m \notin Range(f) THEN g[m]
     ELSE IF Original(m, t, f) = root THEN 0
     ELSE IF g[Original(m, t, f)] \in Tree(t) THEN f[g[Original(m, t, f)]] ELSE 0]

Doubling(t, f) ==
  /\ f \in [Tree(t) -> Free] /\ IsInjective(f)
  /\ live' = live \cup Range(f)
  /\ next' = Doubled(next, t, f, t) /\ prev' = Doubled(prev, t, f, t)
  /\ parent' = Doubled(parent, t, f, t) /\ children' = Doubled(children, t, f, 0)

LEMMA CopyDoubles ==
  ASSUME NEW t, ntree_copy(t)
  PROVE  \E f : Doubling(t, f)
<1>1. PICK f : f = CHOOSE g \in Doubles(t) : TRUE
  OBVIOUS
<1>2. Doubles(t) # {}
  BY DEF ntree_copy
<1>3. f \in Doubles(t)
  BY <1>1, <1>2
<1>4. /\ live' = live \cup Range(f)
      /\ next' = Doubled(next, t, f, t) /\ prev' = Doubled(prev, t, f, t)
      /\ parent' = Doubled(parent, t, f, t) /\ children' = Doubled(children, t, f, 0)
  BY <1>1 DEF ntree_copy, Doubled, Original, NULL
<1> QED BY <1>3, <1>4 DEF Doubles, Doubling

LEMMA DoubledAt ==
  ASSUME NEW t, NEW f \in [Tree(t) -> Free], IsInjective(f), NEW g, NEW root
  PROVE  /\ \A m \in Nodes \ Range(f) : Doubled(g, t, f, root)[m] = g[m]
         /\ \A b \in Tree(t) :
              /\ f[b] \in Range(f) /\ Original(f[b], t, f) = b
              /\ Doubled(g, t, f, root)[f[b]] =
                   IF b = root THEN 0 ELSE IF g[b] \in Tree(t) THEN f[g[b]] ELSE 0
         /\ Range(f) \subseteq Free /\ Free \subseteq Nodes
         /\ \A m \in Range(f) : \E b \in Tree(t) : m = f[b]
<1>1. Range(f) \subseteq Free /\ Free \subseteq Nodes /\ DOMAIN f = Tree(t)
      /\ \A m \in Range(f) : \E b \in Tree(t) : m = f[b]
  BY DEF Range, Free
<1>2. \A m \in Nodes \ Range(f) : Doubled(g, t, f, root)[m] = g[m]
  BY DEF Doubled
<1>3. ASSUME NEW b \in Tree(t)
      PROVE  /\ f[b] \in Range(f) /\ Original(f[b], t, f) = b
             /\ Doubled(g, t, f, root)[f[b]] =
                   IF b = root THEN 0 ELSE IF g[b] \in Tree(t) THEN f[g[b]] ELSE 0
  <2>1. f[b] \in Range(f)
    BY <1>1 DEF Range
  <2>2. \A n \in Tree(t) : f[n] = f[b] => n = b
    BY <1>1 DEF IsInjective
  <2>3. Original(f[b], t, f) = b
    BY <2>2 DEF Original
  <2>4. f[b] \in Nodes
    BY <1>1, <2>1
  <2> QED BY <2>1, <2>3, <2>4 DEF Doubled
<1> QED BY <1>1, <1>2, <1>3

\* The children of copies are the copies of the children.
DoubledBroods(broods, t, f) ==
  [q \in Nodes |-> IF q \in Range(f) THEN Image(broods[Original(q, t, f)], f) ELSE broods[q]]

LEMMA BroodDoubled ==
  ASSUME NEW broods, Trees(broods, live, next, prev, parent, children), ParentTypes,
         Acyclic(parent), NEW t \in live, NEW f, Doubling(t, f), NEW b \in Tree(t)
  PROVE  /\ Image(broods[b], f) \in Seq(Nodes)
         /\ Brood(f[b], Image(broods[b], f), next', prev', parent', children')
<1>1. PICK s : s = broods[b] /\ Brood(b, s, next, prev, parent, children) /\ b \in Nodes
  BY TreeIs DEF Trees, LinkTypes, Tree
<1>2. IsPath(s, children[b], next)
      /\ \A i \in 1 .. Len(s) : prev[s[i]] = IF i = 1 THEN 0 ELSE s[i - 1]
  BY <1>1 DEF Brood
<1>3. /\ s \in Seq(Nodes) /\ Len(s) \in Nat /\ DOMAIN s = 1 .. Len(s)
      /\ \A i, j \in 1 .. Len(s) : s[i] = s[j] => i = j
      /\ \A i \in 1 .. Len(s) : next[s[i]] = IF i = Len(s) THEN 0 ELSE s[i + 1]
      /\ children[b] = IF Len(s) = 0 THEN 0 ELSE s[1]
  BY <1>2, PathLinks
<1>4. /\ \A n \in Nodes : n \in ToSet(s) <=> parent[n] = b
      /\ \A i \in 1 .. Len(s) : s[i] \in Nodes /\ parent[s[i]] = b
  BY <1>1, ParentOfListed
<1>5. /\ t \in Nodes /\ 0 \notin Nodes /\ Tree(t) \subseteq live /\ live \subseteq Nodes
      /\ \A n \in Nodes : parent[n] # 0 => n \in live
      /\ \A n \in Nodes : parent[n] \in live \cup {0}
  BY DEF Trees, LinkTypes, Nodes, Tree, ParentTypes
<1>6. /\ \A m \in Nodes : parent[m] \in Tree(t) => m \in Tree(t)
      /\ \A m \in Tree(t) : m # t => parent[m] \in Tree(t)
  BY <1>5, TreeIs
<1>7. parent[t] \notin Tree(t)
  BY <1>5, ParentAbove
<1>8. \A i \in 1 .. Len(s) : s[i] \in Tree(t) /\ s[i] # t
  BY <1>4, <1>6, <1>7
<1>9. /\ f \in [Tree(t) -> Free] /\ IsInjective(f)
      /\ next' = Doubled(next, t, f, t) /\ prev' = Doubled(prev, t, f, t)
      /\ parent' = Doubled(parent, t, f, t) /\ children' = Doubled(children, t, f, 0)
  BY DEF Doubling
<1>10. /\ \A m \in Tree(t) :
            /\ f[m] \in Range(f)
            /\ next'[f[m]] = IF m = t THEN 0 ELSE IF next[m] \in Tree(t) THEN f[next[m]] ELSE 0
            /\ prev'[f[m]] = IF m = t THEN 0 ELSE IF prev[m] \in Tree(t) THEN f[prev[m]] ELSE 0
            /\ parent'[f[m]] = IF m = t THEN 0 ELSE IF parent[m] \in Tree(t) THEN f[parent[m]] ELSE 0
            /\ children'[f[m]] = IF children[m] \in Tree(t) THEN f[children[m]] ELSE 0
       /\ \A m \in Nodes \ Range(f) : parent'[m] = parent[m]
       /\ Range(f) \subseteq Free /\ Free \subseteq Nodes
       /\ \A m \in Range(f) : \E c \in Tree(t) : m = f[c]
  <2>1. 0 \notin Tree(t)
    BY <1>5
  <2> QED BY <1>9, <2>1, DoubledAt
<1>11. \A m, n \in Tree(t) : f[m] = f[n] => m = n
  BY <1>9 DEF IsInjective
<1>12. PICK u : u = Image(s, f)
  OBVIOUS
<1>13. u = [i \in 1 .. Len(s) |-> f[s[i]]]
  BY <1>12 DEF Image
<1>14. Len(s) \in Nat
  BY <1>3
<1>15. \A i \in 1 .. Len(s) : f[s[i]] \in Nodes
  BY <1>8, <1>10
<1>16. u \in Seq(Nodes) /\ Len(u) = Len(s) /\ DOMAIN u = 1 .. Len(s)
       /\ \A i \in 1 .. Len(s) : u[i] = f[s[i]]
  BY <1>13, <1>14, <1>15
<1>17. \A i, j \in 1 .. Len(s) : s[i] = s[j] => i = j
  BY <1>3
<1>18. \A i, j \in 1 .. Len(s) : f[s[i]] = f[s[j]] => i = j
  BY <1>8, <1>11, <1>17
<1>19. IsInjective(u)
  BY <1>16, <1>18 DEF IsInjective
<1>20. /\ \A i \in 1 .. Len(s) : next[s[i]] = IF i = Len(s) THEN 0 ELSE s[i + 1]
       /\ children[b] = IF Len(s) = 0 THEN 0 ELSE s[1]
  BY <1>3
<1>21. 0 \notin Tree(t)
  BY <1>5
<1>22. ASSUME NEW i \in 1 .. Len(s)
       PROVE  /\ next'[f[s[i]]] = IF i = Len(s) THEN 0 ELSE f[s[i + 1]]
              /\ prev'[f[s[i]]] = IF i = 1 THEN 0 ELSE f[s[i - 1]]
  <2>1. s[i] \in Tree(t) /\ s[i] # t
    BY <1>8
  <2>2. (i # Len(s) => i + 1 \in 1 .. Len(s)) /\ (i # 1 => i - 1 \in 1 .. Len(s))
    BY <1>14
  <2>3. (i # Len(s) => s[i + 1] \in Tree(t)) /\ (i # 1 => s[i - 1] \in Tree(t))
    BY <1>8, <2>2
  <2>4. next'[f[s[i]]] = IF i = Len(s) THEN 0 ELSE f[s[i + 1]]
    BY <1>10, <1>20, <1>21, <2>1, <2>3
  <2>5. prev'[f[s[i]]] = IF i = 1 THEN 0 ELSE f[s[i - 1]]
    BY <1>2, <1>10, <1>21, <2>1, <2>3
  <2> QED BY <2>4, <2>5
<1>23. \A i \in 1 .. Len(u) : /\ next'[u[i]] = IF i = Len(u) THEN 0 ELSE u[i + 1]
                              /\ prev'[u[i]] = IF i = 1 THEN 0 ELSE u[i - 1]
  <2>1. ASSUME NEW i \in 1 .. Len(s)
        PROVE  (i # Len(s) => i + 1 \in 1 .. Len(s)) /\ (i # 1 => i - 1 \in 1 .. Len(s))
    BY <1>14
  <2>2. ASSUME NEW i \in 1 .. Len(s)
        PROVE  (i # Len(s) => u[i + 1] = f[s[i + 1]]) /\ (i # 1 => u[i - 1] = f[s[i - 1]])
    BY <1>16, <2>1
  <2>3. Len(u) = Len(s) /\ \A i \in 1 .. Len(s) : u[i] = f[s[i]]
    BY <1>16
  <2> QED BY <1>22, <2>2, <2>3
<1>24. children'[f[b]] = IF Len(u) = 0 THEN 0 ELSE u[1]
  <2>1. Len(s) # 0 => 1 \in 1 .. Len(s)
    BY <1>14
  <2>2. Len(s) # 0 => s[1] \in Tree(t) /\ u[1] = f[s[1]]
    BY <1>8, <1>16, <2>1
  <2>3. Len(u) = Len(s)
    BY <1>16
  <2> QED BY <1>10, <1>20, <1>21, <2>2, <2>3
<1>25. IsPath(u, children'[f[b]], next')
  <2>1. u \in Seq(Nodes)
    BY <1>16
  <2> QED BY <1>19, <1>23, <1>24, <2>1, LinksPath
<1>26. ToSet(u) = {n \in Nodes : parent'[n] = f[b]}
  <2>1. ToSet(u) = {f[s[i]] : i \in 1 .. Len(s)} /\ ToSet(s) = {s[i] : i \in 1 .. Len(s)}
    <3>1. DOMAIN u = 1 .. Len(s) /\ DOMAIN s = 1 .. Len(s) /\ \A i \in 1 .. Len(s) : u[i] = f[s[i]]
      BY <1>3, <1>16
    <3> QED BY <3>1 DEF ToSet
  <2>2. \A i \in 1 .. Len(s) : f[s[i]] \in Nodes /\ parent'[f[s[i]]] = f[b]
    BY <1>4, <1>8, <1>10, <1>15
  <2>3. f[b] \in Free /\ f[b] \notin live /\ f[b] # 0
    BY <1>5, <1>10 DEF Free
  <2>4. ASSUME NEW n \in Nodes, parent'[n] = f[b] PROVE n \in ToSet(u)
    <3>1. n \in Range(f)
      BY <1>5, <1>10, <2>3, <2>4
    <3>2. PICK c \in Tree(t) : n = f[c]
      BY <1>10, <3>1
    <3>3. parent[c] \in Tree(t) /\ f[parent[c]] = f[b]
      BY <1>10, <2>3, <2>4, <3>2
    <3>4. parent[c] = b /\ c \in Nodes
      BY <1>5, <1>11, <3>3
    <3>5. c \in ToSet(s)
      BY <1>4, <3>4
    <3> QED BY <2>1, <3>2, <3>5
  <2> QED BY <2>1, <2>2, <2>4
<1>27. Brood(f[b], u, next', prev', parent', children')
  BY <1>23, <1>25, <1>26 DEF Brood
<1> QED BY <1>1, <1>12, <1>16, <1>27

LEMMA TreesDoubled ==
  ASSUME NEW broods, Trees(broods, live, next, prev, parent, children), ParentTypes,
         Acyclic(parent), NEW t \in live, NEW f, Doubling(t, f)
  PROVE  Trees(DoubledBroods(broods, t, f), live', next', prev', parent', children')
<1>1. /\ live \subseteq Nodes /\ 0 \notin Nodes /\ Tree(t) \subseteq live /\ t \in Nodes
      /\ next \in [Nodes -> Nodes \cup {0}] /\ prev \in [Nodes -> Nodes \cup {0}]
      /\ parent \in [Nodes -> Nodes \cup {0}] /\ children \in [Nodes -> Nodes \cup {0}]
      /\ broods \in [Nodes -> Seq(Nodes)]
  BY DEF Trees, LinkTypes, Nodes, Tree
<1>2. /\ f \in [Tree(t) -> Free] /\ IsInjective(f) /\ live' = live \cup Range(f)
      /\ next' = Doubled(next, t, f, t) /\ prev' = Doubled(prev, t, f, t)
      /\ parent' = Doubled(parent, t, f, t) /\ children' = Doubled(children, t, f, 0)
  BY DEF Doubling
<1>3. /\ \A m \in Tree(t) :
            /\ f[m] \in Range(f) /\ Original(f[m], t, f) = m
            /\ next'[f[m]] = IF m = t THEN 0 ELSE IF next[m] \in Tree(t) THEN f[next[m]] ELSE 0
            /\ prev'[f[m]] = IF m = t THEN 0 ELSE IF prev[m] \in Tree(t) THEN f[prev[m]] ELSE 0
            /\ parent'[f[m]] = IF m = t THEN 0 ELSE IF parent[m] \in Tree(t) THEN f[parent[m]] ELSE 0
            /\ children'[f[m]] = IF children[m] \in Tree(t) THEN f[children[m]] ELSE 0
      /\ \A m \in Nodes \ Range(f) : /\ next'[m] = next[m] /\ prev'[m] = prev[m]
                                     /\ parent'[m] = parent[m] /\ children'[m] = children[m]
      /\ Range(f) \subseteq Free /\ Free \subseteq Nodes
      /\ \A m \in Range(f) : \E c \in Tree(t) : m = f[c]
  <2>1. 0 \notin Tree(t)
    BY <1>1
  <2> QED BY <1>2, <2>1, DoubledAt
<1>4. \A m \in Nodes : m \in Range(f) \/ m \in Nodes \ Range(f)
  OBVIOUS
<1>5. Free \cap live = {}
  BY DEF Free
<1>6. /\ \A m \in Nodes : parent[m] \in Tree(t) => m \in Tree(t)
      /\ \A m \in Tree(t) : m # t => parent[m] \in Tree(t)
  BY <1>1, TreeIs DEF Trees
<1>7. LinkTypes(live', next', prev', parent', children')
  <2>1. \A m \in Nodes : /\ next'[m] \in Nodes \cup {0} /\ prev'[m] \in Nodes \cup {0}
                         /\ parent'[m] \in Nodes \cup {0} /\ children'[m] \in Nodes \cup {0}
    <3>1. ASSUME NEW m \in Nodes \ Range(f)
          PROVE  /\ next'[m] \in Nodes \cup {0} /\ prev'[m] \in Nodes \cup {0}
                 /\ parent'[m] \in Nodes \cup {0} /\ children'[m] \in Nodes \cup {0}
      BY <1>1, <1>3
    <3>2. ASSUME NEW m \in Tree(t)
          PROVE  /\ next'[f[m]] \in Nodes \cup {0} /\ prev'[f[m]] \in Nodes \cup {0}
                 /\ parent'[f[m]] \in Nodes \cup {0} /\ children'[f[m]] \in Nodes \cup {0}
      <4>1. \A n \in Tree(t) : f[n] \in Nodes
        BY <1>3
      <4> QED BY <1>3, <4>1
    <3> QED BY <1>3, <1>4, <3>1, <3>2
  <2>2. ASSUME NEW g, NEW root PROVE Doubled(g, t, f, root) = [m \in Nodes |-> Doubled(g, t, f, root)[m]]
    BY DEF Doubled
  <2>3. /\ next' = [m \in Nodes |-> next'[m]] /\ prev' = [m \in Nodes |-> prev'[m]]
        /\ parent' = [m \in Nodes |-> parent'[m]] /\ children' = [m \in Nodes |-> children'[m]]
    BY <1>2, <2>2
  <2>4. live' \subseteq Nodes
    BY <1>1, <1>2, <1>3
  <2>5. /\ next' \in [Nodes -> Nodes \cup {0}] /\ prev' \in [Nodes -> Nodes \cup {0}]
        /\ parent' \in [Nodes -> Nodes \cup {0}] /\ children' \in [Nodes -> Nodes \cup {0}]
    BY <2>1, <2>3
  <2> QED BY <2>4, <2>5 DEF LinkTypes
<1>8. PICK new : new = DoubledBroods(broods, t, f)
  OBVIOUS
<1>9. /\ \A b \in Tree(t) : new[f[b]] = Image(broods[b], f)
      /\ \A q \in Nodes \ Range(f) : new[q] = broods[q]
  BY <1>3, <1>8 DEF DoubledBroods
<1>10. \A b \in Tree(t) : /\ Image(broods[b], f) \in Seq(Nodes)
                          /\ Brood(f[b], Image(broods[b], f), next', prev', parent', children')
  BY BroodDoubled
<1>11. ASSUME NEW q \in Nodes \ Range(f)
       PROVE  Brood(q, broods[q], next', prev', parent', children')
  <2>1. Brood(q, broods[q], next, prev, parent, children)
    BY DEF Trees
  <2>2. ASSUME NEW m \in ToSet(broods[q]) PROVE next'[m] = next[m] /\ prev'[m] = prev[m]
    <3>1. m \in Nodes /\ parent[m] = q /\ q # 0
      BY <1>1, <2>1 DEF Brood
    <3>2. m \in live
      BY <3>1 DEF Trees
    <3> QED BY <1>3, <1>5, <3>1, <3>2
  <2>3. ASSUME NEW m \in Nodes PROVE parent'[m] = q <=> parent[m] = q
    <3>1. CASE m \in Range(f)
      <4>1. parent[m] = 0
        BY <1>3, <1>5, <3>1 DEF Trees
      <4>2. PICK c \in Tree(t) : m = f[c]
        BY <1>3, <3>1
      <4>3. parent'[m] \in Range(f) \cup {0}
        BY <1>3, <4>2
      <4> QED BY <1>1, <4>1, <4>3
    <3>2. CASE m \notin Range(f)
      BY <1>3, <3>2
    <3> QED BY <3>1, <3>2
  <2>4. children'[q] = children[q]
    BY <1>3
  <2> QED BY <2>1, <2>2, <2>3, <2>4, BroodElsewhere
<1>12. ASSUME NEW q \in Nodes
       PROVE  new[q] \in Seq(Nodes) /\ Brood(q, new[q], next', prev', parent', children')
  <2>1. CASE q \in Range(f)
    <3>1. PICK b \in Tree(t) : q = f[b]
      BY <1>3, <2>1
    <3> QED BY <1>9, <1>10, <3>1
  <2>2. CASE q \notin Range(f)
    BY <1>1, <1>9, <1>11, <2>2
  <2> QED BY <2>1, <2>2
<1>13. new \in [Nodes -> Seq(Nodes)]
  <2>1. new = [q \in Nodes |-> new[q]]
    BY <1>8 DEF DoubledBroods
  <2> QED BY <1>12, <2>1
<1>14. ASSUME NEW m \in Nodes, parent'[m] = 0 PROVE prev'[m] = 0 /\ next'[m] = 0
  <2>1. CASE m \in Range(f)
    <3>1. PICK c \in Tree(t) : m = f[c]
      BY <1>3, <2>1
    <3>2. c = t
      <4>1. ASSUME c # t PROVE FALSE
        <5>1. parent[c] \in Tree(t) /\ parent'[m] = f[parent[c]]
          BY <1>3, <1>6, <3>1, <4>1
        <5>2. f[parent[c]] \in Nodes
          BY <1>3, <5>1
        <5> QED BY <1>1, <1>14, <5>1, <5>2
      <4> QED BY <4>1
    <3> QED BY <1>3, <3>1, <3>2
  <2>2. CASE m \notin Range(f)
    BY <1>3, <1>14, <2>2 DEF Trees
  <2> QED BY <2>1, <2>2
<1>15. ASSUME NEW m \in Nodes, parent'[m] # 0 PROVE m \in live' /\ parent'[m] \in live'
  <2>1. CASE m \in Range(f)
    <3>1. PICK c \in Tree(t) : m = f[c]
      BY <1>3, <2>1
    <3>2. parent'[m] \in Range(f)
      BY <1>3, <1>15, <3>1
    <3> QED BY <1>2, <2>1, <3>2
  <2>2. CASE m \notin Range(f)
    BY <1>2, <1>3, <1>15, <2>2 DEF Trees
  <2> QED BY <2>1, <2>2
<1>16. Trees(new, live', next', prev', parent', children')
  BY <1>7, <1>12, <1>13, <1>14, <1>15 DEF Trees
<1> QED BY <1>8, <1>16

LEMMA AcyclicDoubled ==
  ASSUME ParentTypes, Acyclic(parent), NEW t \in live, NEW f, Doubling(t, f)
  PROVE  Acyclic(parent')
<1>1. /\ live \subseteq Nodes /\ 0 \notin Nodes /\ Tree(t) \subseteq live
      /\ \A m \in Nodes : parent[m] \in live \cup {0}
  BY DEF ParentTypes, Nodes, Tree
<1>2. /\ f \in [Tree(t) -> Free] /\ IsInjective(f) /\ parent' = Doubled(parent, t, f, t)
  BY DEF Doubling
<1>3. /\ \A m \in Tree(t) :
            /\ f[m] \in Range(f)
            /\ parent'[f[m]] = IF m = t THEN 0 ELSE IF parent[m] \in Tree(t) THEN f[parent[m]] ELSE 0
      /\ \A m \in Nodes \ Range(f) : parent'[m] = parent[m]
      /\ Range(f) \subseteq Free /\ Free \subseteq Nodes
      /\ \A m \in Range(f) : \E c \in Tree(t) : m = f[c]
  BY <1>2, DoubledAt
<1>4. Range(f) \cap live = {}
  BY <1>3 DEF Free
<1>5. \A m, n \in Tree(t) : f[m] = f[n] => m = n
  BY <1>2 DEF IsInjective
<1>6. ASSUME NEW S \in SUBSET Nodes, \A m \in S : parent'[m] \in S PROVE S = {}
  <2>1. S \subseteq Range(f)
    <3>1. PICK U : U = S \ Range(f)
      OBVIOUS
    <3>2. ASSUME NEW m \in U PROVE parent[m] \in U
      <4>1. m \in Nodes \ Range(f) /\ m \in S
        BY <3>1, <3>2
      <4>2. parent[m] \in S /\ parent[m] \in live
        BY <1>1, <1>3, <1>6, <4>1
      <4> QED BY <1>4, <3>1, <4>2
    <3>3. U = {}
      BY <3>1, <3>2 DEF Acyclic
    <3> QED BY <3>1, <3>3
  <2>2. PICK U : U = {m \in Tree(t) : f[m] \in S}
    OBVIOUS
  <2>3. ASSUME NEW m \in U PROVE parent[m] \in U
    <3>1. m \in Tree(t) /\ parent'[f[m]] \in S
      BY <1>6, <2>2, <2>3
    <3>2. parent[m] \in Tree(t) /\ parent'[f[m]] = f[parent[m]]
      BY <1>1, <1>3, <3>1
    <3> QED BY <2>2, <3>1, <3>2
  <2>4. U = {} /\ U \in SUBSET Nodes
    BY <1>1, <2>2, <2>3 DEF Acyclic
  <2> QED BY <1>3, <2>1, <2>2, <2>4
<1> QED BY <1>6 DEF Acyclic

-----------------------------------------------------------------------------
(* The calls that change a tree. *)

Grown(broods) == Trees(broods, live, next, prev, parent, children) /\ Acyclic(parent)

LEMMA KidsAre ==
  ASSUME NNodes \in Nat, NEW broods, Trees(broods, live, next, prev, parent, children)
  PROVE  \A p \in Nodes : Kids(p) = broods[p]
BY AlongIs DEF Trees, Brood, Kids

LEMMA KidsWillBe ==
  ASSUME NNodes \in Nat, NEW broods, Trees(broods, live', next', prev', parent', children')
  PROVE  \A p \in Nodes : Kids(p)' = broods[p]
BY AlongIs DEF Trees, Brood, Kids

LEMMA GrownTypes ==
  ASSUME NEW broods, Grown(broods)
  PROVE  /\ live \subseteq Nodes /\ 0 \notin Nodes /\ ParentTypes
         /\ next \in [Nodes -> Nodes \cup {0}] /\ prev \in [Nodes -> Nodes \cup {0}]
         /\ parent \in [Nodes -> Nodes \cup {0}] /\ children \in [Nodes -> Nodes \cup {0}]
         /\ \A n \in Nodes : parent[n] = 0 => prev[n] = 0 /\ next[n] = 0
         /\ \A n \in Nodes : parent[n] # 0 => n \in live /\ parent[n] \in live
<1>1. /\ live \subseteq Nodes
      /\ next \in [Nodes -> Nodes \cup {0}] /\ prev \in [Nodes -> Nodes \cup {0}]
      /\ parent \in [Nodes -> Nodes \cup {0}] /\ children \in [Nodes -> Nodes \cup {0}]
      /\ \A n \in Nodes : parent[n] = 0 => prev[n] = 0 /\ next[n] = 0
      /\ \A n \in Nodes : parent[n] # 0 => n \in live /\ parent[n] \in live
  BY DEF Grown, Trees, LinkTypes
<1>2. ParentTypes
  BY <1>1 DEF ParentTypes
<1>3. 0 \notin Nodes
  BY DEF Nodes
<1> QED BY <1>1, <1>2, <1>3

\* A node that is not allocated has no children.
LEMMA DeadAreBare ==
  ASSUME NEW broods, Grown(broods), NEW n \in Nodes \ live
  PROVE  children[n] = 0 /\ parent[n] = 0 /\ prev[n] = 0 /\ next[n] = 0 /\ broods[n] = <<>>
<1>1. parent[n] = 0 /\ prev[n] = 0 /\ next[n] = 0
  BY GrownTypes
<1>2. Brood(n, broods[n], next, prev, parent, children)
  BY DEF Grown, Trees
<1>3. IsPath(broods[n], children[n], next)
  BY <1>2 DEF Brood
<1>4. ToSet(broods[n]) = {}
  <2>1. ASSUME NEW m \in Nodes, parent[m] = n PROVE FALSE
    <3>1. parent[m] # 0
      BY <2>1, GrownTypes
    <3> QED BY <2>1, <3>1, GrownTypes
  <2> QED BY <1>2, <2>1 DEF Brood
<1>5. children[n] = 0
  <2>1. /\ Len(broods[n]) = 0 <=> children[n] = 0
        /\ Len(broods[n]) > 0 => children[n] \in ToSet(broods[n])
        /\ Len(broods[n]) \in Nat
    BY <1>3, PathCells
  <2> QED BY <1>4, <2>1
<1>6. broods[n] = <<>>
  BY <1>3, <1>5, NoCells
<1> QED BY <1>1, <1>5, <1>6

LEMMA InsertGrown ==
  ASSUME NNodes \in Nat, NEW broods, Grown(broods), NEW p \in live, NEW n \in live,
         IS_ROOT(n), n \notin Ancestors(p), NEW where \in -1 .. Len(Kids(p)), ntree_insert(p, where, n)
  PROVE  \E k \in 1 .. Len(broods[p]) + 1 :
           Grown([broods EXCEPT ![p] = InsertAt(broods[p], k, n)])' /\ live' = live
<1>1. /\ live \subseteq Nodes /\ 0 \notin Nodes /\ ParentTypes
      /\ next \in [Nodes -> Nodes \cup {0}] /\ prev \in [Nodes -> Nodes \cup {0}]
      /\ parent \in [Nodes -> Nodes \cup {0}] /\ children \in [Nodes -> Nodes \cup {0}]
      /\ Trees(broods, live, next, prev, parent, children) /\ Acyclic(parent)
  BY GrownTypes DEF Grown
<1>2. PICK s : s = broods[p]
  OBVIOUS
<1>3. Kids(p) = s /\ Brood(p, s, next, prev, parent, children) /\ IsPath(s, children[p], next)
  <2>1. p \in Nodes
    BY <1>1
  <2>2. Kids(p) = s
    BY <1>1, <1>2, <2>1, KidsAre
  <2>3. Brood(p, s, next, prev, parent, children)
    BY <1>1, <1>2, <2>1 DEF Trees
  <2>4. IsPath(s, children[p], next)
    BY <2>3 DEF Brood
  <2> QED BY <2>2, <2>3, <2>4
<1>4. /\ s \in Seq(Nodes) /\ Len(s) \in Nat
      /\ \A i \in 1 .. Len(s) : s[i] \in Nodes /\ s[i] # 0
      /\ children[p] = IF Len(s) = 0 THEN 0 ELSE s[1]
  BY <1>3, PathLinks
<1>5. Len(s) \in Nat /\ where \in -1 .. Len(s)
  BY <1>3, <1>4
<1>6. \A i \in 1 .. Len(s) : s[i] # 0
  BY <1>4
<1>7. PICK k : k = IF where < 0 \/ ~ where < Len(s) THEN Len(s) + 1 ELSE where + 1
  OBVIOUS
<1>8. k \in 1 .. Len(s) + 1
  BY <1>5, <1>7
<1>9. PICK sibling : sibling = IF where < 0 THEN NULL ELSE ntree_nth_child(p, where)
  OBVIOUS
<1>10. sibling = IF k <= Len(s) THEN s[k] ELSE 0
  <2>1. CASE where < 0
    <3>1. ~ k <= Len(s)
      BY <1>5, <1>7, <2>1
    <3> QED BY <1>9, <2>1, <3>1 DEF NULL
  <2>2. CASE ~ where < 0
    <3>1. sibling = IF where < Len(s) THEN s[where + 1] ELSE 0
      BY <1>3, <1>9, <2>2 DEF ntree_nth_child, NULL
    <3>2. (where < Len(s) => k = where + 1 /\ k <= Len(s)) /\ (~ where < Len(s) => ~ k <= Len(s))
      BY <1>5, <1>7, <2>2
    <3> QED BY <3>1, <3>2
  <2> QED BY <2>1, <2>2
<1>11. PICK before : before = IF sibling # NULL THEN prev[sibling]
                              ELSE IF children[p] = NULL THEN NULL ELSE Last(Kids(p))
  OBVIOUS
<1>12. before = IF k = 1 THEN 0 ELSE s[k - 1]
  <2>1. CASE k <= Len(s)
    <3>1. k \in 1 .. Len(s)
      BY <1>5, <1>8, <2>1
    <3>2. sibling = s[k] /\ sibling # 0
      BY <1>6, <1>10, <2>1, <3>1
    <3>3. before = prev[s[k]]
      BY <1>11, <3>2 DEF NULL
    <3> QED BY <1>3, <3>1, <3>3 DEF Brood
  <2>2. CASE ~ k <= Len(s)
    <3>1. k = Len(s) + 1 /\ (k = 1 <=> Len(s) = 0) /\ k - 1 = Len(s) /\ (Len(s) # 0 => 1 \in 1 .. Len(s))
      BY <1>5, <1>8, <2>2
    <3>2. before = IF children[p] = 0 THEN 0 ELSE s[Len(s)]
      BY <1>3, <1>10, <1>11, <2>2 DEF NULL, Last
    <3>3. children[p] = 0 <=> Len(s) = 0
      BY <1>4, <1>6, <3>1
    <3> QED BY <3>1, <3>2, <3>3
  <2> QED BY <2>1, <2>2
<1>13. ntree_insert_before(p, sibling, n)
  BY <1>9 DEF ntree_insert
<1>14. /\ parent' = [parent EXCEPT ![n] = p]
       /\ next' = [m \in Nodes |-> IF m = before THEN n ELSE IF m = n THEN sibling ELSE next[m]]
       /\ prev' = [m \in Nodes |-> IF m = sibling THEN n ELSE IF m = n THEN before ELSE prev[m]]
       /\ children' = IF before = 0 THEN [children EXCEPT ![p] = n] ELSE children
       /\ live' = live
  BY <1>11, <1>13 DEF ntree_insert_before, NULL
<1>15. Joins(p, broods[p], k, n, next, prev, parent, children, next', prev', parent', children')
  BY <1>2, <1>8, <1>10, <1>12, <1>14 DEF Joins
<1>16. parent[n] = 0
  BY DEF IS_ROOT, NULL
<1>17. PICK new : new = [broods EXCEPT ![p] = InsertAt(broods[p], k, n)]
  OBVIOUS
<1>18. Trees(new, live, next', prev', parent', children')
  BY <1>1, <1>15, <1>16, <1>17, TreesJoined
<1>19. Acyclic(parent')
  BY <1>1, <1>14, AcyclicJoined
<1>20. Grown(new)'
  BY <1>14, <1>18, <1>19 DEF Grown
<1> QED BY <1>2, <1>8, <1>14, <1>17, <1>20

LEMMA UnlinkGrown ==
  ASSUME NEW broods, Grown(broods), NEW t \in Nodes, ntree_unlink(t)
  PROVE  Grown([q \in Nodes |-> Less(broods[q], t)])' /\ live' = live
<1>1. Parts(t, next, prev, parent, children, next', prev', parent', children') /\ live' = live
  BY DEF ntree_unlink, Unlinking, Parts, NULL
<1>2. PICK new : new = [q \in Nodes |-> Less(broods[q], t)]
  OBVIOUS
<1>3. Trees(new, live, next', prev', parent', children')
  BY <1>1, <1>2, TreesParted DEF Grown
<1>4. Acyclic(parent')
  <2>1. \A m \in Nodes : parent'[m] = parent[m] \/ parent'[m] = 0
    BY <1>1, GrownTypes DEF Parts
  <2> QED BY <2>1, AcyclicLess DEF Grown
<1> QED BY <1>1, <1>2, <1>3, <1>4 DEF Grown

\* What deleting t leaves of the children of each node.
Left(broods, t) == [q \in Nodes |-> IF q \in Tree(t) THEN <<>> ELSE Less(broods[q], t)]

LEMMA DeleteGrown ==
  ASSUME NEW broods, Grown(broods), NEW t \in Nodes, ntree_delete(t)
  PROVE  \E new : new = Left(broods, t) /\ Grown(new)' /\ live' = live \ Tree(t)
<1>1. /\ live \subseteq Nodes /\ 0 \notin Nodes /\ ParentTypes
      /\ next \in [Nodes -> Nodes \cup {0}] /\ prev \in [Nodes -> Nodes \cup {0}]
      /\ parent \in [Nodes -> Nodes \cup {0}] /\ children \in [Nodes -> Nodes \cup {0}]
      /\ \A n \in Nodes : parent[n] = 0 => prev[n] = 0 /\ next[n] = 0
      /\ \A n \in Nodes : parent[n] # 0 => n \in live
  BY GrownTypes
<1>2. PICK D : D = Tree(t)
  OBVIOUS
<1>3. /\ D \subseteq live /\ (t \in live => t \in D)
      /\ \A m \in Nodes : parent[m] \in D => m \in D
      /\ \A m \in D : m # t => parent[m] \in D
  BY <1>1, <1>2, TreeIs
<1>4. PICK nx, pv, pr, ch :
        /\ nx = [m \in Nodes |-> IF m = t THEN 0 ELSE IF m = prev[t] THEN next[t] ELSE next[m]]
        /\ pv = [m \in Nodes |-> IF m = t THEN 0 ELSE IF m = next[t] THEN prev[t] ELSE prev[m]]
        /\ ch = (IF prev[t] = 0 /\ parent[t] # 0 THEN [children EXCEPT ![parent[t]] = next[t]] ELSE children)
        /\ pr = [parent EXCEPT ![t] = 0]
  OBVIOUS
<1>5. Parts(t, next, prev, parent, children, nx, pv, pr, ch)
  BY <1>4 DEF Parts
<1>6. PICK mid : mid = [q \in Nodes |-> Less(broods[q], t)]
  OBVIOUS
<1>7. Trees(mid, live, nx, pv, pr, ch)
  BY <1>5, <1>6, TreesParted DEF Grown
<1>8. (\A m \in Nodes : pr[m] \in D => m \in D) /\ (\A m \in D : pr[m] \in D \cup {0})
  BY <1>1, <1>3, <1>4
<1>9. PICK new : new = [q \in Nodes |-> IF q \in D THEN <<>> ELSE mid[q]]
  OBVIOUS
<1>10. Trees(new, live \ D, Freed(nx, D), Freed(pv, D), Freed(pr, D), Freed(ch, D))
  BY <1>3, <1>7, <1>8, <1>9, TreesFreed
<1>11. /\ live' = live \ D
       /\ next' = Freed([m \in Nodes |-> IF m = prev[t] THEN next[t] ELSE next[m]], D)
       /\ prev' = Freed([m \in Nodes |-> IF m = next[t] THEN prev[t] ELSE prev[m]], D)
       /\ parent' = Freed(parent, D)
  BY <1>2 DEF ntree_delete
<1>12. children' = Freed([children EXCEPT ![IF prev[t] = 0 /\ parent[t] # 0 THEN parent[t] ELSE t]
                                              = next[t]], D)
  BY <1>2 DEF ntree_delete, NULL
<1>13. t \in D \/ (t \notin D /\ parent[t] = 0 /\ next[t] = 0 /\ prev[t] = 0 /\ children[t] = 0)
  BY <1>3, DeadAreBare
<1>14. next' = Freed(nx, D)
  BY <1>1, <1>4, <1>11, <1>13 DEF Freed
<1>15. prev' = Freed(pv, D)
  BY <1>1, <1>4, <1>11, <1>13 DEF Freed
<1>16. parent' = Freed(pr, D)
  BY <1>1, <1>4, <1>11, <1>13 DEF Freed
<1>17. children' = Freed(ch, D)
  BY <1>1, <1>4, <1>12, <1>13 DEF Freed
<1>18. Trees(new, live', next', prev', parent', children')
  BY <1>10, <1>11, <1>14, <1>15, <1>16, <1>17
<1>19. Acyclic(parent')
  <2>1. \A m \in Nodes : parent'[m] = parent[m] \/ parent'[m] = 0
    BY <1>11 DEF Freed, NULL
  <2> QED BY <2>1, AcyclicLess DEF Grown
<1>20. new = Left(broods, t)
  BY <1>2, <1>6, <1>9 DEF Left
<1>21. Grown(new)'
  BY <1>18, <1>19 DEF Grown
<1> QED BY <1>2, <1>11, <1>20, <1>21

\* calloc finds a node that is free, one without links.
LEMMA FirstIsFree ==
  ASSUME NNodes \in Nat, Free # {}
  PROVE  FirstFree \in Free
<1>1. Free \subseteq Nat
  BY DEF Free, Nodes
<1>2. \E n \in Free : \A m \in Free : n <= m
  BY <1>1, MinOf
<1> QED BY <1>2 DEF FirstFree

LEMMA NewGrown ==
  ASSUME NNodes \in Nat, NEW broods, Grown(broods), ntree_new
  PROVE  /\ Grown(broods)'
         /\ \E n \in Free : live' = live \cup {n} /\ broods[n] = <<>>
<1>1. Free # {} /\ live' = live \cup {FirstFree} /\ UNCHANGED <<next, prev, parent, children>>
  BY DEF ntree_new
<1>2. PICK n : n = FirstFree
  OBVIOUS
<1>3. n \in Free /\ n \in Nodes \ live
  BY <1>1, <1>2, FirstIsFree DEF Free
<1>4. broods[n] = <<>>
  BY <1>3, DeadAreBare
<1>5. Trees(broods, live', next, prev, parent, children)
  BY <1>1, <1>2, <1>3 DEF Grown, Trees, LinkTypes
<1>6. Grown(broods)'
  BY <1>1, <1>5 DEF Grown
<1> QED BY <1>1, <1>2, <1>3, <1>4, <1>6

LEMMA CopyGrown ==
  ASSUME NEW broods, Grown(broods), NEW t \in live, ntree_copy(t)
  PROVE  \E f, new : /\ Doubling(t, f)
                     /\ new = DoubledBroods(broods, t, f)
                     /\ Grown(new)'
<1>1. ParentTypes /\ Trees(broods, live, next, prev, parent, children) /\ Acyclic(parent)
  BY GrownTypes DEF Grown
<1>2. PICK f : Doubling(t, f)
  BY <1>1, CopyDoubles
<1>3. PICK new : new = DoubledBroods(broods, t, f)
  OBVIOUS
<1>4. Trees(new, live', next', prev', parent', children')
  BY <1>1, <1>2, <1>3, TreesDoubled
<1>5. Acyclic(parent')
  BY <1>1, <1>2, AcyclicDoubled
<1> QED BY <1>2, <1>3, <1>4, <1>5 DEF Grown

-----------------------------------------------------------------------------
(* What is left of a walk. *)

Midway == {t \in Nodes : walk.order = "in" /\ children[t] # 0}

Steps ==
  {<<"visit", t>> : t \in Nodes}
    \cup {<<"node", t, d>> : t \in Nodes, d \in Int}
    \cup {<<"first", t, d>> : t \in Nodes, d \in Int}
    \cup {<<"from", s, d>> : s \in Nodes \cup {0}, d \in Int}
    \cup {<<"rest", t, d>> : t \in Midway, d \in Int}

TodoTypes ==
  /\ todo \in Seq(Steps)
  /\ walk = NoWalk \/ walk.order \in {"in", "pre", "post"}

\* The links agree on a sequence of children for each node, no node is below
\* itself, what a walk has left to do names nodes, and what failed copies lost
\* is no client's.
TreeInv == (\E broods : Grown(broods)) /\ TodoTypes /\ lost \cap live = {}

LEMMA SiblingsToDo ==
  ASSUME NEW s \in Nodes \cup {0}, NEW d \in Int, next \in [Nodes -> Nodes \cup {0}], 0 \notin Nodes
  PROVE  Siblings(s, d) \in Seq(Steps)
<1>1. CASE s = 0
  BY <1>1 DEF Siblings, NULL
<1>2. CASE s # 0
  <2>1. s \in Nodes /\ next[s] \in Nodes \cup {0}
    BY <1>2
  <2>2. <<"node", s, d>> \in Steps /\ <<"from", next[s], d>> \in Steps
    BY <2>1 DEF Steps
  <2>3. Siblings(s, d) = << <<"node", s, d>>, <<"from", next[s], d>> >>
    BY <1>2 DEF Siblings, NULL
  <2>4. PICK a, b : a = <<"node", s, d>> /\ b = <<"from", next[s], d>>
    OBVIOUS
  <2>5. a \in Steps /\ b \in Steps /\ Siblings(s, d) = <<a, b>>
    BY <2>2, <2>3, <2>4
  <2> QED BY <2>5
<1> QED BY <1>1, <1>2

LEMMA ExpandedToDo ==
  ASSUME NEW step \in Steps, step[1] # "visit", walk.order \in {"in", "pre", "post"}, next \in [Nodes -> Nodes \cup {0}],
         children \in [Nodes -> Nodes \cup {0}], 0 \notin Nodes
  PROVE  Expanded(step) \in Seq(Steps)
<1>1. CASE step \in {<<"node", t, d>> : t \in Nodes, d \in Int}
  <2>1. PICK t \in Nodes, d \in Int : step = <<"node", t, d>>
    BY <1>1
  <2>2. step[1] = "node" /\ step[2] = t /\ step[3] = d
    BY <2>1
  <2>3. PICK v : v = <<"visit", t>>
    OBVIOUS
  <2>4. v \in Steps
    BY <2>3 DEF Steps
  <2>5. CASE children[t] = 0
    <3>1. Expanded(step) = IF walk.flags.leaves THEN <<v>> ELSE <<>>
      BY <2>2, <2>3, <2>5 DEF Expanded, Leaf, NULL
    <3> QED BY <2>4, <3>1
  <2>6. CASE children[t] # 0
    <3>1. Expanded(step) = Branch(t, d)
      BY <2>2, <2>6 DEF Expanded, NULL
    <3>2. PICK self : self = IF walk.flags.branches THEN <<v>> ELSE <<>>
      OBVIOUS
    <3>3. self \in Seq(Steps)
      BY <2>4, <3>2
    <3>4. ASSUME NEW s \in Steps PROVE (IF d - 1 = 0 THEN <<>> ELSE <<s>>) \in Seq(Steps)
      BY <3>4
    <3>5. PICK e \in Int : e = d - 1
      BY <2>1
    <3>6. CASE walk.order = "pre"
      <4>1. PICK s : s = <<"first", t, e>>
        OBVIOUS
      <4>2. s \in Steps
        BY <3>5, <4>1 DEF Steps
      <4>3. Branch(t, d) = self \o (IF d - 1 = 0 THEN <<>> ELSE <<s>>)
        BY <2>3, <3>2, <3>5, <3>6, <4>1 DEF Branch
      <4>4. PICK more \in Seq(Steps) : more = IF d - 1 = 0 THEN <<>> ELSE <<s>>
        BY <3>4, <4>2
      <4>5. Branch(t, d) = self \o more
        BY <4>3, <4>4
      <4> QED BY <3>1, <3>3, <4>5
    <3>7. CASE walk.order = "post"
      <4>1. PICK s : s = <<"first", t, e>>
        OBVIOUS
      <4>2. s \in Steps
        BY <3>5, <4>1 DEF Steps
      <4>3. Branch(t, d) = (IF d - 1 = 0 THEN <<>> ELSE <<s>>) \o self
        BY <2>3, <3>2, <3>5, <3>7, <4>1 DEF Branch
      <4>4. PICK more \in Seq(Steps) : more = IF d - 1 = 0 THEN <<>> ELSE <<s>>
        BY <3>4, <4>2
      <4>5. Branch(t, d) = more \o self
        BY <4>3, <4>4
      <4> QED BY <3>1, <3>3, <4>5
    <3>8. CASE walk.order = "in"
      <4>1. PICK s, r : s = <<"node", children[t], e>> /\ r = <<"rest", t, e>>
        OBVIOUS
      <4>2. children[t] \in Nodes /\ t \in Midway
        BY <2>6, <3>8 DEF Midway
      <4>3. s \in Steps /\ r \in Steps
        BY <3>5, <4>1, <4>2 DEF Steps
      <4>4. Branch(t, d) = (IF d - 1 = 0 THEN <<>> ELSE <<s>>) \o self
                             \o (IF d - 1 = 0 THEN <<>> ELSE <<r>>)
        BY <2>3, <3>2, <3>5, <3>8, <4>1 DEF Branch
      <4>5. PICK one \in Seq(Steps) : one = IF d - 1 = 0 THEN <<>> ELSE <<s>>
        BY <3>4, <4>3
      <4>6. PICK more \in Seq(Steps) : more = IF d - 1 = 0 THEN <<>> ELSE <<r>>
        BY <3>4, <4>3
      <4>7. Branch(t, d) = one \o self \o more
        BY <4>4, <4>5, <4>6
      <4> QED BY <3>1, <3>3, <4>7
    <3> QED BY <3>6, <3>7, <3>8
  <2> QED BY <2>5, <2>6
<1>2. CASE step \in {<<"first", t, d>> : t \in Nodes, d \in Int}
  <2>1. PICK t \in Nodes, d \in Int : step = <<"first", t, d>>
    BY <1>2
  <2>2. step[1] = "first" /\ step[2] = t /\ step[3] = d
    BY <2>1
  <2>3. Expanded(step) = Siblings(children[t], d)
    BY <2>2 DEF Expanded
  <2>4. children[t] \in Nodes \cup {0}
    OBVIOUS
  <2> QED BY <2>3, <2>4, SiblingsToDo
<1>3. CASE step \in {<<"from", s, d>> : s \in Nodes \cup {0}, d \in Int}
  <2>1. PICK s \in Nodes \cup {0}, d \in Int : step = <<"from", s, d>>
    BY <1>3
  <2>2. step[1] = "from" /\ step[2] = s /\ step[3] = d
    BY <2>1
  <2>3. Expanded(step) = Siblings(s, d)
    BY <2>2 DEF Expanded
  <2> QED BY <2>3, SiblingsToDo
<1>4. CASE step \in {<<"rest", t, d>> : t \in Midway, d \in Int}
  <2>1. PICK t \in Midway, d \in Int : step = <<"rest", t, d>>
    BY <1>4
  <2>2. step[1] = "rest" /\ step[2] = t /\ step[3] = d
    BY <2>1
  <2>3. Expanded(step) = Siblings(next[children[t]], d)
    BY <2>2 DEF Expanded
  <2>4. children[t] \in Nodes
    BY DEF Midway
  <2>5. next[children[t]] \in Nodes \cup {0}
    BY <2>4
  <2> QED BY <2>3, <2>5, SiblingsToDo
<1>5. step \notin {<<"visit", t>> : t \in Nodes}
  <2>1. \A t \in Nodes : <<"visit", t>>[1] = "visit"
    OBVIOUS
  <2> QED BY <2>1
<1> QED BY <1>1, <1>2, <1>3, <1>4, <1>5 DEF Steps

\* The first of what is left to do, and the rest.
LEMMA ToDoNext ==
  ASSUME todo \in Seq(Steps), todo # <<>>
  PROVE  /\ Head(todo) \in Steps /\ Tail(todo) \in Seq(Steps)
         /\ Head(todo)[1] = "visit" => Head(todo)[2] \in Nodes
<1>1. Head(todo) \in Steps /\ Tail(todo) \in Seq(Steps)
  BY HeadTailProperties
<1>2. ASSUME NEW step \in Steps, step[1] = "visit" PROVE step[2] \in Nodes
  <2>1. PICK kinds : kinds = {"node", "first", "from", "rest"}
    OBVIOUS
  <2>2. step \in {<<"visit", t>> : t \in Nodes} \/ \E k \in kinds : \E t, d : step = <<k, t, d>>
    BY <2>1 DEF Steps
  <2>3. \A k, t, d : <<k, t, d>>[1] = k
    OBVIOUS
  <2>4. step \in {<<"visit", t>> : t \in Nodes}
    BY <1>2, <2>1, <2>2, <2>3
  <2>5. PICK t \in Nodes : step = <<"visit", t>>
    BY <2>4
  <2> QED BY <2>5
<1> QED BY <1>1, <1>2

-----------------------------------------------------------------------------
(* What each call does to the children of every node. *)

LEMMA KidsAreNow ==
  ASSUME NNodes \in Nat, NEW broods, Grown(broods)
  PROVE  [n \in live |-> Kids(n)] = [n \in live |-> broods[n]]
<1>1. Trees(broods, live, next, prev, parent, children) /\ live \subseteq Nodes
  BY GrownTypes DEF Grown
<1>2. \A n \in live : Kids(n) = broods[n]
  BY <1>1, KidsAre
<1> QED BY <1>2

LEMMA KidsAreThen ==
  ASSUME NNodes \in Nat, NEW broods, Grown(broods)'
  PROVE  [n \in live |-> Kids(n)]' = [n \in live' |-> broods[n]]
<1>1. Trees(broods, live', next', prev', parent', children')
  BY DEF Grown
<1>2. live' \subseteq Nodes
  BY <1>1 DEF Trees, LinkTypes
<1>3. \A n \in live' : Kids(n)' = broods[n]
  BY <1>1, <1>2, KidsWillBe
<1> QED BY <1>3

\* The library's operators are those of the abstract specification's copy.
LEMMA SameLibrary ==
  /\ \A s, e : Ordered!Contains(s, e) = Contains(s, e)
  /\ \A s, i : Ordered!RemoveAt(s, i) = RemoveAt(s, i)
  /\ \A s, i, e : Ordered!InsertAt(s, i, e) = InsertAt(s, i, e)
  /\ \A s : Ordered!ToSet(s) = ToSet(s)
BY DEF Ordered!Contains, Contains, Ordered!RemoveAt, RemoveAt, Ordered!InsertAt, InsertAt,
       Ordered!ToSet, ToSet

\* A tree is what is below its root.
LEMMA TreeIsBelow ==
  ASSUME NNodes \in Nat, NEW broods, Grown(broods), NEW t \in live
  PROVE  Ordered!Below(t) = Tree(t)
<1>1. /\ live \subseteq Nodes /\ t \in Nodes /\ ParentTypes /\ 0 \notin Nodes
      /\ \A n \in Nodes : parent[n] # 0 => n \in live /\ parent[n] \in live
  BY GrownTypes
<1>2. PICK D : D = Tree(t)
  OBVIOUS
<1>3. /\ D \subseteq live /\ t \in D
      /\ \A m \in Nodes : parent[m] \in D => m \in D
      /\ \A m \in D : m # t => parent[m] \in D
  BY <1>1, <1>2, TreeIs
<1>4. PICK kids : kids = [n \in live |-> broods[n]]
  OBVIOUS
<1>5. Ordered!Below(t) = {b \in live : \A S \in SUBSET live :
                           t \in S /\ (\A m \in S : ToSet(kids[m]) \subseteq S) => b \in S}
  <2>1. [n \in live |-> Kids(n)] = kids
    BY <1>4, KidsAreNow
  <2> QED BY <2>1, SameLibrary DEF Ordered!Below, Ordered!Nodes
<1>6. \A m \in live : ToSet(kids[m]) = {n \in Nodes : parent[n] = m}
  BY <1>1, <1>4 DEF Grown, Trees, Brood
<1>7. \A m \in D : ToSet(kids[m]) \subseteq D
  BY <1>3, <1>6
<1>8. Ordered!Below(t) \subseteq D
  BY <1>3, <1>5, <1>7
<1>9. ASSUME NEW b \in D, NEW S \in SUBSET live,
             t \in S, \A m \in S : ToSet(kids[m]) \subseteq S
      PROVE  b \in S
  <2>1. PICK U : U = D \ S
    OBVIOUS
  <2>2. ASSUME NEW m \in U PROVE parent[m] \in U
    <3>1. m \in D /\ m # t /\ m \in Nodes /\ m \notin S
      BY <1>1, <1>3, <1>9, <2>1
    <3>2. parent[m] \in D /\ parent[m] \in live
      BY <1>3, <3>1
    <3>3. m \in ToSet(kids[parent[m]])
      BY <1>6, <3>1, <3>2
    <3> QED BY <1>9, <2>1, <3>1, <3>2, <3>3
  <2>3. U \in SUBSET Nodes /\ Acyclic(parent)
    BY <1>1, <1>3, <2>1 DEF Grown
  <2>4. U = {}
    BY <2>2, <2>3 DEF Acyclic
  <2> QED BY <2>1, <2>4
<1>10. D \subseteq Ordered!Below(t)
  BY <1>3, <1>5, <1>9
<1> QED BY <1>2, <1>8, <1>10

LEMMA NewKept ==
  ASSUME NNodes \in Nat, NEW broods, Grown(broods), ntree_new
  PROVE  (\E new : Grown(new)') /\ Ordered!New
<1>1. Grown(broods)'
  BY NewGrown
<1>2. PICK n \in Free : live' = live \cup {n} /\ broods[n] = <<>>
  BY NewGrown
<1>3. PICK kids, then : kids = [m \in live |-> broods[m]] /\ then = [m \in live' |-> broods[m]]
  OBVIOUS
<1>4. [m \in live |-> Kids(m)] = kids /\ [m \in live |-> Kids(m)]' = then
  BY <1>1, <1>3, KidsAreNow, KidsAreThen
<1>5. n \notin live
  BY <1>2 DEF Free
<1>6. then = [p \in live \cup {n} |-> IF p = n THEN <<>> ELSE kids[p]]
  BY <1>2, <1>3, <1>5
<1>7. n \in (DOMAIN then) \ (DOMAIN kids) /\ DOMAIN kids = live
  BY <1>2, <1>3, <1>5
<1>8. Ordered!New
  BY <1>4, <1>6, <1>7 DEF Ordered!New, Ordered!Nodes
<1> QED BY <1>1, <1>8

LEMMA InsertKept ==
  ASSUME NNodes \in Nat, NEW broods, Grown(broods), NEW p \in live, NEW n \in live,
         IS_ROOT(n), n \notin Ancestors(p), NEW where \in -1 .. Len(Kids(p)), ntree_insert(p, where, n)
  PROVE  (\E new : Grown(new)') /\ Ordered!Insert
<1>1. PICK k \in 1 .. Len(broods[p]) + 1 :
        Grown([broods EXCEPT ![p] = InsertAt(broods[p], k, n)])' /\ live' = live
  BY InsertGrown
<1>2. PICK new : new = [broods EXCEPT ![p] = InsertAt(broods[p], k, n)]
  OBVIOUS
<1>3. Grown(new)'
  BY <1>1, <1>2
<1>4. PICK kids, then : kids = [m \in live |-> broods[m]] /\ then = [m \in live' |-> new[m]]
  OBVIOUS
<1>5. [m \in live |-> Kids(m)] = kids /\ [m \in live |-> Kids(m)]' = then
  BY <1>3, <1>4, KidsAreNow, KidsAreThen
<1>6. broods \in [Nodes -> Seq(Nodes)] /\ live \subseteq Nodes /\ parent[n] = 0 /\ 0 \notin Nodes
  BY GrownTypes DEF Grown, Trees, IS_ROOT, NULL
<1>7. then = [kids EXCEPT ![p] = InsertAt(kids[p], k, n)] /\ kids[p] = broods[p] /\ DOMAIN kids = live
  BY <1>1, <1>2, <1>4, <1>6
<1>8. p \notin Ordered!Below(n)
  <2>1. p \notin Tree(n)
    BY DEF Tree
  <2> QED BY <2>1, TreeIsBelow
<1>9. \A q \in live : ~ Contains(kids[q], n)
  <2>1. ASSUME NEW q \in live, Contains(kids[q], n) PROVE FALSE
    <3>1. kids[q] = broods[q] /\ broods[q] \in Seq(Nodes)
      BY <1>4, <1>6
    <3>2. n \in ToSet(broods[q])
      BY <2>1, <3>1, LenProperties DEF Contains, ToSet
    <3>3. parent[n] = q
      BY <1>6, <3>2 DEF Grown, Trees, Brood
    <3> QED BY <1>6, <3>3
  <2> QED BY <2>1
<1>10. n \in Ordered!Roots
  BY <1>5, <1>7, <1>9, SameLibrary DEF Ordered!Roots, Ordered!Nodes
<1>11. Ordered!Insert
  <2>1. then = [kids EXCEPT ![p] = Ordered!InsertAt(kids[p], k, n)] /\ k \in 1 .. Len(kids[p]) + 1
    BY <1>7, SameLibrary
  <2>2. \A q, m, i : [[x \in live |-> Kids(x)] EXCEPT ![q] = Ordered!InsertAt(@, i, m)]
                       = [kids EXCEPT ![q] = Ordered!InsertAt(kids[q], i, m)]
    BY <1>5
  <2>3. [x \in live |-> Kids(x)]' = [[x \in live |-> Kids(x)] EXCEPT ![p] = Ordered!InsertAt(@, k, n)]
    BY <1>5, <2>1, <2>2
  <2>4. p \in DOMAIN [x \in live |-> Kids(x)] /\ k \in 1 .. Len([x \in live |-> Kids(x)][p]) + 1
    BY <1>5, <1>7, <2>1
  <2>5. \E q \in DOMAIN [x \in live |-> Kids(x)], m \in Ordered!Roots :
          \E i \in 1 .. Len([x \in live |-> Kids(x)][q]) + 1 :
            /\ q \notin Ordered!Below(m)
            /\ [x \in live |-> Kids(x)]' = [[x \in live |-> Kids(x)] EXCEPT ![q] = Ordered!InsertAt(@, i, m)]
    BY <1>8, <1>10, <2>3, <2>4
  <2> QED BY <2>5 DEF Ordered!Insert, Ordered!Nodes
<1> QED BY <1>3, <1>11

\* What is left of the children of each node without t.
LEMMA WithoutIsLess ==
  ASSUME NNodes \in Nat, NEW broods, Grown(broods), NEW t
  PROVE  Ordered!Without(t) = [n \in live |-> Less(broods[n], t)]
<1>1. PICK kids : kids = [n \in live |-> broods[n]]
  OBVIOUS
<1>2. [n \in live |-> Kids(n)] = kids
  BY <1>1, KidsAreNow
<1>3. Ordered!Without(t) = [p \in live |-> IF Contains(kids[p], t)
                              THEN RemoveAt(kids[p], CHOOSE i \in DOMAIN kids[p] : kids[p][i] = t)
                              ELSE kids[p]]
  <2>1. ASSUME NEW p
        PROVE  RemoveAt(kids[p], Ordered!Place(p, t))
                 = RemoveAt(kids[p], CHOOSE i \in DOMAIN kids[p] : kids[p][i] = t)
    <3>1. Ordered!Place(p, t) = CHOOSE i \in DOMAIN kids[p] : kids[p][i] = t
      BY <1>2 DEF Ordered!Place
    <3> QED BY <3>1
  <2>2. Ordered!Without(t) = [p \in DOMAIN kids |-> IF Ordered!Contains(kids[p], t)
                                THEN Ordered!RemoveAt(kids[p], Ordered!Place(p, t)) ELSE kids[p]]
    BY <1>2 DEF Ordered!Without, Ordered!Nodes
  <2>3. \A p : Ordered!RemoveAt(kids[p], Ordered!Place(p, t)) = RemoveAt(kids[p], Ordered!Place(p, t))
    BY SameLibrary
  <2>4. \A p : Ordered!Contains(kids[p], t) = Contains(kids[p], t)
    BY SameLibrary
  <2>5. DOMAIN kids = live
    BY <1>1
  <2> QED BY <2>1, <2>2, <2>3, <2>4, <2>5
<1>4. \A p \in live : kids[p] = broods[p]
  BY <1>1
<1> QED BY <1>3, <1>4 DEF Less

LEMMA UnlinkKept ==
  ASSUME NNodes \in Nat, NEW broods, Grown(broods), NEW t \in live, ntree_unlink(t)
  PROVE  (\E new : Grown(new)') /\ Ordered!Unlink
<1>1. live \subseteq Nodes
  BY GrownTypes
<1>2. PICK new : new = [q \in Nodes |-> Less(broods[q], t)]
  OBVIOUS
<1>3. Grown(new)' /\ live' = live
  BY <1>1, <1>2, UnlinkGrown
<1>4. [m \in live |-> Kids(m)]' = [m \in live |-> new[m]]
  BY <1>3, KidsAreThen
<1>5. Ordered!Without(t) = [m \in live |-> new[m]]
  <2>1. Ordered!Without(t) = [n \in live |-> Less(broods[n], t)]
    BY WithoutIsLess
  <2> QED BY <1>1, <1>2, <2>1
<1>6. Ordered!Unlink
  BY <1>4, <1>5 DEF Ordered!Unlink, Ordered!Nodes
<1> QED BY <1>3, <1>6

LEMMA DeleteKept ==
  ASSUME NNodes \in Nat, NEW broods, Grown(broods), NEW t \in live, ntree_delete(t)
  PROVE  (\E new : Grown(new)') /\ Ordered!Delete
<1>1. live \subseteq Nodes /\ t \in Nodes
  BY GrownTypes
<1>2. PICK new : new = Left(broods, t) /\ Grown(new)' /\ live' = live \ Tree(t)
  BY <1>1, DeleteGrown
<1>3. [m \in live |-> Kids(m)]' = [m \in live \ Tree(t) |-> new[m]]
  BY <1>2, KidsAreThen
<1>4. PICK less : less = Ordered!Without(t)
  OBVIOUS
<1>5. less = [n \in live |-> Less(broods[n], t)]
  BY <1>4, WithoutIsLess
<1>6. [m \in live \ Tree(t) |-> new[m]] = [m \in live \ Tree(t) |-> less[m]]
  BY <1>1, <1>2, <1>5 DEF Left
<1>7. Ordered!Below(t) = Tree(t)
  BY TreeIsBelow
<1>8. Ordered!Delete
  BY <1>3, <1>4, <1>6, <1>7 DEF Ordered!Delete, Ordered!Nodes
<1> QED BY <1>2, <1>8

LEMMA CopyKept ==
  ASSUME NNodes \in Nat, NEW broods, Grown(broods), NEW t \in live, ntree_copy(t)
  PROVE  (\E new : Grown(new)') /\ Ordered!Copy
<1>1. live \subseteq Nodes /\ broods \in [Nodes -> Seq(Nodes)]
  BY GrownTypes DEF Grown, Trees
<1>2. PICK f, new : Doubling(t, f) /\ new = DoubledBroods(broods, t, f) /\ Grown(new)'
  BY CopyGrown
<1>3. PICK D : D = Tree(t)
  OBVIOUS
<1>4. /\ D \subseteq live /\ Ordered!Below(t) = D
      /\ f \in [D -> Free] /\ IsInjective(f) /\ live' = live \cup Range(f)
      /\ Range(f) \subseteq Free /\ \A b \in D : f[b] \in Range(f)
      /\ \A m \in Range(f) : \E b \in D : f[b] = m
  BY <1>2, <1>3, TreeIsBelow DEF Doubling, Tree, Range
<1>5. \A a, b \in D : f[a] = f[b] => a = b
  BY <1>4 DEF IsInjective
<1>6. Range(f) = live' \ live
  BY <1>4 DEF Free
<1>7. f \in [D -> live' \ live]
  BY <1>4, <1>6
<1>8. PICK kids, then : kids = [m \in live |-> broods[m]] /\ then = [m \in live' |-> new[m]]
  OBVIOUS
<1>9. [m \in live |-> Kids(m)] = kids /\ [m \in live |-> Kids(m)]' = then
  BY <1>2, <1>8, KidsAreNow, KidsAreThen
<1>10. ASSUME NEW p \in live'
       PROVE  then[p] = IF p \in live THEN kids[p]
                        ELSE LET b == CHOOSE m \in D : f[m] = p
                             IN  [i \in DOMAIN kids[b] |-> f[kids[b][i]]]
  <2>1. p \in Nodes
    BY <1>2, <1>10 DEF Grown, Trees, LinkTypes
  <2>2. then[p] = IF p \in Range(f) THEN Image(broods[Original(p, t, f)], f) ELSE broods[p]
    BY <1>2, <1>8, <2>1 DEF DoubledBroods
  <2>3. CASE p \in live
    BY <1>6, <1>8, <2>2, <2>3
  <2>4. CASE p \notin live
    <3>1. p \in Range(f)
      BY <1>6, <2>4
    <3>2. PICK b : b = CHOOSE m \in D : f[m] = p
      OBVIOUS
    <3>3. b \in D /\ Original(p, t, f) = b
      BY <1>3, <1>4, <3>1, <3>2 DEF Original
    <3>4. kids[b] = broods[b] /\ DOMAIN broods[b] = 1 .. Len(broods[b])
      BY <1>1, <1>4, <1>8, <3>3, LenProperties
    <3>5. then[p] = [i \in DOMAIN kids[b] |-> f[kids[b][i]]]
      BY <2>2, <3>1, <3>3, <3>4 DEF Image
    <3> QED BY <2>4, <3>2, <3>5
  <2> QED BY <2>3, <2>4
<1>11. then = [p \in DOMAIN then |->
                 IF p \in live THEN kids[p]
                 ELSE LET b == CHOOSE m \in D : f[m] = p
                      IN  [i \in DOMAIN kids[b] |-> f[kids[b][i]]]]
  BY <1>8, <1>10
<1>12. DOMAIN kids = live /\ DOMAIN then = live'
  BY <1>8
<1>13. Ordered!Copy
  BY <1>4, <1>5, <1>6, <1>7, <1>9, <1>11, <1>12 DEF Ordered!Copy, Ordered!Nodes
<1> QED BY <1>2, <1>13

-----------------------------------------------------------------------------
(* A step of a client's or of a walk. *)

\* What a step does: the links agree afterwards, and one that changes them is
\* one of those the abstract specification has.
Kept == (\E new : Grown(new)') /\ (links' # links => Ordered!Next)

LEMMA LinksStay ==
  ASSUME NEW broods, Grown(broods), UNCHANGED links
  PROVE  Kept
<1>1. /\ live' = live /\ next' = next /\ prev' = prev /\ parent' = parent /\ children' = children
  BY DEF links
<1>2. Grown(broods)'
  BY <1>1 DEF Grown
<1> QED BY <1>2 DEF Kept

LEMMA ChangeKept ==
  ASSUME NNodes \in Nat, NEW broods, Grown(broods), Change
  PROVE  Kept
<1>1. CASE ntree_new
  BY <1>1, NewKept DEF Kept, Ordered!Next
<1>2. CASE \E p, n \in live : /\ IS_ROOT(n) /\ n \notin Ancestors(p)
                              /\ \E where \in -1 .. Len(Kids(p)) : ntree_insert(p, where, n)
  BY <1>2, InsertKept DEF Kept, Ordered!Next
<1>3. CASE \E t \in live : ntree_unlink(t)
  BY <1>3, UnlinkKept DEF Kept, Ordered!Next
<1>4. CASE \E t \in live : ntree_delete(t)
  BY <1>4, DeleteKept DEF Kept, Ordered!Next
<1>5. CASE \E t \in live : ntree_copy(t)
  BY <1>5, CopyKept DEF Kept, Ordered!Next
<1> QED BY <1>1, <1>2, <1>3, <1>4, <1>5 DEF Change

\* A walk's client is given a node that was freed: nothing was left of it.
LEMMA DeadUntouched ==
  ASSUME NEW broods, Grown(broods), NEW t \in Nodes \ live, ntree_unlink(t) \/ ntree_delete(t)
  PROVE  UNCHANGED links
<1>1. /\ live \subseteq Nodes /\ 0 \notin Nodes /\ ParentTypes
      /\ next \in [Nodes -> Nodes \cup {0}] /\ prev \in [Nodes -> Nodes \cup {0}]
      /\ parent \in [Nodes -> Nodes \cup {0}] /\ children \in [Nodes -> Nodes \cup {0}]
      /\ \A n \in Nodes : parent[n] # 0 => n \in live /\ parent[n] \in live
  BY GrownTypes
<1>2. children[t] = 0 /\ parent[t] = 0 /\ prev[t] = 0 /\ next[t] = 0
  BY DeadAreBare
<1>3. CASE ntree_unlink(t)
  <2>1. /\ next' = [m \in Nodes |-> IF m = t THEN 0 ELSE IF m = prev[t] THEN next[t] ELSE next[m]]
        /\ prev' = [m \in Nodes |-> IF m = t THEN 0 ELSE IF m = next[t] THEN prev[t] ELSE prev[m]]
        /\ children' = children /\ parent' = [parent EXCEPT ![t] = 0] /\ live' = live
    BY <1>2, <1>3 DEF ntree_unlink, Unlinking, NULL
  <2>2. next' = next
    BY <1>1, <1>2, <2>1
  <2>3. prev' = prev
    BY <1>1, <1>2, <2>1
  <2>4. parent' = parent
    BY <1>1, <1>2, <2>1
  <2> QED BY <2>1, <2>2, <2>3, <2>4 DEF links
<1>4. CASE ntree_delete(t)
  <2>1. Tree(t) = {}
    <3>1. PICK D : D = Tree(t)
      OBVIOUS
    <3>2. D \subseteq live /\ \A m \in D : m # t => parent[m] \in D
      BY <1>1, <3>1, TreeIs
    <3>3. \A m \in D : parent[m] \in D
      BY <3>2
    <3> QED BY <1>1, <3>1, <3>2, <3>3 DEF Grown, Acyclic
  <2>2. /\ live' = live
        /\ next' = Freed([m \in Nodes |-> IF m = prev[t] THEN next[t] ELSE next[m]], {})
        /\ prev' = Freed([m \in Nodes |-> IF m = next[t] THEN prev[t] ELSE prev[m]], {})
        /\ parent' = Freed(parent, {})
        /\ children' = Freed([children EXCEPT ![t] = next[t]], {})
    BY <1>2, <1>4, <2>1 DEF ntree_delete, NULL
  <2>3. next' = next
    BY <1>1, <1>2, <2>2 DEF Freed
  <2>4. prev' = prev
    BY <1>1, <1>2, <2>2 DEF Freed
  <2>5. parent' = parent
    BY <1>1, <1>2, <2>2 DEF Freed
  <2>6. children' = children
    BY <1>1, <1>2, <2>2 DEF Freed
  <2> QED BY <2>2, <2>3, <2>4, <2>5, <2>6 DEF links
<1> QED BY <1>3, <1>4

LEMMA StepsStay ==
  ASSUME walk' = walk, children' = children \/ walk.order # "in"
  PROVE  Steps' = Steps
<1>1. Midway' = Midway
  BY DEF Midway
<1> QED BY <1>1 DEF Steps

LEMMA VisitKept ==
  ASSUME NNodes \in Nat, NEW broods, Grown(broods), TodoTypes, Visit
  PROVE  Kept /\ TodoTypes'
<1>1. /\ walk # NoWalk /\ todo \in Seq(Steps) /\ todo # <<>> /\ Head(todo)[1] = "visit"
      /\ todo' = Tail(todo) /\ walk' = walk /\ walk.order \in {"in", "pre", "post"}
  BY DEF Visit, TodoTypes
<1>2. PICK t : t = Head(todo)[2]
  OBVIOUS
<1>3. \/ UNCHANGED links
      \/ walk.order \in {"pre", "post"} /\ ntree_unlink(t)
      \/ walk.order = "post" /\ ntree_delete(t)
  BY <1>2 DEF Visit
<1>4. t \in Nodes /\ Tail(todo) \in Seq(Steps)
  BY <1>1, <1>2, ToDoNext
<1>5. Kept
  <2>1. CASE UNCHANGED links
    BY <2>1, LinksStay
  <2>2. CASE (ntree_unlink(t) \/ ntree_delete(t)) /\ t \notin live
    <3>1. UNCHANGED links
      BY <1>4, <2>2, DeadUntouched
    <3> QED BY <3>1, LinksStay
  <2>3. CASE ntree_unlink(t) /\ t \in live
    BY <2>3, UnlinkKept DEF Kept, Ordered!Next
  <2>4. CASE ntree_delete(t) /\ t \in live
    BY <2>4, DeleteKept DEF Kept, Ordered!Next
  <2> QED BY <1>3, <2>1, <2>2, <2>3, <2>4
<1>6. Steps' = Steps
  <2>1. children' = children \/ walk.order # "in"
    BY <1>3 DEF links
  <2> QED BY <1>1, <2>1, StepsStay
<1>7. TodoTypes'
  BY <1>1, <1>4, <1>6 DEF TodoTypes
<1> QED BY <1>5, <1>7

LEMMA BeginTypes ==
  ASSUME Depths \subseteq Int, live \subseteq Nodes, NEW t \in live, NEW order \in {"in", "pre", "post"},
         NEW flags, NEW depth \in Depths, Begin(t, order, flags, depth)
  PROVE  TodoTypes'
<1>1. walk'.order = order /\ todo' = << <<"node", t, depth>> >>
  BY DEF Begin
<1>2. <<"node", t, depth>> \in Steps'
  BY DEF Steps
<1>3. PICK s : s = <<"node", t, depth>>
  OBVIOUS
<1>4. todo' \in Seq(Steps')
  BY <1>1, <1>2, <1>3
<1> QED BY <1>1, <1>4 DEF TodoTypes

LEMMA WalkTypes ==
  ASSUME NEW broods, Grown(broods), TodoTypes, Walk
  PROVE  TodoTypes'
<1>1. /\ walk # NoWalk /\ todo \in Seq(Steps) /\ todo # <<>> /\ Head(todo)[1] # "visit"
      /\ todo' = Expanded(Head(todo)) \o Tail(todo) /\ UNCHANGED <<links, walk>>
      /\ walk.order \in {"in", "pre", "post"}
  BY DEF Walk, TodoTypes
<1>2. /\ next \in [Nodes -> Nodes \cup {0}] /\ children \in [Nodes -> Nodes \cup {0}] /\ 0 \notin Nodes
  BY GrownTypes
<1>3. Head(todo) \in Steps /\ Tail(todo) \in Seq(Steps)
  BY <1>1, ToDoNext
<1>4. Expanded(Head(todo)) \in Seq(Steps)
  BY <1>1, <1>2, <1>3, ExpandedToDo
<1>5. todo' \in Seq(Steps)
  BY <1>1, <1>3, <1>4
<1>6. Steps' = Steps /\ walk' = walk
  BY <1>1, StepsStay DEF links
<1> QED BY <1>1, <1>5, <1>6 DEF TodoTypes

\* No walk goes on, so none is after the first child of a node.
LEMMA IdleTypes ==
  ASSUME walk = NoWalk \/ todo' = <<>>, walk' = NoWalk, TodoTypes, todo' \in {todo, <<>>}
  PROVE  TodoTypes'
<1>1. CASE todo' = <<>>
  <2>1. todo' \in Seq(Steps')
    BY <1>1
  <2> QED BY <2>1 DEF TodoTypes, NoWalk
<1>2. CASE todo' = todo /\ walk = NoWalk
  <2>1. walk.order = "none"
    BY <1>2 DEF NoWalk
  <2>2. Steps' = Steps
    BY <1>2, <2>1, StepsStay
  <2> QED BY <1>2, <2>2 DEF TodoTypes
<1> QED BY <1>1, <1>2

\* No call gives a client a node that a copy lost.
LEMMA LostApart ==
  ASSUME NNodes \in Nat, lost \cap live = {}, Next
  PROVE  (lost \cap live)' = {}
<1>1. ASSUME lost' = lost, live' \subseteq live \cup Free PROVE (lost \cap live)' = {}
  BY <1>1 DEF Free
<1>2. CASE Change /\ UNCHANGED lost
  <2>1. CASE ntree_new
    <3>1. FirstFree \in Free /\ live' = live \cup {FirstFree}
      BY <2>1, FirstIsFree DEF ntree_new
    <3> QED BY <1>1, <1>2, <3>1
  <2>2. CASE \E p, n \in live : /\ IS_ROOT(n) /\ n \notin Ancestors(p)
                                /\ \E where \in -1 .. Len(Kids(p)) : ntree_insert(p, where, n)
    <3>1. live' = live
      BY <2>2 DEF ntree_insert, ntree_insert_before
    <3> QED BY <1>1, <1>2, <3>1
  <2>3. ASSUME NEW t \in live, ntree_unlink(t) \/ ntree_delete(t) PROVE (lost \cap live)' = {}
    <3>1. live' \subseteq live
      BY <2>3 DEF ntree_unlink, ntree_delete
    <3> QED BY <1>1, <1>2, <3>1
  <2>4. ASSUME NEW t \in live, ntree_copy(t) PROVE (lost \cap live)' = {}
    <3>1. PICK f : Doubling(t, f)
      BY <2>4, CopyDoubles
    <3>2. f \in [Tree(t) -> Free] /\ live' = live \cup Range(f)
      BY <3>1 DEF Doubling
    <3>3. Range(f) \subseteq Free
      BY <3>2 DEF Range
    <3> QED BY <1>1, <1>2, <3>2, <3>3
  <2> QED BY <1>2, <2>1, <2>2, <2>3, <2>4 DEF Change
<1>3. ASSUME NEW t \in live, ntree_copy_Fails(t) PROVE (lost \cap live)' = {}
  <2>1. PICK copies \in SUBSET Free : lost' = lost \cup copies
    BY <1>3 DEF ntree_copy_Fails
  <2>2. live' = live
    BY <1>3 DEF ntree_copy_Fails, links
  <2> QED BY <2>1, <2>2 DEF Free
<1>4. ASSUME lost' = lost, live' = live \/ Visit PROVE (lost \cap live)' = {}
  <2>1. live' \subseteq live
    BY <1>4 DEF Visit, links, ntree_unlink, ntree_delete
  <2> QED BY <1>1, <1>4, <2>1
<1>5. CASE \E t \in live, order \in {"in", "pre", "post"}, flags \in Flags, depth \in Depths :
             Begin(t, order, flags, depth)
  BY <1>4, <1>5 DEF Begin, links
<1>6. CASE Walk \/ VisitFails \/ Return
  BY <1>4, <1>6 DEF Walk, VisitFails, Return, links
<1>7. CASE Visit
  BY <1>4, <1>7 DEF Visit
<1> QED BY <1>2, <1>3, <1>5, <1>6, <1>7 DEF Next

LEMMA TreeNext ==
  ASSUME NNodes \in Nat, Depths \subseteq Int, TreeInv, Next
  PROVE  TreeInv' /\ Kept
<1>1. PICK broods : Grown(broods)
  BY DEF TreeInv
<1>2. TodoTypes /\ live \subseteq Nodes
  BY <1>1, GrownTypes DEF TreeInv
<1>3. SUFFICES Kept /\ TodoTypes'
  BY LostApart DEF Kept, TreeInv
<1>4. CASE /\ walk = NoWalk /\ UNCHANGED <<walk, todo, visited>>
           /\ \/ Change /\ UNCHANGED lost
              \/ \E t \in live : ntree_copy_Fails(t)
  <2>1. CASE Change
    BY <1>1, <1>2, <1>4, <2>1, ChangeKept, IdleTypes
  <2>2. CASE \E t \in live : ntree_copy_Fails(t)
    <3>1. UNCHANGED links
      BY <2>2 DEF ntree_copy_Fails
    <3> QED BY <1>1, <1>2, <1>4, <3>1, LinksStay, IdleTypes
  <2> QED BY <1>4, <2>1, <2>2
<1>5. ASSUME NEW t \in live, NEW order \in {"in", "pre", "post"}, NEW flags, NEW depth \in Depths,
             Begin(t, order, flags, depth)
      PROVE  Kept /\ TodoTypes'
  <2>1. UNCHANGED links
    BY <1>5 DEF Begin
  <2> QED BY <1>1, <1>2, <1>5, <2>1, LinksStay, BeginTypes
<1>6. CASE Walk
  <2>1. UNCHANGED links
    BY <1>6 DEF Walk
  <2> QED BY <1>1, <1>2, <1>6, <2>1, LinksStay, WalkTypes
<1>7. CASE Visit
  BY <1>1, <1>2, <1>7, VisitKept
<1>8. CASE VisitFails
  <2>1. UNCHANGED links /\ todo' = <<>> /\ walk' = NoWalk
    BY <1>8 DEF VisitFails
  <2> QED BY <1>1, <1>2, <2>1, LinksStay, IdleTypes
<1>9. CASE Return
  <2>1. UNCHANGED links /\ todo' = <<>> /\ walk' = NoWalk
    BY <1>9 DEF Return
  <2> QED BY <1>1, <1>2, <2>1, LinksStay, IdleTypes
<1> QED BY <1>4, <1>5, <1>6, <1>7, <1>8, <1>9 DEF Next

LEMMA TreeInit ==
  ASSUME NNodes \in Nat, Init
  PROVE  TreeInv /\ Ordered!Init
<1>1. /\ live = {} /\ next = [n \in Nodes |-> 0] /\ prev = [n \in Nodes |-> 0]
      /\ parent = [n \in Nodes |-> 0] /\ children = [n \in Nodes |-> 0]
      /\ walk = NoWalk /\ todo = <<>> /\ lost = {}
  BY DEF Init, Unlinked, NULL
<1>2. PICK broods : broods = [n \in Nodes |-> <<>>]
  OBVIOUS
<1>3. ASSUME NEW p \in Nodes PROVE Brood(p, <<>>, next, prev, parent, children)
  <2>1. p # 0
    BY DEF Nodes
  <2>2. IsPath(<<>>, children[p], next)
    BY <1>1 DEF IsPath, IsInjective
  <2>3. ToSet(<<>>) = {} /\ {n \in Nodes : parent[n] = p} = {}
    BY <1>1, <2>1 DEF ToSet
  <2> QED BY <2>2, <2>3 DEF Brood
<1>4. Trees(broods, live, next, prev, parent, children)
  BY <1>1, <1>2, <1>3 DEF Trees, LinkTypes
<1>5. Acyclic(parent)
  <2>1. 0 \notin Nodes
    BY DEF Nodes
  <2> QED BY <1>1, <2>1 DEF Acyclic
<1>6. TodoTypes
  BY <1>1 DEF TodoTypes
<1>7. Ordered!Init
  BY <1>1 DEF Ordered!Init
<1> QED BY <1>1, <1>4, <1>5, <1>6, <1>7 DEF TreeInv, Grown

\* For each node there is one sequence of children of which all four links
\* tell, no node is below itself, and a walk has only nodes ahead of it,
\* whatever its client's function unlinks or deletes (ntree.c, all of
\* datastruct/ntree).
THEOREM TreeInductive ==
  ASSUME NNodes \in Nat, Depths \subseteq Int
  PROVE  Spec => []TreeInv
<1>1. Init => TreeInv
  BY TreeInit
<1>2. TreeInv /\ [Next]_vars => TreeInv'
  <2>1. TreeInv /\ Next => TreeInv'
    BY TreeNext
  <2>2. TreeInv /\ UNCHANGED vars => TreeInv'
    <3> SUFFICES ASSUME TreeInv, UNCHANGED vars PROVE TreeInv'
      OBVIOUS
    <3>1. UNCHANGED links /\ walk' = walk /\ todo' = todo /\ lost' = lost
      BY DEF vars
    <3>2. \E new : Grown(new)'
      BY <3>1, LinksStay DEF TreeInv, Kept
    <3>3. TodoTypes'
      BY <3>1, StepsStay DEF TodoTypes, links, TreeInv
    <3>4. lost' \cap live' = {}
      BY <3>1 DEF TreeInv, links
    <3> QED BY <3>2, <3>3, <3>4 DEF TreeInv
  <2> QED BY <2>1, <2>2
<1> QED BY <1>1, <1>2, PTL DEF Spec

\* The four links say the same of the tree (LinksAgree of NTree).
THEOREM TreeLinksAgree ==
  ASSUME NNodes \in Nat, Depths \subseteq Int
  PROVE  Spec => []LinksAgree
<1>1. TreeInv => LinksAgree
  <2> SUFFICES ASSUME TreeInv PROVE LinksAgree
    OBVIOUS
  <2>1. PICK broods : Grown(broods)
    BY DEF TreeInv
  <2>2. /\ live \subseteq Nodes /\ 0 \notin Nodes /\ Trees(broods, live, next, prev, parent, children)
        /\ parent \in [Nodes -> Nodes \cup {0}]
        /\ \A n \in Nodes : parent[n] = 0 => prev[n] = 0 /\ next[n] = 0
        /\ \A n \in Nodes : parent[n] # 0 => n \in live /\ parent[n] \in live
    BY <2>1, GrownTypes DEF Grown
  <2>3. \A t \in Nodes : /\ Kids(t) = broods[t] /\ broods[t] \in Seq(Nodes)
                         /\ Brood(t, broods[t], next, prev, parent, children)
    BY <2>2, KidsAre DEF Trees
  <2>4. ASSUME NEW t \in live, NEW i \in DOMAIN Kids(t)
        PROVE  /\ Kids(t)[i] \in live /\ parent[Kids(t)[i]] = t
               /\ prev[Kids(t)[i]] = IF i = 1 THEN 0 ELSE Kids(t)[i - 1]
    <3>1. PICK s : s = Kids(t)
      OBVIOUS
    <3>2. t \in Nodes /\ s \in Seq(Nodes) /\ Brood(t, s, next, prev, parent, children)
      BY <2>2, <2>3, <3>1
    <3>3. i \in 1 .. Len(s) /\ s[i] \in ToSet(s)
      BY <2>4, <3>1, <3>2, LenProperties DEF ToSet
    <3>4. s[i] \in Nodes /\ parent[s[i]] = t /\ prev[s[i]] = IF i = 1 THEN 0 ELSE s[i - 1]
      BY <3>2, <3>3 DEF Brood
    <3>5. s[i] \in live
      BY <2>2, <3>2, <3>4
    <3> QED BY <3>1, <3>4, <3>5
  <2>5. ASSUME NEW n \in live, parent[n] # 0 PROVE Contains(Kids(parent[n]), n)
    <3>1. PICK s : s = Kids(parent[n])
      OBVIOUS
    <3>2. n \in Nodes /\ s \in Seq(Nodes) /\ Brood(parent[n], s, next, prev, parent, children)
      BY <2>2, <2>3, <2>5, <3>1
    <3>3. n \in ToSet(s)
      BY <3>2 DEF Brood
    <3> QED BY <3>1, <3>2, <3>3, LenProperties DEF Contains, ToSet
  <2> QED BY <2>2, <2>4, <2>5 DEF LinksAgree, NULL
<1> QED BY <1>1, TreeInductive, PTL

\* Each call, by a client or by a function that a walk calls, does to every
\* node's children what it says (KeepsForest of NTree).
THEOREM TreeKeepsForest ==
  ASSUME NNodes \in Nat, Depths \subseteq Int
  PROVE  Spec => KeepsForest
<1>1. Init => Ordered!Init
  BY TreeInit
<1>2. TreeInv /\ [Next]_vars => [links' # links => Ordered!Next]_links
  <2>1. TreeInv /\ Next => (links' # links => Ordered!Next)
    BY TreeNext DEF Kept
  <2>2. UNCHANGED vars => UNCHANGED links
    BY DEF vars
  <2> QED BY <2>1, <2>2
<1> QED BY <1>1, <1>2, TreeInductive, PTL DEF Spec, KeepsForest

=============================================================================
