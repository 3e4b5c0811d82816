---------------------------- MODULE TagDbProofs ----------------------------
(***************************************************************************)
(* That the slots and bits of TagDb are sound, that it implements          *)
(* TagRelation, that its enumerations miss no id and that its counts drift *)
(* only where the code loses count, through removals, loads, failures and  *)
(* crashes, for any ids, names, bins and limits.                           *)
(*                                                                         *)
(* The invariant is in four parts: the memory, the file, the call that is  *)
(* in progress and the client's enumeration.  That a tag's bits are gone   *)
(* when tagdb_remove frees its entry needs what its enumeration has left   *)
(* behind it; that every token read is a name needs every line of the file *)
(* to have one.                                                            *)
(*                                                                         *)
(* For the relation that is not enough.  What a load has read so far has   *)
(* to be exactly what the ids hold, which needs a file that gives no id    *)
(* two lines and no line a name twice; a commit writes such a file because *)
(* no id is in the walk twice.                                             *)
(***************************************************************************)
EXTENDS TagDb, SequenceLemmas, FiniteSetTheorems

MemoryOK ==
  /\ atoms \subseteq Names
  /\ counts \in Seq(Entry)
  /\ allocated \in Nat /\ Len(counts) <= allocated
  /\ order \in Seq(Ids)
  /\ held \in [Ids -> SUBSET Tags]
  /\ LiveBitsOnly
  /\ NamesUnique

FileOK ==
  /\ file \in [lines : Seq(Line), cut : BOOLEAN]
  /\ \A l \in DOMAIN file.lines : Len(file.lines[l].names) > 0

\* The ids that tagdb_remove's enumeration has passed do not have the tag.
RemoveProgress ==
  pc = "remove" =>
    /\ at \in [tag : Tags, cont : Nat]
    /\ Live(at.tag)
    /\ \A p \in DOMAIN order : p <= at.cont => at.tag \notin held[order[p]]

\* The load is at a token of a line, or past the last line.
LoadProgress ==
  pc = "load" =>
    /\ at \in [line : Nat, token : Nat]
    /\ at.line > 0 /\ at.token > 0
    /\ at.line \in DOMAIN file.lines => at.token <= Len(file.lines[at.line].names)

CallOK ==
  /\ pc \in {"closed", "load", "idle", "remove", "abort"}
  /\ at \in [tag : Nat, cont : Nat] \cup [line : Nat, token : Nat]
  /\ RemoveProgress
  /\ LoadProgress

ScanOK == scan \in [on : BOOLEAN, cont : Nat, want : SUBSET Tags, owed : SUBSET Ids]

IInv == MemoryOK /\ FileOK /\ CallOK /\ ScanOK

-----------------------------------------------------------------------------
(* The numbers of a set in ascending order. *)

\* How many numbers of a finite set are at most n differs for each of its
\* numbers n, and takes every value up to its size.
Rank(S, n) == Cardinality({m \in S : m <= n})

LEMMA Ranks ==
  ASSUME NEW S \in SUBSET Nat, IsFiniteSet(S)
  PROVE  /\ \A n \in S : Rank(S, n) \in 1 .. Cardinality(S)
         /\ \A m, n \in S : Rank(S, m) = Rank(S, n) => m = n
         /\ \A i \in 1 .. Cardinality(S) : \E n \in S : Rank(S, n) = i
<1> DEFINE Below(n) == {m \in S : m <= n}
           rank == [n \in S |-> Cardinality(Below(n))]
           N == Cardinality(S)
<1>1. N \in Nat
  BY FS_CardinalityType
<1>2. ASSUME NEW n \in S PROVE IsFiniteSet(Below(n)) /\ rank[n] \in 1 .. N
  <2>1. Below(n) \in SUBSET S
    OBVIOUS
  <2>2. IsFiniteSet(Below(n)) /\ Cardinality(Below(n)) <= N
    BY <2>1, FS_Subset
  <2>3. Below(n) # {}
    OBVIOUS
  <2>4. Cardinality(Below(n)) \in Nat /\ Cardinality(Below(n)) # 0
    BY <2>2, <2>3, FS_EmptySet, FS_CardinalityType
  <2> QED BY <1>1, <2>2, <2>4
<1>3. ASSUME NEW m \in S, NEW n \in S, m < n PROVE rank[m] # rank[n]
  <2>1. Below(m) \in SUBSET Below(n)
    <3>1. \A x \in S : x \in Nat
      OBVIOUS
    <3>2. \A x \in S : x <= m => x <= n
      BY <1>3, <3>1
    <3> QED BY <3>2
  <2>2. n \in Below(n) /\ n \notin Below(m)
    BY <1>3
  <2>3. Below(m) # Below(n)
    BY <2>2, Zenon
  <2>4. Cardinality(Below(n)) # Cardinality(Below(m))
    BY <1>2, <2>1, <2>3, FS_Subset
  <2> QED BY <2>4
<1>4. ASSUME NEW m \in S, NEW n \in S, rank[m] = rank[n] PROVE m = n
  <2>1. m \in Nat /\ n \in Nat
    OBVIOUS
  <2>2. ~ (m < n) /\ ~ (n < m)
    BY <1>3, <1>4
  <2> QED BY <2>1, <2>2
<1>5. rank \in Injection(S, 1 .. N)
  BY <1>2, <1>4 DEF Injection, IsInjective
<1>6. IsFiniteSet(1 .. N) /\ Cardinality(1 .. N) = N
  BY <1>1, FS_Interval
<1>7. rank \in Surjection(S, 1 .. N)
  BY <1>5, <1>6, FS_Injection
<1>8. \A i \in 1 .. N : \E n \in S : rank[n] = i
  BY <1>7 DEF Surjection
<1>9. \A n \in S : rank[n] = Rank(S, n)
  BY DEF Rank
<1> HIDE DEF rank
<1> QED BY <1>2, <1>4, <1>8, <1>9

\* So it has an i-th smallest for each i up to its size.
LEMMA NthElement ==
  ASSUME NEW S \in SUBSET Nat, IsFiniteSet(S), NEW i \in 1 .. Cardinality(S)
  PROVE  Nth(S, i) \in S /\ Rank(S, Nth(S, i)) = i
<1>1. \E n \in S : Rank(S, n) = i
  BY Ranks
<1>2. Nth(S, i) = CHOOSE n \in S : Rank(S, n) = i
  BY DEF Nth, Rank
<1> QED BY <1>1, <1>2

\* So a function's values at the set's numbers are a sequence of its values.
LEMMA AscendingSequence ==
  ASSUME NEW S \in SUBSET Nat, IsFiniteSet(S), NEW T, NEW f, \A n \in S : f[n] \in T
  PROVE  /\ Ascending(S, f) \in Seq(T)
         /\ Len(Ascending(S, f)) = Cardinality(S)
         /\ \A i \in 1 .. Cardinality(S) :
              \E n \in S : Ascending(S, f)[i] = f[n]
<1>1. Cardinality(S) \in Nat
  BY FS_CardinalityType
<1>2. ASSUME NEW i \in 1 .. Cardinality(S)
      PROVE  Nth(S, i) \in S /\ f[Nth(S, i)] \in T
  BY NthElement
<1>3. Ascending(S, f) \in [1 .. Cardinality(S) -> T]
  BY <1>2 DEF Ascending
<1>4. \A i \in 1 .. Cardinality(S) : \E n \in S : Ascending(S, f)[i] = f[n]
  BY <1>2 DEF Ascending
<1>5. Ascending(S, f) \in Seq(T) /\ Len(Ascending(S, f)) = Cardinality(S)
  BY <1>1, <1>3
<1> QED BY <1>4, <1>5

\* They are all there, and none is there twice if no two are the same.
LEMMA AscendingAll ==
  ASSUME NEW S \in SUBSET Nat, IsFiniteSet(S), NEW f
  PROVE  /\ Range(Ascending(S, f)) = {f[n] : n \in S}
         /\ (\A m, n \in S : f[m] = f[n] => m = n) => IsInjective(Ascending(S, f))
<1> DEFINE N == Cardinality(S)
           G == Ascending(S, f)
<1>1. DOMAIN G = 1 .. N /\ \A i \in 1 .. N : G[i] = f[Nth(S, i)]
  BY DEF Ascending
<1>2. \A i \in 1 .. N : Nth(S, i) \in S /\ Rank(S, Nth(S, i)) = i
  BY NthElement
<1>3. ASSUME NEW n \in S
      PROVE  \E i \in 1 .. N : Nth(S, i) = n
  <2>1. Rank(S, n) \in 1 .. N
    BY Ranks
  <2>2. \A m \in S : Rank(S, m) = Rank(S, n) => m = n
    BY Ranks
  <2> HIDE DEF N
  <2>3. Nth(S, Rank(S, n)) = n
    BY <1>2, <2>1, <2>2
  <2> QED BY <2>1, <2>3
<1> HIDE DEF G, N
<1>4. Range(G) = {f[n] : n \in S}
  <2>1. \A x \in Range(G) : \E n \in S : x = f[n]
    BY <1>1, <1>2 DEF Range
  <2>2. \A n \in S : f[n] \in Range(G)
    BY <1>1, <1>3 DEF Range
  <2> QED BY <2>1, <2>2
<1>5. ASSUME \A m, n \in S : f[m] = f[n] => m = n
      PROVE  IsInjective(G)
  <2>1. ASSUME NEW i \in 1 .. N, NEW j \in 1 .. N, G[i] = G[j]
        PROVE  i = j
    <3>1. f[Nth(S, i)] = f[Nth(S, j)]
      BY <1>1, <2>1
    <3>2. Nth(S, i) = Nth(S, j)
      BY <1>2, <1>5, <3>1
    <3> QED BY <1>2, <3>2
  <2> QED BY <1>1, <2>1 DEF IsInjective
<1> QED BY <1>4, <1>5 DEF G

-----------------------------------------------------------------------------
(* What steps do to the parts of the state. *)

\* The entries are numbered from 1 and there are finitely many.
LEMMA TagNumbers ==
  ASSUME MemoryOK
  PROVE  /\ Len(counts) \in Nat
         /\ Tags = 1 .. Len(counts)
         /\ Tags \in SUBSET Nat
         /\ IsFiniteSet(Tags)
         /\ \A t \in Tags : counts[t] \in Entry
<1>1. counts \in Seq(Entry)
  BY DEF MemoryOK
<1>2. Len(counts) \in Nat /\ Tags = 1 .. Len(counts)
  BY <1>1, LenProperties DEF Tags
<1>3. IsFiniteSet(1 .. Len(counts))
  BY <1>2, FS_Interval
<1>4. \A t \in 1 .. Len(counts) : counts[t] \in Entry
  BY <1>1, ElementOfSeq
<1> QED BY <1>2, <1>3, <1>4

\* An id in the hash has a place in the walk.
LEMMA Places ==
  \A id : id \in Known <=> \E p \in DOMAIN order : order[p] = id
BY DEF Known, Range

\* A step that changes only the number in an entry keeps the tags.
Renumbered ==
  /\ counts' \in Seq(Entry)
  /\ Tags' = Tags
  /\ Len(counts') = Len(counts)
  /\ \A t \in Tags : counts'[t].name = counts[t].name

LEMMA Renumbering ==
  ASSUME MemoryOK, NEW t \in Tags,
         \/ counts' = [counts EXCEPT ![t].count = @ + 1]
         \/ counts' = [counts EXCEPT ![t].count = @ - 1]
  PROVE  Renumbered
<1>1. PICK n \in Int : counts' = [counts EXCEPT ![t] = [@ EXCEPT !.count = n]]
  <2>1. counts[t].count \in Int
    BY TagNumbers DEF Entry
  <2>2. counts[t].count + 1 \in Int /\ counts[t].count - 1 \in Int
    BY <2>1
  <2> QED BY <2>2
<1>2. counts[t] \in Entry /\ counts \in Seq(Entry) /\ t \in 1 .. Len(counts)
  BY TagNumbers DEF MemoryOK
<1>3. [counts[t] EXCEPT !.count = n] \in Entry
  BY <1>2 DEF Entry
<1>4. counts' \in Seq(Entry) /\ Len(counts') = Len(counts) /\ DOMAIN counts' = DOMAIN counts
  BY <1>1, <1>2, <1>3, ExceptSeq
<1>5. ASSUME NEW u \in Tags PROVE counts'[u].name = counts[u].name
  BY <1>1, <1>2 DEF Tags, Entry
<1> QED BY <1>4, <1>5 DEF Renumbered, Tags

\* A new tag takes an entry that is empty or the next one, for which there is
\* room afterwards; the other entries stay.
LEMMA NewTagEntry ==
  ASSUME MemoryOK, NEW t \in 1 .. Len(counts) + 1, NEW name \in Names, NEW n \in Int,
         AddNew(t, name, n)
  PROVE  /\ counts' \in Seq(Entry)
         /\ Tags' = Tags \cup {t}
         /\ t \in Tags => ~ Live(t)
         /\ counts'[t] = [name |-> name, count |-> n]
         /\ \A u \in Tags : u # t => counts'[u] = counts[u]
         /\ allocated' \in Nat /\ Len(counts') <= allocated'
<1>1. /\ Len(counts) \in Nat /\ Tags = 1 .. Len(counts)
      /\ \A u \in Tags : counts[u] \in Entry
      /\ allocated \in Nat /\ Len(counts) <= allocated
  BY TagNumbers DEF MemoryOK
<1>2. /\ counts' = [u \in Tags \cup {t} |->
                      IF u = t THEN [name |-> name, count |-> n] ELSE counts[u]]
      /\ NewTag(t)
      /\ allocated' = IF t > allocated THEN Grown ELSE allocated
  BY DEF AddNew, WithTag
<1>3. PICK m \in Nat : Tags \cup {t} = 1 .. m /\ (m = Len(counts) \/ (m = t /\ t = Len(counts) + 1))
  <2>1. CASE t \in Tags
    BY <1>1, <2>1
  <2>2. CASE t \notin Tags
    <3>1. t = Len(counts) + 1
      BY <1>1, <2>2
    <3>2. Tags \cup {t} = 1 .. Len(counts) + 1
      BY <1>1, <3>1
    <3> QED BY <1>1, <3>1, <3>2
  <2> QED BY <2>1, <2>2
<1>4. [name |-> name, count |-> n] \in Entry
  BY DEF Entry
<1>5. counts' \in [1 .. m -> Entry]
  BY <1>1, <1>2, <1>3, <1>4
<1>6. counts' \in Seq(Entry) /\ Len(counts') = m
  BY <1>5
<1>7. t \in Tags => ~ Live(t)
  BY <1>1, <1>2 DEF NewTag, HasRoom
<1>8. allocated' \in Nat /\ m <= allocated'
  <2>1. CASE HasRoom
    BY <1>1, <1>2, <1>3, <2>1 DEF NewTag, HasRoom
  <2>2. CASE ~ HasRoom /\ m = Len(counts)
    BY <1>1, <1>2, <1>3, <2>2, LimitAssumption DEF Grown
  <2>3. CASE ~ HasRoom /\ m = t /\ t = Len(counts) + 1
    <3>1. allocated = Len(counts) /\ t > allocated
      BY <1>1, <2>3 DEF HasRoom
    <3> QED BY <1>1, <1>2, <2>3, <3>1, LimitAssumption DEF Grown
  <2> QED BY <1>3, <2>1, <2>2, <2>3
<1>9. Tags' = Tags \cup {t}
  BY <1>2 DEF Tags
<1> QED BY <1>2, <1>6, <1>7, <1>8, <1>9

\* hash_insert: the id is in the hash, and so is every id that was.
LEMMA Inserting ==
  ASSUME MemoryOK, NEW id \in Ids, Insert(id)
  PROVE  /\ order' \in Seq(Ids)
         /\ id \in Known'
         /\ Known \subseteq Known'
<1>1. order \in Seq(Ids)
  BY DEF MemoryOK
<1>2. CASE id \in Known
  BY <1>1, <1>2 DEF Insert, Known
<1>3. CASE id \notin Known
  <2>1. PICK p \in 1 .. Len(order) + 1 : order' = InsertAt(order, p, id)
    BY <1>3 DEF Insert
  <2>2. order' \in Seq(Ids) /\ Range(order) \cup {id} \subseteq Range(order')
    BY <1>1, <2>1, InsertedElements
  <2> QED BY <2>2 DEF Known
<1> QED BY <1>2, <1>3

-----------------------------------------------------------------------------
(* Each kind of step keeps the memory sound, and every tag has its place.   *)

\* Nothing in memory changes.
LEMMA MemoryUntouched ==
  ASSUME MemoryOK, UNCHANGED memory
  PROVE  MemoryOK' /\ Tags \subseteq Tags'
BY DEF MemoryOK, memory, Tags, Live, Known, LiveBitsOnly, NamesUnique

\* The process is gone.
LEMMA MemoryGone ==
  ASSUME Forgotten
  PROVE  MemoryOK'
<1>1. counts' = <<>> /\ Len(counts') = 0 /\ Tags' = {}
  BY DEF Forgotten, Tags
<1> QED BY <1>1 DEF Forgotten, MemoryOK, LiveBitsOnly, NamesUnique, Known, Range

\* The entries keep their names; bits are cleared, or one is set whose tag is
\* in use and whose id is now in the hash.
LEMMA MemoryRenumbered ==
  ASSUME MemoryOK, Renumbered, UNCHANGED <<atoms, allocated>>,
         order' \in Seq(Ids), held' \in [Ids -> SUBSET Tags],
         \A id \in Ids : \A t \in held'[id] : Live(t),
         \A id \in Ids : held'[id] # {} => id \in Known'
  PROVE  MemoryOK' /\ Tags \subseteq Tags'
<1>1. \A t \in Tags : Live(t) <=> Live(t)'
  BY DEF Renumbered, Live
<1>2. LiveBitsOnly'
  BY <1>1 DEF Renumbered, LiveBitsOnly
<1>3. NamesUnique'
  <2>1. Tags' = Tags /\ atoms' = atoms /\ \A t \in Tags : counts'[t].name = counts[t].name
    BY DEF Renumbered
  <2>2. NamesUnique
    BY DEF MemoryOK
  <2>3. ASSUME NEW t \in Tags, NEW u \in Tags, Live(t)', counts'[t].name = counts'[u].name
        PROVE  t = u
    <3>1. Live(t) /\ counts[t].name = counts[u].name
      BY <1>1, <2>1, <2>3
    <3> QED BY <2>2, <3>1 DEF NamesUnique
  <2>4. ASSUME NEW t \in Tags, Live(t)'
        PROVE  counts'[t].name \in atoms'
    <3>1. Live(t)
      BY <1>1, <2>4
    <3> QED BY <2>1, <2>2, <3>1 DEF NamesUnique
  <2> QED BY <2>1, <2>3, <2>4 DEF NamesUnique
<1> QED BY <1>2, <1>3 DEF MemoryOK, Renumbered

LEMMA TagIdMemory ==
  ASSUME MemoryOK, NEW id \in Ids, NEW t \in Tags, Live(t), Hold(id, t),
         counts' = [counts EXCEPT ![t].count = @ + 1],
         UNCHANGED <<atoms, allocated>>
  PROVE  MemoryOK' /\ Tags \subseteq Tags'
<1>1. Renumbered
  BY Renumbering
<1>2. order' \in Seq(Ids) /\ id \in Known' /\ Known \subseteq Known'
  BY Inserting DEF Hold
<1>3. held' \in [Ids -> SUBSET Tags]
  BY DEF Hold, MemoryOK
<1>4. \A i \in Ids : held'[i] = IF i = id THEN held[id] \cup {t} ELSE held[i]
  BY DEF Hold, MemoryOK
<1>5. \A i \in Ids : \A u \in held'[i] : Live(u)
  BY <1>4 DEF MemoryOK, LiveBitsOnly
<1>6. \A i \in Ids : held'[i] # {} => i \in Known'
  BY <1>2, <1>4 DEF MemoryOK, LiveBitsOnly
<1> QED BY <1>1, <1>2, <1>3, <1>5, <1>6, MemoryRenumbered

LEMMA UntaggedMemory ==
  ASSUME MemoryOK, NEW id \in Ids, NEW t \in Tags, Untagged(id, t),
         UNCHANGED <<atoms, allocated, order>>
  PROVE  MemoryOK' /\ Tags \subseteq Tags'
<1>1. Renumbered
  BY Renumbering DEF Untagged
<1>2. order' \in Seq(Ids) /\ Known' = Known
  BY DEF MemoryOK, Known
<1>3. held' \in [Ids -> SUBSET Tags]
  BY DEF Untagged, MemoryOK
<1>4. \A i \in Ids : held'[i] \subseteq held[i]
  BY DEF Untagged, MemoryOK
<1>5. \A i \in Ids : \A u \in held'[i] : Live(u)
  BY <1>4 DEF MemoryOK, LiveBitsOnly
<1>6. \A i \in Ids : held'[i] # {} => i \in Known'
  BY <1>2, <1>4 DEF MemoryOK, LiveBitsOnly
<1> QED BY <1>1, <1>2, <1>3, <1>5, <1>6, MemoryRenumbered

LEMMA TagIdFailsMemory ==
  ASSUME MemoryOK, NEW id \in Ids, NEW t \in Tags, TagIdFails(id, t)
  PROVE  MemoryOK' /\ Tags \subseteq Tags'
<1>1. Renumbered
  BY Renumbering DEF TagIdFails
<1> QED BY <1>1, MemoryRenumbered DEF TagIdFails, MemoryOK, LiveBitsOnly, Known

\* An id is forgotten, with its tags.
LEMMA ForgetMemory ==
  ASSUME MemoryOK, NEW id \in Ids, Forget(id)
  PROVE  MemoryOK' /\ Tags \subseteq Tags'
<1>1. UNCHANGED <<atoms, counts, allocated>>
  BY DEF Forget
<1>2. PICK p \in DOMAIN order : order[p] = id /\ order' = RemoveAt(order, p)
  BY DEF Forget
<1>3. order \in Seq(Ids) /\ p \in 1 .. Len(order)
  BY <1>2, LenProperties DEF MemoryOK
<1>4. order' \in Seq(Ids) /\ Known \ {id} \subseteq Known'
  BY <1>2, <1>3, RemovedElements DEF Known
<1>5. \A i \in Ids : held'[i] = IF i = id THEN {} ELSE held[i]
  BY DEF Forget, MemoryOK
<1>6. held' \in [Ids -> SUBSET Tags]
  BY DEF Forget, MemoryOK
<1>7. LiveBitsOnly'
  BY <1>1, <1>4, <1>5 DEF MemoryOK, LiveBitsOnly, Tags, Live
<1> QED BY <1>1, <1>4, <1>6, <1>7 DEF MemoryOK, NamesUnique, Tags, Live

\* A tag is added; only its own bit may be set with it.
LEMMA AddNewMemory ==
  ASSUME MemoryOK, NEW t \in 1 .. Len(counts) + 1, NEW name \in Names, NEW n \in Int,
         AddNew(t, name, n),
         order' \in Seq(Ids), held' \in [Ids -> SUBSET (Tags \cup {t})],
         \A id \in Ids : held'[id] \subseteq held[id] \cup {t},
         \A id \in Ids : held'[id] # {} => id \in Known'
  PROVE  MemoryOK' /\ Tags \subseteq Tags'
<1>1. /\ counts' \in Seq(Entry)
      /\ Tags' = Tags \cup {t}
      /\ t \in Tags => ~ Live(t)
      /\ counts'[t] = [name |-> name, count |-> n]
      /\ \A u \in Tags : u # t => counts'[u] = counts[u]
      /\ allocated' \in Nat /\ Len(counts') <= allocated'
  BY NewTagEntry
<1>2. name \notin atoms /\ atoms' = atoms \cup {name}
  BY DEF AddNew
<1>3. counts'[t].name = name /\ name # None
  BY <1>1, NameAssumption
<1>4. LiveBitsOnly /\ NamesUnique /\ atoms \subseteq Names
  BY DEF MemoryOK
<1>5. ASSUME NEW u \in Tags', u # t
      PROVE  u \in Tags /\ counts'[u].name = counts[u].name
  BY <1>1, <1>5
<1>6. ASSUME NEW u \in Tags', u # t, Live(u)'
      PROVE  Live(u) /\ counts[u].name \in atoms /\ counts'[u].name # name
  <2>1. Live(u)
    BY <1>5, <1>6 DEF Live
  <2> QED BY <1>2, <1>4, <1>5, <1>6, <2>1 DEF NamesUnique
<1>7. LiveBitsOnly'
  <2>1. ASSUME NEW id \in Ids, NEW u \in held'[id]
        PROVE  u \in Tags' /\ Live(u)'
    <3>1. CASE u = t
      BY <1>1, <1>3, <3>1 DEF Live
    <3>2. CASE u # t
      <4>1. u \in held[id]
        BY <3>2
      <4>2. u \in Tags /\ Live(u)
        BY <1>4, <4>1 DEF LiveBitsOnly
      <4> QED BY <1>1, <3>2, <4>2 DEF Live
    <3> QED BY <3>1, <3>2
  <2> QED BY <2>1 DEF LiveBitsOnly
<1>8. NamesUnique'
  <2>1. ASSUME NEW u \in Tags', NEW v \in Tags', Live(u)', counts'[u].name = counts'[v].name
        PROVE  u = v
    <3>1. Live(v)'
      BY <2>1 DEF Live
    <3>2. CASE u = t \/ v = t
      BY <1>3, <1>6, <2>1, <3>1, <3>2
    <3>3. CASE u # t /\ v # t
      <4>1. u \in Tags /\ v \in Tags /\ Live(u) /\ counts[u].name = counts[v].name
        BY <1>5, <1>6, <2>1, <3>3
      <4> QED BY <1>4, <4>1 DEF NamesUnique
    <3> QED BY <3>2, <3>3
  <2>2. ASSUME NEW u \in Tags', Live(u)'
        PROVE  counts'[u].name \in atoms'
    BY <1>2, <1>3, <1>5, <1>6, <2>2
  <2> QED BY <2>1, <2>2 DEF NamesUnique
<1> QED BY <1>1, <1>2, <1>4, <1>7, <1>8 DEF MemoryOK

LEMMA AddMemory ==
  ASSUME MemoryOK, NEW t \in 1 .. Len(counts) + 1, NEW name \in Names, Add(t, name)
  PROVE  MemoryOK' /\ Tags \subseteq Tags'
<1>1. AddNew(t, name, 0) /\ order' = order /\ held' = held
  BY DEF Add
<1>2. held' \in [Ids -> SUBSET (Tags \cup {t})] /\ order' \in Seq(Ids)
  BY <1>1 DEF MemoryOK
<1>3. \A id \in Ids : held'[id] \subseteq held[id] \cup {t}
  BY <1>1
<1>4. \A id \in Ids : held'[id] # {} => id \in Known'
  BY <1>1 DEF MemoryOK, LiveBitsOnly, Known
<1> QED BY <1>1, <1>2, <1>3, <1>4, AddNewMemory

LEMMA AddHoldMemory ==
  ASSUME MemoryOK, NEW t \in 1 .. Len(counts) + 1, NEW name \in Names, NEW id \in Ids,
         AddNew(t, name, 1), Hold(id, t)
  PROVE  MemoryOK' /\ Tags \subseteq Tags'
<1>1. order' \in Seq(Ids) /\ id \in Known' /\ Known \subseteq Known'
  BY Inserting DEF Hold
<1>2. held' = [held EXCEPT ![id] = @ \cup {t}] /\ held \in [Ids -> SUBSET Tags]
  BY DEF Hold, MemoryOK
<1>3. held' \in [Ids -> SUBSET (Tags \cup {t})]
  BY <1>2
<1>4. \A i \in Ids : held'[i] = IF i = id THEN held[id] \cup {t} ELSE held[i]
  BY <1>2
<1>5. \A i \in Ids : held'[i] \subseteq held[i] \cup {t}
  BY <1>4
<1>6. \A i \in Ids : held'[i] # {} => i \in Known'
  BY <1>1, <1>4 DEF MemoryOK, LiveBitsOnly
<1> QED BY <1>1, <1>3, <1>5, <1>6, AddNewMemory

\* A name is left in the atom set without an entry.
LEMMA AddFailsMemory ==
  ASSUME MemoryOK, NEW t, NEW name \in Names, AddFails(t, name)
  PROVE  MemoryOK' /\ Tags \subseteq Tags'
<1>1. atoms' = atoms \cup {name} /\ UNCHANGED <<counts, allocated, order, held>>
  BY DEF AddFails
<1>2. NamesUnique' /\ LiveBitsOnly'
  BY <1>1 DEF MemoryOK, NamesUnique, LiveBitsOnly, Live, Tags, Known
<1> QED BY <1>1, <1>2 DEF MemoryOK, Tags

\* A tag in use takes a name that none has, so no other loses its own.
LEMMA RenameMemory ==
  ASSUME MemoryOK, NEW t \in Tags, NEW name \in Names, Rename(t, name)
  PROVE  MemoryOK' /\ Tags \subseteq Tags'
<1>1. /\ Live(t) /\ name \notin atoms
      /\ atoms' = (atoms \ {counts[t].name}) \cup {name}
      /\ counts' = [counts EXCEPT ![t].name = name]
      /\ UNCHANGED <<allocated, order, held>>
  BY DEF Rename, Renamed
<1>2. /\ counts \in Seq(Entry) /\ t \in 1 .. Len(counts) /\ counts[t] \in Entry
      /\ LiveBitsOnly /\ NamesUnique /\ atoms \subseteq Names
  BY TagNumbers DEF MemoryOK
<1>3. counts' = [counts EXCEPT ![t] = [@ EXCEPT !.name = name]]
  BY <1>1
<1>4. [counts[t] EXCEPT !.name = name] \in Entry
  BY <1>2 DEF Entry
<1>5. counts' \in Seq(Entry) /\ Len(counts') = Len(counts) /\ Tags' = Tags
  BY <1>2, <1>3, <1>4, ExceptSeq DEF Tags
<1>6. /\ counts'[t].name = name /\ name # None
      /\ \A u \in Tags : u # t => counts'[u].name = counts[u].name
  BY <1>2, <1>3, NameAssumption DEF Entry, Tags
<1>7. LiveBitsOnly'
  BY <1>1, <1>2, <1>5, <1>6 DEF LiveBitsOnly, Live, Known
<1>8. ASSUME NEW u \in Tags, u # t, Live(u)'
      PROVE  /\ Live(u) /\ counts[u].name \in atoms
             /\ counts[u].name # counts[t].name /\ counts'[u].name # name
  <2>1. Live(u)
    BY <1>6, <1>8 DEF Live
  <2>2. counts[u].name \in atoms /\ counts[u].name # counts[t].name
    BY <1>2, <1>8, <2>1 DEF NamesUnique
  <2> QED BY <1>1, <1>6, <1>8, <2>1, <2>2
<1>9. NamesUnique'
  <2>1. ASSUME NEW u \in Tags, NEW v \in Tags, Live(u)', counts'[u].name = counts'[v].name
        PROVE  u = v
    <3>1. Live(v)'
      BY <2>1 DEF Live
    <3>2. CASE u = t \/ v = t
      BY <1>6, <1>8, <2>1, <3>1, <3>2
    <3>3. CASE u # t /\ v # t
      BY <1>2, <1>6, <1>8, <2>1, <3>3 DEF NamesUnique
    <3> QED BY <3>2, <3>3
  <2>2. ASSUME NEW u \in Tags, Live(u)'
        PROVE  counts'[u].name \in atoms'
    BY <1>1, <1>6, <1>8, <2>2
  <2> QED BY <1>5, <2>1, <2>2 DEF NamesUnique
<1> QED BY <1>1, <1>2, <1>5, <1>7, <1>9 DEF MemoryOK

\* tagdb_remove frees an entry whose bit its enumeration has cleared in every
\* set: the ids it has passed do not have it, and no id is left that has.
LEMMA RemoveEndMemory ==
  ASSUME MemoryOK, RemoveProgress, RemoveEnd
  PROVE  MemoryOK' /\ Tags \subseteq Tags'
<1> DEFINE t == at.tag
<1>1. /\ t \in Tags /\ Live(t) /\ at.cont \in Nat
      /\ \A p \in DOMAIN order : p <= at.cont => t \notin held[order[p]]
  BY DEF RemoveEnd, RemoveProgress
<1>2. /\ NoMatch({t}, at.cont)
      /\ atoms' = atoms \ {counts[t].name}
      /\ counts' = [counts EXCEPT ![t] = [name |-> None, count |-> 0]]
      /\ UNCHANGED <<allocated, order, held>>
  BY DEF RemoveEnd
<1>3. /\ counts \in Seq(Entry) /\ t \in 1 .. Len(counts) /\ order \in Seq(Ids)
      /\ LiveBitsOnly /\ NamesUnique /\ atoms \subseteq Names
  BY <1>1, TagNumbers DEF MemoryOK
<1> HIDE DEF t
<1>4. ASSUME NEW p \in DOMAIN order PROVE t \notin held[order[p]]
  <2>1. p \in Nat
    BY <1>3, LenProperties
  <2>2. ~ (p > at.cont /\ {t} \subseteq held[order[p]])
    BY <1>2 DEF NoMatch, Matches
  <2> QED BY <1>1, <2>1, <2>2
<1>5. ASSUME NEW id \in Ids PROVE t \notin held[id]
  <2>1. id \in Known => t \notin held[id]
    BY <1>4, Places
  <2> QED BY <1>3, <2>1 DEF LiveBitsOnly
<1>6. [name |-> None, count |-> 0] \in Entry
  BY DEF Entry
<1>7. counts' \in Seq(Entry) /\ Len(counts') = Len(counts) /\ Tags' = Tags
  BY <1>2, <1>3, <1>6, ExceptSeq DEF Tags
<1>8. counts'[t].name = None /\ \A u \in Tags : u # t => counts'[u] = counts[u]
  BY <1>1, <1>2 DEF Tags
<1>9. LiveBitsOnly'
  BY <1>2, <1>3, <1>5, <1>7, <1>8 DEF LiveBitsOnly, Live, Known
<1>10. NamesUnique'
  <2>1. ASSUME NEW u \in Tags, Live(u)'
        PROVE  u # t /\ Live(u) /\ counts'[u].name \in atoms'
    <3>1. u # t /\ Live(u)
      BY <1>8, <2>1 DEF Live
    <3> QED BY <1>2, <1>3, <1>1, <1>8, <3>1 DEF NamesUnique
  <2>2. ASSUME NEW u \in Tags, NEW v \in Tags, Live(u)', counts'[u].name = counts'[v].name
        PROVE  u = v
    <3>1. Live(v)'
      BY <2>2 DEF Live
    <3>2. Live(u) /\ counts[u].name = counts[v].name
      BY <1>8, <2>1, <2>2, <3>1
    <3> QED BY <1>3, <3>2 DEF NamesUnique
  <2> QED BY <1>7, <2>1, <2>2 DEF NamesUnique
<1> QED BY <1>2, <1>3, <1>7, <1>9, <1>10 DEF MemoryOK

-----------------------------------------------------------------------------
(* What a commit writes: whole lines, with a name for each of their tags.    *)

LEMMA TaggedIds ==
  ASSUME MemoryOK
  PROVE  /\ Tagged \in Seq(Ids)
         /\ \A p \in 1 .. Len(Tagged) : held[Tagged[p]] # {}
<1> DEFINE S == {p \in DOMAIN order : held[order[p]] # {}}
           T == {id \in Ids : held[id] # {}}
<1>1. order \in Seq(Ids) /\ DOMAIN order = 1 .. Len(order) /\ Len(order) \in Nat
  BY LenProperties DEF MemoryOK
<1>2. IsFiniteSet(1 .. Len(order))
  BY <1>1, FS_Interval
<1>3. S \in SUBSET (1 .. Len(order))
  BY <1>1
<1>4. S \in SUBSET Nat /\ IsFiniteSet(S)
  BY <1>1, <1>2, <1>3, FS_Subset
<1>5. \A p \in S : order[p] \in T
  BY <1>1, ElementOfSeq
<1>6. Tagged = Ascending(S, order)
  BY DEF Tagged
<1> HIDE DEF S
<1>7. Tagged \in Seq(T)
  BY <1>4, <1>5, <1>6, AscendingSequence
<1>8. \A p \in 1 .. Len(Tagged) : Tagged[p] \in T
  BY <1>7, ElementOfSeq
<1>9. Tagged \in Seq(Ids)
  BY <1>7
<1> QED BY <1>8, <1>9

LEMMA WrittenLine ==
  ASSUME MemoryOK, NEW id \in Ids, held[id] # {}
  PROVE  LineOf(id) \in Line /\ Len(LineOf(id).names) > 0
<1>1. /\ held[id] \in SUBSET Tags
      /\ \A t \in held[id] : counts[t].name # None
  BY DEF MemoryOK, LiveBitsOnly, Live
<1>2. held[id] \in SUBSET Nat /\ IsFiniteSet(held[id])
  BY <1>1, TagNumbers, FS_Subset
<1>3. \A t \in held[id] : NameOf[t] \in Names
  BY <1>1, TagNumbers DEF NameOf, Entry
<1>4. /\ Ascending(held[id], NameOf) \in Seq(Names)
      /\ Len(Ascending(held[id], NameOf)) = Cardinality(held[id])
  BY <1>2, <1>3, AscendingSequence
<1>5. Cardinality(held[id]) \in Nat /\ Cardinality(held[id]) # 0
  BY <1>2, FS_CardinalityType, FS_EmptySet
<1> QED BY <1>4, <1>5 DEF LineOf, Line

LEMMA WrittenLines ==
  ASSUME MemoryOK, NEW n \in 0 .. Len(Tagged)
  PROVE  /\ FirstLines(n) \in Seq(Line)
         /\ \A l \in DOMAIN FirstLines(n) : Len(FirstLines(n)[l].names) > 0
<1>1. Tagged \in Seq(Ids) /\ Len(Tagged) \in Nat
  BY TaggedIds, LenProperties
<1>2. ASSUME NEW p \in 1 .. n
      PROVE  LineOf(Tagged[p]) \in Line /\ Len(LineOf(Tagged[p]).names) > 0
  <2>1. p \in 1 .. Len(Tagged)
    BY <1>1
  <2>2. Tagged[p] \in Ids /\ held[Tagged[p]] # {}
    BY <1>1, <2>1, TaggedIds, ElementOfSeq
  <2> QED BY <2>2, WrittenLine
<1>3. FirstLines(n) \in [1 .. n -> Line]
  BY <1>2 DEF FirstLines
<1>4. FirstLines(n) \in Seq(Line)
  BY <1>1, <1>3
<1> QED BY <1>2, <1>4 DEF FirstLines

LEMMA WrittenFile ==
  ASSUME MemoryOK, file' \in WrittenFiles \cup PartFiles
  PROVE  FileOK'
<1>1. PICK n \in 0 .. Len(Tagged), c \in BOOLEAN :
        file' = [lines |-> FirstLines(n), cut |-> c]
  BY DEF WrittenFiles, PartFiles
<1> QED BY <1>1, WrittenLines DEF FileOK

-----------------------------------------------------------------------------
(* The calls in steps. *)

\* A call that is over, or that stopped, leaves nothing to keep track of.
LEMMA NoCall ==
  ASSUME CallOK, pc' \in {"closed", "idle", "abort"}, at' = at \/ at' = Nowhere
  PROVE  CallOK'
BY DEF CallOK, RemoveProgress, LoadProgress, Nowhere

LEMMA RemoveBeginCall ==
  ASSUME MemoryOK, NEW t \in Tags, RemoveBegin(t)
  PROVE  CallOK'
<1>1. /\ pc' = "remove" /\ at' = [tag |-> t, cont |-> 0] /\ Live(t)
      /\ UNCHANGED <<counts, order, held>>
  BY DEF RemoveBegin, memory
<1>2. t \in Nat /\ Tags' = Tags
  BY <1>1, TagNumbers DEF Tags
<1>3. order \in Seq(Ids) /\ \A p \in DOMAIN order : p \in Nat /\ ~ (p <= 0)
  BY LenProperties DEF MemoryOK
<1> QED BY <1>1, <1>2, <1>3 DEF CallOK, RemoveProgress, LoadProgress, Live

\* The ids between the last one untagged and this one did not match.
LEMMA RemoveUntagCall ==
  ASSUME MemoryOK, CallOK, NEW p \in DOMAIN order, RemoveUntag(p)
  PROVE  CallOK'
<1> DEFINE t == at.tag
<1>1. /\ pc = "remove" /\ pc' = "remove"
      /\ NextMatch({t}, at.cont, p)
      /\ Untagged(order[p], t)
      /\ at' = [at EXCEPT !.cont = p]
      /\ UNCHANGED <<atoms, allocated, order>>
  BY DEF RemoveUntag
<1>2. /\ at \in [tag : Tags, cont : Nat] /\ Live(t)
      /\ \A q \in DOMAIN order : q <= at.cont => t \notin held[order[q]]
  BY <1>1 DEF CallOK, RemoveProgress
<1>3. order \in Seq(Ids) /\ DOMAIN order = 1 .. Len(order) /\ Len(order) \in Nat
  BY LenProperties DEF MemoryOK
<1>4. Renumbered
  BY <1>1, <1>2, Renumbering DEF Untagged
<1>5. /\ at' \in [tag : Tags', cont : Nat] /\ at'.tag = t /\ at'.cont = p
      /\ at' \in [tag : Nat, cont : Nat]
  <2>1. at' = [tag |-> t, cont |-> p] /\ p \in Nat /\ t \in Nat
    BY <1>1, <1>2, <1>3, TagNumbers
  <2> QED BY <1>2, <1>4, <2>1 DEF Renumbered
<1>6. counts'[t].name # None
  BY <1>2, <1>4 DEF Renumbered, Live
<1> HIDE DEF t
<1>7. \A i \in Ids : held'[i] = IF i = order[p] THEN held[i] \ {t} ELSE held[i]
  BY <1>1 DEF Untagged, MemoryOK
<1>8. ASSUME NEW q \in DOMAIN order, q <= p
      PROVE  t \notin held'[order[q]]
  <2>1. order[q] \in Ids /\ q \in Nat
    BY <1>3, ElementOfSeq
  <2>2. CASE q = p
    BY <1>7, <2>1, <2>2
  <2>3. CASE q # p
    <3>1. q \in 1 .. p - 1
      BY <1>3, <1>8, <2>3
    <3>2. ~ (q > at.cont /\ {t} \subseteq held[order[q]])
      BY <1>1, <3>1 DEF NextMatch, Matches
    <3>3. t \notin held[order[q]]
      BY <1>2, <2>1, <3>2
    <3> QED BY <1>7, <2>1, <3>3
  <2> QED BY <2>2, <2>3
<1>9. RemoveProgress'
  <2>1. Live(at.tag)'
    BY <1>5, <1>6 DEF Live
  <2> QED BY <1>1, <1>5, <1>8, <2>1 DEF RemoveProgress
<1> QED BY <1>1, <1>5, <1>9 DEF CallOK, LoadProgress

LEMMA OpenCall ==
  ASSUME FileOK, Open
  PROVE  CallOK'
<1>1. pc' = "load" /\ at' = [line |-> 1, token |-> 1] /\ file' = file
  BY DEF Open
<1>2. 1 \in DOMAIN file.lines => 1 <= Len(file.lines[1].names)
  <2>1. ASSUME 1 \in DOMAIN file.lines
        PROVE  Len(file.lines[1].names) \in Nat /\ Len(file.lines[1].names) > 0
    <3>1. file.lines \in Seq(Line)
      BY DEF FileOK
    <3>2. file.lines[1] \in Line
      BY <2>1, <3>1, LenProperties, ElementOfSeq
    <3>3. file.lines[1].names \in Seq(Names)
      BY <3>2 DEF Line
    <3> QED BY <2>1, <3>3, LenProperties DEF FileOK
  <2> QED BY <2>1
<1> QED BY <1>1, <1>2 DEF CallOK, RemoveProgress, LoadProgress

\* Where the load is, there is a name.
LEMMA LoadPlace ==
  ASSUME FileOK, CallOK, LoadToken
  PROVE  /\ file.lines[at.line].id \in Ids
         /\ file.lines[at.line].names[at.token] \in Names
<1>1. /\ at.line \in DOMAIN file.lines /\ at.token \in Nat /\ at.token > 0
      /\ at.token <= Len(file.lines[at.line].names)
  BY DEF LoadToken, CallOK, LoadProgress
<1>2. file.lines \in Seq(Line)
  BY DEF FileOK
<1>3. file.lines[at.line] \in Line
  BY <1>1, <1>2, LenProperties, ElementOfSeq
<1>4. file.lines[at.line].names \in Seq(Names) /\ file.lines[at.line].id \in Ids
  BY <1>3 DEF Line
<1>5. Len(file.lines[at.line].names) \in Nat
  BY <1>4, LenProperties
<1> QED BY <1>1, <1>4, <1>5, ElementOfSeq

LEMMA LoadTokenCall ==
  ASSUME FileOK, CallOK, LoadToken
  PROVE  CallOK'
<1>1. /\ pc = "load" /\ pc' = "load" /\ file' = file /\ at' = Following
      /\ at.line \in DOMAIN file.lines
  BY DEF LoadToken
<1>2. at \in [line : Nat, token : Nat] /\ at.line > 0 /\ at.token > 0
  BY <1>1 DEF CallOK, LoadProgress
<1>3. ASSUME NEW l \in DOMAIN file.lines
      PROVE  Len(file.lines[l].names) \in Nat /\ Len(file.lines[l].names) > 0
  <2>1. file.lines \in Seq(Line)
    BY DEF FileOK
  <2>2. file.lines[l] \in Line
    BY <2>1, LenProperties, ElementOfSeq
  <2>3. file.lines[l].names \in Seq(Names)
    BY <2>2 DEF Line
  <2> QED BY <2>3, LenProperties DEF FileOK
<1>4. CASE at.token < Len(file.lines[at.line].names) /\ at.token < TokenMax
  <2>1. at' = [line |-> at.line, token |-> at.token + 1]
    BY <1>1, <1>2, <1>4 DEF Following
  <2>2. at.token + 1 <= Len(file.lines[at.line].names)
    BY <1>1, <1>2, <1>3, <1>4
  <2> QED BY <1>1, <1>2, <2>1, <2>2 DEF CallOK, RemoveProgress, LoadProgress
<1>5. CASE ~ (at.token < Len(file.lines[at.line].names) /\ at.token < TokenMax)
  <2>1. at' = [line |-> at.line + 1, token |-> 1]
    BY <1>1, <1>5 DEF Following
  <2>2. at.line + 1 \in DOMAIN file.lines => 1 <= Len(file.lines[at.line + 1].names)
    BY <1>3
  <2> QED BY <1>1, <1>2, <2>1, <2>2 DEF CallOK, RemoveProgress, LoadProgress
<1> QED BY <1>4, <1>5

-----------------------------------------------------------------------------
(* The invariant and what follows from it. *)

\* Every variable that a step leaves alone, but the memory, stays sound.
LEMMA FileUntouched ==
  ASSUME FileOK, UNCHANGED file
  PROVE  FileOK'
BY DEF FileOK

LEMMA ScanUntouched ==
  ASSUME ScanOK, Tags \subseteq Tags', UNCHANGED scan
  PROVE  ScanOK'
BY DEF ScanOK

\* Nothing is enumerated, or what is owed to the client shrinks.
LEMMA ScanShrinks ==
  ASSUME ScanOK, Tags \subseteq Tags', NEW id, NEW t,
         scan' \in {scan, NoScan, Unowed(id, t)}
  PROVE  ScanOK'
<1> DEFINE Scan == [on : BOOLEAN, cont : Nat, want : SUBSET Tags, owed : SUBSET Ids]
<1>1. scan \in Scan /\ NoScan \in Scan
  BY DEF ScanOK, NoScan
<1>2. [scan EXCEPT !.owed = @ \ {id}] \in Scan
  BY <1>1
<1>3. scan' \in Scan
  BY <1>1, <1>2 DEF Unowed
<1> QED BY <1>3 DEF ScanOK

LEMMA ScanFrom ==
  ASSUME MemoryOK, ScanOK, NEW want \in SUBSET Tags
  PROVE  From(want) \in [on : BOOLEAN, cont : Nat, want : SUBSET Tags, owed : SUBSET Ids]
<1>1. order \in Seq(Ids)
  BY DEF MemoryOK
<1>2. Known \subseteq Ids
  BY <1>1, LenProperties, ElementOfSeq DEF Known, Range
<1>3. {id \in Known : want \subseteq held[id]} \in SUBSET Ids
  BY <1>2
<1> QED BY <1>3 DEF ScanOK, From

\* The process is gone, whatever it was doing.
LEMMA AllForgotten ==
  ASSUME CallOK, pc' = "closed", Forgotten
  PROVE  MemoryOK' /\ CallOK' /\ ScanOK'
<1>1. MemoryOK'
  BY MemoryGone
<1>2. CallOK'
  BY NoCall DEF Forgotten
<1>3. ScanOK'
  BY DEF Forgotten, ScanOK, NoScan
<1> QED BY <1>1, <1>2, <1>3

LEMMA InitInvariant == Init => IInv
<1> SUFFICES ASSUME Init PROVE IInv
  OBVIOUS
<1>1. MemoryOK
  <2>1. counts = <<>> /\ Len(counts) = 0 /\ Tags = {}
    BY DEF Init, Tags
  <2> QED BY <2>1 DEF Init, MemoryOK, LiveBitsOnly, NamesUnique
<1>2. FileOK
  BY DEF Init, FileOK, NoFile
<1>3. CallOK
  BY DEF Init, CallOK, RemoveProgress, LoadProgress, Nowhere
<1>4. ScanOK
  BY DEF Init, ScanOK, NoScan
<1> QED BY <1>1, <1>2, <1>3, <1>4 DEF IInv

LEMMA StepInvariant == IInv /\ [Next]_vars => IInv'
<1> SUFFICES ASSUME IInv, [Next]_vars PROVE IInv'
  OBVIOUS
<1> USE DEF IInv
<1>1. CASE Open
  <2>1. UNCHANGED <<memory, file, scan>>
    BY <1>1 DEF Open
  <2> QED BY <1>1, <2>1, MemoryUntouched, FileUntouched, ScanUntouched, OpenCall
<1>2. CASE LoadToken
  <2> DEFINE line == file.lines[at.line]
             name == line.names[at.token]
  <2>1. line.id \in Ids /\ name \in Names /\ UNCHANGED <<file, scan>>
    BY <1>2, LoadPlace DEF LoadToken
  <2>2. MemoryOK' /\ Tags \subseteq Tags'
    <3>1. CASE \E t \in 1 .. Len(counts) + 1 : AddNew(t, name, 1) /\ Hold(line.id, t)
      BY <2>1, <3>1, AddHoldMemory
    <3>2. CASE \E t \in Named(name) :
                 /\ counts' = [counts EXCEPT ![t].count = @ + 1]
                 /\ Hold(line.id, t)
                 /\ UNCHANGED <<atoms, allocated>>
      <4>1. PICK t \in Named(name) :
              /\ counts' = [counts EXCEPT ![t].count = @ + 1]
              /\ Hold(line.id, t)
              /\ UNCHANGED <<atoms, allocated>>
        BY <3>2
      <4>2. t \in Tags /\ Live(t)
        BY <2>1, NameAssumption DEF Named, Live
      <4> QED BY <2>1, <4>1, <4>2, TagIdMemory
    <3> QED BY <1>2, <3>1, <3>2 DEF LoadToken
  <2> QED BY <1>2, <2>1, <2>2, FileUntouched, ScanUntouched, LoadTokenCall
<1>3. CASE LoadEnd
  <2>1. UNCHANGED <<memory, file, scan>> /\ pc' = "idle" /\ at' = Nowhere
    BY <1>3 DEF LoadEnd
  <2> QED BY <2>1, MemoryUntouched, FileUntouched, ScanUntouched, NoCall
<1>4. CASE LoadFails \/ Crash
  <2>1. pc' = "closed" /\ Forgotten /\ UNCHANGED file
    BY <1>4 DEF LoadFails, Crash
  <2> QED BY <2>1, AllForgotten, FileUntouched
<1>5. ASSUME NEW t \in 1 .. Len(counts) + 1, NEW name \in Names, Add(t, name)
      PROVE  IInv'
  <2>1. UNCHANGED <<pc, file, at, scan>> /\ pc = "idle"
    BY <1>5 DEF Add
  <2> QED BY <1>5, <2>1, AddMemory, FileUntouched, ScanUntouched, NoCall
<1>6. ASSUME NEW t \in 1 .. Len(counts) + 1, NEW name \in Names, AddFails(t, name)
      PROVE  IInv'
  <2>1. UNCHANGED <<pc, file, at, scan>> /\ pc = "idle"
    BY <1>6 DEF AddFails
  <2> QED BY <1>6, <2>1, AddFailsMemory, FileUntouched, ScanUntouched, NoCall
<1>7. ASSUME NEW name \in Names, AddAborts(name)
      PROVE  IInv'
  <2>1. UNCHANGED <<memory, file, at, scan>> /\ pc' = "abort"
    BY <1>7 DEF AddAborts
  <2> QED BY <2>1, MemoryUntouched, FileUntouched, ScanUntouched, NoCall
<1>8. ASSUME NEW t \in Tags, NEW name \in Names, Rename(t, name)
      PROVE  IInv'
  <2>1. UNCHANGED <<pc, file, at, scan>> /\ pc = "idle"
    BY <1>8 DEF Rename
  <2> QED BY <1>8, <2>1, RenameMemory, FileUntouched, ScanUntouched, NoCall
<1>9. ASSUME NEW id \in Ids, NEW t \in Tags, TagId(id, t)
      PROVE  IInv'
  <2>1. UNCHANGED <<pc, file, at, scan>> /\ pc = "idle"
    BY <1>9 DEF TagId
  <2>2. MemoryOK' /\ Tags \subseteq Tags'
    BY <1>9, TagIdMemory DEF TagId, Hold
  <2> QED BY <2>1, <2>2, FileUntouched, ScanUntouched, NoCall
<1>10. ASSUME NEW id \in Ids, NEW t \in Tags, TagIdFails(id, t)
       PROVE  IInv'
  <2>1. UNCHANGED <<pc, file, at, scan>> /\ pc = "idle"
    BY <1>10 DEF TagIdFails
  <2> QED BY <1>10, <2>1, TagIdFailsMemory, FileUntouched, ScanUntouched, NoCall
<1>11. ASSUME NEW id \in Ids, NEW t \in Tags, UntagId(id, t)
       PROVE  IInv'
  <2>1. UNCHANGED <<pc, file, at>> /\ pc = "idle" /\ scan' = Unowed(id, t)
    BY <1>11 DEF UntagId
  <2>2. MemoryOK' /\ Tags \subseteq Tags'
    BY <1>11, UntaggedMemory DEF UntagId
  <2> QED BY <2>1, <2>2, FileUntouched, ScanShrinks, NoCall
<1>12. ASSUME NEW id \in Ids, Forget(id)
       PROVE  IInv'
  <2>1. UNCHANGED <<pc, file, at>> /\ pc = "idle" /\ scan' = NoScan
    BY <1>12 DEF Forget
  <2> QED BY <1>12, <2>1, ForgetMemory, FileUntouched, ScanShrinks, NoCall
<1>13. ASSUME NEW want \in SUBSET Tags, EnumerateEnd(want)
       PROVE  IInv'
  <2>1. /\ UNCHANGED <<pc, memory, file, at>> /\ pc = "idle"
        /\ scan' = [NoScan EXCEPT !.owed = From(want).owed]
    BY <1>13 DEF EnumerateEnd
  <2>2. MemoryOK' /\ Tags \subseteq Tags'
    BY <2>1, MemoryUntouched
  <2>3. ScanOK'
    BY <2>1, <2>2, ScanFrom DEF ScanOK, NoScan
  <2> QED BY <2>1, <2>2, <2>3, FileUntouched, NoCall
<1>14. ASSUME NEW want \in SUBSET Tags, NEW p \in DOMAIN order, EnumerateNext(want, p)
       PROVE  IInv'
  <2>1. /\ UNCHANGED <<pc, memory, file, at>> /\ pc = "idle"
        /\ scan' = [From(want) EXCEPT !.cont = p, !.owed = @ \ {order[p]}]
    BY <1>14 DEF EnumerateNext
  <2>2. MemoryOK' /\ Tags \subseteq Tags'
    BY <2>1, MemoryUntouched
  <2>3. p \in Nat
    BY LenProperties DEF MemoryOK
  <2>4. ScanOK'
    BY <2>1, <2>2, <2>3, ScanFrom DEF ScanOK
  <2> QED BY <2>1, <2>2, <2>4, FileUntouched, NoCall
<1>15. ASSUME NEW t \in Tags, RemoveBegin(t)
       PROVE  IInv'
  <2>1. UNCHANGED <<memory, file, scan>>
    BY <1>15 DEF RemoveBegin
  <2> QED BY <1>15, <2>1, MemoryUntouched, FileUntouched, ScanUntouched, RemoveBeginCall
<1>16. ASSUME NEW p \in DOMAIN order, RemoveUntag(p)
       PROVE  IInv'
  <2>1. /\ Untagged(order[p], at.tag) /\ scan' = Unowed(order[p], at.tag)
        /\ UNCHANGED <<atoms, allocated, order, file>> /\ pc = "remove"
    BY <1>16 DEF RemoveUntag
  <2>2. order[p] \in Ids /\ at.tag \in Tags
    BY <2>1, LenProperties, ElementOfSeq DEF MemoryOK, CallOK, RemoveProgress
  <2>3. MemoryOK' /\ Tags \subseteq Tags'
    BY <2>1, <2>2, UntaggedMemory
  <2> QED BY <1>16, <2>1, <2>3, FileUntouched, ScanShrinks, RemoveUntagCall
<1>17. CASE RemoveEnd
  <2>1. /\ UNCHANGED file /\ pc' = "idle" /\ at' = Nowhere
        /\ scan' \in {scan, NoScan}
    BY <1>17 DEF RemoveEnd
  <2>2. MemoryOK' /\ Tags \subseteq Tags'
    BY <1>17, RemoveEndMemory DEF CallOK
  <2> QED BY <2>1, <2>2, FileUntouched, ScanShrinks, NoCall
<1>18. CASE Commit \/ CommitFails
  <2>1. /\ file' \in WrittenFiles \cup PartFiles
        /\ UNCHANGED <<pc, memory, at, scan>> /\ pc = "idle"
    BY <1>18 DEF Commit, CommitFails
  <2> QED BY <2>1, WrittenFile, MemoryUntouched, ScanUntouched, NoCall
<1>19. CASE Close \/ CommitCrashes
  <2>1. file' \in WrittenFiles \cup PartFiles /\ pc' = "closed" /\ Forgotten
    BY <1>19 DEF Close, CommitCrashes
  <2> QED BY <2>1, WrittenFile, AllForgotten
<1>20. CASE Delete
  <2>1. UNCHANGED <<pc, memory, at, scan>> /\ file' = NoFile /\ pc = "closed"
    BY <1>20 DEF Delete
  <2>2. FileOK'
    BY <2>1 DEF FileOK, NoFile
  <2> QED BY <2>1, <2>2, MemoryUntouched, ScanUntouched, NoCall
<1>21. CASE UNCHANGED vars
  <2>1. UNCHANGED <<memory, file, scan>> /\ UNCHANGED <<pc, at, file, counts, order, held>>
    BY <1>21 DEF vars, memory
  <2>2. CallOK'
    BY <2>1 DEF CallOK, RemoveProgress, LoadProgress, Tags, Live
  <2> QED BY <2>1, <2>2, MemoryUntouched, FileUntouched, ScanUntouched
<1> QED
  BY <1>1, <1>2, <1>3, <1>4, <1>5, <1>6, <1>7, <1>8, <1>9, <1>10, <1>11, <1>12, <1>13,
     <1>14, <1>15, <1>16, <1>17, <1>18, <1>19, <1>20, <1>21 DEF Next

\* The invariant holds in every state.
THEOREM Inductive == Spec => []IInv
BY InitInvariant, StepInvariant, PTL DEF Spec

\* Every variable has its type, and the entries in use are among those
\* allocated (tagdb_add's, tagdb_remove's and the load's indices are in range).
THEOREM TypeCorrect == Spec => []TypeOK
<1>1. IInv => TypeOK
  BY DEF IInv, MemoryOK, FileOK, CallOK, ScanOK, TypeOK
<1> QED BY <1>1, Inductive, PTL

\* A set bit belongs to a tag in use, through tagdb_remove's enumeration and
\* the reuse of entries by tagdb_add.
THEOREM LiveBits == Spec => []LiveBitsOnly
<1>1. IInv => LiveBitsOnly
  BY DEF IInv, MemoryOK
<1> QED BY <1>1, Inductive, PTL

\* No two entries share a name, and each one's name is in the atom set.
THEOREM UniqueNames == Spec => []NamesUnique
<1>1. IInv => NamesUnique
  BY DEF IInv, MemoryOK
<1> QED BY <1>1, Inductive, PTL

-----------------------------------------------------------------------------
(* The second invariant. *)

\* No two lines are for one id, and no line has a name twice.
FileDistinct ==
  \A l \in DOMAIN file.lines :
    /\ \A m \in DOMAIN file.lines : file.lines[l].id = file.lines[m].id => l = m
    /\ IsInjective(file.lines[l].names)

\* The k-th token of the l-th line has been read.
IsRead(l, k) == k <= TokenMax /\ (l < at.line \/ (l = at.line /\ k < at.token))

IsReadName(id, name) ==
  \E l \in DOMAIN file.lines :
    /\ file.lines[l].id = id
    /\ \E k \in DOMAIN file.lines[l].names : file.lines[l].names[k] = name /\ IsRead(l, k)

HasName(id, name) == \E t \in held[id] : counts[t].name = name

\* While the file is read, each id has the tags that were read for it, and
\* there are no others.
LoadKept ==
  pc = "load" =>
    /\ at.token <= TokenMax
    /\ \A id \in Ids, name \in Names : HasName(id, name) <=> IsReadName(id, name)
    /\ \A t \in Tags : Live(t) => \E id \in Ids : t \in held[id]

ClosedEmpty == pc = "closed" => counts = <<>> /\ held = [id \in Ids |-> {}]

\* What an enumeration owes its client matches, and the walk has still to
\* come to it.
ScanKept ==
  /\ ~ scan.on => scan.owed = {}
  /\ scan.on =>
       \A id \in scan.owed :
         /\ scan.want \subseteq held[id]
         /\ \E p \in DOMAIN order : p > scan.cont /\ order[p] = id

RInv == IsInjective(order) /\ FileDistinct /\ LoadKept /\ ClosedEmpty /\ ScanKept

-----------------------------------------------------------------------------
(* The order of the ids. *)

\* A new id goes between the others.
LEMMA InsertingOrder ==
  ASSUME MemoryOK, IsInjective(order), NEW id \in Ids, Insert(id)
  PROVE  /\ IsInjective(order')
         /\ \A p \in DOMAIN order :
              \E q \in DOMAIN order' : q >= p /\ order'[q] = order[p]
<1>1. order \in Seq(Ids) /\ DOMAIN order = 1 .. Len(order) /\ Len(order) \in Nat
  BY LenProperties DEF MemoryOK
<1>2. CASE id \in Known
  <2>1. order' = order
    BY <1>2 DEF Insert
  <2>2. \A p \in DOMAIN order : p >= p
    BY <1>1
  <2> QED BY <2>1, <2>2
<1>3. CASE id \notin Known
  <2>1. PICK p \in 1 .. Len(order) + 1 : order' = InsertAt(order, p, id)
    BY <1>3 DEF Insert
  <2>2. id \notin Range(order)
    BY <1>3 DEF Known
  <2>3. IsInjective(order')
    BY <1>1, <2>1, <2>2, InsertedDistinct
  <2>4. \A j \in DOMAIN order :
          \E k \in DOMAIN InsertAt(order, p, id) :
            k >= j /\ InsertAt(order, p, id)[k] = order[j]
    <3>1. ASSUME NEW F \in Seq(Ids), NEW i \in 1 .. Len(F) + 1
          PROVE  \A j \in DOMAIN F :
                   \E k \in DOMAIN InsertAt(F, i, id) :
                     k >= j /\ InsertAt(F, i, id)[k] = F[j]
      BY InsertedElements
    <3> QED BY <1>1, <2>1, <3>1
  <2> QED BY <2>1, <2>3, <2>4
<1> QED BY <1>2, <1>3

\* What steps do to the order, to the file and to the call in progress: only
\* tagdb_open and its reading have a load in progress, and a database that is
\* not open has nothing in memory.
LEMMA Steps ==
  ASSUME IInv, [Next]_vars
  PROVE  /\ \/ order' = order
            \/ \E id \in Ids : Insert(id)
            \/ \E p \in DOMAIN order : order' = RemoveAt(order, p)
            \/ order' = <<>>
         /\ file' \in {file, NoFile} \cup WrittenFiles \cup PartFiles
         /\ pc' = "load" => Open \/ LoadToken \/ UNCHANGED vars
         /\ pc' = "closed" => Forgotten \/ UNCHANGED <<pc, counts, held>>
<1> USE DEF memory
<1>1. CASE Open \/ LoadEnd \/ Delete \/ Commit \/ CommitFails \/ UNCHANGED vars
  BY <1>1 DEF Open, LoadEnd, Delete, Commit, CommitFails, vars
<1>2. CASE LoadToken
  <2>1. file.lines[at.line].id \in Ids
    BY <1>2, LoadPlace DEF IInv
  <2> QED BY <1>2, <2>1 DEF LoadToken, Hold
<1>3. CASE LoadFails \/ Crash \/ Close \/ CommitCrashes
  BY <1>3 DEF LoadFails, Crash, Close, CommitCrashes, Forgotten
<1>4. CASE \E t \in 1 .. Len(counts) + 1, name \in Names : Add(t, name) \/ AddFails(t, name)
  BY <1>4 DEF Add, AddFails
<1>5. CASE \E name \in Names : AddAborts(name)
  BY <1>5 DEF AddAborts
<1>6. CASE \E t \in Tags, name \in Names : Rename(t, name)
  BY <1>6 DEF Rename
<1>7. CASE \E id \in Ids, t \in Tags : TagId(id, t) \/ TagIdFails(id, t) \/ UntagId(id, t)
  BY <1>7 DEF TagId, TagIdFails, UntagId
<1>8. CASE \E id \in Ids : Forget(id)
  BY <1>8 DEF Forget
<1>9. CASE \E want \in SUBSET {t \in Tags : Live(t)} :
             EnumerateEnd(want) \/ \E p \in DOMAIN order : EnumerateNext(want, p)
  BY <1>9 DEF EnumerateEnd, EnumerateNext
<1>10. CASE \E t \in Tags : RemoveBegin(t)
  BY <1>10 DEF RemoveBegin
<1>11. CASE (\E p \in DOMAIN order : RemoveUntag(p)) \/ RemoveEnd
  BY <1>11 DEF RemoveUntag, RemoveEnd
<1> QED
  BY <1>1, <1>2, <1>3, <1>4, <1>5, <1>6, <1>7, <1>8, <1>9, <1>10, <1>11 DEF Next

LEMMA OrderDistinct ==
  ASSUME IInv, IsInjective(order), [Next]_vars
  PROVE  IsInjective(order')
<1>1. MemoryOK /\ order \in Seq(Ids) /\ DOMAIN order = 1 .. Len(order)
  BY LenProperties DEF IInv, MemoryOK
<1>2. CASE order' = order
  BY <1>2
<1>3. CASE \E id \in Ids : Insert(id)
  BY <1>1, <1>3, InsertingOrder
<1>4. CASE \E p \in DOMAIN order : order' = RemoveAt(order, p)
  BY <1>1, <1>4, RemovedDistinct
<1>5. CASE order' = <<>>
  BY <1>5 DEF IsInjective
<1> QED BY <1>2, <1>3, <1>4, <1>5, Steps

-----------------------------------------------------------------------------
(* The file a commit writes. *)

\* It is for each id at most once, and a line has a name at most once.
LEMMA TaggedDistinct ==
  ASSUME MemoryOK, IsInjective(order)
  PROVE  IsInjective(Tagged) /\ Range(Tagged) = {id \in Ids : held[id] # {}}
<1> DEFINE S == {p \in DOMAIN order : held[order[p]] # {}}
<1>1. order \in Seq(Ids) /\ DOMAIN order = 1 .. Len(order) /\ Len(order) \in Nat
  BY LenProperties DEF MemoryOK
<1>2. IsFiniteSet(1 .. Len(order))
  BY <1>1, FS_Interval
<1>3. S \in SUBSET Nat /\ IsFiniteSet(S)
  BY <1>1, <1>2, FS_Subset
<1>4. \A p, q \in S : order[p] = order[q] => p = q
  BY DEF IsInjective
<1>5. {order[p] : p \in S} = {id \in Ids : held[id] # {}}
  <2>1. \A id \in Ids : held[id] # {} => \E p \in DOMAIN order : order[p] = id
    BY Places DEF MemoryOK, LiveBitsOnly
  <2>2. \A p \in DOMAIN order : order[p] \in Ids
    BY <1>1, ElementOfSeq
  <2> QED BY <2>1, <2>2
<1>6. Tagged = Ascending(S, order)
  BY DEF Tagged
<1> HIDE DEF S
<1> QED BY <1>3, <1>4, <1>5, <1>6, AscendingAll

LEMMA LineDistinct ==
  ASSUME MemoryOK, NEW id \in Ids
  PROVE  /\ IsInjective(LineOf(id).names)
         /\ Range(LineOf(id).names) = {counts[t].name : t \in held[id]}
<1>1. /\ held[id] \in SUBSET Tags
      /\ \A t \in held[id] : Live(t)
  BY DEF MemoryOK, LiveBitsOnly
<1>2. held[id] \in SUBSET Nat /\ IsFiniteSet(held[id])
  BY <1>1, TagNumbers, FS_Subset
<1>3. \A t \in held[id] : NameOf[t] = counts[t].name
  BY <1>1 DEF NameOf
<1>4. \A t, u \in held[id] : NameOf[t] = NameOf[u] => t = u
  BY <1>1, <1>3 DEF MemoryOK, NamesUnique
<1>5. LineOf(id).names = Ascending(held[id], NameOf)
  BY DEF LineOf
<1>6. {NameOf[t] : t \in held[id]} = {counts[t].name : t \in held[id]}
  BY <1>3
<1>7. /\ IsInjective(Ascending(held[id], NameOf))
      /\ Range(Ascending(held[id], NameOf)) = {NameOf[t] : t \in held[id]}
  BY <1>2, <1>4, AscendingAll
<1> QED BY <1>5, <1>6, <1>7

LEMMA WrittenDistinct ==
  ASSUME MemoryOK, IsInjective(order), file' \in WrittenFiles \cup PartFiles
  PROVE  FileDistinct'
<1>1. PICK n \in 0 .. Len(Tagged), c \in BOOLEAN :
        file' = [lines |-> FirstLines(n), cut |-> c]
  BY DEF WrittenFiles, PartFiles
<1>2. Tagged \in Seq(Ids) /\ Len(Tagged) \in Nat /\ DOMAIN Tagged = 1 .. Len(Tagged)
  BY TaggedIds, LenProperties
<1>3. DOMAIN FirstLines(n) = 1 .. n /\ \A l \in 1 .. n : FirstLines(n)[l] = LineOf(Tagged[l])
  BY DEF FirstLines
<1>4. \A l \in 1 .. n : l \in DOMAIN Tagged /\ Tagged[l] \in Ids
  BY <1>2, ElementOfSeq
<1>5. \A l \in 1 .. n : LineOf(Tagged[l]).id = Tagged[l] /\ IsInjective(LineOf(Tagged[l]).names)
  BY <1>4, LineDistinct DEF LineOf
<1>6. \A l, m \in 1 .. n : Tagged[l] = Tagged[m] => l = m
  BY <1>4, TaggedDistinct DEF IsInjective
<1> QED BY <1>1, <1>3, <1>5, <1>6 DEF FileDistinct

LEMMA FileStaysDistinct ==
  ASSUME IInv, IsInjective(order), FileDistinct, [Next]_vars
  PROVE  FileDistinct'
<1>1. CASE file' = file
  BY <1>1 DEF FileDistinct
<1>2. CASE file' = NoFile
  BY <1>2 DEF FileDistinct, NoFile
<1>3. CASE file' \in WrittenFiles \cup PartFiles
  BY <1>3, WrittenDistinct DEF IInv
<1> QED BY <1>1, <1>2, <1>3, Steps

-----------------------------------------------------------------------------
(* The load. *)

LEMMA ClosedStaysEmpty ==
  ASSUME IInv, ClosedEmpty, [Next]_vars
  PROVE  ClosedEmpty'
<1>1. CASE Forgotten
  BY <1>1 DEF Forgotten, ClosedEmpty
<1>2. CASE UNCHANGED <<pc, counts, held>>
  BY <1>2 DEF ClosedEmpty
<1> QED BY <1>1, <1>2, Steps DEF ClosedEmpty

\* The lines and names of the file.
LEMMA FileNumbers ==
  ASSUME FileOK
  PROVE  /\ DOMAIN file.lines \subseteq Nat \ {0}
         /\ \A l \in DOMAIN file.lines :
              /\ file.lines[l].id \in Ids
              /\ file.lines[l].names \in Seq(Names)
              /\ Len(file.lines[l].names) \in Nat \ {0}
              /\ DOMAIN file.lines[l].names = 1 .. Len(file.lines[l].names)
<1>1. file.lines \in Seq(Line)
  BY DEF FileOK
<1>2. DOMAIN file.lines = 1 .. Len(file.lines) /\ Len(file.lines) \in Nat
  BY <1>1, LenProperties
<1>3. ASSUME NEW l \in DOMAIN file.lines
      PROVE  /\ file.lines[l].id \in Ids
             /\ file.lines[l].names \in Seq(Names)
             /\ Len(file.lines[l].names) \in Nat \ {0}
             /\ DOMAIN file.lines[l].names = 1 .. Len(file.lines[l].names)
  <2>1. file.lines[l] \in Line
    BY <1>1, <1>2, ElementOfSeq
  <2>2. file.lines[l].id \in Ids /\ file.lines[l].names \in Seq(Names)
    BY <2>1 DEF Line
  <2>3. /\ Len(file.lines[l].names) \in Nat
        /\ DOMAIN file.lines[l].names = 1 .. Len(file.lines[l].names)
    BY <2>2, LenProperties
  <2> QED BY <2>2, <2>3 DEF FileOK
<1> QED BY <1>2, <1>3

\* The token that LoadToken reads.
TokenId == file.lines[at.line].id
TokenName == file.lines[at.line].names[at.token]

\* After it, it has been read as well.
LEMMA ReadNext ==
  ASSUME FileOK, CallOK, LoadKept, LoadToken
  PROVE  /\ at'.token <= TokenMax
         /\ \A id, name :
              IsReadName(id, name)' <=> IsReadName(id, name) \/ (id = TokenId /\ name = TokenName)
<1> DEFINE L == at.line
           K == at.token
<1>1. /\ pc = "load" /\ file' = file /\ at' = Following
      /\ L \in DOMAIN file.lines
  BY DEF LoadToken
<1>2. /\ L \in Nat /\ K \in Nat /\ L > 0 /\ K > 0 /\ K <= TokenMax
      /\ K <= Len(file.lines[L].names)
      /\ at \in [line : Nat, token : Nat]
  BY <1>1 DEF CallOK, LoadProgress, LoadKept
<1>3. TokenMax \in Nat /\ TokenMax > 0
  BY LimitAssumption
<1>4. \A l \in DOMAIN file.lines : \A k \in DOMAIN file.lines[l].names :
        /\ l \in Nat /\ k \in Nat /\ l > 0 /\ k > 0
        /\ l = L => k <= Len(file.lines[L].names)
  BY FileNumbers
<1>5. K \in DOMAIN file.lines[L].names
  BY <1>1, <1>2, FileNumbers
<1>6. CASE K < Len(file.lines[L].names) /\ K < TokenMax
  <2>1. at' = [at EXCEPT !.token = @ + 1]
    BY <1>1, <1>6 DEF Following
  <2>2. at'.line = L /\ at'.token = K + 1
    BY <1>2, <2>1
  <2> HIDE DEF L, K
  <2>3. \A l \in DOMAIN file.lines : \A k \in DOMAIN file.lines[l].names :
          IsRead(l, k)' <=> IsRead(l, k) \/ (l = L /\ k = K)
    BY <1>2, <1>4, <2>2 DEF IsRead, L, K
  <2>4. ASSUME NEW id, NEW name
        PROVE  IsReadName(id, name)' <=> IsReadName(id, name) \/ (id = TokenId /\ name = TokenName)
    BY <1>1, <1>5, <2>3 DEF IsReadName, TokenId, TokenName, L, K
  <2> QED BY <1>2, <1>3, <1>6, <2>2, <2>4
<1>7. CASE ~ (K < Len(file.lines[L].names) /\ K < TokenMax)
  <2>1. at' = [line |-> L + 1, token |-> 1]
    BY <1>1, <1>7 DEF Following
  <2>2. at'.line = L + 1 /\ at'.token = 1
    BY <2>1
  <2>3. Len(file.lines[L].names) \in Nat
    BY <1>1, FileNumbers
  <2> HIDE DEF L, K
  <2>4. \A l \in DOMAIN file.lines : \A k \in DOMAIN file.lines[l].names :
          IsRead(l, k)' <=> IsRead(l, k) \/ (l = L /\ k = K)
    BY <1>2, <1>3, <1>4, <1>7, <2>2, <2>3 DEF IsRead, L, K
  <2>5. ASSUME NEW id, NEW name
        PROVE  IsReadName(id, name)' <=> IsReadName(id, name) \/ (id = TokenId /\ name = TokenName)
    BY <1>1, <1>5, <2>4 DEF IsReadName, TokenId, TokenName, L, K
  <2> QED BY <1>2, <1>3, <2>2, <2>5
<1> QED BY <1>6, <1>7

\* It gives a tag of its name to its id, the name's own tag if there is one.
TokenTag(t) ==
  /\ Tags' = Tags \cup {t}
  /\ counts'[t].name = TokenName
  /\ \A u \in Tags : u # t => counts'[u] = counts[u]
  /\ held' = [held EXCEPT ![TokenId] = @ \cup {t}]
  /\ Insert(TokenId)
  /\ \/ /\ t \in Tags => ~ Live(t)
        /\ counts'[t].count = 1
     \/ /\ t \in Tags /\ Live(t) /\ counts[t].name = TokenName
        /\ counts'[t].count = counts[t].count + 1

LEMMA TokenHeld ==
  ASSUME IInv, LoadToken
  PROVE  \E t \in Tags' : TokenTag(t)
<1>1. MemoryOK /\ TokenName \in Names
  BY LoadPlace DEF IInv, TokenName
<1>2. TokenName # None
  BY <1>1, NameAssumption
<1>3. CASE \E t \in 1 .. Len(counts) + 1 : AddNew(t, TokenName, 1) /\ Hold(TokenId, t)
  <2>1. PICK t \in 1 .. Len(counts) + 1 : AddNew(t, TokenName, 1) /\ Hold(TokenId, t)
    BY <1>3
  <2>2. /\ Tags' = Tags \cup {t}
        /\ t \in Tags => ~ Live(t)
        /\ counts'[t] = [name |-> TokenName, count |-> 1]
        /\ \A u \in Tags : u # t => counts'[u] = counts[u]
    BY <1>1, <2>1, NewTagEntry
  <2>3. counts'[t].name = TokenName /\ counts'[t].count = 1
    BY <2>2
  <2>4. TokenTag(t)
    BY <2>1, <2>2, <2>3 DEF Hold, TokenTag
  <2> QED BY <2>2, <2>4
<1>4. CASE \E t \in Named(TokenName) :
             /\ counts' = [counts EXCEPT ![t].count = @ + 1]
             /\ Hold(TokenId, t)
             /\ UNCHANGED <<atoms, allocated>>
  <2>1. PICK t \in Named(TokenName) :
          /\ counts' = [counts EXCEPT ![t].count = @ + 1]
          /\ Hold(TokenId, t)
    BY <1>4
  <2>2. t \in Tags /\ counts[t].name = TokenName /\ Live(t)
    BY <1>2, <2>1 DEF Named, Live
  <2>3. Renumbered
    BY <1>1, <2>1, <2>2, Renumbering
  <2>4. \A u \in Tags : counts[u] \in Entry
    BY <1>1, TagNumbers
  <2>5. counts'[t].count = counts[t].count + 1 /\ \A u \in Tags : u # t => counts'[u] = counts[u]
    BY <2>1, <2>2, <2>4 DEF Tags, Entry
  <2>6. TokenTag(t)
    BY <2>1, <2>2, <2>3, <2>5 DEF Renumbered, Hold, TokenTag
  <2> QED BY <2>2, <2>3, <2>6 DEF Renumbered
<1> QED BY <1>3, <1>4 DEF LoadToken, TokenId, TokenName

LEMMA LoadTokenKept ==
  ASSUME IInv, LoadKept, LoadToken
  PROVE  LoadKept'
<1>t. PICK t \in Tags' : TokenTag(t)
  BY TokenHeld
<1>1. /\ Tags' = Tags \cup {t}
      /\ counts'[t].name = TokenName
      /\ \A u \in Tags : Live(u) => counts'[u].name = counts[u].name
      /\ \A u \in Tags' : counts'[u].name # None => u = t \/ (u \in Tags /\ Live(u))
      /\ held' = [held EXCEPT ![TokenId] = @ \cup {t}]
  BY <1>t DEF TokenTag, Live
<1>2. /\ pc = "load" /\ TokenId \in Ids
      /\ held \in [Ids -> SUBSET Tags]
      /\ \A id \in Ids : \A u \in held[id] : u \in Tags /\ Live(u)
  BY LoadPlace DEF IInv, MemoryOK, LiveBitsOnly, LoadToken, TokenId
<1>3. \A id \in Ids : held'[id] = IF id = TokenId THEN held[id] \cup {t} ELSE held[id]
  BY <1>1, <1>2
<1>4. /\ at'.token <= TokenMax
      /\ \A id, name :
           IsReadName(id, name)' <=> IsReadName(id, name) \/ (id = TokenId /\ name = TokenName)
  BY ReadNext DEF IInv
<1>5. /\ \A id \in Ids, name \in Names : HasName(id, name) <=> IsReadName(id, name)
      /\ \A u \in Tags : Live(u) => \E id \in Ids : u \in held[id]
  BY <1>2 DEF LoadKept
<1>6. ASSUME NEW id \in Ids, NEW name
      PROVE  HasName(id, name)' <=> HasName(id, name) \/ (id = TokenId /\ name = TokenName)
  BY <1>1, <1>2, <1>3 DEF HasName
<1>7. \A u \in Tags' : Live(u)' => \E id \in Ids : u \in held'[id]
  BY <1>1, <1>2, <1>3, <1>5 DEF Live
<1> QED BY <1>4, <1>5, <1>6, <1>7 DEF LoadKept

LEMMA OpenKept ==
  ASSUME FileOK, ClosedEmpty, Open
  PROVE  LoadKept'
<1>1. /\ counts' = <<>> /\ held' = [id \in Ids |-> {}]
      /\ at' = [line |-> 1, token |-> 1] /\ file' = file
  BY DEF Open, ClosedEmpty, memory
<1>2. 1 <= TokenMax
  BY LimitAssumption
<1>3. Tags' = {}
  BY <1>1 DEF Tags
<1>4. \A id \in Ids : \A name : ~ HasName(id, name)'
  BY <1>1 DEF HasName
<1>5. ASSUME NEW id, NEW name
      PROVE  ~ IsReadName(id, name)'
  <2>1. \A l \in DOMAIN file.lines : \A k \in DOMAIN file.lines[l].names :
          l \in Nat /\ k \in Nat /\ l > 0 /\ k > 0
    BY FileNumbers
  <2>2. \A l \in DOMAIN file.lines : \A k \in DOMAIN file.lines[l].names : ~ IsRead(l, k)'
    BY <1>1, <2>1 DEF IsRead
  <2> QED BY <1>1, <2>2 DEF IsReadName
<1> QED BY <1>1, <1>2, <1>3, <1>4, <1>5 DEF LoadKept

LEMMA LoadStaysKept ==
  ASSUME IInv, ClosedEmpty, LoadKept, [Next]_vars
  PROVE  LoadKept'
<1>1. CASE Open
  BY <1>1, OpenKept DEF IInv
<1>2. CASE LoadToken
  BY <1>2, LoadTokenKept
<1>3. CASE UNCHANGED vars
  BY <1>3 DEF vars, LoadKept, HasName, IsReadName, IsRead, Tags, Live
<1>4. CASE pc' # "load"
  BY <1>4 DEF LoadKept
<1> QED BY <1>1, <1>2, <1>3, <1>4, Steps

-----------------------------------------------------------------------------
(* The client's enumeration. *)

\* What is owed stays to be met while ids are only inserted and tagged.
LEMMA ScanGrows ==
  ASSUME IInv, IsInjective(order), ScanKept, UNCHANGED scan,
         order' = order \/ \E id \in Ids : Insert(id),
         \A id \in Ids : held[id] \subseteq held'[id]
  PROVE  ScanKept'
<1>1. order \in Seq(Ids) /\ \A p \in DOMAIN order : p \in Nat /\ order[p] \in Ids
  BY LenProperties, ElementOfSeq DEF IInv, MemoryOK
<1>2. \A p \in DOMAIN order : \E q \in DOMAIN order' : q >= p /\ order'[q] = order[p]
  <2>1. CASE order' = order
    BY <1>1, <2>1
  <2>2. CASE \E id \in Ids : Insert(id)
    BY <2>2, InsertingOrder DEF IInv
  <2> QED BY <2>1, <2>2
<1>3. DOMAIN order' \subseteq Nat
  <2>1. CASE order' = order
    BY <1>1, <2>1
  <2>2. CASE \E id \in Ids : Insert(id)
    <3>1. order' \in Seq(Ids)
      BY <2>2, Inserting DEF IInv
    <3> QED BY <3>1, LenProperties
  <2> QED BY <2>1, <2>2
<1>4. scan.cont \in Nat /\ scan.owed \subseteq Ids
  BY DEF IInv, ScanOK
<1>5. ASSUME scan.on, NEW id \in scan.owed
      PROVE  /\ scan.want \subseteq held'[id]
             /\ \E q \in DOMAIN order' : q > scan.cont /\ order'[q] = id
  <2>1. scan.want \subseteq held[id] /\ \E p \in DOMAIN order : p > scan.cont /\ order[p] = id
    BY <1>5 DEF ScanKept
  <2>2. PICK p \in DOMAIN order : p > scan.cont /\ order[p] = id
    BY <2>1
  <2>3. PICK q \in DOMAIN order' : q >= p /\ order'[q] = order[p]
    BY <1>2
  <2>4. q > scan.cont
    BY <1>1, <1>3, <1>4, <2>2, <2>3
  <2> QED BY <1>4, <2>1, <2>2, <2>3, <2>4
<1> QED BY <1>5 DEF ScanKept

\* Whom a wanted tag is taken from is not owed any more.
LEMMA ScanUntags ==
  ASSUME IInv, ScanKept, NEW id \in Ids, NEW t, Untagged(id, t),
         scan' = Unowed(id, t), order' = order
  PROVE  ScanKept'
<1>1. \A i \in Ids : held'[i] = IF i = id THEN held[i] \ {t} ELSE held[i]
  BY DEF Untagged, IInv, MemoryOK
<1>2. scan \in [on : BOOLEAN, cont : Nat, want : SUBSET Tags, owed : SUBSET Ids]
  BY DEF IInv, ScanOK
<1>3. CASE scan.on /\ t \in scan.want
  <2>1. scan' = [scan EXCEPT !.owed = @ \ {id}]
    BY <1>3 DEF Unowed
  <2>2. /\ scan'.on = scan.on /\ scan'.cont = scan.cont /\ scan'.want = scan.want
        /\ scan'.owed = scan.owed \ {id}
    BY <1>2, <2>1
  <2> QED BY <1>1, <1>2, <1>3, <2>2 DEF ScanKept
<1>4. CASE ~ (scan.on /\ t \in scan.want)
  <2>1. scan' = scan
    BY <1>4 DEF Unowed
  <2> QED BY <1>1, <1>2, <1>4, <2>1 DEF ScanKept
<1> QED BY <1>3, <1>4

\* An enumeration that begins owes every id that matches, and none has been met.
LEMMA ScanBegins ==
  ASSUME IInv, ScanKept, NEW want \in SUBSET Tags, want = From(want).want
  PROVE  /\ From(want) \in [on : BOOLEAN, cont : Nat, want : SUBSET Tags, owed : SUBSET Ids]
         /\ From(want).on
         /\ \A id \in From(want).owed :
              /\ want \subseteq held[id]
              /\ \E p \in DOMAIN order : p > From(want).cont /\ order[p] = id
<1>1. From(want) \in [on : BOOLEAN, cont : Nat, want : SUBSET Tags, owed : SUBSET Ids]
  BY ScanFrom DEF IInv
<1>2. CASE scan.on
  BY <1>1, <1>2 DEF From, ScanKept
<1>3. CASE ~ scan.on
  <2>1. From(want) = [on |-> TRUE, cont |-> 0, want |-> want,
                      owed |-> {id \in Known : want \subseteq held[id]}]
    BY <1>3 DEF From
  <2>2. \A p \in DOMAIN order : p \in Nat /\ p > 0
    BY LenProperties DEF IInv, MemoryOK
  <2> QED BY <1>1, <2>1, <2>2, Places
<1> QED BY <1>2, <1>3

LEMMA ScanNext ==
  ASSUME IInv, ScanKept, NEW want \in SUBSET Tags, NEW p \in DOMAIN order,
         EnumerateNext(want, p)
  PROVE  ScanKept'
<1>1. /\ want = From(want).want
      /\ NextMatch(want, From(want).cont, p)
      /\ scan' = [From(want) EXCEPT !.cont = p, !.owed = @ \ {order[p]}]
      /\ order' = order /\ held' = held
  BY DEF EnumerateNext, memory
<1> DEFINE F == From(want)
<1>2. /\ F \in [on : BOOLEAN, cont : Nat, want : SUBSET Tags, owed : SUBSET Ids]
      /\ F.on
      /\ \A id \in F.owed :
           /\ want \subseteq held[id]
           /\ \E q \in DOMAIN order : q > F.cont /\ order[q] = id
  BY <1>1, ScanBegins
<1>3. DOMAIN order = 1 .. Len(order) /\ Len(order) \in Nat
  BY LenProperties DEF IInv, MemoryOK
<1> HIDE DEF F
<1>4. scan'.on /\ scan'.cont = p /\ scan'.want = want /\ scan'.owed = F.owed \ {order[p]}
  BY <1>1, <1>2 DEF F
<1>5. ASSUME NEW id \in F.owed, id # order[p]
      PROVE  \E q \in DOMAIN order : q > p /\ order[q] = id
  <2>1. PICK q \in DOMAIN order : q > F.cont /\ order[q] = id
    BY <1>2
  <2>2. Matches(want, F.cont, q)
    BY <1>2, <2>1 DEF Matches
  <2>3. q \notin 1 .. p - 1
    BY <1>1, <2>2 DEF NextMatch, F
  <2>4. q > p
    BY <1>3, <1>5, <2>1, <2>3
  <2> QED BY <2>1, <2>4
<1> QED BY <1>1, <1>2, <1>4, <1>5 DEF ScanKept

LEMMA ScanEnds ==
  ASSUME IInv, ScanKept, NEW want \in SUBSET Tags, EnumerateEnd(want)
  PROVE  ScanKept'
<1>1. /\ want = From(want).want
      /\ NoMatch(want, From(want).cont)
      /\ scan' = [NoScan EXCEPT !.owed = From(want).owed]
  BY DEF EnumerateEnd
<1>2. From(want).owed = {}
  BY <1>1, ScanBegins DEF NoMatch, Matches
<1> QED BY <1>1, <1>2 DEF ScanKept, NoScan

LEMMA ScanNone ==
  ASSUME scan' = NoScan
  PROVE  ScanKept'
BY DEF ScanKept, NoScan

LEMMA ScanStaysKept ==
  ASSUME IInv, IsInjective(order), ScanKept, [Next]_vars
  PROVE  ScanKept'
<1> USE DEF memory
<1>1. CASE Open \/ LoadEnd \/ Delete \/ Commit \/ CommitFails \/ UNCHANGED vars
  <2>1. UNCHANGED <<order, held, scan>>
    BY <1>1 DEF Open, LoadEnd, Delete, Commit, CommitFails, vars
  <2> QED BY <2>1, ScanGrows
<1>2. CASE LoadToken
  <2>1. PICK t : held' = [held EXCEPT ![TokenId] = @ \cup {t}] /\ Insert(TokenId)
    BY <1>2, TokenHeld DEF TokenTag
  <2>2. TokenId \in Ids /\ held \in [Ids -> SUBSET Tags]
    BY <1>2, LoadPlace DEF IInv, MemoryOK, TokenId
  <2>3. \A id \in Ids : held[id] \subseteq held'[id]
    BY <2>1, <2>2
  <2>4. UNCHANGED scan
    BY <1>2 DEF LoadToken
  <2> QED BY <2>1, <2>2, <2>3, <2>4, ScanGrows
<1>3. CASE LoadFails \/ Crash \/ Close \/ CommitCrashes
  <2>1. scan' = NoScan
    BY <1>3 DEF LoadFails, Crash, Close, CommitCrashes, Forgotten
  <2> QED BY <2>1, ScanNone
<1>4. CASE \E t \in 1 .. Len(counts) + 1, name \in Names : Add(t, name) \/ AddFails(t, name)
  <2>1. UNCHANGED <<order, held, scan>>
    BY <1>4 DEF Add, AddFails
  <2> QED BY <2>1, ScanGrows
<1>5. CASE \E name \in Names : AddAborts(name)
  <2>1. UNCHANGED <<order, held, scan>>
    BY <1>5 DEF AddAborts
  <2> QED BY <2>1, ScanGrows
<1>6. CASE \E t \in Tags, name \in Names : Rename(t, name)
  <2>1. UNCHANGED <<order, held, scan>>
    BY <1>6 DEF Rename
  <2> QED BY <2>1, ScanGrows
<1>7. ASSUME NEW id \in Ids, NEW t \in Tags, TagId(id, t)
      PROVE  ScanKept'
  <2>1. /\ held' = [held EXCEPT ![id] = @ \cup {t}]
        /\ Insert(id) /\ UNCHANGED scan
    BY <1>7 DEF TagId
  <2>2. \A i \in Ids : held[i] \subseteq held'[i]
    BY <2>1 DEF IInv, MemoryOK
  <2> QED BY <2>1, <2>2, ScanGrows
<1>8. ASSUME NEW id \in Ids, NEW t \in Tags, TagIdFails(id, t)
      PROVE  ScanKept'
  <2>1. UNCHANGED <<order, held, scan>>
    BY <1>8 DEF TagIdFails
  <2> QED BY <2>1, ScanGrows
<1>9. ASSUME NEW id \in Ids, NEW t \in Tags, UntagId(id, t)
      PROVE  ScanKept'
  BY <1>9, ScanUntags DEF UntagId
<1>10. CASE \E id \in Ids : Forget(id)
  BY <1>10, ScanNone DEF Forget
<1>11. ASSUME NEW want \in SUBSET Tags, EnumerateEnd(want)
       PROVE  ScanKept'
  BY <1>11, ScanEnds
<1>12. ASSUME NEW want \in SUBSET Tags, NEW p \in DOMAIN order, EnumerateNext(want, p)
       PROVE  ScanKept'
  BY <1>12, ScanNext
<1>13. CASE \E t \in Tags : RemoveBegin(t)
  <2>1. UNCHANGED <<order, held, scan>>
    BY <1>13 DEF RemoveBegin
  <2> QED BY <2>1, ScanGrows
<1>14. ASSUME NEW p \in DOMAIN order, RemoveUntag(p)
       PROVE  ScanKept'
  <2>1. order[p] \in Ids
    BY LenProperties, ElementOfSeq DEF IInv, MemoryOK
  <2> QED BY <1>14, <2>1, ScanUntags DEF RemoveUntag
<1>15. CASE RemoveEnd
  <2>1. UNCHANGED <<order, held>> /\ scan' \in {scan, NoScan}
    BY <1>15 DEF RemoveEnd
  <2> QED BY <2>1, ScanGrows, ScanNone
<1> QED
  BY <1>1, <1>2, <1>3, <1>4, <1>5, <1>6, <1>7, <1>8, <1>9, <1>10, <1>11, <1>12, <1>13,
     <1>14, <1>15 DEF Next

-----------------------------------------------------------------------------

LEMMA InitRelation == Init => IInv /\ RInv
<1> SUFFICES ASSUME Init PROVE RInv
  BY InitInvariant
<1>1. file.lines = <<>> /\ DOMAIN file.lines = {}
  BY DEF Init, NoFile
<1> QED BY <1>1 DEF Init, RInv, IsInjective, FileDistinct, LoadKept, ClosedEmpty, ScanKept, NoScan

LEMMA StepRelation == IInv /\ RInv /\ [Next]_vars => IInv' /\ RInv'
<1> SUFFICES ASSUME IInv, RInv, [Next]_vars PROVE RInv'
  BY StepInvariant
<1>1. IsInjective(order') /\ FileDistinct' /\ LoadKept' /\ ClosedEmpty' /\ ScanKept'
  BY OrderDistinct, FileStaysDistinct, LoadStaysKept, ClosedStaysEmpty, ScanStaysKept
     DEF RInv
<1> QED BY <1>1 DEF RInv

\* Both invariants hold in every state.
THEOREM RelationInductive == Spec => [](IInv /\ RInv)
BY InitRelation, StepRelation, PTL DEF Spec

\* An enumeration that has come to its end has given its client every id that
\* had the wanted tags all along (tagdb_enumerate_ids and its relatives, called
\* again with each continuation).
THEOREM Enumerations == Spec => []MissesNone
<1>1. RInv => MissesNone
  BY DEF RInv, ScanKept, MissesNone
<1> QED BY <1>1, RelationInductive, PTL

-----------------------------------------------------------------------------
(* The counts. *)

DriftKept(t) == Drift(t)' = IF t \in Tags /\ Live(t) THEN Drift(t) ELSE 0

LEMMA HoldersFinite ==
  \A t : IsFiniteSet(Holders(t)) /\ Cardinality(Holders(t)) \in Nat
<1> TAKE t
<1>1. Holders(t) \subseteq Ids /\ IsFiniteSet(Ids)
  BY IdAssumption DEF Holders
<1> QED BY <1>1, FS_Subset, FS_CardinalityType

\* A tag that keeps its count and its ids,
SameTag(t) ==
  /\ t \in Tags /\ Live(t)
  /\ counts'[t].count = counts[t].count
  /\ \A id \in Ids : t \in held'[id] <=> t \in held[id]

LEMMA SameDrift ==
  ASSUME NEW t, SameTag(t)
  PROVE  DriftKept(t)
<1>1. Holders(t)' = Holders(t)
  BY DEF Holders, SameTag
<1> QED BY <1>1 DEF DriftKept, Drift, SameTag

\* that is given to an id that does not have it, and counted,
LEMMA GivenDrift ==
  ASSUME IInv, NEW t \in Tags, Live(t), NEW id \in Ids, t \notin held[id],
         held' = [held EXCEPT ![id] = @ \cup {t}],
         counts'[t].count = counts[t].count + 1
  PROVE  DriftKept(t)
<1>1. counts[t].count \in Int
  BY TagNumbers DEF IInv, Entry
<1>2. Holders(t)' = Holders(t) \cup {id} /\ id \notin Holders(t)
  BY DEF Holders, IInv, MemoryOK
<1>3. Cardinality(Holders(t)') = Cardinality(Holders(t)) + 1
  BY <1>2, HoldersFinite, FS_AddElement
<1>4. Cardinality(Holders(t)) \in Nat
  BY HoldersFinite
<1>5. Drift(t)' = Drift(t)
  BY <1>1, <1>3, <1>4 DEF Drift
<1> QED BY <1>5 DEF DriftKept

\* that is taken from an id that has it,
LEMMA TakenDrift ==
  ASSUME IInv, NEW t \in Tags, Live(t), NEW id \in Ids, t \in held[id],
         held' = [held EXCEPT ![id] = @ \ {t}],
         counts'[t].count = counts[t].count - 1
  PROVE  DriftKept(t)
<1>1. counts[t].count \in Int
  BY TagNumbers DEF IInv, Entry
<1>2. Holders(t)' = Holders(t) \ {id} /\ id \in Holders(t)
  BY DEF Holders, IInv, MemoryOK
<1>3. Cardinality(Holders(t)') = Cardinality(Holders(t)) - 1
  BY <1>2, HoldersFinite, FS_RemoveElement
<1>4. Cardinality(Holders(t)) \in Nat
  BY HoldersFinite
<1>5. Drift(t)' = Drift(t)
  BY <1>1, <1>3, <1>4 DEF Drift
<1> QED BY <1>5 DEF DriftKept

\* or that is new, with a count of the ids it is given to: all keep the error.
LEMMA NewDrift ==
  ASSUME NEW t, ~ (t \in Tags /\ Live(t)), NEW H \in SUBSET Ids,
         H = {id \in Ids : t \in held'[id]},
         \/ H = {} /\ counts'[t].count = 0
         \/ counts'[t].count = 1 /\ \E id : H = {id}
  PROVE  DriftKept(t)
<1>1. Holders(t)' = H
  BY DEF Holders
<1>2. Cardinality(H) = counts'[t].count /\ counts'[t].count \in Int
  <2>1. CASE H = {} /\ counts'[t].count = 0
    BY <2>1, FS_EmptySet
  <2>2. CASE counts'[t].count = 1 /\ \E id : H = {id}
    <3>1. Cardinality(H) = 1
      BY <2>2, FS_Singleton
    <3> QED BY <2>2, <3>1
  <2> QED BY <2>1, <2>2
<1>3. Drift(t)' = 0
  BY <1>1, <1>2 DEF Drift
<1> QED BY <1>3 DEF DriftKept

\* A tag that is not there has no ids.
LEMMA NoHolders ==
  ASSUME IInv, NEW t, ~ (t \in Tags /\ Live(t))
  PROVE  \A id \in Ids : t \notin held[id]
BY DEF IInv, MemoryOK, LiveBitsOnly

\* A step that leaves counts and bits alone.
LEMMA UncountedDrift ==
  ASSUME UNCHANGED <<counts, held>>, NEW t \in DOMAIN counts', counts'[t].name # None
  PROVE  DriftKept(t)
<1>1. SameTag(t)
  BY DEF SameTag, Tags, Live
<1> QED BY <1>1, SameDrift

LEMMA LoadTokenDrift ==
  ASSUME IInv, FileDistinct, LoadKept, LoadToken,
         NEW t \in DOMAIN counts', counts'[t].name # None
  PROVE  DriftKept(t)
<1>1. PICK u \in Tags' : TokenTag(u)
  BY TokenHeld
<1>2. /\ TokenId \in Ids /\ TokenName \in Names
      /\ held \in [Ids -> SUBSET Tags] /\ pc = "load"
  BY LoadPlace DEF IInv, MemoryOK, TokenId, TokenName, LoadToken
<1>3. \A id \in Ids : held'[id] = IF id = TokenId THEN held[id] \cup {u} ELSE held[id]
  BY <1>1, <1>2 DEF TokenTag
<1>4. CASE t # u
  <2>1. t \in Tags /\ counts'[t] = counts[t]
    BY <1>1, <1>4 DEF TokenTag, Tags
  <2>2. SameTag(t)
    BY <1>3, <1>4, <2>1 DEF SameTag, Live
  <2> QED BY <2>2, SameDrift
<1>5. CASE t = u /\ ~ (u \in Tags /\ Live(u))
  <2>1. counts'[t].count = 1
    BY <1>1, <1>5 DEF TokenTag
  <2>2. {id \in Ids : t \in held'[id]} = {TokenId}
    BY <1>2, <1>3, <1>5, NoHolders
  <2> QED BY <1>2, <1>5, <2>1, <2>2, NewDrift
<1>6. CASE t = u /\ u \in Tags /\ Live(u)
  <2>1. counts'[t].count = counts[t].count + 1 /\ counts[t].name = TokenName
        /\ held' = [held EXCEPT ![TokenId] = @ \cup {t}]
    BY <1>1, <1>6 DEF TokenTag
  <2>2. ~ IsReadName(TokenId, TokenName)
    <3>1. ASSUME NEW l \in DOMAIN file.lines, file.lines[l].id = TokenId,
                 NEW k \in DOMAIN file.lines[l].names,
                 file.lines[l].names[k] = TokenName, IsRead(l, k)
          PROVE  FALSE
      <4>1. at.line \in DOMAIN file.lines
        BY DEF LoadToken
      <4>2. at.token \in DOMAIN file.lines[at.line].names
        BY <1>2, <4>1, FileNumbers DEF IInv, CallOK, LoadProgress
      <4>3. l = at.line
        BY <3>1, <4>1 DEF FileDistinct, TokenId
      <4>4. k = at.token
        BY <3>1, <4>1, <4>2, <4>3 DEF FileDistinct, TokenName, IsInjective
      <4>5. at.line \in Nat /\ at.token \in Nat
        BY <1>2 DEF IInv, CallOK, LoadProgress
      <4> QED BY <3>1, <4>3, <4>4, <4>5 DEF IsRead
    <3> QED BY <3>1 DEF IsReadName
  <2>3. ~ HasName(TokenId, TokenName)
    BY <1>2, <2>2 DEF LoadKept
  <2>4. t \notin held[TokenId]
    BY <2>1, <2>3 DEF HasName
  <2> QED BY <1>2, <1>6, <2>1, <2>4, GivenDrift
<1> QED BY <1>4, <1>5, <1>6

LEMMA AddDrift ==
  ASSUME IInv, NEW t \in 1 .. Len(counts) + 1, NEW name \in Names, Add(t, name),
         NEW u \in DOMAIN counts', counts'[u].name # None
  PROVE  DriftKept(u)
<1>1. AddNew(t, name, 0) /\ UNCHANGED held
  BY DEF Add
<1>2. /\ Tags' = Tags \cup {t}
      /\ t \in Tags => ~ Live(t)
      /\ counts'[t] = [name |-> name, count |-> 0]
      /\ \A v \in Tags : v # t => counts'[v] = counts[v]
  BY <1>1, NewTagEntry DEF IInv
<1>3. CASE u = t
  <2>1. counts'[u].count = 0
    BY <1>2, <1>3
  <2>2. {id \in Ids : u \in held'[id]} = {}
    BY <1>1, <1>2, <1>3, NoHolders
  <2> QED BY <1>2, <1>3, <2>1, <2>2, NewDrift
<1>4. CASE u # t
  <2>1. u \in Tags /\ counts'[u] = counts[u]
    BY <1>2, <1>4 DEF Tags
  <2>2. SameTag(u)
    BY <1>1, <2>1 DEF SameTag, Live
  <2> QED BY <2>2, SameDrift
<1> QED BY <1>3, <1>4

\* Entries but one stay, and so do all bits of the others.
LEMMA OthersDrift ==
  ASSUME IInv, NEW t, NEW u \in DOMAIN counts', counts'[u].name # None, u # t,
         \E e : counts' = [counts EXCEPT ![t] = e],
         \A id \in Ids : u \in held'[id] <=> u \in held[id]
  PROVE  DriftKept(u)
<1>1. u \in Tags /\ counts'[u] = counts[u]
  BY DEF Tags
<1>2. SameTag(u)
  BY <1>1 DEF SameTag, Live
<1> QED BY <1>2, SameDrift

DriftStep(t) ==
  \/ DriftKept(t)
  \/ \E id \in Ids : UntagId(id, t) /\ t \notin held[id]
  \/ \E id \in Ids : Forget(id) /\ t \in held[id]
  \/ \E id \in Ids : TagIdFails(id, t)

\* A tag whose bit is cleared.
LEMMA UntaggedDrift ==
  ASSUME IInv, NEW id \in Ids, NEW t \in Tags, Live(t), t \in held[id], Untagged(id, t),
         NEW u \in DOMAIN counts', counts'[u].name # None
  PROVE  DriftKept(u)
<1>1. /\ held' = [held EXCEPT ![id] = @ \ {t}]
      /\ counts' = [counts EXCEPT ![t].count = @ - 1]
  BY DEF Untagged
<1>2. CASE u = t
  <2>1. counts[t] \in Entry
    BY TagNumbers DEF IInv
  <2>2. counts'[t].count = counts[t].count - 1
    BY <1>1, <2>1 DEF Tags, Entry
  <2> QED BY <1>1, <1>2, <2>2, TakenDrift
<1>3. CASE u # t
  <2>1. \A i \in Ids : u \in held'[i] <=> u \in held[i]
    BY <1>1, <1>3 DEF IInv, MemoryOK
  <2>2. \E e : counts' = [counts EXCEPT ![t] = e]
    BY <1>1
  <2> QED BY <1>3, <2>1, <2>2, OthersDrift
<1> QED BY <1>2, <1>3

LEMMA StepDrift ==
  ASSUME IInv, RInv, Next, NEW u \in DOMAIN counts', counts'[u].name # None
  PROVE  DriftStep(u)
<1> USE DEF memory, DriftStep
<1>1. CASE Open \/ LoadEnd \/ Delete \/ Commit \/ CommitFails
  <2>1. UNCHANGED <<counts, held>>
    BY <1>1 DEF Open, LoadEnd, Delete, Commit, CommitFails
  <2> QED BY <2>1, UncountedDrift
<1>2. CASE LoadToken
  BY <1>2, LoadTokenDrift DEF RInv
<1>3. CASE LoadFails \/ Crash \/ Close \/ CommitCrashes
  <2>1. DOMAIN counts' = {}
    BY <1>3 DEF LoadFails, Crash, Close, CommitCrashes, Forgotten
  <2> QED BY <2>1
<1>4. ASSUME NEW t \in 1 .. Len(counts) + 1, NEW name \in Names, Add(t, name)
      PROVE  DriftStep(u)
  BY <1>4, AddDrift
<1>5. CASE \/ \E t, name : AddFails(t, name)
           \/ \E name : AddAborts(name)
           \/ \E want : EnumerateEnd(want) \/ \E p : EnumerateNext(want, p)
           \/ \E t : RemoveBegin(t)
  <2>1. UNCHANGED <<counts, held>>
    BY <1>5 DEF AddFails, AddAborts, EnumerateEnd, EnumerateNext, RemoveBegin
  <2> QED BY <2>1, UncountedDrift
<1>6. ASSUME NEW t \in Tags, NEW name \in Names, Rename(t, name)
      PROVE  DriftStep(u)
  <2>1. counts' = [counts EXCEPT ![t].name = name] /\ held' = held /\ Live(t)
    BY <1>6 DEF Rename
  <2>2. \A v \in Tags : counts[v] \in Entry
    BY TagNumbers DEF IInv
  <2>3. u \in Tags /\ counts'[u].count = counts[u].count
    BY <2>1, <2>2 DEF Tags, Entry
  <2>4. Live(u)
    BY <2>1, <2>3 DEF Live, Tags
  <2>5. SameTag(u)
    BY <2>1, <2>3, <2>4 DEF SameTag
  <2> QED BY <2>5, SameDrift
<1>7. ASSUME NEW id \in Ids, NEW t \in Tags, TagId(id, t)
      PROVE  DriftStep(u)
  <2>1. /\ Live(t) /\ t \notin held[id]
        /\ held' = [held EXCEPT ![id] = @ \cup {t}]
        /\ counts' = [counts EXCEPT ![t].count = @ + 1]
    BY <1>7 DEF TagId
  <2>2. CASE u = t
    <3>1. counts[t] \in Entry
      BY TagNumbers DEF IInv
    <3>2. counts'[t].count = counts[t].count + 1
      BY <2>1, <3>1 DEF Tags, Entry
    <3> QED BY <2>1, <2>2, <3>2, GivenDrift
  <2>3. CASE u # t
    <3>1. \A i \in Ids : u \in held'[i] <=> u \in held[i]
      BY <2>1, <2>3 DEF IInv, MemoryOK
    <3>2. \E e : counts' = [counts EXCEPT ![t] = e]
      BY <2>1
    <3> QED BY <2>3, <3>1, <3>2, OthersDrift
  <2> QED BY <2>2, <2>3
<1>8. ASSUME NEW id \in Ids, NEW t \in Tags, TagIdFails(id, t)
      PROVE  DriftStep(u)
  <2>1. held' = held /\ \E e : counts' = [counts EXCEPT ![t] = e]
    BY <1>8 DEF TagIdFails
  <2>2. CASE u = t
    BY <1>8, <2>2
  <2>3. CASE u # t
    BY <2>1, <2>3, OthersDrift
  <2> QED BY <2>2, <2>3
<1>9. ASSUME NEW id \in Ids, NEW t \in Tags, UntagId(id, t)
      PROVE  DriftStep(u)
  <2>1. Live(t) /\ Untagged(id, t)
    BY <1>9 DEF UntagId
  <2>2. CASE t \in held[id]
    BY <2>1, <2>2, UntaggedDrift
  <2>3. CASE t \notin held[id] /\ u = t
    BY <1>9, <2>3
  <2>4. CASE t \notin held[id] /\ u # t
    <3>1. held' = [held EXCEPT ![id] = @ \ {t}] /\ \E e : counts' = [counts EXCEPT ![t] = e]
      BY <2>1 DEF Untagged
    <3>2. \A i \in Ids : u \in held'[i] <=> u \in held[i]
      BY <2>4, <3>1 DEF IInv, MemoryOK
    <3> QED BY <2>4, <3>1, <3>2, OthersDrift
  <2> QED BY <2>2, <2>3, <2>4
<1>10. ASSUME NEW id \in Ids, Forget(id)
       PROVE  DriftStep(u)
  <2>1. held' = [held EXCEPT ![id] = {}] /\ counts' = counts
    BY <1>10 DEF Forget
  <2>2. CASE u \in held[id]
    BY <1>10, <2>2
  <2>3. CASE u \notin held[id]
    <3>1. \A i \in Ids : u \in held'[i] <=> u \in held[i]
      BY <2>1, <2>3 DEF IInv, MemoryOK
    <3>2. SameTag(u)
      BY <2>1, <3>1 DEF SameTag, Tags, Live
    <3> QED BY <3>2, SameDrift
  <2> QED BY <2>2, <2>3
<1>11. ASSUME NEW p \in DOMAIN order, RemoveUntag(p)
       PROVE  DriftStep(u)
  <2>1. /\ order[p] \in Ids /\ at.tag \in Tags /\ Live(at.tag)
        /\ at.tag \in held[order[p]] /\ Untagged(order[p], at.tag)
    BY <1>11, LenProperties, ElementOfSeq
       DEF RemoveUntag, NextMatch, Matches, IInv, MemoryOK, CallOK, RemoveProgress
  <2> QED BY <2>1, UntaggedDrift
<1>12. CASE RemoveEnd
  <2>1. /\ held' = held /\ at.tag \in Tags
        /\ counts' = [counts EXCEPT ![at.tag] = [name |-> None, count |-> 0]]
    BY <1>12 DEF RemoveEnd, IInv, CallOK, RemoveProgress
  <2>2. u # at.tag
    BY <2>1 DEF Tags
  <2> QED BY <2>1, <2>2, OthersDrift
<1> QED
  BY <1>1, <1>2, <1>3, <1>4, <1>5, <1>6, <1>7, <1>8, <1>9, <1>10, <1>11, <1>12 DEF Next

\* A tag's count differs from the number of its ids by as much as before, after
\* every step but three: one that takes it from an id that does not have it,
\* one that forgets an id that has it, and one in which memory ran out
\* (tagdb_untagid, tagdb_forget, tagdb_tagid).
THEOREM CountsDrift == Spec => CountsDriftOnly
<1>1. IInv /\ RInv /\ [Next]_vars =>
        [\A t \in DOMAIN counts' : counts'[t].name # None =>
           \/ Drift(t)' = IF t \in Tags /\ Live(t) THEN Drift(t) ELSE 0
           \/ \E id \in Ids : UntagId(id, t) /\ t \notin held[id]
           \/ \E id \in Ids : Forget(id) /\ t \in held[id]
           \/ \E id \in Ids : TagIdFails(id, t)]_vars
  BY StepDrift DEF DriftStep, DriftKept
<1> QED BY <1>1, RelationInductive, PTL DEF Spec, CountsDriftOnly

-----------------------------------------------------------------------------
(* The relation that the tags and bits stand for. *)

LiveTags == {t \in Tags : Live(t)}

\* While the database is not open there is nothing in it; while it is idle,
\* there is what the entries and the bits say; tagdb_remove's tag is gone.
LEMMA DownMap ==
  ASSUME ~ Up
  PROVE  DOMAIN TagNames = {} /\ TagNames = [t \in {} |-> {}] /\ Holding = Relation!Nothing
BY DEF TagNames, Holding, Relation!Nothing

LEMMA DownMapNext ==
  ASSUME ~ Up'
  PROVE  /\ DOMAIN TagNames' = {} /\ TagNames' = [t \in {} |-> {}]
         /\ Holding' = Relation!Nothing
BY DEF TagNames, Holding, Relation!Nothing

\* TagRelation's sizes of sets are the ones here.
LEMMA Sizes == \A S : Relation!Cardinality(S) = Cardinality(S)
BY DEF Relation!Cardinality, Cardinality

LEMMA IdleMap ==
  ASSUME IInv, pc = "idle"
  PROVE  Up /\ TagNames = [t \in LiveTags |-> counts[t].name] /\ Holding = held
<1>1. Up /\ Going = {}
  BY DEF Up, Going
<1>2. held \in [Ids -> SUBSET Tags]
  BY DEF IInv, MemoryOK
<1> QED BY <1>1, <1>2 DEF TagNames, Holding, LiveTags

LEMMA IdleMapNext ==
  ASSUME IInv', pc' = "idle"
  PROVE  Up' /\ TagNames' = [t \in LiveTags' |-> counts'[t].name] /\ Holding' = held'
<1>1. Up' /\ Going' = {}
  BY DEF Up, Going
<1>2. held' \in [Ids -> SUBSET Tags']
  BY DEF IInv, MemoryOK
<1> QED BY <1>1, <1>2 DEF TagNames, Holding, LiveTags

SameRelation ==
  /\ Up' = Up
  /\ TagNames' = TagNames
  /\ Holding' = Holding
  /\ Saved' = Saved
  /\ (~ file.cut)' = ~ file.cut

LEMMA Unchanged ==
  ASSUME SameRelation PROVE Relation!vars' = Relation!vars
BY DEF SameRelation, Relation!vars

LEMMA SavedUnchanged ==
  ASSUME file' = file PROVE Saved' = Saved /\ (~ file.cut)' = ~ file.cut
BY DEF Saved, LinesOf

\* The calls that change nothing a client can see.
LEMMA DownSame ==
  ASSUME ~ Up, ~ Up', file' = file
  PROVE  SameRelation
BY DownMap, DownMapNext, SavedUnchanged DEF SameRelation, Up

LEMMA IdleSame ==
  ASSUME IInv, IInv', pc = "idle", pc' = "idle", file' = file, held' = held,
         LiveTags' = LiveTags, \A t \in LiveTags : counts'[t].name = counts[t].name
  PROVE  SameRelation
BY IdleMap, IdleMapNext, SavedUnchanged DEF SameRelation

\* The process is gone.
LEMMA CrashStep ==
  ASSUME Up, ~ Up', file' = file
  PROVE  Relation!Crash
<1>1. Up' = FALSE
  BY DEF Up
<1> QED BY <1>1, DownMapNext, SavedUnchanged DEF Relation!Crash, Relation!Gone

-----------------------------------------------------------------------------
(* The operations on tags and ids. *)

\* A live tag's name is one of the abstract names, and the other way about.
LEMMA IdleNames ==
  ASSUME IInv, pc = "idle"
  PROVE  Relation!NameSet = {counts[t].name : t \in LiveTags} /\ Relation!NameSet \subseteq atoms
<1>1. Relation!NameSet = {counts[t].name : t \in LiveTags}
  BY IdleMap DEF Relation!NameSet
<1>2. \A t \in LiveTags : counts[t].name \in atoms
  BY DEF LiveTags, IInv, MemoryOK, NamesUnique
<1> QED BY <1>1, <1>2

LEMMA AddStep ==
  ASSUME IInv, IInv', NEW t \in 1 .. Len(counts) + 1, NEW name \in Names, Add(t, name)
  PROVE  Relation!Add(name)
<1>1. /\ AddNew(t, name, 0) /\ held' = held /\ file' = file /\ pc = "idle" /\ pc' = "idle"
      /\ name \notin atoms
  BY DEF Add, AddNew
<1>2. /\ Tags' = Tags \cup {t}
      /\ t \in Tags => ~ Live(t)
      /\ counts'[t] = [name |-> name, count |-> 0]
      /\ \A u \in Tags : u # t => counts'[u] = counts[u]
  BY <1>1, NewTagEntry DEF IInv
<1>3. name # None
  BY NameAssumption
<1>4. t \notin LiveTags /\ LiveTags' = LiveTags \cup {t}
  BY <1>2, <1>3 DEF LiveTags, Live
<1>5. \A u \in LiveTags' : counts'[u].name = IF u = t THEN name ELSE counts[u].name
  BY <1>2, <1>4 DEF LiveTags
<1>6. Up /\ Up' /\ DOMAIN TagNames = LiveTags /\ DOMAIN TagNames' = LiveTags'
  BY <1>1, IdleMap, IdleMapNext
<1>7. TagNames' = [u \in DOMAIN TagNames \cup {t} |-> IF u = t THEN name ELSE TagNames[u]]
  BY <1>1, <1>4, <1>5, IdleMap, IdleMapNext
<1>8. name \notin Relation!NameSet
  BY <1>1, IdleNames
<1>9. Up' = Up /\ Holding' = Holding /\ Saved' = Saved /\ (~ file.cut)' = ~ file.cut
  BY <1>1, IdleMap, IdleMapNext, SavedUnchanged DEF Up
<1> QED BY <1>4, <1>6, <1>7, <1>8, <1>9 DEF Relation!Add

LEMMA RenameStep ==
  ASSUME IInv, IInv', NEW t \in Tags, NEW name \in Names, Rename(t, name)
  PROVE  t \in DOMAIN TagNames /\ Relation!Rename(t, name)
<1>1. /\ counts' = [counts EXCEPT ![t].name = name] /\ Live(t) /\ name \notin atoms
      /\ held' = held /\ file' = file /\ pc = "idle" /\ pc' = "idle"
  BY DEF Rename
<1>2. name # None
  BY NameAssumption
<1>3. /\ Tags' = Tags
      /\ \A u \in Tags : counts'[u].name = IF u = t THEN name ELSE counts[u].name
  <2>1. \A u \in Tags : counts[u] \in Entry
    BY TagNumbers DEF IInv
  <2> QED BY <1>1, <2>1 DEF Tags, Entry
<1>4. t \in LiveTags /\ LiveTags' = LiveTags
  BY <1>1, <1>2, <1>3 DEF LiveTags, Live
<1>5. \A u \in LiveTags : counts'[u].name = IF u = t THEN name ELSE counts[u].name
  BY <1>3 DEF LiveTags
<1>6. TagNames' = [TagNames EXCEPT ![t] = name]
  BY <1>1, <1>4, <1>5, IdleMap, IdleMapNext
<1>7. name \notin Relation!NameSet
  BY <1>1, IdleNames
<1>8. Up /\ Up' = Up /\ Holding' = Holding /\ Saved' = Saved /\ (~ file.cut)' = ~ file.cut
  BY <1>1, IdleMap, IdleMapNext, SavedUnchanged DEF Up
<1>9. DOMAIN TagNames = LiveTags
  BY <1>1, IdleMap
<1> QED BY <1>4, <1>6, <1>7, <1>8, <1>9 DEF Relation!Rename

\* Bits are set or cleared, and the entries keep their names.
LEMMA BitsStep ==
  ASSUME IInv, IInv', pc = "idle", pc' = "idle", file' = file,
         Tags' = Tags, \A t \in Tags : counts'[t].name = counts[t].name
  PROVE  /\ Up /\ Up' = Up /\ TagNames' = TagNames /\ Saved' = Saved
         /\ (~ file.cut)' = ~ file.cut
         /\ Holding = held /\ Holding' = held'
         /\ DOMAIN TagNames = LiveTags
<1>1. LiveTags' = LiveTags /\ \A t \in LiveTags : counts'[t].name = counts[t].name
  BY DEF LiveTags, Live
<1> QED BY <1>1, IdleMap, IdleMapNext, SavedUnchanged DEF Up

LEMMA TagStep ==
  ASSUME IInv, IInv', NEW id \in Ids, NEW t \in Tags, TagId(id, t)
  PROVE  t \in DOMAIN TagNames /\ Relation!Tag(id, t)
<1>1. /\ pc = "idle" /\ pc' = "idle" /\ file' = file /\ Live(t)
      /\ held' = [held EXCEPT ![id] = @ \cup {t}]
      /\ counts' = [counts EXCEPT ![t].count = @ + 1]
  BY DEF TagId
<1>2. Renumbered
  BY <1>1, Renumbering DEF IInv
<1> QED BY <1>1, <1>2, BitsStep DEF Renumbered, Relation!Tag, LiveTags

LEMMA UntagStep ==
  ASSUME IInv, IInv', NEW id \in Ids, NEW t \in Tags, UntagId(id, t)
  PROVE  t \in DOMAIN TagNames /\ Relation!Untag(id, t)
<1>1. /\ pc = "idle" /\ pc' = "idle" /\ file' = file /\ Live(t)
      /\ held' = [held EXCEPT ![id] = @ \ {t}]
      /\ counts' = [counts EXCEPT ![t].count = @ - 1]
  BY DEF UntagId, Untagged
<1>2. Renumbered
  BY <1>1, Renumbering DEF IInv
<1> QED BY <1>1, <1>2, BitsStep DEF Renumbered, Relation!Untag, LiveTags

LEMMA ForgetStep ==
  ASSUME IInv, IInv', NEW id \in Ids, Forget(id)
  PROVE  Relation!Forget(id)
<1>1. /\ pc = "idle" /\ pc' = "idle" /\ file' = file
      /\ held' = [held EXCEPT ![id] = {}] /\ counts' = counts
  BY DEF Forget
<1>2. Tags' = Tags /\ \A t \in Tags : counts'[t].name = counts[t].name
  BY <1>1 DEF Tags
<1> QED BY <1>1, <1>2, BitsStep DEF Relation!Forget

-----------------------------------------------------------------------------
(* tagdb_remove: the tag is gone from the moment it begins. *)

LEMMA RemoveMap ==
  ASSUME pc = "remove"
  PROVE  /\ Up
         /\ TagNames = [t \in LiveTags \ {at.tag} |-> counts[t].name]
         /\ Holding = [id \in Ids |-> held[id] \ {at.tag}]
BY DEF Up, Going, TagNames, Holding, LiveTags

LEMMA RemoveMapNext ==
  ASSUME pc' = "remove"
  PROVE  /\ Up'
         /\ TagNames' = [t \in LiveTags' \ {at'.tag} |-> counts'[t].name]
         /\ Holding' = [id \in Ids |-> held'[id] \ {at'.tag}]
BY DEF Up, Going, TagNames, Holding, LiveTags

LEMMA RemoveBeginStep ==
  ASSUME IInv, NEW t \in Tags, RemoveBegin(t)
  PROVE  t \in DOMAIN TagNames /\ Relation!Remove(t)
<1>1. /\ pc = "idle" /\ pc' = "remove" /\ at'.tag = t /\ Live(t)
      /\ UNCHANGED <<counts, held, file>>
  BY DEF RemoveBegin, memory
<1>2. LiveTags' = LiveTags /\ t \in LiveTags
  BY <1>1 DEF LiveTags, Tags, Live
<1>3. DOMAIN TagNames = LiveTags
  BY <1>1, IdleMap
<1>4. TagNames' = [u \in DOMAIN TagNames \ {t} |-> TagNames[u]]
  BY <1>1, <1>2, IdleMap, RemoveMapNext
<1>5. Holding' = [id \in Ids |-> Holding[id] \ {t}]
  BY <1>1, IdleMap, RemoveMapNext
<1>6. Up /\ Up' = Up /\ Saved' = Saved /\ (~ file.cut)' = ~ file.cut
  BY <1>1, SavedUnchanged DEF Up
<1> QED BY <1>2, <1>3, <1>4, <1>5, <1>6 DEF Relation!Remove

LEMMA RemoveUntagSame ==
  ASSUME IInv, NEW p \in DOMAIN order, RemoveUntag(p)
  PROVE  SameRelation
<1>1. /\ pc = "remove" /\ pc' = "remove" /\ file' = file
      /\ Untagged(order[p], at.tag) /\ at' = [at EXCEPT !.cont = p]
  BY DEF RemoveUntag
<1>2. at \in [tag : Tags, cont : Nat]
  BY <1>1 DEF IInv, CallOK, RemoveProgress
<1>3. at'.tag = at.tag /\ at.tag \in Tags
  BY <1>1, <1>2
<1>4. Renumbered
  BY <1>1, <1>3, Renumbering DEF IInv, Untagged
<1>5. LiveTags' = LiveTags /\ \A t \in LiveTags : counts'[t].name = counts[t].name
  BY <1>4 DEF Renumbered, LiveTags, Live
<1>6. \A id \in Ids : held'[id] \ {at.tag} = held[id] \ {at.tag}
  BY <1>1 DEF Untagged, IInv, MemoryOK
<1>7. TagNames' = TagNames
  BY <1>1, <1>3, <1>5, RemoveMap, RemoveMapNext
<1>8. Holding' = Holding
  BY <1>1, <1>3, <1>6, RemoveMap, RemoveMapNext
<1> QED BY <1>1, <1>7, <1>8, SavedUnchanged DEF SameRelation, Up

LEMMA RemoveEndSame ==
  ASSUME IInv, IInv', RemoveEnd
  PROVE  SameRelation
<1>1. /\ pc = "remove" /\ pc' = "idle" /\ file' = file /\ held' = held
      /\ counts' = [counts EXCEPT ![at.tag] = [name |-> None, count |-> 0]]
  BY DEF RemoveEnd
<1>2. at.tag \in Tags
  BY <1>1 DEF IInv, CallOK, RemoveProgress
<1>3. /\ LiveTags' = LiveTags \ {at.tag}
      /\ \A t \in LiveTags' : counts'[t].name = counts[t].name
  BY <1>1, <1>2 DEF LiveTags, Live, Tags
<1>4. \A id \in Ids : held'[id] = held[id] \ {at.tag}
  <2>1. \A id \in Ids : \A t \in held'[id] : t \in LiveTags'
    BY DEF IInv, MemoryOK, LiveBitsOnly, LiveTags
  <2> QED BY <1>1, <1>3, <2>1
<1>5. TagNames' = TagNames
  BY <1>1, <1>3, RemoveMap, IdleMapNext
<1>6. Holding' = Holding
  <2>1. held' = [id \in Ids |-> held'[id]]
    BY DEF IInv, MemoryOK
  <2> QED BY <1>1, <1>4, <2>1, RemoveMap, IdleMapNext
<1> QED BY <1>1, <1>5, <1>6, SavedUnchanged DEF SameRelation, Up

-----------------------------------------------------------------------------
(* tagdb_commit and tagdb_close. *)

\* The lines written give back the names of the ids they are for.
LEMMA SavedLines ==
  ASSUME IInv, IsInjective(order), pc = "idle", NEW n \in 0 .. Len(Tagged),
         file'.lines = FirstLines(n)
  PROVE  \E ids \in SUBSET Ids :
           /\ n = Len(Tagged) => ids = Ids
           /\ Saved' = Relation!Kept(ids)
<1> DEFINE written == {Tagged[p] : p \in 1 .. n}
           ids == written \cup {id \in Ids : held[id] = {}}
<1>1. /\ Tagged \in Seq(Ids) /\ Len(Tagged) \in Nat /\ DOMAIN Tagged = 1 .. Len(Tagged)
      /\ Range(Tagged) = {id \in Ids : held[id] # {}}
  BY TaggedIds, TaggedDistinct, LenProperties DEF IInv
<1>2. DOMAIN FirstLines(n) = 1 .. n /\ \A l \in 1 .. n : FirstLines(n)[l] = LineOf(Tagged[l])
  BY DEF FirstLines
<1>3. \A l \in 1 .. n : l \in DOMAIN Tagged /\ Tagged[l] \in Ids
  BY <1>1, ElementOfSeq
<1>4. \A id \in Ids : LinesOf(id)' = {l \in 1 .. n : Tagged[l] = id}
  BY <1>2, <1>3 DEF LinesOf, LineOf
<1>5. \A id \in Ids : Relation!NamesHeld(id) = {counts[t].name : t \in held[id]}
  <2>1. \A id \in Ids : held[id] \subseteq LiveTags
    BY DEF IInv, MemoryOK, LiveBitsOnly, LiveTags
  <2> QED BY <2>1, IdleMap DEF Relation!NamesHeld
<1>6. ASSUME NEW id \in Ids
      PROVE  UNION {Range(FirstLines(n)[l].names) : l \in {m \in 1 .. n : Tagged[m] = id}} =
               IF id \in ids THEN {counts[t].name : t \in held[id]} ELSE {}
  <2> DEFINE L == {m \in 1 .. n : Tagged[m] = id}
             H == {counts[t].name : t \in held[id]}
  <2>1. \A l \in L : Range(FirstLines(n)[l].names) = H
    BY <1>2, LineDistinct DEF IInv
  <2>2. CASE id \in written
    <3>1. L # {}
      BY <2>2
    <3> HIDE DEF L, H
    <3>2. UNION {Range(FirstLines(n)[l].names) : l \in L} = H
      BY <2>1, <3>1
    <3> QED BY <2>2, <3>2 DEF L, H
  <2>3. CASE id \notin written
    <3>1. L = {}
      BY <2>3
    <3>2. held[id] = {} => H = {}
      OBVIOUS
    <3> QED BY <2>3, <3>1, <3>2
  <2> QED BY <2>2, <2>3
<1>7. Saved' = Relation!Kept(ids)
  <2>1. Saved' = [id \in Ids |-> UNION {Range(FirstLines(n)[l].names) : l \in LinesOf(id)'}]
    BY DEF Saved
  <2>2. Relation!Kept(ids) = [id \in Ids |-> IF id \in ids THEN Relation!NamesHeld(id) ELSE {}]
    BY DEF Relation!Kept
  <2> HIDE DEF ids
  <2> QED BY <1>4, <1>5, <1>6, <2>1, <2>2
<1>8. n = Len(Tagged) => ids = Ids
  <2>1. n = Len(Tagged) => written = Range(Tagged)
    BY <1>1 DEF Range
  <2> QED BY <1>1, <1>3, <2>1
<1>9. ids \in SUBSET Ids
  BY <1>3
<1> QED BY <1>7, <1>8, <1>9

LEMMA SaveStep ==
  ASSUME IInv, RInv, pc = "idle", file' \in WrittenFiles
  PROVE  Relation!Save
<1>1. PICK n \in 0 .. Len(Tagged) :
        /\ file' = [lines |-> FirstLines(n), cut |-> FALSE]
        /\ n < Len(Tagged) => ~ Formats(Tagged[n + 1]) \/ MayOverflow(Tagged[n + 1])
  BY DEF WrittenFiles
<1>2. PICK ids \in SUBSET Ids :
        /\ n = Len(Tagged) => ids = Ids
        /\ Saved' = Relation!Kept(ids)
  BY <1>1, SavedLines DEF RInv
<1>3. ASSUME \A id \in Ids : Cardinality(Holding[id]) <= LineMax
      PROVE  n = Len(Tagged)
  <2>1. Tagged \in Seq(Ids) /\ Len(Tagged) \in Nat
    BY TaggedIds, LenProperties DEF IInv
  <2>2. ASSUME n < Len(Tagged) PROVE FALSE
    <3>1. n + 1 \in 1 .. Len(Tagged)
      BY <2>1, <2>2
    <3>2. Tagged[n + 1] \in Ids
      BY <2>1, <3>1, ElementOfSeq
    <3>3. Formats(Tagged[n + 1])
      BY <3>2 DEF Formats, IInv, MemoryOK, LiveBitsOnly
    <3>4. Cardinality(held[Tagged[n + 1]]) <= LineMax
      BY <1>3, <3>2, IdleMap
    <3>5. Cardinality(held[Tagged[n + 1]]) \in Nat /\ LineMax \in Nat
      <4>1. held[Tagged[n + 1]] \subseteq Tags
        BY <3>2 DEF IInv, MemoryOK
      <4>2. IsFiniteSet(held[Tagged[n + 1]])
        BY <4>1, TagNumbers, FS_Subset DEF IInv
      <4> QED BY <4>2, FS_CardinalityType, LimitAssumption
    <3> QED BY <1>1, <2>2, <3>3, <3>4, <3>5 DEF MayOverflow
  <2> QED BY <2>1, <2>2
<1>4. Up /\ (~ file.cut)' = TRUE
  BY <1>1, IdleMap
<1>5. /\ (\A id \in Ids : Cardinality(Holding[id]) <= LineMax) => ids = Ids
      /\ Saved' = Relation!Kept(ids)
  BY <1>2, <1>3
<1> QED BY <1>4, <1>5, Sizes DEF Relation!Save

LEMMA SavePartStep ==
  ASSUME IInv, RInv, pc = "idle", file' \in PartFiles
  PROVE  Relation!SavePart
<1>1. PICK n \in 0 .. Len(Tagged) : file' = [lines |-> FirstLines(n), cut |-> TRUE]
  BY DEF PartFiles
<1>2. \E ids \in SUBSET Ids : Saved' = Relation!Kept(ids)
  BY <1>1, SavedLines DEF RInv
<1>3. Up /\ (~ file.cut)' = FALSE
  BY <1>1, IdleMap
<1> QED BY <1>2, <1>3 DEF Relation!SavePart

LEMMA CommitStep ==
  ASSUME IInv, RInv, IInv', Commit \/ CommitFails
  PROVE  Relation!Commit \/ Relation!CommitFails
<1>1. pc = "idle" /\ pc' = "idle" /\ counts' = counts /\ held' = held
  BY DEF Commit, CommitFails, memory
<1>2. Up' = Up /\ TagNames' = TagNames /\ Holding' = Holding
  <2>1. LiveTags' = LiveTags
    BY <1>1 DEF LiveTags, Tags, Live
  <2> QED BY <1>1, <2>1, IdleMap, IdleMapNext DEF Up
<1> QED BY <1>1, <1>2, SaveStep, SavePartStep
        DEF Commit, CommitFails, Relation!Commit, Relation!CommitFails

LEMMA CloseStep ==
  ASSUME IInv, RInv, Close \/ CommitCrashes
  PROVE  Relation!Close \/ Relation!CommitCrashes
<1>1. pc = "idle" /\ ~ Up' /\ Up' = FALSE
  BY DEF Close, CommitCrashes, Up
<1>2. Relation!Gone
  BY <1>1, DownMapNext DEF Relation!Gone
<1> QED BY <1>1, <1>2, SaveStep, SavePartStep
        DEF Close, CommitCrashes, Relation!Close, Relation!CommitCrashes

-----------------------------------------------------------------------------
(* tagdb_open. *)

\* As many elements as were read, if no two are the same.
LEMMA ImageSize ==
  ASSUME NEW S, NEW F \in Seq(S), IsInjective(F), NEW j \in 0 .. Len(F)
  PROVE  Cardinality({F[k] : k \in 1 .. j}) = j
<1> DEFINE T == {F[k] : k \in 1 .. j}
           f == [k \in 1 .. j |-> F[k]]
<1>1. j \in Nat /\ DOMAIN F = 1 .. Len(F) /\ Len(F) \in Nat
  BY LenProperties
<1>2. \A k \in 1 .. j : k \in DOMAIN F
  BY <1>1
<1>3. f \in Bijection(1 .. j, T)
  <2>1. f \in [1 .. j -> T]
    OBVIOUS
  <2>2. \A a, b \in 1 .. j : f[a] = f[b] => a = b
    BY <1>2 DEF IsInjective
  <2>3. \A x \in T : \E k \in 1 .. j : f[k] = x
    OBVIOUS
  <2> QED BY <2>1, <2>2, <2>3 DEF Bijection, Injection, Surjection, IsInjective
<1>4. IsFiniteSet(1 .. j) /\ Cardinality(1 .. j) = j
  BY <1>1, FS_Interval
<1> QED BY <1>3, <1>4, FS_Bijection DEF ExistsBijection

\* Once the last line has been read, everything that is read from a line has
\* been: its first TokenMax names.
LEMMA AllRead ==
  ASSUME IInv, RInv, LoadEnd, NEW id \in Ids, NEW name
  PROVE  HasName(id, name) <=>
           \E l \in LinesOf(id) : \E k \in DOMAIN file.lines[l].names :
             k <= TokenMax /\ file.lines[l].names[k] = name
<1>1. /\ pc = "load" /\ at.line \notin DOMAIN file.lines
      /\ at.line \in Nat /\ at.line > 0
  BY DEF LoadEnd, IInv, CallOK, LoadProgress
<1>2. file.lines \in Seq(Line)
  BY DEF IInv, FileOK
<1>3. \A l \in DOMAIN file.lines : l \in Nat /\ l < at.line
  BY <1>1, <1>2, LenProperties
<1>4. \A l \in DOMAIN file.lines : \A k : IsRead(l, k) <=> k <= TokenMax
  BY <1>3, <1>1 DEF IsRead
<1>5. IsReadName(id, name) <=>
        \E l \in LinesOf(id) : \E k \in DOMAIN file.lines[l].names :
          k <= TokenMax /\ file.lines[l].names[k] = name
  BY <1>4 DEF IsReadName, LinesOf
<1>6. CASE name \in Names
  BY <1>1, <1>5, <1>6 DEF RInv, LoadKept
<1>7. CASE name \notin Names
  <2>1. ~ HasName(id, name)
    <3>1. \A t \in held[id] : t \in Tags /\ counts[t].name # None
      BY DEF IInv, MemoryOK, LiveBitsOnly, Live
    <3>2. \A t \in Tags : counts[t].name \in Names \cup {None}
      BY TagNumbers DEF IInv, Entry
    <3> QED BY <1>7, <3>1, <3>2 DEF HasName
  <2>2. \A l \in LinesOf(id) : \A k \in DOMAIN file.lines[l].names :
          file.lines[l].names[k] \in Names
    BY FileNumbers, ElementOfSeq DEF IInv, LinesOf
  <2> QED BY <1>7, <2>1, <2>2
<1> QED BY <1>6, <1>7

\* An id has all its names back, or TokenMax of them.
LEMMA NamesBack ==
  ASSUME IInv, RInv, LoadEnd, NEW id \in Ids
  PROVE  LET H == {counts[t].name : t \in held[id]}
         IN  /\ H \subseteq Saved[id]
             /\ Cardinality(H) =
                  IF Cardinality(Saved[id]) <= TokenMax
                  THEN Cardinality(Saved[id]) ELSE TokenMax
<1> DEFINE H == {counts[t].name : t \in held[id]}
<1>1. \A name : name \in H <=>
        \E l \in LinesOf(id) : \E k \in DOMAIN file.lines[l].names :
          k <= TokenMax /\ file.lines[l].names[k] = name
  <2>1. \A name : name \in H <=> HasName(id, name)
    BY DEF HasName
  <2> HIDE DEF H
  <2> QED BY <2>1, AllRead
<1>2. Saved[id] = UNION {Range(file.lines[l].names) : l \in LinesOf(id)}
  BY DEF Saved
<1>3. TokenMax \in Nat
  BY LimitAssumption
<1>4. CASE LinesOf(id) = {}
  <2>1. H = {}
    <3> HIDE DEF H
    <3> QED BY <1>1, <1>4
  <2>2. Saved[id] = {}
    BY <1>2, <1>4
  <2>3. Cardinality({}) = 0
    BY FS_EmptySet
  <2> HIDE DEF H
  <2>4. H \subseteq Saved[id] /\ Cardinality(H) = 0 /\ Cardinality(Saved[id]) = 0
    BY <2>1, <2>2, <2>3
  <2>5. 0 <= TokenMax
    BY <1>3
  <2> QED BY <2>4, <2>5 DEF H
<1>5. CASE LinesOf(id) # {}
  <2>1. PICK l \in DOMAIN file.lines : LinesOf(id) = {l}
    BY <1>5 DEF LinesOf, RInv, FileDistinct
  <2> DEFINE F == file.lines[l].names
             n == Len(F)
             j == IF n <= TokenMax THEN n ELSE TokenMax
  <2>2. F \in Seq(Names) /\ n \in Nat /\ DOMAIN F = 1 .. n /\ IsInjective(F)
    BY <2>1, FileNumbers DEF IInv, RInv, FileDistinct
  <2> HIDE DEF H, F
  <2>3. Saved[id] = Range(F)
    BY <1>2, <2>1 DEF F
  <2>4. Range(F) = {F[k] : k \in 1 .. n}
    BY <2>2 DEF Range
  <2>5. \A name : name \in H <=> \E k \in 1 .. n : k <= TokenMax /\ F[k] = name
    BY <1>1, <2>1, <2>2 DEF F
  <2>6. j \in 0 .. n /\ n \in 0 .. n /\ \A k \in 1 .. n : k <= TokenMax <=> k \in 1 .. j
    BY <1>3, <2>2
  <2>7. \A k \in 1 .. j : k \in 1 .. n
    BY <2>2, <2>6
  <2> HIDE DEF n, j
  <2>8. H = {F[k] : k \in 1 .. j}
    BY <2>5, <2>6, <2>7
  <2>9. Cardinality({F[k] : k \in 1 .. j}) = j /\ Cardinality({F[k] : k \in 1 .. n}) = n
    BY <2>2, <2>6, ImageSize DEF n
  <2>10. H \subseteq Saved[id]
    BY <2>3, <2>4, <2>7, <2>8
  <2>11. Cardinality(H) = j /\ Cardinality(Saved[id]) = n
    BY <2>3, <2>4, <2>8, <2>9
  <2> QED BY <2>10, <2>11 DEF H, j
<1> QED BY <1>4, <1>5

LEMMA LoadEndStep ==
  ASSUME IInv, RInv, IInv', LoadEnd
  PROVE  Relation!Open
<1>1. /\ pc = "load" /\ pc' = "idle" /\ file' = file /\ counts' = counts /\ held' = held
  BY DEF LoadEnd, memory
<1>2. ~ Up /\ Up' = TRUE
  BY <1>1 DEF Up
<1>3. LiveTags' = LiveTags
  BY <1>1 DEF LiveTags, Tags, Live
<1>4. TagNames' = [t \in LiveTags |-> counts[t].name] /\ Holding' = held
  BY <1>1, <1>3, IdleMapNext
<1>5. \A t, u \in LiveTags : counts[t].name = counts[u].name => t = u
  BY DEF LiveTags, IInv, MemoryOK, NamesUnique
<1>6. \A id \in Ids : held[id] \subseteq LiveTags
  BY DEF LiveTags, IInv, MemoryOK, LiveBitsOnly
<1>7. ASSUME NEW id \in Ids
      PROVE  Relation!NamesHeld(id)' = {counts[t].name : t \in held[id]}
  BY <1>4, <1>6 DEF Relation!NamesHeld
<1>8. Relation!NameSet' = {counts[t].name : t \in LiveTags}
  BY <1>4 DEF Relation!NameSet
<1>9. \A t \in LiveTags : \E id \in Ids : t \in held[id]
  BY <1>1 DEF LiveTags, RInv, LoadKept
<1>10. Relation!NameSet' = UNION {Relation!NamesHeld(id)' : id \in Ids}
  <2>1. UNION {Relation!NamesHeld(id)' : id \in Ids} = UNION {{counts[t].name : t \in held[id]} : id \in Ids}
    BY <1>7
  <2> QED BY <1>6, <1>8, <1>9, <2>1
<1>11. ASSUME NEW id \in Ids
       PROVE  /\ Relation!NamesHeld(id)' \subseteq Saved[id]
              /\ Cardinality(Relation!NamesHeld(id)') =
                   IF Cardinality(Saved[id]) <= TokenMax
                   THEN Cardinality(Saved[id]) ELSE TokenMax
  BY <1>7, NamesBack
<1>12. Saved' = Saved /\ (~ file.cut)' = ~ file.cut
  BY <1>1, SavedUnchanged
<1> QED BY <1>2, <1>4, <1>5, <1>10, <1>11, <1>12, Sizes DEF Relation!Open

-----------------------------------------------------------------------------
(* Every step is a step of the relation, or leaves it as it was. *)

LEMMA RelationStep ==
  ASSUME IInv, RInv, IInv', Next
  PROVE  SameRelation \/ Relation!Next
<1>1. CASE Open
  <2>1. ~ Up /\ ~ Up' /\ file' = file
    BY <1>1 DEF Open, Up
  <2> QED BY <2>1, DownSame
<1>2. CASE LoadToken \/ LoadFails
  <2>1. ~ Up /\ ~ Up' /\ file' = file
    BY <1>2 DEF LoadToken, LoadFails, Up
  <2> QED BY <2>1, DownSame
<1>3. CASE LoadEnd
  BY <1>3, LoadEndStep DEF Relation!Next
<1>4. CASE Crash
  <2>1. ~ Up' /\ file' = file
    BY <1>4 DEF Crash, Up
  <2>2. CASE Up
    BY <2>1, <2>2, CrashStep DEF Relation!Next
  <2>3. CASE ~ Up
    BY <2>1, <2>3, DownSame
  <2> QED BY <2>2, <2>3
<1>5. ASSUME NEW t \in 1 .. Len(counts) + 1, NEW name \in Names, Add(t, name)
      PROVE  Relation!Next
  BY <1>5, AddStep DEF Relation!Next
<1>6. CASE \E t \in 1 .. Len(counts) + 1, name \in Names : AddFails(t, name)
  <2>1. /\ pc = "idle" /\ pc' = "idle" /\ file' = file /\ held' = held /\ counts' = counts
    BY <1>6 DEF AddFails
  <2>2. LiveTags' = LiveTags
    BY <2>1 DEF LiveTags, Tags, Live
  <2> QED BY <2>1, <2>2, IdleSame
<1>7. CASE \E name \in Names : AddAborts(name)
  <2>1. Up /\ ~ Up' /\ file' = file
    BY <1>7 DEF AddAborts, Up
  <2> QED BY <2>1, CrashStep DEF Relation!Next
<1>8. ASSUME NEW t \in Tags, NEW name \in Names, Rename(t, name)
      PROVE  Relation!Next
  BY <1>8, RenameStep DEF Relation!Next
<1>9. ASSUME NEW id \in Ids, NEW t \in Tags, TagId(id, t) \/ UntagId(id, t)
      PROVE  Relation!Next
  BY <1>9, TagStep, UntagStep DEF Relation!Next
<1>10. ASSUME NEW id \in Ids, NEW t \in Tags, TagIdFails(id, t)
       PROVE  SameRelation
  <2>1. /\ pc = "idle" /\ pc' = "idle" /\ file' = file /\ held' = held
        /\ counts' = [counts EXCEPT ![t].count = @ + 1]
    BY <1>10 DEF TagIdFails
  <2>2. Renumbered
    BY <2>1, Renumbering DEF IInv
  <2>3. LiveTags' = LiveTags /\ \A u \in LiveTags : counts'[u].name = counts[u].name
    BY <2>2 DEF Renumbered, LiveTags, Live
  <2> QED BY <2>1, <2>3, IdleSame
<1>11. ASSUME NEW id \in Ids, Forget(id)
       PROVE  Relation!Next
  BY <1>11, ForgetStep DEF Relation!Next
<1>12. CASE \E want : EnumerateEnd(want) \/ \E p : EnumerateNext(want, p)
  <2>1. /\ pc = "idle" /\ pc' = "idle" /\ file' = file /\ held' = held /\ counts' = counts
    BY <1>12 DEF EnumerateEnd, EnumerateNext, memory
  <2>2. LiveTags' = LiveTags
    BY <2>1 DEF LiveTags, Tags, Live
  <2> QED BY <2>1, <2>2, IdleSame
<1>13. ASSUME NEW t \in Tags, RemoveBegin(t)
       PROVE  Relation!Next
  BY <1>13, RemoveBeginStep DEF Relation!Next
<1>14. ASSUME NEW p \in DOMAIN order, RemoveUntag(p)
       PROVE  SameRelation
  BY <1>14, RemoveUntagSame
<1>15. CASE RemoveEnd
  BY <1>15, RemoveEndSame
<1>16. CASE Commit \/ CommitFails
  BY <1>16, CommitStep DEF Relation!Next
<1>17. CASE Close \/ CommitCrashes
  BY <1>17, CloseStep DEF Relation!Next
<1>18. CASE Delete
  <2>1. pc = "closed" /\ pc' = "closed" /\ file' = NoFile
    BY <1>18 DEF Delete
  <2>2. ~ Up /\ Up' = Up
    BY <2>1 DEF Up
  <2>3. Saved' = Relation!Nothing /\ (~ file.cut)' = TRUE
    BY <2>1 DEF Saved, LinesOf, NoFile, Relation!Nothing
  <2>4. TagNames' = TagNames /\ Holding' = Holding
    BY <2>2, DownMap, DownMapNext
  <2> QED BY <2>2, <2>3, <2>4 DEF Relation!Delete, Relation!Next
<1> QED
  BY <1>1, <1>2, <1>3, <1>4, <1>5, <1>6, <1>7, <1>8, <1>9, <1>10, <1>11, <1>12, <1>13,
     <1>14, <1>15, <1>16, <1>17, <1>18 DEF Next

LEMMA RelationBegins == Init => Relation!Init
<1> SUFFICES ASSUME Init PROVE Relation!Init
  OBVIOUS
<1>1. ~ Up /\ Up = FALSE
  BY DEF Init, Up
<1>2. Saved = Relation!Nothing /\ (~ file.cut) = TRUE
  BY DEF Init, Saved, LinesOf, NoFile, Relation!Nothing
<1> QED BY <1>1, <1>2, DownMap DEF Relation!Init

\* The tag database implements TagRelation: the slots that tagdb_remove frees
\* and tagdb_add uses again, the bits, the walk and the file of a commit are
\* the numbered tags, the relation and the saved copy that tag-db.h promises,
\* through failures and crashes in a commit, a close or a load.
THEOREM ImplementsRelation == Spec => IsRelation
<1>1. IInv /\ RInv /\ IInv' /\ [Next]_vars =>
        [Relation!vars' # Relation!vars => Relation!Next]_vars
  BY RelationStep, Unchanged
<1> QED BY <1>1, RelationBegins, RelationInductive, PTL DEF Spec, IsRelation

=============================================================================
