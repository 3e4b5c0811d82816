----------------------------- MODULE HashProofs -----------------------------
(***************************************************************************)
(* That a hash owns what it holds and that its walks miss no entry, for    *)
(* any names and any number of bins, while clients and the walks' own      *)
(* callbacks change it.                                                    *)
(*                                                                         *)
(* The invariant says where in the chains what a walk still owes is to be  *)
(* found: at or behind the node it has saved, or in a bin it has not       *)
(* reached.  A removal moves nodes forward in a chain but past no other    *)
(* node, and an insertion moves none.                                      *)
(*                                                                         *)
(* And that the filename database, which is such a hash and a file, is the *)
(* map of FilenameMap, through commits that fail, crashes and sessions,    *)
(* for any ids, bins and filenames, where prune_cb is the one of RISC OS.  *)
(***************************************************************************)
EXTENDS Hash, SequenceLemmas, FiniteSetTheorems

Node == [name : Names, key : Nat, value : Nat]

\* A node is in its name's chain, once.
Chained ==
  /\ bins \in [Bins -> Seq(Node)]
  /\ \A b \in Bins : \A i \in DOMAIN bins[b] : BinOf[bins[b][i].name] = b
  /\ \A b \in Bins : \A i, j \in DOMAIN bins[b] : bins[b][i].name = bins[b][j].name => i = j

\* No two nodes share an object.
Objects ==
  /\ serial \in Nat
  /\ \A n \in Nodes : n.key \in 1 .. serial /\ n.value \in 1 .. serial
  /\ \A m, n \in Nodes : m.key # n.value
  /\ \A m, n \in Nodes : m.key = n.key => m = n
  /\ \A m, n \in Nodes : m.value = n.value => m = n

Counted == alive = Held /\ IsFiniteSet(Nodes) /\ count = Cardinality(Nodes)

\* The node with a key is at a place.
At(b, i, k) == b \in Bins /\ i \in DOMAIN bins[b] /\ bins[b][i].key = k

\* The walk will come to a place: it is in a bin not reached, or at or behind
\* the node saved.
Ahead(b, i) ==
  \/ b >= walk.bin
  \/ b = walk.bin - 1 /\ \E j \in DOMAIN bins[b] : j <= i /\ bins[b][j].key \in walk.next

WalkOK ==
  /\ walk \in [on : BOOLEAN, bin : Nat, now : SUBSET Nat, next : SUBSET Nat, owed : SUBSET Nat]
  /\ ~ walk.on => walk = NoWalk
  /\ \A k \in walk.owed : \E b \in Bins : \E i \in DOMAIN bins[b] : At(b, i, k) /\ Ahead(b, i)
  /\ \A k \in walk.next :
       walk.bin - 1 \in Bins /\ \E i \in DOMAIN bins[walk.bin - 1] : At(walk.bin - 1, i, k)
  /\ \A k, l \in walk.next : k = l
  /\ walk.now \cap (walk.next \cup walk.owed) = {}

\* The enumeration will come to a place: it is at the continuation or later.
Later(cont, b, i) == b > cont[1] \/ (b = cont[1] /\ i > cont[2])

Within(cont) == cont[1] \in Bins /\ cont[2] < Len(bins[cont[1]])

ScanOK ==
  /\ scan \in [on : BOOLEAN, sure : BOOLEAN, cont : (Bins \cup {-1}) \X Nat, owed : SUBSET Nat]
  /\ ~ scan.on \/ ~ scan.sure => scan.owed = {}
  /\ scan.on => scan.cont # Start /\ (scan.cont = End \/ scan.cont[1] \in Bins)
  /\ scan.on /\ scan.sure /\ scan.cont # End => Within(scan.cont)
  /\ \A k \in scan.owed :
       /\ scan.cont # End
       /\ \E b \in Bins : \E i \in DOMAIN bins[b] : At(b, i, k) /\ Later(scan.cont, b, i)

HInv == Chained /\ Objects /\ Counted /\ WalkOK /\ ScanOK

-----------------------------------------------------------------------------
(* Numbers, nodes and places. *)

LEMMA Members == \A n : n \in Nodes <=> \E b \in Bins : \E i \in DOMAIN bins[b] : bins[b][i] = n
BY DEF Nodes, ToSet

LEMMA Chain ==
  ASSUME BinsFit, Chained, NEW b \in Bins
  PROVE  /\ bins[b] \in Seq(Node)
         /\ Len(bins[b]) \in Nat
         /\ DOMAIN bins[b] = 1 .. Len(bins[b])
         /\ \A i \in DOMAIN bins[b] : bins[b][i] \in Node
<1>1. bins[b] \in Seq(Node)
  BY DEF Chained
<1> QED BY <1>1, LenProperties, ElementOfSeq

\* A key is at one place.
LEMMA OnePlace ==
  ASSUME Chained, Objects, NEW k, NEW b, NEW i, NEW c, NEW j, At(b, i, k), At(c, j, k)
  PROVE  b = c /\ i = j /\ bins[b][i] = bins[c][j]
<1>1. bins[b][i] \in Nodes /\ bins[c][j] \in Nodes
  BY Members DEF At
<1>2. bins[b][i] = bins[c][j]
  BY <1>1 DEF Objects, At
<1> QED BY <1>2 DEF Chained, At

\* The place of a name there is.
LEMMA FoundPlace ==
  ASSUME BinsFit, Chained, NEW name \in Names, Found(name) # {}
  PROVE  /\ BinOf[name] \in Bins
         /\ Min(Found(name)) \in DOMAIN bins[BinOf[name]]
         /\ bins[BinOf[name]][Min(Found(name))].name = name
<1>1. BinOf[name] \in Bins
  BY DEF BinsFit
<1>2. DOMAIN bins[BinOf[name]] \subseteq Nat
  BY <1>1, Chain
<1>3. Found(name) \in SUBSET Nat
  BY <1>2 DEF Found
<1>4. Min(Found(name)) \in Found(name)
  BY <1>3, MinOf
<1> QED BY <1>1, <1>4 DEF Found

-----------------------------------------------------------------------------
(* What changes when a chain does. *)

\* The nodes of a chain are those of its names.
LEMMA NodesOfChain ==
  ASSUME BinsFit, Chained, NEW b \in Bins
  PROVE  /\ Nodes = {n \in Nodes : BinOf[n.name] # b} \cup ToSet(bins[b])
         /\ \A n \in ToSet(bins[b]) : BinOf[n.name] = b
         /\ Nodes \subseteq Node
<1>1. \A n \in ToSet(bins[b]) : BinOf[n.name] = b /\ n \in Nodes
  BY Members DEF Chained, ToSet
<1>2. \A n \in Nodes : BinOf[n.name] = b => n \in ToSet(bins[b])
  BY Members DEF Chained, ToSet
<1>3. \A n \in Nodes : n \in Node
  BY Members, Chain
<1> QED BY <1>1, <1>2, <1>3

\* A chain is put for another.
LEMMA ChainPut ==
  ASSUME BinsFit, Chained, NEW b \in Bins, NEW C \in Seq(Node), bins' = [bins EXCEPT ![b] = C],
         \A i \in DOMAIN C : BinOf[C[i].name] = b,
         \A i, j \in DOMAIN C : C[i].name = C[j].name => i = j
  PROVE  /\ Chained'
         /\ bins'[b] = C
         /\ \A c \in Bins \ {b} : bins'[c] = bins[c]
         /\ Nodes' = {n \in Nodes : BinOf[n.name] # b} \cup ToSet(C)
<1>1. bins'[b] = C /\ \A c \in Bins \ {b} : bins'[c] = bins[c]
  BY DEF Chained
<1>2. Chained'
  <2>1. bins' \in [Bins -> Seq(Node)]
    BY DEF Chained
  <2>2. \A c \in Bins : \A i \in DOMAIN bins'[c] : BinOf[bins'[c][i].name] = c
    BY <1>1 DEF Chained
  <2>3. \A c \in Bins : \A i, j \in DOMAIN bins'[c] : bins'[c][i].name = bins'[c][j].name => i = j
    BY <1>1 DEF Chained
  <2> QED BY <2>1, <2>2, <2>3 DEF Chained, Bins, Node
<1>3. ASSUME NEW n
      PROVE  n \in Nodes' <=> (n \in Nodes /\ BinOf[n.name] # b) \/ n \in ToSet(C)
  <2>1. n \in Nodes' <=> \E c \in Bins : \E i \in DOMAIN bins'[c] : bins'[c][i] = n
    BY DEF Nodes, ToSet, Bins
  <2>2. ASSUME NEW c \in Bins, NEW i \in DOMAIN bins'[c], bins'[c][i] = n
        PROVE  (n \in Nodes /\ BinOf[n.name] # b) \/ n \in ToSet(C)
    <3>1. CASE c = b
      BY <1>1, <2>2, <3>1 DEF ToSet
    <3>2. CASE c # b
      BY <1>1, <2>2, <3>2, Members DEF Chained
    <3> QED BY <3>1, <3>2
  <2>3. ASSUME n \in Nodes, BinOf[n.name] # b
        PROVE  \E c \in Bins : \E i \in DOMAIN bins'[c] : bins'[c][i] = n
    BY <1>1, <2>3, Members DEF Chained
  <2>4. ASSUME n \in ToSet(C)
        PROVE  \E c \in Bins : \E i \in DOMAIN bins'[c] : bins'[c][i] = n
    BY <1>1, <2>4 DEF ToSet
  <2> QED BY <2>1, <2>2, <2>3, <2>4
<1> QED BY <1>1, <1>2, <1>3

\* Every key stays in its place, and no chain gets shorter.
PlacesStay ==
  \A b \in Bins :
    /\ bins'[b] \in Seq(Node) /\ Len(bins'[b]) >= Len(bins[b])
    /\ \A i \in DOMAIN bins[b] : i \in DOMAIN bins'[b] /\ bins'[b][i].key = bins[b][i].key

\* One chain's places stay.
LEMMA PlacesOfChain ==
  ASSUME BinsFit, Chained, Chained', NEW b \in Bins, NEW C \in Seq(Node), bins'[b] = C,
         \A c \in Bins \ {b} : bins'[c] = bins[c],
         Len(C) >= Len(bins[b]), \A i \in DOMAIN bins[b] : C[i].key = bins[b][i].key
  PROVE  PlacesStay
<1>1. ASSUME NEW c \in Bins
      PROVE  /\ bins'[c] \in Seq(Node) /\ Len(bins'[c]) >= Len(bins[c])
             /\ \A i \in DOMAIN bins[c] : i \in DOMAIN bins'[c] /\ bins'[c][i].key = bins[c][i].key
  <2>1. bins[c] \in Seq(Node) /\ Len(bins[c]) \in Nat /\ DOMAIN bins[c] = 1 .. Len(bins[c])
    BY Chain
  <2>2. CASE c # b
    BY <2>1, <2>2
  <2>3. CASE c = b
    <3>1. DOMAIN C = 1 .. Len(C) /\ Len(C) \in Nat
      BY LenProperties
    <3>2. DOMAIN bins[b] \subseteq DOMAIN C
      BY <2>1, <2>3, <3>1
    <3> QED BY <2>3, <3>2
  <2> QED BY <2>2, <2>3
<1> QED BY <1>1 DEF PlacesStay

-----------------------------------------------------------------------------
(* hash_insert. *)

\* A value is replaced: the node keeps its key and its place.
LEMMA Replaced ==
  ASSUME BinsFit, Chained, Objects, Counted, NEW name \in Names, Found(name) # {}, hash_insert(name)
  PROVE  Chained' /\ Objects' /\ Counted' /\ PlacesStay
<1> DEFINE b == BinOf[name]
           i == Min(Found(name))
           F == bins[b]
           old == F[i]
           new == Updated(old, serial + 1, serial + 2)
           C == [F EXCEPT ![i] = new]
<1>1. /\ b \in Bins /\ F \in Seq(Node) /\ i \in 1 .. Len(F) /\ old \in Node /\ old.name = name
      /\ DOMAIN F = 1 .. Len(F)
  BY FoundPlace, Chain
<1>2. /\ serial \in Nat /\ serial' = serial + 2
      /\ alive' = (alive \cup {serial + 2}) \ {old.value} /\ count' = count
  BY DEF hash_insert, Objects
<1>3. bins' = [bins EXCEPT ![b] = C]
  BY <1>1 DEF hash_insert, Updated
<1>4. new \in Node /\ new.name = name /\ new.key = old.key /\ new.value = serial + 2
  <2>1. \A n \in Node, v \in Nat :
          LET m == [n EXCEPT !.value = v]
          IN m \in Node /\ m.name = n.name /\ m.key = n.key /\ m.value = v
    BY DEF Node
  <2>2. new = [old EXCEPT !.value = serial + 2] /\ serial + 2 \in Nat
    BY <1>2 DEF Updated
  <2> HIDE DEF old, new
  <2> QED BY <1>1, <2>1, <2>2
<1> HIDE DEF new
<1>5. /\ C \in Seq(Node) /\ Len(C) = Len(F) /\ DOMAIN C = DOMAIN F
      /\ \A j \in DOMAIN F : C[j] = IF j = i THEN new ELSE F[j]
  BY <1>1, <1>4, ExceptSeq, LenProperties
<1> HIDE DEF C
<1>6. /\ \A j \in DOMAIN C : BinOf[C[j].name] = b
      /\ \A j, k \in DOMAIN C : C[j].name = C[k].name => j = k
  <2>1. \A j \in DOMAIN C : C[j].name = F[j].name
    BY <1>1, <1>4, <1>5
  <2>2. /\ \A j \in DOMAIN F : BinOf[F[j].name] = b
        /\ \A j, k \in DOMAIN F : F[j].name = F[k].name => j = k
    BY <1>1 DEF Chained
  <2> HIDE DEF F
  <2> QED BY <1>5, <2>1, <2>2
<1>7. /\ Chained' /\ bins'[b] = C /\ \A c \in Bins \ {b} : bins'[c] = bins[c]
      /\ Nodes' = {n \in Nodes : BinOf[n.name] # b} \cup ToSet(C)
  BY <1>1, <1>3, <1>5, <1>6, ChainPut
<1>8. PlacesStay
  <2>1. \A j \in DOMAIN F : C[j].key = F[j].key
    BY <1>4, <1>5
  <2>2. Len(C) >= Len(F)
    BY <1>1, <1>5
  <2> QED BY <1>1, <1>5, <1>7, <2>1, <2>2, PlacesOfChain
<1>9. ToSet(C) = (ToSet(F) \ {old}) \cup {new} /\ old \in ToSet(F)
  <2>1. \A j \in DOMAIN F : j # i => F[j] # old
    BY <1>1 DEF Chained
  <2> QED BY <1>1, <1>5, <2>1 DEF ToSet
<1>10. Nodes' = (Nodes \ {old}) \cup {new} /\ old \in Nodes
  BY <1>1, <1>7, <1>9, NodesOfChain
<1> HIDE DEF old, F, b, i
<1>11. \A n \in Nodes : n.key \in 1 .. serial /\ n.value \in 1 .. serial
  BY DEF Objects
<1>12. Objects'
  <2>1. serial' \in Nat /\ \A x \in 1 .. serial : x \in 1 .. serial' /\ x # serial + 2
    BY <1>2
  <2>2. serial + 2 \in 1 .. serial'
    BY <1>2
  <2>3. \A n \in Nodes' : n.key \in 1 .. serial' /\ n.value \in 1 .. serial'
    BY <1>4, <1>10, <1>11, <2>1, <2>2
  <2>4. \A m, n \in Nodes' : m.key # n.value
    BY <1>4, <1>10, <1>11, <2>1 DEF Objects
  <2>5. \A m, n \in Nodes' : m.key = n.key => m = n
    BY <1>4, <1>10 DEF Objects
  <2>6. \A m, n \in Nodes' : m.value = n.value => m = n
    BY <1>4, <1>10, <1>11, <2>1 DEF Objects
  <2> QED BY <2>1, <2>3, <2>4, <2>5, <2>6 DEF Objects
<1>13. Counted'
  <2>1. new \notin Nodes
    BY <1>2, <1>4, <1>11
  <2>2. new \notin Nodes \ {old} /\ IsFiniteSet(Nodes) /\ IsFiniteSet(Nodes \ {old})
        /\ Cardinality(Nodes \ {old}) = Cardinality(Nodes) - 1
    BY <1>10, <2>1, FS_RemoveElement DEF Counted
  <2>3. IsFiniteSet(Nodes') /\ Cardinality(Nodes') = (Cardinality(Nodes) - 1) + 1
    BY <1>10, <2>2, FS_AddElement
  <2>4. count' = Cardinality(Nodes')
    BY <1>2, <2>2, <2>3, FS_CardinalityType DEF Counted
  <2>5. alive' = Held'
    <3>1. ASSUME NEW x PROVE x \in Held' <=> ((x \in Held /\ x # old.value) \/ x = serial + 2)
      <4>1. x \in Held' <=> \E n \in Nodes' : x = n.key \/ x = n.value
        BY DEF Held
      <4>2. x \in Held <=> \E n \in Nodes : x = n.key \/ x = n.value
        BY DEF Held
      <4>3. x \in Held' => (x \in Held /\ x # old.value) \/ x = serial + 2
        BY <1>4, <1>10, <4>1, <4>2 DEF Objects
      <4>4. x \in Held /\ x # old.value => x \in Held'
        BY <1>4, <1>10, <4>1, <4>2
      <4>5. x = serial + 2 => x \in Held'
        BY <1>4, <1>10, <4>1
      <4> QED BY <4>3, <4>4, <4>5
    <3>2. old.value # serial + 2
      BY <1>2, <1>10, <1>11
    <3> QED BY <1>2, <3>1, <3>2 DEF Counted
  <2> QED BY <2>3, <2>4, <2>5 DEF Counted
<1> QED BY <1>7, <1>8, <1>12, <1>13

\* A node is added behind a chain's last.
LEMMA Added ==
  ASSUME BinsFit, Chained, Objects, Counted, NEW name \in Names, Found(name) = {}, hash_insert(name)
  PROVE  Chained' /\ Objects' /\ Counted' /\ PlacesStay
<1> DEFINE b == BinOf[name]
           F == bins[b]
           new == [name |-> name, key |-> serial + 1, value |-> serial + 2]
           C == Append(F, new)
<1>1. b \in Bins /\ F \in Seq(Node) /\ DOMAIN F = 1 .. Len(F) /\ Len(F) \in Nat
  BY Chain DEF BinsFit
<1>2. /\ serial \in Nat /\ serial' = serial + 2 /\ count' = count + 1
      /\ alive' = alive \cup {serial + 1, serial + 2}
  BY DEF hash_insert, Objects
<1>3. bins' = [bins EXCEPT ![b] = C]
  BY <1>1 DEF hash_insert
<1>4. new \in Node /\ new.name = name /\ new.key = serial + 1 /\ new.value = serial + 2
  BY <1>2 DEF Node
<1> HIDE DEF new
<1>5. /\ C \in Seq(Node) /\ Len(C) = Len(F) + 1
      /\ \A j \in DOMAIN F : C[j] = F[j]
      /\ C[Len(F) + 1] = new
  BY <1>1, <1>4, AppendProperties
<1> HIDE DEF C
<1>6. DOMAIN C = DOMAIN F \cup {Len(F) + 1}
  <2>1. DOMAIN C = 1 .. Len(F) + 1
    BY <1>5, LenProperties
  <2>2. \A l \in Nat : 1 .. l + 1 = (1 .. l) \cup {l + 1}
    OBVIOUS
  <2> QED BY <1>1, <2>1, <2>2
<1>7. \A j \in DOMAIN F : F[j].name # name
  BY DEF Found
<1>8. /\ \A j \in DOMAIN C : BinOf[C[j].name] = b
      /\ \A j, k \in DOMAIN C : C[j].name = C[k].name => j = k
  <2>1. \A j \in DOMAIN F : BinOf[F[j].name] = b
    BY <1>1 DEF Chained
  <2>2. \A j, k \in DOMAIN F : F[j].name = F[k].name => j = k
    BY <1>1 DEF Chained
  <2> HIDE DEF F
  <2> QED BY <1>4, <1>5, <1>6, <1>7, <2>1, <2>2
<1>9. /\ Chained' /\ bins'[b] = C /\ \A c \in Bins \ {b} : bins'[c] = bins[c]
      /\ Nodes' = {n \in Nodes : BinOf[n.name] # b} \cup ToSet(C)
  BY <1>1, <1>3, <1>5, <1>8, ChainPut
<1>10. PlacesStay
  <2>1. Len(C) >= Len(F)
    BY <1>1, <1>5
  <2>2. \A j \in DOMAIN F : C[j].key = F[j].key
    BY <1>5
  <2> QED BY <1>1, <1>5, <1>9, <2>1, <2>2, PlacesOfChain
<1>11. ToSet(C) = ToSet(F) \cup {new}
  BY <1>5, <1>6 DEF ToSet
<1>12. Nodes' = Nodes \cup {new}
  BY <1>1, <1>9, <1>11, NodesOfChain
<1> HIDE DEF F, b
<1>13. \A n \in Nodes : n.key \in 1 .. serial /\ n.value \in 1 .. serial
  BY DEF Objects
<1>14. \A x \in 1 .. serial : x \in 1 .. serial' /\ x # serial + 1 /\ x # serial + 2
  BY <1>2
<1>15. Objects'
  <2>1. /\ serial' \in Nat /\ serial + 1 \in 1 .. serial' /\ serial + 2 \in 1 .. serial'
        /\ serial + 1 # serial + 2
    BY <1>2
  <2>2. \A n \in Nodes' : n.key \in 1 .. serial' /\ n.value \in 1 .. serial'
    BY <1>4, <1>12, <1>13, <1>14, <2>1
  <2>3. \A m, n \in Nodes' : m.key # n.value
    BY <1>4, <1>12, <1>13, <1>14, <2>1 DEF Objects
  <2>4. \A m, n \in Nodes' : m.key = n.key => m = n
    BY <1>4, <1>12, <1>13, <1>14 DEF Objects
  <2>5. \A m, n \in Nodes' : m.value = n.value => m = n
    BY <1>4, <1>12, <1>13, <1>14 DEF Objects
  <2> QED BY <2>1, <2>2, <2>3, <2>4, <2>5 DEF Objects
<1>16. Counted'
  <2>1. new \notin Nodes
    BY <1>4, <1>13, <1>14
  <2>2. IsFiniteSet(Nodes') /\ Cardinality(Nodes') = Cardinality(Nodes) + 1
    BY <1>12, <2>1, FS_AddElement DEF Counted
  <2>3. Held' = Held \cup {new.key, new.value}
    BY <1>12 DEF Held
  <2> QED BY <1>2, <1>4, <2>2, <2>3 DEF Counted
<1> QED BY <1>9, <1>10, <1>15, <1>16

-----------------------------------------------------------------------------
(* hash_remove and hash_destroy. *)

\* The nodes of a chain behind a place move forward by one, no other does.
PlacesClose(place, at) ==
  \A c \in Bins : \A j \in DOMAIN bins[c] :
    /\ c # place \/ j < at => j \in DOMAIN bins'[c] /\ bins'[c][j] = bins[c][j]
    /\ c = place /\ j > at => j - 1 \in DOMAIN bins'[c] /\ bins'[c][j - 1] = bins[c][j]

\* The node of a name is where the name is found.
LEMMA FoundNode ==
  ASSUME BinsFit, Chained, NEW n \in Nodes
  PROVE  /\ n.name \in Names /\ Found(n.name) # {}
         /\ bins[BinOf[n.name]][Min(Found(n.name))] = n
<1>1. PICK b \in Bins : \E i \in DOMAIN bins[b] : bins[b][i] = n
  BY Members
<1>2. PICK i \in DOMAIN bins[b] : bins[b][i] = n
  BY <1>1
<1>3. n.name \in Names /\ BinOf[n.name] = b
  BY <1>2, Chain DEF Chained, Node
<1>4. i \in Found(n.name)
  BY <1>2, <1>3 DEF Found
<1> QED BY <1>2, <1>3, <1>4, FoundPlace DEF Chained

LEMMA Dropped ==
  ASSUME BinsFit, Chained, Objects, Counted, NEW name \in Names, Found(name) # {},
         RemoveFrom(name), serial' = serial
  PROVE  /\ Chained' /\ Objects' /\ Counted'
         /\ PlacesClose(BinOf[name], Min(Found(name)))
<1> DEFINE b == BinOf[name]
           i == Min(Found(name))
           F == bins[b]
           old == F[i]
           C == RemoveAt(F, i)
<1>1. /\ b \in Bins /\ F \in Seq(Node) /\ i \in 1 .. Len(F) /\ old.name = name
      /\ DOMAIN F = 1 .. Len(F) /\ Len(F) \in Nat
  BY FoundPlace, Chain
<1>2. count' = count - 1 /\ alive' = alive \ {old.key, old.value} /\ bins' = [bins EXCEPT ![b] = C]
  BY <1>1 DEF RemoveFrom
<1>3. \A j, k \in DOMAIN F : F[j].name = F[k].name => j = k
  BY <1>1 DEF Chained
<1>4. \A j \in DOMAIN F : BinOf[F[j].name] = b
  BY <1>1 DEF Chained
<1>5. ToSet(F) = Range(F) /\ ToSet(C) = Range(C)
  BY DEF ToSet, Range
<1> HIDE DEF F, C
<1>6. C \in Seq(Node) /\ Range(C) = Range(F) \ {old}
  <2>1. IsInjective(F)
    BY <1>3 DEF IsInjective
  <2>2. RemoveAt(F, i) \in Seq(Node) /\ Range(RemoveAt(F, i)) = Range(F) \ {F[i]}
    BY <1>1, <2>1, Removed, RemovedDistinct
  <2> QED BY <2>2 DEF C
<1>7. /\ Len(C) = Len(F) - 1 /\ DOMAIN C = 1 .. Len(F) - 1
      /\ \A j \in 1 .. i - 1 : C[j] = F[j]
      /\ \A j \in i .. Len(F) - 1 : C[j] = F[j + 1]
  BY <1>1, Removed, LenProperties DEF C
<1>8. \A j \in DOMAIN C : \E k \in DOMAIN F : C[j] = F[k] /\ k = IF j < i THEN j ELSE j + 1
  <2>1. ASSUME NEW j \in DOMAIN C PROVE \E k \in DOMAIN F : C[j] = F[k] /\ k = IF j < i THEN j ELSE j + 1
    <3>1. CASE j < i
      <4>1. j \in DOMAIN F /\ j \in 1 .. i - 1
        BY <1>1, <1>7, <3>1
      <4> QED BY <1>7, <3>1, <4>1
    <3>2. CASE ~ j < i
      <4>1. j + 1 \in DOMAIN F /\ j \in i .. Len(F) - 1
        BY <1>1, <1>7, <3>2
      <4> QED BY <1>7, <3>2, <4>1
    <3> QED BY <3>1, <3>2
  <2> QED BY <2>1
<1>9. /\ \A j \in DOMAIN C : BinOf[C[j].name] = b
      /\ \A j, k \in DOMAIN C : C[j].name = C[k].name => j = k
  <2>1. ASSUME NEW j \in DOMAIN C, NEW k \in DOMAIN C, C[j].name = C[k].name PROVE j = k
    <3>1. (IF j < i THEN j ELSE j + 1) = (IF k < i THEN k ELSE k + 1)
      BY <1>3, <1>8, <2>1
    <3>2. j \in Nat /\ k \in Nat /\ i \in Nat
      BY <1>1, <1>7
    <3> QED BY <3>1, <3>2
  <2> QED BY <1>4, <1>8, <2>1
<1>10. /\ Chained' /\ bins'[b] = C /\ \A c \in Bins \ {b} : bins'[c] = bins[c]
       /\ Nodes' = {n \in Nodes : BinOf[n.name] # b} \cup ToSet(C)
  <2>1. bins' = [bins EXCEPT ![b] = C]
    BY <1>2
  <2>2. b \in Bins /\ C \in Seq(Node)
    BY <1>1, <1>6
  <2> HIDE DEF b
  <2> QED BY <1>9, <2>1, <2>2, ChainPut
<1>11. PlacesClose(b, i)
  <2>1. ASSUME NEW c \in Bins, NEW j \in DOMAIN bins[c], c # b \/ j < i
        PROVE  j \in DOMAIN bins'[c] /\ bins'[c][j] = bins[c][j]
    <3>1. CASE c # b
      BY <1>10, <3>1
    <3>2. CASE c = b
      <4>1. j < i /\ j \in 1 .. Len(F)
        BY <1>1, <2>1, <3>2 DEF F
      <4>2. j \in 1 .. i - 1 /\ j \in DOMAIN C
        BY <1>1, <1>7, <4>1
      <4> QED BY <1>7, <1>10, <3>2, <4>2 DEF F
    <3> QED BY <3>1, <3>2
  <2>2. ASSUME NEW j \in DOMAIN F, j > i
        PROVE  j - 1 \in DOMAIN C /\ C[j - 1] = F[j]
    <3>1. j - 1 \in i .. Len(F) - 1 /\ (j - 1) + 1 = j /\ j - 1 \in 1 .. Len(F) - 1
      BY <1>1, <2>2
    <3> QED BY <1>7, <3>1
  <2> QED BY <1>10, <2>1, <2>2 DEF PlacesClose, F
<1>12. Nodes' = Nodes \ {old} /\ old \in Nodes
  <2>1. old \in ToSet(F)
    BY <1>1, <1>5 DEF Range
  <2> QED BY <1>1, <1>5, <1>6, <1>10, <2>1, NodesOfChain DEF F
<1> HIDE DEF old
<1>13. Objects'
  <2>1. serial' \in Nat /\ \A n \in Nodes' : n.key \in 1 .. serial' /\ n.value \in 1 .. serial'
    BY <1>12 DEF Objects
  <2>2. \A m, n \in Nodes' : m.key # n.value
    BY <1>12 DEF Objects
  <2>3. \A m, n \in Nodes' : (m.key = n.key => m = n) /\ (m.value = n.value => m = n)
    BY <1>12 DEF Objects
  <2> QED BY <2>1, <2>2, <2>3 DEF Objects
<1>14. Counted'
  <2>1. IsFiniteSet(Nodes') /\ Cardinality(Nodes') = Cardinality(Nodes) - 1
    BY <1>12, FS_RemoveElement DEF Counted
  <2>2. ASSUME NEW x PROVE x \in Held' <=> x \in Held /\ x # old.key /\ x # old.value
    <3>1. x \in Held' <=> \E n \in Nodes' : x = n.key \/ x = n.value
      BY DEF Held
    <3>2. x \in Held <=> \E n \in Nodes : x = n.key \/ x = n.value
      BY DEF Held
    <3> QED BY <1>12, <3>1, <3>2 DEF Objects
  <2> QED BY <1>2, <2>1, <2>2 DEF Counted
<1> QED BY <1>10, <1>11, <1>13, <1>14

LEMMA Emptied ==
  ASSUME BinsFit, Chained, Objects, Counted, hash_destroy
  PROVE  Chained' /\ Objects' /\ Counted'
<1>1. bins' = [b \in Bins |-> <<>>] /\ count' = 0 /\ alive' = alive \ Held /\ serial' = serial
  BY DEF hash_destroy
<1>2. Nodes' = {}
  <2>1. \A b \in Bins : DOMAIN bins'[b] = {}
    BY <1>1
  <2> QED BY <2>1 DEF Nodes, ToSet, Bins
<1>3. Chained'
  BY <1>1 DEF Chained, Bins, Node
<1>4. Objects'
  BY <1>1, <1>2 DEF Objects
<1>5. Held' = {}
  BY <1>2 DEF Held
<1> QED BY <1>1, <1>2, <1>3, <1>4, <1>5, FS_EmptySet DEF Counted

-----------------------------------------------------------------------------
(* What a walk and an enumeration still owe, while the chains change. *)

\* An entry replaced or added moves nothing they owe.
LEMMA StaysOwed ==
  ASSUME BinsFit, Chained, Chained', PlacesStay, WalkOK, ScanOK, walk' = walk, scan' = scan
  PROVE  WalkOK' /\ ScanOK'
<1>1. ASSUME NEW b \in Bins, NEW i \in DOMAIN bins[b]
      PROVE  i \in DOMAIN bins'[b] /\ bins'[b][i].key = bins[b][i].key
  BY DEF PlacesStay
<1>2. ASSUME NEW b \in Bins, NEW i \in DOMAIN bins[b], NEW k, At(b, i, k)
      PROVE  i \in DOMAIN bins'[b] /\ At(b, i, k)'
  BY <1>1, <1>2 DEF At, Bins
<1>3. WalkOK'
  <2>1. ASSUME NEW k \in walk.owed
        PROVE  \E b \in Bins : \E i \in DOMAIN bins'[b] : At(b, i, k)' /\ Ahead(b, i)'
    <3>1. PICK b \in Bins : \E i \in DOMAIN bins[b] : At(b, i, k) /\ Ahead(b, i)
      BY DEF WalkOK
    <3>2. PICK i \in DOMAIN bins[b] : At(b, i, k) /\ Ahead(b, i)
      BY <3>1
    <3>3. Ahead(b, i)'
      BY <1>1, <3>2 DEF Ahead
    <3> QED BY <1>2, <3>2, <3>3
  <2>2. ASSUME NEW k \in walk.next
        PROVE  walk.bin - 1 \in Bins /\ \E i \in DOMAIN bins'[walk.bin - 1] : At(walk.bin - 1, i, k)'
    BY <1>2 DEF WalkOK
  <2> QED BY <2>1, <2>2 DEF WalkOK, NoWalk, Bins
<1>4. ScanOK'
  <2>1. ASSUME NEW k \in scan.owed
        PROVE  \E b \in Bins : \E i \in DOMAIN bins'[b] : At(b, i, k)' /\ Later(scan.cont, b, i)'
    <3>1. PICK b \in Bins : \E i \in DOMAIN bins[b] : At(b, i, k) /\ Later(scan.cont, b, i)
      BY DEF ScanOK
    <3>2. PICK i \in DOMAIN bins[b] : At(b, i, k) /\ Later(scan.cont, b, i)
      BY <3>1
    <3>3. Later(scan.cont, b, i)'
      BY <3>2 DEF Later
    <3> QED BY <1>2, <3>2, <3>3
  <2>2. scan.on /\ scan.sure /\ scan.cont # End => Within(scan.cont)'
    <3>1. HAVE scan.on /\ scan.sure /\ scan.cont # End
    <3>2. scan.cont[1] \in Bins /\ scan.cont[2] < Len(bins[scan.cont[1]]) /\ scan.cont[2] \in Nat
      BY <3>1 DEF ScanOK, Within
    <3>3. Len(bins'[scan.cont[1]]) >= Len(bins[scan.cont[1]])
      BY <3>2 DEF PlacesStay
    <3>4. Len(bins[scan.cont[1]]) \in Nat /\ Len(bins'[scan.cont[1]]) \in Nat
      BY <3>2, Chain, LenProperties DEF PlacesStay
    <3> QED BY <3>2, <3>3, <3>4 DEF Within, Bins
  <2> QED BY <2>1, <2>2 DEF ScanOK, Bins, Start, End
<1> QED BY <1>3, <1>4

\* A removal by the walk's callback moves what is owed forward, but not past
\* the node saved.
LEMMA MovesOwed ==
  ASSUME BinsFit, Chained, Objects, WalkOK, NEW b \in Bins, NEW i \in DOMAIN bins[b],
         walk.on, bins[b][i].key \in walk.now, PlacesClose(b, i),
         walk' = [walk EXCEPT !.now = {}]
  PROVE  WalkOK'
<1>1. /\ walk'.on = walk.on /\ walk'.bin = walk.bin /\ walk'.now = {}
      /\ walk'.next = walk.next /\ walk'.owed = walk.owed
      /\ walk' \in [on : BOOLEAN, bin : Nat, now : SUBSET Nat, next : SUBSET Nat, owed : SUBSET Nat]
  BY DEF WalkOK
<1>2. bins[b][i].key \notin walk.next /\ bins[b][i].key \notin walk.owed
  BY DEF WalkOK
<1>3. i \in Nat /\ \A c \in Bins : DOMAIN bins[c] \subseteq Nat
  BY Chain
<1> DEFINE Moved(c, j) == IF c = b /\ j > i THEN j - 1 ELSE j
<1>4. ASSUME NEW c \in Bins, NEW j \in DOMAIN bins[c], NEW k \in walk.next \cup walk.owed, At(c, j, k)
      PROVE  Moved(c, j) \in DOMAIN bins'[c] /\ At(c, Moved(c, j), k)'
  <2>1. c # b \/ j < i \/ j > i
    <3>1. c = b => j # i
      BY <1>2, <1>4 DEF At
    <3>2. j \in Nat
      BY <1>3
    <3> QED BY <1>3, <3>1, <3>2
  <2>2. Moved(c, j) \in DOMAIN bins'[c] /\ bins'[c][Moved(c, j)] = bins[c][j]
    <3>1. CASE c = b /\ j > i
      BY <3>1 DEF PlacesClose
    <3>2. CASE ~ (c = b /\ j > i)
      BY <2>1, <3>2 DEF PlacesClose
    <3> QED BY <3>1, <3>2
  <2> HIDE DEF Moved
  <2> QED BY <1>4, <2>2 DEF At, Bins
<1>5. ASSUME NEW k \in walk.owed
      PROVE  \E c \in Bins : \E j \in DOMAIN bins'[c] : At(c, j, k)' /\ Ahead(c, j)'
  <2>1. PICK c \in Bins : \E j \in DOMAIN bins[c] : At(c, j, k) /\ Ahead(c, j)
    BY DEF WalkOK
  <2>2. PICK j \in DOMAIN bins[c] : At(c, j, k) /\ Ahead(c, j)
    BY <2>1
  <2>3. Moved(c, j) \in DOMAIN bins'[c] /\ At(c, Moved(c, j), k)'
    BY <1>4, <2>2
  <2>4. Ahead(c, Moved(c, j))'
    <3>1. CASE c >= walk.bin
      BY <1>1, <3>1 DEF Ahead
    <3>2. CASE c = walk.bin - 1 /\ \E l \in DOMAIN bins[c] : l <= j /\ bins[c][l].key \in walk.next
      <4>1. PICK l \in DOMAIN bins[c] : l <= j /\ bins[c][l].key \in walk.next
        BY <3>2
      <4>2. At(c, l, bins[c][l].key)
        BY <4>1 DEF At
      <4>3. Moved(c, l) \in DOMAIN bins'[c] /\ bins'[c][Moved(c, l)].key \in walk.next
        BY <1>4, <4>1, <4>2 DEF At
      <4>4. l # i \/ c # b
        BY <1>2, <4>1
      <4>5. \A x, y, z \in Nat : x <= y /\ x # z => (IF x > z THEN x - 1 ELSE x) <= (IF y > z THEN y - 1 ELSE y)
        OBVIOUS
      <4>6. Moved(c, l) <= Moved(c, j)
        <5>1. j \in Nat /\ l \in Nat
          BY <1>3
        <5>2. CASE c = b
          BY <1>3, <4>1, <4>4, <4>5, <5>1, <5>2
        <5>3. CASE c # b
          BY <4>1, <5>1, <5>3
        <5> QED BY <5>2, <5>3
      <4> HIDE DEF Moved
      <4> QED BY <1>1, <3>2, <4>3, <4>6 DEF Ahead
    <3> QED BY <2>2, <3>1, <3>2 DEF Ahead
  <2> HIDE DEF Moved
  <2> QED BY <2>3, <2>4
<1>6. ASSUME NEW k \in walk.next
      PROVE  walk.bin - 1 \in Bins /\ \E j \in DOMAIN bins'[walk.bin - 1] : At(walk.bin - 1, j, k)'
  <2>1. PICK j \in DOMAIN bins[walk.bin - 1] : walk.bin - 1 \in Bins /\ At(walk.bin - 1, j, k)
    BY DEF WalkOK
  <2> HIDE DEF Moved
  <2> QED BY <1>4, <2>1
<1> QED BY <1>1, <1>5, <1>6 DEF WalkOK, Bins

-----------------------------------------------------------------------------
(* The steps of hash_walk. *)

LEMMA Begun ==
  ASSUME BinsFit, Chained, Objects, WalkOK, WalkBegin
  PROVE  WalkOK'
<1>1. /\ walk' = [on |-> TRUE, bin |-> 0, now |-> {}, next |-> {}, owed |-> {n.key : n \in Nodes}]
      /\ bins' = bins
  BY DEF WalkBegin, NoWalk
<1>2. {n.key : n \in Nodes} \subseteq Nat
  BY DEF Objects
<1>3. ASSUME NEW k \in walk'.owed
      PROVE  \E b \in Bins : \E i \in DOMAIN bins'[b] : At(b, i, k)' /\ Ahead(b, i)'
  <2>1. PICK n \in Nodes : n.key = k
    BY <1>1
  <2>2. PICK b \in Bins : \E i \in DOMAIN bins[b] : bins[b][i] = n
    BY Members
  <2>3. PICK i \in DOMAIN bins[b] : bins[b][i] = n
    BY <2>2
  <2>4. At(b, i, k)'
    BY <1>1, <2>1, <2>3 DEF At, Bins
  <2>5. Ahead(b, i)'
    BY <1>1 DEF Ahead, Bins
  <2> QED BY <1>1, <2>4, <2>5
<1> QED BY <1>1, <1>2, <1>3 DEF WalkOK, Bins

\* The walk comes to a node only once it owes none before it.
LEMMA Stepped ==
  ASSUME BinsFit, Chained, Objects, WalkOK, WalkStep
  PROVE  WalkOK'
<1>1. PICK n \in Nodes :
        /\ n.key \in NextToMeet
        /\ walk' = [walk EXCEPT !.bin = BinOf[n.name] + 1, !.now = {n.key},
                                !.next = Behind(n), !.owed = @ \ {n.key}]
  BY DEF WalkStep
<1>2. walk.on /\ bins' = bins
  BY DEF WalkStep
<1>3. PICK b \in Bins : \E i \in DOMAIN bins[b] : bins[b][i] = n
  BY Members
<1>4. PICK i \in DOMAIN bins[b] : bins[b][i] = n
  BY <1>3
<1>5. BinOf[n.name] = b /\ b \in Nat /\ n.key \in Nat
  BY <1>4 DEF Chained, Objects, Bins
<1>6. DOMAIN bins[b] = 1 .. Len(bins[b]) /\ Len(bins[b]) \in Nat /\ i \in Nat
  BY Chain
<1>7. ASSUME NEW k
      PROVE  k \in Behind(n) <=> i + 1 \in DOMAIN bins[b] /\ k = bins[b][i + 1].key
  <2>1. k \in Behind(n) <=> \E j \in DOMAIN bins[b] : j > 1 /\ bins[b][j - 1] = n /\ k = bins[b][j].key
    BY <1>5 DEF Behind
  <2>2. ASSUME NEW j \in DOMAIN bins[b], j > 1, bins[b][j - 1] = n PROVE j = i + 1
    <3>1. j - 1 \in DOMAIN bins[b] /\ j \in Nat
      BY <1>6, <2>2
    <3>2. j - 1 = i
      BY <1>4, <2>2, <3>1 DEF Chained
    <3> QED BY <3>1, <3>2
  <2>3. ASSUME i + 1 \in DOMAIN bins[b] PROVE i + 1 > 1 /\ bins[b][(i + 1) - 1] = n
    <3>1. i + 1 > 1 /\ (i + 1) - 1 = i
      BY <1>6
    <3> QED BY <1>4, <3>1
  <2> QED BY <2>1, <2>2, <2>3
<1>8. /\ walk'.on = TRUE /\ walk'.bin = b + 1 /\ walk'.now = {n.key}
      /\ walk'.next = Behind(n) /\ walk'.owed = walk.owed \ {n.key}
  BY <1>1, <1>2, <1>5 DEF WalkOK
<1>9. Behind(n) \subseteq Nat
  <2>1. ASSUME i + 1 \in DOMAIN bins[b] PROVE bins[b][i + 1].key \in Nat
    BY <2>1, Members DEF Objects
  <2> QED BY <1>7, <2>1
<1>10. walk' \in [on : BOOLEAN, bin : Nat, now : SUBSET Nat, next : SUBSET Nat, owed : SUBSET Nat]
  <2>1. \A w \in [on : BOOLEAN, bin : Nat, now : SUBSET Nat, next : SUBSET Nat, owed : SUBSET Nat] :
          \A p \in Nat : \A x, y, z \in SUBSET Nat :
            [w EXCEPT !.bin = p, !.now = x, !.next = y, !.owed = z]
              \in [on : BOOLEAN, bin : Nat, now : SUBSET Nat, next : SUBSET Nat, owed : SUBSET Nat]
    OBVIOUS
  <2>2. b + 1 \in Nat /\ {n.key} \in SUBSET Nat /\ walk.owed \ {n.key} \in SUBSET Nat /\ Behind(n) \in SUBSET Nat
    BY <1>5, <1>9 DEF WalkOK
  <2>3. walk \in [on : BOOLEAN, bin : Nat, now : SUBSET Nat, next : SUBSET Nat, owed : SUBSET Nat]
    BY DEF WalkOK
  <2>4. walk' = [walk EXCEPT !.bin = b + 1, !.now = {n.key}, !.next = Behind(n), !.owed = walk.owed \ {n.key}]
    BY <1>1, <1>5
  <2> QED BY <2>1, <2>2, <2>3, <2>4
\* What is owed is not before the node met.
<1>11. ASSUME NEW k \in walk.owed, NEW c \in Bins, NEW j \in DOMAIN bins[c], At(c, j, k), Ahead(c, j)
       PROVE  c > b \/ (c = b /\ j >= i)
  <2>1. j \in Nat /\ c \in Nat /\ j >= 1
    BY Chain DEF Bins
  <2>2. CASE walk.next # {}
    <3>1. n.key \in walk.next /\ \A l \in walk.next : l = n.key
      BY <1>1, <2>2 DEF NextToMeet, WalkOK
    <3>2. PICK l \in DOMAIN bins[walk.bin - 1] : walk.bin - 1 \in Bins /\ At(walk.bin - 1, l, n.key)
      BY <3>1 DEF WalkOK
    <3>3. At(b, i, n.key)
      BY <1>4 DEF At
    <3>4. walk.bin - 1 = b /\ walk.bin \in Nat
      BY <3>2, <3>3, OnePlace DEF WalkOK
    <3>5. CASE c >= walk.bin
      BY <1>5, <2>1, <3>4, <3>5
    <3>6. CASE c = walk.bin - 1 /\ \E m \in DOMAIN bins[c] : m <= j /\ bins[c][m].key \in walk.next
      <4>1. PICK m \in DOMAIN bins[c] : m <= j /\ bins[c][m].key \in walk.next
        BY <3>6
      <4>2. At(b, m, n.key) /\ c = b
        BY <3>1, <3>4, <3>6, <4>1 DEF At
      <4>3. m = i
        BY <3>3, <4>2, OnePlace
      <4> QED BY <1>6, <2>1, <4>1, <4>2, <4>3
    <3> QED BY <1>11, <3>5, <3>6 DEF Ahead
  <2>3. CASE walk.next = {}
    <3> DEFINE used == {d \in Bins : d >= walk.bin /\ bins[d] # <<>>}
    <3>1. n.key \in FirstFrom(walk.bin)
      BY <1>1, <2>3 DEF NextToMeet
    <3>2. used # {} /\ n.key = Head(bins[Min(used)]).key
      BY <3>1 DEF FirstFrom
    <3>3. Min(used) \in used /\ \A d \in used : Min(used) <= d
      <4>1. used \in SUBSET Nat
        BY DEF Bins
      <4> HIDE DEF used
      <4> QED BY <3>2, <4>1, MinOf
    <3>4. Min(used) \in Bins /\ At(Min(used), 1, n.key)
      <4>1. bins[Min(used)] # <<>> /\ bins[Min(used)] \in Seq(Node)
        BY <3>3, Chain
      <4>2. 1 \in DOMAIN bins[Min(used)] /\ Head(bins[Min(used)]) = bins[Min(used)][1]
        BY <4>1, EmptySeq, LenProperties
      <4> QED BY <3>2, <3>3, <4>2 DEF At
    <3>5. At(b, i, n.key)
      BY <1>4 DEF At
    <3>6. Min(used) = b /\ i = 1
      BY <3>4, <3>5, OnePlace
    <3>7. c >= walk.bin
      BY <1>11, <2>3 DEF Ahead
    <3>8. c \in used
      BY <3>7, Chain
    <3>9. b <= c
      BY <3>3, <3>6, <3>8
    <3> QED BY <1>5, <2>1, <3>6, <3>9
  <2> QED BY <2>2, <2>3
<1>12. ASSUME NEW k \in walk'.owed
       PROVE  \E c \in Bins : \E j \in DOMAIN bins'[c] : At(c, j, k)' /\ Ahead(c, j)'
  <2>1. k \in walk.owed /\ k # n.key
    BY <1>8
  <2>2. PICK c \in Bins : \E j \in DOMAIN bins[c] : At(c, j, k) /\ Ahead(c, j)
    BY <2>1 DEF WalkOK
  <2>3. PICK j \in DOMAIN bins[c] : At(c, j, k) /\ Ahead(c, j)
    BY <2>2
  <2>4. c > b \/ (c = b /\ j >= i)
    BY <1>11, <2>1, <2>3
  <2>5. At(c, j, k)'
    BY <1>2, <2>3 DEF At, Bins
  <2>6. Ahead(c, j)'
    <3>1. CASE c > b
      <4>1. c >= b + 1
        BY <1>5, <3>1 DEF Bins
      <4> QED BY <1>8, <4>1 DEF Ahead
    <3>2. CASE c = b
      <4>1. j # i
        BY <1>4, <2>1, <2>3, <3>2 DEF At
      <4>2. i + 1 \in DOMAIN bins[b] /\ i + 1 <= j
        <5>1. j \in DOMAIN bins[b] /\ j > i
          BY <1>5, <1>6, <2>4, <3>2, <4>1
        <5> QED BY <1>6, <5>1
      <4>3. bins[b][i + 1].key \in walk'.next /\ c = walk'.bin - 1
        BY <1>5, <1>7, <1>8, <3>2, <4>2
      <4> QED BY <1>2, <3>2, <4>2, <4>3 DEF Ahead
    <3> QED BY <2>4, <3>1, <3>2
  <2> QED BY <1>2, <2>5, <2>6
<1>13. ASSUME NEW k \in walk'.next
       PROVE  walk'.bin - 1 \in Bins /\ \E j \in DOMAIN bins'[walk'.bin - 1] : At(walk.bin - 1, j, k)'
  <2>1. walk'.bin - 1 = b
    BY <1>5, <1>8
  <2>2. i + 1 \in DOMAIN bins[b] /\ k = bins[b][i + 1].key
    BY <1>7, <1>8
  <2>3. At(walk.bin - 1, i + 1, k)'
    BY <1>2, <2>1, <2>2 DEF At, Bins
  <2> QED BY <1>2, <2>1, <2>2, <2>3
<1>14. walk'.now \cap (walk'.next \cup walk'.owed) = {}
  <2>1. n.key \notin Behind(n)
    <3>1. SUFFICES ASSUME n.key \in Behind(n) PROVE FALSE
      OBVIOUS
    <3>2. At(b, i + 1, n.key) /\ At(b, i, n.key)
      BY <1>4, <1>7, <3>1 DEF At
    <3>3. i + 1 = i
      BY <3>2, OnePlace
    <3> QED BY <1>6, <3>3
  <2> QED BY <1>8, <2>1
<1>15. \A k, l \in walk'.next : k = l
  BY <1>7, <1>8
<1> QED BY <1>8, <1>10, <1>12, <1>13, <1>14, <1>15 DEF WalkOK, Bins

\* With no bin to come it owes nothing.
LEMMA Ended ==
  ASSUME BinsFit, Chained, WalkOK, WalkEnd
  PROVE  WalkOK' /\ walk' = NoWalk
<1>1. walk.on /\ NextToMeet = {} /\ walk' = [NoWalk EXCEPT !.owed = walk.owed]
  BY DEF WalkEnd
<1>2. walk.next = {} /\ \A b \in Bins : b >= walk.bin => bins[b] = <<>>
  BY <1>1 DEF NextToMeet, FirstFrom
<1>3. walk.owed = {}
  <2>1. ASSUME NEW k \in walk.owed PROVE FALSE
    <3>1. PICK b \in Bins : \E i \in DOMAIN bins[b] : At(b, i, k) /\ Ahead(b, i)
      BY DEF WalkOK
    <3>2. PICK i \in DOMAIN bins[b] : At(b, i, k) /\ Ahead(b, i)
      BY <3>1
    <3>3. bins[b] = <<>>
      BY <1>2, <3>2 DEF Ahead
    <3> QED BY <3>2, <3>3
  <2> QED BY <2>1
<1>4. walk' = NoWalk
  BY <1>1, <1>3 DEF NoWalk
<1> QED BY <1>4 DEF WalkOK, NoWalk

-----------------------------------------------------------------------------
(* The steps of an enumeration by continuations. *)

\* Where a continuation leads.
LEMMA FollowingPlace ==
  ASSUME BinsFit, Chained, NEW b \in Bins, NEW item \in Nat, item < Len(bins[b])
  PROVE  /\ Following(b, item) \in (Bins \cup {-1}) \X Nat
         /\ Following(b, item) # Start
         /\ Following(b, item) # End => Within(Following(b, item))
         /\ \A c \in Bins : \A j \in DOMAIN bins[c] :
              Later(<<b, item>>, c, j) /\ ~ (c = b /\ j = item + 1) =>
                Following(b, item) # End /\ Later(Following(b, item), c, j)
<1> DEFINE later == {c \in Bins : c > b /\ bins[c] # <<>>}
<1>1. b \in Nat /\ Len(bins[b]) \in Nat
  BY Chain DEF Bins
<1>2. CASE item + 1 < Len(bins[b])
  <2>1. Following(b, item) = <<b, item + 1>>
    BY <1>2 DEF Following
  <2>2. ASSUME NEW c \in Bins, NEW j \in DOMAIN bins[c], Later(<<b, item>>, c, j), ~ (c = b /\ j = item + 1)
        PROVE  Later(<<b, item + 1>>, c, j)
    <3>1. j \in Nat
      BY Chain
    <3> QED BY <1>1, <2>2, <3>1 DEF Later
  <2>3. item + 1 # 0 /\ b # -1
    BY <1>1
  <2>4. /\ <<b, item + 1>> \in (Bins \cup {-1}) \X Nat
        /\ <<b, item + 1>> # Start /\ <<b, item + 1>> # End
    BY <2>3 DEF Start, End
  <2>5. Within(<<b, item + 1>>)
    BY <1>1, <1>2 DEF Within
  <2> QED BY <2>1, <2>2, <2>4, <2>5
<1>3. CASE ~ (item + 1 < Len(bins[b]))
  <2>1. ASSUME NEW c \in Bins, NEW j \in DOMAIN bins[c], Later(<<b, item>>, c, j), ~ (c = b /\ j = item + 1)
        PROVE  c \in later /\ j > 0
    <3>1. j \in 1 .. Len(bins[c]) /\ Len(bins[c]) \in Nat
      BY Chain
    <3>2. c # b
      BY <1>1, <1>3, <2>1, <3>1 DEF Later
    <3> QED BY <2>1, <3>1, <3>2 DEF Later
  <2>2. CASE later = {}
    BY <1>1, <1>3, <2>1, <2>2 DEF Following, Start, End
  <2>3. CASE later # {}
    <3>1. Following(b, item) = <<Min(later), 0>>
      BY <1>3, <2>3 DEF Following
    <3>2. Min(later) \in later /\ \A c \in later : Min(later) <= c
      <4>1. later \in SUBSET Nat
        BY DEF Bins
      <4> HIDE DEF later
      <4> QED BY <2>3, <4>1, MinOf
    <3>3. Min(later) \in Bins /\ Min(later) > b /\ bins[Min(later)] # <<>>
      BY <3>2
    <3> HIDE DEF later
    <3>4. Min(later) # 0 /\ Min(later) # -1 /\ \A c \in Bins : c \in Nat
      BY <1>1, <3>3 DEF Bins
    <3>5. 0 < Len(bins[Min(later)])
      BY <3>3, Chain, EmptySeq
    <3>6. \A c \in later : c \in Bins => c > Min(later) \/ c = Min(later)
      BY <3>2, <3>3, <3>4
    <3>7. ASSUME NEW c \in Bins, NEW j \in DOMAIN bins[c], Later(<<b, item>>, c, j), ~ (c = b /\ j = item + 1)
          PROVE  Later(<<Min(later), 0>>, c, j)
      BY <2>1, <3>6, <3>7 DEF Later
    <3> QED BY <3>1, <3>3, <3>4, <3>5, <3>7 DEF Within, Start, End
  <2> QED BY <2>2, <2>3
<1> QED BY <1>2, <1>3

\* A call finds what the enumeration owes at its place or later, and gives it
\* what is at the place.
LEMMA ScanPlace ==
  ASSUME BinsFit, Chained, ScanOK, ScanFrom.cont # End, ScanBin(ScanFrom.cont) < NBins
  PROVE  /\ ScanBin(ScanFrom.cont) \in Bins /\ ScanFrom.cont[2] \in Nat
         /\ \A k \in ScanFrom.owed :
              \E c \in Bins : \E j \in DOMAIN bins[c] :
                At(c, j, k) /\ Later(<<ScanBin(ScanFrom.cont), ScanFrom.cont[2]>>, c, j)
<1>1. CASE scan.on
  <2>1. ScanFrom = scan /\ scan.cont # Start
    BY <1>1 DEF ScanFrom, ScanOK
  <2>2. ScanBin(scan.cont) = scan.cont[1] /\ scan.cont[1] \in Bins /\ scan.cont[2] \in Nat
    BY <1>1, <2>1 DEF ScanBin, ScanOK
  <2>3. \A c, j : Later(scan.cont, c, j) <=> Later(<<scan.cont[1], scan.cont[2]>>, c, j)
    BY DEF Later
  <2> QED BY <2>1, <2>2, <2>3 DEF ScanOK
<1>2. CASE ~ scan.on
  <2> DEFINE used == {c \in Bins : bins[c] # <<>>}
             begun == {c \in Bins : c >= 0 /\ bins[c] # <<>>}
  <2>1. /\ ScanFrom.cont = Start /\ ScanFrom.cont[2] = 0
        /\ ScanFrom.owed = {n.key : n \in Nodes}
    BY <1>2 DEF ScanFrom, Start
  <2>2. FirstFrom(0) # {}
    BY <2>1 DEF ScanBin, BinsFit
  <2>3. begun # {}
    BY <2>2 DEF FirstFrom
  <2>4. ScanBin(ScanFrom.cont) = Min(used) /\ used # {}
    BY <2>1, <2>2, <2>3 DEF ScanBin
  <2>5. Min(used) \in used /\ \A c \in used : Min(used) <= c
    <3>1. used \in SUBSET Nat
      BY DEF Bins
    <3> HIDE DEF used
    <3> QED BY <2>4, <3>1, MinOf
  <2>6. ASSUME NEW k \in ScanFrom.owed
        PROVE  \E c \in Bins : \E j \in DOMAIN bins[c] : At(c, j, k) /\ Later(<<Min(used), 0>>, c, j)
    <3>1. PICK n \in Nodes : n.key = k
      BY <2>1
    <3>2. PICK c \in Bins : \E j \in DOMAIN bins[c] : bins[c][j] = n
      BY Members
    <3>3. PICK j \in DOMAIN bins[c] : bins[c][j] = n
      BY <3>2
    <3>4. At(c, j, k)
      BY <3>1, <3>3 DEF At
    <3>5. c \in used /\ j > 0
      BY Chain, <3>3
    <3>6. Min(used) <= c /\ Min(used) \in Bins
      BY <2>5, <3>5
    <3>7. c > Min(used) \/ c = Min(used)
      <4> HIDE DEF used
      <4> QED BY <3>6 DEF Bins
    <3> QED BY <3>4, <3>5, <3>7 DEF Later
  <2>7. Min(used) \in Bins
    BY <2>5
  <2> HIDE DEF used
  <2> QED BY <2>1, <2>4, <2>6, <2>7
<1> QED BY <1>1, <1>2

LEMMA Scanned ==
  ASSUME BinsFit, Chained, Objects, ScanOK, ScanNext
  PROVE  ScanOK'
<1> DEFINE s == ScanFrom
           b == ScanBin(s.cont)
           item == s.cont[2]
<1>1. /\ s.cont # End /\ b < NBins /\ item < Len(bins[b])
      /\ scan' = [s EXCEPT !.cont = Following(b, item), !.owed = @ \ {bins[b][item + 1].key}]
      /\ bins' = bins
  BY DEF ScanNext
<1>2. /\ b \in Bins /\ item \in Nat
      /\ \A k \in s.owed : \E c \in Bins : \E j \in DOMAIN bins[c] : At(c, j, k) /\ Later(<<b, item>>, c, j)
  BY <1>1, ScanPlace
<1>3. /\ s \in [on : BOOLEAN, sure : BOOLEAN, cont : (Bins \cup {-1}) \X Nat, owed : SUBSET Nat]
      /\ s.on = TRUE /\ (~ s.sure => s.owed = {})
  <2>1. CASE scan.on
    BY <2>1 DEF ScanFrom, ScanOK
  <2>2. CASE ~ scan.on
    <3>1. s = [on |-> TRUE, sure |-> TRUE, cont |-> Start, owed |-> {n.key : n \in Nodes}]
      BY <2>2 DEF ScanFrom
    <3>2. {n.key : n \in Nodes} \subseteq Nat
      BY DEF Objects
    <3>3. Start \in (Bins \cup {-1}) \X Nat
      BY DEF Start, Bins, BinsFit
    <3> QED BY <3>1, <3>2, <3>3
  <2> QED BY <2>1, <2>2
<1> HIDE DEF s, b, item
<1> DEFINE next == Following(b, item)
<1>4. /\ next \in (Bins \cup {-1}) \X Nat
      /\ next # Start
      /\ next # End => Within(next)
      /\ \A c \in Bins : \A j \in DOMAIN bins[c] :
           Later(<<b, item>>, c, j) /\ ~ (c = b /\ j = item + 1) => next # End /\ Later(next, c, j)
  BY <1>1, <1>2, FollowingPlace
<1>5. /\ scan' \in [on : BOOLEAN, sure : BOOLEAN, cont : (Bins \cup {-1}) \X Nat, owed : SUBSET Nat]
      /\ scan'.on = TRUE /\ scan'.sure = s.sure /\ scan'.cont = next
      /\ scan'.owed = s.owed \ {bins[b][item + 1].key}
  <2> HIDE DEF next
  <2>1. scan' = [s EXCEPT !.cont = next, !.owed = s.owed \ {bins[b][item + 1].key}]
    BY <1>1 DEF next
  <2> QED BY <1>3, <1>4, <2>1
<1> HIDE DEF next
<1>6. ASSUME NEW k \in scan'.owed
      PROVE  /\ scan'.cont # End
             /\ \E c \in Bins : \E j \in DOMAIN bins'[c] : At(c, j, k)' /\ Later(scan.cont, c, j)'
  <2>1. k \in s.owed /\ k # bins[b][item + 1].key
    BY <1>5
  <2>2. PICK c \in Bins : \E j \in DOMAIN bins[c] : At(c, j, k) /\ Later(<<b, item>>, c, j)
    BY <1>2, <2>1
  <2>3. PICK j \in DOMAIN bins[c] : At(c, j, k) /\ Later(<<b, item>>, c, j)
    BY <2>2
  <2>4. ~ (c = b /\ j = item + 1)
    BY <2>1, <2>3 DEF At
  <2>5. next # End /\ Later(next, c, j)
    BY <1>4, <2>3, <2>4
  <2>6. At(c, j, k)'
    BY <1>1, <2>3 DEF At, Bins
  <2>7. Later(scan.cont, c, j)'
    BY <1>5, <2>5 DEF Later
  <2> QED BY <1>1, <1>5, <2>5, <2>6, <2>7
<1>7. scan'.on => scan'.cont # Start /\ (scan'.cont = End \/ scan'.cont[1] \in Bins)
  BY <1>4, <1>5 DEF Within
<1>8. scan'.on /\ scan'.sure /\ scan'.cont # End => Within(scan.cont)'
  BY <1>1, <1>4, <1>5 DEF Within, Bins
<1>9. ~ scan'.on \/ ~ scan'.sure => scan'.owed = {}
  BY <1>3, <1>5
<1> QED BY <1>5, <1>6, <1>7, <1>8, <1>9 DEF ScanOK, Bins, Start, End

\* At the end it owes nothing.
LEMMA ScanEnded ==
  ASSUME BinsFit, Chained, ScanOK, ScanEnd
  PROVE  scan' = NoScan
<1>1. scan' = [NoScan EXCEPT !.owed = ScanFrom.owed]
  BY DEF ScanEnd
<1>2. ScanFrom.owed = {}
  <2>1. CASE scan.on
    <3>1. ScanFrom = scan /\ scan.cont # Start
      BY <2>1 DEF ScanFrom, ScanOK
    <3>2. scan.cont = End
      <4>1. scan.cont = End \/ scan.cont[1] >= NBins
        BY <3>1 DEF ScanEnd, ScanBin
      <4>2. scan.cont = End \/ scan.cont[1] \in Bins
        BY <2>1 DEF ScanOK
      <4> QED BY <4>1, <4>2 DEF Bins, BinsFit
    <3> QED BY <3>1, <3>2 DEF ScanOK
  <2>2. CASE ~ scan.on
    <3>1. Nodes = {}
      BY <2>2 DEF ScanEnd
    <3> QED BY <2>2, <3>1 DEF ScanFrom
  <2> QED BY <2>1, <2>2
<1> QED BY <1>1, <1>2 DEF NoScan

LEMMA Idle ==
  ASSUME BinsFit
  PROVE  /\ walk' = NoWalk => WalkOK'
         /\ scan' = NoScan => ScanOK'
         /\ ScanOK /\ scan' = Unsure => ScanOK'
<1>1. walk' = NoWalk => WalkOK'
  BY DEF WalkOK, NoWalk
<1>2. scan' = NoScan => ScanOK'
  BY DEF ScanOK, NoScan, Bins, BinsFit
<1>3. ASSUME ScanOK, scan' = Unsure PROVE ScanOK'
  <2>1. /\ scan' \in [on : BOOLEAN, sure : BOOLEAN, cont : (Bins \cup {-1}) \X Nat, owed : SUBSET Nat]
        /\ scan'.on = scan.on /\ scan'.cont = scan.cont /\ scan'.sure = FALSE /\ scan'.owed = {}
    BY <1>3 DEF Unsure, ScanOK
  <2> QED BY <1>3, <2>1 DEF ScanOK, Bins, Start, End
<1> QED BY <1>1, <1>2, <1>3

\* Where nothing in the chains changes.
LEMMA Untouched ==
  ASSUME HInv, bins' = bins
  PROVE  /\ Chained'
         /\ serial' \in Nat /\ serial' >= serial => Objects'
         /\ alive' = alive /\ count' = count => Counted'
         /\ walk' = walk => WalkOK'
         /\ scan' = scan => ScanOK'
<1>1. Nodes' = Nodes
  BY DEF Nodes, Bins
<1>2. Chained'
  BY DEF HInv, Chained, Bins, Node
<1>3. ASSUME serial' \in Nat, serial' >= serial PROVE Objects'
  <2>1. \A x \in 1 .. serial : x \in 1 .. serial'
    BY <1>3 DEF HInv, Objects
  <2> QED BY <1>1, <1>3, <2>1 DEF HInv, Objects
<1>4. alive' = alive /\ count' = count => Counted'
  BY <1>1 DEF HInv, Counted, Held
<1>5. walk' = walk => WalkOK'
  BY DEF HInv, WalkOK, At, Ahead, Bins, NoWalk
<1>6. scan' = scan => ScanOK'
  BY DEF HInv, ScanOK, At, Later, Within, Bins, Start, End
<1> QED BY <1>2, <1>3, <1>4, <1>5, <1>6

-----------------------------------------------------------------------------
(* The invariant. *)

LEMMA Begins == ASSUME BinsFit, Init PROVE HInv
<1>1. bins = [b \in Bins |-> <<>>] /\ alive = {} /\ count = 0 /\ serial = 0 /\ walk = NoWalk /\ scan = NoScan
  BY DEF Init
<1>2. Nodes = {}
  <2>1. \A b \in Bins : DOMAIN bins[b] = {}
    BY <1>1
  <2> QED BY <2>1 DEF Nodes, ToSet
<1>3. Chained
  BY <1>1 DEF Chained
<1>4. Objects
  BY <1>1, <1>2 DEF Objects
<1>5. Counted
  BY <1>1, <1>2, FS_EmptySet DEF Counted, Held
<1>6. WalkOK
  BY <1>1 DEF WalkOK, NoWalk
<1>7. ScanOK
  BY <1>1 DEF ScanOK, NoScan, BinsFit, Bins
<1> QED BY <1>3, <1>4, <1>5, <1>6, <1>7 DEF HInv

LEMMA Keeps == ASSUME BinsFit, HInv, [Next]_vars PROVE HInv'
<1>1. Chained /\ Objects /\ Counted /\ WalkOK /\ ScanOK
  BY DEF HInv
<1>2. ASSUME NEW name \in Names, hash_insert(name) PROVE HInv'
  <2>1. Chained' /\ Objects' /\ Counted' /\ PlacesStay
    BY <1>1, <1>2, Replaced, Added
  <2>2. walk' = walk /\ scan' = scan
    BY <1>2 DEF hash_insert
  <2> QED BY <1>1, <2>1, <2>2, StaysOwed DEF HInv
<1>3. ASSUME NEW name \in Names, InsertFails(name) PROVE HInv'
  <2>1. /\ bins' = bins /\ alive' = alive /\ count' = count /\ walk' = walk /\ scan' = scan
        /\ serial' \in Nat /\ serial' >= serial
    BY <1>1, <1>3 DEF InsertFails, Objects
  <2> QED BY <2>1, Untouched DEF HInv
<1>4. ASSUME NEW name \in Names, hash_remove(name) PROVE HInv'
  <2>1. Found(name) # {} /\ ~ walk.on /\ RemoveFrom(name) /\ serial' = serial /\ walk' = walk /\ scan' = Unsure
    BY <1>4 DEF hash_remove
  <2>2. Chained' /\ Objects' /\ Counted'
    BY <1>1, <2>1, Dropped
  <2>3. walk' = NoWalk
    BY <1>1, <2>1 DEF WalkOK
  <2> QED BY <1>1, <2>1, <2>2, <2>3, Idle DEF HInv
<1>5. ASSUME hash_destroy PROVE HInv'
  <2>1. ~ walk.on /\ walk' = walk /\ scan' = Unsure
    BY <1>5 DEF hash_destroy
  <2>2. Chained' /\ Objects' /\ Counted'
    BY <1>1, <1>5, Emptied
  <2>3. walk' = NoWalk
    BY <1>1, <2>1 DEF WalkOK
  <2> QED BY <1>1, <2>1, <2>2, <2>3, Idle DEF HInv
<1>6. ASSUME WalkBegin \/ WalkStep \/ WalkEnd PROVE HInv'
  <2>1. bins' = bins /\ alive' = alive /\ count' = count /\ serial' = serial /\ scan' = scan
    BY <1>6 DEF WalkBegin, WalkStep, WalkEnd
  <2>2. WalkOK'
    BY <1>1, <1>6, Begun, Stepped, Ended
  <2>3. serial' \in Nat /\ serial' >= serial
    BY <1>1, <2>1 DEF Objects
  <2> QED BY <2>1, <2>2, <2>3, Untouched DEF HInv
<1>7. ASSUME WalkRemove PROVE HInv'
  <2>1. PICK n \in Nodes : n.key \in walk.now /\ RemoveFrom(n.name) /\ walk' = [walk EXCEPT !.now = {}]
    BY <1>7 DEF WalkRemove
  <2>2. walk.on /\ scan' = Unsure /\ serial' = serial
    BY <1>7 DEF WalkRemove
  <2> DEFINE b == BinOf[n.name]
             i == Min(Found(n.name))
  <2>3. n.name \in Names /\ Found(n.name) # {} /\ bins[b][i] = n
    BY <1>1, FoundNode
  <2>4. b \in Bins /\ i \in DOMAIN bins[b]
    BY <1>1, <2>3, FoundPlace
  <2>5. Chained' /\ Objects' /\ Counted' /\ PlacesClose(b, i)
    BY <1>1, <2>1, <2>2, <2>3, Dropped
  <2> HIDE DEF b, i
  <2>6. WalkOK'
    BY <1>1, <2>1, <2>2, <2>3, <2>4, <2>5, MovesOwed
  <2> QED BY <1>1, <2>2, <2>5, <2>6, Idle DEF HInv
<1>8. ASSUME ScanNext \/ ScanEnd \/ ScanBad PROVE HInv'
  <2>1. bins' = bins /\ alive' = alive /\ count' = count /\ serial' = serial /\ walk' = walk
    BY <1>8 DEF ScanNext, ScanEnd, ScanBad
  <2>2. ScanOK'
    <3>1. CASE ScanNext
      BY <1>1, <3>1, Scanned
    <3>2. CASE ScanEnd
      BY <1>1, <3>2, ScanEnded, Idle
    <3>3. CASE ScanBad
      BY <3>3, Idle DEF ScanBad
    <3> QED BY <1>8, <3>1, <3>2, <3>3
  <2>3. serial' \in Nat /\ serial' >= serial
    BY <1>1, <2>1 DEF Objects
  <2> QED BY <2>1, <2>2, <2>3, Untouched DEF HInv
<1>9. ASSUME UNCHANGED vars PROVE HInv'
  <2>1. bins' = bins /\ alive' = alive /\ count' = count /\ serial' = serial /\ walk' = walk /\ scan' = scan
    BY <1>9 DEF vars
  <2>2. serial' \in Nat /\ serial' >= serial
    BY <1>1, <2>1 DEF Objects
  <2> QED BY <2>1, <2>2, Untouched DEF HInv
<1> QED BY <1>2, <1>3, <1>4, <1>5, <1>6, <1>7, <1>8, <1>9 DEF Next

\* What the chains are, what a walk owes and where it will come to it, is so in
\* every state.
THEOREM HashInductive == ASSUME BinsFit PROVE Spec => []HInv
<1>1. Init => HInv
  BY Begins
<1>2. HInv /\ [Next]_vars => HInv'
  BY Keeps
<1> QED BY <1>1, <1>2, PTL DEF Spec

LEMMA KeepsKeys == ASSUME BinsFit, HInv PROVE HashKeepsKeys
<1>1. OwnsWhatItHolds
  BY DEF HInv, Counted, Chained, OwnsWhatItHolds
<1>2. ~ walk.on => walk.owed = {}
  BY DEF HInv, WalkOK, NoWalk
<1>3. walk.next \subseteq {n.key : n \in Nodes}
  <2>1. ASSUME NEW k \in walk.next PROVE \E n \in Nodes : k = n.key
    <3>1. PICK j \in DOMAIN bins[walk.bin - 1] : walk.bin - 1 \in Bins /\ At(walk.bin - 1, j, k)
      BY DEF HInv, WalkOK
    <3> QED BY <3>1, Members DEF At
  <2> QED BY <2>1
<1>4. ~ scan.on => scan.owed = {}
  BY DEF HInv, ScanOK
<1>5. scan.on /\ scan.sure /\ scan.cont # End => scan.cont[2] < Len(bins[ScanBin(scan.cont)])
  BY DEF HInv, ScanOK, Within, ScanBin
<1> QED BY <1>1, <1>2, <1>3, <1>4, <1>5 DEF WalksMissNone, HashKeepsKeys

\* hash: a hash owns the keys and values it holds and no others, and neither
\* hash_walk nor an enumeration by continuations misses an entry.
THEOREM KeysKept == ASSUME BinsFit PROVE Spec => []HashKeepsKeys
<1>1. HInv => HashKeepsKeys
  BY KeepsKeys
<1> QED BY <1>1, HashInductive, PTL

-----------------------------------------------------------------------------
(* The database of filenames, which is kept in a hash whose keys are ids.  *)
(* It turns on no id being there twice, in the hash and in the file: what  *)
(* a part of the file then says of an id is what the whole says.           *)

\* Names are its ids.
CONSTANTS Filenames, Empty, RiscOS
VARIABLES entries, open, file, cut, exists

Files == INSTANCE FilenameDb WITH Ids <- Names

\* The library's operators are those of the database's copy.
LEMMA FilesLibrary ==
  /\ \A S : Files!Min(S) = Min(S) /\ Files!Max(S) = Max(S)
  /\ \A s, i, e : Files!InsertAt(s, i, e) = InsertAt(s, i, e)
  /\ \A s : Files!ToSet(s) = ToSet(s)
BY DEF Files!Min, Min, Files!Max, Max, Files!InsertAt, InsertAt, Files!ToSet, ToSet

Entries == [id : Names, filename : Filenames]

Distinct(s) == \A i, j \in DOMAIN s : s[i].id = s[j].id => i = j

\* A list of entries, of different ids.
Listing(s) == s \in Seq(Entries) /\ Distinct(s)

FilesInv == Listing(entries) /\ Listing(file) /\ (~ open => entries = <<>>)

-----------------------------------------------------------------------------
(* The map that a list stands for. *)

\* m gives the ids of the set R of entries their filenames.
Maps(m, R) ==
  /\ m = [id \in DOMAIN m |-> m[id]]
  /\ DOMAIN m = {e.id : e \in R}
  /\ \A e \in R : m[e.id] = e.filename

LEMMA SameMap ==
  ASSUME NEW m, NEW n, NEW R, Maps(m, R), Maps(n, R)
  PROVE  m = n
<1>1. ASSUME NEW id \in DOMAIN m PROVE m[id] = n[id]
  BY DEF Maps
<1> QED BY <1>1 DEF Maps

LEMMA ListMaps ==
  ASSUME NEW s, Listing(s)
  PROVE  Maps(Files!MapOf(s), Range(s))
<1>1. s \in Seq(Entries) /\ Len(s) \in Nat /\ DOMAIN s = 1 .. Len(s)
  BY LenProperties DEF Listing
<1>2. ASSUME NEW i \in DOMAIN s PROVE Min(Files!Position(s, s[i].id)) = i
  <2>1. i \in Files!Position(s, s[i].id) /\ Files!Position(s, s[i].id) \subseteq Nat
    BY <1>1 DEF Files!Position
  <2>2. Min(Files!Position(s, s[i].id)) \in Files!Position(s, s[i].id)
    BY <2>1, MinOf
  <2> QED BY <2>2 DEF Files!Position, Listing, Distinct
<1>3. \A i \in DOMAIN s : Files!MapOf(s)[s[i].id] = s[i].filename
  BY <1>2, FilesLibrary DEF Files!MapOf
<1>4. DOMAIN Files!MapOf(s) = {e.id : e \in Range(s)}
  BY DEF Files!MapOf, Range
<1>5. \A e \in Range(s) : Files!MapOf(s)[e.id] = e.filename
  BY <1>3 DEF Range
<1>6. Files!MapOf(s) = [id \in DOMAIN Files!MapOf(s) |-> Files!MapOf(s)[id]]
  BY DEF Files!MapOf
<1> QED BY <1>4, <1>5, <1>6 DEF Maps

\* The first entries of a list say what the list says.
LEMMA ListPart ==
  ASSUME NEW s, Listing(s), NEW n \in 0 .. Len(s)
  PROVE  /\ Listing(SubSeq(s, 1, n))
         /\ Files!Filenamemap!PartOf(Files!MapOf(SubSeq(s, 1, n)), Files!MapOf(s))
<1> DEFINE t == SubSeq(s, 1, n)
<1>1. s \in Seq(Entries) /\ Len(s) \in Nat /\ DOMAIN s = 1 .. Len(s)
  BY LenProperties DEF Listing
<1>2. /\ t \in Seq(Entries) /\ DOMAIN t = 1 .. n
      /\ \A i \in 1 .. n : t[i] = s[i]
  <2>1. 1 \in 1 .. Len(s) + 1 /\ n \in 1 - 1 .. Len(s)
    BY <1>1
  <2>2. /\ t \in Seq(Entries) /\ Len(t) = n - 1 + 1
        /\ \A i \in 1 .. n - 1 + 1 : t[i] = s[1 + i - 1]
    BY <1>1, <2>1, SubSeqProperties
  <2>3. n - 1 + 1 = n /\ \A i \in 1 .. n : 1 + i - 1 = i
    BY <1>1
  <2>4. DOMAIN t = 1 .. Len(t)
    BY <2>2, LenProperties
  <2> QED BY <2>2, <2>3, <2>4
<1> HIDE DEF t
<1>3. DOMAIN t \subseteq DOMAIN s
  BY <1>1, <1>2
<1>4. Listing(t)
  BY <1>2, <1>3 DEF Listing, Distinct
<1>5. Range(t) \subseteq Range(s)
  BY <1>2, <1>3 DEF Range
<1>6. Maps(Files!MapOf(t), Range(t)) /\ Maps(Files!MapOf(s), Range(s))
  BY <1>4, ListMaps
<1>7. ASSUME NEW id \in DOMAIN Files!MapOf(t)
      PROVE  id \in DOMAIN Files!MapOf(s) /\ Files!MapOf(t)[id] = Files!MapOf(s)[id]
  <2>1. PICK e \in Range(t) : id = e.id
    BY <1>6, <1>7 DEF Maps
  <2> QED BY <1>5, <1>6, <2>1 DEF Maps
<1> QED BY <1>4, <1>7 DEF t, Files!Filenamemap!PartOf

LEMMA EmptyList ==
  Listing(<<>>) /\ Range(<<>>) = {} /\ Files!MapOf(<<>>) = Files!Filenamemap!Nothing
BY DEF Listing, Distinct, Range, Files!MapOf, Files!Filenamemap!Nothing

-----------------------------------------------------------------------------
(* Inserting in a list. *)

\* No two entries of the set R are of one id.
OneEach(R) == \A d, e \in R : d.id = e.id => d = e

LEMMA DistinctIds ==
  ASSUME NEW s
  PROVE  Distinct(s) <=> IsInjective(s) /\ OneEach(Range(s))
<1>1. ASSUME Distinct(s) PROVE IsInjective(s) /\ OneEach(Range(s))
  BY <1>1 DEF Distinct, IsInjective, OneEach, Range
<1>2. ASSUME IsInjective(s), OneEach(Range(s)) PROVE Distinct(s)
  <2>1. \A i, j \in DOMAIN s : s[i].id = s[j].id => s[i] = s[j]
    BY <1>2 DEF OneEach, Range
  <2> QED BY <1>2, <2>1 DEF IsInjective, Distinct
<1> QED BY <1>1, <1>2

\* Behind the last entry of the bin, or of a bin before it, is a place in the list.
LEMMA PlaceOf ==
  ASSUME NEW n \in Nat, NEW before \in SUBSET (1 .. n)
  PROVE  (IF before = {} THEN 0 ELSE Max(before)) + 1 \in 1 .. n + 1
<1>1. CASE before = {}
  BY <1>1
<1>2. CASE before # {}
  <2> DEFINE behind == {n - i : i \in before}
  <2>1. behind \in SUBSET Nat /\ behind # {}
    <3>1. ASSUME NEW i \in before PROVE n - i \in Nat
      <4>1. i \in 1 .. n
        OBVIOUS
      <4> QED BY <4>1
    <3> QED BY <1>2, <3>1
  <2>2. PICK b \in behind : \A x \in behind : b <= x
    BY <2>1, MinOf
  <2>3. PICK m \in before : b = n - m
    BY <2>2
  <2>4. ASSUME NEW i \in before PROVE m >= i
    <3>1. n - m <= n - i
      BY <2>2, <2>3
    <3> QED BY <3>1
  <2>5. Max(before) \in before
    BY <2>4, Zenon DEF Max
  <2>6. PICK k : k = Max(before)
    OBVIOUS
  <2>7. k \in 1 .. n
    BY <2>5, <2>6
  <2>8. k + 1 \in 1 .. n + 1
    BY <2>7
  <2> QED BY <1>2, <2>6, <2>8
<1> QED BY <1>1, <1>2

\* hash_insert leaves one entry of the id, as it was given, and the others.
LEMMA Insertion ==
  ASSUME NEW s, Listing(s), NEW id \in Names, NEW filename \in Filenames
  PROVE  /\ Listing(Files!hash_insert(s, id, filename))
         /\ Range(Files!hash_insert(s, id, filename)) =
              {e \in Range(s) : e.id # id} \cup {Files!Entry(id, filename)}
<1> DEFINE e == Files!Entry(id, filename)
           t == Files!hash_insert(s, id, filename)
<1>1. s \in Seq(Entries) /\ Len(s) \in Nat /\ DOMAIN s = 1 .. Len(s)
  BY LenProperties DEF Listing
<1>2. e \in Entries /\ e.id = id /\ e.filename = filename
  BY DEF Entries, Files!Entry
<1>3. \A i \in 1 .. Len(s) : s[i] \in Entries
  BY <1>1, ElementOfSeq
<1>4. CASE Files!Position(s, id) # {}
  <2>1. PICK p : p = Min(Files!Position(s, id))
    OBVIOUS
  <2>2. Files!Position(s, id) \subseteq Nat
    BY <1>1 DEF Files!Position
  <2>3. p \in DOMAIN s /\ s[p].id = id
    BY <1>4, <2>1, <2>2, MinOf DEF Files!Position
  <2>4. t = [s EXCEPT ![p].filename = filename]
    BY <1>4, <2>1, FilesLibrary DEF Files!hash_insert
  <2>5. [s[p] EXCEPT !.filename = filename] = e
    BY <1>1, <1>3, <2>3 DEF Entries, Files!Entry
  <2>6. t = [s EXCEPT ![p] = e]
    BY <2>4, <2>5
  <2>7. /\ t \in Seq(Entries) /\ DOMAIN t = DOMAIN s
        /\ \A i \in DOMAIN s : t[i] = IF i = p THEN e ELSE s[i]
    BY <1>1, <1>2, <2>3, <2>6, ExceptSeq, LenProperties
  <2> HIDE DEF t, e
  <2>8. \A i \in DOMAIN s : t[i].id = s[i].id
    BY <1>2, <2>3, <2>7
  <2>9. Distinct(t)
    BY <2>7, <2>8 DEF Distinct, Listing
  <2>10. \A i \in DOMAIN s : s[i].id = id <=> i = p
    BY <2>3 DEF Listing, Distinct
  <2>11. Range(t) = {d \in Range(s) : d.id # id} \cup {e}
    BY <2>3, <2>7, <2>10 DEF Range
  <2> QED BY <2>7, <2>9, <2>11 DEF t, e, Listing
<1>5. CASE Files!Position(s, id) = {}
  <2> DEFINE before == {i \in DOMAIN s : BinOf[s[i].id] <= BinOf[id]}
  <2>1. PICK p : p = (IF before = {} THEN 0 ELSE Max(before)) + 1
    OBVIOUS
  <2>2. before \in SUBSET (1 .. Len(s))
    BY <1>1
  <2>3. t = InsertAt(s, p, e)
    BY <1>5, <2>1, FilesLibrary DEF Files!hash_insert
  <2> HIDE DEF before, e
  <2>4. p \in 1 .. Len(s) + 1
    BY <1>1, <2>1, <2>2, PlaceOf
  <2>5. \A d \in Range(s) : d.id # id
    BY <1>5 DEF Files!Position, Range
  <2>6. e \notin Range(s)
    BY <1>2, <2>5
  <2>7. IsInjective(s) /\ OneEach(Range(s))
    BY DistinctIds DEF Listing
  <2>8. t \in Seq(Entries)
    BY <1>1, <1>2, <2>3, <2>4, Inserted
  <2>9. IsInjective(t) /\ Range(t) = Range(s) \cup {e}
    BY <1>1, <1>2, <2>3, <2>4, <2>6, <2>7, InsertedDistinct
  <2> HIDE DEF t
  <2>10. OneEach(Range(t))
    BY <1>2, <2>5, <2>7, <2>9 DEF OneEach
  <2>11. Distinct(t)
    BY <2>9, <2>10, DistinctIds
  <2>12. {d \in Range(s) : d.id # id} = Range(s)
    BY <2>5
  <2> QED BY <2>8, <2>9, <2>11, <2>12 DEF t, e, Listing
<1> QED BY <1>4, <1>5

\* And an entry of a new id behind the others.
LEMMA Appended ==
  ASSUME NEW s, Listing(s), NEW e \in Entries, \A d \in Range(s) : d.id # e.id
  PROVE  Listing(Append(s, e)) /\ Range(Append(s, e)) = Range(s) \cup {e}
<1> DEFINE t == Append(s, e)
<1>1. s \in Seq(Entries) /\ Len(s) \in Nat /\ DOMAIN s = 1 .. Len(s)
  BY LenProperties DEF Listing
<1>2. /\ t \in Seq(Entries) /\ DOMAIN t = 1 .. Len(s) + 1
      /\ \A i \in 1 .. Len(s) : t[i] = s[i]
      /\ t[Len(s) + 1] = e
  BY <1>1, AppendProperties, LenProperties
<1> HIDE DEF t
<1>3. \A i \in 1 .. Len(s) : s[i].id # e.id
  BY <1>1 DEF Range
<1>4. ASSUME NEW i \in DOMAIN t, NEW j \in DOMAIN t, t[i].id = t[j].id PROVE i = j
  <2>1. i \in 1 .. Len(s) \/ i = Len(s) + 1
    BY <1>1, <1>2
  <2>2. j \in 1 .. Len(s) \/ j = Len(s) + 1
    BY <1>1, <1>2
  <2> QED BY <1>1, <1>2, <1>3, <1>4, <2>1, <2>2 DEF Listing, Distinct
<1>5. Range(t) = Range(s) \cup {e}
  <2>1. 1 .. Len(s) + 1 = (1 .. Len(s)) \cup {Len(s) + 1}
    BY <1>1
  <2> QED BY <1>1, <1>2, <2>1 DEF Range
<1> QED BY <1>2, <1>4, <1>5 DEF t, Listing, Distinct

-----------------------------------------------------------------------------
(* The walks of a list, entry by entry: the lines that are read into a new *)
(* hash, and the entries that prune_cb leaves.                             *)

\* The list that a walk goes on from s with, where it meets e.
Walked(reading, s, e) ==
  IF reading THEN Files!hash_insert(s, e.id, e.filename)
  ELSE IF Files!Pruned(e) THEN s ELSE Append(s, e)

\* f gives what the walk of the first n of a list's entries makes.
IsWalk(f, reading, list, n) ==
  /\ DOMAIN f = 0 .. n
  /\ f[0] = <<>>
  /\ \A k \in 1 .. n : f[k] = Walked(reading, f[k - 1], list[k])

LEMMA WalkExists ==
  ASSUME NEW reading, NEW list, NEW n \in Nat
  PROVE  \E f : IsWalk(f, reading, list, n)
<1> DEFINE Bad == {m \in Nat : ~ \E f : IsWalk(f, reading, list, m)}
<1> SUFFICES ASSUME Bad # {} PROVE FALSE
  OBVIOUS
<1>1. PICK m : m = Min(Bad)
  OBVIOUS
<1>2. m \in Bad /\ \A v \in Bad : m <= v
  BY <1>1, MinOf
<1>3. m # 0
  <2>1. IsWalk([k \in 0 .. 0 |-> <<>>], reading, list, 0)
    BY DEF IsWalk
  <2> QED BY <2>1, <1>2
<1>4. m \in Nat /\ m - 1 \in Nat /\ ~ m <= m - 1
  BY <1>2, <1>3
<1>5. PICK f : IsWalk(f, reading, list, m - 1)
  BY <1>2, <1>4
<1> DEFINE g == [k \in 0 .. m |-> IF k = m THEN Walked(reading, f[m - 1], list[m]) ELSE f[k]]
<1>6. /\ DOMAIN g = 0 .. m /\ g[m] = Walked(reading, f[m - 1], list[m])
      /\ \A k \in 0 .. m - 1 : g[k] = f[k]
  BY <1>4
<1> HIDE DEF g
<1>7. g[0] = <<>>
  BY <1>4, <1>5, <1>6 DEF IsWalk
<1>8. ASSUME NEW k \in 1 .. m PROVE g[k] = Walked(reading, g[k - 1], list[k])
  <2>1. CASE k = m
    BY <2>1, <1>4, <1>6
  <2>2. CASE k # m
    <3>1. k \in 1 .. m - 1 /\ k \in 0 .. m - 1 /\ k - 1 \in 0 .. m - 1
      BY <2>2, <1>4
    <3> QED BY <3>1, <1>5, <1>6 DEF IsWalk
  <2> QED BY <2>1, <2>2
<1>9. IsWalk(g, reading, list, m)
  BY <1>6, <1>7, <1>8 DEF IsWalk
<1> QED BY <1>2, <1>9

\* The entries of the first n of a list's that a walk keeps.
KeptOf(reading, list, n) == {list[k] : k \in {i \in 1 .. n : reading \/ ~ Files!Pruned(list[i])}}

\* A walk of a list makes a list, of those it keeps.
LEMMA WalkKeeps ==
  ASSUME NEW reading \in BOOLEAN, NEW list, Listing(list),
         NEW f, IsWalk(f, reading, list, Len(list)), NEW n \in 0 .. Len(list)
  PROVE  Listing(f[n]) /\ Range(f[n]) = KeptOf(reading, list, n)
<1> DEFINE Good(m) == Listing(f[m]) /\ Range(f[m]) = KeptOf(reading, list, m)
           Bad == {m \in Nat : m <= Len(list) /\ ~ Good(m)}
<1>1. list \in Seq(Entries) /\ Len(list) \in Nat /\ DOMAIN list = 1 .. Len(list)
  BY LenProperties DEF Listing
<1>2. Good(0)
  <2>1. f[0] = <<>> /\ KeptOf(reading, list, 0) = {}
    BY DEF IsWalk, KeptOf
  <2> QED BY <2>1, EmptyList
<1>3. ASSUME Bad # {} PROVE FALSE
  <2>1. PICK m : m = Min(Bad)
    OBVIOUS
  <2>2. m \in Bad /\ \A v \in Bad : m <= v
    BY <2>1, <1>3, MinOf
  <2>3. m # 0
    BY <2>2, <1>2
  <2>4. m - 1 \in Nat /\ m - 1 <= Len(list) /\ ~ m <= m - 1 /\ m \in 1 .. Len(list)
    BY <1>1, <2>2, <2>3
  <2> DEFINE e == list[m]
             s == f[m - 1]
  <2>5. Listing(s) /\ Range(s) = KeptOf(reading, list, m - 1)
    BY <2>2, <2>4
  <2>6. f[m] = Walked(reading, s, e)
    BY <2>4 DEF IsWalk
  <2>7. e \in Entries
    BY <1>1, <2>4, ElementOfSeq
  <2>8. \A d \in KeptOf(reading, list, m - 1) : d.id # e.id
    <3>1. ASSUME NEW k \in 1 .. m - 1 PROVE list[k].id # list[m].id
      <4>1. k \in 1 .. Len(list) /\ k # m
        BY <1>1, <2>4
      <4> QED BY <1>1, <2>4, <4>1 DEF Listing, Distinct
    <3> QED BY <3>1 DEF KeptOf
  <2>9. 1 .. m = (1 .. m - 1) \cup {m} /\ m \notin 1 .. m - 1
    BY <2>4
  <2>10. KeptOf(reading, list, m) =
           KeptOf(reading, list, m - 1) \cup (IF reading \/ ~ Files!Pruned(e) THEN {e} ELSE {})
    BY <2>9 DEF KeptOf
  <2> HIDE DEF s, e
  <2>11. CASE reading
    <3>1. e.id \in Names /\ e.filename \in Filenames /\ Files!Entry(e.id, e.filename) = e
      BY <2>7 DEF Entries, Files!Entry
    <3>2. /\ Listing(Files!hash_insert(s, e.id, e.filename))
          /\ Range(Files!hash_insert(s, e.id, e.filename)) =
               {d \in Range(s) : d.id # e.id} \cup {Files!Entry(e.id, e.filename)}
      BY <2>5, <3>1, Insertion
    <3>3. {d \in Range(s) : d.id # e.id} = Range(s)
      BY <2>5, <2>8
    <3>4. f[m] = Files!hash_insert(s, e.id, e.filename)
      BY <2>6, <2>11 DEF Walked
    <3>5. Good(m)
      BY <2>5, <2>10, <2>11, <3>1, <3>2, <3>3, <3>4
    <3> QED BY <2>2, <3>5
  <2>12. CASE ~ reading /\ ~ Files!Pruned(e)
    <3>1. Listing(Append(s, e)) /\ Range(Append(s, e)) = Range(s) \cup {e}
      BY <2>5, <2>7, <2>8, Appended
    <3>2. f[m] = Append(s, e)
      BY <2>6, <2>12 DEF Walked
    <3>3. Good(m)
      BY <2>5, <2>10, <2>12, <3>1, <3>2
    <3> QED BY <2>2, <3>3
  <2>13. CASE ~ reading /\ Files!Pruned(e)
    <3>1. f[m] = s
      BY <2>6, <2>13 DEF Walked
    <3>2. Good(m)
      BY <2>5, <2>10, <2>13, <3>1
    <3> QED BY <2>2, <3>2
  <2> QED BY <2>11, <2>12, <2>13
<1> QED BY <1>1, <1>3

\* A file that is read is found again as it was.
LEMMA ReadingKeeps ==
  ASSUME NEW lines, Listing(lines)
  PROVE  Listing(Files!Reading(lines)) /\ Files!MapOf(Files!Reading(lines)) = Files!MapOf(lines)
<1> DEFINE N == Len(lines)
           IsIt(g) == g = [n \in 0 .. N |->
                             IF n = 0 THEN <<>>
                             ELSE Files!hash_insert(g[n - 1], lines[n].id, lines[n].filename)]
<1>1. N \in Nat /\ DOMAIN lines = 1 .. N
  BY LenProperties DEF Listing
<1>2. PICK f : IsWalk(f, TRUE, lines, N)
  BY <1>1, WalkExists
<1>3. IsIt([n \in 0 .. N |-> f[n]])
  <2>1. \A n \in 0 .. N : n # 0 => n \in 1 .. N /\ n - 1 \in 0 .. N
    BY <1>1
  <2> QED BY <1>1, <1>2, <2>1 DEF IsWalk, Walked
<1>4. PICK h : IsIt(h) /\ Files!Reading(lines) = h[N]
  BY <1>3 DEF Files!Reading
<1>5. IsWalk(h, TRUE, lines, N)
  <2>1. \A n \in 1 .. N : n # 0 /\ n \in 0 .. N
    BY <1>1
  <2>2. 0 \in 0 .. N
    BY <1>1
  <2> QED BY <1>4, <2>1, <2>2 DEF IsWalk, Walked
<1>6. N \in 0 .. N
  BY <1>1
<1> HIDE DEF IsIt
<1>7. Listing(h[N]) /\ Range(h[N]) = KeptOf(TRUE, lines, N)
  BY <1>5, <1>6, WalkKeeps
<1>8. KeptOf(TRUE, lines, N) = Range(lines)
  BY <1>1 DEF KeptOf, Range
<1>9. Listing(Files!Reading(lines)) /\ Range(Files!Reading(lines)) = Range(lines)
  BY <1>4, <1>7, <1>8
<1>10. Maps(Files!MapOf(Files!Reading(lines)), Range(lines)) /\ Maps(Files!MapOf(lines), Range(lines))
  BY <1>9, ListMaps
<1> QED BY <1>9, <1>10, SameMap

\* What is left of a hash are the entries that prune_cb does not remove.
LEMMA UnprunedKeeps ==
  ASSUME NEW s, Listing(s)
  PROVE  Listing(Files!Unpruned(s)) /\ Range(Files!Unpruned(s)) = {e \in Range(s) : ~ Files!Pruned(e)}
<1> DEFINE N == Len(s)
           IsIt(g) == g = [n \in 0 .. N |->
                             IF n = 0 THEN <<>>
                             ELSE IF Files!Pruned(s[n]) THEN g[n - 1] ELSE Append(g[n - 1], s[n])]
<1>1. N \in Nat /\ DOMAIN s = 1 .. N
  BY LenProperties DEF Listing
<1>2. PICK f : IsWalk(f, FALSE, s, N)
  BY <1>1, WalkExists
<1>3. IsIt([n \in 0 .. N |-> f[n]])
  <2>1. \A n \in 0 .. N : n # 0 => n \in 1 .. N /\ n - 1 \in 0 .. N
    BY <1>1
  <2> QED BY <1>1, <1>2, <2>1 DEF IsWalk, Walked
<1>4. PICK h : IsIt(h) /\ Files!Unpruned(s) = h[N]
  BY <1>3 DEF Files!Unpruned
<1>5. IsWalk(h, FALSE, s, N)
  <2>1. \A n \in 1 .. N : n # 0 /\ n \in 0 .. N
    BY <1>1
  <2>2. 0 \in 0 .. N
    BY <1>1
  <2> QED BY <1>4, <2>1, <2>2 DEF IsWalk, Walked
<1>6. N \in 0 .. N
  BY <1>1
<1> HIDE DEF IsIt
<1>7. Listing(h[N]) /\ Range(h[N]) = KeptOf(FALSE, s, N)
  BY <1>5, <1>6, WalkKeeps
<1>8. KeptOf(FALSE, s, N) = {e \in Range(s) : ~ Files!Pruned(e)}
  BY <1>1 DEF KeptOf, Range
<1> QED BY <1>4, <1>7, <1>8

-----------------------------------------------------------------------------
(* What an insertion and a prune make of the map. *)

LEMMA AddMaps ==
  ASSUME NEW m, NEW R, Maps(m, R), NEW id, NEW filename
  PROVE  Maps([i \in DOMAIN m \cup {id} |-> IF i = id THEN filename ELSE m[i]],
              {e \in R : e.id # id} \cup {Files!Entry(id, filename)})
<1> DEFINE n == [i \in DOMAIN m \cup {id} |-> IF i = id THEN filename ELSE m[i]]
           S == {e \in R : e.id # id} \cup {Files!Entry(id, filename)}
<1>1. Files!Entry(id, filename).id = id /\ Files!Entry(id, filename).filename = filename
  BY DEF Files!Entry
<1>2. /\ DOMAIN n = DOMAIN m \cup {id}
      /\ n[id] = filename
      /\ \A i \in DOMAIN m : i # id => n[i] = m[i]
      /\ n = [i \in DOMAIN n |-> n[i]]
  OBVIOUS
<1>3. DOMAIN n = {e.id : e \in S}
  BY <1>1, <1>2 DEF Maps
<1>4. ASSUME NEW e \in S PROVE n[e.id] = e.filename
  <2>1. CASE e = Files!Entry(id, filename)
    BY <1>1, <1>2, <2>1
  <2>2. CASE e \in R /\ e.id # id
    <3>1. e.id \in DOMAIN m /\ m[e.id] = e.filename
      BY <2>2 DEF Maps
    <3> QED BY <1>2, <2>2, <3>1
  <2> QED BY <1>4, <2>1, <2>2
<1> QED BY <1>2, <1>3, <1>4 DEF Maps

LEMMA PruneMaps ==
  ASSUME NEW m, NEW R, Maps(m, R), NEW F
  PROVE  Maps([id \in {i \in DOMAIN m : m[i] \in F} |-> m[id]], {e \in R : e.filename \in F})
<1> DEFINE n == [id \in {i \in DOMAIN m : m[i] \in F} |-> m[id]]
           S == {e \in R : e.filename \in F}
<1>1. /\ DOMAIN n = {i \in DOMAIN m : m[i] \in F}
      /\ \A i \in DOMAIN n : n[i] = m[i]
      /\ n = [i \in DOMAIN n |-> n[i]]
  OBVIOUS
<1>2. \A e \in R : e.id \in DOMAIN m /\ m[e.id] = e.filename
  BY DEF Maps
<1>3. \A i \in DOMAIN m : \E e \in R : i = e.id
  BY DEF Maps
<1> HIDE DEF n
<1>4. DOMAIN n = {e.id : e \in S}
  <2>1. ASSUME NEW i \in DOMAIN n PROVE \E e \in S : i = e.id
    BY <1>1, <1>2, <1>3
  <2>2. ASSUME NEW e \in S PROVE e.id \in DOMAIN n
    BY <1>1, <1>2
  <2> QED BY <2>1, <2>2
<1>5. \A e \in S : n[e.id] = e.filename
  BY <1>1, <1>2
<1> QED BY <1>1, <1>4, <1>5 DEF Maps, n

-----------------------------------------------------------------------------
(* The steps. *)

LEMMA SavedWhole ==
  ASSUME FilesInv, Files!Commit
  PROVE  /\ Listing(file') /\ exists' = exists
         /\ Files!MapOf(file') = Files!MapOf(entries)
BY DEF Files!Commit, FilesInv

LEMMA SavedPart ==
  ASSUME FilesInv, Files!CommitFails
  PROVE  /\ Listing(file') /\ exists' = exists
         /\ file' = file \/ Files!Filenamemap!PartOf(Files!MapOf(file'), Files!MapOf(entries))
<1>1. CASE UNCHANGED <<file, cut>>
  BY <1>1 DEF Files!CommitFails, FilesInv
<1>2. CASE \E n \in 0 .. Len(entries) : file' = SubSeq(entries, 1, n) /\ cut' \in BOOLEAN
  <2>1. PICK n \in 0 .. Len(entries) : file' = SubSeq(entries, 1, n)
    BY <1>2
  <2>2. Listing(entries)
    BY DEF FilesInv
  <2>3. /\ Listing(SubSeq(entries, 1, n))
        /\ Files!Filenamemap!PartOf(Files!MapOf(SubSeq(entries, 1, n)), Files!MapOf(entries))
    BY <2>2, ListPart
  <2> QED BY <2>1, <2>3 DEF Files!CommitFails
<1> QED BY <1>1, <1>2 DEF Files!CommitFails

LEMMA AddSteps ==
  ASSUME FilesInv, NEW id \in Names, NEW filename \in Filenames, Files!filenamedb_add(id, filename)
  PROVE  FilesInv' /\ Files!Filenamemap!Add(id, filename)
<1>1. Listing(entries) /\ open
  BY DEF FilesInv, Files!filenamedb_add
<1>2. /\ entries' = Files!hash_insert(entries, id, filename)
      /\ UNCHANGED <<open, file, cut, exists>>
  BY DEF Files!filenamedb_add
<1>3. /\ Listing(entries')
      /\ Range(entries') = {e \in Range(entries) : e.id # id} \cup {Files!Entry(id, filename)}
  BY <1>1, <1>2, Insertion
<1>4. Maps(Files!MapOf(entries), Range(entries)) /\ Maps(Files!MapOf(entries'), Range(entries'))
  BY <1>1, <1>3, ListMaps
<1>5. Files!MapOf(entries') = [i \in DOMAIN Files!MapOf(entries) \cup {id} |->
                           IF i = id THEN filename ELSE Files!MapOf(entries)[i]]
  <2>1. PICK m : m = Files!MapOf(entries)
    OBVIOUS
  <2>2. PICK n : n = [i \in DOMAIN m \cup {id} |-> IF i = id THEN filename ELSE m[i]]
    OBVIOUS
  <2>3. Maps(m, Range(entries))
    BY <1>4, <2>1
  <2>4. Maps(n, Range(entries'))
    BY <1>3, <2>2, <2>3, AddMaps
  <2>5. Files!MapOf(entries') = n
    BY <1>4, <2>4, SameMap
  <2> QED BY <2>1, <2>2, <2>5
<1>6. FilesInv'
  BY <1>1, <1>2, <1>3 DEF FilesInv
<1> QED BY <1>2, <1>5, <1>6 DEF Files!Filenamemap!Add

LEMMA OpenSteps ==
  ASSUME FilesInv, Files!filenamedb_open
  PROVE  FilesInv' /\ Files!Filenamemap!Open
<1>1. Listing(file)
  BY DEF FilesInv
<1>2. open' = TRUE /\ entries' = Files!Reading(file) /\ UNCHANGED <<file, cut, exists>>
  BY DEF Files!filenamedb_open
<1>3. Listing(entries') /\ Files!MapOf(entries') = Files!MapOf(file)
  BY <1>1, <1>2, ReadingKeeps
<1>4. FilesInv'
  BY <1>1, <1>2, <1>3 DEF FilesInv
<1> QED BY <1>2, <1>3, <1>4 DEF Files!Filenamemap!Open

LEMMA CommitSteps ==
  ASSUME FilesInv, Files!filenamedb_commit
  PROVE  FilesInv' /\ Files!Filenamemap!Next
<1>1. open /\ UNCHANGED <<entries, open>> /\ (Files!Commit \/ Files!CommitFails)
  BY DEF Files!filenamedb_commit
<1>2. CASE Files!Commit
  <2>1. Files!Filenamemap!Save
    BY <1>1, <1>2, SavedWhole DEF Files!Filenamemap!Save
  <2> QED BY <1>1, <1>2, <2>1, SavedWhole DEF FilesInv, Files!Filenamemap!Next
<1>3. CASE Files!CommitFails
  <2>1. Files!Filenamemap!SaveFails \/ Files!Filenamemap!FilesChange
    BY <1>1, <1>3, SavedPart DEF Files!Filenamemap!SaveFails, Files!Filenamemap!FilesChange
  <2> QED BY <1>1, <1>3, <2>1, SavedPart DEF FilesInv, Files!Filenamemap!Next
<1> QED BY <1>1, <1>2, <1>3

\* An end of a session, by a close or a crash.
LEMMA EndSteps ==
  ASSUME FilesInv, Files!filenamedb_close \/ Files!Crash
  PROVE  FilesInv' /\ Files!Filenamemap!Next
<1>1. open' = FALSE /\ entries' = <<>> /\ Listing(entries')
  BY EmptyList DEF Files!filenamedb_close, Files!Crash
<1>2. Files!MapOf(entries') = Files!Filenamemap!Nothing
  BY <1>1, EmptyList
<1>3. Files!Commit \/ Files!CommitFails \/ UNCHANGED <<file, exists>>
  BY DEF Files!filenamedb_close, Files!Crash
<1>4. CASE Files!Commit
  <2>1. Files!Filenamemap!PartOf(Files!MapOf(file'), Files!MapOf(entries))
    BY <1>4, SavedWhole DEF Files!Filenamemap!PartOf
  <2>2. Files!Filenamemap!EndSession
    BY <1>2, <1>4, <2>1, SavedWhole DEF Files!Filenamemap!EndSession
  <2> QED BY <1>1, <1>4, <2>2, SavedWhole DEF FilesInv, Files!Filenamemap!Next
<1>5. CASE Files!CommitFails
  <2>1. Files!Filenamemap!EndSession \/ Files!Filenamemap!Close
    BY <1>2, <1>5, SavedPart DEF Files!Filenamemap!EndSession, Files!Filenamemap!Close
  <2> QED BY <1>1, <1>5, <2>1, SavedPart DEF FilesInv, Files!Filenamemap!Next
<1>6. CASE UNCHANGED <<file, exists>>
  <2>1. Files!Filenamemap!Close
    BY <1>2, <1>6 DEF Files!Filenamemap!Close
  <2> QED BY <1>1, <1>6, <2>1 DEF FilesInv, Files!Filenamemap!Next
<1> QED BY <1>3, <1>4, <1>5, <1>6

LEMMA PruneSteps ==
  ASSUME FilesInv, Files!filenamedb_prune
  PROVE  /\ FilesInv'
         /\ Range(entries') = {e \in Range(entries) : ~ Files!Pruned(e)}
         /\ RiscOS => Files!Filenamemap!Prune
<1>1. Listing(entries) /\ Listing(file) /\ open
  BY DEF FilesInv, Files!filenamedb_prune
<1>2. entries' = Files!Unpruned(entries) /\ UNCHANGED <<open, file, cut, exists>>
  BY DEF Files!filenamedb_prune
<1>3. Listing(entries') /\ Range(entries') = {e \in Range(entries) : ~ Files!Pruned(e)}
  BY <1>1, <1>2, UnprunedKeeps
<1>4. FilesInv'
  BY <1>1, <1>2, <1>3 DEF FilesInv
<1>5. ASSUME RiscOS PROVE Files!Filenamemap!Prune
  <2>1. Range(entries') = {e \in Range(entries) : e.filename \in exists}
    BY <1>3, <1>5 DEF Files!Pruned
  <2>2. Maps(Files!MapOf(entries), Range(entries)) /\ Maps(Files!MapOf(entries'), Range(entries'))
    BY <1>1, <1>3, ListMaps
  <2>3. Files!MapOf(entries') = [id \in {i \in DOMAIN Files!MapOf(entries) : Files!MapOf(entries)[i] \in exists} |->
                             Files!MapOf(entries)[id]]
    <3>1. PICK m : m = Files!MapOf(entries)
      OBVIOUS
    <3>2. PICK n : n = [id \in {i \in DOMAIN m : m[i] \in exists} |-> m[id]]
      OBVIOUS
    <3>3. Maps(m, Range(entries))
      BY <2>2, <3>1
    <3>4. Maps(n, Range(entries'))
      BY <2>1, <3>2, <3>3, PruneMaps
    <3>5. Files!MapOf(entries') = n
      BY <2>2, <3>4, SameMap
    <3> QED BY <3>1, <3>2, <3>5
  <2> QED BY <1>2, <2>3 DEF Files!Filenamemap!Prune
<1> QED BY <1>3, <1>4, <1>5

\* The steps that leave the hash and the lines of the file alone.
LEMMA StillSteps ==
  ASSUME FilesInv, UNCHANGED <<entries, open, file>>
  PROVE  FilesInv' /\ Files!Filenamemap!Next
<1>1. Files!Filenamemap!FilesChange
  BY DEF Files!Filenamemap!FilesChange
<1> QED BY <1>1 DEF FilesInv, Files!Filenamemap!Next

LEMMA NextSteps ==
  ASSUME FilesInv, Files!Next
  PROVE  FilesInv' /\ (RiscOS => Files!Filenamemap!Next)
<1>1. ASSUME NEW id \in Names, Files!AddFails(id) PROVE UNCHANGED <<entries, open, file>>
  BY <1>1 DEF Files!AddFails, Files!vars
<1>2. ASSUME NEW id \in Names, NEW f \in Filenames, Files!filenamedb_add(id, f)
      PROVE  FilesInv' /\ Files!Filenamemap!Next
  BY <1>2, AddSteps DEF Files!Filenamemap!Next
<1>3. CASE Files!filenamedb_open
  BY <1>3, OpenSteps DEF Files!Filenamemap!Next
<1>4. Files!OpenFails => UNCHANGED <<entries, open, file>>
  BY DEF Files!OpenFails, Files!vars
<1>5. CASE Files!filenamedb_commit
  BY <1>5, CommitSteps
<1>6. CASE Files!filenamedb_close \/ Files!Crash
  BY <1>6, EndSteps
<1>7. CASE Files!filenamedb_prune
  BY <1>7, PruneSteps DEF Files!Filenamemap!Next
<1>8. Files!FilesChange => UNCHANGED <<entries, open, file>>
  BY DEF Files!FilesChange
<1> QED BY <1>1, <1>2, <1>3, <1>4, <1>5, <1>6, <1>7, <1>8, StillSteps DEF Files!Next

-----------------------------------------------------------------------------
(* The theorems. *)

\* Neither the hash nor the file ever holds an id twice, and there is no hash
\* outside a session (filename-db.c), on any system.
THEOREM FilenamesInductive == Files!Spec => []FilesInv
<1>1. Files!Init => FilesInv
  BY EmptyList DEF Files!Init, FilesInv
<1>2. FilesInv /\ [Files!Next]_Files!vars => FilesInv'
  <2>1. ASSUME FilesInv, UNCHANGED Files!vars PROVE FilesInv'
    BY <2>1, StillSteps DEF Files!vars
  <2> QED BY <2>1, NextSteps
<1> QED BY <1>1, <1>2, PTL DEF Files!Spec

\* Where prune_cb is built for RISC OS, the database is the map that
\* filename-db.h tells of: ids keep the filename last added for them through
\* commits, failed ones, crashes and sessions.
THEOREM FilenamesImplement ==
  ASSUME RiscOS
  PROVE  Files!Spec => Files!KeepsFilenames
<1>1. Files!Init => Files!Filenamemap!Init
  BY EmptyList DEF Files!Init, Files!Filenamemap!Init
<1>2. FilesInv /\ [Files!Next]_Files!vars => [Files!Filenamemap!Next]_(Files!Filenamemap!vars)
  <2>1. ASSUME FilesInv, UNCHANGED Files!vars PROVE Files!Filenamemap!Next
    BY <2>1, StillSteps DEF Files!vars
  <2> QED BY <2>1, NextSteps
<1> QED BY <1>1, <1>2, FilenamesInductive, PTL DEF Files!Spec, Files!KeepsFilenames, Files!Filenamemap!Spec

=============================================================================
