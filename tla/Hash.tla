-------------------------------- MODULE Hash --------------------------------
(***************************************************************************)
(* datastruct/hash: chains of nodes, the ownership of keys and values, and *)
(* the two ways to walk a hash while it changes.                           *)
(*                                                                         *)
(* A key or value is an object a client allocated, with a number of its    *)
(* own; two keys of one name compare equal.  hash_walk is taken a node at  *)
(* a time, with what its callback does in between.                         *)
(***************************************************************************)
EXTENDS Integers, Sequences, SequencesExt, FiniteSetsExt

CONSTANTS
  Names,       \* the names of keys
  NBins, BinOf,
  MaxObjects,  \* bound on the objects clients allocate
  MayFail      \* whether an allocation may fail

VARIABLES
  bins,       \* h->bins: each a chain of nodes
  count,      \* h->count
  alive,      \* the objects allocated and not destroyed
  serial,     \* how many objects have been allocated
  walk,       \* hash_walk in progress, or NoWalk
  scan        \* an enumeration by continuations

vars == <<bins, count, alive, serial, walk, scan>>

Bins == 0 .. NBins - 1

\* hash_create makes a bin at least, and hash_lookup_node reduces a hash to one
\* of them.
BinsFit == NBins \in Nat \ {0} /\ BinOf \in [Names -> Bins]

Nodes == UNION {ToSet(bins[b]) : b \in Bins}
Held == {n.key : n \in Nodes} \cup {n.value : n \in Nodes}

NoWalk == [on |-> FALSE, bin |-> 0, now |-> {}, next |-> {}, owed |-> {}]
NoScan == [on |-> FALSE, sure |-> TRUE, cont |-> <<0, 0>>, owed |-> {}]

Init ==
  /\ bins = [b \in Bins |-> <<>>] /\ count = 0
  /\ alive = {} /\ serial = 0
  /\ walk = NoWalk /\ scan = NoScan

-----------------------------------------------------------------------------
(* hash_lookup_node, hash_insert and hash_remove. *)

\* The position of the node of a name in its chain, or behind it.
Found(name) == {i \in DOMAIN bins[BinOf[name]] : bins[BinOf[name]][i].name = name}

\* Mutant: the new key is kept and the old one not destroyed.
Updated_NewKey(node, key, value) == [node EXCEPT !.key = key, !.value = value]

\* An entry there is keeps its key and has its value replaced.
Updated(node, key, value) == [node EXCEPT !.value = value]

\* The client allocates a key and a value, which the hash takes over.
hash_insert(name) ==
  LET b == BinOf[name]  key == serial + 1  value == serial + 2
  IN /\ serial + 2 <= MaxObjects /\ serial' = serial + 2
     /\ IF Found(name) # {}
        THEN LET i == Min(Found(name))
             IN /\ bins' = [bins EXCEPT ![b][i] = Updated(@, key, value)]
                /\ alive' = (alive \cup {value}) \ {bins[b][i].value}
                /\ UNCHANGED count
        ELSE /\ bins' = [bins EXCEPT ![b] = Append(@, [name |-> name, key |-> key, value |-> value])]
             /\ alive' = alive \cup {key, value}
             /\ count' = count + 1
     /\ UNCHANGED <<walk, scan>>

\* With no memory for a node the client keeps both.
InsertFails(name) ==
  /\ MayFail /\ Found(name) = {}
  /\ serial + 2 <= MaxObjects /\ serial' = serial + 2
  /\ UNCHANGED <<bins, count, alive, walk, scan>>

\* hash_remove of a name there is, as clients must see to.
RemoveFrom(name) ==
  LET b == BinOf[name]  i == Min(Found(name))
  IN /\ bins' = [bins EXCEPT ![b] = RemoveAt(@, i)]
     /\ alive' = alive \ {bins[b][i].key, bins[b][i].value}
     /\ count' = count - 1

\* A removal lets an enumeration miss entries.
Unsure == [scan EXCEPT !.sure = FALSE, !.owed = {}]

hash_remove(name) ==
  /\ Found(name) # {} /\ ~ walk.on
  /\ RemoveFrom(name)
  /\ scan' = Unsure
  /\ UNCHANGED <<serial, walk>>

\* hash_destroy.
hash_destroy ==
  /\ ~ walk.on /\ Nodes # {}
  /\ bins' = [b \in Bins |-> <<>>] /\ count' = 0
  /\ alive' = alive \ Held
  /\ scan' = Unsure
  /\ UNCHANGED <<serial, walk>>

-----------------------------------------------------------------------------
(* hash_walk. *)

\* The key of the node behind that of a key in its chain, if any.
Behind(node) ==
  LET chain == bins[BinOf[node.name]]
  IN {chain[i].key : i \in {j \in DOMAIN chain : j > 1 /\ chain[j - 1] = node}}

\* The key of the first node of the bins from b on.
FirstFrom(b) ==
  LET used == {c \in Bins : c >= b /\ bins[c] # <<>>}
  IN IF used = {} THEN {} ELSE {Head(bins[Min(used)]).key}

WalkBegin ==
  /\ ~ walk.on
  /\ walk' = [NoWalk EXCEPT !.on = TRUE, !.owed = {n.key : n \in Nodes}]
  /\ UNCHANGED <<bins, count, alive, serial, scan>>

\* The node saved before the last callback, or the next bin's first.
NextToMeet == IF walk.next # {} THEN walk.next ELSE FirstFrom(walk.bin)

\* It goes to the callback, and the node behind it is saved.
WalkStep ==
  /\ walk.on
  /\ \E n \in Nodes :
       /\ n.key \in NextToMeet
       /\ walk' = [walk EXCEPT !.bin = BinOf[n.name] + 1, !.now = {n.key},
                               !.next = Behind(n), !.owed = @ \ {n.key}]
  /\ UNCHANGED <<bins, count, alive, serial, scan>>

WalkEnd ==
  /\ walk.on /\ NextToMeet = {}
  /\ walk' = [NoWalk EXCEPT !.owed = walk.owed]
  /\ UNCHANGED <<bins, count, alive, serial, scan>>

\* The callback removes its own entry, as prune_cb does.
WalkRemove ==
  /\ walk.on
  /\ \E n \in Nodes :
       /\ n.key \in walk.now
       /\ RemoveFrom(n.name)
       /\ walk' = [walk EXCEPT !.now = {}]
  /\ scan' = Unsure
  /\ UNCHANGED <<serial>>

-----------------------------------------------------------------------------
(* hash_walk_continuation: a bin and how many of its nodes were given.  A   *)
(* continuation is bin << 16 | item, here a pair, with 0 for <<0, 0>>.      *)

Start == <<0, 0>>
End == <<-1, 0>>

\* The bin a continuation means: from the start, the first that is in use.
ScanBin(cont) ==
  IF cont # Start THEN cont[1]
  ELSE IF FirstFrom(0) = {} THEN NBins
  ELSE Min({b \in Bins : bins[b] # <<>>})

\* Mutant: the next bin is entered at the second node.
Following_Skips(b, item) ==
  IF item + 1 < Len(bins[b]) THEN <<b, item + 1>>
  ELSE LET later == {c \in Bins : c > b /\ bins[c] # <<>>}
       IN IF later = {} THEN End ELSE <<Min(later), IF Len(bins[Min(later)]) > 1 THEN 1 ELSE 0>>

\* The next node of the chain, or the first of the next bin in use.
Following(b, item) ==
  IF item + 1 < Len(bins[b]) THEN <<b, item + 1>>
  ELSE LET later == {c \in Bins : c > b /\ bins[c] # <<>>}
       IN IF later = {} THEN End ELSE <<Min(later), 0>>

\* A client that begins again or goes on with what the last call gave it.
ScanFrom ==
  IF scan.on THEN scan ELSE [on |-> TRUE, sure |-> TRUE, cont |-> Start, owed |-> {n.key : n \in Nodes}]

ScanNext ==
  LET s == ScanFrom  b == ScanBin(s.cont)  item == s.cont[2]
  IN /\ s.cont # End /\ b < NBins
     /\ item < Len(bins[b])
     /\ scan' = [s EXCEPT !.cont = Following(b, item),
                           !.owed = @ \ {bins[b][item + 1].key}]
  /\ UNCHANGED <<bins, count, alive, serial, walk>>

\* result_HASH_END; what is still owed stays to be looked at.
ScanEnd ==
  /\ scan.on \/ Nodes = {}
  /\ ScanFrom.cont = End \/ ScanBin(ScanFrom.cont) >= NBins
  /\ scan' = [NoScan EXCEPT !.owed = ScanFrom.owed]
  /\ UNCHANGED <<bins, count, alive, serial, walk>>

\* result_HASH_BAD_CONT; after removals only.
ScanBad ==
  LET s == ScanFrom  b == ScanBin(s.cont)
  IN /\ s.cont # End /\ b < NBins /\ s.cont[2] >= Len(bins[b])
     /\ scan' = NoScan
  /\ UNCHANGED <<bins, count, alive, serial, walk>>

Next ==
  \/ \E name \in Names : hash_insert(name) \/ InsertFails(name) \/ hash_remove(name)
  \/ hash_destroy
  \/ WalkBegin \/ WalkStep \/ WalkEnd \/ WalkRemove
  \/ ScanNext \/ ScanEnd \/ ScanBad

Spec == Init /\ [][Next]_vars

-----------------------------------------------------------------------------
(* Properties. *)

\* The hash holds no object that was destroyed, and of those it took over
\* it destroys each that it no longer holds; the count is that of entries.
OwnsWhatItHolds ==
  /\ alive = Held
  /\ count = Cardinality(Nodes)
  /\ \A b \in Bins : \A i, j \in DOMAIN bins[b] : bins[b][i].name = bins[b][j].name => i = j

\* When a walk ends every entry there was when it began was met, though its
\* callbacks insert entries and remove their own, and the node it has saved
\* is one of the hash (walk.c:28); an enumeration by continuations misses
\* none, and no continuation goes bad, while entries are only inserted
\* between its calls (walk-cont.c:34).
WalksMissNone ==
  /\ ~ walk.on => walk.owed = {}
  /\ walk.next \subseteq {n.key : n \in Nodes}
  /\ ~ scan.on => scan.owed = {}
  /\ scan.on /\ scan.sure /\ scan.cont # End => scan.cont[2] < Len(bins[ScanBin(scan.cont)])

\* What is in the hash, and only that, is owned by it, and no walk misses any.
HashKeepsKeys == OwnsWhatItHolds /\ WalksMissNone

=============================================================================
