------------------------------- MODULE Cache -------------------------------
(***************************************************************************)
(* The single-block cache of libraries/datastruct/cache/cache.c.           *)
(*                                                                         *)
(* One malloc'd block holds the header, the hash bins, a fixed pool of     *)
(* entries and the store.  The store is divided between the data of linked *)
(* entries and a list of free blocks threaded through the free space       *)
(* itself.  All lengths are rounded up to sizeof(free_t), the quantum, so  *)
(* the store is measured here in units of one quantum, numbered from 1.    *)
(*                                                                         *)
(* Linked lists are sequences: bins[0..NBins-1] are the hash chains and    *)
(* bins[NBins] the chain of free entries, as in the code; firstfree is the *)
(* free list in list order (that this is address order is a property, not  *)
(* an assumption).  A data block is one value per unit.                    *)
(*                                                                         *)
(* cache_put is several steps (pc), because its eviction loop may run any  *)
(* number of times; no other call interleaves with it.                     *)
(***************************************************************************)
EXTENDS Integers, SequencesExt

CONSTANTS
  Keys,       \* the cache keys clients use
  Values,     \* the contents of one unit of client data
  NBins,      \* c->nbins
  NEntries,   \* c->nentries
  BinOf,      \* the HASH macro: the bin of each key
  Quantum,    \* sizeof(free_t), in bytes
  StoreLen,   \* c->storelength, in units
  Lengths,    \* the byte lengths clients pass to cache_put
  TimeMax,    \* UINT_MAX, the greatest cachetime_t
  ClockBound, \* bound: no call that takes a time stamp begins at this time
  StatMax,    \* bound: the statistics saturate here
  Header,     \* a unit that holds a free_t (or was never written)
  NoPut       \* for LossyStore: no put is in progress

Bins == 0 .. NBins - 1
FreeChain == NBins          \* bins[nbins] is the chain of free entries
Entries == 1 .. NEntries
Units == 1 .. StoreLen
Times == 0 .. TimeMax

ASSUME BinsAssumption == NBins \in Nat \ {0} /\ BinOf \in [Keys -> Bins]
ASSUME StoreAssumption ==
  /\ NEntries \in Nat \ {0}
  /\ StoreLen \in Nat \ {0}
  /\ Quantum \in Nat \ {0}
ASSUME ClientAssumption == Lengths \subseteq Nat \ {0} /\ Header \notin Values
ASSUME ClockAssumption ==
  /\ TimeMax \in Nat
  /\ ClockBound \in 0 .. TimeMax + 1
  /\ StatMax \in Nat

VARIABLES
  time,       \* c->time
  bins,       \* c->bins: the hash chains and the chain of free entries
  entries,    \* c->entries: key, data (a unit, or 0 for NULL), length, time
  firstfree,  \* c->firstfree: the free blocks, in list order
  store,      \* c->store: what each unit holds
  stats,      \* c->stats
  pc,         \* where cache_put is: "idle" when no call is running
  req,        \* cache_put's key, data, rounded_length and storeptr
  out         \* what the last finished call gave its client

vars == <<time, bins, entries, firstfree, store, stats, pc, req, out>>

-----------------------------------------------------------------------------
(* Data. *)

Entry == [key : Keys, data : Units, length : 1 .. StoreLen, time : Times]

\* A free entry's fields are never read before cache_put overwrites them.
FreeEntry == [data |-> 0]

FreeBlock == [at : Units, length : 1 .. StoreLen]

NoRequest == [length |-> 0, at |-> 0]
Request == [key : Keys, value : Values, length : 1 .. StoreLen, at : Units \cup {0}]

Extent(at, length) == at .. at + length - 1

\* rounded_length, in units.
RoundedLength(length) == (length + Quantum - 1) \div Quantum

\* A client's data: the same value in each of its units.
Block(value, length) == [i \in 1 .. length |-> value]

\* What a client reads through an entry's data pointer.
Stored(e) ==
  [i \in 1 .. entries[e].length |-> store[entries[e].data + i - 1]]

Answer(result, block) == [result |-> result, block |-> block]
NoAnswer == Answer("none", <<>>)

Linked == {e \in Entries : \E b \in Bins : \E i \in DOMAIN bins[b] : bins[b][i] = e}

\* c->time++ on an unsigned int.
NextTime == (time + 1) % (TimeMax + 1)

Count(counter) ==
  stats' = [stats EXCEPT ![counter] = IF @ < StatMax THEN @ + 1 ELSE @]

NoStats == [hits |-> 0, misses |-> 0, evictions |-> 0]

-----------------------------------------------------------------------------
(* The state cache_create, cache_construct and cache_empty leave. *)

Init ==
  /\ time = 0
  /\ bins = [b \in 0 .. NBins |->
               IF b = FreeChain THEN [e \in Entries |-> e] ELSE <<>>]
  /\ entries = [e \in Entries |-> FreeEntry]
  /\ firstfree = <<[at |-> 1, length |-> StoreLen]>>
  /\ store = [u \in Units |-> Header]
  /\ stats = NoStats
  /\ pc = "idle"
  /\ req = NoRequest
  /\ out = NoAnswer

\* cache_empty: only the first free block's header is written to the store.
Empty ==
  /\ pc = "idle"
  /\ time' = 0
  /\ bins' = [b \in 0 .. NBins |->
                IF b = FreeChain THEN [e \in Entries |-> e] ELSE <<>>]
  /\ entries' = [e \in Entries |-> FreeEntry]
  /\ firstfree' = <<[at |-> 1, length |-> StoreLen]>>
  /\ store' = [store EXCEPT ![1] = Header]
  /\ stats' = NoStats
  /\ out' = NoAnswer
  /\ UNCHANGED <<pc, req>>

-----------------------------------------------------------------------------
(* cache_get: the first entry of the key's chain that has the key. *)

\* Mutant: the last entry with the key answers.
FirstHit_Last(chain, i, key) ==
  /\ i \in DOMAIN chain
  /\ entries[chain[i]].key = key
  /\ \A j \in i + 1 .. Len(chain) : entries[chain[j]].key # key

FirstHit(chain, i, key) ==
  /\ i \in DOMAIN chain
  /\ entries[chain[i]].key = key
  /\ \A j \in 1 .. i - 1 : entries[chain[j]].key # key

GetHit(key) ==
  /\ pc = "idle"
  /\ time < ClockBound
  /\ LET chain == bins[BinOf[key]]
     IN  \E i \in DOMAIN chain :
           /\ FirstHit(chain, i, key)
           /\ entries' = [entries EXCEPT ![chain[i]].time = time]
           /\ out' = Answer("hit", Stored(chain[i]))
  /\ time' = NextTime
  /\ Count("hits")
  /\ UNCHANGED <<bins, firstfree, store, pc, req>>

GetMiss(key) ==
  /\ pc = "idle"
  /\ \A i \in DOMAIN bins[BinOf[key]] : entries[bins[BinOf[key]][i]].key # key
  /\ out' = Answer("miss", <<>>)
  /\ Count("misses")
  /\ UNCHANGED <<time, bins, entries, firstfree, store, pc, req>>

\* cache_stats with reset set; without it the call only prints.
ResetStats ==
  /\ pc = "idle"
  /\ stats' = NoStats
  /\ out' = NoAnswer
  /\ UNCHANGED <<time, bins, entries, firstfree, store, pc, req>>

-----------------------------------------------------------------------------
(* purge: unlink the entry at the head of a chain and free its block. *)

\* The loop that moves left and right until they straddle the block: right
\* is block p of the list, or none when p is past its end.
Straddled(free, at, p) ==
  /\ p \in 1 .. Len(free) + 1
  /\ p <= Len(free) => free[p].at > at
  /\ \A i \in 1 .. p - 1 : free[i].at <= at

\* Mutants of Released below: the right-hand block is never absorbed; it is
\* absorbed but its length is not added; the left-hand block's length is
\* added twice; the left-hand block is never merged with.
Released_RightKept(free, block, p) ==
  IF p > 1 /\ free[p-1].at + free[p-1].length = block.at
  THEN [free EXCEPT ![p-1].length = @ + block.length]
  ELSE InsertAt(free, p, block)

Released_RightLost(free, block, p) ==
  IF p <= Len(free) /\ block.at + block.length = free[p].at
  THEN [free EXCEPT ![p] = block]
  ELSE InsertAt(free, p, block)

Released_LeftTwice(free, block, p) ==
  IF p > 1 /\ free[p-1].at + free[p-1].length = block.at
  THEN [free EXCEPT ![p-1].length = @ + @ + block.length]
  ELSE InsertAt(free, p, block)

Released_LeftKept(free, block, p) ==
  IF p <= Len(free) /\ block.at + block.length = free[p].at
  THEN [free EXCEPT ![p] = [at |-> block.at, length |-> @.length + block.length]]
  ELSE InsertAt(free, p, block)

\* The list with the block between its blocks p-1 and p, merged with each
\* of the two that it touches.
Released(free, block, p) ==
  LET meetsRight == p <= Len(free) /\ block.at + block.length = free[p].at
      meetsLeft  == p > 1 /\ free[p-1].at + free[p-1].length = block.at
      newlength  == IF meetsRight THEN block.length + free[p].length ELSE block.length
      merged     == IF meetsLeft
                    THEN [at |-> free[p-1].at, length |-> free[p-1].length + newlength]
                    ELSE [at |-> block.at, length |-> newlength]
  IN  SubSeq(free, 1, IF meetsLeft THEN p - 2 ELSE p - 1)
      \o <<merged>>
      \o SubSeq(free, IF meetsRight THEN p + 1 ELSE p, Len(free))

\* What purge leaves of the chain of free entries: e goes in front.  The
\* mutant forgets the entries that were there.
FreedEntry_Alone(e, chain) == <<e>>
FreedEntry(e, chain) == <<e>> \o chain

\* free->next is stored in the block even when the block is merged leftwards.
Purge(b) ==
  LET e     == Head(bins[b])
      block == [at |-> entries[e].data, length |-> entries[e].length]
  IN  /\ bins' = [bins EXCEPT ![b] = Tail(@), ![FreeChain] = FreedEntry(e, @)]
      /\ entries' = [entries EXCEPT ![e] = FreeEntry]
      /\ \E p \in 1 .. Len(firstfree) + 1 :
           /\ Straddled(firstfree, block.at, p)
           /\ firstfree' = Released(firstfree, block, p)
      /\ store' = [store EXCEPT ![block.at] = Header]

-----------------------------------------------------------------------------
(* evict: of the chains' first entries, the one used least recently. *)

HeadTime(b) == entries[Head(bins[b])].time

\* Mutant: the search starts at bin 1.
Evictable_NotBinZero(b) == b # 0 /\ bins[b] # <<>> /\ HeadTime(b) < TimeMax

\* "oldest" starts at UINT_MAX and the comparison is strict.
Evictable(b) == bins[b] # <<>> /\ HeadTime(b) < TimeMax

\* Mutant: the comparison the wrong way round.
EvicteeBin_Newest(b) ==
  /\ Evictable(b)
  /\ \A c \in Bins : Evictable(c) => HeadTime(b) >= HeadTime(c)

EvicteeBin(b) ==
  /\ Evictable(b)
  /\ \A c \in Bins : Evictable(c) =>
       HeadTime(b) < HeadTime(c) \/ (HeadTime(b) = HeadTime(c) /\ b <= c)

Evict ==
  /\ \E b \in Bins : EvicteeBin(b) /\ Purge(b)
  /\ Count("evictions")
  /\ UNCHANGED <<time, pc, req, out>>

\* assert(evictee != NULL) fails: the program stops.
EvictAborts ==
  /\ ~ \E b \in Bins : Evictable(b)
  /\ pc' = "abort"
  /\ UNCHANGED <<time, bins, entries, firstfree, store, stats, req, out>>

-----------------------------------------------------------------------------
(* cache_put. *)

PutTooBig(length) ==
  /\ pc = "idle"
  /\ RoundedLength(length) > StoreLen
  /\ out' = Answer("too_big", <<>>)
  /\ UNCHANGED <<time, bins, entries, firstfree, store, stats, pc, req>>

PutBegin(key, value, length) ==
  /\ pc = "idle"
  /\ time < ClockBound
  /\ RoundedLength(length) <= StoreLen
  /\ pc' = "fit"
  /\ req' = [key |-> key, value |-> value, length |-> RoundedLength(length), at |-> 0]
  /\ out' = NoAnswer
  /\ UNCHANGED <<time, bins, entries, firstfree, store, stats>>

BigEnough(i) == firstfree[i].length >= req.length

PutEvict ==
  /\ pc = "fit"
  /\ ~ \E i \in DOMAIN firstfree : BigEnough(i)
  /\ Evict \/ EvictAborts

\* A larger block gives its end, one of the right size all of itself.  The
\* mutant gives the start of the block.
TakenAt_Start(i) == firstfree[i].at
TakenAt(i) == firstfree[i].at + firstfree[i].length - req.length

\* The mutant leaves an empty block in the list when all of it was taken.
RemainingFree_Empty(i) == [firstfree EXCEPT ![i].length = @ - req.length]

RemainingFree(i) ==
  IF firstfree[i].length > req.length
  THEN [firstfree EXCEPT ![i].length = @ - req.length]
  ELSE RemoveAt(firstfree, i)

\* First fit.
PutTake ==
  /\ pc = "fit"
  /\ \E i \in DOMAIN firstfree :
       /\ BigEnough(i)
       /\ \A j \in 1 .. i - 1 : ~ BigEnough(j)
       /\ firstfree' = RemainingFree(i)
       /\ store' = [u \in Units |->
                      IF u \in Extent(TakenAt(i), req.length) THEN req.value ELSE store[u]]
       /\ req' = [req EXCEPT !.at = TakenAt(i)]
  /\ pc' = "link"
  /\ UNCHANGED <<time, bins, entries, stats, out>>

\* The block is in the store but every entry is in use.
PutEvictEntry ==
  /\ pc = "link"
  /\ bins[FreeChain] = <<>>
  /\ Evict \/ EvictAborts

\* The end of the chain.  The mutant puts the entry at its start.
Chained_First(chain, e) == <<e>> \o chain
Chained(chain, e) == Append(chain, e)

PutLink ==
  /\ pc = "link"
  /\ bins[FreeChain] # <<>>
  /\ LET e == Head(bins[FreeChain])
     IN  /\ bins' = [bins EXCEPT ![FreeChain] = Tail(@),
                                 ![BinOf[req.key]] = Chained(@, e)]
         /\ entries' = [entries EXCEPT ![e] =
                          [key |-> req.key, data |-> req.at,
                           length |-> req.length, time |-> time]]
  /\ time' = NextTime
  /\ out' = Answer("ok", [i \in 1 .. req.length |-> store[req.at + i - 1]])
  /\ pc' = "idle"
  /\ req' = NoRequest
  /\ UNCHANGED <<firstfree, store, stats>>

PutStep == PutEvict \/ PutTake \/ PutEvictEntry \/ PutLink

-----------------------------------------------------------------------------

Next ==
  \/ \E key \in Keys : GetHit(key) \/ GetMiss(key)
  \/ \E length \in Lengths : PutTooBig(length)
  \/ \E key \in Keys, value \in Values, length \in Lengths :
       PutBegin(key, value, length)
  \/ PutEvict
  \/ PutTake
  \/ PutEvictEntry
  \/ PutLink
  \/ Empty
  \/ ResetStats

Spec == Init /\ [][Next]_vars

-----------------------------------------------------------------------------
(* The cache as a LossyStore. *)

\* The entries of a chain that are in S, in the order of the chain.
Among(chain, S) ==
  LET f[i \in 0 .. Len(chain)] ==
        IF i = 0 THEN <<>>
        ELSE IF chain[i] \in S THEN Append(f[i - 1], chain[i]) ELSE f[i - 1]
  IN  f[Len(chain)]

EntriesOf(k) == {e \in ToSet(bins[BinOf[k]]) : entries[e].key = k}

\* The blocks held for the key, in the order of its bin's chain.
Held(k) ==
  LET chain == Among(bins[BinOf[k]], EntriesOf(k))
  IN  [i \in DOMAIN chain |-> Stored(chain[i])]

Putting ==
  IF pc \in {"fit", "link"}
  THEN [key |-> req.key, block |-> Block(req.value, req.length)]
  ELSE NoPut

ClientBlocks == {Block(v, n) : v \in Values, n \in 1 .. StoreLen}

ASSUME NoPutAssumption == NoPut \notin [key : Keys, block : ClientBlocks]

Promise == INSTANCE LossyStore WITH
  Blocks   <- ClientBlocks,
  None     <- NoPut,
  contents <- [k \in Keys |-> Held(k)],
  putting  <- Putting

-----------------------------------------------------------------------------
(* Properties. *)

\* Every variable has its type: the lists hold entries and blocks of the
\* cache, a call in progress has a request, and an idle cache has none.
TypeOK ==
  /\ time \in Times
  /\ bins \in [0 .. NBins -> Seq(Entries)]
  /\ entries \in [Entries -> Entry \cup {FreeEntry}]
  /\ firstfree \in Seq(FreeBlock)
  /\ store \in [Units -> Values \cup {Header}]
  /\ stats \in [hits : 0 .. StatMax, misses : 0 .. StatMax, evictions : 0 .. StatMax]
  /\ pc \in {"idle", "fit", "link", "abort"}
  /\ req \in Request \cup {NoRequest}
  /\ pc \in {"fit", "link"} => req \in Request
  /\ out \in [result : {"none", "hit", "miss", "ok", "too_big"},
              block : Seq(Values \cup {Header})]

\* cache_check: walking every chain meets each entry of the pool exactly
\* once, entries in use only on the chain their key hashes to.
EntriesOnOneChain ==
  /\ \A e \in Entries : \E b \in 0 .. NBins : \E i \in DOMAIN bins[b] : bins[b][i] = e
  /\ \A b, c \in 0 .. NBins : \A i \in DOMAIN bins[b], j \in DOMAIN bins[c] :
       bins[b][i] = bins[c][j] => b = c /\ i = j
  /\ \A b \in Bins : \A i \in DOMAIN bins[b] :
       /\ entries[bins[b][i]] \in Entry
       /\ BinOf[entries[bins[b][i]].key] = b

\* The free list is in address order and no two of its blocks touch:
\* "Liberation with sorted list" (purge) merges each block it frees.
FreeListCoalesced ==
  \A i, j \in DOMAIN firstfree : i < j =>
    firstfree[i].at + firstfree[i].length < firstfree[j].at

EntryUnits(e) == Extent(entries[e].data, entries[e].length)
FreeUnits(i) == Extent(firstfree[i].at, firstfree[i].length)
RequestUnits == IF req.at = 0 THEN {} ELSE Extent(req.at, req.length)

\* No byte of the store is given out twice: the blocks of linked entries, the
\* free blocks and the block cache_put has taken but not yet linked are
\* apart from each other and lie inside the store.
BlocksApart ==
  /\ \A e \in Linked : EntryUnits(e) \subseteq Units \ RequestUnits
  /\ \A e, f \in Linked : e # f => EntryUnits(e) \cap EntryUnits(f) = {}
  /\ \A i \in DOMAIN firstfree : FreeUnits(i) \subseteq Units \ RequestUnits
  /\ \A i \in DOMAIN firstfree, e \in Linked : FreeUnits(i) \cap EntryUnits(e) = {}
  /\ RequestUnits \subseteq Units

\* No byte of the store is lost: each is in a block of a linked entry, in a
\* free block or in the block cache_put has taken.
NothingLeaks ==
  \A u \in Units :
    \/ \E e \in Linked : u \in EntryUnits(e)
    \/ \E i \in DOMAIN firstfree : u \in FreeUnits(i)
    \/ u \in RequestUnits

\* Data survives in the store as the client gave it, and no data was
\* written over the header of a free block (memcpy in cache_put, free->next
\* in purge).
DataIntact ==
  /\ \A e \in Linked : \E v \in Values : \A u \in EntryUnits(e) : store[u] = v
  /\ \A i \in DOMAIN firstfree : store[firstfree[i].at] = Header

\* evict always finds an entry: assert(evictee != NULL) never fails, because
\* a store with nothing left in it is one free block as large as any request
\* that was not refused.  Holds while no entry is stamped UINT_MAX.
NeverAborts == pc # "abort"

\* The cache keeps the promise of LossyStore: every call, and every step of
\* cache_put, does to the blocks held and to the client's answer what an
\* action of LossyStore does, or nothing.
KeepsPromise == Promise!Spec

\* cache_put returns: "ensures that we will eventually get a block of at
\* least the right size".
PutReturns == pc \in {"fit", "link"} ~> pc = "idle"

=============================================================================
