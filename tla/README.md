# DPTLib in TLA+

DPTLib is a library of small C components: data structures, a bit buffer and a
cache, three little databases kept in text files, rectangle packing, byte
streams that compress and decompress, pixel code, and utilities.  Nothing in it
runs concurrently.  What is hard about it is hard for other reasons: structures
threaded through memory the library manages itself, long sequences of legal
calls, clients that call back in the middle of a walk, enumerations that go on
from a number, lengths in unsigned arithmetic, and files that are half written
when a process stops.  Those are what the modules here are about.

Contents: 1 inventory, 2 what is modelled, 3 the runs, 4 the proofs, 5 what is
not covered, 6 plan.

## 1. Inventory

Paths are under `src/libraries/` unless they begin with `include/`.

### Components with state of their own

**Cache** (`datastruct/cache/cache.c`).  State: one malloc'd block with a header,
hash bins, a fixed pool of entries and a store; entries are linked on the chain
of their key's bin or on the chain of free entries, the store's free space is a
list of blocks threaded through that space.  Operations: create and construct,
put (which evicts until there is a block large enough and an entry, through
`evict` and `purge`), get (which re-stamps), empty, statistics.  Correct when:
each entry is on one chain, the free list is in address order with no two
blocks touching, no byte is in two blocks or in none, a client reads back what
it put, and `cache_put` returns.

**Bit FIFO** (`datastruct/bitfifo/bitfifo.c`).  State: head, tail, an array of
words.  Operations: enqueue from a bit offset, dequeue, clear, queries.  Correct
when it is a bounded first-in first-out queue of bits, however calls are split.

**Tag database** (`databases/tag-db/tag-db.c`).  State: `counts`, an array of
(atom, count) slots indexed by tag; an atom set of names; a hash from ids to bit
vectors of tags; a file.  Operations: open (reads the file), close and commit
(write it), add, remove, rename, tag, untag, forget, and enumerations whose
continuation the client holds.  Correct when it is a relation between ids and
tags: slots reused do not carry over taggings, counts are the numbers of
taggings, enumerations miss nothing, the file gives the relation back.

**Filename database** (`databases/filename-db/filename-db.c`).  State: a hash
from ids to atoms of file names, a file.  Operations: add, get, prune through a
callback, commit.  Correct when get answers the last name added, and prune drops
exactly the files that are gone.

**Digest database** (`databases/digest-db/digest-db.c`).  State: one atom set
shared by all users, counted.  Operations: add, get, compare, hash.

**Pickle** (`databases/pickle/`).  No state between calls.  Writes a header and
one line for each pair a reader interface gives, reads lines back through one
fixed buffer that is shifted and refilled.  Correct when what is read back is
what was written, wherever lines meet the end of the buffer, and an error is
reported.

**Hash** (`datastruct/hash/`).  State: bins of chains, a count, an optional key
and value destructor.  Operations: insert, remove, lookup, walk with a callback,
walk from a continuation.  Correct when it is a map, and a walk meets each pair
once even when its callback removes the pair it is given.

**Atom set** (`datastruct/atom/`).  State: pools of locations and of blocks; a
deleted block keeps its place with its length negated and is used again for data
of exactly that length.  Operations: new, set (rename), get, delete, for_block.
Correct when an atom goes on naming its data until it is deleted, equal data
have equal atoms, and no two live atoms share a block.

**Packer** (`geom/packer/packer.c`) and **Layout** (`geom/layout/layout.c`).
State: a page, its margins and a list of maximal free rectangles; the layout
keeps widths and positions for one run.  Operations: place at, place by, clear.
Correct when placements do not overlap and lie inside the margins, and the free
rectangles cover exactly the points not taken, each of them maximal.

**Streams** (`io/stream/`).  State: a buffer with its read position and end, and
for each kind its source: memory, a file, or another stream that it compresses or
decompresses (PackBits, move to front).  Operations: get, fill, seek, remaining.
Correct when what comes out is the transformed input however it is split into
buffers, and the end is reported once there is nothing left.

**Vector**, **bit vector**, **n-ary tree**, **linked lists**
(`datastruct/vector/`, `bitvec/`, `ntree/`, `list/`, `hlist/`).  State: an
allocation with its length and width; words of bits; parent, child and sibling
links.  Correct when they are a sequence, a set of numbers, a tree and a
sequence, and walks survive what their callbacks may do.

### Components without state

**Box** (`geom/box/`), **array utilities**, **binary search, bit arithmetic,
packing** (`utils/`, `include/utils/`): pure functions.  **Compositing**
(`framebuf/composite/`): two bitmaps, one of which it changes pixel by pixel by
a Porter-Duff rule, in integers of a byte for each component.  Correct when each
pixel is what the rule makes of the two, rounding apart, whatever the format.
The rest of the **frame buffer** (`framebuf/`), **paths** (`io/path/`),
**fortify**, **tests**: see section 5.

### How they meet

    tag db ----> atom set, bit vectors, hash, pickle, digest db (its keys)
    filename db -> atom set, hash, pickle, digest db
    pickle  ----> a reader of pairs: a hash's walk from a continuation
    layout  ----> packer ----> box
    PackBits, MTF streams ----> any stream

All of it is by call, and by callback from walks and from pickle's readers and
writers.  The digest database's atom set is the one thing shared by several
instances.  The file is the only state that outlives a process.

The hazards this gives, each at its line, are in `PROJECT.json`, with the
properties that cover it, or a note that says why none does.

## 2. What is modelled

Names follow the source's.  Mutants (operators named `X_Something` just before
`X`) are what the code would be with a likely mistake; no model uses them.
Where a call takes one step the client cannot see inside, it is one action; where
it calls back, evicts, loops or is called by a stage above it, it is as many as
that, and `pc` or a `walk` says where it has got to.

The components are independent enough that a product of them would only multiply
states.  `MCStores`, `MCStreams` and `MCStructures` therefore hold several
*side by side*: a variable (`store`, `machine`) that never changes says whose
behaviour this is, the others stay put, and the small ones take turns at the same
registers.  A property of one then says "in its own behaviours".  Where
components do interact they are composed by EXTENDS or INSTANCE: `DigestDb` on
`AtomSet`, `Layout` on `Packer` on `Box`, the stages of `PackBits` and
`MoveToFront` on each other.

### Cache: `Cache`, `CacheAge`, `LossyStore`, `MCCache`, `MCCacheAge`

`Cache` is `cache.c`.  The store is counted in quanta (`sizeof(free_t)`), to
which the code rounds every length and address.  `bins` and `firstfree` are
sequences in list order; `store` holds one value for each quantum, either a
client's data or `Header`, what `purge` writes when it frees a block.  That the
free list is in address order is a property, not built in.

`cache_put` is taken in steps because its loop evicts any number of times:

| action | code |
|---|---|
| `PutTooBig`, `PutBegin` | the checks and the rounding, 587-607 |
| `PutEvict` | no free block fits: `evict`, and look again |
| `PutTake` | first fit, from the end of the block; `memcpy` |
| `PutEvictEntry` | no free entry: `evict` |
| `PutLink` | fill in the entry, put it at the end of its chain |
| `GetHit`, `GetMiss`, `Empty`, `ResetStats` | the other calls |

`Purge` frees an entry and its block with each merge purge makes.  `evict` looks
at the first entry of each chain and takes the one used least recently, with the
code's strict comparison against `UINT_MAX`; if it finds none the assertion fails
(`pc = "abort"`).  The clock is an unsigned int and wraps at `TimeMax`.

`LossyStore` is what `cache.h` promises: for each key the blocks put and not
lost, oldest first; a lookup gives the oldest; blocks are lost only while a put
makes room.  `Cache` maps itself to it: `Among` picks a key's entries out of its
chain, `Held` reads their blocks, `Putting` is the request of a `cache_put` under
way or the constant `NoPut`; `KeepsPromise` is the refinement.  `CacheAge` adds the
time each entry was put, a history variable, to say which entries eviction
chooses.  The MC modules only give constants.

### Cache layout: `CacheLayout`

The arithmetic of `cache_create` and `cache_construct` with `size_t` modulo
`SizeModulus`: a difference that should be negative wraps, as in C.  `HasRoom` tells
of a block whether header, bins and entries leave room in it for a store.  The code does
not ask that: a block without room is accepted too, with a store whose length has wrapped
(section 5).

### Tag database: `TagDb`, `TagRelation`

`TagDb` is `tag-db.c` with as much of the atom set, hash, bit vectors and pickle
as it depends on.

| variable | code |
|---|---|
| `counts`, `allocated` | `db->counts[0 .. c_used - 1]`, `c_allocated`; a tag is its index, from 1 here |
| `atoms` | the names in `db->tags` (an entry's atom stands for its name) |
| `order` | the ids of `db->hash` as a walk meets them: by bin, then as inserted |
| `held` | the bit vector of each id |
| `file` | whole lines, and whether writing stopped part of the way through |
| `pc`, `at` | an open or a remove in progress, and where it has got to |
| `scan` | an enumeration by the client, and what it still owes the client |

`tagdb_open` is `Open`, a `LoadToken` for each token, then `LoadEnd` or
`LoadFails`.  `tagdb_remove` is `RemoveBegin`, a `RemoveUntag` for each id its
enumeration finds, then `RemoveEnd`; nothing interleaves with either but a crash.
Between the calls of the client's own enumeration anything may happen.

Three choices to know of:
- A continuation counts callbacks from the start of a walk.  Here it is a
  position in `order`, which is the same thing.  `tagdb_forget` removes an id
  from the hash, so positions shift and ids can be missed; a client that forgets
  has to begin its enumeration again (`Forget` resets `scan`).  `tag-db.h` does
  not promise more.
- What a full disk or a crash leaves in the file (`PartFiles`) is any prefix of
  the lines, perhaps with part of a line: more files than one run of stdio could
  leave.  The part line makes the next open fail or is ignored, both are taken.
- Whether the names of an id's tags fit in the line buffer depends on their
  lengths; with more than `LineMax` of them, they may or may not.

`TagRelation` has none of this: tags by number, each with a name; a relation; a
saved copy, by name, that a failed commit may replace with part of the relation.
Its numbers are those of the implementation, so the mapping also says that a
tag's number stays its own while other tags come and go.  While
`tagdb_remove` works, its tag is already gone.

### Atom set and digest database: `AtomSet`, `AtomNames`, `DigestDb`

`locs` is the location pools end to end, each location with its block's pool,
place and length, negative once deleted; `blkpools` is the bytes of each block
pool.  `atom_new` finds the block, reuses the first deleted place of exactly its
length, or adds at the end of the first pool with room; each allocation may fail,
leaving what it leaves.  `atom_set` is the code's three parts in one action: make
a new atom, delete the old, exchange their locations; an atom already deleted may
be reused as the new one and is then deleted again, as in the code.  A first atom whose
allocations fail half way leaves a list of location pools with no pool in it (`NoPool`):
the next `atom_set` or `atom_delete` stops at its assertion, answered `ASSERT` here
(section 5).  `AtomNames` is the promise: a partial function from numbers to blocks.

`DigestDb` adds the reference counts, its own and those of the two databases that
use it (`tagdb_init`, `filenamedb_init` and their `fin`), and digests as text.

### Hash: `Hash`

Chains with the objects (keys and values) they own, given serial numbers so that
"destroyed once" can be said.  `hash_walk` is a step for each callback, with the
node saved before it; a callback may insert anything and remove its own entry.
`hash_walk_continuation` is a step for each call, the client doing as it likes
between.  What a scan owes its client is kept beside it, as for the tag database.

### Filename database: `FilenameDb`, `FilenameMap`

add, prune (through its callback, in the sense of either build), commit, close,
open, on a file of lines that a failed commit or a crash may leave cut short.
`FilenameMap` is the map it promises, with a saved copy.

### Pickle's reader: `Unpickle`

`pickle_unpickle` character by character through its buffer: shift, refill,
comment lines, signature, entries, and each of its errors.  A reader can be at
the end of the file with the buffer used exactly, or with part of a line.

### Streams: `ByteStream`, `ByteSource`, `PackBits`, `MoveToFront`

`ByteStream` is the buffer protocol over memory and files (`stream-mem.c`,
`stream-stdio.c`): get, put back, fill, seek; `ByteSource` is a sequence of bytes
and a position.  `PackBits` and `MoveToFront` are compressor and decompressor as
a chain: the client calls the decompressor, which calls the compressor when its
input is empty, which calls the source; each runs until its own buffer is full.
The code's rewriting of bytes it has already written (merging a literal, a run of
two and one more byte) is done as it is there.

### Bit FIFO: `BitFifo`, `BitQueue`

`BitFifo` is `bitfifo.c` with `bitcpy` bit by bit, including its case for equal
offsets, and with `unsigned int` and `size_t` as two widths: the check for room
computes `tail - 1` in one and compares in the other.  `BitQueue` is the bounded
queue it should be, and `IsQueue` the refinement.  Three faults keep the code from it
(`bitfifo_wrapread` and section 5); `SoundNext` are the steps in which none of them bites
(section 4), `Next` all of them.

### Packing rectangles: `Box`, `Packer`, `PageSpace`, `Layout`

`Box` is `geom/box` on integer corners.  `Packer` has the list of maximal free
areas: `Split` is one turn of `remove_area`'s loop, which keeps the four parts
that are left of an area (`Keep`, which may have to grow the list and fail), the
sort is where the code sorts (`Sortings` are the orders `qsort` may leave), and
`Walk` the areas a callback sees within the margins.  `PageSpace` is what is left of
it for a client: which points are taken, and which place a box must then get.  It says
of `packer_place_at` what packer.c does, which takes an area's part inside the margins
and answers EMPTY outside them, not what `geom/packer.h:43` says, that it "ignores any
margins" (section 5).
`Layout` is `layout_place` with a step for each call it makes of the
packer, so that its loop can be seen to end, or not.

### Containers: `Vector`, `FlexArray`, `BitVec`, `BitSets`, `NTree`, `Forest`, `HList`

Each next to what it promises, except the hlist, whose promise is in its own
module.  `Vector` keeps bytes, not elements, since changing the width moves them
about within a block and may then fail.  `NTree` has the four links of each node
and both kinds of walk, call by call, with clients that unlink or delete the node
they are given; the nodes of a copy that fails part of the way are in `lost`, allocated
and out of anybody's reach.  `HList` has cells that lists share no part of.

### Algorithms: `Pack`, `BinarySearch`, `Composite`

`pack` and `unpack` item by item over bytes, the format already parsed; the
binary search a turn of its loop at a time, on a range that is a power of two;
composition of two bitmaps, pixel by pixel, in the code's integers, beside the
exact `PorterDuff` of docs/composite.md.

### Proof modules: `SequenceLemmas`, `CacheProofs`, `TagDbProofs`, `AtomSetProofs`, `HashProofs`, `PackerProofs`, `LinkProofs`, `DataProofs`

See section 4.

## 3. The runs

| run | module | shows |
|---|---|---|
| `cache_safety` | MCCache | chains, free list, store and data stay right; the cache is a `LossyStore`; `evict`'s assertion does not fail |
| `cache_order` | MCCacheAge | first in, first out on each chain; the last used entry goes last; `cache_put` returns |
| `stores` | MCStores | atom set, digest, filename and tag databases, hash: names, bits and ownership stay what they were, and each implements what it promises, through failures and crashes |
| `streams` | MCStreams | the bit fifo is a queue; streams give their bytes in order; codecs give back what they were given; pickles are read whole; readers end |
| `structures` | MCStructures | cache layout, packer and layout, containers, packing, search and composition: each keeps its promise; `layout_place` returns |
| `cache_wrap` (violation) | MCCache | an entry stamped `UINT_MAX` cannot be evicted, and the assertion fails |
| `tagdb_counts` (violation) | MCStores | counts are not the numbers of taggings after an untag or a forget |
| `bitfifo_wrapread` (violation) | BitFifo | a read across the end of the buffer returns wrong bits |
| `compressor_truncates` (violation) | MCStreams | a PackBits compressor whose buffer is written to its end says the stream ends though there is input left; the decompressor has room |
| `unpickle_lastline` (violation) | MCStreams | a last line without newline is left in the buffer, and the answer is OK |
| `packing_returns` (violation) | MCStructures | no line has room for the first element: `layout_place` loops for ever |
| `bitvec_next` (violation) | MCStructures | from a word with no bit set, `bitvec_next` misses bits of the next |

The cache's runs and the bit fifo's own check for deadlock.  `stores`,
`streams` and `structures` do not: a walk or a reader that is done, or a call
made once, stops.  What must not stop is said by the temporal properties.

Two assumptions compare pure functions with a reference over every small input:
`BoxLaws` (boxes and their sets of points) and `DigestsDecode`.  The others
(`PageFits`, `BlocksAssumption`, `BinsAssumption`, and those in the components)
are what the theorems of section 4 assume of the constants.

### Properties worth a word

`NothingLeaks` and `BlocksApart` together say that the store is always divided
exactly into entries' blocks, free blocks and the block a put has taken: any
merge that `purge` misses or makes twice breaks one of them, or
`FreeListCoalesced`.  `KeepsPromise` sees what the client sees: bytes, oldest
entry first, and nothing lost but to make room.  `PutReturns` is the comment
"ensures that we will eventually get a block of at least the right size".

`IsRelation` follows slots through reuse, bits through removal, and names
through the file, crashes included.  `CountsDriftOnly` is an action property: a
count may become wrong only in the three calls where the code lets it, and a
slot's next tag starts without the error of the last.  `MissesNone` relates an
enumeration's first call to its last: every id that had the wanted tags
throughout was given, although tagging, adding and untagging moved its
continuation's ground in between.

`AtomNamesKept` would be broken by any two locations sharing bytes, by a place
reused too soon, and by a failure that leaves half an atom.  `DigestIndexesHold`
follows indexes while databases come and go.  `HashKeepsKeys` says that what is
in the hash and only that is owned by it, and that no walk misses a
key; a scan by continuation is sure of that only while entries are only
inserted, and the property asks no more.  That a walk repeats none is not asked.

`KeepsSpace` is the packer as a client sees it: what it gives is free and on the
page, and it refuses only what fits nowhere.  `FreeAreasComplete` is why: every
free box lies whole in one of the free areas.

What the code does not keep, the properties leave out, and say so where they are
defined:

- `MtfKeepsInput`: the last byte may be lost, in the nibble the compressor holds
  back (`stream-mtfcomp.c:90`).
- `PackBitsEndsWhenRead`: with buffers that have room for the whole of it;
  `compressor_truncates` is the rest, and the decompressor does the same (section 5).
- `PickleReadWhole`: the lines that end in a newline are read whole, and a line as
  long as the buffer is refused.  A last line without newline is refused where it
  is the first thing in the buffer; elsewhere it is dropped and the
  answer is OK, which is what `unpickle_lastline` shows.
- `CacheLayoutFits`: a block is laid out inside itself exactly where it has room;
  that the others are accepted is in section 5.
- `LayoutReturns`: when the first element is a line break or has room at the
  start of a line; `packing_returns` is the rest.
- `VectorKeepsElements`: a failed narrowing leaves elements squeezed at the old
  width.  `BitVecsAreSets`: except for `bitvec_next` from a clear word, which
  `bitvec_next` (the run) is about.
- `UnpacksWhatWasPacked`: little endian, and not for arrays of signed halfwords,
  which `unpack.c:206` and `:232` fetch as unsigned.
- `ComposesByRule`: for results with an alpha under 128, colours up to 170 only.
  Beyond, a rounded colour divided by a small alpha is more than a byte and spills
  into the next component; `Composite!ComposesAnyByRule` is the property without
  that limit, and fails.

### Bounds, and why they are enough

*Cache.*  Three keys, two in one bin; three entries; four quanta; lengths that
round to one, two, three and (refused) five quanta.  A block can have a free
neighbour on the left, on the right, on both or on none; the store can be full
with entries left and the pool empty with store left; chains have from none to
three entries.  `ClockBound` is five stamps, which is enough to fill the cache
and to evict from it in any order; `StatMax` saturates the statistics, which
nothing depends on.  `cache_wrap` makes `TimeMax` small so that the clock gets
there.

*Cache layout.*  The sizes of a 64-bit target; lengths from 512 in steps that
meet every remainder modulo the quantum, one below the least, and two large ones;
percentages from one below the least to the greatest, 95, with which the small
blocks have no room for a store and its length wraps.

*Tag database.*  Two ids in different bins (so that a walk's order is not the
order of insertion), two names (so two slots, either of which
may be the empty one, and a name left without an entry by a failed add);
`MinAlloc` 1, so that the array grows; `TokenMax` and `LineMax` 1, so that both
limits bite with two tags; `CountMin` and `CountMax` keep counts between 0 and 2,
bounding only what the client does, never the load.  Names are symmetric; ids
are not, their bins differ.  No property of the run is temporal beyond steps, for
which symmetry is sound.

*Other stores.*  Blocks of one byte and of two that share a byte; location pools
of two and block pools of three bytes, so that both fill with three atoms and a
pool can have a gap too small at its end; four bytes for digests, all of one
length.  Two databases of two users each.  Three keys, two in one bin, and eight
objects: enough to replace every value once and to insert after a removal.  Two
ids in different bins, three file names, one of them empty; `RiscOS` TRUE
(section 5).

*Streams.*  PackBits: every input of up to seven bytes of two values, with four
as the longest run, so that literals and runs of every length meet each other and
their limits; four compressor's buffers from the least, three decompressor's.
Move to front: inputs of up to four bytes of four values, tables of two;
buffers of one, two and enough.  Byte streams: none, three and five bytes through
buffers of one, two, three and eight; clients fill only an empty buffer
(`EarlyFill` FALSE).  Pickles: every file of up to five characters of four, and
up to four after a signature and a comment, through buffers of three, four and
seven.  Bit fifo: a buffer of six bits in words of four, so a partial last word
and every position of head and tail; writes of none to four bits from offset 0 and
from the last of a word, reads of none, one and three, which may go round the end and
which may be more than there is; a `size_t` four times as wide as an `unsigned int`.
The steps are those of `SoundNext`; `bitfifo_wrapread` takes the others.

*Structures.*  A page of four by three with margins, also wider than the page;
two areas to place at, one over the edge; three boxes; one obstacle before a
layout of up to three elements, of which the client's array has room for two boxes.  Vectors of widths two and three and up to three
elements; two bit vectors of up to two words of two bits; four tree nodes, those lost
to failed copies included; three cells; pack items of every pair of sizes, alone and on either side of another;
sorted arrays of up to nine elements, on both sides of a power of two; 28 pixels
in every pair under every rule, with alphas at and about the ends and the middle.

### Fairness

`PutReturns` needs weak fairness of `PutStep`, the steps of a `cache_put` that
has begun; `LayoutReturns` of `Proceeds`, those of `layout_place`.  Each is one
call on one thread with nothing to wait for, so it goes on.  `ReadersEnd` needs
that stages that are called run, as calls do, and that the client of a codec
reads to the end, which is an assumption about that client: without it nothing
says the end is reached.  No fairness is assumed of other clients.

## 4. The proofs

All are checked by TLAPS for every value of the constants that the assumptions
allow.  An assumption that a component's use by the MC modules can keep is a named
ASSUME there, which TLC evaluates; the others are operators that the theorems have
as premises.  Of them the MC modules assume `BlocksFit`, `BinsFit`, `LayoutFits`
(with `PackerFits`), `SizesFit` and `ValuesFit` of their instances
(`BlocksAssumption`, `BinsAssumption`, `PageFits`, `BlockFits`, `SearchFits`), and
their configurations keep `Drained`, `WholeWords`, `ElementsFit` and `RiscOS`.

| theorem | module | states |
|---|---|---|
| `TypeCorrect`, `Coalesced`, `OneChainEach`, `Apart`, `NoLeak`, `Intact` | CacheProofs | the invariants of `cache_safety` |
| `EvictFinds` | CacheProofs | `NeverAborts`, if the clock does not wrap |
| `Implements` | CacheProofs | `KeepsPromise`: the cache is a `LossyStore`, if the clock does not wrap |
| `EvictsOldest`, `LastUsedStays` | CacheProofs | `EvictsOldestOfChain`, `LastUsedSurvives` of `cache_order`, if the clock does not wrap |
| `TypeCorrect`, `LiveBits`, `UniqueNames` | TagDbProofs | the tag database's invariants in `stores` |
| `Enumerations` | TagDbProofs | `MissesNone` |
| `CountsDrift` | TagDbProofs | `CountsDriftOnly` |
| `ImplementsRelation` | TagDbProofs | `IsRelation`: `TagDb` is a `TagRelation` |
| `TypeCorrect`, `NamedOnce`, `Implements` | AtomSetProofs | types; no block has two atoms; `AtomSet` is `AtomNames` |
| `DigestsCounted`, `IndexesKept` | AtomSetProofs | `CountedOnce`; `DigestIndexesHold` |
| `KeysKept` | HashProofs | `HashKeepsKeys` |
| `FreeSpaceComplete` | PackerProofs | `FreeAreasComplete` |
| `PackerImplements` | PackerProofs | `KeepsSpace`: the packer is a `PageSpace` |
| `LayoutAnswersBoxes` | PackerProofs | `BoxesAsAsked` |
| `LayoutKeepsFreeSpace`, `LayoutKeepsSpace` | PackerProofs | `FreeAreasComplete`, `KeepsSpace` with `layout_place` as the client |
| `FilenamesImplement` | HashProofs | the filename database is a `FilenameMap` (`FilenamesKept`), where `RiscOS` |
| `FifoIsQueue` | DataProofs | `IsQueue`: the steps of `SoundNext` are those of a `BitQueue`, whatever the widths, offsets and lengths |
| `SearchFinds` | DataProofs | `FindsIffThere` |
| `CacheChains`, `CacheBlockLaidOut` | DataProofs | `ChainsAsConfigured` and `LaidOutIfRoom`, the parts of `CacheLayoutFits` |
| `StreamsReadOn` | DataProofs | streams are a `ByteSource` (`StreamsReadInOrder`), if `Drained` |
| `BitVecsSets` | DataProofs | `BitVec!AreSets` (`BitVecsAreSets`), if `WholeWords` |
| `VectorsKeepElements` | DataProofs | `Vector!KeepsElements` (`VectorKeepsElements`), if `ElementsFit` |
| `HListsKeep` | LinkProofs | `HList!KeepsLists` (`HListsKept`) |
| `TreeLinksAgree`, `TreeKeepsForest` | LinkProofs | `NTree!LinksAgree`, `NTree!KeepsForest`: all of `TreeKeepsForest` in `structures` but `VisitsInOrder` |

In the runs `stores` and `structures` a property of a component other than the tag
database is that of an instance, in its own behaviours; the theorem is about the
module itself.  The theorems whose names end in `Inductive` are the invariants these
rest on.

**Cache** (`CacheProofs`, on lemmas in `SequenceLemmas`).
Assumptions: at least one bin, entry and quantum; `BinOf` gives a bin; lengths
are positive; no client data is `Header`; `NoPut` is not a put.

- `Inductive`: `Spec => []IInv`.  None of the invariants is inductive alone.
  `purge` gives back the right units only if each entry is on one chain and no
  unit has two owners; first fit leaves a free list in order only if it was
  coalesced; `DataIntact` needs to know that the units a put takes are in no
  other block.  `IInv` is `TypeOK`, one chain for each entry (`OneChain`,
  `OnOwnChain`), the free list (`IsFreeList`), one owner for each unit
  (`UnitsAccounted`), `DataIntact`, and what is known of a put between taking
  its block and linking it (`RequestWritten`).
- `EvictFinds`: if no stamp is `UINT_MAX` (`ClockBound <= TimeMax`), `evict`
  always finds an entry.  With no entry linked, the store is one free block
  (coalesced, nothing lost, nothing taken), so the put that called `evict` would
  have fitted.  `cache_wrap` shows that the premise is needed.
- `Implements`: what a client sees of a key is the part of its bin's chain that
  has the key.  Unlinking the head of a chain is a tail of that part or leaves
  it (`HeldOnTail`), linking at the end appends to it (`HeldOnAppend`), the first
  hit is its head (`HeldOnFirst`); `Stored` stays what it was because no other
  entry's units are touched (`UnitsAccounted`).  An aborted put keeps no promise,
  hence `EvictFinds` and its premise.
- `EvictsOldest`, `LastUsedStays`: along each chain entries stand in the order in
  which they were put (`ChainsByAge`), and no two linked entries have the same
  stamp (`StampsDiffer`).  The second is what the comparison in `evict` needs to
  pick the bin of the least recently used head, never that of the last used
  entry; both fail once the clock has wrapped.

The module begins with what the proof turns on: what merging a block with its left,
right, both or no neighbours makes of a list, what first fit makes of it, that
moving an entry between chains keeps it on one, and which part of a chain a key
has.

**Tag database** (`TagDbProofs`).  Assumptions: finite sets
of ids and names, `None` not a name, `MinAlloc` and `TokenMax` positive.

- `Inductive`: `IInv` is the memory (`MemoryOK`), the file (`FileOK`), the call
  in progress (`CallOK`) and the client's enumeration (`ScanOK`).  That a freed
  slot leaves no bit behind needs `RemoveProgress`: the ids that
  `tagdb_remove`'s enumeration has passed do not have the tag.  That
  each token read is a name needs `FileOK` (lines have a name) and
  `LoadProgress`; that lines written have one needs `LiveBitsOnly`.
- `RelationInductive`: `RInv`, on top of it: no id is in the walk's order twice,
  no id has two lines in the file and no line a name twice (`FileDistinct`), what
  a load has read is what the lines before its token say (`LoadKept`), and an
  enumeration has passed only ids it gave or that lacked a tag it wants
  (`ScanKept`).
- `Enumerations`: an insertion by another call moves an id the enumeration has
  still to come to further on, never behind its continuation.  It says nothing of an
  enumeration during which an id is forgotten: `Forget` ends it.
- `CountsDrift`: `Drift` of each tag after each action.  Two steps would disturb
  it and do not: a load, because it tags only ids that lack the tag
  (`FileDistinct`), and `tagdb_remove`, because its enumeration untags only ids
  that have it.
- `ImplementsRelation`: the commit of the lines in order is the relation saved
  (`LiveBitsOnly`, `NamesUnique`); any part of them a crash leaves is a part of
  it; and what the last token of a load leaves is the relation that was saved
  (`LoadKept`).

**Atom set and digest database** (`AtomSetProofs`).  `BlocksFit`: blocks are
sequences of at least one byte and no longer than a block pool; the location
pools' size is positive.  A longer block is the case of section 5's table that
`atom/new.c:98` gets wrong.

- `Inductive`: `IInv` says that locations lie in their pools and no two of them
  share a byte, deleted ones included (`Sound`); that no two atoms in use hold
  the same block (`EachOnce`); and that there are location pools for them
  (`PoolsListed`).  The deleted locations are what makes it inductive: a place
  taken again is nobody else's only if it was nobody else's while it lay unused.
- `Implements`: each operation's lemma
  gives the names after it: what is written at a location, or scribbled there by
  a delete, changes no other location's data (`StillSound`, `WriteOne`), and
  `atom_set`'s exchange changes only the names of the two atoms it exchanges, of
  which one has been deleted (`ReplacedNames`).
- `DigestsCounted`: `digestdb_refcount` is the number of databases in use, for any
  finite set of them, so the set is destroyed by the last.
- `IndexesKept`: on the atom set's invariant and `DigestsCounted`.  Proving it
  showed that the property had compared a digest's new location in the old pools;
  it now compares the bytes of either state.

**Hash** (`HashProofs`).  `BinsFit`: at least one bin, and `BinOf` gives one.
`HInv` is the chains (`Chained`: a name once, in its bin), the objects (`Objects`,
`Counted`: no two nodes share one, and those alive are those held) and where a walk
and an enumeration will come to what they owe (`WalkOK`, `ScanOK`).  `WalkOK` is
about the node saved before the callback: what is owed is at or behind it, or in a
bin not reached.  A removal moves nodes forward in their chain past no other node,
an insertion moves none; the entry that a callback removes is the one given to it,
which the walk no longer needs.  An enumeration is sure of its continuation only
while nothing is removed, and `ScanOK` asks no more.

**Packer** (`PackerProofs`).  `PackerFits`: boxes of integers, a page with a
point, room for an area.

- `PackerInductive`: `PInv` is the list within its allocation, in order while it
  is marked sorted, no area twice (the sort orders a set), no area on what is
  taken or off the page (`Clear`, `OnPage`), and, until memory has run out, every
  free box whole in one area (`Complete`).  The argument is one split's: a box
  that crosses the area taken is not free; one that does not lies whole in one of
  the four parts (`RemainsAll`); dropping a part inside another loses no box.
  `splits` and `Sortings` are shown to exist (`SplitsExist`, `SortingsExist`), so
  the invariant is not kept by having no next state.
- `FreeSpaceComplete`: from `PInv`.
- `PackerImplements`: a refusal by `packer_place_by` is right because a place that
  is free would lie whole in an area; of the areas that fit, the first in the
  list's order reaches furthest to the edge asked for (`FirstReaches`,
  `PlaceByImplements`); and the first that touches the margins asked for reaches
  exactly as high as a new line can begin (`FoundIsHighest`, `ClearImplements`).

**Layout** (`PackerProofs`).  `LayoutFits`: the packer's premise, elements whose
least width is not above their greatest, and all the lengths that `layout_place`
comes by.  `LInv`: between lines every box so far is placed; within a line those
before the k-th are, and the rest of the line has been chosen, with widths between
least and greatest.  Every answer of the packer is one to a request that the layout
made, which is why `Packer` keeps the request beside it.  `LayoutReturns` is false
without an element that fits, and is left to TLC.

**Filename database** (`HashProofs`).  `FilesInv`: no id is twice in the hash's order
or in the file.  Then a part of the file says nothing of an id that the whole does not
say, which is what a crash leaves; and a load, a commit and a prune each walk a list
that exists (the walks are defined by CHOOSE or as folds, and are shown to have a
value).  The premise `RiscOS` is the build whose callback keeps the files there are;
the other build's is the other way round (section 5).

**Bit fifo** (`DataProofs`).  The constants are as `BitFifo` assumes them: words of any
width, a `size_t` as wide as an `unsigned int` or wider, writes from any offset, reads of
any length.  The theorems are about `SoundSpec`, whose steps ask three things, each of
which excludes one fault and nothing else:

- `FirstWordWhole`: a write's offset is not the head's own, unless it is 0, since
  `bitcpy` with equal offsets takes the wrong bits;
- `RoomIsThere`: with a wide `size_t` and the tail at 0, a write that is more than there
  is room for is not made, since it would be accepted;
- `ReadIsWhole`: a read does not go on at the front of the buffer, since it goes on at the
  tail again (`bitfifo_wrapread`).

`Inv` is the offsets' ranges, with `used` the distance between them, and that no copy
overran; the queue is the bits from head to tail (`Held`), which each step is shown to
shorten or lengthen as a queue's does.

**Binary search** (`DataProofs`).  `SearchInv`: the range is a power of two, and a
value that is there lies within it of the element the search is at, though the
array's length is no power of two.  Powers of two are what `TwoTo` gives; that it
doubles is proved by taking the least number at which it would not (`Doubling`).

**Cache layout** (`DataProofs`).  `SizesFit` is about the target: an entry holds a
pointer, and the header is much less than the least block.  `CacheChains`: the bins are a
power of two and share the entries out in chains as long as configured, or less than
twice that.  `CacheBlockLaidOut`: of all blocks accepted, those with room (`HasRoom`) and
only those are laid out inside themselves.  Of the others it is shown where the length
wraps to (`BelowModulus`): just below the modulus, from where the sum that is to refuse it comes
back to the block's length or less (`PartsWrap`).

**Streams** (`DataProofs`).  `StreamInv`: what is left in the buffer are the bytes
that follow the client's position, and the last byte given is still before it.
`Drained`: a buffer is filled only when it is empty, as all callers do.  A fill
before that which finds no more bytes has moved those left to the front, and answers the end
without setting the position back to them: the next bytes are not those that follow
(section 5; no run fills early).

**Bit vectors** (`DataProofs`).  `WholeWords`: words have bits, and the bits that
clients use fill a number of them, which bounds the model and not the code.
`BitVecInv`: each word is a set of places in a word, and no vector has more words than
those bits are in.  A number is a member exactly when its vector is long enough and its
place is in its word (`MembersAre`), so that each call need only be followed in the
words it changes; words beyond the shorter vector's hold no member, which is `eq.c`'s
case.  `bitvec_count` adds up the words: the sum is exhibited as a function, and taken to
the members at the least word at which the two would part.  `bitvec_next` from a clear
word is left out by `AreSets` itself, as the run `bitvec_next` shows it must.

**Vector** (`DataProofs`).  `ElementsFit`: elements have at least one byte, and clients
store numbers.  (`vector_create` takes a width of 0, which `vector_set_width` refuses.)
`VectorInv`: the block has the bytes of the elements allocated, and those in use are
among them.  What it turns on is that `array_squeeze` goes upwards and `array_stretch`
downwards: no move overwrites a byte that another has still to move (`BytesUnmoved`), and
no two go to the same place (`PlacesApart`).  From these `MovesKeep` gives the bytes after
any run of moves: they are exhibited for every set of turns, and taken to the whole run at
the least number of turns at which the two would differ (`TurnByTurn`).  The exceptions
of `KeepsElements` are in the property itself, with the lines of code at which they arise.

**Linked lists** (`LinkProofs`).  `HListInv`: from each head the links follow a path
that ends, no cell twice; the paths of the two lists share no cell, and the cells
allocated are theirs and the lost ones.  A path does not see a change to a cell
that is not on it (`PathElsewhere`), which is all that the other list needs.  A copy
that fails loses just the cells it has copied.  The client gives a list up when it
has appended it, as `HList` has it; nothing else is assumed.

**N-ary tree** (`LinkProofs`).  `TreeInv`: there is one sequence of children for each
node (`Trees`) of which all four links tell: the path that `children` and `next` make
is without a node twice, its nodes are those whose `parent` this is, and `prev` leads
back along it; no set of nodes is closed under `parent` (`Acyclic`); and what a walk
has left to do names nodes; and no lost node is in the tree, so that a new node is neither
(`LostApart`).  A copy that fails part of the way changes no link of a live node.  Each call is shown to make the links of some other
sequences: one node more in one of them (`BroodJoined`), one less (`BroodParted`), a
tree's emptied (`TreesFreed`), or its images under the renaming that a copy is
(`BroodDoubled`).  The sequences are then what `Forest` says of that call.  That a
node is not put below itself is `n \notin Ancestors(p)`, the client's duty, and what
keeps `Acyclic`.  The premises are that nodes are counted in `Nat` and depths are
integers.

Only model-checked, and why:

- Liveness (`PutReturns`, `LayoutReturns`, `ReadersEnd`): out of the proof
  system's reach.
- What a codec, a reader or an unpacker computes from the whole of its input
  (`PackBitsGivesInput`, `PackBitsEndsWhenRead`, `MtfKeepsInput`,
  `PickleReadWhole`, `UnpacksWhatWasPacked`): induction over data.
- `ComposesByRule`: `Composite` is built on `Bitwise`, which is recursive, and no
  theorem can be about a module that is.
- `VisitsInOrder`, a part of `TreeKeepsForest`: the order is that of the whole tree
  under the root, defined by recursion on its depth; induction over data again.

## 5. What is not covered

Not modelled:

- Frame buffer other than compositing: bitmaps, fonts, screens, pixel formats.
  Conversions and rendering loops with no state between calls.
- Paths: one string, no state.  Fortify: a third party's allocation checker for
  debug builds.  The programs under `src/apps` and the text screen: tests, read
  as documentation.

Left out of what is modelled:

- `cache_get_info`, the printing of statistics, `tagdb_enumerate_tags`,
  `tagdb_tagtoname`, `tagdb_get_tags_for_id`, `stream_length`, and the tree's
  depth and counts, which only read.  Logging and wording everywhere.
- The linked list `list`, links in the client's own records; the macros of the
  bit array; array utilities but squeeze and stretch, which the vector calls;
  gcd, primes, byte reversals and most of the bit arithmetic.
- Atoms longer than a block pool, integer overflow of box corners, writing
  beyond `chosen_width` in the layout, a `dst` bitmap with other rowbytes than
  `src`, which `composite` does not check for.

Where the code does not do what is said of it, beyond the violation runs of
section 3.  TLC finds each property of the first table violated when it is put into
a copy of the run's cfg, with the constants given; the runs of section 3 are the
disagreements that take the longest to come by.

| where | what | property | run, constants |
|---|---|---|---|
| `filename-db.c:360` | outside RISC OS the callback's test is the other way round: prune removes the names of the files that exist, against `filename-db.h:71` | `PruneKeepsExisting` | `stores`, RiscOS FALSE |
| `atom/new.c:61` | the list of location pools is kept when the first pool cannot be allocated, and the next `atom_delete`, `atom_set` or `atom_get` stops at its assertion (`delete.c:25`, `set.c:28`, `get.c:20`) | `AtomsNeverAssert` | `stores` |
| `bitfifo.c:177` | with a `size_t` wider than an `unsigned int` and the tail at 0, a write of more bits than there is room for is accepted, against `bitfifo.h:57` | `RejectsOverfull` | `bitfifo_wrapread`, SizeModulus 256 |
| `bitfifo.c:48` | `bitcpy` between words at the same offset, not 0, copies the wrong bits | `IsQueue` | `bitfifo_wrapread`, Offsets {1}, Reads {1} |
| `cache.c:227` | a block with no room for a store (95 % of 512 bytes for entries) is accepted, against "calculations didn't work" at line 234: the store's length wraps, and so does the sum that is checked | `CacheStoreInBlock` | `structures` |
| `packer.c:403` | `packer_place_at` cuts an area to the margins, or refuses it, against `geom/packer.h:43` "ignores any margins" | `PlaceAtIgnoresMargins` | `structures` |
| `stream-packbitsdecomp.c:75` | the decompressor, too, fills its buffer only from where it was read to, and ends a stream that has input left when a run does not fit there, though its buffer is as long as its comment asks (33-36) | `DecompressorLosesNone` | `compressor_truncates` |
| `unpack.c:522` | big endian values of two and four bytes are read from four or six bytes further on, against `pack.h:113` | `UnpacksBigEndian` | `structures` |

And these, which no property is about, or which the properties leave out by name:

| where | what |
|---|---|
| `cache.c:553` | eviction is neither by age nor by use, as `include/datastruct/cache.h` has it: `CacheAge` says which entries do go |
| `ntree/copy.c:23-45` | a copy that fails part of the way, in its callback or in an allocation, returns the error and leaves the nodes made so far allocated (`lost`) |
| `vector/set-width.c:32` | a failed narrowing leaves squeezed data at the old width; `realloc` to no bytes is taken for a failure |
| `stream-stdio.c:69` | a fill with bytes left that finds no more has moved them to the front, and leaves the position behind (`ByteStream!FillFile`; `Drained` excludes it) |
| `unpack.c:206`, `:232` | signed halfwords of arrays are not sign extended |
| `list/find.c` | the search compares the anchor too |
| `composite.c:649` | colours over a byte, above |
| `atom/new.c:98` | a block longer than a pool is written past the pool's end |

## 6. Plan

Theorems, the most important first:

1. What the codecs compute: a step of `Pack` at a time, then PackBits and
   move-to-front, by the least position at which output and input would differ.
2. Composition: each rule's result within a byte, for premultiplied pixels, once its
   shifts and masks are written without `Bitwise`.

To model: the linked list and the array utilities, short as they are, and the
clipping of bitmaps.
