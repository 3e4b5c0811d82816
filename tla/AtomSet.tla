------------------------------- MODULE AtomSet -------------------------------
(***************************************************************************)
(* datastruct/atom: a set of data blocks, each with a number.              *)
(*                                                                         *)
(* Atom a is the a-th location, counted from 0 through the location pools; *)
(* a location gives the block's place in a block pool and its length,      *)
(* negative once it is deleted, when its place can be taken by a block of  *)
(* exactly that length.  The pools never shrink.                           *)
(***************************************************************************)
EXTENDS Integers, Sequences, FiniteSetsExt

CONSTANTS
  Blocks,       \* the data clients store, as sequences of bytes
  LocPoolSize,  \* 1 << log2locpoolsz
  BlkPoolSize,  \* 1 << log2blkpoolsz
  MaxAtoms,     \* the bound on locations
  MayFail,      \* whether an allocation may fail
  NDebug        \* whether deleted data stays as it was

VARIABLES
  locs,      \* the locations in use: pool, offset in it, and length
  listed,    \* locpools is not NULL
  l_used,    \* how many location pools there are
  blkpools,  \* the bytes in use of each block pool
  answer     \* the last call's result and the atom it gave

Byte == 0 .. 255

\* atom.h's clients store blocks of at least a byte, none longer than a pool.
BlocksFit ==
  /\ Blocks \subseteq Seq(Byte) \ {<<>>}
  /\ BlkPoolSize \in Nat /\ LocPoolSize \in Nat \ {0}
  /\ \A block \in Blocks : Len(block) <= BlkPoolSize

vars == <<locs, listed, l_used, blkpools, answer>>

atom_NOT_FOUND == -1
Scribble == 170

Answer(result, atom) == [result |-> result, atom |-> atom]

Empty == locs = <<>> /\ listed = FALSE /\ l_used = 0 /\ blkpools = <<>>

Init == Empty /\ answer = Answer("none", atom_NOT_FOUND)

Magnitude(n) == IF n < 0 THEN -n ELSE n

\* The bytes at a location.
Bytes(loc) == SubSeq(blkpools[loc.pool], loc.at + 1, loc.at + Magnitude(loc.length))

Live == {a \in 0 .. Len(locs) - 1 : locs[a + 1].length > 0}

-----------------------------------------------------------------------------
(* atom_for_block. *)

Holding(block) ==
  {a \in 0 .. Len(locs) - 1 : locs[a + 1].length = Len(block) /\ Bytes(locs[a + 1]) = block}

atom_for_block(block) == IF Holding(block) = {} THEN atom_NOT_FOUND ELSE Min(Holding(block))

-----------------------------------------------------------------------------
(* atom_new. *)

\* Mutant: the place of a block in use is taken.
Reusable_Live(n) == {a \in 0 .. Len(locs) - 1 : Magnitude(locs[a + 1].length) = n}

\* The deleted atoms whose place a block of length n may have.
Reusable(n) == {a \in 0 .. Len(locs) - 1 : locs[a + 1].length = -n}

\* atom_ensure_loc_space: the last location pool is full.
NeedsLocPool == Len(locs) = l_used * LocPoolSize

\* The block pools with n bytes left at their end.
Gaps(n) == {i \in DOMAIN blkpools : BlkPoolSize - Len(blkpools[i]) >= n}

Written(bytes, at, block) ==
  [k \in DOMAIN bytes |-> IF k - at \in DOMAIN block THEN block[k - at] ELSE bytes[k]]

\* What atom_new leaves, and the atom it gives, for a block that is not held.
Reused(block) ==
  LET a == Min(Reusable(Len(block)))
      loc == locs[a + 1]
  IN [atom |-> a, l_used |-> l_used,
      locs |-> [locs EXCEPT ![a + 1].length = Len(block)],
      blkpools |-> [blkpools EXCEPT ![loc.pool] = Written(@, loc.at, block)]]

Added(block) ==
  LET full == Gaps(Len(block)) = {}
      pools == IF full THEN Append(blkpools, <<>>) ELSE blkpools
      i == IF full THEN Len(pools) ELSE Min(Gaps(Len(block)))
  IN [atom |-> Len(locs), l_used |-> IF NeedsLocPool THEN l_used + 1 ELSE l_used,
      locs |-> Append(locs, [pool |-> i, at |-> Len(pools[i]), length |-> Len(block)]),
      blkpools |-> [pools EXCEPT ![i] = @ \o block]]

Placed(block) == IF Reusable(Len(block)) # {} THEN Reused(block) ELSE Added(block)

HasRoom(block) == Reusable(Len(block)) # {} \/ Len(locs) < MaxAtoms

\* An allocation fails: of the list of location pools or a pool (the list
\* stays), or of the block pools, when there is a location pool to spare.
OutOfMemory(block) ==
  /\ MayFail
  /\ Holding(block) = {} /\ Reusable(Len(block)) = {}
  /\ \/ NeedsLocPool /\ listed' \in {listed, TRUE} /\ UNCHANGED l_used
     \/ /\ Gaps(Len(block)) = {}
        /\ listed' = TRUE
        /\ l_used' = IF NeedsLocPool THEN l_used + 1 ELSE l_used
  /\ UNCHANGED <<locs, blkpools>>

atom_new(block) ==
  \/ /\ Holding(block) # {}
     /\ answer' = Answer("NAME_EXISTS", atom_for_block(block))
     /\ UNCHANGED <<locs, listed, l_used, blkpools>>
  \/ /\ Holding(block) = {} /\ HasRoom(block)
     /\ LET new == Placed(block)
        IN /\ locs' = new.locs /\ l_used' = new.l_used /\ blkpools' = new.blkpools
           /\ answer' = Answer("OK", new.atom)
     /\ listed' = TRUE
  \/ OutOfMemory(block) /\ answer' = Answer("OOM", atom_NOT_FOUND)

-----------------------------------------------------------------------------
(* atom_delete and atom_set. *)

ATOMVALID(a) == a < Len(locs)

\* The pool's bytes with those of a deleted atom scribbled over.
Scribbled(pools, loc) ==
  IF NDebug THEN pools
  ELSE [pools EXCEPT ![loc.pool] = Written(@, loc.at, [k \in 1 .. loc.length |-> Scribble])]

\* A first allocation failed half way: there is a list with no pool in it,
\* which atom_delete and atom_set assert there is not.
NoPool == listed /\ l_used = 0

atom_delete(a) ==
  /\ answer' = Answer(IF NoPool THEN "ASSERT" ELSE "deleted", a)
  /\ IF a \in Live /\ ~ NoPool
     THEN /\ locs' = [locs EXCEPT ![a + 1].length = -@]
          /\ blkpools' = Scribbled(blkpools, locs[a + 1])
     ELSE UNCHANGED <<locs, blkpools>>
  /\ UNCHANGED <<listed, l_used>>

\* The two atoms' locations are exchanged.
Transposed(L, a, b) == [L EXCEPT ![a + 1] = L[b + 1], ![b + 1] = L[a + 1]]

\* A new atom is made, the old deleted, and their locations exchanged.  An
\* old atom already deleted may be the new one: then it is deleted again.
Replaced(a, block) ==
  LET new == Placed(block)
      loc == new.locs[a + 1]
  IN /\ IF loc.length > 0
        THEN /\ locs' = Transposed([new.locs EXCEPT ![a + 1].length = -@], a, new.atom)
             /\ blkpools' = Scribbled(new.blkpools, loc)
        ELSE locs' = Transposed(new.locs, a, new.atom) /\ blkpools' = new.blkpools
     /\ l_used' = new.l_used

SetNothing(a) ==
  /\ answer' = Answer(IF ~ listed THEN "SET_EMPTY"
                      ELSE IF NoPool THEN "ASSERT" ELSE "OUT_OF_RANGE", a)
  /\ ~ ATOMVALID(a)
  /\ UNCHANGED <<locs, listed, l_used, blkpools>>

atom_set(a, block) ==
  \/ SetNothing(a)
  \/ /\ ATOMVALID(a) /\ Holding(block) # {}
     /\ answer' = Answer(IF atom_for_block(block) = a THEN "OK" ELSE "NAME_EXISTS", a)
     /\ UNCHANGED <<locs, listed, l_used, blkpools>>
  \/ /\ ATOMVALID(a) /\ Holding(block) = {} /\ HasRoom(block)
     /\ Replaced(a, block)
     /\ answer' = Answer("OK", a) /\ UNCHANGED listed
  \/ ATOMVALID(a) /\ OutOfMemory(block) /\ answer' = Answer("OOM", a)

\* An assertion that fails ends the program.
Next ==
  /\ answer.result # "ASSERT"
  /\ \/ \E block \in Blocks : atom_new(block) \/ \E a \in 0 .. MaxAtoms : atom_set(a, block)
     \/ \E a \in 0 .. MaxAtoms : atom_delete(a)

Spec == Init /\ [][Next]_vars

-----------------------------------------------------------------------------
(* Properties. *)

TypeOK ==
  /\ \A a \in DOMAIN locs :
       /\ locs[a].pool \in DOMAIN blkpools
       /\ locs[a].length \in Int \ {0}
       /\ locs[a].at \in Nat /\ locs[a].at + Magnitude(locs[a].length) <= Len(blkpools[locs[a].pool])
  /\ l_used * LocPoolSize >= Len(locs) /\ (l_used > 0 => listed)
  /\ \A i \in DOMAIN blkpools : Len(blkpools[i]) <= BlkPoolSize

Promise ==
  INSTANCE AtomNames WITH names <- [a \in Live |-> Bytes(locs[a + 1])]

\* Through any adding, setting and deleting, an atom names the block it was
\* last given and each block has one atom: no two locations share bytes, and
\* a place is used again only after its atom is deleted (new.c:183).
NamesKept == Promise!Spec

\* delete.c:25, set.c:28 and get.c:20 assert that a set with a list of pools
\* has a pool in it: no call may leave one that the next call stops at.
NeverAsserts == answer.result # "ASSERT"

\* And each location is a place in its pool.
AtomNamesKept == []TypeOK /\ NamesKept

=============================================================================
