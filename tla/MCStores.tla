------------------------------- MODULE MCStores -------------------------------
(***************************************************************************)
(* Small instances of the stores that are kept in memory, side by side: a  *)
(* behaviour is one of the store that "store" names. The tag database has  *)
(* variables of its own; the atom set, the digest database over it, the    *)
(* hash and the filename database take turns at r1 to r7.                  *)
(***************************************************************************)
EXTENDS TagDb, TLC

CONSTANTS Stores, RiscOS, i1, i2, n1, n2

VARIABLES store, r1, r2, r3, r4, r5, r6, r7

registers == <<r1, r2, r3, r4, r5, r6, r7>>
mcvars == <<store, vars, registers>>

MCBinOf == [id \in Ids |-> IF id = i1 THEN 1 ELSE 0]

NameSymmetry == Permutations(Names)

\* Blocks of one byte and of two, and block pools with room for three bytes or
\* four.
AS == INSTANCE AtomSet WITH
  Blocks <- {<<1>>, <<2>>, <<1, 2>>}, LocPoolSize <- 2, BlkPoolSize <- 3,
  MaxAtoms <- 3, NDebug <- TRUE,
  locs <- r1, listed <- r2, l_used <- r3, blkpools <- r4, answer <- r5

DD == INSTANCE DigestDb WITH
  Blocks <- {<<1, 2>>, <<2, 1>>, <<3, 3>>}, LocPoolSize <- 2, BlkPoolSize <- 4,
  MaxAtoms <- 3, NDebug <- TRUE,
  Databases <- {"tagdb", "filenamedb"}, MaxCount <- 2,
  locs <- r1, listed <- r2, l_used <- r3, blkpools <- r4, answer <- r5,
  digestdb_refcount <- r6, counts <- r7

\* They are such as AtomSetProofs takes them to be.
ASSUME BlocksAssumption == AS!BlocksFit /\ DD!BlocksFit

\* What is encoded decodes to the same digest, digit by digit.
ASSUME DigestsDecode ==
  \A byte \in 0 .. 255 : DD!digestdb_decode(DD!digestdb_encode(<<byte, 7>>)) = {<<byte, 7>>}

\* Two keys in one bin.
HA == INSTANCE Hash WITH
  Names <- {"a", "b", "c"}, NBins <- 2,
  BinOf <- [n \in {"a", "b", "c"} |-> IF n = "a" THEN 0 ELSE 1], MaxObjects <- 8,
  bins <- r1, count <- r2, alive <- r3, serial <- r4, walk <- r5, scan <- r6

\* They are such as HashProofs takes them to be.
ASSUME BinsAssumption == HA!BinsFit

FN == INSTANCE FilenameDb WITH
  Ids <- {1, 2}, BinOf <- <<1, 0>>, Filenames <- {"", "a", "b"}, Empty <- "",
  entries <- r1, open <- r2, file <- r3, cut <- r4, exists <- r5

MCInit ==
  /\ store \in Stores
  /\ Init
  /\ CASE store = "atomset"    -> AS!Init /\ r6 = 0 /\ r7 = 0
       [] store = "digestdb"   -> DD!DigestInit
       [] store = "hash"       -> HA!Init /\ r7 = 0
       [] store = "filenamedb" -> FN!Init /\ r6 = 0 /\ r7 = 0
       [] store = "tagdb"      ->
         r1 = 0 /\ r2 = 0 /\ r3 = 0 /\ r4 = 0 /\ r5 = 0 /\ r6 = 0 /\ r7 = 0

MCNext ==
  \/ store = "tagdb" /\ Next /\ UNCHANGED <<store, registers>>
  \/ store = "atomset" /\ AS!Next /\ UNCHANGED <<store, vars, r6, r7>>
  \/ store = "digestdb" /\ DD!DigestNext /\ UNCHANGED <<store, vars>>
  \/ store = "hash" /\ HA!Next /\ UNCHANGED <<store, vars, r7>>
  \/ store = "filenamedb" /\ FN!Next /\ UNCHANGED <<store, vars, r6, r7>>

MCSpec == MCInit /\ [][MCNext]_mcvars

-----------------------------------------------------------------------------
(* The properties of each store, in its own behaviours; those of the tag   *)
(* database are TagDb's.                                                   *)

\* AtomSet!AtomNamesKept: the blocks given are the blocks got back, under
\* the same numbers, through deletes, places reused and failures.
AtomNamesKept ==
  /\ [](store = "atomset" => AS!TypeOK)
  /\ store = "atomset" => AS!Promise!Init
  /\ [][store = "atomset" => AS!Promise!Next]_registers

\* AtomSet!NeverAsserts: a set whose first allocation failed half way can
\* still be asked to delete or set an atom.
AtomsNeverAssert == store = "atomset" => AS!NeverAsserts

\* DigestDb!DigestIndexesHold: an index means the same digest as long as any of the
\* databases that share the set is there.
DigestIndexesHold == [][store = "digestdb" => DD!IndexesHeld]_registers

\* Hash!OwnsWhatItHolds and Hash!WalksMissNone: what is in the hash, and only
\* that, is owned by it, and no walk misses an entry.
HashKeepsKeys == store = "hash" => HA!HashKeepsKeys

\* FilenameDb!KeepsFilenames: the last name given to each digest is what is
\* found, before and after a commit, a crash and an open.
FilenamesKept ==
  /\ store = "filenamedb" => FN!Filenamemap!Init
  /\ [][store = "filenamedb" => FN!Filenamemap!Next]_registers

\* FilenameDb!PruneKeepsExisting: prune forgets no file that is there.
PruneKeepsExisting == [][store = "filenamedb" => FN!PruneKeepsExisting]_registers

=============================================================================
