------------------------------ MODULE DigestDb ------------------------------
(***************************************************************************)
(* databases/digest-db: one atom set of digests, shared by the databases   *)
(* of the process, each of which counts its own users, and the digest's    *)
(* form as text.                                                           *)
(***************************************************************************)
EXTENDS AtomSet

CONSTANTS
  Databases,   \* the modules that share it: tagdb and filenamedb
  MaxCount     \* bound on the count of each

VARIABLES
  digestdb_refcount,
  counts             \* tagdb_refcount and filenamedb_refcount

dbvars == <<vars, digestdb_refcount, counts>>

DigestInit == Init /\ digestdb_refcount = 0 /\ counts = [d \in Databases |-> 0]

Emptied == locs' = <<>> /\ listed' = FALSE /\ l_used' = 0 /\ blkpools' = <<>>

\* digestdb_init: the first user has an atom set made, which may fail.
digestdb_init ==
  /\ digestdb_refcount' = digestdb_refcount + 1
  /\ IF digestdb_refcount = 0 THEN Emptied ELSE UNCHANGED <<locs, listed, l_used, blkpools>>

\* Mutant: it is destroyed with one user left.
LastUser_ButOne == digestdb_refcount = 2

LastUser == digestdb_refcount = 1

\* digestdb_fin: the last user has it destroyed.
digestdb_fin ==
  /\ digestdb_refcount > 0
  /\ digestdb_refcount' = digestdb_refcount - 1
  /\ IF LastUser THEN Emptied ELSE UNCHANGED <<locs, listed, l_used, blkpools>>

\* filenamedb_init and tagdb_init: the first of a database's users makes it
\* a user of the digests.
db_init(d) ==
  /\ counts[d] < MaxCount
  /\ counts' = [counts EXCEPT ![d] = @ + 1]
  /\ IF counts[d] = 0 THEN digestdb_init
     ELSE UNCHANGED <<locs, listed, l_used, blkpools, digestdb_refcount>>
  /\ answer' = Answer("init", atom_NOT_FOUND)

db_init_fails(d) ==
  /\ MayFail /\ counts[d] = 0 /\ digestdb_refcount = 0
  /\ answer' = Answer("OOM", atom_NOT_FOUND)
  /\ UNCHANGED <<locs, listed, l_used, blkpools, digestdb_refcount, counts>>

\* filenamedb_fin and tagdb_fin, which do nothing once their count is 0.
db_fin(d) ==
  /\ IF counts[d] = 0 THEN UNCHANGED <<locs, listed, l_used, blkpools, digestdb_refcount, counts>>
     ELSE /\ counts' = [counts EXCEPT ![d] = @ - 1]
          /\ IF counts[d] = 1 THEN digestdb_fin
             ELSE UNCHANGED <<locs, listed, l_used, blkpools, digestdb_refcount>>
  /\ answer' = Answer("fin", atom_NOT_FOUND)

\* A database in use adds a digest: one held already is no error.
digestdb_add(digest) ==
  /\ \E d \in Databases : counts[d] > 0
  /\ atom_new(digest)
  /\ UNCHANGED <<digestdb_refcount, counts>>

DigestNext ==
  \/ \E d \in Databases : db_init(d) \/ db_init_fails(d) \/ db_fin(d)
  \/ \E digest \in Blocks : digestdb_add(digest)

DigestSpec == DigestInit /\ [][DigestNext]_dbvars

-----------------------------------------------------------------------------
(* Digests as text: two digits of hexadecimal for each byte.               *)

\* The value of a character in tab, or 255.
Nibble(c) ==
  CASE c \in 48 .. 57 -> c - 48
    [] c \in 65 .. 70 -> c - 55
    [] c \in 97 .. 102 -> c - 87
    [] OTHER -> 255

\* The bytes that text stands for, or none if it has another character.
digestdb_decode(text) ==
  IF \E i \in DOMAIN text : Nibble(text[i]) = 255 THEN {}
  ELSE {[i \in 1 .. Len(text) \div 2 |-> 16 * Nibble(text[2 * i - 1]) + Nibble(text[2 * i])]}

Digit(n) == IF n < 10 THEN 48 + n ELSE 87 + n

digestdb_encode(bytes) ==
  [i \in 1 .. 2 * Len(bytes) |->
     LET b == bytes[(i + 1) \div 2]
     IN Digit(IF i % 2 = 1 THEN b \div 16 ELSE b % 16)]

-----------------------------------------------------------------------------
(* Properties. *)

IndexesHeld ==
  \A d \in Databases : counts[d] > 0 /\ counts'[d] > 0 =>
    \A a \in Live : a \in Live' /\ Bytes(locs[a + 1])' = Bytes(locs[a + 1])

\* While a database is in use the numbers it was given go on naming the same
\* digests, whatever the other databases do, and no digest has two.
DigestIndexesHold == [][IndexesHeld]_dbvars

\* The digests are there while some database is in use, and then only.
CountedOnce ==
  /\ digestdb_refcount = Cardinality({d \in Databases : counts[d] > 0})
  /\ locs # <<>> => digestdb_refcount > 0

=============================================================================
