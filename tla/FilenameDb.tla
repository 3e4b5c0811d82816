----------------------------- MODULE FilenameDb -----------------------------
(***************************************************************************)
(* databases/filename-db: the filenames of digests, in a hash that is read *)
(* from a file when the database is opened and written to it by a commit.  *)
(*                                                                         *)
(* The hash is the sequence its walks meet: bin by bin, in each in the     *)
(* order of insertion.  The file is its lines, an id and a filename each;  *)
(* its last line may be cut.                                               *)
(***************************************************************************)
EXTENDS Integers, Sequences, SequencesExt, FiniteSetsExt

CONSTANTS
  Ids, BinOf,   \* digests, and the bin of each
  Filenames,
  Empty,        \* the filename of no characters
  RiscOS,       \* which prune_cb is built
  MayFail       \* whether an allocation or a write may fail

VARIABLES
  entries,   \* the hash's entries in the order of a walk
  open,      \* whether there is a database
  file,      \* the lines of the file
  cut,       \* whether its last line, or its header, is incomplete
  exists     \* the files there are

vars == <<entries, open, file, cut, exists>>

Entry(id, filename) == [id |-> id, filename |-> filename]

Init ==
  /\ entries = <<>> /\ open = FALSE
  /\ file = <<>> /\ cut = FALSE
  /\ exists \in SUBSET Filenames

-----------------------------------------------------------------------------

Position(s, id) == {i \in DOMAIN s : s[i].id = id}

hash_insert(s, id, filename) ==
  IF Position(s, id) # {} THEN [s EXCEPT ![Min(Position(s, id))].filename = filename]
  ELSE LET before == {i \in DOMAIN s : BinOf[s[i].id] <= BinOf[id]}
       IN InsertAt(s, (IF before = {} THEN 0 ELSE Max(before)) + 1, Entry(id, filename))

\* The digest and the filename are made atoms, and inserted.
filenamedb_add(id, filename) ==
  /\ open
  /\ entries' = hash_insert(entries, id, filename)
  /\ UNCHANGED <<open, file, cut, exists>>

\* Without memory for an atom an error is answered; for a node, none.
AddFails(id) ==
  /\ open /\ MayFail
  /\ UNCHANGED vars

-----------------------------------------------------------------------------
(* filenamedb_open: pickle_unpickle and the unformat methods. *)

\* The hash once the lines are read, one after another.
Reading(lines) ==
  LET reading[n \in 0 .. Len(lines)] ==
        IF n = 0 THEN <<>>
        ELSE hash_insert(reading[n - 1], lines[n].id, lines[n].filename)
  IN reading[Len(lines)]

\* A line with nothing behind its split is a syntax error.
Readable == \A i \in DOMAIN file : file[i].filename # Empty

\* A line cut short at the end of the file is refused or not seen, by where
\* the reader's buffer begins.
filenamedb_open ==
  /\ ~ open /\ Readable
  /\ open' = TRUE /\ entries' = Reading(file)
  /\ UNCHANGED <<file, cut, exists>>

OpenFails ==
  /\ ~ open
  /\ ~ Readable \/ cut \/ MayFail
  /\ UNCHANGED vars

-----------------------------------------------------------------------------
(* filenamedb_commit, by pickle_pickle and the format methods. *)

Commit ==
  /\ file' = entries /\ cut' = FALSE
  /\ UNCHANGED exists

\* The file cannot be opened, or a write fails at some line or in it; the
\* file was emptied first.
CommitFails ==
  /\ MayFail
  /\ \/ UNCHANGED <<file, cut>>
     \/ \E n \in 0 .. Len(entries) : file' = SubSeq(entries, 1, n) /\ cut' \in BOOLEAN
  /\ UNCHANGED exists

filenamedb_commit == open /\ (Commit \/ CommitFails) /\ UNCHANGED <<entries, open>>

\* What the commit answers is not looked at.
filenamedb_close ==
  /\ open /\ (Commit \/ CommitFails)
  /\ open' = FALSE /\ entries' = <<>>

\* The process ends, between calls or in a commit.
Crash ==
  /\ open /\ open' = FALSE /\ entries' = <<>>
  /\ CommitFails \/ UNCHANGED <<file, cut, exists>>

-----------------------------------------------------------------------------

\* Mutant: what is there is removed on RISC OS too.
Pruned_Existing(entry) == entry.filename \in exists

\* prune_cb, called for each entry, removes it: where access finds the file,
\* or on RISC OS where it is not found.
Pruned(entry) == IF RiscOS THEN entry.filename \notin exists ELSE entry.filename \in exists

\* What hash_walk leaves of the entries once it has come by them all.
Unpruned(s) ==
  LET kept[n \in 0 .. Len(s)] ==
        IF n = 0 THEN <<>>
        ELSE IF Pruned(s[n]) THEN kept[n - 1] ELSE Append(kept[n - 1], s[n])
  IN kept[Len(s)]

filenamedb_prune ==
  /\ open
  /\ entries' = Unpruned(entries)
  /\ UNCHANGED <<open, file, cut, exists>>

\* Other programs create and delete files.
FilesChange ==
  /\ \E f \in Filenames \ {Empty} : exists' \in {exists \cup {f}, exists \ {f}}
  /\ UNCHANGED <<entries, open, file, cut>>

Next ==
  \/ \E id \in Ids : AddFails(id) \/ \E f \in Filenames : filenamedb_add(id, f)
  \/ filenamedb_open \/ OpenFails
  \/ filenamedb_commit \/ filenamedb_close \/ Crash
  \/ filenamedb_prune \/ FilesChange

Spec == Init /\ [][Next]_vars

-----------------------------------------------------------------------------
(* Properties. *)

MapOf(s) == [id \in {s[i].id : i \in DOMAIN s} |-> s[Min(Position(s, id))].filename]

Filenamemap == INSTANCE FilenameMap WITH map <- MapOf(entries), saved <- MapOf(file)

\* Ids keep the filename last added for them through commits, closing and
\* opening again; only a failed commit loses some, and only prune forgets
\* any, those whose files are not there (RISC OS).
KeepsFilenames == Filenamemap!Spec

\* prune forgets no file that is there (filename-db.h: "Delete knowledge of
\* filenames which don't exist on disc").
PruneKeepsExisting ==
  filenamedb_prune => \A i \in DOMAIN entries :
    entries[i].filename \in exists => entries[i] \in ToSet(entries')

=============================================================================
