------------------------------- MODULE TagDb -------------------------------
(***************************************************************************)
(* The tag database, libraries/databases/tag-db/tag-db.c: tags, each a     *)
(* name and a count of its taggings, and ids, each with the set of its     *)
(* tags.  A tag is its position in db->counts (from 1 here, from 0 there). *)
(*                                                                         *)
(* The names are in an atom set, of which only membership matters here: an *)
(* entry's atom stands for its name.  The hash from ids to sets of tags is *)
(* given by the order a walk meets the ids in: bin by bin, and within a    *)
(* bin as inserted.  The file holds a line for each id with tags.          *)
(*                                                                         *)
(* Two calls are taken in steps: tagdb_open, which reads token by token,   *)
(* and tagdb_remove, which enumerates a tag's ids and untags each.  The    *)
(* client may also be enumerating ids, in calls of its own between which   *)
(* it may do anything (scan).                                              *)
(***************************************************************************)
EXTENDS Integers, SequencesExt

CONSTANTS
  Ids,
  Names,        \* names of tags, each without spaces
  None,         \* no name: the entry is empty (index -1)
  BinOf,        \* the hash bin of each id: digestdb_hash(id) % nbins
  MinAlloc,     \* the least number of counts allocated (8 in the code)
  TokenMax,     \* MAXTOKENS: the tags read from a line
  LineMax,      \* the tags whose names are sure to fit in a line's buffer
  CountMin,     \* bound: the client untags no id at this count
  CountMax,     \* bound: the client tags no id at this count
  MayFail       \* whether allocations may fail

ASSUME IdAssumption == IsFiniteSet(Ids) /\ BinOf \in [Ids -> Nat]
ASSUME NameAssumption == IsFiniteSet(Names) /\ None \notin Names
ASSUME LimitAssumption ==
  /\ MinAlloc \in Nat \ {0}
  /\ TokenMax \in Nat \ {0}
  /\ LineMax \in Nat
  /\ CountMin \in Int /\ CountMax \in Int
  /\ MayFail \in BOOLEAN

VARIABLES
  pc,         \* which call is in progress, if any
  atoms,      \* db->tags: the names in the atom set
  counts,     \* db->counts, db->c_used long: each entry's name and count
  allocated,  \* db->c_allocated
  order,      \* db->hash: its ids, as a walk meets them
  held,       \* db->hash: the tags of each id, none for an id not there
  file,       \* the file's whole lines, and whether writing it was cut short
  at,         \* where the call in progress has got to
  scan        \* the client's enumeration of ids

vars == <<pc, atoms, counts, allocated, order, held, file, at, scan>>
memory == <<atoms, counts, allocated, order, held>>

Tags == DOMAIN counts
Known == Range(order)
Entry == [name : Names \cup {None}, count : Int]

\* A line: an id and the names of its tags.  A file that was cut short may end
\* in part of the next line, or of the header if it has no lines.
Line == [id : Ids, names : Seq(Names)]
NoFile == [lines |-> <<>>, cut |-> FALSE]

Nowhere == [tag |-> 0, cont |-> 0]
NoScan == [on |-> FALSE, cont |-> 0, want |-> {}, owed |-> {}]

Init ==
  /\ pc = "closed"
  /\ atoms = {}
  /\ counts = <<>>
  /\ allocated = 0
  /\ order = <<>>
  /\ held = [id \in Ids |-> {}]
  /\ file = NoFile
  /\ at = Nowhere
  /\ scan = NoScan

Live(t) == counts[t].name # None
Named(n) == {t \in Tags : counts[t].name = n}

\* Everything the process held is gone.
Forgotten ==
  /\ atoms' = {}
  /\ counts' = <<>>
  /\ allocated' = 0
  /\ order' = <<>>
  /\ held' = [id \in Ids |-> {}]
  /\ at' = Nowhere
  /\ scan' = NoScan

-----------------------------------------------------------------------------
(* tagdb_add, tagdb_rename. *)

HasRoom == Len(counts) < allocated

\* Where a new tag goes: after the last entry, or, once every entry allocated
\* is in use, into the first empty entry if there is one.
NewTag(t) ==
  IF HasRoom
  THEN t = Len(counts) + 1
  ELSE /\ t \in Tags => ~ Live(t)
       /\ \A u \in 1 .. t - 1 : Live(u)

\* power2gt of a power of two is its double.  The mutant is power2ge's answer.
Grown_Same == IF allocated = 0 THEN MinAlloc ELSE allocated
Grown == IF allocated = 0 THEN MinAlloc ELSE 2 * allocated

\* The entries with one more tag, its count being n.
\* The mutant makes the count 0, whatever takes the tag next.
WithTag_Uncounted(t, name, n) ==
  [u \in Tags \cup {t} |-> IF u = t THEN [name |-> name, count |-> 0] ELSE counts[u]]
WithTag(t, name, n) ==
  [u \in Tags \cup {t} |-> IF u = t THEN [name |-> name, count |-> n] ELSE counts[u]]

AddNew(t, name, n) ==
  /\ name \notin atoms
  /\ NewTag(t)
  /\ atoms' = atoms \cup {name}
  /\ counts' = WithTag(t, name, n)
  /\ allocated' = IF t > allocated THEN Grown ELSE allocated

Add(t, name) ==
  /\ pc = "idle"
  /\ AddNew(t, name, 0)
  /\ UNCHANGED <<pc, order, held, file, at, scan>>

\* The counts could not be extended: the name stays in the atom set.
AddFails(t, name) ==
  /\ pc = "idle"
  /\ MayFail
  /\ name \notin atoms
  /\ NewTag(t)
  /\ t > allocated
  /\ atoms' = atoms \cup {name}
  /\ UNCHANGED <<pc, counts, allocated, order, held, file, at, scan>>

\* assert(i < db->c_used): the name is known but no entry has it.
AddAborts(name) ==
  /\ pc = "idle"
  /\ name \in atoms /\ Named(name) = {}
  /\ pc' = "abort"
  /\ UNCHANGED <<memory, file, at, scan>>

\* The atom set when atom_set has given an atom another name.
\* The mutant deletes the name it has just made.
Renamed_Lost(old, new) == atoms \ {old, new}
Renamed(old, new) == (atoms \ {old}) \cup {new}

\* atom_set refuses a name that is in use.
Rename(t, name) ==
  /\ pc = "idle"
  /\ Live(t)
  /\ name \notin atoms
  /\ atoms' = Renamed(counts[t].name, name)
  /\ counts' = [counts EXCEPT ![t].name = name]
  /\ UNCHANGED <<pc, allocated, order, held, file, at, scan>>

-----------------------------------------------------------------------------
(* tagdb_tagid, tagdb_untagid, tagdb_forget, and what they do to what a     *)
(* client's enumeration still owes it.                                      *)

\* hash_insert puts a new id at the end of its bin's chain.
InsertionPoint(id, p) ==
  /\ \A q \in 1 .. p - 1 : BinOf[order[q]] <= BinOf[id]
  /\ p <= Len(order) => BinOf[order[p]] > BinOf[id]

Insert(id) ==
  IF id \in Known
  THEN UNCHANGED order
  ELSE \E p \in 1 .. Len(order) + 1 :
         InsertionPoint(id, p) /\ order' = InsertAt(order, p, id)

TagId(id, t) ==
  /\ pc = "idle"
  /\ Live(t)
  /\ t \notin held[id]
  /\ counts[t].count < CountMax
  /\ held' = [held EXCEPT ![id] = @ \cup {t}]
  /\ Insert(id)
  /\ counts' = [counts EXCEPT ![t].count = @ + 1]
  /\ UNCHANGED <<pc, atoms, allocated, file, at, scan>>

\* hash_insert failed, which tagdb_tagid does not notice.
TagIdFails(id, t) ==
  /\ pc = "idle"
  /\ MayFail
  /\ Live(t)
  /\ id \notin Known
  /\ counts[t].count < CountMax
  /\ counts' = [counts EXCEPT ![t].count = @ + 1]
  /\ UNCHANGED <<pc, atoms, allocated, order, held, file, at, scan>>

\* The bit is cleared and the count goes down, whether the bit was set or not.
\* The mutant forgets the bit.
Untagged_BitKept(id, t) ==
  /\ UNCHANGED held
  /\ counts' = [counts EXCEPT ![t].count = @ - 1]
Untagged(id, t) ==
  /\ held' = [held EXCEPT ![id] = @ \ {t}]
  /\ counts' = [counts EXCEPT ![t].count = @ - 1]

Unowed(id, t) ==
  IF scan.on /\ t \in scan.want THEN [scan EXCEPT !.owed = @ \ {id}] ELSE scan

UntagId(id, t) ==
  /\ pc = "idle"
  /\ Live(t)
  /\ id \in Known
  /\ counts[t].count > CountMin
  /\ Untagged(id, t)
  /\ scan' = Unowed(id, t)
  /\ UNCHANGED <<pc, atoms, allocated, order, file, at>>

\* The id leaves the hash; its tags' counts stay as they are.  It has to be
\* there: hash_remove follows a null pointer if it is not, which is for clients
\* to avoid.  A client that is enumerating has to begin again.
Forget(id) ==
  /\ pc = "idle"
  /\ \E p \in DOMAIN order : order[p] = id /\ order' = RemoveAt(order, p)
  /\ held' = [held EXCEPT ![id] = {}]
  /\ scan' = NoScan
  /\ UNCHANGED <<pc, atoms, counts, allocated, file, at>>

-----------------------------------------------------------------------------
(* The enumerations of ids: all of them, those with a tag, those with all   *)
(* of several tags.  A continuation counts the ids a walk has met.          *)

\* The id the walk meets at p has the wanted tags, and the callbacks to be
\* counted first have been.  The mutant counts one too many.
Matches_TooFar(want, cont, p) == p > cont + 1 /\ want \subseteq held[order[p]]
Matches(want, cont, p) == p > cont /\ want \subseteq held[order[p]]

NextMatch(want, cont, p) ==
  /\ Matches(want, cont, p)
  /\ \A q \in 1 .. p - 1 : ~ Matches(want, cont, q)

NoMatch(want, cont) == \A p \in DOMAIN order : ~ Matches(want, cont, p)

\* The enumeration a call goes on with; it begins with continuation 0.
From(want) ==
  IF scan.on THEN scan
  ELSE [on |-> TRUE, cont |-> 0, want |-> want,
        owed |-> {id \in Known : want \subseteq held[id]}]

EnumerateNext(want, p) ==
  /\ pc = "idle"
  /\ want = From(want).want
  /\ NextMatch(want, From(want).cont, p)
  /\ scan' = [From(want) EXCEPT !.cont = p, !.owed = @ \ {order[p]}]
  /\ UNCHANGED <<pc, memory, file, at>>

\* The continuation is 0 again.  (What is still owed stays to be looked at.)
EnumerateEnd(want) ==
  /\ pc = "idle"
  /\ want = From(want).want
  /\ NoMatch(want, From(want).cont)
  /\ scan' = [NoScan EXCEPT !.owed = From(want).owed]
  /\ UNCHANGED <<pc, memory, file, at>>

-----------------------------------------------------------------------------
(* tagdb_remove: untags every id the enumeration by tag finds, then frees   *)
(* the name and the entry.                                                  *)

RemoveBegin(t) ==
  /\ pc = "idle"
  /\ Live(t)
  /\ pc' = "remove"
  /\ at' = [tag |-> t, cont |-> 0]
  /\ UNCHANGED <<memory, file, scan>>

RemoveUntag(p) ==
  /\ pc = "remove"
  /\ NextMatch({at.tag}, at.cont, p)
  /\ Untagged(order[p], at.tag)
  /\ scan' = Unowed(order[p], at.tag)
  /\ at' = [at EXCEPT !.cont = p]
  /\ UNCHANGED <<pc, atoms, allocated, order, file>>

RemoveEnd ==
  /\ pc = "remove"
  /\ NoMatch({at.tag}, at.cont)
  /\ atoms' = atoms \ {counts[at.tag].name}
  /\ counts' = [counts EXCEPT ![at.tag] = [name |-> None, count |-> 0]]
  /\ pc' = "idle"
  /\ at' = Nowhere
  /\ scan' = IF at.tag \in scan.want THEN NoScan ELSE scan
  /\ UNCHANGED <<allocated, order, held, file>>

-----------------------------------------------------------------------------
(* tagdb_open: pickle_unpickle hands over each line, unformat_value adds    *)
(* its tags.  A line's set of tags is inserted in the hash once it is       *)
(* complete; nothing reads it before, so here it grows there.               *)

Open ==
  /\ pc = "closed"
  /\ pc' = "load"
  /\ at' = [line |-> 1, token |-> 1]
  /\ UNCHANGED <<memory, file, scan>>

\* Where to find the next token.
Following ==
  IF at.token < Len(file.lines[at.line].names) /\ at.token < TokenMax
  THEN [at EXCEPT !.token = @ + 1]
  ELSE [line |-> at.line + 1, token |-> 1]

Hold(id, t) ==
  /\ held' = [held EXCEPT ![id] = @ \cup {t}]
  /\ Insert(id)

LoadToken ==
  /\ pc = "load"
  /\ at.line \in DOMAIN file.lines
  /\ LET line == file.lines[at.line]
         name == line.names[at.token]
     IN  \/ \E t \in 1 .. Len(counts) + 1 :
              AddNew(t, name, 1) /\ Hold(line.id, t)
         \/ \E t \in Named(name) :
              /\ counts' = [counts EXCEPT ![t].count = @ + 1]
              /\ Hold(line.id, t)
              /\ UNCHANGED <<atoms, allocated>>
  /\ at' = Following
  /\ UNCHANGED <<pc, file, scan>>

\* What follows the last newline is ignored.
LoadEnd ==
  /\ pc = "load"
  /\ at.line \notin DOMAIN file.lines
  /\ pc' = "idle"
  /\ at' = Nowhere
  /\ UNCHANGED <<memory, file, scan>>

\* No newline in the part of the file that is in the buffer is a syntax error,
\* which what is left of a line or of the header may be.  Memory may run out.
LoadFails ==
  /\ pc = "load"
  /\ file.cut \/ MayFail
  /\ pc' = "closed"
  /\ Forgotten
  /\ UNCHANGED file

-----------------------------------------------------------------------------
(* tagdb_commit, tagdb_close: pickle_pickle empties the file and writes a   *)
(* line for each id of the walk that has tags.                              *)

\* The i-th smallest number of a set, and the values of f at the set's numbers
\* in ascending order: the order bitvec_next finds tags and a walk meets ids.
Nth(S, i) == CHOOSE n \in S : Cardinality({m \in S : m <= n}) = i
Ascending(S, f) == [i \in 1 .. Cardinality(S) |-> f[Nth(S, i)]]

\* The ids with tags, as the walk meets them.  The mutant's walk begins after
\* the first id.
Tagged_NotFirst == Ascending({p \in DOMAIN order : p > 1 /\ held[order[p]] # {}}, order)
Tagged == Ascending({p \in DOMAIN order : held[order[p]] # {}}, order)

\* format_value finds a name for each bit; whether the names fit depends on
\* their lengths once there are more of them than LineMax.
Formats(id) == \A t \in held[id] : t \in Tags /\ Live(t)
MayOverflow(id) == Cardinality(held[id]) > LineMax

NameOf == [t \in Tags |-> counts[t].name]
LineOf(id) == [id |-> id, names |-> Ascending(held[id], NameOf)]

FirstLines(n) == [p \in 1 .. n |-> LineOf(Tagged[p])]

Writable(n) == \A p \in 1 .. n : Formats(Tagged[p])

\* The commit stops at the first id it cannot write a line for.
WrittenFiles ==
  {[lines |-> FirstLines(n), cut |-> FALSE] : n \in
     {m \in 0 .. Len(Tagged) :
        /\ Writable(m)
        /\ m < Len(Tagged) => ~ Formats(Tagged[m + 1]) \/ MayOverflow(Tagged[m + 1])}}

\* What may be in the file when writing it stopped anywhere.
PartFiles ==
  {[lines |-> FirstLines(n), cut |-> TRUE] : n \in {m \in 0 .. Len(Tagged) : Writable(m)}}

Commit ==
  /\ pc = "idle"
  /\ file' \in WrittenFiles
  /\ UNCHANGED <<pc, memory, at, scan>>

\* tagdb_close commits, ignores the result and frees everything.
Close ==
  /\ pc = "idle"
  /\ file' \in WrittenFiles
  /\ pc' = "closed"
  /\ Forgotten

\* A write failed: fprintf says so, or fclose does and is not heard.
CommitFails ==
  /\ pc = "idle"
  /\ MayFail
  /\ file' \in PartFiles
  /\ UNCHANGED <<pc, memory, at, scan>>

\* The process stops: in a commit, in any other call, or between calls.
CommitCrashes ==
  /\ pc = "idle"
  /\ file' \in PartFiles
  /\ pc' = "closed"
  /\ Forgotten

Crash ==
  /\ pc # "closed"
  /\ pc' = "closed"
  /\ Forgotten
  /\ UNCHANGED file

\* tagdb_delete.
Delete ==
  /\ pc = "closed"
  /\ file' = NoFile
  /\ UNCHANGED <<pc, memory, at, scan>>

-----------------------------------------------------------------------------

Next ==
  \/ Open \/ LoadToken \/ LoadEnd \/ LoadFails
  \/ \E t \in 1 .. Len(counts) + 1, name \in Names : Add(t, name) \/ AddFails(t, name)
  \/ \E name \in Names : AddAborts(name)
  \/ \E t \in Tags, name \in Names : Rename(t, name)
  \/ \E id \in Ids, t \in Tags : TagId(id, t) \/ TagIdFails(id, t) \/ UntagId(id, t)
  \/ \E id \in Ids : Forget(id)
  \/ \E want \in SUBSET {t \in Tags : Live(t)} :
       EnumerateEnd(want) \/ \E p \in DOMAIN order : EnumerateNext(want, p)
  \/ \E t \in Tags : RemoveBegin(t)
  \/ \E p \in DOMAIN order : RemoveUntag(p)
  \/ RemoveEnd
  \/ Commit \/ CommitFails \/ Close \/ CommitCrashes \/ Crash \/ Delete

Spec == Init /\ [][Next]_vars

-----------------------------------------------------------------------------
(* Properties. *)

\* Every variable has its type, and the counts in use are among those
\* allocated.
TypeOK ==
  /\ pc \in {"closed", "load", "idle", "remove", "abort"}
  /\ atoms \subseteq Names
  /\ counts \in Seq(Entry)
  /\ allocated \in Nat /\ Len(counts) <= allocated
  /\ order \in Seq(Ids)
  /\ held \in [Ids -> SUBSET Tags]
  /\ file \in [lines : Seq(Line), cut : BOOLEAN]
  /\ at \in [tag : Nat, cont : Nat] \cup [line : Nat, token : Nat]
  /\ scan \in [on : BOOLEAN, cont : Nat, want : SUBSET Tags, owed : SUBSET Ids]

\* A set bit belongs to a tag in use: tagdb_remove clears a tag's bits before
\* it frees the entry, so the tag that gets the entry next starts with no ids,
\* and format_value finds a name for each bit.
LiveBitsOnly ==
  /\ \A id \in Ids : \A t \in held[id] : t \in Tags /\ Live(t)
  /\ \A id \in Ids : held[id] # {} => id \in Known

\* Two entries never share a name, and every entry's name is in the atom set:
\* tagdb_add finds the entry of a name that exists, atom_set refuses others.
NamesUnique ==
  /\ \A t, u \in Tags : Live(t) /\ counts[t].name = counts[u].name => t = u
  /\ \A t \in Tags : Live(t) => counts[t].name \in atoms

\* How many ids have a tag, and how far its count is from that.
Holders(t) == {id \in Ids : t \in held[id]}
Drift(t) == counts[t].count - Cardinality(Holders(t))

\* A tag's count is the number of ids that have it.
CountsExact == \A t \in Tags : Live(t) => Drift(t) = 0

\* The code loses count only where a tag is taken from an id that does not
\* have it, where an id with tags is forgotten, or where memory ran out; every
\* other step, tagdb_remove's and the load's too, leaves the error as it was,
\* and a new tag has none.
CountsDriftOnly ==
  [][\A t \in DOMAIN counts' : counts'[t].name # None =>
       \/ Drift(t)' = IF t \in Tags /\ Live(t) THEN Drift(t) ELSE 0
       \/ \E id \in Ids : UntagId(id, t) /\ t \notin held[id]
       \/ \E id \in Ids : Forget(id) /\ t \in held[id]
       \/ \E id \in Ids : TagIdFails(id, t)]_vars

\* An enumeration that has come to its end has given its client every id that
\* had the wanted tags when it began and has had them since, whatever the
\* client added, tagged and untagged between the calls.
MissesNone == ~ scan.on => scan.owed = {}

\* The database is the relation of TagRelation between ids and tags: a tag's
\* number stays its own as long as there is the tag, whichever slots are freed
\* and used again.  While tagdb_remove is at work, its tag is already gone.
Going == IF pc = "remove" THEN {at.tag} ELSE {}
Up == pc \in {"idle", "remove"}

TagNames ==
  [t \in IF Up THEN {u \in Tags : Live(u)} \ Going ELSE {} |-> counts[t].name]
Holding == [id \in Ids |-> IF Up THEN held[id] \ Going ELSE {}]
LinesOf(id) == {l \in DOMAIN file.lines : file.lines[l].id = id}
Saved == [id \in Ids |-> UNION {Range(file.lines[l].names) : l \in LinesOf(id)}]

Relation == INSTANCE TagRelation WITH
  up <- Up, tags <- TagNames, holds <- Holding, saved <- Saved, whole <- ~ file.cut

\* (This is Relation!Spec, its steps asked about only when it changes.)
IsRelation == Relation!Init /\ [][Relation!vars' # Relation!vars => Relation!Next]_vars

=============================================================================
