----------------------------- MODULE TagRelation -----------------------------
(***************************************************************************)
(* What a tag database promises its clients (tag-db.h): tags, known by a   *)
(* number that stays the same as long as the database is open, each with a *)
(* name of its own; a relation between ids and tags; and a saved copy of   *)
(* it, by name.  Nothing here knows of slots, bits, counts or lines.       *)
(*                                                                         *)
(* The promise is weak where a copy is saved or read back.  A commit that  *)
(* does not get to its end loses ids, each with all of its tags, from what *)
(* was saved before as well.  A tag no id has is not saved.  Reading back  *)
(* an id with more than TokenMax tags gives it TokenMax of them.           *)
(***************************************************************************)
EXTENDS FiniteSets, Naturals

CONSTANTS Ids, Names, TokenMax, LineMax, MayFail

VARIABLES
  up,     \* whether the database is open
  tags,   \* the name of each tag there is
  holds,  \* the tags of each id
  saved,  \* the names of each id's tags, as last saved
  whole   \* whether the last save got to its end

vars == <<up, tags, holds, saved, whole>>

Nothing == [id \in Ids |-> {}]
NameSet == {tags[t] : t \in DOMAIN tags}
NamesHeld(id) == {tags[t] : t \in holds[id]}

Init ==
  /\ up = FALSE
  /\ DOMAIN tags = {}
  /\ holds = Nothing
  /\ saved = Nothing
  /\ whole = TRUE

Gone == up' = FALSE /\ DOMAIN tags' = {} /\ holds' = Nothing

\* Each id comes back with all its tags, or with as many as are read.
Open ==
  /\ ~ up
  /\ up' = TRUE
  /\ UNCHANGED <<saved, whole>>
  /\ \A t, u \in DOMAIN tags' : tags'[t] = tags'[u] => t = u
  /\ NameSet' = UNION {NamesHeld(id)' : id \in Ids}
  /\ \A id \in Ids :
       /\ NamesHeld(id)' \subseteq saved[id]
       /\ Cardinality(NamesHeld(id)') =
            IF Cardinality(saved[id]) <= TokenMax THEN Cardinality(saved[id]) ELSE TokenMax

\* A new tag gets a number no other tag has.
Add(name) ==
  /\ up
  /\ UNCHANGED <<up, whole, holds, saved>>
  /\ name \notin NameSet
  /\ \E t \in DOMAIN tags' \ DOMAIN tags :
       tags' = [u \in DOMAIN tags \cup {t} |-> IF u = t THEN name ELSE tags[u]]

Remove(t) ==
  /\ up
  /\ UNCHANGED <<up, whole, saved>>
  /\ tags' = [u \in DOMAIN tags \ {t} |-> tags[u]]
  /\ holds' = [id \in Ids |-> holds[id] \ {t}]

Rename(t, name) ==
  /\ up
  /\ UNCHANGED <<up, whole, holds, saved>>
  /\ name \notin NameSet
  /\ tags' = [tags EXCEPT ![t] = name]

Tag(id, t) ==
  /\ up
  /\ UNCHANGED <<up, whole, tags, saved>>
  /\ holds' = [holds EXCEPT ![id] = @ \cup {t}]

Untag(id, t) ==
  /\ up
  /\ UNCHANGED <<up, whole, tags, saved>>
  /\ holds' = [holds EXCEPT ![id] = @ \ {t}]

Forget(id) ==
  /\ up
  /\ UNCHANGED <<up, whole, tags, saved>>
  /\ holds' = [holds EXCEPT ![id] = {}]

Kept(ids) == [id \in Ids |-> IF id \in ids THEN NamesHeld(id) ELSE {}]

\* A commit that gets to its end keeps every id, if none has more tags than
\* are sure to fit.
Save ==
  /\ up
  /\ whole' = TRUE
  /\ \E ids \in SUBSET Ids :
       /\ (\A id \in Ids : Cardinality(holds[id]) <= LineMax) => ids = Ids
       /\ saved' = Kept(ids)

Commit == UNCHANGED <<up, tags, holds>> /\ Save
Close == Gone /\ Save

\* One that does not keeps some.
SavePart ==
  /\ up
  /\ whole' = FALSE
  /\ \E ids \in SUBSET Ids : saved' = Kept(ids)

CommitFails == MayFail /\ UNCHANGED <<up, tags, holds>> /\ SavePart
CommitCrashes == Gone /\ SavePart

Crash == up /\ Gone /\ UNCHANGED <<saved, whole>>

Delete ==
  /\ ~ up
  /\ saved' = Nothing
  /\ whole' = TRUE
  /\ UNCHANGED <<up, tags, holds>>

Next ==
  \/ Crash \/ CommitCrashes \/ CommitFails \/ Commit \/ Close \/ Open \/ Delete
  \/ \E id \in Ids : Forget(id) \/ \E t \in DOMAIN tags : Tag(id, t) \/ Untag(id, t)
  \/ \E t \in DOMAIN tags : Remove(t) \/ \E name \in Names : Rename(t, name)
  \/ \E name \in Names : Add(name)

Spec == Init /\ [][Next]_vars

=============================================================================
