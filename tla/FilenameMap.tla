----------------------------- MODULE FilenameMap -----------------------------
(***************************************************************************)
(* What databases/filename-db.h promises: a map from ids to filenames,     *)
(* that is kept in a file from one session to the next.                    *)
(***************************************************************************)
EXTENDS Functions

CONSTANTS Ids, Filenames

VARIABLES
  map,      \* the filenames of the session's ids; none outside a session
  saved,    \* what the file holds
  exists    \* the files there are

vars == <<map, saved, exists>>

Nothing == [id \in {} |-> {}]

\* A part of what was to be saved.
PartOf(m, whole) == DOMAIN m \subseteq DOMAIN whole /\ \A id \in DOMAIN m : m[id] = whole[id]

Init == map = Nothing /\ saved = Nothing /\ exists \subseteq Filenames

\* With no memory left the id may stay as it was.
Add(id, filename) ==
  /\ map' = [i \in DOMAIN map \cup {id} |-> IF i = id THEN filename ELSE map[i]]
  /\ UNCHANGED <<saved, exists>>

\* Files that are not there are forgotten.
Prune ==
  /\ map' = [id \in {i \in DOMAIN map : map[i] \in exists} |-> map[id]]
  /\ UNCHANGED <<saved, exists>>

\* A session begins with what was saved, and ends.
Open == map' = saved /\ UNCHANGED <<saved, exists>>
Close == map' = Nothing /\ UNCHANGED <<saved, exists>>

\* A save that fails or is cut short leaves a part of the map in the file.
Save == saved' = map /\ UNCHANGED <<map, exists>>
SaveFails == PartOf(saved', map) /\ UNCHANGED <<map, exists>>
EndSession == map' = Nothing /\ PartOf(saved', map) /\ UNCHANGED exists

FilesChange == UNCHANGED <<map, saved>>

Next ==
  \/ \E id \in Ids, filename \in Filenames : Add(id, filename)
  \/ Prune \/ Open \/ Close \/ Save \/ SaveFails \/ EndSession \/ FilesChange

Spec == Init /\ [][Next]_vars

=============================================================================
