------------------------------ MODULE CacheAge ------------------------------
(***************************************************************************)
(* Cache with a history variable: when the entry now in each slot of the   *)
(* pool was put, which cache.c does not record (it stamps an entry again   *)
(* each time the entry is used).  It serves to say which entries evict     *)
(* chooses.                                                                *)
(***************************************************************************)
EXTENDS Cache

VARIABLE born   \* the time at which each linked entry was put, else 0

ageVars == <<vars, born>>

AgeInit == Init /\ born = [e \in Entries |-> 0]

AgeNext ==
  /\ Next
  /\ born' = [e \in Entries |->
                IF e \in Linked' THEN (IF e \in Linked THEN born[e] ELSE time) ELSE 0]

AgeSpec == AgeInit /\ [][AgeNext]_ageVars

\* A call that has begun runs on: nothing in cache_put waits for another.
AgeFairSpec == AgeSpec /\ WF_vars(PutStep)

\* The entries this step evicts.
Evicted == IF pc = "idle" THEN {} ELSE Linked \ Linked'

BinOfEntry(e) == BinOf[entries[e].key]

\* Of the entries on one hash chain the first put is the first evicted,
\* whatever was used since: "insert at the end of the chain (so that we find
\* older entries sooner when evicting)", cache_put.
EvictsOldestOfChain ==
  [][\A e \in Evicted : \A f \in Linked :
       BinOfEntry(f) = BinOfEntry(e) => born[e] <= born[f]]_ageVars

\* The entry used last is evicted only when every entry left is on its own
\* chain: evict compares the chains' first entries by time of last use.
\* Holds while the clock has not wrapped.
LastUsedSurvives ==
  [][\A e \in Evicted :
       (\A f \in Linked : entries[f].time <= entries[e].time)
         => \A f \in Linked : BinOfEntry(f) = BinOfEntry(e)]_ageVars

\* datastruct/cache.h: "The eviction policy is oldest first."  The evicted
\* entry is the one put first or, reading age as time since use, the one used
\* least recently.  The code looks at the first entry of each chain only, and
\* may evict an entry that is neither.
EvictsOldestFirst ==
  [][\A e \in Evicted :
       \/ \A f \in Linked : born[e] <= born[f]
       \/ \A f \in Linked : entries[e].time <= entries[f].time]_ageVars

=============================================================================
