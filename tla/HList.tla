------------------------------- MODULE HList -------------------------------
(***************************************************************************)
(* datastruct/hlist: linked lists of cells that can be shared.  The client *)
(* has two lists, and gives one up when it has appended it to the other.   *)
(***************************************************************************)
EXTENDS Integers, Sequences, SequencesExt

CONSTANTS NCells, Values, MayFail

VARIABLES
  live,    \* the cells allocated
  rest,    \* of each cell: the next one
  first,   \* of each cell: what is stored
  head,    \* the first cell of each hlist
  lost,    \* cells allocated that no list has
  answer   \* what the last call answered

vars == <<live, rest, first, head, lost, answer>>
hlists == <<live, rest, first, head, lost>>

NULL == 0
Cells == 1 .. NCells
Names == {"l", "m"}

\* The cells from c on, along the links that to has; there are size of them.
Along(to, c, size) ==
  LET f[i \in 1 .. size + 1] ==
        IF i = 1 THEN c ELSE IF f[i - 1] = NULL THEN NULL ELSE to[f[i - 1]]
      n == CHOOSE k \in 0 .. size + 1 : \A i \in 1 .. size + 1 : f[i] # NULL <=> i <= k
  IN  [i \in 1 .. n |-> f[i]]

From(c) == Along(rest, c, NCells)

Contents(l) == [i \in DOMAIN From(head[l]) |-> first[From(head[l])[i]]]

Init ==
  /\ live = {} /\ lost = {}
  /\ rest = [c \in Cells |-> NULL] /\ first = [c \in Cells |-> NULL]
  /\ head = [l \in Names |-> NULL]
  /\ answer = <<>>

FirstFree == CHOOSE c \in Cells \ live : \A d \in Cells \ live : c <= d

hlist_push(l, x) ==
  /\ live # Cells
  /\ live' = live \cup {FirstFree}
  /\ first' = [first EXCEPT ![FirstFree] = x]
  /\ rest' = [rest EXCEPT ![FirstFree] = head[l]]
  /\ head' = [head EXCEPT ![l] = FirstFree]
  /\ answer' = <<>> /\ UNCHANGED lost

\* What was in a cell that is freed is not read again.
Freed(doomed) ==
  /\ live' = live \ doomed
  /\ rest' = [c \in Cells |-> IF c \in doomed THEN NULL ELSE rest[c]]
  /\ first' = [c \in Cells |-> IF c \in doomed THEN NULL ELSE first[c]]

hlist_pop(l) ==
  /\ head[l] # NULL
  /\ answer' = <<first[head[l]]>>
  /\ head' = [head EXCEPT ![l] = rest[head[l]]]
  /\ Freed({head[l]})
  /\ UNCHANGED lost

\* The cells of the tail become the list's own.
hlist_append(l, m) ==
  /\ IF head[l] = NULL
     THEN /\ head' = [head EXCEPT ![l] = head[m], ![m] = NULL]
          /\ UNCHANGED rest
     ELSE /\ rest' = [rest EXCEPT ![Last(From(head[l]))] = head[m]]
          /\ head' = [head EXCEPT ![m] = NULL]
  /\ answer' = <<>> /\ UNCHANGED <<live, first, lost>>

\* Mutant: the last cell keeps its link to what it followed.
hlist_reverse_Cycle(l) ==
  LET cells == From(head[l])
      Place(c) == CHOOSE i \in DOMAIN cells : cells[i] = c
  IN  /\ rest' = [c \in Cells |->
                    IF ~ Contains(cells, c) THEN rest[c]
                    ELSE IF c = head[l] THEN rest[c] ELSE cells[Place(c) - 1]]
      /\ head' = [head EXCEPT ![l] = IF cells = <<>> THEN NULL ELSE Last(cells)]
      /\ answer' = <<>> /\ UNCHANGED <<live, first, lost>>

hlist_reverse(l) ==
  LET cells == From(head[l])
      Place(c) == CHOOSE i \in DOMAIN cells : cells[i] = c
  IN  /\ rest' = [c \in Cells |->
                    IF ~ Contains(cells, c) THEN rest[c]
                    ELSE IF c = head[l] THEN NULL ELSE cells[Place(c) - 1]]
      /\ head' = [head EXCEPT ![l] = IF cells = <<>> THEN NULL ELSE Last(cells)]
      /\ answer' = <<>> /\ UNCHANGED <<live, first, lost>>

\* The first n cells of a copy of l.
Copied(l, n) ==
  LET new == SubSeq(SetToSeq(Cells \ live), 1, n)
      Place(c) == CHOOSE i \in DOMAIN new : new[i] = c
      New(c) == Contains(new, c)
  IN  /\ live' = live \cup ToSet(new)
      /\ first' = [c \in Cells |-> IF New(c) THEN Contents(l)[Place(c)] ELSE first[c]]
      /\ rest' = [c \in Cells |-> IF ~ New(c) THEN rest[c]
                                  ELSE IF Place(c) = n THEN NULL ELSE new[Place(c) + 1]]

\* "FIXME: This won't unwind the mallocs in the failure case."
hlist_copy(l, m) ==
  /\ head[m] = NULL
  /\ LET n == Len(Contents(l))
         new == SetToSeq(Cells \ live)
     IN  \/ /\ n <= Len(new)
            /\ Copied(l, n)
            /\ head' = [head EXCEPT ![m] = IF n = 0 THEN NULL ELSE new[1]]
            /\ answer' = <<>> /\ UNCHANGED lost
         \/ \E k \in 0 .. n - 1 :
            /\ MayFail /\ k <= Len(new)
            /\ Copied(l, k)
            /\ lost' = lost \cup {new[i] : i \in 1 .. k}
            /\ answer' = <<>> /\ UNCHANGED head

\* hlist_free, and hlist_map with a function that frees each cell: the link
\* to the next is read first.
hlist_free(l) ==
  /\ Freed(ToSet(From(head[l])))
  /\ head' = [head EXCEPT ![l] = NULL]
  /\ answer' = <<>> /\ UNCHANGED lost

\* hlist_to_array and hlist_length.
hlist_to_array(l) ==
  answer' = Contents(l) /\ UNCHANGED hlists

Next ==
  \/ \E l \in Names : \/ \E x \in Values : hlist_push(l, x)
                     \/ hlist_pop(l) \/ hlist_reverse(l) \/ hlist_free(l) \/ hlist_to_array(l)
  \/ \E l, m \in Names : l # m /\ (hlist_append(l, m) \/ hlist_copy(l, m))

Spec == Init /\ [][Next]_vars

-----------------------------------------------------------------------------

Become(l, s) == Contents(l)' = s
Keep(l) == Become(l, Contents(l))

\* What each call does to the contents of the two lists.
Promised ==
  \E l, m \in Names :
    /\ l # m
    /\ \/ Keep(m) /\ \E x \in Values : Become(l, <<x>> \o Contents(l))
       \/ /\ Keep(m) /\ Contents(l) # <<>>
          /\ Become(l, Tail(Contents(l))) /\ answer' = <<Head(Contents(l))>>
       \/ Become(m, <<>>) /\ Become(l, Contents(l) \o Contents(m))
       \/ Keep(m) /\ Become(l, Reverse(Contents(l)))
       \/ Keep(l) /\ Contents(m) = <<>> /\ Contents(m)' \in {<<>>, Contents(l)}
       \/ Keep(m) /\ Become(l, <<>>)
       \/ Keep(l) /\ Keep(m) /\ answer' = Contents(l)

\* Each cell allocated is on one of the lists, or was lost by a copy that
\* failed.
OwnsCells ==
  LET l == ToSet(From(head["l"]))
      m == ToSet(From(head["m"]))
  IN  l \cap m = {} /\ live = l \cup m \cup lost /\ lost \cap (l \cup m) = {}

\* Pushing, popping, appending, reversing, copying and freeing change the
\* lists' contents as they say, and no cell is lost, freed twice or shared,
\* as long as a client uses a list no more that it has appended.
KeepsLists == []OwnsCells /\ [][Promised]_vars

=============================================================================
