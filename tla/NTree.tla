------------------------------- MODULE NTree -------------------------------
(***************************************************************************)
(* datastruct/ntree: a tree of nodes with links to their siblings, parent  *)
(* and first child.  ntree_walk recurses: "todo" is what its callers have  *)
(* left to do, and its client's function may change the tree under it.     *)
(***************************************************************************)
EXTENDS Integers, Sequences, FiniteSets, SequencesExt

CONSTANTS
  NNodes,    \* bound: the nodes there can be
  Depths,    \* the depths clients ask ntree_walk for: 0 is all
  Flags      \* and which nodes: records of leaves and branches

VARIABLES
  live,      \* the nodes that clients have
  lost,      \* the nodes of copies that failed, which nobody has
  next, prev, parent, children,
  walk,      \* the call of ntree_walk in progress, or NoWalk
  todo,      \* what is left of it, the innermost call first
  visited    \* the nodes given to the client's function

links == <<live, next, prev, parent, children>>
vars == <<links, lost, walk, todo, visited>>

NULL == 0
Nodes == 1 .. NNodes
NoWalk == [order |-> "none"]
Unlinked == [n \in Nodes |-> NULL]

IS_ROOT(t) == parent[t] = NULL /\ prev[t] = NULL /\ next[t] = NULL

\* The nodes from c on, along the links that to has; there are size of them.
Along(to, c, size) ==
  LET f[i \in 1 .. size + 1] ==
        IF i = 1 THEN c ELSE IF f[i - 1] = NULL THEN NULL ELSE to[f[i - 1]]
      n == CHOOSE k \in 0 .. size + 1 : \A i \in 1 .. size + 1 : f[i] # NULL <=> i <= k
  IN  [i \in 1 .. n |-> f[i]]

\* A node's children, from the first along the links to siblings.
Kids(t) == Along(next, children[t], NNodes)

\* The least set that has t and, of every node that it has, the parent.
Ancestors(t) ==
  {a \in Nodes : \A S \in SUBSET Nodes :
     t \in S /\ (\A m \in S : parent[m] \in S \cup {NULL}) => a \in S}
Tree(t) == {n \in live : t \in Ancestors(n)}

-----------------------------------------------------------------------------

Init ==
  /\ live = {} /\ lost = {}
  /\ next = Unlinked /\ prev = Unlinked /\ parent = Unlinked /\ children = Unlinked
  /\ walk = NoWalk /\ todo = <<>> /\ visited = <<>>

\* calloc.  The least node free stands for any.
Free == Nodes \ (live \cup lost)
FirstFree == CHOOSE n \in Free : \A m \in Free : n <= m

ntree_new ==
  /\ Free # {}
  /\ live' = live \cup {FirstFree}
  /\ UNCHANGED <<next, prev, parent, children>>

\* Mutant: the old first child's link back is not set.
ntree_insert_before_NoBack(p, sibling, node) ==
  /\ next' = [next EXCEPT ![node] = sibling]
  /\ prev' = prev
  /\ children' = [children EXCEPT ![p] = node]
  /\ parent' = [parent EXCEPT ![node] = p]
  /\ UNCHANGED live

ntree_insert_before(p, sibling, node) ==
  LET before == IF sibling # NULL THEN prev[sibling]
                ELSE IF children[p] = NULL THEN NULL ELSE Last(Kids(p))
  IN  /\ parent' = [parent EXCEPT ![node] = p]
      /\ next' = [m \in Nodes |-> IF m = before THEN node
                                  ELSE IF m = node THEN sibling ELSE next[m]]
      /\ prev' = [m \in Nodes |-> IF m = sibling THEN node
                                  ELSE IF m = node THEN before ELSE prev[m]]
      /\ children' = IF before = NULL THEN [children EXCEPT ![p] = node] ELSE children
      /\ UNCHANGED live

ntree_nth_child(t, n) == IF n < Len(Kids(t)) THEN Kids(t)[n + 1] ELSE NULL

\* where = 0 is ntree_prepend, -1 is ntree_INSERT_AT_END.
ntree_insert(p, where, node) ==
  ntree_insert_before(p, IF where < 0 THEN NULL ELSE ntree_nth_child(p, where), node)

Unlinking(t) ==
  /\ next' = [m \in Nodes |-> IF m = t THEN NULL
                              ELSE IF m = prev[t] THEN next[t] ELSE next[m]]
  /\ prev' = [m \in Nodes |-> IF m = t THEN NULL
                              ELSE IF m = next[t] THEN prev[t] ELSE prev[m]]
  /\ children' = IF prev[t] = NULL /\ parent[t] # NULL
                 THEN [children EXCEPT ![parent[t]] = next[t]] ELSE children
  /\ parent' = [parent EXCEPT ![t] = NULL]

ntree_unlink(t) == Unlinking(t) /\ UNCHANGED live

\* ntree_free of a node without siblings frees its tree.
Freed(f, doomed) == [m \in Nodes |-> IF m \in doomed THEN NULL ELSE f[m]]

ntree_delete(t) ==
  LET doomed == Tree(t)
      first == prev[t] = NULL /\ parent[t] # NULL
      left == [children EXCEPT ![IF first THEN parent[t] ELSE t] = next[t]]
  IN  /\ live' = live \ doomed
      /\ next' = Freed([m \in Nodes |-> IF m = prev[t] THEN next[t] ELSE next[m]], doomed)
      /\ prev' = Freed([m \in Nodes |-> IF m = next[t] THEN prev[t] ELSE prev[m]], doomed)
      /\ children' = Freed(left, doomed)
      /\ parent' = Freed(parent, doomed)

\* Nodes are allocated from the tree's top down, and each level from its last
\* child back; only their links are told apart here.
Doubles(t) == {f \in [Tree(t) -> Free] : IsInjective(f)}

ntree_copy(t) ==
  LET new == CHOOSE f \in Doubles(t) : TRUE
      Old(m) == CHOOSE n \in Tree(t) : new[n] = m
      Image(n) == IF n \in Tree(t) THEN new[n] ELSE NULL
      Added(f, root) == [m \in Nodes |->
                          IF m \notin Range(new) THEN f[m]
                          ELSE IF Old(m) = root THEN NULL ELSE Image(f[Old(m)])]
  IN  /\ Doubles(t) # {}
      /\ live' = live \cup Range(new)
      /\ next' = Added(next, t) /\ prev' = Added(prev, t)
      /\ parent' = Added(parent, t) /\ children' = Added(children, NULL)

\* The client's function or the allocator fails before the last node: the
\* copies made so far stay allocated.  No links lead to them, so theirs are
\* not modelled.
ntree_copy_Fails(t) ==
  /\ \E copies \in SUBSET Free :
       /\ Cardinality(copies) < Cardinality(Tree(t))
       /\ lost' = lost \cup copies
  /\ UNCHANGED links

-----------------------------------------------------------------------------
(* ntree_walk. *)

Begin(t, order, flags, depth) ==
  /\ walk = NoWalk
  /\ walk' = [order |-> order, flags |-> flags, root |-> t, depth |-> depth,
              kids |-> [n \in Tree(t) |-> Kids(n)]]   \* for VisitsInOrder
  /\ todo' = << <<"node", t, depth>> >>
  /\ visited' = <<>>
  /\ UNCHANGED <<links, lost>>

\* A node with children, in each order; depth counts down and 0 ends it.
Branch(t, d) ==
  LET self == IF walk.flags.branches THEN << <<"visit", t>> >> ELSE <<>>
      Below(s) == IF d - 1 = 0 THEN <<>> ELSE << s >>
  IN  CASE walk.order = "pre"  -> self \o Below(<<"first", t, d - 1>>)
        [] walk.order = "post" -> Below(<<"first", t, d - 1>>) \o self
        [] OTHER -> Below(<<"node", children[t], d - 1>>) \o self \o Below(<<"rest", t, d - 1>>)

Leaf(t) == IF walk.flags.leaves THEN << <<"visit", t>> >> ELSE <<>>

\* Mutant: the link to the next sibling is read after the call.
Siblings_Late(s, d) ==
  IF s = NULL THEN <<>> ELSE << <<"node", s, d>>, <<"after", s, d>> >>

\* Siblings from s on: the link to the next is read before the call.
Siblings(s, d) ==
  IF s = NULL THEN <<>> ELSE << <<"node", s, d>>, <<"from", next[s], d>> >>

\* What a step that calls no function of the client's puts in its place.
Expanded(step) ==
  LET t == step[2]
      d == step[3]
  IN  CASE step[1] = "node"  -> IF children[t] = NULL THEN Leaf(t) ELSE Branch(t, d)
        [] step[1] = "first" -> Siblings(children[t], d)
        [] step[1] = "rest"  -> Siblings(next[children[t]], d)
        [] step[1] = "after" -> Siblings(next[t], d)
        [] OTHER             -> Siblings(t, d)

Walk ==
  /\ walk # NoWalk /\ todo # <<>>
  /\ Head(todo)[1] # "visit"
  /\ todo' = Expanded(Head(todo)) \o Tail(todo)
  /\ UNCHANGED <<links, lost, walk, visited>>

\* The client's function leaves the tree alone, or takes the node it is given
\* out of the tree, or deletes it when nothing of it is needed any more.
\* walk_in_order reads the first child's link again after that child's visit.
Visit ==
  /\ walk # NoWalk /\ todo # <<>>
  /\ Head(todo)[1] = "visit"
  /\ visited' = Append(visited, Head(todo)[2])
  /\ \/ UNCHANGED links
     \/ walk.order \in {"pre", "post"} /\ ntree_unlink(Head(todo)[2])
     \/ walk.order = "post" /\ ntree_delete(Head(todo)[2])
  /\ todo' = Tail(todo)
  /\ UNCHANGED <<lost, walk>>

\* The client's function fails, and the walk with it.
VisitFails ==
  /\ walk # NoWalk /\ todo # <<>>
  /\ Head(todo)[1] = "visit"
  /\ todo' = <<>> /\ walk' = NoWalk /\ visited' = <<>>
  /\ UNCHANGED <<links, lost>>

Return ==
  /\ walk # NoWalk /\ todo = <<>>
  /\ walk' = NoWalk /\ visited' = <<>>
  /\ UNCHANGED <<links, lost, todo>>

-----------------------------------------------------------------------------

Change ==
  \/ ntree_new
  \/ \E p, n \in live :
       /\ IS_ROOT(n) /\ n \notin Ancestors(p)
       /\ \E where \in -1 .. Len(Kids(p)) : ntree_insert(p, where, n)
  \/ \E t \in live : ntree_unlink(t) \/ ntree_delete(t) \/ ntree_copy(t)

Next ==
  \/ /\ walk = NoWalk /\ UNCHANGED <<walk, todo, visited>>
     /\ \/ Change /\ UNCHANGED lost
        \/ \E t \in live : ntree_copy_Fails(t)
  \/ \E t \in live, order \in {"in", "pre", "post"}, flags \in Flags, depth \in Depths :
       Begin(t, order, flags, depth)
  \/ Walk \/ Visit \/ VisitFails \/ Return

Spec == Init /\ [][Next]_vars

-----------------------------------------------------------------------------

Ordered == INSTANCE Forest WITH kids <- [t \in live |-> Kids(t)]

\* The four links say the same of the tree: a node's children, one after the
\* other, have it for their parent and each other for siblings.
LinksAgree ==
  /\ \A t \in live : LET k == Kids(t) IN
       \A i \in DOMAIN k :
         /\ k[i] \in live /\ parent[k[i]] = t
         /\ prev[k[i]] = IF i = 1 THEN NULL ELSE k[i - 1]
  /\ \A n \in live : IF parent[n] = NULL THEN prev[n] = NULL /\ next[n] = NULL
                     ELSE Contains(Kids(parent[n]), n)

\* Insertions, unlinking, deletion and copies do what they say to the
\* children of every node, in the functions of a walk's client too; a copy
\* that fails loses nodes of its own and changes nobody's.
KeepsForest == Ordered!Init /\ [][links' # links => Ordered!Next]_links

\* The tree as it was when the walk began.
Then == INSTANCE Forest WITH kids <- walk.kids

\* A walk visits the nodes asked for, to the depth asked for, in the order
\* asked for, though the client's function takes each out of the tree.
VisitsInOrder ==
  walk # NoWalk =>
    LET due == Then!Listing(walk.root, walk.order, walk.flags.leaves, walk.flags.branches,
                            IF walk.depth = 0 THEN NNodes ELSE walk.depth)
    IN  IsPrefix(visited, due) /\ (todo = <<>> => visited = due)

=============================================================================
