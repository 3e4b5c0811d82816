------------------------------- MODULE Forest -------------------------------
(***************************************************************************)
(* What datastruct/ntree.h promises: nodes, each with a sequence of        *)
(* children, each a child of one node at most.                             *)
(***************************************************************************)
EXTENDS Integers, Sequences, SequencesExt

VARIABLE kids   \* the children of each node there is

Nodes == DOMAIN kids
Roots == {n \in Nodes : \A p \in Nodes : ~ Contains(kids[p], n)}

\* n and every node below it: the least set that has n and the children of
\* every node that it has.
Below(n) ==
  {b \in Nodes : \A S \in SUBSET Nodes :
     n \in S /\ (\A m \in S : ToSet(kids[m]) \subseteq S) => b \in S}

\* No node is twice among the children of another.
Place(p, n) == CHOOSE i \in DOMAIN kids[p] : kids[p][i] = n
Without(n) == [p \in Nodes |-> IF Contains(kids[p], n)
                               THEN RemoveAt(kids[p], Place(p, n)) ELSE kids[p]]

Init == kids = << >>

New == \E n \in DOMAIN kids' \ Nodes : kids' = [p \in Nodes \cup {n} |->
                                                  IF p = n THEN <<>> ELSE kids[p]]

Insert == \E p \in Nodes, n \in Roots : \E i \in 1 .. Len(kids[p]) + 1 :
            /\ p \notin Below(n)
            /\ kids' = [kids EXCEPT ![p] = InsertAt(@, i, n)]

Unlink == \E n \in Nodes : kids' = Without(n)

\* "Unlinks the specified node from the tree, deletes it and all children."
Delete == \E n \in Nodes :
            kids' = [p \in Nodes \ Below(n) |-> Without(n)[p]]

\* A copy of what is below a node: new nodes stand for them.
Copy ==
  LET new == DOMAIN kids' \ Nodes
  IN  \E n \in Nodes : \E f \in [Below(n) -> new] :
        /\ \A m \in new : \E b \in Below(n) : f[b] = m
        /\ kids' = [p \in DOMAIN kids' |->
                      IF p \in Nodes THEN kids[p]
                      ELSE LET b == CHOOSE b \in Below(n) : f[b] = p
                           IN  [i \in DOMAIN kids[b] |-> f[kids[b][i]]]]
        /\ \A a, b \in Below(n) : f[a] = f[b] => a = b

Next == New \/ Insert \/ Unlink \/ Delete \/ Copy

-----------------------------------------------------------------------------

\* The nodes that a walk of depth levels below n is to visit, in order.
Listing(n, order, leaves, branches, depth) ==
  LET self(m) == IF (IF kids[m] = <<>> THEN leaves ELSE branches) THEN <<m>> ELSE <<>>
      f[d \in 0 .. depth] ==
        [m \in Nodes |->
           IF d = 0 THEN <<>>
           ELSE LET each == [i \in DOMAIN kids[m] |-> f[d - 1][kids[m][i]]]
                IN  IF kids[m] = <<>> THEN self(m)
                    ELSE IF order = "pre" THEN self(m) \o FlattenSeq(each)
                    ELSE IF order = "post" THEN FlattenSeq(each) \o self(m)
                    ELSE Head(each) \o self(m) \o FlattenSeq(Tail(each))]
  IN  f[depth][n]

=============================================================================
