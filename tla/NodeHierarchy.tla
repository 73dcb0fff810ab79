---------------------------- MODULE NodeHierarchy ----------------------------
(***************************************************************************)
(* The nodes of one file as a program sees them that uses the ADF library: *)
(* each step is one call of ADF_Create, ADF_Move_Child or ADF_Put_Name, or *)
(* one node that ADF_Delete removes.  If the program moves nodes as it     *)
(* should, which the library does not look at, they are a tree in which    *)
(* the children of a node have different names.                            *)
(***************************************************************************)

CONSTANTS Root,     \* the root node
          Node,     \* the node IDs, the root's included
          Names     \* the node names

ASSUME HierarchyAssumption == Root \in Node

VARIABLE tree       \* parent and name of every node but the root

Nodes == DOMAIN tree

Exists(n) == n = Root \/ n \in Nodes

Taken(p, m) == \E c \in Nodes : tree[c].parent = p /\ tree[c].name = m

\* p is n or lies below n: it is in every set of nodes that has n and all the
\* children of its members.
Within(p, n) ==
  \A S \in SUBSET Nodes :
    n \in S /\ (\A c \in Nodes : tree[c].parent \in S => c \in S) => p \in S

\* Where a node may be moved: not below itself, and to where no child has its name.
\* Neither ADF_Move_Child nor Node::reparentChild looks at that: a program has to.
Proper(n, p) == ~Within(p, n) /\ ~Taken(p, tree[n].name)

Init == tree = [n \in {} |-> [parent |-> Root, name |-> n]]

\* Mutant: the names of the siblings are not looked at.
CreateAnyName(p, n, m) ==
  /\ Exists(p) /\ ~Exists(n)
  /\ tree' = [c \in Nodes \cup {n} |-> IF c = n THEN [parent |-> p, name |-> m] ELSE tree[c]]

Create(p, n, m) ==
  /\ Exists(p) /\ ~Exists(n) /\ ~Taken(p, m)
  /\ tree' = [c \in Nodes \cup {n} |-> IF c = n THEN [parent |-> p, name |-> m] ELSE tree[c]]

\* Mutant: a node is removed and its children are not.
DeleteNode(n) == n \in Nodes /\ tree' = [c \in Nodes \ {n} |-> tree[c]]

DeleteLeaf(n) ==
  /\ n \in Nodes /\ \A c \in Nodes : tree[c].parent # n
  /\ tree' = [c \in Nodes \ {n} |-> tree[c]]

Move(n, p) ==
  /\ n \in Nodes /\ Exists(p)
  /\ tree' = [tree EXCEPT ![n].parent = p]

Rename(n, m) ==
  /\ n \in Nodes /\ ~Taken(tree[n].parent, m)
  /\ tree' = [tree EXCEPT ![n].name = m]

Next ==
  \/ \E p, n \in Node, m \in Names : Create(p, n, m)
  \/ \E n \in Node : DeleteLeaf(n)
  \/ \E n, p \in Node : Proper(n, p) /\ Move(n, p)
  \/ \E n \in Node, m \in Names : Rename(n, m)

\* What the library promises to a program that moves nodes as it should.
Spec == Init /\ [][Next]_tree

-----------------------------------------------------------------------------
(* Properties.                                                             *)

\* A deleted node takes nothing with it that still hangs on it: every node has
\* a parent that exists.
TypeOK ==
  /\ Nodes \subseteq Node \ {Root}
  /\ tree \in [Nodes -> [parent : Node, name : Names]]
  /\ \A c \in Nodes : Exists(tree[c].parent)

\* The children of a node have different names: a path names one node at most.
NamesDiffer ==
  \A c, d \in Nodes :
    c # d /\ tree[c].parent = tree[d].parent => tree[c].name # tree[d].name

\* No set of nodes hangs on itself: from every node the parents lead to the root.
\* (Of a program whose moves are Proper; it is no property of the library.)
Rooted == \A S \in SUBSET Nodes : S # {} => \E c \in S : tree[c].parent \notin S
=============================================================================
