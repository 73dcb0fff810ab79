------------------------- MODULE NodeHandles_proofs --------------------------
(***************************************************************************)
(* The objects of adf++ say what the file says, for every set of nodes,    *)
(* names, types and dimensions.  MapInv is what holds of the map of the    *)
(* objects, as an operator of the map, of the tree and of what else the    *)
(* file holds, so that a call can be followed from one of its steps to the *)
(* next: the nodes in marked are to be deleted by the call that goes on,   *)
(* and what the objects in astray have listed is not up to date.           *)
(***************************************************************************)
EXTENDS NodeHandles, TLAPS

-----------------------------------------------------------------------------
(* The abstract tree.                                                      *)

\* Every node has a parent that exists, and siblings have different names, for every set of
\* nodes and of names.  The invariant is inductive as it stands.  It does not say that the
\* nodes are a tree: a move below itself cuts a node loose.
HierarchyInv == TypeOK /\ NamesDiffer

\* A file starts with the root alone.
LEMMA HierarchyInit == Init => HierarchyInv
BY DEF Init, HierarchyInv, TypeOK, NamesDiffer, Nodes, Exists

\* ADF_Create keeps the invariant: the new node has no children and its name is
\* not one of its siblings'.
LEMMA CreateStep ==
  ASSUME HierarchyInv, NEW p \in Node, NEW n \in Node, NEW m \in Names, Create(p, n, m)
  PROVE  HierarchyInv'
<1> USE HierarchyAssumption
<1>1. /\ n # Root /\ n \notin Nodes
      /\ Nodes' = Nodes \cup {n}
      /\ tree'[n] = [parent |-> p, name |-> m]
      /\ \A c \in Nodes : tree'[c] = tree[c]
  BY DEF Create, Exists, Nodes
<1>2. \A c \in Nodes : tree[c].parent # n
  BY <1>1 DEF HierarchyInv, TypeOK, Exists
<1>3. TypeOK'
  BY <1>1 DEF HierarchyInv, TypeOK, Exists, Nodes, Create
<1>4. NamesDiffer'
  BY <1>1, <1>2 DEF HierarchyInv, NamesDiffer, Create, Taken
<1> QED
  BY <1>3, <1>4 DEF HierarchyInv

\* ADF_Delete removes a node once its children are gone.
LEMMA LeafStep ==
  ASSUME HierarchyInv, NEW n \in Node, DeleteLeaf(n)
  PROVE  HierarchyInv'
<1>1. Nodes' = Nodes \ {n} /\ \A c \in Nodes' : tree'[c] = tree[c]
  BY DEF DeleteLeaf, Nodes
<1>2. TypeOK'
  BY <1>1 DEF HierarchyInv, TypeOK, Exists, Nodes, DeleteLeaf
<1>3. NamesDiffer'
  BY <1>1 DEF HierarchyInv, NamesDiffer
<1> QED
  BY <1>2, <1>3 DEF HierarchyInv

\* ADF_Move_Child keeps the invariant, wherever the node goes, if no child there has its name.
LEMMA MoveStep ==
  ASSUME HierarchyInv, NEW n \in Node, NEW p \in Node, Move(n, p), ~Taken(p, tree[n].name)
  PROVE  HierarchyInv'
<1> USE HierarchyAssumption
<1>1. /\ n \in Nodes /\ Nodes' = Nodes
      /\ tree'[n].parent = p /\ tree'[n].name = tree[n].name
      /\ \A c \in Nodes \ {n} : tree'[c] = tree[c]
  BY DEF Move, Nodes, HierarchyInv, TypeOK
<1>2. TypeOK'
  BY <1>1 DEF HierarchyInv, TypeOK, Exists, Nodes, Move
<1>3. NamesDiffer'
  BY <1>1 DEF HierarchyInv, NamesDiffer, Move, Taken
<1> QED
  BY <1>2, <1>3 DEF HierarchyInv

\* ADF_Put_Name gives a node a name none of its siblings has.
LEMMA RenameStep ==
  ASSUME HierarchyInv, NEW n \in Node, NEW m \in Names, Rename(n, m)
  PROVE  HierarchyInv'
<1>1. /\ n \in Nodes /\ Nodes' = Nodes
      /\ tree'[n].name = m
      /\ \A c \in Nodes : tree'[c].parent = tree[c].parent
      /\ \A c \in Nodes \ {n} : tree'[c] = tree[c]
  BY DEF Rename, Nodes, HierarchyInv, TypeOK
<1>2. TypeOK'
  BY <1>1 DEF HierarchyInv, TypeOK, Exists, Nodes, Rename
<1>3. NamesDiffer'
  BY <1>1 DEF HierarchyInv, NamesDiffer, Rename, Taken
<1> QED
  BY <1>2, <1>3 DEF HierarchyInv

\* Every step of the abstract tree keeps the invariant.
LEMMA HierarchyStep ==
  ASSUME HierarchyInv, [Next]_tree
  PROVE  HierarchyInv'
<1>1. ASSUME NEW p \in Node, NEW n \in Node, NEW m \in Names, Create(p, n, m)
      PROVE  HierarchyInv'
  BY <1>1, CreateStep
<1>2. ASSUME NEW n \in Node, DeleteLeaf(n)
      PROVE  HierarchyInv'
  BY <1>2, LeafStep
<1>3. ASSUME NEW n \in Node, NEW p \in Node, Proper(n, p), Move(n, p)
      PROVE  HierarchyInv'
  BY <1>3, MoveStep DEF Proper
<1>4. ASSUME NEW n \in Node, NEW m \in Names, Rename(n, m)
      PROVE  HierarchyInv'
  BY <1>4, RenameStep
<1>5. CASE UNCHANGED tree
  BY <1>5 DEF HierarchyInv, TypeOK, NamesDiffer, Nodes, Exists
<1> QED
  BY <1>1, <1>2, <1>3, <1>4, <1>5 DEF Next

\* Every behaviour of the abstract tree, whose moves are Proper, keeps the invariant.
THEOREM HierarchyInvariant == Spec => []HierarchyInv
<1>1. Init => HierarchyInv
  BY HierarchyInit
<1>2. HierarchyInv /\ [Next]_tree => HierarchyInv'
  BY HierarchyStep
<1> QED
  BY <1>1, <1>2, PTL DEF Spec

\* A deleted node takes nothing with it that still hangs on it: every node has a
\* parent that exists.
THEOREM ParentsExist == Spec => []TypeOK
<1>1. HierarchyInv => TypeOK
  BY DEF HierarchyInv
<1> QED
  BY <1>1, HierarchyInvariant, PTL

\* Siblings have different names, so that a path names one node at most: of created and
\* renamed nodes because the library looks, of moved ones because the program did (Proper).
THEOREM SiblingNames == Spec => []NamesDiffer
<1>1. HierarchyInv => NamesDiffer
  BY DEF HierarchyInv
<1> QED
  BY <1>1, HierarchyInvariant, PTL

-----------------------------------------------------------------------------
(* The objects.                                                            *)

Here(t, n) == n = Root \/ n \in DOMAIN t

\* What is used of the tree: siblings have different names.
IsTree(t) ==
  /\ DOMAIN t \subseteq Node \ {Root}
  /\ \A c \in DOMAIN t : Here(t, t[c].parent)
  /\ \A c, d \in DOMAIN t : c # d /\ t[c].parent = t[d].parent => t[c].name # t[d].name

IsObject(r) ==
  /\ r = [name |-> r.name, type |-> r.type, dims |-> r.dims, kids |-> r.kids,
          deleted |-> r.deleted, below |-> r.below, over |-> r.over]
  /\ r.deleted \in BOOLEAN /\ r.below \in BOOLEAN /\ r.over \in BOOLEAN

IsMap(o) ==
  /\ o = [n \in DOMAIN o |-> o[n]]
  /\ Root \in DOMAIN o /\ DOMAIN o \subseteq Node
  /\ \A n \in DOMAIN o : IsObject(o[n]) /\ KidsOf(o[n]) \subseteq DOMAIN o \ {Root}

\* An object has the children of its node, by their names.
KidsRight(r, t, n) ==
  /\ KidsOf(r) = Children(t, n)
  /\ \A c \in Children(t, n) : r.kids[t[c].name] = c

\* What the object r of node n knows.
ObjectRight(r, t, i, n, marked, astray) ==
  /\ r.deleted => ~Here(t, n) \/ n \in marked
  /\ Here(t, n) \/ r.deleted \/ r.below
  /\ n \in DOMAIN t => r.name = t[n].name
  /\ Here(t, n) =>
       /\ r.type \in {Unread, i[n].type} /\ r.dims \in {Unread, i[n].dims}
       /\ n \notin astray /\ r.kids # Unread => KidsRight(r, t, n)

\* The ID of an object is one given out in the file, unless the object is of another one.
MapInv(o, t, i, g, marked, astray) ==
  /\ IsMap(o)
  /\ \A n \in DOMAIN o : ~o[n].over => ObjectRight(o[n], t, i, n, marked, astray)
  /\ \A n \in DOMAIN o : n = Root \/ n \in g \/ o[n].over

\* The object of c knows that it is of another file, and its parent knows that too or has
\* listed nothing.
Strayed(o, t, c) ==
  /\ o[c].over
  /\ t[c].parent \in DOMAIN o => o[t[c].parent].over \/ o[t[c].parent].kids = Unread

\* But for the pairs in X, a node is listed by no object but that of its parent, or else it
\* has strayed.
Strays(o, t, X) ==
  \A p \in DOMAIN o : \A c \in KidsOf(o[p]) :
    c \in DOMAIN t => t[c].parent = p \/ <<p, c>> \in X \/ Strayed(o, t, c)

\* The same before q lists its children: it does not know yet which of them have strayed.
StraysBut(o, t, X, q) ==
  \A p \in DOMAIN o : \A c \in KidsOf(o[p]) :
    c \in DOMAIN t =>
      t[c].parent = p \/ <<p, c>> \in X \/ Strayed(o, t, c) \/ (o[c].over /\ t[c].parent = q)

Marks == IF Idle THEN {} ELSE deleting.nodes

\* The objects whose children ADF_Delete takes away.
Astray ==
  IF Idle THEN {}
  ELSE {n \in Node : n = deleting.parent \/ \E c \in deleting.nodes : Within(n, c)}

FileInv ==
  /\ HierarchyInv
  /\ info = [n \in DOMAIN tree \cup {Root} |-> info[n]]
  /\ Nodes \subseteq given

CallInv ==
  ~Idle =>
    /\ deleting \in [parent : DOMAIN objs, nodes : SUBSET Children(tree, deleting.parent)]
    /\ \A c \in deleting.nodes : c \in DOMAIN objs /\ objs[c].deleted

HandlesInv ==
  /\ FileInv
  /\ Handles \subseteq DOMAIN objs
  /\ MapInv(objs, tree, info, given, Marks, Astray)
  /\ Strays(objs, tree, {})
  /\ CallInv

\* An object with some of its fields changed.
WithOver(r, x) == [r EXCEPT !.over = x]

\* A mark for an object of another file, or of a broken move, changes nothing else.
LEMMA WithOverObject ==
  ASSUME NEW r, IsObject(r), NEW x \in BOOLEAN
  PROVE  /\ IsObject(WithOver(r, x))
         /\ WithOver(r, x).name = r.name /\ WithOver(r, x).type = r.type /\ WithOver(r, x).dims = r.dims /\ WithOver(r, x).kids = r.kids
         /\ WithOver(r, x).deleted = r.deleted /\ WithOver(r, x).below = r.below /\ WithOver(r, x).over = x
<1> SUFFICES ASSUME NEW s, s = [r EXCEPT !.over = x]
             PROVE  /\ IsObject(s)
                    /\ s.name = r.name /\ s.type = r.type /\ s.dims = r.dims /\ s.kids = r.kids
                    /\ s.deleted = r.deleted /\ s.below = r.below /\ s.over = x
  BY DEF WithOver
<1>1. /\ r = [name |-> r.name, type |-> r.type, dims |-> r.dims, kids |-> r.kids,
             deleted |-> r.deleted, below |-> r.below, over |-> r.over]
      /\ r.deleted \in BOOLEAN /\ r.below \in BOOLEAN /\ r.over \in BOOLEAN
  BY DEF IsObject
<1>2. /\ s.name = r.name /\ s.type = r.type /\ s.dims = r.dims /\ s.kids = r.kids
      /\ s.deleted = r.deleted /\ s.below = r.below /\ s.over = x
  BY <1>1
<1>3. s = [name |-> s.name, type |-> s.type, dims |-> s.dims, kids |-> s.kids,
          deleted |-> s.deleted, below |-> s.below, over |-> s.over]
  BY <1>1
<1>4. s.deleted \in BOOLEAN /\ s.below \in BOOLEAN /\ s.over \in BOOLEAN
  BY <1>1
<1> QED  BY <1>2, <1>3, <1>4 DEF IsObject

\* The name.
WithName(r, x) == [r EXCEPT !.name = x]

\* A new name changes nothing else.
LEMMA WithNameObject ==
  ASSUME NEW r, IsObject(r), NEW x
  PROVE  /\ IsObject(WithName(r, x))
         /\ WithName(r, x).name = x /\ WithName(r, x).type = r.type /\ WithName(r, x).dims = r.dims /\ WithName(r, x).kids = r.kids
         /\ WithName(r, x).deleted = r.deleted /\ WithName(r, x).below = r.below /\ WithName(r, x).over = r.over
<1> SUFFICES ASSUME NEW s, s = [r EXCEPT !.name = x]
             PROVE  /\ IsObject(s)
                    /\ s.name = x /\ s.type = r.type /\ s.dims = r.dims /\ s.kids = r.kids
                    /\ s.deleted = r.deleted /\ s.below = r.below /\ s.over = r.over
  BY DEF WithName
<1>1. /\ r = [name |-> r.name, type |-> r.type, dims |-> r.dims, kids |-> r.kids,
             deleted |-> r.deleted, below |-> r.below, over |-> r.over]
      /\ r.deleted \in BOOLEAN /\ r.below \in BOOLEAN /\ r.over \in BOOLEAN
  BY DEF IsObject
<1>2. /\ s.name = x /\ s.type = r.type /\ s.dims = r.dims /\ s.kids = r.kids
      /\ s.deleted = r.deleted /\ s.below = r.below /\ s.over = r.over
  BY <1>1
<1>3. s = [name |-> s.name, type |-> s.type, dims |-> s.dims, kids |-> s.kids,
          deleted |-> s.deleted, below |-> s.below, over |-> s.over]
  BY <1>1
<1>4. s.deleted \in BOOLEAN /\ s.below \in BOOLEAN /\ s.over \in BOOLEAN
  BY <1>1
<1> QED  BY <1>2, <1>3, <1>4 DEF IsObject

\* The mark for a node that went with one above it.
WithBelow(r) == [r EXCEPT !.below = TRUE]

\* The mark of a node that went with one above it changes nothing else.
LEMMA WithBelowObject ==
  ASSUME NEW r, IsObject(r)
  PROVE  /\ IsObject(WithBelow(r))
         /\ WithBelow(r).name = r.name /\ WithBelow(r).type = r.type /\ WithBelow(r).dims = r.dims /\ WithBelow(r).kids = r.kids
         /\ WithBelow(r).deleted = r.deleted /\ WithBelow(r).below /\ WithBelow(r).over = r.over
<1> SUFFICES ASSUME NEW s, s = [r EXCEPT !.below = TRUE]
             PROVE  /\ IsObject(s)
                    /\ s.name = r.name /\ s.type = r.type /\ s.dims = r.dims /\ s.kids = r.kids
                    /\ s.deleted = r.deleted /\ s.below /\ s.over = r.over
  BY DEF WithBelow
<1>1. /\ r = [name |-> r.name, type |-> r.type, dims |-> r.dims, kids |-> r.kids,
             deleted |-> r.deleted, below |-> r.below, over |-> r.over]
      /\ r.deleted \in BOOLEAN /\ r.below \in BOOLEAN /\ r.over \in BOOLEAN
  BY DEF IsObject
<1>2. /\ s.name = r.name /\ s.type = r.type /\ s.dims = r.dims /\ s.kids = r.kids
      /\ s.deleted = r.deleted /\ s.below /\ s.over = r.over
  BY <1>1
<1>3. s = [name |-> s.name, type |-> s.type, dims |-> s.dims, kids |-> s.kids,
          deleted |-> s.deleted, below |-> s.below, over |-> s.over]
  BY <1>1
<1>4. s.deleted \in BOOLEAN /\ s.below \in BOOLEAN /\ s.over \in BOOLEAN
  BY <1>1
<1> QED  BY <1>2, <1>3, <1>4 DEF IsObject

\* What markDeleted does.
WithMark(r, x) == [r EXCEPT !.deleted = TRUE, !.kids = x]

\* markDeleted leaves all but the mark and the list.
LEMMA WithMarkObject ==
  ASSUME NEW r, IsObject(r), NEW x
  PROVE  /\ IsObject(WithMark(r, x))
         /\ WithMark(r, x).name = r.name /\ WithMark(r, x).type = r.type /\ WithMark(r, x).dims = r.dims /\ WithMark(r, x).kids = x
         /\ WithMark(r, x).deleted /\ WithMark(r, x).below = r.below /\ WithMark(r, x).over = r.over
<1> SUFFICES ASSUME NEW s, s = [r EXCEPT !.deleted = TRUE, !.kids = x]
             PROVE  /\ IsObject(s)
                    /\ s.name = r.name /\ s.type = r.type /\ s.dims = r.dims /\ s.kids = x
                    /\ s.deleted /\ s.below = r.below /\ s.over = r.over
  BY DEF WithMark
<1>1. /\ r = [name |-> r.name, type |-> r.type, dims |-> r.dims, kids |-> r.kids,
             deleted |-> r.deleted, below |-> r.below, over |-> r.over]
      /\ r.deleted \in BOOLEAN /\ r.below \in BOOLEAN /\ r.over \in BOOLEAN
  BY DEF IsObject
<1>2. /\ s.name = r.name /\ s.type = r.type /\ s.dims = r.dims /\ s.kids = x
      /\ s.deleted /\ s.below = r.below /\ s.over = r.over
  BY <1>1
<1>3. s = [name |-> s.name, type |-> s.type, dims |-> s.dims, kids |-> s.kids,
          deleted |-> s.deleted, below |-> s.below, over |-> s.over]
  BY <1>1
<1>4. s.deleted \in BOOLEAN /\ s.below \in BOOLEAN /\ s.over \in BOOLEAN
  BY <1>1
<1> QED  BY <1>2, <1>3, <1>4 DEF IsObject

\* Type and dimensions.
WithKept(r, x, y) == [r EXCEPT !.type = x, !.dims = y]

\* The type and the dimensions change nothing else.
LEMMA WithKeptObject ==
  ASSUME NEW r, IsObject(r), NEW x, NEW y
  PROVE  /\ IsObject(WithKept(r, x, y))
         /\ WithKept(r, x, y).name = r.name /\ WithKept(r, x, y).type = x /\ WithKept(r, x, y).dims = y /\ WithKept(r, x, y).kids = r.kids
         /\ WithKept(r, x, y).deleted = r.deleted /\ WithKept(r, x, y).below = r.below /\ WithKept(r, x, y).over = r.over
<1> SUFFICES ASSUME NEW s, s = [r EXCEPT !.type = x, !.dims = y]
             PROVE  /\ IsObject(s)
                    /\ s.name = r.name /\ s.type = x /\ s.dims = y /\ s.kids = r.kids
                    /\ s.deleted = r.deleted /\ s.below = r.below /\ s.over = r.over
  BY DEF WithKept
<1>1. /\ r = [name |-> r.name, type |-> r.type, dims |-> r.dims, kids |-> r.kids,
             deleted |-> r.deleted, below |-> r.below, over |-> r.over]
      /\ r.deleted \in BOOLEAN /\ r.below \in BOOLEAN /\ r.over \in BOOLEAN
  BY DEF IsObject
<1>2. /\ s.name = r.name /\ s.type = x /\ s.dims = y /\ s.kids = r.kids
      /\ s.deleted = r.deleted /\ s.below = r.below /\ s.over = r.over
  BY <1>1
<1>3. s = [name |-> s.name, type |-> s.type, dims |-> s.dims, kids |-> s.kids,
          deleted |-> s.deleted, below |-> s.below, over |-> s.over]
  BY <1>1
<1>4. s.deleted \in BOOLEAN /\ s.below \in BOOLEAN /\ s.over \in BOOLEAN
  BY <1>1
<1> QED  BY <1>2, <1>3, <1>4 DEF IsObject

-----------------------------------------------------------------------------
(* The tree and the map.                                                   *)

\* The tree of NodeHierarchy is one in which siblings differ.
LEMMA TreeIs == HierarchyInv => IsTree(tree)
BY DEF HierarchyInv, TypeOK, NamesDiffer, IsTree, Here, Nodes, Exists

\* The same after a step.
LEMMA TreeIsThen == HierarchyInv' => IsTree(tree')
BY DEF HierarchyInv, TypeOK, NamesDiffer, IsTree, Here, Nodes, Exists

\* The name by which a node is listed, and the list.
Named(o, t, c) == IF c \in DOMAIN o THEN o[c].name ELSE t[c].name

ListOf(o, t, p) ==
  [m \in {Named(o, t, c) : c \in Children(t, p)} |-> CHOOSE c \in Children(t, p) : Named(o, t, c) = m]

\* What update leaves: p lists the children of its node, unless one object is deleted.
IsUpdated(o, t, p, U) ==
  /\ U = [n \in DOMAIN U |-> U[n]]
  /\ DOMAIN U = DOMAIN o \cup IF Aborts(o, p, t) THEN {} ELSE Children(t, p)
  /\ \A n \in DOMAIN o \ {p} : U[n] = o[n]
  /\ \A n \in DOMAIN U \ DOMAIN o : U[n] = Object(t[n].name)
  /\ IsObject(U[p])
  /\ U[p].name = o[p].name /\ U[p].type = o[p].type /\ U[p].dims = o[p].dims
  /\ U[p].deleted = o[p].deleted /\ U[p].below = o[p].below
  /\ U[p].over = (o[p].over \/ \E c \in Children(t, p) : c \in DOMAIN o /\ o[c].over)
  /\ U[p].kids = IF Aborts(o, p, t) THEN o[p].kids ELSE ListOf(o, t, p)

\* update does what IsUpdated says.
LEMMA UpdatedFacts ==
  ASSUME NEW o, NEW t, NEW p \in DOMAIN o, IsMap(o)
  PROVE  IsUpdated(o, t, p, Updated(o, p, t))
<1> DEFINE U == Updated(o, p, t)
           L == Children(t, p)
           all == [n \in DOMAIN o \cup L |-> IF n \in DOMAIN o THEN o[n] ELSE Object(t[n].name)]
           over == \E c \in L : all[c].over
           names == {all[c].name : c \in L}
           kids == [m \in names |-> CHOOSE c \in L : all[c].name = m]
<1>1. IsObject(o[p]) /\ o = [n \in DOMAIN o |-> o[n]]
  BY DEF IsMap
<1>2. over = \E c \in L : c \in DOMAIN o /\ o[c].over
  BY DEF Object
<1>3. kids = ListOf(o, t, p)
  <2>1. \A c \in L : all[c].name = Named(o, t, c)
    BY DEF Object, Named
  <2>2. names = {Named(o, t, c) : c \in L}
    BY <2>1
  <2> DEFINE F(m) == CHOOSE c \in L : all[c].name = m
             G(m) == CHOOSE c \in L : Named(o, t, c) = m
  <2>3. ASSUME NEW m PROVE F(m) = G(m)
    <3>1. \A c : (c \in L /\ all[c].name = m) <=> (c \in L /\ Named(o, t, c) = m)
      BY <2>1
    <3> HIDE DEF all, L
    <3> QED  BY <3>1
  <2>4. kids = [m \in names |-> F(m)]
    OBVIOUS
  <2>5. ListOf(o, t, p) = [m \in names |-> G(m)]
    BY ONLY <2>2 DEF ListOf
  <2> HIDE DEF F, G, kids, names
  <2> QED  BY <2>3, <2>4, <2>5
<1>4. CASE Aborts(o, p, t)
  <2>1. U = [o EXCEPT ![p].over = @ \/ over]
    BY <1>4 DEF Updated
  <2> HIDE DEF U, over, L
  <2>2. U[p] = [o[p] EXCEPT !.over = @ \/ over]
    BY <2>1
  <2>3. over \in BOOLEAN
    BY DEF over
  <2>4. /\ IsObject(U[p]) /\ U[p].name = o[p].name /\ U[p].type = o[p].type
        /\ U[p].dims = o[p].dims /\ U[p].deleted = o[p].deleted /\ U[p].below = o[p].below
        /\ U[p].over = (o[p].over \/ over) /\ U[p].kids = o[p].kids
    BY <1>1, <2>2, <2>3 DEF IsObject
  <2>5. DOMAIN U = DOMAIN o /\ U = [n \in DOMAIN U |-> U[n]]
    BY <2>1
  <2>6. \A n \in DOMAIN o \ {p} : U[n] = o[n]
    BY <2>1
  <2> QED  BY <1>2, <1>4, <2>4, <2>5, <2>6 DEF U, L, IsUpdated
<1>5. CASE ~Aborts(o, p, t)
  <2>1. U = [all EXCEPT ![p].kids = kids, ![p].over = @ \/ over]
    BY <1>5 DEF Updated
  <2>2. all[p] = o[p] /\ p \in DOMAIN all
    OBVIOUS
  <2>3. over \in BOOLEAN
    OBVIOUS
  <2>4. \A n \in DOMAIN all : n \in DOMAIN o \/ n \in L
    OBVIOUS
  <2>5. DOMAIN all = DOMAIN o \cup L
    OBVIOUS
  <2>6. /\ \A n \in DOMAIN o : all[n] = o[n]
        /\ \A n \in L \ DOMAIN o : all[n] = Object(t[n].name)
    OBVIOUS
  <2> HIDE DEF U, over, L, all, kids, names
  <2>7. U[p] = [o[p] EXCEPT !.kids = kids, !.over = @ \/ over]
    BY <2>1, <2>2
  <2>8. /\ IsObject(U[p]) /\ U[p].name = o[p].name /\ U[p].type = o[p].type
        /\ U[p].dims = o[p].dims /\ U[p].deleted = o[p].deleted /\ U[p].below = o[p].below
        /\ U[p].over = (o[p].over \/ over) /\ U[p].kids = kids
    BY <1>1, <2>3, <2>7 DEF IsObject
  <2>9. DOMAIN U = DOMAIN all /\ U = [n \in DOMAIN U |-> U[n]]
    BY <2>1
  <2>10. \A n \in DOMAIN all \ {p} : U[n] = all[n]
    BY <2>1
  <2>11. /\ \A n \in DOMAIN o \ {p} : U[n] = o[n]
         /\ \A n \in DOMAIN U \ DOMAIN o : U[n] = Object(t[n].name)
    BY <2>5, <2>6, <2>9, <2>10
  <2>12. U[p].over = (o[p].over \/ \E c \in L : c \in DOMAIN o /\ o[c].over)
    BY <1>2, <2>8
  <2>13. U[p].kids = ListOf(o, t, p)
    BY <1>3, <2>8
  <2> QED  BY <1>5, <2>5, <2>8, <2>9, <2>11, <2>12, <2>13 DEF U, L, IsUpdated
<1> QED  BY <1>4, <1>5

\* An exception while the children of a node that is there are listed: one object is of
\* another file.
LEMMA AbortsOver ==
  ASSUME NEW o, NEW t, NEW i, NEW g, NEW astray, NEW p \in DOMAIN o,
         MapInv(o, t, i, g, {}, astray), Here(t, p), Aborts(o, p, t)
  PROVE  Updated(o, p, t)[p].over
<1>1. PICK n \in Children(t, p) \cup {p} : n \in DOMAIN o /\ o[n].deleted
  BY DEF Aborts
<1>2. Here(t, n)
  BY <1>1 DEF Children, Here
<1>3. o[n].over
  BY <1>1, <1>2 DEF MapInv, ObjectRight
<1>4. Updated(o, p, t)[p].over = (o[p].over \/ \E c \in Children(t, p) : c \in DOMAIN o /\ o[c].over)
  <2>1. IsMap(o)
    BY DEF MapInv
  <2>2. IsUpdated(o, t, p, Updated(o, p, t))
    BY <2>1, UpdatedFacts
  <2> QED  BY <2>2 DEF IsUpdated
<1> QED  BY <1>1, <1>3, <1>4

\* What p lists is up to date.
LEMMA UpdatedKeeps ==
  ASSUME NEW o, NEW t, NEW i, NEW g, NEW astray, NEW p \in DOMAIN o,
         MapInv(o, t, i, g, {}, astray), IsTree(t), DOMAIN t \subseteq g
  PROVE  MapInv(Updated(o, p, t), t, i, g, {}, astray \ {p})
<1> DEFINE U == Updated(o, p, t)
           L == Children(t, p)
<1>1. IsMap(o) /\ \A n \in DOMAIN o : IsObject(o[n]) /\ KidsOf(o[n]) \subseteq DOMAIN o \ {Root}
  BY DEF MapInv, IsMap
<1>0. IsUpdated(o, t, p, U)
  BY <1>1, UpdatedFacts
<1>2. /\ U = [n \in DOMAIN U |-> U[n]]
      /\ DOMAIN U = DOMAIN o \cup IF Aborts(o, p, t) THEN {} ELSE L
      /\ \A n \in DOMAIN o \ {p} : U[n] = o[n]
      /\ \A n \in DOMAIN U \ DOMAIN o : U[n] = Object(t[n].name)
      /\ IsObject(U[p])
      /\ U[p].name = o[p].name /\ U[p].type = o[p].type /\ U[p].dims = o[p].dims
      /\ U[p].deleted = o[p].deleted /\ U[p].below = o[p].below
      /\ U[p].over = (o[p].over \/ \E c \in L : c \in DOMAIN o /\ o[c].over)
      /\ U[p].kids = IF Aborts(o, p, t) THEN o[p].kids ELSE ListOf(o, t, p)
  BY <1>0 DEF IsUpdated
<1>3. \A c \in L : c \in DOMAIN t /\ c \in g /\ c \in Node \ {Root} /\ t[c].parent = p
  BY DEF Children, IsTree
<1>4. ASSUME Here(t, p), Aborts(o, p, t) PROVE U[p].over
  BY <1>4, AbortsOver
<1> HIDE DEF U, L
<1>5. ASSUME NEW n \in DOMAIN U \ DOMAIN o
      PROVE  /\ IsObject(U[n]) /\ KidsOf(U[n]) = {} /\ n \in L /\ ~U[n].deleted
             /\ U[n].name = t[n].name /\ U[n].type = Unread /\ U[n].dims = Unread /\ U[n].kids = Unread
  <2>1. U[n] = Object(t[n].name)
    BY <1>2
  <2>2. n \in L
    BY <1>2
  <2> QED  BY <2>1, <2>2 DEF Object, IsObject, KidsOf
<1>6. ASSUME ~Aborts(o, p, t) PROVE KidsOf(U[p]) \subseteq L
  <2>1. \A m \in {Named(o, t, c) : c \in L} : (CHOOSE c \in L : Named(o, t, c) = m) \in L
    OBVIOUS
  <2>2. \A m \in DOMAIN U[p].kids : U[p].kids[m] \in L
    BY <1>2, <1>6, <2>1 DEF ListOf, L
  <2> QED  BY <2>2 DEF KidsOf
<1>7. IsMap(U)
  <2>1. \A n \in DOMAIN U : IsObject(U[n])
    BY <1>1, <1>2, <1>5
  <2>2. ASSUME NEW n \in DOMAIN U PROVE KidsOf(U[n]) \subseteq DOMAIN U \ {Root}
    <3>1. CASE n \notin DOMAIN o
      BY <1>5, <3>1
    <3>2. CASE n \in DOMAIN o \ {p}
      BY <1>1, <1>2, <3>2
    <3>3. CASE n = p /\ Aborts(o, p, t)
      <4>1. KidsOf(U[p]) = KidsOf(o[p])
        BY <1>2, <3>3 DEF KidsOf
      <4> QED  BY <1>1, <1>2, <3>3, <4>1
    <3>4. CASE n = p /\ ~Aborts(o, p, t)
      BY <1>2, <1>3, <1>6, <3>4
    <3> QED  BY <3>1, <3>2, <3>3, <3>4
  <2>3. Root \in DOMAIN U /\ DOMAIN U \subseteq Node
    BY <1>1, <1>2, <1>3 DEF IsMap
  <2> QED  BY <1>2, <2>1, <2>2, <2>3 DEF IsMap
<1>8. ASSUME NEW n \in DOMAIN U, ~U[n].over
      PROVE  ObjectRight(U[n], t, i, n, {}, astray \ {p})
  <2>1. CASE n \notin DOMAIN o
    <3>1. Here(t, n)
      BY <1>3, <1>5, <2>1 DEF Here
    <3> QED  BY <1>5, <2>1, <3>1 DEF ObjectRight
  <2>2. CASE n \in DOMAIN o \ {p}
    BY <1>2, <1>8, <2>2 DEF MapInv, ObjectRight
  <2>3. CASE n = p
    <3>1. ~o[p].over /\ \A c \in L : c \in DOMAIN o => ~o[c].over
      BY <1>2, <1>8, <2>3
    <3>2. ObjectRight(o[p], t, i, p, {}, astray)
      BY <3>1 DEF MapInv
    <3>3. ASSUME Here(t, p), U[p].kids # Unread PROVE KidsRight(U[p], t, p)
      <4>1. ~Aborts(o, p, t)
        BY <1>4, <1>8, <2>3, <3>3
      <4>2. ASSUME NEW c \in L PROVE Named(o, t, c) = t[c].name
        <5>1. CASE c \notin DOMAIN o
          BY <5>1 DEF Named
        <5>2. CASE c \in DOMAIN o
          <6>1. ObjectRight(o[c], t, i, c, {}, astray)
            BY <3>1, <5>2 DEF MapInv
          <6> QED  BY <1>3, <5>2, <6>1 DEF ObjectRight, Named
        <5> QED  BY <5>1, <5>2
      <4>3. \A c, d \in L : Named(o, t, c) = Named(o, t, d) => c = d
        BY <1>3, <4>2 DEF IsTree
      <4>4. ASSUME NEW c \in L
            PROVE  Named(o, t, c) \in {Named(o, t, d) : d \in L} /\ (CHOOSE d \in L : Named(o, t, d) = Named(o, t, c)) = c
        <5>1. \A d \in L : Named(o, t, d) = Named(o, t, c) <=> d = c
          BY <4>3, <4>4
        <5> QED  BY <4>4, <5>1
      <4>5. \A c \in L : Named(o, t, c) \in DOMAIN U[p].kids /\ U[p].kids[Named(o, t, c)] = c
        BY <1>2, <4>1, <4>4 DEF ListOf, L
      <4>6. \A c \in L : U[p].kids[t[c].name] = c
        BY <4>2, <4>5
      <4>7. KidsOf(U[p]) = L
        BY <1>6, <3>3, <4>1, <4>5 DEF KidsOf
      <4> QED  BY <4>6, <4>7 DEF KidsRight, L
    <3>4. U[p].deleted = o[p].deleted /\ U[p].below = o[p].below /\ U[p].name = o[p].name
          /\ U[p].type = o[p].type /\ U[p].dims = o[p].dims
      BY <1>2
    <3> QED  BY <2>3, <3>2, <3>3, <3>4 DEF ObjectRight
  <2> QED  BY <2>1, <2>2, <2>3
<1>9. \A n \in DOMAIN U : n = Root \/ n \in g \/ U[n].over
  BY <1>2, <1>3, <1>5 DEF MapInv
<1> QED  BY <1>7, <1>8, <1>9 DEF MapInv, U

\* Who lists a node that strayed, after p has listed its children.
LEMMA UpdatedStrays ==
  ASSUME NEW o, NEW t, NEW p \in DOMAIN o, NEW X, IsMap(o), StraysBut(o, t, X, p)
  PROVE  Strays(Updated(o, p, t), t, IF Aborts(o, p, t) THEN X ELSE {x \in X : x[1] # p})
<1> DEFINE U == Updated(o, p, t)
           L == Children(t, p)
           Y == IF Aborts(o, p, t) THEN X ELSE {x \in X : x[1] # p}
<1>1. IsUpdated(o, t, p, U)
  BY UpdatedFacts
<1> HIDE DEF U, Y
<1>2. \A n \in DOMAIN o : KidsOf(o[n]) \subseteq DOMAIN o /\ IsObject(o[n])
  BY DEF IsMap
<1>3. \A n \in DOMAIN o : n \in DOMAIN U /\ (o[n].over => U[n].over)
  BY <1>1 DEF IsUpdated
<1>4. ASSUME NEW c \in DOMAIN o, c \in DOMAIN t,
             Strayed(o, t, c) \/ (o[c].over /\ t[c].parent = p)
      PROVE  Strayed(U, t, c)
  <2>1. o[c].over /\ U[c].over
    BY <1>3, <1>4 DEF Strayed
  <2>2. ASSUME t[c].parent \in DOMAIN U
        PROVE  U[t[c].parent].over \/ U[t[c].parent].kids = Unread
    <3>1. CASE t[c].parent = p
      <4>1. c \in L
        BY <1>4, <3>1 DEF Children
      <4> QED  BY <1>1, <2>1, <3>1, <4>1 DEF IsUpdated
    <3>2. CASE t[c].parent \in DOMAIN o \ {p}
      <4>1. U[t[c].parent] = o[t[c].parent]
        BY <1>1, <3>2 DEF IsUpdated
      <4> QED  BY <1>4, <3>2, <4>1 DEF Strayed
    <3>3. CASE t[c].parent \notin DOMAIN o
      <4>1. U[t[c].parent] = Object(t[t[c].parent].name)
        BY <1>1, <2>2, <3>3 DEF IsUpdated
      <4> QED  BY <4>1 DEF Object
    <3> QED  BY <3>1, <3>2, <3>3
  <2> QED  BY <2>1, <2>2 DEF Strayed
<1>5. ASSUME NEW q \in DOMAIN o, NEW c \in KidsOf(o[q]), c \in DOMAIN t
      PROVE  t[c].parent = q \/ <<q, c>> \in X \/ Strayed(U, t, c)
  <2>1. c \in DOMAIN o
    BY <1>2
  <2> QED  BY <1>4, <1>5, <2>1 DEF StraysBut
<1>6. ASSUME NEW q \in DOMAIN U, NEW c \in KidsOf(U[q]), c \in DOMAIN t
      PROVE  t[c].parent = q \/ <<q, c>> \in Y \/ Strayed(U, t, c)
  <2>1. CASE q \notin DOMAIN o
    <3>1. U[q] = Object(t[q].name)
      BY <1>1, <2>1 DEF IsUpdated
    <3> QED  BY <1>6, <3>1 DEF Object, KidsOf
  <2>2. CASE q \in DOMAIN o \ {p}
    <3>1. U[q] = o[q]
      BY <1>1, <2>2 DEF IsUpdated
    <3>2. <<q, c>> \in X => <<q, c>> \in Y
      BY <2>2 DEF Y
    <3> QED  BY <1>5, <1>6, <2>2, <3>1, <3>2
  <2>3. CASE q = p /\ Aborts(o, p, t)
    <3>1. KidsOf(U[q]) = KidsOf(o[q])
      BY <1>1, <2>3 DEF IsUpdated, KidsOf
    <3>2. X = Y
      BY <2>3 DEF Y
    <3> QED  BY <1>5, <1>6, <2>3, <3>1, <3>2
  <2>4. CASE q = p /\ ~Aborts(o, p, t)
    <3>1. U[p].kids = ListOf(o, t, p)
      BY <1>1, <2>4 DEF IsUpdated
    <3>2. \A m \in {Named(o, t, d) : d \in L} : (CHOOSE d \in L : Named(o, t, d) = m) \in L
      OBVIOUS
    <3>3. c \in L
      BY <1>6, <2>4, <3>1, <3>2 DEF KidsOf, ListOf
    <3> QED  BY <2>4, <3>3 DEF Children
  <2> QED  BY <2>1, <2>2, <2>3, <2>4
<1> QED  BY <1>6 DEF Strays, U, Y

\* The objects that stay are those the handles lead to, as they were.
LEMMA CountedFacts ==
  ASSUME NEW o, NEW h
  PROVE  /\ Counted(o, h) = [n \in DOMAIN Counted(o, h) |-> o[n]]
         /\ DOMAIN Counted(o, h) \subseteq DOMAIN o
         /\ \A n \in DOMAIN Counted(o, h) : Counted(o, h)[n] = o[n]
         /\ \A n \in DOMAIN o : n \in h => n \in DOMAIN Counted(o, h)
         /\ \A n \in DOMAIN Counted(o, h) : \A c \in KidsOf(o[n]) :
              c \in DOMAIN o => c \in DOMAIN Counted(o, h)
<1> DEFINE Held(S) == \A n \in S : n \in h \/ \E p \in S : n \in KidsOf(o[p])
           left == UNION {S \in SUBSET DOMAIN o : Held(S)}
<1>1. Counted(o, h) = [n \in left |-> o[n]]
  BY DEF Counted
<1>2. left \subseteq DOMAIN o
  OBVIOUS
<1>3. ASSUME NEW n \in DOMAIN o, n \in h PROVE n \in left
  <2>1. {n} \in SUBSET DOMAIN o /\ Held({n})
    BY <1>3
  <2> QED  BY <2>1
<1>4. ASSUME NEW n \in left, NEW c \in KidsOf(o[n]), c \in DOMAIN o PROVE c \in left
  <2>1. PICK S \in SUBSET DOMAIN o : Held(S) /\ n \in S
    OBVIOUS
  <2>2. S \cup {c} \in SUBSET DOMAIN o /\ Held(S \cup {c})
    BY <1>4, <2>1
  <2> QED  BY <2>2
<1> HIDE DEF left
<1>5. DOMAIN Counted(o, h) = left /\ \A n \in left : Counted(o, h)[n] = o[n]
  BY <1>1
<1> QED  BY <1>1, <1>2, <1>3, <1>4, <1>5

\* Nothing an object knows changes when others are given up.
LEMMA CountedKeeps ==
  ASSUME NEW o, NEW t, NEW i, NEW g, NEW marked, NEW astray, NEW h,
         MapInv(o, t, i, g, marked, astray), Strays(o, t, {}), Root \in h
  PROVE  /\ MapInv(Counted(o, h), t, i, g, marked, astray)
         /\ Strays(Counted(o, h), t, {})
<1> DEFINE C == Counted(o, h)
<1>1. /\ C = [n \in DOMAIN C |-> o[n]] /\ DOMAIN C \subseteq DOMAIN o
      /\ \A n \in DOMAIN C : C[n] = o[n]
      /\ \A n \in DOMAIN o : n \in h => n \in DOMAIN C
      /\ \A n \in DOMAIN C : \A c \in KidsOf(o[n]) : c \in DOMAIN o => c \in DOMAIN C
  BY CountedFacts
<1> HIDE DEF C
<1>2. IsMap(o)
  BY DEF MapInv
<1>3. \A n \in DOMAIN C : IsObject(C[n]) /\ KidsOf(C[n]) \subseteq DOMAIN C \ {Root}
  BY <1>1, <1>2 DEF IsMap
<1>4. C = [n \in DOMAIN C |-> C[n]]
  BY <1>1
<1>5. IsMap(C)
  BY <1>1, <1>2, <1>3, <1>4 DEF IsMap
<1>6. MapInv(C, t, i, g, marked, astray)
  BY <1>1, <1>5 DEF MapInv
<1>7. ASSUME NEW p \in DOMAIN C, NEW c \in KidsOf(C[p]), c \in DOMAIN t
      PROVE  t[c].parent = p \/ Strayed(C, t, c)
  <2>1. c \in DOMAIN C /\ c \in KidsOf(o[p]) /\ p \in DOMAIN o
    BY <1>1, <1>3, <1>7
  <2>2. t[c].parent = p \/ Strayed(o, t, c)
    BY <1>7, <2>1 DEF Strays
  <2> QED  BY <1>1, <2>1, <2>2 DEF Strayed
<1> QED  BY <1>6, <1>7 DEF Strays, C

\* A set of nodes that may be out of date may be taken for a larger one.
LEMMA MayBeAstray ==
  ASSUME NEW o, NEW t, NEW i, NEW g, NEW marked, NEW astray, NEW more,
         MapInv(o, t, i, g, marked, astray), \A n \in astray : n \in more
  PROVE  MapInv(o, t, i, g, marked, more)
<1>1. \A n, r : ObjectRight(r, t, i, n, marked, astray) => ObjectRight(r, t, i, n, marked, more)
  BY DEF ObjectRight
<1> QED  BY <1>1 DEF MapInv

-----------------------------------------------------------------------------
(* The calls.                                                              *)

\* The invariant between two calls: nothing is marked and nothing astray.
LEMMA AfterCall ==
  ASSUME Idle', FileInv', Handles' \subseteq DOMAIN objs',
         MapInv(objs', tree', info', given', {}, {}), Strays(objs', tree', {})
  PROVE  HandlesInv'
<1>1. Marks' = {} /\ Astray' = {}
  BY DEF Marks, Astray
<1>2. MapInv(objs, tree, info, given, Marks, Astray)'
  BY <1>1
<1>3. Strays(objs, tree, {})'
  OBVIOUS
<1> QED  BY <1>2, <1>3 DEF HandlesInv, CallInv

\* What a call starts from.
LEMMA BeforeCall ==
  ASSUME HandlesInv, Idle
  PROVE  /\ MapInv(objs, tree, info, given, {}, {}) /\ Strays(objs, tree, {})
         /\ IsTree(tree) /\ DOMAIN tree \subseteq given
         /\ Handles \subseteq DOMAIN objs /\ IsMap(objs) /\ DOMAIN objs \subseteq Node
         /\ FileInv
<1>1. Marks = {} /\ Astray = {}
  BY DEF Marks, Astray
<1>2. MapInv(objs, tree, info, given, {}, {})
  BY <1>1 DEF HandlesInv
<1>3. IsMap(objs) /\ DOMAIN objs \subseteq Node
  BY <1>2 DEF MapInv, IsMap
<1>4. IsTree(tree)
  BY TreeIs DEF HandlesInv, FileInv
<1> QED  BY <1>2, <1>3, <1>4 DEF HandlesInv, FileInv, Nodes

\* A call that leaves the file alone.
LEMMA SameFile ==
  ASSUME HandlesInv, Idle, UNCHANGED <<tree, info, given, deleting>>
  PROVE  FileInv' /\ Idle'
BY DEF HandlesInv, FileInv, HierarchyInv, TypeOK, NamesDiffer, Nodes, Exists, Idle

\* An object that lists its children when it is asked for them.
LEMMA ListedKeeps ==
  ASSUME HandlesInv, Idle, NEW p \in DOMAIN objs
  PROVE  /\ MapInv(Listed(p), tree, info, given, {}, {}) /\ Strays(Listed(p), tree, {})
         /\ IsMap(Listed(p)) /\ DOMAIN objs \subseteq DOMAIN Listed(p)
         /\ DOMAIN Listed(p) \subseteq Node
<1> DEFINE U == Updated(objs, p, tree)
<1>1. /\ MapInv(objs, tree, info, given, {}, {}) /\ Strays(objs, tree, {})
      /\ IsTree(tree) /\ DOMAIN tree \subseteq given /\ IsMap(objs)
  BY BeforeCall
<1>2. MapInv(U, tree, info, given, {}, {})
  <2>1. MapInv(U, tree, info, given, {}, {} \ {p})
    BY <1>1, UpdatedKeeps
  <2>2. {} \ {p} = {}
    OBVIOUS
  <2> QED  BY <2>1, <2>2
<1>3. Strays(U, tree, {})
  <2>1. StraysBut(objs, tree, {}, p)
    BY <1>1 DEF Strays, StraysBut
  <2>2. Strays(U, tree, IF Aborts(objs, p, tree) THEN {} ELSE {x \in {} : x[1] # p})
    BY <1>1, <2>1, UpdatedStrays
  <2>3. {x \in {} : x[1] # p} = {}
    OBVIOUS
  <2> QED  BY <2>2, <2>3
<1>4. IsUpdated(objs, tree, p, U)
  BY <1>1, UpdatedFacts
<1>5. DOMAIN objs \subseteq DOMAIN U
  BY <1>4 DEF IsUpdated
<1>6. \A o : MapInv(o, tree, info, given, {}, {}) => IsMap(o) /\ DOMAIN o \subseteq Node
  BY DEF MapInv, IsMap
<1> HIDE DEF U
<1>7. Listed(p) = objs \/ Listed(p) = U
  BY DEF Listed, U
<1> QED  BY <1>1, <1>2, <1>3, <1>5, <1>6, <1>7

\* beginChild, hasChild and getNumChildren list the children once.
LEMMA ListChildrenStep ==
  ASSUME HandlesInv, Idle, NEW p \in Handles, ListChildren(p)
  PROVE  HandlesInv'
<1>1. p \in DOMAIN objs /\ Handles \subseteq DOMAIN objs
  BY BeforeCall
<1>2. objs' = Listed(p) /\ UNCHANGED <<tree, info, given, held, deleting>>
  BY DEF ListChildren
<1>3. FileInv' /\ Idle'
  BY <1>2, SameFile
<1>4. Handles' \subseteq DOMAIN objs'
  BY <1>1, <1>2, ListedKeeps DEF Handles
<1>5. MapInv(objs', tree', info', given', {}, {}) /\ Strays(objs', tree', {})
  BY <1>1, <1>2, ListedKeeps
<1> QED  BY <1>3, <1>4, <1>5, AfterCall

\* getChild gives a handle of an object of the list.
LEMMA GetChildStep ==
  ASSUME HandlesInv, Idle, NEW p \in Handles, NEW m \in Names, GetChild(p, m)
  PROVE  HandlesInv'
<1>1. p \in DOMAIN objs /\ Handles \subseteq DOMAIN objs
  BY BeforeCall
<1>2. /\ objs' = Listed(p) /\ UNCHANGED <<tree, info, given, deleting>>
      /\ held' = held \cup {Listed(p)[p].kids[m]}
      /\ Listed(p)[p].kids # Unread /\ m \in DOMAIN Listed(p)[p].kids
  BY DEF GetChild
<1>3. FileInv' /\ Idle'
  BY <1>2, SameFile
<1>4. IsMap(Listed(p)) /\ DOMAIN objs \subseteq DOMAIN Listed(p)
  BY <1>1, ListedKeeps
<1>5. Listed(p)[p].kids[m] \in KidsOf(Listed(p)[p])
  BY <1>2 DEF KidsOf
<1>6. Listed(p)[p].kids[m] \in DOMAIN Listed(p)
  BY <1>1, <1>4, <1>5 DEF IsMap
<1>7. Handles' \subseteq DOMAIN objs'
  BY <1>1, <1>2, <1>4, <1>6 DEF Handles
<1>8. MapInv(objs', tree', info', given', {}, {}) /\ Strays(objs', tree', {})
  BY <1>1, <1>2, ListedKeeps
<1> QED  BY <1>3, <1>7, <1>8, AfterCall

\* The last handle of a node takes its object along, and what only that held.
LEMMA DropStep ==
  ASSUME HandlesInv, Idle, NEW n \in Node, Drop(n)
  PROVE  HandlesInv'
<1> DEFINE h == Handles \ ({n} \ {Root})
<1>1. /\ objs' = Counted(objs, h) /\ held' = held \ {n}
      /\ UNCHANGED <<tree, info, given, deleting>>
  BY DEF Drop
<1>2. /\ MapInv(objs, tree, info, given, {}, {}) /\ Strays(objs, tree, {})
      /\ Handles \subseteq DOMAIN objs
  BY BeforeCall
<1>3. Root \in h /\ Handles' \subseteq h /\ h \subseteq DOMAIN objs
  BY <1>1, <1>2 DEF Handles
<1> HIDE DEF h
<1>4. MapInv(objs', tree', info', given', {}, {}) /\ Strays(objs', tree', {})
  BY <1>1, <1>2, <1>3, CountedKeeps
<1>5. Handles' \subseteq DOMAIN objs'
  BY <1>1, <1>3, CountedFacts
<1>6. FileInv' /\ Idle'
  BY <1>1, SameFile
<1> QED  BY <1>4, <1>5, <1>6, AfterCall

\* Another file: all objects that stay are over.
LEMMA ReopenStep ==
  ASSUME HandlesInv, Idle, Reopen, UNCHANGED deleting
  PROVE  HandlesInv'
<1> DEFINE kept == Counted(objs, held)
<1>1. /\ tree' = [n \in {} |-> [parent |-> Root, name |-> n]]
      /\ info' = [n \in {Root} |-> Bare] /\ given' = {} /\ UNCHANGED <<held, deleting>>
      /\ objs' = [n \in DOMAIN kept \cup {Root} |->
                    IF n \in DOMAIN kept THEN [kept[n] EXCEPT !.over = TRUE] ELSE Object(Root)]
  BY DEF Reopen
<1>2. MapInv(objs, tree, info, given, {}, {}) /\ Handles \subseteq DOMAIN objs /\ IsMap(objs)
  BY BeforeCall
<1>3. /\ DOMAIN kept \subseteq DOMAIN objs
      /\ \A n \in DOMAIN kept : kept[n] = objs[n]
      /\ \A n \in DOMAIN objs : n \in held => n \in DOMAIN kept
      /\ \A n \in DOMAIN kept : \A c \in KidsOf(objs[n]) : c \in DOMAIN objs => c \in DOMAIN kept
  BY CountedFacts
<1> HIDE DEF kept
<1>4. \A n \in DOMAIN objs : IsObject(objs[n]) /\ KidsOf(objs[n]) \subseteq DOMAIN objs \ {Root}
  BY <1>2 DEF IsMap
<1>5. ASSUME NEW n \in DOMAIN kept
      PROVE  IsObject(objs'[n]) /\ KidsOf(objs'[n]) \subseteq DOMAIN objs' \ {Root} /\ objs'[n].over
  <2>1. objs'[n] = WithOver(objs[n], TRUE) /\ DOMAIN kept \subseteq DOMAIN objs'
    BY <1>1, <1>3 DEF WithOver
  <2>2. IsObject(objs'[n]) /\ objs'[n].kids = objs[n].kids /\ objs'[n].over
    <3>1. IsObject(objs[n]) /\ TRUE \in BOOLEAN
      BY <1>3, <1>4
    <3>2. PICK x \in BOOLEAN : x = TRUE
      OBVIOUS
    <3>3. objs'[n] = WithOver(objs[n], x)
      BY <2>1, <3>2
    <3>4. IsObject(WithOver(objs[n], x)) /\ WithOver(objs[n], x).kids = objs[n].kids
          /\ WithOver(objs[n], x).over = x
      BY <3>1, WithOverObject
    <3> QED  BY <3>2, <3>3, <3>4
  <2>3. KidsOf(objs'[n]) = KidsOf(objs[n])
    BY <2>2 DEF KidsOf
  <2> QED  BY <1>3, <1>4, <2>1, <2>2, <2>3
<1>6. ASSUME Root \notin DOMAIN kept
      PROVE  /\ IsObject(objs'[Root]) /\ KidsOf(objs'[Root]) = {}
             /\ ~objs'[Root].deleted /\ objs'[Root].type = Unread /\ objs'[Root].dims = Unread
             /\ objs'[Root].kids = Unread
  <2>1. objs'[Root] = Object(Root)
    BY <1>1, <1>6
  <2> QED  BY <2>1 DEF Object, IsObject, KidsOf
<1>7. DOMAIN objs' = DOMAIN kept \cup {Root} /\ DOMAIN tree' = {} /\ Root \in DOMAIN objs'
      /\ objs' = [n \in DOMAIN objs' |-> objs'[n]]
  BY <1>1
<1>8. IsMap(objs')
  <2>1. DOMAIN objs' \subseteq Node
    BY <1>2, <1>3, <1>7 DEF IsMap
  <2>2. ASSUME NEW n \in DOMAIN objs'
        PROVE  IsObject(objs'[n]) /\ KidsOf(objs'[n]) \subseteq DOMAIN objs' \ {Root}
    BY <1>5, <1>6, <1>7
  <2> QED  BY <1>7, <2>1, <2>2 DEF IsMap
<1>9. MapInv(objs', tree', info', given', {}, {})
  <2>1. ASSUME NEW n \in DOMAIN objs', ~objs'[n].over
        PROVE  ObjectRight(objs'[n], tree', info', n, {}, {})
    <3>1. n = Root /\ Root \notin DOMAIN kept
      BY <1>5, <1>7, <2>1
    <3> QED  BY <1>6, <1>7, <3>1 DEF ObjectRight, Here
  <2>2. \A n \in DOMAIN objs' : n = Root \/ n \in given' \/ objs'[n].over
    BY <1>5, <1>7
  <2> QED  BY <1>8, <2>1, <2>2 DEF MapInv
<1>10. Strays(objs', tree', {})
  BY <1>7 DEF Strays
<1>11. Handles' \subseteq DOMAIN objs'
  BY <1>1, <1>2, <1>3, <1>7 DEF Handles
<1>12. FileInv'
  <2>1. HierarchyInv'
    BY <1>1 DEF HierarchyInv, TypeOK, NamesDiffer, Nodes, Exists
  <2> QED  BY <1>1, <2>1 DEF FileInv, Nodes
<1> QED  BY <1>1, <1>9, <1>10, <1>11, <1>12, AfterCall DEF Idle

\* The handles of the objects that a call has listed anew are counted at its end.
LEMMA CountedCall ==
  ASSUME NEW o, MapInv(o, tree', info', given', {}, {}), Strays(o, tree', {}),
         Handles \subseteq DOMAIN o, objs' = Counted(o, Handles),
         FileInv', Idle', UNCHANGED held
  PROVE  HandlesInv'
<1>1. Root \in Handles /\ Handles' = Handles
  BY DEF Handles
<1>2. MapInv(objs', tree', info', given', {}, {}) /\ Strays(objs', tree', {})
  BY <1>1, CountedKeeps
<1>3. Handles' \subseteq DOMAIN objs'
  BY <1>1, CountedFacts
<1> QED  BY <1>1, <1>2, <1>3, AfterCall

\* p lists its children after the tree has changed: it alone may be out of date.
LEMMA ListAnew ==
  ASSUME NEW o, NEW t, NEW i, NEW g, NEW p \in DOMAIN o, IsTree(t), DOMAIN t \subseteq g,
         MapInv(o, t, i, g, {}, {p}), StraysBut(o, t, {}, p)
  PROVE  /\ MapInv(Updated(o, p, t), t, i, g, {}, {}) /\ Strays(Updated(o, p, t), t, {})
         /\ DOMAIN o \subseteq DOMAIN Updated(o, p, t) /\ IsMap(Updated(o, p, t))
<1> DEFINE U == Updated(o, p, t)
<1>1. IsMap(o)
  BY DEF MapInv
<1>2. MapInv(U, t, i, g, {}, {p} \ {p})
  BY UpdatedKeeps
<1>3. Strays(U, t, IF Aborts(o, p, t) THEN {} ELSE {x \in {} : x[1] # p})
  BY <1>1, UpdatedStrays
<1>4. {p} \ {p} = {} /\ {x \in {} : x[1] # p} = {}
  OBVIOUS
<1>5. IsUpdated(o, t, p, U)
  BY <1>1, UpdatedFacts
<1>6. DOMAIN o \subseteq DOMAIN U
  BY <1>5 DEF IsUpdated
<1> HIDE DEF U
<1>7. MapInv(U, t, i, g, {}, {}) /\ Strays(U, t, {})
  BY <1>2, <1>3, <1>4
<1> QED  BY <1>6, <1>7 DEF U, MapInv

\* createChild: the ID is new, so no object of this file can be there before its node.
LEMMA CreateChildStep ==
  ASSUME HandlesInv, Idle, NEW p \in Handles, NEW n \in Node, NEW m \in Names, CreateChild(p, n, m)
  PROVE  HandlesInv'
<1>1. /\ MapInv(objs, tree, info, given, {}, {}) /\ Strays(objs, tree, {})
      /\ IsTree(tree) /\ DOMAIN tree \subseteq given
      /\ Handles \subseteq DOMAIN objs /\ IsMap(objs) /\ DOMAIN objs \subseteq Node
      /\ FileInv
  BY BeforeCall
<1>2. /\ Create(p, n, m) /\ n \notin given
      /\ info' = [k \in DOMAIN info \cup {n} |-> IF k = n THEN Bare ELSE info[k]]
      /\ given' = given \cup {n} /\ UNCHANGED deleting
      /\ objs' = Updated(objs, p, tree')
      /\ held' = IF objs'[p].kids # Unread /\ m \in DOMAIN objs'[p].kids
                 THEN held \cup {objs'[p].kids[m]} ELSE held
  BY DEF CreateChild
<1>3. /\ n # Root /\ n \notin DOMAIN tree /\ Here(tree, p)
      /\ tree' = [c \in DOMAIN tree \cup {n} |-> IF c = n THEN [parent |-> p, name |-> m] ELSE tree[c]]
  BY <1>2 DEF Create, Exists, Nodes, Here
<1>4. /\ DOMAIN tree' = DOMAIN tree \cup {n} /\ tree'[n].parent = p
      /\ \A c \in DOMAIN tree : tree'[c] = tree[c]
  BY <1>3
<1>5. HierarchyInv'
  <2>1. p \in Node
    BY <1>1
  <2>2. [Next]_tree
    BY <1>2, <2>1 DEF Next
  <2> QED  BY <1>1, <2>2, HierarchyStep DEF FileInv
<1>6. IsTree(tree')
  BY <1>5, TreeIsThen
<1>7. /\ DOMAIN info = DOMAIN tree \cup {Root}
      /\ info' = [x \in DOMAIN tree' \cup {Root} |-> info'[x]]
      /\ \A x \in DOMAIN tree \cup {Root} : info'[x] = info[x]
  BY <1>1, <1>2, <1>3, <1>4 DEF FileInv
<1>8. DOMAIN tree' \subseteq given'
  BY <1>1, <1>2, <1>4
<1>9. n \in DOMAIN objs => objs[n].over
  BY <1>1, <1>2, <1>3 DEF MapInv
<1>10. MapInv(objs, tree', info', given', {}, {p})
  <2>1. ASSUME NEW x \in DOMAIN objs, ~objs[x].over
        PROVE  ObjectRight(objs[x], tree', info', x, {}, {p})
    <3>1. x # n
      BY <1>9, <2>1
    <3>2. ObjectRight(objs[x], tree, info, x, {}, {})
      BY <1>1, <2>1 DEF MapInv
    <3>3. (Here(tree', x) <=> Here(tree, x)) /\ (x \in DOMAIN tree' <=> x \in DOMAIN tree)
      BY <1>4, <3>1 DEF Here
    <3>4. Here(tree, x) => info'[x] = info[x]
      BY <1>7 DEF Here
    <3>5. x \in DOMAIN tree => tree'[x] = tree[x]
      BY <1>4
    <3>6. ASSUME x # p, KidsRight(objs[x], tree, x) PROVE KidsRight(objs[x], tree', x)
      <4>1. Children(tree', x) = Children(tree, x)
        BY <1>3, <1>4, <3>6 DEF Children
      <4>2. \A c \in Children(tree, x) : tree'[c] = tree[c]
        BY <1>4 DEF Children
      <4> QED  BY <3>6, <4>1, <4>2 DEF KidsRight
    <3> QED  BY <3>2, <3>3, <3>4, <3>5, <3>6 DEF ObjectRight
  <2>2. \A x \in DOMAIN objs : x = Root \/ x \in given' \/ objs[x].over
    BY <1>1, <1>2 DEF MapInv
  <2> QED  BY <1>1, <2>1, <2>2 DEF MapInv
<1>11. StraysBut(objs, tree', {}, p)
  <2> SUFFICES ASSUME NEW q \in DOMAIN objs, NEW c \in KidsOf(objs[q]), c \in DOMAIN tree'
               PROVE  tree'[c].parent = q \/ Strayed(objs, tree', c) \/ (objs[c].over /\ tree'[c].parent = p)
    BY DEF StraysBut
  <2>1. CASE c = n
    <3>1. c \in DOMAIN objs
      BY <1>1 DEF IsMap
    <3> QED  BY <1>4, <1>9, <2>1, <3>1
  <2>2. CASE c # n
    <3>1. c \in DOMAIN tree /\ tree'[c] = tree[c]
      BY <1>4, <2>2
    <3>2. tree[c].parent = q \/ Strayed(objs, tree, c)
      BY <1>1, <3>1 DEF Strays
    <3> QED  BY <3>1, <3>2 DEF Strayed
  <2> QED  BY <2>1, <2>2
<1>12. p \in DOMAIN objs
  BY <1>1
<1>13. /\ MapInv(objs', tree', info', given', {}, {}) /\ Strays(objs', tree', {})
       /\ DOMAIN objs \subseteq DOMAIN objs' /\ IsMap(objs')
  BY <1>2, <1>6, <1>8, <1>10, <1>11, <1>12, ListAnew
<1>14. Handles' \subseteq DOMAIN objs'
  <2>1. ASSUME objs'[p].kids # Unread, m \in DOMAIN objs'[p].kids
        PROVE  objs'[p].kids[m] \in DOMAIN objs'
    <3>1. objs'[p].kids[m] \in KidsOf(objs'[p])
      BY <2>1 DEF KidsOf
    <3> QED  BY <1>12, <1>13, <3>1 DEF IsMap
  <2> QED  BY <1>1, <1>2, <1>13, <2>1 DEF Handles
<1>15. FileInv'
  BY <1>5, <1>7, <1>8 DEF FileInv, Nodes
<1> QED  BY <1>2, <1>13, <1>14, <1>15, AfterCall DEF Idle

\* renameChild: no list but that of the parent has the old name, or its object is over.
LEMMA RenameChildStep ==
  ASSUME HandlesInv, Idle, NEW p \in Handles, NEW c \in Node, NEW m \in Names, RenameChild(p, c, m)
  PROVE  HandlesInv'
<1> DEFINE o == Listed(p)
           o1 == [o EXCEPT ![c].name = m]
<1>1. /\ IsTree(tree) /\ DOMAIN tree \subseteq given
      /\ Handles \subseteq DOMAIN objs /\ FileInv
  BY BeforeCall
<1>2. p \in DOMAIN objs
  BY <1>1
<1>3. /\ MapInv(o, tree, info, given, {}, {}) /\ Strays(o, tree, {})
      /\ IsMap(o) /\ DOMAIN objs \subseteq DOMAIN o
  BY <1>2, ListedKeeps
<1>4. /\ c \in DOMAIN o /\ HasChild(o, p, c) /\ Rename(c, m)
      /\ objs' = Counted(Updated(o1, p, tree'), Handles)
      /\ UNCHANGED <<info, given, held, deleting>>
  BY DEF RenameChild
<1> HIDE DEF o
<1>5. c \in KidsOf(o[p])
  BY <1>4 DEF HasChild, KidsOf
<1>6. HierarchyInv'
  <2>1. [Next]_tree
    BY <1>4 DEF Next
  <2> QED  BY <1>1, <2>1, HierarchyStep DEF FileInv
<1>7. /\ c \in DOMAIN tree /\ DOMAIN tree' = DOMAIN tree
      /\ \A d \in DOMAIN tree \ {c} : tree'[d] = tree[d]
      /\ tree'[c].name = m
      /\ \A d \in DOMAIN tree : tree'[d].parent = tree[d].parent
  BY <1>1, <1>4 DEF Rename, Nodes, FileInv, HierarchyInv, TypeOK
<1>8. /\ DOMAIN o1 = DOMAIN o
      /\ \A x \in DOMAIN o \ {c} : o1[x] = o[x]
      /\ o1 = [y \in DOMAIN o1 |-> o1[y]]
  BY <1>3, <1>4 DEF IsMap
<1>9. /\ IsObject(o1[c]) /\ o1[c].name = m
      /\ o1[c].type = o[c].type /\ o1[c].dims = o[c].dims /\ o1[c].kids = o[c].kids
      /\ o1[c].deleted = o[c].deleted /\ o1[c].below = o[c].below /\ o1[c].over = o[c].over
  <2>1. o1[c] = WithName(o[c], m)
    BY <1>3, <1>4 DEF IsMap, WithName
  <2>2. IsObject(o[c])
    BY <1>3, <1>4 DEF IsMap
  <2> HIDE DEF o1
  <2> QED  BY <2>1, <2>2, WithNameObject
<1> HIDE DEF o1
<1>10. \A x \in DOMAIN o : /\ o1[x].over = o[x].over /\ o1[x].kids = o[x].kids
                           /\ KidsOf(o1[x]) = KidsOf(o[x])
  BY <1>8, <1>9 DEF KidsOf
<1>11. IsMap(o1)
  BY <1>3, <1>8, <1>9, <1>10 DEF IsMap
<1>12. MapInv(o1, tree', info', given', {}, {p})
  <2>1. ASSUME NEW x \in DOMAIN o1, ~o1[x].over
        PROVE  ObjectRight(o1[x], tree', info', x, {}, {p})
    <3>1. x \in DOMAIN o /\ ObjectRight(o[x], tree, info, x, {}, {})
      BY <1>3, <1>8, <1>10, <2>1 DEF MapInv
    <3>2. (Here(tree', x) <=> Here(tree, x)) /\ (x \in DOMAIN tree' <=> x \in DOMAIN tree) /\ info' = info
      BY <1>4, <1>7 DEF Here
    <3>3. x \in DOMAIN tree => o1[x].name = tree'[x].name
      BY <1>7, <1>8, <1>9, <3>1 DEF ObjectRight
    <3>4. /\ o1[x].type = o[x].type /\ o1[x].dims = o[x].dims /\ o1[x].kids = o[x].kids
          /\ o1[x].deleted = o[x].deleted /\ o1[x].below = o[x].below
      BY <1>8, <1>9, <3>1
    <3>5. ASSUME x # p, o1[x].kids # Unread, KidsRight(o[x], tree, x)
          PROVE  KidsRight(o1[x], tree', x)
      <4>1. Children(tree', x) = Children(tree, x)
        BY <1>7 DEF Children
      <4>2. tree[c].parent # x
        <5> SUFFICES ASSUME tree[c].parent = x PROVE FALSE
          OBVIOUS
        <5>1. Strayed(o, tree, c)
          BY <1>2, <1>3, <1>5, <1>7, <3>5 DEF Strays
        <5> QED  BY <1>10, <2>1, <3>1, <3>4, <3>5, <5>1 DEF Strayed
      <4>3. \A d \in Children(tree, x) : tree'[d].name = tree[d].name
        BY <1>7, <4>2 DEF Children
      <4>4. KidsOf(o1[x]) = KidsOf(o[x]) /\ o1[x].kids = o[x].kids
        BY <1>10, <3>1
      <4> QED  BY <3>5, <4>1, <4>3, <4>4 DEF KidsRight
    <3> QED  BY <3>1, <3>2, <3>3, <3>4, <3>5 DEF ObjectRight
  <2>2. \A x \in DOMAIN o1 : x = Root \/ x \in given' \/ o1[x].over
    BY <1>3, <1>4, <1>8, <1>10 DEF MapInv
  <2> QED  BY <1>11, <2>1, <2>2 DEF MapInv
<1>13. StraysBut(o1, tree', {}, p)
  <2> SUFFICES ASSUME NEW q \in DOMAIN o1, NEW d \in KidsOf(o1[q]), d \in DOMAIN tree'
               PROVE  tree'[d].parent = q \/ Strayed(o1, tree', d)
    BY DEF StraysBut
  <2>1. q \in DOMAIN o /\ d \in KidsOf(o[q]) /\ d \in DOMAIN o /\ tree'[d].parent = tree[d].parent
    BY <1>3, <1>7, <1>8, <1>10 DEF IsMap
  <2>2. tree[d].parent = q \/ Strayed(o, tree, d)
    BY <1>3, <1>7, <2>1 DEF Strays
  <2> QED  BY <1>8, <1>10, <2>1, <2>2 DEF Strayed
<1>14. IsTree(tree') /\ DOMAIN tree' \subseteq given'
  BY <1>1, <1>4, <1>6, <1>7, TreeIsThen
<1> DEFINE U == Updated(o1, p, tree')
<1>15. p \in DOMAIN o1
  BY <1>2, <1>3, <1>8
<1>16. /\ MapInv(U, tree', info', given', {}, {}) /\ Strays(U, tree', {})
       /\ DOMAIN o1 \subseteq DOMAIN U
  BY <1>12, <1>13, <1>14, <1>15, ListAnew
<1>17. FileInv'
  BY <1>1, <1>4, <1>6, <1>7 DEF FileInv, Nodes
<1> QED  BY <1>1, <1>3, <1>4, <1>8, <1>16, <1>17, CountedCall DEF Idle

\* A move that an exception broke off: the objects that took part in it are over.
LEMMA BrokenOffKeeps ==
  ASSUME NEW o, NEW t, NEW i, NEW g, NEW nodes, NEW astray, NEW X,
         MapInv(o, t, i, g, {}, astray), Strays(o, t, X), \A n \in astray : n \in nodes,
         \A r, d : <<r, d>> \in X => d \in nodes /\ t[d].parent \in nodes
  PROVE  /\ MapInv(BrokenOff(o, nodes), t, i, g, {}, {})
         /\ Strays(BrokenOff(o, nodes), t, {})
         /\ DOMAIN BrokenOff(o, nodes) = DOMAIN o
<1> DEFINE f == BrokenOff(o, nodes)
<1>1. IsMap(o) /\ \A n \in DOMAIN o : IsObject(o[n]) /\ KidsOf(o[n]) \subseteq DOMAIN o \ {Root}
  BY DEF MapInv, IsMap
<1>2. DOMAIN f = DOMAIN o /\ f = [n \in DOMAIN f |-> f[n]]
  BY DEF BrokenOff
<1>3. ASSUME NEW n \in DOMAIN o
      PROVE  /\ IsObject(f[n]) /\ f[n].kids = o[n].kids /\ (o[n].over => f[n].over)
             /\ (n \in nodes => f[n].over) /\ (n \notin nodes => f[n] = o[n])
  <2>1. CASE n \in nodes
    <3>1. PICK x \in BOOLEAN : x = TRUE
      OBVIOUS
    <3>2. f[n] = WithOver(o[n], x)
      BY <2>1, <3>1 DEF WithOver, BrokenOff
    <3>3. IsObject(WithOver(o[n], x)) /\ WithOver(o[n], x).kids = o[n].kids /\ WithOver(o[n], x).over = x
      BY <1>1, WithOverObject
    <3> QED  BY <2>1, <3>1, <3>2, <3>3
  <2>2. CASE n \notin nodes
    <3>1. f[n] = o[n]
      BY <2>2 DEF BrokenOff
    <3> QED  BY <1>1, <2>2, <3>1
  <2> QED  BY <2>1, <2>2
<1> HIDE DEF f
<1>4. \A n \in DOMAIN o : KidsOf(f[n]) = KidsOf(o[n])
  <2> SUFFICES ASSUME NEW n \in DOMAIN o PROVE KidsOf(f[n]) = KidsOf(o[n])
    OBVIOUS
  <2>1. f[n].kids = o[n].kids
    BY <1>3
  <2> QED  BY ONLY <2>1 DEF KidsOf
<1>5. IsMap(f)
  BY <1>1, <1>2, <1>3, <1>4 DEF IsMap
<1>6. ASSUME NEW n \in DOMAIN f, ~f[n].over
      PROVE  ObjectRight(f[n], t, i, n, {}, {})
  <2>1. n \in DOMAIN o /\ f[n] = o[n] /\ n \notin nodes
    BY <1>2, <1>3, <1>6
  <2>2. ObjectRight(o[n], t, i, n, {}, astray)
    BY <1>6, <2>1 DEF MapInv
  <2> QED  BY <2>1, <2>2 DEF ObjectRight
<1>7. \A n \in DOMAIN f : n = Root \/ n \in g \/ f[n].over
  BY <1>2, <1>3 DEF MapInv
<1>8. ASSUME NEW r \in DOMAIN f, NEW d \in KidsOf(f[r]), d \in DOMAIN t
      PROVE  t[d].parent = r \/ Strayed(f, t, d)
  <2>1. r \in DOMAIN o /\ d \in KidsOf(o[r]) /\ d \in DOMAIN o
    BY <1>1, <1>2, <1>4
  <2>2. CASE <<r, d>> \in X
    <3>1. d \in nodes /\ t[d].parent \in nodes
      BY <2>2
    <3> QED  BY <1>2, <1>3, <2>1, <3>1 DEF Strayed
  <2>3. CASE <<r, d>> \notin X
    <3>1. t[d].parent = r \/ Strayed(o, t, d)
      BY <1>8, <2>1, <2>3 DEF Strays
    <3> QED  BY <1>2, <1>3, <2>1, <3>1 DEF Strayed
  <2> QED  BY <2>2, <2>3
<1>9. MapInv(f, t, i, g, {}, {})
  BY <1>5, <1>6, <1>7 DEF MapInv
<1> QED  BY <1>2, <1>8, <1>9 DEF Strays, f

\* The new parent lists its children, then the old one does.
LEMMA MovedKeeps ==
  ASSUME NEW t, NEW i, NEW g, NEW o, NEW p \in DOMAIN o, NEW q \in DOMAIN o, NEW c \in DOMAIN o,
         IsTree(t), DOMAIN t \subseteq g, Here(t, p), Here(t, q), t[c].parent = q,
         MapInv(o, t, i, g, {}, {p, q}), StraysBut(o, t, {<<p, c>>}, q)
  PROVE  /\ MapInv(Moved(o, p, c, q, t), t, i, g, {}, {})
         /\ Strays(Moved(o, p, c, q, t), t, {})
         /\ DOMAIN o \subseteq DOMAIN Moved(o, p, c, q, t)
<1> DEFINE first == Updated(o, q, t)
           X == {<<p, c>>}
           Y == {p, q}
           Z == {p, c, q}
<1>1. IsMap(o)
  BY DEF MapInv
<1>2. IsUpdated(o, t, q, first)
  BY <1>1, UpdatedFacts
<1>3. DOMAIN o \subseteq DOMAIN first
  BY <1>2 DEF IsUpdated
<1>4. MapInv(first, t, i, g, {}, {p, q} \ {q})
  BY UpdatedKeeps
<1>5. Strays(first, t, X)
  <2>1. Strays(first, t, IF Aborts(o, q, t) THEN X ELSE {x \in X : x[1] # q})
    BY <1>1, UpdatedStrays
  <2> HIDE DEF first, X
  <2> QED  BY <2>1 DEF Strays
<1>6. CASE Aborts(o, q, t)
  <2>1. Moved(o, p, c, q, t) = BrokenOff(first, Z)
    BY <1>6 DEF Moved
  <2>2. MapInv(first, t, i, g, {}, Y)
    BY <1>4, MayBeAstray
  <2> HIDE DEF first
  <2>4. (\A n \in Y : n \in Z) /\ \A r, d : <<r, d>> \in X => d \in Z /\ t[d].parent \in Z
    OBVIOUS
  <2> HIDE DEF X, Y, Z
  <2>5. /\ MapInv(BrokenOff(first, Z), t, i, g, {}, {})
        /\ Strays(BrokenOff(first, Z), t, {})
        /\ DOMAIN BrokenOff(first, Z) = DOMAIN first
    BY <1>5, <2>2, <2>4, BrokenOffKeeps
  <2> QED  BY <1>3, <2>1, <2>5
<1>7. CASE ~Aborts(o, q, t)
  <2> DEFINE last == Updated(first, p, t)
  <2>1. IsMap(first) /\ p \in DOMAIN first
    BY <1>3, <1>4 DEF MapInv
  <2>2. MapInv(first, t, i, g, {}, {p})
    BY <1>4, MayBeAstray
  <2>3. Moved(o, p, c, q, t) =
          IF Aborts(first, p, t) THEN BrokenOff(last, Z) ELSE last
    BY <1>7 DEF Moved
  <2> HIDE DEF first
  <2>4. MapInv(last, t, i, g, {}, {p} \ {p})
    BY <2>1, <2>2, UpdatedKeeps
  <2>5. IsUpdated(first, t, p, last)
    BY <2>1, UpdatedFacts
  <2>6. DOMAIN first \subseteq DOMAIN last
    BY <2>5 DEF IsUpdated
  <2>7. StraysBut(first, t, X, p)
    BY <1>5 DEF Strays, StraysBut
  <2>8. Strays(last, t, IF Aborts(first, p, t) THEN X ELSE {x \in X : x[1] # p})
    BY <2>1, <2>7, UpdatedStrays
  <2>9. CASE Aborts(first, p, t)
    <3>1. Moved(o, p, c, q, t) = BrokenOff(last, Z)
      BY <2>3, <2>9
    <3>2. MapInv(last, t, i, g, {}, Y)
      BY <2>4, MayBeAstray
    <3>3. Strays(last, t, X)
      BY <2>8, <2>9
    <3> HIDE DEF last
    <3>6. (\A n \in Y : n \in Z) /\ \A r, d : <<r, d>> \in X => d \in Z /\ t[d].parent \in Z
      OBVIOUS
    <3> HIDE DEF X, Y, Z
    <3>5. /\ MapInv(BrokenOff(last, Z), t, i, g, {}, {})
          /\ Strays(BrokenOff(last, Z), t, {})
          /\ DOMAIN BrokenOff(last, Z) = DOMAIN last
      BY <3>2, <3>3, <3>6, BrokenOffKeeps
    <3> QED  BY <1>3, <2>6, <3>1, <3>5
  <2>10. CASE ~Aborts(first, p, t)
    <3>1. {x \in X : x[1] # p} = {} /\ {p} \ {p} = {}
      OBVIOUS
    <3> HIDE DEF last, X
    <3> QED  BY <1>3, <2>3, <2>4, <2>6, <2>8, <2>10, <3>1
  <2> QED  BY <2>9, <2>10
<1> QED  BY <1>6, <1>7

\* reparentChild: no two lists have the child when both parents have listed theirs anew.
LEMMA ReparentChildStep ==
  ASSUME HandlesInv, Idle, NEW p \in Handles, NEW c \in held, NEW q \in Handles, ReparentChild(p, c, q)
  PROVE  HandlesInv'
<1>1. /\ MapInv(objs, tree, info, given, {}, {}) /\ Strays(objs, tree, {})
      /\ IsTree(tree) /\ DOMAIN tree \subseteq given
      /\ Handles \subseteq DOMAIN objs /\ IsMap(objs) /\ DOMAIN objs \subseteq Node
      /\ FileInv
  BY BeforeCall
<1>2. p \in DOMAIN objs /\ q \in DOMAIN objs /\ c \in DOMAIN objs
  BY <1>1 DEF Handles
<1>3. /\ c \in DOMAIN tree /\ tree[c].parent = p /\ Move(c, q) /\ ~Taken(q, tree[c].name)
      /\ objs' = Counted(Moved(objs, p, c, q, tree'), Handles)
      /\ UNCHANGED <<info, given, held, deleting>>
  BY DEF ReparentChild, Nodes
<1>4. HierarchyInv'
  <2>1. c \in Node /\ q \in Node
    BY <1>1, <1>2
  <2> QED  BY <1>1, <1>3, <2>1, MoveStep DEF FileInv
<1>5. /\ DOMAIN tree' = DOMAIN tree /\ Here(tree, q)
      /\ \A d \in DOMAIN tree \ {c} : tree'[d] = tree[d]
      /\ tree'[c].parent = q /\ tree'[c].name = tree[c].name
  BY <1>1, <1>3 DEF Move, Nodes, Exists, Here, FileInv, HierarchyInv, TypeOK
<1>6. IsTree(tree') /\ DOMAIN tree' \subseteq given'
  BY <1>1, <1>3, <1>4, <1>5, TreeIsThen
<1>7. Here(tree', p) /\ Here(tree', q)
  BY <1>1, <1>3, <1>5 DEF IsTree, Here
<1>8. MapInv(objs, tree', info', given', {}, {p, q})
  <2>1. ASSUME NEW x \in DOMAIN objs, ~objs[x].over
        PROVE  ObjectRight(objs[x], tree', info', x, {}, {p, q})
    <3>1. ObjectRight(objs[x], tree, info, x, {}, {})
      BY <1>1, <2>1 DEF MapInv
    <3>2. (Here(tree', x) <=> Here(tree, x)) /\ (x \in DOMAIN tree' <=> x \in DOMAIN tree) /\ info' = info
      BY <1>3, <1>5 DEF Here
    <3>3. x \in DOMAIN tree => tree'[x].name = tree[x].name
      BY <1>5
    <3>4. ASSUME x \notin {p, q}, KidsRight(objs[x], tree, x) PROVE KidsRight(objs[x], tree', x)
      <4>1. Children(tree', x) = Children(tree, x)
        BY <1>3, <1>5, <3>4 DEF Children
      <4>2. \A d \in Children(tree, x) : tree'[d].name = tree[d].name
        BY <1>5 DEF Children
      <4> QED  BY <3>4, <4>1, <4>2 DEF KidsRight
    <3> QED  BY <3>1, <3>2, <3>3, <3>4 DEF ObjectRight
  <2>2. \A x \in DOMAIN objs : x = Root \/ x \in given' \/ objs[x].over
    BY <1>1, <1>3 DEF MapInv
  <2> QED  BY <1>1, <2>1, <2>2 DEF MapInv
<1>9. StraysBut(objs, tree', {<<p, c>>}, q)
  <2> SUFFICES ASSUME NEW r \in DOMAIN objs, NEW d \in KidsOf(objs[r]), d \in DOMAIN tree'
               PROVE  \/ tree'[d].parent = r \/ <<r, d>> \in {<<p, c>>} \/ Strayed(objs, tree', d)
                      \/ objs[d].over /\ tree'[d].parent = q
    BY DEF StraysBut
  <2>1. tree[d].parent = r \/ Strayed(objs, tree, d)
    BY <1>1, <1>5 DEF Strays
  <2>2. CASE d = c
    BY <1>3, <1>5, <2>1, <2>2 DEF Strayed
  <2>3. CASE d # c
    <3>1. tree'[d] = tree[d]
      BY <1>5, <2>3
    <3> QED  BY <2>1, <3>1 DEF Strayed
  <2> QED  BY <2>2, <2>3
<1>10. /\ MapInv(Moved(objs, p, c, q, tree'), tree', info', given', {}, {})
       /\ Strays(Moved(objs, p, c, q, tree'), tree', {})
       /\ DOMAIN objs \subseteq DOMAIN Moved(objs, p, c, q, tree')
  BY <1>2, <1>5, <1>6, <1>7, <1>8, <1>9, MovedKeeps
<1>11. FileInv'
  BY <1>1, <1>3, <1>4, <1>5 DEF FileInv, Nodes
<1> QED  BY <1>1, <1>3, <1>10, <1>11, CountedCall DEF Idle

-----------------------------------------------------------------------------
(* Type and dimensions.                                                    *)

\* The file has type and dimensions of the node, and the object has those or has not read
\* them.
LEMMA KeepStep ==
  ASSUME HandlesInv, Idle, NEW n \in DOMAIN objs, Exists(n), NEW type, NEW dims,
         objs' = Keep(n, type, dims),
         info' = [x \in DOMAIN tree \cup {Root} |-> info'[x]],
         \A x \in DOMAIN tree \cup {Root} : x # n => info'[x] = info[x],
         ~objs[n].over => type \in {Unread, info'[n].type} /\ dims \in {Unread, info'[n].dims},
         UNCHANGED <<tree, given, held, deleting>>
  PROVE  HandlesInv'
<1>1. /\ MapInv(objs, tree, info, given, {}, {}) /\ Strays(objs, tree, {})
      /\ Handles \subseteq DOMAIN objs /\ IsMap(objs) /\ FileInv
  BY BeforeCall
<1>2. FileInv' /\ Idle'
  BY <1>1 DEF FileInv, HierarchyInv, TypeOK, NamesDiffer, Nodes, Exists, Idle
<1>3. CASE objs[n].deleted
  <2>1. objs' = objs
    BY <1>3 DEF Keep
  <2>2. objs[n].over
    BY <1>1, <1>3 DEF MapInv, ObjectRight, Here, Exists, Nodes
  <2>3. ASSUME NEW x \in DOMAIN objs, ~objs[x].over
        PROVE  ObjectRight(objs[x], tree, info', x, {}, {})
    <3>1. x # n /\ ObjectRight(objs[x], tree, info, x, {}, {})
      BY <1>1, <2>2, <2>3 DEF MapInv
    <3> QED  BY <3>1 DEF ObjectRight, Here
  <2>4. MapInv(objs', tree', info', given', {}, {})
    BY <1>1, <2>1, <2>3 DEF MapInv
  <2> QED  BY <1>1, <1>2, <2>1, <2>4, AfterCall DEF Handles
<1>4. CASE ~objs[n].deleted
  <2>1. objs' = [objs EXCEPT ![n] = WithKept(objs[n], type, dims)]
    BY <1>4 DEF Keep, WithKept
  <2>2. /\ DOMAIN objs' = DOMAIN objs /\ objs' = [x \in DOMAIN objs' |-> objs'[x]]
        /\ objs'[n] = WithKept(objs[n], type, dims)
        /\ \A x \in DOMAIN objs \ {n} : objs'[x] = objs[x]
    BY <2>1
  <2>3. IsObject(objs[n])
    BY <1>1 DEF IsMap
  <2>4. /\ IsObject(objs'[n]) /\ objs'[n].type = type /\ objs'[n].dims = dims
        /\ objs'[n].name = objs[n].name /\ objs'[n].kids = objs[n].kids
        /\ objs'[n].deleted = objs[n].deleted /\ objs'[n].below = objs[n].below
        /\ objs'[n].over = objs[n].over
    BY <2>2, <2>3, WithKeptObject
  <2>5. \A x \in DOMAIN objs : objs'[x].over = objs[x].over /\ objs'[x].kids = objs[x].kids
    BY <2>2, <2>4
  <2>6. ASSUME NEW x \in DOMAIN objs PROVE KidsOf(objs'[x]) = KidsOf(objs[x])
    <3>1. objs'[x].kids = objs[x].kids
      BY <2>5
    <3> QED  BY ONLY <3>1 DEF KidsOf
  <2>7. IsMap(objs')
    BY <1>1, <2>2, <2>4, <2>6 DEF IsMap
  <2>8. ASSUME NEW x \in DOMAIN objs, ~objs'[x].over
        PROVE  ObjectRight(objs'[x], tree', info', x, {}, {})
    <3>1. ObjectRight(objs[x], tree, info, x, {}, {})
      BY <1>1, <2>5, <2>8 DEF MapInv
    <3>2. CASE x # n
      BY <2>2, <3>1, <3>2 DEF ObjectRight, Here
    <3>3. CASE x = n
      <4>1. KidsRight(objs[n], tree, n) => KidsRight(objs'[n], tree, n)
        BY <2>4, <2>6 DEF KidsRight
      <4> QED  BY <2>4, <2>8, <3>1, <3>3, <4>1 DEF ObjectRight, Here
    <3> QED  BY <3>2, <3>3
  <2>9. MapInv(objs', tree', info', given', {}, {})
    <3>1. \A x \in DOMAIN objs' : ~objs'[x].over => ObjectRight(objs'[x], tree', info', x, {}, {})
      BY <2>2, <2>8
    <3>2. \A x \in DOMAIN objs' : x = Root \/ x \in given' \/ objs'[x].over
      BY <1>1, <2>2, <2>5 DEF MapInv
    <3> QED  BY <2>7, <3>1, <3>2 DEF MapInv
  <2>10. Strays(objs', tree', {})
    <3> SUFFICES ASSUME NEW r \in DOMAIN objs', NEW d \in KidsOf(objs'[r]), d \in DOMAIN tree'
                 PROVE  tree'[d].parent = r \/ Strayed(objs', tree', d)
      BY DEF Strays
    <3>1. r \in DOMAIN objs /\ d \in KidsOf(objs[r]) /\ d \in DOMAIN objs
      BY <1>1, <2>2, <2>6 DEF IsMap
    <3>2. tree[d].parent = r \/ Strayed(objs, tree, d)
      BY <1>1, <3>1 DEF Strays
    <3> QED  BY <2>2, <2>5, <3>1, <3>2 DEF Strayed
  <2>11. Handles' \subseteq DOMAIN objs'
    BY <1>1, <2>2 DEF Handles
  <2> QED  BY <1>2, <2>9, <2>10, <2>11, AfterCall
<1> QED  BY <1>3, <1>4

\* The type or the dimensions are read.
LEMMA ReadStep ==
  ASSUME HandlesInv, Idle, NEW n \in Described, GetDataType(n) \/ GetDimensions(n)
  PROVE  HandlesInv'
<1>1. Handles \subseteq DOMAIN objs /\ MapInv(objs, tree, info, given, {}, {}) /\ FileInv
  BY BeforeCall
<1>2. n \in DOMAIN objs
  BY <1>1 DEF Described, Handles
<1>3. Exists(n) /\ UNCHANGED <<tree, info, given, held, deleting>>
  BY DEF GetDataType, GetDimensions
<1>4. PICK type, dims :
        /\ objs' = Keep(n, type, dims)
        /\ type \in {info[n].type, objs[n].type} /\ dims \in {info[n].dims, objs[n].dims}
  BY DEF GetDataType, GetDimensions
<1>5. info' = [x \in DOMAIN tree \cup {Root} |-> info'[x]]
  BY <1>1, <1>3 DEF FileInv
<1>6. ASSUME ~objs[n].over
      PROVE  type \in {Unread, info'[n].type} /\ dims \in {Unread, info'[n].dims}
  <2>1. ObjectRight(objs[n], tree, info, n, {}, {})
    BY <1>1, <1>2, <1>6 DEF MapInv
  <2> QED  BY <1>3, <1>4, <2>1 DEF ObjectRight, Here, Exists, Nodes
<1>7. \A x \in DOMAIN tree \cup {Root} : x # n => info'[x] = info[x]
  BY <1>3
<1> QED  BY <1>2, <1>3, <1>4, <1>5, <1>6, <1>7, KeepStep

\* They are given to the node.
LEMMA SetStep ==
  ASSUME HandlesInv, Idle, NEW n \in Described, NEW type, NEW dims,
         SetDataTypeDimensions(n, type, dims) \/ SetDataType(n, type, dims)
  PROVE  HandlesInv'
<1>1. Handles \subseteq DOMAIN objs /\ MapInv(objs, tree, info, given, {}, {}) /\ FileInv
  BY BeforeCall
<1>2. n \in DOMAIN objs
  BY <1>1 DEF Described, Handles
<1>3. /\ Exists(n) /\ UNCHANGED <<tree, given, held, deleting>>
      /\ info' = [info EXCEPT ![n] = [type |-> type, dims |-> dims]]
  BY DEF SetDataTypeDimensions, SetDataType
<1>4. PICK kept : objs' = Keep(n, type, kept) /\ kept \in {dims, Unread}
  BY DEF SetDataTypeDimensions, SetDataType
<1>5. /\ info' = [x \in DOMAIN tree \cup {Root} |-> info'[x]]
      /\ \A x \in DOMAIN tree \cup {Root} : x # n => info'[x] = info[x]
      /\ info'[n].type = type /\ info'[n].dims = dims
  BY <1>1, <1>3 DEF FileInv, Exists, Nodes
<1> QED  BY <1>2, <1>3, <1>4, <1>5, KeepStep

\* The calls that read and write type and dimensions.
LEMMA DescribeStep ==
  ASSUME HandlesInv, Idle, NEW n \in Described, NEW type, NEW dims,
         \/ GetDataType(n) \/ GetDimensions(n) \/ SetDataTypeDimensions(n, type, dims)
         \/ SetDataType(n, type, dims) \/ SetDimensions(n, dims)
  PROVE  HandlesInv'
<1>1. ASSUME SetDimensions(n, dims) PROVE \E m : SetDataTypeDimensions(n, m, dims)
  BY <1>1 DEF SetDimensions
<1> QED  BY <1>1, ReadStep, SetStep

-----------------------------------------------------------------------------
(* ADF_Delete.                                                             *)

\* The nodes that the call deletes are marked before they are gone.
LEMMA MarkedKeeps ==
  ASSUME NEW o, NEW t, NEW i, NEW g, NEW nodes,
         MapInv(o, t, i, g, {}, {}), Strays(o, t, {})
  PROVE  /\ MapInv(Marked(o, nodes), t, i, g, nodes, {})
         /\ Strays(Marked(o, nodes), t, {})
         /\ DOMAIN Marked(o, nodes) = DOMAIN o
         /\ \A n \in DOMAIN o : n \in nodes => Marked(o, nodes)[n].deleted
<1> DEFINE f == Marked(o, nodes)
<1>1. IsMap(o) /\ \A n \in DOMAIN o : IsObject(o[n]) /\ KidsOf(o[n]) \subseteq DOMAIN o \ {Root}
  BY DEF MapInv, IsMap
<1>2. DOMAIN f = DOMAIN o /\ f = [n \in DOMAIN f |-> f[n]]
  BY DEF Marked
<1>3. ASSUME NEW n \in DOMAIN o, n \in nodes
      PROVE  /\ IsObject(f[n]) /\ f[n].deleted /\ f[n].kids = Unread
             /\ f[n].name = o[n].name /\ f[n].type = o[n].type /\ f[n].dims = o[n].dims
             /\ f[n].over = o[n].over
  <2>1. f[n] = WithMark(o[n], Unread)
    BY <1>3 DEF WithMark, Marked
  <2>2. IsObject(o[n])
    BY <1>1
  <2> HIDE DEF f
  <2> QED  BY <2>1, <2>2, WithMarkObject
<1>4. \A n \in DOMAIN o : n \notin nodes => f[n] = o[n]
  BY DEF Marked
<1> HIDE DEF f
<1>5. \A n \in DOMAIN o : /\ IsObject(f[n]) /\ f[n].over = o[n].over
                          /\ f[n].kids = o[n].kids \/ f[n].kids = Unread
                          /\ KidsOf(f[n]) \subseteq KidsOf(o[n])
  <2> SUFFICES ASSUME NEW n \in DOMAIN o
               PROVE  /\ IsObject(f[n]) /\ f[n].over = o[n].over
                      /\ f[n].kids = o[n].kids \/ f[n].kids = Unread
                      /\ KidsOf(f[n]) \subseteq KidsOf(o[n])
    OBVIOUS
  <2>1. CASE n \in nodes
    BY <1>3, <2>1 DEF KidsOf
  <2>2. CASE n \notin nodes
    BY <1>1, <1>4, <2>2
  <2> QED  BY <2>1, <2>2
<1>6. IsMap(f)
  <2>1. \A n \in DOMAIN f : IsObject(f[n]) /\ KidsOf(f[n]) \subseteq DOMAIN f \ {Root}
    BY <1>1, <1>2, <1>5
  <2> QED  BY <1>1, <1>2, <2>1 DEF IsMap
<1>7. ASSUME NEW n \in DOMAIN f, ~f[n].over
      PROVE  ObjectRight(f[n], t, i, n, nodes, {})
  <2>1. n \in DOMAIN o /\ ObjectRight(o[n], t, i, n, {}, {})
    BY <1>2, <1>5, <1>7 DEF MapInv
  <2>2. CASE n \in nodes
    BY <1>3, <2>1, <2>2 DEF ObjectRight
  <2>3. CASE n \notin nodes
    BY <1>4, <2>1, <2>3 DEF ObjectRight
  <2> QED  BY <2>2, <2>3
<1>8. \A n \in DOMAIN f : n = Root \/ n \in g \/ f[n].over
  BY <1>2, <1>5 DEF MapInv
<1>9. MapInv(f, t, i, g, nodes, {})
  BY <1>6, <1>7, <1>8 DEF MapInv
<1>10. ASSUME NEW r \in DOMAIN f, NEW d \in KidsOf(f[r]), d \in DOMAIN t
       PROVE  t[d].parent = r \/ Strayed(f, t, d)
  <2>1. r \in DOMAIN o /\ d \in KidsOf(o[r]) /\ d \in DOMAIN o
    BY <1>1, <1>2, <1>5
  <2>2. t[d].parent = r \/ Strayed(o, t, d)
    BY <1>10, <2>1 DEF Strays
  <2> QED  BY <1>2, <1>5, <2>1, <2>2 DEF Strayed
<1> QED  BY <1>2, <1>3, <1>9, <1>10 DEF Strays, f

\* deleteChild and deleteChildren before ADF_Delete: the objects of the nodes are marked.
LEMMA BeginStep ==
  ASSUME HandlesInv, Idle, NEW p \in Handles, NEW o, NEW nodes,
         MapInv(o, tree, info, given, {}, {}), Strays(o, tree, {}),
         DOMAIN objs \subseteq DOMAIN o, nodes \subseteq DOMAIN o,
         Begin(p, nodes, o)
  PROVE  HandlesInv'
<1> DEFINE h == Handles \cup {p} \cup nodes
           f == Marked(o, nodes)
<1>1. /\ nodes \subseteq Children(tree, p)
      /\ deleting' = [parent |-> p, nodes |-> nodes]
      /\ objs' = Counted(f, h) /\ UNCHANGED <<tree, info, given, held>>
  BY DEF Begin
<1>2. /\ Handles \subseteq DOMAIN objs /\ DOMAIN objs \subseteq Node
      /\ IsTree(tree) /\ FileInv
  BY BeforeCall
<1>3. ~Idle'
  <2>1. p \in Node
    BY <1>2
  <2>2. nodes \in SUBSET Node
    BY <1>1, <1>2 DEF Children, IsTree
  <2>3. deleting' \in [parent : Node, nodes : SUBSET Node]
    BY <1>1, <2>1, <2>2
  <2> QED  BY <2>3, HandlesAssumption DEF Idle
<1>4. FileInv'
  BY <1>1, <1>2 DEF FileInv, HierarchyInv, TypeOK, NamesDiffer, Nodes, Exists
<1>5. /\ MapInv(f, tree, info, given, nodes, {}) /\ Strays(f, tree, {})
      /\ DOMAIN f = DOMAIN o /\ \A n \in DOMAIN o : n \in nodes => f[n].deleted
  BY MarkedKeeps
<1>6. Root \in h /\ Handles \subseteq h /\ p \in h /\ nodes \subseteq h /\ h \subseteq DOMAIN o
  BY <1>2 DEF Handles
<1> HIDE DEF f, h
<1>7. MapInv(objs', tree', info', given', nodes, {}) /\ Strays(objs', tree', {})
  BY <1>1, <1>5, <1>6, CountedKeeps
<1>8. /\ \A n \in DOMAIN f : n \in h => n \in DOMAIN objs'
      /\ \A n \in DOMAIN objs' : objs'[n] = f[n]
      /\ DOMAIN objs' \subseteq DOMAIN f
  BY <1>1, CountedFacts
<1>9. Handles' \subseteq DOMAIN objs'
  BY <1>1, <1>5, <1>6, <1>8 DEF Handles
<1>10. CallInv'
  <2>1. p \in DOMAIN objs' /\ \A c \in nodes : c \in DOMAIN objs' /\ objs'[c].deleted
    BY <1>5, <1>6, <1>8
  <2>2. nodes \in SUBSET Children(tree', p)
    BY <1>1
  <2>3. deleting' \in [parent : DOMAIN objs', nodes : SUBSET Children(tree', deleting'.parent)]
    BY <1>1, <2>1, <2>2
  <2> QED  BY <1>1, <2>1, <2>3 DEF CallInv
<1>11. MapInv(objs', tree', info', given', nodes, Astray')
  BY <1>7, MayBeAstray
<1>12. Marks' = nodes
  BY <1>1, <1>3 DEF Marks
<1>13. MapInv(objs, tree, info, given, Marks, Astray)'
  BY <1>11, <1>12
<1>14. Strays(objs, tree, {})'
  BY <1>7
<1> QED  BY <1>4, <1>9, <1>10, <1>13, <1>14 DEF HandlesInv

\* Which nodes they give to ADF_Delete.
LEMMA DeleteBegins ==
  ASSUME HandlesInv, Idle, NEW p \in Handles, NEW c \in Node, DeleteChild(p, c) \/ DeleteChildren(p)
  PROVE  HandlesInv'
<1>1. p \in DOMAIN objs
  BY BeforeCall
<1>2. /\ MapInv(Listed(p), tree, info, given, {}, {}) /\ Strays(Listed(p), tree, {})
      /\ IsMap(Listed(p)) /\ DOMAIN objs \subseteq DOMAIN Listed(p)
  BY <1>1, ListedKeeps
<1>3. PICK nodes : Begin(p, nodes, Listed(p)) /\ nodes \subseteq DOMAIN Listed(p)
  <2>1. CASE DeleteChild(p, c)
    BY <2>1 DEF DeleteChild
  <2>2. CASE DeleteChildren(p)
    <3>1. KidsOf(Listed(p)[p]) \subseteq DOMAIN Listed(p)
      BY <1>1, <1>2 DEF IsMap
    <3> QED  BY <2>2, <3>1 DEF DeleteChildren
  <2> QED  BY <2>1, <2>2
<1> QED  BY <1>2, <1>3, BeginStep

\* Nothing but a leaf lies below it.
LEMMA WithinLeaf ==
  ASSUME NEW n \in Nodes, \A c \in Nodes : tree[c].parent # n, NEW x, Within(x, n)
  PROVE  x = n
<1>1. {n} \in SUBSET Nodes /\ n \in {n} /\ \A c \in Nodes : tree[c].parent \in {n} => c \in {n}
  OBVIOUS
<1> QED  BY <1>1 DEF Within

\* What lies below a node, and is not the node, has its parent there.
LEMMA WithinParent ==
  ASSUME NEW n \in Nodes, NEW c \in Nodes, n # c, Within(n, c)
  PROVE  Within(tree[n].parent, c)
<1> SUFFICES ASSUME NEW S \in SUBSET Nodes, c \in S,
                    \A d \in Nodes : tree[d].parent \in S => d \in S,
                    tree[n].parent \notin S
             PROVE  FALSE
  BY DEF Within
<1>1. /\ S \ {n} \in SUBSET Nodes /\ c \in S \ {n}
      /\ \A d \in Nodes : tree[d].parent \in S \ {n} => d \in S \ {n}
  OBVIOUS
<1> QED  BY <1>1 DEF Within

\* What lies below a node does so when a leaf has gone.
LEMMA WithinStays ==
  ASSUME NEW n \in Nodes, DeleteLeaf(n), NEW c \in Nodes, c # n, NEW x, x # n, Within(x, c)
  PROVE  Within(x, c)'
<1>1. /\ \A d \in Nodes : tree[d].parent # n
      /\ Nodes' = Nodes \ {n} /\ \A d \in Nodes' : tree'[d] = tree[d]
  BY DEF DeleteLeaf, Nodes
<1> SUFFICES ASSUME NEW S \in SUBSET Nodes', c \in S,
                    \A d \in Nodes' : tree'[d].parent \in S => d \in S
             PROVE  x \in S
  BY DEF Within
<1>2. /\ S \cup {n} \in SUBSET Nodes /\ c \in S \cup {n}
      /\ \A d \in Nodes : tree[d].parent \in S \cup {n} => d \in S \cup {n}
  BY <1>1
<1>3. x \in S \cup {n}
  BY <1>2 DEF Within
<1> QED  BY <1>3

\* One node goes: its parent is one of those whose list is not up to date.
LEMMA DeleteStepKeeps ==
  ASSUME HandlesInv, ~Idle, NEW n \in Node, DeleteStep(n)
  PROVE  HandlesInv'
<1> DEFINE p == deleting.parent
           nodes == deleting.nodes
<1>1. /\ FileInv /\ Handles \subseteq DOMAIN objs
      /\ MapInv(objs, tree, info, given, nodes, Astray) /\ Strays(objs, tree, {})
      /\ deleting \in [parent : DOMAIN objs, nodes : SUBSET Children(tree, p)]
      /\ \A c \in nodes : c \in DOMAIN objs /\ objs[c].deleted
  BY DEF HandlesInv, CallInv, Marks
<1>2. /\ DeleteLeaf(n) /\ info' = [k \in DOMAIN info \ {n} |-> info[k]]
      /\ deleting' = [deleting EXCEPT !.nodes = @ \ {n}]
      /\ objs' = IF n \in DOMAIN objs \ nodes THEN [objs EXCEPT ![n].below = TRUE] ELSE objs
      /\ UNCHANGED <<given, held>>
  BY DEF DeleteStep
<1>3. PICK top \in nodes : Within(n, top)
  BY DEF DeleteStep
<1>4. /\ n \in DOMAIN tree /\ \A d \in DOMAIN tree : tree[d].parent # n
      /\ DOMAIN tree' = DOMAIN tree \ {n} /\ \A d \in DOMAIN tree' : tree'[d] = tree[d]
  BY <1>2 DEF DeleteLeaf, Nodes
<1>5. IsTree(tree) /\ n # Root /\ nodes \subseteq DOMAIN tree /\ DOMAIN tree \subseteq Node
      /\ (\A c \in nodes : tree[c].parent = p) /\ p \in DOMAIN objs
      /\ IsMap(objs) /\ DOMAIN objs \subseteq Node
  BY <1>1, <1>4, TreeIs DEF FileInv, IsTree, Children, MapInv, IsMap
<1>6. /\ deleting' = [parent |-> p, nodes |-> nodes \ {n}]
      /\ deleting'.parent = p /\ deleting'.nodes = nodes \ {n}
  BY <1>1, <1>2
<1> HIDE DEF p, nodes
<1>7. ~Idle'
  <2>1. deleting' \in [parent : Node, nodes : SUBSET Node]
    BY <1>5, <1>6
  <2> QED  BY <2>1, HandlesAssumption DEF Idle
<1>8. FileInv'
  <2>1. HierarchyInv'
    <3>1. [Next]_tree
      BY <1>2 DEF Next
    <3> QED  BY <1>1, <3>1, HierarchyStep DEF FileInv
  <2> QED  BY <1>1, <1>2, <1>4, <1>5, <2>1 DEF FileInv, Nodes
<1>9. /\ DOMAIN objs' = DOMAIN objs /\ objs' = [x \in DOMAIN objs' |-> objs'[x]]
      /\ \A x \in DOMAIN objs \ {n} : objs'[x] = objs[x]
  BY <1>2, <1>5 DEF IsMap
<1>10. \A x \in DOMAIN objs : /\ IsObject(objs'[x]) /\ objs'[x].kids = objs[x].kids
                              /\ objs'[x].over = objs[x].over /\ objs'[x].deleted = objs[x].deleted
                              /\ (x = n => objs'[x].below \/ objs'[x].deleted)
  <2> SUFFICES ASSUME NEW x \in DOMAIN objs
               PROVE  /\ IsObject(objs'[x]) /\ objs'[x].kids = objs[x].kids
                      /\ objs'[x].over = objs[x].over /\ objs'[x].deleted = objs[x].deleted
                      /\ (x = n => objs'[x].below \/ objs'[x].deleted)
    OBVIOUS
  <2>1. IsObject(objs[x])
    BY <1>5 DEF IsMap
  <2>2. CASE x = n /\ n \notin nodes
    <3>1. objs'[x] = WithBelow(objs[x])
      BY <1>2, <1>5, <2>2 DEF WithBelow, IsMap
    <3> QED  BY <2>1, <3>1, WithBelowObject
  <2>3. CASE x # n \/ n \in nodes
    <3>1. objs'[x] = objs[x]
      BY <1>2, <1>9, <2>3
    <3> QED  BY <1>1, <2>1, <2>3, <3>1 DEF nodes
  <2> QED  BY <2>2, <2>3
<1>11. \A x \in DOMAIN objs : KidsOf(objs'[x]) = KidsOf(objs[x])
  BY <1>10 DEF KidsOf
<1>12. IsMap(objs')
  BY <1>5, <1>9, <1>10, <1>11 DEF IsMap
<1>13. /\ Astray = {x \in Node : x = p \/ \E c \in nodes : Within(x, c)}
       /\ Astray' = {x \in Node : x = p \/ \E c \in nodes \ {n} : Within(x, c)'}
  BY <1>6, <1>7 DEF Astray, p, nodes
<1>14. ASSUME NEW x \in DOMAIN objs, x # n, x \notin Astray'
       PROVE  x \notin Astray /\ tree[n].parent # x
  <2>1. x \in Node /\ x # p
    BY <1>5, <1>13, <1>14
  <2>2. ASSUME NEW c \in nodes, Within(x, c) PROVE FALSE
    <3>1. c \in Nodes /\ n \in Nodes
      BY <1>4, <1>5 DEF Nodes
    <3>2. CASE c = n
      BY <1>4, <1>14, <2>2, <3>1, <3>2, WithinLeaf DEF Nodes
    <3>3. CASE c # n
      <4>1. Within(x, c)'
        BY <1>2, <1>14, <2>2, <3>1, <3>3, WithinStays
      <4> QED  BY <1>13, <1>14, <2>1, <3>3, <4>1
    <3> QED  BY <3>2, <3>3
  <2>3. x \notin Astray
    BY <1>13, <2>1, <2>2
  <2>4. tree[n].parent # x
    <3>1. CASE top = n
      BY <1>5, <2>1, <3>1
    <3>2. CASE top # n
      <4>1. top \in Nodes /\ n \in Nodes
        BY <1>4, <1>5 DEF Nodes
      <4>2. Within(tree[n].parent, top)
        BY <1>3, <3>2, <4>1, WithinParent
      <4> QED  BY <2>2, <4>2
    <3> QED  BY <3>1, <3>2
  <2> QED  BY <2>3, <2>4
<1>15. \A x \in DOMAIN tree' \cup {Root} : info'[x] = info[x]
  BY <1>1, <1>2, <1>4, <1>5 DEF FileInv
<1>16. ASSUME NEW x \in DOMAIN objs', ~objs'[x].over
       PROVE  ObjectRight(objs'[x], tree', info', x, nodes \ {n}, Astray')
  <2>1. x \in DOMAIN objs /\ ObjectRight(objs[x], tree, info, x, nodes, Astray)
    BY <1>1, <1>9, <1>10, <1>16 DEF MapInv
  <2>2. CASE x = n
    <3>1. ~Here(tree', x) /\ x \notin DOMAIN tree'
      BY <1>4, <1>5, <2>2 DEF Here
    <3> QED  BY <1>10, <2>1, <2>2, <3>1 DEF ObjectRight
  <2>3. CASE x # n
    <3>1. objs'[x] = objs[x]
      BY <1>9, <2>1, <2>3
    <3>2. (Here(tree', x) <=> Here(tree, x)) /\ (x \in DOMAIN tree' <=> x \in DOMAIN tree)
      BY <1>4, <2>3 DEF Here
    <3>3. /\ x \in DOMAIN tree => tree'[x] = tree[x]
          /\ Here(tree, x) => info'[x] = info[x]
      BY <1>4, <1>15, <3>2 DEF Here
    <3>4. ASSUME x \notin Astray', KidsRight(objs[x], tree, x) PROVE KidsRight(objs[x], tree', x)
      <4>1. Children(tree', x) = Children(tree, x)
        BY <1>4, <1>14, <2>1, <2>3, <3>4 DEF Children
      <4>2. \A c \in Children(tree', x) : tree'[c] = tree[c]
        BY <1>4 DEF Children
      <4> QED  BY <3>4, <4>1, <4>2 DEF KidsRight
    <3>5. x \notin Astray' => x \notin Astray
      BY <1>14, <2>1, <2>3
    <3>6. x \in nodes => x \in nodes \ {n}
      BY <2>3
    <3> QED  BY <2>1, <3>1, <3>2, <3>3, <3>4, <3>5, <3>6 DEF ObjectRight
  <2> QED  BY <2>2, <2>3
<1>17. \A x \in DOMAIN objs' : x = Root \/ x \in given' \/ objs'[x].over
  BY <1>1, <1>2, <1>9, <1>10 DEF MapInv
<1>18. MapInv(objs', tree', info', given', nodes \ {n}, Astray')
  BY <1>12, <1>16, <1>17 DEF MapInv
<1>19. Marks' = nodes \ {n}
  BY <1>6, <1>7 DEF Marks
<1>20. MapInv(objs, tree, info, given, Marks, Astray)'
  BY <1>18, <1>19
<1>21. Strays(objs, tree, {})'
  <2> SUFFICES ASSUME NEW r \in DOMAIN objs', NEW d \in KidsOf(objs'[r]), d \in DOMAIN tree'
               PROVE  tree'[d].parent = r \/ Strayed(objs', tree', d)
    BY DEF Strays
  <2>1. /\ r \in DOMAIN objs /\ d \in KidsOf(objs[r]) /\ d \in DOMAIN objs
        /\ d \in DOMAIN tree /\ tree'[d] = tree[d]
    BY <1>4, <1>5, <1>9, <1>11 DEF IsMap
  <2>2. tree[d].parent = r \/ Strayed(objs, tree, d)
    BY <1>1, <2>1 DEF Strays
  <2> QED  BY <1>9, <1>10, <2>1, <2>2 DEF Strayed
<1>22. Handles' \subseteq DOMAIN objs'
  BY <1>1, <1>2, <1>9 DEF Handles
<1>23. CallInv'
  <2>1. nodes \ {n} \in SUBSET Children(tree', p)
    BY <1>4, <1>5 DEF Children
  <2>2. deleting' \in [parent : DOMAIN objs', nodes : SUBSET Children(tree', deleting'.parent)]
    BY <1>5, <1>6, <1>9, <2>1
  <2>3. \A c \in nodes \ {n} : c \in DOMAIN objs' /\ objs'[c].deleted
    BY <1>1, <1>9, <1>10 DEF nodes
  <2> QED  BY <1>6, <2>2, <2>3 DEF CallInv
<1> QED  BY <1>8, <1>20, <1>21, <1>22, <1>23 DEF HandlesInv

\* The parent lists its children anew.
LEMMA DeleteEndsStep ==
  ASSUME HandlesInv, ~Idle, DeleteEnds
  PROVE  HandlesInv'
<1> DEFINE p == deleting.parent
           nodes == deleting.nodes
           U == Updated(objs, p, tree)
<1>1. /\ FileInv /\ Handles \subseteq DOMAIN objs
      /\ MapInv(objs, tree, info, given, nodes, Astray) /\ Strays(objs, tree, {})
      /\ deleting \in [parent : DOMAIN objs, nodes : SUBSET Children(tree, p)]
  BY DEF HandlesInv, CallInv, Marks
<1>2. /\ nodes \cap DOMAIN tree = {} /\ deleting' = NoCall
      /\ objs' = Counted(U, Handles) /\ UNCHANGED <<tree, info, given, held>>
  BY DEF DeleteEnds, Nodes
<1>3. nodes = {} /\ p \in DOMAIN objs
  BY <1>1, <1>2 DEF Children
<1>4. \A n \in Astray : n = p
  BY <1>3 DEF Astray
<1> HIDE DEF p, nodes, U
<1>5. MapInv(objs, tree, info, given, {}, {p})
  BY <1>1, <1>3, <1>4, MayBeAstray
<1>6. StraysBut(objs, tree, {}, p)
  BY <1>1 DEF Strays, StraysBut
<1>7. IsTree(tree) /\ DOMAIN tree \subseteq given
  BY <1>1, TreeIs DEF FileInv, Nodes
<1>8. /\ MapInv(U, tree, info, given, {}, {}) /\ Strays(U, tree, {})
      /\ DOMAIN objs \subseteq DOMAIN U
  BY <1>3, <1>5, <1>6, <1>7, ListAnew DEF U
<1>9. FileInv' /\ Idle'
  BY <1>1, <1>2 DEF FileInv, HierarchyInv, TypeOK, NamesDiffer, Nodes, Exists, Idle
<1> QED  BY <1>1, <1>2, <1>8, <1>9, CountedCall

-----------------------------------------------------------------------------
(* The theorems.                                                           *)

\* A new file has its root alone.
LEMMA HandlesStart == HandlesInit => HandlesInv
<1> SUFFICES ASSUME HandlesInit PROVE HandlesInv
  OBVIOUS
<1>1. /\ Init /\ info = [n \in {Root} |-> Bare] /\ given = {}
      /\ objs = [n \in {Root} |-> Object(Root)] /\ held = {} /\ Idle
      /\ DOMAIN tree = {}
  BY DEF HandlesInit, Idle, Init
<1>2. FileInv
  BY <1>1, HierarchyInit DEF FileInv, Nodes
<1>3. /\ DOMAIN objs = {Root} /\ objs[Root] = Object(Root) /\ objs = [n \in DOMAIN objs |-> objs[n]]
  BY <1>1
<1>4. /\ IsObject(objs[Root]) /\ KidsOf(objs[Root]) = {} /\ ~objs[Root].deleted
      /\ objs[Root].type = Unread /\ objs[Root].dims = Unread /\ objs[Root].kids = Unread
  BY <1>3 DEF Object, IsObject, KidsOf
<1>5. IsMap(objs)
  BY <1>3, <1>4, HierarchyAssumption DEF IsMap
<1>6. \A n \in DOMAIN objs : ObjectRight(objs[n], tree, info, n, Marks, Astray)
  BY <1>1, <1>3, <1>4 DEF ObjectRight, Here
<1>7. MapInv(objs, tree, info, given, Marks, Astray)
  BY <1>3, <1>5, <1>6 DEF MapInv
<1>8. Strays(objs, tree, {})
  BY <1>1 DEF Strays
<1> QED  BY <1>1, <1>2, <1>3, <1>7, <1>8 DEF HandlesInv, Handles, CallInv

\* Every call and every step of ADF_Delete keeps the invariant.
LEMMA HandlesStep ==
  ASSUME HandlesInv, [HandlesNext]_vars
  PROVE  HandlesInv'
<1>1. CASE Idle /\ Call
  <2>1. ASSUME NEW p \in Handles, ListChildren(p) PROVE HandlesInv'
    BY <1>1, <2>1, ListChildrenStep
  <2>2. ASSUME NEW p \in Handles, DeleteChildren(p) PROVE HandlesInv'
    BY <1>1, <2>2, HierarchyAssumption, DeleteBegins
  <2>3. ASSUME NEW p \in Handles, NEW m \in Names, GetChild(p, m) PROVE HandlesInv'
    BY <1>1, <2>3, GetChildStep
  <2>4. ASSUME NEW n \in Node, Drop(n) PROVE HandlesInv'
    BY <1>1, <2>4, DropStep
  <2>5. ASSUME Reopen PROVE HandlesInv'
    <3>1. UNCHANGED deleting
      BY <2>5 DEF Reopen
    <3> QED  BY <1>1, <2>5, <3>1, ReopenStep
  <2>6. ASSUME NEW p \in Handles, NEW n \in Node, NEW m \in Names, CreateChild(p, n, m) PROVE HandlesInv'
    BY <1>1, <2>6, CreateChildStep
  <2>7. ASSUME NEW p \in Handles, NEW c \in Node, DeleteChild(p, c) PROVE HandlesInv'
    BY <1>1, <2>7, DeleteBegins
  <2>8. ASSUME NEW p \in Handles, NEW c \in Node, NEW m \in Names, RenameChild(p, c, m) PROVE HandlesInv'
    BY <1>1, <2>8, RenameChildStep
  <2>9. ASSUME NEW p \in Handles, NEW c \in held, NEW q \in Handles, ReparentChild(p, c, q) PROVE HandlesInv'
    BY <1>1, <2>9, ReparentChildStep
  <2>10. ASSUME NEW n \in Described, GetDataType(n) \/ GetDimensions(n) PROVE HandlesInv'
    BY <1>1, <2>10, ReadStep
  <2>11. ASSUME NEW n \in Described, NEW t \in Types, NEW d \in Dims,
                SetDataTypeDimensions(n, t, d) \/ SetDataType(n, t, d)
         PROVE  HandlesInv'
    BY <1>1, <2>11, SetStep
  <2>12. ASSUME NEW n \in Described, NEW d \in Dims, SetDimensions(n, d) PROVE HandlesInv'
    BY <1>1, <2>12, DescribeStep
  <2> QED  BY <1>1, <2>1, <2>2, <2>3, <2>4, <2>5, <2>6, <2>7, <2>8, <2>9, <2>10, <2>11, <2>12 DEF Call
<1>2. CASE ~Idle /\ (DeleteEnds \/ \E n \in Node : DeleteStep(n))
  BY <1>2, DeleteEndsStep, DeleteStepKeeps
<1>3. CASE UNCHANGED vars
  <2>1. FileInv'
    BY <1>3 DEF vars, HandlesInv, FileInv, HierarchyInv, TypeOK, NamesDiffer, Nodes, Exists
  <2>2. Marks' = Marks /\ Astray' = Astray /\ CallInv'
    BY <1>3 DEF vars, HandlesInv, Marks, Astray, CallInv, Idle, Within, Nodes
  <2>3. /\ MapInv(objs, tree, info, given, Marks, Astray)'
        /\ Strays(objs, tree, {})' /\ Handles' \subseteq DOMAIN objs'
    BY <1>3, <2>2 DEF vars, HandlesInv, Handles
  <2> QED  BY <2>1, <2>2, <2>3 DEF HandlesInv
<1> QED  BY <1>1, <1>2, <1>3 DEF HandlesNext

\* What the objects know of the file, in the middle of ADF_Delete too.
THEOREM HandlesInvariant == HandlesSpec => []HandlesInv
<1>1. HandlesInit => HandlesInv
  BY HandlesStart
<1>2. HandlesInv /\ [HandlesNext]_vars => HandlesInv'
  BY HandlesStep
<1> QED  BY <1>1, <1>2, PTL DEF HandlesSpec

\* Under the handles every node has a parent that exists and siblings have different names,
\* during ADF_Delete too, and after moves below itself that cut nodes loose.  It is of programs
\* that move no node to where its name is taken: reparentChild does not look (its bound).
THEOREM ParentsAndNames == HandlesSpec => [](TypeOK /\ NamesDiffer)
<1>1. HandlesInv => TypeOK /\ NamesDiffer
  BY DEF HandlesInv, FileInv, HierarchyInv
<1> QED  BY <1>1, HandlesInvariant, PTL

\* Between two calls an object has the name, the type, the dimensions and the children that
\* the file has for its node.
THEOREM CurrentCache == HandlesSpec => []CacheIsCurrent
<1>1. HandlesInv => CacheIsCurrent
  <2> SUFFICES ASSUME HandlesInv, Idle, ~HeldOver, NEW n \in DOMAIN objs, Exists(n)
               PROVE  /\ n # Root => objs[n].name = tree[n].name
                      /\ objs[n].type \in {Unread, info[n].type}
                      /\ objs[n].dims \in {Unread, info[n].dims}
                      /\ objs[n].kids # Unread =>
                           /\ KidsOf(objs[n]) = Children(tree, n)
                           /\ \A c \in Children(tree, n) : objs[n].kids[tree[c].name] = c
    BY DEF CacheIsCurrent
  <2>1. ObjectRight(objs[n], tree, info, n, {}, {})
    BY BeforeCall DEF MapInv, HeldOver
  <2> QED  BY <2>1 DEF ObjectRight, KidsRight, Here, Exists, Nodes
<1> QED  BY <1>1, HandlesInvariant, PTL

\* An object is marked if its node is gone, and only then, but for the nodes that went with
\* one above them.
THEOREM KnownDeleted == HandlesSpec => []DeletedIsKnown
<1>1. HandlesInv => DeletedIsKnown
  <2> SUFFICES ASSUME HandlesInv, Idle, ~HeldOver, NEW n \in DOMAIN objs
               PROVE  /\ objs[n].deleted => ~Exists(n)
                      /\ Exists(n) \/ objs[n].deleted \/ objs[n].below
    BY DEF DeletedIsKnown
  <2>1. ObjectRight(objs[n], tree, info, n, {}, {})
    BY BeforeCall DEF MapInv, HeldOver
  <2> QED  BY <2>1 DEF ObjectRight, Here, Exists, Nodes
<1> QED  BY <1>1, HandlesInvariant, PTL
=============================================================================
