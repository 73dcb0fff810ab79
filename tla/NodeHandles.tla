---------------------------- MODULE NodeHandles -----------------------------
(***************************************************************************)
(* The node handles of adf++ (src/adfpp/adfnode.cpp, adfnode.h,            *)
(* adffile.cpp) over the tree of NodeHierarchy.  All the handles of a node *)
(* share one object, found by the ID of the node in a map and counted by   *)
(* reference.  An object keeps what it has read of its node, and handles   *)
(* of its children once it has listed them.                                *)
(***************************************************************************)
EXTENDS NodeHierarchy

CONSTANTS Types,     \* data types
          Dims,      \* dimensions, the number of them included
          Bare,      \* type and dimensions of a new node
          Unread,    \* not read yet: the flag in mInitialized is not set
          NoCall

ASSUME HandlesAssumption == NoCall \notin [parent : Node, nodes : SUBSET Node]

VARIABLES info,      \* type and dimensions of the nodes in the file
          given,     \* IDs given out in the file, never given out again
          objs,      \* SLookupMap: the objects by ID
          held,      \* IDs of which the program holds handles
          deleting   \* the call of ADF_Delete that goes on: parent, nodes left

vars == <<tree, info, given, objs, held, deleting>>

\* below and over are not in the code: the node was deleted with one above it; the file
\* of the object was closed, or the object has listed a child of which it was, or took
\* part in a move that such a child broke off.
Object(name) == [name |-> name, type |-> Unread, dims |-> Unread, kids |-> Unread,
                 deleted |-> FALSE, below |-> FALSE, over |-> FALSE]

HandlesInit ==
  /\ Init
  /\ info = [n \in {Root} |-> Bare] /\ given = {}
  /\ objs = [n \in {Root} |-> Object(Root)]
  /\ held = {} /\ deleting = NoCall

Idle == deleting = NoCall
Handles == held \cup {Root}
KidsOf(obj) == IF obj.kids = Unread THEN {} ELSE {obj.kids[m] : m \in DOMAIN obj.kids}
Children(t, p) == {c \in DOMAIN t : t[c].parent = p}

\* refcnt_ptr: an object goes with the last handle, those of its parent included; a
\* ring of objects stays.
Counted(o, handles) ==
  LET left == UNION {S \in SUBSET DOMAIN o :
                       \A n \in S : n \in handles \/ \E p \in S : n \in KidsOf(o[p])}
  IN  [n \in left |-> o[n]]

\* update ends with an exception for a deleted node, or child, of which it asks the name.
Aborts(o, p, t) == \E n \in Children(t, p) \cup {p} : n \in DOMAIN o /\ o[n].deleted

\* Node::Private::update(INIT_CHILD): the children are listed anew, with the objects
\* that the map has.
Updated(o, p, t) ==
  LET listed == Children(t, p)
      all == [n \in DOMAIN o \cup listed |-> IF n \in DOMAIN o THEN o[n] ELSE Object(t[n].name)]
      names == {all[c].name : c \in listed}
      over == \E c \in listed : all[c].over
  IN  IF Aborts(o, p, t) THEN [o EXCEPT ![p].over = @ \/ over]
      ELSE [all EXCEPT ![p].kids = [m \in names |-> CHOOSE c \in listed : all[c].name = m],
                       ![p].over = @ \/ over]

\* checkInitialized(INIT_CHILD).
Listed(p) == IF objs[p].kids = Unread THEN Updated(objs, p, tree) ELSE objs

\* hasChild: the name of the handle leads to its object.
HasChild(o, p, c) ==
  /\ ~o[p].deleted /\ ~o[c].deleted /\ o[p].kids # Unread
  /\ o[c].name \in DOMAIN o[p].kids /\ o[p].kids[o[c].name] = c

-----------------------------------------------------------------------------
(* Handles.                                                                *)

\* getNumChildren, hasChild, beginChild.
ListChildren(p) ==
  /\ Exists(p) /\ ~objs[p].deleted
  /\ objs' = Listed(p)
  /\ UNCHANGED <<tree, info, given, held, deleting>>

\* The file is not asked for a list that is there, even if the node is gone.
GetChild(p, m) ==
  /\ Exists(p) \/ objs[p].kids # Unread
  /\ ~objs[p].deleted /\ Listed(p)[p].kids # Unread
  /\ m \in DOMAIN Listed(p)[p].kids
  /\ objs' = Listed(p) /\ held' = held \cup {Listed(p)[p].kids[m]}
  /\ UNCHANGED <<tree, info, given, deleting>>

\* Node::~Node of the last handle the program has of a node.
Drop(n) ==
  /\ n \in held
  /\ held' = held \ {n} /\ objs' = Counted(objs, Handles \ ({n} \ {Root}))
  /\ UNCHANGED <<tree, info, given, deleting>>

\* File::~File closes the file and gives up the handle of the root.  File::File opens
\* another one, a new file in the same slot, and looks its root up in the map.
\* Bound: no object of an older file is left.
Reopen ==
  /\ \A n \in DOMAIN objs : ~objs[n].over
  /\ tree' = [n \in {} |-> [parent |-> Root, name |-> n]]
  /\ info' = [n \in {Root} |-> Bare] /\ given' = {}
  /\ LET kept == Counted(objs, held)
     IN  objs' = [n \in DOMAIN kept \cup {Root} |->
                    IF n \in DOMAIN kept THEN [kept[n] EXCEPT !.over = TRUE] ELSE Object(Root)]
  /\ UNCHANGED <<held, deleting>>

-----------------------------------------------------------------------------
(* Children.                                                               *)

CreateChild(p, n, m) ==
  /\ n \notin given /\ Create(p, n, m)
  /\ info' = [k \in DOMAIN info \cup {n} |-> IF k = n THEN Bare ELSE info[k]]
  /\ given' = given \cup {n}
  /\ LET new == Updated(objs, p, tree')
     IN  /\ objs' = new
         /\ held' = IF new[p].kids # Unread /\ m \in DOMAIN new[p].kids THEN held \cup {new[p].kids[m]} ELSE held
  /\ UNCHANGED deleting

\* Mutant: the children of a deleted node are forgotten and it is not marked.
Forgotten(o, nodes) == [n \in DOMAIN o |-> IF n \in nodes THEN [o[n] EXCEPT !.kids = Unread] ELSE o[n]]

\* markDeleted, of the nodes and not of their children.
Marked(o, nodes) ==
  [n \in DOMAIN o |-> IF n \in nodes THEN [o[n] EXCEPT !.deleted = TRUE, !.kids = Unread] ELSE o[n]]

\* Bound: ADF_Delete fails for a node that is not a child of the parent given.
Begin(p, nodes, o) ==
  /\ nodes \subseteq Children(tree, p)
  /\ deleting' = [parent |-> p, nodes |-> nodes]
  /\ objs' = Counted(Marked(o, nodes), Handles \cup {p} \cup nodes)
  /\ UNCHANGED <<tree, info, given, held>>

DeleteChild(p, c) ==
  /\ Exists(p) /\ c \in DOMAIN Listed(p) /\ HasChild(Listed(p), p, c)
  /\ Begin(p, {c}, Listed(p))

DeleteChildren(p) ==
  /\ Exists(p) /\ Listed(p)[p].kids # Unread
  /\ Begin(p, {c \in KidsOf(Listed(p)[p]) : ~Listed(p)[c].deleted}, Listed(p))

\* ADF_Delete: the nodes below first.  Of nodes that hang on themselves none is
\* the first: ADF_Delete calls itself without end.
DeleteStep(n) ==
  /\ \E c \in deleting.nodes : Within(n, c)
  /\ DeleteLeaf(n)
  /\ info' = [k \in DOMAIN info \ {n} |-> info[k]]
  /\ deleting' = [deleting EXCEPT !.nodes = @ \ {n}]
  /\ objs' = IF n \in DOMAIN objs \ deleting.nodes THEN [objs EXCEPT ![n].below = TRUE] ELSE objs
  /\ UNCHANGED <<given, held>>

\* Mutant: the objects of which the call had the last handle stay in the map.
DeleteEndsHolding ==
  /\ deleting.nodes \cap Nodes = {}
  /\ objs' = Updated(objs, deleting.parent, tree)
  /\ deleting' = NoCall
  /\ UNCHANGED <<tree, info, given, held>>

DeleteEnds ==
  /\ deleting.nodes \cap Nodes = {}
  /\ objs' = Counted(Updated(objs, deleting.parent, tree), Handles)
  /\ deleting' = NoCall
  /\ UNCHANGED <<tree, info, given, held>>

RenameChild(p, c, m) ==
  /\ Exists(p) /\ c \in DOMAIN Listed(p) /\ HasChild(Listed(p), p, c)
  /\ m \notin DOMAIN Listed(p)[p].kids
  /\ Rename(c, m)
  /\ objs' = Counted(Updated([Listed(p) EXCEPT ![c].name = m], p, tree'), Handles)
  /\ UNCHANGED <<info, given, held, deleting>>

\* Mutant: the new parent does not list its children anew.
ReparentOldOnly(p, c, q) ==
  /\ c \in Nodes /\ tree[c].parent = p /\ ~Taken(q, tree[c].name) /\ Move(c, q)
  /\ objs' = Counted(Updated(objs, p, tree'), Handles)
  /\ UNCHANGED <<info, given, held, deleting>>

\* An exception leaves one list as it was.
BrokenOff(o, nodes) == [n \in DOMAIN o |-> IF n \in nodes THEN [o[n] EXCEPT !.over = TRUE] ELSE o[n]]

\* What the two parents list when c has moved.
Moved(o, p, c, q, t) ==
  LET first == Updated(o, q, t)
      last == IF Aborts(o, q, t) THEN first ELSE Updated(first, p, t)
  IN  IF Aborts(o, q, t) \/ Aborts(first, p, t) THEN BrokenOff(last, {p, c, q}) ELSE last

\* The new parent may be the child, or lie below it.  Bounds, of which neither
\* reparentChild nor ADF_Move_Child finds out: the child is one of the parent given;
\* no child of the new parent has its name.
ReparentChild(p, c, q) ==
  /\ c \in Nodes /\ tree[c].parent = p /\ ~Taken(q, tree[c].name) /\ Move(c, q)
  /\ objs' = Counted(Moved(objs, p, c, q, tree'), Handles)
  /\ UNCHANGED <<info, given, held, deleting>>

-----------------------------------------------------------------------------
(* Type and dimensions.  An exception of the update leaves the file changed. *)

Keep(n, type, dims) == IF objs[n].deleted THEN objs ELSE [objs EXCEPT ![n].type = type, ![n].dims = dims]

GetDataType(n) ==
  /\ Exists(n) /\ objs[n].type = Unread
  /\ objs' = Keep(n, info[n].type, objs[n].dims)
  /\ UNCHANGED <<tree, info, given, held, deleting>>

GetDimensions(n) ==
  /\ Exists(n) /\ objs[n].dims = Unread
  /\ objs' = Keep(n, objs[n].type, info[n].dims)
  /\ UNCHANGED <<tree, info, given, held, deleting>>

SetDataTypeDimensions(n, type, dims) ==
  /\ Exists(n)
  /\ info' = [info EXCEPT ![n] = [type |-> type, dims |-> dims]]
  /\ objs' = Keep(n, type, dims)
  /\ UNCHANGED <<tree, given, held, deleting>>

\* The dimensions are those the object has; where it has not read them they are not set.
SetDataType(n, type, dims) ==
  /\ Exists(n) /\ objs[n].dims \in {dims, Unread}
  /\ info' = [info EXCEPT ![n] = [type |-> type, dims |-> dims]]
  /\ objs' = Keep(n, type, objs[n].dims)
  /\ UNCHANGED <<tree, given, held, deleting>>

SetDimensions(n, dims) ==
  /\ Exists(n) /\ ~objs[n].deleted
  /\ SetDataTypeDimensions(n, IF objs[n].type = Unread THEN info[n].type ELSE objs[n].type, dims)

\* Bound: the root has no data.
Described == held \ {Root}

Call ==
  \/ \E p \in Handles : ListChildren(p) \/ DeleteChildren(p)
  \/ \E p \in Handles, m \in Names : GetChild(p, m)
  \/ \E n \in Node : Drop(n)
  \/ Reopen
  \/ \E p \in Handles, n \in Node, m \in Names : CreateChild(p, n, m)
  \/ \E p \in Handles, c \in Node : DeleteChild(p, c)
  \/ \E p \in Handles, c \in Node, m \in Names : RenameChild(p, c, m)
  \/ \E p \in Handles, c \in held, q \in Handles : ReparentChild(p, c, q)
  \/ \E n \in Described : GetDataType(n) \/ GetDimensions(n)
  \/ \E n \in Described, t \in Types, d \in Dims : SetDataTypeDimensions(n, t, d) \/ SetDataType(n, t, d)
  \/ \E n \in Described, d \in Dims : SetDimensions(n, d)

HandlesNext ==
  \/ Idle /\ Call
  \/ ~Idle /\ (DeleteEnds \/ \E n \in Node : DeleteStep(n))

HandlesSpec == HandlesInit /\ [][HandlesNext]_vars

-----------------------------------------------------------------------------
(* Properties.                                                             *)

\* An object of a file that was closed: nothing takes it out of the map while the
\* program has a handle, and the next file finds it under the IDs of its own nodes.
HeldOver == \E n \in DOMAIN objs : objs[n].over

\* Between two calls an object says of its node what the file says: its name, its type
\* and dimensions, and the names and nodes of its children.
CacheIsCurrent ==
  Idle /\ ~HeldOver =>
    \A n \in DOMAIN objs :
      Exists(n) =>
        /\ n # Root => objs[n].name = tree[n].name
        /\ objs[n].type \in {Unread, info[n].type}
        /\ objs[n].dims \in {Unread, info[n].dims}
        /\ objs[n].kids # Unread =>
             /\ KidsOf(objs[n]) = Children(tree, n)
             /\ \A c \in Children(tree, n) : objs[n].kids[tree[c].name] = c

\* An object is marked when its node is gone, and only then; but for the nodes that
\* went with one above them, of which markDeleted forgets the objects.
DeletedIsKnown ==
  Idle /\ ~HeldOver =>
    \A n \in DOMAIN objs :
      /\ objs[n].deleted => ~Exists(n)
      /\ Exists(n) \/ objs[n].deleted \/ objs[n].below

\* A handle of the program leads to the object, by way of the lists of children.
InReach(n) ==
  \A S \in SUBSET DOMAIN objs :
    Handles \subseteq S /\ (\A p \in S : KidsOf(objs[p]) \subseteq S) => n \in S

\* The parents of n do not lead to the root: it was moved below itself, or hangs on a
\* node that was.
CutLoose(n) == \E S \in SUBSET Nodes : n \in S /\ \A c \in S : tree[c].parent \in S

\* An object goes with the last handle that leads to it (refcnt_ptr), through any
\* listings, moves, deletions and broken updates; only those of nodes that hang on
\* themselves hold each other for good.
OnlyRingsStay ==
  Idle /\ ~HeldOver => \A n \in DOMAIN objs : InReach(n) \/ CutLoose(n)
=============================================================================
