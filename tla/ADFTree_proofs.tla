---------------------------- MODULE ADFTree_proofs ----------------------------
(***************************************************************************)
(* The nodes of a file on disk stay a tree at every chunk ADF_Create,      *)
(* ADF_Delete, ADF_Move_Child and ADF_Put_Name write, and implement the    *)
(* abstract tree of NodeHierarchy, for every set of addresses and names    *)
(* and every LIST_CHUNK, if programs move nodes as the documentation asks  *)
(* and put no blanks before names (ProperUse).                             *)
(*                                                                         *)
(* The invariant has three layers.  StoreInv is about the chunks: how long *)
(* the tables are, which one is freed, what is in a table on its way to    *)
(* disk.  It makes view, the lists of children as the running operation    *)
(* knows them, a function into sequences of entries.  ListInv is about     *)
(* view: who is listed where and how often, what the calls of ADF_Delete   *)
(* that wait for each other still have to do.  TreeInv says that ViewTree  *)
(* is a tree, and that a node on the move does not go below itself.        *)
(***************************************************************************)
EXTENDS ADFTree, FiniteSetTheorems, WellFoundedInduction, TLAPS

\* Programs move children only, to where they may go, and name nodes plainly.
ProperUse == ~AnyMove /\ TRUE \notin Blanks

Steps == {"idle", "grow", "enter", "count", "drop", "uncount", "children",
          "free table", "free header", "rename"}

Adding == op.do \in {"grow", "enter", "count"}

\* The last step of a move: the new parent lists the node too.
Dropping == op.do = "drop" /\ frames = <<>>

\* A node that has a header and no entry: it is being created or deleted.
Unlisted(c) ==
  \/ Adding /\ op.from = Nobody /\ c = op.child
  \/ frames # <<>> /\ op.do \in {"uncount", "free table", "free header"} /\ c = Top.id

\* The entries of n as the running operation knows them.
TableOf(n) ==
  IF op.do \in {"enter", "count"} /\ n = op.parent /\ op.table # <<>>
  THEN op.table ELSE hdr[n].table

Size(n) == IF op.do = "uncount" /\ n = op.parent THEN hdr[n].count - 1 ELSE hdr[n].count

view == [n \in Live |-> [i \in 1 .. Size(n) |-> TableOf(n)[i]]]

-----------------------------------------------------------------------------
(* The chunks.                                                             *)

Table == Seq(Entry \cup {Unused})

Operation ==
  [do : Steps, parent : Node \cup {Nobody}, child : Node \cup {Nobody},
   from : Node \cup {Nobody}, table : Table]

Call == [pid : Node, id : Node, kids : Seq(Node)]

Types ==
  /\ Root \in Live /\ Live \subseteq Node
  /\ hdr \in [Live -> Header]
  /\ \A n \in Live \ {Root} : hdr[n].name \in StoredName
  /\ op \in Operation /\ frames \in Seq(Call)

\* A table has the length its header says and is freed only when the header is
\* about to point to another one, or to go.
Rooms ==
  \A n \in Live :
    /\ hdr[n].count <= hdr[n].room /\ hdr[n].room # 1
    /\ hdr[n].table # Freed => Len(hdr[n].table) = hdr[n].room
    /\ hdr[n].table = Freed =>
         \/ op.do \in {"enter", "count"} /\ n = op.parent /\ op.table # <<>>
         \/ op.do = "free header" /\ n = Top.id /\ hdr[n].count = 0
    /\ \A i \in 1 .. Size(n) : TableOf(n)[i] \in Entry

\* There is room for the entry that is added, and it is where it will count.
RoomForEntry ==
  Adding =>
    /\ op.parent \in Live /\ op.child \in Live \ {Root}
    /\ op.do = "grow" => op.table = <<>> /\ Full(op.parent)
    /\ op.do # "grow" /\ op.table = <<>> => hdr[op.parent].count < hdr[op.parent].room
    /\ op.do # "grow" /\ op.table # <<>> =>
         /\ hdr[op.parent].count < Len(op.table) /\ Len(op.table) # 1
         /\ hdr[op.parent].table = Freed \/ hdr[op.parent].count = 0
    /\ op.do = "count" =>
         TableOf(op.parent)[hdr[op.parent].count + 1]
           = [name |-> hdr[op.child].name, child |-> op.child]

\* The entry that is no longer counted next is already unused.
LastUnused ==
  op.do = "uncount" =>
    /\ op.parent \in Live /\ hdr[op.parent].count > 0
    /\ hdr[op.parent].table # Freed
    /\ hdr[op.parent].table[hdr[op.parent].count] = Unused

StoreInv == Types /\ Rooms /\ RoomForEntry /\ LastUnused

-----------------------------------------------------------------------------
(* The lists of children.                                                  *)

Lists(n, c) == \E i \in 1 .. Len(view[n]) : view[n][i].child = c

NameFree(n, m) == \A i \in 1 .. Len(view[n]) : view[n][i].name # m

Leads ==
  \A n \in Live : \A i \in 1 .. Len(view[n]) :
    /\ view[n][i].child \in Live \ {Root}
    /\ \/ view[n][i].name = hdr[view[n][i].child].name
       \/ op.do = "rename" /\ op.child = view[n][i].child

\* A node that a move has entered under its new parent is listed twice.
Once ==
  \A n, m \in Live : \A i \in 1 .. Len(view[n]), j \in 1 .. Len(view[m]) :
    view[n][i].child = view[m][j].child =>
      (n = m /\ i = j) \/ (Dropping /\ view[n][i].child = op.child)

Listed == \A c \in Live \ {Root} : Unlisted(c) <=> ~\E n \in Live : Lists(n, c)

Running ==
  /\ op.do = "idle" => op = Idle
  /\ op.from # Nobody => Adding
  /\ IF frames = <<>>
     THEN op.do \in {"idle", "grow", "enter", "count", "drop", "uncount", "rename"}
     ELSE op.do \in {"children", "drop", "uncount", "free table", "free header"}

AddGoesOn ==
  Adding =>
    /\ op.parent # op.child
    /\ op.from # op.parent => NameFree(op.parent, hdr[op.child].name)
    /\ op.from # Nobody => op.from \in Live /\ Lists(op.from, op.child)

\* The two entries of a node that is being moved: under the new parent no other
\* child has its name.
TwoEntries(q, i, j) ==
  /\ q \in Live /\ op.parent \in Live
  /\ i \in 1 .. Len(view[op.parent]) /\ view[op.parent][i].child = op.child
  /\ j \in 1 .. Len(view[q]) /\ view[q][j].child = op.child
  /\ ~(q = op.parent /\ i = j)
  /\ \A n \in Live : \A k \in 1 .. Len(view[n]) :
       view[n][k].child = op.child => (n = op.parent /\ k = i) \/ (n = q /\ k = j)
  /\ q # op.parent =>
       \A k \in 1 .. Len(view[q]) : k # j => view[q][k].name # hdr[op.child].name

MoveGoesOn == Dropping => \E q \in Live : \E i, j \in Nat : TwoEntries(q, i, j)

RenameGoesOn ==
  op.do = "rename" =>
    /\ op.parent \in Live /\ op.child \in Live \ {Root}
    /\ Lists(op.parent, op.child) /\ NameFree(op.parent, hdr[op.child].name)

Kids(k) == {frames[k].kids[i] : i \in 1 .. Len(frames[k].kids)}

\* The calls of ADF_Delete wait along a path of the tree, and each knows the
\* children that are left.
CallGoesOn(k) ==
  /\ frames[k].id \in Live
  /\ \A j \in 1 .. Len(frames) : frames[j].id = frames[k].id => j = k
  /\ k > 1 => /\ frames[k].pid = frames[k - 1].id
              /\ Lists(frames[k - 1].id, frames[k].id) \/ Unlisted(frames[k].id)
  /\ \A i, j \in 1 .. Len(frames[k].kids) : frames[k].kids[i] = frames[k].kids[j] => i = j
  /\ \A c \in Kids(k) :
       Lists(frames[k].id, c) /\ (k < Len(frames) => c # frames[k + 1].id)
  /\ \A i \in 1 .. Len(view[frames[k].id]) :
       \/ view[frames[k].id][i].child \in Kids(k)
       \/ k < Len(frames) /\ view[frames[k].id][i].child = frames[k + 1].id

TopGoesOn ==
  /\ op.do # "children" => Top.kids = <<>>
  /\ op.do \in {"uncount", "free table", "free header"} => Top.id # Root
  /\ op.do \in {"drop", "uncount"} => op.parent = Top.pid /\ op.child = Top.id

DeleteGoesOn ==
  /\ \A k \in 1 .. Len(frames) : CallGoesOn(k)
  /\ frames # <<>> => TopGoesOn

ListInv ==
  /\ Leads /\ Once /\ Listed /\ Running
  /\ AddGoesOn /\ MoveGoesOn /\ RenameGoesOn /\ DeleteGoesOn

-----------------------------------------------------------------------------
(* The tree.                                                               *)

IsTree == Hierarchy!TypeOK /\ Hierarchy!NamesDiffer /\ Hierarchy!Rooted

NotBelowItself ==
  /\ Adding /\ op.from # Nobody => ~Hierarchy!Within(op.parent, op.child)
  /\ Dropping =>
       \A q \in Live : q # op.parent /\ Lists(q, op.child) => ~Hierarchy!Within(q, op.child)

TreeInv == StoreInv /\ ListInv /\ IsTree /\ NotBelowItself
-----------------------------------------------------------------------------
\* No entry is the unused one, and no table is the one freed.
LEMMA UnusedFacts == Unused \notin Entry /\ Freed \notin Table /\ <<>> \in Table
<1>1. Unused.child = Nobody
  BY DEF Unused
<1>2. \A e \in Entry : e.child \in Node
  BY DEF Entry
<1> QED
  BY <1>1, <1>2, TreeAssumption, FreedAssumption DEF Table

\* The headers of the nodes on disk, by their fields.
LEMMA HeaderFacts ==
  StoreInv =>
    /\ Live \subseteq Node /\ Root \in Live
    /\ \A n \in Live : hdr[n].count \in Nat /\ hdr[n].room \in Nat
    /\ \A n \in Live : hdr[n].table \in Table \cup {Freed}
    /\ \A n \in Live : n # Root => hdr[n].name \in StoredName
    /\ op.do \in Steps /\ op.table \in Table
<1> SUFFICES ASSUME StoreInv, NEW n \in Live
             PROVE  /\ hdr[n].count \in Nat /\ hdr[n].room \in Nat
                    /\ hdr[n].table \in Table \cup {Freed}
                    /\ n # Root => hdr[n].name \in StoredName
  BY DEF StoreInv, Types, Operation
<1>1. hdr[n] \in Header /\ n \in Node /\ (n # Root => hdr[n].name \in StoredName)
  BY DEF StoreInv, Types
<1> QED
  BY <1>1 DEF Header, Table

\* The view of a node is the beginning of its table, as long as its count.
LEMMA ViewFacts ==
  StoreInv =>
    /\ DOMAIN view = Live
    /\ \A n \in Live :
         /\ view[n] \in Seq(Entry) /\ Size(n) \in Nat /\ Len(view[n]) = Size(n)
         /\ \A i \in 1 .. Size(n) : view[n][i] = TableOf(n)[i] /\ view[n][i] \in Entry
<1> SUFFICES ASSUME StoreInv, NEW n \in Live
             PROVE  /\ view[n] \in Seq(Entry) /\ Size(n) \in Nat /\ Len(view[n]) = Size(n)
                    /\ \A i \in 1 .. Size(n) : view[n][i] = TableOf(n)[i] /\ view[n][i] \in Entry
  BY DEF view
<1>1. Size(n) \in Nat
  <2>1. hdr[n].count \in Nat
    BY HeaderFacts
  <2>2. op.do = "uncount" /\ n = op.parent => hdr[n].count > 0
    BY DEF StoreInv, LastUnused
  <2> QED  BY <2>1, <2>2 DEF Size
<1>2. view[n] = [i \in 1 .. Size(n) |-> TableOf(n)[i]]
  BY DEF view
<1>3. \A i \in 1 .. Size(n) : TableOf(n)[i] \in Entry
  BY DEF StoreInv, Rooms
<1> QED
  BY <1>1, <1>2, <1>3

\* The same after a step.
LEMMA ViewFacts2 ==
  StoreInv' =>
    (/\ DOMAIN view = Live
    /\ \A n \in Live :
         /\ view[n] \in Seq(Entry) /\ Size(n) \in Nat /\ Len(view[n]) = Size(n)
         /\ \A i \in 1 .. Size(n) : view[n][i] = TableOf(n)[i] /\ view[n][i] \in Entry)'
BY ViewFacts, PTL

-----------------------------------------------------------------------------
(* ViewTree, read off the lists of children.                               *)

ParentOf(c) ==
  IF Moving(c)
  THEN IF op.do = "drop" THEN op.parent ELSE op.from
  ELSE CHOOSE n \in Live : \E e \in View(n) : e.child = c

\* The abstract tree, by its domain and its values.
LEMMA ViewTreeForm ==
  /\ DOMAIN ViewTree = {c \in Live : \E n \in {m \in Live : hdr[m].table # Freed \/ op.do \in {"enter", "count"}} :
                                       \E e \in View(n) : e.child = c}
  /\ ViewTree = [c \in DOMAIN ViewTree |-> ViewTree[c]]
  /\ \A c \in DOMAIN ViewTree :
       ViewTree[c] = [parent |-> ParentOf(c),
                      name |-> (CHOOSE e \in View(ParentOf(c)) : e.child = c).name]
BY DEF ViewTree, ParentOf

\* The entries that count are those of the list.
LEMMA ViewIsList ==
  ASSUME StoreInv, NEW n \in Live
  PROVE  /\ \A e : e \in View(n) <=> \E i \in 1 .. Len(view[n]) : e = view[n][i]
         /\ \A c : (\E e \in View(n) : e.child = c) <=> Lists(n, c)
         /\ hdr[n].table = Freed /\ op.do \notin {"enter", "count"} => Len(view[n]) = 0
<1> DEFINE sz == hdr[n].count
<1>1. sz \in Nat /\ Size(n) \in Nat /\ Len(view[n]) = Size(n)
  BY HeaderFacts, ViewFacts
<1>2. View(n) = {TableOf(n)[i] : i \in 1 .. sz} \ {Unused}
  BY DEF View, TableOf
<1>3. \A i \in 1 .. Size(n) : view[n][i] = TableOf(n)[i] /\ TableOf(n)[i] # Unused
  BY ViewFacts, UnusedFacts
<1>4. CASE op.do = "uncount" /\ n = op.parent
  <2>1. TableOf(n)[sz] = Unused /\ Size(n) = sz - 1
    BY <1>4 DEF StoreInv, LastUnused, TableOf, Size
  <2>2. \A i \in 1 .. sz : i \in 1 .. Size(n) \/ i = sz
    BY <1>1, <2>1
  <2>3. \A i \in 1 .. Size(n) : i \in 1 .. sz
    BY <1>1, <2>1
  <2>4. \A e : e \in View(n) <=> \E i \in 1 .. Len(view[n]) : e = view[n][i]
    BY <1>1, <1>2, <1>3, <2>1, <2>2, <2>3
  <2> HIDE DEF sz
  <2>5. ~(hdr[n].table = Freed)
    BY <1>4 DEF StoreInv, LastUnused
  <2> QED  BY <2>4, <2>5 DEF Lists
<1>5. CASE ~(op.do = "uncount" /\ n = op.parent)
  <2>1. Size(n) = sz
    BY <1>5 DEF Size
  <2>4. \A e : e \in View(n) <=> \E i \in 1 .. Len(view[n]) : e = view[n][i]
    BY <1>1, <1>2, <1>3, <2>1
  <2>5. hdr[n].table = Freed /\ op.do \notin {"enter", "count"} => Len(view[n]) = 0
    BY <1>1, <2>1 DEF StoreInv, Rooms
  <2> QED  BY <2>4, <2>5 DEF Lists
<1> QED  BY <1>4, <1>5

\* Where a node hangs in the tree: at the one node that lists it, and at the old
\* parent as long as two do.
Hangs(n, i) == Dropping /\ view[n][i].child = op.child => n = op.parent

\* The abstract tree is read off the lists: one parent for a node, and the name in its entry.
LEMMA TreeFacts ==
  StoreInv /\ ListInv =>
    /\ DOMAIN ViewTree = {c \in Live : \E n \in Live : Lists(n, c)}
    /\ ViewTree = [c \in DOMAIN ViewTree |-> ViewTree[c]]
    /\ \A n \in Live : \A i \in 1 .. Len(view[n]) : Hangs(n, i) =>
         ViewTree[view[n][i].child] = [parent |-> n, name |-> view[n][i].name]
<1> SUFFICES ASSUME StoreInv, ListInv
             PROVE  /\ DOMAIN ViewTree = {c \in Live : \E n \in Live : Lists(n, c)}
                    /\ \A n \in Live : \A i \in 1 .. Len(view[n]) : Hangs(n, i) =>
                         ViewTree[view[n][i].child] = [parent |-> n, name |-> view[n][i].name]
  BY ViewTreeForm
<1>1. \A n \in Live : \A c : Lists(n, c) =>
        n \in {m \in Live : hdr[m].table # Freed \/ op.do \in {"enter", "count"}}
  <2> SUFFICES ASSUME NEW n \in Live, NEW c, Lists(n, c),
                      ~(hdr[n].table # Freed \/ op.do \in {"enter", "count"})
               PROVE  FALSE
    OBVIOUS
  <2>1. Len(view[n]) = 0
    BY ViewIsList
  <2> QED  BY <2>1 DEF Lists
<1>2. DOMAIN ViewTree = {c \in Live : \E n \in Live : Lists(n, c)}
  <2>1. \A n \in Live : \A c : (\E e \in View(n) : e.child = c) <=> Lists(n, c)
    BY ViewIsList
  <2> QED  BY <1>1, <2>1, ViewTreeForm
<1>3. ASSUME NEW n \in Live, NEW i \in 1 .. Len(view[n]), Hangs(n, i)
      PROVE  ViewTree[view[n][i].child] = [parent |-> n, name |-> view[n][i].name]
  <2> DEFINE c == view[n][i].child
  <2>1. Lists(n, c) /\ c \in Live
    BY DEF Lists, ListInv, Leads
  <2>2. c \in DOMAIN ViewTree
    BY <1>2, <2>1
  <2>3. ParentOf(c) = n
    <3>1. CASE Dropping /\ c = op.child
      <4>1. Moving(c) /\ op.do = "drop"
        BY <3>1 DEF Moving, Dropping
      <4> QED  BY <3>1, <4>1, <1>3 DEF ParentOf, Hangs
    <3>2. CASE ~(Dropping /\ c = op.child)
      <4>1. \A m \in Live : Lists(m, c) => m = n
        BY <3>2 DEF Lists, ListInv, Once
      <4>2. CASE c = op.child /\ op.from # Nobody
        <5>1. Adding /\ op.from \in Live /\ Lists(op.from, c)
          BY <4>2 DEF ListInv, Running, AddGoesOn
        <5> QED  BY <4>1, <4>2, <5>1 DEF ParentOf, Moving, Adding
      <4>3. CASE ~(c = op.child /\ op.from # Nobody)
        <5>1. ~Moving(c)
          BY <4>3, <3>2 DEF Moving, Dropping
        <5>2. \A m \in Live : (\E e \in View(m) : e.child = c) <=> Lists(m, c)
          BY ViewIsList
        <5> QED  BY <5>1, <5>2, <4>1, <2>1 DEF ParentOf
      <4> QED  BY <4>2, <4>3
    <3> QED  BY <3>1, <3>2
  <2>4. \A e \in View(n) : e.child = c => e.name = view[n][i].name
    <3> SUFFICES ASSUME NEW j \in 1 .. Len(view[n]), view[n][j].child = c
                 PROVE  view[n][j].name = view[n][i].name
      BY ViewIsList
    <3>1. CASE i = j
      BY <3>1
    <3>2. CASE i # j
      <4>1. op.do = "drop"
        BY <3>2 DEF ListInv, Once, Dropping
      <4> QED  BY <4>1 DEF ListInv, Leads
    <3> QED  BY <3>1, <3>2
  <2>5. \E e \in View(n) : e.child = c
    BY <2>1, ViewIsList
  <2>6. (CHOOSE e \in View(n) : e.child = c).name = view[n][i].name
    BY <2>4, <2>5
  <2> HIDE DEF c
  <2>7. ViewTree[c] = [parent |-> n, name |-> view[n][i].name]
    BY <2>2, <2>3, <2>6, ViewTreeForm
  <2> QED  BY <2>7 DEF c
<1> QED  BY <1>2, <1>3

-----------------------------------------------------------------------------
(* What every step does to the chunks and to the lists of children.        *)

\* Between two operations nothing is under way.
LEMMA IdleFacts == Idle \in Operation /\ Idle.table = <<>> /\ Idle.do = "idle"
BY UnusedFacts DEF Idle, Operation, Steps

\* The first step of an addition grows the table, or writes into it.
LEMMA AddFacts ==
  ASSUME NEW p \in Node, NEW c \in Node, NEW from \in Node \cup {Nobody}
  PROVE  /\ Add(p, c, from) \in Operation
         /\ Add(p, c, from).do = IF Full(p) THEN "grow" ELSE "enter"
         /\ Add(p, c, from).parent = p /\ Add(p, c, from).child = c
         /\ Add(p, c, from).from = from /\ Add(p, c, from).table = <<>>
BY UnusedFacts DEF Add, Operation, Steps

\* A step that writes nothing and leaves no table on its way.
LEMMA QuietStore ==
  ASSUME StoreInv, hdr' = hdr, frames' \in Seq(Call), op' \in Operation,
         op.do \notin {"enter", "count", "uncount", "free header"},
         op'.do \notin {"count", "uncount", "free header"},
         op'.do = "enter" => op'.table = <<>>, RoomForEntry'
  PROVE  StoreInv' /\ view' = view /\ Live' = Live
<1>1. \A n : Size(n)' = Size(n) /\ TableOf(n)' = TableOf(n)
  BY DEF Size, TableOf
<1>2. view' = view /\ Live' = Live
  BY <1>1 DEF view, Live
<1>3. Types'
  BY DEF StoreInv, Types, Live
<1>4. Rooms'
  BY <1>1 DEF StoreInv, Rooms, Live
<1>5. LastUnused'
  BY DEF LastUnused
<1> QED  BY <1>2, <1>3, <1>4, <1>5 DEF StoreInv

\* A call of ADF_Delete knows the children its node has when it begins.
LEMMA CallFacts ==
  ASSUME StoreInv, NEW pid \in Node, NEW n \in Live,
         op.do \notin {"enter", "count", "uncount"}
  PROVE  /\ Frame(pid, n) \in Call
         /\ Frame(pid, n).pid = pid /\ Frame(pid, n).id = n
         /\ Len(Frame(pid, n).kids) = Len(view[n])
         /\ \A i \in 1 .. Len(view[n]) : Frame(pid, n).kids[i] = view[n][i].child
<1>1. Len(view[n]) = hdr[n].count /\ hdr[n].count \in Nat
  BY ViewFacts, HeaderFacts DEF Size
<1>2. \A i \in 1 .. hdr[n].count : hdr[n].table[i] = view[n][i] /\ view[n][i] \in Entry
  BY ViewFacts DEF Size, TableOf
<1>3. \A i \in 1 .. hdr[n].count : hdr[n].table[i].child \in Node
  BY <1>2 DEF Entry
<1>4. [i \in 1 .. hdr[n].count |-> hdr[n].table[i].child] \in Seq(Node)
  BY <1>1, <1>3
<1>5. n \in Node
  BY HeaderFacts
<1> QED  BY <1>1, <1>2, <1>4, <1>5 DEF Frame, Call

\* The running call, and those that wait for it.
LEMMA FrameFacts ==
  ASSUME StoreInv, frames # <<>>
  PROVE  /\ Top \in Call /\ Len(frames) \in Nat \ {0} /\ Top = frames[Len(frames)]
         /\ \A k \in 1 .. Len(frames) : frames[k] \in Call
         /\ Popped \in Seq(Call) /\ Len(Popped) = Len(frames) - 1
         /\ \A k \in 1 .. Len(frames) - 1 : Popped[k] = frames[k]
<1>1. frames \in Seq(Call)
  BY DEF StoreInv, Types
<1>2. Len(frames) \in Nat \ {0} /\ \A k \in 1 .. Len(frames) : frames[k] \in Call
  BY <1>1
<1> QED  BY <1>2 DEF Top, Popped

\* A step that writes one header, or the table of one node.
LEMMA OneHeader ==
  ASSUME StoreInv, NEW p \in Live, NEW h \in Header, hdr' = [hdr EXCEPT ![p] = h],
         p # Root => h.name \in StoredName,
         op' \in Operation, frames' \in Seq(Call)
  PROVE  /\ Types' /\ Live' = Live /\ hdr'[p] = h
         /\ \A n \in Live : n # p => hdr'[n] = hdr[n]
BY DEF StoreInv, Types, Live

\* A header with other fields is a header.
LEMMA HeaderFields ==
  ASSUME NEW h \in Header, NEW t \in Table \cup {Freed}, NEW k \in Nat, NEW r \in Nat
  PROVE  /\ [h EXCEPT !.table = t] \in Header
         /\ [h EXCEPT !.table = t].name = h.name
         /\ [h EXCEPT !.table = t].count = h.count
         /\ [h EXCEPT !.table = t].room = h.room
         /\ [h EXCEPT !.table = t].table = t
         /\ [h EXCEPT !.count = k, !.table = t, !.room = r] \in Header
         /\ [h EXCEPT !.count = k] \in Header
BY DEF Header, Table

\* A new node: the others keep their headers and lists.
LEMMA CreateStore ==
  ASSUME StoreInv, NEW p \in Node, NEW n \in Node, NEW name \in StoredName, Create(p, n, name)
  PROVE  /\ StoreInv' /\ n \notin Live /\ n # p /\ n # Root /\ p \in Live
         /\ Live' = Live \cup {n} /\ hdr'[n].name = Bare(name) /\ Len(view'[n]) = 0
         /\ \A x \in Live : hdr'[x] = hdr[x] /\ view'[x] = view[x]
<1>1. /\ n \notin Live /\ n # p /\ n # Root /\ p \in Live
      /\ op' = Add(p, n, Nobody) /\ op = Idle /\ frames' = frames
  BY HeaderFacts DEF Create, Fresh
<1>2. /\ Live' = Live \cup {n} /\ hdr'[n] = NewHeader(Bare(name))
      /\ \A x \in Live : hdr'[x] = hdr[x]
  BY <1>1 DEF Create, Live
<1>3. /\ op' \in Operation /\ op'.do \in {"grow", "enter"} /\ op'.table = <<>> /\ op.table = <<>>
      /\ op.do = "idle" /\ op'.parent = p /\ op'.child = n
      /\ op'.do = IF hdr[p].room <= hdr[p].count THEN "grow" ELSE "enter"
  BY <1>1, AddFacts, IdleFacts DEF Full
<1>4. NewHeader(Bare(name)) \in Header /\ Bare(name) \in StoredName
  <2>1. Bare(name) \in StoredName
    BY DEF Bare, StoredName
  <2> QED  BY <2>1, UnusedFacts DEF NewHeader, Header, Table
<1>5. Types'
  <2>1. hdr' \in [Live' -> Header]
    BY <1>2, <1>4 DEF Create, StoreInv, Types, Live
  <2> QED  BY <2>1, <1>1, <1>2, <1>3, <1>4 DEF StoreInv, Types, NewHeader
<1>6. /\ \A x \in Live : Size(x)' = Size(x) /\ TableOf(x)' = TableOf(x)
      /\ Size(n)' = 0
  BY <1>2, <1>3 DEF Size, TableOf, NewHeader
<1>7. Rooms'
  <2> SUFFICES ASSUME NEW x \in Live'
               PROVE  /\ hdr'[x].count <= hdr'[x].room /\ hdr'[x].room # 1
                      /\ hdr'[x].table # Freed => Len(hdr'[x].table) = hdr'[x].room
                      /\ hdr'[x].table # Freed
                      /\ \A i \in 1 .. Size(x)' : TableOf(x)'[i] \in Entry
    BY DEF Rooms
  <2>1. CASE x = n
    BY <2>1, <1>2, <1>6, UnusedFacts DEF NewHeader
  <2>2. CASE x # n
    BY <2>2, <1>2, <1>3, <1>6 DEF StoreInv, Rooms
  <2> QED  BY <2>1, <2>2
<1>8. RoomForEntry'
  <2>1. hdr[p].count \in Nat /\ hdr[p].room \in Nat
    BY <1>1, HeaderFacts
  <2> QED  BY <2>1, <1>1, <1>2, <1>3 DEF RoomForEntry, Full
<1>9. LastUnused'
  BY <1>3 DEF LastUnused
<1>10. StoreInv'
  BY <1>5, <1>7, <1>8, <1>9 DEF StoreInv
<1>11. \A x \in Live : view'[x] = view[x]
  BY <1>2, <1>6 DEF view
<1>12. Len(view'[n]) = 0
  BY <1>2, <1>6, <1>10, ViewFacts2
<1> QED  BY <1>1, <1>2, <1>10, <1>11, <1>12 DEF NewHeader

\* A table that grows changes no list.
LEMMA GrowStore ==
  ASSUME StoreInv, Grow
  PROVE  StoreInv' /\ view' = view /\ Live' = Live /\ \A n \in Live : hdr'[n].name = hdr[n].name
<1> DEFINE p == op.parent
           old == hdr[p].table
           new == [i \in 1 .. Grown(hdr[p].room) |-> IF i <= hdr[p].count THEN old[i] ELSE Unused]
<1>1. /\ op.do = "grow" /\ p \in Live /\ op.child \in Live \ {Root} /\ hdr[p].room <= hdr[p].count
      /\ op' = [op EXCEPT !.do = "enter", !.table = new] /\ frames' = frames
      /\ hdr' = IF hdr[p].count > 0 THEN [hdr EXCEPT ![p].table = Freed] ELSE hdr
  BY DEF Grow, StoreInv, RoomForEntry, Adding, Full
<1>2. /\ hdr[p].count \in Nat /\ hdr[p].room = hdr[p].count /\ hdr[p].room # 1
      /\ old \in Table /\ Len(old) = hdr[p].count
  BY <1>1, HeaderFacts DEF StoreInv, Rooms
<1>3. Grown(hdr[p].room) \in Nat /\ Grown(hdr[p].room) > hdr[p].count /\ Grown(hdr[p].room) # 1
  BY <1>2, TreeAssumption, SMTT(30) DEF Grown
<1>4. \A i \in 1 .. hdr[p].count : old[i] \in Entry \cup {Unused}
  BY <1>2 DEF Table
<1>5. new \in Table /\ Len(new) = Grown(hdr[p].room) /\ \A i \in 1 .. hdr[p].count : new[i] = old[i]
  BY <1>2, <1>3, <1>4 DEF Table
<1> HIDE DEF new
<1>6. /\ op' \in Operation /\ op'.do = "enter" /\ op'.table = new /\ op'.parent = p
      /\ op'.child = op.child /\ op'.from = op.from
  BY <1>1, <1>5 DEF StoreInv, Types, Operation, Steps
<1>7. new # <<>>
  <2>1. Len(new) # 0
    BY <1>2, <1>3, <1>5
  <2> QED  BY <2>1
<1>8. /\ Types' /\ Live' = Live /\ \A n \in Live : n # p => hdr'[n] = hdr[n]
      /\ hdr'[p].name = hdr[p].name /\ hdr'[p].count = hdr[p].count /\ hdr'[p].room = hdr[p].room
      /\ hdr'[p].table = IF hdr[p].count > 0 THEN Freed ELSE old
  <2>1. CASE hdr[p].count > 0
    <3>1. hdr[p] \in Header /\ (p # Root => hdr[p].name \in StoredName) /\ frames \in Seq(Call)
      BY <1>1 DEF StoreInv, Types
    <3> DEFINE h == [hdr[p] EXCEPT !.table = Freed]
    <3>2. /\ h \in Header /\ h.name = hdr[p].name /\ h.count = hdr[p].count
          /\ h.room = hdr[p].room /\ h.table = Freed
      BY <3>1, HeaderFields
    <3>3. hdr' = [hdr EXCEPT ![p] = h]
      BY <1>1, <2>1
    <3> HIDE DEF h
    <3> QED  BY <3>1, <3>2, <3>3, <2>1, <1>1, <1>6, OneHeader
  <2>2. CASE ~(hdr[p].count > 0)
    BY <2>2, <1>1, <1>6 DEF StoreInv, Types, Live
  <2> QED  BY <2>1, <2>2
<1>9. \A n \in Live : Size(n)' = Size(n) /\ \A i \in 1 .. Size(n) : TableOf(n)'[i] = TableOf(n)[i]
  <2> SUFFICES ASSUME NEW n \in Live
               PROVE  Size(n)' = Size(n) /\ \A i \in 1 .. Size(n) : TableOf(n)'[i] = TableOf(n)[i]
    OBVIOUS
  <2>1. CASE n = p
    BY <2>1, <1>1, <1>5, <1>6, <1>7, <1>8 DEF Size, TableOf
  <2>2. CASE n # p
    BY <2>2, <1>1, <1>6, <1>8 DEF Size, TableOf
  <2> QED  BY <2>1, <2>2
<1>10. view' = view
  BY <1>8, <1>9 DEF view
<1>11. Rooms'
  <2> SUFFICES ASSUME NEW n \in Live
               PROVE  /\ hdr'[n].count <= hdr'[n].room /\ hdr'[n].room # 1
                      /\ hdr'[n].table # Freed => Len(hdr'[n].table) = hdr'[n].room
                      /\ hdr'[n].table = Freed =>
                           \/ op'.do \in {"enter", "count"} /\ n = op'.parent /\ op'.table # <<>>
                      /\ \A i \in 1 .. Size(n)' : TableOf(n)'[i] \in Entry
    BY <1>8 DEF Rooms
  <2>1. \A i \in 1 .. Size(n)' : TableOf(n)'[i] \in Entry
    BY <1>9 DEF StoreInv, Rooms
  <2>2. CASE n = p
    BY <2>1, <2>2, <1>2, <1>6, <1>7, <1>8
  <2>3. CASE n # p
    BY <2>1, <2>3, <1>1, <1>8 DEF StoreInv, Rooms
  <2> QED  BY <2>2, <2>3
<1>12. RoomForEntry'
  <2>1. hdr'[p].table = Freed \/ hdr'[p].count = 0
    BY <1>2, <1>8
  <2> QED  BY <2>1, <1>1, <1>3, <1>5, <1>6, <1>7, <1>8 DEF RoomForEntry
<1>13. LastUnused'
  BY <1>6 DEF LastUnused
<1> QED  BY <1>8, <1>10, <1>11, <1>12, <1>13 DEF StoreInv

Put(t, i, e) == [t EXCEPT ![i] = e]

\* A table with another entry is a table.
LEMMA TableUpdate ==
  ASSUME NEW t \in Table, NEW i \in 1 .. Len(t), NEW e \in Entry \cup {Unused}
  PROVE  /\ Put(t, i, e) \in Table /\ Len(Put(t, i, e)) = Len(t) /\ Put(t, i, e)[i] = e
         /\ \A j \in 1 .. Len(t) : j # i => Put(t, i, e)[j] = t[j]
BY DEF Table, Put

\* An entry behind the last that counts changes no list.
LEMMA EnterStore ==
  ASSUME StoreInv, Enter
  PROVE  StoreInv' /\ view' = view /\ Live' = Live /\ \A n \in Live : hdr'[n].name = hdr[n].name
<1> DEFINE p == op.parent
           last == hdr[p].count + 1
           entry == [name |-> hdr[op.child].name, child |-> op.child]
<1>1. /\ op.do = "enter" /\ p \in Live /\ op.child \in Live \ {Root} /\ frames' = frames
      /\ op.table = <<>> => hdr[p].count < hdr[p].room
      /\ op.table # <<>> => hdr[p].count < Len(op.table) /\ Len(op.table) # 1
      /\ op.table # <<>> => hdr[p].table = Freed \/ hdr[p].count = 0
  BY DEF Enter, StoreInv, RoomForEntry, Adding
<1>2. /\ hdr[p].count \in Nat /\ hdr[p].room \in Nat /\ op.table \in Table
      /\ hdr[p] \in Header /\ (p # Root => hdr[p].name \in StoredName) /\ frames \in Seq(Call)
      /\ last \in Nat /\ hdr[p].count < last /\ p \in Node /\ op.child \in Node
  BY <1>1, HeaderFacts DEF StoreInv, Types
<1>3. entry \in Entry \cup {Unused}
  BY <1>1, <1>2, HeaderFacts DEF Entry
<1>4. /\ op' \in Operation /\ op'.do = "count" /\ op'.parent = p /\ op'.child = op.child
      /\ (op.table = <<>> <=> op'.table = <<>>)
      /\ op.table = <<>> =>
           /\ hdr' = [hdr EXCEPT ![p].table[last] = entry]
           /\ hdr[p].table \in Table /\ Len(hdr[p].table) = hdr[p].room
      /\ op.table # <<>> =>
           /\ hdr' = hdr /\ Len(op'.table) = Len(op.table) /\ op'.table[last] = entry
           /\ \A j \in 1 .. Len(op.table) : j # last => op'.table[j] = op.table[j]
  <2>1. CASE op.table = <<>>
    <3>1. op' = [op EXCEPT !.do = "count"] /\ hdr' = [hdr EXCEPT ![p].table[last] = entry]
      BY <2>1 DEF Enter
    <3>2. hdr[p].table # Freed
      BY <1>1, <2>1 DEF StoreInv, Rooms
    <3>3. hdr[p].table \in Table /\ Len(hdr[p].table) = hdr[p].room
      BY <3>2, <1>1, HeaderFacts DEF StoreInv, Rooms
    <3> HIDE DEF entry
    <3> QED  BY <2>1, <3>1, <3>3 DEF StoreInv, Types, Operation, Steps
  <2>2. CASE op.table # <<>>
    <3> DEFINE t == Put(op.table, last, entry)
    <3>1. op' = [op EXCEPT !.do = "count", !.table = t] /\ hdr' = hdr
      BY <2>2 DEF Enter, Put
    <3>2. last \in 1 .. Len(op.table)
      BY <1>1, <1>2, <2>2 DEF Table
    <3>3. /\ t \in Table /\ Len(t) = Len(op.table) /\ t[last] = entry
          /\ \A j \in 1 .. Len(op.table) : j # last => t[j] = op.table[j]
      <4> HIDE DEF entry, last
      <4> QED  BY <1>2, <1>3, <3>2, TableUpdate
    <3>4. t # <<>>
      BY <3>2, <3>3
    <3> HIDE DEF t, entry, last
    <3> QED  BY <2>2, <3>1, <3>3, <3>4 DEF StoreInv, Types, Operation, Steps
  <2> QED  BY <2>1, <2>2
<1>5. /\ Types' /\ Live' = Live /\ \A n \in Live : n # p => hdr'[n] = hdr[n]
      /\ hdr'[p].name = hdr[p].name /\ hdr'[p].count = hdr[p].count /\ hdr'[p].room = hdr[p].room
      /\ op.table # <<>> => hdr'[p].table = hdr[p].table
      /\ op.table = <<>> =>
           /\ hdr'[p].table \in Table /\ Len(hdr'[p].table) = hdr[p].room
           /\ hdr'[p].table[last] = entry
           /\ \A j \in 1 .. hdr[p].room : j # last => hdr'[p].table[j] = hdr[p].table[j]
  <2>1. CASE op.table = <<>>
    <3> DEFINE t == Put(hdr[p].table, last, entry)
               h == [hdr[p] EXCEPT !.table = t]
    <3>1. last \in 1 .. Len(hdr[p].table)
      BY <1>1, <1>2, <1>4, <2>1
    <3>2. /\ t \in Table /\ Len(t) = hdr[p].room /\ t[last] = entry
          /\ \A j \in 1 .. hdr[p].room : j # last => t[j] = hdr[p].table[j]
      <4> HIDE DEF entry, last
      <4> QED  BY <1>3, <1>4, <2>1, <3>1, TableUpdate
    <3>3. hdr' = [hdr EXCEPT ![p] = h]
      BY <1>4, <2>1 DEF Put
    <3> HIDE DEF t, entry, last
    <3>4. /\ h \in Header /\ h.name = hdr[p].name /\ h.count = hdr[p].count
          /\ h.room = hdr[p].room /\ h.table = t
      BY <1>2, <3>2, HeaderFields
    <3> HIDE DEF h
    <3>5. /\ Types' /\ Live' = Live /\ hdr'[p] = h
          /\ \A n \in Live : n # p => hdr'[n] = hdr[n]
      <4>1. op' \in Operation /\ frames' \in Seq(Call) /\ p \in Live
        BY <1>1, <1>2, <1>4
      <4> QED  BY <1>2, <3>3, <3>4, <4>1, OneHeader
    <3> QED  BY <2>1, <3>2, <3>4, <3>5
  <2>2. CASE op.table # <<>>
    BY <1>1, <1>2, <1>4, <2>2 DEF StoreInv, Types, Live
  <2> QED  BY <2>1, <2>2
<1> HIDE DEF entry, last
<1>6. \A n \in Live : Size(n)' = Size(n) /\ \A i \in 1 .. Size(n) : TableOf(n)'[i] = TableOf(n)[i]
  <2> SUFFICES ASSUME NEW n \in Live
               PROVE  Size(n)' = Size(n) /\ \A i \in 1 .. Size(n) : TableOf(n)'[i] = TableOf(n)[i]
    OBVIOUS
  <2>1. CASE n = p
    <3>1. Size(n)' = hdr[p].count /\ Size(n) = hdr[p].count
      BY <2>1, <1>1, <1>4, <1>5 DEF Size
    <3>2. \A i \in 1 .. hdr[p].count : i # last
      BY <1>2
    <3>3. CASE op.table = <<>>
      <4>1. TableOf(n) = hdr[p].table /\ TableOf(n)' = hdr'[p].table
        BY <2>1, <3>3, <1>4 DEF TableOf
      <4>2. \A i \in 1 .. hdr[p].count : i \in 1 .. hdr[p].room
        BY <1>1, <1>2, <3>3
      <4> QED  BY <3>1, <3>2, <3>3, <4>1, <4>2, <1>5
    <3>4. CASE op.table # <<>>
      <4>1. TableOf(n) = op.table /\ TableOf(n)' = op'.table
        BY <2>1, <3>4, <1>1, <1>4 DEF TableOf
      <4>2. \A i \in 1 .. hdr[p].count : i \in 1 .. Len(op.table)
        BY <1>1, <1>2, <3>4 DEF Table
      <4> QED  BY <3>1, <3>2, <3>4, <4>1, <4>2, <1>4
    <3> QED  BY <3>3, <3>4
  <2>2. CASE n # p
    BY <2>2, <1>1, <1>4, <1>5 DEF Size, TableOf
  <2> QED  BY <2>1, <2>2
<1>7. view' = view
  BY <1>5, <1>6 DEF view
<1>8. Rooms'
  <2> SUFFICES ASSUME NEW n \in Live
               PROVE  /\ hdr'[n].count <= hdr'[n].room /\ hdr'[n].room # 1
                      /\ hdr'[n].table # Freed => Len(hdr'[n].table) = hdr'[n].room
                      /\ hdr'[n].table = Freed =>
                           \/ op'.do \in {"enter", "count"} /\ n = op'.parent /\ op'.table # <<>>
                      /\ \A i \in 1 .. Size(n)' : TableOf(n)'[i] \in Entry
    BY <1>5 DEF Rooms
  <2>1. \A i \in 1 .. Size(n)' : TableOf(n)'[i] \in Entry
    BY <1>6 DEF StoreInv, Rooms
  <2>2. CASE n = p /\ op.table = <<>>
    BY <2>1, <2>2, <1>5, UnusedFacts DEF StoreInv, Rooms
  <2>3. CASE ~(n = p /\ op.table = <<>>)
    BY <2>1, <2>3, <1>1, <1>4, <1>5 DEF StoreInv, Rooms
  <2> QED  BY <2>2, <2>3
<1>9. RoomForEntry'
  <2>1. TableOf(p)'[last] = entry
    BY <1>4, <1>5 DEF TableOf
  <2> QED  BY <2>1, <1>1, <1>4, <1>5 DEF RoomForEntry, entry, last
<1>10. LastUnused'
  BY <1>4 DEF LastUnused
<1> QED  BY <1>5, <1>7, <1>8, <1>9, <1>10 DEF StoreInv

\* The entry counts: the parent lists the node, last.
LEMMA CountStore ==
  ASSUME StoreInv, Count
  PROVE  LET p == op.parent
             sz == Len(view[p])
         IN /\ StoreInv' /\ Live' = Live /\ \A n \in Live : hdr'[n].name = hdr[n].name
            /\ p \in Live /\ op.child \in Live \ {Root} /\ sz \in Nat
            /\ \A n \in Live : n # p => view'[n] = view[n]
            /\ Len(view'[p]) = sz + 1
            /\ \A i \in 1 .. sz : view'[p][i] = view[p][i]
            /\ view'[p][sz + 1] = [name |-> hdr[op.child].name, child |-> op.child]
<1> DEFINE p == op.parent
           k == hdr[p].count + 1
           t == IF op.table = <<>> THEN hdr[p].table ELSE op.table
           r == IF op.table = <<>> THEN hdr[p].room ELSE Len(op.table)
           entry == [name |-> hdr[op.child].name, child |-> op.child]
           h == [hdr[p] EXCEPT !.count = k, !.table = t, !.room = r]
<1>1. /\ op.do = "count" /\ p \in Live /\ op.child \in Live \ {Root} /\ frames' = frames
      /\ op.table = <<>> => hdr[p].count < hdr[p].room
      /\ op.table # <<>> => hdr[p].count < Len(op.table) /\ Len(op.table) # 1
      /\ TableOf(p)[k] = entry
  BY DEF Count, StoreInv, RoomForEntry, Adding
<1>2. /\ hdr[p].count \in Nat /\ hdr[p].room \in Nat /\ op.table \in Table
      /\ hdr[p] \in Header /\ (p # Root => hdr[p].name \in StoredName) /\ frames \in Seq(Call)
      /\ k \in Nat /\ p \in Node /\ op.child \in Node
  BY <1>1, HeaderFacts DEF StoreInv, Types
<1>3. t \in Table /\ Len(t) = r /\ r \in Nat /\ k <= r /\ r # 1 /\ TableOf(p) = t
  <2>1. CASE op.table = <<>>
    <3>1. hdr[p].table # Freed
      BY <1>1, <2>1 DEF StoreInv, Rooms
    <3> QED  BY <3>1, <2>1, <1>1, <1>2, HeaderFacts DEF StoreInv, Rooms, TableOf
  <2>2. CASE op.table # <<>>
    BY <2>2, <1>1, <1>2 DEF TableOf, Table
  <2> QED  BY <2>1, <2>2
<1>4. hdr' = [hdr EXCEPT ![p] = h]
  <2>1. hdr' = [hdr EXCEPT ![p].count = @ + 1,
                           ![p].table = IF op.table = <<>> THEN @ ELSE op.table,
                           ![p].room = IF op.table = <<>> THEN @ ELSE Len(op.table)]
    BY DEF Count
  <2> QED  BY <1>1, <2>1 DEF Live
<1>5. op' = (IF op.from = Nobody THEN Idle
             ELSE [Idle EXCEPT !.do = "drop", !.parent = op.from, !.child = op.child])
  BY DEF Count
<1>6. op' \in Operation /\ op'.do \in {"idle", "drop"}
  BY <1>5, IdleFacts DEF StoreInv, Types, Operation, Steps
<1> HIDE DEF t, r, entry
<1>7. h \in Header /\ h.name = hdr[p].name /\ h.count = k /\ h.table = t /\ h.room = r
  BY <1>2, <1>3 DEF Header, Table
<1> HIDE DEF h
<1>8. /\ Types' /\ Live' = Live /\ hdr'[p] = h
      /\ \A n \in Live : n # p => hdr'[n] = hdr[n]
  BY <1>1, <1>2, <1>4, <1>6, <1>7, OneHeader
<1>9. /\ \A n \in Live : TableOf(n)' = hdr'[n].table /\ Size(n)' = hdr'[n].count
      /\ \A n \in Live : Size(n) = hdr[n].count
      /\ \A n \in Live : n # p => TableOf(n) = hdr[n].table
  BY <1>1, <1>6 DEF TableOf, Size
<1>10. entry \in Entry
  BY <1>1, <1>2, HeaderFacts DEF Entry, entry
<1>11. Rooms'
  <2> SUFFICES ASSUME NEW n \in Live
               PROVE  /\ hdr'[n].count <= hdr'[n].room /\ hdr'[n].room # 1
                      /\ hdr'[n].table # Freed => Len(hdr'[n].table) = hdr'[n].room
                      /\ hdr'[n].table # Freed
                      /\ \A i \in 1 .. Size(n)' : TableOf(n)'[i] \in Entry
    BY <1>8 DEF Rooms
  <2>1. CASE n = p
    <3>1. \A i \in 1 .. hdr[p].count : t[i] \in Entry
      BY <1>1, <1>3, <1>9 DEF StoreInv, Rooms
    <3>2. \A i \in 1 .. k : i \in 1 .. hdr[p].count \/ i = k
      BY <1>2
    <3>3. \A i \in 1 .. Size(n)' : TableOf(n)'[i] \in Entry
      BY <2>1, <3>1, <3>2, <1>1, <1>3, <1>7, <1>8, <1>9, <1>10
    <3> QED  BY <2>1, <3>3, <1>3, <1>7, <1>8, UnusedFacts
  <2>2. CASE n # p
    BY <2>2, <1>1, <1>8, <1>9 DEF StoreInv, Rooms
  <2> QED  BY <2>1, <2>2
<1>12. StoreInv'
  BY <1>6, <1>8, <1>11 DEF StoreInv, RoomForEntry, LastUnused, Adding
<1>13. \A n \in Live : n # p => view'[n] = view[n]
  BY <1>8, <1>9 DEF view
<1>14. Len(view[p]) = hdr[p].count /\ Len(view'[p]) = k
  BY <1>1, <1>7, <1>8, <1>9, <1>12, ViewFacts, ViewFacts2
<1>15. /\ \A i \in 1 .. k : view'[p][i] = t[i]
       /\ \A i \in 1 .. hdr[p].count : view[p][i] = t[i]
  BY <1>1, <1>3, <1>7, <1>8, <1>9 DEF view
<1>16. \A i \in 1 .. hdr[p].count : view'[p][i] = view[p][i]
  <2>1. \A i \in 1 .. hdr[p].count : i \in 1 .. k
    BY <1>2
  <2> QED  BY <1>15, <2>1
<1>17. view'[p][k] = entry
  <2>1. k \in 1 .. k
    BY <1>2
  <2> QED  BY <2>1, <1>1, <1>3, <1>15
<1>18. \A n \in Live : hdr'[n].name = hdr[n].name
  BY <1>7, <1>8
<1> QED
  BY <1>1, <1>2, <1>8, <1>12, <1>13, <1>14, <1>16, <1>17, <1>18 DEF entry

\* A set of naturals has a least element.
LEMMA LeastElement ==
  ASSUME NEW S \in SUBSET Nat, S # {}
  PROVE  \E m \in S : \A n \in S : m <= n
<1>1. PICK m \in S : \A n \in S : ~(<<n, m>> \in OpToRel(<, Nat))
  BY NatLessThanWellFounded, WFMin
<1>2. \A n \in S : ~(n < m)
  BY <1>1 DEF OpToRel
<1> QED  BY <1>2

ClosedAt(w, t, k, c, f) ==
  /\ f \in 1 .. k /\ t[f].child = c
  /\ \A i \in 1 .. k - 1 : w[i] = IF i < f THEN t[i] ELSE t[i + 1]

\* The hole of a removed entry is closed and the last entry is unused.
LEMMA WithoutFacts ==
  ASSUME NEW t \in Table, NEW k \in 1 .. Len(t), NEW c, \E i \in 1 .. k : t[i].child = c
  PROVE  /\ Without(t, k, c) \in Table /\ Len(Without(t, k, c)) = Len(t)
         /\ Without(t, k, c)[k] = Unused
         /\ \E f : ClosedAt(Without(t, k, c), t, k, c, f)
<1> DEFINE S == {i \in 1 .. k : t[i].child = c}
           First(i) == t[i].child = c /\ \A j \in 1 .. i - 1 : t[j].child # c
           f == CHOOSE i \in 1 .. k : First(i)
<1>1. PICK m \in S : \A i \in S : m <= i
  <2>1. S \in SUBSET Nat /\ S # {}
    OBVIOUS
  <2> HIDE DEF S
  <2> QED  BY <2>1, LeastElement
<1>2. m \in 1 .. k /\ First(m)
  BY <1>1
<1>3. f \in 1 .. k /\ First(f)
  <2> HIDE DEF First
  <2> QED  BY <1>2
<1>4. Without(t, k, c) = [i \in 1 .. Len(t) |-> IF i < f \/ i > k THEN t[i]
                                              ELSE IF i < k THEN t[i + 1] ELSE Unused]
  BY DEF Without
<1> HIDE DEF f
<1>5. t[f].child = c
  BY <1>3
<1> HIDE DEF First
<1>6. \A i \in 1 .. Len(t) : t[i] \in Entry \cup {Unused}
  BY DEF Table
<1>7. Len(t) \in Nat
  BY DEF Table
<1>8. \A i \in 1 .. Len(t) : i < k => i + 1 \in 1 .. Len(t)
  BY <1>7
<1>9. Without(t, k, c) \in Table /\ Len(Without(t, k, c)) = Len(t)
  BY <1>4, <1>6, <1>7, <1>8 DEF Table
<1>10. Without(t, k, c)[k] = Unused
  BY <1>3, <1>4
<1>11. \A i \in 1 .. k - 1 : Without(t, k, c)[i] = IF i < f THEN t[i] ELSE t[i + 1]
  <2>1. \A i \in 1 .. k - 1 : i \in 1 .. Len(t) /\ i < k
    BY <1>7
  <2> QED  BY <1>3, <1>4, <2>1
<1>12. ClosedAt(Without(t, k, c), t, k, c, f)
  BY <1>3, <1>5, <1>11 DEF ClosedAt
<1> QED  BY <1>9, <1>10, <1>12

\* The parent lists the node once less; the entries behind the hole move up.
LEMMA DropStore ==
  ASSUME StoreInv, Drop
  PROVE  LET p == op.parent
             sz == Len(view[p])
         IN /\ StoreInv' /\ Live' = Live /\ \A n \in Live : hdr'[n].name = hdr[n].name
            /\ p \in Live /\ sz \in Nat /\ Len(view'[p]) = sz - 1
            /\ \A n \in Live : n # p => view'[n] = view[n]
            /\ \E f \in 1 .. sz :
                 /\ view[p][f].child = op.child
                 /\ \A i \in 1 .. sz - 1 : view'[p][i] = view[p][IF i < f THEN i ELSE i + 1]
<1> DEFINE p == op.parent
           k == hdr[p].count
           c == op.child
           t == hdr[p].table
           w == Without(t, k, c)
           h == [hdr[p] EXCEPT !.table = w]
<1>1. /\ op.do = "drop" /\ p \in Live /\ frames' = frames
      /\ op' = [op EXCEPT !.do = "uncount"]
      /\ hdr' = [hdr EXCEPT ![p].table = Without(@, hdr[op.parent].count, op.child)]
      /\ \E i \in 1 .. k : t[i].child = c
  BY DEF Drop, IsChild, Entries
<1>2. /\ k \in Nat /\ k > 0 /\ t \in Table /\ Len(t) = hdr[p].room /\ k <= Len(t) /\ t # Freed
      /\ hdr[p] \in Header /\ (p # Root => hdr[p].name \in StoredName) /\ frames \in Seq(Call)
      /\ p \in Node
  <2>1. k \in Nat /\ hdr[p].room \in Nat /\ t \in Table \cup {Freed}
    BY <1>1, HeaderFacts
  <2>2. t # Freed /\ k <= hdr[p].room
    BY <1>1 DEF StoreInv, Rooms
  <2>3. Len(t) = hdr[p].room
    BY <1>1, <2>2 DEF StoreInv, Rooms
  <2> QED  BY <1>1, <2>1, <2>2, <2>3 DEF StoreInv, Types
<1>3. hdr' = [hdr EXCEPT ![p] = h]
  BY <1>1 DEF Live
<1>4. op' \in Operation /\ op'.do = "uncount" /\ op'.parent = p
  BY <1>1 DEF StoreInv, Types, Operation, Steps
<1>5. k \in 1 .. Len(t)
  BY <1>2
<1>6. /\ w \in Table /\ Len(w) = Len(t) /\ w[k] = Unused
  <2> HIDE DEF k, c, t
  <2> QED  BY <1>1, <1>2, <1>5, WithoutFacts
<1>7. PICK f : ClosedAt(w, t, k, c, f)
  <2> HIDE DEF k, c, t
  <2> QED  BY <1>1, <1>2, <1>5, WithoutFacts
<1> HIDE DEF w
<1>8. /\ h \in Header /\ h.name = hdr[p].name /\ h.count = k /\ h.room = hdr[p].room /\ h.table = w
  BY <1>2, <1>6, HeaderFields
<1> HIDE DEF h
<1>9. /\ Types' /\ Live' = Live /\ hdr'[p] = h
      /\ \A n \in Live : n # p => hdr'[n] = hdr[n]
  <2>1. frames' \in Seq(Call)
    BY <1>1, <1>2
  <2> QED  BY <1>1, <1>2, <1>3, <1>4, <1>8, <2>1, OneHeader
<1>10. \A n \in Live : /\ TableOf(n)' = hdr'[n].table /\ TableOf(n) = hdr[n].table
                       /\ Size(n) = hdr[n].count
                       /\ Size(n)' = IF n = p THEN k - 1 ELSE hdr[n].count
  BY <1>1, <1>4, <1>8, <1>9 DEF TableOf, Size
<1>11. /\ hdr'[p].count = k /\ hdr'[p].room = hdr[p].room /\ hdr'[p].table = w
       /\ \A i \in 1 .. k : t[i] \in Entry
       /\ hdr[p].room # 1 /\ hdr[p].table = t /\ hdr[p].count = k
       /\ t[f].child = op.child /\ f \in 1 .. k
       /\ \A i \in 1 .. k - 1 : w[i] = IF i < f THEN t[i] ELSE t[i + 1]
  <2>1. hdr[p].room # 1 /\ \A i \in 1 .. Size(p) : TableOf(p)[i] \in Entry
    BY <1>1 DEF StoreInv, Rooms
  <2>2. Size(p) = k /\ TableOf(p) = t
    BY <1>1, <1>10
  <2> QED  BY <1>7, <1>8, <1>9, <2>1, <2>2 DEF ClosedAt
<1> HIDE DEF k, t
<1>12. \A i \in 1 .. k - 1 : i \in 1 .. k /\ i + 1 \in 1 .. k
  BY <1>2
<1>13. \A i \in 1 .. k - 1 : w[i] \in Entry /\ w[i] = t[IF i < f THEN i ELSE i + 1]
  BY <1>11, <1>12
<1>14. Rooms'
  <2> SUFFICES ASSUME NEW n \in Live
               PROVE  /\ hdr'[n].count <= hdr'[n].room /\ hdr'[n].room # 1
                      /\ hdr'[n].table # Freed => Len(hdr'[n].table) = hdr'[n].room
                      /\ hdr'[n].table # Freed
                      /\ \A i \in 1 .. Size(n)' : TableOf(n)'[i] \in Entry
    BY <1>9 DEF Rooms
  <2>1. CASE n = p
    <3>1. Size(n)' = k - 1 /\ TableOf(n)' = w
      BY <2>1, <1>10, <1>11
    <3> QED  BY <2>1, <3>1, <1>2, <1>6, <1>11, <1>13, UnusedFacts
  <2>2. CASE n # p
    BY <2>2, <1>1, <1>9, <1>10 DEF StoreInv, Rooms
  <2> QED  BY <2>1, <2>2
<1>15. LastUnused'
  BY <1>1, <1>2, <1>4, <1>6, <1>9, <1>11, UnusedFacts DEF LastUnused
<1>16. StoreInv'
  BY <1>4, <1>9, <1>14, <1>15 DEF StoreInv, RoomForEntry, Adding
<1>17. \A n \in Live : n # p => view'[n] = view[n]
  BY <1>9, <1>10 DEF view
<1>18. Len(view[p]) = k /\ Len(view'[p]) = k - 1
  BY <1>1, <1>9, <1>10, <1>11, <1>16, ViewFacts, ViewFacts2
<1>19. /\ \A i \in 1 .. k - 1 : view'[p][i] = w[i]
       /\ \A i \in 1 .. k : view[p][i] = t[i]
  BY <1>1, <1>9, <1>10, <1>11 DEF view
<1>20. \A i \in 1 .. k - 1 : view'[p][i] = view[p][IF i < f THEN i ELSE i + 1]
  BY <1>12, <1>13, <1>19
<1>21. f \in 1 .. k /\ view[p][f].child = op.child
  BY <1>11, <1>19
<1>22. \A n \in Live : hdr'[n].name = hdr[n].name
  BY <1>8, <1>9
<1> QED
  BY <1>1, <1>2, <1>9, <1>16, <1>17, <1>18, <1>20, <1>21, <1>22

\* The count after a removal changes no list.
LEMMA UncountStore ==
  ASSUME StoreInv, Uncount
  PROVE  StoreInv' /\ view' = view /\ Live' = Live /\ \A n \in Live : hdr'[n].name = hdr[n].name
<1> DEFINE p == op.parent
           k == hdr[p].count - 1
           h == [hdr[p] EXCEPT !.count = k]
<1>1. /\ op.do = "uncount" /\ p \in Live /\ hdr[p].count > 0 /\ frames' = frames
      /\ hdr[p].table # Freed
      /\ hdr' = [hdr EXCEPT ![op.parent].count = @ - 1]
      /\ op' = IF frames = <<>> THEN Idle ELSE [Idle EXCEPT !.do = "free table"]
  BY DEF Uncount, StoreInv, LastUnused
<1>2. /\ hdr[p].count \in Nat /\ hdr[p] \in Header /\ (p # Root => hdr[p].name \in StoredName)
      /\ frames \in Seq(Call) /\ k \in Nat /\ hdr[p].room \in Nat
  <2>1. hdr[p].count \in Nat /\ hdr[p].room \in Nat
    BY <1>1, HeaderFacts
  <2>2. hdr[p].count > 0
    BY <1>1
  <2>3. k \in Nat
    BY <2>1, <2>2
  <2>4. p \in Live
    BY <1>1
  <2> HIDE DEF k
  <2>5. hdr[p] \in Header /\ (p # Root => hdr[p].name \in StoredName)
    BY <2>4 DEF StoreInv, Types
  <2>6. frames \in Seq(Call)
    BY DEF StoreInv, Types
  <2> QED  BY <2>1, <2>3, <2>5, <2>6
<1>3. hdr' = [hdr EXCEPT ![p] = h]
  BY <1>1 DEF Live
<1>4. op' \in Operation /\ op'.do \in {"idle", "free table"}
  BY <1>1, IdleFacts DEF Operation, Steps
<1>5. /\ h \in Header /\ h.name = hdr[p].name /\ h.count = k /\ h.room = hdr[p].room
      /\ h.table = hdr[p].table
  BY <1>2 DEF Header
<1> HIDE DEF h
<1>6. /\ Types' /\ Live' = Live /\ hdr'[p] = h
      /\ \A n \in Live : n # p => hdr'[n] = hdr[n]
  <2>1. frames' \in Seq(Call)
    BY <1>1, <1>2
  <2> QED  BY <1>1, <1>2, <1>3, <1>4, <1>5, <2>1, OneHeader
<1> HIDE DEF k
<1>7. \A n \in Live : /\ TableOf(n)' = TableOf(n) /\ Size(n)' = Size(n)
                      /\ hdr'[n].table = hdr[n].table /\ hdr'[n].room = hdr[n].room
                      /\ hdr'[n].count <= hdr[n].count
                      /\ hdr'[n].count \in Nat
  <2> SUFFICES ASSUME NEW n \in Live
               PROVE  /\ TableOf(n)' = TableOf(n) /\ Size(n)' = Size(n)
                      /\ hdr'[n].table = hdr[n].table /\ hdr'[n].room = hdr[n].room
                      /\ hdr'[n].count <= hdr[n].count
                      /\ hdr'[n].count \in Nat
    OBVIOUS
  <2>1. /\ hdr[n].count \in Nat /\ op.do = "uncount" /\ op'.do \in {"idle", "free table"}
    BY <1>1, <1>4, HeaderFacts
  <2>2. /\ TableOf(n)' = hdr'[n].table /\ TableOf(n) = hdr[n].table
        /\ Size(n)' = hdr'[n].count
        /\ Size(n) = IF n = p THEN hdr[n].count - 1 ELSE hdr[n].count
    BY <2>1 DEF TableOf, Size
  <2>5. hdr[n].count \in Nat
    BY <2>1
  <2>3. CASE n = p
    <3>1. /\ hdr'[n].table = hdr[n].table /\ hdr'[n].room = hdr[n].room
          /\ hdr'[n].count = hdr[n].count - 1
      BY <2>3, <1>5, <1>6 DEF k
    <3>2. hdr[n].count - 1 \in Nat
      BY <2>3, <1>2 DEF k
    <3>3. TableOf(n)' = TableOf(n) /\ Size(n)' = Size(n)
      <4>1. TableOf(n)' = TableOf(n)
        BY <2>2, <3>1, Zenon
      <4>2. Size(n)' = Size(n)
        BY <2>2, <2>3, <3>1, Zenon
      <4> QED  BY <4>1, <4>2
    <3>4. hdr'[n].count <= hdr[n].count /\ hdr'[n].count \in Nat
      BY <2>5, <3>1, <3>2
    <3> QED  BY <3>1, <3>3, <3>4
  <2>4. CASE n # p
    <3>1. hdr'[n] = hdr[n]
      BY <2>4, <1>6
    <3>3. TableOf(n)' = TableOf(n) /\ Size(n)' = Size(n)
      <4>1. TableOf(n)' = TableOf(n)
        BY <2>2, <3>1, Zenon
      <4>2. Size(n)' = Size(n)
        BY <2>2, <2>4, <3>1, Zenon
      <4> QED  BY <4>1, <4>2
    <3>4. hdr'[n].count <= hdr[n].count /\ hdr'[n].count \in Nat
      BY <2>5, <3>1
    <3> QED  BY <3>1, <3>3, <3>4
  <2> QED  BY <2>3, <2>4
<1>11. \A n \in Live : hdr'[n].name = hdr[n].name
  BY <1>5, <1>6
<1>8. view' = view
  BY <1>6, <1>7 DEF view
<1>9. Rooms'
  <2> SUFFICES ASSUME NEW n \in Live
               PROVE  /\ hdr'[n].count <= hdr'[n].room /\ hdr'[n].room # 1
                      /\ hdr'[n].table # Freed => Len(hdr'[n].table) = hdr'[n].room
                      /\ hdr'[n].table # Freed
                      /\ \A i \in 1 .. Size(n)' : TableOf(n)'[i] \in Entry
    BY <1>6 DEF Rooms
  <2>1. hdr'[n].count \in Nat /\ hdr[n].count \in Nat /\ hdr[n].room \in Nat
    BY <1>7, HeaderFacts
  <2>2. op.do = "uncount"
    BY <1>1
  <2> QED  BY <2>1, <2>2, <1>7 DEF StoreInv, Rooms
<1>10. StoreInv'
  BY <1>4, <1>6, <1>9 DEF StoreInv, RoomForEntry, LastUnused, Adding
<1> QED  BY <1>6, <1>8, <1>10, <1>11

\* The table and then the header of a node that lists nobody are freed.
LEMMA FreeTableStore ==
  ASSUME StoreInv, FreeTable, frames # <<>>, Top.id \in Live, Len(view[Top.id]) = 0
  PROVE  StoreInv' /\ view' = view /\ Live' = Live /\ \A n \in Live : hdr'[n].name = hdr[n].name
<1> DEFINE p == Top.id
           h == [hdr[p] EXCEPT !.table = Freed]
<1>1. /\ op.do = "free table" /\ frames' = frames /\ Top' = Top
      /\ hdr' = IF hdr[p].room > 0 THEN [hdr EXCEPT ![p].table = Freed] ELSE hdr
      /\ op' = [Idle EXCEPT !.do = "free header"]
  BY DEF FreeTable, Top
<1>2. /\ hdr[p] \in Header /\ (p # Root => hdr[p].name \in StoredName)
      /\ frames \in Seq(Call)
  BY DEF StoreInv, Types
<1>3. op' \in Operation /\ op'.do = "free header"
  BY <1>1, IdleFacts DEF Operation, Steps
<1>4. /\ h \in Header /\ h.name = hdr[p].name /\ h.count = hdr[p].count
      /\ h.room = hdr[p].room /\ h.table = Freed
  BY <1>2, HeaderFields
<1>5. hdr[p].count = 0
  <2>1. Size(p) = hdr[p].count
    BY <1>1 DEF Size
  <2> QED  BY <2>1, ViewFacts
<1>6. /\ Types' /\ Live' = Live /\ \A n \in Live : n # p => hdr'[n] = hdr[n]
      /\ hdr'[p].name = hdr[p].name /\ hdr'[p].count = hdr[p].count
      /\ hdr'[p].room = hdr[p].room
      /\ hdr'[p].table = Freed \/ hdr'[p].table = hdr[p].table
  <2>1. CASE hdr[p].room > 0
    <3>1. hdr' = [hdr EXCEPT ![p] = h]
      BY <1>1, <2>1 DEF Live
    <3> HIDE DEF h
    <3>2. frames' \in Seq(Call)
      BY <1>1, <1>2
    <3>3. /\ Types' /\ Live' = Live /\ hdr'[p] = h
          /\ \A n \in Live : n # p => hdr'[n] = hdr[n]
      BY <1>2, <1>3, <1>4, <3>1, <3>2, OneHeader
    <3> QED  BY <3>3, <1>4
  <2>2. CASE ~(hdr[p].room > 0)
    BY <2>2, <1>1, <1>3 DEF StoreInv, Types, Live
  <2> QED  BY <2>1, <2>2
<1>7. /\ \A n \in Live : Size(n)' = Size(n) /\ \A i \in 1 .. Size(n) : TableOf(n)'[i] = TableOf(n)[i]
      /\ \A n \in Live : hdr'[n].name = hdr[n].name
  <2> SUFFICES ASSUME NEW n \in Live
               PROVE  /\ Size(n)' = Size(n) /\ \A i \in 1 .. Size(n) : TableOf(n)'[i] = TableOf(n)[i]
                      /\ hdr'[n].name = hdr[n].name
    OBVIOUS
  <2>1. CASE n = p
    <3>1. Size(n)' = 0 /\ Size(n) = 0
      BY <2>1, <1>1, <1>3, <1>5, <1>6 DEF Size
    <3> QED  BY <2>1, <3>1, <1>6
  <2>2. CASE n # p
    <3>1. op.do = "free table" /\ op'.do = "free header" /\ hdr'[n] = hdr[n]
      BY <2>2, <1>1, <1>3, <1>6
    <3> QED  BY <3>1 DEF Size, TableOf
  <2> QED  BY <2>1, <2>2
<1>8. view' = view
  BY <1>6, <1>7 DEF view
<1>9. Rooms'
  <2> SUFFICES ASSUME NEW n \in Live
               PROVE  /\ hdr'[n].count <= hdr'[n].room /\ hdr'[n].room # 1
                      /\ hdr'[n].table # Freed => Len(hdr'[n].table) = hdr'[n].room
                      /\ hdr'[n].table = Freed => n = Top.id /\ hdr'[n].count = 0
                      /\ \A i \in 1 .. Size(n)' : TableOf(n)'[i] \in Entry
    BY <1>1, <1>3, <1>6 DEF Rooms
  <2>1. \A i \in 1 .. Size(n)' : TableOf(n)'[i] \in Entry
    BY <1>7, ZenonT(30) DEF StoreInv, Rooms
  <2>2. CASE n = p
    BY <2>1, <2>2, <1>1, <1>5, <1>6 DEF StoreInv, Rooms
  <2>3. CASE n # p
    BY <2>1, <2>3, <1>1, <1>6 DEF StoreInv, Rooms
  <2> QED  BY <2>2, <2>3
<1>10. StoreInv'
  BY <1>3, <1>6, <1>9 DEF StoreInv, RoomForEntry, LastUnused, Adding
<1> QED  BY <1>6, <1>7, <1>8, <1>10

\* A header that is freed: the others keep theirs.
LEMMA FreeHeaderStore ==
  ASSUME StoreInv, FreeHeader, frames # <<>>, Top.id \in Live, Top.id # Root
  PROVE  /\ StoreInv' /\ Live' = Live \ {Top.id}
         /\ \A n \in Live' : hdr'[n] = hdr[n] /\ view'[n] = view[n]
<1>1. /\ op.do = "free header" /\ frames' = Popped
      /\ hdr' = [n \in Live \ {Top.id} |-> hdr[n]]
      /\ op' = IF Popped = <<>> THEN Idle ELSE [Idle EXCEPT !.do = "children"]
  BY DEF FreeHeader
<1>2. op' \in Operation /\ op'.do \in {"idle", "children"}
  BY <1>1, IdleFacts DEF Operation, Steps
<1>3. Live' = Live \ {Top.id} /\ \A n \in Live' : hdr'[n] = hdr[n]
  BY <1>1 DEF Live
<1>4. Types'
  <2>1. hdr' \in [Live' -> Header]
    BY <1>1, <1>3 DEF StoreInv, Types
  <2>2. frames' \in Seq(Call)
    BY <1>1, FrameFacts
  <2> QED  BY <1>2, <1>3, <2>1, <2>2 DEF StoreInv, Types
<1>5. \A n \in Live' : Size(n)' = Size(n) /\ TableOf(n)' = TableOf(n)
  BY <1>1, <1>2, <1>3 DEF Size, TableOf
<1>6. \A n \in Live' : view'[n] = view[n]
  BY <1>3, <1>5 DEF view
<1>7. Rooms'
  BY <1>1, <1>3, <1>5 DEF StoreInv, Rooms
<1>8. StoreInv'
  BY <1>2, <1>4, <1>7 DEF StoreInv, RoomForEntry, LastUnused, Adding
<1> QED  BY <1>3, <1>6, <1>8

\* A new name in a header changes no list.
LEMMA PutNameStore ==
  ASSUME StoreInv, NEW p \in Node, NEW c \in Node, NEW name \in StoredName, PutName(p, c, name)
  PROVE  /\ StoreInv' /\ view' = view /\ Live' = Live /\ p \in Live /\ c \in Live
         /\ hdr'[c].name = name /\ \A n \in Live : n # c => hdr'[n].name = hdr[n].name
<1> DEFINE h == [hdr[c] EXCEPT !.name = name]
<1>1. /\ op = Idle /\ p \in Live /\ c \in Live /\ frames' = frames
      /\ hdr' = [hdr EXCEPT ![c].name = name]
      /\ op' = [Idle EXCEPT !.do = "rename", !.parent = p, !.child = c]
  BY DEF PutName
<1>2. hdr[c] \in Header /\ frames \in Seq(Call)
  BY <1>1 DEF StoreInv, Types
<1>3. op' \in Operation /\ op'.do = "rename" /\ op.do = "idle"
  BY <1>1, IdleFacts DEF Operation, Steps
<1>4. /\ h \in Header /\ h.name = name /\ h.count = hdr[c].count
      /\ h.room = hdr[c].room /\ h.table = hdr[c].table
  BY <1>2 DEF Header
<1>5. hdr' = [hdr EXCEPT ![c] = h]
  BY <1>1 DEF Live
<1> HIDE DEF h
<1>6. /\ Types' /\ Live' = Live /\ hdr'[c] = h
      /\ \A n \in Live : n # c => hdr'[n] = hdr[n]
  <2>1. frames' \in Seq(Call)
    BY <1>1, <1>2
  <2> QED  BY <1>1, <1>3, <1>4, <1>5, <2>1, OneHeader
<1>7. \A n \in Live : /\ Size(n)' = Size(n) /\ TableOf(n)' = TableOf(n)
                      /\ hdr'[n].count = hdr[n].count /\ hdr'[n].room = hdr[n].room
                      /\ hdr'[n].table = hdr[n].table
  BY <1>3, <1>4, <1>6 DEF Size, TableOf
<1>8. view' = view
  BY <1>6, <1>7 DEF view
<1>9. Rooms'
  BY <1>3, <1>6, <1>7 DEF StoreInv, Rooms
<1>10. StoreInv'
  BY <1>3, <1>6, <1>9 DEF StoreInv, RoomForEntry, LastUnused, Adding
<1> QED  BY <1>1, <1>4, <1>6, <1>8, <1>10

Renamed(t, c, m) ==
  [i \in DOMAIN t |-> IF t[i].child = c THEN [t[i] EXCEPT !.name = m] ELSE t[i]]

\* A table with a renamed entry has the same children.
LEMMA RenamedFacts ==
  ASSUME NEW t \in Table, NEW c \in Node, NEW m \in StoredName
  PROVE  /\ Renamed(t, c, m) \in Table /\ Len(Renamed(t, c, m)) = Len(t)
         /\ \A i \in 1 .. Len(t) :
              Renamed(t, c, m)[i] = IF t[i].child = c THEN [name |-> m, child |-> c] ELSE t[i]
<1>1. \A i \in 1 .. Len(t) : t[i] \in Entry \cup {Unused}
  BY DEF Table
<1>2. \A i \in 1 .. Len(t) : t[i].child = c => t[i] \in Entry
  <2>1. Unused.child = Nobody
    BY DEF Unused
  <2> QED  BY <1>1, <2>1, TreeAssumption
<1>3. \A e \in Entry : e.child = c => [e EXCEPT !.name = m] = [name |-> m, child |-> c]
  BY DEF Entry
<1>4. DOMAIN t = 1 .. Len(t)
  BY DEF Table
<1>5. \A i \in 1 .. Len(t) :
        Renamed(t, c, m)[i] = IF t[i].child = c THEN [name |-> m, child |-> c] ELSE t[i]
  BY <1>2, <1>3, <1>4 DEF Renamed
<1>6. [name |-> m, child |-> c] \in Entry
  BY DEF Entry
<1>7. Renamed(t, c, m) = [i \in 1 .. Len(t) |-> Renamed(t, c, m)[i]] /\ Len(t) \in Nat
  BY <1>4 DEF Renamed, Table
<1>8. \A i \in 1 .. Len(t) : Renamed(t, c, m)[i] \in Entry \cup {Unused}
  BY <1>1, <1>5, <1>6
<1> QED  BY <1>5, <1>7, <1>8 DEF Table

\* The entry of the node gets the name the header has.
LEMMA RenameStore ==
  ASSUME StoreInv, RenameEntry, op.parent \in Live, op.child \in Live \ {Root}
  PROVE  LET p == op.parent
             c == op.child
         IN /\ StoreInv' /\ Live' = Live /\ \A n \in Live : hdr'[n].name = hdr[n].name
            /\ \A n \in Live : n # p => view'[n] = view[n]
            /\ Len(view'[p]) = Len(view[p])
            /\ \A i \in 1 .. Len(view[p]) :
                 view'[p][i] = IF view[p][i].child = c
                               THEN [name |-> hdr[c].name, child |-> c] ELSE view[p][i]
<1> DEFINE p == op.parent
           c == op.child
           t == hdr[p].table
           w == Renamed(t, c, hdr[c].name)
           h == [hdr[p] EXCEPT !.table = w]
<1>1. op.do = "rename" /\ p \in Live /\ frames' = frames /\ op' = Idle
  BY DEF RenameEntry
<1>2. /\ t \in Table /\ t # Freed /\ hdr[p] \in Header
      /\ (p # Root => hdr[p].name \in StoredName) /\ frames \in Seq(Call)
  <2>1. t \in Table \cup {Freed}
    BY HeaderFacts
  <2>2. t # Freed
    BY <1>1 DEF StoreInv, Rooms
  <2> QED  BY <2>1, <2>2, <1>1 DEF StoreInv, Types
<1>3. c \in Node /\ hdr[c].name \in StoredName
  BY HeaderFacts
<1>4. hdr' = [hdr EXCEPT ![p] = h]
  BY <1>1 DEF RenameEntry, Renamed, Live
<1>5. /\ w \in Table /\ Len(w) = Len(t)
      /\ \A i \in 1 .. Len(t) : w[i] = IF t[i].child = c THEN [name |-> hdr[c].name, child |-> c] ELSE t[i]
  <2> HIDE DEF t, c
  <2> QED  BY <1>2, <1>3, RenamedFacts
<1> HIDE DEF w
<1>6. /\ h \in Header /\ h.name = hdr[p].name /\ h.count = hdr[p].count
      /\ h.room = hdr[p].room /\ h.table = w
  <2>1. w \in Table \cup {Freed}
    BY <1>5
  <2> QED  BY <1>2, <2>1, HeaderFields
<1> HIDE DEF h
<1>7. op' \in Operation /\ op'.do = "idle"
  BY <1>1, IdleFacts
<1>8. /\ Types' /\ Live' = Live /\ hdr'[p] = h
      /\ \A n \in Live : n # p => hdr'[n] = hdr[n]
  <2>1. frames' \in Seq(Call)
    BY <1>1, <1>2
  <2> QED  BY <1>1, <1>2, <1>4, <1>6, <1>7, <2>1, OneHeader
<1>9. \A n \in Live : /\ TableOf(n)' = hdr'[n].table /\ TableOf(n) = hdr[n].table
                      /\ Size(n) = hdr[n].count /\ Size(n)' = hdr'[n].count
  BY <1>1, <1>7 DEF TableOf, Size
<1>10. /\ hdr[p].count \in Nat /\ hdr[p].count <= hdr[p].room /\ hdr[p].room \in Nat
       /\ hdr[p].room # 1 /\ Len(t) = hdr[p].room
       /\ \A i \in 1 .. hdr[p].count : t[i] \in Entry
  <2>1. hdr[p].count \in Nat /\ hdr[p].room \in Nat
    BY HeaderFacts
  <2>2. hdr[p].count <= hdr[p].room /\ hdr[p].room # 1 /\ Len(t) = hdr[p].room
    BY <1>2 DEF StoreInv, Rooms
  <2>3. \A i \in 1 .. Size(p) : TableOf(p)[i] \in Entry
    BY DEF StoreInv, Rooms
  <2> QED  BY <1>9, <2>1, <2>2, <2>3
<1> DEFINE k == hdr[p].count
<1>11. \A i \in 1 .. k : i \in 1 .. Len(t)
  BY <1>10
<1>12. \A i \in 1 .. k : w[i] \in Entry
  <2>1. [name |-> hdr[c].name, child |-> c] \in Entry
    BY <1>3 DEF Entry
  <2> QED  BY <1>5, <1>10, <1>11, <2>1
<1>13. Rooms'
  <2> SUFFICES ASSUME NEW n \in Live
               PROVE  /\ hdr'[n].count <= hdr'[n].room /\ hdr'[n].room # 1
                      /\ hdr'[n].table # Freed => Len(hdr'[n].table) = hdr'[n].room
                      /\ hdr'[n].table # Freed
                      /\ \A i \in 1 .. Size(n)' : TableOf(n)'[i] \in Entry
    BY <1>8 DEF Rooms
  <2>1. CASE n = p
    <3>1. Size(n)' = k /\ TableOf(n)' = w
      BY <2>1, <1>6, <1>8, <1>9
    <3>2. hdr'[n].count = k /\ hdr'[n].room = hdr[p].room /\ hdr'[n].table = w
      BY <2>1, <1>6, <1>8
    <3> QED  BY <3>1, <3>2, <1>5, <1>10, <1>12, UnusedFacts
  <2>2. CASE n # p
    BY <2>2, <1>1, <1>8, <1>9 DEF StoreInv, Rooms
  <2> QED  BY <2>1, <2>2
<1>14. StoreInv'
  BY <1>7, <1>8, <1>13 DEF StoreInv, RoomForEntry, LastUnused, Adding
<1>15. \A n \in Live : n # p => view'[n] = view[n]
  BY <1>8, <1>9 DEF view
<1>16. Len(view[p]) = k /\ Len(view'[p]) = k
  BY <1>1, <1>6, <1>8, <1>9, <1>14, ViewFacts, ViewFacts2
<1>17. \A i \in 1 .. k : view'[p][i] = w[i] /\ view[p][i] = t[i]
  BY <1>1, <1>6, <1>8, <1>9 DEF view
<1>18. \A i \in 1 .. k : view'[p][i] = IF view[p][i].child = c
                                       THEN [name |-> hdr[c].name, child |-> c] ELSE view[p][i]
  BY <1>5, <1>11, <1>17
<1>19. \A n \in Live : hdr'[n].name = hdr[n].name
  BY <1>6, <1>8
<1> QED  BY <1>8, <1>14, <1>15, <1>16, <1>18, <1>19

-----------------------------------------------------------------------------
(* What every step does to who is listed where.                            *)

\* While no table is on its way to disk the code reads the lists.
LEMMA TableIsList ==
  ASSUME StoreInv, op.do \notin {"enter", "count", "uncount"}, NEW n \in Live
  PROVE  /\ \A m : Found(n, m) <=> ~NameFree(n, m)
         /\ \A c : IsChild(n, c) <=> Lists(n, c)
<1>1. Len(view[n]) = hdr[n].count /\ \A i \in 1 .. hdr[n].count : view[n][i] = hdr[n].table[i]
  <2>1. Size(n) = hdr[n].count /\ TableOf(n) = hdr[n].table
    BY DEF Size, TableOf
  <2> QED  BY <2>1, ViewFacts
<1>2. Entries(n) = {view[n][i] : i \in 1 .. Len(view[n])}
  BY <1>1 DEF Entries
<1> QED  BY <1>2 DEF Found, IsChild, NameFree, Lists

\* Nothing is to be said of the calls of ADF_Delete when there are none.
LEMMA NoCalls == frames = <<>> => DeleteGoesOn
<1> SUFFICES ASSUME frames = <<>> PROVE DeleteGoesOn
  OBVIOUS
<1>1. \A k : k \notin 1 .. Len(frames)
  OBVIOUS
<1> QED  BY <1>1 DEF DeleteGoesOn

\* The same after a step.
LEMMA NoCalls2 == frames' = <<>> => DeleteGoesOn'
<1>1. (frames = <<>>)' => DeleteGoesOn'
  BY NoCalls, PTL
<1> QED  BY <1>1

\* A step that changes neither the lists nor the names.
LEMMA SameLists ==
  ASSUME StoreInv, Leads, Once, Listed, op.do # "rename", ~Dropping,
         view' = view, Live' = Live, \A n \in Live : hdr'[n].name = hdr[n].name,
         \A c \in Live \ {Root} : Unlisted(c)' <=> Unlisted(c)
  PROVE  /\ Leads' /\ Once' /\ Listed'
         /\ \A n, c : Lists(n, c)' <=> Lists(n, c)
         /\ \A n, m : NameFree(n, m)' <=> NameFree(n, m)
<1>1. /\ \A n, c : Lists(n, c)' <=> Lists(n, c)
      /\ \A n, m : NameFree(n, m)' <=> NameFree(n, m)
  BY DEF Lists, NameFree
<1>2. Leads'
  BY DEF Leads
<1>3. Once'
  BY DEF Once
<1>4. Listed'
  BY <1>1 DEF Listed
<1> QED  BY <1>1, <1>2, <1>3, <1>4

\* ADF_Create and ADF_Move_Child on their way to the entry that counts.
LEMMA AddingLists ==
  ASSUME StoreInv, ListInv, Grow \/ Enter
  PROVE  ListInv'
<1>1. /\ view' = view /\ Live' = Live /\ \A n \in Live : hdr'[n].name = hdr[n].name
  BY GrowStore, EnterStore
<1>2. /\ op.do \in {"grow", "enter"} /\ op'.do \in {"enter", "count"} /\ frames' = frames
      /\ op'.parent = op.parent /\ op'.child = op.child /\ op'.from = op.from
  <2>1. op \in Operation
    BY DEF StoreInv, Types
  <2> QED  BY <2>1 DEF Grow, Enter, Operation
<1>3. Adding /\ Adding' /\ ~Dropping /\ ~Dropping' /\ frames = <<>> /\ op.do # "rename"
  BY <1>2 DEF Adding, Dropping, ListInv, Running
<1>4. \A c \in Live \ {Root} : Unlisted(c)' <=> Unlisted(c)
  BY <1>2, <1>3 DEF Unlisted
<1>5. /\ Leads' /\ Once' /\ Listed'
      /\ \A n, c : Lists(n, c)' <=> Lists(n, c)
      /\ \A n, m : NameFree(n, m)' <=> NameFree(n, m)
  BY <1>1, <1>3, <1>4, SameLists DEF ListInv
<1>6. Running'
  BY <1>2, <1>3 DEF Running
<1>7. AddGoesOn'
  <2>1. op.child \in Live
    BY <1>3 DEF StoreInv, RoomForEntry
  <2>2. /\ op.parent # op.child
        /\ op.from # op.parent => NameFree(op.parent, hdr[op.child].name)
        /\ op.from # Nobody => op.from \in Live /\ Lists(op.from, op.child)
    BY <1>3 DEF ListInv, AddGoesOn
  <2>3. /\ NameFree(op.parent, hdr[op.child].name)' <=> NameFree(op.parent, hdr[op.child].name)
        /\ Lists(op.from, op.child)' <=> Lists(op.from, op.child)
    BY <1>1, <1>2, <2>1 DEF NameFree, Lists
  <2> QED  BY <1>1, <1>2, <2>2, <2>3 DEF AddGoesOn
<1>8. MoveGoesOn' /\ RenameGoesOn' /\ DeleteGoesOn'
  BY <1>2, <1>3, NoCalls2 DEF MoveGoesOn, RenameGoesOn
<1> QED  BY <1>5, <1>6, <1>7, <1>8 DEF ListInv

\* Between two operations nobody is added, dropped or missing.
LEMMA IdleState ==
  ASSUME ListInv, op = Idle
  PROVE  /\ op.do = "idle" /\ frames = <<>> /\ op.from = Nobody
         /\ ~Adding /\ ~Dropping /\ \A c : ~Unlisted(c)
<1>1. op.do = "idle" /\ op.from = Nobody
  BY DEF Idle
<1>2. frames = <<>>
  BY <1>1 DEF ListInv, Running
<1> QED  BY <1>1, <1>2 DEF Adding, Dropping, Unlisted

\* Create keeps the lists of children.
LEMMA CreateLists ==
  ASSUME StoreInv, ListInv, NEW p \in Node, NEW n \in Node, NEW name \in StoredName,
         Create(p, n, name)
  PROVE  ListInv'
<1>1. /\ n \notin Live /\ n # p /\ n # Root /\ p \in Live
      /\ Live' = Live \cup {n} /\ hdr'[n].name = Bare(name) /\ Len(view'[n]) = 0
      /\ \A x \in Live : hdr'[x] = hdr[x] /\ view'[x] = view[x]
  BY CreateStore
<1>2. /\ op = Idle /\ frames' = frames /\ op' = Add(p, n, Nobody) /\ ~Found(p, Bare(name))
  BY DEF Create
<1>3. /\ op.do = "idle" /\ frames = <<>> /\ ~Adding /\ ~Dropping /\ \A c : ~Unlisted(c)
  BY <1>2, IdleState
<1>4. /\ op'.do \in {"grow", "enter"} /\ op'.parent = p /\ op'.child = n /\ op'.from = Nobody
  BY <1>2, AddFacts
<1>5. Adding' /\ ~Dropping' /\ \A c : Unlisted(c)' <=> c = n
  BY <1>2, <1>3, <1>4 DEF Adding, Dropping, Unlisted
<1>6. \A x \in Live : \A c : Lists(x, c)' <=> Lists(x, c)
  BY <1>1 DEF Lists
<1>7. \A c : ~Lists(n, c)'
  BY <1>1 DEF Lists
<1>8. Leads'
  BY <1>1, <1>3 DEF ListInv, Leads
<1>9. Once'
  BY <1>1, <1>3 DEF ListInv, Once
<1>10. Listed'
  <2>1. \A x \in Live : ~Lists(x, n)
    BY <1>1 DEF Lists, ListInv, Leads
  <2> QED  BY <1>1, <1>3, <1>5, <1>6, <1>7, <2>1 DEF ListInv, Listed
<1>11. Running'
  BY <1>2, <1>3, <1>4, <1>5 DEF Running
<1>12. AddGoesOn'
  <2>1. NameFree(p, Bare(name))
    BY <1>1, <1>2, <1>3, TableIsList
  <2>2. NameFree(op.parent, hdr[op.child].name)'
    BY <1>1, <1>4, <2>1 DEF NameFree
  <2> QED  BY <1>1, <1>4, <2>2 DEF AddGoesOn
<1>13. MoveGoesOn' /\ RenameGoesOn' /\ DeleteGoesOn'
  BY <1>2, <1>3, <1>4, <1>5, NoCalls2 DEF MoveGoesOn, RenameGoesOn
<1> QED  BY <1>8, <1>9, <1>10, <1>11, <1>12, <1>13 DEF ListInv

\* MoveChild keeps the lists of children.
LEMMA MoveChildLists ==
  ASSUME StoreInv, ListInv, ~AnyMove, NEW p \in Node, NEW c \in Node, NEW q \in Node,
         MoveChild(p, c, q)
  PROVE  /\ StoreInv' /\ ListInv' /\ view' = view /\ Live' = Live /\ ~Dropping /\ ~Dropping'
         /\ q \notin Below(c) /\ op'.do \in {"grow", "enter"}
         /\ op'.parent = q /\ op'.child = c /\ op'.from = p
<1>1. /\ op = Idle /\ p \in Live /\ c \in Live /\ q \in Live /\ hdr' = hdr /\ frames' = frames
      /\ op' = Add(q, c, p) /\ IsChild(p, c) /\ q \notin Below(c)
      /\ q = p \/ ~Found(q, hdr[c].name)
  BY DEF MoveChild, Proper
<1>2. /\ op.do = "idle" /\ frames = <<>> /\ ~Adding /\ ~Dropping /\ \A x : ~Unlisted(x)
  BY <1>1, IdleState
<1>3. /\ op' \in Operation /\ op'.do \in {"grow", "enter"} /\ op'.parent = q /\ op'.child = c
      /\ op'.from = p /\ op'.table = <<>>
      /\ op'.do = IF hdr[q].room <= hdr[q].count THEN "grow" ELSE "enter"
  BY <1>1, AddFacts DEF Full
<1>4. Lists(p, c) /\ (q # p => NameFree(q, hdr[c].name))
  BY <1>1, <1>2, TableIsList
<1>5. c \in Live \ {Root} /\ q # c
  <2>1. c # Root
    BY <1>1, <1>4 DEF ListInv, Leads, Lists
  <2>2. c \in Below(c)
    BY DEF Below
  <2> QED  BY <1>1, <2>1, <2>2
<1>6. RoomForEntry'
  <2>1. hdr[q].count \in Nat /\ hdr[q].room \in Nat
    BY <1>1, HeaderFacts
  <2>2. op'.parent \in Live' /\ op'.child \in Live' \ {Root}
    BY <1>1, <1>3, <1>5 DEF Live
  <2>3. op'.do = "enter" => hdr'[q].count < hdr'[q].room
    BY <1>1, <1>3, <2>1
  <2>4. op'.do = "grow" => hdr'[q].room <= hdr'[q].count
    BY <1>1, <1>3
  <2> QED  BY <1>3, <2>2, <2>3, <2>4 DEF RoomForEntry, Full
<1>7. StoreInv' /\ view' = view /\ Live' = Live
  <2>1. frames' \in Seq(Call)
    BY <1>1 DEF StoreInv, Types
  <2> QED  BY <1>1, <1>2, <1>3, <1>6, <2>1, QuietStore
<1>8. Adding' /\ ~Dropping' /\ \A x : ~Unlisted(x)'
  <2>1. p # Nobody
    BY TreeAssumption
  <2> QED  BY <2>1, <1>1, <1>2, <1>3 DEF Adding, Dropping, Unlisted
<1>9. /\ Leads' /\ Once' /\ Listed'
      /\ \A n, x : Lists(n, x)' <=> Lists(n, x)
      /\ \A n, m : NameFree(n, m)' <=> NameFree(n, m)
  BY <1>1, <1>2, <1>7, <1>8, SameLists DEF ListInv
<1>10. Running'
  BY <1>1, <1>2, <1>3, <1>8 DEF Running
<1>11. AddGoesOn'
  <2>1. q # p => NameFree(op.parent, hdr[op.child].name)'
    BY <1>1, <1>3, <1>4, <1>7 DEF NameFree
  <2>2. Lists(op.from, op.child)'
    BY <1>3, <1>4, <1>7 DEF Lists
  <2> QED  BY <1>1, <1>3, <1>5, <1>7, <2>1, <2>2 DEF AddGoesOn
<1>12. MoveGoesOn' /\ RenameGoesOn' /\ DeleteGoesOn'
  BY <1>1, <1>2, <1>3, <1>8, NoCalls2 DEF MoveGoesOn, RenameGoesOn
<1> QED
  BY <1>1, <1>2, <1>3, <1>7, <1>8, <1>9, <1>10, <1>11, <1>12 DEF ListInv

\* Where an entry of the longer list of p comes from.
Appended(p, e) ==
  /\ Len(view'[p]) = Len(view[p]) + 1
  /\ \A i \in 1 .. Len(view[p]) : view'[p][i] = view[p][i]
  /\ view'[p][Len(view[p]) + 1] = e

\* Count keeps the lists of children.
LEMMA CountLists ==
  ASSUME StoreInv, ListInv, Count
  PROVE  /\ ListInv' /\ ~Dropping /\ frames' = frames /\ frames = <<>>
         /\ (op.from = Nobody => op' = Idle)
         /\ (op.from # Nobody => Dropping' /\ op'.parent = op.from /\ op'.child = op.child)
         /\ Appended(op.parent, [name |-> hdr[op.child].name, child |-> op.child])
<1> DEFINE p == op.parent
           c == op.child
           sz == Len(view[p])
           e == [name |-> hdr[c].name, child |-> c]
<1>1. /\ Live' = Live /\ \A n \in Live : hdr'[n].name = hdr[n].name
      /\ p \in Live /\ c \in Live \ {Root} /\ sz \in Nat
      /\ \A n \in Live : n # p => view'[n] = view[n]
      /\ Len(view'[p]) = sz + 1
      /\ \A i \in 1 .. sz : view'[p][i] = view[p][i]
      /\ view'[p][sz + 1] = e
  BY CountStore
<1>2. /\ op.do = "count" /\ frames' = frames
      /\ op' = IF op.from = Nobody THEN Idle
               ELSE [Idle EXCEPT !.do = "drop", !.parent = op.from, !.child = op.child]
  BY DEF Count
<1>3. Adding /\ ~Dropping /\ frames = <<>>
  BY <1>2 DEF Adding, Dropping, ListInv, Running
<1>4. /\ p # c
      /\ op.from # p => NameFree(p, hdr[c].name)
      /\ op.from # Nobody => op.from \in Live /\ Lists(op.from, c)
  BY <1>3 DEF ListInv, AddGoesOn
<1>5. /\ op.from = Nobody => op' = Idle /\ op'.do = "idle" /\ op'.from = Nobody
      /\ op.from # Nobody => op'.do = "drop" /\ op'.parent = op.from /\ op'.child = c /\ op'.from = Nobody
  BY <1>2 DEF Idle
<1>6. /\ Dropping' <=> op.from # Nobody
      /\ \A x : ~Unlisted(x)'
      /\ \A x : Unlisted(x) <=> op.from = Nobody /\ x = c
  BY <1>2, <1>3, <1>5 DEF Dropping, Unlisted, Adding
<1>7. /\ \A n \in Live : Len(view[n]) \in Nat
      /\ e.child = c /\ e.name = hdr[c].name
  BY ViewFacts
<1> HIDE DEF e
<1>8. \A n \in Live : \A i \in 1 .. Len(view'[n]) :
        \/ i \in 1 .. Len(view[n]) /\ view'[n][i] = view[n][i]
        \/ n = p /\ i = sz + 1 /\ view'[n][i] = e
  <2> SUFFICES ASSUME NEW n \in Live, NEW i \in 1 .. Len(view'[n])
               PROVE  \/ i \in 1 .. Len(view[n]) /\ view'[n][i] = view[n][i]
                      \/ n = p /\ i = sz + 1 /\ view'[n][i] = e
    OBVIOUS
  <2>1. CASE n = p
    <3>1. i \in 1 .. sz \/ i = sz + 1
      BY <2>1, <1>1
    <3> QED  BY <2>1, <3>1, <1>1
  <2>2. CASE n # p
    BY <2>2, <1>1
  <2> QED  BY <2>1, <2>2
<1>9. \A n \in Live : \A i \in 1 .. Len(view[n]) : i \in 1 .. Len(view'[n]) /\ view'[n][i] = view[n][i]
  <2> SUFFICES ASSUME NEW n \in Live, NEW i \in 1 .. Len(view[n])
               PROVE  i \in 1 .. Len(view'[n]) /\ view'[n][i] = view[n][i]
    OBVIOUS
  <2>1. CASE n = p
    BY <2>1, <1>1
  <2>2. CASE n # p
    BY <2>2, <1>1
  <2> QED  BY <2>1, <2>2
<1>10. \A n \in Live : \A x : Lists(n, x)' <=> (Lists(n, x) \/ (n = p /\ x = c))
  <2>1. sz + 1 \in 1 .. Len(view'[p])
    BY <1>1
  <2> QED  BY <1>1, <1>7, <1>8, <1>9, <2>1, ZenonT(30) DEF Lists
<1>11. Leads'
  <2>1. op.do # "rename"
    BY <1>2
  <2> SUFFICES ASSUME NEW n \in Live, NEW i \in 1 .. Len(view'[n])
               PROVE  /\ view'[n][i].child \in Live \ {Root}
                      /\ view'[n][i].name = hdr'[view'[n][i].child].name
    BY <1>1 DEF Leads
  <2>2. CASE i \in 1 .. Len(view[n]) /\ view'[n][i] = view[n][i]
    BY <2>1, <2>2, <1>1 DEF ListInv, Leads
  <2>3. CASE view'[n][i] = e
    BY <2>3, <1>1, <1>7
  <2> QED  BY <2>2, <2>3, <1>8
<1>12. op.from = Nobody => \A n \in Live : \A i \in 1 .. Len(view[n]) : view[n][i].child # c
  BY <1>1, <1>6 DEF ListInv, Listed, Lists
<1>13. Once'
  <2> SUFFICES ASSUME NEW n \in Live, NEW m \in Live,
                      NEW i \in 1 .. Len(view'[n]), NEW j \in 1 .. Len(view'[m]),
                      view'[n][i].child = view'[m][j].child,
                      ~(n = m /\ i = j)
               PROVE  Dropping' /\ view'[n][i].child = op'.child
    BY <1>1 DEF Once
  <2>1. \/ i \in 1 .. Len(view[n]) /\ view'[n][i] = view[n][i]
        \/ n = p /\ i = sz + 1 /\ view'[n][i] = e
    BY <1>8
  <2>2. \/ j \in 1 .. Len(view[m]) /\ view'[m][j] = view[m][j]
        \/ m = p /\ j = sz + 1 /\ view'[m][j] = e
    BY <1>8
  <2>3. ~(i \in 1 .. Len(view[n]) /\ j \in 1 .. Len(view[m])
            /\ view'[n][i] = view[n][i] /\ view'[m][j] = view[m][j])
    BY <1>3, SMTT(30) DEF ListInv, Once
  <2>4. view'[n][i].child = c
    BY <2>1, <2>2, <2>3, <1>7
  <2>5. op.from # Nobody
    BY <2>1, <2>2, <2>3, <2>4, <1>7, <1>12
  <2> QED  BY <2>4, <2>5, <1>5, <1>6
<1>14. Listed'
  BY <1>1, <1>6, <1>10 DEF ListInv, Listed
<1>15. Running'
  BY <1>2, <1>3, <1>5 DEF Running, Adding
<1>16. MoveGoesOn'
  <2> SUFFICES ASSUME op.from # Nobody
               PROVE  \E q \in Live : \E i, j \in Nat : TwoEntries(q, i, j)'
    BY <1>1, <1>6 DEF MoveGoesOn
  <2>1. PICK i \in 1 .. Len(view[op.from]) : view[op.from][i].child = c
    BY <1>4 DEF Lists
  <2>2. \A n \in Live : \A k \in 1 .. Len(view[n]) :
          view[n][k].child = c => n = op.from /\ k = i
    BY <2>1, <1>3, <1>4 DEF ListInv, Once
  <2>8. PICK q \in Live : q = p
    BY <1>1
  <2>9. PICK j \in Nat : j = sz + 1
    BY <1>1
  <2>3. i \in Nat /\ j \in Nat /\ j \in 1 .. Len(view'[q]) /\ view'[q][j].child = c
    BY <2>1, <2>8, <2>9, <1>1, <1>7
  <2>4. i \in 1 .. Len(view'[op.from]) /\ view'[op.from][i].child = c
    BY <2>1, <1>4, <1>9
  <2>5. ~(q = op.from /\ i = j)
    BY <2>1, <2>8, <2>9, <1>1
  <2>6. \A n \in Live : \A k \in 1 .. Len(view'[n]) :
          view'[n][k].child = c => (n = op.from /\ k = i) \/ (n = q /\ k = j)
    BY <2>2, <2>8, <2>9, <1>8
  <2>7. q # op.from => \A k \in 1 .. Len(view'[q]) : k # j => view'[q][k].name # hdr'[c].name
    <3>1. p # op.from => \A k \in 1 .. sz : view[p][k].name # hdr[c].name
      BY <1>4 DEF NameFree
    <3> QED  BY <2>8, <2>9, <3>1, <1>1, <1>8
  <2>10. TwoEntries(q, i, j)'
    BY <2>3, <2>4, <2>5, <2>6, <2>7, <1>1, <1>4, <1>5 DEF TwoEntries
  <2> QED  BY <2>3, <2>10
<1>17. AddGoesOn' /\ RenameGoesOn' /\ DeleteGoesOn'
  BY <1>2, <1>3, <1>5, NoCalls2 DEF AddGoesOn, RenameGoesOn, Adding
<1>18. Appended(p, e)
  BY <1>1 DEF Appended
<1> QED
  BY <1>2, <1>3, <1>5, <1>6, <1>11, <1>13, <1>14, <1>15, <1>16, <1>17, <1>18 DEF ListInv, e

\* The list of p lost its entry f, and that one only.
Removed(p, f) ==
  /\ p \in Live /\ f \in 1 .. Len(view[p]) /\ Len(view'[p]) = Len(view[p]) - 1
  /\ \A i \in 1 .. Len(view[p]) - 1 : view'[p][i] = view[p][IF i < f THEN i ELSE i + 1]
  /\ \A n \in Live : n # p => view'[n] = view[n]

OldIndex(p, f, n, i) == IF n = p /\ i >= f THEN i + 1 ELSE i

\* Every entry left after a removal was there before, at a place of its own.
LEMMA RemovedFacts ==
  ASSUME StoreInv, NEW p, NEW f, Removed(p, f), NEW n \in Live
  PROVE  /\ \A i \in 1 .. Len(view'[n]) :
              /\ OldIndex(p, f, n, i) \in 1 .. Len(view[n])
              /\ view'[n][i] = view[n][OldIndex(p, f, n, i)]
              /\ ~(n = p /\ OldIndex(p, f, n, i) = f)
         /\ \A i, j \in 1 .. Len(view'[n]) :
              OldIndex(p, f, n, i) = OldIndex(p, f, n, j) => i = j
         /\ \A j \in 1 .. Len(view[n]) : ~(n = p /\ j = f) =>
              \E i \in 1 .. Len(view'[n]) : view'[n][i] = view[n][j]
<1>1. Len(view[n]) \in Nat
  BY ViewFacts
<1> DEFINE sz == Len(view[n])
<1>2. CASE n = p
  <2>1. /\ f \in 1 .. sz /\ Len(view'[n]) = sz - 1 /\ sz \in Nat
        /\ \A i \in 1 .. sz - 1 : view'[n][i] = view[n][IF i < f THEN i ELSE i + 1]
    BY <1>1, <1>2 DEF Removed
  <2>2. \A i \in 1 .. sz - 1 : OldIndex(p, f, n, i) = IF i < f THEN i ELSE i + 1
    BY <1>2, <2>1 DEF OldIndex
  <2> HIDE DEF sz
  <2>3. \A i \in 1 .. sz - 1 : /\ OldIndex(p, f, n, i) \in 1 .. sz
                               /\ view'[n][i] = view[n][OldIndex(p, f, n, i)]
                               /\ OldIndex(p, f, n, i) # f
    BY <2>1, <2>2
  <2>4. \A i, j \in 1 .. sz - 1 : OldIndex(p, f, n, i) = OldIndex(p, f, n, j) => i = j
    BY <2>1, <2>2
  <2>5. \A j \in 1 .. sz : j # f => \E i \in 1 .. sz - 1 : view'[n][i] = view[n][j]
    <3> SUFFICES ASSUME NEW j \in 1 .. sz, j # f
                 PROVE  \E i \in 1 .. sz - 1 : view'[n][i] = view[n][j]
      OBVIOUS
    <3>1. CASE j < f
      <4>1. j \in 1 .. sz - 1
        BY <2>1, <3>1
      <4> QED  BY <2>1, <3>1, <4>1
    <3>2. CASE j > f
      <4>1. j - 1 \in 1 .. sz - 1 /\ ~(j - 1 < f) /\ (j - 1) + 1 = j
        BY <2>1, <3>2
      <4>2. view'[n][j - 1] = view[n][(j - 1) + 1]
        BY <2>1, <4>1
      <4> QED  BY <4>1, <4>2
    <3> QED  BY <3>1, <3>2, <2>1
  <2>6. Len(view'[n]) = sz - 1
    BY <2>1
  <2> QED  BY <1>2, <2>3, <2>4, <2>5, <2>6 DEF sz
<1>3. CASE n # p
  BY <1>1, <1>3 DEF Removed, OldIndex
<1> QED  BY <1>2, <1>3

\* Two entries of the lists after the step and the entries they were before.
PairOf(p, f, n, m, k, l) ==
  \E o \in 1 .. Len(view[n]), r \in 1 .. Len(view[m]) :
    /\ view'[n][k] = view[n][o] /\ ~(n = p /\ o = f)
    /\ view'[m][l] = view[m][r] /\ ~(m = p /\ r = f)
    /\ n = m /\ o = r => k = l

\* Two entries left after a removal were two entries before.
LEMMA RemovedPair ==
  ASSUME StoreInv, NEW p, NEW f, Removed(p, f), NEW n \in Live, NEW m \in Live,
         NEW k \in 1 .. Len(view'[n]), NEW l \in 1 .. Len(view'[m])
  PROVE  PairOf(p, f, n, m, k, l)
<1>1. /\ OldIndex(p, f, n, k) \in 1 .. Len(view[n])
      /\ view'[n][k] = view[n][OldIndex(p, f, n, k)]
      /\ ~(n = p /\ OldIndex(p, f, n, k) = f)
  BY RemovedFacts
<1>2. /\ OldIndex(p, f, m, l) \in 1 .. Len(view[m])
      /\ view'[m][l] = view[m][OldIndex(p, f, m, l)]
      /\ ~(m = p /\ OldIndex(p, f, m, l) = f)
  BY RemovedFacts
<1>3. n = m /\ OldIndex(p, f, n, k) = OldIndex(p, f, m, l) => k = l
  <2> SUFFICES ASSUME n = m, OldIndex(p, f, n, k) = OldIndex(p, f, n, l) PROVE k = l
    OBVIOUS
  <2>1. \A i, j \in 1 .. Len(view'[n]) : OldIndex(p, f, n, i) = OldIndex(p, f, n, j) => i = j
    BY RemovedFacts
  <2> QED  BY <2>1
<1> QED  BY <1>1, <1>2, <1>3 DEF PairOf

\* But for a node on the move one node lists a child.
LEMMA OneLister ==
  ASSUME Once, ~Dropping, NEW n \in Live, NEW m \in Live, NEW c, Lists(n, c), Lists(m, c)
  PROVE  n = m
BY DEF Once, Lists

\* Drop keeps the lists of children.
LEMMA DropLists ==
  ASSUME StoreInv, ListInv, Drop
  PROVE  /\ ListInv' /\ ~Dropping' /\ frames' = frames
         /\ op.child \in Live \ {Root} /\ op.parent \in Live
         /\ \E f \in Nat : Removed(op.parent, f) /\ view[op.parent][f].child = op.child
         /\ frames # <<>> => op.child = Top.id /\ \A c : Unlisted(c)' <=> c = Top.id
<1>0. PICK c : c = op.child
  OBVIOUS
<1>1. PICK p \in Live : p = op.parent
  BY DropStore
<1>2. PICK f \in Nat : Removed(p, f) /\ view[p][f].child = c
  <2>1. /\ Len(view[p]) \in Nat /\ Len(view'[p]) = Len(view[p]) - 1
        /\ \A n \in Live : n # p => view'[n] = view[n]
        /\ \E f \in 1 .. Len(view[p]) :
             /\ view[p][f].child = c
             /\ \A i \in 1 .. Len(view[p]) - 1 : view'[p][i] = view[p][IF i < f THEN i ELSE i + 1]
    BY <1>0, <1>1, DropStore
  <2>2. PICK f \in 1 .. Len(view[p]) :
          /\ view[p][f].child = c
          /\ \A i \in 1 .. Len(view[p]) - 1 : view'[p][i] = view[p][IF i < f THEN i ELSE i + 1]
    BY <2>1
  <2>3. Removed(p, f)
    BY <2>1, <2>2 DEF Removed
  <2>4. f \in Nat
    BY <2>1
  <2> QED  BY <2>2, <2>3, <2>4
<1>3. /\ Live' = Live /\ \A n \in Live : hdr'[n].name = hdr[n].name
  BY DropStore
<1>4. /\ op.do = "drop" /\ op'.do = "uncount" /\ op'.parent = op.parent /\ op'.child = op.child
      /\ op'.from = op.from /\ frames' = frames
  <2>1. op \in Operation
    BY DEF StoreInv, Types
  <2> QED  BY <2>1 DEF Drop, Operation
<1>5. /\ ~Adding /\ ~Adding' /\ ~Dropping' /\ op.from = Nobody /\ \A x : ~Unlisted(x)
  BY <1>4 DEF Adding, Dropping, Unlisted, ListInv, Running
<1>6. f \in 1 .. Len(view[p])
  BY <1>2 DEF Removed
<1>7. c \in Live \ {Root}
  BY <1>2, <1>6 DEF ListInv, Leads
<1>8. ASSUME NEW n \in Live
      PROVE  /\ \A i \in 1 .. Len(view'[n]) :
                  \E o \in 1 .. Len(view[n]) : view'[n][i] = view[n][o] /\ ~(n = p /\ o = f)
             /\ \A j \in 1 .. Len(view[n]) : ~(n = p /\ j = f) =>
                  \E i \in 1 .. Len(view'[n]) : view'[n][i] = view[n][j]
  <2>1. /\ \A i \in 1 .. Len(view'[n]) :
              /\ OldIndex(p, f, n, i) \in 1 .. Len(view[n])
              /\ view'[n][i] = view[n][OldIndex(p, f, n, i)]
              /\ ~(n = p /\ OldIndex(p, f, n, i) = f)
        /\ \A j \in 1 .. Len(view[n]) : ~(n = p /\ j = f) =>
              \E i \in 1 .. Len(view'[n]) : view'[n][i] = view[n][j]
    BY <1>2, RemovedFacts
  <2> QED  BY <2>1
<1>9. Leads'
  <2> SUFFICES ASSUME NEW n \in Live, NEW i \in 1 .. Len(view'[n])
               PROVE  /\ view'[n][i].child \in Live \ {Root}
                      /\ view'[n][i].name = hdr'[view'[n][i].child].name
    BY <1>3 DEF Leads
  <2>1. PICK j \in 1 .. Len(view[n]) : view'[n][i] = view[n][j]
    BY <1>8
  <2>2. view[n][j].child \in Live \ {Root} /\ view[n][j].name = hdr[view[n][j].child].name
    BY <1>4 DEF ListInv, Leads
  <2> QED  BY <1>3, <2>1, <2>2
<1>10. ASSUME NEW n \in Live, NEW x
       PROVE  (Lists(n, x)' => Lists(n, x)) /\ (x # c /\ Lists(n, x) => Lists(n, x)')
  <2>1. ASSUME Lists(n, x)' PROVE Lists(n, x)
    <3>1. PICK i \in 1 .. Len(view'[n]) : view'[n][i].child = x
      BY <2>1 DEF Lists
    <3>2. PICK j \in 1 .. Len(view[n]) : view'[n][i] = view[n][j]
      BY <1>8
    <3> QED  BY <3>1, <3>2 DEF Lists
  <2>2. ASSUME x # c, Lists(n, x) PROVE Lists(n, x)'
    <3>1. PICK j \in 1 .. Len(view[n]) : view[n][j].child = x
      BY <2>2 DEF Lists
    <3>2. ~(n = p /\ j = f)
      BY <2>2, <3>1, <1>2
    <3>3. \E i \in 1 .. Len(view'[n]) : view'[n][i] = view[n][j]
      BY <3>2, <1>8
    <3> QED  BY <3>1, <3>3 DEF Lists
  <2> QED  BY <2>1, <2>2
<1>11. Running' /\ AddGoesOn' /\ MoveGoesOn' /\ RenameGoesOn'
  BY <1>4, <1>5 DEF ListInv, Running, AddGoesOn, MoveGoesOn, RenameGoesOn
<1>12. CASE frames = <<>>
  <2>1. Dropping
    BY <1>4, <1>12 DEF Dropping
  <2>2. PICK q \in Live : \E i, j \in Nat : TwoEntries(q, i, j)
    BY <2>1 DEF ListInv, MoveGoesOn
  <2>3. PICK i \in Nat, j \in Nat : TwoEntries(q, i, j)
    BY <2>2
  <2>4. /\ i \in 1 .. Len(view[p]) /\ view[p][i].child = c
        /\ j \in 1 .. Len(view[q]) /\ view[q][j].child = c
        /\ ~(q = p /\ i = j)
        /\ \A n \in Live : \A k \in 1 .. Len(view[n]) :
             view[n][k].child = c => (n = p /\ k = i) \/ (n = q /\ k = j)
    BY <2>3, <1>0, <1>1 DEF TwoEntries
  <2>5. f = i \/ (p = q /\ f = j)
    BY <2>4, <1>2, <1>6
  <2>6. Once'
    <3> SUFFICES ASSUME NEW n \in Live, NEW m \in Live,
                        NEW k \in 1 .. Len(view'[n]), NEW l \in 1 .. Len(view'[m]),
                        view'[n][k].child = view'[m][l].child
                 PROVE  n = m /\ k = l
      BY <1>3 DEF Once
    <3>0. PairOf(p, f, n, m, k, l)
      BY <1>2, RemovedPair
    <3>1. PICK o \in 1 .. Len(view[n]), r \in 1 .. Len(view[m]) :
            /\ view'[n][k] = view[n][o] /\ ~(n = p /\ o = f)
            /\ view'[m][l] = view[m][r] /\ ~(m = p /\ r = f)
            /\ n = m /\ o = r => k = l
      BY <3>0 DEF PairOf
    <3>2. view[n][o].child = view[m][r].child
      BY <3>1
    <3>3. n = m /\ o = r
      <4>1. CASE view[n][o].child = c
        <5>1. /\ (n = p /\ o = i) \/ (n = q /\ o = j)
              /\ (m = p /\ r = i) \/ (m = q /\ r = j)
          BY <4>1, <3>2, <2>4
        <5> QED  BY <5>1, <3>1, <2>5
      <4>2. CASE view[n][o].child # c
        BY <4>2, <3>2, <1>0 DEF ListInv, Once
      <4> QED  BY <4>1, <4>2
    <3> QED  BY <3>1, <3>3
  <2>7. \E n \in Live : Lists(n, c)'
    <3>1. CASE f = i
      <4>1. ~(q = p /\ j = f)
        BY <3>1, <2>4
      <4>2. \E k \in 1 .. Len(view'[q]) : view'[q][k] = view[q][j]
        BY <4>1, <2>4, <1>8
      <4> QED  BY <4>2, <2>4 DEF Lists
    <3>2. CASE f # i
      <4>1. \E k \in 1 .. Len(view'[p]) : view'[p][k] = view[p][i]
        BY <3>2, <2>4, <1>8
      <4> QED  BY <4>1, <2>4 DEF Lists
    <3> QED  BY <3>1, <3>2
  <2>8. \A x : ~Unlisted(x)'
    BY <1>4, <1>5, <1>12 DEF Unlisted
  <2>9. Listed'
    BY <2>7, <2>8, <1>3, <1>5, <1>10 DEF ListInv, Listed
  <2> QED
    BY <2>6, <2>9, <1>0, <1>1, <1>2, <1>4, <1>5, <1>7, <1>9, <1>11, <1>12, NoCalls2 DEF ListInv
<1>13. CASE frames # <<>>
  <2> DEFINE len == Len(frames)
  <2>1. /\ ~Dropping /\ Top = frames[len] /\ len \in Nat \ {0} /\ Top' = Top
    BY <1>4, <1>13, FrameFacts DEF Dropping, Top
  <2>2. /\ op.parent = Top.pid /\ c = Top.id /\ Top.kids = <<>>
        /\ \A k \in 1 .. len : CallGoesOn(k)
    BY <1>0, <1>4, <1>13 DEF ListInv, DeleteGoesOn, TopGoesOn
  <2>3. Once'
    <3> SUFFICES ASSUME NEW n \in Live, NEW m \in Live,
                        NEW k \in 1 .. Len(view'[n]), NEW l \in 1 .. Len(view'[m]),
                        view'[n][k].child = view'[m][l].child
                 PROVE  n = m /\ k = l
      BY <1>3 DEF Once
    <3>0. PairOf(p, f, n, m, k, l)
      BY <1>2, RemovedPair
    <3>1. PICK o \in 1 .. Len(view[n]), r \in 1 .. Len(view[m]) :
            /\ view'[n][k] = view[n][o] /\ ~(n = p /\ o = f)
            /\ view'[m][l] = view[m][r] /\ ~(m = p /\ r = f)
            /\ n = m /\ o = r => k = l
      BY <3>0 DEF PairOf
    <3>2. view[n][o].child = view[m][r].child
      BY <3>1
    <3>3. n = m /\ o = r
      BY <2>1, <3>2 DEF ListInv, Once
    <3> QED  BY <3>1, <3>3
  <2>4. \A x : Unlisted(x)' <=> x = c
    BY <1>4, <1>5, <1>13, <2>1, <2>2 DEF Unlisted
  <2>5. \A n \in Live : ~Lists(n, c)'
    <3> SUFFICES ASSUME NEW n \in Live, NEW k \in 1 .. Len(view'[n]), view'[n][k].child = c
                 PROVE  FALSE
      BY DEF Lists
    <3>1. PICK o \in 1 .. Len(view[n]) : view'[n][k] = view[n][o] /\ ~(n = p /\ o = f)
      BY <1>8
    <3>2. n = p /\ o = f
      BY <2>1, <3>1, <1>2, <1>6 DEF ListInv, Once
    <3> QED  BY <3>1, <3>2
  <2>6. Listed'
    BY <2>4, <2>5, <1>3, <1>5, <1>10 DEF ListInv, Listed
  <2>7. ASSUME NEW k \in 1 .. len
        PROVE  CallGoesOn(k)'
    <3>0. PICK id, prev : id = frames[k].id /\ prev = frames[k - 1].id
      OBVIOUS
    <3>1. /\ id \in Live
          /\ \A j \in 1 .. len : frames[j].id = id => j = k
          /\ k > 1 => frames[k].pid = prev /\ (Lists(prev, id) \/ Unlisted(id))
          /\ \A i, j \in 1 .. Len(frames[k].kids) : frames[k].kids[i] = frames[k].kids[j] => i = j
          /\ \A x \in Kids(k) : Lists(id, x) /\ (k < len => x # frames[k + 1].id)
          /\ \A i \in 1 .. Len(view[id]) :
               \/ view[id][i].child \in Kids(k)
               \/ k < len /\ view[id][i].child = frames[k + 1].id
      BY <2>2, <3>0 DEF CallGoesOn
    <3>2. k > 1 => Lists(prev, id)' \/ Unlisted(id)'
      <4> SUFFICES ASSUME k > 1, id # c
                   PROVE  Lists(prev, id)'
        BY <2>4
      <4>1. k - 1 \in 1 .. len
        BY <2>1
      <4>2. prev \in Live
        BY <4>1, <2>2, <3>0 DEF CallGoesOn
      <4>3. Lists(prev, id)
        BY <3>1, <1>5
      <4> QED  BY <4>2, <4>3, <1>10
    <3>3. \A x \in Kids(k) : Lists(id, x)' /\ x # c
      <4> SUFFICES ASSUME NEW x \in Kids(k)
                   PROVE  Lists(id, x)' /\ x # c
        OBVIOUS
      <4>1. x # c
        <5> SUFFICES ASSUME x = c PROVE FALSE
          OBVIOUS
        <5>1. k # len
          BY <2>1, <2>2 DEF Kids
        <5>2. len - 1 \in 1 .. len /\ len > 1 /\ len \in 1 .. len
          BY <5>1, <2>1
        <5>3. Lists(frames[len - 1].id, c) /\ frames[len - 1].id \in Live
          BY <5>2, <2>1, <2>2, <1>5 DEF CallGoesOn
        <5>4. Lists(id, c)
          BY <3>1
        <5>5. id = frames[len - 1].id
          BY <5>3, <5>4, <3>1, <2>1, OneLister DEF ListInv
        <5>6. k = len - 1
          BY <5>2, <5>5, <3>1
        <5> QED  BY <5>6, <3>1, <2>1, <2>2
      <4>2. Lists(id, x) /\ id \in Live
        BY <3>1
      <4> QED  BY <4>1, <4>2, <1>10
    <3>4. \A i \in 1 .. Len(view'[id]) :
               \/ view'[id][i].child \in Kids(k)
               \/ k < len /\ view'[id][i].child = frames[k + 1].id
      <4> SUFFICES ASSUME NEW i \in 1 .. Len(view'[id])
                   PROVE  \/ view'[id][i].child \in Kids(k)
                          \/ k < len /\ view'[id][i].child = frames[k + 1].id
        OBVIOUS
      <4>1. PICK o \in 1 .. Len(view[id]) : view'[id][i] = view[id][o]
        BY <3>1, <1>8
      <4> QED  BY <3>1, <4>1
    <3>5. Kids(k)' = Kids(k)
      BY <1>4 DEF Kids
    <3> HIDE DEF len
    <3> QED  BY <3>0, <3>1, <3>2, <3>3, <3>4, <3>5, <1>3, <1>4 DEF CallGoesOn, len
  <2>8. DeleteGoesOn'
    BY <2>1, <2>2, <2>7, <1>0, <1>4, <1>7 DEF DeleteGoesOn, TopGoesOn
  <2> QED
    BY <2>1, <2>2, <2>3, <2>4, <2>6, <2>8, <1>0, <1>1, <1>2, <1>4, <1>5, <1>7, <1>9, <1>11 DEF ListInv
<1> QED  BY <1>12, <1>13

\* The calls go on as before if neither they nor the lists change.
LEMMA SameCalls ==
  ASSUME DeleteGoesOn, frames # <<>>, frames' = frames, view' = view, Live' = Live,
         \A c : Unlisted(c) => Unlisted(c)', TopGoesOn'
  PROVE  DeleteGoesOn'
<1>1. ASSUME NEW k \in 1 .. Len(frames)
      PROVE  CallGoesOn(k)'
  <2>1. CallGoesOn(k)
    BY DEF DeleteGoesOn
  <2>2. Kids(k)' = Kids(k)
    BY DEF Kids
  <2>3. \A j, n : Lists(frames[j].id, n)' <=> Lists(frames[j].id, n)
    BY DEF Lists
  <2>4. Lists(frames[k - 1].id, frames[k].id)' <=> Lists(frames[k - 1].id, frames[k].id)
    BY DEF Lists
  <2>5. Unlisted(frames[k].id) => Unlisted(frames[k].id)'
    <3>1. PICK id : id = frames[k].id
      OBVIOUS
    <3>2. Unlisted(id) => Unlisted(id)'
      OBVIOUS
    <3>3. (id = frames[k].id)'
      BY <3>1
    <3>4. Unlisted(id)' => Unlisted(frames[k].id)'
      BY <3>3 DEF Unlisted
    <3> QED  BY <3>1, <3>2, <3>4
  <2> QED  BY <2>1, <2>2, <2>3, <2>4, <2>5 DEF CallGoesOn
<1> QED  BY <1>1 DEF DeleteGoesOn

\* An entry that is missing stops ADF_Delete, never ADF_Move_Child.
LEMMA DropFailsLists ==
  ASSUME StoreInv, ListInv, DropFails
  PROVE  StoreInv' /\ ListInv' /\ view' = view /\ Live' = Live /\ ~Dropping /\ ~Dropping'
<1>1. /\ op.do = "drop" /\ op' = Idle /\ frames' = <<>> /\ hdr' = hdr
      /\ op.parent \in Live => ~IsChild(op.parent, op.child)
  BY DEF DropFails
<1>2. ~Dropping
  <2> SUFFICES ASSUME Dropping PROVE FALSE
    OBVIOUS
  <2>1. PICK q \in Live : \E i, j \in Nat : TwoEntries(q, i, j)
    BY DEF ListInv, MoveGoesOn
  <2>2. op.parent \in Live /\ Lists(op.parent, op.child)
    BY <2>1 DEF TwoEntries, Lists
  <2> QED  BY <2>2, <1>1, TableIsList
<1>3. op'.do = "idle" /\ op'.from = Nobody /\ ~Adding' /\ ~Dropping' /\ \A c : ~Unlisted(c)'
  BY <1>1 DEF Idle, Adding, Dropping, Unlisted
<1>4. ~Adding /\ \A c : ~Unlisted(c)
  BY <1>1 DEF Adding, Unlisted
<1>5. StoreInv' /\ view' = view /\ Live' = Live
  <2>1. RoomForEntry'
    BY <1>3 DEF RoomForEntry
  <2> QED  BY <2>1, <1>1, <1>3, IdleFacts, QuietStore
<1>6. Leads' /\ Once' /\ Listed'
  BY <1>1, <1>2, <1>3, <1>4, <1>5, SameLists DEF ListInv
<1>7. Running' /\ AddGoesOn' /\ MoveGoesOn' /\ RenameGoesOn' /\ DeleteGoesOn'
  BY <1>1, <1>3, NoCalls2 DEF Running, AddGoesOn, MoveGoesOn, RenameGoesOn
<1> QED  BY <1>2, <1>3, <1>5, <1>6, <1>7 DEF ListInv

\* Uncount keeps the lists of children.
LEMMA UncountLists ==
  ASSUME StoreInv, ListInv, Uncount
  PROVE  ListInv' /\ ~Dropping /\ ~Dropping'
<1>1. /\ op.do = "uncount" /\ frames' = frames
      /\ op' = IF frames = <<>> THEN Idle ELSE [Idle EXCEPT !.do = "free table"]
  BY DEF Uncount
<1>2. /\ view' = view /\ Live' = Live /\ \A n \in Live : hdr'[n].name = hdr[n].name
  BY UncountStore
<1>3. /\ op'.from = Nobody
      /\ frames = <<>> => op' = Idle /\ op'.do = "idle"
      /\ frames # <<>> => op'.do = "free table"
  BY <1>1 DEF Idle
<1>4. ~Adding /\ ~Adding' /\ ~Dropping /\ ~Dropping' /\ \A c : Unlisted(c)' <=> Unlisted(c)
  BY <1>1, <1>3 DEF Adding, Dropping, Unlisted, Top
<1>5. Leads' /\ Once' /\ Listed'
  BY <1>1, <1>2, <1>4, SameLists DEF ListInv
<1>6. Running' /\ AddGoesOn' /\ MoveGoesOn' /\ RenameGoesOn'
  BY <1>1, <1>3, <1>4 DEF Running, AddGoesOn, MoveGoesOn, RenameGoesOn
<1>7. DeleteGoesOn'
  <2>1. CASE frames = <<>>
    BY <2>1, <1>1, NoCalls2
  <2>2. CASE frames # <<>>
    <3>1. TopGoesOn'
      BY <2>2, <1>1, <1>3 DEF ListInv, DeleteGoesOn, TopGoesOn, Top
    <3> QED  BY <2>2, <3>1, <1>1, <1>2, <1>4, SameCalls DEF ListInv
  <2> QED  BY <2>1, <2>2
<1> QED  BY <1>4, <1>5, <1>6, <1>7 DEF ListInv

\* ChildrenDeleted keeps the lists of children.
LEMMA ChildrenDeletedLists ==
  ASSUME StoreInv, ListInv, ChildrenDeleted
  PROVE  StoreInv' /\ ListInv' /\ view' = view /\ Live' = Live /\ ~Dropping /\ ~Dropping'
<1>1. /\ op.do = "children" /\ frames' = frames /\ hdr' = hdr /\ Top.kids = <<>> /\ Top' = Top
      /\ op' = [Idle EXCEPT !.do = "drop", !.parent = Top.pid, !.child = Top.id]
  BY DEF ChildrenDeleted, Top
<1>2. frames # <<>>
  BY <1>1 DEF ListInv, Running
<1>3. Top \in Call /\ frames \in Seq(Call)
  BY <1>2, FrameFacts DEF StoreInv, Types
<1>4. /\ op' \in Operation /\ op'.do = "drop" /\ op'.parent = Top.pid /\ op'.child = Top.id
      /\ op'.from = Nobody
  BY <1>1, <1>3, UnusedFacts DEF Idle, Operation, Steps, Call
<1>5. /\ ~Adding /\ ~Adding' /\ ~Dropping /\ ~Dropping'
      /\ \A c : ~Unlisted(c) /\ ~Unlisted(c)'
  BY <1>1, <1>2, <1>4 DEF Adding, Dropping, Unlisted
<1>6. StoreInv' /\ view' = view /\ Live' = Live
  <2>1. RoomForEntry'
    BY <1>5 DEF RoomForEntry
  <2> QED  BY <2>1, <1>1, <1>3, <1>4, QuietStore
<1>7. Leads' /\ Once' /\ Listed'
  BY <1>1, <1>5, <1>6, SameLists DEF ListInv
<1>8. Running' /\ AddGoesOn' /\ MoveGoesOn' /\ RenameGoesOn'
  BY <1>1, <1>2, <1>4, <1>5 DEF Running, AddGoesOn, MoveGoesOn, RenameGoesOn
<1>9. DeleteGoesOn'
  <2>1. TopGoesOn'
    BY <1>1, <1>4 DEF TopGoesOn
  <2> QED  BY <2>1, <1>1, <1>2, <1>5, <1>6, SameCalls DEF ListInv
<1> QED  BY <1>5, <1>6, <1>7, <1>8, <1>9 DEF ListInv

Freeing == op.do \in {"free table", "free header"}

\* The node that is deleted lists nobody once its children are gone.
LEMMA TopIsEmpty ==
  ASSUME StoreInv, ListInv, Freeing
  PROVE  /\ frames # <<>> /\ Top.id \in Live \ {Root} /\ Len(view[Top.id]) = 0
         /\ \A n \in Live : ~Lists(n, Top.id)
<1>1. frames # <<>>
  BY DEF Freeing, ListInv, Running
<1>2. Top.kids = <<>> /\ Top.id # Root /\ \A k \in 1 .. Len(frames) : CallGoesOn(k)
  BY <1>1 DEF Freeing, ListInv, DeleteGoesOn, TopGoesOn
<1>3. PICK len \in Nat \ {0} : len = Len(frames) /\ Top = frames[len]
  <2>1. Len(frames) \in Nat \ {0} /\ Top = frames[Len(frames)]
    BY <1>1, FrameFacts
  <2> QED  BY <2>1
<1>4. CallGoesOn(len)
  <2>1. len \in 1 .. len
    BY <1>3
  <2> QED  BY <1>2, <1>3, <2>1
<1>5. Top.id \in Live
  BY <1>3, <1>4 DEF CallGoesOn
<1>6. Len(view[Top.id]) \in Nat
  BY <1>5, ViewFacts
<1>7. \A i \in 1 .. Len(view[Top.id]) : FALSE
  <2>1. frames[len].kids = <<>>
    BY <1>2, <1>3
  <2>2. Kids(len) = {}
    BY <2>1 DEF Kids
  <2>3. ~(len < Len(frames))
    BY <1>3
  <2> QED  BY <2>2, <2>3, <1>3, <1>4 DEF CallGoesOn
<1>8. Len(view[Top.id]) = 0
  BY <1>6, <1>7
<1>9. \A n \in Live : ~Lists(n, Top.id)
  <2>1. Unlisted(Top.id)
    BY <1>1 DEF Freeing, Unlisted
  <2> QED  BY <2>1, <1>2, <1>5 DEF ListInv, Listed
<1> QED  BY <1>1, <1>2, <1>5, <1>8, <1>9

\* FreeTable keeps the lists of children.
LEMMA FreeTableLists ==
  ASSUME StoreInv, ListInv, FreeTable
  PROVE  StoreInv' /\ ListInv' /\ view' = view /\ Live' = Live /\ ~Dropping /\ ~Dropping'
<1>1. /\ op.do = "free table" /\ frames' = frames /\ Top' = Top
      /\ op' = [Idle EXCEPT !.do = "free header"]
  BY DEF FreeTable, Top
<1>2. frames # <<>> /\ Top.id \in Live \ {Root} /\ Len(view[Top.id]) = 0
  BY <1>1, TopIsEmpty DEF Freeing
<1>3. /\ StoreInv' /\ view' = view /\ Live' = Live /\ \A n \in Live : hdr'[n].name = hdr[n].name
  BY <1>2, FreeTableStore
<1>4. op'.do = "free header" /\ op'.from = Nobody
  BY <1>1 DEF Idle
<1>5. ~Adding /\ ~Adding' /\ ~Dropping /\ ~Dropping' /\ \A c : Unlisted(c)' <=> Unlisted(c)
  BY <1>1, <1>4 DEF Adding, Dropping, Unlisted
<1>6. Leads' /\ Once' /\ Listed'
  BY <1>1, <1>3, <1>5, SameLists DEF ListInv
<1>7. Running' /\ AddGoesOn' /\ MoveGoesOn' /\ RenameGoesOn'
  BY <1>1, <1>2, <1>4, <1>5 DEF Running, AddGoesOn, MoveGoesOn, RenameGoesOn
<1>8. DeleteGoesOn'
  <2>1. TopGoesOn'
    BY <1>1, <1>2, <1>4 DEF ListInv, DeleteGoesOn, TopGoesOn
  <2> QED  BY <2>1, <1>1, <1>2, <1>3, <1>5, SameCalls DEF ListInv
<1> QED  BY <1>3, <1>5, <1>6, <1>7, <1>8 DEF ListInv

\* FreeHeader keeps the lists of children.
LEMMA FreeHeaderLists ==
  ASSUME StoreInv, ListInv, FreeHeader
  PROVE  /\ StoreInv' /\ ListInv' /\ ~Dropping /\ ~Dropping'
         /\ Top.id \in Live \ {Root} /\ Live' = Live \ {Top.id} /\ Len(view[Top.id]) = 0
         /\ \A n \in Live' : hdr'[n] = hdr[n] /\ view'[n] = view[n]
<1>1. /\ op.do = "free header" /\ frames' = Popped
      /\ op' = IF Popped = <<>> THEN Idle ELSE [Idle EXCEPT !.do = "children"]
  BY DEF FreeHeader
<1>2. /\ frames # <<>> /\ Top.id \in Live \ {Root} /\ Len(view[Top.id]) = 0
      /\ \A n \in Live : ~Lists(n, Top.id)
  BY <1>1, TopIsEmpty DEF Freeing
<1>3. /\ StoreInv' /\ Live' = Live \ {Top.id}
      /\ \A n \in Live' : hdr'[n] = hdr[n] /\ view'[n] = view[n]
  BY <1>2, FreeHeaderStore
<1>4. /\ op'.from = Nobody
      /\ Popped = <<>> => op' = Idle /\ op'.do = "idle"
      /\ Popped # <<>> => op'.do = "children"
  BY <1>1 DEF Idle
<1>5. /\ ~Adding /\ ~Adding' /\ ~Dropping /\ ~Dropping' /\ \A c : ~Unlisted(c)'
      /\ \A c : Unlisted(c) <=> c = Top.id
  BY <1>1, <1>2, <1>4 DEF Adding, Dropping, Unlisted
<1>6. \A n \in Live' : \A c : Lists(n, c)' <=> Lists(n, c)
  BY <1>3 DEF Lists
<1>7. Leads'
  <2> SUFFICES ASSUME NEW n \in Live', NEW i \in 1 .. Len(view[n])
               PROVE  /\ view[n][i].child \in Live' \ {Root}
                      /\ view[n][i].name = hdr'[view[n][i].child].name
    BY <1>3 DEF Leads
  <2>1. /\ view[n][i].child \in Live \ {Root}
        /\ view[n][i].name = hdr[view[n][i].child].name
    BY <1>1, <1>3 DEF ListInv, Leads
  <2>2. view[n][i].child # Top.id
    BY <1>2, <1>3 DEF Lists
  <2> QED  BY <2>1, <2>2, <1>3
<1>8. Once'
  <2> SUFFICES ASSUME NEW n \in Live', NEW m \in Live',
                      NEW i \in 1 .. Len(view[n]), NEW j \in 1 .. Len(view[m]),
                      view[n][i].child = view[m][j].child
               PROVE  n = m /\ i = j
    BY <1>3 DEF Once
  <2>1. n \in Live /\ m \in Live
    BY <1>3
  <2> QED  BY <2>1, <1>5 DEF ListInv, Once
<1>9. Listed'
  <2> SUFFICES ASSUME NEW c \in Live' \ {Root}
               PROVE  \E n \in Live' : Lists(n, c)'
    BY <1>5 DEF Listed
  <2>1. c \in Live \ {Root} /\ ~Unlisted(c)
    BY <1>3, <1>5
  <2>2. PICK n \in Live : Lists(n, c)
    BY <2>1 DEF ListInv, Listed
  <2>3. n # Top.id
    BY <2>2, <1>2 DEF Lists
  <2> QED  BY <2>2, <2>3, <1>3, <1>6
<1>10. Running' /\ AddGoesOn' /\ MoveGoesOn' /\ RenameGoesOn'
  BY <1>1, <1>4, <1>5 DEF Running, AddGoesOn, MoveGoesOn, RenameGoesOn
<1>11. PICK len \in Nat \ {0} : /\ len = Len(frames) /\ Top = frames[len] /\ len - 1 = Len(Popped)
                                /\ \A k \in 1 .. len - 1 : Popped[k] = frames[k]
  <2>1. /\ Len(frames) \in Nat \ {0} /\ Top = frames[Len(frames)]
        /\ Len(Popped) = Len(frames) - 1
        /\ \A k \in 1 .. Len(frames) - 1 : Popped[k] = frames[k]
    BY <1>2, FrameFacts
  <2> QED  BY <2>1
<1>12. \A k \in 1 .. len : CallGoesOn(k)
  BY <1>2, <1>11 DEF ListInv, DeleteGoesOn
<1>13. ASSUME NEW k \in 1 .. len - 1
       PROVE  CallGoesOn(k)'
  <2>1. k \in 1 .. len /\ k + 1 \in 1 .. len /\ len \in 1 .. len /\ k # len
    BY <1>11
  <2>2. CallGoesOn(k) /\ frames'[k] = frames[k] /\ Len(frames') = len - 1
    BY <2>1, <1>1, <1>11, <1>12
  <2>3. PICK id : id = frames[k].id
    OBVIOUS
  <2>4. id # Top.id
    BY <2>1, <2>2, <2>3, <1>11, <1>12 DEF CallGoesOn
  <2>5. id \in Live' /\ frames'[k].id = id
    BY <2>2, <2>3, <2>4, <1>3 DEF CallGoesOn
  <2>6. \A j \in 1 .. len - 1 : frames'[j] = frames[j] /\ j \in 1 .. len
    <3>1. \A j \in 1 .. len - 1 : j \in 1 .. len
      OBVIOUS
    <3>2. frames' = Popped
      BY <1>1
    <3> QED  BY <3>1, <3>2, <1>11
  <2>7. \A j \in 1 .. len - 1 : frames'[j].id = id => j = k
    BY <2>2, <2>3, <2>6, <1>11 DEF CallGoesOn
  <2>13. PICK prev : prev = frames[k - 1].id
    OBVIOUS
  <2>8. k > 1 => frames'[k - 1].id = prev /\ frames'[k].pid = prev /\ Lists(prev, id)'
    <3> SUFFICES ASSUME k > 1
                 PROVE  frames'[k - 1].id = prev /\ frames'[k].pid = prev /\ Lists(prev, id)'
      OBVIOUS
    <3>1. k - 1 \in 1 .. len - 1 /\ k - 1 \in 1 .. len /\ k - 1 # len
      BY <1>11
    <3>2. prev = frames'[k - 1].id
      BY <3>1, <2>6, <2>13
    <3>3. prev # Top.id /\ prev \in Live
      BY <2>1, <3>1, <2>13, <1>11, <1>12 DEF CallGoesOn
    <3>4. frames[k].pid = prev /\ Lists(prev, id)
      BY <2>2, <2>3, <2>4, <2>13, <1>5 DEF CallGoesOn
    <3>5. Lists(prev, id)'
      BY <3>3, <3>4, <1>3, <1>6
    <3> QED  BY <3>2, <3>4, <3>5, <2>2
  <2>9. Kids(k)' = Kids(k)
    BY <2>2 DEF Kids
  <2>10. \A x \in Kids(k) : Lists(id, x)' /\ (k < len - 1 => x # frames'[k + 1].id)
    <3>1. \A x \in Kids(k) : Lists(id, x) /\ (k < len => x # frames[k + 1].id)
      BY <2>2, <2>3, <1>11 DEF CallGoesOn
    <3>2. k < len - 1 => frames'[k + 1] = frames[k + 1] /\ k < len
      BY <2>1, <2>6, <1>11
    <3> QED  BY <2>5, <3>1, <3>2, <1>6
  <2>11. \A i \in 1 .. Len(view'[id]) :
           \/ view'[id][i].child \in Kids(k)
           \/ k < len - 1 /\ view'[id][i].child = frames'[k + 1].id
    <3> SUFFICES ASSUME NEW i \in 1 .. Len(view[id])
                 PROVE  \/ view[id][i].child \in Kids(k)
                        \/ k < len - 1 /\ view[id][i].child = frames'[k + 1].id
      BY <2>5, <1>3
    <3>1. \/ view[id][i].child \in Kids(k)
          \/ view[id][i].child = frames[k + 1].id
      BY <2>2, <2>3 DEF CallGoesOn
    <3>2. view[id][i].child # Top.id
      BY <2>5, <1>2, <1>3 DEF Lists
    <3>3. k + 1 = len \/ (k < len - 1 /\ k + 1 \in 1 .. len - 1)
      BY <1>11
    <3> QED  BY <3>1, <3>2, <3>3, <2>6, <1>11
  <2>12. \A i, j \in 1 .. Len(frames'[k].kids) : frames'[k].kids[i] = frames'[k].kids[j] => i = j
    BY <2>2 DEF CallGoesOn
  <2> QED
    BY <2>2, <2>5, <2>7, <2>8, <2>9, <2>10, <2>11, <2>12 DEF CallGoesOn
<1>14. DeleteGoesOn'
  <2>1. \A k \in 1 .. Len(frames') : CallGoesOn(k)'
    BY <1>1, <1>11, <1>13
  <2>2. frames' # <<>> => TopGoesOn'
    BY <1>1, <1>4 DEF TopGoesOn
  <2> QED  BY <2>1, <2>2 DEF DeleteGoesOn
<1> QED
  BY <1>2, <1>3, <1>5, <1>7, <1>8, <1>9, <1>10, <1>14 DEF ListInv

\* The header has the new name first: the entry is behind.
LEMMA PutNameLists ==
  ASSUME StoreInv, ListInv, TRUE \notin Blanks,
         NEW p \in Node, NEW c \in Node, NEW name \in Names \X Blanks, PutName(p, c, name)
  PROVE  StoreInv' /\ ListInv' /\ view' = view /\ Live' = Live /\ ~Dropping /\ ~Dropping'
<1>1. /\ op = Idle /\ frames' = frames /\ p \in Live /\ c \in Live
      /\ op' = [Idle EXCEPT !.do = "rename", !.parent = p, !.child = c]
      /\ ~Found(p, Bare(name)) /\ IsChild(p, c)
  BY DEF PutName, IsChild, Entries
<1>2. name \in StoredName /\ Bare(name) = name
  <2>1. PICK a \in Names, b \in Blanks : name = <<a, b>>
    OBVIOUS
  <2>2. b = FALSE
    <3>1. b \in BOOLEAN /\ b # TRUE
      BY TreeAssumption
    <3> QED  BY <3>1, Zenon
  <2> QED  BY <2>1, <2>2 DEF StoredName, Bare
<1>3. /\ StoreInv' /\ view' = view /\ Live' = Live
      /\ hdr'[c].name = name /\ \A n \in Live : n # c => hdr'[n].name = hdr[n].name
  BY <1>2, PutNameStore
<1>4. op.do = "idle" /\ frames = <<>> /\ ~Adding /\ ~Dropping /\ \A x : ~Unlisted(x)
  BY <1>1, IdleState
<1>5. Lists(p, c) /\ NameFree(p, name)
  BY <1>1, <1>2, <1>4, TableIsList
<1>6. c # Root
  BY <1>1, <1>5 DEF ListInv, Leads, Lists
<1>7. op'.do = "rename" /\ op'.parent = p /\ op'.child = c /\ op'.from = Nobody
  BY <1>1 DEF Idle
<1>8. ~Adding' /\ ~Dropping' /\ \A x : ~Unlisted(x)'
  BY <1>1, <1>4, <1>7 DEF Adding, Dropping, Unlisted
<1>9. Leads'
  BY <1>3, <1>4, <1>7 DEF ListInv, Leads
<1>10. Once'
  BY <1>3, <1>4 DEF ListInv, Once
<1>11. Listed'
  BY <1>3, <1>4, <1>8 DEF ListInv, Listed, Lists
<1>12. RenameGoesOn'
  <2>1. Lists(op.parent, op.child)'
    BY <1>3, <1>5, <1>7 DEF Lists
  <2>2. NameFree(op.parent, hdr[op.child].name)'
    BY <1>3, <1>5, <1>7 DEF NameFree
  <2> QED  BY <1>1, <1>3, <1>6, <1>7, <2>1, <2>2 DEF RenameGoesOn
<1>13. Running' /\ AddGoesOn' /\ MoveGoesOn' /\ DeleteGoesOn'
  BY <1>1, <1>4, <1>7, <1>8, NoCalls2 DEF Running, AddGoesOn, MoveGoesOn
<1> QED
  BY <1>3, <1>4, <1>8, <1>9, <1>10, <1>11, <1>12, <1>13 DEF ListInv

\* Then the entry follows.
LEMMA RenameLists ==
  ASSUME StoreInv, ListInv, RenameEntry
  PROVE  ListInv' /\ ~Dropping /\ ~Dropping'
<1>1. op.do = "rename" /\ op' = Idle /\ frames' = frames /\ frames = <<>>
  BY DEF RenameEntry, ListInv, Running
<1>2. op.parent \in Live /\ op.child \in Live \ {Root} /\ Lists(op.parent, op.child)
  BY <1>1 DEF ListInv, RenameGoesOn
<1>3. PICK p \in Live, c \in Live \ {Root} : p = op.parent /\ c = op.child
  BY <1>2
<1>4. /\ Live' = Live /\ \A n \in Live : hdr'[n].name = hdr[n].name
      /\ \A n \in Live : n # p => view'[n] = view[n]
      /\ Len(view'[p]) = Len(view[p])
      /\ \A i \in 1 .. Len(view[p]) :
           view'[p][i] = IF view[p][i].child = c
                         THEN [name |-> hdr[c].name, child |-> c] ELSE view[p][i]
  BY <1>2, <1>3, RenameStore
<1>5. op'.do = "idle" /\ op'.from = Nobody
  BY <1>1 DEF Idle
<1>6. /\ ~Adding /\ ~Adding' /\ ~Dropping /\ ~Dropping'
      /\ \A x : ~Unlisted(x) /\ ~Unlisted(x)'
  BY <1>1, <1>5 DEF Adding, Dropping, Unlisted
<1>7. \A n \in Live : /\ Len(view'[n]) = Len(view[n])
                      /\ \A i \in 1 .. Len(view[n]) : view'[n][i].child = view[n][i].child
  <2> SUFFICES ASSUME NEW n \in Live
               PROVE  /\ Len(view'[n]) = Len(view[n])
                      /\ \A i \in 1 .. Len(view[n]) : view'[n][i].child = view[n][i].child
    OBVIOUS
  <2>1. CASE n = p
    BY <2>1, <1>4
  <2>2. CASE n # p
    BY <2>2, <1>4
  <2> QED  BY <2>1, <2>2
<1>8. Leads'
  <2> SUFFICES ASSUME NEW n \in Live, NEW i \in 1 .. Len(view[n])
               PROVE  /\ view[n][i].child \in Live \ {Root}
                      /\ view'[n][i].name = hdr[view[n][i].child].name
    BY <1>4, <1>7 DEF Leads
  <2>1. view[n][i].child \in Live \ {Root}
    BY DEF ListInv, Leads
  <2>2. CASE n = p
    <3>1. CASE view[n][i].child = c
      BY <2>1, <2>2, <3>1, <1>4
    <3>2. CASE view[n][i].child # c
      <4>1. view'[n][i] = view[n][i]
        BY <2>2, <3>2, <1>4
      <4> QED  BY <2>1, <3>2, <4>1, <1>3 DEF ListInv, Leads
    <3> QED  BY <3>1, <3>2
  <2>3. CASE n # p
    <3>1. view[n][i].child # c
      <4> SUFFICES ASSUME view[n][i].child = c PROVE FALSE
        OBVIOUS
      <4>1. Lists(n, c)
        BY DEF Lists
      <4> QED  BY <4>1, <2>3, <1>2, <1>3, <1>6, OneLister DEF ListInv
    <3>2. view'[n][i] = view[n][i]
      BY <2>3, <1>4
    <3> QED  BY <2>1, <3>1, <3>2, <1>3 DEF ListInv, Leads
  <2> QED  BY <2>2, <2>3
<1>9. Once'
  BY <1>4, <1>6, <1>7 DEF ListInv, Once
<1>10. \A n \in Live : \A x : Lists(n, x)' <=> Lists(n, x)
  BY <1>7 DEF Lists
<1>11. Listed'
  BY <1>4, <1>6, <1>10 DEF ListInv, Listed
<1>12. Running' /\ AddGoesOn' /\ MoveGoesOn' /\ RenameGoesOn' /\ DeleteGoesOn'
  BY <1>1, <1>5, <1>6, NoCalls2 DEF Running, AddGoesOn, MoveGoesOn, RenameGoesOn
<1> QED  BY <1>6, <1>8, <1>9, <1>11, <1>12 DEF ListInv

\* The call f for node n knows all its children, each once.
KnowsKids(f, n) ==
  /\ \A i, j \in 1 .. Len(f.kids) : f.kids[i] = f.kids[j] => i = j
  /\ \A i \in 1 .. Len(f.kids) : Lists(n, f.kids[i])
  /\ \A i \in 1 .. Len(view[n]) : \E j \in 1 .. Len(f.kids) : f.kids[j] = view[n][i].child

\* A call of ADF_Delete begins with all children of its node, once each.
LEMMA KidsOfNode ==
  ASSUME StoreInv, Once, ~Dropping, op.do \notin {"enter", "count", "uncount"},
         NEW pid \in Node, NEW n \in Live, NEW f, f = Frame(pid, n)
  PROVE  f \in Call /\ f.pid = pid /\ f.id = n /\ KnowsKids(f, n)
<1>1. /\ f \in Call /\ f.pid = pid /\ f.id = n /\ Len(f.kids) = Len(view[n])
      /\ \A i \in 1 .. Len(view[n]) : f.kids[i] = view[n][i].child
  BY CallFacts
<1>2. \A i, j \in 1 .. Len(view[n]) : view[n][i].child = view[n][j].child => i = j
  BY DEF Once
<1> QED  BY <1>1, <1>2 DEF Lists, KnowsKids

\* Delete keeps the lists of children.
LEMMA DeleteLists ==
  ASSUME StoreInv, ListInv, NEW pid \in Node, NEW id \in Node, Delete(pid, id)
  PROVE  StoreInv' /\ ListInv' /\ view' = view /\ Live' = Live /\ ~Dropping /\ ~Dropping'
<1>1. /\ op = Idle /\ id \in Live /\ hdr' = hdr /\ op' = [Idle EXCEPT !.do = "children"]
      /\ frames' = <<Frame(pid, id)>>
  BY DEF Delete
<1>2. op.do = "idle" /\ frames = <<>> /\ ~Adding /\ ~Dropping /\ \A x : ~Unlisted(x)
  BY <1>1, IdleState
<1>3. op' \in Operation /\ op'.do = "children" /\ op'.from = Nobody
  BY <1>1, UnusedFacts DEF Idle, Operation, Steps
<1>4. PICK f : f = Frame(pid, id)
  OBVIOUS
<1>5. /\ f \in Call /\ f.pid = pid /\ f.id = id
      /\ \A i, j \in 1 .. Len(f.kids) : f.kids[i] = f.kids[j] => i = j
      /\ \A i \in 1 .. Len(f.kids) : Lists(id, f.kids[i])
      /\ \A i \in 1 .. Len(view[id]) : \E j \in 1 .. Len(f.kids) : f.kids[j] = view[id][i].child
  <2>1. f \in Call /\ f.pid = pid /\ f.id = id /\ KnowsKids(f, id)
    BY <1>1, <1>2, <1>4, KidsOfNode DEF ListInv
  <2> QED  BY <2>1 DEF KnowsKids
<1>6. frames' = <<f>> /\ frames' \in Seq(Call) /\ Len(frames') = 1 /\ frames'[1] = f /\ frames' # <<>>
  BY <1>1, <1>4, <1>5
<1>7. ~Adding' /\ ~Dropping' /\ \A x : ~Unlisted(x)'
  BY <1>3, <1>6 DEF Adding, Dropping, Unlisted
<1>8. StoreInv' /\ view' = view /\ Live' = Live
  <2>1. RoomForEntry'
    BY <1>7 DEF RoomForEntry
  <2> QED  BY <2>1, <1>1, <1>2, <1>3, <1>6, QuietStore
<1>9. Leads' /\ Once' /\ Listed'
  BY <1>1, <1>2, <1>7, <1>8, SameLists DEF ListInv
<1>10. Running' /\ AddGoesOn' /\ MoveGoesOn' /\ RenameGoesOn'
  BY <1>3, <1>6, <1>7 DEF Running, AddGoesOn, MoveGoesOn, RenameGoesOn
<1>11. CallGoesOn(1)'
  <2>1. \A x : x \in Kids(1)' <=> \E j \in 1 .. Len(f.kids) : x = f.kids[j]
    BY <1>6 DEF Kids
  <2>2. \A x \in Kids(1)' : Lists(id, x)'
    <3>1. \A x : Lists(id, x)' <=> Lists(id, x)
      BY <1>8 DEF Lists
    <3> QED  BY <3>1, <2>1, <1>5
  <2>3. \A i \in 1 .. Len(view[id]) : view[id][i].child \in Kids(1)'
    BY <2>1, <1>5
  <2> QED  BY <2>2, <2>3, <1>1, <1>5, <1>6, <1>8 DEF CallGoesOn
<1>12. DeleteGoesOn'
  <2>1. \A k \in 1 .. Len(frames') : k = 1
    BY <1>6
  <2>2. TopGoesOn'
    BY <1>3 DEF TopGoesOn
  <2> QED  BY <2>1, <2>2, <1>11 DEF DeleteGoesOn
<1> QED  BY <1>2, <1>7, <1>8, <1>9, <1>10, <1>12 DEF ListInv

\* The next child of the node is not one of the nodes that wait: they lie on a
\* path from above.
LEMMA ChildIsNew ==
  ASSUME StoreInv, ListInv, Hierarchy!Rooted, op.do = "children",
         NEW j \in 1 .. Len(frames), NEW c \in Kids(Len(frames))
  PROVE  frames[j].id # c
<1> DEFINE S == {frames[k].id : k \in 1 .. Len(frames)}
<1>1. PICK len \in Nat \ {0} : len = Len(frames)
  <2>1. Len(frames) \in Nat
    BY DEF StoreInv, Types
  <2> QED  BY <2>1
<1>2. /\ \A k \in 1 .. len : CallGoesOn(k)
      /\ ~Dropping /\ \A x : ~Unlisted(x)
  BY <1>1 DEF ListInv, DeleteGoesOn, Dropping, Unlisted, Adding
<1>3. PICK t : t = frames[len].id
  OBVIOUS
<1>4. t \in Live /\ Lists(t, c)
  <2>1. CallGoesOn(len)
    BY <1>1, <1>2
  <2> QED  BY <2>1, <1>1, <1>3 DEF CallGoesOn
<1> SUFFICES ASSUME frames[j].id = c PROVE FALSE
  OBVIOUS
<1>5. \A k \in 1 .. len : k > 1 => frames[k - 1].id \in Live /\ Lists(frames[k - 1].id, frames[k].id)
  <2> SUFFICES ASSUME NEW k \in 1 .. len, k > 1
               PROVE  frames[k - 1].id \in Live /\ Lists(frames[k - 1].id, frames[k].id)
    OBVIOUS
  <2>1. k - 1 \in 1 .. len
    OBVIOUS
  <2> QED  BY <2>1, <1>2 DEF CallGoesOn
<1>6. j = 1
  <2> SUFFICES ASSUME j > 1 PROVE FALSE
    BY <1>1
  <2>1. frames[j - 1].id \in Live /\ Lists(frames[j - 1].id, c)
    BY <1>1, <1>5
  <2>2. frames[j - 1].id = t
    BY <2>1, <1>2, <1>4, OneLister DEF ListInv
  <2>3. j - 1 \in 1 .. len /\ j - 1 # len
    BY <1>1
  <2> QED  BY <2>2, <2>3, <1>1, <1>2, <1>3 DEF CallGoesOn
<1>7. \A n \in Live : \A x : Lists(n, x) => x \in DOMAIN ViewTree /\ ViewTree[x].parent = n
  <2> SUFFICES ASSUME NEW n \in Live, NEW x, Lists(n, x)
               PROVE  x \in DOMAIN ViewTree /\ ViewTree[x].parent = n
    OBVIOUS
  <2>1. PICK i \in 1 .. Len(view[n]) : view[n][i].child = x
    BY DEF Lists
  <2>2. x \in Live
    BY <2>1 DEF ListInv, Leads
  <2>3. Hangs(n, i)
    BY <1>2 DEF Hangs
  <2>4. ViewTree[view[n][i].child] = [parent |-> n, name |-> view[n][i].name]
    BY <2>3, TreeFacts
  <2> QED  BY <2>1, <2>2, <2>4, TreeFacts
<1>8. \A x \in S : x \in DOMAIN ViewTree /\ ViewTree[x].parent \in S
  <2> SUFFICES ASSUME NEW k \in 1 .. len
               PROVE  frames[k].id \in DOMAIN ViewTree /\ ViewTree[frames[k].id].parent \in S
    BY <1>1
  <2>1. CASE k = 1
    <3>1. frames[k].id = c
      BY <2>1, <1>6
    <3>2. len \in 1 .. Len(frames)
      BY <1>1
    <3> QED  BY <3>1, <3>2, <1>3, <1>4, <1>7
  <2>2. CASE k > 1
    <3>1. frames[k - 1].id \in Live /\ Lists(frames[k - 1].id, frames[k].id)
      BY <2>2, <1>5
    <3>2. k - 1 \in 1 .. Len(frames)
      BY <2>2, <1>1
    <3> QED  BY <3>1, <3>2, <1>7
  <2> QED  BY <2>1, <2>2
<1>9. S # {}
  BY <1>1
<1> HIDE DEF S
<1>10. S \in SUBSET Hierarchy!Nodes
  BY <1>8 DEF Hierarchy!Nodes
<1> QED  BY <1>8, <1>9, <1>10 DEF Hierarchy!Rooted

\* DeleteChild keeps the lists of children.
LEMMA DeleteChildLists ==
  ASSUME StoreInv, ListInv, Hierarchy!Rooted, DeleteChild
  PROVE  StoreInv' /\ ListInv' /\ view' = view /\ Live' = Live /\ ~Dropping /\ ~Dropping'
<1>1. /\ op.do = "children" /\ Top.kids # <<>> /\ hdr' = hdr /\ op' = op
      /\ frames' = Append(Append(Popped, [Top EXCEPT !.kids = Tail(@)]),
                          Frame(Top.id, Head(Top.kids)))
  BY DEF DeleteChild
<1>2. frames # <<>>
  BY <1>1 DEF ListInv, Running
<1>3. PICK len \in Nat \ {0} :
        /\ len = Len(frames) /\ Top = frames[len] /\ Popped \in Seq(Call) /\ Len(Popped) = len - 1
        /\ Top \in Call /\ \A k \in 1 .. len - 1 : Popped[k] = frames[k]
  BY <1>2, FrameFacts
<1>4. PICK t, h, kids : t = Top.id /\ kids = Top.kids /\ h = kids[1]
  OBVIOUS
<1>5. kids \in Seq(Node) /\ kids # <<>> /\ Len(kids) \in Nat \ {0} /\ h = Head(kids)
      /\ \A i \in 1 .. Len(Tail(kids)) : Tail(kids)[i] = kids[i + 1] /\ i + 1 \in 1 .. Len(kids)
      /\ Tail(kids) \in Seq(Node) /\ Len(Tail(kids)) = Len(kids) - 1
  BY <1>1, <1>3, <1>4 DEF Call
<1>6. /\ \A k \in 1 .. len : CallGoesOn(k)
      /\ ~Dropping /\ \A x : ~Unlisted(x)
  BY <1>1, <1>2, <1>3 DEF ListInv, DeleteGoesOn, Dropping, Unlisted, Adding
<1>7. /\ CallGoesOn(len) /\ t \in Live /\ frames[len].id = t /\ frames[len].kids = kids
  <2>1. len \in 1 .. len
    BY <1>3
  <2> QED  BY <2>1, <1>3, <1>4, <1>6 DEF CallGoesOn
<1>8. h \in Kids(len) /\ Lists(t, h) /\ h \in Live
  <2>1. 1 \in 1 .. Len(kids)
    BY <1>5
  <2>2. h \in Kids(len)
    BY <2>1, <1>4, <1>7 DEF Kids
  <2>3. Lists(t, h)
    BY <2>2, <1>7 DEF CallGoesOn
  <2> QED  BY <2>2, <2>3, <1>7 DEF ListInv, Leads, Lists
<1>9. \A j \in 1 .. len : frames[j].id # h
  BY <1>1, <1>3, <1>8, ChildIsNew
<1>10. PICK w, f : w = [Top EXCEPT !.kids = Tail(@)] /\ f = Frame(t, h)
  OBVIOUS
<1>11. w \in Call /\ w.pid = Top.pid /\ w.id = t /\ w.kids = Tail(kids)
  <2>1. \A c \in Call, s \in Seq(Node) :
          /\ [c EXCEPT !.kids = s] \in Call /\ [c EXCEPT !.kids = s].pid = c.pid
          /\ [c EXCEPT !.kids = s].id = c.id /\ [c EXCEPT !.kids = s].kids = s
    BY DEF Call
  <2>2. w = [Top EXCEPT !.kids = Tail(kids)]
    BY <1>4, <1>10
  <2>3. Tail(kids) \in Seq(Node)
    BY <1>5
  <2>4. Top \in Call /\ t = Top.id
    BY <1>3, <1>4
  <2> QED  BY <2>1, <2>2, <2>3, <2>4
<1>12. t \in Node /\ h \in Node
  BY <1>7, <1>8, HeaderFacts
<1>13. /\ f \in Call /\ f.pid = t /\ f.id = h
       /\ \A i, j \in 1 .. Len(f.kids) : f.kids[i] = f.kids[j] => i = j
       /\ \A i \in 1 .. Len(f.kids) : Lists(h, f.kids[i])
       /\ \A i \in 1 .. Len(view[h]) : \E j \in 1 .. Len(f.kids) : f.kids[j] = view[h][i].child
  <2>1. op.do \notin {"enter", "count", "uncount"} /\ Once /\ f = Frame(t, h)
    BY <1>1, <1>10 DEF ListInv
  <2>2. f \in Call /\ f.pid = t /\ f.id = h /\ KnowsKids(f, h)
    BY <2>1, <1>6, <1>8, <1>12, KidsOfNode
  <2> QED  BY <2>2 DEF KnowsKids
<1>14. frames' = Append(Append(Popped, w), f)
  BY <1>1, <1>4, <1>5, <1>10
<1>15. /\ frames' \in Seq(Call) /\ Len(frames') = len + 1 /\ frames'[len] = w /\ frames'[len + 1] = f
       /\ \A k \in 1 .. len - 1 : frames'[k] = frames[k]
  BY <1>3, <1>11, <1>13, <1>14
<1>16. frames' # <<>>
  BY <1>3, <1>15
<1>17. ~Adding /\ ~Adding' /\ ~Dropping' /\ \A x : ~Unlisted(x)'
  BY <1>1, <1>16 DEF Adding, Dropping, Unlisted
<1>18. StoreInv' /\ view' = view /\ Live' = Live
  <2>1. RoomForEntry'
    BY <1>17 DEF RoomForEntry
  <2>2. op' \in Operation
    BY <1>1 DEF StoreInv, Types
  <2> QED  BY <2>1, <2>2, <1>1, <1>15, QuietStore
<1>19. Leads' /\ Once' /\ Listed'
  BY <1>1, <1>6, <1>17, <1>18, SameLists DEF ListInv
<1>20. Running' /\ AddGoesOn' /\ MoveGoesOn' /\ RenameGoesOn'
  BY <1>1, <1>16, <1>17 DEF ListInv, Running, AddGoesOn, MoveGoesOn, RenameGoesOn
<1>21. /\ \A k \in 1 .. len : frames'[k].id = frames[k].id /\ frames'[k].pid = frames[k].pid
       /\ frames'[len].id = t /\ frames'[len + 1].id = h
  <2> SUFFICES ASSUME NEW k \in 1 .. len
               PROVE  frames'[k].id = frames[k].id /\ frames'[k].pid = frames[k].pid
    BY <1>11, <1>13, <1>15
  <2>1. CASE k = len
    BY <2>1, <1>3, <1>7, <1>11, <1>15
  <2>2. CASE k # len
    <3>1. k \in 1 .. len - 1
      BY <2>2, <1>3
    <3> QED  BY <3>1, <1>15
  <2> QED  BY <2>1, <2>2
<1>22. \A k \in 1 .. len + 1 : k \in 1 .. len \/ k = len + 1
  BY <1>3
<1>23. \A i, j \in 1 .. len + 1 : frames'[i].id = frames'[j].id => i = j
  <2> SUFFICES ASSUME NEW i \in 1 .. len + 1, NEW j \in 1 .. len + 1, frames'[i].id = frames'[j].id
               PROVE  i = j
    OBVIOUS
  <2>1. CASE i \in 1 .. len /\ j \in 1 .. len
    BY <2>1, <1>3, <1>6, <1>21 DEF CallGoesOn
  <2>2. CASE i = len + 1 /\ j \in 1 .. len
    BY <2>2, <1>9, <1>21
  <2>3. CASE i \in 1 .. len /\ j = len + 1
    BY <2>3, <1>9, <1>21
  <2> QED  BY <2>1, <2>2, <2>3, <1>22
<1>24. \A n, x : Lists(n, x)' <=> Lists(n, x)
  BY <1>18 DEF Lists
<1>25. \A k \in 2 .. len + 1 : /\ frames'[k].pid = frames'[k - 1].id
                               /\ \E n, x : n = frames'[k - 1].id /\ x = frames'[k].id /\ Lists(n, x)
  <2> SUFFICES ASSUME NEW k \in 2 .. len + 1
               PROVE  /\ frames'[k].pid = frames'[k - 1].id
                      /\ \E n, x : n = frames'[k - 1].id /\ x = frames'[k].id /\ Lists(n, x)
    OBVIOUS
  <2>1. CASE k = len + 1
    <3>1. k - 1 = len
      BY <2>1, <1>3
    <3> QED  BY <2>1, <3>1, <1>8, <1>13, <1>15, <1>21
  <2>2. CASE k # len + 1
    <3>1. k \in 1 .. len /\ k - 1 \in 1 .. len /\ k > 1
      BY <2>2, <1>3
    <3>2. frames[k].pid = frames[k - 1].id /\ Lists(frames[k - 1].id, frames[k].id)
      BY <3>1, <1>6 DEF CallGoesOn
    <3> QED  BY <3>1, <3>2, <1>21
  <2> QED  BY <2>1, <2>2
<1>26. ASSUME NEW k \in 1 .. len - 1
       PROVE  CallGoesOn(k)'
  <2>1. /\ k \in 1 .. len /\ k + 1 \in 1 .. len /\ k < len /\ k < len + 1 /\ k \in 1 .. len + 1
        /\ k > 1 => k \in 2 .. len + 1
    BY <1>3
  <2>2. CallGoesOn(k) /\ frames'[k] = frames[k] /\ Len(frames') = len + 1
    BY <2>1, <1>6, <1>15
  <2>3. PICK id, next : /\ id = frames[k].id /\ id = frames'[k].id
                        /\ next = frames[k + 1].id /\ next = frames'[k + 1].id
    BY <2>1, <1>21
  <2>4. Kids(k)' = Kids(k)
    BY <2>2 DEF Kids
  <2>5. /\ id \in Live'
        /\ \A i, j \in 1 .. Len(frames[k].kids) : frames[k].kids[i] = frames[k].kids[j] => i = j
        /\ \A c \in Kids(k) : Lists(id, c)' /\ c # next
        /\ \A i \in 1 .. Len(view[id]) : view[id][i].child \in Kids(k) \/ view[id][i].child = next
    BY <2>1, <2>2, <2>3, <1>3, <1>18, <1>24 DEF CallGoesOn
  <2>6. \A j \in 1 .. len + 1 : frames'[j].id = id => j = k
    BY <2>1, <2>3, <1>23
  <2>7. PICK prev : prev = frames'[k - 1].id
    OBVIOUS
  <2>8. k > 1 => frames'[k].pid = prev /\ Lists(prev, id)'
    BY <2>1, <2>3, <2>7, <1>24, <1>25
  <2> QED
    BY <2>1, <2>2, <2>3, <2>4, <2>5, <2>6, <2>7, <2>8, <1>18 DEF CallGoesOn
<1>27. CallGoesOn(len)'
  <2>1. len < len + 1 /\ len \in 1 .. len + 1 /\ (len > 1 => len \in 2 .. len + 1)
    BY <1>3
  <2>2. /\ frames'[len].kids = Tail(kids) /\ frames'[len].id = t /\ frames'[len + 1].id = h
        /\ Len(frames') = len + 1
    BY <1>11, <1>15, <1>21
  <2>3. /\ \A i, j \in 1 .. Len(kids) : kids[i] = kids[j] => i = j
        /\ \A c \in Kids(len) : Lists(t, c)
        /\ \A i \in 1 .. Len(view[t]) : view[t][i].child \in Kids(len)
    <3>1. ~(len < Len(frames))
      BY <1>3
    <3> QED  BY <3>1, <1>7 DEF CallGoesOn
  <2>4. \A c : c \in Kids(len)' <=> \E i \in 1 .. Len(Tail(kids)) : c = Tail(kids)[i]
    BY <2>2 DEF Kids
  <2>5. \A c : c \in Kids(len) <=> \E i \in 1 .. Len(kids) : c = kids[i]
    BY <1>7 DEF Kids
  <2>6. \A i, j \in 1 .. Len(Tail(kids)) : Tail(kids)[i] = Tail(kids)[j] => i = j
    <3> SUFFICES ASSUME NEW i \in 1 .. Len(Tail(kids)), NEW j \in 1 .. Len(Tail(kids)),
                        Tail(kids)[i] = Tail(kids)[j]
                 PROVE  i = j
      OBVIOUS
    <3>1. i + 1 = j + 1
      BY <2>3, <1>5
    <3>2. i \in Nat /\ j \in Nat
      BY <1>5
    <3> QED  BY <3>1, <3>2
  <2>7. \A c \in Kids(len)' : Lists(t, c)' /\ c # h
    <3> SUFFICES ASSUME NEW i \in 1 .. Len(Tail(kids))
                 PROVE  Tail(kids)[i] \in Kids(len) /\ Tail(kids)[i] # h
      BY <2>3, <2>4, <1>24
    <3>1. Tail(kids)[i] = kids[i + 1] /\ i + 1 \in 1 .. Len(kids)
      BY <1>5
    <3>2. 1 \in 1 .. Len(kids) /\ i + 1 # 1
      BY <1>5
    <3> QED  BY <3>1, <3>2, <2>3, <2>5, <1>4
  <2>8. \A c \in Kids(len) : c \in Kids(len)' \/ c = h
    <3> SUFFICES ASSUME NEW i \in 1 .. Len(kids), i # 1
                 PROVE  kids[i] \in Kids(len)'
      BY <2>5, <1>4
    <3>1. i - 1 \in 1 .. Len(Tail(kids)) /\ (i - 1) + 1 = i
      BY <1>5
    <3> QED  BY <3>1, <2>4, <1>5
  <2>9. \A i \in 1 .. Len(view[t]) : view[t][i].child \in Kids(len)' \/ view[t][i].child = h
    BY <2>3, <2>8
  <2>10. \A j \in 1 .. len + 1 : frames'[j].id = t => j = len
    BY <2>1, <2>2, <1>23
  <2>11. PICK prev : prev = frames'[len - 1].id
    OBVIOUS
  <2>12. len > 1 => frames'[len].pid = prev /\ Lists(prev, t)'
    BY <2>1, <2>2, <2>11, <1>24, <1>25
  <2> QED
    BY <2>1, <2>2, <2>6, <2>7, <2>9, <2>10, <2>11, <2>12, <1>7, <1>18 DEF CallGoesOn
<1>28. CallGoesOn(len + 1)'
  <2> DEFINE new == len + 1
  <2>1. /\ new \in 1 .. new /\ new > 1 /\ ~(new < Len(frames')) /\ new - 1 = len /\ Len(frames') = new
    BY <1>3, <1>15
  <2>2. frames'[new].id = h /\ frames'[new].pid = t /\ frames'[new - 1].id = t /\ frames'[new] = f
    BY <2>1, <1>13, <1>15, <1>21
  <2>3. \A c : c \in Kids(new)' <=> \E i \in 1 .. Len(f.kids) : c = f.kids[i]
    BY <2>2 DEF Kids
  <2>4. \A c \in Kids(new)' : Lists(h, c)'
    BY <2>3, <1>13, <1>24
  <2>5. \A i \in 1 .. Len(view[h]) : view[h][i].child \in Kids(new)'
    BY <2>3, <1>13
  <2>6. \A j \in 1 .. new : frames'[j].id = h => j = new
    BY <2>1, <2>2, <1>23
  <2>7. Lists(t, h)'
    BY <1>8, <1>24
  <2> HIDE DEF new
  <2>8. CallGoesOn(new)'
    BY <2>1, <2>2, <2>4, <2>5, <2>6, <2>7, <1>8, <1>13, <1>18 DEF CallGoesOn
  <2> QED  BY <2>8 DEF new
<1>29. DeleteGoesOn'
  <2>1. \A k \in 1 .. len + 1 : k \in 1 .. len - 1 \/ k = len \/ k = len + 1
    BY <1>3
  <2>2. TopGoesOn'
    BY <1>1 DEF TopGoesOn
  <2> QED  BY <2>1, <2>2, <1>15, <1>26, <1>27, <1>28 DEF DeleteGoesOn
<1> QED  BY <1>6, <1>17, <1>18, <1>19, <1>20, <1>29 DEF ListInv

\* A new file has a root with an empty list.
LEMMA StartLists == Init => StoreInv /\ ListInv
<1> SUFFICES ASSUME Init PROVE StoreInv /\ ListInv
  OBVIOUS
<1>1. /\ Live = {Root} /\ hdr[Root] = NewHeader(<<"root", FALSE>>)
      /\ op = Idle /\ frames = <<>> /\ op.do = "idle" /\ op.from = Nobody
  BY IdleFacts DEF Init, Live, Idle
<1>2. /\ hdr[Root].count = 0 /\ hdr[Root].room = 0 /\ hdr[Root].table = <<>>
      /\ hdr[Root] \in Header
  BY <1>1, UnusedFacts DEF NewHeader, Header, Table
<1>3. hdr \in [Live -> Header]
  BY <1>1, <1>2 DEF Init
<1>4. Size(Root) = 0
  BY <1>1, <1>2 DEF Size
<1>5. StoreInv
  <2>1. Types
    BY <1>1, <1>3, IdleFacts, TreeAssumption DEF Types
  <2>2. Rooms
    BY <1>1, <1>2, <1>4, UnusedFacts DEF Rooms
  <2> QED  BY <2>1, <2>2, <1>1 DEF StoreInv, RoomForEntry, LastUnused, Adding
<1>6. Len(view[Root]) = 0
  BY <1>1, <1>4, <1>5, ViewFacts
<1>7. Leads /\ Once /\ Listed
  BY <1>1, <1>6 DEF Leads, Once, Listed
<1>8. Running /\ AddGoesOn /\ MoveGoesOn /\ RenameGoesOn /\ DeleteGoesOn
  BY <1>1, NoCalls DEF Running, AddGoesOn, MoveGoesOn, RenameGoesOn, Adding, Dropping
<1> QED  BY <1>5, <1>7, <1>8 DEF ListInv

-----------------------------------------------------------------------------
(* What every step does to the tree.                                       *)

\* The entries that make the tree.
Hung(n, e) ==
  n \in Live /\ \E i \in 1 .. Len(view[n]) : view[n][i] = e /\ Hangs(n, i)

\* The abstract tree, by the entries a node hangs on.
LEMMA HungFacts ==
  StoreInv /\ ListInv =>
    /\ \A c : c \in DOMAIN ViewTree <=> \E n, e : Hung(n, e) /\ e.child = c
    /\ ViewTree = [c \in DOMAIN ViewTree |-> ViewTree[c]]
    /\ \A n, e : Hung(n, e) => /\ n \in Live /\ e \in Entry /\ e.child \in Live \ {Root}
                               /\ ViewTree[e.child] = [parent |-> n, name |-> e.name]
<1> SUFFICES ASSUME StoreInv, ListInv
             PROVE  /\ \A c : c \in DOMAIN ViewTree <=> \E n, e : Hung(n, e) /\ e.child = c
                    /\ \A n, e : Hung(n, e) =>
                         /\ n \in Live /\ e \in Entry /\ e.child \in Live \ {Root}
                         /\ ViewTree[e.child] = [parent |-> n, name |-> e.name]
  BY TreeFacts
<1>1. ASSUME NEW n, NEW e, Hung(n, e)
      PROVE  /\ n \in Live /\ e \in Entry /\ e.child \in Live \ {Root}
             /\ ViewTree[e.child] = [parent |-> n, name |-> e.name]
  <2>1. PICK i \in 1 .. Len(view[n]) : view[n][i] = e /\ Hangs(n, i) /\ n \in Live
    BY <1>1 DEF Hung
  <2>2. view[n][i].child \in Live \ {Root}
    BY <2>1 DEF ListInv, Leads
  <2>3. e \in Entry
    BY <2>1, ViewFacts
  <2> QED  BY <2>1, <2>2, <2>3, TreeFacts
<1>2. ASSUME NEW n, NEW e, Hung(n, e)
      PROVE  e.child \in DOMAIN ViewTree
  <2>1. n \in Live /\ e.child \in Live /\ Lists(n, e.child)
    BY <1>1, <1>2 DEF Hung, Lists
  <2> QED  BY <2>1, TreeFacts
<1>3. ASSUME NEW c \in DOMAIN ViewTree
      PROVE  \E n, e : Hung(n, e) /\ e.child = c
  <2>1. PICK n \in Live : Lists(n, c)
    BY TreeFacts
  <2>2. CASE Dropping /\ c = op.child
    <3>1. PICK q \in Live : \E i, j \in Nat : TwoEntries(q, i, j)
      BY <2>2 DEF ListInv, MoveGoesOn
    <3>2. op.parent \in Live /\ \E i \in 1 .. Len(view[op.parent]) : view[op.parent][i].child = c
      BY <2>2, <3>1 DEF TwoEntries
    <3> QED  BY <3>2 DEF Hung, Hangs
  <2>3. CASE ~(Dropping /\ c = op.child)
    BY <2>1, <2>3 DEF Lists, Hung, Hangs
  <2> QED  BY <2>2, <2>3
<1> QED  BY <1>1, <1>2, <1>3

\* The same after a step.
LEMMA HungFacts2 ==
  (StoreInv /\ ListInv)' =>
    (/\ \A c : c \in DOMAIN ViewTree <=> \E n, e : Hung(n, e) /\ e.child = c
    /\ ViewTree = [c \in DOMAIN ViewTree |-> ViewTree[c]]
    /\ \A n, e : Hung(n, e) => /\ n \in Live /\ e \in Entry /\ e.child \in Live \ {Root}
                               /\ ViewTree[e.child] = [parent |-> n, name |-> e.name])'
BY HungFacts, PTL

\* A step that leaves every node on its entry leaves the abstract tree as it is.
LEMMA SameTree ==
  ASSUME StoreInv, ListInv, StoreInv', ListInv', \A n, e : Hung(n, e)' <=> Hung(n, e)
  PROVE  ViewTree' = ViewTree
<1>1. \A c : c \in DOMAIN ViewTree' <=> c \in DOMAIN ViewTree
  BY HungFacts, HungFacts2
<1>2. DOMAIN ViewTree' = DOMAIN ViewTree
  BY <1>1
<1>3. ASSUME NEW c \in DOMAIN ViewTree
      PROVE  ViewTree'[c] = ViewTree[c]
  <2>1. PICK n, e : Hung(n, e) /\ e.child = c
    BY HungFacts
  <2>2. Hung(n, e)'
    BY <2>1
  <2>3. ViewTree[e.child] = [parent |-> n, name |-> e.name]
    BY <2>1, HungFacts
  <2>4. ViewTree'[e.child] = [parent |-> n, name |-> e.name]
    <3>1. \A m, x : Hung(m, x)' => ViewTree'[x.child] = [parent |-> m, name |-> x.name]
      BY HungFacts2
    <3> QED  BY <2>2, <3>1
  <2> QED  BY <2>1, <2>3, <2>4
<1>4. ViewTree = [c \in DOMAIN ViewTree |-> ViewTree[c]]
  BY HungFacts
<1>5. ViewTree' = [c \in DOMAIN ViewTree' |-> ViewTree'[c]]
  BY HungFacts2
<1> QED  BY <1>2, <1>3, <1>4, <1>5

\* Steps that leave the lists alone, but for empty ones.
LEMMA QuietTree ==
  ASSUME StoreInv, ListInv, StoreInv', ListInv', ~Dropping, ~Dropping',
         \A n \in Live : n \in Live' \/ Len(view[n]) = 0,
         \A n \in Live' : n \in Live \/ Len(view'[n]) = 0,
         \A n \in Live : n \in Live' => view'[n] = view[n]
  PROVE  ViewTree' = ViewTree
<1>1. \A n, e : Hung(n, e)' <=> Hung(n, e)
  BY DEF Hung, Hangs
<1> QED  BY <1>1, SameTree

Has(n, e) == n \in Live /\ \E i \in 1 .. Len(view[n]) : view[n][i] = e

\* A node hangs on an entry, on that of its old parent during a move.
LEMMA HungForm ==
  \A n, e : Hung(n, e) <=> Has(n, e) /\ (Dropping /\ e.child = op.child => n = op.parent)
BY DEF Hung, Has, Hangs

\* The same after a step.
LEMMA HungForm2 ==
  \A n, e : Hung(n, e)' <=> Has(n, e)' /\ (Dropping' /\ e.child = op'.child => n = op'.parent)
BY DEF Hung, Has, Hangs

\* While no entry is being renamed an entry is what the header of the node says.
LEMMA EntryOf ==
  ASSUME StoreInv, ListInv, op.do # "rename", NEW n, NEW e, Has(n, e)
  PROVE  /\ e = [name |-> hdr[e.child].name, child |-> e.child]
         /\ Lists(n, e.child) /\ e.child \in Live \ {Root} /\ n \in Live
<1>1. PICK i \in 1 .. Len(view[n]) : view[n][i] = e /\ n \in Live
  BY DEF Has
<1>2. e \in Entry
  BY <1>1, ViewFacts
<1>3. e.name = hdr[e.child].name /\ e.child \in Live \ {Root}
  BY <1>1 DEF ListInv, Leads
<1>4. e = [name |-> e.name, child |-> e.child]
  BY <1>2 DEF Entry
<1>5. Lists(n, e.child)
  BY <1>1 DEF Lists
<1> QED  BY <1>1, <1>3, <1>4, <1>5

\* The tree has every node that is listed, and the root.
LEMMA NodesExist ==
  ASSUME StoreInv, ListInv, NEW n \in Live, ~Unlisted(n)
  PROVE  Hierarchy!Exists(n)
<1>1. CASE n = Root
  BY <1>1 DEF Hierarchy!Exists
<1>2. CASE n # Root
  <2>1. \E m \in Live : Lists(m, n)
    BY <1>2 DEF ListInv, Listed
  <2> QED  BY <2>1, TreeFacts DEF Hierarchy!Exists, Hierarchy!Nodes
<1> QED  BY <1>1, <1>2

\* ADF_Create is done, or ADF_Move_Child has the second entry.
LEMMA CountTree ==
  ASSUME StoreInv, ListInv, Count
  PROVE  /\ op.from = Nobody => Hierarchy!Create(op.parent, op.child, hdr[op.child].name)
         /\ op.from # Nobody => ViewTree' = ViewTree
         /\ op.from # Nobody =>
              \A n \in Live : Lists(n, op.child)' => Lists(n, op.child) \/ n = op.parent
<1>1. PICK p \in Live, c \in Live \ {Root}, m \in {hdr[op.child].name} : p = op.parent /\ c = op.child
  BY CountStore
<1>2. PICK e : e = [name |-> m, child |-> c]
  OBVIOUS
<1>3. e.name = m /\ e.child = c
  BY <1>2
<1>4. /\ StoreInv' /\ Live' = Live
      /\ \A n \in Live : n # p => view'[n] = view[n]
  BY <1>1, CountStore
<1>5. /\ ListInv' /\ ~Dropping /\ frames = <<>>
      /\ op.from = Nobody => op' = Idle
      /\ op.from # Nobody => Dropping' /\ op'.parent = op.from /\ op'.child = c
  BY <1>1, CountLists
<1>6. /\ Len(view'[p]) = Len(view[p]) + 1 /\ Len(view[p]) \in Nat
      /\ \A i \in 1 .. Len(view[p]) : view'[p][i] = view[p][i]
      /\ view'[p][Len(view[p]) + 1] = e
  <2>1. Appended(op.parent, [name |-> hdr[op.child].name, child |-> op.child])
    BY CountLists
  <2>2. Appended(p, e)
    BY <2>1, <1>1, <1>2
  <2> QED  BY <2>2, ViewFacts DEF Appended
<1>7. \A n, x : Has(n, x)' <=> Has(n, x) \/ (n = p /\ x = e)
  <2> SUFFICES ASSUME NEW n, NEW x
               PROVE  Has(n, x)' <=> Has(n, x) \/ (n = p /\ x = e)
    OBVIOUS
  <2>1. CASE n # p
    BY <2>1, <1>4 DEF Has
  <2>2. CASE n = p
    <3> DEFINE sz == Len(view[p])
    <3>1. Has(n, x)' <=> \E i \in 1 .. sz + 1 : view'[p][i] = x
      BY <2>2, <1>4, <1>6 DEF Has
    <3>2. Has(n, x) <=> \E i \in 1 .. sz : view[p][i] = x
      BY <2>2 DEF Has
    <3>3. \A i : i \in 1 .. sz + 1 <=> i \in 1 .. sz \/ i = sz + 1
      BY <1>6
    <3>4. /\ \A i \in 1 .. sz : view'[p][i] = view[p][i]
          /\ view'[p][sz + 1] = e
      BY <1>6
    <3> HIDE DEF sz
    <3> QED  BY <2>2, <3>1, <3>2, <3>3, <3>4
  <2> QED  BY <2>1, <2>2
<1>8. op.do = "count" /\ Adding
  BY DEF Count, Adding
<1>9. op.from # Nobody =>
        \A n \in Live : Lists(n, op.child)' => Lists(n, op.child) \/ n = op.parent
  <2> SUFFICES ASSUME op.from # Nobody, NEW n \in Live, n # p, Lists(n, op.child)'
               PROVE  Lists(n, op.child)
    BY <1>1
  <2>1. op'.child = op.child
    BY <1>1, <1>5
  <2> QED  BY <2>1, <1>4 DEF Lists
<1>10. CASE op.from = Nobody
  <2>1. Unlisted(c) /\ ~Unlisted(p)
    BY <1>1, <1>5, <1>8, <1>10 DEF Unlisted, ListInv, AddGoesOn
  <2>2. \A n \in Live : ~Lists(n, c)
    BY <2>1 DEF ListInv, Listed
  <2>3. op'.do = "idle" /\ ~Dropping'
    BY <1>5, <1>10 DEF Idle, Dropping
  <2>4. \A n, x : Hung(n, x)' <=> Hung(n, x) \/ (n = p /\ x = e)
    BY <1>5, <1>7, <2>3, HungForm, HungForm2
  <2>5. /\ c \notin DOMAIN ViewTree
        /\ \A x : x \in DOMAIN ViewTree' <=> x \in DOMAIN ViewTree \/ x = c
    <3>1. c \notin DOMAIN ViewTree
      BY <2>2, TreeFacts
    <3>2. \A x : x \in DOMAIN ViewTree <=> \E n, y : Hung(n, y) /\ y.child = x
      BY HungFacts
    <3>3. \A x : x \in DOMAIN ViewTree' <=> \E n, y : Hung(n, y)' /\ y.child = x
      BY <1>4, <1>5, HungFacts2
    <3> QED  BY <3>1, <3>2, <3>3, <2>4, <1>3
  <2>6. ViewTree'[c] = [parent |-> p, name |-> m]
    <3>1. \A n, x : Hung(n, x)' => ViewTree'[x.child] = [parent |-> n, name |-> x.name]
      BY <1>4, <1>5, HungFacts2
    <3> QED  BY <3>1, <2>4, <1>3
  <2>7. ASSUME NEW d \in DOMAIN ViewTree
        PROVE  ViewTree'[d] = ViewTree[d]
    <3>1. PICK n, x : Hung(n, x) /\ x.child = d
      BY HungFacts
    <3>2. ViewTree[x.child] = [parent |-> n, name |-> x.name]
      BY <3>1, HungFacts
    <3>3. \A k, y : Hung(k, y)' => ViewTree'[y.child] = [parent |-> k, name |-> y.name]
      BY <1>4, <1>5, HungFacts2
    <3> QED  BY <3>1, <3>2, <3>3, <2>4
  <2>8. ViewTree' = [x \in DOMAIN ViewTree \cup {c} |-> IF x = c THEN [parent |-> p, name |-> m] ELSE ViewTree[x]]
    <3>1. DOMAIN ViewTree' = DOMAIN ViewTree \cup {c}
      BY <2>5
    <3>2. ViewTree' = [x \in DOMAIN ViewTree' |-> ViewTree'[x]]
      BY <1>4, <1>5, HungFacts2
    <3> QED  BY <3>1, <3>2, <2>5, <2>6, <2>7
  <2>9. Hierarchy!Exists(p)
    BY <2>1, NodesExist
  <2>10. ~Hierarchy!Exists(c)
    BY <2>5 DEF Hierarchy!Exists, Hierarchy!Nodes
  <2>11. ~Hierarchy!Taken(p, m)
    <3> SUFFICES ASSUME NEW d \in DOMAIN ViewTree, ViewTree[d].parent = p, ViewTree[d].name = m
                 PROVE  FALSE
      BY DEF Hierarchy!Taken, Hierarchy!Nodes
    <3>1. PICK n, x : Hung(n, x) /\ x.child = d
      BY HungFacts
    <3>4. ViewTree[x.child] = [parent |-> n, name |-> x.name]
      BY <3>1, HungFacts
    <3>2. n = p /\ x.name = m
      BY <3>1, <3>4
    <3>3. NameFree(p, m)
      <4>1. op.from # op.parent
        BY <1>1, <1>10, HeaderFacts, TreeAssumption
      <4> QED  BY <4>1, <1>1, <1>8 DEF ListInv, AddGoesOn
    <3> QED  BY <3>1, <3>2, <3>3 DEF Hung, NameFree
  <2>12. Hierarchy!Create(p, c, m)
    BY <2>8, <2>9, <2>10, <2>11 DEF Hierarchy!Create, Hierarchy!Nodes
  <2> QED  BY <2>12, <1>1, <1>9, <1>10
<1>11. CASE op.from # Nobody
  <2>1. op.from \in Live /\ Lists(op.from, c)
    BY <1>1, <1>8, <1>11 DEF ListInv, AddGoesOn
  <2>2. Dropping' /\ op'.parent = op.from /\ op'.child = c
    BY <1>5, <1>11
  <2>3. \A n, x : Has(n, x) /\ x.child = c => n = op.from /\ x = e
    <3> SUFFICES ASSUME NEW n, NEW x, Has(n, x), x.child = c
                 PROVE  n = op.from /\ x = e
      OBVIOUS
    <3>1. Lists(n, c) /\ n \in Live /\ x = e
      BY <1>1, <1>2, <1>8, EntryOf
    <3> QED  BY <3>1, <2>1, <1>5, OneLister DEF ListInv
  <2>4. Has(op.from, e)
    <3>1. PICK i \in 1 .. Len(view[op.from]) : view[op.from][i].child = c
      BY <2>1 DEF Lists
    <3>2. Has(op.from, view[op.from][i])
      BY <3>1, <2>1 DEF Has
    <3> QED  BY <3>1, <3>2, <2>3
  <2>5. \A n, x : Hung(n, x)' <=> Hung(n, x)
    BY <1>3, <1>5, <1>7, <2>2, <2>3, <2>4, HungForm, HungForm2
  <2> QED  BY <2>5, <1>4, <1>5, <1>9, <1>11, SameTree
<1> QED  BY <1>10, <1>11

\* ADF_Delete takes the entry of a node without children out of its parent's table.
LEMMA DropLeafTree ==
  ASSUME StoreInv, ListInv, Drop, frames # <<>>
  PROVE  Hierarchy!DeleteLeaf(op.child)
<1>1. PICK p, c : p = op.parent /\ c = op.child
  OBVIOUS
<1>2. StoreInv' /\ Live' = Live
  BY DropStore
<1>3. /\ ListInv' /\ ~Dropping' /\ ~Dropping /\ p \in Live
      /\ c = Top.id /\ op.do = "drop"
  BY <1>1, DropLists DEF Dropping, Drop
<1>4. PICK f \in Nat : Removed(p, f) /\ view[p][f].child = c
  BY <1>1, DropLists
<1>5. f \in 1 .. Len(view[p])
  BY <1>4 DEF Removed
<1>6. Len(view[c]) = 0
  <2>1. Len(frames) \in 1 .. Len(frames) /\ Len(frames) \in Nat /\ Top = frames[Len(frames)]
    BY FrameFacts
  <2>2. CallGoesOn(Len(frames)) /\ Top.kids = <<>>
    BY <1>3, <2>1 DEF ListInv, DeleteGoesOn, TopGoesOn
  <2>3. Kids(Len(frames)) = {}
    BY <2>1, <2>2 DEF Kids
  <2>4. c \in Live /\ \A i \in 1 .. Len(view[c]) : FALSE
    BY <1>3, <2>1, <2>2, <2>3 DEF CallGoesOn
  <2> QED  BY <2>4, ViewFacts
<1>7. \A n \in Live : \A i \in 1 .. Len(view[n]) : view[n][i].child = c => n = p /\ i = f
  BY <1>3, <1>4, <1>5 DEF ListInv, Once
<1>16. ASSUME NEW n \in Live
       PROVE  /\ \A k \in 1 .. Len(view'[n]) :
                   /\ OldIndex(p, f, n, k) \in 1 .. Len(view[n])
                   /\ view'[n][k] = view[n][OldIndex(p, f, n, k)]
                   /\ ~(n = p /\ OldIndex(p, f, n, k) = f)
              /\ \A k \in 1 .. Len(view[n]) : ~(n = p /\ k = f) =>
                   \E l \in 1 .. Len(view'[n]) : view'[n][l] = view[n][k]
  <2>1. Removed(p, f)
    BY <1>4
  <2>2. StoreInv
    OBVIOUS
  <2> QED  BY ONLY <2>1, <2>2, n \in Live, RemovedFacts
<1>17. \A n, x : Has(n, x)' => Has(n, x) /\ x.child # c
  <2> SUFFICES ASSUME NEW n \in Live, NEW k \in 1 .. Len(view'[n])
               PROVE  Has(n, view'[n][k]) /\ view'[n][k].child # c
    BY <1>2 DEF Has
  <2>1. PICK l \in 1 .. Len(view[n]) : view'[n][k] = view[n][l] /\ ~(n = p /\ l = f)
    BY <1>16
  <2> QED  BY <2>1, <1>7 DEF Has
<1>18. \A n, x : Has(n, x) /\ x.child # c => Has(n, x)'
  <2> SUFFICES ASSUME NEW n \in Live, NEW k \in 1 .. Len(view[n]), view[n][k].child # c
               PROVE  \E l \in 1 .. Len(view'[n]) : view'[n][l] = view[n][k]
    BY <1>2 DEF Has
  <2>1. ~(n = p /\ k = f)
    BY <1>4
  <2> QED  BY <2>1, <1>16
<1>8. \A n, x : Has(n, x)' <=> Has(n, x) /\ x.child # c
  BY <1>17, <1>18
<1>9. \A n, x : Hung(n, x)' <=> Hung(n, x) /\ x.child # c
  BY <1>3, <1>8, HungForm, HungForm2
<1>10. Hung(p, view[p][f])
  BY <1>3, <1>4, <1>5 DEF Hung, Hangs
<1>11. c \in DOMAIN ViewTree /\ \A x : x \in DOMAIN ViewTree' <=> x \in DOMAIN ViewTree /\ x # c
  <2>1. \A x : x \in DOMAIN ViewTree <=> \E n, y : Hung(n, y) /\ y.child = x
    BY HungFacts
  <2>2. \A x : x \in DOMAIN ViewTree' <=> \E n, y : Hung(n, y)' /\ y.child = x
    BY <1>2, <1>3, HungFacts2
  <2> QED  BY <2>1, <2>2, <1>4, <1>9, <1>10
<1>12. ASSUME NEW d \in DOMAIN ViewTree, d # c
       PROVE  ViewTree'[d] = ViewTree[d]
  <2>1. PICK n, x : Hung(n, x) /\ x.child = d
    BY HungFacts
  <2>2. ViewTree[x.child] = [parent |-> n, name |-> x.name]
    BY <2>1, HungFacts
  <2>3. \A k, y : Hung(k, y)' => ViewTree'[y.child] = [parent |-> k, name |-> y.name]
    BY <1>2, <1>3, HungFacts2
  <2> QED  BY <2>1, <2>2, <2>3, <1>9, <1>12
<1>13. ViewTree' = [x \in DOMAIN ViewTree \ {c} |-> ViewTree[x]]
  <2>1. DOMAIN ViewTree' = DOMAIN ViewTree \ {c}
    BY <1>11
  <2>2. ViewTree' = [x \in DOMAIN ViewTree' |-> ViewTree'[x]]
    BY <1>2, <1>3, HungFacts2
  <2> QED  BY <2>1, <2>2, <1>12
<1>14. \A d \in DOMAIN ViewTree : ViewTree[d].parent # c
  <2> SUFFICES ASSUME NEW d \in DOMAIN ViewTree, ViewTree[d].parent = c
               PROVE  FALSE
    OBVIOUS
  <2>1. PICK n, x : Hung(n, x) /\ x.child = d
    BY HungFacts
  <2>2. ViewTree[x.child] = [parent |-> n, name |-> x.name]
    BY <2>1, HungFacts
  <2>3. n = c
    BY <2>1, <2>2
  <2> QED  BY <2>1, <2>3, <1>6 DEF Hung
<1>15. Hierarchy!DeleteLeaf(c)
  BY <1>11, <1>13, <1>14 DEF Hierarchy!DeleteLeaf, Hierarchy!Nodes
<1> QED  BY <1>1, <1>15

\* The last step of ADF_Move_Child: the old parent drops the node.
LEMMA DropMovedTree ==
  ASSUME StoreInv, ListInv, NotBelowItself, Drop, frames = <<>>
  PROVE  \/ ViewTree' = ViewTree
         \/ \E q \in Live : Hierarchy!Proper(op.child, q) /\ Hierarchy!Move(op.child, q)
<1>1. PICK p, c, m : p = op.parent /\ c = op.child /\ m = hdr[op.child].name
  OBVIOUS
<1>2. PICK e : e = [name |-> m, child |-> c]
  OBVIOUS
<1>3. e.name = m /\ e.child = c
  BY <1>2
<1>4. /\ StoreInv' /\ Live' = Live /\ ListInv' /\ ~Dropping' /\ Dropping
      /\ p \in Live /\ op.do = "drop" /\ op.do # "rename"
  BY <1>1, DropStore, DropLists DEF Dropping, Drop
<1>5. PICK f \in Nat : Removed(p, f) /\ view[p][f].child = c
  BY <1>1, DropLists
<1>6. f \in 1 .. Len(view[p])
  BY <1>5 DEF Removed
<1>7. PICK q \in Live : \E i, j \in Nat : TwoEntries(q, i, j)
  BY <1>4 DEF ListInv, MoveGoesOn
<1>8. PICK i \in Nat, j \in Nat : TwoEntries(q, i, j)
  BY <1>7
<1>9. /\ i \in 1 .. Len(view[p]) /\ view[p][i].child = c
      /\ j \in 1 .. Len(view[q]) /\ view[q][j].child = c
      /\ ~(q = p /\ i = j)
      /\ \A n \in Live : \A k \in 1 .. Len(view[n]) :
           view[n][k].child = c => (n = p /\ k = i) \/ (n = q /\ k = j)
      /\ q # p => \A k \in 1 .. Len(view[q]) : k # j => view[q][k].name # m
  BY <1>1, <1>8 DEF TwoEntries
<1>10. \E k \in 1 .. Len(view[q]) : view[q][k].child = c /\ ~(q = p /\ k = f)
  BY <1>9
<1>11. \A n \in Live : \A k \in 1 .. Len(view[n]) :
         view[n][k].child = c /\ ~(n = p /\ k = f) => n = q
  BY <1>5, <1>6, <1>9
<1>12. \A n, x : Has(n, x) /\ x.child = c => x = e
  BY <1>1, <1>2, <1>4, EntryOf
<1>13. ASSUME NEW n \in Live
       PROVE  /\ \A k \in 1 .. Len(view'[n]) :
                   /\ OldIndex(p, f, n, k) \in 1 .. Len(view[n])
                   /\ view'[n][k] = view[n][OldIndex(p, f, n, k)]
                   /\ ~(n = p /\ OldIndex(p, f, n, k) = f)
              /\ \A k \in 1 .. Len(view[n]) : ~(n = p /\ k = f) =>
                   \E l \in 1 .. Len(view'[n]) : view'[n][l] = view[n][k]
  BY <1>5, RemovedFacts
<1>14. \A n, x : Has(n, x)' => Has(n, x) /\ (x.child = c => n = q)
  <2> SUFFICES ASSUME NEW n \in Live, NEW k \in 1 .. Len(view'[n])
               PROVE  /\ Has(n, view'[n][k])
                      /\ view'[n][k].child = c => n = q
    BY <1>4 DEF Has
  <2>1. PICK l \in 1 .. Len(view[n]) : view'[n][k] = view[n][l] /\ ~(n = p /\ l = f)
    BY <1>13
  <2> QED  BY <2>1, <1>11 DEF Has
<1>15. \A n, x : Has(n, x) /\ x.child # c => Has(n, x)'
  <2> SUFFICES ASSUME NEW n \in Live, NEW k \in 1 .. Len(view[n]), view[n][k].child # c
               PROVE  \E l \in 1 .. Len(view'[n]) : view'[n][l] = view[n][k]
    BY <1>4 DEF Has
  <2>1. ~(n = p /\ k = f)
    BY <1>5
  <2> QED  BY <2>1, <1>13
<1>16. Has(q, e) /\ Has(q, e)'
  <2>1. PICK k \in 1 .. Len(view[q]) : view[q][k].child = c /\ ~(q = p /\ k = f)
    BY <1>10
  <2>2. view[q][k] = e /\ Has(q, e)
    BY <2>1, <1>12 DEF Has
  <2>3. \E l \in 1 .. Len(view'[q]) : view'[q][l] = e
    BY <2>1, <2>2, <1>13
  <2> QED  BY <2>2, <2>3, <1>4 DEF Has
<1>17. Has(p, e)
  BY <1>5, <1>6, <1>12, <1>4 DEF Has
<1>18. \A n, x : Hung(n, x) <=> (Has(n, x) /\ x.child # c) \/ (n = p /\ x = e)
  BY <1>1, <1>3, <1>4, <1>12, <1>17, HungForm
<1>19. \A n, x : Hung(n, x)' <=> (Has(n, x) /\ x.child # c) \/ (n = q /\ x = e)
  <2>1. \A n, x : Hung(n, x)' <=> Has(n, x)'
    BY <1>4, HungForm2
  <2> QED  BY <2>1, <1>3, <1>12, <1>14, <1>15, <1>16
<1>20. CASE q = p
  <2>1. \A n, x : Hung(n, x)' <=> Hung(n, x)
    BY <1>18, <1>19, <1>20
  <2> QED  BY <2>1, <1>4, SameTree
<1>21. CASE q # p
  <2>1. \A n, x : Hung(n, x) => ViewTree[x.child] = [parent |-> n, name |-> x.name]
    BY HungFacts
  <2>2. \A n, x : Hung(n, x)' => ViewTree'[x.child] = [parent |-> n, name |-> x.name]
    BY <1>4, HungFacts2
  <2>3. ViewTree[c] = [parent |-> p, name |-> m] /\ ViewTree'[c] = [parent |-> q, name |-> m]
    BY <2>1, <2>2, <1>3, <1>18, <1>19
  <2>4. \A x : x \in DOMAIN ViewTree <=> \E n, y : Hung(n, y) /\ y.child = x
    BY HungFacts
  <2>5. \A x : x \in DOMAIN ViewTree' <=> \E n, y : Hung(n, y)' /\ y.child = x
    BY <1>4, HungFacts2
  <2>6. c \in DOMAIN ViewTree /\ \A x : x \in DOMAIN ViewTree' <=> x \in DOMAIN ViewTree
    BY <2>4, <2>5, <1>3, <1>18, <1>19
  <2>7. \A d \in DOMAIN ViewTree : d # c => ViewTree'[d] = ViewTree[d]
    <3> SUFFICES ASSUME NEW d \in DOMAIN ViewTree, d # c
                 PROVE  ViewTree'[d] = ViewTree[d]
      OBVIOUS
    <3>1. PICK n, x : Hung(n, x) /\ x.child = d
      BY <2>4
    <3>2. Hung(n, x)'
      BY <3>1, <1>3, <1>18, <1>19
    <3>3. ViewTree[x.child] = [parent |-> n, name |-> x.name]
      BY <3>1, <2>1
    <3>4. ViewTree'[x.child] = [parent |-> n, name |-> x.name]
      BY <3>2, <2>2
    <3> QED  BY <3>1, <3>3, <3>4
  <2>8. ViewTree' = [ViewTree EXCEPT ![c].parent = q]
    <3>1. ViewTree = [x \in DOMAIN ViewTree |-> ViewTree[x]]
      BY HungFacts
    <3>2. ViewTree' = [x \in DOMAIN ViewTree' |-> ViewTree'[x]]
      BY <1>4, HungFacts2
    <3>3. DOMAIN ViewTree' = DOMAIN ViewTree
      BY <2>6
    <3>4. [ViewTree[c] EXCEPT !.parent = q] = [parent |-> q, name |-> m]
      BY <2>3
    <3> QED  BY <3>1, <3>2, <3>3, <3>4, <2>3, <2>6, <2>7
  <2>9. Hierarchy!Exists(q)
    <3>1. ~Unlisted(q)
      BY <1>4 DEF Unlisted, Adding
    <3> QED  BY <3>1, NodesExist
  <2>10. ~Hierarchy!Within(q, c)
    <3>1. Lists(q, c)
      BY <1>9 DEF Lists
    <3> QED  BY <3>1, <1>1, <1>4, <1>21 DEF NotBelowItself
  <2>11. ~Hierarchy!Taken(q, ViewTree[c].name)
    <3> SUFFICES ASSUME NEW d \in DOMAIN ViewTree, ViewTree[d].parent = q, ViewTree[d].name = m
                 PROVE  FALSE
      BY <2>3 DEF Hierarchy!Taken, Hierarchy!Nodes
    <3>1. PICK n, x : Hung(n, x) /\ x.child = d
      BY <2>4
    <3>6. ViewTree[x.child] = [parent |-> n, name |-> x.name]
      BY <3>1, <2>1
    <3>2. n = q /\ x.name = m
      BY <3>1, <3>6
    <3>3. PICK k \in 1 .. Len(view[q]) : view[q][k] = x
      BY <3>1, <3>2 DEF Hung
    <3>4. k = j
      BY <3>2, <3>3, <1>9, <1>21
    <3>5. x.child = c
      BY <3>3, <3>4, <1>9
    <3> QED  BY <3>1, <3>2, <3>5, <1>18, <1>21
  <2>12. Hierarchy!Proper(c, q) /\ Hierarchy!Move(c, q)
    BY <2>6, <2>8, <2>9, <2>10, <2>11 DEF Hierarchy!Proper, Hierarchy!Move, Hierarchy!Nodes
  <2> QED  BY <2>12, <1>1
<1> QED  BY <1>20, <1>21

\* ADF_Put_Name is done when the entry has the new name.
LEMMA RenameTree ==
  ASSUME StoreInv, ListInv, RenameEntry
  PROVE  Hierarchy!Rename(op.child, hdr[op.child].name)
<1>1. /\ op.do = "rename" /\ op.parent \in Live /\ op.child \in Live \ {Root}
      /\ Lists(op.parent, op.child) /\ NameFree(op.parent, hdr[op.child].name)
  BY DEF ListInv, RenameGoesOn, RenameEntry
<1>2. PICK p \in Live, c \in Live \ {Root}, m \in {hdr[op.child].name} : p = op.parent /\ c = op.child
  BY <1>1
<1>3. PICK e : e = [name |-> m, child |-> c]
  OBVIOUS
<1>4. e.name = m /\ e.child = c
  BY <1>3
<1>5. /\ StoreInv' /\ Live' = Live
      /\ \A n \in Live : n # p => view'[n] = view[n]
      /\ Len(view'[p]) = Len(view[p])
      /\ \A i \in 1 .. Len(view[p]) : view'[p][i] = IF view[p][i].child = c THEN e ELSE view[p][i]
  BY <1>1, <1>2, <1>3, RenameStore
<1>6. ListInv' /\ ~Dropping /\ ~Dropping'
  BY RenameLists
<1>7. Lists(p, c) /\ NameFree(p, m)
  BY <1>1, <1>2
<1>8. PICK k \in 1 .. Len(view[p]) : view[p][k].child = c
  BY <1>7 DEF Lists
<1>9. \A n, x : Has(n, x) /\ x.child = c => n = p
  <2> SUFFICES ASSUME NEW n \in Live, Lists(n, c)
               PROVE  n = p
    BY DEF Has, Lists
  <2> QED  BY <1>6, <1>7, OneLister DEF ListInv
<1>10. \A n, x : Has(n, x)' <=> (Has(n, x) /\ x.child # c) \/ (n = p /\ x = e)
  <2> SUFFICES ASSUME NEW n, NEW x
               PROVE  Has(n, x)' <=> (Has(n, x) /\ x.child # c) \/ (n = p /\ x = e)
    OBVIOUS
  <2>1. CASE n # p
    <3>1. Has(n, x)' <=> Has(n, x)
      BY <2>1, <1>5 DEF Has
    <3>2. Has(n, x) => x.child # c
      BY <2>1, <1>9
    <3> QED  BY <2>1, <3>1, <3>2
  <2>2. CASE n = p
    <3>1. Has(n, x)' <=> \E i \in 1 .. Len(view[p]) : view'[p][i] = x
      BY <2>2, <1>5 DEF Has
    <3>2. Has(n, x) <=> \E i \in 1 .. Len(view[p]) : view[p][i] = x
      BY <2>2 DEF Has
    <3> QED  BY <2>2, <3>1, <3>2, <1>4, <1>5, <1>8
  <2> QED  BY <2>1, <2>2
<1>11. \A n, x : Hung(n, x) <=> Has(n, x)
  BY <1>6, HungForm
<1>12. \A n, x : Hung(n, x)' <=> (Hung(n, x) /\ x.child # c) \/ (n = p /\ x = e)
  BY <1>6, <1>10, <1>11, HungForm2
<1>13. \A n, x : Hung(n, x) => ViewTree[x.child] = [parent |-> n, name |-> x.name]
  BY HungFacts
<1>14. \A n, x : Hung(n, x)' => ViewTree'[x.child] = [parent |-> n, name |-> x.name]
  BY <1>5, <1>6, HungFacts2
<1>15. \A x : x \in DOMAIN ViewTree <=> \E n, y : Hung(n, y) /\ y.child = x
  BY HungFacts
<1>16. \A x : x \in DOMAIN ViewTree' <=> \E n, y : Hung(n, y)' /\ y.child = x
  BY <1>5, <1>6, HungFacts2
<1>17. Hung(p, view[p][k])
  BY <1>8, <1>11 DEF Has
<1>18. c \in DOMAIN ViewTree /\ \A x : x \in DOMAIN ViewTree' <=> x \in DOMAIN ViewTree
  BY <1>4, <1>8, <1>12, <1>15, <1>16, <1>17
<1>19. PICK m0 : ViewTree[c] = [parent |-> p, name |-> m0]
  <2>1. ViewTree[view[p][k].child] = [parent |-> p, name |-> view[p][k].name]
    BY <1>13, <1>17
  <2> QED  BY <2>1, <1>8
<1>20. ViewTree'[c] = [parent |-> p, name |-> m]
  <2>1. Hung(p, e)'
    BY <1>12
  <2>2. ViewTree'[e.child] = [parent |-> p, name |-> e.name]
    BY <2>1, <1>14
  <2> QED  BY <2>2, <1>4
<1>21. \A d \in DOMAIN ViewTree : d # c => ViewTree'[d] = ViewTree[d]
  <2> SUFFICES ASSUME NEW d \in DOMAIN ViewTree, d # c
               PROVE  ViewTree'[d] = ViewTree[d]
    OBVIOUS
  <2>1. PICK n, x : Hung(n, x) /\ x.child = d
    BY <1>15
  <2>2. Hung(n, x)'
    BY <2>1, <1>12
  <2>3. ViewTree[x.child] = [parent |-> n, name |-> x.name]
    BY <2>1, <1>13
  <2>4. ViewTree'[x.child] = [parent |-> n, name |-> x.name]
    BY <2>2, <1>14
  <2> QED  BY <2>1, <2>3, <2>4
<1>22. ViewTree' = [ViewTree EXCEPT ![c].name = m]
  <2>1. ViewTree = [x \in DOMAIN ViewTree |-> ViewTree[x]]
    BY HungFacts
  <2>2. ViewTree' = [x \in DOMAIN ViewTree' |-> ViewTree'[x]]
    BY <1>5, <1>6, HungFacts2
  <2>3. DOMAIN ViewTree' = DOMAIN ViewTree
    BY <1>18
  <2>4. [ViewTree[c] EXCEPT !.name = m] = [parent |-> p, name |-> m]
    BY <1>19
  <2> QED  BY <2>1, <2>2, <2>3, <2>4, <1>18, <1>20, <1>21
<1>23. ~Hierarchy!Taken(ViewTree[c].parent, m)
  <2> SUFFICES ASSUME NEW d \in DOMAIN ViewTree, ViewTree[d].parent = p, ViewTree[d].name = m
               PROVE  FALSE
    BY <1>19 DEF Hierarchy!Taken, Hierarchy!Nodes
  <2>1. PICK n, x : Hung(n, x) /\ x.child = d
    BY <1>15
  <2>2. ViewTree[x.child] = [parent |-> n, name |-> x.name]
    BY <2>1, <1>13
  <2>3. n = p /\ x.name = m
    BY <2>1, <2>2
  <2> QED  BY <2>1, <2>3, <1>7 DEF Hung, NameFree
<1>24. Hierarchy!Rename(c, m)
  BY <1>18, <1>22, <1>23 DEF Hierarchy!Rename, Hierarchy!Nodes
<1> QED  BY <1>2, <1>24

\* A node of the tree is not below another one if the tables do not say so.
LEMMA NotBelowInTree ==
  ASSUME StoreInv, ListInv, op = Idle, NEW c \in DOMAIN ViewTree, NEW q \in Node, q \notin Below(c)
  PROVE  ~Hierarchy!Within(q, c)
<1>1. PICK S \in SUBSET Node :
        /\ c \in S /\ q \notin S
        /\ \A p \in S \cap Live : \A e \in Entries(p) : e.child \in S
  BY DEF Below
<1>2. \A d \in DOMAIN ViewTree : ViewTree[d].parent \in S => d \in S
  <2> SUFFICES ASSUME NEW d \in DOMAIN ViewTree, ViewTree[d].parent \in S
               PROVE  d \in S
    OBVIOUS
  <2>1. PICK n, x : Hung(n, x) /\ x.child = d
    BY HungFacts
  <2>2. ViewTree[x.child] = [parent |-> n, name |-> x.name]
    BY <2>1, HungFacts
  <2>3. n \in S /\ n \in Live /\ Lists(n, d)
    BY <2>1, <2>2 DEF Hung, Lists
  <2>4. op.do = "idle"
    BY IdleFacts
  <2>5. IsChild(n, d)
    BY <2>3, <2>4, TableIsList
  <2> QED  BY <2>3, <2>5, <1>1 DEF IsChild
<1>3. PICK B : B = S \cap DOMAIN ViewTree
  OBVIOUS
<1>4. B \in SUBSET DOMAIN ViewTree /\ c \in B /\ q \notin B
  BY <1>1, <1>3
<1>5. \A d \in DOMAIN ViewTree : ViewTree[d].parent \in B => d \in B
  BY <1>2, <1>3
<1> QED  BY <1>4, <1>5 DEF Hierarchy!Within, Hierarchy!Nodes

\* What lies within a node is a matter of the abstract tree.
LEMMA SameWithin ==
  ViewTree' = ViewTree => \A p, n : Hierarchy!Within(p, n)' <=> Hierarchy!Within(p, n)
BY DEF Hierarchy!Within, Hierarchy!Nodes

-----------------------------------------------------------------------------
(* Every step.                                                             *)

\* A step is a step of the abstract tree or leaves it as it is.
AsPromised == StoreInv' /\ ListInv' /\ [Hierarchy!Next]_ViewTree

\* A step after which nothing is being moved.
LEMMA NothingMoves ==
  ASSUME ~(Adding' /\ op'.from # Nobody), ~Dropping'
  PROVE  NotBelowItself'
BY DEF NotBelowItself

\* Create is a step of the abstract tree or leaves it, and no node comes to lie below itself.
LEMMA CreateKeeps ==
  ASSUME ProperUse, TreeInv, NEW p \in Node, NEW n \in Node, NEW name \in Names \X Blanks,
         Create(p, n, name)
  PROVE  AsPromised /\ NotBelowItself'
<1>1. name \in StoredName
  BY TreeAssumption DEF StoredName
<1>2. /\ StoreInv' /\ Live' = Live \cup {n} /\ Len(view'[n]) = 0
      /\ \A x \in Live : view'[x] = view[x]
  BY <1>1, CreateStore DEF TreeInv
<1>3. ListInv'
  BY <1>1, CreateLists DEF TreeInv
<1>4. op = Idle /\ op' = Add(p, n, Nobody)
  BY DEF Create
<1>5. ~Dropping
  BY <1>4, IdleState DEF TreeInv
<1>6. op'.do \in {"grow", "enter"} /\ op'.from = Nobody
  BY <1>4 DEF Add
<1>7. ~Dropping' /\ NotBelowItself'
  BY <1>6, NothingMoves DEF Dropping
<1>8. ViewTree' = ViewTree
  BY <1>2, <1>3, <1>5, <1>7, QuietTree DEF TreeInv
<1> QED  BY <1>2, <1>3, <1>7, <1>8 DEF AsPromised

\* MoveChild is a step of the abstract tree or leaves it, and no node comes to lie below itself.
LEMMA MoveChildKeeps ==
  ASSUME ProperUse, TreeInv, NEW p \in Node, NEW c \in Node, NEW q \in Node, MoveChild(p, c, q)
  PROVE  AsPromised /\ NotBelowItself'
<1>1. /\ StoreInv' /\ ListInv' /\ view' = view /\ Live' = Live /\ ~Dropping /\ ~Dropping'
      /\ q \notin Below(c) /\ op'.do \in {"grow", "enter"}
      /\ op'.parent = q /\ op'.child = c /\ op'.from = p
  BY MoveChildLists DEF TreeInv, ProperUse
<1>2. ViewTree' = ViewTree
  BY <1>1, QuietTree DEF TreeInv
<1>3. op = Idle /\ c \in Live /\ p \in Live /\ IsChild(p, c)
  BY DEF MoveChild, Proper, ProperUse
<1>4. op.do = "idle"
  BY <1>3, IdleFacts
<1>5. Lists(p, c)
  BY <1>3, <1>4, TableIsList DEF TreeInv
<1>6. c \in DOMAIN ViewTree
  BY <1>3, <1>5, TreeFacts DEF TreeInv
<1>7. ~Hierarchy!Within(q, c)
  BY <1>1, <1>3, <1>6, NotBelowInTree DEF TreeInv
<1>8. ~Hierarchy!Within(q, c)'
  BY <1>2, <1>7, SameWithin
<1>9. ~Hierarchy!Within(op.parent, op.child)'
  BY <1>1, <1>8 DEF Hierarchy!Within, Hierarchy!Nodes
<1>10. NotBelowItself'
  BY <1>1, <1>9 DEF NotBelowItself
<1> QED  BY <1>1, <1>2, <1>10 DEF AsPromised

\* Growing a table and entering a child leave the abstract tree as it is.
LEMMA AddingKeeps ==
  ASSUME TreeInv, Grow \/ Enter
  PROVE  AsPromised /\ NotBelowItself'
<1>1. StoreInv' /\ view' = view /\ Live' = Live
  BY GrowStore, EnterStore DEF TreeInv
<1>2. ListInv'
  BY AddingLists DEF TreeInv
<1>3. /\ Adding /\ op'.do \in {"enter", "count"} /\ op.do \in {"grow", "enter"}
      /\ op'.parent = op.parent /\ op'.child = op.child /\ op'.from = op.from
  <2>1. op \in Operation
    BY DEF TreeInv, StoreInv, Types
  <2> QED  BY <2>1 DEF Grow, Enter, Adding, Operation
<1>4. ~Dropping /\ ~Dropping'
  BY <1>3 DEF Dropping
<1>5. ViewTree' = ViewTree
  BY <1>1, <1>2, <1>4, QuietTree DEF TreeInv
<1>6. Hierarchy!Within(op.parent, op.child)' <=> Hierarchy!Within(op.parent, op.child)
  BY <1>3, <1>5 DEF Hierarchy!Within, Hierarchy!Nodes
<1>7. NotBelowItself'
  BY <1>3, <1>4, <1>6 DEF NotBelowItself, TreeInv
<1> QED  BY <1>1, <1>2, <1>5, <1>7 DEF AsPromised

\* Count is a step of the abstract tree or leaves it, and no node comes to lie below itself.
LEMMA CountKeeps ==
  ASSUME TreeInv, Count
  PROVE  AsPromised /\ NotBelowItself'
<1>1. PICK p \in Live, c \in Live \ {Root}, m \in {hdr[op.child].name} : p = op.parent /\ c = op.child
  BY CountStore DEF TreeInv
<1>2. StoreInv' /\ ListInv' /\ Live' = Live /\ ~Dropping
  BY CountStore, CountLists DEF TreeInv
<1>3. p \in Node /\ c \in Node /\ m \in StoredName
  BY <1>1, HeaderFacts DEF TreeInv
<1>4. CASE op.from = Nobody
  <2>1. Hierarchy!Create(p, c, m)
    BY <1>1, <1>4, CountTree DEF TreeInv
  <2>2. Hierarchy!Next
    BY <2>1, <1>3 DEF Hierarchy!Next
  <2>3. op' = Idle
    BY <1>4, CountLists DEF TreeInv
  <2>4. NotBelowItself'
    <3>1. op'.do = "idle"
      BY <2>3, IdleFacts DEF Idle
    <3> QED  BY <3>1, NothingMoves DEF Adding, Dropping
  <2> QED  BY <1>2, <2>2, <2>4 DEF AsPromised
<1>5. CASE op.from # Nobody
  <2>1. ViewTree' = ViewTree
    BY <1>5, CountTree DEF TreeInv
  <2>2. op'.parent = op.from /\ op'.child = c /\ Dropping'
    BY <1>1, <1>5, CountLists DEF TreeInv
  <2>3. Adding /\ op.from \in Live /\ Lists(op.from, c)
    BY <1>1, <1>5 DEF TreeInv, ListInv, AddGoesOn, Running
  <2>4. ~Hierarchy!Within(p, c)
    BY <1>1, <1>5, <2>3 DEF TreeInv, NotBelowItself
  <2>5. ASSUME NEW q \in Live', q # op.from, Lists(q, c)'
        PROVE  ~Hierarchy!Within(q, c)'
    <3>1. q \in Live
      BY <1>2
    <3>2. \A n \in Live : Lists(n, op.child)' => Lists(n, op.child) \/ n = op.parent
      BY <1>5, CountTree DEF TreeInv
    <3>3. Lists(q, op.child)'
      BY <1>1, <2>2, <2>5 DEF Lists
    <3>4. Lists(q, c) \/ q = p
      BY <1>1, <3>1, <3>2, <3>3
    <3>5. Lists(q, c) => q = op.from
      BY <1>2, <2>3, <3>1, OneLister DEF TreeInv, ListInv
    <3>6. ~Hierarchy!Within(q, c)
      BY <2>4, <2>5, <3>4, <3>5
    <3> QED  BY <2>1, <3>6, SameWithin
  <2>6. ~Adding'
    BY <2>2 DEF Adding, Dropping
  <2>7. NotBelowItself'
    <3>1. \A q \in Live' : q # op'.parent /\ Lists(q, op.child)' => ~Hierarchy!Within(q, op.child)'
      <4> SUFFICES ASSUME NEW q \in Live', q # op'.parent, Lists(q, op.child)'
                   PROVE  ~Hierarchy!Within(q, op.child)'
        OBVIOUS
      <4>1. Lists(q, c)'
        BY <2>2 DEF Lists
      <4>2. ~Hierarchy!Within(q, c)'
        BY <2>2, <2>5, <4>1
      <4> QED  BY <2>2, <4>2 DEF Hierarchy!Within, Hierarchy!Nodes
    <3> QED  BY <2>6, <3>1 DEF NotBelowItself
  <2> QED  BY <1>2, <2>1, <2>7 DEF AsPromised
<1> QED  BY <1>4, <1>5

\* Drop is a step of the abstract tree or leaves it, and no node comes to lie below itself.
LEMMA DropKeeps ==
  ASSUME TreeInv, Drop
  PROVE  AsPromised /\ NotBelowItself'
<1>1. StoreInv' /\ ListInv' /\ ~Dropping' /\ op.child \in Node
  BY DropStore, DropLists, HeaderFacts DEF TreeInv
<1>2. op'.do = "uncount"
  <2>1. op \in Operation
    BY DEF TreeInv, StoreInv, Types
  <2> QED  BY <2>1 DEF Drop, Operation
<1>3. NotBelowItself'
  BY <1>1, <1>2, NothingMoves DEF Adding
<1>4. CASE frames = <<>>
  <2>1. ViewTree' = ViewTree \/ \E q \in Live : Hierarchy!Proper(op.child, q) /\ Hierarchy!Move(op.child, q)
    BY <1>4, DropMovedTree DEF TreeInv
  <2>2. ASSUME NEW q \in Live, Hierarchy!Proper(op.child, q), Hierarchy!Move(op.child, q)
        PROVE  Hierarchy!Next
    <3>1. q \in Node
      BY HeaderFacts DEF TreeInv
    <3> QED  BY <1>1, <2>2, <3>1 DEF Hierarchy!Next
  <2> QED  BY <1>1, <1>3, <2>1, <2>2 DEF AsPromised
<1>5. CASE frames # <<>>
  <2>1. Hierarchy!DeleteLeaf(op.child)
    BY <1>5, DropLeafTree DEF TreeInv
  <2>2. Hierarchy!Next
    BY <1>1, <2>1 DEF Hierarchy!Next
  <2> QED  BY <1>1, <1>3, <2>2 DEF AsPromised
<1> QED  BY <1>4, <1>5

\* Renaming the entry is the renaming of the abstract tree.
LEMMA RenameKeeps ==
  ASSUME TreeInv, RenameEntry
  PROVE  AsPromised /\ NotBelowItself'
<1>1. op.do = "rename" /\ op.parent \in Live /\ op.child \in Live \ {Root} /\ op' = Idle
  BY DEF TreeInv, ListInv, RenameGoesOn, RenameEntry
<1>2. StoreInv'
  BY <1>1, RenameStore DEF TreeInv
<1>3. ListInv' /\ ~Dropping'
  BY RenameLists DEF TreeInv
<1>4. ~Adding'
  BY <1>1, IdleFacts DEF Adding
<1>5. op.child \in Node /\ hdr[op.child].name \in StoredName
  BY <1>1, HeaderFacts DEF TreeInv
<1>6. Hierarchy!Rename(op.child, hdr[op.child].name)
  BY RenameTree DEF TreeInv
<1>7. Hierarchy!Next
  BY <1>5, <1>6 DEF Hierarchy!Next
<1> QED  BY <1>2, <1>3, <1>4, <1>7, NothingMoves DEF AsPromised

\* A step of any other kind does not touch what the tables say.
LEMMA QuietKeeps ==
  ASSUME TreeInv, StoreInv', ListInv', view' = view, Live' = Live,
         ~Dropping, ~Dropping', ~Adding'
  PROVE  AsPromised /\ NotBelowItself'
<1>1. ViewTree' = ViewTree
  BY QuietTree DEF TreeInv
<1> QED  BY <1>1, NothingMoves DEF AsPromised

\* PutName is a step of the abstract tree or leaves it, and no node comes to lie below itself.
LEMMA PutNameKeeps ==
  ASSUME ProperUse, TreeInv, NEW p \in Node, NEW c \in Node, NEW name \in Names \X Blanks,
         PutName(p, c, name)
  PROVE  AsPromised /\ NotBelowItself'
<1>1. StoreInv' /\ ListInv' /\ view' = view /\ Live' = Live /\ ~Dropping /\ ~Dropping'
  BY PutNameLists DEF TreeInv, ProperUse
<1>2. ~Adding'
  BY DEF PutName, Idle, Adding
<1> QED  BY <1>1, <1>2, QuietKeeps

\* Delete is a step of the abstract tree or leaves it, and no node comes to lie below itself.
LEMMA DeleteKeeps ==
  ASSUME TreeInv, NEW pid \in Node, NEW id \in Node, Delete(pid, id)
  PROVE  AsPromised /\ NotBelowItself'
<1>1. StoreInv' /\ ListInv' /\ view' = view /\ Live' = Live /\ ~Dropping /\ ~Dropping'
  BY DeleteLists DEF TreeInv
<1>2. ~Adding'
  BY DEF Delete, Idle, Adding
<1> QED  BY <1>1, <1>2, QuietKeeps

\* The steps of ADF_Delete that take no entry away leave the abstract tree as it is.
LEMMA DeletingKeeps ==
  ASSUME TreeInv, DeleteChild \/ ChildrenDeleted \/ FreeTable
  PROVE  AsPromised /\ NotBelowItself'
<1>1. StoreInv' /\ ListInv' /\ view' = view /\ Live' = Live /\ ~Dropping /\ ~Dropping'
  BY DeleteChildLists, ChildrenDeletedLists, FreeTableLists DEF TreeInv, IsTree
<1>2. ~Adding'
  BY DEF DeleteChild, ChildrenDeleted, FreeTable, Idle, Adding
<1> QED  BY <1>1, <1>2, QuietKeeps

\* DropFails is a step of the abstract tree or leaves it, and no node comes to lie below itself.
LEMMA DropFailsKeeps ==
  ASSUME TreeInv, DropFails
  PROVE  AsPromised /\ NotBelowItself'
<1>1. StoreInv' /\ ListInv' /\ view' = view /\ Live' = Live /\ ~Dropping /\ ~Dropping'
  BY DropFailsLists DEF TreeInv
<1>2. ~Adding'
  BY DEF DropFails, Idle, Adding
<1> QED  BY <1>1, <1>2, QuietKeeps

\* Uncount is a step of the abstract tree or leaves it, and no node comes to lie below itself.
LEMMA UncountKeeps ==
  ASSUME TreeInv, Uncount
  PROVE  AsPromised /\ NotBelowItself'
<1>1. StoreInv' /\ view' = view /\ Live' = Live
  BY UncountStore DEF TreeInv
<1>2. ListInv' /\ ~Dropping /\ ~Dropping'
  BY UncountLists DEF TreeInv
<1>3. ~Adding'
  BY DEF Uncount, Idle, Adding
<1> QED  BY <1>1, <1>2, <1>3, QuietKeeps

\* FreeHeader is a step of the abstract tree or leaves it, and no node comes to lie below itself.
LEMMA FreeHeaderKeeps ==
  ASSUME TreeInv, FreeHeader
  PROVE  AsPromised /\ NotBelowItself'
<1>1. /\ StoreInv' /\ ListInv' /\ ~Dropping /\ ~Dropping'
      /\ Live' = Live \ {Top.id} /\ Len(view[Top.id]) = 0
      /\ \A n \in Live' : view'[n] = view[n]
  BY FreeHeaderLists DEF TreeInv
<1>2. ~Adding'
  BY DEF FreeHeader, Idle, Adding
<1>3. ViewTree' = ViewTree
  <2>1. PICK t : t = Top.id
    OBVIOUS
  <2>2. Live' = Live \ {t} /\ Len(view[t]) = 0
    BY <1>1, <2>1
  <2>3. /\ \A n \in Live : n \in Live' \/ Len(view[n]) = 0
        /\ \A n \in Live' : n \in Live \/ Len(view'[n]) = 0
        /\ \A n \in Live : n \in Live' => view'[n] = view[n]
    BY <1>1, <2>2
  <2> QED  BY <1>1, <2>3, QuietTree DEF TreeInv
<1> QED  BY <1>1, <1>2, <1>3, NothingMoves DEF AsPromised

-----------------------------------------------------------------------------
(* What NodeHandles_proofs shows of the abstract tree holds of the one on  *)
(* disk, with the same argument.                                           *)

\* A node that is created: the new node has no children and its name is
\* not one of its siblings'.
LEMMA ViewCreateStep ==
  ASSUME IsTree, NEW p \in Node, NEW n \in Node, NEW m \in StoredName, Hierarchy!Create(p, n, m)
  PROVE  IsTree'
<1> USE TreeAssumption
<1>1. /\ n # Root /\ n \notin Hierarchy!Nodes
      /\ Hierarchy!Nodes' = Hierarchy!Nodes \cup {n}
      /\ ViewTree'[n] = [parent |-> p, name |-> m]
      /\ \A c \in Hierarchy!Nodes : ViewTree'[c] = ViewTree[c]
  BY DEF Hierarchy!Create, Hierarchy!Exists, Hierarchy!Nodes
<1>2. \A c \in Hierarchy!Nodes : ViewTree[c].parent # n
  BY <1>1 DEF IsTree, Hierarchy!TypeOK, Hierarchy!Exists
<1>3. Hierarchy!TypeOK'
  BY <1>1 DEF IsTree, Hierarchy!TypeOK, Hierarchy!Exists, Hierarchy!Nodes, Hierarchy!Create
<1>4. Hierarchy!NamesDiffer'
  BY <1>1, <1>2 DEF IsTree, Hierarchy!NamesDiffer, Hierarchy!Create, Hierarchy!Taken
<1>5. Hierarchy!Rooted'
  <2> SUFFICES ASSUME NEW S \in SUBSET Hierarchy!Nodes', S # {}
               PROVE  \E c \in S : ViewTree'[c].parent \notin S
    BY DEF Hierarchy!Rooted
  <2>1. CASE S = {n}
    BY <2>1, <1>1 DEF Hierarchy!Create, Hierarchy!Exists
  <2>2. CASE S # {n}
    <3>1. S \ {n} \in SUBSET Hierarchy!Nodes /\ S \ {n} # {}
      BY <2>2, <1>1
    <3>2. PICK c \in S \ {n} : ViewTree[c].parent \notin S \ {n}
      BY <3>1 DEF IsTree, Hierarchy!Rooted
    <3>3. c \in Hierarchy!Nodes
      BY <3>1
    <3> QED
      BY <3>2, <3>3, <1>1, <1>2
  <2> QED
    BY <2>1, <2>2
<1> QED
  BY <1>3, <1>4, <1>5 DEF IsTree

\* A node that is removed once its children are gone.
LEMMA ViewLeafStep ==
  ASSUME IsTree, NEW n \in Node, Hierarchy!DeleteLeaf(n)
  PROVE  IsTree'
<1>1. Hierarchy!Nodes' = Hierarchy!Nodes \ {n} /\ \A c \in Hierarchy!Nodes' : ViewTree'[c] = ViewTree[c]
  BY DEF Hierarchy!DeleteLeaf, Hierarchy!Nodes
<1>2. Hierarchy!TypeOK'
  BY <1>1 DEF IsTree, Hierarchy!TypeOK, Hierarchy!Exists, Hierarchy!Nodes, Hierarchy!DeleteLeaf
<1>3. Hierarchy!NamesDiffer'
  BY <1>1 DEF IsTree, Hierarchy!NamesDiffer
<1>4. Hierarchy!Rooted'
  BY <1>1 DEF IsTree, Hierarchy!Rooted
<1> QED
  BY <1>2, <1>3, <1>4 DEF IsTree

\* ADF_Move_Child keeps a tree if the new parent is not the node and not below
\* it: a set closed under the new parents has, outside what lies below the node,
\* a part closed under the old ones.
LEMMA ViewMoveStep ==
  ASSUME IsTree, NEW n \in Node, NEW p \in Node, Hierarchy!Proper(n, p), Hierarchy!Move(n, p)
  PROVE  IsTree'
<1> USE TreeAssumption
<1>1. /\ n \in Hierarchy!Nodes /\ Hierarchy!Nodes' = Hierarchy!Nodes
      /\ ViewTree'[n].parent = p /\ ViewTree'[n].name = ViewTree[n].name
      /\ \A c \in Hierarchy!Nodes \ {n} : ViewTree'[c] = ViewTree[c]
  BY DEF Hierarchy!Move, Hierarchy!Nodes, IsTree, Hierarchy!TypeOK
<1>2. Hierarchy!TypeOK'
  BY <1>1 DEF IsTree, Hierarchy!TypeOK, Hierarchy!Exists, Hierarchy!Nodes, Hierarchy!Move
<1>3. Hierarchy!NamesDiffer'
  BY <1>1 DEF IsTree, Hierarchy!NamesDiffer, Hierarchy!Proper, Hierarchy!Taken
<1>4. Hierarchy!Rooted'
  <2> SUFFICES ASSUME NEW S \in SUBSET Hierarchy!Nodes, S # {},
                      \A c \in S : ViewTree'[c].parent \in S
               PROVE  FALSE
    BY <1>1 DEF Hierarchy!Rooted
  <2>1. n \in S
    <3>1. SUFFICES ASSUME n \notin S PROVE FALSE
      OBVIOUS
    <3>2. \A c \in S : ViewTree[c].parent \in S
      BY <3>1, <1>1
    <3> QED
      BY <3>2 DEF IsTree, Hierarchy!Rooted
  <2>2. PICK B \in SUBSET Hierarchy!Nodes :
          /\ n \in B /\ p \notin B
          /\ \A c \in Hierarchy!Nodes : ViewTree[c].parent \in B => c \in B
    BY DEF Hierarchy!Proper, Hierarchy!Within
  <2>3. p \in S \ B
    BY <2>1, <2>2, <1>1
  <2>4. PICK c \in S \ B : ViewTree[c].parent \notin S \ B
    BY <2>3 DEF IsTree, Hierarchy!Rooted
  <2>5. c \in Hierarchy!Nodes /\ c # n
    BY <2>4, <2>2
  <2>6. ViewTree[c].parent \in S
    BY <2>4, <2>5, <1>1
  <2> QED
    BY <2>2, <2>4, <2>5, <2>6
<1> QED
  BY <1>2, <1>3, <1>4 DEF IsTree

\* ADF_Put_Name gives a node a name none of its siblings has.
LEMMA ViewRenameStep ==
  ASSUME IsTree, NEW n \in Node, NEW m \in StoredName, Hierarchy!Rename(n, m)
  PROVE  IsTree'
<1>1. /\ n \in Hierarchy!Nodes /\ Hierarchy!Nodes' = Hierarchy!Nodes
      /\ ViewTree'[n].name = m
      /\ \A c \in Hierarchy!Nodes : ViewTree'[c].parent = ViewTree[c].parent
      /\ \A c \in Hierarchy!Nodes \ {n} : ViewTree'[c] = ViewTree[c]
  BY DEF Hierarchy!Rename, Hierarchy!Nodes, IsTree, Hierarchy!TypeOK
<1>2. Hierarchy!TypeOK'
  BY <1>1 DEF IsTree, Hierarchy!TypeOK, Hierarchy!Exists, Hierarchy!Nodes, Hierarchy!Rename
<1>3. Hierarchy!NamesDiffer'
  BY <1>1 DEF IsTree, Hierarchy!NamesDiffer, Hierarchy!Rename, Hierarchy!Taken
<1>4. Hierarchy!Rooted'
  BY <1>1 DEF IsTree, Hierarchy!Rooted
<1> QED
  BY <1>2, <1>3, <1>4 DEF IsTree

\* A step of NodeHierarchy keeps the abstract tree a tree.
LEMMA TreeOnDisk ==
  ASSUME IsTree, [Hierarchy!Next]_ViewTree
  PROVE  IsTree'
<1>1. ASSUME NEW p \in Node, NEW n \in Node, NEW m \in StoredName, Hierarchy!Create(p, n, m)
      PROVE  IsTree'
  BY <1>1, ViewCreateStep
<1>2. ASSUME NEW n \in Node, Hierarchy!DeleteLeaf(n)
      PROVE  IsTree'
  BY <1>2, ViewLeafStep
<1>3. ASSUME NEW n \in Node, NEW p \in Node, Hierarchy!Proper(n, p), Hierarchy!Move(n, p)
      PROVE  IsTree'
  BY <1>3, ViewMoveStep
<1>4. ASSUME NEW n \in Node, NEW m \in StoredName, Hierarchy!Rename(n, m)
      PROVE  IsTree'
  BY <1>4, ViewRenameStep
<1>5. CASE UNCHANGED ViewTree
  BY <1>5 DEF IsTree, Hierarchy!TypeOK, Hierarchy!NamesDiffer, Hierarchy!Rooted, Hierarchy!Nodes, Hierarchy!Exists
<1> QED
  BY <1>1, <1>2, <1>3, <1>4, <1>5 DEF Hierarchy!Next

\* Every step keeps the invariant and the promise.
LEMMA TreeStep ==
  ASSUME ProperUse, TreeInv, [Next]_vars
  PROVE  TreeInv' /\ [Hierarchy!Next]_ViewTree
<1>1. AsPromised /\ NotBelowItself' => TreeInv' /\ [Hierarchy!Next]_ViewTree
  BY TreeOnDisk DEF AsPromised, TreeInv
<1>2. ASSUME NEW p \in Node, NEW n \in Node, NEW name \in Names \X Blanks, Create(p, n, name)
      PROVE  AsPromised /\ NotBelowItself'
  BY <1>2, CreateKeeps
<1>3. ASSUME NEW p \in Node, NEW c \in Node, NEW q \in Node, MoveChild(p, c, q)
      PROVE  AsPromised /\ NotBelowItself'
  BY <1>3, MoveChildKeeps
<1>4. ASSUME NEW p \in Node, NEW c \in Node, NEW name \in Names \X Blanks, PutName(p, c, name)
      PROVE  AsPromised /\ NotBelowItself'
  BY <1>4, PutNameKeeps
<1>5. ASSUME NEW pid \in Node, NEW id \in Node, Delete(pid, id)
      PROVE  AsPromised /\ NotBelowItself'
  BY <1>5, DeleteKeeps
<1>6. CASE Grow \/ Enter
  BY <1>1, <1>6, AddingKeeps
<1>7. CASE Count
  BY <1>1, <1>7, CountKeeps
<1>8. CASE Drop
  BY <1>1, <1>8, DropKeeps
<1>9. CASE DropFails
  BY <1>1, <1>9, DropFailsKeeps
<1>10. CASE Uncount
  BY <1>1, <1>10, UncountKeeps
<1>11. CASE DeleteChild \/ ChildrenDeleted \/ FreeTable
  BY <1>1, <1>11, DeletingKeeps
<1>12. CASE FreeHeader
  BY <1>1, <1>12, FreeHeaderKeeps
<1>13. CASE RenameEntry
  BY <1>1, <1>13, RenameKeeps
<1>14. CASE UNCHANGED vars
  <2>1. view' = view /\ Live' = Live /\ hdr' = hdr /\ op' = op /\ frames' = frames
    BY <1>14 DEF vars, view, Live, Size, TableOf
  <2>2. ViewTree' = ViewTree
    BY <2>1 DEF ViewTree, View, Moving, Live
  <2>3. StoreInv'
    BY <2>1 DEF TreeInv, StoreInv, Types, Rooms, RoomForEntry, LastUnused, Adding, Full, Live, Size, TableOf, Top
  <2>4. ListInv'
    <3>1. /\ \A n, c : Lists(n, c)' <=> Lists(n, c)
          /\ \A n, m : NameFree(n, m)' <=> NameFree(n, m)
          /\ \A c : Unlisted(c)' <=> Unlisted(c)
          /\ (Adding' <=> Adding) /\ (Dropping' <=> Dropping)
      BY <2>1 DEF Lists, NameFree, Unlisted, Adding, Dropping, Top
    <3>2. Leads' /\ Once' /\ Listed'
      BY <2>1, <3>1 DEF TreeInv, ListInv, Leads, Once, Listed
    <3>3. Running' /\ RenameGoesOn'
      BY <2>1, <3>1 DEF TreeInv, ListInv, Running, RenameGoesOn, Lists, NameFree
    <3>4. AddGoesOn'
      BY <2>1, <3>1 DEF TreeInv, ListInv, AddGoesOn, Lists, NameFree
    <3>5. MoveGoesOn'
      BY <2>1, <3>1 DEF TreeInv, ListInv, MoveGoesOn, TwoEntries
    <3>6. DeleteGoesOn'
      <4>1. CASE frames = <<>>
        BY <2>1, <4>1, NoCalls2
      <4>2. CASE frames # <<>>
        <5>1. TopGoesOn'
          BY <2>1, <4>2 DEF TreeInv, ListInv, DeleteGoesOn, TopGoesOn, Top
        <5> QED  BY <2>1, <3>1, <4>2, <5>1, SameCalls DEF TreeInv, ListInv
      <4> QED  BY <4>1, <4>2
    <3> QED  BY <3>2, <3>3, <3>4, <3>5, <3>6 DEF ListInv
  <2>5. NotBelowItself'
    BY <2>1, <2>2 DEF TreeInv, NotBelowItself, Adding, Dropping, Lists, Hierarchy!Within, Hierarchy!Nodes
  <2> QED  BY <1>1, <2>2, <2>3, <2>4, <2>5 DEF AsPromised
<1> QED
  BY <1>1, <1>2, <1>3, <1>4, <1>5, <1>6, <1>7, <1>8, <1>9, <1>10, <1>11, <1>12, <1>13, <1>14 DEF Next

\* A new file satisfies the invariant and is the tree of the root alone.
LEMMA TreeStart == Init => TreeInv /\ Hierarchy!Init
<1> SUFFICES ASSUME Init PROVE TreeInv /\ Hierarchy!Init
  OBVIOUS
<1>1. StoreInv /\ ListInv
  BY StartLists
<1>2. op = Idle /\ Live = {Root}
  BY DEF Init, Live
<1>3. op.do = "idle" /\ op.from = Nobody
  BY <1>2, IdleFacts DEF Idle
<1>4. DOMAIN ViewTree = {}
  <2> SUFFICES ASSUME NEW c \in DOMAIN ViewTree PROVE FALSE
    OBVIOUS
  <2>1. PICK n, e : Hung(n, e) /\ e.child = c
    BY <1>1, HungFacts
  <2>2. e.child \in Live \ {Root}
    BY <1>1, <2>1, HungFacts
  <2> QED  BY <1>2, <2>2
<1>5. ViewTree = [n \in {} |-> [parent |-> Root, name |-> n]]
  <2>1. ViewTree = [c \in DOMAIN ViewTree |-> ViewTree[c]]
    BY ViewTreeForm
  <2> QED  BY <1>4, <2>1
<1>6. Hierarchy!Init
  BY <1>5 DEF Hierarchy!Init
<1>7. IsTree
  BY <1>4, <1>5 DEF IsTree, Hierarchy!TypeOK, Hierarchy!NamesDiffer, Hierarchy!Rooted, Hierarchy!Nodes
<1>8. NotBelowItself
  BY <1>3 DEF NotBelowItself, Adding, Dropping
<1> QED  BY <1>1, <1>6, <1>7, <1>8 DEF TreeInv

-----------------------------------------------------------------------------
(* The theorems.                                                           *)

\* At every chunk a program that uses the library properly makes it write, what
\* is on disk and what the running operation knows are a tree.
THEOREM TreeInvariant == ASSUME ProperUse PROVE Spec => []TreeInv
<1>1. Init => TreeInv
  BY TreeStart
<1>2. TreeInv /\ [Next]_vars => TreeInv'
  BY TreeStep
<1> QED
  BY <1>1, <1>2, PTL DEF Spec

\* ADF_Create, ADF_Delete, ADF_Move_Child and ADF_Put_Name implement the abstract
\* tree: one chunk of each operation makes its effect, and a recursive deletion
\* removes one leaf after the other.
THEOREM Implementation == ASSUME ProperUse PROVE Spec => ImplementsHierarchy
<1>1. Init => Hierarchy!Init
  BY TreeStart
<1>2. TreeInv /\ [Next]_vars => [Hierarchy!Next]_ViewTree
  BY TreeStep
<1> QED
  BY <1>1, <1>2, TreeInvariant, PTL DEF Spec, ImplementsHierarchy, Hierarchy!Spec

\* The header of every node fits its table, and the root is never lost.
THEOREM TypeCorrect == ASSUME ProperUse PROVE Spec => []TypeOK
<1>1. TreeInv => TypeOK
  <2> SUFFICES ASSUME TreeInv PROVE TypeOK
    OBVIOUS
  <2>1. /\ Root \in Live /\ Live \subseteq Node /\ hdr \in [Live -> Header]
        /\ op \in Operation /\ frames \in Seq(Call)
    BY DEF TreeInv, StoreInv, Types
  <2>2. \A n \in Live : /\ hdr[n].count <= hdr[n].room
                        /\ hdr[n].table = Freed \/ Len(hdr[n].table) = hdr[n].room
    BY DEF TreeInv, StoreInv, Rooms
  <2>3. {op.parent, op.child, op.from} \subseteq Node \cup {Nobody}
    BY <2>1 DEF Operation
  <2>4. \A i \in 1 .. Len(frames) : {frames[i].pid, frames[i].id} \subseteq Node
    <3>1. \A i \in 1 .. Len(frames) : frames[i] \in Call
      BY <2>1
    <3> QED  BY <3>1 DEF Call
  <2> QED  BY <2>1, <2>2, <2>3, <2>4 DEF TypeOK
<1> QED
  BY <1>1, TreeInvariant, PTL

\* A crash makes no table unreadable but the one that is being grown, or that of
\* a node nothing names any more.
THEOREM ReadableTables == ASSUME ProperUse PROVE Spec => []TablesReadable
<1>1. TreeInv => TablesReadable
  BY DEF TreeInv, StoreInv, Rooms, TablesReadable
<1> QED
  BY <1>1, TreeInvariant, PTL

\* The old table of a node that is getting a longer one is freed, or has no entry
\* that counts.
LEMMA TableAsWritten ==
  ASSUME TreeInv, NEW n \in Live, hdr[n].table # Freed, NEW i \in 1 .. Size(n)
  PROVE  hdr[n].table[i] = view[n][i] /\ i \in 1 .. Len(view[n])
<1>1. Size(n) \in Nat /\ Len(view[n]) = Size(n) /\ view[n][i] = TableOf(n)[i]
  BY ViewFacts DEF TreeInv
<1>2. CASE op.do \in {"enter", "count"} /\ n = op.parent /\ op.table # <<>>
  <2>1. hdr[n].count = 0
    BY <1>2 DEF TreeInv, StoreInv, RoomForEntry, Adding
  <2>2. Size(n) = 0
    BY <1>2, <2>1 DEF Size
  <2> QED  BY <2>2
<1>3. CASE ~(op.do \in {"enter", "count"} /\ n = op.parent /\ op.table # <<>>)
  BY <1>1, <1>3 DEF TableOf
<1> QED  BY <1>2, <1>3

\* At every moment an entry that counts leads to a node header with the name in
\* the entry, but for the one that is being taken out or renamed.
THEOREM LeadingEntries == ASSUME ProperUse PROVE Spec => []EntriesLead
<1>1. TreeInv => EntriesLead
  <2> SUFFICES ASSUME TreeInv, NEW n \in Live, hdr[n].table # Freed, NEW i \in 1 .. hdr[n].count
               PROVE  LET e == hdr[n].table[i]
                      IN \/ /\ e.child \in Live
                            /\ e.name = hdr[e.child].name \/ (op.do = "rename" /\ op.child = e.child)
                         \/ e = Unused /\ op.do = "uncount" /\ n = op.parent /\ i = hdr[n].count
    BY DEF EntriesLead
  <2>1. CASE i \in 1 .. Size(n)
    <3>1. hdr[n].table[i] = view[n][i] /\ i \in 1 .. Len(view[n])
      BY <2>1, TableAsWritten
    <3> QED  BY <3>1 DEF TreeInv, ListInv, Leads
  <2>2. CASE i \notin 1 .. Size(n)
    <3>1. hdr[n].count \in Nat
      BY HeaderFacts DEF TreeInv
    <3>2. op.do = "uncount" /\ n = op.parent /\ i = hdr[n].count
      BY <2>2, <3>1 DEF Size
    <3> QED  BY <3>2 DEF TreeInv, StoreInv, LastUnused
  <2> QED  BY <2>1, <2>2
<1> QED
  BY <1>1, TreeInvariant, PTL

\* From the root, entry by entry, every node is reached.
LEMMA RootReachesAll ==
  ASSUME TreeInv, op = Idle
  PROVE  Live = Below(Root)
<1>1. op.do = "idle" /\ \A c : ~Unlisted(c)
  BY IdleState DEF TreeInv
<1>2. \A n \in Live : \A c : IsChild(n, c) <=> Lists(n, c)
  BY <1>1, TableIsList DEF TreeInv
<1>3. Root \in Live /\ Live \subseteq Node
  BY HeaderFacts DEF TreeInv
<1>4. ASSUME NEW m \in Below(Root)
      PROVE  m \in Live
  <2>1. \A p \in Live \cap Live : \A e \in Entries(p) : e.child \in Live
    <3> SUFFICES ASSUME NEW p \in Live, NEW e \in Entries(p)
                 PROVE  e.child \in Live
      OBVIOUS
    <3>1. Lists(p, e.child)
      BY <1>2 DEF IsChild
    <3> QED  BY <3>1 DEF Lists, TreeInv, ListInv, Leads
  <2> QED  BY <1>3, <1>4, <2>1 DEF Below
<1>5. ASSUME NEW m \in Live
      PROVE  m \in Below(Root)
  <2> SUFFICES ASSUME NEW S \in SUBSET Node, Root \in S,
                      \A p \in S \cap Live : \A e \in Entries(p) : e.child \in S
               PROVE  m \in S
    BY <1>3 DEF Below
  <2>1. \A c \in DOMAIN ViewTree : ViewTree[c].parent \in S => c \in S
    <3> SUFFICES ASSUME NEW c \in DOMAIN ViewTree, ViewTree[c].parent \in S
                 PROVE  c \in S
      OBVIOUS
    <3>1. PICK n, x : Hung(n, x) /\ x.child = c
      BY HungFacts DEF TreeInv
    <3>2. ViewTree[x.child] = [parent |-> n, name |-> x.name]
      BY <3>1, HungFacts DEF TreeInv
    <3>3. n \in S /\ n \in Live /\ Lists(n, c)
      BY <3>1, <3>2 DEF Hung, Lists
    <3>4. IsChild(n, c)
      BY <3>3, <1>2
    <3> QED  BY <3>3, <3>4 DEF IsChild
  <2>2. DOMAIN ViewTree \subseteq S
    <3> SUFFICES ASSUME DOMAIN ViewTree \ S # {} PROVE FALSE
      OBVIOUS
    <3>1. PICK c \in DOMAIN ViewTree \ S : ViewTree[c].parent \notin DOMAIN ViewTree \ S
      BY DEF TreeInv, IsTree, Hierarchy!Rooted, Hierarchy!Nodes
    <3>2. ViewTree[c].parent = Root \/ ViewTree[c].parent \in DOMAIN ViewTree
      BY DEF TreeInv, IsTree, Hierarchy!TypeOK, Hierarchy!Nodes, Hierarchy!Exists
    <3> QED  BY <3>1, <3>2, <2>1
  <2>3. Hierarchy!Exists(m)
    BY <1>1, NodesExist DEF TreeInv
  <2> QED  BY <2>2, <2>3 DEF Hierarchy!Exists, Hierarchy!Nodes
<1> QED  BY <1>4, <1>5

\* Between two operations every node but the root is in one entry.
LEMMA ListedOnce ==
  ASSUME TreeInv, op = Idle, NEW c \in Live
  PROVE  Cardinality(Listings(c)) = IF c = Root THEN 0 ELSE 1
<1>1. op.do = "idle" /\ ~Dropping /\ \A d : ~Unlisted(d)
  BY IdleState DEF TreeInv
<1>2. \A n \in Live : /\ Len(view[n]) = hdr[n].count
                      /\ \A i \in 1 .. hdr[n].count : hdr[n].table[i] = view[n][i]
  <2> SUFFICES ASSUME NEW n \in Live
               PROVE  /\ Len(view[n]) = hdr[n].count
                      /\ \A i \in 1 .. hdr[n].count : hdr[n].table[i] = view[n][i]
    OBVIOUS
  <2>1. Size(n) = hdr[n].count /\ TableOf(n) = hdr[n].table
    BY <1>1 DEF Size, TableOf
  <2> QED  BY <2>1, ViewFacts DEF TreeInv
<1>3. \A x : x \in Listings(c) <=>
        \E n \in Live : \E i \in 1 .. Len(view[n]) : view[n][i].child = c /\ x = <<n, i>>
  BY <1>2 DEF Listings
<1>4. CASE c = Root
  <2>1. Listings(c) = {}
    BY <1>3, <1>4 DEF TreeInv, ListInv, Leads
  <2> QED  BY <1>4, <2>1, FS_EmptySet
<1>5. CASE c # Root
  <2>1. PICK n \in Live : Lists(n, c)
    BY <1>1, <1>5 DEF TreeInv, ListInv, Listed
  <2>2. PICK i \in 1 .. Len(view[n]) : view[n][i].child = c
    BY <2>1 DEF Lists
  <2>3. \A m \in Live : \A j \in 1 .. Len(view[m]) : view[m][j].child = c => m = n /\ j = i
    BY <1>1, <2>2 DEF TreeInv, ListInv, Once
  <2>4. Listings(c) = {<<n, i>>}
    BY <1>3, <2>2, <2>3
  <2>5. Cardinality(Listings(c)) = 1
    BY <2>4, FS_Singleton
  <2> QED  BY <1>5, <2>5
<1> QED  BY <1>4, <1>5

\* Between operations every node header on disk belongs to one entry of one table,
\* the root to none, and all are found from the root.
THEOREM NothingLeaks == ASSUME ProperUse PROVE Spec => []OneTree
<1>1. TreeInv => OneTree
  BY RootReachesAll, ListedOnce DEF OneTree
<1> QED
  BY <1>1, TreeInvariant, PTL

\* Then no node has two parents either.
THEOREM NoTwoParents == ASSUME ProperUse PROVE Spec => []OneParent
<1>1. TreeInv => OneParent
  <2> SUFFICES ASSUME TreeInv, op = Idle, NEW p \in Live, NEW q \in Live, NEW c \in Node,
                      IsChild(p, c), IsChild(q, c)
               PROVE  p = q
    BY DEF OneParent
  <2>1. op.do = "idle" /\ ~Dropping
    BY IdleState DEF TreeInv
  <2>2. Lists(p, c) /\ Lists(q, c)
    BY <2>1, TableIsList DEF TreeInv
  <2> QED  BY <2>1, <2>2, OneLister DEF TreeInv, ListInv
<1> QED
  BY <1>1, TreeInvariant, PTL
=============================================================================
