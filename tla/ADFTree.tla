------------------------------- MODULE ADFTree -------------------------------
(***************************************************************************)
(* The nodes of one ADF file on disk: node headers and the sub-node tables *)
(* that list the children of a node, under ADF_Create, ADF_Delete,         *)
(* ADF_Move_Child and ADF_Put_Name (adfpp/ADF_interface.c).                *)
(*                                                                         *)
(* One step is the writing of one chunk, in the order of the code.  A      *)
(* chunk up to a disk block long lies in one block and at most one block   *)
(* waits in the write buffer, so a crash leaves on disk a state some step  *)
(* of this module reached: what holds in EVERY state holds after a crash   *)
(* or after an operation stopped by an I/O error.                          *)
(***************************************************************************)
EXTENDS Integers, Sequences, FiniteSets

CONSTANTS Root,         \* the root node
          Node,         \* the disk addresses of nodes, the root's included
          Names,        \* the node names, without leading blanks
          ListChunk,    \* LIST_CHUNK
          Blanks,       \* {FALSE}, or BOOLEAN: callers put blanks before a name too
          AnyMove,      \* TRUE: ADF_Move_Child with arguments nobody checked
          Freed,        \* the contents of a table whose chunk was freed
          Nobody        \* no node

ASSUME TreeAssumption ==
  /\ Root \in Node /\ Nobody \notin Node
  /\ ListChunk \in Nat \ {0, 1}      \* a table of 1 never grows: * 1.5, truncated
  /\ Blanks \subseteq BOOLEAN /\ AnyMove \in BOOLEAN

VARIABLES hdr,      \* the node headers on disk, by address
          op,       \* the running operation: the step it does next and its data
          frames    \* the calls of ADF_Delete that wait for each other

vars == <<hdr, op, frames>>

\* A name is stored with the blanks that precede it.
StoredName == Names \X BOOLEAN
Bare(name) == <<name[1], FALSE>>

Entry == [name : StoredName, child : Node]
Unused == [name |-> <<"unused entry", FALSE>>, child |-> Nobody]

\* A freed chunk starts with the tag of free chunks: it is not read as a table.
ASSUME FreedAssumption == Freed \notin Seq(Entry \cup {Unused})

NewHeader(name) == [name |-> name, count |-> 0, room |-> 0, table |-> <<>>]

Idle == [do |-> "idle", parent |-> Nobody, child |-> Nobody, from |-> Nobody, table |-> <<>>]

Init ==
  /\ hdr = [n \in {Root} |-> NewHeader(<<"root", FALSE>>)]
  /\ op = Idle /\ frames = <<>>

-----------------------------------------------------------------------------

Live == DOMAIN hdr

Entries(n) == {hdr[n].table[i] : i \in 1 .. hdr[n].count}

\* ADFI_check_4_child_name.
Found(p, name) == \E e \in Entries(p) : e.name = name

IsChild(p, c) == \E e \in Entries(p) : e.child = c

\* An allocation returns an address that no header, table or caller knows
\* (ADFFileSpace!AllocationIsFresh); Node is finite, so the identifier of an
\* address is used again once no trace of it is left on disk.
Fresh(n) ==
  n \notin Live /\ \A p \in Live : hdr[p].table # Freed =>
    \A i \in 1 .. Len(hdr[p].table) : hdr[p].table[i].child # n

\* Mutant: the table counts as full one entry late.
FullLate(n) == hdr[n].room < hdr[n].count

Full(n) == hdr[n].room <= hdr[n].count

Grown(room) == IF room = 0 THEN ListChunk ELSE (room * 3) \div 2

\* How ADFI_add_2_sub_node_table starts.
Add(p, c, from) ==
  [do |-> IF Full(p) THEN "grow" ELSE "enter",
   parent |-> p, child |-> c, from |-> from, table |-> <<>>]

\* ADF_Create: the header of the node goes to disk before any table names it.
Create(p, n, name) ==
  /\ op = Idle /\ p \in Live /\ Fresh(n)
  /\ ~Found(p, Bare(name))
  /\ hdr' = [x \in Live \cup {n} |-> IF x = n THEN NewHeader(Bare(name)) ELSE hdr[x]]
  /\ op' = Add(p, n, Nobody)
  /\ UNCHANGED frames

\* What c is to p for a program that keeps to the documentation: c is a child of
\* p, q does not lie below c and has no other child of that name.
Below(n) ==
  {m \in Node : \A S \in SUBSET Node :
     n \in S /\ (\A p \in S \cap Live : \A e \in Entries(p) : e.child \in S) => m \in S}

Proper(p, c, q) ==
  IsChild(p, c) /\ q \notin Below(c) /\ (q = p \/ ~Found(q, hdr[c].name))

\* Mutant: the old parent keeps the child.
MoveChildAdds(p, c, q) ==
  /\ op = Idle /\ {p, c, q} \subseteq Live
  /\ AnyMove \/ Proper(p, c, q)
  /\ Found(p, hdr[c].name)
  /\ op' = Add(q, c, Nobody)
  /\ UNCHANGED <<hdr, frames>>

\* ADF_Move_Child: the code looks for the NAME of c among the children of p.
MoveChild(p, c, q) ==
  /\ op = Idle /\ {p, c, q} \subseteq Live
  /\ AnyMove \/ Proper(p, c, q)
  /\ Found(p, hdr[c].name)
  /\ op' = Add(q, c, p)
  /\ UNCHANGED <<hdr, frames>>

\* A full table is copied to a longer one: the old one is freed first.
Grow ==
  /\ op.do = "grow"
  /\ LET p == op.parent
         old == hdr[p].table
     IN /\ op' = [op EXCEPT !.do = "enter",
                    !.table = [i \in 1 .. Grown(hdr[p].room) |->
                                 IF i <= hdr[p].count THEN old[i] ELSE Unused]]
        /\ hdr' = IF hdr[p].count > 0 THEN [hdr EXCEPT ![p].table = Freed] ELSE hdr
  /\ UNCHANGED frames

\* The entry is written behind the entries that count, in the new table or the old.
Enter ==
  /\ op.do = "enter"
  /\ LET p == op.parent
         last == hdr[p].count + 1
         entry == [name |-> hdr[op.child].name, child |-> op.child]
     IN IF op.table = <<>>
        THEN hdr' = [hdr EXCEPT ![p].table[last] = entry] /\ op' = [op EXCEPT !.do = "count"]
        ELSE hdr' = hdr /\ op' = [op EXCEPT !.do = "count", !.table[last] = entry]
  /\ UNCHANGED frames

\* Mutant: the header keeps the pointer to the table that was freed.
CountOldTable ==
  /\ op.do = "count"
  /\ hdr' = [hdr EXCEPT ![op.parent].count = @ + 1,
                        ![op.parent].table = IF op.table = <<>> \/ @ = Freed THEN @ ELSE op.table,
                        ![op.parent].room = IF op.table = <<>> THEN @ ELSE Len(op.table)]
  /\ op' = IF op.from = Nobody THEN Idle
           ELSE [Idle EXCEPT !.do = "drop", !.parent = op.from, !.child = op.child]
  /\ UNCHANGED frames

\* The header of the parent points to the table and counts the entry: the add is
\* done, and ADF_Move_Child goes on with the old parent.
Count ==
  /\ op.do = "count"
  /\ hdr' = [hdr EXCEPT ![op.parent].count = @ + 1,
                        ![op.parent].table = IF op.table = <<>> THEN @ ELSE op.table,
                        ![op.parent].room = IF op.table = <<>> THEN @ ELSE Len(op.table)]
  /\ op' = IF op.from = Nobody THEN Idle
           ELSE [Idle EXCEPT !.do = "drop", !.parent = op.from, !.child = op.child]
  /\ UNCHANGED frames

-----------------------------------------------------------------------------
(* ADFI_delete_from_sub_node_table and the recursion of ADF_Delete.        *)

\* Mutant: the hole is taken to be one entry further.
WithoutNext(table, count, c) ==
  LET found == CHOOSE i \in 1 .. count :
                 table[i].child = c /\ \A j \in 1 .. i - 1 : table[j].child # c
  IN [i \in 1 .. Len(table) |-> IF i <= found \/ i > count THEN table[i]
                                ELSE IF i < count THEN table[i + 1] ELSE Unused]

\* The entries behind the first one of c move up.
Without(table, count, c) ==
  LET found == CHOOSE i \in 1 .. count :
                 table[i].child = c /\ \A j \in 1 .. i - 1 : table[j].child # c
  IN [i \in 1 .. Len(table) |-> IF i < found \/ i > count THEN table[i]
                                ELSE IF i < count THEN table[i + 1] ELSE Unused]

Drop ==
  /\ op.do = "drop" /\ op.parent \in Live /\ IsChild(op.parent, op.child)
  /\ hdr' = [hdr EXCEPT ![op.parent].table = Without(@, hdr[op.parent].count, op.child)]
  /\ op' = [op EXCEPT !.do = "uncount"]
  /\ UNCHANGED frames

\* SUB_NODE_TABLE_ENTRIES_BAD, or the parent was deleted with the rest.
DropFails ==
  /\ op.do = "drop"
  /\ op.parent \in Live => ~IsChild(op.parent, op.child)
  /\ op' = Idle /\ frames' = <<>>
  /\ UNCHANGED hdr

Uncount ==
  /\ op.do = "uncount"
  /\ hdr' = [hdr EXCEPT ![op.parent].count = @ - 1]
  /\ op' = IF frames = <<>> THEN Idle ELSE [Idle EXCEPT !.do = "free table"]
  /\ UNCHANGED frames

\* Mutant: the last child is left out.
FrameButLast(pid, id) ==
  [pid |-> pid, id |-> id, kids |-> [i \in 1 .. hdr[id].count - 1 |-> hdr[id].table[i].child]]

Frame(pid, id) ==
  [pid |-> pid, id |-> id, kids |-> [i \in 1 .. hdr[id].count |-> hdr[id].table[i].child]]

Top == frames[Len(frames)]

Popped == [k \in 1 .. Len(frames) - 1 |-> frames[k]]

\* ADF_Delete of any node, the root too, under a parent that has a table.
Delete(pid, id) ==
  /\ op = Idle /\ {pid, id} \subseteq Live /\ hdr[pid].room > 0
  /\ op' = [Idle EXCEPT !.do = "children"]
  /\ frames' = <<Frame(pid, id)>>
  /\ UNCHANGED hdr

\* Each child of the node is deleted, in the order of the table at the start.
DeleteChild ==
  /\ op.do = "children" /\ Top.kids # <<>>
  /\ frames' = Append(Append(Popped, [Top EXCEPT !.kids = Tail(@)]),
                      Frame(Top.id, Head(Top.kids)))
  /\ UNCHANGED <<hdr, op>>

\* Then its data, and its entry in the table of the parent.
ChildrenDeleted ==
  /\ op.do = "children" /\ Top.kids = <<>>
  /\ op' = [Idle EXCEPT !.do = "drop", !.parent = Top.pid, !.child = Top.id]
  /\ UNCHANGED <<hdr, frames>>

FreeTable ==
  /\ op.do = "free table"
  /\ hdr' = IF hdr[Top.id].room > 0 THEN [hdr EXCEPT ![Top.id].table = Freed] ELSE hdr
  /\ op' = [Idle EXCEPT !.do = "free header"]
  /\ UNCHANGED frames

FreeHeader ==
  /\ op.do = "free header"
  /\ hdr' = [n \in Live \ {Top.id} |-> hdr[n]]
  /\ frames' = Popped
  /\ op' = IF Popped = <<>> THEN Idle ELSE [Idle EXCEPT !.do = "children"]

-----------------------------------------------------------------------------
(* ADF_Put_Name.                                                           *)

\* The name is checked without its leading blanks and stored with them; the
\* child is the first one with the name of the node, and must be that node.
PutName(p, c, name) ==
  /\ op = Idle /\ {p, c} \subseteq Live
  /\ ~Found(p, Bare(name))
  /\ \E i \in 1 .. hdr[p].count :
       /\ hdr[p].table[i].child = c /\ hdr[p].table[i].name = hdr[c].name
       /\ \A j \in 1 .. i - 1 : hdr[p].table[j].name # hdr[c].name
  /\ hdr' = [hdr EXCEPT ![c].name = name]
  /\ op' = [Idle EXCEPT !.do = "rename", !.parent = p, !.child = c]
  /\ UNCHANGED frames

RenameEntry ==
  /\ op.do = "rename"
  /\ hdr' = [hdr EXCEPT ![op.parent].table =
               [i \in DOMAIN @ |-> IF @[i].child = op.child
                                   THEN [@[i] EXCEPT !.name = hdr[op.child].name] ELSE @[i]]]
  /\ op' = Idle
  /\ UNCHANGED frames

Next ==
  \/ \E p, n \in Node, name \in Names \X Blanks : Create(p, n, name)
  \/ \E p, c, q \in Node : MoveChild(p, c, q)
  \/ \E p, c \in Node, name \in Names \X Blanks : PutName(p, c, name)
  \/ \E pid, id \in Node : Delete(pid, id)
  \/ Grow \/ Enter \/ Count
  \/ Drop \/ DropFails \/ Uncount
  \/ DeleteChild \/ ChildrenDeleted \/ FreeTable \/ FreeHeader
  \/ RenameEntry

Spec == Init /\ [][Next]_vars

-----------------------------------------------------------------------------
(* Properties.                                                             *)

Header == [name : StoredName \cup {<<"root", FALSE>>}, count : Nat, room : Nat,
           table : Seq(Entry \cup {Unused}) \cup {Freed}]

TypeOK ==
  /\ Root \in Live /\ Live \subseteq Node
  /\ hdr \in [Live -> Header]
  /\ \A n \in Live : hdr[n].count <= hdr[n].room
  /\ \A n \in Live : hdr[n].table = Freed \/ Len(hdr[n].table) = hdr[n].room
  /\ {op.parent, op.child, op.from} \subseteq Node \cup {Nobody}
  /\ \A i \in 1 .. Len(frames) : {frames[i].pid, frames[i].id} \subseteq Node

\* At no moment can a crash make a table unreadable but the one that is being
\* grown, or that of a node being deleted once nothing names the node.
TablesReadable ==
  \A n \in Live : hdr[n].table = Freed =>
    \/ op.do \in {"enter", "count"} /\ n = op.parent
    \/ op.do = "free header" /\ n = Top.id

\* Every entry that counts leads to a node header with the name in the entry,
\* at every moment: a node gets its header before its entry and loses its entry
\* before its header.  Only the last entry of the table being shortened may
\* count and be unused, and only the entry being renamed may be behind.
EntriesLead ==
  \A n \in Live : hdr[n].table # Freed =>
    \A i \in 1 .. hdr[n].count :
      LET e == hdr[n].table[i]
      IN \/ /\ e.child \in Live
            /\ e.name = hdr[e.child].name \/ (op.do = "rename" /\ op.child = e.child)
         \/ e = Unused /\ op.do = "uncount" /\ n = op.parent /\ i = hdr[n].count

\* Where the tables list c.
Listings(c) ==
  UNION {{p} \X {i \in 1 .. hdr[p].count : hdr[p].table[i].child = c} : p \in Live}

\* Between operations every node header on disk belongs to exactly one entry of
\* one table, and all of them are found from the root: no operation, a failed
\* one neither, leaks a node, lists it twice or cuts off a part of the tree.
OneTree ==
  op = Idle =>
    /\ Live = Below(Root)
    /\ \A c \in Live : Cardinality(Listings(c)) = IF c = Root THEN 0 ELSE 1

\* "Check that child is really a child of parent": a node that was moved is not
\* listed by another parent as well.
OneParent ==
  op = Idle => \A p, q \in Live, c \in Node : IsChild(p, c) /\ IsChild(q, c) => p = q

\* A move is over when the old parent drops the node; until then the new one
\* lists it too.
Moving(c) == c = op.child /\ (op.from # Nobody \/ (op.do = "drop" /\ frames = <<>>))

\* The entries of n as the running operation knows them.
View(n) ==
  LET table == IF op.do \in {"enter", "count"} /\ n = op.parent /\ op.table # <<>>
               THEN op.table ELSE hdr[n].table
  IN {table[i] : i \in 1 .. hdr[n].count} \ {Unused}

ViewTree ==
  LET Lists(n, c) == \E e \in View(n) : e.child = c
      Parent(c) == IF Moving(c)
                   THEN IF op.do = "drop" THEN op.parent ELSE op.from
                   ELSE CHOOSE n \in Live : Lists(n, c)
      readable == {n \in Live : hdr[n].table # Freed \/ op.do \in {"enter", "count"}}
      listed == {c \in Live : \E n \in readable : Lists(n, c)}
  IN [c \in listed |->
        [parent |-> Parent(c), name |-> (CHOOSE e \in View(Parent(c)) : e.child = c).name]]

Hierarchy ==
  INSTANCE NodeHierarchy WITH Names <- StoredName, tree <- ViewTree

\* Every operation, chunk by chunk, is a step of the abstract tree or none:
\* nodes come, move and go one at a time and the tree stays one in between.
ImplementsHierarchy == Hierarchy!Spec
=============================================================================
