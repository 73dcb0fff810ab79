------------------------------ MODULE ADFLinks ------------------------------
(***************************************************************************)
(* Links between the nodes of several files (src/adfpp/ADF_interface.c,    *)
(* ADF_internals.c): the table of open files, ADF_Link, the functions that *)
(* follow links (ADFI_chase_link and ADF_Get_Node_ID, which call each      *)
(* other), and the link ADFI_chase_link remembers from one call to the     *)
(* next.                                                                   *)
(*                                                                         *)
(* An identifier is a slot of the table and the address of a node in the   *)
(* file there.  A function of the library runs to its end before the next  *)
(* one is called; the steps of following links are steps here, so that it  *)
(* can be said that they come to an end.                                   *)
(***************************************************************************)
EXTENDS Integers, Sequences, FiniteSets, FiniteSetsExt

CONSTANTS Files,      \* file names
          MaxFiles,   \* slots of the table: MAXIMUM_FILES
          Addresses,  \* for each file, where nodes other than the root can be
          Names,      \* names of nodes
          Targets,    \* for each file, what its links say: a file or Here, and a path
          MaxDepth,   \* ADF_MAXIMUM_LINK_DEPTH
          Here,       \* no file name: the file of the link
          Free,       \* a slot that is not in use
          NoLink      \* a node that is no link

ASSUME LinksAssumption ==
  /\ MaxFiles \in Nat \ {0} /\ MaxDepth \in Nat /\ Here \notin Files /\ Free \notin Files
  /\ IsFiniteSet(Files)
  /\ \A f \in Files : /\ Addresses[f] \in SUBSET (Nat \ {0}) /\ IsFiniteSet(Addresses[f])
                      /\ IsFiniteSet(Targets[f])
                      /\ \A to \in Targets[f] : to.file \in Files \cup {Here} /\ to.path \in Seq(Names) \ {<<>>}

VARIABLES disk,     \* the nodes of each file: parent, name, link
          table,    \* the file in each slot
          cache,    \* last_link_ID and last_link_LID
          renamed,  \* whether a node got another name since the cache was empty
          calls     \* the functions under way, the one called last in front

vars == <<disk, table, cache, renamed, calls>>

Root == 0
Slots == 1..MaxFiles
NoCache == <<>>

Nodes(f) == DOMAIN disk[f]
InUse == {s \in Slots : table[s] # Free}
ID(s, a) == [slot |-> s, at |-> a]
IDs == {ID(s, a) : s \in InUse, a \in {Root} \cup UNION {Addresses[f] : f \in Files}}

\* The identifiers of the nodes there are.
LiveIDs == {id \in IDs : id.at \in Nodes(table[id.slot])}

Node(id) == disk[table[id.slot]][id.at]
IsLink(id) == Node(id).link # NoLink

\* ADF_Get_Link_Path and ADF_Get_Root_ID.
LinkPath(id) == Node(id).link
RootID(slot) == ID(slot, Root)

ChildrenOf(f, a) == {c \in Nodes(f) \ {Root} : disk[f][c].parent = a}
Named(f, a, name) == {c \in ChildrenOf(f, a) : disk[f][c].name = name}

Init ==
  /\ disk = [f \in Files |-> [a \in {Root} |-> [parent |-> Root, name |-> "root", link |-> NoLink]]]
  /\ table = [s \in Slots |-> Free]
  /\ cache = NoCache /\ renamed = FALSE
  /\ calls = <<>>

Idle == calls = <<>>

\* ADFI_stack_control forgets the link whenever it clears anything.
Forget == cache' = NoCache /\ renamed' = FALSE

-----------------------------------------------------------------------------
(* The table of files.                                                     *)

\* ADFI_open_file takes the first slot.
FreeSlot == Min(Slots \ InUse)

\* ADF_Database_Open: whether the file is open already is not looked at.
Open(f) ==
  /\ Idle /\ InUse # Slots
  /\ table' = [table EXCEPT ![FreeSlot] = f]
  /\ UNCHANGED <<disk, cache, renamed, calls>>

\* ADF_Database_Close.  A file that was opened to follow a link has no top file, so
\* it stays open when the file with the link is closed.
Close(s) ==
  /\ Idle /\ table[s] # Free
  /\ table' = [table EXCEPT ![s] = Free]
  /\ Forget
  /\ UNCHANGED <<disk, calls>>

-----------------------------------------------------------------------------
(* The functions of the library.  Those that take a node and follow it if  *)
(* it is a link begin with Chase; what they do then is their own frame.    *)

Chase(id) == [do |-> "chase", id |-> id, at |-> id, depth |-> 0]
Find(id, path) == [do |-> "find", at |-> id, path |-> path, real |-> FALSE]

\* ADF_Get_Label, ADF_Children_Names, ADF_Read_All_Data and others.
Look(id) ==
  /\ Idle
  /\ calls' = <<Chase(id), [do |-> "look"]>>
  /\ UNCHANGED <<disk, table, cache, renamed>>

\* ADF_Get_Node_ID.
GetNodeID(id, path) ==
  /\ Idle
  /\ calls' = <<Find(id, path), [do |-> "look"]>>
  /\ UNCHANGED <<disk, table, cache, renamed>>

\* ADF_Create, and ADF_Link, which refuses a parent that is a link.
Create(id, name, link) ==
  /\ Idle
  /\ link # NoLink => ~IsLink(id)
  /\ calls' = <<Chase(id), [do |-> "create", name |-> name, link |-> link]>>
  /\ UNCHANGED <<disk, table, cache, renamed>>

\* ADF_Put_Name takes parent and child as they are, and clears nothing.
PutName(id, name) ==
  LET f == table[id.slot]
  IN  /\ Idle /\ id.at # Root
      /\ Named(f, Node(id).parent, name) = {}
      /\ disk' = [disk EXCEPT ![f][id.at].name = name]
      /\ renamed' = (cache # NoCache)
      /\ UNCHANGED <<table, cache, calls>>

\* A node and all below it; links are not followed.
Subtree(f, a) ==
  {b \in Nodes(f) : \A S \in SUBSET Nodes(f) : a \in S /\ (\A c \in S : ChildrenOf(f, c) \subseteq S) => b \in S}

\* Mutant: the table entry goes, the link stays remembered.
DeleteRemembers(id) ==
  LET f == table[id.slot]
  IN  /\ Idle /\ id.at # Root
      /\ disk' = [disk EXCEPT ![f] = [a \in Nodes(f) \ Subtree(f, id.at) |-> disk[f][a]]]
      /\ UNCHANGED <<table, cache, renamed, calls>>

\* ADF_Delete.
Delete(id) ==
  LET f == table[id.slot]
  IN  /\ Idle /\ id.at # Root
      /\ disk' = [disk EXCEPT ![f] = [a \in Nodes(f) \ Subtree(f, id.at) |-> disk[f][a]]]
      /\ Forget
      /\ UNCHANGED <<table, calls>>

\* Mutant: a move does not make the library forget.
MoveRemembers(id, p) ==
  LET f == table[id.slot]
  IN  /\ Idle /\ id.at # Root
      /\ p \in Nodes(f) \ Subtree(f, id.at) /\ disk[f][p].link = NoLink
      /\ Named(f, p, Node(id).name) = {}
      /\ disk' = [disk EXCEPT ![f][id.at].parent = p]
      /\ UNCHANGED <<table, cache, renamed, calls>>

\* ADF_Move_Child, as the documentation has it: not below the node itself, and not
\* beside a node of the same name.
MoveChild(id, p) ==
  LET f == table[id.slot]
  IN  /\ Idle /\ id.at # Root
      /\ p \in Nodes(f) \ Subtree(f, id.at) /\ disk[f][p].link = NoLink
      /\ Named(f, p, Node(id).name) = {}
      /\ disk' = [disk EXCEPT ![f][id.at].parent = p]
      /\ Forget
      /\ UNCHANGED <<table, calls>>

-----------------------------------------------------------------------------
(* Following links.                                                        *)

Top == Head(calls)

\* An error goes back through all callers.
Fails == calls' = <<>> /\ UNCHANGED <<disk, table, cache, renamed>>

\* Mutant: the count of the links stops at the limit.
CountedToLimit(depth) == IF depth < MaxDepth THEN depth + 1 ELSE depth

Deeper(depth) == depth + 1
TooDeep(depth) == depth > MaxDepth

\* What a function that has found id leaves of the calls.
Returned(id) ==
  LET caller == calls[2]
      rest == Tail(Tail(calls))
  IN  CASE caller.do = "chase" ->
             IF TooDeep(Deeper(caller.depth)) THEN <<>>
             ELSE <<[caller EXCEPT !.at = id, !.depth = Deeper(@)]>> \o rest
        [] caller.do = "find" -> <<[caller EXCEPT !.at = id, !.real = TRUE]>> \o rest
        [] caller.do = "create" -> <<[do |-> "enter", at |-> id, name |-> caller.name, link |-> caller.link]>>
        [] OTHER -> <<>>

Return(id) == calls' = Returned(id)

\* ADFI_chase_link begins with the link it remembers ...
ChaseRemembered ==
  /\ Top.do = "chase" /\ Top.depth = 0
  /\ cache # NoCache /\ cache[1] = Top.id
  /\ Return(cache[2])
  /\ UNCHANGED <<disk, table, cache, renamed>>

NotRemembered == Top.do = "chase" /\ (Top.depth = 0 /\ cache # NoCache => cache[1] # Top.id)

\* ... and remembers the one it has followed.
ChaseEnds ==
  /\ NotRemembered /\ ~IsLink(Top.at)
  /\ Return(Top.at)
  /\ cache' = IF Top.at = Top.id THEN cache ELSE <<Top.id, Top.at>>
  /\ UNCHANGED <<disk, table, renamed>>

\* ADFI_get_file_index_from_name: the first slot with a file of that name.
SlotsOf(f) == {s \in InUse : table[s] = f}

\* The path of a link starts at the root of its own file or of the file it names,
\* which is opened when it is not.
Follow(slot) == calls' = <<Find(RootID(slot), LinkPath(Top.at).path)>> \o calls

ChaseHere ==
  /\ NotRemembered /\ IsLink(Top.at) /\ LinkPath(Top.at).file = Here
  /\ Follow(Top.at.slot)
  /\ UNCHANGED <<disk, table, cache, renamed>>

ChaseOpen ==
  /\ NotRemembered /\ IsLink(Top.at)
  /\ SlotsOf(LinkPath(Top.at).file) # {}
  /\ Follow(Min(SlotsOf(LinkPath(Top.at).file)))
  /\ UNCHANGED <<disk, table, cache, renamed>>

ChaseOpens ==
  /\ NotRemembered /\ IsLink(Top.at)
  /\ LET file == LinkPath(Top.at).file
     IN  /\ file # Here /\ SlotsOf(file) = {}
         /\ IF InUse = Slots THEN Fails
            ELSE /\ table' = [table EXCEPT ![FreeSlot] = file]
                 /\ Follow(FreeSlot)
                 /\ UNCHANGED <<disk, cache, renamed>>

\* ADF_Get_Node_ID follows the node it starts from, and every node on the path but
\* the last.
FindReal ==
  /\ Top.do = "find" /\ ~Top.real
  /\ calls' = <<Chase(Top.at)>> \o calls
  /\ UNCHANGED <<disk, table, cache, renamed>>

FindChild ==
  /\ Top.do = "find" /\ Top.real
  /\ LET here == Named(table[Top.at.slot], Top.at.at, Head(Top.path))
     IN  IF here = {} THEN Fails
         ELSE LET child == ID(Top.at.slot, Min(here))
              IN  /\ IF Len(Top.path) = 1 THEN Return(child)
                     ELSE calls' = <<Find(child, Tail(Top.path))>> \o Tail(calls)
                  /\ UNCHANGED <<disk, table, cache, renamed>>

\* The rest of ADF_Create: the name is looked for, the node and its entry written.
\* Without an address left the model refuses.
Enter ==
  /\ Top.do = "enter"
  /\ LET f == table[Top.at.slot]
         new == Addresses[f] \ Nodes(f)
     IN  IF Named(f, Top.at.at, Top.name) # {} \/ new = {} THEN Fails
         ELSE /\ disk' = [disk EXCEPT ![f] = [a \in Nodes(f) \cup {Min(new)} |->
                   IF a \in Nodes(f) THEN disk[f][a]
                   ELSE [parent |-> Top.at.at, name |-> Top.name, link |-> Top.link]]]
              /\ calls' = <<>>
              /\ UNCHANGED <<table, cache, renamed>>

\* The path of a link leads through the link itself: it is followed to find out
\* where it leads.
ThroughItself ==
  \E i, j \in DOMAIN calls :
    i < j /\ calls[i].do = "chase" /\ calls[j].do = "chase" /\ calls[i].at = calls[j].at /\ IsLink(calls[i].at)

Step ==
  /\ calls # <<>> /\ ~ThroughItself
  /\ \/ ChaseRemembered \/ ChaseEnds \/ ChaseHere \/ ChaseOpen \/ ChaseOpens
     \/ FindReal \/ FindChild \/ Enter

\* The functions then call each other without end, and the process dies.  The
\* files stay as they are.
Overflow ==
  /\ ThroughItself
  /\ table' = [s \in Slots |-> Free] /\ calls' = <<>> /\ Forget
  /\ UNCHANGED disk

-----------------------------------------------------------------------------

Paths == UNION {{to.path : to \in Targets[f]} : f \in Files}

Next ==
  \/ \E f \in Files : Open(f)
  \/ \E s \in Slots : Close(s)
  \/ \E id \in LiveIDs :
       \/ Look(id) \/ Delete(id)
       \/ \E path \in Paths : GetNodeID(id, path)
       \/ \E name \in Names : PutName(id, name)
       \/ \E name \in Names, link \in Targets[table[id.slot]] \cup {NoLink} : Create(id, name, link)
       \/ \E p \in Nodes(table[id.slot]) : MoveChild(id, p)
  \/ Step
  \/ Overflow

\* A function that was called runs to its end.
Spec == Init /\ [][Next]_vars /\ WF_vars(Step \/ Overflow)

-----------------------------------------------------------------------------
(* What a link means: the node at the end of its path, links on the way    *)
(* and at the end followed.  A place is a file and an address there; a     *)
(* path leads from a place to a place, nodes on the way followed, and with *)
(* no path the node itself is followed.                                    *)

Nowhere == <<>>

Place(id) == <<table[id.slot], id.at>>
Places == UNION {{<<f, a>> : a \in Nodes(f)} : f \in Files}
LinkAt(p) == disk[p[1]][p[2]].link

\* The paths there are, and what is left of them on the way.
Ways == UNION {{SubSeq(path, i, Len(path)) : i \in 1..Len(path)} : path \in Paths}
Goals == Places \X (Ways \cup {<<>>})

Followed(p) == <<p, <<>>>>
Start(p) == <<IF LinkAt(p).file = Here THEN p[1] ELSE LinkAt(p).file, Root>>

\* Where a place or a path leads, when it is known where others lead.
FollowedEnd(p, known) ==
  LET end == known[<<Start(p), LinkAt(p).path>>]
  IN  IF LinkAt(p) = NoLink THEN p
      ELSE IF end = Nowhere THEN Nowhere ELSE known[Followed(end)]

PathEnd(p, path, known) ==
  LET real == known[Followed(p)]
      child == Named(real[1], real[2], Head(path))
  IN  IF real = Nowhere THEN Nowhere
      ELSE IF child = {} THEN Nowhere
      ELSE IF Len(path) = 1 THEN <<real[1], Min(child)>>
      ELSE known[<<<<real[1], Min(child)>>, Tail(path)>>]

End(goal, known) ==
  IF goal[2] = <<>> THEN FollowedEnd(goal[1], known) ELSE PathEnd(goal[1], goal[2], known)

\* Where all of them lead: nothing is known at first; a round for each goal is enough
\* to know all that can be known.
Leads ==
  LET Bound == Cardinality(Goals)
      known[n \in 0..Bound] == [goal \in Goals |-> IF n = 0 THEN Nowhere ELSE End(goal, known[n - 1])]
  IN  known[Bound]

-----------------------------------------------------------------------------
(* Properties.                                                             *)

TypeOK ==
  /\ \A f \in Files : /\ Nodes(f) \subseteq Addresses[f] \cup {Root}
                      /\ \A a \in Nodes(f) : /\ disk[f][a].parent \in Nodes(f)
                                             /\ disk[f][a].link \in Targets[f] \cup {NoLink}
  /\ table \in [Slots -> Files \cup {Free}]
  /\ cache # NoCache => cache[1] \in LiveIDs /\ cache[2] \in LiveIDs
  /\ \A i \in DOMAIN calls : calls[i].do \in {"chase", "find", "enter"} => calls[i].at \in LiveIDs

\* The link that is remembered leads where its path leads, whatever was created,
\* deleted, moved, opened and closed since, in any file; but for names: ADF_Put_Name
\* does not make the library forget.
RememberedIsRight ==
  cache # NoCache /\ ~renamed => Leads[Followed(Place(cache[1]))] = Place(cache[2])

\* Every function that follows links returns, with a node or with an error, unless
\* the path of a link leads through the link itself.
FollowingEnds == (calls # <<>>) ~> (calls = <<>> \/ ThroughItself)
=============================================================================
