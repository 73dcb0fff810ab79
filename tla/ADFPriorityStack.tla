-------------------------- MODULE ADFPriorityStack --------------------------
(***************************************************************************)
(* The priority stack of the ADF core: ADFI_stack_control and the          *)
(* functions of adfpp/ADF_internals.c that go through it or around it.     *)
(* The stack keeps copies of file headers, node headers and sub-node table *)
(* entries by file index and address, for all open files together.         *)
(*                                                                         *)
(* `disk' is what ADFI_read_file returns, the block buffers included       *)
(* (module ADFBlockBuffer); here the question is which of the functions    *)
(* that write there must also write, or clear, the copy on the stack.      *)
(***************************************************************************)
EXTENDS Integers, FiniteSets

CONSTANTS Files,          \* file indices
          MaxStack,       \* MAX_STACK
          NodeAddrs,      \* addresses of the node headers of each file
          MaxEntries,     \* room in the sub-node table of each file
          Values,         \* contents of a node header or an entry
          Dates, MaxEof,  \* modification dates; bound on the end of file
          OldFiles,       \* BOOLEAN, or {FALSE}: all files have the library's version
          MayFail,        \* TRUE: writes may fail, in one place at a time
          Header,         \* the address of the file header, <<0, 0>>
          Empty,          \* a slot of the stack that is not used
          Freed,          \* a node header that was freed, or never written
          Unused          \* an entry that does not count

EntryAddrs(f) == 1 .. MaxEntries[f]
Addrs(f) == {Header} \cup NodeAddrs[f] \cup EntryAddrs(f)
AllAddrs == UNION {Addrs(f) : f \in Files}

ASSUME StackAssumption ==
  /\ Files \subseteq Nat /\ MaxStack \in Nat \ {0} /\ MaxEof \in Nat
  /\ \A f \in Files :
       /\ MaxEntries[f] \in Nat
       /\ Header \notin NodeAddrs[f] \cup Nat /\ NodeAddrs[f] \cap Nat = {}
  /\ OldFiles \subseteq BOOLEAN /\ MayFail \in BOOLEAN /\ Dates # {}
  /\ {Freed, Unused} \cap Values = {}

VARIABLES stack,      \* PRISTK: MaxStack slots
          disk,       \* contents of the files, by file index and address
          count,      \* num_sub_nodes: how many entries of the table are used
          open,       \* file_in_use
          update,     \* the files whose file_version_update string is not empty
          upgraded,   \* history: the files that were given the new version
          unsure      \* history: where a write failed since then

vars == <<stack, disk, count, open, update, upgraded, unsure>>

FileHeader == [old : BOOLEAN, date : Dates, eof : 0 .. MaxEof]

\* An address keeps its type as long as the file is open: no space is given out
\* twice (ADFFileSpace!AllocationIsFresh).
TypeOf(a) ==
  IF a = Header THEN "FILE_STK" ELSE IF a \in Nat THEN "SUBNODE_STK" ELSE "NODE_STK"

Contents(a) ==
  IF a = Header THEN FileHeader
  ELSE IF a \in Nat THEN Values \cup {Unused} ELSE Values \cup {Freed}

Slots == 1 .. MaxStack

-----------------------------------------------------------------------------
(* ADFI_stack_control, as functions from a stack to the next one.          *)

Matches(slot, f, a) == slot # Empty /\ slot.file = f /\ slot.addr = a

OnStack(s, f, a) == \E i \in Slots : Matches(s[i], f, a)

Copy(s, f, a) == s[CHOOSE i \in Slots : Matches(s[i], f, a)].data

\* Priority levels are compared with each other and with 1 only: a level above
\* 1 is replaced by its rank, to keep the counter bounded.
Ranked(s) ==
  LET levels == {s[i].level : i \in {j \in Slots : s[j] # Empty}} \ {1}
      Rank(level) == IF level = 1 THEN 1 ELSE 1 + Cardinality({m \in levels : m <= level})
  IN [i \in Slots |-> IF s[i] = Empty THEN Empty ELSE [s[i] EXCEPT !.level = Rank(@)]]

\* Mutant: the top priority is zero, the level of a slot without data.
RaiseToZero(s, f, a) ==
  [i \in Slots |-> IF Matches(s[i], f, a) THEN [s[i] EXCEPT !.level = 0] ELSE s[i]]

\* GET_STK of an entry that is there.
Raise(s, f, a) ==
  Ranked([i \in Slots |-> IF Matches(s[i], f, a) THEN [s[i] EXCEPT !.level = 1] ELSE s[i]])

\* The slot SET_STK takes for a new entry: the first empty one, else the first
\* of the highest level.
Victim(s) ==
  LET empty == {i \in Slots : s[i] = Empty}
      Lowest(i) == \A j \in Slots : s[j].level <= s[i].level
      best == IF empty # {} THEN empty ELSE {i \in Slots : Lowest(i)}
  IN CHOOSE i \in best : \A j \in best : i <= j

\* Mutant: the search for the entry ends at the first empty slot.
SetStackFirstEmpty(s, f, a, d) ==
  LET new == [file |-> f, addr |-> a, type |-> TypeOf(a), level |-> 1, data |-> d]
      known == {i \in Slots : Matches(s[i], f, a) /\ \A j \in 1 .. i - 1 : s[j] # Empty}
      place == IF known # {} THEN CHOOSE i \in known : TRUE ELSE Victim(s)
  IN Ranked([i \in Slots |-> IF i = place THEN new
                             ELSE IF s[i] = Empty THEN Empty
                             ELSE [s[i] EXCEPT !.level = @ + 1]])

\* SET_STK: an entry that is there gets the new data, all others age.
SetStack(s, f, a, d) ==
  LET new == [file |-> f, addr |-> a, type |-> TypeOf(a), level |-> 1, data |-> d]
      place == IF OnStack(s, f, a) THEN CHOOSE i \in Slots : Matches(s[i], f, a) ELSE Victim(s)
  IN Ranked([i \in Slots |-> IF i = place THEN new
                             ELSE IF s[i] = Empty THEN Empty
                             ELSE [s[i] EXCEPT !.level = @ + 1]])

\* Mutant: the entry of a freed chunk stays.
DeleteNothing(s, f, a) == s

\* DEL_STK_ENTRY.
Delete(s, f, a) == [i \in Slots |-> IF Matches(s[i], f, a) THEN Empty ELSE s[i]]

\* CLEAR_STK and CLEAR_STK_TYPE: file index 0 stands for all the files.
OfFile(slot, f) == slot # Empty /\ (f = 0 \/ slot.file = f)

\* Mutant: the entries of other files are cleared instead.
ClearOthers(s, f) == [i \in Slots |-> IF ~OfFile(s[i], f) THEN Empty ELSE s[i]]

Clear(s, f) == [i \in Slots |-> IF OfFile(s[i], f) THEN Empty ELSE s[i]]

ClearType(s, f, type) ==
  [i \in Slots |-> IF OfFile(s[i], f) /\ s[i].type = type THEN Empty ELSE s[i]]

-----------------------------------------------------------------------------
(* The functions that read and write chunks.                               *)

\* What a read of address a returns, and the stack it leaves.
Served(f, a) == IF OnStack(stack, f, a) THEN Copy(stack, f, a) ELSE disk[f][a]

ReadThrough(s, f, a) ==
  IF OnStack(s, f, a) THEN Raise(s, f, a) ELSE SetStack(s, f, a, disk[f][a])

\* ADFI_read_file_header, _node_header, _sub_node_table_entry.  A node header
\* that comes from the disk must have its tags.
Read(f, a) ==
  /\ f \in open /\ a \in Addrs(f)
  /\ a \in Nat => a <= count[f]
  /\ Served(f, a) # Freed
  /\ stack' = ReadThrough(stack, f, a)
  /\ UNCHANGED <<disk, count, open, update, upgraded, unsure>>

\* Bound: no second place becomes unsure before the first one is written again.
WriteMayFail == MayFail /\ unsure = {}

\* ADFI_write_file_header, _node_header, _sub_node_table_entry: the copy is set
\* whether the write succeeded or not.
WriteFrom(s, f, a, d) ==
  /\ stack' = SetStack(s, f, a, d)
  /\ \/ /\ disk' = [disk EXCEPT ![f][a] = d]
        /\ unsure' = unsure \ {<<f, a>>}
     \/ /\ WriteMayFail
        /\ unsure' = unsure \cup {<<f, a>>}
        /\ UNCHANGED disk

\* A node is created, a header is rewritten, an entry is renamed.
Write(f, a, v) ==
  /\ f \in open /\ a \in Addrs(f) \ {Header}
  /\ a \in Nat => a <= count[f]
  /\ WriteFrom(stack, f, a, v)
  /\ UNCHANGED <<count, open, update, upgraded>>

\* ADFI_file_free of a node header.
FreeNode(f, n) ==
  /\ f \in open /\ n \in NodeAddrs[f] /\ Served(f, n) # Freed
  /\ disk' = [disk EXCEPT ![f][n] = Freed]
  /\ stack' = Delete(stack, f, n)
  /\ UNCHANGED <<count, open, update, upgraded, unsure>>

\* ADFI_file_malloc and ADF_Database_Set_Format read the file header, change a
\* field and write the WHOLE header back.
Malloc(f) ==
  /\ f \in open /\ Served(f, Header).eof < MaxEof
  /\ WriteFrom(ReadThrough(stack, f, Header), f, Header,
               [Served(f, Header) EXCEPT !.eof = @ + 1])
  /\ UNCHANGED <<count, open, update, upgraded>>

SetFormat(f, d) ==
  /\ f \in open
  /\ WriteFrom(ReadThrough(stack, f, Header), f, Header,
               [Served(f, Header) EXCEPT !.date = d])
  /\ UNCHANGED <<count, open, update, upgraded>>

\* ADFI_write_modification_date: two fields of the header, around the stack.
ModificationDate(f, d) ==
  /\ f \in open
  /\ disk' = [disk EXCEPT ![f][Header].date = d,
                          ![f][Header].old = @ /\ f \notin update]
  /\ update' = update \ {f} /\ upgraded' = upgraded \cup (update \cap {f})
  /\ UNCHANGED <<stack, count, open, unsure>>

\* ADFI_add_2_sub_node_table: the entry behind the last is written around the
\* stack; a longer table is made when there is no room.
AddEntry(f, v) ==
  /\ f \in open /\ count[f] < MaxEntries[f]
  /\ disk' = [disk EXCEPT ![f][count[f] + 1] = v]
  /\ count' = [count EXCEPT ![f] = @ + 1]
  /\ UNCHANGED <<stack, open, update, upgraded, unsure>>

\* ADFI_delete_from_sub_node_table: the table is rewritten around the stack,
\* the entries behind the hole move up, and the copies are cleared.
Rewritten(f, hole) ==
  [a \in Addrs(f) |-> IF a \notin hole .. count[f] THEN disk[f][a]
                   ELSE IF a < count[f] THEN disk[f][a + 1] ELSE Unused]

DeleteEntry(f, hole) ==
  /\ f \in open /\ hole <= count[f]
  /\ disk' = [disk EXCEPT ![f] = Rewritten(f, hole)]
  /\ count' = [count EXCEPT ![f] = @ - 1]
  /\ stack' = ClearType(stack, f, "SUBNODE_STK")
  /\ UNCHANGED <<open, update, upgraded, unsure>>

\* An error after the table was written: the copies are not cleared.
DeleteEntryFails(f, hole) ==
  /\ WriteMayFail /\ f \in open /\ hole <= count[f]
  /\ disk' = [disk EXCEPT ![f] = Rewritten(f, hole)]
  /\ unsure' = unsure \cup ({f} \X EntryAddrs(f))
  /\ UNCHANGED <<stack, count, open, update, upgraded>>

\* ADFI_delete_sub_node_table: a table is freed, and the copies are cleared.
FreeTable(f) ==
  /\ f \in open
  /\ stack' = ClearType(stack, f, "SUBNODE_STK")
  /\ UNCHANGED <<disk, count, open, update, upgraded, unsure>>

\* A file that is not open is out of sight.
Shut(f) ==
  [a \in Addrs(f) |->
     IF a = Header THEN [old |-> FALSE, date |-> CHOOSE d \in Dates : TRUE, eof |-> 0]
     ELSE IF a \in Nat THEN Unused ELSE Freed]

\* ADF_Database_Open: whatever file is given this index, its header is read.
Open(f) ==
  /\ f \notin open
  /\ \E header \in {h \in FileHeader : h.old \in OldFiles},
        nodes \in [NodeAddrs[f] -> Values \cup {Freed}],
        n \in 0 .. MaxEntries[f] :
       \E entries \in [1 .. n -> Values] :
         /\ disk' = [disk EXCEPT ![f] = [a \in Addrs(f) |->
                       IF a = Header THEN header ELSE IF a \notin Nat THEN nodes[a]
                       ELSE IF a <= n THEN entries[a] ELSE Unused]]
         /\ count' = [count EXCEPT ![f] = n]
         /\ update' = IF header.old THEN update \cup {f} ELSE update
         /\ stack' = IF OnStack(stack, f, Header) THEN Raise(stack, f, Header)
                     ELSE SetStack(stack, f, Header, header)
  /\ open' = open \cup {f}
  /\ UNCHANGED <<upgraded, unsure>>

\* ADFI_close_file: closing file 0 clears the whole stack.
Close(f) ==
  /\ f \in open
  /\ stack' = Clear(stack, f)
  /\ open' = open \ {f} /\ update' = update \ {f} /\ upgraded' = upgraded \ {f}
  /\ unsure' = {u \in unsure : u[1] # f}
  /\ disk' = [disk EXCEPT ![f] = Shut(f)] /\ count' = [count EXCEPT ![f] = 0]

Init ==
  /\ stack = [i \in Slots |-> Empty]
  /\ disk = [f \in Files |-> Shut(f)]
  /\ count = [f \in Files |-> 0]
  /\ open = {} /\ update = {} /\ upgraded = {} /\ unsure = {}

Next ==
  \E f \in Files :
    \/ Open(f) \/ Close(f)
    \/ \E a \in AllAddrs : Read(f, a)
    \/ \E a \in AllAddrs \ {Header}, v \in Values : Write(f, a, v)
    \/ \E n \in AllAddrs \ {Header} : FreeNode(f, n)
    \/ \E v \in Values : AddEntry(f, v)
    \/ \E hole \in AllAddrs \cap Nat : DeleteEntry(f, hole) \/ DeleteEntryFails(f, hole)
    \/ FreeTable(f)
    \/ Malloc(f)
    \/ \E d \in Dates : SetFormat(f, d) \/ ModificationDate(f, d)

Spec == Init /\ [][Next]_vars

-----------------------------------------------------------------------------
(* Properties.                                                             *)

Slot ==
  UNION {[file : Files, addr : {a}, type : {TypeOf(a)}, level : 1 .. MaxStack + 1,
          data : Contents(a)] : a \in AllAddrs}

TypeOK ==
  /\ \A i \in Slots : stack[i] = Empty \/ stack[i] \in Slot
  /\ \A f \in Files : \A a \in Addrs(f) : disk[f][a] \in Contents(a)
  /\ \A f \in Files : count[f] \in 0 .. MaxEntries[f]
  /\ open \subseteq Files /\ update \subseteq open /\ upgraded \subseteq open
  /\ unsure \subseteq open \X AllAddrs

\* Each address is on the stack once: a second copy would survive its deletion.
KeysOnce ==
  \A i, j \in Slots :
    i # j /\ stack[i] # Empty => ~Matches(stack[j], stack[i].file, stack[i].addr)

\* A read is served what is on disk, whatever functions wrote there before,
\* unless a write to that place failed: node headers, entries that count and the
\* end of the file (from which the next chunk is allocated).  In particular a
\* node that was freed is never served.
ServedIsCurrent ==
  \A f \in open :
    /\ \A n \in NodeAddrs[f] : <<f, n>> \notin unsure => Served(f, n) = disk[f][n]
    /\ \A a \in 1 .. count[f] : <<f, a>> \notin unsure => Served(f, a) = disk[f][a]
    /\ <<f, Header>> \notin unsure => Served(f, Header).eof = disk[f][Header].eof

\* A file index is given to another file after a close: no copy of the old
\* file's chunks is left.
ClosedIsForgotten == \A i \in Slots : stack[i] # Empty => stack[i].file \in open

\* "Modified ADF databases will take on the version ID of the current ADF
\* library version if it is higher".
UpgradeStays == \A f \in upgraded : ~disk[f][Header].old
=============================================================================
