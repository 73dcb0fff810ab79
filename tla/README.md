# A verification of CGNS++ and its ADF core

This directory holds TLA+ modules, TLC configurations and TLAPS proofs about the
program in `src/`: the ADF library (*Advanced Data Format*, a tree of named nodes
with data in a file, `src/adfpp/ADF_*.c`), the C++ wrapper adf++ over it
(`src/adfpp/*.cpp`) and the CGNS++ classes over that (`src/cgnspp`).

Check a model with `tlc -config X.cfg MCModule.tla`, a proof with `tlapm Module.tla`.
`PROJECT.json` lists the runs, the seeded bugs (mutants) that show each property
can fail, the source lines behind each definition, the hazards and the theorems.

## 1. The system

| Component | State it keeps | Operations | Used by |
|---|---|---|---|
| Block buffers (`ADFI_read_file`, `ADFI_write_file`, `ADFI_flush_buffers`) | one read block, one write block and its dirty flag, **shared by all open files** | small and crossing reads and writes, flush, flush at close | everything that touches a file |
| File space (`ADFI_file_malloc`, `ADFI_file_free`) | end of file in the file header, the free-chunk table and three lists of free chunks, on disk | allocate at the end, free | node headers, tables, data |
| Priority stack (`ADFI_stack_control`) | 50 copies of file headers, node headers and table entries with a level each, shared by all files | get, set, delete one, clear a file, clear a type | the readers and writers of those chunks |
| Nodes and sub-node tables (`ADF_Create`, `ADF_Delete`, `ADF_Move_Child`, `ADF_Put_Name`, `ADFI_*_sub_node_table*`) | node headers and a table of (name, address) per parent, on disk | create, delete with all below, move, rename, list | the user, links, adf++ |
| Links (`ADF_Link`, `ADFI_chase_link`) | link nodes on disk; the last link followed, in memory | make, follow, open the linked file | nearly every read of a node |
| Node data (`ADF_Put_Dimension_Information`, `ADF_Read_*`, `ADF_Write_*`, data-chunk tables) | type and dimensions in the header, one data chunk or a table of them | whole, strided and block reads and writes, extend | the user, links |
| File table (`ADF_Database_Open`, `_Close`, `ADFI_open_file`, `ADFI_close_file`) | per file: in use, name, mode, top file, format, pending version | open (old, new, scratch, read-only), close with the files below, set format | the user, links |
| Identifiers and disk pointers | none | pack a node ID in a double, hexadecimal fields, pointer arithmetic | everything |
| Number formats (`ADFI_convert_number_format` and below) | none | swap and resize numbers | node data |
| adf++ (`ADFNode`, `ADFFile`) | node handles, a reference-counted open file | the C operations as methods, errors as exceptions | cgnspp |
| cgnspp | node handles that know their CGNS label | open, read and write SIDS entities | the user |

**How they interact.** The library is sequential C called from one thread. An
operation such as `ADF_Create` is a chain of calls: it follows links, reads
headers (through the priority stack, through the read buffer), allocates
(read and rewrite the file header, put the rest of a block on a free list), writes
chunks (through the stack, through the write buffer) and ends with
`ADFI_write_modification_date`, which flushes. Nothing calls back.

**What is hard.** There is no concurrency and hence no interleaving. The difficulty is that
the same bytes live in up to four places (disk, read buffer, write buffer, priority
stack), and what they mean in three more (the link remembered, the objects of adf++, the
entities of cgnspp); that some functions go through a cache and some around it; that
the caches are shared by all files and keyed by a file index that is reused; that
an operation is many writes and may stop after any of them (an I/O error, the death of
the process); that long sequences of calls must keep lists and tables on disk
consistent; and that a file is written on one machine and read on another. One thing
has to *end*: following links is a recursion over what the files happen to say.

**What makes each component correct.**

* Buffers: a read returns what was last written; the disk lacks at most one block;
  what a successful operation or a close promises is on disk.
* File space: chunks are disjoint; no byte is lost but those cut off a data chunk that
  was written again with less data; addresses are not given out twice; small chunks lie in one block; each free chunk is on its list once.
* Stack: a copy never differs from the file; nothing of a closed file is left.
* Nodes: parents exist, and names below one parent differ; a tree, if the program moves
  nodes as it should, which the library does not look at; every entry leads to a node
  at every moment; each operation is one step of that tree, or none.
* Links: a link leads where its path leads now; following ends; the files opened
  on the way are closed with the database.
* Node data: block and strided transfers touch exactly the bytes asked for, over any
  division in chunks.
* File table: a slot is used by one file; a close releases all it opened.
* Identifiers and number formats: a place and a number come back as they were, whatever the
  machines and the format of the file.
* adf++ and cgnspp: what an object keeps of a node is what a fresh one would read.

## 2. Plan

Written, checked and, where a module of proofs is named, proved:

1. `ADFBlockBuffer`, `ADFBlockBuffer_proofs`.
2. `ADFFileSpace`, `ADFFileSpace_proofs`.
3. `NodeHierarchy` (abstract), its proofs in `NodeHandles_proofs`.
4. `ADFTree`, which implements `NodeHierarchy`, `ADFTree_proofs` with the refinement.
5. `ADFPriorityStack`, `ADFPriorityStack_proofs`.
6. `ADFSelection`, `NodeValues` (abstract) and `ADFNodeData`, which implements it but for named faults;
   `ADFNodeData_proofs`.
7. `ADFLinks`, with liveness, `ADFLinks_proofs`.
8. `NumberFormats`, `HostNumbers` (reference), `ADFIdentifiers` (one theorem, in
   `ADFFileSpace_proofs`), and `ADFPortability` over them.
9. `NodeHandles` over `NodeHierarchy`, `NodeHandles_proofs`.
10. `CGNSEntities`, `CGNSEntities_proofs`.

Left: the writes of one allocation one by one; `ADF_Database_Set_Format` on a file with data; more classes of cgnspp.

**How the modules fit together.** `ADFTree` relies on two results of the layers below it:
that an allocation is fresh (`ADFFileSpace!AllocationIsFresh`) is the guard `Fresh` of its
`Create`, and that one block at most is missing on disk (`ADFBlockBuffer!OneBlockAtRisk`),
with chunks that lie in one block (`ADFFileSpace!HeadersInOneBlock`), is why its states
are the states a crash can leave. It implements `NodeHierarchy`, and `NodeHandles` extends
`NodeHierarchy`: adf++ is modelled over the actions that the C library is shown to implement. Its
moves go further than the promise of `NodeHierarchy!Spec`, which is made to programs whose moves
are `Proper`: there a node may go below itself. `ADFLinks` has a tree per file of its own, since what a link means is a
matter of names and places only. `ADFNodeData` takes fresh chunks from a file space in which,
after `ADFFileSpace`, no two overlap. `ADFPortability` composes number formats, hexadecimal
fields and disk pointers into one file that is carried about.

## 3. The modules

### ADFBlockBuffer, ADFBlockBuffer_proofs

`io` is the disk, the length of each file and the two buffers; the operators
`WriteFile`, `FlushBuffers`, `FlushClose`, `FillRead` are the C functions as functions
from one `io` to the next, in the order of the code: reset the read buffer, flush the
dirty block if the write leaves it or crosses, then write through or into the buffer.
An operation of the library is `Begin`, any number of `WriteStep` and `Read`, and
`Commit` (`ADFI_write_modification_date`), `EndUndated` (operations without it), `Abort`
(an error found between two writes) or one of the failing writes. `Open`, `Close`,
`CloseFails` and `Crash` complete it. `written`, `bypassed`, `lost`, `synced` are history.

Data is abstracted to cells: a block has two or three, cell 0 the version and cell
1 the date of the header. `lost` are cells whose write to disk failed, which the code
marks clean all the same; `bypassed` the cells a crossing write changed on disk while
a clean write buffer of that block kept the old ones (see finding 1). Properties except
both, and only both. The case `last_rd_block == file_block` at 7754 cannot
happen, since the read buffer was reset at 7682, and has no counterpart.

### ADFFileSpace, ADFFileSpace_proofs

`eof` is the end of file recorded in the header, `chunks` the division of the file,
`next` and `table` the free lists on disk. A chunk has the bytes it was allocated (`room`) and
those up to its end tag on disk (`size`). `WriteDataChunk` moves the tag: a smaller array
written whole leaves its chunk shorter (I:7249), a block written by way of the table puts the
tag back. `Free` frees up to the tag, since `ADFI_delete_data` gives no size and
`ADFI_file_free` reads the end from disk (I:2640, 3849); what is behind it belongs to no
chunk from then on (`CutOff`). Node headers and tables are freed as they were allocated. `Malloc` has the three cases of the
code; two of them do the same to the state (`MallocHere`). The search of the free lists
is compiled out (`#if 0`, 4012-4123): freed space is never reused. `UseOnceFreed` files
a chunk by its size and by where its end tag lies.

### NodeHierarchy

What a user may rely on, in one variable: the parent and name of each node. A node is
created, moved, renamed or removed as a leaf: `ADF_Delete` is a sequence of leaf removals.
`Create` and `Rename` look for the name, as the code does. `Move` looks for nothing, as
`ADF_Move_Child` does not: that a node goes to where its name is free, and not below itself,
is `Proper`, a condition on the program that `Next` makes and the library does not check.

### ADFTree, ADFTree_proofs

`hdr` holds the node headers on disk with their tables; `op` is the step the running
operation does next and `frames` the recursion of `ADF_Delete`. Each action is one chunk
written: `Create`, `Grow`, `Enter`, `Count` for an addition; `Drop`, `Uncount`, `FreeTable`,
`FreeHeader` for a removal; `PutName`, `RenameEntry` for a rename. There is no crash action:
the invariants hold in every state, so in the state in which the process dies or
an I/O error stops the operation. A table longer than a block can be torn by a crash;
that is not modelled. `ViewTree` is the refinement mapping: a node exists from the moment
the count of its parent includes it; during a move the old parent counts.

`AnyMove` and `Blanks` let a caller do what the documentation does not have in mind;
the passing run keeps them off, and so does `ProperUse` in the theorems. `Below` is what lies
below a node, as the intersection of the sets that contain it and the children of their members. `Delete` is given a parent that has a table: for a
parent that never had a child the code reads a table at a blank pointer and fails.

### ADFPriorityStack, ADFPriorityStack_proofs

`stack` and `disk`, where `disk` is what `ADFI_read_file` returns. One action per function
that reads or writes a header or an entry, each with what it does to the stack:
through it (`Read`, `Write`, `Malloc`, `SetFormat`), around it (`ModificationDate`,
`AddEntry`), around it and clearing (`DeleteEntry`, `FreeTable`, `FreeNode`). Levels are kept
as ranks (`Ranked`), as the code compares them with each other only.

### ADFSelection, NodeValues, ADFNodeData, ADFNodeData_proofs

`NodeValues` is the abstract specification: a type, dimensions, and one value per element;
writing all, a block or a selection changes these elements, new dimensions keep what both
arrays have, another type or rank loses everything. `ADFNodeData` has what the disk has:
`chunks`, each with the size its header says, the entry the data-chunk table says and its
cells, among which the end tag lies when the size is smaller than the space. `WriteAllData`,
`WriteBlockData` and `WriteData` follow the cases of the code (no chunk, one, one and the array has
grown, a table, a table and the array has grown); `ReadAll`, `ReadBlock` and `ReadStrided`
are functions of the state. `View` is the refinement mapping. `Walk` of `ADFSelection` is the
loop over `ADFI_increment_array`, `Selected` what the selection means. An element takes four
bytes at least, so that a tag takes the place of one.

Two data types stand for all, one whose name begins with the other's: the code
compares as many characters as the new type has, and `ADF_Put_Dimension_Information` with "I4"
after "I4,R8" keeps the old type. `DamagesBlock` is what is left of a faulty block write.

### ADFLinks, ADFLinks_proofs

`disk` is the nodes of each file, `table` the open files, `cache` the link `ADFI_chase_link`
remembers, `calls` the stack of C calls: `ADFI_chase_link` and `ADF_Get_Node_ID` call each
other, and each frame counts the links it has followed on its own. One action per call or
return, and per operation (`Open`, `Close`, `Look`, `GetNodeID`, `Create` for `ADF_Create` and
`ADF_Link`, `PutName`, `Delete`, `MoveChild`). What a link means (`Leads`) is defined
apart from that, by its path: nothing is known of any place or path at first, and a round for each
of them finds out all that can be known. `renamed` is history: `ADF_Put_Name` does not make the library
forget. `ThroughItself` is the one state from which the recursion does not come back; the
process then dies of its stack (`Overflow`).

### NumberFormats, HostNumbers, ADFIdentifiers, ADFPortability

Pure functions on sequences of bytes: the choice of a format, the types (`ADFI_evaluate_datatype`,
as sequences of members), `ADFI_convert_number_format` with every conversion between big endian,
little endian and Cray. `HostNumbers` is the reference: the bytes a machine holds for a
number by the definition of its format, from a sign, an exponent and a fraction.
`ADFIdentifiers` is disk pointers, their hexadecimal fields and the double an identifier is
packed in. `ADFPortability` is a file that one machine creates (`CreateFile`), writes
(`WriteAllData`, piece by piece through the conversion buffer) and that is carried to another
(`Carry`), where it is read. What is lost by nature (precision, numbers the other machine does
not have) is in `NumbersRead` and `Unrepresentable`; what the code loses has names: `Misplaced`,
`BitLost`, `OnTheEdge`, `Exchanged`, `ErrorLost`.

### NodeHandles, NodeHandles_proofs

`objs` is `SLookupMap`: the one object all handles of a node share, with what it has
read: its name, type and dimensions and handles of its children by name; `held` the handles the
program has. `ADF_Delete` of a node is leaf by leaf in `NodeHierarchy` (`Begin`, `DeleteStep`,
`DeleteEnds`), and every other operation of adf++ is one action. `Begin` takes children of the
parent given only, as ADF_Delete fails for others. `below` and `over` are history: the object's
node went with one above it; the object comes from a file that was closed, or has listed one that
does, or took part in a move that such a child broke off. `Counted` is what the reference counts
leave: the largest set of objects of which each has a handle, the program's or that of a
parent in the set. A child has no handle of its parent, so that rings of counts occur only when a
node is moved below itself.

`ReparentChild` makes such moves, as neither `reparentChild` (adfnode.cpp:398) nor
`ADF_Move_Child` (F:2039) looks: the nodes are cut loose (`CutLoose`), their objects hold
each other for good, and a deletion of them, which starts with a node that has no children,
never comes to one: the process dies of its stack, in the model nothing more happens. Two
moves that the code makes are left out by name, as bounds of `ReparentChild`: of a node that is
no child of the parent given (`ADFTree`, finding 2), and to a parent that has a child of the
name, after which the object of that parent could list one of the two only.

### CGNSEntities, CGNSEntities_proofs

`file` is the nodes by their path, `objs` what the entities keep: descriptors, children by
label, values. A base with zones, and in both a reference state (with descriptors, arrays and
values) and a set of flow equations (which can be deleted), is one each of what all classes
of `src/cgnspp` are made of: `AssureChild` (create or wipe), `Wiped`, `DescsOf`, `KidsOf` and
`ValuesOf` (`Needs`), lists of children, single children, optional children. `SetStrategy`
never succeeds, so that opening reads everything but values (`Opened`). The data of the base (its
dimensions) are left out. `oldTexts` and `oldValues` are history: the faults below. `LeftOut` is
the third of them: values are read until the first array without data, which throws, and once
there is a value `Needs` does not read again, so that the arrays behind it stay without. `Fits` is
the bound on the file, which the run gives a value and the theorems leave open.

## 4. The runs

**Fairness.** Operations are called by a program of which nothing is known, and nothing
is assumed of it: no operation has to be called. A C function that was called runs to its
end, and in `ADFLinks`, where its calls are steps, this is weak fairness of
`Step \/ Overflow`, under which `FollowingEnds` is checked. All other properties are safety
properties: the code waits for nothing and retries nothing.

| Run | Instance | What it shows |
|---|---|---|
| `Buffer` | two files, two blocks of two cells, pieces in the second block and across the boundary, failing writes, crashes | `SmallReadsCurrent`: a small read in any state, in the middle of an operation too, returns the last write. `OneBlockAtRisk`: the disk lacks the last writes of one block of one file at most, the dirty one. `SuccessIsDurable`: an operation that wrote the date is on disk. `BuffersOfOpenFiles`, `ClosedIsComplete`: nothing of a closed file stays in memory |
| `FileSpace` | blocks of 8 bytes, four of them, four sizes around the block size and the smallest chunk, and data chunks of 10 that are cut to any length (142201 states) | `ChunksDisjoint`, `HeadersInOneBlock`, `FreeListsSound`, `AllocationIsFresh`; `NoGap`: no byte is lost but those cut off a data chunk |
| `Hierarchy` | root and two nodes, two names, a type and two sizes; files closed with handles left, nodes moved below themselves (912768 states, two to three minutes) | `NamesDiffer`; `CacheIsCurrent`: an object says of its node what the file says; `DeletedIsKnown`: the object of a node that is gone knows it; `OnlyRingsStay`: an object goes with the last handle that leads to it, unless its node hangs on itself |
| `Tree` | root and three nodes, three names, a table of two entries that grows to three | `TablesReadable`, `EntriesLead` at every write; `OneTree` between operations; `ImplementsHierarchy`, and with it the different names of siblings |
| `Stack` | two slots, file 1 with header, node and two entries, file 0 with its header, one failed write at a time | `ServedIsCurrent`, `KeysOnce`, `ClosedIsForgotten` |
| `Data` | arrays of one to three elements and of two by two, types "MT", "I4" and "I4,R8"; selections of 2 x 3 x 2 too (31033 states, one to three minutes) | `ReadsAgree`: what a read returns without error was written there, however the array is cut in chunks; `BlockReadsStopAtBoundaries`, `WalkVisitsSelection`, `WholeWriteCanBeRead`; `ValuesKept`: the refinement of `NodeValues` |
| `Links` | file A with two nodes, B with one, five different links, two slots, depth two (635483 states, two minutes) | `RememberedIsRight`: the link remembered leads where its path leads now; `FollowingEnds` |
| `Formats` | six machines, six formats, nine base types and four structures, numbers at the limits of each, a buffer of 20 bytes and data across a block end (5784 states) | `NumbersSurvive`, `PlacesFound` |
| `Entities` | two data; three nodes with three names, four with one, or any arrays of the base's reference state (146635 states, one minute) | `SameAfterReopening`: the entities answer what they would answer after the file is closed and opened |

**Bounds.** Two cells per block are enough for a header field, a neighbour and a piece
that crosses; two blocks for a block that is not the header's; two files for a
buffer that holds another file's block. In `FileSpace` a block of 8 with a header of 3 has
every case of a chunk that ends one byte before, at and behind the block end; `MaxFile`
stops the run, hence `CHECK_DEADLOCK FALSE`. A data chunk of 10 is cut to 2 (no list), to 3
and 4 (small), to 5 and more (medium or large). In `Tree` a table of two grows once, a deletion
can remove a node with two children or a chain of three. In `Stack` two slots for five
addresses evict all the time. `MaxEof` bounds allocations and `WriteMayFail` the failed
writes outstanding.

In `Data` four elements make three chunks possible (one, then two more as the array grows),
and a chunk that is not used at all when it shrinks again; `SizeWraps` leaves out the strided
writes of which the unsigned count wraps. In `Links` depth two is exceeded by a chain through
both files, and two slots are full as soon as a file is open twice. In `Formats` the buffer
holds one to five elements, so that three elements take one to three pieces, and the
place of the data makes pieces cross the end of a block and begin behind it; the data is
written once. In `Hierarchy` three nodes give a child, a grandchild and a sibling, and rings of one
and two nodes. A node of a ring cannot be deleted, hence `CHECK_DEADLOCK FALSE`. `MCOneFault` does
not follow states that have both an object of a closed file, of which the properties claim nothing,
and a node cut loose; the theorems have no such bound. In
`Entities` four nodes allow a zone with a reference state and an array, and the names are shared so
that a descriptor can take an array's; three arrays are needed for one without data between two
that have some, which two names never showed. The two data can be exchanged, hence the symmetry.

### Where code and text disagree

1. `BufferClean` (`WriteBufferCurrent`): a crossing write does not reset a *clean* write buffer
   of the same block (the reset at 7710 is inside the branch for a dirty one), and the next
   small access to the block is served from it. The comment says the buffer is reset.
2. `TreeTwoParents` (`OneParent`): `ADF_Move_Child` looks for the *name* of the child below the
   parent given, where the comment says it checks the child.
3. `StackVersion` (`UpgradeStays`): the upgraded version is written around the stack and
   written back from the stale copy by the next allocation.

### Faults the passing properties name

Each is a disjunct or a guard of the property, and the property is violated without it
(I: `ADF_internals.c`, F: `ADF_interface.c`).

| Where | What | Named as |
|---|---|---|
| I:4747 | a selection of three dimensions that leaves out the beginning or end of a middle one goes on at the wrong element: its elements are counted, not those below them | `LeavesOut` |
| I:3849, 7249 | a data chunk is freed up to the end tag on disk, which a smaller array written whole has moved: the bytes behind it are lost | `CutOff` in `NoGap` |
| F:2039, adfnode.cpp:398 | a node can be moved below itself: it leaves the tree, its objects never go, its deletion never ends | `CutLoose` in `OnlyRingsStay` |
| F:2655-2673 | a block read that begins where a chunk of the table ends stops with an error | `BlockReadsStopAtBoundaries` |
| F:3480, 3641 | a block write into an array that has grown takes its data from a pointer moved by a variable that was not set, or puts it at the wrong place | `DamagesBlock` |
| F:3926 | the unsigned count of a strided write wraps | `SizeWraps` |
| F:2398 | after a rename the remembered link is still followed | `renamed` |
| I:1433 | a path that leads through its own link is followed without end: each call counts on its own | `ThroughItself` |
| I:3174 | the comma between two members of a structure does not move to the next token, so that the conversion forgets the member before it (comment at I:2975) | `Misplaced` |
| I:1310 | the two parts of a complex number change places with the bytes | `Exchanged` |
| I:1148, 2238, 2282 | one of the three high bits of an exponent is not copied to a Cray; the range is one off at both ends on the way back | `BitLost`, `OnTheEdge` |
| I:1936 | of a conversion in two steps the second one overwrites the error of the first | `ErrorLost` |
| adfnode.h:42 | "Marks the node and all child nodes as deleted": objects of nodes further below are not marked | `below` |
| adf++.h:474 | "Deleted this ADF database handle and all attached node handles": objects survive the file and are found under the IDs of the next one | `HeldOver` |
| adfnode.cpp:493 | `setDataType` passes dimensions that may not have been read | `SetDataType` |
| cgns++.h:464 | "If the name already exists, the text is modified": the text that was read stays | `oldTexts` |
| cgnsvalued.cpp:27 | when an array without data ends the reading of values, those behind it are never read, as there is a value already | `oldValues`, by `LeftOut` |
| cgnsvalued.cpp:81 | values stay when the entity is wiped, when their arrays change, and when they are written again | `oldValues` |
| cgnszone.cpp:46 | a zone whose size is refused stays in the file without data; the file cannot be opened | `Readable` |

### Seen while modelling, without a property

* Tree: `ADF_Move_Child` does not look for the name below the new parent (kept out by `Proper`,
  `ProperUse` and the bound of `ReparentChild`); `ADF_Put_Name` checks a
  name without its leading blanks and stores it with them.
* Files: `ADF_Move_Child` and `ADF_Database_Set_Format` end without the flush; the modification
  date `ADF_Database_Version` returns comes from the stale copy; the pending version is
  written behind the flush; `ADF_Flush_to_Disk` does not write the dirty buffer.
* Data: an array without dimensions can be written by `ADF_Write_All_Data` and not read; an
  array that is made smaller, written whole and made larger again can end in an error of
  lengths; a strided read of one chunk that is shorter than the array returns the bytes behind
  it without an error; the zero fill of more than 4096 bytes does not move on to the next
  block (I:7285-7311); the old table is freed before the header points to the new one.
* Links: files opened to follow links are not closed with the database (F:840; the
  documentation at F:557 says they are); a file opened twice has two slots.
* Identifiers are exact below block 2^31 (I:553 shifts into the sign of an int). The loops of
  translated data adjust their pointer when it is behind the end of its block and not at it
  (I:7524), which `PlacesFound` and `NumbersSurvive` show to do no harm.
* cgnspp: `SetStrategy` passes the arguments of `checkIndex` in the wrong order and always
  throws; `deleteDescriptor` deletes any child of the name; a simple child is written into a
  child of another label; `writeDataClass` pads with blanks a text that is then not recognised;
  `writeDimensionalUnits` exchanges the dimensions 5 and 32; `mDiffusion` is in neither list of
  its classes and survives `Wipe`; `FlowEquationSet` reads its integers under the label "int";
  `getValue` does not read first; a base that was opened has not read its dimensions when
  its zones ask for them.

## 5. Proofs

Each theorem is about the specification of its module, for every value of the constants that
satisfies the named assumptions. Most follow one pattern: an inductive invariant, a lemma per
action that it is kept, and the property from the invariant. Eight modules hold the proofs.

**Block buffers** (`ADFBlockBuffer_proofs`, `BufferInv`). Theorems `TypeCorrect`, `ReadersSeeLastWrite`,
`CrashLosesOneBlock`, `DateMakesDurable`, `NoBufferOfClosedFile`, `ClosingKeepsAll`. That a small read
returns the last write is not inductive: it says nothing of a buffer that does not serve
the read now. The invariant takes each cell by itself: it is `Fine` (the disk or the dirty buffer has
the value, and neither buffer has another), or its flush failed and it is `Gone`, which must be said
too, because a later flush of the same buffer can bring it back. `NoWorse` compares two states of
the buffers cell by cell; each C function (`ResetRead`, `FlushForWrite`, `LoadWrite`, `IntoBuffer`,
`FillRead`, `FlushClose`) is shown to make no cell worse, and operations are chains of them. Assumed:
`BufferAssumption` (pieces lie in the file, `Fill` is no value, a block has two cells at least).

**File space** (`ADFFileSpace_proofs`, `SpaceInv`, `ListsInv`). Theorems `TypeCorrect`, `Disjointness`,
`Completeness`, `OneBlock`, `FreshAllocation`, `FreeLists`. `Completeness` says of the code that no byte is lost but those cut off
a data chunk, and `Disjointness` that they are given to no other. `ChunksDisjoint` is not inductive as it stands: a step
appends at `eof + 1`, so the invariant adds that every byte up to `eof` was allocated to some
chunk, and that live chunks of at most a block lie in one. For the
lists, `FreeListsSound` walks along the pointers, which would be induction over their number. The
invariant avoids that: `ListsInv` says that each list has an order, a sequence of its chunks in
which each points to the next (`InOrder`). A walk that does not follow it would have a first place
where it leaves it, by the least number principle, and there is none. Assumed: `SpaceAssumption` (a block,
its header and a data chunk are not empty, the header fits in a block, a tag is not longer than the smallest chunk).

**Priority stack** (`ADFPriorityStack_proofs`, `StackInv`). Theorems `TypeCorrect`, `NoSecondCopy`,
`NothingLeftOfClosed`, `NeverStale`. `ServedIsCurrent` holds only as long as writes around the
stack meet no copy, so the invariant adds that an entry of a table behind the last that counts has no
copy (`AddEntry` writes it around the stack), that a key is there once, and that levels are a
numbering without holes, by which the code finds the slot to evict. Of the copy of the file header
it claims the end of file alone, since the rest does go stale (finding 3); of places whose write
failed it claims nothing (`unsure`). Assumed: `StackAssumption` (the addresses of the header, nodes and
entries are different things, `Freed` and `Unused` are no contents, there is a date).

**The tree on disk** (`ADFTree_proofs`, `TreeInv`). Theorems `TypeCorrect`, `ReadableTables`, `LeadingEntries`,
`NothingLeaks`, `NoTwoParents`, and `Implementation`: `Spec => ImplementsHierarchy`. The invariant has three layers.
`StoreInv` is about chunks: how long tables are, which one is freed, what is on its way to disk; it
makes `view`, the lists of children as the running operation knows them, a function. `ListInv` is
about `view`: every node is listed once, but the one in a move, which has the two entries the
move has made; the calls of `ADF_Delete` that wait form a path of the tree, and each knows just the
children that are left. `IsTree` and `NotBelowItself` say that `ViewTree` is a tree and that a node
on the move does not go below itself. The last needs the tree of the abstract specification:
each step is shown to be a step of `NodeHierarchy` or none, and such a step keeps `IsTree`
(`ViewCreateStep`, `ViewLeafStep`, `ViewMoveStep`, `ViewRenameStep`); so the refinement and the invariant are proved together. Assumed:
`TreeAssumption`, `FreedAssumption`, and in the statement of the theorems `ProperUse`: programs move a
child of the parent they name, to where it may go, and put no blanks before names. Without it
`OneParent` is violated, which the run `TreeTwoParents` shows; `NoTwoParents` says that this is all it takes.

**The abstract tree** (first part of `NodeHandles_proofs`, `HierarchyInv`). Theorems `ParentsExist`, `SiblingNames`,
of programs whose moves are `Proper`. `Create`, `Rename` and the removal of a leaf keep both on
their own; a move keeps them wherever the node goes if the name is free there (`MoveStep`).
Nothing is claimed of cycles here: a program that moves a node below itself makes one. (In
`ADFTree_proofs` that there is none is part of the invariant, under `ProperUse`.) Assumed: the root is a node.

**Links** (`ADFLinks_proofs`, `LinksInv`). Theorems `TypeCorrect`, `Remembered`, and `FollowedRight`: what the
following of a link returns is where its path leads. The remembered link is set when the whole recursion of
`ADFI_chase_link` and `ADF_Get_Node_ID` comes back, so the invariant is about the stack of calls: each
frame still leads where it led when it began (`ChaseRight`, `FindRight`), and the caller of a frame
waits for just that (`CalledBy`), down to the first (`StackOK`). That a step of a path does not change where the path
leads is `LeadsFixed`: `Leads` is a fixed point, as each round knows what the one before knew, and each that does not
repeat it knows one goal more. A new node is not on the way of anything that led somewhere before (`LeadsGrow`), since names of
siblings differ; all else that changes the disk makes the library forget, but for `ADF_Put_Name` (`renamed`).
Closing a file keeps the rest, and its slot is not mentioned any more. Assumed: `LinksAssumption` (files and their
addresses and targets are finite; a path has a name at least).

**Node data** (`ADFNodeData_proofs`, `DataInv`). Theorems `TypeCorrect`, `SameForAllReads`,
`OnlyBoundariesStop`, `WrittenIsRead`, `SelectionsVisited`, and the refinement of `NodeValues`, `ValuesTheorem`. The invariant is small: a chunk holds one element at least and no more than
its space, and so for its entry in the table (`Sound`). The work is in the functions of the state. Sums and loops are
recursive functions on an interval of numbers, and what holds of all their values follows from
the least number principle (`UpTo`): where a chunk begins (`Base`) is never before the end of the one
in front, and each element has one chunk (`ElementIn`). The portions a block read takes from the chunks
add up, chunk by chunk, to the part of the block that lies before the chunk (`PortionSums`), so that the pieces
put one behind the other are the block (`PiecesInPlace`). A read of a whole array is that of the block
of everything. For `WrittenIsRead` each case of the write (no chunk, one, one that has become too short, a table, a
table that has become too short) leaves chunks that `Holds` the data: each that is used has its part of
it and its end tag.

For `SelectionsVisited` each index of a selection gets a number: how many strides it is from the first in each
dimension, read as digits to a base that varies. A step of the walk goes to the index with the next
number (`NextRank`), and its offset is the distance of the two places in the array, as the dimensions
between the first and the one that advances have the whole array, unless the selection `LeavesOut`
something (`WholeBetween`). So the walk goes up (`Increasing`) and has every index of the selection, and is
the set of its places in order (`WalkIsSelected`). `ValuesTheorem` then has one step per operation: what each
write leaves in the chunks is compared with `View` element by element (`BlockValues`, `StridedValues`, `AllValues`), and
`ADF_Put_Dimension_Information` keeps all chunks or frees them all (`ShapeValues`). It assumes that no selection
of a shape `LeavesOut` anything: with three dimensions some do, and a strided write then goes elsewhere than
`NodeValues` says. With at most two none does, which is `ValuesOfPlanes`.

Assumed: `ShapesAssumption` (shapes, and those only walked, are sequences of positive numbers) and that of the types.

**Identifiers** (in `ADFFileSpace_proofs`). `AdjustedKeepsPlace`: an adjusted pointer lies in its block and names the
same byte. The products of a block number and the block size are beyond the solver unless
they are named first; the quotient is hidden for that. Assumed: `IdentifiersAssumption`.

**adf++** (`NodeHandles_proofs`, `HandlesInv`). Theorems `CurrentCache`, `KnownDeleted`, and `ParentsAndNames`:
every node has a parent that exists and siblings have different names, through files closed and opened
and nodes moved below themselves. It rests on the bound of `ReparentChild`: no node is moved to
where its name is taken. The properties speak of the time
between calls; the invariant holds during `ADF_Delete` too. `MapInv` says what an object knows of its
node when some nodes are `marked` to go and the lists of some objects are `astray`; `Strays` says that a
node is listed by no object but that of its parent, unless the object came from a closed file and
says so (`over`), which is what keeps a deletion from leaving a second list that still has the node;
`CallInv` says what the call of `ADF_Delete` has still to do. Without `Strays` a move could leave the
node in the list of its old parent. Assumed: `HandlesAssumption` and the root.

**cgnspp** (`CGNSEntities_proofs`, `EntitiesInv`). Theorems `TypeCorrect`, `Rereading`. `SameAfterReopening`
speaks of values only when all arrays can be read, and of entities as they answer: a
state in which it holds can lead to one in which it does not. The invariant says that the file
has each node in a place where it may be (`FileOK`), that every node but a descriptor has one
entity, and of each thing an entity has read that it is what the file has or a named fault (`Right`). A
step cuts off the nodes below one path and adds or removes the node there (`Grown`, `Shrunk`), so
that all entities but that one and its parent see what they saw (`StepRight`). The proof attempt with two
names in mind failed at `HasValue`: with three, an array behind one without data is left out for
good, and the property was false. The fault is now named (`LeftOut`) and the run has three names.
Assumed: `NamesAssumption`, `DataAssumption` (`Bare` is no data), `LabelsAssumption` (the labels differ, and no
array, zone or descriptor has the fixed name of a single child: a bound of the model).

**Only model-checked**, and why:

* `FollowingEnds` of `ADFLinks`: liveness under fairness, which the prover cannot do.
* `ADFPortability` (`TypeOK`, `NumbersSurvive`, `PlacesFound`): conversions are recursive, folds over bytes and loops over
  pieces.
* `OnlyRingsStay` of `NodeHandles`: that a ring of objects is one of nodes needs the order in which
  the nodes of stale lists were deleted, which the invariant does not have.
* That an identifier leads back to its file and place, checked in `PlacesFound`: the theorem would speak of 2^24 and
  2^32, numbers the backends cannot read.

## 6. Not modelled

* **Error state, Fortran, tests, build**: a flag that aborts and a table of strings; name
  mangling; no program state.
* **Formatting** of dates, strings and messages, and the layout of headers on disk: boundary tags
  are modelled by the readers' refusal of a freed header and by the end tags of data chunks.
* **Files**: the modes of opening, the search for a file in directories,
  `ADF_Database_Set_Format` on a file with data (it changes the header and converts nothing).
* **Crashes inside one chunk**: a table, or a translated write, longer than a block can be torn.
* **Failing allocation** (I:4144): an allocation is one step of `ADFFileSpace`. Out of memory and
  errors of seek end an operation between two writes, as `Abort` and the per-write invariants of
  `ADFTree` allow for.
* **Node data**: selections in memory that differ from those on disk; labels.
* **Numbers**: infinities, denormals and what is no number; `ADFI_figure_machine_format` is the
  order and the sizes its bit patterns stand for.
* **adf++**: labels, links, single dimensions, typed reading and writing; `ADF_Delete` that fails
  after the object was marked; calls that the library refuses by way of handles of nodes that are gone.
* **cgnspp**: the classes other than those of section 3, which are made of the same macros; simple
  children, classes and units of data, conversions of strings; handles of entities that were
  wiped away, and raw pointers to parents that are gone.
