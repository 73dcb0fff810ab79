----------------------------- MODULE ADFNodeData ----------------------------
(***************************************************************************)
(* The data of one node: ADF_Put_Dimension_Information, ADF_Write_* and    *)
(* ADF_Read_* over data chunks (src/adfpp/ADF_interface.c, ADF_internals.c)*)
(*                                                                         *)
(* A node has no chunk, one chunk its header points to, or a table of two  *)
(* and more.  A chunk ends with a tag, and its header on disk says where:  *)
(* this is its size.  The table says it a second time: its entry.  The     *)
(* functions that write a chunk set the size, and put the tag there; the   *)
(* entry is fixed when the table is written.  The unit is an element, of   *)
(* four bytes at least, so that a tag takes the place of one.              *)
(***************************************************************************)
EXTENDS ADFSelection

CONSTANTS Types, NoType, Shapes,   \* see NodeValues
          Walked,                  \* other arrays whose selections are walked over
          BeginsWith               \* pairs: a type, and a beginning of its name that is a type too

ASSUME ShapesAssumption ==
  /\ NoType \in Types
  /\ Shapes \subseteq Seq(Nat \ {0}) /\ <<>> \in Shapes
  /\ Walked \subseteq Seq(Nat \ {0})

VARIABLES shape,     \* the type and dimensions in the node header
          chunks     \* the data chunks, in the order of the table

vars == <<shape, chunks>>

Item(kind, k) == <<kind, k>>
Junk == <<"junk", 0>>
Tag  == <<"tag", 0>>
Zero == <<"zero", 0>>

Items(kind, n) == [k \in 1..n |-> Item(kind, k)]
Zeros(n) == [k \in 1..n |-> Zero]

AtMost(a, b) == IF a < b THEN a ELSE b
AtLeast0(a) == IF a < 0 THEN 0 ELSE a

Total == IF shape.type = NoType THEN 0 ELSE Size(shape.dims)

\* How many elements a chunk stands for, and how many lie in the chunks before it.
Span(cs, i) == IF Len(cs) = 1 THEN cs[1].size ELSE cs[i].entry
Base(cs, i) == Before([j \in DOMAIN cs |-> Span(cs, j)], i)
Spanned == Base(chunks, Len(chunks) + 1)

-----------------------------------------------------------------------------
(* One chunk.                                                              *)

\* Space ADFI_file_malloc gave, with whatever it holds.
Fresh(n) == [entry |-> 0, size |-> 0, cells |-> [i \in 1..n |-> Junk]]

\* Mutant: the data one element too far.
WriteOneOff(c, size, start, data) ==
  [c EXCEPT !.size = size,
            !.cells = [i \in DOMAIN @ |-> IF i \in (start + 2)..(start + 1 + Len(data)) THEN data[i - start - 1]
                                          ELSE IF i = size + 1 THEN Tag ELSE @[i]]]

\* The pointer to the end, the data, the tag at the end.
WriteChunk(c, size, start, data) ==
  [c EXCEPT !.size = size,
            !.cells = [i \in DOMAIN @ |-> IF i \in (start + 1)..(start + Len(data)) THEN data[i - start]
                                          ELSE IF i = size + 1 THEN Tag ELSE @[i]]]

\* Mutant: the table is made before the ends are known.
NotEntered(c) == c

\* The table takes the ends of its first two chunks from the disk.
Entered(c) == [c EXCEPT !.entry = c.size]

Refused(error) == [error |-> error, data |-> <<>>]

EndTagFound(c) == c.size < Len(c.cells) => c.cells[c.size + 1] = Tag

\* Mutant: the last element of the chunk counts as beyond it.
NotBefore(last, size) == last >= size

Beyond(last, size) == last > size

\* n elements behind the first start of a chunk that is to have a size.  A chunk
\* that is longer is read all the same: the error set for it is overwritten.
ReadChunk(c, size, start, n) ==
  IF Beyond(start + n, size) THEN Refused("REQUESTED_DATA_TOO_LONG")
  ELSE IF ~EndTagFound(c) THEN Refused("ADF_DISK_TAG_ERROR")
  ELSE IF size > c.size THEN Refused("REQUESTED_DATA_TOO_LONG")
  ELSE [error |-> "NO_ERROR", data |-> SubSeq(c.cells, start + 1, start + n)]

-----------------------------------------------------------------------------
(* Reading.  A result is an error and the data; what ends without error    *)
(* has data.                                                               *)

\* What is read of chunk i when the array ends before the chunk does.
Used(cs, i) == AtLeast0(AtMost(Span(cs, i), Total - Base(cs, i)))

\* What a chunk adds of which nothing is read.
Nothing == [error |-> "NO_ERROR", data |-> <<>>]

\* The results of reading chunk after chunk: the first error, or all the data.
Gathered(results, n) ==
  LET wrong == {i \in DOMAIN results : results[i].error # "NO_ERROR"}
      data == FlattenSeq([i \in DOMAIN results |-> results[i].data])
  IN  IF wrong # {} THEN results[Min(wrong)]
      ELSE IF Len(data) < n THEN Refused("INCOMPLETE_DATA")
      ELSE [error |-> "NO_ERROR", data |-> data]

\* ADF_Read_All_Data.
ReadAll(cs) ==
  IF shape.type = NoType \/ shape.dims = <<>> \/ cs = <<>> THEN Refused("NO_DATA")
  ELSE IF Len(cs) = 1 THEN ReadChunk(cs[1], Total, 0, Total)
  ELSE Gathered([i \in DOMAIN cs |-> IF Used(cs, i) = 0 THEN Nothing ELSE ReadChunk(cs[i], Used(cs, i), 0, Used(cs, i))],
                Total)

\* ADF_Read_Block_Data reads the elements s + 1 .. e.  The loop over the table
\* leaves out the chunks that end before s; in a chunk that ends at s it finds
\* nothing to read, and stops.
EndsAt(s) == \E i \in DOMAIN chunks : Used(chunks, i) > 0 /\ s = Base(chunks, i) + Used(chunks, i)

\* Mutant: the place in the chunk counted from one.
PartOneLess(i, s, e) ==
  LET from == IF s > Base(chunks, i) + 1 THEN s - Base(chunks, i) - 1 ELSE 0
  IN  [from |-> from, n |-> AtLeast0(AtMost(Used(chunks, i), e - Base(chunks, i)) - from)]

Part(i, s, e) ==
  LET from == IF s > Base(chunks, i) THEN s - Base(chunks, i) ELSE 0
  IN  [from |-> from, n |-> AtLeast0(AtMost(Used(chunks, i), e - Base(chunks, i)) - from)]

ReadBlock(s, e) ==
  IF shape.type = NoType \/ shape.dims = <<>> \/ chunks = <<>> THEN Refused("NO_DATA")
  ELSE IF Len(chunks) = 1 THEN ReadChunk(chunks[1], Total, s, e - s)
  ELSE IF EndsAt(s) /\ s < e THEN Refused("INCOMPLETE_DATA")
  ELSE Gathered([i \in DOMAIN chunks |->
                   IF Part(i, s, e).n = 0 THEN Nothing
                   ELSE ReadChunk(chunks[i], Used(chunks, i), Part(i, s, e).from, Part(i, s, e).n)],
                e - s)

\* The k-th element on disk, in the chunk it lies in.  The strided functions do not
\* look at the header of a chunk: behind a single chunk they find what follows it.
ElementOnDisk(k) ==
  IF Len(chunks) = 1 THEN IF k <= Len(chunks[1].cells) THEN chunks[1].cells[k] ELSE Junk
  ELSE LET i == CHOOSE i \in DOMAIN chunks : Base(chunks, i) < k /\ k <= Base(chunks, i + 1)
       IN  chunks[i].cells[k - Base(chunks, i)]

\* The walks over the selections of each shape.
Walks == [dims \in Shapes |-> {Walk(dims, sel) : sel \in Selections(dims)}]

\* ADF_Read_Data, with the walk over its selection.  Without data on disk it gives
\* zeros, and no error.
ReadStrided(at) ==
  IF shape.type = NoType \/ shape.dims = <<>> THEN Refused("NO_DATA")
  ELSE IF chunks = <<>> THEN [error |-> "NO_ERROR", data |-> Zeros(Len(at))]
  ELSE IF Len(chunks) > 1 /\ \E k \in DOMAIN at : at[k] >= Spanned THEN Refused("INCOMPLETE_DATA")
  ELSE [error |-> "NO_ERROR", data |-> [k \in DOMAIN at |-> ElementOnDisk(at[k] + 1)]]

-----------------------------------------------------------------------------
(* Changing the shape.                                                     *)

SameType(type) == type = shape.type \/ <<shape.type, type>> \in BeginsWith

Preserves(type, dims) == SameType(type) /\ Len(dims) = Len(shape.dims)

\* ADF_Put_Dimension_Information: a type that is the beginning of the present one
\* counts as the same, and the present one stays.
PutDimensionInformation(type, dims) ==
  /\ shape' = [type |-> IF SameType(type) THEN shape.type ELSE type, dims |-> dims]
  /\ chunks' = IF Preserves(type, dims) THEN chunks ELSE <<>>

-----------------------------------------------------------------------------
(* ADF_Write_All_Data.                                                     *)

\* A chunk for the n elements that are left, with its entry in the table.
Added(n, start, data) == [WriteChunk(Fresh(n), n, start, data) EXCEPT !.entry = n]

\* The array has grown: what fits, a second chunk for the rest, and a table.
AllInTwo(data) ==
  LET n == chunks[1].size
  IN  <<Entered(WriteChunk(chunks[1], n, 0, SubSeq(data, 1, n))),
        Entered(WriteChunk(Fresh(Total - n), Total - n, 0, SubSeq(data, n + 1, Total)))>>

\* Mutant: the chunks that exist, and no more.
AllNotAdded(data) ==
  [i \in DOMAIN chunks |->
     IF Used(chunks, i) = 0 THEN chunks[i]
     ELSE WriteChunk(chunks[i], Used(chunks, i), 0, SubSeq(data, Base(chunks, i) + 1, Base(chunks, i) + Used(chunks, i)))]

\* Each chunk of the table takes what its entry allows and what is left; for the
\* rest there is a new chunk, and a new table.
AllInTable(data) ==
  [i \in DOMAIN chunks |->
     IF Used(chunks, i) = 0 THEN chunks[i]
     ELSE WriteChunk(chunks[i], Used(chunks, i), 0, SubSeq(data, Base(chunks, i) + 1, Base(chunks, i) + Used(chunks, i)))]
  \o (IF Total > Spanned THEN <<Added(Total - Spanned, 0, SubSeq(data, Spanned + 1, Total))>> ELSE <<>>)

AllWritten(data) ==
  CASE chunks = <<>> -> <<WriteChunk(Fresh(Total), Total, 0, data)>>
    [] Len(chunks) = 1 /\ Total <= chunks[1].size -> <<WriteChunk(chunks[1], Total, 0, data)>>
    [] Len(chunks) = 1 /\ Total > chunks[1].size -> AllInTwo(data)
    [] OTHER -> AllInTable(data)

WriteAllData ==
  /\ Total > 0
  /\ chunks' = AllWritten(Items("all", Total))
  /\ UNCHANGED shape

-----------------------------------------------------------------------------
(* ADF_Write_Block_Data writes the elements s + 1 .. e.                    *)

InRange(s, e) == Total > 0 /\ 0 <= s /\ s <= e /\ e <= Total

\* The rest of the new chunk keeps what the disk held.
WriteBlockFirst(s, e) ==
  /\ chunks = <<>>
  /\ chunks' = <<WriteChunk(Fresh(Total), Total, s, Items("block", e - s))>>

WriteBlockInPlace(s, e) ==
  /\ Len(chunks) = 1 /\ Total <= chunks[1].size
  /\ chunks' = <<WriteChunk(chunks[1], chunks[1].size, s, Items("block", e - s))>>

\* The second chunk gets the end of the block, or zeros when the block lies in
\* the first.  Behind the first chunk the pointer into the caller's data moves by a
\* variable that was not set: the data may be anything.
WriteBlockSecond(s, e) ==
  LET n == chunks[1].size
      inFirst == AtMost(e - s, n - s)
      first == IF s <= n THEN WriteChunk(chunks[1], n, s, Items("block", inFirst)) ELSE chunks[1]
      rest == SubSeq(Items("block", e - s), IF s <= n THEN inFirst + 1 ELSE 1, e - s)
  IN  /\ Len(chunks) = 1 /\ Total > n
      /\ \E data \in IF s <= n THEN {rest} ELSE {rest, [k \in DOMAIN rest |-> Junk]} :
           chunks' = <<Entered(first),
                       Entered(IF s <= n /\ inFirst = e - s
                               THEN WriteChunk(Fresh(Total - n), Total - n, 0, Zeros(Total - n))
                               ELSE WriteChunk(Fresh(Total - n), Total - n, AtLeast0(s - n), data))>>

\* The part of the block in a chunk; its size is set to the entry.
InChunk(i, s, e) ==
  LET from == IF s > Base(chunks, i) THEN s - Base(chunks, i) ELSE 0
  IN  [from |-> from, n |-> AtLeast0(AtMost(Span(chunks, i), e - Base(chunks, i)) - from)]

BlockInTable(s, e) ==
  [i \in DOMAIN chunks |->
     LET p == InChunk(i, s, e)
         done == Base(chunks, i) + p.from - s
     IN  IF p.n = 0 THEN chunks[i]
         ELSE WriteChunk(chunks[i], Span(chunks, i), p.from, SubSeq(Items("block", e - s), done + 1, done + p.n))]

WriteBlockTable(s, e) ==
  /\ Len(chunks) > 1 /\ Total <= Spanned
  /\ chunks' = BlockInTable(s, e)

\* The array has grown: the place in the new chunk is reckoned from its length and
\* not from where it begins.  What does not fit there is refused when the table is
\* written and the node header is not.
WriteBlockGrow(s, e) ==
  LET n == Total - Spanned
      done == AtLeast0(AtMost(e - s, Spanned - s))
      start == AtLeast0(s - n)
  IN  /\ Len(chunks) > 1 /\ n > 0
      /\ chunks' = IF done = e - s THEN BlockInTable(s, e) \o <<Added(n, 0, Zeros(n))>>
                   ELSE IF start + (e - s - done) > n THEN BlockInTable(s, e)
                   ELSE BlockInTable(s, e) \o <<Added(n, start, SubSeq(Items("block", e - s), done + 1, e - s))>>

WriteBlockData(s, e) ==
  /\ InRange(s, e)
  /\ \/ WriteBlockFirst(s, e) \/ WriteBlockInPlace(s, e) \/ WriteBlockSecond(s, e)
     \/ WriteBlockTable(s, e) \/ WriteBlockGrow(s, e)
  /\ UNCHANGED shape

-----------------------------------------------------------------------------
(* ADF_Write_Data.                                                         *)

\* The loop that looks for the end of the chunks counts down the size of the array
\* as an unsigned number.  When a chunk ends behind the array, and none ends with
\* it, the number wraps, and a chunk of a senseless size is asked for; what then
\* becomes of the file is not modelled.
SizeWraps ==
  Len(chunks) > 1 /\ Total < Spanned /\ \A i \in DOMAIN chunks : Base(chunks, i) + Span(chunks, i) # Total

\* First there is space for the whole array, with zeros in what is new.
SpaceForAll ==
  IF chunks = <<>> THEN <<WriteChunk(Fresh(Total), Total, 0, Zeros(Total))>>
  ELSE IF Len(chunks) = 1 /\ Total > chunks[1].size
       THEN LET n == Total - chunks[1].size
            IN  <<Entered(chunks[1]), Entered(WriteChunk(Fresh(n), n, 0, Zeros(n)))>>
  ELSE IF Len(chunks) > 1 /\ Total > Spanned
       THEN Append(chunks, Added(Total - Spanned, 0, Zeros(Total - Spanned)))
  ELSE chunks

\* Then the elements go to their places, whatever is there, the end tag of a
\* chunk included.
Placed(cs, at) ==
  [i \in DOMAIN cs |->
     [cs[i] EXCEPT !.cells =
        [j \in DOMAIN @ |->
           LET k == {x \in DOMAIN at : j <= Span(cs, i) /\ at[x] + 1 = Base(cs, i) + j}
           IN  IF k = {} THEN @[j] ELSE Item("strided", Max(k))]]]

WriteData(at) ==
  /\ shape.type # NoType /\ shape.dims # <<>> /\ ~SizeWraps
  /\ chunks' = Placed(SpaceForAll, at)
  /\ UNCHANGED shape

-----------------------------------------------------------------------------

Init == shape = [type |-> NoType, dims |-> <<>>] /\ chunks = <<>>

Next ==
  \/ \E type \in Types, dims \in Shapes : PutDimensionInformation(type, dims)
  \/ WriteAllData
  \/ \E s, e \in 0..Total : WriteBlockData(s, e)
  \/ \E at \in Walks[shape.dims] : WriteData(at)

Spec == Init /\ [][Next]_vars

-----------------------------------------------------------------------------
(* What a node holds: the abstract value.                                  *)

View == [k \in 1..Total |-> IF k <= Spanned THEN ElementOnDisk(k) ELSE Junk]

V == INSTANCE NodeValues WITH value <- View
Known(k) == View[k] \notin V!Unknown

-----------------------------------------------------------------------------
(* Properties.                                                             *)

\* Every chunk has a size and space for it; in a table every chunk has an entry,
\* which does not reach over the space of the chunk, and one chunk has none.
TypeOK ==
  /\ shape \in [type : Types, dims : Shapes]
  /\ \A i \in DOMAIN chunks :
       /\ chunks[i].size \in 1..Len(chunks[i].cells)
       /\ IF Len(chunks) = 1 THEN chunks[i].entry = 0
          ELSE chunks[i].entry \in 1..Len(chunks[i].cells)

Agrees(result, at) ==
  result.error = "NO_ERROR" =>
    \A k \in DOMAIN at : at[k] <= Len(View) /\ Known(at[k]) => result.data[k] = View[at[k]]

\* The three ways to read agree: whatever a read returns without an error is what
\* was written to those elements, however the array is cut in chunks.
ReadsAgree ==
  /\ Agrees(ReadAll(chunks), [k \in 1..Total |-> k])
  /\ \A s, e \in 0..Total : s <= e => Agrees(ReadBlock(s, e), [k \in 1..(e - s) |-> s + k])
  /\ \A at \in Walks[shape.dims] : Agrees(ReadStrided(at), [k \in DOMAIN at |-> at[k] + 1])

\* The chunks up to the end of the array are as the table says.
Intact(s, e) == \A i \in DOMAIN chunks :
  Part(i, s, e).n > 0 => EndTagFound(chunks[i]) /\ Used(chunks, i) <= chunks[i].size

\* When the chunks that hold a block are sound, a block read fails only if the
\* block begins exactly where a chunk of the table ends (it should never fail).
BlockReadsStopAtBoundaries ==
  \A s, e \in 0..Total :
    s < e /\ shape.dims # <<>> /\ Total <= Spanned /\ Intact(s, e) /\ ReadBlock(s, e).error # "NO_ERROR"
      => Len(chunks) > 1 /\ EndsAt(s)

\* Between the first dimension and the last, one starts anew of which the selection
\* leaves out the beginning or the end.
LeavesOut(dims, sel) ==
  \E k \in 2..(Len(dims) - 1) :
    /\ sel.first[k] > 1 \/ sel.last[k] - ((sel.last[k] - sel.first[k]) % sel.stride[k]) < dims[k]
    /\ \E j \in (k + 1)..Len(dims) : sel.first[j] + sel.stride[j] <= sel.last[j]
VisitsSelection ==
  [dims \in Shapes \cup Walked |->
     \A sel \in Selections(dims) : LeavesOut(dims, sel) \/ Walk(dims, sel) = Selected(dims, sel)]

\* The walk over a strided selection visits the elements of the selection, in order.
\* Named fault: ADFI_increment_array counts the elements that are left out of such a
\* dimension (LeavesOut), and not those below them.
WalkVisitsSelection == \A dims \in Walked \cup {shape.dims} : VisitsSelection[dims]

\* After the whole array has been written it can be read, whatever the chunks had
\* been through: shrunk arrays, end tags written over.
WholeWriteCanBeRead ==
  Total > 0 /\ shape.dims # <<>> =>
    ReadAll(AllWritten(Items("all", Total))) = [error |-> "NO_ERROR", data |-> Items("all", Total)]

\* The two faults of a block write to an array that has grown since it was
\* written: behind a single chunk the pointer into the caller's data is not set, behind
\* a table the place in the new chunk is wrong.
FaultyBlock(s, e) ==
  /\ chunks # <<>> /\ Total > Spanned /\ s < e
  /\ IF Len(chunks) = 1 THEN s > Spanned
     ELSE AtLeast0(s - (Total - Spanned)) # AtLeast0(s - Spanned)

\* Every operation does to the elements what NodeValues says, but for the faulty
\* block writes; and these change no element outside the block that has a value.
DamagesBlock(s, e) ==
  /\ UNCHANGED shape /\ FaultyBlock(s, e)
  /\ \A k \in 1..Total : Known(k) /\ k \notin (s + 1)..e => View'[k] = View[k]

ValuesKept == V!Init /\ [][V!Next \/ \E s, e \in 0..Total : DamagesBlock(s, e)]_<<shape, View>>
=============================================================================
