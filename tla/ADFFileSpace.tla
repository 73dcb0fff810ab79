---------------------------- MODULE ADFFileSpace ----------------------------
(***************************************************************************)
(* Space in an ADF file: ADFI_file_malloc and ADFI_file_free of            *)
(* adfpp/ADF_internals.c, with the free-chunk table and the lists of free  *)
(* chunks it heads.                                                        *)
(*                                                                         *)
(* A disk pointer <<block, offset>> is the address block * BlockSize +     *)
(* offset.  The file is cut in chunks; each chunk is live, or on one of    *)
(* the three free lists, or too small for a list and filled with 'z'.      *)
(*                                                                         *)
(* A data chunk says on disk where it ends, and ADFI_write_data_chunk      *)
(* moves that end: an array that is made smaller and written whole leaves  *)
(* its chunk shorter than it was allocated.  A chunk is freed up to where  *)
(* it says it ends, and what lies behind is part of no chunk any more.     *)
(***************************************************************************)
EXTENDS Integers, FiniteSets

CONSTANTS BlockSize,      \* DISK_BLOCK_SIZE
          HeaderSize,     \* file header, free-chunk table and root node
          Smallest,       \* SMALLEST_CHUNK_SIZE
          SmallMax,       \* SMALL_CHUNK_MAXIMUM
          TagSize,        \* TAG_SIZE
          Sizes,          \* the sizes callers ask for, by kind
          DataMin,        \* a data chunk of one byte: two tags, a pointer, a byte
          MaxFile,        \* bound on the length of the file
          Blank           \* the blank disk pointer

ASSUME SpaceAssumption ==
  /\ BlockSize \in Nat \ {0} /\ HeaderSize \in Nat \ {0} /\ HeaderSize <= BlockSize
  /\ Smallest \in Nat /\ SmallMax \in Nat
  /\ TagSize \in Nat \ {0} /\ TagSize <= Smallest
  /\ DataMin \in Nat \ {0}
  /\ Sizes \in [{"control", "data"} -> SUBSET (Nat \ {0})]
  /\ MaxFile \in Nat
  /\ Blank \notin Nat

VARIABLES eof,      \* end_of_file of the file header: the last byte USED
          chunks,   \* the chunks the file is cut in
          next,     \* the next_chunk pointer of each free chunk, by its address
          table     \* the free-chunk table: first and last chunk of each list

vars == <<eof, chunks, next, table>>

Lists == {"small", "medium", "large"}

\* control: a node header or a table, which keeps its size; data: a data chunk;
\* rest: the rest of a block, given up.  Of the bytes allocated (room) a chunk has
\* those up to its end tag (size); only the latter are on disk.
Chunk == [kind : {"control", "data", "rest"}, start : Nat, room : Nat \ {0},
          size : Nat \ {0}, use : Lists \cup {"live", "gas"}]

Whole(kind, a, n, use) ==
  [kind |-> kind, start |-> a, room |-> n, size |-> n, use |-> use]

\* File header, free-chunk table and root node: never freed (FREE_OF_ROOT_NODE,
\* FREE_OF_FREE_CHUNK_TABLE).
Header == Whole("control", 0, HeaderSize, "live")

Init ==
  /\ eof = HeaderSize - 1
  /\ chunks = {Header}
  /\ next = [a \in {} |-> Blank]
  /\ table = [l \in Lists |-> [first |-> Blank, last |-> Blank]]

-----------------------------------------------------------------------------

\* Where ADFI_file_free files n bytes at address a: the end tag, not the last
\* byte, decides whether the chunk lies in one block.
UseOnceFreed(a, n) ==
  IF n <= Smallest THEN "gas"
  ELSE IF a \div BlockSize = (a + n - TagSize) \div BlockSize
       THEN IF n <= SmallMax THEN "small" ELSE "medium"
       ELSE "large"

Rest(a, n) == Whole("rest", a, n, UseOnceFreed(a, n))

Freed(c) == [c EXCEPT !.use = UseOnceFreed(c.start, c.size)]

\* Mutant: `last' follows every chunk put on the list.
PutOnListAsLast(a, l) ==
  /\ next' = [x \in DOMAIN next \cup {a} |-> IF x = a THEN table[l].first ELSE next[x]]
  /\ table' = [table EXCEPT ![l] = [first |-> a, last |-> a]]

\* The lists grow at their head; `last' is set when the list was empty.
PutOnList(a, l) ==
  /\ next' = [x \in DOMAIN next \cup {a} |-> IF x = a THEN table[l].first ELSE next[x]]
  /\ table' = [table EXCEPT ![l] = [first |-> a,
                 last |-> IF table[l].first = Blank THEN a ELSE table[l].last]]

FileFree(a, n) ==
  IF UseOnceFreed(a, n) = "gas" THEN UNCHANGED <<next, table>>
  ELSE PutOnList(a, UseOnceFreed(a, n))

\* Mutants: a block that is exactly full counts as one with a rest; a chunk
\* that ends one byte behind the block counts as fitting.
SkipsEmptyRest(n) == (eof % BlockSize) + n >= BlockSize /\ n <= BlockSize

SkipsRestOneLate(n) ==
  /\ eof % BlockSize # BlockSize - 1
  /\ (eof % BlockSize) + n > BlockSize
  /\ n <= BlockSize

\* n more bytes do not fit in the block the file ends in, but fit in a block.
SkipsRest(n) ==
  /\ eof % BlockSize # BlockSize - 1
  /\ (eof % BlockSize) + n >= BlockSize
  /\ n <= BlockSize

NextBlock == (eof \div BlockSize + 1) * BlockSize

\* A data chunk is written in the same step: its end tag is where it was
\* allocated to end.
Allocated(k, a, n) == Whole(k, a, n, "live")

\* Mutant: the rest of the block is not filed as free.
MallocForgetsRest(k, n) ==
  /\ SkipsRest(n)
  /\ chunks' = chunks \cup {Allocated(k, NextBlock, n)}
  /\ eof' = NextBlock + n - 1
  /\ UNCHANGED <<next, table>>

\* Free the rest of the block, allocate from the next block.
MallocNextBlock(k, n) ==
  /\ SkipsRest(n)
  /\ FileFree(eof + 1, NextBlock - (eof + 1))
  /\ chunks' = chunks \cup {Rest(eof + 1, NextBlock - (eof + 1)), Allocated(k, NextBlock, n)}
  /\ eof' = NextBlock + n - 1

\* Mutants: end_of_file taken for the first free byte; the space of a freed
\* chunk of the same size handed out again.
MallocHereOneShort(k, n) ==
  /\ ~SkipsRest(n)
  /\ chunks' = chunks \cup {Allocated(k, eof + 1, n)}
  /\ eof' = eof + n - 1
  /\ UNCHANGED <<next, table>>

MallocReusing(k, n) ==
  \E c \in chunks :
    /\ c.use # "live" /\ c.size = n
    /\ chunks' = (chunks \ {c}) \cup {Allocated(k, c.start, n)}
    /\ UNCHANGED <<eof, next, table>>

\* Allocate right after the end of the file (the start of a block, maybe).
MallocHere(k, n) ==
  /\ ~SkipsRest(n)
  /\ chunks' = chunks \cup {Allocated(k, eof + 1, n)}
  /\ eof' = eof + n
  /\ UNCHANGED <<next, table>>

Malloc(k, n) ==
  /\ eof + BlockSize + n < MaxFile
  /\ MallocNextBlock(k, n) \/ MallocHere(k, n)

\* ADFI_write_data_chunk puts the end tag behind n bytes: fewer than before when
\* a smaller array is written whole (a single chunk keeps them from then on), as
\* many as its entry in the data-chunk table says when a block is written.
WriteDataChunk(c, n) ==
  /\ c.use = "live" /\ c.kind = "data"
  /\ DataMin <= n /\ n <= c.room
  /\ chunks' = (chunks \ {c}) \cup {[c EXCEPT !.size = n]}
  /\ UNCHANGED <<eof, next, table>>

\* A live chunk is freed up to its end tag.  A data chunk is freed with no size
\* given: ADFI_file_free looks up the end on disk.  The free lists are never
\* searched again.
Free(c) ==
  /\ c.use = "live" /\ c # Header
  /\ FileFree(c.start, c.size)
  /\ chunks' = (chunks \ {c}) \cup {Freed(c)}
  /\ UNCHANGED eof

Next ==
  \/ \E k \in DOMAIN Sizes : \E n \in Sizes[k] : Malloc(k, n)
  \/ \E c \in chunks : Free(c) \/ \E n \in 1 .. c.room : WriteDataChunk(c, n)

Spec == Init /\ [][Next]_vars

-----------------------------------------------------------------------------
(* Properties.                                                             *)

TypeOK ==
  /\ eof \in Nat
  /\ chunks \subseteq Chunk
  /\ \A a \in DOMAIN next : a \in Nat /\ next[a] \in Nat \cup {Blank}
  /\ table \in [Lists -> [first : Nat \cup {Blank}, last : Nat \cup {Blank}]]

\* The last byte a chunk was allocated.
Last(c) == c.start + c.room - 1

Apart(c, d) == Last(c) < d.start \/ Last(d) < c.start

\* No byte is allocated to two chunks, live or freed, no chunk reaches behind
\* what it was allocated, and none behind the end of the file in the header.
ChunksDisjoint ==
  /\ \A c, d \in chunks : c # d => Apart(c, d)
  /\ \A c \in chunks : c.size <= c.room /\ Last(c) <= eof

Inside(c, a) == c.start <= a /\ a < c.start + c.size

\* The byte was part of the chunk until it was written with less data.
CutOff(c, a) == c.kind = "data" /\ c.start + c.size <= a /\ a <= Last(c)

\* No byte of the file is lost but those behind the end tag of a data chunk that
\* was written again with less data (I:7249): each one is part of a chunk.
NoGap == \A a \in 0 .. eof : \E c \in chunks : Inside(c, a) \/ CutOff(c, a)

\* "This helps efficiency to have file control headers located within a block
\* boundary": a live chunk that fits in a block does not span two, so that the
\* headers always go through the block buffers.
HeadersInOneBlock ==
  \A c \in chunks : c.use = "live" /\ c.room <= BlockSize =>
                       c.start \div BlockSize = Last(c) \div BlockSize

OnList(l) == {c \in chunks : c.use = l}

\* The addresses met on list l from its head, and Blank after the last.
Walk(l) ==
  LET at[k \in 0 .. Cardinality(OnList(l))] ==
        IF k = 0 THEN table[l].first
        ELSE IF at[k - 1] \in DOMAIN next THEN next[at[k - 1]] ELSE Blank
  IN at

\* From the head each list leads, through the pointers on disk, to all the
\* chunks freed to it and to no others, without a loop, and the table points to
\* the chunk where it ends.
FreeListsSound ==
  \A l \in Lists :
    LET n == Cardinality(OnList(l))
    IN /\ {Walk(l)[k] : k \in 0 .. n - 1} = {c.start : c \in OnList(l)}
       /\ Walk(l)[n] = Blank
       /\ table[l].last = IF n = 0 THEN Blank ELSE Walk(l)[n - 1]

\* A node ID holds the address of the node.  An allocation never returns bytes
\* that were ever part of another chunk, so the ID of a deleted node never
\* comes to name another one.
AllocationIsFresh ==
  [][\A c \in chunks' :
        c.use = "live" /\ (\A d \in chunks : d.use = "live" => d.start # c.start) =>
           \A d \in chunks : Apart(c, d)]_vars
=============================================================================
