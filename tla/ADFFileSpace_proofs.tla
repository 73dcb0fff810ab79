------------------------ MODULE ADFFileSpace_proofs -------------------------
(***************************************************************************)
(* Proofs about ADFFileSpace, for every block size, header size and set of *)
(* requested sizes that SpaceAssumption allows.                            *)
(***************************************************************************)
EXTENDS ADFFileSpace, Sequences, FiniteSetTheorems, WellFoundedInduction, TLAPS

\* Division by the block size, as the solvers need to know it.
LEMMA BlockArithmetic ==
  ASSUME NEW a \in Nat
  PROVE  /\ a \div BlockSize \in Nat /\ a % BlockSize \in 0 .. BlockSize - 1
         /\ a = (a \div BlockSize) * BlockSize + (a % BlockSize)
  BY SpaceAssumption, SMT

\* The next block starts behind the end of the file, by no more than a block.
LEMMA NextBlockBounds ==
  ASSUME eof \in Nat
  PROVE  /\ NextBlock \in Nat
         /\ eof < NextBlock /\ NextBlock <= eof + BlockSize
         /\ NextBlock = eof + BlockSize - (eof % BlockSize)
         /\ eof % BlockSize \in 0 .. BlockSize - 1
<1> DEFINE b == eof \div BlockSize
           o == eof % BlockSize
<1>1. b \in Nat /\ o \in 0 .. BlockSize - 1 /\ eof = b * BlockSize + o /\ BlockSize \in Nat \ {0}
  BY BlockArithmetic, SpaceAssumption
<1>2. NextBlock = (b + 1) * BlockSize
  BY DEF NextBlock
<1> HIDE DEF b
<1>3. (b + 1) * BlockSize = b * BlockSize + BlockSize /\ b * BlockSize \in Nat
  BY <1>1, SMT
<1> HIDE DEF o
<1>4. /\ NextBlock \in Nat /\ eof < NextBlock /\ NextBlock <= eof + BlockSize
      /\ NextBlock = eof + BlockSize - o
  BY <1>1, <1>2, <1>3, SMT
<1> QED  BY <1>1, <1>4 DEF o

\* An address within the first BlockSize bytes of a block lies in that block.
LEMMA InBlock ==
  ASSUME NEW b \in Nat, NEW o \in 0 .. BlockSize - 1
  PROVE  (b * BlockSize + o) \div BlockSize = b
  BY SpaceAssumption, SMT

-----------------------------------------------------------------------------
(* Types.                                                                  *)

\* Callers ask for a node header, a table or a data chunk that is not empty.
LEMMA Request ==
  ASSUME NEW k \in DOMAIN Sizes, NEW n \in Sizes[k]
  PROVE  k \in {"control", "data"} /\ n \in Nat \ {0}
  BY SpaceAssumption

\* An allocated chunk ends where it was allocated to end.
LEMMA AllocatedIsChunk ==
  ASSUME NEW k \in {"control", "data"}, NEW a \in Nat, NEW n \in Nat \ {0}
  PROVE  /\ Allocated(k, a, n) \in Chunk
         /\ Allocated(k, a, n).start = a /\ Allocated(k, a, n).use = "live"
         /\ Allocated(k, a, n).size = n /\ Allocated(k, a, n).room = n
  BY DEF Allocated, Whole, Chunk

\* The rest of a block is filed as a free chunk.
LEMMA RestIsFree ==
  ASSUME NEW a \in Nat, NEW n \in Nat \ {0}
  PROVE  /\ Rest(a, n) \in Chunk
         /\ Rest(a, n).start = a /\ Rest(a, n).use = UseOnceFreed(a, n)
         /\ Rest(a, n).use # "live"
         /\ Rest(a, n).size = n /\ Rest(a, n).room = n
  BY DEF Rest, Whole, UseOnceFreed, Chunk, Lists

\* A chunk that is freed keeps its place and its end.
LEMMA FreedIsChunk ==
  ASSUME NEW c \in Chunk
  PROVE  /\ Freed(c) \in Chunk
         /\ Freed(c).start = c.start /\ Freed(c).use = UseOnceFreed(c.start, c.size)
         /\ Freed(c).use # "live"
         /\ Freed(c).size = c.size /\ Freed(c).room = c.room /\ Freed(c).kind = c.kind
  BY DEF Freed, UseOnceFreed, Chunk, Lists

\* A data chunk that is written keeps its place and moves its end.
LEMMA WrittenIsChunk ==
  ASSUME NEW c \in Chunk, NEW n \in Nat \ {0}
  PROVE  /\ [c EXCEPT !.size = n] \in Chunk
         /\ [c EXCEPT !.size = n].start = c.start /\ [c EXCEPT !.size = n].use = c.use
         /\ [c EXCEPT !.size = n].size = n
         /\ [c EXCEPT !.size = n].room = c.room /\ [c EXCEPT !.size = n].kind = c.kind
  BY DEF Chunk

\* The rest of the block that MallocNextBlock gives up is not empty.
LEMMA RestIsChunk ==
  ASSUME eof \in Nat, NEW n \in Nat, SkipsRest(n)
  PROVE  NextBlock - (eof + 1) \in Nat \ {0}
  BY NextBlockBounds, SpaceAssumption, SMT DEF SkipsRest

\* ADFI_file_free keeps the free-chunk table and the chain pointers pointers.
LEMMA FileFreeType ==
  ASSUME TypeOK, NEW a \in Nat, NEW n \in Nat \ {0}, FileFree(a, n)
  PROVE  /\ \A x \in DOMAIN next' : x \in Nat /\ next'[x] \in Nat \cup {Blank}
         /\ table' \in [Lists -> [first : Nat \cup {Blank}, last : Nat \cup {Blank}]]
<1>1. CASE UseOnceFreed(a, n) = "gas"
  BY <1>1 DEF FileFree, TypeOK
<1>2. CASE UseOnceFreed(a, n) # "gas"
  <2> DEFINE l == UseOnceFreed(a, n)
  <2>1. l \in Lists
    BY <1>2 DEF UseOnceFreed, Lists
  <2>2. PutOnList(a, l)
    BY <1>2 DEF FileFree
  <2> HIDE DEF l
  <2>3. \A x \in DOMAIN next' : x \in Nat /\ next'[x] \in Nat \cup {Blank}
    BY <2>1, <2>2 DEF PutOnList, TypeOK
  <2>4. table' \in [Lists -> [first : Nat \cup {Blank}, last : Nat \cup {Blank}]]
    BY <2>1, <2>2 DEF PutOnList, TypeOK
  <2> QED  BY <2>3, <2>4
<1> QED  BY <1>1, <1>2

\* The fields of the state keep their types: addresses and pointers.
THEOREM TypeCorrect == Spec => []TypeOK
<1>1. Init => TypeOK
  BY SpaceAssumption DEF Init, TypeOK, Header, Whole, Chunk, Lists
<1>2. TypeOK /\ [Next]_vars => TypeOK'
  <2> SUFFICES ASSUME TypeOK, [Next]_vars PROVE TypeOK'
    OBVIOUS
  <2>1. ASSUME NEW k \in DOMAIN Sizes, NEW n \in Sizes[k], MallocNextBlock(k, n)
        PROVE  TypeOK'
    <3> DEFINE m == NextBlock - (eof + 1)
    <3>1. k \in {"control", "data"} /\ n \in Nat \ {0} /\ eof \in Nat /\ SkipsRest(n)
      BY <2>1, Request DEF TypeOK, MallocNextBlock
    <3>2. m \in Nat \ {0} /\ eof + 1 \in Nat /\ NextBlock \in Nat
      BY <3>1, RestIsChunk, NextBlockBounds
    <3>3. chunks' = chunks \cup {Rest(eof + 1, m), Allocated(k, NextBlock, n)}
          /\ FileFree(eof + 1, m) /\ eof' = NextBlock + n - 1
      BY <2>1 DEF MallocNextBlock
    <3> HIDE DEF m
    <3>4. Allocated(k, NextBlock, n) \in Chunk
      BY <3>1, <3>2, AllocatedIsChunk
    <3>5. Rest(eof + 1, m) \in Chunk
      BY <3>2, RestIsFree
    <3>6. chunks' \subseteq Chunk
      BY <3>3, <3>4, <3>5 DEF TypeOK
    <3>7. eof' \in Nat
      BY <3>1, <3>2, <3>3, SMT
    <3> QED  BY <3>2, <3>3, <3>6, <3>7, FileFreeType DEF TypeOK
  <2>2. ASSUME NEW k \in DOMAIN Sizes, NEW n \in Sizes[k], MallocHere(k, n)
        PROVE  TypeOK'
    <3>1. k \in {"control", "data"} /\ n \in Nat \ {0} /\ eof \in Nat
      BY Request DEF TypeOK
    <3>2. Allocated(k, eof + 1, n) \in Chunk
      BY <3>1, AllocatedIsChunk
    <3> QED  BY <2>2, <3>1, <3>2 DEF TypeOK, MallocHere
  <2>3. ASSUME NEW c \in chunks, Free(c) PROVE TypeOK'
    <3>1. c \in Chunk /\ c.start \in Nat /\ c.size \in Nat \ {0}
      BY DEF TypeOK, Chunk
    <3>2. Freed(c) \in Chunk
      BY <3>1, FreedIsChunk
    <3>3. FileFree(c.start, c.size) /\ eof' = eof
          /\ chunks' = (chunks \ {c}) \cup {Freed(c)}
      BY <2>3 DEF Free
    <3> QED  BY <3>1, <3>2, <3>3, FileFreeType DEF TypeOK
  <2>5. ASSUME NEW c \in chunks, NEW n \in 1 .. c.room, WriteDataChunk(c, n) PROVE TypeOK'
    <3>1. c \in Chunk /\ n \in Nat \ {0}
      BY DEF TypeOK, Chunk
    <3>2. [c EXCEPT !.size = n] \in Chunk
      BY <3>1, WrittenIsChunk
    <3> QED  BY <2>5, <3>2 DEF TypeOK, WriteDataChunk
  <2>4. CASE UNCHANGED vars
    BY <2>4 DEF TypeOK, vars
  <2> QED  BY <2>1, <2>2, <2>3, <2>4, <2>5 DEF Next, Malloc
<1> QED  BY <1>1, <1>2, PTL DEF Spec

-----------------------------------------------------------------------------
(* Space.                                                                  *)

\* The inductive invariant: the chunks divide the file up to its end.
SpaceInv == TypeOK /\ ChunksDisjoint /\ NoGap /\ HeadersInOneBlock

\* A chunk ends where its address and size say, not before it starts.
LEMMA ChunkEnd ==
  ASSUME TypeOK, NEW c \in chunks
  PROVE  /\ c \in Chunk /\ c.start \in Nat /\ c.size \in Nat \ {0} /\ c.room \in Nat \ {0}
         /\ Last(c) = c.start + c.room - 1 /\ Last(c) \in Nat /\ c.start <= Last(c)
  BY DEF TypeOK, Chunk, Last

\* What a step from SpaceInv does: it files a live chunk as freed, or it grows
\* the file by one or two chunks that start where the file ends.
LEMMA MallocHereStep ==
  ASSUME SpaceInv, NEW k \in DOMAIN Sizes, NEW n \in Sizes[k], MallocHere(k, n)
  PROVE  /\ ChunksDisjoint' /\ NoGap' /\ HeadersInOneBlock'
<1> DEFINE new == Allocated(k, eof + 1, n)
<1>1. eof \in Nat /\ n \in Nat \ {0} /\ BlockSize \in Nat \ {0}
  BY SpaceAssumption, Request DEF SpaceInv, TypeOK
<1>2. chunks' = chunks \cup {new} /\ eof' = eof + n
  BY DEF MallocHere
<1>3. new.start = eof + 1 /\ new.size = n /\ new.room = n /\ Last(new) = eof + n
  BY <1>1, Request, AllocatedIsChunk DEF Last
<1> HIDE DEF new
<1>4. \A c \in chunks : Last(c) \in Nat /\ c.start \in Nat /\ c.start <= Last(c) /\ Last(c) <= eof
  BY ChunkEnd DEF SpaceInv, ChunksDisjoint
<1>5. ChunksDisjoint'
  <2>1. \A c \in chunks : Apart(c, new) /\ Apart(new, c)
    BY <1>1, <1>3, <1>4, SMT DEF Apart
  <2>2. \A c \in chunks' : c.size <= c.room /\ Last(c) <= eof'
    BY <1>1, <1>2, <1>3, <1>4, SMT DEF SpaceInv, ChunksDisjoint
  <2> QED  BY <1>2, <2>1, <2>2 DEF SpaceInv, ChunksDisjoint
<1>6. NoGap'
  <2> SUFFICES ASSUME NEW a \in 0 .. eof'
               PROVE  \E c \in chunks' : Inside(c, a) \/ CutOff(c, a)
    BY DEF NoGap
  <2>1. CASE a <= eof
    BY <1>1, <1>2, <2>1 DEF SpaceInv, NoGap
  <2>2. CASE eof < a
    BY <1>1, <1>2, <1>3, <2>2 DEF Inside
  <2> QED  BY <1>1, <1>2, <2>1, <2>2
<1>7. HeadersInOneBlock'
  <2>1. ASSUME n <= BlockSize PROVE new.start \div BlockSize = Last(new) \div BlockSize
    <3> DEFINE b == eof \div BlockSize
               o == eof % BlockSize
    <3>1. b \in Nat /\ o \in 0 .. BlockSize - 1 /\ eof = b * BlockSize + o
      BY <1>1, BlockArithmetic
    <3>2. o = BlockSize - 1 \/ o + n < BlockSize
      BY <2>1, <1>1, <3>1, SMT DEF MallocHere, SkipsRest
    <3> HIDE DEF b, o
    <3>3. CASE o + n < BlockSize
      <4>1. o + 1 \in 0 .. BlockSize - 1 /\ o + n \in 0 .. BlockSize - 1
        BY <1>1, <3>1, <3>3, SMT
      <4>2. eof + 1 = b * BlockSize + (o + 1) /\ eof + n = b * BlockSize + (o + n)
        BY <1>1, <3>1, SMT
      <4> QED  BY <1>3, <3>1, <4>1, <4>2, InBlock
    <3>4. CASE o = BlockSize - 1
      <4>1. 0 \in 0 .. BlockSize - 1 /\ n - 1 \in 0 .. BlockSize - 1 /\ b + 1 \in Nat
        BY <1>1, <2>1, <3>1, SMT
      <4>2. (b + 1) * BlockSize = b * BlockSize + BlockSize
        BY <1>1, <3>1, SMT
      <4>3. eof + 1 = (b + 1) * BlockSize + 0 /\ eof + n = (b + 1) * BlockSize + (n - 1)
        BY <1>1, <3>1, <3>4, <4>2, SMT
      <4> QED  BY <1>3, <4>1, <4>3, InBlock
    <3> QED  BY <3>2, <3>3, <3>4
  <2> QED  BY <1>2, <1>3, <2>1 DEF SpaceInv, HeadersInOneBlock
<1> QED  BY <1>5, <1>6, <1>7

\* The action MallocNextBlock keeps the invariant.
LEMMA MallocNextBlockStep ==
  ASSUME SpaceInv, NEW k \in DOMAIN Sizes, NEW n \in Sizes[k], MallocNextBlock(k, n)
  PROVE  /\ ChunksDisjoint' /\ NoGap' /\ HeadersInOneBlock'
<1> DEFINE rest == Rest(eof + 1, NextBlock - (eof + 1))
           new == Allocated(k, NextBlock, n)
<1>1. /\ eof \in Nat /\ n \in Nat \ {0} /\ BlockSize \in Nat \ {0} /\ n <= BlockSize
      /\ NextBlock - (eof + 1) \in Nat \ {0}
  BY SpaceAssumption, Request, RestIsChunk DEF SpaceInv, TypeOK, MallocNextBlock, SkipsRest
<1>2. NextBlock \in Nat /\ eof < NextBlock
  BY <1>1, NextBlockBounds
<1>3. chunks' = chunks \cup {rest, new} /\ eof' = NextBlock + n - 1
  BY DEF MallocNextBlock
<1>4. /\ rest.start = eof + 1 /\ Last(rest) = NextBlock - 1 /\ rest.use # "live"
      /\ rest.size = NextBlock - (eof + 1) /\ rest.size <= rest.room
  BY <1>1, <1>2, RestIsFree DEF Last
<1>5. /\ new.start = NextBlock /\ Last(new) = NextBlock + n - 1
      /\ new.size = n /\ new.room = n
  BY <1>1, <1>2, Request, AllocatedIsChunk DEF Last
<1> HIDE DEF rest, new
<1>6. \A c \in chunks : Last(c) \in Nat /\ c.start \in Nat /\ c.start <= Last(c) /\ Last(c) <= eof
  BY ChunkEnd DEF SpaceInv, ChunksDisjoint
<1>7. ChunksDisjoint'
  <2>1. \A c \in chunks : Apart(c, new) /\ Apart(new, c) /\ Apart(c, rest) /\ Apart(rest, c)
    BY <1>1, <1>2, <1>4, <1>5, <1>6, SMT DEF Apart
  <2>2. Apart(rest, new) /\ Apart(new, rest)
    BY <1>2, <1>4, <1>5, SMT DEF Apart
  <2>3. \A c \in chunks' : c.size <= c.room /\ Last(c) <= eof'
    BY <1>1, <1>2, <1>3, <1>4, <1>5, <1>6, SMT DEF SpaceInv, ChunksDisjoint
  <2> QED  BY <1>3, <2>1, <2>2, <2>3 DEF SpaceInv, ChunksDisjoint
<1>8. NoGap'
  <2> SUFFICES ASSUME NEW a \in 0 .. eof'
               PROVE  \E c \in chunks' : Inside(c, a) \/ CutOff(c, a)
    BY DEF NoGap
  <2>1. CASE a <= eof
    BY <1>1, <1>3, <2>1 DEF SpaceInv, NoGap
  <2>2. CASE eof < a /\ a < NextBlock
    BY <1>1, <1>2, <1>3, <1>4, <2>2 DEF Inside
  <2>3. CASE NextBlock <= a
    BY <1>1, <1>2, <1>3, <1>5, <2>3 DEF Inside
  <2>4. a \in Int
    BY <1>1, <1>2, <1>3
  <2> QED  BY <1>1, <1>2, <2>1, <2>2, <2>3, <2>4
<1>9. HeadersInOneBlock'
  <2>1. new.start \div BlockSize = Last(new) \div BlockSize
    <3> DEFINE b == eof \div BlockSize + 1
    <3>1. b \in Nat /\ NextBlock = b * BlockSize
      BY <1>1, BlockArithmetic DEF NextBlock
    <3> HIDE DEF b
    <3>2. 0 \in 0 .. BlockSize - 1 /\ n - 1 \in 0 .. BlockSize - 1
      BY <1>1, SMT
    <3>3. NextBlock = b * BlockSize + 0 /\ NextBlock + n - 1 = b * BlockSize + (n - 1)
      BY <1>1, <1>2, <3>1, SMT
    <3> QED  BY <1>5, <3>1, <3>2, <3>3, InBlock
  <2> QED  BY <1>3, <1>4, <2>1 DEF SpaceInv, HeadersInOneBlock
<1> QED  BY <1>7, <1>8, <1>9

\* The action Free keeps the invariant.
LEMMA FreeStep ==
  ASSUME SpaceInv, NEW c \in chunks, Free(c)
  PROVE  /\ ChunksDisjoint' /\ NoGap' /\ HeadersInOneBlock'
<1> DEFINE f == Freed(c)
<1>1. c \in Chunk
  BY DEF SpaceInv, TypeOK
<1>2. chunks' = (chunks \ {c}) \cup {f} /\ eof' = eof
  BY DEF Free
<1>3. /\ f.start = c.start /\ f.size = c.size /\ f.room = c.room /\ f.kind = c.kind
      /\ Last(f) = Last(c) /\ f.use # "live"
  BY <1>1, FreedIsChunk DEF Last
<1> HIDE DEF f
<1>4. ChunksDisjoint'
  <2>1. \A d \in chunks \ {c} : Apart(d, f) /\ Apart(f, d)
    BY <1>3 DEF SpaceInv, ChunksDisjoint, Apart
  <2>2. \A d \in chunks' : d.size <= d.room /\ Last(d) <= eof'
    BY <1>2, <1>3 DEF SpaceInv, ChunksDisjoint
  <2> QED  BY <1>2, <2>1, <2>2 DEF SpaceInv, ChunksDisjoint
<1>5. NoGap'
  <2> SUFFICES ASSUME NEW a \in 0 .. eof'
               PROVE  \E d \in chunks' : Inside(d, a) \/ CutOff(d, a)
    BY DEF NoGap
  <2>1. PICK d \in chunks : Inside(d, a) \/ CutOff(d, a)
    BY <1>2 DEF SpaceInv, NoGap
  <2>2. Inside(c, a) = Inside(f, a) /\ CutOff(c, a) = CutOff(f, a)
    BY <1>3 DEF Inside, CutOff
  <2> QED  BY <1>2, <2>1, <2>2
<1>6. HeadersInOneBlock'
  BY <1>2, <1>3 DEF SpaceInv, HeadersInOneBlock
<1> QED  BY <1>4, <1>5, <1>6

\* The action WriteDataChunk keeps the invariant: what it cuts off was part of
\* a data chunk.
LEMMA WriteDataChunkStep ==
  ASSUME SpaceInv, NEW c \in chunks, NEW n \in 1 .. c.room, WriteDataChunk(c, n)
  PROVE  /\ ChunksDisjoint' /\ NoGap' /\ HeadersInOneBlock'
<1> DEFINE f == [c EXCEPT !.size = n]
<1>1. /\ c \in Chunk /\ c.start \in Nat /\ c.size \in Nat /\ c.room \in Nat
      /\ n \in Nat \ {0} /\ n <= c.room /\ c.size <= c.room /\ Last(c) = c.start + c.room - 1
  BY ChunkEnd DEF SpaceInv, ChunksDisjoint
<1>2. chunks' = (chunks \ {c}) \cup {f} /\ eof' = eof /\ c.kind = "data"
  BY DEF WriteDataChunk
<1>3. /\ f.start = c.start /\ f.size = n /\ f.room = c.room /\ f.kind = c.kind
      /\ Last(f) = Last(c) /\ f.use = c.use
  BY <1>1, WrittenIsChunk DEF Last
<1> HIDE DEF f
<1>4. ChunksDisjoint'
  <2>1. \A d \in chunks \ {c} : Apart(d, f) /\ Apart(f, d)
    BY <1>3 DEF SpaceInv, ChunksDisjoint, Apart
  <2>2. \A d \in chunks' : d.size <= d.room /\ Last(d) <= eof'
    BY <1>1, <1>2, <1>3 DEF SpaceInv, ChunksDisjoint
  <2> QED  BY <1>2, <2>1, <2>2 DEF SpaceInv, ChunksDisjoint
<1>5. NoGap'
  <2> SUFFICES ASSUME NEW a \in 0 .. eof'
               PROVE  \E d \in chunks' : Inside(d, a) \/ CutOff(d, a)
    BY DEF NoGap
  <2>1. PICK d \in chunks : Inside(d, a) \/ CutOff(d, a)
    BY <1>2 DEF SpaceInv, NoGap
  <2>2. CASE d = c
    <3>1. c.start <= a /\ a <= Last(c)
      BY <1>1, <2>1, <2>2, SMT DEF Inside, CutOff
    <3>2. Inside(f, a) \/ CutOff(f, a)
      BY <1>1, <1>2, <1>3, <3>1, SMT DEF Inside, CutOff
    <3> QED  BY <1>2, <3>2
  <2> QED  BY <1>2, <2>1, <2>2
<1>6. HeadersInOneBlock'
  BY <1>2, <1>3 DEF SpaceInv, HeadersInOneBlock
<1> QED  BY <1>4, <1>5, <1>6

\* The header fills the file of a database that was just created.
LEMMA SpaceInit == Init => SpaceInv
<1> SUFFICES ASSUME Init PROVE SpaceInv
  OBVIOUS
<1>1. TypeOK
  BY SpaceAssumption DEF Init, TypeOK, Header, Whole, Chunk, Lists
<1>2. /\ Header.start = 0 /\ Header.size = HeaderSize /\ Header.room = HeaderSize
      /\ Last(Header) = HeaderSize - 1
  BY SpaceAssumption DEF Header, Whole, Last
<1>3. ChunksDisjoint
  BY <1>2, SpaceAssumption DEF Init, ChunksDisjoint
<1>4. NoGap
  BY <1>2, SpaceAssumption DEF Init, NoGap, Inside
<1>5. HeadersInOneBlock
  <2>1. 0 \in Nat /\ 0 \in 0 .. BlockSize - 1 /\ HeaderSize - 1 \in 0 .. BlockSize - 1
        /\ 0 = 0 * BlockSize + 0 /\ HeaderSize - 1 = 0 * BlockSize + (HeaderSize - 1)
    BY SpaceAssumption, SMT
  <2>2. 0 \div BlockSize = 0 /\ (HeaderSize - 1) \div BlockSize = 0
    BY <2>1, InBlock
  <2> QED  BY <1>2, <2>2 DEF Init, HeadersInOneBlock
<1> QED  BY <1>1, <1>3, <1>4, <1>5 DEF SpaceInv

\* At every moment each byte of the file up to end_of_file was allocated to one
\* chunk, live or freed, and is still part of it, or lies behind the end of a data
\* chunk that was written again with less data; what fits in a block lies in one.
THEOREM SpaceInvariant == Spec => []SpaceInv
<1>1. SpaceInv /\ [Next]_vars => (ChunksDisjoint /\ NoGap /\ HeadersInOneBlock)'
  <2> SUFFICES ASSUME SpaceInv, [Next]_vars
               PROVE  (ChunksDisjoint /\ NoGap /\ HeadersInOneBlock)'
    OBVIOUS
  <2>1. CASE UNCHANGED vars
    BY <2>1 DEF vars, SpaceInv, ChunksDisjoint, NoGap, HeadersInOneBlock
  <2>2. ASSUME NEW k \in DOMAIN Sizes, NEW n \in Sizes[k], Malloc(k, n)
        PROVE  (ChunksDisjoint /\ NoGap /\ HeadersInOneBlock)'
    BY <2>2, MallocHereStep, MallocNextBlockStep DEF Malloc
  <2>3. ASSUME NEW c \in chunks, Free(c)
        PROVE  (ChunksDisjoint /\ NoGap /\ HeadersInOneBlock)'
    BY <2>3, FreeStep
  <2>4. ASSUME NEW c \in chunks, NEW n \in 1 .. c.room, WriteDataChunk(c, n)
        PROVE  (ChunksDisjoint /\ NoGap /\ HeadersInOneBlock)'
    BY <2>4, WriteDataChunkStep
  <2> QED  BY <2>1, <2>2, <2>3, <2>4 DEF Next
<1>2. TypeOK' /\ SpaceInv /\ [Next]_vars => SpaceInv'
  BY <1>1 DEF SpaceInv
<1> QED  BY <1>2, SpaceInit, TypeCorrect, PTL DEF Spec

\* No byte is allocated to two chunks, no chunk reaches behind what it was allocated
\* and none behind the end of the file (ADFI_file_malloc, ADFI_file_free).
THEOREM Disjointness == Spec => []ChunksDisjoint
  BY SpaceInvariant, PTL DEF SpaceInv

\* No byte of the file is lost but behind the end tags of data chunks that
\* ADFI_write_data_chunk has written again with less data.
THEOREM Completeness == Spec => []NoGap
  BY SpaceInvariant, PTL DEF SpaceInv

\* A live chunk that fits in a block never spans two.
THEOREM OneBlock == Spec => []HeadersInOneBlock
  BY SpaceInvariant, PTL DEF SpaceInv

\* Allocation returns bytes that no chunk, live or freed, ever had.
THEOREM FreshAllocation == Spec => AllocationIsFresh
<1> DEFINE New(c) == c.use = "live" /\ \A d \in chunks : d.use = "live" => d.start # c.start
           Fresh == \A c \in chunks' : New(c) => \A d \in chunks : Apart(c, d)
<1>1. SpaceInv /\ [Next]_vars => [Fresh]_vars
  <2> SUFFICES ASSUME SpaceInv, Next PROVE Fresh
    OBVIOUS
  <2>1. \A d \in chunks : Last(d) \in Nat /\ Last(d) <= eof
    BY ChunkEnd DEF SpaceInv, ChunksDisjoint
  <2>2. eof \in Nat /\ chunks \subseteq Chunk
    BY DEF SpaceInv, TypeOK
  <2>3. \A c \in chunks : ~New(c)
    OBVIOUS
  <2>4. ASSUME NEW k \in DOMAIN Sizes, NEW n \in Sizes[k], MallocHere(k, n) PROVE Fresh
    <3>1. Allocated(k, eof + 1, n).start = eof + 1
      BY DEF Allocated, Whole
    <3>2. \A d \in chunks : Apart(Allocated(k, eof + 1, n), d)
      BY <2>1, <2>2, <3>1, SMT DEF Apart
    <3>3. chunks' = chunks \cup {Allocated(k, eof + 1, n)}
      BY <2>4 DEF MallocHere
    <3> QED  BY <2>3, <3>2, <3>3
  <2>5. ASSUME NEW k \in DOMAIN Sizes, NEW n \in Sizes[k], MallocNextBlock(k, n) PROVE Fresh
    <3> DEFINE rest == Rest(eof + 1, NextBlock - (eof + 1))
    <3>1. Allocated(k, NextBlock, n).start = NextBlock /\ eof < NextBlock /\ NextBlock \in Nat
      BY <2>2, NextBlockBounds DEF Allocated, Whole
    <3>2. \A d \in chunks : Apart(Allocated(k, NextBlock, n), d)
      BY <2>1, <2>2, <3>1, SMT DEF Apart
    <3>3. rest.use # "live"
      BY DEF Rest, Whole, UseOnceFreed
    <3>4. chunks' = chunks \cup {rest, Allocated(k, NextBlock, n)}
      BY <2>5 DEF MallocNextBlock
    <3> HIDE DEF rest
    <3> QED  BY <2>3, <3>2, <3>3, <3>4
  <2>6. ASSUME NEW c \in chunks, Free(c) PROVE Fresh
    <3>1. Freed(c).use # "live"
      BY <2>2, FreedIsChunk
    <3>2. chunks' = (chunks \ {c}) \cup {Freed(c)}
      BY <2>6 DEF Free
    <3> QED  BY <2>3, <3>1, <3>2
  <2>7. ASSUME NEW c \in chunks, NEW n \in 1 .. c.room, WriteDataChunk(c, n) PROVE Fresh
    <3> DEFINE f == [c EXCEPT !.size = n]
    <3>1. f.start = c.start /\ c.use = "live" /\ chunks' = (chunks \ {c}) \cup {f}
      BY <2>2, <2>7 DEF WriteDataChunk, Chunk
    <3> HIDE DEF f
    <3>2. ~New(f)
      BY <3>1
    <3> QED  BY <2>3, <3>1, <3>2
  <2> QED  BY <2>4, <2>5, <2>6, <2>7 DEF Next, Malloc
<1> QED  BY <1>1, SpaceInvariant, PTL DEF Spec, AllocationIsFresh

-----------------------------------------------------------------------------
(* The free lists.                                                         *)

\* s is the addresses on list l in the order of the list.
InOrder(s, l) ==
  /\ Len(s) = Cardinality(OnList(l))
  /\ \A a : (\E i \in 1 .. Len(s) : s[i] = a) <=> \E c \in OnList(l) : c.start = a
  /\ table[l].first = IF Len(s) = 0 THEN Blank ELSE s[1]
  /\ table[l].last = IF Len(s) = 0 THEN Blank ELSE s[Len(s)]
  /\ \A i \in 1 .. Len(s) :
       s[i] \in DOMAIN next /\ next[s[i]] = IF i = Len(s) THEN Blank ELSE s[i + 1]

\* Every list has an order, and only freed chunks have a pointer.
ListsInv ==
  /\ IsFiniteSet(chunks)
  /\ \A a \in DOMAIN next : \E c \in chunks : c.start = a /\ c.use # "live"
  /\ \A l \in Lists : \E s \in Seq(Nat) : InOrder(s, l)

\* A chunk that joins its list at the head.
LEMMA FileFreeLists ==
  ASSUME TypeOK, ListsInv, IsFiniteSet(chunks'),
         NEW a \in Nat, NEW n \in Nat \ {0}, FileFree(a, n), a \notin DOMAIN next,
         \A c \in chunks : c.use # "live" => c \in chunks',
         NEW f \in chunks', f.start = a, f.use = UseOnceFreed(a, n),
         \A c \in chunks' : c.use # "live" => c \in chunks \/ c = f
  PROVE  ListsInv'
<1> DEFINE u == UseOnceFreed(a, n)
<1>1. f.start = a /\ f.use = u /\ u # "live" /\ u \in Lists \cup {"gas"}
  BY DEF UseOnceFreed, Lists
<1> HIDE DEF u
<1>2. ASSUME NEW l \in Lists
      PROVE  OnList(l)' = IF l = u THEN OnList(l) \cup {f} ELSE OnList(l)
  <2>1. l # "live"
    BY DEF Lists
  <2>2. \A c : c \in OnList(l)' <=> c \in OnList(l) \/ (l = u /\ c = f)
    BY <1>1, <2>1 DEF OnList
  <2> QED  BY <2>2
<1>3. CASE u = "gas"
  <2>1. next' = next /\ table' = table
    BY <1>3 DEF FileFree, u
  <2>2. \A l \in Lists : OnList(l)' = OnList(l)
    BY <1>2, <1>3 DEF Lists
  <2>3. ASSUME NEW l \in Lists, NEW s \in Seq(Nat), InOrder(s, l)
        PROVE  InOrder(s, l)'
    BY <2>1, <2>2, <2>3 DEF InOrder
  <2> QED  BY <2>1, <2>3 DEF ListsInv
<1>4. CASE u # "gas"
  <2>1. u \in Lists /\ PutOnList(a, u)
    BY <1>1, <1>4 DEF FileFree, u
  <2>2. /\ DOMAIN next' = DOMAIN next \cup {a}
        /\ next'[a] = table[u].first
        /\ \A x \in DOMAIN next : next'[x] = next[x]
        /\ table'[u] = [first |-> a, last |-> IF table[u].first = Blank THEN a ELSE table[u].last]
        /\ \A l \in Lists : l # u => table'[l] = table[l]
    BY <2>1 DEF PutOnList, TypeOK
  <2>3. ASSUME NEW x \in DOMAIN next'
        PROVE  \E c \in chunks' : c.start = x /\ c.use # "live"
    <3>1. CASE x = a
      BY <1>1, <3>1
    <3>2. CASE x # a
      BY <2>2, <3>2 DEF ListsInv
    <3> QED  BY <3>1, <3>2
  <2>4. ASSUME NEW l \in Lists, l # u, NEW s \in Seq(Nat), InOrder(s, l)
        PROVE  InOrder(s, l)'
    <3>1. OnList(l)' = OnList(l) /\ table'[l] = table[l]
      BY <1>2, <2>2, <2>4
    <3>2. \A i \in 1 .. Len(s) : s[i] \in DOMAIN next' /\ next'[s[i]] = next[s[i]]
      BY <2>2, <2>4 DEF InOrder
    <3> QED  BY <2>4, <3>1, <3>2 DEF InOrder
  <2>5. ASSUME NEW s \in Seq(Nat), InOrder(s, u)
        PROVE  \E t \in Seq(Nat) : InOrder(t, u)'
    <3> DEFINE k == Len(s)
               t == [i \in 1 .. k + 1 |-> IF i = 1 THEN a ELSE s[i - 1]]
    <3>1. k \in Nat /\ \A i \in 1 .. k : s[i] \in Nat
      OBVIOUS
    <3>2. /\ t \in Seq(Nat) /\ Len(t) = k + 1 /\ t[1] = a
          /\ \A i \in 1 .. k : t[i + 1] = s[i]
      BY <3>1
    <3> HIDE DEF k, t
    <3>3. OnList(u)' = OnList(u) \cup {f}
      BY <1>2, <2>1
    <3>4. f \notin OnList(u)
      <4>1. \A c \in OnList(u) : c.start \in DOMAIN next
        BY <2>5 DEF InOrder
      <4> QED  BY <1>1, <4>1
    <3>5. Cardinality(OnList(u)') = k + 1
      <4>1. IsFiniteSet(OnList(u))
        <5>1. OnList(u) \subseteq chunks /\ IsFiniteSet(chunks)
          BY DEF OnList, ListsInv
        <5> QED  BY <5>1, FS_Subset
      <4>2. Cardinality(OnList(u) \cup {f}) = Cardinality(OnList(u)) + 1
        BY <3>4, <4>1, FS_AddElement
      <4>3. Cardinality(OnList(u)) = k
        BY <2>5 DEF InOrder, k
      <4> QED  BY <3>3, <4>2, <4>3
    <3>6. \A x : (\E i \in 1 .. k + 1 : t[i] = x) <=> x = a \/ \E i \in 1 .. k : s[i] = x
      <4>1. ASSUME NEW i \in 1 .. k + 1
            PROVE  t[i] = a \/ \E j \in 1 .. k : s[j] = t[i]
        <5>1. CASE i = 1
          BY <3>2, <5>1
        <5>2. CASE i # 1
          <6>1. i - 1 \in 1 .. k /\ i = (i - 1) + 1
            BY <3>1, <5>2
          <6>2. t[(i - 1) + 1] = s[i - 1]
            BY <3>2, <6>1
          <6> QED  BY <6>1, <6>2
        <5> QED  BY <5>1, <5>2
      <4>2. 1 \in 1 .. k + 1 /\ t[1] = a
        BY <3>1, <3>2
      <4>3. ASSUME NEW j \in 1 .. k
            PROVE  \E i \in 1 .. k + 1 : t[i] = s[j]
        <5>1. j + 1 \in 1 .. k + 1 /\ t[j + 1] = s[j]
          BY <3>1, <3>2
        <5> QED  BY <5>1
      <4> QED  BY <4>1, <4>2, <4>3
    <3>7. \A x : (\E i \in 1 .. k + 1 : t[i] = x) <=> \E c \in OnList(u)' : c.start = x
      <4>1. \A x : (\E i \in 1 .. k : s[i] = x) <=> \E c \in OnList(u) : c.start = x
        BY <2>5 DEF InOrder, k
      <4> QED  BY <1>1, <3>3, <3>6, <4>1
    <3>8. table[u].first = IF k = 0 THEN Blank ELSE s[1]
      BY <2>5 DEF InOrder, k
    <3>9. table'[u].first = t[1] /\ table'[u].last = t[k + 1]
      <4>1. table[u].last = IF k = 0 THEN Blank ELSE s[k]
        BY <2>5 DEF InOrder, k
      <4>2. CASE k = 0
        BY <2>2, <3>2, <3>8, <4>2
      <4>3. CASE k # 0
        <5>1. k \in 1 .. k /\ 1 \in 1 .. k
          BY <3>1, <4>3
        <5>2. s[1] # Blank
          BY <3>1, <5>1, SpaceAssumption
        <5> QED  BY <2>2, <3>2, <3>8, <4>1, <4>3, <5>1, <5>2
      <4> QED  BY <4>2, <4>3
    <3>10. ASSUME NEW i \in 1 .. k + 1
           PROVE  t[i] \in DOMAIN next' /\ next'[t[i]] = IF i = k + 1 THEN Blank ELSE t[i + 1]
      <4>1. CASE i = 1
        <5>1. CASE k = 0
          BY <2>2, <3>2, <3>8, <4>1, <5>1
        <5>2. CASE k # 0
          <6>1. 1 \in 1 .. k /\ i # k + 1 /\ i + 1 = 1 + 1
            BY <3>1, <4>1, <5>2
          <6> QED  BY <2>2, <3>2, <3>8, <4>1, <5>2, <6>1
        <5> QED  BY <5>1, <5>2
      <4>2. CASE i # 1
        <5>1. PICK j \in 1 .. k : i = j + 1
          <6>1. i - 1 \in 1 .. k /\ i = (i - 1) + 1
            BY <3>1, <4>2
          <6> QED  BY <6>1
        <5>2. s[j] \in DOMAIN next /\ next[s[j]] = IF j = k THEN Blank ELSE s[j + 1]
          BY <2>5 DEF InOrder, k
        <5>3. t[i] = s[j]
          BY <3>2, <5>1
        <5>4. CASE j = k
          BY <2>2, <5>1, <5>2, <5>3, <5>4
        <5>5. CASE j # k
          <6>1. j + 1 \in 1 .. k /\ i # k + 1
            BY <3>1, <5>1, <5>5
          <6>2. t[i + 1] = s[j + 1]
            BY <3>2, <5>1, <6>1
          <6> QED  BY <2>2, <5>2, <5>3, <5>5, <6>1, <6>2
        <5> QED  BY <5>4, <5>5
      <4> QED  BY <4>1, <4>2
    <3>11. InOrder(t, u)'
      <4>1. k + 1 # 0
        BY <3>1
      <4> QED  BY <3>2, <3>5, <3>7, <3>9, <3>10, <4>1 DEF InOrder
    <3> QED  BY <3>2, <3>11
  <2> QED  BY <2>1, <2>3, <2>4, <2>5 DEF ListsInv
<1> QED  BY <1>3, <1>4

\* Allocations and frees keep the lists in order: what is put on a list was on none.
LEMMA ListsStep ==
  ASSUME SpaceInv, ListsInv, [Next]_vars
  PROVE  ListsInv'
<1>1. TypeOK /\ eof \in Nat
  BY DEF SpaceInv, TypeOK
<1>2. \A c \in chunks : Last(c) \in Nat /\ c.start \in Nat /\ c.start <= Last(c) /\ Last(c) <= eof
  BY ChunkEnd DEF SpaceInv, ChunksDisjoint
<1>3. ASSUME NEW k \in DOMAIN Sizes, NEW n \in Sizes[k], MallocNextBlock(k, n)
      PROVE  ListsInv'
  <2> DEFINE m == NextBlock - (eof + 1)
             rest == Rest(eof + 1, m)
             new == Allocated(k, NextBlock, n)
  <2>1. m \in Nat \ {0} /\ eof + 1 \in Nat /\ FileFree(eof + 1, m)
    BY <1>1, <1>3, Request, RestIsChunk, NextBlockBounds DEF MallocNextBlock
  <2>2. chunks' = chunks \cup {rest, new}
    BY <1>3 DEF MallocNextBlock
  <2>3. new.use = "live" /\ rest.start = eof + 1 /\ rest.use = UseOnceFreed(eof + 1, m)
    BY DEF Allocated, Rest, Whole
  <2> HIDE DEF m, rest, new
  <2>4. eof + 1 \notin DOMAIN next
    <3> SUFFICES ASSUME eof + 1 \in DOMAIN next PROVE FALSE
      OBVIOUS
    <3>1. PICK c \in chunks : c.start = eof + 1
      BY DEF ListsInv
    <3> QED  BY <1>1, <1>2, <3>1
  <2>5. IsFiniteSet(chunks')
    <3>1. IsFiniteSet(chunks \cup {rest})
      BY FS_AddElement DEF ListsInv
    <3>2. IsFiniteSet((chunks \cup {rest}) \cup {new})
      BY <3>1, FS_AddElement
    <3>3. chunks' = (chunks \cup {rest}) \cup {new}
      BY <2>2
    <3> QED  BY <3>2, <3>3
  <2>6. /\ \A c \in chunks : c.use # "live" => c \in chunks'
        /\ rest \in chunks'
        /\ \A c \in chunks' : c.use # "live" => c \in chunks \/ c = rest
    BY <2>2, <2>3
  <2> QED  BY <1>1, <2>1, <2>3, <2>4, <2>5, <2>6, FileFreeLists
<1>4. ASSUME NEW c \in chunks, Free(c)
      PROVE  ListsInv'
  <2>1. /\ c \in Chunk /\ c.start \in Nat /\ c.size \in Nat \ {0} /\ c.use = "live"
        /\ FileFree(c.start, c.size)
    BY <1>1, <1>4 DEF Free, TypeOK, Chunk
  <2>2. chunks' = (chunks \ {c}) \cup {Freed(c)}
    BY <1>4 DEF Free
  <2>3. c.start \notin DOMAIN next
    <3> SUFFICES ASSUME c.start \in DOMAIN next PROVE FALSE
      OBVIOUS
    <3>1. PICK d \in chunks : d.start = c.start /\ d.use # "live"
      BY DEF ListsInv
    <3>2. Apart(c, d)
      BY <2>1, <3>1 DEF SpaceInv, ChunksDisjoint
    <3> QED  BY <1>2, <3>1, <3>2 DEF Apart
  <2>4. IsFiniteSet(chunks')
    <3>1. IsFiniteSet(chunks \ {c})
      BY FS_Subset DEF ListsInv
    <3> QED  BY <2>2, <3>1, FS_AddElement
  <2>5. /\ \A d \in chunks : d.use # "live" => d \in chunks'
        /\ Freed(c) \in chunks'
        /\ \A d \in chunks' : d.use # "live" => d \in chunks \/ d = Freed(c)
    BY <2>1, <2>2
  <2>6. Freed(c).start = c.start /\ Freed(c).use = UseOnceFreed(c.start, c.size)
    BY <2>1, FreedIsChunk
  <2> QED  BY <1>1, <2>1, <2>3, <2>4, <2>5, <2>6, FileFreeLists
<1>5. ASSUME next' = next, table' = table, IsFiniteSet(chunks'),
             \A c : c.use # "live" => (c \in chunks' <=> c \in chunks)
      PROVE  ListsInv'
  <2>1. \A l \in Lists : OnList(l)' = OnList(l)
    <3> SUFFICES ASSUME NEW l \in Lists PROVE OnList(l)' = OnList(l)
      OBVIOUS
    <3>1. l # "live"
      BY DEF Lists
    <3> QED  BY <1>5, <3>1 DEF OnList
  <2>2. ASSUME NEW l \in Lists, NEW s \in Seq(Nat), InOrder(s, l)
        PROVE  InOrder(s, l)'
    BY <1>5, <2>1, <2>2 DEF InOrder
  <2> QED  BY <1>5, <2>2 DEF ListsInv
<1>6. ASSUME NEW k \in DOMAIN Sizes, NEW n \in Sizes[k], MallocHere(k, n)
      PROVE  ListsInv'
  <2>1. chunks' = chunks \cup {Allocated(k, eof + 1, n)} /\ next' = next /\ table' = table
    BY <1>6 DEF MallocHere
  <2>2. Allocated(k, eof + 1, n).use = "live"
    BY DEF Allocated, Whole
  <2>3. IsFiniteSet(chunks')
    BY <2>1, FS_AddElement DEF ListsInv
  <2> QED  BY <1>5, <2>1, <2>2, <2>3
<1>8. ASSUME NEW c \in chunks, NEW n \in 1 .. c.room, WriteDataChunk(c, n)
      PROVE  ListsInv'
  <2> DEFINE f == [c EXCEPT !.size = n]
  <2>1. /\ chunks' = (chunks \ {c}) \cup {f} /\ next' = next /\ table' = table
        /\ c.use = "live" /\ f.use = "live"
    BY <1>1, <1>8 DEF WriteDataChunk, TypeOK, Chunk
  <2> HIDE DEF f
  <2>2. IsFiniteSet(chunks')
    <3>1. IsFiniteSet(chunks \ {c})
      BY FS_Subset DEF ListsInv
    <3> QED  BY <2>1, <3>1, FS_AddElement
  <2>3. \A d : d.use # "live" => (d \in chunks' <=> d \in chunks)
    BY <2>1
  <2> QED  BY <1>5, <2>1, <2>2, <2>3
<1>7. CASE UNCHANGED vars
  BY <1>5, <1>7 DEF vars, ListsInv
<1> QED  BY <1>3, <1>4, <1>6, <1>7, <1>8 DEF Next, Malloc

\* An empty file has four empty lists.
LEMMA ListsInit == Init => ListsInv
<1> SUFFICES ASSUME Init PROVE ListsInv
  OBVIOUS
<1>1. IsFiniteSet(chunks)
  BY FS_Singleton DEF Init
<1>2. ASSUME NEW l \in Lists PROVE InOrder(<<>>, l)
  <2>1. OnList(l) = {}
    BY DEF Init, OnList, Header, Whole, Lists
  <2>2. Cardinality(OnList(l)) = 0
    BY <2>1, FS_EmptySet
  <2> QED  BY <2>1, <2>2 DEF InOrder, Init
<1>3. <<>> \in Seq(Nat) /\ DOMAIN next = {}
  BY DEF Init
<1>4. \A l \in Lists : \E s \in Seq(Nat) : InOrder(s, l)
  BY <1>2, <1>3
<1> QED  BY <1>1, <1>3, <1>4 DEF ListsInv

\* A set of numbers that is not empty has a least one.
LEMMA LeastNatural ==
  ASSUME NEW S \in SUBSET Nat, S # {}
  PROVE  \E m \in S : \A n \in S : m <= n
<1>1. PICK m \in S : \A n \in S : ~(<<n, m>> \in OpToRel(<, Nat))
  BY NatLessThanWellFounded, WFMin
<1>2. \A n \in S : ~(n < m)
  BY <1>1 DEF OpToRel
<1> QED  BY <1>2

\* A walk along a list meets its chunks in their order.
LEMMA WalkIsOrder ==
  ASSUME NEW l \in Lists, NEW s \in Seq(Nat), InOrder(s, l)
  PROVE  Walk(l) = [k \in 0 .. Len(s) |-> IF k < Len(s) THEN s[k + 1] ELSE Blank]
<1> DEFINE n == Len(s)
           F(at) == [k \in 0 .. n |->
                       IF k = 0 THEN table[l].first
                       ELSE IF at[k - 1] \in DOMAIN next THEN next[at[k - 1]] ELSE Blank]
           w == [k \in 0 .. n |-> IF k < n THEN s[k + 1] ELSE Blank]
<1>1. n \in Nat /\ Cardinality(OnList(l)) = n
  BY DEF InOrder
<1>2. Walk(l) = CHOOSE at : at = F(at)
  BY <1>1 DEF Walk
<1>3. /\ table[l].first = IF n = 0 THEN Blank ELSE s[1]
      /\ \A i \in 1 .. n : s[i] \in DOMAIN next /\ next[s[i]] = IF i = n THEN Blank ELSE s[i + 1]
  BY DEF InOrder
<1> HIDE DEF n
<1>4. \A k \in 0 .. n : w[k] = F(w)[k]
  <2> SUFFICES ASSUME NEW k \in 0 .. n PROVE w[k] = F(w)[k]
    OBVIOUS
  <2>1. CASE k = 0
    BY <1>1, <1>3, <2>1
  <2>2. CASE k # 0
    <3>1. /\ k - 1 \in 0 .. n /\ k - 1 < n /\ k \in 1 .. n /\ (k - 1) + 1 = k
          /\ ~(k < n) => k = n
      BY <1>1, <2>2
    <3>2. w[k - 1] = s[k]
      BY <3>1
    <3>3. F(w)[k] = IF k = n THEN Blank ELSE s[k + 1]
      BY <1>3, <2>2, <3>1, <3>2
    <3> QED  BY <1>1, <3>1, <3>3
  <2> QED  BY <2>1, <2>2
<1>5. w = F(w)
  BY <1>4
<1>6. ASSUME NEW at, at = F(at) PROVE at = w
  <2> DEFINE Differ == {k \in 0 .. n : at[k] # w[k]}
  <2>1. at = [k \in 0 .. n |-> at[k]]
    BY <1>6
  <2>2. CASE Differ = {}
    <3>1. \A k \in 0 .. n : at[k] = w[k]
      BY <2>2
    <3> QED  BY <2>1, <3>1
  <2>3. CASE Differ # {}
    <3>1. Differ \in SUBSET Nat
      BY <1>1
    <3>2. PICK m \in Differ : \A k \in Differ : m <= k
      BY <2>3, <3>1, LeastNatural
    <3>3. m \in 0 .. n /\ at[m] # w[m] /\ at[m] = F(at)[m] /\ w[m] = F(w)[m]
      BY <1>4, <1>6, <3>2
    <3>4. CASE m = 0
      BY <3>3, <3>4
    <3>5. CASE m # 0
      <4>1. m - 1 \in 0 .. n /\ m - 1 < m
        BY <1>1, <3>3, <3>5
      <4>2. at[m - 1] = w[m - 1]
        <5> SUFFICES ASSUME at[m - 1] # w[m - 1] PROVE FALSE
          OBVIOUS
        <5>1. m - 1 \in Differ
          BY <4>1
        <5>2. m <= m - 1
          BY <3>2, <5>1
        <5>3. m \in Int
          BY <3>1
        <5> QED  BY <5>2, <5>3
      <4> HIDE DEF w
      <4> QED  BY <3>3, <3>5, <4>2
    <3> QED  BY <3>4, <3>5
  <2> QED  BY <2>2, <2>3
<1> HIDE DEF F, w
<1>7. (CHOOSE at : at = F(at)) = w
  BY <1>5, <1>6
<1> QED  BY <1>2, <1>7 DEF w, n

\* The order of each list shows that the walk over it ends and finds every free chunk once.
LEMMA ListsAreSound == ListsInv => FreeListsSound
<1> SUFFICES ASSUME ListsInv, NEW l \in Lists
             PROVE  LET n == Cardinality(OnList(l))
                    IN /\ {Walk(l)[k] : k \in 0 .. n - 1} = {c.start : c \in OnList(l)}
                       /\ Walk(l)[n] = Blank
                       /\ table[l].last = IF n = 0 THEN Blank ELSE Walk(l)[n - 1]
  BY DEF FreeListsSound
<1>1. PICK s \in Seq(Nat) : InOrder(s, l)
  BY DEF ListsInv
<1> DEFINE n == Len(s)
<1>2. /\ n \in Nat /\ Cardinality(OnList(l)) = n
      /\ \A a : (\E i \in 1 .. n : s[i] = a) <=> \E c \in OnList(l) : c.start = a
      /\ table[l].last = IF n = 0 THEN Blank ELSE s[n]
  BY <1>1 DEF InOrder
<1>3. Walk(l) = [k \in 0 .. n |-> IF k < n THEN s[k + 1] ELSE Blank]
  BY <1>1, WalkIsOrder
<1> HIDE DEF n
<1>4. \A k \in 0 .. n - 1 : Walk(l)[k] = s[k + 1]
  BY <1>2, <1>3
<1>5. \A a : a \in {Walk(l)[k] : k \in 0 .. n - 1} <=> \E i \in 1 .. n : s[i] = a
  <2>1. ASSUME NEW k \in 0 .. n - 1 PROVE \E i \in 1 .. n : s[i] = Walk(l)[k]
    <3>1. k + 1 \in 1 .. n
      BY <1>2
    <3> QED  BY <1>4, <3>1
  <2>2. ASSUME NEW i \in 1 .. n PROVE \E k \in 0 .. n - 1 : Walk(l)[k] = s[i]
    <3>1. i - 1 \in 0 .. n - 1 /\ (i - 1) + 1 = i
      BY <1>2
    <3>2. Walk(l)[i - 1] = s[(i - 1) + 1]
      BY <1>4, <3>1
    <3> QED  BY <3>1, <3>2
  <2> QED  BY <2>1, <2>2
<1>6. {Walk(l)[k] : k \in 0 .. n - 1} = {c.start : c \in OnList(l)}
  BY <1>2, <1>5
<1>7. Walk(l)[n] = Blank
  BY <1>2, <1>3
<1>8. table[l].last = IF n = 0 THEN Blank ELSE Walk(l)[n - 1]
  <2>1. CASE n # 0
    <3>1. n - 1 \in 0 .. n - 1 /\ (n - 1) + 1 = n
      BY <1>2, <2>1
    <3>2. Walk(l)[n - 1] = s[(n - 1) + 1]
      BY <1>4, <3>1
    <3> QED  BY <1>2, <2>1, <3>1, <3>2
  <2> QED  BY <1>2, <2>1
<1> QED  BY <1>2, <1>6, <1>7, <1>8

\* From its head every free list leads to all the chunks freed to it, once each,
\* and the table points to where it ends (ADFI_file_free).
THEOREM FreeLists == Spec => []FreeListsSound
<1>1. Init => ListsInv
  BY ListsInit
<1>2. SpaceInv /\ ListsInv /\ [Next]_vars => ListsInv'
  BY ListsStep
<1>3. ListsInv => FreeListsSound
  BY ListsAreSound
<1> QED  BY <1>1, <1>2, <1>3, SpaceInvariant, PTL DEF Spec

-----------------------------------------------------------------------------
(* Addresses as the code writes them.  An address of ADFFileSpace is a     *)
(* number of bytes; the code has a block and an offset in it, which it     *)
(* adjusts after it has added to the offset.                               *)

Pointers == INSTANCE ADFIdentifiers WITH MaxFiles <- 128   \* MAXIMUM_FILES

\* An adjusted pointer names the same byte of the file and lies in its block:
\* ADFI_adjust_disk_pointer.
THEOREM AdjustedKeepsPlace ==
  ASSUME NEW block \in Nat, NEW offset \in Nat
  PROVE  LET q == Pointers!Adjusted(Pointers!Place(block, offset))
         IN  /\ q.block \in Nat /\ q.offset \in 0..BlockSize - 1
             /\ q.block * BlockSize + q.offset = block * BlockSize + offset
<1>1. BlockSize \in Nat \ {0}
  BY SpaceAssumption, SMT
<1>2. CASE offset < BlockSize
  BY <1>1, <1>2, SMT DEF Pointers!Adjusted, Pointers!Place
<1>3. CASE ~(offset < BlockSize)
  <2> DEFINE n == offset \div BlockSize
  <2>1. n \in Nat /\ offset - n * BlockSize \in 0..BlockSize - 1
    BY <1>1, SMT
  <2>2. Pointers!Adjusted(Pointers!Place(block, offset)) = [block |-> block + n, offset |-> offset - n * BlockSize]
    BY <1>3, SMT DEF Pointers!Adjusted, Pointers!Place
  <2> HIDE DEF n
  <2>3. (block + n) * BlockSize = block * BlockSize + n * BlockSize
    BY <1>1, <2>1, SMT
  <2>4. n * BlockSize \in Int /\ block * BlockSize \in Int
    BY <1>1, <2>1, SMT
  <2> QED
    BY <1>1, <2>1, <2>2, <2>3, <2>4, SMT
<1> QED
  BY <1>2, <1>3, SMT
=============================================================================
