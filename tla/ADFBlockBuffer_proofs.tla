------------------------ MODULE ADFBlockBuffer_proofs -------------------------
(***************************************************************************)
(* The two block buffers never hide a write, for any number of files, any  *)
(* block size and any pieces, but for the cells that a crossing write put  *)
(* behind a clean write buffer and those whose flush failed.               *)
(*                                                                         *)
(* A cell is followed through the functions of ADFI_read_file and          *)
(* ADFI_write_file: it is Fine (the disk or the dirty buffer has what was  *)
(* written, and no buffer has anything else) or Gone (the disk has         *)
(* something else, and what the buffers have agrees).  A function leaves a *)
(* cell as good as it was (NoWorse).                                       *)
(***************************************************************************)
EXTENDS ADFBlockBuffer, TLAPS

IoType ==
  [disk : [Files -> [Addr -> Cell]], len : [Files -> 0 .. NumBlocks * BlockSize],
   rd : Buffer, wr : Buffer]

InBuffer(buf, f, a) == Holds(buf, f, BlockOf(a))

\* The disk or the dirty buffer has w at cell a of file f, and so do the buffers.
Fine(s, f, a, w) ==
  /\ s.disk[f][a] = w \/ (s.wr.dirty /\ InBuffer(s.wr, f, a))
  /\ InBuffer(s.wr, f, a) => s.wr.data[a % BlockSize] = w
  /\ InBuffer(s.rd, f, a) /\ s.rd.num = BlockSize => s.rd.data[a % BlockSize] = w

OnDisk(s, f, a, w) == Fine(s, f, a, w) /\ s.disk[f][a] = w

\* The disk has something else; if the write buffer still has w, a flush brings
\* it back, and the read buffer must not say anything else then.
Gone(s, f, a, w) ==
  /\ s.disk[f][a] # w
  /\ InBuffer(s.wr, f, a) /\ s.wr.data[a % BlockSize] = w =>
       (InBuffer(s.rd, f, a) /\ s.rd.num = BlockSize => s.rd.data[a % BlockSize] = w)

NoWorse(s, t, f, a, w) ==
  /\ Fine(s, f, a, w) => Fine(t, f, a, w)
  /\ OnDisk(s, f, a, w) => OnDisk(t, f, a, w)
  /\ Gone(s, f, a, w) => Gone(t, f, a, w) \/ OnDisk(t, f, a, w)

\* Behind its end a file has nothing.
NothingBehind(s) == \A f \in Files, a \in Addr : a >= s.len[f] => s.disk[f][a] = Fill

\* What is in the write buffer and not on disk belongs to a file.
DirtyHasFile(s) == s.wr.dirty => s.wr.file \in Files

IoOK(s) == s \in IoType /\ NothingBehind(s) /\ DirtyHasFile(s)

-----------------------------------------------------------------------------
(* Cells and blocks.                                                       *)

\* The assumptions on the sizes, and their product, which the solver takes as a number.
LEMMA SizeFacts ==
  /\ NumBlocks \in Nat /\ NumBlocks > 0 /\ BlockSize \in Nat /\ BlockSize > 1
  /\ NumBlocks * BlockSize \in Nat
<1>1. NumBlocks \in Nat \ {0} /\ BlockSize \in Nat \ {0, 1}
  BY BufferAssumption
<1> QED  BY <1>1, SMT

\* An address is its block and its place in it.
LEMMA CellArithmetic ==
  ASSUME NEW a \in Addr
  PROVE  /\ a \in Nat /\ BlockOf(a) \in Blocks /\ a % BlockSize \in Offsets
         /\ a = BlockOf(a) * BlockSize + (a % BlockSize)
<1> DEFINE p == a \div BlockSize
           i == a % BlockSize
<1>1. a \in Nat /\ a < NumBlocks * BlockSize /\ NumBlocks \in Nat \ {0} /\ BlockSize \in Nat \ {0, 1}
  <2> DEFINE end == NumBlocks * BlockSize
  <2>1. end \in Nat /\ a \in 0 .. end - 1
    BY SizeFacts DEF Addr
  <2> HIDE DEF end
  <2>2. a \in Nat /\ a < end
    BY <2>1
  <2> QED  BY <2>2, SizeFacts DEF end
<1>2. p \in Nat /\ i \in 0 .. BlockSize - 1 /\ a = p * BlockSize + i
  BY <1>1, SMT
<1>3. BlockOf(a) = p
  BY DEF BlockOf
<1> HIDE DEF p, i
<1>4. p < NumBlocks
  <2> SUFFICES ASSUME p >= NumBlocks PROVE FALSE
    BY <1>1, <1>2
  <2>1. p * BlockSize >= NumBlocks * BlockSize
    BY <1>1, <1>2, SMT
  <2> QED  BY <1>1, <1>2, <2>1, SMT
<1>5. p \in Blocks
  BY <1>1, <1>2, <1>4, SMT DEF Blocks
<1>6. i \in Offsets /\ a = BlockOf(a) * BlockSize + i
  BY <1>2, <1>3 DEF Offsets
<1> QED
  <2>1. a \in Nat
    BY <1>1
  <2>2. BlockOf(a) \in Blocks
    BY <1>3, <1>5
  <2>3. a % BlockSize \in Offsets
    BY <1>6 DEF i
  <2>4. a = BlockOf(a) * BlockSize + (a % BlockSize)
    BY <1>6 DEF i
  <2> QED BY <2>1, <2>2, <2>3, <2>4

\* A block and a place in it are an address of the file.
LEMMA BlockArithmetic ==
  ASSUME NEW b \in Blocks, NEW o \in Offsets
  PROVE  /\ b * BlockSize + o \in Addr
         /\ BlockOf(b * BlockSize + o) = b /\ (b * BlockSize + o) % BlockSize = o
         /\ b * BlockSize \in Nat /\ b * BlockSize + BlockSize <= NumBlocks * BlockSize
<1>1. b \in Nat /\ o \in Nat /\ o < BlockSize /\ b + 1 <= NumBlocks
      /\ NumBlocks \in Nat \ {0} /\ BlockSize \in Nat \ {0, 1}
  BY BufferAssumption DEF Blocks, Offsets
<1>2. (b * BlockSize + o) \div BlockSize = b /\ (b * BlockSize + o) % BlockSize = o
  BY <1>1, SMT
<1> DEFINE start == b * BlockSize
           end == NumBlocks * BlockSize
<1>3. (b + 1) * BlockSize <= end /\ (b + 1) * BlockSize = start + BlockSize
  BY <1>1, SMT
<1>4. start \in Nat /\ end \in Nat
  BY <1>1, SMT
<1>5. BlockOf(start + o) = b
  BY <1>2 DEF BlockOf
<1>6. Addr = 0 .. end - 1
  BY DEF Addr
<1> HIDE DEF start, end
<1>7. start + o \in Addr /\ start + BlockSize <= end
  BY <1>1, <1>3, <1>4, <1>6, SMT
<1> QED
  BY <1>2, <1>4, <1>5, <1>7 DEF start, end

\* The cells of a block are those that lie in it.
LEMMA CellsOfBlock ==
  ASSUME NEW a \in Addr, NEW b \in Blocks
  PROVE  /\ a \in CellsOf(b) <=> BlockOf(a) = b
         /\ \A o \in Offsets : b * BlockSize + o = a <=> BlockOf(a) = b /\ o = a % BlockSize
<1>1. a = BlockOf(a) * BlockSize + (a % BlockSize) /\ a % BlockSize \in Offsets
      /\ BlockOf(a) \in Blocks /\ a \in Nat
  BY CellArithmetic
<1>2. \A o \in Offsets : b * BlockSize + o = a <=> BlockOf(a) = b /\ o = a % BlockSize
  <2> TAKE o \in Offsets
  <2>1. ASSUME b * BlockSize + o = a PROVE BlockOf(a) = b /\ o = a % BlockSize
    BY <2>1, BlockArithmetic, Zenon
  <2>2. ASSUME BlockOf(a) = b, o = a % BlockSize PROVE b * BlockSize + o = a
    BY <2>2, <1>1
  <2> QED  BY <2>1, <2>2
<1> DEFINE start == b * BlockSize
<1>3. BlockSize \in Nat /\ start \in Nat
  BY SizeFacts, SMT DEF Blocks
<1>6. CellsOf(b) = start .. start + BlockSize - 1
  BY DEF CellsOf
<1> HIDE DEF start
<1>4. ASSUME a \in CellsOf(b) PROVE BlockOf(a) = b
  <2>1. a - start \in Offsets /\ start + (a - start) = a
    BY <1>1, <1>3, <1>4, <1>6, SMT DEF Offsets
  <2> QED  BY <2>1, <1>2 DEF start
<1>5. ASSUME BlockOf(a) = b PROVE a \in CellsOf(b)
  <2> DEFINE i == a % BlockSize
  <2>1. a = start + i /\ i \in Offsets
    BY <1>1, <1>5, Zenon DEF start
  <2> HIDE DEF i
  <2> QED  BY <2>1, <1>1, <1>3, <1>6 DEF Offsets
<1> QED
  BY <1>2, <1>4, <1>5

\* A piece that does not cross a boundary lies in the block of its first cell;
\* one that does ends in EndBlock at the latest.
LEMMA PieceArithmetic ==
  ASSUME NEW a \in Addr, NEW n \in Nat \ {0}, NEW x \in Addr, x \in Range(a, n)
  PROVE  /\ BlockOf(x) \in BlockOf(a) .. EndBlock(a, n)
         /\ ~Crosses(a, n) => BlockOf(x) = BlockOf(a)
<1> DEFINE p == BlockOf(a)
           q == BlockOf(x)
           i == a % BlockSize
           j == x % BlockSize
           e == (i + n) \div BlockSize
<1>1. /\ a = p * BlockSize + i /\ x = q * BlockSize + j
      /\ p \in Nat /\ q \in Nat /\ i \in 0 .. BlockSize - 1 /\ j \in 0 .. BlockSize - 1
      /\ a <= x /\ x <= a + n - 1 /\ BlockSize \in Nat \ {0}
      /\ a \in Nat /\ x \in Nat
  <2>1. p \in Blocks /\ q \in Blocks /\ i \in Offsets /\ j \in Offsets /\ a \in Nat /\ x \in Nat
        /\ a = p * BlockSize + i /\ x = q * BlockSize + j
    BY CellArithmetic, Zenon
  <2> HIDE DEF p, q, i, j
  <2>2. p \in Nat /\ q \in Nat /\ i \in 0 .. BlockSize - 1 /\ j \in 0 .. BlockSize - 1
    BY <2>1 DEF Blocks, Offsets
  <2>3. a <= x /\ x <= a + n - 1
    BY <2>1 DEF Range
  <2> QED  BY <2>1, <2>2, <2>3, SizeFacts
<1>2. e \in Nat /\ i + n < (e + 1) * BlockSize /\ e * BlockSize <= i + n
  BY <1>1, SMT
<1>3. EndBlock(a, n) = p + e + 1
  BY DEF EndBlock
<1>4. Crosses(a, n) <=> i + n > BlockSize
  BY DEF Crosses
<1> HIDE DEF p, q, i, j, e
<1>5. p <= q
  <2> SUFFICES ASSUME q + 1 <= p PROVE FALSE
    BY <1>1
  <2>1. (q + 1) * BlockSize <= p * BlockSize /\ (q + 1) * BlockSize = q * BlockSize + BlockSize
    BY <1>1, SMT
  <2> QED  BY <2>1, <1>1, SMT
<1>6. q <= p + e
  <2> SUFFICES ASSUME p + e + 1 <= q PROVE FALSE
    BY <1>1, <1>2
  <2>1. (p + e + 1) * BlockSize <= q * BlockSize
        /\ (p + e + 1) * BlockSize = p * BlockSize + (e + 1) * BlockSize
    BY <1>1, <1>2, SMT
  <2> QED  BY <2>1, <1>1, <1>2, SMT
<1>7. i + n <= BlockSize => q = p
  <2> SUFFICES ASSUME i + n <= BlockSize, p + 1 <= q PROVE FALSE
    BY <1>1, <1>5
  <2>1. (p + 1) * BlockSize <= q * BlockSize /\ (p + 1) * BlockSize = p * BlockSize + BlockSize
    BY <1>1, SMT
  <2> QED  BY <2>1, <1>1, SMT
<1> QED
  BY <1>1, <1>2, <1>3, <1>4, <1>5, <1>6, <1>7 DEF p, q

-----------------------------------------------------------------------------
(* The functions of the file I/O, field by field.                          *)

\* The empty buffer is a buffer, clean and of no file.
LEMMA NoBufTyped ==
  /\ NoBuf \in Buffer /\ NoBuf.file = NoFile /\ ~NoBuf.dirty
  /\ \A f \in Files : \A a : ~InBuffer(NoBuf, f, a)
<1>1. 0 \in Blocks /\ 0 \in 0 .. BlockSize
  BY SizeFacts DEF Blocks
<1>2. [o \in Offsets |-> Fill] \in [Offsets -> Cell]
  BY DEF Cell
<1> QED
  BY <1>1, <1>2, BufferAssumption DEF NoBuf, Buffer, InBuffer, Holds

\* The parts of the type of io.
LEMMA IoFields ==
  ASSUME NEW s \in IoType
  PROVE  /\ s.disk \in [Files -> [Addr -> Cell]]
         /\ s.len \in [Files -> 0 .. NumBlocks * BlockSize]
         /\ s.rd \in Buffer /\ s.wr \in Buffer
         /\ s.wr.block \in Blocks /\ s.rd.block \in Blocks
         /\ s.wr.data \in [Offsets -> Cell] /\ s.rd.data \in [Offsets -> Cell]
         /\ s.wr.file \in Files \cup {NoFile} /\ s.rd.file \in Files \cup {NoFile}
         /\ s.wr.dirty \in BOOLEAN
BY DEF IoType, Buffer

\* Another buffer in place of one of the two.
LEMMA WithBuffer ==
  ASSUME NEW s \in IoType, NEW b \in Buffer
  PROVE  /\ [s EXCEPT !.rd = b] \in IoType /\ [s EXCEPT !.wr = b] \in IoType
         /\ [s EXCEPT !.rd = b].disk = s.disk /\ [s EXCEPT !.wr = b].disk = s.disk
         /\ [s EXCEPT !.rd = b].len = s.len /\ [s EXCEPT !.wr = b].len = s.len
         /\ [s EXCEPT !.rd = b].rd = b /\ [s EXCEPT !.wr = b].rd = s.rd
         /\ [s EXCEPT !.rd = b].wr = s.wr /\ [s EXCEPT !.wr = b].wr = b
BY DEF IoType

\* What a read of a block returns.
LEMMA CellsReadFacts ==
  ASSUME NEW s \in IoType, NEW f \in Files, NEW b \in Blocks
  PROVE  /\ CellsRead(s, f, b) \in 0 .. BlockSize
         /\ \A o \in Offsets : o < CellsRead(s, f, b) <=> b * BlockSize + o < s.len[f]
<1> DEFINE n == s.len[f]
           start == b * BlockSize
<1>1. n \in Nat
  <2> DEFINE end == NumBlocks * BlockSize
  <2>1. n \in 0 .. end /\ end \in Nat
    BY IoFields, SizeFacts
  <2> HIDE DEF n, end
  <2> QED  BY <2>1
<1>2. BlockSize \in Nat /\ BlockSize > 1 /\ start \in Nat
  BY SizeFacts, SMT DEF Blocks
<1>3. (b + 1) * BlockSize = start + BlockSize
  BY SizeFacts, SMT DEF Blocks
<1>4. CellsRead(s, f, b) = IF n >= start + BlockSize THEN BlockSize ELSE Maximum(0, n - start)
  BY <1>3 DEF CellsRead
<1>5. \A o \in Offsets : o \in Nat /\ o < BlockSize
  BY <1>2 DEF Offsets
<1> HIDE DEF n, start
<1>6. CellsRead(s, f, b) \in 0 .. BlockSize
  BY <1>1, <1>2, <1>4 DEF Maximum
<1>7. \A o \in Offsets : o < CellsRead(s, f, b) <=> start + o < n
  BY <1>1, <1>2, <1>4, <1>5 DEF Maximum
<1> QED
  BY <1>6, <1>7 DEF n, start

\* A block that is read has the cells of the disk up to the end of the file, and the old ones behind.
LEMMA ReadBlockFacts ==
  ASSUME NEW s \in IoType, NEW f \in Files, NEW b \in Blocks, NEW tail \in [Offsets -> Cell]
  PROVE  /\ ReadBlock(s, f, b, tail) \in [Offsets -> Cell]
         /\ \A o \in Offsets : ReadBlock(s, f, b, tail)[o] =
              IF o < CellsRead(s, f, b) THEN s.disk[f][b * BlockSize + o] ELSE tail[o]
<1>1. \A o \in Offsets : b * BlockSize + o \in Addr
  BY BlockArithmetic
<1>2. \A o \in Offsets : s.disk[f][b * BlockSize + o] \in Cell
  BY <1>1, IoFields
<1> QED
  BY <1>2 DEF ReadBlock

\* A cell of a block that was read is the cell of the disk, if it is in the file.
LEMMA ReadBlockCell ==
  ASSUME NEW s \in IoType, NEW f \in Files, NEW a \in Addr, NEW tail \in [Offsets -> Cell]
  PROVE  ReadBlock(s, f, BlockOf(a), tail)[a % BlockSize] =
           IF a < s.len[f] THEN s.disk[f][a] ELSE tail[a % BlockSize]
<1> DEFINE b == BlockOf(a)
           o == a % BlockSize
<1>1. b \in Blocks /\ o \in Offsets /\ b * BlockSize + o = a
  BY CellArithmetic
<1> HIDE DEF b, o
<1>2. o < CellsRead(s, f, b) <=> b * BlockSize + o < s.len[f]
  BY <1>1, CellsReadFacts
<1>3. ReadBlock(s, f, b, tail)[o] =
        IF o < CellsRead(s, f, b) THEN s.disk[f][b * BlockSize + o] ELSE tail[o]
  BY <1>1, ReadBlockFacts
<1>4. ReadBlock(s, f, b, tail)[o] = IF a < s.len[f] THEN s.disk[f][a] ELSE tail[o]
  BY <1>1, <1>2, <1>3
<1> QED
  BY <1>4 DEF b, o

\* A write to the disk changes the cells of its range and may make the file longer.
LEMMA WriteDiskFacts ==
  ASSUME NEW s \in IoType, NEW f \in Files, NEW a \in Nat, NEW n \in Nat,
         a + n <= NumBlocks * BlockSize, NEW content,
         \A x \in Addr : x \in Range(a, n) => content[x] \in Cell
  PROVE  LET t == WriteDisk(s, f, a, n, content)
         IN /\ t \in IoType /\ t.rd = s.rd /\ t.wr = s.wr
            /\ \A g \in Files : t.len[g] = IF g = f THEN Maximum(s.len[f], a + n) ELSE s.len[g]
            /\ \A g \in Files, x \in Addr : t.disk[g][x] =
                 IF g = f /\ x \in Range(a, n) THEN content[x] ELSE s.disk[g][x]
<1> DEFINE row == [x \in Addr |-> IF x \in Range(a, n) THEN content[x] ELSE s.disk[f][x]]
           long == Maximum(s.len[f], a + n)
           end == NumBlocks * BlockSize
           t == WriteDisk(s, f, a, n, content)
<1>1. row \in [Addr -> Cell]
  BY IoFields
<1>2. end \in Nat /\ s.len \in [Files -> 0 .. end] /\ a + n <= end
  BY SizeFacts, IoFields
<1>3. t = [s EXCEPT !.disk[f] = row, !.len[f] = long]
  BY DEF WriteDisk
<1> HIDE DEF end
<1>4. long \in 0 .. end
  BY <1>2 DEF Maximum
<1>5. t.disk = [s.disk EXCEPT ![f] = row] /\ t.len = [s.len EXCEPT ![f] = long]
      /\ t.rd = s.rd /\ t.wr = s.wr
      /\ t = [disk |-> t.disk, len |-> t.len, rd |-> t.rd, wr |-> t.wr]
  BY <1>3 DEF IoType
<1>6. \A x \in Addr : row[x] = IF x \in Range(a, n) THEN content[x] ELSE s.disk[f][x]
  OBVIOUS
<1> HIDE DEF row, long, t
<1>7. t.disk \in [Files -> [Addr -> Cell]] /\ t.len \in [Files -> 0 .. end]
  BY <1>1, <1>2, <1>4, <1>5, IoFields
<1>8. t \in IoType
  BY <1>5, <1>7, IoFields DEF IoType, end
<1>9. \A g \in Files : t.len[g] = IF g = f THEN long ELSE s.len[g]
  BY <1>5, <1>2
<1>10. \A g \in Files, x \in Addr : t.disk[g][x] =
         IF g = f /\ x \in Range(a, n) THEN content[x] ELSE s.disk[g][x]
  BY <1>5, <1>6, IoFields
<1> QED
  BY <1>5, <1>8, <1>9, <1>10 DEF t, long

\* Writing the buffer back puts its cells on the disk.
LEMMA WriteBackFacts ==
  ASSUME NEW s \in IoType, s.wr.file \in Files
  PROVE  LET t == WriteBack(s)
         IN /\ t \in IoType /\ t.rd = s.rd /\ t.wr = [s.wr EXCEPT !.dirty = FALSE]
            /\ \A g \in Files, x \in Addr : t.disk[g][x] =
                 IF InBuffer(s.wr, g, x) THEN s.wr.data[x % BlockSize] ELSE s.disk[g][x]
            /\ \A g \in Files, x \in Addr :
                 x >= t.len[g] => x >= s.len[g] /\ ~InBuffer(s.wr, g, x)
<1> DEFINE f == s.wr.file
           b == s.wr.block
           start == b * BlockSize
           end == NumBlocks * BlockSize
           content == [x \in CellsOf(b) |-> s.wr.data[x % BlockSize]]
           u == WriteDisk(s, f, start, BlockSize, content)
           t == WriteBack(s)
<1>1. f \in Files /\ b \in Blocks /\ s.wr \in Buffer /\ s.wr.data \in [Offsets -> Cell]
  BY IoFields
<1>2. 0 \in Offsets /\ BlockSize \in Nat
  BY SizeFacts DEF Offsets
<1>3. start \in Nat /\ start + BlockSize <= end
  BY <1>1, <1>2, BlockArithmetic
<1>4. CellsOf(b) = Range(start, BlockSize)
  BY DEF CellsOf, Range
<1>5. \A x \in Addr : /\ x \in Range(start, BlockSize) <=> BlockOf(x) = b
                      /\ x \in Range(start, BlockSize) =>
                           content[x] = s.wr.data[x % BlockSize] /\ content[x] \in Cell
  <2> TAKE x \in Addr
  <2>1. x \in Range(start, BlockSize) <=> BlockOf(x) = b
    BY <1>1, <1>4, CellsOfBlock
  <2>2. x \in Range(start, BlockSize) => content[x] = s.wr.data[x % BlockSize]
    BY <1>4
  <2>3. x % BlockSize \in Offsets
    BY CellArithmetic
  <2>4. s.wr.data[x % BlockSize] \in Cell
    BY <2>3, <1>1
  <2> QED  BY <2>1, <2>2, <2>4
<1>6. t = [u EXCEPT !.wr.dirty = FALSE]
  BY DEF WriteBack
<1> HIDE DEF content, start, end, t
<1>7. /\ u \in IoType /\ u.rd = s.rd /\ u.wr = s.wr
      /\ \A g \in Files : u.len[g] = IF g = f THEN Maximum(s.len[f], start + BlockSize) ELSE s.len[g]
      /\ \A g \in Files, x \in Addr : u.disk[g][x] =
           IF g = f /\ x \in Range(start, BlockSize) THEN content[x] ELSE s.disk[g][x]
  BY <1>1, <1>2, <1>3, <1>5, WriteDiskFacts DEF end
<1> HIDE DEF u
<1>8. [s.wr EXCEPT !.dirty = FALSE] \in Buffer
  BY <1>1 DEF Buffer
<1>9. t = [u EXCEPT !.wr = [s.wr EXCEPT !.dirty = FALSE]]
  BY <1>6, <1>7 DEF IoType
<1>10. /\ t \in IoType /\ t.rd = s.rd /\ t.wr = [s.wr EXCEPT !.dirty = FALSE]
       /\ t.disk = u.disk /\ t.len = u.len
  BY <1>7, <1>8, <1>9, WithBuffer
<1>11. \A g \in Files, x \in Addr : InBuffer(s.wr, g, x) <=> g = f /\ x \in Range(start, BlockSize)
  BY <1>5 DEF InBuffer, Holds
<1>12. \A g \in Files, x \in Addr : t.disk[g][x] =
         IF InBuffer(s.wr, g, x) THEN s.wr.data[x % BlockSize] ELSE s.disk[g][x]
  BY <1>5, <1>7, <1>10, <1>11
<1>13. ASSUME NEW g \in Files, NEW x \in Addr, x >= t.len[g]
       PROVE  x >= s.len[g] /\ ~InBuffer(s.wr, g, x)
  <2>1. x \in Nat /\ s.len[g] \in Nat
    <3>1. end \in Nat /\ s.len[g] \in 0 .. end
      BY SizeFacts, IoFields DEF end
    <3> QED  BY <3>1, CellArithmetic
  <2>2. t.len[g] = IF g = f THEN Maximum(s.len[g], start + BlockSize) ELSE s.len[g]
    BY <1>7, <1>10
  <2>3. x \in Range(start, BlockSize) => x < start + BlockSize
    BY <2>1, <1>2, <1>3 DEF Range
  <2> QED
    BY <1>2, <1>3, <1>11, <1>13, <2>1, <2>2, <2>3 DEF Maximum
<1> QED
  BY <1>10, <1>12, <1>13 DEF t

-----------------------------------------------------------------------------
(* What each function does to a cell that holds w.                         *)

\* NoWorse is a preorder.
LEMMA NoWorseRefl ==
  ASSUME NEW s, NEW f, NEW a, NEW w
  PROVE  NoWorse(s, s, f, a, w)
BY DEF NoWorse

\* NoWorse is a preorder.
LEMMA NoWorseTrans ==
  ASSUME NEW s, NEW t, NEW u, NEW f, NEW a, NEW w, NoWorse(s, t, f, a, w), NoWorse(t, u, f, a, w)
  PROVE  NoWorse(s, u, f, a, w)
BY DEF NoWorse

\* The dirty block goes to disk.
LEMMA WriteBackOK ==
  ASSUME NEW s, IoOK(s), s.wr.dirty
  PROVE  LET t == WriteBack(s)
         IN /\ IoOK(t) /\ ~t.wr.dirty /\ t.rd = s.rd
            /\ t.wr.file = s.wr.file /\ t.wr.block = s.wr.block
            /\ \A f \in Files, a \in Addr, w \in Values : NoWorse(s, t, f, a, w)
<1> DEFINE t == WriteBack(s)
<1>1. s \in IoType /\ s.wr.file \in Files
  BY DEF IoOK, DirtyHasFile
<1>2. /\ t \in IoType /\ t.rd = s.rd /\ t.wr = [s.wr EXCEPT !.dirty = FALSE]
      /\ \A g \in Files, x \in Addr : t.disk[g][x] =
           IF InBuffer(s.wr, g, x) THEN s.wr.data[x % BlockSize] ELSE s.disk[g][x]
      /\ \A g \in Files, x \in Addr :
           x >= t.len[g] => x >= s.len[g] /\ ~InBuffer(s.wr, g, x)
  BY <1>1, WriteBackFacts
<1> HIDE DEF t
<1>3. ~t.wr.dirty /\ t.wr.file = s.wr.file /\ t.wr.block = s.wr.block /\ t.wr.data = s.wr.data
  BY <1>1, <1>2, IoFields DEF Buffer
<1>4. IoOK(t)
  BY <1>2, <1>3 DEF IoOK, NothingBehind, DirtyHasFile
<1>5. ASSUME NEW f \in Files, NEW a \in Addr, NEW w \in Values
      PROVE  NoWorse(s, t, f, a, w)
  <2> DEFINE o == a % BlockSize
  <2>1. InBuffer(t.wr, f, a) <=> InBuffer(s.wr, f, a)
    BY <1>3 DEF InBuffer, Holds
  <2>2. t.disk[f][a] = IF InBuffer(s.wr, f, a) THEN s.wr.data[o] ELSE s.disk[f][a]
    BY <1>2
  <2> HIDE DEF o
  <2> QED
    BY <1>2, <1>3, <2>1, <2>2 DEF NoWorse, Fine, OnDisk, Gone, o
<1> QED
  BY <1>2, <1>3, <1>4, <1>5 DEF t

\* A clean write buffer, or the read buffer, is given up.
LEMMA GiveUpOK ==
  ASSUME NEW s, IoOK(s)
  PROVE  /\ IoOK([s EXCEPT !.rd = NoBuf])
         /\ \A f \in Files, a \in Addr, w \in Values : NoWorse(s, [s EXCEPT !.rd = NoBuf], f, a, w)
         /\ ~s.wr.dirty =>
              /\ IoOK([s EXCEPT !.wr = NoBuf])
              /\ \A f \in Files, a \in Addr, w \in Values :
                   NoWorse(s, [s EXCEPT !.wr = NoBuf], f, a, w)
<1> DEFINE r == [s EXCEPT !.rd = NoBuf]
           t == [s EXCEPT !.wr = NoBuf]
<1>1. /\ r \in IoType /\ r.disk = s.disk /\ r.len = s.len /\ r.wr = s.wr /\ r.rd = NoBuf
      /\ t \in IoType /\ t.disk = s.disk /\ t.len = s.len /\ t.rd = s.rd /\ t.wr = NoBuf
  BY WithBuffer, NoBufTyped DEF IoOK
<1> HIDE DEF r, t
<1>2. IoOK(r) /\ IoOK(t)
  BY <1>1, NoBufTyped DEF IoOK, NothingBehind, DirtyHasFile
<1>3. \A f \in Files, a \in Addr, w \in Values : NoWorse(s, r, f, a, w)
  BY <1>1, NoBufTyped DEF NoWorse, Fine, OnDisk, Gone
<1>4. ~s.wr.dirty => \A f \in Files, a \in Addr, w \in Values : NoWorse(s, t, f, a, w)
  BY <1>1, NoBufTyped DEF NoWorse, Fine, OnDisk, Gone
<1> QED
  BY <1>2, <1>3, <1>4 DEF r, t

\* After the reset the read buffer has no cell of what is being written.
LEMMA ResetReadOK ==
  ASSUME NEW s, IoOK(s), NEW f \in Files, NEW a, NEW n
  PROVE  LET t == ResetRead(s, f, a, n)
         IN /\ IoOK(t) /\ t.wr = s.wr /\ ~Overlaps(t.rd, f, a, n)
            /\ \A g \in Files, x \in Addr, w \in Values : NoWorse(s, t, g, x, w)
<1>1. CASE Overlaps(s.rd, f, a, n)
  <2> DEFINE t == [s EXCEPT !.rd = NoBuf]
  <2>1. t.rd = NoBuf /\ t.wr = s.wr
    BY WithBuffer, NoBufTyped DEF IoOK
  <2>2. ~Overlaps(NoBuf, f, a, n)
    BY NoBufTyped, BufferAssumption DEF Overlaps
  <2> QED
    BY <1>1, <2>1, <2>2, GiveUpOK DEF ResetRead
<1>2. CASE ~Overlaps(s.rd, f, a, n)
  BY <1>2, NoWorseRefl DEF ResetRead
<1> QED
  BY <1>1, <1>2

\* The flush before a write leaves no dirty cell of another block.
LEMMA FlushForWriteOK ==
  ASSUME NEW s, IoOK(s), NEW f \in Files, NEW a, NEW n
  PROVE  LET t == FlushForWrite(s, f, a, n)
         IN /\ IoOK(t) /\ t.rd = s.rd
            /\ NeedsFlush(s, f, a, n) => ~t.wr.dirty /\ ~Overlaps(t.wr, f, a, n)
            /\ ~NeedsFlush(s, f, a, n) => t = s
            /\ \A g \in Files, x \in Addr, w \in Values : NoWorse(s, t, g, x, w)
<1> DEFINE u == WriteBack(s)
           v == [u EXCEPT !.wr = NoBuf]
<1>1. CASE ~NeedsFlush(s, f, a, n)
  BY <1>1, NoWorseRefl DEF FlushForWrite
<1>2. CASE NeedsFlush(s, f, a, n)
  <2>1. s.wr.dirty
    BY <1>2 DEF NeedsFlush
  <2>2. /\ IoOK(u) /\ ~u.wr.dirty /\ u.rd = s.rd
        /\ u.wr.file = s.wr.file /\ u.wr.block = s.wr.block
        /\ \A g \in Files, x \in Addr, w \in Values : NoWorse(s, u, g, x, w)
    BY <2>1, WriteBackOK
  <2> HIDE DEF u
  <2>3. /\ IoOK(v) /\ v.rd = u.rd /\ v.wr = NoBuf
        /\ \A g \in Files, x \in Addr, w \in Values : NoWorse(u, v, g, x, w)
    BY <2>2, GiveUpOK, WithBuffer, NoBufTyped DEF IoOK
  <2> HIDE DEF v
  <2>4. \A g \in Files, x \in Addr, w \in Values : NoWorse(s, v, g, x, w)
    BY <2>2, <2>3, NoWorseTrans
  <2>5. ~Overlaps(NoBuf, f, a, n) /\ ~NoBuf.dirty
    BY NoBufTyped, BufferAssumption DEF Overlaps
  <2>6. CASE Overlaps(s.wr, f, a, n)
    <3>1. FlushForWrite(s, f, a, n) = v
      BY <1>2, <2>6 DEF FlushForWrite, v, u
    <3> QED  BY <1>2, <2>2, <2>3, <2>4, <2>5, <3>1
  <2>7. CASE ~Overlaps(s.wr, f, a, n)
    <3>1. FlushForWrite(s, f, a, n) = u
      BY <1>2, <2>7 DEF FlushForWrite, u
    <3>2. ~Overlaps(u.wr, f, a, n)
      BY <2>2, <2>7 DEF Overlaps
    <3> QED  BY <1>2, <2>2, <3>1, <3>2
  <2> QED
    BY <2>6, <2>7
<1> QED
  BY <1>1, <1>2

\* A clean buffer is filled from the disk, which has what was written.
LEMMA LoadWriteOK ==
  ASSUME NEW s, IoOK(s), NEW f \in Files, NEW b \in Blocks, Holds(s.wr, f, b) \/ ~s.wr.dirty
  PROVE  LET t == LoadWrite(s, f, b)
         IN /\ IoOK(t) /\ t.rd = s.rd /\ Holds(t.wr, f, b)
            /\ \A g \in Files, x \in Addr, w \in Values : NoWorse(s, t, g, x, w)
<1>1. CASE Holds(s.wr, f, b)
  BY <1>1, NoWorseRefl DEF LoadWrite
<1>2. CASE ~Holds(s.wr, f, b)
  <2> DEFINE tail == [o \in Offsets |-> Fill]
             block == ReadBlock(s, f, b, tail)
             buf == [file |-> f, block |-> b, num |-> BlockSize, dirty |-> FALSE, data |-> block]
             t == [s EXCEPT !.wr = buf]
  <2>1. s \in IoType /\ ~s.wr.dirty
    BY <1>2 DEF IoOK
  <2>2. tail \in [Offsets -> Cell]
    BY DEF Cell
  <2>3. block \in [Offsets -> Cell]
    BY <2>1, <2>2, ReadBlockFacts
  <2>4. \A x \in Addr : BlockOf(x) = b =>
          block[x % BlockSize] = IF x < s.len[f] THEN s.disk[f][x] ELSE Fill
    <3> TAKE x \in Addr
    <3> HAVE BlockOf(x) = b
    <3>1. block[x % BlockSize] = IF x < s.len[f] THEN s.disk[f][x] ELSE tail[x % BlockSize]
      BY <2>1, <2>2, ReadBlockCell
    <3>2. x % BlockSize \in Offsets
      BY CellArithmetic
    <3> HIDE DEF block
    <3> QED  BY <3>1, <3>2
  <2> HIDE DEF block, tail
  <2>5. buf \in Buffer
    BY <2>3, SizeFacts DEF Buffer
  <2>6. buf.file = f /\ buf.block = b /\ ~buf.dirty /\ buf.data = block
    OBVIOUS
  <2> HIDE DEF buf
  <2>7. t \in IoType /\ t.disk = s.disk /\ t.len = s.len /\ t.rd = s.rd /\ t.wr = buf
    BY <2>1, <2>5, WithBuffer
  <2>8. LoadWrite(s, f, b) = t
    BY <1>2 DEF LoadWrite, buf, block, tail
  <2> HIDE DEF t
  <2>9. IoOK(t) /\ Holds(t.wr, f, b)
    BY <2>6, <2>7 DEF IoOK, NothingBehind, DirtyHasFile, Holds
  <2>10. ASSUME NEW g \in Files, NEW x \in Addr, NEW w \in Values
         PROVE  NoWorse(s, t, g, x, w)
    <3>1. w # Fill
      BY BufferAssumption
    <3>2. x \in Nat /\ s.len[g] \in Nat
      <4> DEFINE end == NumBlocks * BlockSize
      <4>1. s.len[g] \in 0 .. end /\ end \in Nat
        BY <2>1, SizeFacts, IoFields
      <4> HIDE DEF end
      <4> QED  BY <4>1, CellArithmetic
    <3>3. ~(x < s.len[g]) => s.disk[g][x] = Fill
      BY <3>2 DEF IoOK, NothingBehind
    <3>4. InBuffer(t.wr, g, x) => g = f /\ BlockOf(x) = b
      BY <2>6, <2>7 DEF InBuffer, Holds
    <3>5. InBuffer(t.wr, g, x) => (t.wr.data[x % BlockSize] = w <=> s.disk[g][x] = w)
      BY <2>4, <2>6, <2>7, <3>1, <3>3, <3>4
    <3> QED
      BY <2>1, <2>7, <3>5 DEF NoWorse, Fine, OnDisk, Gone
  <2> QED
    BY <2>7, <2>8, <2>9, <2>10
<1> QED
  BY <1>1, <1>2

\* The piece goes to the buffer of its block.
LEMMA IntoBufferOK ==
  ASSUME NEW s, IoOK(s), NEW f \in Files, NEW b \in Blocks, Holds(s.wr, f, b),
         NEW a, NEW n, NEW v \in Values
  PROVE  LET t == IntoBuffer(s, a, n, v)
         IN /\ IoOK(t) /\ t.rd = s.rd /\ t.wr.dirty /\ Holds(t.wr, f, b)
            /\ \A g \in Files, x \in Addr, w \in Values :
                 ~(g = f /\ x \in Range(a, n)) => NoWorse(s, t, g, x, w)
            /\ \A x \in Addr : x \in Range(a, n) /\ BlockOf(x) = b /\ ~InBuffer(s.rd, f, x) =>
                 Fine(t, f, x, v)
<1> DEFINE data == [o \in Offsets |-> IF b * BlockSize + o \in Range(a, n) THEN v
                                      ELSE s.wr.data[o]]
           buf == [s.wr EXCEPT !.dirty = TRUE, !.data = data]
           t == [s EXCEPT !.wr = buf]
<1>1. s \in IoType /\ s.wr \in Buffer /\ s.wr.file = f /\ s.wr.block = b
      /\ s.wr.data \in [Offsets -> Cell]
  BY IoFields DEF IoOK, Holds
<1>2. data \in [Offsets -> Cell]
  BY <1>1 DEF Cell
<1>3. \A x \in Addr : BlockOf(x) = b =>
        data[x % BlockSize] = IF x \in Range(a, n) THEN v ELSE s.wr.data[x % BlockSize]
  <2> TAKE x \in Addr
  <2> HAVE BlockOf(x) = b
  <2> DEFINE o == x % BlockSize
  <2>1. o \in Offsets /\ b * BlockSize + o = x
    BY CellArithmetic
  <2> HIDE DEF o
  <2>2. data[o] = IF x \in Range(a, n) THEN v ELSE s.wr.data[o]
    BY <2>1
  <2> QED  BY <2>2 DEF o
<1> HIDE DEF data
<1>4. buf \in Buffer /\ buf.dirty /\ buf.file = f /\ buf.block = b /\ buf.data = data
  BY <1>1, <1>2 DEF Buffer
<1>5. IntoBuffer(s, a, n, v) = t
  BY <1>1 DEF IntoBuffer, data, IoType, Buffer
<1> HIDE DEF buf
<1>6. t \in IoType /\ t.disk = s.disk /\ t.len = s.len /\ t.rd = s.rd /\ t.wr = buf
  BY <1>1, <1>4, WithBuffer
<1> HIDE DEF t
<1>7. IoOK(t) /\ Holds(t.wr, f, b) /\ t.wr.dirty
  BY <1>4, <1>6 DEF IoOK, NothingBehind, DirtyHasFile, Holds
<1>8. \A g \in Files, x \in Addr : InBuffer(t.wr, g, x) <=> g = f /\ BlockOf(x) = b
  BY <1>4, <1>6 DEF InBuffer, Holds
<1>9. \A g \in Files, x \in Addr : InBuffer(s.wr, g, x) <=> g = f /\ BlockOf(x) = b
  BY <1>1 DEF InBuffer, Holds
<1>10. ASSUME NEW g \in Files, NEW x \in Addr, NEW w \in Values, ~(g = f /\ x \in Range(a, n))
       PROVE  NoWorse(s, t, g, x, w)
  <2>1. InBuffer(t.wr, g, x) => t.wr.data[x % BlockSize] = s.wr.data[x % BlockSize]
    BY <1>3, <1>4, <1>6, <1>8, <1>10
  <2> QED
    BY <1>6, <1>7, <1>8, <1>9, <2>1 DEF NoWorse, Fine, OnDisk, Gone
<1>11. ASSUME NEW x \in Addr, x \in Range(a, n), BlockOf(x) = b, ~InBuffer(s.rd, f, x)
       PROVE  Fine(t, f, x, v)
  <2>1. t.wr.data[x % BlockSize] = v
    BY <1>3, <1>4, <1>6, <1>11
  <2> QED
    BY <1>6, <1>7, <1>8, <1>11, <2>1 DEF Fine
<1> QED
  BY <1>5, <1>6, <1>7, <1>10, <1>11

\* Cells that a crossing write puts behind a clean write buffer.
Bypasses(s, f, a, n, x) == Crosses(a, n) /\ ~s.wr.dirty /\ InBuffer(s.wr, f, x)

\* A piece that crosses a boundary goes to the disk, or its first k cells do.
LEMMA CrossingWriteOK ==
  ASSUME NEW s, IoOK(s), NEW f \in Files, NEW a \in Addr, NEW n \in Nat \ {0},
         a + n <= NumBlocks * BlockSize, NEW v \in Values, Crosses(a, n),
         NEW k \in Nat, k <= n
  PROVE  LET u == FlushForWrite(ResetRead(s, f, a, n), f, a, n)
             t == WriteDisk(u, f, a, k, [x \in Range(a, k) |-> v])
         IN /\ IoOK(t) /\ t.wr = u.wr /\ t.rd = u.rd
            /\ \A g \in Files, x \in Addr, w \in Values :
                 ~(g = f /\ x \in Range(a, k)) => NoWorse(s, t, g, x, w)
            /\ \A x \in Addr : x \in Range(a, k) /\ ~Bypasses(s, f, a, n, x) => Fine(t, f, x, v)
<1> DEFINE r == ResetRead(s, f, a, n)
           u == FlushForWrite(r, f, a, n)
           content == [x \in Range(a, k) |-> v]
           t == WriteDisk(u, f, a, k, content)
           end == NumBlocks * BlockSize
<1>1. /\ IoOK(r) /\ r.wr = s.wr /\ ~Overlaps(r.rd, f, a, n)
      /\ \A g \in Files, x \in Addr, w \in Values : NoWorse(s, r, g, x, w)
  BY ResetReadOK
<1> HIDE DEF r
<1>2. /\ IoOK(u) /\ u.rd = r.rd
      /\ NeedsFlush(r, f, a, n) => ~u.wr.dirty /\ ~Overlaps(u.wr, f, a, n)
      /\ ~NeedsFlush(r, f, a, n) => u = r
      /\ \A g \in Files, x \in Addr, w \in Values : NoWorse(r, u, g, x, w)
  BY <1>1, FlushForWriteOK
<1> HIDE DEF u
<1>3. NeedsFlush(r, f, a, n) <=> s.wr.dirty
  BY <1>1 DEF NeedsFlush
<1>4. a \in Nat /\ end \in Nat
  BY CellArithmetic, SizeFacts
<1>5. a + n <= end
  OBVIOUS
<1> HIDE DEF end
<1>6. a + k <= end
  BY <1>4, <1>5
<1>7. \A x \in Addr : x \in Range(a, k) => content[x] = v /\ content[x] \in Cell
  BY DEF Cell
<1> HIDE DEF content
<1>8. /\ t \in IoType /\ t.rd = u.rd /\ t.wr = u.wr
      /\ \A g \in Files : t.len[g] = IF g = f THEN Maximum(u.len[f], a + k) ELSE u.len[g]
      /\ \A g \in Files, x \in Addr : t.disk[g][x] =
           IF g = f /\ x \in Range(a, k) THEN content[x] ELSE u.disk[g][x]
  BY <1>2, <1>4, <1>6, <1>7, WriteDiskFacts DEF IoOK, end
<1> HIDE DEF t
<1>9. ASSUME NEW g \in Files, NEW x \in Addr, x >= t.len[g]
      PROVE  t.disk[g][x] = Fill
  <2>1. x \in Nat /\ u.len[g] \in Nat
    <3>1. u.len[g] \in 0 .. end
      BY <1>2, IoFields DEF IoOK, end
    <3> QED  BY <3>1, <1>4, CellArithmetic
  <2>2. x >= u.len[g] /\ ~(g = f /\ x \in Range(a, k))
    BY <1>4, <1>8, <1>9, <2>1 DEF Maximum, Range
  <2> QED
    BY <1>2, <1>8, <2>2 DEF IoOK, NothingBehind
<1>10. IoOK(t)
  BY <1>2, <1>8, <1>9 DEF IoOK, NothingBehind, DirtyHasFile
<1>11. ASSUME NEW g \in Files, NEW x \in Addr, NEW w \in Values, ~(g = f /\ x \in Range(a, k))
       PROVE  NoWorse(s, t, g, x, w)
  <2>1. t.disk[g][x] = u.disk[g][x]
    BY <1>8, <1>11
  <2>2. NoWorse(u, t, g, x, w)
    BY <1>8, <2>1 DEF NoWorse, Fine, OnDisk, Gone
  <2>3. NoWorse(s, u, g, x, w)
    BY <1>1, <1>2, NoWorseTrans
  <2> QED
    BY <2>2, <2>3, NoWorseTrans
<1>12. ASSUME NEW x \in Addr, x \in Range(a, k), ~Bypasses(s, f, a, n, x)
       PROVE  Fine(t, f, x, v)
  <2>1. x \in Range(a, n)
    BY <1>4, <1>12 DEF Range
  <2>2. BlockOf(x) \in BlockOf(a) .. EndBlock(a, n)
    BY <2>1, PieceArithmetic
  <2>3. t.disk[f][x] = v
    BY <1>7, <1>8, <1>12
  <2>4. ~InBuffer(t.rd, f, x)
    BY <1>1, <1>2, <1>8, <2>2 DEF InBuffer, Holds, Overlaps
  <2>5. ~InBuffer(t.wr, f, x)
    <3>1. CASE s.wr.dirty
      BY <3>1, <1>2, <1>3, <1>8, <2>2 DEF InBuffer, Holds, Overlaps
    <3>2. CASE ~s.wr.dirty
      BY <3>2, <1>1, <1>2, <1>3, <1>8, <1>12 DEF Bypasses
    <3> QED  BY <3>1, <3>2
  <2> QED
    BY <2>3, <2>4, <2>5 DEF Fine
<1> QED
  BY <1>8, <1>10, <1>11, <1>12 DEF t, u, r, content

\* A piece that lies in one block goes to the write buffer.
LEMMA SmallWriteOK ==
  ASSUME NEW s, IoOK(s), NEW f \in Files, NEW a \in Addr, NEW n \in Nat \ {0},
         NEW v \in Values, ~Crosses(a, n)
  PROVE  LET t == WriteFile(s, f, a, n, v)
         IN /\ IoOK(t) /\ t.wr.dirty /\ Holds(t.wr, f, BlockOf(a))
            /\ t.rd = ResetRead(s, f, a, n).rd
            /\ \A g \in Files, x \in Addr, w \in Values :
                 ~(g = f /\ x \in Range(a, n)) => NoWorse(s, t, g, x, w)
            /\ \A x \in Addr : x \in Range(a, n) => Fine(t, f, x, v)
<1> DEFINE b == BlockOf(a)
           r == ResetRead(s, f, a, n)
           u == FlushForWrite(r, f, a, n)
           l == LoadWrite(u, f, b)
           t == IntoBuffer(l, a, n, v)
<1>1. /\ IoOK(r) /\ r.wr = s.wr /\ ~Overlaps(r.rd, f, a, n)
      /\ \A g \in Files, x \in Addr, w \in Values : NoWorse(s, r, g, x, w)
  BY ResetReadOK
<1>2. WriteFile(s, f, a, n, v) = t
  BY DEF WriteFile
<1> HIDE DEF r
<1>3. /\ IoOK(u) /\ u.rd = r.rd
      /\ NeedsFlush(r, f, a, n) => ~u.wr.dirty /\ ~Overlaps(u.wr, f, a, n)
      /\ ~NeedsFlush(r, f, a, n) => u = r
      /\ \A g \in Files, x \in Addr, w \in Values : NoWorse(r, u, g, x, w)
  BY <1>1, FlushForWriteOK
<1> HIDE DEF u
<1>4. b \in Blocks
  BY CellArithmetic
<1>5. Holds(u.wr, f, b) \/ ~u.wr.dirty
  BY <1>3 DEF NeedsFlush
<1> HIDE DEF b
<1>6. /\ IoOK(l) /\ l.rd = u.rd /\ Holds(l.wr, f, b)
      /\ \A g \in Files, x \in Addr, w \in Values : NoWorse(u, l, g, x, w)
  BY <1>3, <1>4, <1>5, LoadWriteOK
<1> HIDE DEF l
<1>7. /\ IoOK(t) /\ t.rd = l.rd /\ t.wr.dirty /\ Holds(t.wr, f, b)
      /\ \A g \in Files, x \in Addr, w \in Values :
           ~(g = f /\ x \in Range(a, n)) => NoWorse(l, t, g, x, w)
      /\ \A x \in Addr : x \in Range(a, n) /\ BlockOf(x) = b /\ ~InBuffer(l.rd, f, x) =>
           Fine(t, f, x, v)
  BY <1>4, <1>6, IntoBufferOK
<1> HIDE DEF t
<1>8. ASSUME NEW g \in Files, NEW x \in Addr, NEW w \in Values, ~(g = f /\ x \in Range(a, n))
      PROVE  NoWorse(s, t, g, x, w)
  <2>1. NoWorse(s, u, g, x, w)
    BY <1>1, <1>3, NoWorseTrans
  <2>2. NoWorse(u, t, g, x, w)
    BY <1>6, <1>7, <1>8, NoWorseTrans
  <2> QED  BY <2>1, <2>2, NoWorseTrans
<1>9. ASSUME NEW x \in Addr, x \in Range(a, n)
      PROVE  Fine(t, f, x, v)
  <2>1. BlockOf(x) = b /\ BlockOf(x) \in BlockOf(a) .. EndBlock(a, n)
    BY <1>9, PieceArithmetic DEF b
  <2>2. ~InBuffer(l.rd, f, x)
    BY <1>1, <1>3, <1>6, <2>1 DEF InBuffer, Holds, Overlaps
  <2> QED  BY <1>7, <1>9, <2>1, <2>2
<1> QED
  BY <1>2, <1>3, <1>6, <1>7, <1>8, <1>9 DEF b, r

\* ADFI_write_file leaves every other cell as good as it was.
LEMMA WriteFileOK ==
  ASSUME NEW s, IoOK(s), NEW f \in Files, NEW a \in Addr, NEW n \in Nat \ {0},
         a + n <= NumBlocks * BlockSize, NEW v \in Values
  PROVE  LET t == WriteFile(s, f, a, n, v)
         IN /\ IoOK(t)
            /\ \A g \in Files, x \in Addr, w \in Values :
                 ~(g = f /\ x \in Range(a, n)) => NoWorse(s, t, g, x, w)
            /\ \A x \in Addr : x \in Range(a, n) /\ ~Bypasses(s, f, a, n, x) => Fine(t, f, x, v)
<1>1. CASE Crosses(a, n)
  <2> DEFINE u == FlushForWrite(ResetRead(s, f, a, n), f, a, n)
             t == WriteDisk(u, f, a, n, [x \in Range(a, n) |-> v])
  <2>1. WriteFile(s, f, a, n, v) = t
    BY <1>1 DEF WriteFile
  <2>2. /\ IoOK(t)
        /\ \A g \in Files, x \in Addr, w \in Values :
             ~(g = f /\ x \in Range(a, n)) => NoWorse(s, t, g, x, w)
        /\ \A x \in Addr : x \in Range(a, n) /\ ~Bypasses(s, f, a, n, x) => Fine(t, f, x, v)
    BY <1>1, CrossingWriteOK
  <2> QED  BY <2>1, <2>2
<1>2. CASE ~Crosses(a, n)
  BY <1>2, SmallWriteOK
<1> QED
  BY <1>1, <1>2

\* ADFI_read_file fills the read buffer with what the disk or the write buffer has.
LEMMA FillReadOK ==
  ASSUME NEW s, IoOK(s), NEW f \in Files, NEW b \in Blocks
  PROVE  LET t == FillRead(s, f, b)
         IN /\ IoOK(t) /\ t.wr = s.wr /\ t.rd.file = f /\ t.disk = s.disk
            /\ \A g \in Files, x \in Addr, w \in Values : NoWorse(s, t, g, x, w)
<1>1. CASE ReadHit(s, f, b)
  BY <1>1, NoWorseRefl DEF FillRead, ReadHit, Holds
<1>2. CASE ~ReadHit(s, f, b)
  <2> DEFINE block == ReadBlock(s, f, b, s.rd.data)
             data == IF Holds(s.wr, f, b) THEN s.wr.data ELSE block
             num == IF Holds(s.wr, f, b) THEN BlockSize ELSE CellsRead(s, f, b)
             buf == [file |-> f, block |-> b, dirty |-> FALSE, num |-> num, data |-> data]
             t == [s EXCEPT !.rd = buf]
  <2>1. s \in IoType /\ s.rd.data \in [Offsets -> Cell] /\ s.wr.data \in [Offsets -> Cell]
    BY IoFields DEF IoOK
  <2>2. block \in [Offsets -> Cell] /\ CellsRead(s, f, b) \in 0 .. BlockSize
    BY <2>1, ReadBlockFacts, CellsReadFacts
  <2>3. ASSUME NEW x \in Addr, BlockOf(x) = b, CellsRead(s, f, b) = BlockSize
        PROVE  block[x % BlockSize] = s.disk[f][x]
    <3> DEFINE o == x % BlockSize
    <3>1. block[o] = IF x < s.len[f] THEN s.disk[f][x] ELSE s.rd.data[o]
      BY <2>1, <2>3, ReadBlockCell
    <3>2. o \in Offsets /\ b * BlockSize + o = x
      BY <2>3, CellArithmetic
    <3>3. o < BlockSize
      BY <3>2, SizeFacts DEF Offsets
    <3> HIDE DEF o, block
    <3>4. x < s.len[f]
      BY <2>1, <2>3, <3>2, <3>3, CellsReadFacts
    <3> QED  BY <3>1, <3>4 DEF o
  <2> HIDE DEF block
  <2>4. data \in [Offsets -> Cell] /\ num \in 0 .. BlockSize
    BY <2>1, <2>2, SizeFacts
  <2>5. ASSUME NEW x \in Addr, BlockOf(x) = b, num = BlockSize
        PROVE  data[x % BlockSize] = IF Holds(s.wr, f, b) THEN s.wr.data[x % BlockSize]
                                     ELSE s.disk[f][x]
    BY <2>3, <2>5
  <2>6. FillRead(s, f, b) = t
    BY <1>2 DEF FillRead, block
  <2> HIDE DEF data, num
  <2>7. buf \in Buffer /\ buf.file = f /\ buf.block = b /\ buf.num = num /\ buf.data = data
    BY <2>4 DEF Buffer
  <2> HIDE DEF buf
  <2>8. t \in IoType /\ t.disk = s.disk /\ t.len = s.len /\ t.wr = s.wr /\ t.rd = buf
    BY <2>1, <2>7, WithBuffer
  <2> HIDE DEF t
  <2>9. IoOK(t)
    BY <2>8 DEF IoOK, NothingBehind, DirtyHasFile
  <2>10. ASSUME NEW g \in Files, NEW x \in Addr, NEW w \in Values
         PROVE  NoWorse(s, t, g, x, w)
    <3>1. InBuffer(t.rd, g, x) <=> g = f /\ BlockOf(x) = b
      BY <2>7, <2>8 DEF InBuffer, Holds
    <3>2. InBuffer(t.rd, g, x) => (InBuffer(s.wr, g, x) <=> Holds(s.wr, f, b))
      BY <3>1 DEF InBuffer
    <3>3. InBuffer(t.rd, g, x) /\ t.rd.num = BlockSize =>
            t.rd.data[x % BlockSize] = IF InBuffer(s.wr, g, x) THEN s.wr.data[x % BlockSize]
                                       ELSE s.disk[g][x]
      BY <2>5, <2>7, <2>8, <3>1, <3>2
    <3> QED
      BY <2>8, <3>3 DEF NoWorse, Fine, OnDisk, Gone
  <2> QED
    BY <2>6, <2>7, <2>8, <2>9, <2>10
<1> QED
  BY <1>1, <1>2

\* The dirty block could not be written and is clean all the same: what only the
\* buffer had is gone.
LEMMA DropDirtyOK ==
  ASSUME NEW s, IoOK(s)
  PROVE  LET t == [s EXCEPT !.wr.dirty = FALSE]
         IN /\ IoOK(t) /\ t.rd = s.rd /\ t.disk = s.disk /\ ~t.wr.dirty
            /\ t.wr.file = s.wr.file /\ t.wr.block = s.wr.block
            /\ \A g \in Files, x \in Addr, w \in Values :
                 /\ Fine(s, g, x, w) => OnDisk(t, g, x, w) \/ (Gone(t, g, x, w) /\ InBuffer(s.wr, g, x))
                 /\ Gone(s, g, x, w) => Gone(t, g, x, w)
<1> DEFINE buf == [s.wr EXCEPT !.dirty = FALSE]
           t == [s EXCEPT !.wr = buf]
<1>1. s \in IoType /\ s.wr \in Buffer
  BY IoFields DEF IoOK
<1>2. buf \in Buffer /\ ~buf.dirty /\ buf.file = s.wr.file /\ buf.block = s.wr.block
      /\ buf.data = s.wr.data
  BY <1>1 DEF Buffer
<1>3. [s EXCEPT !.wr.dirty = FALSE] = t
  BY <1>1 DEF IoType
<1> HIDE DEF buf
<1>4. t \in IoType /\ t.disk = s.disk /\ t.len = s.len /\ t.rd = s.rd /\ t.wr = buf
  BY <1>1, <1>2, WithBuffer
<1> HIDE DEF t
<1>5. IoOK(t)
  BY <1>2, <1>4 DEF IoOK, NothingBehind, DirtyHasFile
<1>6. ASSUME NEW g \in Files, NEW x \in Addr, NEW w \in Values
      PROVE  /\ Fine(s, g, x, w) => OnDisk(t, g, x, w) \/ (Gone(t, g, x, w) /\ InBuffer(s.wr, g, x))
             /\ Gone(s, g, x, w) => Gone(t, g, x, w)
  <2>1. InBuffer(t.wr, g, x) <=> InBuffer(s.wr, g, x)
    BY <1>2, <1>4 DEF InBuffer, Holds
  <2> QED
    BY <1>2, <1>4, <2>1 DEF Fine, OnDisk, Gone
<1> QED
  BY <1>2, <1>3, <1>4, <1>5, <1>6

\* ADFI_flush_buffers with FLUSH: nothing of file f is only in the buffer.
LEMMA FlushBuffersOK ==
  ASSUME NEW s, IoOK(s), NEW f
  PROVE  LET t == FlushBuffers(s, f)
         IN /\ IoOK(t) /\ t.rd = s.rd /\ t.wr.file = s.wr.file
            /\ ~(t.wr.file = f /\ t.wr.dirty)
            /\ \A g \in Files, x \in Addr, w \in Values : NoWorse(s, t, g, x, w)
<1>1. CASE s.wr.file = f /\ s.wr.dirty
  BY <1>1, WriteBackOK DEF FlushBuffers
<1>2. CASE ~(s.wr.file = f /\ s.wr.dirty)
  BY <1>2, NoWorseRefl DEF FlushBuffers
<1> QED
  BY <1>1, <1>2

\* ADFI_flush_buffers with FLUSH_CLOSE: and no buffer has a block of it.
LEMMA FlushCloseOK ==
  ASSUME NEW s, IoOK(s), NEW f \in Files
  PROVE  LET t == FlushClose(s, f)
         IN /\ IoOK(t)
            /\ t.rd.file # f /\ t.rd.file \in {s.rd.file, NoFile}
            /\ t.wr.file # f /\ t.wr.file \in {s.wr.file, NoFile}
            /\ \A g \in Files, x \in Addr, w \in Values : NoWorse(s, t, g, x, w)
<1> DEFINE u == FlushBuffers(s, f)
           v == IF u.wr.file = f THEN [u EXCEPT !.wr = NoBuf] ELSE u
           t == IF v.rd.file = f THEN [v EXCEPT !.rd = NoBuf] ELSE v
<1>1. /\ IoOK(u) /\ u.rd = s.rd /\ u.wr.file = s.wr.file
      /\ ~(u.wr.file = f /\ u.wr.dirty)
      /\ \A g \in Files, x \in Addr, w \in Values : NoWorse(s, u, g, x, w)
  BY FlushBuffersOK
<1>2. FlushClose(s, f) = t
  <2>1. u \in IoType
    BY <1>1 DEF IoOK
  <2>2. FlushClose(s, f) = [u EXCEPT !.wr = IF u.wr.file = f THEN NoBuf ELSE u.wr,
                                     !.rd = IF u.rd.file = f THEN NoBuf ELSE u.rd]
    BY DEF FlushClose
  <2> HIDE DEF u
  <2>3. v.rd = u.rd
    BY <2>1, WithBuffer, NoBufTyped
  <2> QED
    BY <2>1, <2>2, <2>3 DEF IoType
<1> HIDE DEF u
<1>3. f # NoFile
  BY BufferAssumption
<1>4. /\ IoOK(v) /\ v.rd = u.rd /\ v.wr.file # f /\ v.wr.file \in {u.wr.file, NoFile}
      /\ \A g \in Files, x \in Addr, w \in Values : NoWorse(u, v, g, x, w)
  <2>1. CASE u.wr.file = f
    <3>1. u \in IoType /\ ~u.wr.dirty
      BY <1>1, <2>1 DEF IoOK
    <3>2. [u EXCEPT !.wr = NoBuf].rd = u.rd /\ [u EXCEPT !.wr = NoBuf].wr = NoBuf
      BY <3>1, WithBuffer, NoBufTyped
    <3> QED  BY <1>1, <1>3, <2>1, <3>1, <3>2, GiveUpOK, NoBufTyped
  <2>2. CASE u.wr.file # f
    BY <1>1, <2>2, NoWorseRefl
  <2> QED  BY <2>1, <2>2
<1> HIDE DEF v
<1>5. /\ IoOK(t) /\ t.wr = v.wr /\ t.rd.file # f /\ t.rd.file \in {v.rd.file, NoFile}
      /\ \A g \in Files, x \in Addr, w \in Values : NoWorse(v, t, g, x, w)
  <2>1. CASE v.rd.file = f
    <3>1. v \in IoType
      BY <1>4 DEF IoOK
    <3>2. [v EXCEPT !.rd = NoBuf].wr = v.wr /\ [v EXCEPT !.rd = NoBuf].rd = NoBuf
      BY <3>1, WithBuffer, NoBufTyped
    <3> QED  BY <1>3, <1>4, <2>1, <3>2, GiveUpOK, NoBufTyped
  <2>2. CASE v.rd.file # f
    BY <1>4, <2>2, NoWorseRefl
  <2> QED  BY <2>1, <2>2
<1> HIDE DEF t
<1>6. ASSUME NEW g \in Files, NEW x \in Addr, NEW w \in Values
      PROVE  NoWorse(s, t, g, x, w)
  <2>1. NoWorse(s, v, g, x, w)
    BY <1>1, <1>4, NoWorseTrans
  <2> QED  BY <1>5, <2>1, NoWorseTrans
<1> QED
  BY <1>1, <1>2, <1>4, <1>5, <1>6

\* A write gives the buffers to its file, or leaves them, or empties them.
LEMMA WriteFileBuffers ==
  ASSUME NEW s, IoOK(s), NEW f \in Files, NEW a \in Addr, NEW n \in Nat \ {0},
         a + n <= NumBlocks * BlockSize, NEW v \in Values
  PROVE  LET u == FlushForWrite(ResetRead(s, f, a, n), f, a, n)
             t == WriteFile(s, f, a, n, v)
         IN /\ IoOK(u) /\ \A g \in Files, x \in Addr, w \in Values : NoWorse(s, u, g, x, w)
            /\ u.rd.file \in {s.rd.file, NoFile} /\ u.wr.file \in {s.wr.file, NoFile}
            /\ t.rd.file \in {s.rd.file, NoFile} /\ t.wr.file \in {s.wr.file, NoFile, f}
<1> DEFINE r == ResetRead(s, f, a, n)
           u == FlushForWrite(r, f, a, n)
           t == WriteFile(s, f, a, n, v)
<1>1. /\ IoOK(r) /\ r.wr = s.wr
      /\ \A g \in Files, x \in Addr, w \in Values : NoWorse(s, r, g, x, w)
  BY ResetReadOK
<1>2. r.rd.file \in {s.rd.file, NoFile}
  BY WithBuffer, NoBufTyped DEF ResetRead, IoOK
<1>3. Crosses(a, n) => t.wr = u.wr /\ t.rd = u.rd
  <2> SUFFICES ASSUME Crosses(a, n) PROVE t.wr = u.wr /\ t.rd = u.rd
    OBVIOUS
  <2>1. t = WriteDisk(u, f, a, n, [x \in Range(a, n) |-> v])
    BY DEF WriteFile
  <2> QED  BY <2>1, CrossingWriteOK
<1>4. ~Crosses(a, n) => t.wr.file = f /\ t.rd = r.rd
  BY SmallWriteOK DEF Holds
<1> HIDE DEF r, t
<1>5. /\ IoOK(u) /\ u.rd = r.rd
      /\ \A g \in Files, x \in Addr, w \in Values : NoWorse(r, u, g, x, w)
  BY <1>1, FlushForWriteOK
<1>6. u.wr.file \in {s.wr.file, NoFile}
  <2>1. CASE ~NeedsFlush(r, f, a, n)
    BY <1>1, <2>1 DEF FlushForWrite
  <2>2. CASE NeedsFlush(r, f, a, n)
    <3> DEFINE b == WriteBack(r)
    <3>1. IoOK(b) /\ b.wr.file = s.wr.file
      BY <1>1, <2>2, WriteBackOK DEF NeedsFlush
    <3>2. u = b \/ u = [b EXCEPT !.wr = NoBuf]
      BY <2>2 DEF FlushForWrite
    <3> HIDE DEF b, u
    <3>3. [b EXCEPT !.wr = NoBuf].wr = NoBuf
      BY <3>1, WithBuffer, NoBufTyped DEF IoOK
    <3> QED  BY <3>1, <3>2, <3>3, NoBufTyped
  <2> QED  BY <2>1, <2>2
<1> HIDE DEF u
<1>7. ASSUME NEW g \in Files, NEW x \in Addr, NEW w \in Values
      PROVE  NoWorse(s, u, g, x, w)
  BY <1>1, <1>5, NoWorseTrans
<1> QED
  BY <1>2, <1>3, <1>4, <1>5, <1>6, <1>7 DEF r, t, u

-----------------------------------------------------------------------------
(* The invariant.                                                          *)

\* Every cell that was written, but for those behind a clean buffer, is Fine;
\* those whose flush failed are Gone.
CellsOK(s, expected, behind, gone) ==
  \A f \in Files, a \in Addr : expected[f][a] # Fill /\ <<f, a>> \notin behind =>
    IF <<f, a>> \in gone THEN Gone(s, f, a, expected[f][a]) ELSE Fine(s, f, a, expected[f][a])

BufferInv ==
  /\ TypeOK
  /\ NothingBehind(io) /\ DirtyHasFile(io)
  /\ CellsOK(io, written, bypassed, lost)
  /\ BuffersOfOpenFiles
  /\ op = NoFile \/ synced = NoFile
  /\ SuccessIsDurable

\* A lost cell is found again when the disk has what was written.
LEMMA StillLostFacts ==
  ASSUME NEW cells \in SUBSET (Files \X Addr), NEW s, NEW expected
  PROVE  /\ StillLost(cells, s, expected) \subseteq Files \X Addr
         /\ \A f \in Files, a \in Addr : <<f, a>> \in StillLost(cells, s, expected) <=>
              <<f, a>> \in cells /\ s.disk[f][a] # expected[f][a]
BY DEF StillLost

\* Nothing is written: the cells stay as good as they were.
LEMMA CellsKept ==
  ASSUME NEW s, NEW t, NEW expected \in [Files -> [Addr -> Cell]], NEW behind,
         NEW gone \in SUBSET (Files \X Addr), CellsOK(s, expected, behind, gone),
         \A f \in Files, a \in Addr, w \in Values : NoWorse(s, t, f, a, w)
  PROVE  CellsOK(t, expected, behind, StillLost(gone, t, expected))
<1> SUFFICES ASSUME NEW f \in Files, NEW a \in Addr,
                    expected[f][a] # Fill, <<f, a>> \notin behind
             PROVE  IF <<f, a>> \in StillLost(gone, t, expected)
                    THEN Gone(t, f, a, expected[f][a]) ELSE Fine(t, f, a, expected[f][a])
  BY DEF CellsOK
<1> DEFINE w == expected[f][a]
<1>1. w \in Values
  BY DEF Cell
<1>2. IF <<f, a>> \in gone THEN Gone(s, f, a, w) ELSE Fine(s, f, a, w)
  BY DEF CellsOK
<1>3. <<f, a>> \in StillLost(gone, t, expected) <=> <<f, a>> \in gone /\ t.disk[f][a] # w
  BY StillLostFacts
<1> HIDE DEF w
<1>4. NoWorse(s, t, f, a, w)
  BY <1>1
<1>5. Gone(t, f, a, w) => t.disk[f][a] # w
  BY DEF Gone
<1>6. OnDisk(t, f, a, w) => t.disk[f][a] = w /\ Fine(t, f, a, w)
  BY DEF OnDisk
<1> QED
  BY <1>2, <1>3, <1>4, <1>5, <1>6 DEF NoWorse, w

\* The same from the cells that are still lost.
LEMMA CellsStillLost ==
  ASSUME NEW s, NEW t, NEW expected \in [Files -> [Addr -> Cell]], NEW behind,
         NEW gone \in SUBSET (Files \X Addr),
         CellsOK(s, expected, behind, StillLost(gone, s, expected)),
         \A f \in Files, a \in Addr, w \in Values : NoWorse(s, t, f, a, w)
  PROVE  CellsOK(t, expected, behind, StillLost(gone, t, expected))
<1> SUFFICES ASSUME NEW f \in Files, NEW a \in Addr,
                    expected[f][a] # Fill, <<f, a>> \notin behind
             PROVE  IF <<f, a>> \in StillLost(gone, t, expected)
                    THEN Gone(t, f, a, expected[f][a]) ELSE Fine(t, f, a, expected[f][a])
  BY DEF CellsOK
<1> DEFINE w == expected[f][a]
<1>1. w \in Values
  BY DEF Cell
<1>2. IF <<f, a>> \in StillLost(gone, s, expected) THEN Gone(s, f, a, w) ELSE Fine(s, f, a, w)
  BY DEF CellsOK
<1>3. /\ <<f, a>> \in StillLost(gone, s, expected) <=> <<f, a>> \in gone /\ s.disk[f][a] # w
      /\ <<f, a>> \in StillLost(gone, t, expected) <=> <<f, a>> \in gone /\ t.disk[f][a] # w
  BY StillLostFacts
<1> HIDE DEF w
<1>4. NoWorse(s, t, f, a, w)
  BY <1>1
<1>5. Gone(t, f, a, w) => t.disk[f][a] # w
  BY DEF Gone
<1>6. OnDisk(t, f, a, w) => t.disk[f][a] = w /\ Fine(t, f, a, w)
  BY DEF OnDisk
<1>7. Fine(s, f, a, w) /\ s.disk[f][a] = w => OnDisk(s, f, a, w)
  BY DEF OnDisk
<1> QED
  BY <1>2, <1>3, <1>4, <1>5, <1>6, <1>7 DEF NoWorse, w

\* The same while no cell leaves the set of those whose flush failed.
LEMMA CellsUntouched ==
  ASSUME NEW s, NEW t, NEW expected \in [Files -> [Addr -> Cell]], NEW behind, NEW gone,
         CellsOK(s, expected, behind, gone), t.disk = s.disk,
         \A f \in Files, a \in Addr, w \in Values : NoWorse(s, t, f, a, w)
  PROVE  CellsOK(t, expected, behind, gone)
<1> SUFFICES ASSUME NEW f \in Files, NEW a \in Addr,
                    expected[f][a] # Fill, <<f, a>> \notin behind
             PROVE  IF <<f, a>> \in gone
                    THEN Gone(t, f, a, expected[f][a]) ELSE Fine(t, f, a, expected[f][a])
  BY DEF CellsOK
<1> DEFINE w == expected[f][a]
<1>1. w \in Values
  BY DEF Cell
<1>2. IF <<f, a>> \in gone THEN Gone(s, f, a, w) ELSE Fine(s, f, a, w)
  BY DEF CellsOK
<1> HIDE DEF w
<1>3. NoWorse(s, t, f, a, w)
  BY <1>1
<1>4. Gone(s, f, a, w) => t.disk[f][a] # w
  BY DEF Gone
<1>5. OnDisk(t, f, a, w) => t.disk[f][a] = w
  BY DEF OnDisk
<1> QED
  BY <1>2, <1>3, <1>4, <1>5 DEF NoWorse, w

\* The cells `here' of file f are given v, and the others stay as good as they were.
GivenTo(s, t, expected, behind, gone, f, here, v, expected2, behind2, gone2) ==
  /\ \A g \in Files, x \in Addr, w \in Values : ~(g = f /\ x \in here) => NoWorse(s, t, g, x, w)
  /\ \A x \in Addr : x \in here /\ <<f, x>> \notin behind2 => Fine(t, f, x, v)
  /\ \A g \in Files, x \in Addr :
       /\ expected2[g][x] = IF g = f /\ x \in here THEN v ELSE expected[g][x]
       /\ <<g, x>> \in gone2 => t.disk[g][x] # expected2[g][x]
       /\ ~(g = f /\ x \in here) =>
            /\ <<g, x>> \in behind => <<g, x>> \in behind2
            /\ <<g, x>> \in gone2 <=> <<g, x>> \in gone /\ t.disk[g][x] # expected[g][x]

\* A write that puts its value in every cell of its range, and harms no other, keeps the account of cells.
LEMMA CellsWritten ==
  ASSUME NEW s, NEW t, NEW expected \in [Files -> [Addr -> Cell]], NEW behind,
         NEW gone \in SUBSET (Files \X Addr),
         CellsOK(s, expected, behind, StillLost(gone, s, expected)),
         NEW f \in Files, NEW here, NEW v \in Values, NEW expected2, NEW behind2, NEW gone2,
         GivenTo(s, t, expected, behind, gone, f, here, v, expected2, behind2, gone2)
  PROVE  CellsOK(t, expected2, behind2, gone2)
<1> SUFFICES ASSUME NEW g \in Files, NEW x \in Addr,
                    expected2[g][x] # Fill, <<g, x>> \notin behind2
             PROVE  IF <<g, x>> \in gone2
                    THEN Gone(t, g, x, expected2[g][x]) ELSE Fine(t, g, x, expected2[g][x])
  BY DEF CellsOK
<1>1. CASE g = f /\ x \in here
  <2>1. Fine(t, g, x, v) /\ expected2[g][x] = v
    BY <1>1 DEF GivenTo
  <2>2. <<g, x>> \in gone2 => t.disk[g][x] # v
    BY <2>1 DEF GivenTo
  <2>3. Fine(t, g, x, v) /\ t.disk[g][x] # v => Gone(t, g, x, v)
    BY DEF Fine, Gone
  <2> QED  BY <2>1, <2>2, <2>3
<1>2. CASE ~(g = f /\ x \in here)
  <2> DEFINE w == expected[g][x]
             gone1 == StillLost(gone, s, expected)
  <2>1. expected2[g][x] = w
    BY <1>2 DEF GivenTo
  <2>2. w \in Values
    BY <2>1 DEF Cell
  <2>3. IF <<g, x>> \in gone1 THEN Gone(s, g, x, w) ELSE Fine(s, g, x, w)
    BY <1>2, <2>1 DEF CellsOK, GivenTo
  <2>4. <<g, x>> \in gone2 <=> <<g, x>> \in gone /\ t.disk[g][x] # w
    BY <1>2 DEF GivenTo
  <2>5. <<g, x>> \in gone1 <=> <<g, x>> \in gone /\ s.disk[g][x] # w
    BY StillLostFacts
  <2> HIDE DEF w, gone1
  <2>6. NoWorse(s, t, g, x, w)
    BY <1>2, <2>2 DEF GivenTo
  <2>7. Gone(t, g, x, w) => t.disk[g][x] # w
    BY DEF Gone
  <2>8. OnDisk(t, g, x, w) => t.disk[g][x] = w /\ Fine(t, g, x, w)
    BY DEF OnDisk
  <2>9. Fine(s, g, x, w) /\ s.disk[g][x] = w => OnDisk(s, g, x, w)
    BY DEF OnDisk
  <2> QED
    BY <2>1, <2>3, <2>4, <2>5, <2>6, <2>7, <2>8, <2>9 DEF NoWorse
<1> QED
  BY <1>1, <1>2

\* The dirty block cannot be written: its cells that only it has are lost.
LEMMA CellsDropped ==
  ASSUME NEW s, IoOK(s), NEW expected \in [Files -> [Addr -> Cell]], NEW behind,
         NEW gone \in SUBSET (Files \X Addr), CellsOK(s, expected, behind, gone)
  PROVE  LET t == [s EXCEPT !.wr.dirty = FALSE]
         IN CellsOK(t, expected, behind, StillLost(gone \cup BlockInBuffer(s), t, expected))
<1> DEFINE t == [s EXCEPT !.wr.dirty = FALSE]
           gone2 == StillLost(gone \cup BlockInBuffer(s), t, expected)
<1>1. /\ t.disk = s.disk
      /\ \A g \in Files, x \in Addr, w \in Values :
           /\ Fine(s, g, x, w) => OnDisk(t, g, x, w) \/ (Gone(t, g, x, w) /\ InBuffer(s.wr, g, x))
           /\ Gone(s, g, x, w) => Gone(t, g, x, w)
  BY DropDirtyOK
<1> HIDE DEF t
<1>2. s.wr.block \in Blocks
  BY IoFields DEF IoOK
<1>3. \A g \in Files, x \in Addr : <<g, x>> \in BlockInBuffer(s) <=> InBuffer(s.wr, g, x)
  <2> TAKE g \in Files, x \in Addr
  <2>1. x \in CellsOf(s.wr.block) <=> BlockOf(x) = s.wr.block
    BY <1>2, CellsOfBlock
  <2> QED  BY <2>1 DEF BlockInBuffer, InBuffer, Holds
<1>4. \A g \in Files, x \in Addr : <<g, x>> \in gone2 <=>
        (<<g, x>> \in gone \/ InBuffer(s.wr, g, x)) /\ t.disk[g][x] # expected[g][x]
  BY <1>3 DEF StillLost
<1> HIDE DEF gone2
<1> SUFFICES ASSUME NEW g \in Files, NEW x \in Addr,
                    expected[g][x] # Fill, <<g, x>> \notin behind
             PROVE  IF <<g, x>> \in gone2
                    THEN Gone(t, g, x, expected[g][x]) ELSE Fine(t, g, x, expected[g][x])
  BY DEF CellsOK, gone2, t
<1> DEFINE w == expected[g][x]
<1>5. w \in Values
  BY DEF Cell
<1>6. IF <<g, x>> \in gone THEN Gone(s, g, x, w) ELSE Fine(s, g, x, w)
  BY DEF CellsOK
<1>7. <<g, x>> \in gone2 <=>
        (<<g, x>> \in gone \/ InBuffer(s.wr, g, x)) /\ t.disk[g][x] # w
  BY <1>4
<1> HIDE DEF w
<1>8. /\ Fine(s, g, x, w) => OnDisk(t, g, x, w) \/ (Gone(t, g, x, w) /\ InBuffer(s.wr, g, x))
      /\ Gone(s, g, x, w) => Gone(t, g, x, w)
  BY <1>1, <1>5
<1>9. Gone(t, g, x, w) => t.disk[g][x] # w
  BY DEF Gone
<1>10. OnDisk(t, g, x, w) => t.disk[g][x] = w /\ Fine(t, g, x, w)
  BY DEF OnDisk
<1> QED
  BY <1>6, <1>7, <1>8, <1>9, <1>10 DEF w

-----------------------------------------------------------------------------
(* One step after the other.                                               *)

\* The parts of the invariant the steps use.
LEMMA InvFacts ==
  ASSUME BufferInv
  PROVE  /\ IoOK(io) /\ written \in [Files -> [Addr -> Cell]]
         /\ lost \in SUBSET (Files \X Addr) /\ bypassed \in SUBSET (Files \X Addr)
         /\ CellsOK(io, written, bypassed, lost)
         /\ io.rd.file \in open \cup {NoFile} /\ io.wr.file \in open \cup {NoFile}
         /\ open \subseteq Files /\ update \subseteq open /\ op \in open \cup {NoFile}
         /\ synced \in Files \cup {NoFile} /\ (op = NoFile \/ synced = NoFile)
BY DEF BufferInv, TypeOK, IoOK, IoType, BuffersOfOpenFiles

\* What the invariant asks of a step that leaves no operation just committed.
LEMMA InvNext ==
  ASSUME IoOK(io'), written' \in [Files -> [Addr -> Cell]],
         lost' \subseteq Files \X Addr, bypassed' \subseteq Files \X Addr,
         CellsOK(io', written', bypassed', lost'),
         io'.rd.file \in open' \cup {NoFile}, io'.wr.file \in open' \cup {NoFile},
         open' \subseteq Files, update' \subseteq open', op' \in open' \cup {NoFile},
         synced' = NoFile
  PROVE  BufferInv'
BY DEF BufferInv, TypeOK, IoOK, IoType, BuffersOfOpenFiles, SuccessIsDurable

\* A piece lies in its file.
LEMMA PieceFacts ==
  ASSUME NEW f \in Files, NEW a \in Addr, NEW n \in Nat, a + n <= NumBlocks * BlockSize
  PROVE  /\ Range(a, n) \subseteq Addr /\ Where(f, a, n) \subseteq Files \X Addr
         /\ \A g \in Files, x \in Addr : <<g, x>> \in Where(f, a, n) <=> g = f /\ x \in Range(a, n)
<1> DEFINE end == NumBlocks * BlockSize
<1>1. end \in Nat /\ a \in Nat /\ a + n <= end
  BY SizeFacts, CellArithmetic
<1>2. Addr = 0 .. end - 1
  BY DEF Addr
<1> HIDE DEF end
<1>3. Range(a, n) \subseteq Addr
  BY <1>1, <1>2 DEF Range
<1> QED
  BY <1>3 DEF Where

\* The pieces an operation writes lie in the file.
LEMMA OperationPieces ==
  ASSUME NEW f \in Files, NEW r \in Pieces[f]
  PROVE  r[1] \in Addr /\ r[2] \in Nat \ {0} /\ r[1] + r[2] <= NumBlocks * BlockSize
<1> DEFINE end == NumBlocks * BlockSize
<1>1. end \in Nat
  BY SizeFacts
<1>2. r \in Addr \X (1 .. end) /\ r[1] + r[2] <= end
  BY BufferAssumption
<1> HIDE DEF end
<1>3. r[2] \in Nat \ {0}
  BY <1>1, <1>2
<1> QED
  BY <1>2, <1>3 DEF end

\* The history of a write: its value in its range, nothing new elsewhere.
LEMMA OverwrittenFacts ==
  ASSUME written \in [Files -> [Addr -> Cell]], NEW f \in Files, NEW a, NEW n, NEW v \in Values
  PROVE  /\ Overwritten(f, a, n, v) \in [Files -> [Addr -> Cell]]
         /\ \A g \in Files, x \in Addr : Overwritten(f, a, n, v)[g][x] =
              IF g = f /\ x \in Range(a, n) THEN v ELSE written[g][x]
<1> DEFINE row == [x \in Addr |-> IF x \in Range(a, n) THEN v ELSE written[f][x]]
<1>1. row \in [Addr -> Cell] /\ \A x \in Addr : row[x] = IF x \in Range(a, n) THEN v ELSE written[f][x]
  BY DEF Cell
<1>2. Overwritten(f, a, n, v) = [written EXCEPT ![f] = row]
  BY DEF Overwritten
<1> HIDE DEF row
<1> QED
  BY <1>1, <1>2

\* The cells behind a clean write buffer.
LEMMA BehindFacts ==
  ASSUME NEW s, IoOK(s), NEW f \in Files, NEW a \in Addr, NEW n \in Nat,
         a + n <= NumBlocks * BlockSize
  PROVE  \A g \in Files, x \in Addr :
           <<g, x>> \in Behind(s, f, a, n) <=> g = f /\ x \in Range(a, n) /\ Bypasses(s, f, a, n, x)
<1> TAKE g \in Files, x \in Addr
<1>1. s.wr.block \in Blocks
  BY IoFields DEF IoOK
<1>2. x \in CellsOf(s.wr.block) <=> BlockOf(x) = s.wr.block
  BY <1>1, CellsOfBlock
<1>3. <<g, x>> \in Where(f, a, n) <=> g = f /\ x \in Range(a, n)
  BY PieceFacts
<1>4. <<g, x>> \in {f} \X CellsOf(s.wr.block) <=> g = f /\ BlockOf(x) = s.wr.block
  BY <1>2
<1> QED
  BY <1>3, <1>4 DEF Behind, Bypasses, InBuffer, Holds

\* A piece of n cells at a is written, or the first k cells of it.
LEMMA PieceWritten ==
  ASSUME BufferInv, NEW f \in Files, NEW a \in Addr, NEW n \in Nat \ {0},
         a + n <= NumBlocks * BlockSize, NEW k \in Nat, k <= n, NEW v \in Values,
         NEW t, NEW behind, NEW gone,
         \A g \in Files, x \in Addr, w \in Values :
           ~(g = f /\ x \in Range(a, k)) => NoWorse(io, t, g, x, w),
         \A x \in Addr : x \in Range(a, k) /\ ~Bypasses(io, f, a, n, x) => Fine(t, f, x, v),
         behind = (bypassed \ Where(f, a, k)) \cup (Behind(io, f, a, n) \cap Where(f, a, k)),
         \/ gone = StillLost(lost \ Where(f, a, k), t, written)
         \/ gone = StillLost(lost \ Where(f, a, k), t, Overwritten(f, a, k, v))
  PROVE  /\ CellsOK(t, Overwritten(f, a, k, v), behind, gone)
         /\ Overwritten(f, a, k, v) \in [Files -> [Addr -> Cell]]
         /\ behind \subseteq Files \X Addr /\ gone \subseteq Files \X Addr
<1> DEFINE expected == Overwritten(f, a, k, v)
           here == Range(a, k)
           end == NumBlocks * BlockSize
<1>1. /\ IoOK(io) /\ written \in [Files -> [Addr -> Cell]]
      /\ lost \in SUBSET (Files \X Addr) /\ bypassed \in SUBSET (Files \X Addr)
      /\ CellsOK(io, written, bypassed, lost)
  BY InvFacts
<1>2. a + k <= end
  <2>1. a \in Nat /\ end \in Nat /\ a + n <= end
    BY SizeFacts, CellArithmetic
  <2> HIDE DEF end
  <2> QED  BY <2>1
<1>3. /\ expected \in [Files -> [Addr -> Cell]]
      /\ \A g \in Files, x \in Addr : expected[g][x] =
           IF g = f /\ x \in here THEN v ELSE written[g][x]
  BY <1>1, OverwrittenFacts
<1>4. \A g \in Files, x \in Addr : <<g, x>> \in Where(f, a, k) <=> g = f /\ x \in here
  BY <1>2, PieceFacts
<1>5. \A g \in Files, x \in Addr : <<g, x>> \in Behind(io, f, a, n) <=>
        g = f /\ x \in Range(a, n) /\ Bypasses(io, f, a, n, x)
  BY <1>1, BehindFacts
<1>6. here \subseteq Range(a, n)
  <2>1. a \in Nat
    BY CellArithmetic
  <2> QED  BY <2>1 DEF Range
<1>7. \A g \in Files, x \in Addr : <<g, x>> \in behind <=>
        IF g = f /\ x \in here THEN Bypasses(io, f, a, n, x) ELSE <<g, x>> \in bypassed
  BY <1>4, <1>5, <1>6
<1>8. \A g \in Files, x \in Addr : <<g, x>> \in gone <=>
        <<g, x>> \in lost /\ ~(g = f /\ x \in here) /\ t.disk[g][x] # written[g][x]
  <2>1. CASE gone = StillLost(lost \ Where(f, a, k), t, written)
    BY <1>4, <2>1 DEF StillLost
  <2>2. CASE gone = StillLost(lost \ Where(f, a, k), t, Overwritten(f, a, k, v))
    <3>1. gone = StillLost(lost \ Where(f, a, k), t, expected)
      BY <2>2
    <3> HIDE DEF expected, here
    <3>2. \A g \in Files, x \in Addr : <<g, x>> \in gone <=>
            <<g, x>> \in lost /\ ~(g = f /\ x \in here) /\ t.disk[g][x] # expected[g][x]
      BY <1>4, <3>1 DEF StillLost
    <3> QED  BY <1>3, <3>2
  <2> QED  BY <2>1, <2>2
<1>9. behind \subseteq Files \X Addr /\ gone \subseteq Files \X Addr
  <2>1. Where(f, a, k) \subseteq Files \X Addr
    BY <1>2, PieceFacts
  <2> QED  BY <1>1, <2>1 DEF StillLost
<1> HIDE DEF expected, here
<1>10. \A g \in Files, x \in Addr, w \in Values : ~(g = f /\ x \in here) => NoWorse(io, t, g, x, w)
  BY DEF here
<1>11. \A x \in Addr : x \in here /\ <<f, x>> \notin behind => Fine(t, f, x, v)
  BY <1>7 DEF here
<1>12. GivenTo(io, t, written, bypassed, lost, f, here, v, expected, behind, gone)
  BY <1>3, <1>7, <1>8, <1>10, <1>11 DEF GivenTo
<1>13. CellsOK(io, written, bypassed, StillLost(lost, io, written))
  BY <1>1, CellsKept, NoWorseRefl
<1>14. CellsOK(t, expected, behind, gone)
  BY <1>1, <1>12, <1>13, CellsWritten
<1> QED
  BY <1>3, <1>9, <1>14 DEF expected

\* The empty files satisfy the invariant.
LEMMA BufferInit ==
  ASSUME Init
  PROVE  BufferInv
<1>1. OldVersion \in Values /\ NewVersion \in Values /\ OldFiles \subseteq Files
  BY BufferAssumption
<1>2. \A f \in Files, a \in Addr : InitialCell(f, a) \in Cell
  BY <1>1 DEF InitialCell, Cell
<1>3. BlockSize \in 0 .. NumBlocks * BlockSize
  <2>1. 0 \in Blocks /\ 0 \in Offsets
    BY SizeFacts DEF Blocks, Offsets
  <2>2. 0 * BlockSize + BlockSize <= NumBlocks * BlockSize
    BY <2>1, BlockArithmetic
  <2> DEFINE end == NumBlocks * BlockSize
  <2>3. end \in Nat /\ BlockSize \in Nat
    BY SizeFacts
  <2>4. 0 * BlockSize = 0
    BY <2>3
  <2> HIDE DEF end
  <2>5. 0 + BlockSize <= end
    BY <2>2, <2>4 DEF end
  <2>6. BlockSize \in 0 .. end
    BY <2>3, <2>5
  <2> QED  BY <2>6 DEF end
<1> DEFINE cells == [f \in Files |-> [a \in Addr |-> InitialCell(f, a)]]
           sizes == [f \in Files |-> BlockSize]
<1>4. cells \in [Files -> [Addr -> Cell]] /\ sizes \in [Files -> 0 .. NumBlocks * BlockSize]
  BY <1>2, <1>3
<1>5. io = [disk |-> cells, len |-> sizes, rd |-> NoBuf, wr |-> NoBuf] /\ written = cells
  BY DEF Init
<1>6. \A f \in Files, a \in Addr : a >= sizes[f] => cells[f][a] = Fill
  BY DEF InitialCell
<1> HIDE DEF cells, sizes
<1>7. io.disk = cells /\ io.len = sizes /\ io.rd = NoBuf /\ io.wr = NoBuf /\ io \in IoType
  BY <1>4, <1>5, NoBufTyped DEF IoType
<1>8. NothingBehind(io) /\ DirtyHasFile(io)
  BY <1>6, <1>7, NoBufTyped DEF NothingBehind, DirtyHasFile
<1>9. \A f \in Files, a \in Addr : Fine(io, f, a, written[f][a])
  BY <1>5, <1>7, NoBufTyped DEF Fine
<1>10. open = {} /\ update = {} /\ op = NoFile /\ bypassed = {} /\ lost = {} /\ synced = NoFile
  BY DEF Init
<1>11. CellsOK(io, written, bypassed, lost)
  BY <1>9, <1>10 DEF CellsOK
<1>12. BuffersOfOpenFiles
  BY <1>7, <1>10, NoBufTyped DEF BuffersOfOpenFiles
<1>13. TypeOK
  BY <1>4, <1>5, <1>7, <1>10 DEF TypeOK, IoType
<1> QED
  BY <1>8, <1>10, <1>11, <1>12, <1>13 DEF BufferInv, SuccessIsDurable

\* The action Read keeps the invariant.
LEMMA ReadStep ==
  ASSUME BufferInv, NEW f \in Files, NEW b \in Blocks, io' = FillRead(io, f, b),
         UNCHANGED <<op, written, bypassed, lost>>, open \subseteq open', f \in open',
         open' \subseteq Files, update' \subseteq open', synced' = NoFile
  PROVE  BufferInv'
<1>1. /\ IoOK(io) /\ written \in [Files -> [Addr -> Cell]]
      /\ lost \subseteq Files \X Addr /\ bypassed \subseteq Files \X Addr
      /\ CellsOK(io, written, bypassed, lost)
      /\ io.wr.file \in open \cup {NoFile} /\ op \in open \cup {NoFile}
  BY InvFacts
<1> DEFINE t == FillRead(io, f, b)
<1>2. /\ IoOK(t) /\ t.wr = io.wr /\ t.rd.file = f /\ t.disk = io.disk
      /\ \A g \in Files, x \in Addr, w \in Values : NoWorse(io, t, g, x, w)
  BY <1>1, FillReadOK
<1> HIDE DEF t
<1>3. CellsOK(t, written, bypassed, lost)
  BY <1>1, <1>2, CellsUntouched
<1>4. io' = t
  BY DEF t
<1> QED
  BY <1>1, <1>2, <1>3, <1>4, InvNext

\* A write of an operation keeps the invariant.
LEMMA WriteStepOK ==
  ASSUME BufferInv, NEW r \in AllPieces, NEW v \in Values, WriteStep(r, v)
  PROVE  BufferInv'
<1>1. /\ IoOK(io) /\ io.rd.file \in open \cup {NoFile} /\ io.wr.file \in open \cup {NoFile}
      /\ open \subseteq Files /\ update \subseteq open /\ op \in open \cup {NoFile}
      /\ (op = NoFile \/ synced = NoFile)
  BY InvFacts
<1>2. op \in open /\ op \in Files /\ r \in Pieces[op] /\ synced = NoFile
  BY <1>1 DEF WriteStep
<1> DEFINE a == r[1]
           n == r[2]
           t == WriteFile(io, op, a, n, v)
<1>3. a \in Addr /\ n \in Nat \ {0} /\ a + n <= NumBlocks * BlockSize
  BY <1>2, OperationPieces
<1>4. /\ io' = t /\ written' = Overwritten(op, a, n, v)
      /\ bypassed' = (bypassed \ Where(op, a, n)) \cup Behind(io, op, a, n)
      /\ lost' = StillLost(lost \ Where(op, a, n), t, written)
      /\ UNCHANGED <<open, update, op, synced>>
  BY DEF WriteStep, Write
<1> HIDE DEF a, n
<1>5. /\ IoOK(t)
      /\ \A g \in Files, x \in Addr, w \in Values :
           ~(g = op /\ x \in Range(a, n)) => NoWorse(io, t, g, x, w)
      /\ \A x \in Addr : x \in Range(a, n) /\ ~Bypasses(io, op, a, n, x) => Fine(t, op, x, v)
  BY <1>1, <1>2, <1>3, WriteFileOK
<1>6. t.rd.file \in {io.rd.file, NoFile} /\ t.wr.file \in {io.wr.file, NoFile, op}
  BY <1>1, <1>2, <1>3, WriteFileBuffers
<1> HIDE DEF t
<1>7. bypassed' = (bypassed \ Where(op, a, n)) \cup (Behind(io, op, a, n) \cap Where(op, a, n))
  BY <1>4 DEF Behind
<1>8. /\ CellsOK(t, written', bypassed', lost') /\ written' \in [Files -> [Addr -> Cell]]
      /\ bypassed' \subseteq Files \X Addr /\ lost' \subseteq Files \X Addr
  <2> DEFINE behind == bypassed'
             gone == lost'
  <2>1. gone = StillLost(lost \ Where(op, a, n), t, written)
        /\ behind = (bypassed \ Where(op, a, n)) \cup (Behind(io, op, a, n) \cap Where(op, a, n))
    BY <1>4, <1>7
  <2>2. n \in Nat /\ n <= n
    BY <1>3
  <2> HIDE DEF behind, gone
  <2>3. /\ CellsOK(t, Overwritten(op, a, n, v), behind, gone)
        /\ Overwritten(op, a, n, v) \in [Files -> [Addr -> Cell]]
        /\ behind \subseteq Files \X Addr /\ gone \subseteq Files \X Addr
    BY <1>2, <1>3, <1>5, <2>1, <2>2, PieceWritten
  <2> QED  BY <1>4, <2>3 DEF behind, gone
<1> QED
  BY <1>1, <1>2, <1>4, <1>5, <1>6, <1>8, InvNext

\* A failed flush in a step that changes nothing of what callers wrote.
LEMMA LostFacts ==
  ASSUME NEW s, IoOK(s), s.wr.dirty
  PROVE  BlockInBuffer(s) \subseteq Files \X Addr
<1>1. s.wr.file \in Files /\ s.wr.block \in Blocks
  BY IoFields DEF IoOK, DirtyHasFile
<1>2. CellsOf(s.wr.block) \subseteq Addr
  <2> DEFINE start == s.wr.block * BlockSize
             end == NumBlocks * BlockSize
  <2>1. 0 \in Offsets /\ BlockSize \in Nat /\ end \in Nat
    BY SizeFacts DEF Offsets
  <2>2. start \in Nat /\ start + BlockSize <= end
    BY <1>1, <2>1, BlockArithmetic
  <2>3. CellsOf(s.wr.block) = start .. start + BlockSize - 1 /\ Addr = 0 .. end - 1
    BY DEF CellsOf, Addr
  <2> HIDE DEF start, end
  <2> QED  BY <2>1, <2>2, <2>3
<1> QED
  BY <1>1, <1>2 DEF BlockInBuffer

\* The action WriteFailure keeps the invariant.
LEMMA WriteFailureStep ==
  ASSUME BufferInv, NEW r \in AllPieces, WriteFailure(r)
  PROVE  BufferInv'
<1>1. /\ IoOK(io) /\ io.rd.file \in open \cup {NoFile} /\ io.wr.file \in open \cup {NoFile}
      /\ open \subseteq Files /\ update \subseteq open /\ op \in open \cup {NoFile}
      /\ (op = NoFile \/ synced = NoFile)
      /\ written \in [Files -> [Addr -> Cell]]
      /\ lost \in SUBSET (Files \X Addr) /\ bypassed \in SUBSET (Files \X Addr)
      /\ CellsOK(io, written, bypassed, lost)
  BY InvFacts
<1>2. op \in Files /\ synced = NoFile /\ io.wr.dirty
  BY <1>1 DEF WriteFailure, NeedsFlush
<1> DEFINE u == ResetRead(io, op, r[1], r[2])
           t == [u EXCEPT !.wr.dirty = FALSE]
<1>3. /\ io' = t /\ lost' = StillLost(lost \cup BlockInBuffer(io), t, written)
      /\ op' = NoFile /\ UNCHANGED <<open, update, written, bypassed, synced>>
  BY DEF WriteFailure, WriteFileFails
<1>4. /\ IoOK(u) /\ u.wr = io.wr
      /\ \A g \in Files, x \in Addr, w \in Values : NoWorse(io, u, g, x, w)
  BY <1>1, <1>2, ResetReadOK
<1>5. u.rd.file \in {io.rd.file, NoFile} /\ u.disk = io.disk
  BY <1>1, WithBuffer, NoBufTyped DEF ResetRead, IoOK
<1> HIDE DEF u
<1>6. CellsOK(u, written, bypassed, lost)
  BY <1>1, <1>4, <1>5, CellsUntouched
<1>7. IoOK(t) /\ t.rd = u.rd /\ t.wr.file = u.wr.file
  BY <1>4, DropDirtyOK
<1>8. CellsOK(t, written, bypassed, StillLost(lost \cup BlockInBuffer(u), t, written))
  BY <1>1, <1>4, <1>6, CellsDropped
<1>9. BlockInBuffer(u) = BlockInBuffer(io)
  BY <1>4 DEF BlockInBuffer
<1> HIDE DEF t
<1>10. lost' \subseteq Files \X Addr
  BY <1>1, <1>2, <1>3, LostFacts DEF StillLost
<1> QED
  BY <1>1, <1>2, <1>3, <1>4, <1>5, <1>7, <1>8, <1>9, <1>10, InvNext

\* The action CrossingFailure keeps the invariant.
LEMMA CrossingFailureStep ==
  ASSUME BufferInv, NEW r \in AllPieces, NEW v \in Values, NEW k \in Offsets,
         CrossingWriteFailure(r, v, k)
  PROVE  BufferInv'
<1>1. /\ IoOK(io) /\ io.rd.file \in open \cup {NoFile} /\ io.wr.file \in open \cup {NoFile}
      /\ open \subseteq Files /\ update \subseteq open /\ op \in open \cup {NoFile}
      /\ (op = NoFile \/ synced = NoFile)
  BY InvFacts
<1>2. op \in Files /\ r \in Pieces[op] /\ synced = NoFile /\ Crosses(r[1], r[2]) /\ k < r[2]
  BY <1>1 DEF CrossingWriteFailure
<1> DEFINE a == r[1]
           n == r[2]
           u == FlushForWrite(ResetRead(io, op, a, n), op, a, n)
           t == IF k = 0 THEN u ELSE WriteDisk(u, op, a, k, [x \in Range(a, k) |-> v])
           behind == (bypassed \ Where(op, a, k)) \cup (Behind(io, op, a, n) \cap Where(op, a, k))
           gone == StillLost(lost \ Where(op, a, k), t, Overwritten(op, a, k, v))
<1>3. a \in Addr /\ n \in Nat \ {0} /\ a + n <= NumBlocks * BlockSize
  BY <1>2, OperationPieces
<1>4. /\ io' = t /\ written' = Overwritten(op, a, k, v) /\ op' = NoFile
      /\ bypassed' = behind /\ lost' = gone /\ UNCHANGED <<open, update, synced>>
  BY DEF CrossingWriteFailure
<1>5. k \in Nat /\ k <= n
  BY <1>2, <1>3, SizeFacts DEF Offsets
<1>6. Crosses(a, n)
  BY <1>2
<1> HIDE DEF a, n
<1>7. /\ IoOK(u) /\ \A g \in Files, x \in Addr, w \in Values : NoWorse(io, u, g, x, w)
      /\ u.rd.file \in {io.rd.file, NoFile} /\ u.wr.file \in {io.wr.file, NoFile}
  BY <1>1, <1>2, <1>3, WriteFileBuffers
<1>8. /\ IoOK(t) /\ t.wr = u.wr /\ t.rd = u.rd
      /\ \A g \in Files, x \in Addr, w \in Values :
           ~(g = op /\ x \in Range(a, k)) => NoWorse(io, t, g, x, w)
      /\ \A x \in Addr : x \in Range(a, k) /\ ~Bypasses(io, op, a, n, x) => Fine(t, op, x, v)
  <2>1. CASE k = 0
    <3>1. Range(a, k) = {}
      BY <1>3, <2>1, CellArithmetic DEF Range
    <3> QED  BY <1>7, <2>1, <3>1
  <2>2. CASE k # 0
    BY <1>1, <1>2, <1>3, <1>5, <1>6, <2>2, CrossingWriteOK
  <2> QED  BY <2>1, <2>2
<1>9. gone = StillLost(lost \ Where(op, a, k), t, Overwritten(op, a, k, v))
      /\ behind = (bypassed \ Where(op, a, k)) \cup (Behind(io, op, a, n) \cap Where(op, a, k))
  OBVIOUS
<1> HIDE DEF t, u, behind, gone
<1>10. /\ CellsOK(t, Overwritten(op, a, k, v), behind, gone)
       /\ Overwritten(op, a, k, v) \in [Files -> [Addr -> Cell]]
       /\ behind \subseteq Files \X Addr /\ gone \subseteq Files \X Addr
  BY <1>2, <1>3, <1>5, <1>8, <1>9, PieceWritten
<1> QED
  BY <1>1, <1>2, <1>4, <1>7, <1>8, <1>10, InvNext

\* The action Close keeps the invariant.
LEMMA CloseStep ==
  ASSUME BufferInv, NEW f \in Files, Close(f)
  PROVE  BufferInv'
<1>1. /\ IoOK(io) /\ io.rd.file \in open \cup {NoFile} /\ io.wr.file \in open \cup {NoFile}
      /\ open \subseteq Files /\ update \subseteq open
      /\ written \in [Files -> [Addr -> Cell]]
      /\ lost \in SUBSET (Files \X Addr) /\ bypassed \in SUBSET (Files \X Addr)
      /\ CellsOK(io, written, bypassed, lost)
  BY InvFacts
<1> DEFINE t == FlushClose(io, f)
           gone == StillLost(lost, t, written)
<1>2. /\ io' = t /\ lost' = gone /\ op' = NoFile
      /\ open' = open \ {f} /\ update' = update \ {f} /\ synced' = NoFile
      /\ UNCHANGED <<written, bypassed>>
  BY DEF Close
<1>3. /\ IoOK(t)
      /\ t.rd.file # f /\ t.rd.file \in {io.rd.file, NoFile}
      /\ t.wr.file # f /\ t.wr.file \in {io.wr.file, NoFile}
      /\ \A g \in Files, x \in Addr, w \in Values : NoWorse(io, t, g, x, w)
  BY <1>1, FlushCloseOK
<1> HIDE DEF t
<1>4. CellsOK(t, written, bypassed, gone)
  BY <1>1, <1>3, CellsKept
<1>5. gone \subseteq Files \X Addr
  BY <1>1 DEF StillLost
<1> HIDE DEF gone
<1> QED
  BY <1>1, <1>2, <1>3, <1>4, <1>5, InvNext

\* The action CloseFails keeps the invariant.
LEMMA CloseFailsStep ==
  ASSUME BufferInv, NEW f \in Files, CloseFails(f)
  PROVE  BufferInv'
<1>1. /\ IoOK(io) /\ io.rd.file \in open \cup {NoFile} /\ io.wr.file \in open \cup {NoFile}
      /\ open \subseteq Files /\ update \subseteq open
      /\ written \in [Files -> [Addr -> Cell]]
      /\ lost \in SUBSET (Files \X Addr) /\ bypassed \in SUBSET (Files \X Addr)
      /\ CellsOK(io, written, bypassed, lost)
  BY InvFacts
<1> DEFINE u == [io EXCEPT !.wr.dirty = FALSE]
           t == FlushClose(u, f)
           cells == lost \cup BlockInBuffer(io)
           gone == StillLost(cells, t, written)
<1>2. /\ io' = t /\ lost' = gone /\ op' = NoFile /\ io.wr.dirty
      /\ open' = open \ {f} /\ update' = update \ {f} /\ synced' = NoFile
      /\ UNCHANGED <<written, bypassed>>
  BY DEF CloseFails
<1>3. IoOK(u) /\ u.rd = io.rd /\ u.wr.file = io.wr.file
  BY <1>1, DropDirtyOK
<1>4. CellsOK(u, written, bypassed, StillLost(cells, u, written))
  BY <1>1, CellsDropped
<1> HIDE DEF u
<1>5. /\ IoOK(t)
      /\ t.rd.file # f /\ t.rd.file \in {io.rd.file, NoFile}
      /\ t.wr.file # f /\ t.wr.file \in {io.wr.file, NoFile}
      /\ \A g \in Files, x \in Addr, w \in Values : NoWorse(u, t, g, x, w)
  BY <1>3, FlushCloseOK
<1>6. cells \in SUBSET (Files \X Addr)
  BY <1>1, <1>2, LostFacts
<1> HIDE DEF t, cells
<1>7. CellsOK(t, written, bypassed, gone)
  BY <1>1, <1>4, <1>5, <1>6, CellsStillLost
<1>8. gone \subseteq Files \X Addr
  BY <1>6 DEF StillLost
<1> HIDE DEF gone
<1> QED
  BY <1>1, <1>2, <1>3, <1>5, <1>7, <1>8, InvNext

\* The action Crash keeps the invariant.
LEMMA CrashStep ==
  ASSUME BufferInv, Crash
  PROVE  BufferInv'
<1>1. IoOK(io) /\ io \in IoType /\ io.disk \in [Files -> [Addr -> Cell]]
  BY InvFacts, IoFields DEF IoOK
<1> DEFINE t == [io EXCEPT !.rd = NoBuf, !.wr = NoBuf]
<1>2. /\ io' = t /\ open' = {} /\ update' = {} /\ op' = NoFile /\ synced' = NoFile
      /\ written' = io.disk /\ bypassed' = {} /\ lost' = {}
  BY DEF Crash
<1>3. t \in IoType /\ t.disk = io.disk /\ t.len = io.len /\ t.rd = NoBuf /\ t.wr = NoBuf
  BY <1>1, NoBufTyped DEF IoType
<1> HIDE DEF t
<1>4. IoOK(t)
  BY <1>1, <1>3, NoBufTyped DEF IoOK, NothingBehind, DirtyHasFile
<1>5. \A f \in Files, a \in Addr : Fine(t, f, a, io.disk[f][a])
  BY <1>3, NoBufTyped DEF Fine
<1>6. CellsOK(t, io.disk, {}, {})
  BY <1>5 DEF CellsOK
<1> QED
  BY <1>1, <1>2, <1>3, <1>4, <1>6, NoBufTyped, InvNext

\* A step that changes neither the disk nor the buffers.
LEMMA QuietStep ==
  ASSUME BufferInv, UNCHANGED <<io, open, update, written, bypassed, lost>>,
         op' \in open \cup {NoFile}, synced' = NoFile
  PROVE  BufferInv'
BY DEF BufferInv, TypeOK, CellsOK, NothingBehind, DirtyHasFile, Fine, Gone, InBuffer, Holds,
       BuffersOfOpenFiles, SuccessIsDurable

\* The version and the date are two cells of the first block, which no write of them crosses.
LEMMA HeaderArithmetic ==
  /\ DateCell \in Addr /\ VersionCell \in Addr /\ 1 \in Nat \ {0}
  /\ DateCell + 1 <= NumBlocks * BlockSize /\ VersionCell + 1 <= NumBlocks * BlockSize
  /\ ~Crosses(DateCell, 1) /\ ~Crosses(VersionCell, 1)
  /\ Range(DateCell, 1) = {DateCell} /\ Range(VersionCell, 1) = {VersionCell}
<1> DEFINE end == NumBlocks * BlockSize
<1>1. end \in Nat /\ BlockSize \in Nat /\ BlockSize > 1 /\ 1 < end
  <2>1. 0 \in Blocks /\ 1 \in Offsets /\ end \in Nat /\ BlockSize \in Nat /\ BlockSize > 1
    BY SizeFacts DEF Blocks, Offsets
  <2>2. 0 * BlockSize + 1 \in Addr /\ 0 * BlockSize = 0
    BY <2>1, BlockArithmetic
  <2>3. 0 * BlockSize + 1 = 1 /\ Addr = 0 .. end - 1
    BY <2>2 DEF Addr
  <2> HIDE DEF end
  <2> QED  BY <2>1, <2>2, <2>3
<1>2. Addr = 0 .. end - 1
  BY DEF Addr
<1>3. 0 % BlockSize = 0 /\ 1 % BlockSize = 1
  BY <1>1, SMT
<1> HIDE DEF end
<1>4. 0 \in Addr /\ 1 \in Addr /\ 0 + 1 <= end /\ 1 + 1 <= end
  BY <1>1, <1>2
<1>5. ~Crosses(0, 1) /\ ~Crosses(1, 1)
  BY <1>1, <1>3 DEF Crosses
<1>6. Range(0, 1) = {0} /\ Range(1, 1) = {1}
  BY DEF Range
<1> QED
  BY <1>4, <1>5, <1>6 DEF DateCell, VersionCell, end

\* The date is written: a piece of one cell, in one block.
LEMMA DateWritten ==
  ASSUME BufferInv, op \in Files, NEW date \in Values
  PROVE  LET t == WriteFile(io, op, DateCell, 1, date)
             expected == Overwritten(op, DateCell, 1, date)
             cells == lost \ Where(op, DateCell, 1)
         IN /\ IoOK(t) /\ t.wr.dirty /\ Holds(t.wr, op, BlockOf(DateCell))
            /\ t.rd.file \in {io.rd.file, NoFile} /\ t.wr.file \in {io.wr.file, NoFile, op}
            /\ CellsOK(t, expected, bypassed \ Where(op, DateCell, 1), StillLost(cells, t, expected))
            /\ expected \in [Files -> [Addr -> Cell]]
            /\ \A g \in Files, x \in Addr : expected[g][x] =
                 IF g = op /\ x = DateCell THEN date ELSE written[g][x]
<1> DEFINE t == WriteFile(io, op, DateCell, 1, date)
           expected == Overwritten(op, DateCell, 1, date)
           behind == bypassed \ Where(op, DateCell, 1)
           gone == StillLost(lost \ Where(op, DateCell, 1), t, expected)
<1>1. IoOK(io) /\ written \in [Files -> [Addr -> Cell]]
  BY InvFacts
<1>2. /\ DateCell \in Addr /\ 1 \in Nat \ {0} /\ DateCell + 1 <= NumBlocks * BlockSize
      /\ ~Crosses(DateCell, 1) /\ Range(DateCell, 1) = {DateCell}
  BY HeaderArithmetic
<1>3. /\ IoOK(t) /\ t.wr.dirty /\ Holds(t.wr, op, BlockOf(DateCell))
      /\ \A g \in Files, x \in Addr, w \in Values :
           ~(g = op /\ x \in Range(DateCell, 1)) => NoWorse(io, t, g, x, w)
      /\ \A x \in Addr : x \in Range(DateCell, 1) => Fine(t, op, x, date)
  BY <1>1, <1>2, SmallWriteOK
<1>4. t.rd.file \in {io.rd.file, NoFile} /\ t.wr.file \in {io.wr.file, NoFile, op}
  BY <1>1, <1>2, WriteFileBuffers
<1>5. expected \in [Files -> [Addr -> Cell]]
      /\ \A g \in Files, x \in Addr : expected[g][x] =
           IF g = op /\ x = DateCell THEN date ELSE written[g][x]
  BY <1>1, <1>2, OverwrittenFacts
<1> HIDE DEF t
<1>6. Behind(io, op, DateCell, 1) = {}
  BY <1>2 DEF Behind
<1>7. behind = (bypassed \ Where(op, DateCell, 1))
                 \cup (Behind(io, op, DateCell, 1) \cap Where(op, DateCell, 1))
  BY <1>6
<1>8. gone = StillLost(lost \ Where(op, DateCell, 1), t, Overwritten(op, DateCell, 1, date))
  OBVIOUS
<1> HIDE DEF behind, gone
<1>9. CellsOK(t, Overwritten(op, DateCell, 1, date), behind, gone)
  <2>1. 1 \in Nat /\ 1 <= 1
    OBVIOUS
  <2> QED  BY <1>2, <1>3, <1>7, <1>8, <2>1, PieceWritten
<1> QED
  BY <1>3, <1>4, <1>5, <1>9 DEF t, behind, gone

\* The action CommitFails keeps the invariant.
LEMMA CommitFailsStep ==
  ASSUME BufferInv, NEW date \in Dates, CommitFails(date)
  PROVE  BufferInv'
<1>1. /\ IoOK(io) /\ io.rd.file \in open \cup {NoFile} /\ io.wr.file \in open \cup {NoFile}
      /\ open \subseteq Files /\ update \subseteq open /\ op \in open \cup {NoFile}
      /\ (op = NoFile \/ synced = NoFile)
      /\ written \in [Files -> [Addr -> Cell]]
      /\ lost \in SUBSET (Files \X Addr) /\ bypassed \in SUBSET (Files \X Addr)
  BY InvFacts
<1>2. op \in Files /\ op \in open /\ synced = NoFile /\ date \in Values
  BY <1>1, BufferAssumption DEF CommitFails
<1> DEFINE s == WriteFile(io, op, DateCell, 1, date)
           t == [s EXCEPT !.wr.dirty = FALSE]
           expected == Overwritten(op, DateCell, 1, date)
           behind == bypassed \ Where(op, DateCell, 1)
           cells == lost \ Where(op, DateCell, 1)
           gone == StillLost(lost \cup BlockInBuffer(s), t, expected)
           stamped == [written EXCEPT ![op][DateCell] = date]
<1>3. /\ io' = t /\ written' = stamped
      /\ lost' = StillLost(lost \cup BlockInBuffer(s), t, stamped)
      /\ bypassed' = behind /\ op' = NoFile /\ UNCHANGED <<open, update, synced>>
  BY DEF CommitFails
<1>4. /\ IoOK(s) /\ s.wr.dirty /\ Holds(s.wr, op, BlockOf(DateCell))
      /\ s.rd.file \in {io.rd.file, NoFile} /\ s.wr.file \in {io.wr.file, NoFile, op}
      /\ CellsOK(s, expected, behind, StillLost(cells, s, expected))
      /\ expected \in [Files -> [Addr -> Cell]]
      /\ \A g \in Files, x \in Addr : expected[g][x] =
           IF g = op /\ x = DateCell THEN date ELSE written[g][x]
  BY <1>2, DateWritten
<1> HIDE DEF s, expected
<1>5. stamped = expected
  <2>1. DateCell \in Addr
    BY HeaderArithmetic
  <2>2. stamped \in [Files -> [Addr -> Cell]]
    BY <1>1, <1>2, <2>1 DEF Cell
  <2>3. \A g \in Files, x \in Addr : stamped[g][x] =
           IF g = op /\ x = DateCell THEN date ELSE written[g][x]
    BY <1>1, <1>2, <2>1
  <2> HIDE DEF stamped
  <2>4. ASSUME NEW g \in Files PROVE stamped[g] = expected[g]
    <3>1. stamped[g] \in [Addr -> Cell] /\ expected[g] \in [Addr -> Cell]
      BY <1>4, <2>2
    <3>2. \A x \in Addr : stamped[g][x] = expected[g][x]
      BY <1>4, <2>3
    <3> QED  BY <3>1, <3>2
  <2> QED  BY <1>4, <2>2, <2>4
<1>6. IoOK(t) /\ t.rd = s.rd /\ t.disk = s.disk /\ t.wr.file = s.wr.file
  BY <1>4, DropDirtyOK
<1>7. StillLost(cells, s, expected) \in SUBSET (Files \X Addr)
  BY <1>1 DEF StillLost
<1>8. CellsOK(t, expected, behind,
              StillLost(StillLost(cells, s, expected) \cup BlockInBuffer(s), t, expected))
  BY <1>4, <1>7, CellsDropped
<1> HIDE DEF t
<1>9. Where(op, DateCell, 1) \subseteq BlockInBuffer(s)
  <2>1. s.wr.file = op /\ s.wr.block = BlockOf(DateCell) /\ s.wr.block \in Blocks
    BY <1>4, IoFields DEF IoOK, Holds
  <2>2. DateCell \in CellsOf(s.wr.block)
    BY <2>1, HeaderArithmetic, CellsOfBlock
  <2>3. Where(op, DateCell, 1) = {op} \X {DateCell}
    BY HeaderArithmetic DEF Where
  <2> QED  BY <2>1, <2>2, <2>3 DEF BlockInBuffer
<1>10. gone = StillLost(StillLost(cells, s, expected) \cup BlockInBuffer(s), t, expected)
  BY <1>6, <1>9 DEF StillLost
<1>11. gone \subseteq Files \X Addr
  BY <1>1, <1>4, LostFacts DEF StillLost
<1>12. lost' = gone
  BY <1>3, <1>5
<1> HIDE DEF gone, behind, stamped
<1>13. behind \subseteq Files \X Addr
  BY <1>1 DEF behind
<1> QED
  BY <1>1, <1>2, <1>3, <1>4, <1>5, <1>6, <1>8, <1>10, <1>11, <1>12, <1>13, InvNext

\* ADFI_write_modification_date: what the date's flush put on the disk is what
\* the operation wrote, and the version behind the flush takes nothing away.
LEMMA CommitStep ==
  ASSUME BufferInv, NEW date \in Dates, Commit(date)
  PROVE  BufferInv'
<1>1. /\ IoOK(io) /\ io.rd.file \in open \cup {NoFile} /\ io.wr.file \in open \cup {NoFile}
      /\ open \subseteq Files /\ update \subseteq open /\ op \in open \cup {NoFile}
      /\ written \in [Files -> [Addr -> Cell]]
      /\ lost \in SUBSET (Files \X Addr) /\ bypassed \in SUBSET (Files \X Addr)
  BY InvFacts
<1>2. op \in Files /\ op \in open /\ date \in Values /\ NewVersion \in Values /\ op # NoFile
  BY <1>1, BufferAssumption DEF Commit
<1> DEFINE s == WriteFile(io, op, DateCell, 1, date)
           u == FlushBuffers(s, op)
           t == IF op \in update THEN WriteFile(u, op, VersionCell, 1, NewVersion) ELSE u
           dated == Overwritten(op, DateCell, 1, date)
           row == [x \in Addr |-> IF x = DateCell THEN date
                                  ELSE IF x = VersionCell /\ op \in update THEN NewVersion
                                  ELSE written[op][x]]
           expected == [written EXCEPT ![op] = row]
           behind == bypassed \ Where(op, DateCell, 1)
           cells == lost \ Where(op, DateCell, 1)
           gone == StillLost(cells, t, expected)
<1>3. /\ io' = t /\ written' = expected /\ bypassed' = behind /\ lost' = gone
      /\ update' = update \ {op} /\ synced' = op /\ op' = NoFile /\ open' = open
  BY DEF Commit, ModificationDate
<1>4. /\ IoOK(s)
      /\ s.rd.file \in {io.rd.file, NoFile} /\ s.wr.file \in {io.wr.file, NoFile, op}
      /\ CellsOK(s, dated, behind, StillLost(cells, s, dated))
      /\ dated \in [Files -> [Addr -> Cell]]
      /\ \A g \in Files, x \in Addr : dated[g][x] =
           IF g = op /\ x = DateCell THEN date ELSE written[g][x]
  BY <1>2, DateWritten
<1> HIDE DEF s, dated
<1>5. /\ IoOK(u) /\ u.rd = s.rd /\ u.wr.file = s.wr.file
      /\ ~(u.wr.file = op /\ u.wr.dirty)
      /\ \A g \in Files, x \in Addr, w \in Values : NoWorse(s, u, g, x, w)
  BY <1>4, FlushBuffersOK
<1> HIDE DEF u
<1>6. cells \in SUBSET (Files \X Addr) /\ behind \subseteq Files \X Addr
  BY <1>1
<1>7. CellsOK(u, dated, behind, StillLost(cells, u, dated))
  <2> HIDE DEF cells, behind
  <2> QED  BY <1>4, <1>5, <1>6, CellsStillLost
<1>8. /\ VersionCell \in Addr /\ DateCell \in Addr /\ 1 \in Nat \ {0} /\ DateCell # VersionCell
      /\ VersionCell + 1 <= NumBlocks * BlockSize
      /\ ~Crosses(VersionCell, 1) /\ Range(VersionCell, 1) = {VersionCell}
  BY HeaderArithmetic DEF DateCell, VersionCell
<1> DEFINE here == IF op \in update THEN {VersionCell} ELSE {}
<1>9. /\ expected \in [Files -> [Addr -> Cell]]
      /\ \A g \in Files, x \in Addr : expected[g][x] =
           IF g = op /\ x \in here THEN NewVersion ELSE dated[g][x]
  <2>1. row \in [Addr -> Cell] /\ \A x \in Addr : row[x] =
          IF x = DateCell THEN date ELSE IF x \in here THEN NewVersion ELSE written[op][x]
    BY <1>1, <1>2 DEF Cell
  <2>2. DateCell \notin here
    BY <1>8
  <2> HIDE DEF row, here
  <2> QED  BY <1>1, <1>2, <1>4, <2>1, <2>2
<1> HIDE DEF expected
<1>10. /\ IoOK(t)
       /\ t.rd.file \in {u.rd.file, NoFile} /\ t.wr.file \in {u.wr.file, NoFile, op}
       /\ \A g \in Files, x \in Addr, w \in Values :
            ~(g = op /\ x \in here) => NoWorse(u, t, g, x, w)
       /\ \A x \in Addr : x \in here => Fine(t, op, x, NewVersion)
  <2>1. CASE op \in update
    <3> DEFINE v == WriteFile(u, op, VersionCell, 1, NewVersion)
    <3>1. /\ IoOK(v)
          /\ \A g \in Files, x \in Addr, w \in Values :
               ~(g = op /\ x \in Range(VersionCell, 1)) => NoWorse(u, v, g, x, w)
          /\ \A x \in Addr : x \in Range(VersionCell, 1) => Fine(v, op, x, NewVersion)
      BY <1>2, <1>5, <1>8, SmallWriteOK
    <3>2. v.rd.file \in {u.rd.file, NoFile} /\ v.wr.file \in {u.wr.file, NoFile, op}
      BY <1>2, <1>5, <1>8, WriteFileBuffers
    <3>3. t = v /\ here = Range(VersionCell, 1)
      BY <1>8, <2>1
    <3> HIDE DEF v, t, here
    <3> QED  BY <3>1, <3>2, <3>3
  <2>2. CASE op \notin update
    <3>1. t = u /\ here = {}
      BY <2>2
    <3> HIDE DEF t, here
    <3> QED  BY <1>5, <3>1, NoWorseRefl
  <2> QED  BY <2>1, <2>2
<1> HIDE DEF t, here
<1>11. \A g \in Files, x \in Addr : <<g, x>> \in gone <=>
         <<g, x>> \in cells /\ t.disk[g][x] # expected[g][x]
  BY DEF StillLost
<1>12. gone \subseteq Files \X Addr
  BY <1>6 DEF StillLost
<1> HIDE DEF gone, cells, behind
<1>13. GivenTo(u, t, dated, behind, cells, op, here, NewVersion, expected, behind, gone)
  BY <1>9, <1>10, <1>11 DEF GivenTo
<1>14. CellsOK(t, expected, behind, gone)
  BY <1>2, <1>4, <1>6, <1>7, <1>13, CellsWritten
<1>15. ASSUME NEW a \in Addr \ {VersionCell}, expected[op][a] # Fill,
              <<op, a>> \notin gone, <<op, a>> \notin behind
       PROVE  t.disk[op][a] = expected[op][a]
  <2> DEFINE w == dated[op][a]
  <2>1. a \notin here /\ expected[op][a] = w
    BY <1>2, <1>9, <1>15 DEF here
  <2>2. w \in Values
    BY <1>2, <1>4, <1>15, <2>1 DEF Cell
  <2>3. CASE <<op, a>> \in cells
    BY <1>2, <1>11, <1>15, <2>3
  <2>4. CASE <<op, a>> \notin cells
    <3>1. <<op, a>> \notin StillLost(cells, u, dated)
      BY <2>4 DEF StillLost
    <3>2. Fine(u, op, a, w)
      BY <1>2, <1>7, <1>15, <2>1, <3>1 DEF CellsOK
    <3> HIDE DEF w
    <3>3. OnDisk(u, op, a, w)
      BY <1>5, <3>2 DEF Fine, OnDisk, InBuffer, Holds
    <3>4. NoWorse(u, t, op, a, w)
      BY <1>2, <1>10, <2>1, <2>2
    <3>5. OnDisk(t, op, a, w)
      BY <3>3, <3>4 DEF NoWorse
    <3> QED  BY <2>1, <3>5 DEF OnDisk
  <2> QED  BY <2>3, <2>4
<1>16. SuccessIsDurable'
  BY <1>3, <1>15 DEF SuccessIsDurable, Expected
<1>17. BuffersOfOpenFiles'
  BY <1>1, <1>2, <1>3, <1>4, <1>5, <1>10 DEF BuffersOfOpenFiles
<1>18. TypeOK'
  BY <1>1, <1>2, <1>3, <1>6, <1>9, <1>10, <1>12 DEF TypeOK, IoOK, IoType
<1> QED
  BY <1>3, <1>10, <1>14, <1>16, <1>17, <1>18 DEF BufferInv, IoOK

-----------------------------------------------------------------------------
(* The theorems.                                                           *)

\* Every step keeps the invariant.
LEMMA BufferNext ==
  ASSUME BufferInv, [Next]_vars
  PROVE  BufferInv'
<1>1. /\ open \subseteq Files /\ update \subseteq open /\ (op = NoFile \/ synced = NoFile)
      /\ op \in open \cup {NoFile} /\ NoFile \notin open
  BY InvFacts, BufferAssumption
<1>2. ASSUME NEW f \in Files, Open(f) PROVE BufferInv'
  <2>1. 0 \in Blocks
    BY SizeFacts DEF Blocks
  <2>2. io' = FillRead(io, f, 0) /\ open' = open \cup {f} /\ update' \subseteq update \cup {f}
        /\ synced' = NoFile /\ UNCHANGED <<op, written, bypassed, lost>>
    BY <1>2 DEF Open
  <2> QED  BY <1>1, <2>1, <2>2, ReadStep
<1>3. ASSUME NEW f \in Files, Begin(f) PROVE BufferInv'
  BY <1>3, QuietStep DEF Begin
<1>4. ASSUME NEW f \in Files, NEW b \in Blocks, Read(f, b) PROVE BufferInv'
  BY <1>1, <1>4, ReadStep DEF Read
<1>5. ASSUME Abort \/ EndUndated PROVE BufferInv'
  <2>1. /\ UNCHANGED <<io, open, update, written, bypassed, lost>>
        /\ op' = NoFile /\ synced' = NoFile
    BY <1>1, <1>5 DEF Abort, EndUndated
  <2> QED  BY <2>1, QuietStep
<1>6. CASE UNCHANGED vars
  BY <1>6 DEF vars, BufferInv, TypeOK, CellsOK, NothingBehind, DirtyHasFile, Fine, Gone, InBuffer,
              Holds, BuffersOfOpenFiles, SuccessIsDurable, Expected
<1>7. CASE Next
  BY <1>2, <1>3, <1>4, <1>5, <1>7, WriteStepOK, WriteFailureStep, CrossingFailureStep,
     CommitStep, CommitFailsStep, CloseStep, CloseFailsStep, CrashStep DEF Next
<1> QED
  BY <1>6, <1>7

\* The invariant of the buffers: every cell that was written is Fine or, when its
\* flush failed, Gone; no buffer is of a closed file; what the date's flush was
\* behind is on the disk.
THEOREM BufferInvariant == Spec => []BufferInv
<1>1. Init => BufferInv
  BY BufferInit
<1>2. BufferInv /\ [Next]_vars => BufferInv'
  BY BufferNext
<1> QED
  BY <1>1, <1>2, PTL DEF Spec

\* The disk, the two buffers and the histories keep their types.
THEOREM TypeCorrect == Spec => []TypeOK
<1>1. BufferInv => TypeOK
  BY DEF BufferInv
<1> QED
  BY <1>1, BufferInvariant, PTL

\* A cell that was written and neither bypassed nor lost.
LEMMA ExpectedIsFine ==
  ASSUME BufferInv, NEW f \in Files, NEW a \in Addr,
         Expected(f, a), <<f, a>> \notin bypassed
  PROVE  Fine(io, f, a, written[f][a])
BY DEF BufferInv, CellsOK, Expected

\* A small piece read at any moment is what was last written there, whether the
\* read buffer, the write buffer or the disk serves it (ADFI_read_file).
THEOREM ReadersSeeLastWrite == Spec => []SmallReadsCurrent
<1>1. ASSUME BufferInv PROVE SmallReadsCurrent
  <2> SUFFICES ASSUME NEW f \in open, NEW a \in Addr, Expected(f, a), <<f, a>> \notin bypassed
               PROVE  Readable(io, f, BlockOf(a)) /\ SmallRead(io, f, a) = written[f][a]
    BY DEF SmallReadsCurrent
  <2> DEFINE b == BlockOf(a)
             o == a % BlockSize
             w == written[f][a]
  <2>1. IoOK(io) /\ io \in IoType /\ f \in Files
    BY <1>1, InvFacts DEF IoOK
  <2>2. Fine(io, f, a, w)
    BY <1>1, <2>1, ExpectedIsFine
  <2>3. w # Fill
    BY DEF Expected
  <2>4. b \in Blocks /\ o \in Offsets /\ b * BlockSize + o = a
    BY CellArithmetic
  <2>5. io.disk[f][a] = w => a < io.len[f]
    <3> DEFINE end == NumBlocks * BlockSize
    <3>1. end \in Nat /\ io.len[f] \in 0 .. end /\ a \in Nat
      BY <2>1, SizeFacts, IoFields, CellArithmetic
    <3> HIDE DEF end
    <3>2. io.len[f] \in Nat
      BY <3>1
    <3>3. a >= io.len[f] => io.disk[f][a] = Fill
      BY <2>1 DEF IoOK, NothingBehind
    <3> QED  BY <2>3, <3>1, <3>2, <3>3
  <2>6. ReadBlock(io, f, b, io.rd.data)[o] =
          IF a < io.len[f] THEN io.disk[f][a] ELSE io.rd.data[o]
    BY <2>1, IoFields, ReadBlockCell
  <2>7. CellsRead(io, f, b) \in 0 .. BlockSize
        /\ (o < CellsRead(io, f, b) <=> b * BlockSize + o < io.len[f])
    BY <2>1, <2>4, CellsReadFacts
  <2>8. SmallRead(io, f, a) = FillRead(io, f, b).rd.data[o]
    BY DEF SmallRead
  <2>9. /\ Holds(io.wr, f, b) => io.wr.data[o] = w
        /\ ~Holds(io.wr, f, b) => io.disk[f][a] = w
        /\ ReadHit(io, f, b) => io.rd.data[o] = w
    BY <2>2 DEF Fine, InBuffer, ReadHit
  <2> DEFINE block == ReadBlock(io, f, b, io.rd.data)
             buf == [file |-> f, block |-> b, dirty |-> FALSE,
                     num |-> IF Holds(io.wr, f, b) THEN BlockSize ELSE CellsRead(io, f, b),
                     data |-> IF Holds(io.wr, f, b) THEN io.wr.data ELSE block]
  <2>10. ~ReadHit(io, f, b) => FillRead(io, f, b).rd = buf
    BY <2>1 DEF FillRead, IoType
  <2>11. buf.data = IF Holds(io.wr, f, b) THEN io.wr.data ELSE block
    OBVIOUS
  <2>12. o \in Nat /\ BlockSize \in Nat
    BY <2>4, SizeFacts DEF Offsets
  <2> HIDE DEF b, o, w, buf, block
  <2>13. Readable(io, f, b)
    BY <2>4, <2>5, <2>7, <2>9, <2>12 DEF Readable
  <2>14. FillRead(io, f, b).rd.data[o] = w
    <3>1. CASE ReadHit(io, f, b)
      BY <2>9, <3>1 DEF FillRead
    <3>2. CASE ~ReadHit(io, f, b)
      BY <2>5, <2>6, <2>9, <2>10, <2>11, <3>2 DEF block
    <3> QED  BY <3>1, <3>2
  <2> QED
    BY <2>8, <2>13, <2>14 DEF b, w
<1> QED
  BY <1>1, BufferInvariant, PTL

\* A crash can lose the last writes of one block at most, the dirty one.
THEOREM CrashLosesOneBlock == Spec => []OneBlockAtRisk
<1>1. BufferInv => OneBlockAtRisk
  BY ExpectedIsFine DEF OneBlockAtRisk, Fine, InBuffer
<1> QED
  BY <1>1, BufferInvariant, PTL

\* After the modification date, all that the operation wrote is on the disk, but
\* for the version written behind the flush (ADFI_write_modification_date).
THEOREM DateMakesDurable == Spec => []SuccessIsDurable
<1>1. BufferInv => SuccessIsDurable
  BY DEF BufferInv
<1> QED
  BY <1>1, BufferInvariant, PTL

\* The slot of a closed file is given to another file: no buffer is left of it.
THEOREM NoBufferOfClosedFile == Spec => []BuffersOfOpenFiles
<1>1. BufferInv => BuffersOfOpenFiles
  BY DEF BufferInv
<1> QED
  BY <1>1, BufferInvariant, PTL

\* A closed file has on disk all that was written to it and whose flush did not
\* fail (ADFI_close_file).
THEOREM ClosingKeepsAll == Spec => []ClosedIsComplete
<1>1. ASSUME BufferInv PROVE ClosedIsComplete
  <2>1. io.wr.file \in open \cup {NoFile}
    BY <1>1, InvFacts
  <2> QED
    BY <1>1, <2>1, ExpectedIsFine, BufferAssumption DEF ClosedIsComplete, Fine, InBuffer, Holds
<1> QED
  BY <1>1, BufferInvariant, PTL
=============================================================================
