--------------------------- MODULE ADFBlockBuffer ---------------------------
(***************************************************************************)
(* The block buffers of the ADF core (adfpp/ADF_internals.c).              *)
(*                                                                         *)
(* All file I/O of the library goes through ADFI_read_file and             *)
(* ADFI_write_file.  They share two buffers of one disk block each, ONE    *)
(* for reading and ONE for writing, for ALL the open files together.  A    *)
(* piece of data that fits in one block is served from the buffers; a      *)
(* piece that crosses a block boundary goes to the disk directly.          *)
(*                                                                         *)
(* The bytes of a file are grouped in cells; a block has BlockSize of      *)
(* them.  `written' is a history variable: what the library's callers last *)
(* wrote at each address, which is what they expect to read back.          *)
(***************************************************************************)
EXTENDS Integers, FiniteSets

CONSTANTS Files,        \* the slots of the file table
          NumBlocks,    \* bound on the length of a file, in blocks
          BlockSize,    \* DISK_BLOCK_SIZE, in cells
          Values,       \* the contents a cell may be given
          Dates,        \* those of them that are modification dates
          OldVersion, NewVersion,   \* two of them: what the version cell holds
          Pieces,       \* <<address, cells>>: what operations write to each file
          OldFiles,     \* the files whose header holds an older library version
          MayFail,      \* TRUE: a write of the buffer to the disk may fail
          Fill,         \* what pads a block nobody wrote
          NoFile

Addr == 0 .. NumBlocks * BlockSize - 1

VersionCell == 0        \* the "what" string, first field of the file header
DateCell == 1           \* the modification date, in block 0 too

ASSUME BufferAssumption ==
  /\ NumBlocks \in Nat \ {0} /\ BlockSize \in Nat \ {0, 1}
  /\ \A f \in Files : Pieces[f] \subseteq {r \in Addr \X (1 .. NumBlocks * BlockSize) :
                                          r[1] + r[2] <= NumBlocks * BlockSize}
  /\ OldFiles \subseteq Files
  /\ Dates \subseteq Values /\ NewVersion \in Values /\ OldVersion \in Values \ {NewVersion}
  /\ MayFail \in BOOLEAN
  /\ Fill \notin Values /\ NoFile \notin Files

VARIABLES io,         \* the disk and the two buffers
          open,       \* file_in_use
          update,     \* the files whose file_version_update string is not empty
          op,         \* the file the running operation writes to, or NoFile
          written,    \* history: the last cell contents callers wrote
          bypassed,   \* history: cells written behind a clean write buffer
          lost,       \* history: cells whose flush failed (error returned)
          synced      \* history: the file of the operation that just wrote its date

vars == <<io, open, update, op, written, bypassed, lost, synced>>

Offsets == 0 .. BlockSize - 1
Blocks == 0 .. NumBlocks - 1
Cell == Values \cup {Fill}

NoBuf == [file |-> NoFile, block |-> 0, num |-> 0, dirty |-> FALSE,
          data |-> [o \in Offsets |-> Fill]]

Buffer == [file : Files \cup {NoFile}, block : Blocks, num : 0 .. BlockSize,
           dirty : BOOLEAN, data : [Offsets -> Cell]]

BlockOf(a) == a \div BlockSize
Crosses(a, n) == (a % BlockSize) + n > BlockSize
CellsOf(b) == b * BlockSize .. b * BlockSize + BlockSize - 1
Range(a, n) == a .. a + n - 1

Maximum(i, j) == IF i >= j THEN i ELSE j

\* The end_block of ADFI_write_file: one more than the last block touched.
EndBlock(a, n) == BlockOf(a) + ((a % BlockSize) + n) \div BlockSize + 1

Overlaps(buf, f, a, n) == buf.file = f /\ buf.block \in BlockOf(a) .. EndBlock(a, n)

Holds(buf, f, b) == buf.file = f /\ buf.block = b

\* How many cells a read of a whole block returns: less than a block at the end.
CellsRead(s, f, b) ==
  IF s.len[f] >= (b + 1) * BlockSize THEN BlockSize
  ELSE Maximum(0, s.len[f] - b * BlockSize)

-----------------------------------------------------------------------------
(* The two layers below: reading a block from disk, writing to it.         *)

\* A short read leaves the rest of the buffer as it was (`tail').
ReadBlock(s, f, b, tail) ==
  [o \in Offsets |-> IF o < CellsRead(s, f, b) THEN s.disk[f][b * BlockSize + o]
                     ELSE tail[o]]

\* n cells at a become what `content' says; a gap before them is a hole.
WriteDisk(s, f, a, n, content) ==
  [s EXCEPT !.disk[f] = [x \in Addr |-> IF x \in Range(a, n) THEN content[x] ELSE @[x]],
            !.len[f] = Maximum(@, a + n)]

\* The dirty block goes to disk and is no longer dirty.
WriteBack(s) ==
  [WriteDisk(s, s.wr.file, s.wr.block * BlockSize, BlockSize,
             [x \in CellsOf(s.wr.block) |-> s.wr.data[x % BlockSize]])
     EXCEPT !.wr.dirty = FALSE]

-----------------------------------------------------------------------------
(* ADFI_write_file, ADFI_read_file and ADFI_flush_buffers, as functions    *)
(* from an I/O state to the next one.                                      *)

\* Mutant: a crossing write does not look at the block it starts in.
NeedsFlushOtherBlock(s, f, a, n) == s.wr.dirty /\ ~Holds(s.wr, f, BlockOf(a))

\* The write must move the dirty block out of the way first.
NeedsFlush(s, f, a, n) ==
  s.wr.dirty /\ (Crosses(a, n) \/ ~Holds(s.wr, f, BlockOf(a)))

\* Mutant: only the first block of the write is compared with the read buffer.
ResetReadFirstBlock(s, f, a, n) ==
  IF Holds(s.rd, f, BlockOf(a)) THEN [s EXCEPT !.rd = NoBuf] ELSE s

ResetRead(s, f, a, n) == IF Overlaps(s.rd, f, a, n) THEN [s EXCEPT !.rd = NoBuf] ELSE s

FlushForWrite(s, f, a, n) ==
  IF ~NeedsFlush(s, f, a, n) THEN s
  ELSE IF Overlaps(s.wr, f, a, n) THEN [WriteBack(s) EXCEPT !.wr = NoBuf]
  ELSE WriteBack(s)

LoadWrite(s, f, b) ==
  IF Holds(s.wr, f, b) THEN s
  ELSE [s EXCEPT !.wr = [file |-> f, block |-> b, num |-> BlockSize, dirty |-> FALSE,
                         data |-> ReadBlock(s, f, b, [o \in Offsets |-> Fill])]]

IntoBuffer(s, a, n, v) ==
  [s EXCEPT !.wr.dirty = TRUE,
            !.wr.data = [o \in Offsets |->
               IF s.wr.block * BlockSize + o \in Range(a, n) THEN v ELSE @[o]]]

WriteFile(s, f, a, n, v) ==
  LET t == FlushForWrite(ResetRead(s, f, a, n), f, a, n)
  IN IF Crosses(a, n) THEN WriteDisk(t, f, a, n, [x \in Range(a, n) |-> v])
     ELSE IntoBuffer(LoadWrite(t, f, BlockOf(a)), a, n, v)

\* The write of the dirty block fails: it is marked clean all the same.
WriteFileFails(s, f, a, n) == [ResetRead(s, f, a, n) EXCEPT !.wr.dirty = FALSE]

FlushBuffers(s, f) == IF s.wr.file = f /\ s.wr.dirty THEN WriteBack(s) ELSE s

\* Mutants: the read buffer of a closed file stays; a dirty block is dropped.
FlushCloseWriteOnly(s, f) ==
  LET t == FlushBuffers(s, f) IN [t EXCEPT !.wr = IF @.file = f THEN NoBuf ELSE @]

FlushCloseDrop(s, f) ==
  [s EXCEPT !.wr = IF @.file = f THEN NoBuf ELSE @, !.rd = IF @.file = f THEN NoBuf ELSE @]

FlushClose(s, f) ==
  LET t == FlushBuffers(s, f)
  IN [t EXCEPT !.wr = IF @.file = f THEN NoBuf ELSE @,
               !.rd = IF @.file = f THEN NoBuf ELSE @]

ReadHit(s, f, b) == Holds(s.rd, f, b) /\ s.rd.num = BlockSize

\* Only a block with something in it can be read (FREAD_ERROR otherwise).
Readable(s, f, b) == ReadHit(s, f, b) \/ Holds(s.wr, f, b) \/ CellsRead(s, f, b) > 0

FillRead(s, f, b) ==
  IF ReadHit(s, f, b) THEN s
  ELSE [s EXCEPT !.rd =
          [file |-> f, block |-> b, dirty |-> FALSE,
           num |-> IF Holds(s.wr, f, b) THEN BlockSize ELSE CellsRead(s, f, b),
           data |-> IF Holds(s.wr, f, b) THEN s.wr.data ELSE ReadBlock(s, f, b, s.rd.data)]]

\* What a caller that reads address a gets: a small piece, a piece that crosses.
SmallRead(s, f, a) == FillRead(s, f, BlockOf(a)).rd.data[a % BlockSize]
CrossRead(s, f, a) == s.disk[f][a]

-----------------------------------------------------------------------------
(* The operations of the library, as far as I/O goes: one operation runs   *)
(* at a time and writes to one file; it reads from any open file.          *)

InitialCell(f, a) ==
  IF a >= BlockSize THEN Fill
  ELSE IF a = VersionCell /\ f \notin OldFiles THEN NewVersion ELSE OldVersion

\* Files that exist on disk, one block long, and are not open.
Init ==
  /\ io = [disk |-> [f \in Files |-> [a \in Addr |-> InitialCell(f, a)]],
           len |-> [f \in Files |-> BlockSize], rd |-> NoBuf, wr |-> NoBuf]
  /\ open = {} /\ update = {} /\ op = NoFile
  /\ written = [f \in Files |-> [a \in Addr |-> InitialCell(f, a)]]
  /\ bypassed = {} /\ lost = {} /\ synced = NoFile

\* ADF_Database_Open of an existing file: the header of another version than
\* the library's makes it remember to update the version.
Open(f) ==
  /\ op = NoFile /\ f \notin open
  /\ io' = FillRead(io, f, 0)
  /\ open' = open \cup {f}
  /\ update' = IF SmallRead(io, f, VersionCell) = NewVersion THEN update ELSE update \cup {f}
  /\ synced' = NoFile
  /\ UNCHANGED <<op, written, bypassed, lost>>

\* An operation that changes file f starts.
Begin(f) ==
  /\ op = NoFile /\ f \in open
  /\ op' = f /\ synced' = NoFile
  /\ UNCHANGED <<io, open, update, written, bypassed, lost>>

\* Any operation, or a step of the running one, reads a small piece.
Read(f, b) ==
  /\ f \in open /\ Readable(io, f, b)
  /\ io' = FillRead(io, f, b) /\ synced' = NoFile
  /\ UNCHANGED <<open, update, op, written, bypassed, lost>>

Where(f, a, n) == {f} \X Range(a, n)

\* A crossing write goes behind a write buffer that is clean yet current.
Behind(s, f, a, n) ==
  IF Crosses(a, n) /\ ~s.wr.dirty /\ s.wr.file = f
  THEN Where(f, a, n) \cap ({f} \X CellsOf(s.wr.block)) ELSE {}

BlockInBuffer(s) == {s.wr.file} \X CellsOf(s.wr.block)

\* Only what the disk does not have is lost, and no longer once it does: the block
\* that could not be written may still be the one in the buffer.
StillLost(cells, s, expected) ==
  {x \in cells : s.disk[x[1]][x[2]] # expected[x[1]][x[2]]}

Overwritten(f, a, n, v) ==
  [written EXCEPT ![f] = [x \in Addr |-> IF x \in Range(a, n) THEN v ELSE @[x]]]

Write(f, a, n, v) ==
  LET t == WriteFile(io, f, a, n, v)
  IN /\ io' = t
     /\ written' = Overwritten(f, a, n, v)
     /\ bypassed' = (bypassed \ Where(f, a, n)) \cup Behind(io, f, a, n)
     /\ lost' = StillLost(lost \ Where(f, a, n), t, written)

WriteStep(r, v) ==
  /\ op # NoFile /\ r \in Pieces[op]
  /\ Write(op, r[1], r[2], v)
  /\ UNCHANGED <<open, update, op, synced>>

\* The write needs the buffer, and the buffer cannot be written: FWRITE_ERROR.
WriteFailure(r) ==
  /\ MayFail /\ op # NoFile /\ r \in Pieces[op] /\ NeedsFlush(io, op, r[1], r[2])
  /\ io' = WriteFileFails(io, op, r[1], r[2])
  /\ lost' = StillLost(lost \cup BlockInBuffer(io), io', written)
  /\ op' = NoFile
  /\ UNCHANGED <<open, update, written, bypassed, synced>>

\* A crossing write stops after k cells: FWRITE_ERROR, and these are written.
CrossingWriteFailure(r, v, k) ==
  /\ MayFail /\ op # NoFile /\ r \in Pieces[op] /\ Crosses(r[1], r[2]) /\ k < r[2]
  /\ LET s == FlushForWrite(ResetRead(io, op, r[1], r[2]), op, r[1], r[2])
     IN io' = IF k = 0 THEN s ELSE WriteDisk(s, op, r[1], k, [x \in Range(r[1], k) |-> v])
  /\ written' = Overwritten(op, r[1], k, v)
  /\ bypassed' = (bypassed \ Where(op, r[1], k))
                   \cup (Behind(io, op, r[1], r[2]) \cap Where(op, r[1], k))
  /\ lost' = StillLost(lost \ Where(op, r[1], k), io', written')
  /\ op' = NoFile
  /\ UNCHANGED <<open, update, synced>>

\* The operation fails for another reason after some of its writes.
Abort ==
  /\ op # NoFile /\ op' = NoFile
  /\ UNCHANGED <<io, open, update, written, bypassed, lost, synced>>

\* Mutant: the date is written to the buffer, and no flush follows.
ModificationDateUnflushed(s, f, date) == WriteFile(s, f, DateCell, 1, date)

ModificationDate(s, f, date) == FlushBuffers(WriteFile(s, f, DateCell, 1, date), f)

\* ADFI_write_modification_date: the date, a flush, then the pending version.
Commit(date) ==
  /\ op # NoFile
  /\ LET s == ModificationDate(io, op, date)
         mentioned == Where(op, DateCell, 1)
     IN /\ io' = IF op \in update THEN WriteFile(s, op, VersionCell, 1, NewVersion) ELSE s
        /\ written' = [written EXCEPT ![op] =
             [x \in Addr |-> IF x = DateCell THEN date
                             ELSE IF x = VersionCell /\ op \in update THEN NewVersion ELSE @[x]]]
        /\ bypassed' = bypassed \ mentioned
        /\ lost' = StillLost(lost \ mentioned, io', written')
  /\ update' = update \ {op} /\ synced' = op /\ op' = NoFile
  /\ UNCHANGED open

\* The flush behind the date fails: the version is not written and stays pending.
CommitFails(date) ==
  /\ MayFail /\ op # NoFile /\ ~NeedsFlush(io, op, DateCell, 1)
  /\ LET s == WriteFile(io, op, DateCell, 1, date)
     IN /\ io' = [s EXCEPT !.wr.dirty = FALSE]
        /\ written' = [written EXCEPT ![op][DateCell] = date]
        /\ lost' = StillLost(lost \cup BlockInBuffer(s), io', written')
  /\ bypassed' = bypassed \ Where(op, DateCell, 1)
  /\ op' = NoFile
  /\ UNCHANGED <<open, update, synced>>

\* An operation that ends without a modification date (ADF_Move_Child,
\* ADF_Database_Set_Format).
EndUndated ==
  /\ op # NoFile /\ op' = NoFile
  /\ UNCHANGED <<io, open, update, written, bypassed, lost, synced>>

\* Mutant: the slot keeps its pending version update.
CloseKeepsUpdate(f) ==
  /\ op = NoFile /\ f \in open
  /\ io' = FlushClose(io, f)
  /\ lost' = StillLost(lost, io', written)
  /\ open' = open \ {f} /\ synced' = NoFile
  /\ UNCHANGED <<update, op, written, bypassed>>

\* ADFI_close_file.
Close(f) ==
  /\ op = NoFile /\ f \in open
  /\ io' = FlushClose(io, f)
  /\ lost' = StillLost(lost, io', written)
  /\ open' = open \ {f} /\ update' = update \ {f} /\ synced' = NoFile
  /\ UNCHANGED <<op, written, bypassed>>

\* The flush of the close fails: the file is closed all the same.
CloseFails(f) ==
  /\ MayFail /\ op = NoFile /\ f \in open /\ io.wr.file = f /\ io.wr.dirty
  /\ io' = FlushClose([io EXCEPT !.wr.dirty = FALSE], f)
  /\ lost' = StillLost(lost \cup BlockInBuffer(io), io', written)
  /\ open' = open \ {f} /\ update' = update \ {f} /\ synced' = NoFile
  /\ UNCHANGED <<op, written, bypassed>>

\* The process dies: what is on the disk is what the files are from now on.
Crash ==
  /\ open # {}
  /\ io' = [io EXCEPT !.rd = NoBuf, !.wr = NoBuf]
  /\ open' = {} /\ update' = {} /\ op' = NoFile /\ synced' = NoFile
  /\ written' = io.disk /\ bypassed' = {} /\ lost' = {}

AllPieces == UNION {Pieces[f] : f \in Files}

Next ==
  \/ \E f \in Files : Open(f) \/ Begin(f) \/ Close(f) \/ CloseFails(f)
  \/ \E f \in Files, b \in Blocks : Read(f, b)
  \/ \E r \in AllPieces, v \in Values : WriteStep(r, v)
  \/ \E r \in AllPieces : WriteFailure(r)
  \/ \E r \in AllPieces, v \in Values, k \in Offsets : CrossingWriteFailure(r, v, k)
  \/ \E date \in Dates : Commit(date) \/ CommitFails(date)
  \/ Abort \/ EndUndated \/ Crash

Spec == Init /\ [][Next]_vars

-----------------------------------------------------------------------------
(* Properties.                                                             *)

TypeOK ==
  /\ io \in [disk : [Files -> [Addr -> Cell]], len : [Files -> 0 .. NumBlocks * BlockSize],
             rd : Buffer, wr : Buffer]
  /\ open \subseteq Files /\ update \subseteq open
  /\ op \in open \cup {NoFile} /\ synced \in Files \cup {NoFile}
  /\ written \in [Files -> [Addr -> Cell]]
  /\ bypassed \subseteq Files \X Addr /\ lost \subseteq Files \X Addr

Expected(f, a) == written[f][a] # Fill /\ <<f, a>> \notin lost

\* A small piece read at any moment, in the middle of an operation too, is
\* what was last written there, whichever of the two buffers or the disk
\* serves it; but for cells a crossing write put behind a clean write buffer.
SmallReadsCurrent ==
  \A f \in open, a \in Addr :
    Expected(f, a) /\ <<f, a>> \notin bypassed =>
      /\ Readable(io, f, BlockOf(a))
      /\ SmallRead(io, f, a) = written[f][a]

\* At any moment the disk lacks the last writes of at most one block of one
\* file, the dirty write buffer: this is all that a crash can lose.
OneBlockAtRisk ==
  \A f \in Files, a \in Addr :
    Expected(f, a) /\ <<f, a>> \notin bypassed /\ io.disk[f][a] # written[f][a] =>
      /\ io.wr.dirty /\ Holds(io.wr, f, BlockOf(a))
      /\ io.wr.data[a % BlockSize] = written[f][a]

\* The comment of ADFI_write_file: the modification date flushes the buffer
\* after any write operation, so an operation that wrote the date has put all
\* it wrote on the disk; but for the version, which it writes behind the flush.
SuccessIsDurable ==
  synced # NoFile =>
    \A a \in Addr \ {VersionCell} : Expected(synced, a) /\ <<synced, a>> \notin bypassed =>
                       io.disk[synced][a] = written[synced][a]

\* A buffer never outlives the file it was filled from: closing a file (its
\* slot is given to another file next) leaves no block of it in a buffer.
BuffersOfOpenFiles == {io.rd.file, io.wr.file} \subseteq open \cup {NoFile}

\* A file that is closed has on disk all that was written to it.
ClosedIsComplete ==
  \A f \in Files \ open, a \in Addr :
    Expected(f, a) /\ <<f, a>> \notin bypassed => io.disk[f][a] = written[f][a]

\* "If the write buffer overlaps the buffer then reset it to make sure its
\* current": no write, crossing or not, is hidden or undone by the buffers.
WriteBufferCurrent ==
  \A f \in open, a \in Addr : Expected(f, a) => SmallRead(io, f, a) = written[f][a]
=============================================================================
