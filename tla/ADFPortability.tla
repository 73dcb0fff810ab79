--------------------------- MODULE ADFPortability ---------------------------
(***************************************************************************)
(* A file that is carried from machine to machine, with the data of one    *)
(* node (src/adfpp/ADF_interface.c, ADF_internals.c): it is created in a   *)
(* format, written whole on one machine and read on another, through the   *)
(* conversions of NumberFormats and the places of ADFIdentifiers.          *)
(*                                                                         *)
(* What a machine holds in memory for a number (the reference) is at the   *)
(* end, apart from what the program does.                                  *)
(***************************************************************************)
EXTENDS HostNumbers, ADFIdentifiers, TLC

CONSTANTS Machines,    \* order of bytes and sizes of each
          Requests,    \* formats a file is created in
          Places,      \* where nodes can lie
          DataPlace,   \* where the data lies
          Types,       \* data types
          DataOf,      \* what is written, by type: sequences of elements
          BufferSize,  \* CONVERSION_BUFF_SIZE
          NoFile, NoData

VARIABLES machine,  \* where the program runs
          file,     \* the file header
          disk,     \* the bytes of the data, by their distance from its place
          written   \* type, values and machine of the last write that succeeded

vars == <<machine, file, disk, written>>

Init ==
  /\ machine \in Machines
  /\ file = NoFile /\ disk = <<>> /\ written = NoData

-----------------------------------------------------------------------------
(* The file header: sizes are two hexadecimal digits each, the pointer to  *)
(* the data has twelve.  The state keeps what is read from them.           *)

\* ADFI_write_file_header, then ADFI_read_file_header.
SizesRead(sizes) == [k \in DOMAIN sizes |-> Unhex(Hex(sizes[k], 255, 2), 255)]
HeaderRead(format, sizes, place) ==
  [format |-> format, sizes |-> SizesRead(sizes), at |-> FieldPointer(PointerField(place))]

\* ADF_Database_Open refuses a file that is native, or on a machine that is.
Opens(m) == file # NoFile /\ ~Incompatible(file.format, file.sizes, m)

\* ADF_Database_Open, NEW.
CreateFile(request) ==
  LET format == FormatToUse(machine, request)
  IN  /\ file = NoFile
      /\ file' = HeaderRead(format, FileSizes(machine, format), DataPlace)
      /\ UNCHANGED <<machine, disk, written>>

\* The file is copied and the program started elsewhere.
Carry(m) ==
  /\ m # machine /\ file # NoFile
  /\ machine' = m
  /\ UNCHANGED <<file, disk, written>>

-----------------------------------------------------------------------------
(* Data.  With another format than the machine's it goes through a buffer, *)
(* as many elements at a time as the buffer holds.                         *)

Start == file.at
FileSize(type) == ElementSize(type, file.sizes)
HostSize(type, m) == ElementSize(type, m.sizes)

PerPiece(type) == BufferSize \div FileSize(type)
Pieces(type, n) == (n + PerPiece(type) - 1) \div PerPiece(type)
InPiece(type, n, p) == IF p * PerPiece(type) <= n THEN PerPiece(type) ELSE n % PerPiece(type)

\* Mutant: the pointer is taken back to its block and not moved to the next one.
StayInBlock(q) == IF q.offset > BlockSize THEN Place(q.block, q.offset % BlockSize) ELSE q

\* The disk pointer is adjusted when it is behind the end of its block, not at it.
NextPiece(q) == IF q.offset > BlockSize THEN Adjusted(q) ELSE q

PieceAt(type, p) ==
  LET at[i \in 1..p] == IF i = 1 THEN Start ELSE NextPiece(Moved(at[i - 1], PerPiece(type) * FileSize(type)))
  IN  at[p]

\* A place is found on disk by its distance from the beginning of the file; bytes
\* where nothing was written are not set.
Distance(p) == (p.block - Start.block) * BlockSize + p.offset - Start.offset
Written(p, bytes) == [d \in Distance(p)..Distance(p) + Len(bytes) - 1 |-> bytes[d - Distance(p) + 1]]
BytesAt(p, n) ==
  LET d == Distance(p)
  IN  [i \in 1..n |-> IF d + i - 1 \in DOMAIN disk THEN disk[d + i - 1] ELSE Unset]

\* A piece as it is in memory.
HostPiece(type, m, bytes, n, p) ==
  LET before == (p - 1) * PerPiece(type) * HostSize(type, m)
  IN  SubSeq(bytes, before + 1, before + InPiece(type, n, p) * HostSize(type, m))

\* One turn of the loops of ADFI_write_data_translated and ADFI_read_data_translated;
\* no bytes for an error.
PieceWritten(type, bytes, n, p) ==
  ConvertNumberFormat(MachineFormat(machine), file.format, type, machine.sizes, file.sizes,
                      InPiece(type, n, p), HostPiece(type, machine, bytes, n, p))
PieceRead(type, m, n, p) ==
  ConvertNumberFormat(file.format, MachineFormat(m), type, file.sizes, m.sizes, InPiece(type, n, p),
                      BytesAt(PieceAt(type, p), InPiece(type, n, p) * FileSize(type)))

Direct(type, m) == SameBytes(type, file.format, file.sizes, m)
TooLong(type) == PerPiece(type) = 0

\* ADF_Put_Dimension_Information and ADF_Write_All_Data.  An error ends the loop; the
\* pieces before it are on disk.
WriteDirect(type, values) ==
  /\ Direct(type, machine)
  /\ disk' = Written(Start, HostBytes(machine, type, values))
  /\ written' = [type |-> type, values |-> values, by |-> machine]

WriteTooLong(type) ==
  /\ ~Direct(type, machine) /\ TooLong(type)
  /\ disk' = <<>> /\ written' = NoData

WriteTranslated(type, values) ==
  LET n == Len(values)
      bytes == HostBytes(machine, type, values)
      piece == [p \in 1..Pieces(type, n) |-> PieceWritten(type, bytes, n, p)]
      fine == {p \in DOMAIN piece : \A q \in 1..p : piece[q] # Refused}
  IN  /\ ~Direct(type, machine) /\ ~TooLong(type)
      /\ disk' = FoldLeft(LAMBDA f, p : Written(PieceAt(type, p), piece[p]) @@ f, <<>>, SetToSeq(fine))
      /\ written' = IF fine = DOMAIN piece THEN [type |-> type, values |-> values, by |-> machine] ELSE NoData

WriteAllData(type, values) ==
  /\ Opens(machine)
  /\ \/ WriteDirect(type, values)
     \/ WriteTooLong(type)
     \/ WriteTranslated(type, values)
  /\ UNCHANGED <<machine, file>>

\* ADF_Read_All_Data.
ReadAllData(type, n, m) ==
  LET piece == [p \in 1..Pieces(type, n) |-> PieceRead(type, m, n, p)]
  IN  IF Direct(type, m) THEN BytesAt(Start, n * FileSize(type))
      ELSE IF TooLong(type) THEN Refused
      ELSE IF \E p \in DOMAIN piece : piece[p] = Refused THEN Refused
      ELSE Joined(piece)

\* Bound: the data is written once; a second write would replace it whole.
NotYet == written = NoData

Next ==
  \/ \E request \in Requests : CreateFile(request)
  \/ \E m \in Machines : Carry(m)
  \/ \E type \in Types : \E values \in DataOf[type] :
       NotYet /\ AllFit(machine, type, values) /\ WriteAllData(type, values)

Spec == Init /\ [][Next]_vars

-----------------------------------------------------------------------------
(* What may become of a number between the machine that wrote it and       *)
(* another one.                                                            *)

Type == written.type
Orders(m) == {written.by.order, file.format.order, m.order}

\* The bits of the narrowest format on the way.
Precision(base, m) ==
  LET bits == {FractionBits(o, base) : o \in Orders(m)}
  IN  CHOOSE b \in bits : \A c \in bits : b <= c

\* A real too small for the machine is 0 of either sign; one too large is an error,
\* but for the powers of two next to the limits, which the code takes for normal numbers.
Limit(base) == IF base = "R4" THEN 127 ELSE 1023
OnTheEdge(base, x) == x.exp \in {Limit(base) + 1, -Limit(base)}

RealsRead(base, x, m) ==
  IF x.exp # Zero /\ x.exp < -Limit(base) /\ Orders(m) # {"C"} THEN {Nil(TRUE), Nil(FALSE)}
  ELSE {[x EXCEPT !.frac = Truncated(x.frac, Precision(base, m))]}

NumbersRead(base, x, m) ==
  CASE IsReal(base) -> RealsRead(base, x, m)
    [] IsComplex(base) -> {<<re, im>> : re \in RealsRead(PartOf(base), x[1], m),
                                        im \in RealsRead(PartOf(base), x[2], m)}
    [] OTHER -> {x}

Swaps(m) == {MachineFormat(m).order, file.format.order} = {"B", "L"}
Crosses(m) == Swaps(m) /\ MachineFormat(m).bits # file.format.bits

\* A member whose token was overwritten: what follows is read and written elsewhere.
LosesTokens(type) == \E i \in 1..Len(type) - 1 : type[i].array = 0
Misplaced(m) == LosesTokens(Type) /\ ~(Direct(Type, m) /\ Direct(Type, written.by))

\* The exponent 1024 of a Cray has a bit more than the two that are copied.
BitLost(base, x, m) == base = "R8" /\ x.exp = 1023 /\ "C" \in Orders(m)

\* The parts of a complex number are exchanged with the bytes.
Exchanged(base, m) == IsComplex(base) /\ Swaps(m) # Swaps(written.by)

\* The error of an unsigned number of another size is lost.
ErrorLost(base, m) == base = "U8" /\ (Crosses(m) \/ Crosses(written.by))

\* A machine of the format of the file.
FileMachine == [order |-> file.format.order, sizes |-> file.sizes]

\* A number the file or the machine cannot hold, of which the last bytes are left; and
\* the zero with a sign, which a Cray takes for a number.
Unrepresentable(base, x, m) ==
  CASE IsInteger(base) -> ~Fits(m, base, x) \/ ~Fits(FileMachine, base, x)
    [] IsReal(base) ->
         \/ x.neg /\ m.order = "C" /\ (x.exp = Zero \/ x.exp < -Limit(base))
         \/ OnTheEdge(base, x) /\ Orders(m) # {"C"}
    [] IsComplex(base) -> \E i \in 1..2 : x[i].exp = Zero /\ x[i].neg /\ m.order = "C"
    [] OTHER -> FALSE

\* The bytes of the k-th number of element e.
NumberAt(bytes, m, e, k) ==
  LET bases == Bases(Type)
      at[i \in 1..Len(bases) + 1] == IF i = 1 THEN (e - 1) * HostSize(Type, m) ELSE at[i - 1] + Size(bases[i - 1], m.sizes)
  IN  SubSeq(bytes, at[k] + 1, at[k + 1])

Survives(m, excused(_, _)) ==
  LET read == ReadAllData(Type, Len(written.values), m)
  IN  read # Refused =>
        \A e \in DOMAIN written.values : \A k \in DOMAIN Bases(Type) :
          LET base == Bases(Type)[k]
              x == written.values[e][k]
          IN  \/ excused(base, x)
              \/ NumberAt(read, m, e, k) \in {NumberBytes(m, base, y) : y \in NumbersRead(base, x, m)}

-----------------------------------------------------------------------------
(* Properties.                                                             *)

TypeOK ==
  /\ machine \in Machines
  /\ file # NoFile => /\ file.format.order \in {"B", "L", "C", "N"}
                      /\ \A k \in DOMAIN file.sizes : file.sizes[k] \in 1..16
  /\ written # NoData => DOMAIN disk = 0..Len(written.values) * FileSize(Type) - 1

\* Numbers written on one machine are read on another as the same numbers, to the
\* precision of the formats on the way, or with an error; but for the cases named above.
NumbersSurvive ==
  written # NoData /\ Opens(machine) =>
    LET excused(base, x) == Misplaced(machine) \/ Exchanged(base, machine) \/ ErrorLost(base, machine)
                            \/ BitLost(base, x, machine) \/ Unrepresentable(base, x, machine)
    IN  Survives(machine, excused)

\* Every place of the file has its own identifier on every machine, which leads back
\* to it, and is never the one the library refuses.
PlacesFound ==
  \A slot \in 0..1, place \in Places :
    LET id == ID(MachineFormat(machine).order, slot, place)
    IN  /\ FileOf(MachineFormat(machine).order, id) = slot
        /\ PlaceOf(MachineFormat(machine).order, id) = place
        /\ ~IsZero(id)
=============================================================================
