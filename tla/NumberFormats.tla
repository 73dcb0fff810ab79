---------------------------- MODULE NumberFormats ---------------------------
(***************************************************************************)
(* The number formats of ADF files and the conversions between them        *)
(* (src/adfpp/ADF_internals.c), as functions on sequences of bytes.        *)
(*                                                                         *)
(* A format is the letter of its byte order, "B" for IEEE big endian, "L"  *)
(* for little endian, "C" for Cray, with the word size; "N" is the native  *)
(* format of a machine the library does not know.                          *)
(***************************************************************************)
EXTENDS Integers, Sequences, SequencesExt

Format(order, bits) == [order |-> order, bits |-> bits]

Known == <<Format("B", 32), Format("L", 32), Format("B", 64), Format("L", 64), Format("C", 64)>>

\* machine_sizes: what a file in a format has that this machine does not.
KnownSizes(f) ==
  CASE f.order = "C" -> [int |-> 8, long |-> 8, float |-> 8, double |-> 8, pointer |-> 8]
    [] f.bits = 32   -> [int |-> 4, long |-> 4, float |-> 4, double |-> 8, pointer |-> 4]
    [] OTHER         -> [int |-> 4, long |-> 8, float |-> 4, double |-> 8, pointer |-> 8]

\* ADFI_figure_machine_format.  A machine is an order of bytes and the sizes of its
\* types; the bit patterns it is tried for show the order and the sizes of the numbers.
Matches(machine, f) ==
  /\ machine.order = f.order
  /\ \A k \in {"int", "long", "float", "double"} : machine.sizes[k] = KnownSizes(f)[k]

MachineFormat(machine) ==
  LET found == SelectSeq(Known, LAMBDA f : Matches(machine, f))
  IN  IF found # <<>> /\ KnownSizes(Head(found)) = machine.sizes THEN Head(found)
      ELSE Format("N", IF machine.sizes.pointer >= 8 THEN 64 ELSE 32)

FormatToUse(machine, request) == IF request.order = "N" THEN MachineFormat(machine) ELSE request

\* ADFI_fill_initial_file_header.
FileSizes(machine, f) ==
  IF f = MachineFormat(machine) \/ f.order = "N" THEN machine.sizes ELSE KnownSizes(f)

-----------------------------------------------------------------------------
(* Data types.  A type is a sequence of members: a base type, and how many *)
(* of it with an array, 0 for a member without "[...]".                    *)

Size(base, sizes) ==
  CASE base \in {"I4", "U4"} -> sizes.int
    [] base \in {"I8", "U8"} -> sizes.long
    [] base = "R4" -> sizes.float
    [] base = "R8" -> sizes.double
    [] base = "X4" -> 2 * sizes.float
    [] base = "X8" -> 2 * sizes.double
    [] base \in {"C1", "B1"} -> 1

Times(member) == IF member.array = 0 THEN 1 ELSE member.array

\* The bytes of a whole element: the totals, and what ends the list of tokens.
ElementSize(type, sizes) ==
  LET upto[i \in 0..Len(type)] == IF i = 0 THEN 0 ELSE upto[i - 1] + Times(type[i]) * Size(type[i].base, sizes)
  IN  upto[Len(type)]

\* ADFI_evaluate_datatype.  The token of a member without an array that is not the
\* last one is overwritten by the next.
Tokens(type) ==
  LET kept == SelectSeq([i \in DOMAIN type |-> i], LAMBDA i : type[i].array # 0 \/ i = Len(type))
  IN  [k \in DOMAIN kept |-> type[kept[k]]]

\* ADFI_file_and_machine_compare: whether bytes can be copied as they are.
SameBytes(type, file, fileSizes, machine) ==
  LET own == MachineFormat(machine)
  IN  \/ file = own
      \/ /\ file.order = own.order
         /\ ElementSize(type, fileSizes) = ElementSize(type, machine.sizes)
         /\ \A i \in DOMAIN Tokens(type) :
              Size(Tokens(type)[i].base, fileSizes) = Size(Tokens(type)[i].base, machine.sizes)

\* MACHINE_FILE_INCOMPATABLE: one of the two is native and the sizes differ.
Incompatible(file, fileSizes, machine) ==
  /\ "N" \in {file.order, MachineFormat(machine).order}
  /\ file.order # "N" \/ fileSizes # machine.sizes

-----------------------------------------------------------------------------
Joined(seqs) ==
  LET upto[i \in 0..Len(seqs)] == IF i = 0 THEN <<>> ELSE upto[i - 1] \o seqs[i]
  IN  upto[Len(seqs)]

(* One number.  No bytes: the conversion ends with an error.               *)

Refused == <<>>

\* A byte nobody has set.
Unset == 256
Unknown(n) == [i \in 1..n |-> Unset]

Bit(byte, b) == (byte \div b) % 2
Zeros(n) == [i \in 1..n |-> 0]
AllZero(bytes, n) == \A i \in 1..n : bytes[i] = 0

SignFill(bytes, n) == [i \in 1..n |-> IF Bit(bytes[1], 128) = 1 THEN 255 ELSE 0] \o bytes
Last4(bytes) == SubSeq(bytes, Len(bytes) - 3, Len(bytes))

\* ADFI_big_endian_32_swap_64, and ADFI_little_endian_32_swap_64 the other way around.
Resized(base, n, bytes) ==
  CASE n = Len(bytes) -> bytes
    [] base # "I8"    -> Refused
    [] n > Len(bytes) -> SignFill(bytes, 4)
    [] OTHER          -> Last4(bytes)

\* ADFI_big_little_endian_swap: the bytes of the type as one number, a complex one too.
Swapped(bytes) == Reverse(bytes)

Halves(bytes) == <<SubSeq(bytes, 1, Len(bytes) \div 2), SubSeq(bytes, Len(bytes) \div 2 + 1, Len(bytes))>>

\* Reals of a Cray have an exponent of 15 bits, with the offset 2^14, and a fraction of
\* 48 bits of which the first is a one; an IEEE fraction leaves it out.
ToCrayR4(b) ==
  LET exp == (b[1] % 64) * 2 + Bit(b[2], 128) - (IF Bit(b[1], 64) = 0 THEN 128 ELSE 0) + 2
  IN  IF AllZero(b, 4) THEN Zeros(8)
      ELSE <<Bit(b[1], 128) * 128 + (IF exp < 0 THEN 63 ELSE 64), exp % 256,
             128 + (b[2] % 128), b[3], b[4], 0, 0, 0>>

\* Mutant: the exponent moves by one.
ToCrayR8ByOne(b) ==
  LET exp == (b[1] % 64) * 16 + b[2] \div 16 - (IF Bit(b[1], 64) = 0 THEN 1024 ELSE 0) + 1
  IN  IF AllZero(b, 4) THEN Zeros(8)
      ELSE <<Bit(b[1], 128) * 128 + ((exp \div 256) % 4) + (IF exp < 0 THEN 60 ELSE 64), exp % 256,
             128 + (b[2] % 16) * 8 + b[3] \div 32>>
           \o [i \in 1..5 |-> (b[i + 2] % 32) * 8 + b[i + 3] \div 32]

ToCrayR8(b) ==
  LET exp == (b[1] % 64) * 16 + b[2] \div 16 - (IF Bit(b[1], 64) = 0 THEN 1024 ELSE 0) + 2
  IN  IF AllZero(b, 4) THEN Zeros(8)
      ELSE <<Bit(b[1], 128) * 128 + ((exp \div 256) % 4) + (IF exp < 0 THEN 60 ELSE 64), exp % 256,
             128 + (b[2] % 16) * 8 + b[3] \div 32>>
           \o [i \in 1..5 |-> (b[i + 2] % 32) * 8 + b[i + 3] \div 32]

FromCrayR4(b) ==
  LET exp == b[2] + (b[1] % 64) * 256 - (IF Bit(b[1], 64) = 0 THEN 16384 ELSE 0) - 2
  IN  CASE AllZero(b, 8) -> Zeros(4)
        [] ~AllZero(b, 8) /\ exp >= 128 -> Refused
        [] ~AllZero(b, 8) /\ exp < -128 -> Zeros(4)
        [] OTHER -> <<Bit(b[1], 128) * 128 + (exp % 128) \div 2 + (IF exp >= 0 THEN 64 ELSE 0),
                      (exp % 2) * 128 + (b[3] % 128), b[4], b[5]>>

\* A number too small is 0; minus[1] is its sign byte, which the function for
\* little-endian files leaves as it is.
FromCrayR8(b, minus) ==
  LET bits == b[2] + (b[1] % 64) * 256
      exp == bits - (IF bits # 0 /\ Bit(b[1], 64) = 0 THEN 16384 ELSE 0) - 2
  IN  CASE AllZero(b, 4) -> Zeros(8)
        [] ~AllZero(b, 4) /\ exp >= 1024 -> Refused
        [] ~AllZero(b, 4) /\ exp < -1024 -> <<IF minus THEN Bit(b[1], 128) * 128 ELSE 0>> \o Zeros(7)
        [] OTHER -> <<Bit(b[1], 128) * 128 + (exp % 1024) \div 16 + (IF exp >= 0 THEN 64 ELSE 0),
                      (exp % 16) * 16 + (b[3] % 128) \div 8>>
                    \o [i \in 1..5 |-> (b[i + 2] % 8) * 32 + b[i + 3] \div 8]
                    \o <<(b[8] % 8) * 32>>

\* Both parts of a complex number; an error in one of them is an error.
Parts(re, im) == IF Refused \in {re, im} THEN Refused ELSE re \o im

\* ADFI_big_endian_to_cray.
BigToCray(base, b) ==
  CASE base \in {"C1", "B1"} -> b
    [] base = "I4" -> SignFill(b, 4)
    [] base = "U4" -> Zeros(4) \o b
    [] base = "I8" -> SignFill(b, 8 - Len(b))
    [] base = "U8" -> Zeros(8 - Len(b)) \o b
    [] base = "R4" -> ToCrayR4(b)
    [] base = "R8" -> ToCrayR8(b)
    [] base = "X4" -> Parts(ToCrayR4(Halves(b)[1]), ToCrayR4(Halves(b)[2]))
    [] base = "X8" -> Parts(ToCrayR8(Halves(b)[1]), ToCrayR8(Halves(b)[2]))

\* ADFI_little_endian_to_cray: each part of a complex number is turned around.
LittleToCray(base, b) ==
  IF base \in {"X4", "X8"} THEN BigToCray(base, Reverse(Halves(b)[1]) \o Reverse(Halves(b)[2]))
  ELSE BigToCray(base, Reverse(b))

\* ADFI_cray_to_big_endian.
CrayTo(base, n, b, minus) ==
  CASE base \in {"C1", "B1"} -> b
    [] base \in {"I4", "U4"} -> Last4(b)
    [] base \in {"I8", "U8"} -> SubSeq(b, 9 - n, 8)
    [] base = "R4" -> FromCrayR4(b)
    [] base = "R8" -> FromCrayR8(b, minus)
    [] base = "X4" -> Parts(FromCrayR4(Halves(b)[1]), FromCrayR4(Halves(b)[2]))
    [] base = "X8" -> Parts(FromCrayR8(Halves(b)[1], minus), FromCrayR8(Halves(b)[2], minus))

CrayToBig(base, n, b) == CrayTo(base, n, b, FALSE)

\* ADFI_cray_to_little_endian.
CrayToLittle(base, n, b) ==
  LET big == CrayTo(base, n, b, TRUE)
  IN  IF base \in {"X4", "X8"} /\ big # Refused THEN Reverse(Halves(big)[1]) \o Reverse(Halves(big)[2])
      ELSE Reverse(big)

\* Both steps of a change of byte order and word size: the error of the first is
\* lost, and the second one takes the bytes that were never set.
ResizedThenSwapped(order, base, n, b) ==
  LET resized == IF order = "B" THEN Resized(base, n, b) ELSE Reverse(Resized(base, n, Reverse(b)))
  IN  Swapped(IF resized = Refused THEN Unknown(n) ELSE resized)

\* The dispatch of ADFI_convert_number_format.
Converted(from, to, base, n, b) ==
  LET orders == from.order \o to.order
  IN  CASE orders = "BB" -> Resized(base, n, b)
        [] orders = "LL" -> Reverse(Resized(base, n, Reverse(b)))
        [] orders = "BC" -> BigToCray(base, b)
        [] orders = "CB" -> CrayToBig(base, n, b)
        [] orders = "LC" -> LittleToCray(base, b)
        [] orders = "CL" -> CrayToLittle(base, n, b)
        [] orders \in {"BL", "LB"} /\ from.bits = to.bits -> Swapped(b)
        [] OTHER -> ResizedThenSwapped(from.order, base, n, b)

\* ADFI_convert_number_format: the tokens one after the other, each as often as its
\* array says, for count elements.  What the tokens do not reach stays as it is.
ConvertNumberFormat(from, to, type, fromSizes, toSizes, count, bytes) ==
  LET once == Joined([t \in DOMAIN Tokens(type) |->
                [k \in 1..Times(Tokens(type)[t]) |-> Tokens(type)[t].base]])
      bases == Joined([e \in 1..count |-> once])
      at[i \in 1..Len(bases) + 1] == IF i = 1 THEN 1 ELSE at[i - 1] + Size(bases[i - 1], fromSizes)
      numbers == [i \in DOMAIN bases |->
                    Converted(from, to, bases[i], Size(bases[i], toSizes), SubSeq(bytes, at[i], at[i + 1] - 1))]
      whole == Joined(numbers)
  IN  IF \E i \in DOMAIN numbers : numbers[i] = Refused THEN Refused
      ELSE whole \o Unknown(count * ElementSize(type, toSizes) - Len(whole))
=============================================================================
