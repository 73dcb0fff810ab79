--------------------------- MODULE ADFIdentifiers ---------------------------
(***************************************************************************)
(* How a place in a file is written down (src/adfpp/ADF_internals.c): as a *)
(* pair of hexadecimal fields on disk, and packed with the number of the   *)
(* file into the eight bytes of a double that is the identifier of a node. *)
(*                                                                         *)
(* A byte is a number below 256, a hexadecimal character the digit it      *)
(* stands for.                                                             *)
(***************************************************************************)
EXTENDS Integers, Sequences

CONSTANTS BlockSize,  \* DISK_BLOCK_SIZE
          MaxFiles    \* MAXIMUM_FILES

\* An offset has four hexadecimal digits and two bytes in an identifier.
ASSUME IdentifiersAssumption ==
  /\ BlockSize \in 1..65535
  /\ MaxFiles \in 1..256

\* A place: what does not fit in a block runs over into the next ones.
Place(block, offset) == [block |-> block, offset |-> offset]

\* ADFI_adjust_disk_pointer.
Adjusted(p) ==
  IF p.offset < BlockSize THEN p
  ELSE Place(p.block + p.offset \div BlockSize, p.offset - (p.offset \div BlockSize) * BlockSize)

Moved(p, bytes) == Place(p.block, p.offset + bytes)

-----------------------------------------------------------------------------
(* Hexadecimal fields.                                                     *)

\* No digits: the number is out of range.
Unwritable == <<>>

\* ADFI_unsigned_int_2_ASCII_Hex.
Hex(number, maximum, digits) ==
  IF number > maximum THEN Unwritable
  ELSE [i \in 1..digits |-> (number \div 16^(digits - i)) % 16]

\* ADFI_ASCII_Hex_2_unsigned_int; -1 for a number out of range.
Unhex(string, maximum) ==
  LET n == Len(string)
      num[i \in 0..n] == IF i = 0 THEN 0 ELSE num[i - 1] + string[i] * 16^(n - i)
  IN  IF num[n] > maximum THEN -1 ELSE num[n]

\* Block numbers have 32 bits; the instances stay below 2^31, the integers of TLC.
MaxBlock == 2147483647

\* ADFI_disk_pointer_2_ASCII_Hex, ADFI_disk_pointer_from_ASCII_Hex.
PointerField(p) == [block |-> Hex(p.block, MaxBlock, 8), offset |-> Hex(p.offset, BlockSize, 4)]
FieldPointer(f) == Place(Unhex(f.block, MaxBlock), Unhex(f.offset, BlockSize))

-----------------------------------------------------------------------------
(* Identifiers.  Where the bytes go depends on the machine: the one with   *)
(* the sign and the exponent of the double gets 64, so that the double is  *)
(* never a tiny number that a machine could take for zero.                 *)

Low(n) == n % 256
High(n) == (n \div 256) % 256

BlockBytes(block) == <<Low(block), High(block), Low(block \div 65536), High(block \div 65536)>>

\* Mutant: the offset of a little-endian machine with its bytes the other way around.
IDSwapped(format, file, p) ==
  CASE format = "B" -> <<64 + (High(file) % 64), Low(file)>> \o BlockBytes(p.block) \o <<Low(p.offset), High(p.offset)>>
    [] format = "L" -> <<High(p.offset), Low(p.offset)>> \o BlockBytes(p.block) \o <<Low(file), 64 + (High(file) % 64)>>
    [] OTHER        -> <<Low(file), High(file)>> \o BlockBytes(p.block) \o <<Low(p.offset), High(p.offset)>>

\* ADFI_file_block_offset_2_ID.
ID(format, file, p) ==
  CASE format = "B" -> <<64 + (High(file) % 64), Low(file)>> \o BlockBytes(p.block) \o <<Low(p.offset), High(p.offset)>>
    [] format = "L" -> <<Low(p.offset), High(p.offset)>> \o BlockBytes(p.block) \o <<Low(file), 64 + (High(file) % 64)>>
    [] OTHER        -> <<Low(file), High(file)>> \o BlockBytes(p.block) \o <<Low(p.offset), High(p.offset)>>

\* ADFI_ID_2_file_block_offset.  The second byte of the number of the file is shifted
\* out of the mask that is laid over it: it is always zero.
FileOf(format, id) ==
  CASE format = "B" -> id[2] + ((id[1] * 256) % 64)
    [] format = "L" -> id[7] + ((id[8] * 256) % 64)
    [] OTHER        -> id[1] + id[2] * 256

PlaceOf(format, id) ==
  Place(id[3] + id[4] * 256 + id[5] * 65536 + id[6] * 16777216,
        IF format = "L" THEN id[1] + id[2] * 256 ELSE id[7] + id[8] * 256)

\* The identifier that the library refuses: the double 0.0.
IsZero(id) == \A i \in 1..8 : id[i] = 0
=============================================================================
