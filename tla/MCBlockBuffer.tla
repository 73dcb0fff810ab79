--------------------------- MODULE MCBlockBuffer ----------------------------
(* Instances of ADFBlockBuffer for TLC.                                    *)
EXTENDS ADFBlockBuffer

CONSTANTS f1, f2

\* Two files of two blocks of two cells: cells 0 and 1 are the version and the
\* date.  A small piece in block 1 and a piece that crosses go to f1, the
\* operations on f2 change its first block only.
MCPieces == [f \in Files |-> IF f = f1 THEN {<<2, 1>>, <<1, 2>>} ELSE {<<1, 1>>}]

\* One file of two blocks of three cells, small pieces in both.
MCOneFilePieces == [f \in Files |-> {<<2, 1>>, <<4, 1>>, <<2, 2>>}]
=============================================================================
