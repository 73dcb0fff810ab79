----------------------------- MODULE MCFileSpace ----------------------------
(* Instance of ADFFileSpace for TLC, with blocks of 8 and a header of 3: a     *)
(* chunk of 2 is too small for a list, one of 3 is small, one of 6 medium, one *)
(* of 8 fills a block and one of 10 always spans two.  Data chunks of 10 can   *)
(* be cut to every length, and so be freed as gas and to each list.            *)
EXTENDS ADFFileSpace

MCSizes == [control |-> {2, 3, 6, 8}, data |-> {10}]
=============================================================================
