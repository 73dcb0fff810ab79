----------------------------- MODULE MCNodeData -----------------------------
(* Instances of ADFNodeData for TLC.  Arrays of one dimension that grow and     *)
(* shrink between one and four elements, and of two dimensions; a type whose    *)
(* name begins with the name of another.                                        *)
EXTENDS ADFNodeData

MCTypes == {"MT", "I4", "I4,R8"}
MCBeginsWith == {<<"I4,R8", "I4">>}
MCShapes == {<<>>, <<1>>, <<2>>, <<3>>, <<2, 2>>}
MCWalked == {<<2, 3, 2>>}
=============================================================================
