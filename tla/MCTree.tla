------------------------------- MODULE MCTree -------------------------------
(* Instances of ADFTree for TLC: the root and three more nodes, and a table    *)
(* of two entries that grows to three.                                         *)
EXTENDS ADFTree, TLC

CONSTANTS root, n1, n2, n3, a, b, c

MCSymmetry == Permutations({n1, n2, n3}) \cup Permutations({a, b, c})
=============================================================================
