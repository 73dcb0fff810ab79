-------------------------- MODULE MCPriorityStack ---------------------------
(* Instances of ADFPriorityStack for TLC.                                  *)
EXTENDS ADFPriorityStack

CONSTANT node

\* File 1 has a node and a table of two entries, file 0 its header only.
MCNodes == [f \in Files |-> IF f = 1 THEN {node} ELSE {}]
MCEntries == [f \in Files |-> IF f = 1 THEN 2 ELSE 0]
=============================================================================
