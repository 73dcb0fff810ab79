------------------------------- MODULE MCLinks ------------------------------
(* An instance of ADFLinks for TLC: a file with two nodes and links into itself  *)
(* and into a second file, whose one node may be a link back.                    *)
EXTENDS ADFLinks, TLC

CONSTANTS A, B

MCAddresses == (A :> {1, 2}) @@ (B :> {1})
To(file, path) == [file |-> file, path |-> path]
MCTargets ==
  (A :> {To(Here, <<"x">>), To(Here, <<"y">>), To(Here, <<"x", "y">>), To(B, <<"x">>)})
  @@ (B :> {To(A, <<"y">>)})
=============================================================================
