---------------------------- MODULE MCHierarchy -----------------------------
(* Instance of NodeHandles, and with it of NodeHierarchy, for TLC: a root, two   *)
(* more nodes, two names, one type and two sizes.                                *)
EXTENDS NodeHandles, TLC

CONSTANTS root, n1, n2, a, b

MCBare == [type |-> "MT", dims |-> 0]
MCSymmetry == Permutations({n1, n2}) \cup Permutations({a, b})

\* A state with an object held over, of which the properties claim nothing, is followed
\* while no node is cut loose.
MCOneFault == HeldOver => \A n \in Nodes : ~CutLoose(n)
=============================================================================
