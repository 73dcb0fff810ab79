----------------------------- MODULE MCEntities -----------------------------
(***************************************************************************)
(* Three nodes in all places with three names; four with one name, which   *)
(* descriptors, zones and arrays share; and any arrays of the reference    *)
(* state of the base with one datum: the one without data may lie between  *)
(* two others.  Two data, which nothing tells apart.                       *)
(***************************************************************************)
EXTENDS CGNSEntities, TLC

CONSTANTS d1, d2

MCSymmetry == Permutations({d1, d2})
ThreeNames == {1, 2, 3}
OneDatum(f) == Cardinality({f[p].data : p \in DOMAIN f} \ {Bare}) <= 1
MCFits(f) ==
  \/ Cardinality(DOMAIN f) <= 3
  \/ Cardinality(DOMAIN f) <= 4 /\ \A p \in DOMAIN f : \A i \in DOMAIN p : p[i] \notin {2, 3}
  \/ \A p \in DOMAIN f \ {<<>>} : p[1] = ReferenceState_t /\ f[p].label # Descriptor_t /\ OneDatum(f)
=====
