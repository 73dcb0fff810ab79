---------------------------- MODULE ADFSelection ----------------------------
(***************************************************************************)
(* The strided selections of ADF_Read_Data and ADF_Write_Data: how many    *)
(* elements a selection has, where the first one lies, and how far it is   *)
(* from one element to the next.  A selection has a first and a last index *)
(* and a stride for each dimension; the first dimension varies fastest.    *)
(***************************************************************************)
EXTENDS Integers, Sequences, SequencesExt, FiniteSetsExt

\* The sum of the numbers before the i-th.
Before(sizes, i) == LET sum[j \in 0..Len(sizes)] == IF j = 0 THEN 0 ELSE sum[j - 1] + sizes[j]
                    IN  sum[i - 1]

\* The number of elements of the dimensions below the k-th, and of an array.
Below(dims, k) == LET product[i \in 1..(Len(dims) + 1)] == IF i = 1 THEN 1 ELSE product[i - 1] * dims[i - 1]
                  IN  product[k]
Size(dims) == Below(dims, Len(dims) + 1)

ValidSelection(dims, sel) ==
  /\ Len(dims) \in 1..12
  /\ \A k \in DOMAIN dims :
       /\ dims[k] >= 1
       /\ sel.first[k] \in 1..dims[k]
       /\ sel.last[k] \in 1..dims[k]
       /\ sel.first[k] <= sel.last[k]
       /\ sel.stride[k] >= 1

Count(dims, sel) ==
  Size([k \in DOMAIN dims |-> (sel.last[k] - sel.first[k] + sel.stride[k]) \div sel.stride[k]])

StartOffset(dims, sel) ==
  Before([k \in DOMAIN dims |-> (sel.first[k] - 1) * Below(dims, k)], Len(dims) + 1)

\* The step to the next element: the dimensions below the one that can advance
\* start anew, and the offset is the distance in the array.
Advancing(dims, sel, pos) == {k \in DOMAIN dims : pos[k] + sel.stride[k] <= sel.last[k]}

NextPosition(dims, sel, pos) ==
  LET up == Min(Advancing(dims, sel, pos) \cup {Len(dims) + 1})
  IN  [k \in DOMAIN dims |-> IF k < up THEN sel.first[k]
                             ELSE IF k = up THEN pos[k] + sel.stride[k] ELSE pos[k]]

\* Mutant: the element the next dimension adds itself is not taken off.
OffsetOneMore(dims, sel, pos) ==
  LET up == Min(Advancing(dims, sel, pos) \cup {Len(dims) + 1})
  IN  Before([k \in DOMAIN dims |-> dims[k] - pos[k] + sel.first[k]], up)
      + (IF up \in DOMAIN dims THEN 1 + (sel.stride[up] - 1) * Below(dims, up) ELSE 0)

\* The part of a dimension that starts anew is counted in elements, not in the
\* size of what lies below it.
NextOffset(dims, sel, pos) ==
  LET up == Min(Advancing(dims, sel, pos) \cup {Len(dims) + 1})
  IN  Before([k \in DOMAIN dims |-> dims[k] - pos[k] + sel.first[k] - 1], up)
      + (IF up \in DOMAIN dims THEN 1 + (sel.stride[up] - 1) * Below(dims, up) ELSE 0)

\* The offsets at which the elements of a selection are read or written.
Walk(dims, sel) ==
  LET n == Count(dims, sel)
      pos[i \in 1..n] == IF i = 1 THEN sel.first ELSE NextPosition(dims, sel, pos[i - 1])
      at[i \in 1..n] == IF i = 1 THEN StartOffset(dims, sel)
                        ELSE at[i - 1] + NextOffset(dims, sel, pos[i - 1])
  IN  [i \in 1..n |-> at[i]]

-----------------------------------------------------------------------------
(* What the selection means, without walking over it.                      *)

Indices(dims, sel) ==
  {p \in [DOMAIN dims -> 1..Max({dims[k] : k \in DOMAIN dims})] :
     \A k \in DOMAIN dims : /\ p[k] \in sel.first[k]..sel.last[k]
                            /\ (p[k] - sel.first[k]) % sel.stride[k] = 0}

Selected(dims, sel) ==
  LET at == {Before([k \in DOMAIN dims |-> (p[k] - 1) * Below(dims, k)], Len(dims) + 1) : p \in Indices(dims, sel)}
  IN  [i \in 1..Cardinality(at) |-> CHOOSE a \in at : Cardinality({b \in at : b < a}) = i - 1]

\* The selections of an array, with strides up to the length of a dimension.
Selections(dims) ==
  LET Index == 1..Max({dims[k] : k \in DOMAIN dims} \cup {1})
      Vector == [DOMAIN dims -> Index]
  IN  {sel \in [first : Vector, last : Vector, stride : Vector] : ValidSelection(dims, sel)}
=============================================================================
