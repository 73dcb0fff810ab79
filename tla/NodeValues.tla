----------------------------- MODULE NodeValues -----------------------------
(***************************************************************************)
(* What the ADF library promises about the data of one node: an array of   *)
(* elements, of which a program writes all, a block, or a strided          *)
(* selection.  Elements that were never written have an unknown value.     *)
(***************************************************************************)
EXTENDS ADFSelection

CONSTANTS Types,     \* data types
          NoType,    \* the type of a node without data ("MT")
          Shapes     \* dimensions a program gives its nodes

VARIABLES shape,     \* data type and dimensions
          value      \* the elements

\* The k-th element of the array a program passes to a function that writes.
Item(kind, k) == <<kind, k>>

Junk == <<"junk", 0>>   \* what the disk happened to hold
Tag  == <<"tag", 0>>    \* the tag behind a chunk
Zero == <<"zero", 0>>
Unknown == {Junk, Tag}

Elements(s) == IF s.type = NoType THEN 0 ELSE Size(s.dims)

Init == shape = [type |-> NoType, dims |-> <<>>] /\ value = <<>>

\* The elements are called old before and new behind a step.
\* Another type or number of dimensions: the data is lost.
Reset(new) ==
  /\ DOMAIN new = 1..Elements(shape')
  /\ \A i \in DOMAIN new : new[i] \in Unknown

\* Other lengths of the dimensions: the elements both arrays have are kept.
Resize(old, new) ==
  /\ shape'.type = shape.type /\ Len(shape'.dims) = Len(shape.dims)
  /\ DOMAIN new = 1..Elements(shape')
  /\ \A i \in DOMAIN old \cap DOMAIN new : new[i] = old[i]

\* The items of a program are written to the elements at, one after the other.
Write(kind, at, old, new) ==
  /\ \A k \in DOMAIN at : new[at[k]] = Item(kind, k)
  /\ \A i \in DOMAIN old \ {at[k] : k \in DOMAIN at} : old[i] \notin Unknown => new[i] = old[i]

\* The elements of every selection of every shape.
SelectedElements ==
  [dims \in Shapes |-> {[k \in DOMAIN Selected(dims, sel) |-> Selected(dims, sel)[k] + 1] : sel \in Selections(dims)}]

Next ==
  LET old == value
      new == value'
      size == Len(old)
  IN  \/ shape' \in [type : Types, dims : Shapes] /\ (Reset(new) \/ Resize(old, new))
      \/ /\ UNCHANGED shape
         /\ DOMAIN new = DOMAIN old
         /\ \/ Write("all", [i \in 1..size |-> i], old, new)
            \/ \E s \in 0..size, e \in 0..size :   \* the elements s + 1 .. e, or none
                 s <= e /\ Write("block", [k \in 1..(e - s) |-> s + k], old, new)
            \/ \E at \in SelectedElements[shape.dims] : Write("strided", at, old, new)

Spec == Init /\ [][Next]_<<shape, value>>
=============================================================================
