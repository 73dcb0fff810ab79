------------------------ MODULE CGNSEntities_proofs ------------------------
(***************************************************************************)
(* What CGNSEntities keeps, for every set of names and of data, every file *)
(* and whatever bound.  The invariant EntitiesInv says of the file that    *)
(* every node has a parent which may have a child of its label, and of     *)
(* every entity that what it has read is what is there: that is more than  *)
(* SameAfterReopening, which only asks for the values while all arrays can *)
(* be read.  A step changes the nodes at and below one path only (Grown    *)
(* and Shrunk, with the nodes W cut off), so that all entities but the one *)
(* at this path and its parent have the children they had (StepRight).     *)
(***************************************************************************)
EXTENDS CGNSEntities, TLAPS

\* The last part of a path; the names of the children with a label.
Parts == Names \cup Fixed
NamesOf(l) == IF l \in Fixed THEN {l} ELSE Names

\* The nodes that have entities.
Ents(f) == {p \in DOMAIN f : f[p].label # Descriptor_t}

\* A node with the label lr may have a child n with the label l.
Fitting(lr, n, l) == \/ l = Descriptor_t /\ lr # Descriptor_t /\ n \in Names
                     \/ lr \in DOMAIN Kept /\ l \in Kept[lr] /\ n \in NamesOf(l)

Nodes == [label : DOMAIN Kept \cup {Descriptor_t}, data : Data \cup {Bare}]

\* The file: a base, and below it every node in its place.
FileOK(f) ==
  /\ DOMAIN f \subseteq Seq(Parts)
  /\ <<>> \in DOMAIN f /\ f[<<>>].label = Base_t
  /\ \A p \in DOMAIN f : f[p] \in Nodes
  /\ \A r \in Seq(Parts), n \in Parts :
       Append(r, n) \in DOMAIN f => r \in DOMAIN f /\ Fitting(f[r].label, n, f[Append(r, n)].label)

\* What the entity p has read and keeps; T and V are the named faults, old texts and values.
DescsRight(ds, f, p, T) ==
  ds = Unread
  \/ /\ DOMAIN ds = {n \in Names : IsChild(f, p, n, Descriptor_t)}
     /\ \A d \in DOMAIN ds : Append(p, d) \in T \/ ds[d] = f[Append(p, d)].data
KidsRight(kids, f, p) ==
  /\ DOMAIN kids = Kept[f[p].label]
  /\ \A l \in DOMAIN kids : kids[l] = Unread \/ kids[l] = ReadChildren(f, p, l)
HasData(f, p, a) == IsChild(f, p, a, DataArray_t) /\ f[Append(p, a)].data # Bare
ValuesRight(vs, f, p, V) ==
  /\ \A a \in DOMAIN vs : a \in Names /\ vs[a] \in Data
  /\ vs # None =>
       /\ f[p].label = ReferenceState_t
       /\ \A a \in Names :
            \/ Append(p, a) \in V
            \/ IF HasData(f, p, a) THEN a \in DOMAIN vs /\ vs[a] = f[Append(p, a)].data ELSE a \notin DOMAIN vs
Right(r, f, p, T, V) ==
  /\ DOMAIN r = {"descs", "kids", "values"}
  /\ DescsRight(r.descs, f, p, T) /\ KidsRight(r.kids, f, p) /\ ValuesRight(r.values, f, p, V)

\* The invariant, of any file and any entities.
EntitiesRight(f, o, T, V) ==
  /\ FileOK(f)
  /\ DOMAIN o = Ents(f)
  /\ \A p \in DOMAIN o : Right(o[p], f, p, T, V)

EntitiesInv == EntitiesRight(file, objs, oldTexts, oldValues)

-----------------------------------------------------------------------------
(* Paths.                                                                  *)

IsBelow(x, q) == Len(x) > Len(q) /\ SubSeq(x, 1, Len(q)) = q

\* The path of a child, and the path of its parent.
LEMMA AppendFacts ==
  ASSUME NEW p \in Seq(Parts), NEW n \in Parts
  PROVE  /\ Append(p, n) \in Seq(Parts) /\ Append(p, n) # <<>>
         /\ Len(Append(p, n)) = Len(p) + 1 /\ Append(p, n)[Len(p) + 1] = n
         /\ \A i \in 1..Len(p) : Append(p, n)[i] = p[i]
         /\ Parent(Append(p, n)) = p
<1>1. /\ Append(p, n) \in Seq(Parts) /\ Len(Append(p, n)) = Len(p) + 1
      /\ Append(p, n)[Len(p) + 1] = n /\ \A i \in 1..Len(p) : Append(p, n)[i] = p[i]
  OBVIOUS
<1>2. Append(p, n) # <<>>
  BY <1>1
<1>3. Parent(Append(p, n)) = p
  <2>1. SubSeq(Append(p, n), 1, Len(p)) = p
    BY <1>1
  <2>2. Len(Append(p, n)) - 1 = Len(p)
    BY <1>1
  <2> QED  BY <2>1, <2>2 DEF Parent
<1> QED  BY <1>1, <1>2, <1>3

\* A path is the path of one child of one parent.
LEMMA AppendOnce ==
  ASSUME NEW p \in Seq(Parts), NEW n \in Parts, NEW q \in Seq(Parts), NEW m \in Parts,
         Append(p, n) = Append(q, m)
  PROVE  p = q /\ n = m
<1>1. p = q
  BY AppendFacts
<1> QED  BY <1>1, AppendFacts

\* Every path but the root is that of a child.
LEMMA ParentFacts ==
  ASSUME NEW p \in Seq(Parts), p # <<>>
  PROVE  Parent(p) \in Seq(Parts) /\ p[Len(p)] \in Parts /\ p = Append(Parent(p), p[Len(p)])
<1>1. Len(p) \in Nat /\ Len(p) > 0
  OBVIOUS
<1>2. Parent(p) \in Seq(Parts) /\ Len(Parent(p)) = Len(p) - 1
  <2>1. PICK k \in Nat : k = Len(p) - 1
    BY <1>1
  <2>2. \A i \in 1..k : p[i] \in Parts
    BY <1>1, <2>1
  <2>3. SubSeq(p, 1, k) \in Seq(Parts) /\ Len(SubSeq(p, 1, k)) = k
    BY <2>2, <2>1, <1>1
  <2> QED  BY <2>1, <2>3 DEF Parent
<1>3. \A i \in 1..(Len(p) - 1) : Parent(p)[i] = p[i]
  BY <1>1 DEF Parent
<1>4. p[Len(p)] \in Parts
  BY <1>1
<1>5. p = Append(Parent(p), p[Len(p)])
  BY <1>1, <1>2, <1>3, <1>4
<1> QED  BY <1>2, <1>4, <1>5

\* No path is below itself or below its child.
LEMMA BelowFacts ==
  ASSUME NEW q \in Seq(Parts)
  PROVE  /\ ~IsBelow(q, q) /\ ~IsBelow(<<>>, q)
         /\ \A n \in Parts : ~IsBelow(q, Append(q, n)) /\ q # Append(q, n)
<1>1. Len(q) \in Nat
  OBVIOUS
<1> QED  BY <1>1, AppendFacts DEF IsBelow

\* Below a path are its children and what is below them.
LEMMA BelowAppend ==
  ASSUME NEW r \in Seq(Parts), NEW n \in Parts, NEW q \in Seq(Parts)
  PROVE  IsBelow(Append(r, n), q) <=> r = q \/ IsBelow(r, q)
<1> DEFINE x == Append(r, n)
<1>1. /\ Len(r) \in Nat /\ Len(q) \in Nat /\ Len(x) = Len(r) + 1 /\ x \in Seq(Parts)
      /\ \A i \in 1..Len(r) : x[i] = r[i]
  BY AppendFacts
<1>2. CASE Len(q) > Len(r)
  <2>1. ~(Len(x) > Len(q))
    BY <1>1, <1>2
  <2> QED  BY <2>1, <1>1, <1>2 DEF IsBelow
<1>3. CASE Len(q) <= Len(r)
  <2>1. SubSeq(x, 1, Len(q)) = SubSeq(r, 1, Len(q))
    BY <1>1, <1>3
  <2>2. Len(x) > Len(q)
    BY <1>1, <1>3
  <2>3. IsBelow(x, q) <=> SubSeq(r, 1, Len(q)) = q
    BY <2>1, <2>2 DEF IsBelow
  <2>4. CASE Len(q) = Len(r)
    <3>1. SubSeq(r, 1, Len(q)) = r
      BY <1>1, <2>4
    <3> QED  BY <3>1, <2>3, <2>4, <1>1 DEF IsBelow
  <2>5. CASE Len(q) < Len(r)
    BY <2>3, <2>5, <1>1 DEF IsBelow
  <2> QED  BY <2>4, <2>5, <1>1, <1>3
<1> QED  BY <1>1, <1>2, <1>3

-----------------------------------------------------------------------------
(* Labels.                                                                 *)

\* The six labels differ; none of the single children has the name of another.
LEMMA LabelFacts ==
  /\ DOMAIN Kept = {Base_t, Zone_t, ReferenceState_t, FlowEquationSet_t, DataArray_t}
  /\ Base_t # Zone_t /\ Base_t # ReferenceState_t /\ Base_t # FlowEquationSet_t /\ Base_t # DataArray_t
  /\ Zone_t # ReferenceState_t /\ Zone_t # FlowEquationSet_t /\ Zone_t # DataArray_t
  /\ ReferenceState_t # FlowEquationSet_t /\ ReferenceState_t # DataArray_t /\ FlowEquationSet_t # DataArray_t
  /\ Descriptor_t \notin DOMAIN Kept
  /\ ReferenceState_t \notin Names /\ FlowEquationSet_t \notin Names
<1> DEFINE labels == <<Base_t, Zone_t, ReferenceState_t, FlowEquationSet_t, DataArray_t, Descriptor_t>>
<1>1. \A i, j \in 1..6 : i # j => labels[i] # labels[j]
  BY LabelsAssumption
<1>2. /\ labels[1] = Base_t /\ labels[2] = Zone_t /\ labels[3] = ReferenceState_t /\ labels[4] = FlowEquationSet_t
      /\ labels[5] = DataArray_t /\ labels[6] = Descriptor_t
  OBVIOUS
<1> HIDE DEF labels
<1>3. DOMAIN Kept = {Base_t, Zone_t, ReferenceState_t, FlowEquationSet_t, DataArray_t}
  BY DEF Kept
<1>4. \A i, j \in 1..6 : i # j => labels[i] # labels[j]
  BY <1>1
<1>5. labels[1] # labels[2] /\ labels[1] # labels[3] /\ labels[1] # labels[4] /\ labels[1] # labels[5] /\ labels[1] # labels[6]
  BY <1>4
<1>6. labels[2] # labels[3] /\ labels[2] # labels[4] /\ labels[2] # labels[5] /\ labels[2] # labels[6]
  BY <1>4
<1>7. labels[3] # labels[4] /\ labels[3] # labels[5] /\ labels[3] # labels[6] /\ labels[4] # labels[5]
      /\ labels[4] # labels[6] /\ labels[5] # labels[6]
  BY <1>4
<1>8. ReferenceState_t \notin Names /\ FlowEquationSet_t \notin Names
  BY LabelsAssumption
<1> QED  BY <1>2, <1>3, <1>5, <1>6, <1>7, <1>8

\* The table Kept, line by line.
LEMMA KeptFacts ==
  /\ Kept[Base_t] = {Zone_t, ReferenceState_t, FlowEquationSet_t}
  /\ Kept[Zone_t] = {ReferenceState_t, FlowEquationSet_t}
  /\ Kept[ReferenceState_t] = {DataArray_t}
  /\ Kept[FlowEquationSet_t] = {} /\ Kept[DataArray_t] = {}
BY LabelFacts DEF Kept

\* The table Kept, by the labels of the children.
LEMMA KeptLabels ==
  ASSUME NEW l \in DOMAIN Kept
  PROVE  /\ Kept[l] \subseteq DOMAIN Kept /\ Base_t \notin Kept[l]
         /\ Zone_t \in Kept[l] <=> l = Base_t
         /\ DataArray_t \in Kept[l] <=> l = ReferenceState_t
         /\ ReferenceState_t \in Kept[l] <=> l \in {Base_t, Zone_t}
         /\ FlowEquationSet_t \in Kept[l] <=> l \in {Base_t, Zone_t}
BY LabelFacts, KeptFacts

\* The names of children.
LEMMA NamesOfFacts ==
  /\ NamesOf(DataArray_t) = Names /\ NamesOf(Zone_t) = Names
  /\ \A l \in Fixed : NamesOf(l) = {l}
  /\ \A l : NamesOf(l) \subseteq Parts
BY LabelFacts DEF NamesOf, Fixed, Parts

-----------------------------------------------------------------------------
(* What an entity keeps depends on its children only.                      *)

SameNode(f, f2, q) == (q \in DOMAIN f2 <=> q \in DOMAIN f) /\ (q \in DOMAIN f2 => f2[q] = f[q])

\* Descriptors with the same texts, or with texts marked as old.
LEMMA SameDescs ==
  ASSUME NEW f, NEW f2, NEW p, NEW ds, NEW T, NEW T2, DescsRight(ds, f, p, T),
         \A n \in Names : /\ IsChild(f2, p, n, Descriptor_t) <=> IsChild(f, p, n, Descriptor_t)
                          /\ IsChild(f2, p, n, Descriptor_t) =>
                               /\ f2[Append(p, n)].data = f[Append(p, n)].data
                               /\ Append(p, n) \in T => Append(p, n) \in T2
  PROVE  DescsRight(ds, f2, p, T2)
<1>1. CASE ds = Unread
  BY <1>1 DEF DescsRight
<1>2. CASE ds # Unread
  <2>1. {n \in Names : IsChild(f2, p, n, Descriptor_t)} = {n \in Names : IsChild(f, p, n, Descriptor_t)}
    OBVIOUS
  <2> QED  BY <1>2, <2>1 DEF DescsRight
<1> QED  BY <1>1, <1>2

\* The same children.
LEMMA SameKids ==
  ASSUME NEW f, NEW f2, NEW p, NEW kids, KidsRight(kids, f, p), f2[p].label = f[p].label,
         \A l \in DOMAIN kids : \A n \in NamesOf(l) : IsChild(f2, p, n, l) <=> IsChild(f, p, n, l)
  PROVE  KidsRight(kids, f2, p)
<1>1. ASSUME NEW l \in DOMAIN kids
      PROVE  ReadChildren(f2, p, l) = ReadChildren(f, p, l)
  BY <1>1 DEF ReadChildren, NamesOf
<1> QED  BY <1>1 DEF KidsRight

\* Arrays with the same data, or marked as old.
LEMMA SameValues ==
  ASSUME NEW f, NEW f2, NEW p, NEW vs, NEW V, NEW V2, ValuesRight(vs, f, p, V), f2[p].label = f[p].label,
         \A a \in Names : /\ HasData(f2, p, a) <=> HasData(f, p, a)
                          /\ HasData(f2, p, a) => f2[Append(p, a)].data = f[Append(p, a)].data
                          /\ Append(p, a) \in V => Append(p, a) \in V2
  PROVE  ValuesRight(vs, f2, p, V2)
BY DEF ValuesRight

\* An entity whose children are the same stays right.
LEMMA SameRight ==
  ASSUME NEW f, NEW f2, NEW p, NEW r, NEW T, NEW T2, NEW V, NEW V2, Right(r, f, p, T, V), f2[p].label = f[p].label,
         \A m \in Parts : /\ SameNode(f, f2, Append(p, m))
                          /\ Append(p, m) \in DOMAIN f2 \cap T => Append(p, m) \in T2
                          /\ Append(p, m) \in V => Append(p, m) \in V2
  PROVE  Right(r, f2, p, T2, V2)
<1>1. \A m \in Parts : \A l : IsChild(f2, p, m, l) <=> IsChild(f, p, m, l)
  BY DEF SameNode, IsChild
<1>2. \A m \in Parts : \A l : IsChild(f2, p, m, l) => f2[Append(p, m)].data = f[Append(p, m)].data /\ Append(p, m) \in DOMAIN f2
  BY DEF SameNode, IsChild
<1>3. Names \subseteq Parts /\ \A l : NamesOf(l) \subseteq Parts
  BY NamesOfFacts DEF Parts
<1>4. DescsRight(r.descs, f2, p, T2)
  <2>1. DescsRight(r.descs, f, p, T)
    BY DEF Right
  <2> QED  BY <2>1, <1>1, <1>2, <1>3, SameDescs
<1>5. KidsRight(r.kids, f2, p)
  <2>1. KidsRight(r.kids, f, p)
    BY DEF Right
  <2> QED  BY <2>1, <1>1, <1>3, SameKids
<1>6. ValuesRight(r.values, f2, p, V2)
  <2>1. ValuesRight(r.values, f, p, V)
    BY DEF Right
  <2>2. \A a \in Names : /\ HasData(f2, p, a) <=> HasData(f, p, a)
                         /\ HasData(f2, p, a) => f2[Append(p, a)].data = f[Append(p, a)].data
    BY <1>1, <1>2, <1>3 DEF HasData
  <2> QED  BY <2>1, <2>2, <1>3, SameValues
<1> QED  BY <1>4, <1>5, <1>6 DEF Right

-----------------------------------------------------------------------------
(* Steps: the child n of p is written (Grown) or deleted (Shrunk); the     *)
(* nodes W below it go.                                                    *)

\* With W no child is left without its parent.
Cut(f, p, n, W) ==
  /\ W \subseteq DOMAIN f /\ Append(p, n) \notin W /\ p \notin W /\ <<>> \notin W
  /\ \A r \in Seq(Parts), m \in Parts :
       Append(r, m) \in DOMAIN f => (Append(r, m) \in W <=> r \in W \/ r = Append(p, n))
Grown(f, f2, q, W, x) ==
  /\ DOMAIN f2 = (DOMAIN f \ W) \cup {q}
  /\ \A r \in DOMAIN f2 : f2[r] = IF r = q THEN x ELSE f[r]
Shrunk(f, f2, q, W) ==
  /\ DOMAIN f2 = DOMAIN f \ (W \cup {q})
  /\ \A r \in DOMAIN f2 : f2[r] = f[r]

\* All nodes below the child may be cut off.
LEMMA CutBelow ==
  ASSUME NEW f, FileOK(f), NEW p \in Seq(Parts), NEW n \in Parts
  PROVE  Cut(f, p, n, Below(f, Append(p, n)))
<1> DEFINE q == Append(p, n)
<1>1. q \in Seq(Parts)
  BY AppendFacts
<1>2. \A x : x \in Below(f, q) <=> x \in DOMAIN f /\ IsBelow(x, q)
  BY DEF Below, IsBelow
<1>3. q \notin Below(f, q) /\ p \notin Below(f, q) /\ <<>> \notin Below(f, q)
  BY <1>1, <1>2, BelowFacts
<1>4. \A r \in Seq(Parts), m \in Parts : Append(r, m) \in DOMAIN f => (Append(r, m) \in Below(f, q) <=> r \in Below(f, q) \/ r = q)
  <2> SUFFICES ASSUME NEW r \in Seq(Parts), NEW m \in Parts, Append(r, m) \in DOMAIN f
               PROVE  Append(r, m) \in Below(f, q) <=> r \in Below(f, q) \/ r = q
    OBVIOUS
  <2>1. IsBelow(Append(r, m), q) <=> r = q \/ IsBelow(r, q)
    BY <1>1, BelowAppend
  <2>2. r \in DOMAIN f
    BY DEF FileOK
  <2> QED  BY <2>1, <2>2, <1>2
<1> QED  BY <1>2, <1>3, <1>4 DEF Cut

\* Nothing need be cut off below a descriptor or below what is not there.
LEMMA CutNothing ==
  ASSUME NEW f, FileOK(f), NEW p \in Seq(Parts), NEW n \in Parts, Append(p, n) \notin Ents(f)
  PROVE  Cut(f, p, n, {})
<1>1. ASSUME NEW m \in Parts
      PROVE  Append(Append(p, n), m) \notin DOMAIN f
  <2>1. Append(p, n) \in Seq(Parts)
    BY AppendFacts
  <2> SUFFICES ASSUME Append(Append(p, n), m) \in DOMAIN f
               PROVE  FALSE
    OBVIOUS
  <2>2. Append(p, n) \in DOMAIN f /\ Fitting(f[Append(p, n)].label, m, f[Append(Append(p, n), m)].label)
    BY <2>1 DEF FileOK
  <2> QED  BY <2>2, LabelFacts DEF Ents, Fitting, Nodes
<1> QED  BY <1>1 DEF Cut

\* A child that fits is written: the file is as it should be, and has nothing below the child.
LEMMA GrownOK ==
  ASSUME NEW f, FileOK(f), NEW f2, NEW p \in Ents(f), NEW n \in Parts, NEW W, Cut(f, p, n, W),
         NEW x \in Nodes,
         Fitting(f[p].label, n, x.label), Grown(f, f2, Append(p, n), W, x)
  PROVE  /\ FileOK(f2) /\ p \in Ents(f2) /\ f2[p] = f[p] /\ Append(p, n) \in DOMAIN f2 /\ f2[Append(p, n)] = x
         /\ \A m \in Parts : Append(Append(p, n), m) \notin DOMAIN f2
<1> DEFINE q == Append(p, n)
<1>1. p \in Seq(Parts) /\ q \in Seq(Parts) /\ q # <<>> /\ q # p
  <2>1. p \in Seq(Parts)
    BY DEF FileOK, Ents
  <2> QED  BY <2>1, AppendFacts, BelowFacts
<1>2. \A r : r \in DOMAIN f2 /\ r # q => r \in DOMAIN f /\ r \notin W /\ f2[r] = f[r]
  BY DEF Grown
<1>3. \A r : r \in DOMAIN f /\ r \notin W => r \in DOMAIN f2
  BY DEF Grown
<1>4. q \in DOMAIN f2 /\ f2[q] = x
  BY DEF Grown
<1>5. p \in Ents(f2) /\ f2[p] = f[p]
  BY <1>1, <1>2, <1>3 DEF Cut, Ents
<1>6. \A r \in Seq(Parts), m \in Parts :
        Append(r, m) \in DOMAIN f => (Append(r, m) \in W <=> r \in W \/ r = q)
  BY DEF Cut
<1>7. DOMAIN f2 \subseteq Seq(Parts)
  BY <1>1, <1>2 DEF FileOK
<1>8. <<>> \in DOMAIN f2 /\ f2[<<>>].label = Base_t
  BY <1>1, <1>2, <1>3 DEF FileOK, Cut
<1>9. \A r \in DOMAIN f2 : f2[r] \in Nodes
  BY <1>2, <1>4 DEF FileOK
<1>10. ASSUME NEW r \in Seq(Parts), NEW m \in Parts, Append(r, m) \in DOMAIN f2
       PROVE  r \in DOMAIN f2 /\ Fitting(f2[r].label, m, f2[Append(r, m)].label) /\ r # q
  <2>1. CASE Append(r, m) = q
    <3>1. r = p /\ m = n
      BY <1>1, <2>1, AppendOnce
    <3> QED  BY <3>1, <1>1, <1>4, <1>5 DEF Ents
  <2>2. CASE Append(r, m) # q
    <3>1. Append(r, m) \in DOMAIN f /\ Append(r, m) \notin W /\ f2[Append(r, m)] = f[Append(r, m)]
      BY <2>2, <1>2, <1>10
    <3>2. r \in DOMAIN f /\ Fitting(f[r].label, m, f[Append(r, m)].label)
      BY <3>1 DEF FileOK
    <3>3. r \notin W /\ r # q
      BY <3>1, <1>6
    <3> QED  BY <3>1, <3>2, <3>3, <1>2, <1>3
  <2> QED  BY <2>1, <2>2
<1>11. FileOK(f2)
  BY <1>7, <1>8, <1>9, <1>10 DEF FileOK
<1>12. \A m \in Parts : Append(q, m) \notin DOMAIN f2
  BY <1>10, <1>1
<1> QED  BY <1>4, <1>5, <1>11, <1>12

\* A child is deleted.
LEMMA ShrunkOK ==
  ASSUME NEW f, FileOK(f), NEW f2, NEW p \in Ents(f), NEW n \in Parts, NEW W, Cut(f, p, n, W),
         Shrunk(f, f2, Append(p, n), W)
  PROVE  FileOK(f2) /\ p \in Ents(f2) /\ f2[p] = f[p]
<1> DEFINE q == Append(p, n)
<1>1. p \in Seq(Parts) /\ q \in Seq(Parts) /\ q # <<>> /\ q # p
  <2>1. p \in Seq(Parts)
    BY DEF FileOK, Ents
  <2> QED  BY <2>1, AppendFacts, BelowFacts
<1>2. \A r : r \in DOMAIN f2 => r \in DOMAIN f /\ r \notin W /\ r # q /\ f2[r] = f[r]
  BY DEF Shrunk
<1>3. \A r : r \in DOMAIN f /\ r \notin W /\ r # q => r \in DOMAIN f2
  BY DEF Shrunk
<1>5. p \in Ents(f2) /\ f2[p] = f[p]
  BY <1>1, <1>2, <1>3 DEF Cut, Ents
<1>6. \A r \in Seq(Parts), m \in Parts :
        Append(r, m) \in DOMAIN f => (Append(r, m) \in W <=> r \in W \/ r = q)
  BY DEF Cut
<1>7. DOMAIN f2 \subseteq Seq(Parts)
  BY <1>2 DEF FileOK
<1>8. <<>> \in DOMAIN f2 /\ f2[<<>>].label = Base_t
  BY <1>1, <1>2, <1>3 DEF FileOK, Cut
<1>9. \A r \in DOMAIN f2 : f2[r] \in Nodes
  BY <1>2 DEF FileOK
<1>10. ASSUME NEW r \in Seq(Parts), NEW m \in Parts, Append(r, m) \in DOMAIN f2
       PROVE  r \in DOMAIN f2 /\ Fitting(f2[r].label, m, f2[Append(r, m)].label)
  <2>1. Append(r, m) \in DOMAIN f /\ Append(r, m) \notin W /\ f2[Append(r, m)] = f[Append(r, m)]
    BY <1>2, <1>10
  <2>2. r \in DOMAIN f /\ Fitting(f[r].label, m, f[Append(r, m)].label)
    BY <2>1 DEF FileOK
  <2>3. r \notin W /\ r # q
    BY <2>1, <1>6
  <2> QED  BY <2>1, <2>2, <2>3, <1>2, <1>3
<1> QED  BY <1>5, <1>7, <1>8, <1>9, <1>10 DEF FileOK

\* Nodes elsewhere, and their children but the one that is written or deleted, stay.
LEMMA Around ==
  ASSUME NEW f, FileOK(f), NEW f2, NEW p \in Ents(f), NEW n \in Parts, NEW W, Cut(f, p, n, W),
         NEW x, Grown(f, f2, Append(p, n), W, x) \/ Shrunk(f, f2, Append(p, n), W),
         NEW r \in DOMAIN f2, r # Append(p, n)
  PROVE  /\ r \in Seq(Parts) /\ r \in DOMAIN f /\ r \notin W /\ f2[r] = f[r]
         /\ \A m \in Parts : r # p \/ m # n => SameNode(f, f2, Append(r, m)) /\ Append(r, m) # Append(p, n)
<1> DEFINE q == Append(p, n)
<1>1. /\ r \in DOMAIN f /\ r \notin W /\ f2[r] = f[r]
      /\ \A s : s # q => (s \in DOMAIN f2 <=> s \in DOMAIN f /\ s \notin W)
      /\ \A s \in DOMAIN f2 : s # q => f2[s] = f[s]
  BY DEF Grown, Shrunk
<1>2. r \in Seq(Parts) /\ p \in Seq(Parts)
  BY <1>1 DEF FileOK, Ents
<1>3. ASSUME NEW m \in Parts, r # p \/ m # n
      PROVE  SameNode(f, f2, Append(r, m)) /\ Append(r, m) # q
  <2>1. Append(r, m) # q
    BY <1>2, <1>3, AppendOnce
  <2>2. Append(r, m) \in DOMAIN f => Append(r, m) \notin W
    BY <1>1, <1>2 DEF Cut
  <2> QED  BY <2>1, <2>2, <1>1 DEF SameNode
<1> QED  BY <1>1, <1>2, <1>3

\* Marks elsewhere are kept while their node, or its parent, is there.
TextsKept(T, T2, f2, q) == \A r \in T : r # q /\ r \in DOMAIN f2 => r \in T2
MarksKept(V, V2, f2, q) == \A r \in V : r # q /\ Parent(r) \in DOMAIN f2 => r \in V2

\* After such a step only the parent and the child need be looked at.
LEMMA StepRight ==
  ASSUME NEW f, NEW o, NEW T, NEW V, EntitiesRight(f, o, T, V), NEW f2, NEW o2, NEW T2, NEW V2,
         NEW p \in Ents(f), NEW n \in Parts, NEW W, Cut(f, p, n, W),
         NEW x, Grown(f, f2, Append(p, n), W, x) \/ Shrunk(f, f2, Append(p, n), W),
         FileOK(f2), DOMAIN o2 = Ents(f2),
         \A r \in Ents(f2) : r # p /\ r # Append(p, n) => o2[r] = o[r],
         TextsKept(T, T2, f2, Append(p, n)), MarksKept(V, V2, f2, Append(p, n)),
         Right(o2[p], f2, p, T2, V2),
         Append(p, n) \in Ents(f2) => Right(o2[Append(p, n)], f2, Append(p, n), T2, V2)
  PROVE  EntitiesRight(f2, o2, T2, V2)
<1> DEFINE q == Append(p, n)
<1>1. ASSUME NEW r \in Ents(f2), r # p, r # q
      PROVE  Right(o2[r], f2, r, T2, V2)
  <2>1. r \in DOMAIN f2
    BY DEF Ents
  <2>2. FileOK(f)
    BY DEF EntitiesRight
  <2>3. /\ r \in Seq(Parts) /\ r \in DOMAIN f /\ f2[r] = f[r]
        /\ \A m \in Parts : SameNode(f, f2, Append(r, m)) /\ Append(r, m) # q
    BY <1>1, <2>1, <2>2, Around
  <2>4. r \in Ents(f) /\ Right(o[r], f, r, T, V)
    BY <2>3, <1>1 DEF Ents, EntitiesRight
  <2>5. \A m \in Parts : /\ Append(r, m) \in DOMAIN f2 \cap T => Append(r, m) \in T2
                         /\ Append(r, m) \in V => Append(r, m) \in V2
    <3>1. \A m \in Parts : Parent(Append(r, m)) = r
      BY <2>3, AppendFacts
    <3> QED  BY <3>1, <2>1, <2>3 DEF TextsKept, MarksKept
  <2>6. Right(o[r], f2, r, T2, V2)
    BY <2>3, <2>4, <2>5, SameRight
  <2> QED  BY <2>6, <1>1
<1> QED  BY <1>1 DEF EntitiesRight

-----------------------------------------------------------------------------
(* The parent.                                                             *)

\* What an entity answers, by Needs, is what is in the file.
LEMMA Answers ==
  ASSUME EntitiesInv, NEW p \in DOMAIN objs
  PROVE  /\ FileOK(file) /\ p \in Ents(file) /\ p \in DOMAIN file /\ p \in Seq(Parts)
         /\ file[p].label \in DOMAIN Kept /\ DOMAIN objs[p].kids = Kept[file[p].label]
         /\ \A l \in Kept[file[p].label] : KidsOf(p, l) = ReadChildren(file, p, l)
         /\ DescsRight(DescsOf(p), file, p, oldTexts)
         /\ DOMAIN DescsOf(p) = {n \in Names : IsChild(file, p, n, Descriptor_t)}
         /\ \A d \in DOMAIN DescsOf(p) : Append(p, d) \in oldTexts \/ DescsOf(p)[d] = file[Append(p, d)].data
         /\ Right(objs[p], file, p, oldTexts, oldValues)
<1>1. /\ FileOK(file) /\ p \in Ents(file) /\ p \in DOMAIN file
      /\ Right(objs[p], file, p, oldTexts, oldValues)
  BY DEF EntitiesInv, EntitiesRight, Ents
<1>2. p \in Seq(Parts) /\ file[p].label \in DOMAIN Kept
  BY <1>1 DEF FileOK, Ents, Nodes
<1>3. DOMAIN objs[p].kids = Kept[file[p].label] /\ \A l \in Kept[file[p].label] : KidsOf(p, l) = ReadChildren(file, p, l)
  BY <1>1 DEF Right, KidsRight, KidsOf
<1>4. /\ DOMAIN DescsOf(p) = {n \in Names : IsChild(file, p, n, Descriptor_t)}
      /\ \A d \in DOMAIN DescsOf(p) : Append(p, d) \in oldTexts \/ DescsOf(p)[d] = file[Append(p, d)].data
  <2>1. CASE objs[p].descs = Unread
    BY <2>1 DEF DescsOf, ReadDescriptors
  <2>2. CASE objs[p].descs # Unread
    BY <2>2, <1>1 DEF DescsOf, Right, DescsRight
  <2> QED  BY <2>1, <2>2
<1> QED  BY <1>1, <1>2, <1>3, <1>4 DEF DescsRight

\* The children of p but n.
Others(f, f2, p, n) == f2[p] = f[p] /\ \A m \in Parts : m # n => SameNode(f, f2, Append(p, m))

\* The child n with the label l is put into the list of its label.
LEMMA KidAdded ==
  ASSUME NEW f, NEW f2, NEW p, NEW n \in Parts, NEW l \in Kept[f[p].label], n \in NamesOf(l), Others(f, f2, p, n),
         Append(p, n) \in DOMAIN f => f[Append(p, n)].label = l,
         Append(p, n) \in DOMAIN f2, f2[Append(p, n)].label = l,
         NEW kids, KidsRight(kids, f, p), NEW kids2,
         kids2 = [kids EXCEPT ![l] = ReadChildren(f, p, l) \cup {n}]
  PROVE  KidsRight(kids2, f2, p)
<1>1. DOMAIN kids = Kept[f[p].label] /\ DOMAIN kids2 = DOMAIN kids /\ f2[p] = f[p]
  BY DEF KidsRight, Others
<1>2. \A m \in Parts : \A k : m # n => (IsChild(f2, p, m, k) <=> IsChild(f, p, m, k))
  BY DEF Others, SameNode, IsChild
<1>3. \A k : k # l => ~IsChild(f2, p, n, k) /\ ~IsChild(f, p, n, k)
  BY DEF IsChild
<1>4. IsChild(f2, p, n, l)
  BY DEF IsChild
<1>5. \A k : NamesOf(k) \subseteq Parts /\ ReadChildren(f, p, k) = {m \in NamesOf(k) : IsChild(f, p, m, k)}
             /\ ReadChildren(f2, p, k) = {m \in NamesOf(k) : IsChild(f2, p, m, k)}
  BY NamesOfFacts DEF ReadChildren, NamesOf
<1>6. ReadChildren(f2, p, l) = ReadChildren(f, p, l) \cup {n}
  BY <1>2, <1>4, <1>5
<1>7. ASSUME NEW k, k # l
      PROVE  ReadChildren(f2, p, k) = ReadChildren(f, p, k)
  <2>1. \A m \in NamesOf(k) : IsChild(f2, p, m, k) <=> IsChild(f, p, m, k)
    BY <1>2, <1>3, <1>5, <1>7
  <2>2. {m \in NamesOf(k) : IsChild(f2, p, m, k)} = {m \in NamesOf(k) : IsChild(f, p, m, k)}
    BY <2>1
  <2> QED  BY <2>2, <1>5
<1>8. kids2[l] = ReadChildren(f2, p, l) /\ \A k \in DOMAIN kids : k # l => kids2[k] = kids[k]
  BY <1>1, <1>6
<1> QED  BY <1>1, <1>7, <1>8 DEF KidsRight

\* It is taken out of this list.
LEMMA KidRemoved ==
  ASSUME NEW f, NEW f2, NEW p, NEW n \in Parts, NEW l \in Kept[f[p].label], Others(f, f2, p, n),
         Append(p, n) \in DOMAIN f => f[Append(p, n)].label = l, Append(p, n) \notin DOMAIN f2,
         NEW kids, KidsRight(kids, f, p), NEW kids2,
         kids2 = [kids EXCEPT ![l] = ReadChildren(f, p, l) \ {n}]
  PROVE  KidsRight(kids2, f2, p)
<1>1. DOMAIN kids = Kept[f[p].label] /\ DOMAIN kids2 = DOMAIN kids /\ f2[p] = f[p]
  BY DEF KidsRight, Others
<1>2. \A m \in Parts : \A k : m # n => (IsChild(f2, p, m, k) <=> IsChild(f, p, m, k))
  BY DEF Others, SameNode, IsChild
<1>3. \A k : k # l => ~IsChild(f2, p, n, k) /\ ~IsChild(f, p, n, k)
  BY DEF IsChild
<1>4. ~IsChild(f2, p, n, l)
  BY DEF IsChild
<1>5. \A k : NamesOf(k) \subseteq Parts /\ ReadChildren(f, p, k) = {m \in NamesOf(k) : IsChild(f, p, m, k)}
             /\ ReadChildren(f2, p, k) = {m \in NamesOf(k) : IsChild(f2, p, m, k)}
  BY NamesOfFacts DEF ReadChildren, NamesOf
<1>6. ReadChildren(f2, p, l) = ReadChildren(f, p, l) \ {n}
  BY <1>2, <1>4, <1>5
<1>7. ASSUME NEW k, k # l
      PROVE  ReadChildren(f2, p, k) = ReadChildren(f, p, k)
  <2>1. \A m \in NamesOf(k) : IsChild(f2, p, m, k) <=> IsChild(f, p, m, k)
    BY <1>2, <1>3, <1>5, <1>7
  <2>2. {m \in NamesOf(k) : IsChild(f2, p, m, k)} = {m \in NamesOf(k) : IsChild(f, p, m, k)}
    BY <2>1
  <2> QED  BY <2>2, <1>5
<1>8. kids2[l] = ReadChildren(f2, p, l) /\ \A k \in DOMAIN kids : k # l => kids2[k] = kids[k]
  BY <1>1, <1>6
<1> QED  BY <1>1, <1>7, <1>8 DEF KidsRight

\* A change of the child n, which is no entity before or after, leaves the children.
LEMMA KidsStay ==
  ASSUME NEW f, NEW f2, NEW p, f[p].label \in DOMAIN Kept, NEW n \in Parts, Others(f, f2, p, n),
         Append(p, n) \notin Ents(f), Append(p, n) \notin Ents(f2),
         NEW kids, KidsRight(kids, f, p)
  PROVE  KidsRight(kids, f2, p)
<1>1. \A m \in Parts : \A k : m # n => (IsChild(f2, p, m, k) <=> IsChild(f, p, m, k))
  BY DEF Others, SameNode, IsChild
<1>2. \A k : k # Descriptor_t => ~IsChild(f2, p, n, k) /\ ~IsChild(f, p, n, k)
  BY DEF IsChild, Ents
<1>3. DOMAIN kids = Kept[f[p].label] /\ \A l \in DOMAIN kids : l # Descriptor_t
  BY KeptLabels, LabelFacts DEF KidsRight
<1>4. f2[p].label = f[p].label
  BY DEF Others
<1>5. \A l \in DOMAIN kids : \A m \in NamesOf(l) : IsChild(f2, p, m, l) <=> IsChild(f, p, m, l)
  BY <1>1, <1>2, <1>3, NamesOfFacts
<1> QED  BY <1>4, <1>5, SameKids

\* A change of an entity n leaves the descriptors.
LEMMA DescsStay ==
  ASSUME NEW f, NEW f2, NEW p, NEW n \in Parts, Others(f, f2, p, n),
         Append(p, n) \in DOMAIN f => Append(p, n) \in Ents(f),
         Append(p, n) \in DOMAIN f2 => Append(p, n) \in Ents(f2),
         NEW T, NEW T2, \A m \in Parts : m # n /\ Append(p, m) \in T /\ Append(p, m) \in DOMAIN f2 => Append(p, m) \in T2,
         NEW ds, DescsRight(ds, f, p, T)
  PROVE  DescsRight(ds, f2, p, T2)
<1>1. \A m \in Parts : m # n => (IsChild(f2, p, m, Descriptor_t) <=> IsChild(f, p, m, Descriptor_t))
  BY DEF Others, SameNode, IsChild
<1>2. ~IsChild(f2, p, n, Descriptor_t) /\ ~IsChild(f, p, n, Descriptor_t)
  BY DEF IsChild, Ents
<1>3. \A m \in Parts : IsChild(f2, p, m, Descriptor_t) =>
        f2[Append(p, m)].data = f[Append(p, m)].data /\ Append(p, m) \in DOMAIN f2
  BY <1>2 DEF Others, SameNode, IsChild
<1>4. Names \subseteq Parts
  BY DEF Parts
<1> QED  BY <1>1, <1>2, <1>3, <1>4, SameDescs

\* What Wipe leaves of an entity.
Blank(o) == [o EXCEPT !.descs = IF @ = Unread THEN Unread ELSE None,
                      !.kids = [l \in DOMAIN @ |-> Emptied(@[l])]]

\* It is right when the children are gone, and a new one is right.
LEMMA WipedRight ==
  ASSUME NEW f, NEW f2, NEW q, NEW o, NEW T, NEW T2, NEW V, NEW V2, Right(o, f, q, T, V),
         f2[q].label = f[q].label, \A m \in Parts : Append(q, m) \notin DOMAIN f2,
         f[q].label = ReferenceState_t => \A a \in DOMAIN o.values : Append(q, a) \in V2,
         NEW o2, o2 = Blank(o)
  PROVE  Right(o2, f2, q, T2, V2)
<1>1. /\ DOMAIN o = {"descs", "kids", "values"}
      /\ KidsRight(o.kids, f, q) /\ ValuesRight(o.values, f, q, V)
  BY DEF Right
<1>2. DOMAIN o2 = DOMAIN o
  BY DEF Blank
<1>3. o2.descs = IF o.descs = Unread THEN Unread ELSE None
  BY <1>1 DEF Blank
<1>4. o2.kids = [l \in DOMAIN o.kids |-> Emptied(o.kids[l])]
  BY <1>1 DEF Blank
<1>5. o2.values = o.values
  BY <1>1 DEF Blank
<1> HIDE DEF Right
<1>6. \A m \in Parts : \A l : ~IsChild(f2, q, m, l)
  BY DEF IsChild
<1>7. Names \subseteq Parts
  BY DEF Parts
<1>8. DescsRight(o2.descs, f2, q, T2)
  BY <1>3, <1>6, <1>7 DEF DescsRight, None
<1>9. KidsRight(o2.kids, f2, q)
  <2>1. \A l : ReadChildren(f2, q, l) = {}
    BY <1>6, NamesOfFacts DEF ReadChildren, NamesOf
  <2> QED  BY <2>1, <1>1, <1>4 DEF KidsRight, Emptied
<1>10. ValuesRight(o2.values, f2, q, V2)
  <2>1. \A a \in Names : ~HasData(f2, q, a)
    BY <1>6, <1>7 DEF HasData
  <2> QED  BY <2>1, <1>1, <1>5 DEF ValuesRight
<1> QED  BY <1>1, <1>2, <1>8, <1>9, <1>10 DEF Right

\* An entity that has read nothing is right.
LEMMA NewRight ==
  ASSUME NEW f, NEW q, NEW l, f[q].label = l, NEW T, NEW V
  PROVE  Right(New(l), f, q, T, V)
<1>1. /\ DOMAIN New(l) = {"descs", "kids", "values"}
      /\ New(l).descs = Unread /\ New(l).kids = [k \in Kept[l] |-> Unread] /\ New(l).values = None
  BY DEF New
<1>2. KidsRight([k \in Kept[l] |-> Unread], f, q)
  BY DEF KidsRight
<1>3. ValuesRight(None, f, q, V)
  BY DEF ValuesRight, None
<1> QED  BY <1>1, <1>2, <1>3 DEF Right, DescsRight

\* Of an entity p of which the child n, an entity with the label l, is made or wiped.
LEMMA ParentRight ==
  ASSUME NEW f, NEW f2, NEW p, NEW n \in Parts, NEW l \in Kept[f[p].label], f[p].label \in DOMAIN Kept,
         n \in NamesOf(l), Others(f, f2, p, n),
         Append(p, n) \in DOMAIN f => f[Append(p, n)].label = l,
         Append(p, n) \in DOMAIN f2, f2[Append(p, n)].label = l,
         NEW T, NEW T2, \A m \in Parts : m # n /\ Append(p, m) \in T /\ Append(p, m) \in DOMAIN f2 => Append(p, m) \in T2,
         NEW r, NEW V, Right(r, f, p, T, V), NEW V2, NEW r2, DOMAIN r2 = DOMAIN r,
         r2.descs = r.descs, r2.kids = [r.kids EXCEPT ![l] = ReadChildren(f, p, l) \cup {n}],
         ValuesRight(r2.values, f2, p, V2)
  PROVE  Right(r2, f2, p, T2, V2)
<1>1. DOMAIN r = {"descs", "kids", "values"} /\ DescsRight(r.descs, f, p, T) /\ KidsRight(r.kids, f, p)
  BY DEF Right
<1>2. l # Descriptor_t
  BY KeptLabels, LabelFacts
<1>3. DescsRight(r.descs, f2, p, T2)
  <2>1. /\ Append(p, n) \in DOMAIN f => Append(p, n) \in Ents(f)
        /\ Append(p, n) \in DOMAIN f2 => Append(p, n) \in Ents(f2)
    BY <1>2 DEF Ents
  <2> QED  BY <1>1, <2>1, DescsStay
<1>4. KidsRight(r2.kids, f2, p)
  BY <1>1, KidAdded
<1> QED  BY <1>1, <1>3, <1>4 DEF Right

(* The steps.                                                              *)

\* assureChild of a child that is known.
LEMMA AssureKnown ==
  ASSUME EntitiesInv, NEW p \in DOMAIN objs, NEW l \in Kept[file[p].label], NEW n \in NamesOf(l),
         NEW data \in Data \cup {Bare}, l = DataArray_t => data = Bare,
         AssureChild(p, l, n, data), n \in KidsOf(p, l),
         TextsKept(oldTexts, oldTexts', file', Append(p, n)),
         \A r \in oldValues : Parent(r) \in DOMAIN file' => r \in oldValues',
         l = ReferenceState_t => \A a \in DOMAIN objs[Append(p, n)].values : Append(Append(p, n), a) \in oldValues'
  PROVE  EntitiesInv'
<1> DEFINE q == Append(p, n)
           W == Below(file, q)
           x == [label |-> l, data |-> IF data = Bare THEN file[q].data ELSE data]
<1>1. /\ FileOK(file) /\ p \in Ents(file) /\ p \in Seq(Parts) /\ file[p].label \in DOMAIN Kept
      /\ KidsOf(p, l) = ReadChildren(file, p, l)
      /\ Right(objs[p], file, p, oldTexts, oldValues) /\ DOMAIN objs[p].kids = Kept[file[p].label]
  BY Answers
<1>2. n \in Parts /\ q \in DOMAIN file /\ file[q].label = l /\ l \in DOMAIN Kept
  BY <1>1, NamesOfFacts, KeptLabels DEF ReadChildren, IsChild
<1>3. file' = Put(WipedFile(q), q, x)
  BY DEF AssureChild
<1>4. Grown(file, file', q, W, x)
  BY <1>2, <1>3 DEF Put, WipedFile, Without, Grown
<1>5. Cut(file, p, n, W)
  BY <1>1, <1>2, CutBelow
<1>6. file[q].data \in Data \cup {Bare}
  BY <1>1, <1>2 DEF FileOK, Nodes
<1>7. x \in Nodes /\ Fitting(file[p].label, n, x.label)
  BY <1>1, <1>2, <1>6 DEF Fitting, Nodes
<1> HIDE DEF x, W
<1>8. /\ FileOK(file') /\ p \in Ents(file') /\ file'[p] = file[p] /\ q \in DOMAIN file' /\ file'[q] = x
      /\ \A m \in Parts : Append(q, m) \notin DOMAIN file'
  BY <1>1, <1>2, <1>4, <1>5, <1>7, GrownOK
<1>9. x.label = l /\ (l = DataArray_t => x.data = file[q].data)
  BY DEF x
<1>10. q # p /\ p \notin W /\ q \notin W
  BY <1>1, <1>2, <1>5, BelowFacts DEF Cut
<1>11. PICK w : w = Blank(objs[q])
  OBVIOUS
<1>12. objs' = [Put(Without(objs, W), q, w) EXCEPT ![p].kids[l] = KidsOf(p, l)]
  BY <1>11 DEF AssureChild, Wiped, W, Blank
<1>13. DOMAIN objs' = (DOMAIN objs \ W) \cup {q}
  BY <1>12 DEF Put, Without
<1>14. objs'[q] = w /\ \A r \in DOMAIN objs' : r # p /\ r # q => objs'[r] = objs[r]
  BY <1>12, <1>10 DEF Put, Without
<1>15. objs'[p] = [objs[p] EXCEPT !.kids[l] = KidsOf(p, l)]
  BY <1>12, <1>10 DEF Put, Without
<1>16. DOMAIN objs' = Ents(file')
  <2>1. DOMAIN objs = Ents(file)
    BY DEF EntitiesInv, EntitiesRight
  <2>2. l # Descriptor_t
    BY <1>2, LabelFacts
  <2> QED  BY <2>1, <2>2, <1>4, <1>8, <1>9, <1>13 DEF Grown, Ents
<1>17. Right(objs'[q], file', q, oldTexts', oldValues')
  <2>1. Right(objs[q], file, q, oldTexts, oldValues)
    BY <1>2, LabelFacts DEF EntitiesInv, EntitiesRight, Ents
  <2> QED  BY <2>1, <1>2, <1>8, <1>9, <1>11, <1>14, WipedRight
<1>18. Others(file, file', p, n) /\ \A m \in Parts : m # n => Append(p, m) # q
  BY <1>1, <1>2, <1>4, <1>5, <1>8, <1>10, Around DEF Others, Ents
<1>19. Right(objs'[p], file', p, oldTexts', oldValues')
  <2>1. /\ DOMAIN objs[p] = {"descs", "kids", "values"} /\ ValuesRight(objs[p].values, file, p, oldValues)
    BY <1>1 DEF Right
  <2>2. /\ DOMAIN objs'[p] = DOMAIN objs[p] /\ objs'[p].descs = objs[p].descs /\ objs'[p].values = objs[p].values
        /\ objs'[p].kids = [objs[p].kids EXCEPT ![l] = KidsOf(p, l)]
    BY <1>15, <2>1
  <2>3. KidsOf(p, l) = ReadChildren(file, p, l) \cup {n}
    BY <1>1
  <2>4. \A a \in Names : /\ HasData(file', p, a) <=> HasData(file, p, a)
                         /\ HasData(file', p, a) => file'[Append(p, a)].data = file[Append(p, a)].data
    <3> SUFFICES ASSUME NEW a \in Names
                 PROVE  /\ HasData(file', p, a) <=> HasData(file, p, a)
                        /\ HasData(file', p, a) => file'[Append(p, a)].data = file[Append(p, a)].data
      OBVIOUS
    <3>1. CASE a # n
      BY <3>1, <1>18 DEF HasData, IsChild, Others, SameNode, Parts
    <3>2. CASE a = n
      BY <3>2, <1>2, <1>8, <1>9 DEF HasData, IsChild
    <3> QED  BY <3>1, <3>2
  <2>5. \A m \in Parts : Parent(Append(p, m)) = p
    BY <1>1, AppendFacts
  <2>6. ValuesRight(objs[p].values, file', p, oldValues')
    <3>1. \A a \in Names : Append(p, a) \in oldValues => Append(p, a) \in oldValues'
      BY <2>5, <1>8 DEF Ents, Parts
    <3> QED  BY <3>1, <2>1, <2>4, <1>8, SameValues
  <2>7. \A m \in Parts : m # n /\ Append(p, m) \in oldTexts /\ Append(p, m) \in DOMAIN file' => Append(p, m) \in oldTexts'
    BY <1>18 DEF TextsKept
  <2> QED  BY <1>1, <1>2, <1>8, <1>9, <1>18, <2>2, <2>3, <2>6, <2>7, ParentRight
<1>20. MarksKept(oldValues, oldValues', file', q)
  BY DEF MarksKept
<1>21. EntitiesRight(file', objs', oldTexts', oldValues')
  <2>1. EntitiesRight(file, objs, oldTexts, oldValues)
    BY DEF EntitiesInv
  <2> QED  BY <2>1, <1>1, <1>2, <1>4, <1>5, <1>8, <1>14, <1>16, <1>17, <1>19, <1>20, StepRight
<1> QED  BY <1>21 DEF EntitiesInv

\* assureChild of a child that is made.
LEMMA AssureNew ==
  ASSUME EntitiesInv, NEW p \in DOMAIN objs, NEW l \in Kept[file[p].label], NEW n \in NamesOf(l),
         NEW data \in Data \cup {Bare}, l = DataArray_t => data = Bare,
         AssureChild(p, l, n, data), n \notin KidsOf(p, l),
         TextsKept(oldTexts, oldTexts', file', Append(p, n)),
         \A r \in oldValues : Parent(r) \in DOMAIN file' => r \in oldValues'
  PROVE  EntitiesInv'
<1> DEFINE q == Append(p, n)
           x == [label |-> l, data |-> data]
<1>1. /\ FileOK(file) /\ p \in Ents(file) /\ p \in Seq(Parts) /\ file[p].label \in DOMAIN Kept
      /\ KidsOf(p, l) = ReadChildren(file, p, l)
      /\ Right(objs[p], file, p, oldTexts, oldValues) /\ DOMAIN objs[p].kids = Kept[file[p].label]
  BY Answers
<1>2. n \in Parts /\ q \notin DOMAIN file /\ l \in DOMAIN Kept
  BY <1>1, NamesOfFacts, KeptLabels DEF AssureChild
<1>3. file' = Put(file, q, x)
  BY DEF AssureChild
<1>4. Grown(file, file', q, {}, x)
  BY <1>2, <1>3 DEF Put, Grown
<1>5. Cut(file, p, n, {})
  BY <1>1, <1>2, CutNothing DEF Ents
<1>7. x \in Nodes /\ Fitting(file[p].label, n, x.label)
  BY <1>1, <1>2 DEF Fitting, Nodes
<1>9. x.label = l /\ x.data = data
  OBVIOUS
<1> HIDE DEF x
<1>8. /\ FileOK(file') /\ p \in Ents(file') /\ file'[p] = file[p] /\ q \in DOMAIN file' /\ file'[q] = x
      /\ \A m \in Parts : Append(q, m) \notin DOMAIN file'
  BY <1>1, <1>2, <1>4, <1>5, <1>7, GrownOK
<1>10. q # p
  BY <1>1, <1>2, BelowFacts
<1>12. objs' = Put([objs EXCEPT ![p].kids[l] = KidsOf(p, l) \cup {n}], q, New(l))
  BY DEF AssureChild
<1>13. DOMAIN objs' = DOMAIN objs \cup {q}
  BY <1>12 DEF Put
<1>14. objs'[q] = New(l) /\ \A r \in DOMAIN objs' : r # p /\ r # q => objs'[r] = objs[r]
  BY <1>12, <1>10 DEF Put
<1>15. objs'[p] = [objs[p] EXCEPT !.kids[l] = KidsOf(p, l) \cup {n}]
  BY <1>12, <1>10 DEF Put
<1>16. DOMAIN objs' = Ents(file')
  <2>1. DOMAIN objs = Ents(file)
    BY DEF EntitiesInv, EntitiesRight
  <2>2. l # Descriptor_t
    BY <1>2, LabelFacts
  <2> QED  BY <2>1, <2>2, <1>4, <1>8, <1>9, <1>13 DEF Grown, Ents
<1>17. Right(objs'[q], file', q, oldTexts', oldValues')
  BY <1>8, <1>9, <1>14, NewRight
<1>18. Others(file, file', p, n) /\ \A m \in Parts : m # n => Append(p, m) # q
  BY <1>1, <1>2, <1>4, <1>5, <1>8, <1>10, Around DEF Others, Ents
<1>19. Right(objs'[p], file', p, oldTexts', oldValues')
  <2>1. /\ DOMAIN objs[p] = {"descs", "kids", "values"} /\ ValuesRight(objs[p].values, file, p, oldValues)
    BY <1>1 DEF Right
  <2>2. /\ DOMAIN objs'[p] = DOMAIN objs[p] /\ objs'[p].descs = objs[p].descs /\ objs'[p].values = objs[p].values
        /\ objs'[p].kids = [objs[p].kids EXCEPT ![l] = KidsOf(p, l) \cup {n}]
    BY <1>15, <2>1
  <2>4. \A a \in Names : /\ HasData(file', p, a) <=> HasData(file, p, a)
                         /\ HasData(file', p, a) => file'[Append(p, a)].data = file[Append(p, a)].data
    <3> SUFFICES ASSUME NEW a \in Names
                 PROVE  /\ HasData(file', p, a) <=> HasData(file, p, a)
                        /\ HasData(file', p, a) => file'[Append(p, a)].data = file[Append(p, a)].data
      OBVIOUS
    <3>1. CASE a # n
      BY <3>1, <1>18 DEF HasData, IsChild, Others, SameNode, Parts
    <3>2. CASE a = n
      BY <3>2, <1>2, <1>8, <1>9 DEF HasData, IsChild
    <3> QED  BY <3>1, <3>2
  <2>5. \A m \in Parts : Parent(Append(p, m)) = p
    BY <1>1, AppendFacts
  <2>6. ValuesRight(objs[p].values, file', p, oldValues')
    <3>1. \A a \in Names : Append(p, a) \in oldValues => Append(p, a) \in oldValues'
      BY <2>5, <1>8 DEF Ents, Parts
    <3> QED  BY <3>1, <2>1, <2>4, <1>8, SameValues
  <2>7. \A m \in Parts : m # n /\ Append(p, m) \in oldTexts /\ Append(p, m) \in DOMAIN file' => Append(p, m) \in oldTexts'
    BY <1>18 DEF TextsKept
  <2> QED  BY <1>1, <1>2, <1>8, <1>9, <1>18, <2>2, <2>6, <2>7, ParentRight
<1>20. MarksKept(oldValues, oldValues', file', q)
  BY DEF MarksKept
<1>21. EntitiesRight(file', objs', oldTexts', oldValues')
  <2>1. EntitiesRight(file, objs, oldTexts, oldValues)
    BY DEF EntitiesInv
  <2> QED  BY <2>1, <1>1, <1>2, <1>4, <1>5, <1>8, <1>14, <1>16, <1>17, <1>19, <1>20, StepRight
<1> QED  BY <1>21 DEF EntitiesInv

\* The base is at the root; zones lie below it.
LEMMA BaseAtRoot ==
  ASSUME NEW f, FileOK(f), NEW p \in Ents(f)
  PROVE  /\ f[p].label = Base_t <=> p = <<>>
         /\ f[p].label = Zone_t => Parent(p) = <<>>
         /\ p # <<>> => Parent(p) \in Ents(f)
<1>1. p \in DOMAIN f /\ p \in Seq(Parts) /\ f[p].label # Descriptor_t
  BY DEF Ents, FileOK
<1>2. CASE p = <<>>
  BY <1>2, LabelFacts DEF FileOK
<1>3. CASE p # <<>>
  <2>1. PICK r \in Seq(Parts), n \in Parts : p = Append(r, n) /\ r = Parent(p)
    BY <1>1, <1>3, ParentFacts
  <2>2. r \in DOMAIN f /\ Fitting(f[r].label, n, f[p].label)
    BY <2>1, <1>1 DEF FileOK
  <2>3. f[r].label \in DOMAIN Kept /\ f[p].label \in Kept[f[r].label]
    BY <2>2, <1>1 DEF Fitting, Nodes
  <2>4. f[p].label # Base_t /\ (f[p].label = Zone_t => f[r].label = Base_t) /\ r \in Ents(f)
    BY <2>2, <2>3, KeptLabels, LabelFacts DEF Ents
  <2>5. f[r].label = Base_t => r = <<>>
    <3> SUFFICES ASSUME r # <<>>, f[r].label = Base_t
                 PROVE  FALSE
      OBVIOUS
    <3>1. PICK s \in Seq(Parts), m \in Parts : r = Append(s, m)
      BY ParentFacts
    <3>2. Fitting(f[s].label, m, f[r].label)
      BY <3>1, <2>2 DEF FileOK
    <3> QED  BY <3>2, KeptLabels, LabelFacts DEF Fitting, Nodes
  <2> QED  BY <2>1, <2>4, <2>5, <1>3
<1> QED  BY <1>2, <1>3

\* The action WriteZone keeps the invariant.
LEMMA WriteZoneStep ==
  ASSUME EntitiesInv, NEW z \in Names, NEW size \in Data \cup {Bare}, WriteZone(z, size)
  PROVE  EntitiesInv'
<1>1. <<>> \in DOMAIN objs /\ file[<<>>].label = Base_t
  BY LabelFacts DEF EntitiesInv, EntitiesRight, FileOK, Ents
<1>2. Zone_t \in Kept[file[<<>>].label] /\ z \in NamesOf(Zone_t) /\ Zone_t # DataArray_t /\ Zone_t # ReferenceState_t
  BY <1>1, KeptFacts, LabelFacts, NamesOfFacts
<1>3. AssureChild(<<>>, Zone_t, z, size)
  BY DEF WriteZone
<1>4. /\ TextsKept(oldTexts, oldTexts', file', Append(<<>>, z))
      /\ \A r \in oldValues : Parent(r) \in DOMAIN file' => r \in oldValues'
  BY DEF WriteZone, Stays, TextsKept
<1> QED  BY <1>1, <1>2, <1>3, <1>4, AssureKnown, AssureNew

\* The action WriteArray keeps the invariant.
LEMMA WriteArrayStep ==
  ASSUME EntitiesInv, NEW p \in DOMAIN objs, NEW a \in Names, WriteArray(p, a)
  PROVE  EntitiesInv'
<1>1. DataArray_t \in Kept[file[p].label] /\ a \in NamesOf(DataArray_t) /\ DataArray_t # ReferenceState_t
  BY KeptFacts, LabelFacts, NamesOfFacts DEF WriteArray, IsState
<1>2. AssureChild(p, DataArray_t, a, Bare)
  BY DEF WriteArray
<1>3. /\ TextsKept(oldTexts, oldTexts', file', Append(p, a))
      /\ \A r \in oldValues : Parent(r) \in DOMAIN file' => r \in oldValues'
  BY DEF WriteArray, Stays, TextsKept
<1> QED  BY <1>1, <1>2, <1>3, AssureKnown, AssureNew

\* The action WriteFixed keeps the invariant.
LEMMA WriteFixedStep ==
  ASSUME EntitiesInv, NEW p \in DOMAIN objs, NEW l \in Fixed, WriteFixed(p, l)
  PROVE  EntitiesInv'
<1>1. l \in Kept[file[p].label] /\ l \in NamesOf(l) /\ l # DataArray_t
  BY Answers, LabelFacts, NamesOfFacts DEF WriteFixed, Fixed
<1>2. AssureChild(p, l, l, Bare)
  BY DEF WriteFixed
<1>3. /\ TextsKept(oldTexts, oldTexts', file', Append(p, l))
      /\ \A r \in oldValues : Parent(r) \in DOMAIN file' => r \in oldValues'
  BY DEF WriteFixed, TextsKept
<1>4. ASSUME l \in KidsOf(p, l)
      PROVE  \A a \in DOMAIN objs[Append(p, l)].values : Append(Append(p, l), a) \in oldValues'
  <2>1. Append(p, l) \in DOMAIN file /\ file[Append(p, l)].label = l
    BY <1>1, <1>4, Answers, ZenonT(30) DEF ReadChildren, IsChild
  <2>2. Append(p, l) \in DOMAIN objs
    BY <2>1, LabelFacts DEF EntitiesInv, EntitiesRight, Ents, Fixed
  <2> QED  BY <2>2 DEF WriteFixed
<1> QED  BY <1>1, <1>2, <1>3, <1>4, AssureKnown, AssureNew

-----------------------------------------------------------------------------
\* One descriptor of p changes.
LEMMA DescriptorStep ==
  ASSUME EntitiesInv, NEW p \in DOMAIN objs, NEW d \in Names, NEW x, NEW ds,
         Append(p, d) \notin Ents(file), Append(p, d) \notin Ents(file'), FileOK(file'),
         Grown(file, file', Append(p, d), {}, x) \/ Shrunk(file, file', Append(p, d), {}),
         objs' = [objs EXCEPT ![p].descs = ds], DescsRight(ds, file', p, oldTexts'),
         TextsKept(oldTexts, oldTexts', file', Append(p, d)), oldValues' = oldValues
  PROVE  EntitiesInv'
<1> DEFINE q == Append(p, d)
<1>1. /\ FileOK(file) /\ p \in Ents(file) /\ p \in Seq(Parts) /\ file[p].label \in DOMAIN Kept
      /\ Right(objs[p], file, p, oldTexts, oldValues) /\ DOMAIN objs = Ents(file)
  BY Answers DEF EntitiesInv, EntitiesRight
<1>2. d \in Parts
  BY DEF Parts
<1>3. Cut(file, p, d, {})
  BY <1>1, <1>2, CutNothing
<1>4. q # p
  BY <1>1
<1>5. /\ DOMAIN objs' = DOMAIN objs /\ \A r \in DOMAIN objs : r # p => objs'[r] = objs[r]
      /\ objs'[p] = [objs[p] EXCEPT !.descs = ds]
  OBVIOUS
<1>6. p \in Ents(file') /\ p \in DOMAIN file' /\ file'[p] = file[p]
  BY <1>1, <1>4 DEF Grown, Shrunk, Ents
<1>7. Others(file, file', p, d)
  BY <1>1, <1>2, <1>3, <1>4, <1>6, Around DEF Others
<1>8. DOMAIN objs' = Ents(file')
  <2>1. \A r : r # q => (r \in Ents(file') <=> r \in Ents(file))
    BY DEF Grown, Shrunk, Ents
  <2> QED  BY <2>1, <1>1, <1>5
<1>9. Right(objs'[p], file', p, oldTexts', oldValues')
  <2>1. /\ DOMAIN objs[p] = {"descs", "kids", "values"}
        /\ KidsRight(objs[p].kids, file, p) /\ ValuesRight(objs[p].values, file, p, oldValues)
    BY <1>1 DEF Right
  <2>2. /\ DOMAIN objs'[p] = DOMAIN objs[p] /\ objs'[p].descs = ds /\ objs'[p].kids = objs[p].kids
        /\ objs'[p].values = objs[p].values
    BY <1>5, <2>1
  <2>3. KidsRight(objs[p].kids, file', p)
    BY <1>1, <1>2, <1>7, <2>1, KidsStay
  <2>4. \A a \in Names : /\ HasData(file', p, a) <=> HasData(file, p, a)
                         /\ HasData(file', p, a) => file'[Append(p, a)].data = file[Append(p, a)].data
    <3> SUFFICES ASSUME NEW a \in Names
                 PROVE  /\ HasData(file', p, a) <=> HasData(file, p, a)
                        /\ HasData(file', p, a) => file'[Append(p, a)].data = file[Append(p, a)].data
      OBVIOUS
    <3>1. CASE a # d
      BY <3>1, <1>7 DEF HasData, IsChild, Others, SameNode, Parts
    <3>2. CASE a = d
      BY <3>2, LabelFacts DEF HasData, IsChild, Ents
    <3> QED  BY <3>1, <3>2
  <2>5. ValuesRight(objs[p].values, file', p, oldValues')
    BY <2>1, <2>4, <1>6, SameValues
  <2> QED  BY <2>1, <2>2, <2>3, <2>5 DEF Right
<1>10. MarksKept(oldValues, oldValues', file', q)
  BY DEF MarksKept
<1>11. EntitiesRight(file, objs, oldTexts, oldValues)
  BY DEF EntitiesInv
<1>12. EntitiesRight(file', objs', oldTexts', oldValues')
  BY <1>1, <1>2, <1>3, <1>5, <1>8, <1>9, <1>10, <1>11, StepRight, ZenonT(30)
<1> QED  BY <1>12 DEF EntitiesInv

\* The other descriptors of p when the one with the name d changes.
LEMMA OtherDescs ==
  ASSUME NEW f, NEW f2, NEW p, NEW d \in Names, Others(f, f2, p, d), NEW m \in Names, m # d
  PROVE  /\ IsChild(f2, p, m, Descriptor_t) <=> IsChild(f, p, m, Descriptor_t)
         /\ IsChild(f2, p, m, Descriptor_t) => f2[Append(p, m)] = f[Append(p, m)]
BY DEF Others, SameNode, IsChild, Parts

\* The other children of p when a descriptor changes.
LEMMA DescriptorAround ==
  ASSUME NEW f, FileOK(f), NEW f2, NEW p \in Ents(f), NEW d \in Names, NEW x,
         Append(p, d) \notin Ents(f), Grown(f, f2, Append(p, d), {}, x) \/ Shrunk(f, f2, Append(p, d), {})
  PROVE  Others(f, f2, p, d) /\ \A m \in Parts : m # d => Append(p, m) # Append(p, d)
<1>1. p \in Seq(Parts) /\ d \in Parts
  BY DEF FileOK, Ents, Parts
<1>2. Cut(f, p, d, {}) /\ p # Append(p, d)
  BY <1>1, CutNothing
<1>3. p \in DOMAIN f2
  BY <1>2 DEF Grown, Shrunk, Ents
<1>4. \A m \in Parts : m # d => SameNode(f, f2, Append(p, m)) /\ Append(p, m) # Append(p, d)
  BY <1>1, <1>2, <1>3, Around
<1> QED  BY <1>2, <1>3, <1>4, <1>1, Around DEF Others

\* The action WriteDescriptor keeps the invariant.
LEMMA WriteDescriptorStep ==
  ASSUME EntitiesInv, NEW p \in DOMAIN objs, NEW d \in Names, NEW t \in Data, WriteDescriptor(p, d, t)
  PROVE  EntitiesInv'
<1> DEFINE q == Append(p, d)
           x == [label |-> Descriptor_t, data |-> t]
           ds == Put(DescsOf(p), d, t)
<1>0. /\ FileOK(file) /\ p \in Ents(file) /\ p \in DOMAIN file /\ p \in Seq(Parts) /\ file[p].label \in DOMAIN Kept
  BY Answers
<1>1. /\ DOMAIN DescsOf(p) = {n \in Names : IsChild(file, p, n, Descriptor_t)}
      /\ \A e \in DOMAIN DescsOf(p) : Append(p, e) \in oldTexts \/ DescsOf(p)[e] = file[Append(p, e)].data
  BY Answers
<1>2. /\ q \notin DOMAIN file /\ q \notin Ents(file) /\ d \in Parts
      /\ file' = Put(file, q, x) /\ objs' = [objs EXCEPT ![p].descs = ds]
      /\ oldTexts' = oldTexts \ {q} /\ oldValues' = oldValues
  BY DEF WriteDescriptor, Ents, Parts
<1>3. Grown(file, file', q, {}, x)
  BY <1>2 DEF Put, Grown
<1>4a. x \in Nodes /\ Fitting(file[p].label, d, x.label)
  BY <1>0, LabelFacts DEF Fitting, Nodes
<1>4. x.label = Descriptor_t /\ x.data = t
  OBVIOUS
<1>5. \A e \in DOMAIN ds : ds[e] = IF e = d THEN t ELSE DescsOf(p)[e]
  BY DEF Put
<1>6. DOMAIN ds = DOMAIN DescsOf(p) \cup {d}
  BY DEF Put
<1> HIDE DEF x, ds
<1>7. Cut(file, p, d, {})
  BY <1>0, <1>2, CutNothing
<1>8. FileOK(file') /\ q \in DOMAIN file' /\ file'[q] = x
  <2>1. d \in Parts /\ q \notin DOMAIN file
    BY <1>2
  <2>2. /\ FileOK(file') /\ p \in Ents(file') /\ file'[p] = file[p] /\ q \in DOMAIN file' /\ file'[q] = x
        /\ \A m \in Parts : Append(q, m) \notin DOMAIN file'
    BY <1>0, <2>1, <1>3, <1>4a, <1>7, GrownOK
  <2> QED  BY <2>2
<1>9. q \notin Ents(file')
  BY <1>4, <1>8 DEF Ents
<1>10. Others(file, file', p, d) /\ \A m \in Parts : m # d => Append(p, m) # q
  BY <1>0, <1>2, <1>3, DescriptorAround
<1>11. DescsRight(ds, file', p, oldTexts')
  <2>1. \A m \in Names : m # d => /\ IsChild(file', p, m, Descriptor_t) <=> IsChild(file, p, m, Descriptor_t)
                                  /\ IsChild(file', p, m, Descriptor_t) => file'[Append(p, m)] = file[Append(p, m)]
    BY <1>10, OtherDescs
  <2>2. IsChild(file', p, d, Descriptor_t)
    BY <1>4, <1>8 DEF IsChild
  <2>3. DOMAIN ds = {n \in Names : IsChild(file', p, n, Descriptor_t)}
    BY <2>1, <2>2, <1>1, <1>6
  <2>4. ASSUME NEW e \in DOMAIN ds
        PROVE  Append(p, e) \in oldTexts' \/ ds[e] = file'[Append(p, e)].data
    <3>1. CASE e = d
      BY <3>1, <1>4, <1>5, <1>8
    <3>2. CASE e # d
      <4>1. e \in DOMAIN DescsOf(p) /\ ds[e] = DescsOf(p)[e] /\ e \in Names
        BY <3>2, <1>1, <1>5, <1>6
      <4>2. Append(p, e) # q /\ file'[Append(p, e)] = file[Append(p, e)]
        BY <4>1, <3>2, <1>1, <1>10, <2>1 DEF Parts
      <4> QED  BY <4>1, <4>2, <1>1, <1>2
    <3> QED  BY <3>1, <3>2
  <2> QED  BY <2>3, <2>4 DEF DescsRight
<1>12. TextsKept(oldTexts, oldTexts', file', q)
  BY <1>2 DEF TextsKept
<1> QED  BY <1>2, <1>3, <1>8, <1>9, <1>11, <1>12, DescriptorStep

\* The action RewriteDescriptor keeps the invariant.
LEMMA RewriteDescriptorStep ==
  ASSUME EntitiesInv, NEW p \in DOMAIN objs, NEW d \in Names, NEW t \in Data, RewriteDescriptor(p, d, t)
  PROVE  EntitiesInv'
<1> DEFINE q == Append(p, d)
           x == [label |-> Descriptor_t, data |-> t]
<1>0. /\ FileOK(file) /\ p \in Ents(file) /\ p \in DOMAIN file /\ p \in Seq(Parts) /\ file[p].label \in DOMAIN Kept
  BY Answers
<1>1. /\ DOMAIN DescsOf(p) = {n \in Names : IsChild(file, p, n, Descriptor_t)}
      /\ \A e \in DOMAIN DescsOf(p) : Append(p, e) \in oldTexts \/ DescsOf(p)[e] = file[Append(p, e)].data
  BY Answers
<1>2. /\ d \in DOMAIN DescsOf(p) /\ file' = [file EXCEPT ![q].data = t]
      /\ objs' = [objs EXCEPT ![p].descs = DescsOf(p)]
      /\ oldTexts' = oldTexts \cup {q} /\ oldValues' = oldValues
  BY DEF RewriteDescriptor
<1>3. q \in DOMAIN file /\ file[q].label = Descriptor_t /\ q \notin Ents(file) /\ d \in Parts
  BY <1>1, <1>2 DEF IsChild, Ents, Parts
<1>4. file[q] \in Nodes
  BY <1>0, <1>3 DEF FileOK
<1>5. x = [file[q] EXCEPT !.data = t]
  BY <1>3, <1>4 DEF Nodes
<1>6a. x \in Nodes /\ Fitting(file[p].label, d, x.label)
  BY <1>0, LabelFacts DEF Fitting, Nodes
<1>6. x.label = Descriptor_t /\ x.data = t
  OBVIOUS
<1> HIDE DEF x
<1>7. Grown(file, file', q, {}, x)
  BY <1>2, <1>3, <1>5 DEF Grown
<1>8. Cut(file, p, d, {})
  BY <1>0, <1>3, CutNothing
<1>9. FileOK(file') /\ q \in DOMAIN file' /\ file'[q] = x
  <2>2. /\ FileOK(file') /\ p \in Ents(file') /\ file'[p] = file[p] /\ q \in DOMAIN file' /\ file'[q] = x
        /\ \A m \in Parts : Append(q, m) \notin DOMAIN file'
    BY <1>0, <1>3, <1>6a, <1>7, <1>8, GrownOK
  <2> QED  BY <2>2
<1>10. q \notin Ents(file')
  BY <1>6, <1>9 DEF Ents
<1>11. Others(file, file', p, d)
  BY <1>0, <1>3, <1>7, DescriptorAround
<1>12. DescsRight(DescsOf(p), file', p, oldTexts')
  <2>1. \A m \in Names : m # d => /\ IsChild(file', p, m, Descriptor_t) <=> IsChild(file, p, m, Descriptor_t)
                                  /\ IsChild(file', p, m, Descriptor_t) => file'[Append(p, m)] = file[Append(p, m)]
    BY <1>11, <1>1, <1>2, OtherDescs
  <2>2. IsChild(file', p, d, Descriptor_t) /\ IsChild(file, p, d, Descriptor_t)
    BY <1>3, <1>6, <1>9 DEF IsChild
  <2>3. DOMAIN DescsOf(p) = {n \in Names : IsChild(file', p, n, Descriptor_t)}
    BY <2>1, <2>2, <1>1
  <2>4. \A e \in DOMAIN DescsOf(p) : Append(p, e) \in oldTexts' \/ DescsOf(p)[e] = file'[Append(p, e)].data
    BY <1>1, <1>2, <2>1, <2>3
  <2> QED  BY <2>3, <2>4 DEF DescsRight
<1>13. TextsKept(oldTexts, oldTexts', file', q)
  BY <1>2 DEF TextsKept
<1>14. d \in Names
  BY <1>1, <1>2
<1> QED  BY <1>2, <1>3, <1>7, <1>9, <1>10, <1>12, <1>13, <1>14, DescriptorStep

\* The action DeleteDescriptor keeps the invariant.
LEMMA DeleteDescriptorStep ==
  ASSUME EntitiesInv, NEW p \in DOMAIN objs, NEW d \in Names, DeleteDescriptor(p, d)
  PROVE  EntitiesInv'
<1> DEFINE q == Append(p, d)
           ds == Without(DescsOf(p), {d})
<1>0. /\ FileOK(file) /\ p \in Ents(file) /\ p \in DOMAIN file /\ p \in Seq(Parts) /\ file[p].label \in DOMAIN Kept
  BY Answers
<1>1. /\ DOMAIN DescsOf(p) = {n \in Names : IsChild(file, p, n, Descriptor_t)}
      /\ \A e \in DOMAIN DescsOf(p) : Append(p, e) \in oldTexts \/ DescsOf(p)[e] = file[Append(p, e)].data
  BY Answers
<1>2. /\ IsChild(file, p, d, Descriptor_t) /\ file' = Without(file, {q})
      /\ objs' = [objs EXCEPT ![p].descs = ds]
      /\ oldTexts' = oldTexts \ {q} /\ oldValues' = oldValues
  BY DEF DeleteDescriptor
<1>3. q \in DOMAIN file /\ file[q].label = Descriptor_t /\ q \notin Ents(file) /\ d \in Parts
  BY <1>2 DEF IsChild, Ents, Parts
<1>4. DOMAIN ds = DOMAIN DescsOf(p) \ {d} /\ \A e \in DOMAIN ds : ds[e] = DescsOf(p)[e]
  BY DEF Without
<1> HIDE DEF ds
<1>7. Shrunk(file, file', q, {})
  BY <1>2 DEF Shrunk, Without
<1>8. Cut(file, p, d, {})
  BY <1>0, <1>3, CutNothing
<1>9. FileOK(file')
  BY <1>0, <1>3, <1>7, <1>8, ShrunkOK
<1>10. q \notin DOMAIN file' /\ q \notin Ents(file')
  BY <1>7 DEF Shrunk, Ents
<1>11. Others(file, file', p, d) /\ \A m \in Parts : m # d => Append(p, m) # q
  BY <1>0, <1>3, <1>7, DescriptorAround
<1>12. DescsRight(ds, file', p, oldTexts')
  <2>1. \A m \in Names : m # d => /\ IsChild(file', p, m, Descriptor_t) <=> IsChild(file, p, m, Descriptor_t)
                                  /\ IsChild(file', p, m, Descriptor_t) => file'[Append(p, m)] = file[Append(p, m)]
    BY <1>11, OtherDescs
  <2>2. ~IsChild(file', p, d, Descriptor_t)
    BY <1>10 DEF IsChild
  <2>3. DOMAIN ds = {n \in Names : IsChild(file', p, n, Descriptor_t)}
    BY <2>1, <2>2, <1>1, <1>4
  <2>4. ASSUME NEW e \in DOMAIN ds
        PROVE  Append(p, e) \in oldTexts' \/ ds[e] = file'[Append(p, e)].data
    <3>1. e \in DOMAIN DescsOf(p) /\ ds[e] = DescsOf(p)[e] /\ e \in Names /\ e # d
      BY <1>1, <1>4
    <3>2. Append(p, e) # q /\ file'[Append(p, e)] = file[Append(p, e)]
      BY <3>1, <1>11, <2>1, <2>3 DEF Parts
    <3> QED  BY <3>1, <3>2, <1>1, <1>2
  <2> QED  BY <2>3, <2>4 DEF DescsRight
<1>13. TextsKept(oldTexts, oldTexts', file', q)
  BY <1>2 DEF TextsKept
<1> QED  BY <1>2, <1>3, <1>7, <1>9, <1>10, <1>12, <1>13, DescriptorStep

-----------------------------------------------------------------------------
\* The action WriteArrayData keeps the invariant.
LEMMA WriteArrayDataStep ==
  ASSUME EntitiesInv, NEW p \in DOMAIN objs, NEW a \in Names, NEW v \in Data, WriteArrayData(p, a, v)
  PROVE  EntitiesInv'
<1> DEFINE q == Append(p, a)
<1>1. /\ FileOK(file) /\ p \in Ents(file) /\ p \in DOMAIN file /\ p \in Seq(Parts) /\ DOMAIN objs = Ents(file)
  BY Answers DEF EntitiesInv, EntitiesRight
<1>2. /\ q \in DOMAIN file /\ file[q].label = DataArray_t /\ file' = [file EXCEPT ![q].data = v]
      /\ oldValues' = (IF objs[p].values # None THEN oldValues \cup {q} ELSE oldValues)
      /\ objs' = objs /\ oldTexts' = oldTexts /\ a \in Parts
  BY DEF WriteArrayData, IsChild, Parts
<1>3. file[q] \in Nodes
  BY <1>1, <1>2 DEF FileOK
<1>4. file'[q].label = file[q].label /\ file'[q].data = v /\ file'[q] \in Nodes
  BY <1>2, <1>3 DEF Nodes
<1>5. DOMAIN file' = DOMAIN file /\ \A r \in DOMAIN file : r # q => file'[r] = file[r]
  BY <1>2
<1>6. \A r \in DOMAIN file : file'[r].label = file[r].label
  BY <1>4, <1>5
<1>7. FileOK(file')
  <2>1. \A r \in DOMAIN file' : file'[r] \in Nodes
    BY <1>1, <1>4, <1>5 DEF FileOK
  <2>2. \A r \in Seq(Parts), m \in Parts : Append(r, m) \in DOMAIN file' =>
          r \in DOMAIN file' /\ Fitting(file'[r].label, m, file'[Append(r, m)].label)
    BY <1>1, <1>5, <1>6 DEF FileOK
  <2> QED  BY <1>1, <1>5, <1>6, <2>1, <2>2 DEF FileOK
<1>8. Ents(file') = Ents(file)
  BY <1>5, <1>6 DEF Ents
<1>9. ASSUME NEW r \in Ents(file), r # p
      PROVE  Right(objs[r], file', r, oldTexts', oldValues')
  <2>1. r \in Seq(Parts) /\ r \in DOMAIN file
    BY <1>1 DEF Ents, FileOK
  <2>2. \A m \in Parts : Append(r, m) # q
    BY <2>1, <1>1, <1>2, <1>9, AppendOnce
  <2>3. \A m \in Parts : SameNode(file, file', Append(r, m))
    BY <2>2, <1>5 DEF SameNode
  <2>4. Right(objs[r], file, r, oldTexts, oldValues)
    BY DEF EntitiesInv, EntitiesRight
  <2>5. \A m \in Parts : Append(r, m) \in oldValues => Append(r, m) \in oldValues'
    BY <1>2
  <2> QED  BY <2>1, <2>3, <2>4, <2>5, <1>2, <1>6, SameRight
<1>10. Right(objs[p], file', p, oldTexts', oldValues')
  <2>1. Right(objs[p], file, p, oldTexts, oldValues)
    BY <1>1 DEF EntitiesInv, EntitiesRight
  <2>2. \A m, k : IsChild(file', p, m, k) <=> IsChild(file, p, m, k)
    BY <1>5, <1>6 DEF IsChild
  <2>3. DescsRight(objs[p].descs, file', p, oldTexts')
    <3>1. \A m \in Names : IsChild(file', p, m, Descriptor_t) => file'[Append(p, m)].data = file[Append(p, m)].data
      BY <2>2, <1>2, <1>5, LabelFacts DEF IsChild
    <3> QED  BY <3>1, <2>1, <2>2, <1>2, SameDescs DEF Right
  <2>4. KidsRight(objs[p].kids, file', p)
    BY <2>1, <2>2, <1>1, <1>6, SameKids DEF Right
  <2>5. ValuesRight(objs[p].values, file', p, oldValues')
    <3>1. ValuesRight(objs[p].values, file, p, oldValues)
      BY <2>1 DEF Right
    <3>2. CASE objs[p].values = None
      BY <3>1, <3>2 DEF ValuesRight
    <3>3. CASE objs[p].values # None
      <4>1. file'[p].label = ReferenceState_t
        BY <3>1, <3>3, <1>1, <1>6 DEF ValuesRight
      <4>2. ASSUME NEW b \in Names
            PROVE  \/ Append(p, b) \in oldValues'
                   \/ IF HasData(file', p, b) THEN b \in DOMAIN objs[p].values /\ objs[p].values[b] = file'[Append(p, b)].data
                      ELSE b \notin DOMAIN objs[p].values
        <5>1. CASE Append(p, b) = q
          BY <5>1, <1>2, <3>3
        <5>2. CASE Append(p, b) # q
          <6>1. HasData(file', p, b) <=> HasData(file, p, b)
            BY <5>2, <2>2, <1>5 DEF HasData, IsChild
          <6>2. HasData(file', p, b) => file'[Append(p, b)].data = file[Append(p, b)].data
            BY <5>2, <1>5 DEF HasData, IsChild
          <6>3. \/ Append(p, b) \in oldValues
                \/ IF HasData(file, p, b) THEN b \in DOMAIN objs[p].values /\ objs[p].values[b] = file[Append(p, b)].data
                   ELSE b \notin DOMAIN objs[p].values
            BY <3>1, <3>3 DEF ValuesRight
          <6> QED  BY <6>1, <6>2, <6>3, <1>2
        <5> QED  BY <5>1, <5>2
      <4> QED  BY <3>1, <4>1, <4>2 DEF ValuesRight
    <3> QED  BY <3>2, <3>3
  <2> QED  BY <2>1, <2>3, <2>4, <2>5 DEF Right
<1> QED  BY <1>1, <1>2, <1>7, <1>8, <1>9, <1>10 DEF EntitiesInv, EntitiesRight

\* The children with the label l are X.
WithKids(kids, l, X) == [kids EXCEPT ![l] = X]

\* A child n, an entity with the label l, is deleted with all below it.
LEMMA RemoveStep ==
  ASSUME EntitiesInv, NEW p \in DOMAIN objs, NEW l \in Kept[file[p].label], NEW n \in ReadChildren(file, p, l),
         file' = Without(WipedFile(Append(p, n)), {Append(p, n)}),
         DOMAIN objs' = DOMAIN objs \ (Below(file, Append(p, n)) \cup {Append(p, n)}),
         \A r \in DOMAIN objs' : r # p => objs'[r] = objs[r],
         DOMAIN objs'[p] = DOMAIN objs[p], objs'[p].descs = objs[p].descs,
         objs'[p].kids = WithKids(objs[p].kids, l, ReadChildren(file, p, l) \ {n}),
         Others(file, file', p, n) => ValuesRight(objs'[p].values, file', p, oldValues'),
         TextsKept(oldTexts, oldTexts', file', Append(p, n)), MarksKept(oldValues, oldValues', file', Append(p, n))
  PROVE  EntitiesInv'
<1> DEFINE q == Append(p, n)
           W == Below(file, q)
<1>1. /\ FileOK(file) /\ p \in Ents(file) /\ p \in Seq(Parts) /\ file[p].label \in DOMAIN Kept
      /\ Right(objs[p], file, p, oldTexts, oldValues) /\ DOMAIN objs = Ents(file)
  BY Answers DEF EntitiesInv, EntitiesRight
<1>2. n \in Parts /\ q \in DOMAIN file /\ file[q].label = l /\ l # Descriptor_t
  <2>1. n \in NamesOf(l) /\ IsChild(file, p, n, l)
    BY DEF ReadChildren, NamesOf
  <2> QED  BY <1>1, <2>1, NamesOfFacts, KeptLabels, LabelFacts DEF IsChild
<1>3. Shrunk(file, file', q, W)
  BY DEF Shrunk, Without, WipedFile
<1> HIDE DEF W
<1>3a. PICK x : Grown(file, file', q, W, x) \/ Shrunk(file, file', q, W)
  BY <1>3
<1>4. Cut(file, p, n, W)
  BY <1>1, <1>2, CutBelow DEF W
<1>5. FileOK(file') /\ p \in Ents(file') /\ file'[p] = file[p]
  BY <1>1, <1>2, <1>3, <1>4, ShrunkOK
<1>6. q \notin DOMAIN file'
  BY <1>3 DEF Shrunk
<1>7. Others(file, file', p, n) /\ \A m \in Parts : m # n => Append(p, m) # q
  <2>1. p \in DOMAIN file' /\ p # q
    BY <1>5, <1>6 DEF Ents
  <2>2. \A m \in Parts : m # n => SameNode(file, file', Append(p, m)) /\ Append(p, m) # q
    BY ONLY <2>1, <1>1, <1>2, <1>3a, <1>4, Around
  <2> QED  BY <2>2, <1>5 DEF Others
<1>8. DOMAIN objs' = Ents(file')
  BY <1>1, <1>3 DEF Ents, Shrunk, W
<1>9. Right(objs'[p], file', p, oldTexts', oldValues')
  <2>1. /\ DOMAIN objs[p] = {"descs", "kids", "values"} /\ DescsRight(objs[p].descs, file, p, oldTexts)
        /\ KidsRight(objs[p].kids, file, p)
    BY <1>1 DEF Right
  <2>2. DescsRight(objs[p].descs, file', p, oldTexts')
    <3>1. /\ q \in DOMAIN file => q \in Ents(file)
          /\ q \in DOMAIN file' => q \in Ents(file')
      BY <1>2, <1>6 DEF Ents
    <3>2. \A m \in Parts : m # n /\ Append(p, m) \in oldTexts /\ Append(p, m) \in DOMAIN file' => Append(p, m) \in oldTexts'
      BY <1>7 DEF TextsKept
    <3> QED  BY ONLY <1>2, <1>7, <2>1, <3>1, <3>2, DescsStay
  <2>3. KidsRight(objs'[p].kids, file', p)
    BY <1>2, <1>6, <1>7, <2>1, KidRemoved DEF WithKids
  <2> QED  BY <1>7, <2>1, <2>2, <2>3 DEF Right
<1>10. EntitiesRight(file, objs, oldTexts, oldValues)
  BY DEF EntitiesInv
<1>11. EntitiesRight(file', objs', oldTexts', oldValues')
  <2>1. \A r \in Ents(file') : r # p /\ r # q => objs'[r] = objs[r]
    BY <1>8
  <2>2. q \notin Ents(file')
    BY <1>6 DEF Ents
  <2> QED  BY <2>1, <2>2, <1>1, <1>2, <1>3a, <1>4, <1>5, <1>8, <1>9, <1>10, StepRight
<1> QED  BY <1>11 DEF EntitiesInv

\* Of an entity p the arrays or the values are read.
LEMMA SameFileStep ==
  ASSUME EntitiesInv, NEW p \in DOMAIN objs, NEW l \in Kept[file[p].label], file' = file,
         DOMAIN objs' = DOMAIN objs, \A r \in DOMAIN objs' : r # p => objs'[r] = objs[r],
         DOMAIN objs'[p] = DOMAIN objs[p], objs'[p].descs = objs[p].descs,
         objs'[p].kids = WithKids(objs[p].kids, l, ReadChildren(file, p, l)),
         ValuesRight(objs'[p].values, file, p, oldValues'),
         oldTexts \cap DOMAIN file \subseteq oldTexts',
         \A r \in DOMAIN objs, m \in Parts : r # p /\ Append(r, m) \in oldValues => Append(r, m) \in oldValues'
  PROVE  EntitiesInv'
<1>1. /\ FileOK(file) /\ p \in Ents(file) /\ DOMAIN objs = Ents(file)
      /\ Right(objs[p], file, p, oldTexts, oldValues)
  BY Answers DEF EntitiesInv, EntitiesRight
<1>2. ASSUME NEW r \in Ents(file), r # p
      PROVE  Right(objs'[r], file, r, oldTexts', oldValues')
  <2>1. Right(objs[r], file, r, oldTexts, oldValues)
    BY <1>1 DEF EntitiesInv, EntitiesRight
  <2>2. \A m \in Parts : SameNode(file, file, Append(r, m))
    BY DEF SameNode
  <2>3. \A m \in Parts : /\ Append(r, m) \in DOMAIN file \cap oldTexts => Append(r, m) \in oldTexts'
                         /\ Append(r, m) \in oldValues => Append(r, m) \in oldValues'
    BY <1>1, <1>2
  <2>4. Right(objs[r], file, r, oldTexts', oldValues')
    BY <2>1, <2>2, <2>3, SameRight
  <2> QED  BY <2>4, <1>1, <1>2
<1>3. Right(objs'[p], file, p, oldTexts', oldValues')
  <2>1. /\ DOMAIN objs[p] = {"descs", "kids", "values"} /\ DescsRight(objs[p].descs, file, p, oldTexts)
        /\ KidsRight(objs[p].kids, file, p)
    BY <1>1 DEF Right
  <2>2. DescsRight(objs[p].descs, file, p, oldTexts')
    <3>1. \A m \in Names : IsChild(file, p, m, Descriptor_t) /\ Append(p, m) \in oldTexts => Append(p, m) \in oldTexts'
      BY DEF IsChild
    <3> QED  BY <2>1, <3>1, SameDescs
  <2>3. KidsRight(objs'[p].kids, file, p)
    BY <2>1 DEF KidsRight, WithKids
  <2> QED  BY <2>1, <2>2, <2>3 DEF Right
<1> QED  BY <1>1, <1>2, <1>3 DEF EntitiesInv, EntitiesRight

\* The action DeleteEquationSet keeps the invariant.
LEMMA DeleteEquationSetStep ==
  ASSUME EntitiesInv, NEW p \in DOMAIN objs, DeleteEquationSet(p)
  PROVE  EntitiesInv'
<1> DEFINE l == FlowEquationSet_t
           q == Append(p, l)
<1>1. /\ FileOK(file) /\ p \in Ents(file) /\ p \in Seq(Parts) /\ DOMAIN objs[p].kids = Kept[file[p].label]
      /\ Right(objs[p], file, p, oldTexts, oldValues)
  BY Answers
<1>2. l \in Kept[file[p].label] /\ l \in ReadChildren(file, p, l) /\ ReadChildren(file, p, l) \ {l} = {}
  <2>1. l \in Kept[file[p].label] /\ objs[p].kids[l] = ReadChildren(file, p, l) /\ objs[p].kids[l] # {}
    BY <1>1 DEF DeleteEquationSet, Right, KidsRight
  <2>2. ReadChildren(file, p, l) \subseteq {l}
    BY DEF ReadChildren, Fixed
  <2> QED  BY <2>1, <2>2
<1>3. /\ file' = Without(WipedFile(q), {q}) /\ Stays(file')
      /\ objs' = [Without(objs, Below(file, q) \cup {q}) EXCEPT ![p].kids[l] = {}]
  BY DEF DeleteEquationSet
<1>4. DOMAIN objs[p] = {"descs", "kids", "values"} /\ ValuesRight(objs[p].values, file, p, oldValues)
  BY <1>1 DEF Right
<1>5. l \in Parts /\ p # q /\ p \notin Below(file, q)
  <2>1. l \in Parts
    BY DEF Parts, Fixed
  <2> QED  BY <2>1, <1>1, CutBelow, BelowFacts DEF Cut
<1>6. /\ DOMAIN objs' = DOMAIN objs \ (Below(file, q) \cup {q})
      /\ \A r \in DOMAIN objs' : r # p => objs'[r] = objs[r]
      /\ objs'[p] = [objs[p] EXCEPT !.kids[l] = {}]
  BY <1>3, <1>5 DEF Without
<1>7. /\ DOMAIN objs'[p] = DOMAIN objs[p] /\ objs'[p].descs = objs[p].descs /\ objs'[p].values = objs[p].values
      /\ objs'[p].kids = WithKids(objs[p].kids, l, ReadChildren(file, p, l) \ {l})
  BY <1>2, <1>4, <1>6 DEF WithKids
<1>8. ASSUME Others(file, file', p, l)
      PROVE  ValuesRight(objs'[p].values, file', p, oldValues')
  <2>1. \A a \in Names : a # l /\ a \in Parts
    BY LabelFacts DEF Parts
  <2>2. \A a \in Names : /\ HasData(file', p, a) <=> HasData(file, p, a)
                         /\ HasData(file', p, a) => file'[Append(p, a)].data = file[Append(p, a)].data
    BY <2>1, <1>8 DEF Others, SameNode, HasData, IsChild
  <2>3. \A a \in Names : Append(p, a) \in oldValues => Append(p, a) \in oldValues'
    <3>1. p \in DOMAIN file'
      BY <1>1, <1>3, <1>5 DEF Without, WipedFile, Ents
    <3>2. \A a \in Names : Parent(Append(p, a)) = p
      BY <2>1, <1>1, AppendFacts
    <3> QED  BY <3>1, <3>2, <1>3 DEF Stays
  <2> QED  BY <2>2, <2>3, <1>4, <1>7, <1>8, SameValues DEF Others
<1>9. TextsKept(oldTexts, oldTexts', file', q) /\ MarksKept(oldValues, oldValues', file', q)
  BY <1>3 DEF Stays, TextsKept, MarksKept
<1> QED  BY <1>2, <1>3, <1>6, <1>7, <1>8, <1>9, RemoveStep

\* The action DeleteArray keeps the invariant.
LEMMA DeleteArrayStep ==
  ASSUME EntitiesInv, NEW p \in DOMAIN objs, NEW a \in Names, DeleteArray(p, a)
  PROVE  EntitiesInv'
<1> DEFINE l == DataArray_t
           q == Append(p, a)
<1>1. /\ FileOK(file) /\ p \in Ents(file) /\ p \in Seq(Parts) /\ DOMAIN objs[p].kids = Kept[file[p].label]
      /\ Right(objs[p], file, p, oldTexts, oldValues) /\ l \in Kept[file[p].label]
      /\ KidsOf(p, l) = ReadChildren(file, p, l)
  BY Answers, KeptFacts DEF DeleteArray, IsState
<1>2. a \in ReadChildren(file, p, l)
  BY <1>1 DEF DeleteArray
<1>3. /\ file' = Without(WipedFile(q), {q})
      /\ objs' = [Without(objs, Below(file, q) \cup {q}) EXCEPT ![p].kids[l] = KidsOf(p, l) \ {a}]
      /\ oldTexts' = oldTexts \cap DOMAIN file'
      /\ oldValues' = (IF a \in DOMAIN objs[p].values THEN oldValues \cup {q} ELSE oldValues)
  BY DEF DeleteArray
<1>4. DOMAIN objs[p] = {"descs", "kids", "values"} /\ ValuesRight(objs[p].values, file, p, oldValues)
  BY <1>1 DEF Right
<1>5. a \in Parts /\ p # q /\ p \notin Below(file, q)
  <2>1. a \in Parts
    BY DEF Parts
  <2> QED  BY <2>1, <1>1, CutBelow, BelowFacts DEF Cut
<1>6. /\ DOMAIN objs' = DOMAIN objs \ (Below(file, q) \cup {q})
      /\ \A r \in DOMAIN objs' : r # p => objs'[r] = objs[r]
      /\ objs'[p] = [objs[p] EXCEPT !.kids[l] = KidsOf(p, l) \ {a}]
  BY <1>3, <1>5 DEF Without
<1>7. /\ DOMAIN objs'[p] = DOMAIN objs[p] /\ objs'[p].descs = objs[p].descs /\ objs'[p].values = objs[p].values
      /\ objs'[p].kids = WithKids(objs[p].kids, l, ReadChildren(file, p, l) \ {a})
  BY <1>1, <1>4, <1>6 DEF WithKids
<1>8. ASSUME Others(file, file', p, a)
      PROVE  ValuesRight(objs'[p].values, file', p, oldValues')
  <2>1. ~HasData(file', p, a)
    BY <1>3 DEF HasData, IsChild, Without
  <2>2. \A b \in Names : b # a => /\ HasData(file', p, b) <=> HasData(file, p, b)
                                  /\ HasData(file', p, b) => file'[Append(p, b)].data = file[Append(p, b)].data
    BY <1>8 DEF Others, SameNode, HasData, IsChild, Parts
  <2>3. file'[p] = file[p]
    BY <1>8 DEF Others
  <2>4. oldValues \subseteq oldValues' /\ (a \in DOMAIN objs[p].values => q \in oldValues')
    BY <1>3
  <2> QED  BY <2>1, <2>2, <2>3, <2>4, <1>4, <1>7 DEF ValuesRight
<1>9. TextsKept(oldTexts, oldTexts', file', q) /\ MarksKept(oldValues, oldValues', file', q)
  BY <1>3 DEF TextsKept, MarksKept
<1> QED  BY <1>1, <1>2, <1>3, <1>6, <1>7, <1>8, <1>9, RemoveStep

\* The values of a state that are known, or read if all can be.
LEMMA CurrentValues ==
  ASSUME EntitiesInv, NEW p \in DOMAIN objs, IsState(p)
  PROVE  /\ \A b \in DOMAIN ValuesOf(p) : b \in Names /\ ValuesOf(p)[b] \in Data
         /\ ValuesGiven(p) =>
              \A b \in Names :
                \/ Append(p, b) \in oldValues
                \/ IF HasData(file, p, b) THEN b \in DOMAIN ValuesOf(p) /\ ValuesOf(p)[b] = file[Append(p, b)].data
                   ELSE b \notin DOMAIN ValuesOf(p)
         /\ objs[p].values = None => ValuesOf(p) = ReadValues(file, p)
         /\ \A b \in DOMAIN ReadValues(file, p) :
              HasData(file, p, b) /\ b \in Names /\ ReadValues(file, p)[b] = file[Append(p, b)].data
<1>1. FileOK(file) /\ ValuesRight(objs[p].values, file, p, oldValues)
  BY Answers DEF Right
<1>2. \A b \in Names : b <= b
  BY NamesAssumption
<1>3. DOMAIN ReadValues(file, p) = {b \in Names : /\ IsChild(file, p, b, DataArray_t)
                                                  /\ \A c \in Names : c <= b => ~BareArray(file, p, c)}
      /\ \A b \in DOMAIN ReadValues(file, p) : ReadValues(file, p)[b] = file[Append(p, b)].data
  BY DEF ReadValues
<1>4. \A b \in DOMAIN ReadValues(file, p) : HasData(file, p, b) /\ b \in Names
  BY <1>2, <1>3 DEF HasData, BareArray
<1>5. \A b \in Names : HasData(file, p, b) => file[Append(p, b)].data \in Data
  BY <1>1 DEF HasData, IsChild, FileOK, Nodes
<1>6. CASE objs[p].values = None
  <2>1. ValuesOf(p) = ReadValues(file, p)
    BY <1>6 DEF ValuesOf
  <2>2. ValuesGiven(p) => \A b \in Names : HasData(file, p, b) => b \in DOMAIN ReadValues(file, p)
    BY <1>3, <1>6 DEF ValuesGiven, AllValues, HasData
  <2> QED  BY <2>1, <2>2, <1>3, <1>4, <1>5
<1>7. CASE objs[p].values # None
  <2>1. ValuesOf(p) = objs[p].values
    BY <1>7 DEF ValuesOf
  <2> QED  BY <2>1, <1>1, <1>3, <1>4, <1>7 DEF ValuesRight
<1> QED  BY <1>6, <1>7

\* The action HasValue keeps the invariant.
LEMMA HasValueStep ==
  ASSUME EntitiesInv, NEW p \in DOMAIN objs, HasValue(p)
  PROVE  EntitiesInv'
<1> DEFINE l == DataArray_t
<1>1. /\ p \in Seq(Parts) /\ DOMAIN objs[p].kids = Kept[file[p].label]
      /\ Right(objs[p], file, p, oldTexts, oldValues) /\ l \in Kept[file[p].label]
      /\ KidsOf(p, l) = ReadChildren(file, p, l)
  BY Answers, KeptFacts DEF HasValue, IsState
<1>2. /\ IsState(p) /\ file' = file /\ oldTexts' = oldTexts /\ oldValues' = oldValues \cup LeftOut(p)
      /\ objs' = [objs EXCEPT ![p].values = ValuesOf(p), ![p].kids[l] = KidsOf(p, l)]
  BY DEF HasValue
<1>3. DOMAIN objs[p] = {"descs", "kids", "values"} /\ ValuesRight(objs[p].values, file, p, oldValues)
  BY <1>1 DEF Right
<1>4. /\ DOMAIN objs' = DOMAIN objs /\ \A r \in DOMAIN objs' : r # p => objs'[r] = objs[r]
      /\ objs'[p] = [objs[p] EXCEPT !.values = ValuesOf(p), !.kids[l] = KidsOf(p, l)]
  BY <1>2
<1>5. /\ DOMAIN objs'[p] = DOMAIN objs[p] /\ objs'[p].descs = objs[p].descs /\ objs'[p].values = ValuesOf(p)
      /\ objs'[p].kids = WithKids(objs[p].kids, l, ReadChildren(file, p, l))
  BY <1>1, <1>3, <1>4 DEF WithKids
<1>6. file[p].label = ReferenceState_t
  BY <1>2 DEF IsState
<1>7. ValuesRight(ValuesOf(p), file, p, oldValues')
  <2>1. CASE objs[p].values # None
    BY <2>1, <1>2, <1>3 DEF ValuesOf, ValuesRight
  <2>2. CASE objs[p].values = None
    <3>1. /\ ValuesOf(p) = ReadValues(file, p)
          /\ \A b \in DOMAIN ReadValues(file, p) :
               HasData(file, p, b) /\ b \in Names /\ ReadValues(file, p)[b] = file[Append(p, b)].data
      BY <2>2, <1>2, CurrentValues
    <3>2. \A b \in DOMAIN ValuesOf(p) : b \in Names /\ ValuesOf(p)[b] \in Data
      BY <1>2, CurrentValues
    <3>3. ASSUME ValuesOf(p) # None, NEW b \in Names
          PROVE  \/ Append(p, b) \in oldValues'
                 \/ IF HasData(file, p, b) THEN b \in DOMAIN ValuesOf(p) /\ ValuesOf(p)[b] = file[Append(p, b)].data
                    ELSE b \notin DOMAIN ValuesOf(p)
      <4>1. CASE b \in DOMAIN ValuesOf(p)
        BY <4>1, <3>1
      <4>2. CASE b \notin DOMAIN ValuesOf(p)
        <5>1. CASE HasData(file, p, b)
          <6>1. Append(p, b) \in DOMAIN file
            BY <5>1 DEF HasData, IsChild
          <6>2. Append(p, b) \in LeftOut(p)
            BY <6>1, <2>2, <3>1, <3>3, <4>2 DEF LeftOut
          <6> QED  BY <6>2, <1>2
        <5>2. CASE ~HasData(file, p, b)
          BY <5>2, <4>2
        <5> QED  BY <5>1, <5>2
      <4> QED  BY <4>1, <4>2
    <3> QED  BY <3>2, <3>3, <1>6 DEF ValuesRight
  <2> QED  BY <2>1, <2>2
<1>8. /\ oldTexts \cap DOMAIN file \subseteq oldTexts'
      /\ \A r \in DOMAIN objs, m \in Parts : r # p /\ Append(r, m) \in oldValues => Append(r, m) \in oldValues'
  BY <1>2
<1>9. file' = file /\ ValuesRight(objs'[p].values, file, p, oldValues')
  BY <1>2, <1>5, <1>7
<1>10. \A r \in DOMAIN objs' : r # p => objs'[r] = objs[r]
  BY <1>4
<1>11. DOMAIN objs' = DOMAIN objs /\ l \in Kept[file[p].label]
  BY <1>1, <1>4
<1> QED  BY ONLY EntitiesInv, p \in DOMAIN objs, <1>5, <1>8, <1>9, <1>10, <1>11, SameFileStep

\* The action DeleteValue keeps the invariant.
LEMMA DeleteValueStep ==
  ASSUME EntitiesInv, NEW p \in DOMAIN objs, NEW a \in Names, DeleteValue(p, a)
  PROVE  EntitiesInv'
<1> DEFINE l == DataArray_t
           q == Append(p, a)
           vs == Without(ValuesOf(p), {a})
<1>1. /\ FileOK(file) /\ p \in Ents(file) /\ p \in Seq(Parts) /\ DOMAIN objs[p].kids = Kept[file[p].label]
      /\ l \in Kept[file[p].label] /\ KidsOf(p, l) = ReadChildren(file, p, l)
      /\ DOMAIN objs[p] = {"descs", "kids", "values"} /\ a \in Parts
  BY Answers, KeptFacts DEF DeleteValue, IsState, Right, Parts
<1>2. IsState(p) /\ ValuesGiven(p) /\ file[p].label = ReferenceState_t
      /\ oldTexts' = oldTexts \cap DOMAIN file' /\ oldValues' = oldValues \ {q}
  BY DEF DeleteValue, IsState
<1>3. /\ \A b \in DOMAIN ValuesOf(p) : b \in Names /\ ValuesOf(p)[b] \in Data
      /\ \A b \in Names :
           \/ Append(p, b) \in oldValues
           \/ IF HasData(file, p, b) THEN b \in DOMAIN ValuesOf(p) /\ ValuesOf(p)[b] = file[Append(p, b)].data
              ELSE b \notin DOMAIN ValuesOf(p)
  BY <1>2, CurrentValues
<1>4. DOMAIN vs = DOMAIN ValuesOf(p) \ {a} /\ \A b \in DOMAIN vs : vs[b] = ValuesOf(p)[b]
  BY DEF Without
<1> HIDE DEF vs
<1>5. p # q /\ p \notin Below(file, q) /\ \A b \in Parts : b # a => Append(p, b) # q
  BY <1>1, CutBelow, BelowFacts, AppendOnce DEF Cut
<1>6. ASSUME ~HasData(file', p, a), file'[p] = file[p],
             \A b \in Names : b # a => /\ HasData(file', p, b) <=> HasData(file, p, b)
                                       /\ HasData(file', p, b) => file'[Append(p, b)].data = file[Append(p, b)].data
      PROVE  ValuesRight(vs, file', p, oldValues')
  <2>1. \A b \in DOMAIN vs : b \in Names /\ vs[b] \in Data
    BY <1>3, <1>4
  <2>2. ASSUME NEW b \in Names
        PROVE  \/ Append(p, b) \in oldValues'
               \/ IF HasData(file', p, b) THEN b \in DOMAIN vs /\ vs[b] = file'[Append(p, b)].data ELSE b \notin DOMAIN vs
    <3>1. CASE b = a
      BY <3>1, <1>4, <1>6
    <3>2. CASE b # a
      <4>1. \/ Append(p, b) \in oldValues
            \/ IF HasData(file, p, b) THEN b \in DOMAIN ValuesOf(p) /\ ValuesOf(p)[b] = file[Append(p, b)].data
               ELSE b \notin DOMAIN ValuesOf(p)
        BY <1>3
      <4>2. Append(p, b) \in oldValues => Append(p, b) \in oldValues'
        BY <3>2, <1>2, <1>5 DEF Parts
      <4> QED  BY <3>2, <4>1, <4>2, <1>4, <1>6
    <3> QED  BY <3>1, <3>2
  <2> QED  BY <2>1, <2>2, <1>2, <1>6 DEF ValuesRight
<1>7. CASE a \in ReadChildren(file, p, l)
  <2>1. /\ file' = Without(WipedFile(q), {q})
        /\ objs' = [Without(objs, Below(file, q) \cup {q}) EXCEPT
                      ![p].kids[l] = ReadChildren(file, p, l) \ {a}, ![p].values = vs]
    BY <1>1, <1>7 DEF DeleteValue, vs
  <2>2. /\ DOMAIN objs' = DOMAIN objs \ (Below(file, q) \cup {q})
        /\ \A r \in DOMAIN objs' : r # p => objs'[r] = objs[r]
        /\ objs'[p] = [objs[p] EXCEPT !.kids[l] = ReadChildren(file, p, l) \ {a}, !.values = vs]
    BY <2>1, <1>5 DEF Without
  <2>3. /\ DOMAIN objs'[p] = DOMAIN objs[p] /\ objs'[p].descs = objs[p].descs /\ objs'[p].values = vs
        /\ objs'[p].kids = WithKids(objs[p].kids, l, ReadChildren(file, p, l) \ {a})
    BY <2>2, <1>1 DEF WithKids
  <2>4. ASSUME Others(file, file', p, a)
        PROVE  ValuesRight(objs'[p].values, file', p, oldValues')
    <3>1. ~HasData(file', p, a)
      BY <2>1 DEF HasData, IsChild, Without
    <3>2. \A b \in Names : b # a => /\ HasData(file', p, b) <=> HasData(file, p, b)
                                    /\ HasData(file', p, b) => file'[Append(p, b)].data = file[Append(p, b)].data
      BY <2>4 DEF Others, SameNode, HasData, IsChild, Parts
    <3>3. file'[p] = file[p]
      BY <2>4 DEF Others
    <3> QED  BY <3>1, <3>2, <3>3, <2>3, <1>6
  <2>5. TextsKept(oldTexts, oldTexts', file', q) /\ MarksKept(oldValues, oldValues', file', q)
    BY <1>2 DEF TextsKept, MarksKept
  <2>6. /\ file' = Without(WipedFile(q), {q}) /\ DOMAIN objs' = DOMAIN objs \ (Below(file, q) \cup {q})
        /\ \A r \in DOMAIN objs' : r # p => objs'[r] = objs[r]
    BY <2>1, <2>2
  <2>7. l \in Kept[file[p].label]
    BY <1>1
  <2> QED  BY ONLY EntitiesInv, p \in DOMAIN objs, <1>7, <2>3, <2>4, <2>5, <2>6, <2>7, RemoveStep
<1>8. CASE a \notin ReadChildren(file, p, l)
  <2>1. /\ file' = file
        /\ objs' = [objs EXCEPT ![p].kids[l] = ReadChildren(file, p, l) \ {a}, ![p].values = vs]
    BY <1>1, <1>8 DEF DeleteValue, vs
  <2>2. /\ DOMAIN objs' = DOMAIN objs
        /\ \A r \in DOMAIN objs' : r # p => objs'[r] = objs[r]
        /\ objs'[p] = [objs[p] EXCEPT !.kids[l] = ReadChildren(file, p, l) \ {a}, !.values = vs]
    BY <2>1
  <2>3. ReadChildren(file, p, l) \ {a} = ReadChildren(file, p, l)
    BY <1>8
  <2>4. /\ DOMAIN objs'[p] = DOMAIN objs[p] /\ objs'[p].descs = objs[p].descs /\ objs'[p].values = vs
        /\ objs'[p].kids = WithKids(objs[p].kids, l, ReadChildren(file, p, l))
    BY <2>2, <2>3, <1>1 DEF WithKids
  <2>5. ~HasData(file, p, a)
    BY <1>8, NamesOfFacts DEF HasData, ReadChildren, NamesOf
  <2>6. ValuesRight(vs, file, p, oldValues')
    BY <2>1, <2>5, <1>6
  <2>7. /\ oldTexts \cap DOMAIN file \subseteq oldTexts'
        /\ \A r \in DOMAIN objs, m \in Parts : r # p /\ Append(r, m) \in oldValues => Append(r, m) \in oldValues'
    <3>1. DOMAIN objs \subseteq Seq(Parts)
      BY DEF EntitiesInv, EntitiesRight, FileOK, Ents
    <3>2. \A r \in DOMAIN objs, m \in Parts : r # p => Append(r, m) # q
      BY <3>1, <1>1, AppendOnce
    <3> QED  BY <3>2, <2>1, <1>2
  <2>8. file' = file /\ ValuesRight(objs'[p].values, file, p, oldValues') /\ DOMAIN objs' = DOMAIN objs
        /\ l \in Kept[file[p].label] /\ \A r \in DOMAIN objs' : r # p => objs'[r] = objs[r]
    BY <2>1, <2>2, <2>4, <2>6, <1>1
  <2> QED  BY ONLY EntitiesInv, p \in DOMAIN objs, <2>4, <2>7, <2>8, SameFileStep
<1> QED  BY <1>7, <1>8

\* The array a of p is made or wiped, gets the data v, and the values are vs.
LEMMA ArrayWritten ==
  ASSUME EntitiesInv, NEW p \in DOMAIN objs, NEW a \in Names, NEW v \in Data, NEW W, NEW vs, NEW o,
         DataArray_t \in Kept[file[p].label], Cut(file, p, a, W),
         Append(p, a) \in DOMAIN file => file[Append(p, a)].label = DataArray_t,
         Grown(file, file', Append(p, a), W, [label |-> DataArray_t, data |-> v]),
         DOMAIN objs' = (DOMAIN objs \ W) \cup {Append(p, a)},
         \A r \in DOMAIN objs' : r # p /\ r # Append(p, a) => objs'[r] = objs[r],
         objs'[Append(p, a)] = o, o = New(DataArray_t) \/ (Append(p, a) \in DOMAIN objs /\ o = Blank(objs[Append(p, a)])),
         DOMAIN objs'[p] = DOMAIN objs[p], objs'[p].descs = objs[p].descs, objs'[p].values = vs,
         objs'[p].kids = WithKids(objs[p].kids, DataArray_t, ReadChildren(file, p, DataArray_t) \cup {a}),
         oldTexts' = oldTexts \cap DOMAIN file', oldValues \ {Append(p, a)} \subseteq oldValues',
         \A b \in DOMAIN vs : b \in Names /\ vs[b] \in Data,
         \A b \in Names :
           b # a => \/ Append(p, b) \in oldValues
                    \/ IF HasData(file, p, b) THEN b \in DOMAIN vs /\ vs[b] = file[Append(p, b)].data ELSE b \notin DOMAIN vs,
         Append(p, a) \in oldValues' \/ (a \in DOMAIN vs /\ vs[a] = v)
  PROVE  EntitiesInv'
<1> DEFINE l == DataArray_t
           q == Append(p, a)
<1>1. /\ FileOK(file) /\ p \in Ents(file) /\ p \in Seq(Parts) /\ file[p].label \in DOMAIN Kept
      /\ Right(objs[p], file, p, oldTexts, oldValues) /\ DOMAIN objs = Ents(file)
  BY Answers DEF EntitiesInv, EntitiesRight
<1>2. a \in Parts /\ a \in NamesOf(l) /\ l # Descriptor_t /\ l # ReferenceState_t /\ file[p].label = ReferenceState_t
  BY <1>1, LabelFacts, KeptLabels, NamesOfFacts DEF Parts
<1>3. PICK x : x = [label |-> l, data |-> v]
  OBVIOUS
<1>4. x.label = l /\ x.data = v /\ x \in Nodes /\ Fitting(file[p].label, a, x.label)
  BY <1>1, <1>2, <1>3, LabelFacts DEF Nodes, Fitting
<1>5. Grown(file, file', q, W, x) /\ Cut(file, p, a, W)
  BY <1>3
<1>6. /\ FileOK(file') /\ p \in Ents(file') /\ file'[p] = file[p] /\ q \in DOMAIN file' /\ file'[q] = x
      /\ \A m \in Parts : Append(q, m) \notin DOMAIN file'
  BY ONLY <1>1, <1>2, <1>4, <1>5, GrownOK
<1>7. p # q /\ p \notin W /\ q \notin W
  BY <1>1, <1>2, <1>5, BelowFacts DEF Cut
<1>8. Others(file, file', p, a) /\ \A m \in Parts : m # a => Append(p, m) # q
  <2>1. p \in DOMAIN file'
    BY <1>6 DEF Ents
  <2>2. \A m \in Parts : m # a => SameNode(file, file', Append(p, m)) /\ Append(p, m) # q
    BY ONLY <2>1, <1>1, <1>2, <1>5, <1>7, Around
  <2> QED  BY <2>2, <1>6 DEF Others
<1>9. DOMAIN objs' = Ents(file')
  BY <1>1, <1>2, <1>4, <1>5, <1>6 DEF Grown, Ents
<1>10. Right(objs'[q], file', q, oldTexts', oldValues')
  <2>1. CASE o = New(l)
    <3>1. file'[q].label = l
      BY <1>4, <1>6
    <3>2. Right(New(l), file', q, oldTexts', oldValues')
      BY ONLY <3>1, NewRight
    <3> QED  BY <2>1, <3>2
  <2>2. CASE q \in DOMAIN objs /\ o = Blank(objs[q])
    <3>1. Right(objs[q], file, q, oldTexts, oldValues)
      BY <2>2 DEF EntitiesInv, EntitiesRight
    <3>2. file'[q].label = file[q].label /\ file[q].label # ReferenceState_t
      BY <2>2, <1>1, <1>2, <1>4, <1>6 DEF Ents
    <3>3. objs'[q] = Blank(objs[q]) /\ \A m \in Parts : Append(q, m) \notin DOMAIN file'
      BY <2>2, <1>6
    <3> QED  BY ONLY <3>1, <3>2, <3>3, WipedRight
  <2> QED  BY <2>1, <2>2
<1>11. ValuesRight(vs, file', p, oldValues')
  <2>1. ASSUME NEW b \in Names
        PROVE  \/ Append(p, b) \in oldValues'
               \/ IF HasData(file', p, b) THEN b \in DOMAIN vs /\ vs[b] = file'[Append(p, b)].data ELSE b \notin DOMAIN vs
    <3>1. CASE b = a
      BY <3>1, <1>4, <1>6, DataAssumption DEF HasData, IsChild
    <3>2. CASE b # a
      <4>1. HasData(file', p, b) <=> HasData(file, p, b)
        BY <3>2, <1>8 DEF Others, SameNode, HasData, IsChild, Parts
      <4>2. HasData(file', p, b) => file'[Append(p, b)].data = file[Append(p, b)].data
        BY <3>2, <1>8 DEF Others, SameNode, HasData, IsChild, Parts
      <4>3. Append(p, b) # q
        BY <3>2, <1>8 DEF Parts
      <4> QED  BY <3>2, <4>1, <4>2, <4>3
    <3> QED  BY <3>1, <3>2
  <2> QED  BY <2>1, <1>2, <1>6 DEF ValuesRight
<1>12. Right(objs'[p], file', p, oldTexts', oldValues')
  <2>1. /\ q \in DOMAIN file => file[q].label = l
        /\ q \in DOMAIN file' /\ file'[q].label = l
    BY <1>4, <1>6
  <2>2. \A m \in Parts : m # a /\ Append(p, m) \in oldTexts /\ Append(p, m) \in DOMAIN file' => Append(p, m) \in oldTexts'
    OBVIOUS
  <2>3. ValuesRight(objs'[p].values, file', p, oldValues')
    BY <1>11
  <2>4. objs'[p].kids = [objs[p].kids EXCEPT ![l] = ReadChildren(file, p, l) \cup {a}]
    BY DEF WithKids
  <2>5. DOMAIN objs'[p] = DOMAIN objs[p] /\ objs'[p].descs = objs[p].descs
    OBVIOUS
  <2>6. l \in Kept[file[p].label]
    OBVIOUS
  <2> QED  BY ONLY <1>1, <1>2, <1>8, <2>1, <2>2, <2>3, <2>4, <2>5, <2>6, ParentRight
<1>13. EntitiesRight(file', objs', oldTexts', oldValues')
  <2>1. EntitiesRight(file, objs, oldTexts, oldValues)
    BY DEF EntitiesInv
  <2>2. TextsKept(oldTexts, oldTexts', file', q) /\ MarksKept(oldValues, oldValues', file', q)
    BY DEF TextsKept, MarksKept
  <2>3. \A r \in Ents(file') : r # p /\ r # q => objs'[r] = objs[r]
    BY <1>9
  <2> QED  BY ONLY <2>1, <2>2, <2>3, <1>1, <1>2, <1>5, <1>6, <1>9, <1>10, <1>12, StepRight
<1> QED  BY <1>13 DEF EntitiesInv

\* The action WriteValue keeps the invariant.
LEMMA WriteValueStep ==
  ASSUME EntitiesInv, NEW p \in DOMAIN objs, NEW a \in Names, NEW v \in Data, WriteValue(p, a, v)
  PROVE  EntitiesInv'
<1> DEFINE l == DataArray_t
           q == Append(p, a)
           vs == IF a \in DOMAIN ValuesOf(p) THEN ValuesOf(p) ELSE Put(ValuesOf(p), a, v)
           K == ReadChildren(file, p, l) \cup {a}
<1>1. /\ FileOK(file) /\ p \in Ents(file) /\ p \in Seq(Parts) /\ DOMAIN objs[p].kids = Kept[file[p].label]
      /\ l \in Kept[file[p].label] /\ KidsOf(p, l) = ReadChildren(file, p, l)
      /\ DOMAIN objs[p] = {"descs", "kids", "values"} /\ a \in Parts /\ DOMAIN objs = Ents(file)
  BY Answers, KeptFacts DEF WriteValue, IsState, Right, Parts, EntitiesInv, EntitiesRight
<1>2. IsState(p) /\ ValuesGiven(p) /\ oldTexts' = oldTexts \cap DOMAIN file'
      /\ oldValues' = (IF a \in DOMAIN ValuesOf(p) THEN oldValues \cup {q} ELSE oldValues \ {q})
  BY DEF WriteValue
<1>3. /\ \A b \in DOMAIN ValuesOf(p) : b \in Names /\ ValuesOf(p)[b] \in Data
      /\ \A b \in Names :
           \/ Append(p, b) \in oldValues
           \/ IF HasData(file, p, b) THEN b \in DOMAIN ValuesOf(p) /\ ValuesOf(p)[b] = file[Append(p, b)].data
              ELSE b \notin DOMAIN ValuesOf(p)
  BY <1>2, CurrentValues
<1>4. /\ DOMAIN vs = DOMAIN ValuesOf(p) \cup {a}
      /\ \A b \in DOMAIN ValuesOf(p) : vs[b] = ValuesOf(p)[b]
      /\ (a \notin DOMAIN ValuesOf(p) => vs[a] = v)
  BY DEF Put
<1> HIDE DEF vs
<1>5. /\ \A b \in DOMAIN vs : b \in Names /\ vs[b] \in Data
      /\ \A b \in Names :
           b # a => \/ Append(p, b) \in oldValues
                    \/ IF HasData(file, p, b) THEN b \in DOMAIN vs /\ vs[b] = file[Append(p, b)].data ELSE b \notin DOMAIN vs
      /\ q \in oldValues' \/ (a \in DOMAIN vs /\ vs[a] = v)
  <2>1. \A b \in DOMAIN vs : b \in Names /\ vs[b] \in Data
    BY <1>3, <1>4
  <2>2. \A b \in Names : b # a => (b \in DOMAIN vs <=> b \in DOMAIN ValuesOf(p)) /\ (b \in DOMAIN vs => vs[b] = ValuesOf(p)[b])
    BY <1>4
  <2>3. q \in oldValues' \/ (a \in DOMAIN vs /\ vs[a] = v)
    BY <1>2, <1>4
  <2> QED  BY <2>1, <2>2, <2>3, <1>3
<1>6. p # q /\ p \notin Below(file, q) /\ q \notin Below(file, q)
  BY <1>1, CutBelow, BelowFacts DEF Cut
<1>7. oldValues \ {q} \subseteq oldValues'
  BY <1>2
<1>8. CASE a \in ReadChildren(file, p, l)
  <2>1. q \in DOMAIN file /\ file[q].label = l
    BY <1>8 DEF ReadChildren, IsChild
  <2>2. q \in DOMAIN objs
    BY <2>1, <1>1, LabelFacts DEF Ents
  <2>3. /\ file' = Put(WipedFile(q), q, [label |-> l, data |-> v])
        /\ objs' = [Wiped(q) EXCEPT ![p].kids[l] = K, ![p].values = vs]
    BY <1>1, <1>8 DEF WriteValue, vs
  <2>4. Grown(file, file', q, Below(file, q), [label |-> l, data |-> v])
    BY <2>1, <2>3 DEF Put, WipedFile, Without, Grown
  <2>5. Cut(file, p, a, Below(file, q))
    BY <1>1, CutBelow
  <2>6. Wiped(q) = Put(Without(objs, Below(file, q)), q, Blank(objs[q]))
    BY DEF Wiped, Blank
  <2>7. DOMAIN Wiped(q) = (DOMAIN objs \ Below(file, q)) \cup {q}
        /\ \A r \in DOMAIN Wiped(q) : Wiped(q)[r] = IF r = q THEN Blank(objs[q]) ELSE objs[r]
    BY <2>6 DEF Put, Without
  <2>8. /\ DOMAIN objs' = (DOMAIN objs \ Below(file, q)) \cup {q}
        /\ \A r \in DOMAIN objs' : r # p /\ r # q => objs'[r] = objs[r]
        /\ objs'[q] = Blank(objs[q])
        /\ objs'[p] = [objs[p] EXCEPT !.kids[l] = K, !.values = vs]
    BY <2>3, <2>7, <1>6
  <2>9. /\ DOMAIN objs'[p] = DOMAIN objs[p] /\ objs'[p].descs = objs[p].descs /\ objs'[p].values = vs
        /\ objs'[p].kids = WithKids(objs[p].kids, l, K)
    BY <2>8, <1>1 DEF WithKids
  <2>10. PICK o : o = Blank(objs[q])
    OBVIOUS
  <2>11. /\ DOMAIN objs' = (DOMAIN objs \ Below(file, q)) \cup {q}
         /\ \A r \in DOMAIN objs' : r # p /\ r # q => objs'[r] = objs[r]
         /\ objs'[q] = o /\ (o = New(l) \/ (q \in DOMAIN objs /\ o = Blank(objs[q])))
         /\ l \in Kept[file[p].label] /\ oldTexts' = oldTexts \cap DOMAIN file'
    BY <2>2, <2>8, <2>10, <1>1, <1>2
  <2> QED  BY ONLY EntitiesInv, p \in DOMAIN objs, a \in Names, v \in Data, <1>5, <1>7, <2>1, <2>4, <2>5, <2>9, <2>11, ArrayWritten
<1>9. CASE a \notin ReadChildren(file, p, l)
  <2>1. q \notin DOMAIN file /\ q \notin DOMAIN objs
    BY <1>1, <1>9 DEF WriteValue, Ents
  <2>3. /\ file' = Put(file, q, [label |-> l, data |-> v])
        /\ objs' = [Put(objs, q, New(l)) EXCEPT ![p].kids[l] = K, ![p].values = vs]
    BY <1>1, <1>9 DEF WriteValue, vs
  <2>4. Grown(file, file', q, {}, [label |-> l, data |-> v])
    BY <2>1, <2>3 DEF Put, Grown
  <2>5. Cut(file, p, a, {})
    BY <1>1, <2>1, CutNothing DEF Ents
  <2>7. DOMAIN Put(objs, q, New(l)) = DOMAIN objs \cup {q}
        /\ \A r \in DOMAIN objs \cup {q} : Put(objs, q, New(l))[r] = IF r = q THEN New(l) ELSE objs[r]
    BY DEF Put
  <2>8. /\ DOMAIN objs' = (DOMAIN objs \ {}) \cup {q}
        /\ \A r \in DOMAIN objs' : r # p /\ r # q => objs'[r] = objs[r]
        /\ objs'[q] = New(l)
        /\ objs'[p] = [objs[p] EXCEPT !.kids[l] = K, !.values = vs]
    BY <2>3, <2>7, <1>6
  <2>9. /\ DOMAIN objs'[p] = DOMAIN objs[p] /\ objs'[p].descs = objs[p].descs /\ objs'[p].values = vs
        /\ objs'[p].kids = WithKids(objs[p].kids, l, K)
    BY <2>8, <1>1 DEF WithKids
  <2>10. PICK o : o = New(l)
    OBVIOUS
  <2>11. /\ DOMAIN objs' = (DOMAIN objs \ {}) \cup {q}
         /\ \A r \in DOMAIN objs' : r # p /\ r # q => objs'[r] = objs[r]
         /\ objs'[q] = o /\ (o = New(l) \/ (q \in DOMAIN objs /\ o = Blank(objs[q])))
         /\ l \in Kept[file[p].label] /\ oldTexts' = oldTexts \cap DOMAIN file' /\ (q \in DOMAIN file => file[q].label = l)
    BY <2>1, <2>8, <2>10, <1>1, <1>2
  <2> QED  BY ONLY EntitiesInv, p \in DOMAIN objs, a \in Names, v \in Data, <1>5, <1>7, <2>4, <2>5, <2>9, <2>11, ArrayWritten
<1> QED  BY <1>8, <1>9

-----------------------------------------------------------------------------
(* Opening the file, and all steps.                                        *)

\* What is read when the file is opened.
LEMMA OpenedFacts ==
  ASSUME NEW f
  PROVE  /\ DOMAIN Opened(f) = Ents(f)
         /\ \A p \in Ents(f) :
              /\ DOMAIN Opened(f)[p] = {"descs", "kids", "values"}
              /\ Opened(f)[p].descs = ReadDescriptors(f, p)
              /\ DOMAIN Opened(f)[p].kids = Kept[f[p].label]
              /\ \A l \in Kept[f[p].label] : Opened(f)[p].kids[l] = ReadChildren(f, p, l)
              /\ Opened(f)[p].values = None
BY DEF Opened, Ents

\* The action Reopen keeps the invariant.
LEMMA ReopenStep ==
  ASSUME EntitiesInv, Reopen
  PROVE  EntitiesInv'
<1>1. FileOK(file) /\ objs' = Opened(file) /\ file' = file
  BY DEF EntitiesInv, EntitiesRight, Reopen
<1>2. ASSUME NEW p \in Ents(file)
      PROVE  Right(Opened(file)[p], file, p, oldTexts', oldValues')
  <2>1. DescsRight(ReadDescriptors(file, p), file, p, oldTexts')
    BY DEF DescsRight, ReadDescriptors
  <2>2. KidsRight(Opened(file)[p].kids, file, p)
    BY OpenedFacts DEF KidsRight
  <2>3. ValuesRight(None, file, p, oldValues')
    BY DEF ValuesRight, None
  <2> QED  BY <2>1, <2>2, <2>3, OpenedFacts DEF Right
<1> QED  BY <1>1, <1>2, OpenedFacts DEF EntitiesInv, EntitiesRight

\* A new file, and every step from a state in which the invariant holds.
LEMMA InitRight == CGNSInit => EntitiesInv
<1> SUFFICES ASSUME CGNSInit PROVE EntitiesInv
  OBVIOUS
<1>1. /\ DOMAIN file = {<<>>} /\ file[<<>>] = [label |-> Base_t, data |-> Bare]
      /\ DOMAIN objs = {<<>>} /\ objs[<<>>] = New(Base_t)
  BY DEF CGNSInit
<1>2. file[<<>>].label = Base_t /\ file[<<>>] \in Nodes /\ Base_t # Descriptor_t
  BY <1>1, LabelFacts DEF Nodes
<1>3. \A r \in Seq(Parts), n \in Parts : Append(r, n) \notin DOMAIN file
  BY <1>1, AppendFacts
<1>4. <<>> \in Seq(Parts)
  OBVIOUS
<1>5. FileOK(file)
  BY <1>1, <1>2, <1>3, <1>4 DEF FileOK
<1>6. Ents(file) = {<<>>}
  BY <1>1, <1>2 DEF Ents
<1>7. Right(New(Base_t), file, <<>>, oldTexts, oldValues)
  BY <1>2, NewRight
<1> QED  BY <1>1, <1>5, <1>6, <1>7 DEF EntitiesInv, EntitiesRight

\* Every step keeps the invariant.
LEMMA NextRight == EntitiesInv /\ [Next]_vars => EntitiesInv'
<1> SUFFICES ASSUME EntitiesInv, [Next]_vars PROVE EntitiesInv'
  OBVIOUS
<1>1. CASE UNCHANGED vars
  BY <1>1 DEF vars, EntitiesInv
<1>2. CASE Next
  <2>0. <<>> \in DOMAIN objs
    BY LabelFacts DEF EntitiesInv, EntitiesRight, FileOK, Ents
  <2>1. ASSUME NEW p \in DOMAIN objs, NEW n \in Names, NEW t \in Data, WriteDescriptor(p, n, t) PROVE EntitiesInv'
    BY <2>1, WriteDescriptorStep
  <2>2. ASSUME NEW p \in DOMAIN objs, NEW n \in Names, NEW t \in Data, RewriteDescriptor(p, n, t) PROVE EntitiesInv'
    BY <2>2, RewriteDescriptorStep
  <2>3. ASSUME NEW p \in DOMAIN objs, NEW n \in Names, NEW t \in Data, WriteArrayData(p, n, t) PROVE EntitiesInv'
    BY <2>3, WriteArrayDataStep
  <2>4. ASSUME NEW p \in DOMAIN objs, NEW n \in Names, NEW t \in Data, WriteValue(p, n, t) PROVE EntitiesInv'
    BY <2>4, WriteValueStep
  <2>5. ASSUME NEW z \in Names, NEW size \in Data \cup {Bare}, WriteZone(z, size) PROVE EntitiesInv'
    BY <2>5, WriteZoneStep
  <2>6. ASSUME NEW p \in DOMAIN objs, NEW l \in Fixed, WriteFixed(p, l) PROVE EntitiesInv'
    BY <2>6, WriteFixedStep
  <2>7. ASSUME NEW p \in DOMAIN objs, NEW n \in Names, WriteArray(p, n) PROVE EntitiesInv'
    BY <2>7, WriteArrayStep
  <2>8. ASSUME NEW p \in DOMAIN objs, NEW n \in Names, DeleteDescriptor(p, n) PROVE EntitiesInv'
    BY <2>8, DeleteDescriptorStep
  <2>9. ASSUME NEW p \in DOMAIN objs, NEW n \in Names, DeleteArray(p, n) PROVE EntitiesInv'
    BY <2>9, DeleteArrayStep
  <2>10. ASSUME NEW p \in DOMAIN objs, NEW n \in Names, DeleteValue(p, n) PROVE EntitiesInv'
    BY <2>10, DeleteValueStep
  <2>11. ASSUME NEW p \in DOMAIN objs, DeleteEquationSet(p) PROVE EntitiesInv'
    BY <2>11, DeleteEquationSetStep
  <2>12. ASSUME NEW p \in DOMAIN objs, HasValue(p) PROVE EntitiesInv'
    BY <2>12, HasValueStep
  <2>13. ASSUME Reopen PROVE EntitiesInv'
    BY <2>13, ReopenStep
  <2> QED  BY <1>2, <2>1, <2>2, <2>3, <2>4, <2>5, <2>6, <2>7, <2>8, <2>9, <2>10, <2>11, <2>12, <2>13 DEF Next
<1> QED  BY <1>1, <1>2

\* The file has every node in its place, every node but descriptors one entity, and what an
\* entity has read is what is there, but for the named faults: assureChild, Wipe, Needs and
\* the write and delete operations of src/cgnspp.
THEOREM EntitiesInvariant == Spec => []EntitiesInv
BY InitRight, NextRight, PTL DEF Spec

\* TypeOK follows: a parent is an entity, for descriptors have no children.
LEMMA RightType == EntitiesInv => TypeOK
<1> SUFFICES ASSUME EntitiesInv PROVE TypeOK
  OBVIOUS
<1>1. FileOK(file) /\ DOMAIN objs = Ents(file)
  BY DEF EntitiesInv, EntitiesRight
<1>2. ASSUME NEW p \in DOMAIN file, p # <<>>
      PROVE  Parent(p) \in DOMAIN objs
  <2>1. p \in Seq(Parts)
    BY <1>1 DEF FileOK
  <2>2. PICK r \in Seq(Parts), n \in Parts : p = Append(r, n) /\ r = Parent(p)
    BY <2>1, <1>2, ParentFacts
  <2>3. r \in DOMAIN file /\ Fitting(file[r].label, n, file[p].label)
    BY <2>2, <1>1, <1>2 DEF FileOK
  <2>4. file[r].label # Descriptor_t
    BY <2>3, LabelFacts DEF Fitting
  <2> QED  BY <2>2, <2>3, <2>4, <1>1 DEF Ents
<1>3. DOMAIN objs = {p \in DOMAIN file : file[p].label # Descriptor_t}
  BY <1>1 DEF Ents
<1>4. ASSUME NEW p \in DOMAIN objs
      PROVE  /\ DOMAIN objs[p].kids = Kept[file[p].label]
             /\ \A l \in DOMAIN objs[p].kids : objs[p].kids[l] = Unread \/ objs[p].kids[l] \subseteq Names \cup Fixed
             /\ \A a \in DOMAIN objs[p].values : a \in Names /\ objs[p].values[a] \in Data
  <2>1. Right(objs[p], file, p, oldTexts, oldValues)
    BY DEF EntitiesInv, EntitiesRight
  <2>2. \A l : ReadChildren(file, p, l) \subseteq Names \cup Fixed
    BY DEF ReadChildren
  <2> QED  BY <2>1, <2>2 DEF Right, KidsRight, ValuesRight
<1> QED  BY <1>2, <1>3, <1>4 DEF TypeOK

\* Every entity has a node of its label, every node but descriptors one entity.
THEOREM TypeCorrect == Spec => []TypeOK
BY EntitiesInvariant, RightType, PTL

\* Stated::getState asks the node, then its parent, which is the base.
LEMMA SameState ==
  ASSUME EntitiesInv, NEW p \in DOMAIN objs, ReferenceState_t \in Kept[file[p].label]
  PROVE  StateOf(p) = IF ReadChildren(file, p, ReferenceState_t) # {} THEN Append(p, ReferenceState_t)
                      ELSE IF ReadChildren(file, <<>>, ReferenceState_t) # {} THEN <<ReferenceState_t>> ELSE Bare
<1> DEFINE R == ReferenceState_t
<1>1. FileOK(file) /\ p \in Ents(file) /\ file[p].label \in {Base_t, Zone_t} /\ KidsOf(p, R) = ReadChildren(file, p, R)
  BY Answers, KeptLabels
<1>2. <<>> \in DOMAIN objs /\ file[<<>>].label = Base_t
  BY LabelFacts DEF EntitiesInv, EntitiesRight, FileOK, Ents
<1>3. KidsOf(<<>>, R) = ReadChildren(file, <<>>, R)
  BY <1>2, Answers, KeptFacts
<1>4. CASE p = <<>>
  BY <1>1, <1>4 DEF StateOf
<1>5. CASE p # <<>>
  <2>1. Parent(p) = <<>>
    BY <1>1, <1>5, BaseAtRoot
  <2>2. Append(<<>>, R) = <<R>>
    OBVIOUS
  <2> QED  BY <1>1, <1>3, <1>5, <2>1, <2>2 DEF StateOf
<1> QED  BY <1>4, <1>5

\* The property follows part by part.
LEMMA RightIsSame == EntitiesInv => SameAfterReopening
<1> SUFFICES ASSUME EntitiesInv, NEW p \in DOMAIN objs
             PROVE  /\ DOMAIN DescsOf(p) = DOMAIN Opened(file)[p].descs
                    /\ \A d \in DOMAIN Opened(file)[p].descs :
                         Append(p, d) \in oldTexts \/ DescsOf(p)[d] = Opened(file)[p].descs[d]
                    /\ \A l \in DOMAIN Opened(file)[p].kids : KidsOf(p, l) = Opened(file)[p].kids[l]
                    /\ ReferenceState_t \in DOMAIN Opened(file)[p].kids =>
                         StateOf(p) = IF Opened(file)[p].kids[ReferenceState_t] # {} THEN Append(p, ReferenceState_t)
                                      ELSE IF Opened(file)[<<>>].kids[ReferenceState_t] # {} THEN <<ReferenceState_t>> ELSE Bare
                    /\ IsState(p) /\ AllValues(file, p) =>
                         \A a \in Names :
                           \/ Append(p, a) \in oldValues
                           \/ a \notin DOMAIN ReadValues(file, p) \cup DOMAIN ValuesOf(p)
                           \/ /\ a \in DOMAIN ReadValues(file, p) \cap DOMAIN ValuesOf(p)
                              /\ ValuesOf(p)[a] = ReadValues(file, p)[a]
  BY DEF SameAfterReopening
<1>1. /\ p \in Ents(file)
      /\ \A l \in Kept[file[p].label] : KidsOf(p, l) = ReadChildren(file, p, l)
      /\ DOMAIN DescsOf(p) = {n \in Names : IsChild(file, p, n, Descriptor_t)}
      /\ \A d \in DOMAIN DescsOf(p) : Append(p, d) \in oldTexts \/ DescsOf(p)[d] = file[Append(p, d)].data
  BY Answers
<1>2. /\ Opened(file)[p].descs = ReadDescriptors(file, p)
      /\ DOMAIN Opened(file)[p].kids = Kept[file[p].label]
      /\ \A l \in Kept[file[p].label] : Opened(file)[p].kids[l] = ReadChildren(file, p, l)
  BY <1>1, OpenedFacts
<1>3. DOMAIN DescsOf(p) = DOMAIN Opened(file)[p].descs
      /\ \A d \in DOMAIN Opened(file)[p].descs :
           Append(p, d) \in oldTexts \/ DescsOf(p)[d] = Opened(file)[p].descs[d]
  BY <1>1, <1>2 DEF ReadDescriptors
<1>4. \A l \in DOMAIN Opened(file)[p].kids : KidsOf(p, l) = Opened(file)[p].kids[l]
  BY <1>1, <1>2
<1>5. ASSUME ReferenceState_t \in DOMAIN Opened(file)[p].kids
      PROVE  StateOf(p) = IF Opened(file)[p].kids[ReferenceState_t] # {} THEN Append(p, ReferenceState_t)
                          ELSE IF Opened(file)[<<>>].kids[ReferenceState_t] # {} THEN <<ReferenceState_t>> ELSE Bare
  <2>1. <<>> \in Ents(file) /\ ReferenceState_t \in Kept[file[<<>>].label]
    BY LabelFacts, KeptFacts DEF EntitiesInv, EntitiesRight, FileOK, Ents
  <2>2. Opened(file)[<<>>].kids[ReferenceState_t] = ReadChildren(file, <<>>, ReferenceState_t)
    BY <2>1, OpenedFacts
  <2> QED  BY <1>2, <1>5, <2>2, SameState
<1>6. ASSUME IsState(p), AllValues(file, p), NEW a \in Names
      PROVE  \/ Append(p, a) \in oldValues
             \/ a \notin DOMAIN ReadValues(file, p) \cup DOMAIN ValuesOf(p)
             \/ /\ a \in DOMAIN ReadValues(file, p) \cap DOMAIN ValuesOf(p)
                /\ ValuesOf(p)[a] = ReadValues(file, p)[a]
  <2>1. \/ Append(p, a) \in oldValues
        \/ IF HasData(file, p, a) THEN a \in DOMAIN ValuesOf(p) /\ ValuesOf(p)[a] = file[Append(p, a)].data
           ELSE a \notin DOMAIN ValuesOf(p)
    BY <1>6, CurrentValues DEF ValuesGiven
  <2>2. a \in DOMAIN ReadValues(file, p) <=> HasData(file, p, a)
    BY <1>6 DEF ReadValues, AllValues, HasData, BareArray
  <2>3. a \in DOMAIN ReadValues(file, p) => ReadValues(file, p)[a] = file[Append(p, a)].data
    BY DEF ReadValues
  <2> QED  BY <2>1, <2>2, <2>3
<1> QED  BY <1>3, <1>4, <1>5, <1>6

\* The entities answer what they would answer if the file were closed and opened first, but
\* for the named faults: SameAfterReopening of CGNSEntities, for every set of names and data.
THEOREM Rereading == Spec => []SameAfterReopening
BY EntitiesInvariant, RightIsSame, PTL
=============================================================================
