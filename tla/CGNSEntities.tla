---------------------------- MODULE CGNSEntities ----------------------------
(***************************************************************************)
(* The entities of cgnspp over the nodes of a file: a base with zones, and *)
(* below both a reference state, with descriptors, arrays and values, and  *)
(* a set of flow equations.  An entity keeps what it has read of its node; *)
(* the program changes both through it.  All entities are built from the   *)
(* macros and templates of src/cgnspp/cgnsutil.h and cgnsnode.h, so that   *)
(* these stand for the others.                                             *)
(***************************************************************************)
EXTENDS Naturals, Sequences, FiniteSets

CONSTANTS Names,      \* names of descriptors, zones and arrays, in their order
          Data,       \* texts of descriptors, values of arrays, sizes of zones
          Bare,       \* no data
          Unread,     \* the bit of mInitialized is not set
          Base_t, Zone_t, ReferenceState_t, FlowEquationSet_t, DataArray_t, Descriptor_t,     \* labels
          Fits(_)     \* bound: whether the file may have these nodes

ASSUME NamesAssumption == Names \subseteq Nat
ASSUME DataAssumption == Bare \notin Data

\* Bound: no zone, array or descriptor has the name of the single children.
ASSUME LabelsAssumption ==
  LET labels == <<Base_t, Zone_t, ReferenceState_t, FlowEquationSet_t, DataArray_t, Descriptor_t>>
  IN  /\ \A i, j \in 1..6 : i # j => labels[i] # labels[j]
      /\ ReferenceState_t \notin Names /\ FlowEquationSet_t \notin Names

VARIABLES file,       \* the nodes by their path below the base: label and data
          objs,       \* the entities: descriptors, children by label, values
          oldTexts,   \* descriptors written anew since their text was read
          oldValues   \* arrays that changed around a value read before, or were left
                      \* out when the values were read

vars == <<file, objs, oldTexts, oldValues>>

None == [n \in {} |-> Bare]
Put(f, n, x) == [k \in DOMAIN f \cup {n} |-> IF k = n THEN x ELSE f[k]]
Without(f, S) == [k \in DOMAIN f \ S |-> f[k]]

\* The children that entities with a label keep; the single ones have a fixed name.
Kept == [l \in {Base_t, Zone_t, ReferenceState_t, FlowEquationSet_t, DataArray_t} |->
           CASE l = Base_t -> {Zone_t, ReferenceState_t, FlowEquationSet_t}
             [] l = Zone_t -> {ReferenceState_t, FlowEquationSet_t}
             [] l = ReferenceState_t -> {DataArray_t}
             [] OTHER -> {}]
Fixed == {ReferenceState_t, FlowEquationSet_t}
Parent(p) == SubSeq(p, 1, Len(p) - 1)
Below(f, p) == {q \in DOMAIN f : Len(q) > Len(p) /\ SubSeq(q, 1, Len(p)) = p}
IsChild(f, p, n, l) == Append(p, n) \in DOMAIN f /\ f[Append(p, n)].label = l

-----------------------------------------------------------------------------
(* What is read.                                                           *)

\* Node::Read(descriptors_t); readLabeledChildren and readChild.
ReadDescriptors(f, p) ==
  [d \in {n \in Names : IsChild(f, p, n, Descriptor_t)} |-> f[Append(p, d)].data]
ReadChildren(f, p, l) == {n \in IF l \in Fixed THEN {l} ELSE Names : IsChild(f, p, n, l)}

\* Valued::Read stops with an exception at the first array without data; it keeps what
\* it has read by then.
BareArray(f, p, a) == IsChild(f, p, a, DataArray_t) /\ f[Append(p, a)].data = Bare
ReadValues(f, p) ==
  LET read == {a \in Names : /\ IsChild(f, p, a, DataArray_t)
                             /\ \A b \in Names : b <= a => ~BareArray(f, p, b)}
  IN  [a \in read |-> f[Append(p, a)].data]
AllValues(f, p) == \A a \in Names : ~BareArray(f, p, a)

\* File::File and Init of every entity, with FULL_PREREAD, which SetStrategy never
\* changes; values are read when they are asked for.
Opened(f) ==
  [p \in {q \in DOMAIN f : f[q].label # Descriptor_t} |->
     [descs |-> ReadDescriptors(f, p),
      kids |-> [l \in Kept[f[p].label] |-> ReadChildren(f, p, l)], values |-> None]]

\* A new entity has read nothing.
New(l) == [descs |-> Unread, kids |-> [k \in Kept[l] |-> Unread], values |-> None]

\* Needs, by which every operation reads what it has not read yet.
DescsOf(p) == IF objs[p].descs = Unread THEN ReadDescriptors(file, p) ELSE objs[p].descs
KidsOf(p, l) == IF objs[p].kids[l] = Unread THEN ReadChildren(file, p, l) ELSE objs[p].kids[l]
ValuesOf(p) == IF objs[p].values # None THEN objs[p].values ELSE ReadValues(file, p)
ValuesGiven(p) == objs[p].values # None \/ AllValues(file, p)

\* Stated::getState: the node's own state, or the one of its parent.
StateOf(p) == IF KidsOf(p, ReferenceState_t) # {} THEN Append(p, ReferenceState_t)
              ELSE IF p # <<>> /\ KidsOf(Parent(p), ReferenceState_t) # {} THEN Append(Parent(p), ReferenceState_t)
              ELSE Bare

Stays(f) == /\ oldTexts' = oldTexts \cap DOMAIN f
            /\ oldValues' = {q \in oldValues : Parent(q) \in DOMAIN f}

\* A new file; the dimensions of the base are left out, nothing here depends on them.
CGNSInit ==
  /\ file = [p \in {<<>>} |-> [label |-> Base_t, data |-> Bare]]
  /\ objs = [p \in {<<>>} |-> New(Base_t)]
  /\ oldTexts = {} /\ oldValues = {}

-----------------------------------------------------------------------------
(* Descriptors.                                                            *)

\* Node::writeDescriptor of a new one: nothing if a child has the name.
WriteDescriptor(p, d, t) ==
  LET q == Append(p, d)
  IN  /\ d \notin DOMAIN DescsOf(p) /\ q \notin DOMAIN file
      /\ file' = Put(file, q, [label |-> Descriptor_t, data |-> t])
      /\ objs' = [objs EXCEPT ![p].descs = Put(DescsOf(p), d, t)]
      /\ oldTexts' = oldTexts \ {q} /\ UNCHANGED oldValues

\* Of one that is there: the node gets the text, the text that was read is returned.
RewriteDescriptor(p, d, t) ==
  /\ d \in DOMAIN DescsOf(p)
  /\ file' = [file EXCEPT ![Append(p, d)].data = t]
  /\ objs' = [objs EXCEPT ![p].descs = DescsOf(p)]
  /\ oldTexts' = oldTexts \cup {Append(p, d)} /\ UNCHANGED oldValues

\* Node::deleteDescriptor.  Bound: the name is of no other child, which would be deleted.
DeleteDescriptor(p, d) ==
  LET q == Append(p, d)
  IN  /\ IsChild(file, p, d, Descriptor_t)
      /\ file' = Without(file, {q})
      /\ objs' = [objs EXCEPT ![p].descs = Without(DescsOf(p), {d})]
      /\ oldTexts' = oldTexts \ {q} /\ UNCHANGED oldValues

-----------------------------------------------------------------------------
(* Entities.                                                               *)

\* Mutants: the nodes below stay; the lists stay.
WipedFileNot(p) == file
WipedNot(p) == Without(objs, Below(file, p))

\* Node::Wipe and those of the classes: the lists that were read are empty, and
\* deleteChildren; what a class does not name, the values, stays.
WipedFile(p) == Without(file, Below(file, p))
Emptied(x) == IF x = Unread THEN Unread ELSE {}
Wiped(p) ==
  LET o == objs[p]
  IN  Put(Without(objs, Below(file, p)), p,
          [o EXCEPT !.descs = IF @ = Unread THEN Unread ELSE None,
                    !.kids = [l \in DOMAIN @ |-> Emptied(@[l])]])

\* assureChild: a child that is known is wiped; another one is created, unless a child
\* has the name.
AssureChild(p, l, n, data) ==
  LET q == Append(p, n)
      known == n \in KidsOf(p, l)
      f == IF known THEN WipedFile(q) ELSE file
      o == [objs EXCEPT ![p].kids[l] = KidsOf(p, l) \cup {n}]
  IN  /\ known \/ q \notin DOMAIN file
      /\ file' = Put(f, q, [label |-> l, data |-> IF known /\ data = Bare THEN file[q].data ELSE data])
      /\ objs' = IF known THEN [Wiped(q) EXCEPT ![p].kids[l] = KidsOf(p, l)] ELSE Put(o, q, New(l))

\* Base::writeStructured1DZone and the others; with a size that is refused the zone has
\* been wiped, or made without data.
WriteZone(z, size) ==
  /\ AssureChild(<<>>, Zone_t, z, size)
  /\ Stays(file')

\* Stated::writeReferenceState, Converged::writeFlowEquationSet: a state that is wiped
\* keeps its values.
WriteFixed(p, l) ==
  LET q == Append(p, l)
  IN  /\ l \in DOMAIN objs[p].kids /\ AssureChild(p, l, l, Bare)
      /\ oldTexts' = oldTexts \cap DOMAIN file'
      /\ oldValues' = {r \in oldValues : Parent(r) \in DOMAIN file'}
           \cup IF q \in DOMAIN objs THEN {Append(q, a) : a \in DOMAIN objs[q].values} ELSE {}

\* Converged::deleteFlowEquationSet: nothing if none has been read.
DeleteEquationSet(p) ==
  LET q == Append(p, FlowEquationSet_t)
  IN  /\ FlowEquationSet_t \in DOMAIN objs[p].kids /\ objs[p].kids[FlowEquationSet_t] \notin {Unread, {}}
      /\ file' = Without(WipedFile(q), {q})
      /\ objs' = [Without(objs, Below(file, q) \cup {q}) EXCEPT ![p].kids[FlowEquationSet_t] = {}]
      /\ Stays(file')

-----------------------------------------------------------------------------
(* Arrays and values of a reference state.                                 *)

IsState(p) == file[p].label = ReferenceState_t

\* Arrayed::writeDataArray: an array of one number, of which the data is kept.
WriteArray(p, a) ==
  /\ IsState(p) /\ AssureChild(p, DataArray_t, a, Bare)
  /\ Stays(file')

\* DataArray::writeData, which the values of the state know nothing of.
WriteArrayData(p, a, v) ==
  LET q == Append(p, a)
  IN  /\ IsState(p) /\ IsChild(file, p, a, DataArray_t)
      /\ file' = [file EXCEPT ![q].data = v]
      /\ oldValues' = IF objs[p].values # None THEN oldValues \cup {q} ELSE oldValues
      /\ UNCHANGED <<objs, oldTexts>>

\* Arrayed::deleteArray.
DeleteArray(p, a) ==
  LET q == Append(p, a)
  IN  /\ IsState(p) /\ a \in KidsOf(p, DataArray_t)
      /\ file' = Without(WipedFile(q), {q})
      /\ objs' = [Without(objs, Below(file, q) \cup {q}) EXCEPT ![p].kids[DataArray_t] = KidsOf(p, DataArray_t) \ {a}]
      /\ oldTexts' = oldTexts \cap DOMAIN file'
      /\ oldValues' = IF a \in DOMAIN objs[p].values THEN oldValues \cup {q} ELSE oldValues

\* The arrays behind one without data are not read any more once there is a value.
LeftOut(p) ==
  IF ValuesOf(p) \in {objs[p].values, None} THEN {}
  ELSE {Append(p, a) : a \in Names \ DOMAIN ReadValues(file, p)} \cap DOMAIN file

\* Valued::hasValue: the values are read once.
HasValue(p) ==
  /\ IsState(p)
  /\ objs' = [objs EXCEPT ![p].values = ValuesOf(p), ![p].kids[DataArray_t] = KidsOf(p, DataArray_t)]
  /\ oldValues' = oldValues \cup LeftOut(p)
  /\ UNCHANGED <<file, oldTexts>>

\* Valued::writeValue: the array is written anew, and insert keeps a value that is there.
WriteValue(p, a, v) ==
  LET q == Append(p, a)
      known == DOMAIN ValuesOf(p)
      there == a \in KidsOf(p, DataArray_t)
      o == IF there THEN Wiped(q) ELSE Put(objs, q, New(DataArray_t))
  IN  /\ IsState(p) /\ ValuesGiven(p)
      /\ there \/ q \notin DOMAIN file
      /\ file' = Put(IF there THEN WipedFile(q) ELSE file, q, [label |-> DataArray_t, data |-> v])
      /\ objs' = [o EXCEPT ![p].kids[DataArray_t] = KidsOf(p, DataArray_t) \cup {a},
                           ![p].values = IF a \in known THEN ValuesOf(p) ELSE Put(ValuesOf(p), a, v)]
      /\ oldTexts' = oldTexts \cap DOMAIN file'
      /\ oldValues' = IF a \in known THEN oldValues \cup {q} ELSE oldValues \ {q}

\* Valued::deleteValue.
DeleteValue(p, a) ==
  LET q == Append(p, a)
      there == a \in KidsOf(p, DataArray_t)
      o == IF there THEN Without(objs, Below(file, q) \cup {q}) ELSE objs
  IN  /\ IsState(p) /\ ValuesGiven(p)
      /\ file' = IF there THEN Without(WipedFile(q), {q}) ELSE file
      /\ objs' = [o EXCEPT ![p].kids[DataArray_t] = KidsOf(p, DataArray_t) \ {a},
                           ![p].values = Without(ValuesOf(p), {a})]
      /\ oldTexts' = oldTexts \cap DOMAIN file' /\ oldValues' = oldValues \ {q}

-----------------------------------------------------------------------------
(* The file is closed and opened.  A zone without data cannot be read.     *)

Readable == \A p \in DOMAIN file : file[p].label = Zone_t => file[p].data # Bare
Reopen ==
  /\ Readable
  /\ objs' = Opened(file) /\ oldTexts' = {} /\ oldValues' = {}
  /\ UNCHANGED file

MayBe(p, n, l, data) == Fits(Put(file, Append(p, n), [label |-> l, data |-> data]))

Next ==
  \/ \E p \in DOMAIN objs, n \in Names, t \in Data :
       \/ MayBe(p, n, Descriptor_t, t) /\ (WriteDescriptor(p, n, t) \/ RewriteDescriptor(p, n, t))
       \/ MayBe(p, n, DataArray_t, t) /\ (WriteArrayData(p, n, t) \/ WriteValue(p, n, t))
  \/ \E z \in Names, size \in Data \cup {Bare} : MayBe(<<>>, z, Zone_t, size) /\ WriteZone(z, size)
  \/ \E p \in DOMAIN objs, l \in Fixed : MayBe(p, l, l, Bare) /\ WriteFixed(p, l)
  \/ \E p \in DOMAIN objs, n \in Names :
       \/ MayBe(p, n, DataArray_t, Bare) /\ WriteArray(p, n)
       \/ DeleteDescriptor(p, n) \/ DeleteArray(p, n) \/ DeleteValue(p, n)
  \/ \E p \in DOMAIN objs : DeleteEquationSet(p) \/ HasValue(p)
  \/ Reopen

Spec == CGNSInit /\ [][Next]_vars

-----------------------------------------------------------------------------
\* Every entity has a node of its label, every node but descriptors one entity, and what
\* an entity keeps are names and data.
TypeOK ==
  /\ \A p \in DOMAIN file : p # <<>> => Parent(p) \in DOMAIN objs
  /\ DOMAIN objs = {p \in DOMAIN file : file[p].label # Descriptor_t}
  /\ \A p \in DOMAIN objs :
       /\ DOMAIN objs[p].kids = Kept[file[p].label]
       /\ \A l \in DOMAIN objs[p].kids : objs[p].kids[l] = Unread \/ objs[p].kids[l] \subseteq Names \cup Fixed
       /\ \A a \in DOMAIN objs[p].values : a \in Names /\ objs[p].values[a] \in Data

\* The entities answer what they would answer if the file were closed and opened first:
\* the same descriptors and texts, children, reference state and values.  Named faults: the
\* text of a descriptor that was written anew, and values of which the array was changed,
\* wiped or deleted, that are written a second time, or that lay behind an array without
\* data when the others were read.  Needs, Wipe, assureChild and the write and delete
\* operations of src/cgnspp.
SameAfterReopening ==
  LET new == Opened(file)
  IN  \A p \in DOMAIN objs :
        /\ DOMAIN DescsOf(p) = DOMAIN new[p].descs
        /\ \A d \in DOMAIN new[p].descs :
             Append(p, d) \in oldTexts \/ DescsOf(p)[d] = new[p].descs[d]
        /\ \A l \in DOMAIN new[p].kids : KidsOf(p, l) = new[p].kids[l]
        /\ ReferenceState_t \in DOMAIN new[p].kids =>
             StateOf(p) = IF new[p].kids[ReferenceState_t] # {} THEN Append(p, ReferenceState_t)
                          ELSE IF new[<<>>].kids[ReferenceState_t] # {} THEN <<ReferenceState_t>> ELSE Bare
        /\ IsState(p) /\ AllValues(file, p) =>
             \A a \in Names :
               LET there == DOMAIN ReadValues(file, p)
               IN  \/ Append(p, a) \in oldValues
                   \/ a \notin there \cup DOMAIN ValuesOf(p)
                   \/ a \in there \cap DOMAIN ValuesOf(p) /\ ValuesOf(p)[a] = ReadValues(file, p)[a]
=============================================================================
