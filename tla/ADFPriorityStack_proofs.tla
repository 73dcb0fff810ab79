------------------------ MODULE ADFPriorityStack_proofs ------------------------
(***************************************************************************)
(* The priority stack never serves a copy that is out of date, for any     *)
(* number of files, slots, nodes and entries.                              *)
(*                                                                         *)
(* Lemmas say what the functions of ADFI_stack_control do to the slots:    *)
(* they put one entry at one place, and leave or empty every other slot.   *)
(* The levels decide WHICH entry is given up, and correctness does not     *)
(* depend on it.                                                           *)
(***************************************************************************)
EXTENDS ADFPriorityStack, FiniteSetTheorems, WellFoundedInduction, TLAPS

\* Slots as they are between two steps of ADFI_stack_control: any level.
LooseSlot ==
  UNION {[file : Files, addr : {a}, type : {TypeOf(a)}, level : Nat,
          data : Contents(a)] : a \in AllAddrs}

Stacks == [Slots -> Slot \cup {Empty}]
LooseStacks == [Slots -> LooseSlot \cup {Empty}]

\* Slot x was emptied or still has the entry of slot y.
SameOrGone(x, y) ==
  \/ x = Empty
  \/ y # Empty /\ x.file = y.file /\ x.addr = y.addr /\ x.type = y.type /\ x.data = y.data

Shrunk(t, s) == \A i \in Slots : SameOrGone(t[i], s[i])

\* t has d at place p, where s had its copy of that chunk, if it had one.
PutAt(t, s, p, f, a, d) ==
  /\ t[p] = Empty \/ (t[p].file = f /\ t[p].addr = a /\ t[p].type = TypeOf(a) /\ t[p].data = d)
  /\ OnStack(s, f, a) => Matches(s[p], f, a)
  /\ \A i \in Slots \ {p} : SameOrGone(t[i], s[i])

-----------------------------------------------------------------------------
(* The functions of the stack.                                             *)

\* A set of naturals has a least element.
LEMMA LeastElement ==
  ASSUME NEW S \in SUBSET Nat, S # {}
  PROVE  \E m \in S : \A n \in S : m <= n
<1>1. PICK m \in S : \A n \in S : ~(<<n, m>> \in OpToRel(<, Nat))
  BY NatLessThanWellFounded, WFMin
<1>2. \A n \in S : ~(n < m)
  BY <1>1 DEF OpToRel
<1> QED
  BY <1>2

\* What a slot holds.
LEMMA SlotFields ==
  ASSUME NEW x
  PROVE  /\ x \in Slot <=>
              \E a \in AllAddrs :
                x \in [file : Files, addr : {a}, type : {TypeOf(a)},
                       level : 1 .. MaxStack + 1, data : Contents(a)]
         /\ x \in LooseSlot <=>
              \E a \in AllAddrs :
                x \in [file : Files, addr : {a}, type : {TypeOf(a)}, level : Nat,
                       data : Contents(a)]
BY DEF Slot, LooseSlot

\* Another level makes a slot of a loose slot, with the same entry.
LEMMA Releveled ==
  ASSUME NEW x \in LooseSlot, NEW l
  PROVE  /\ l \in 1 .. MaxStack + 1 => [x EXCEPT !.level = l] \in Slot
         /\ l \in Nat => [x EXCEPT !.level = l] \in LooseSlot
         /\ LET y == [x EXCEPT !.level = l]
            IN y.file = x.file /\ y.addr = x.addr /\ y.type = x.type /\ y.data = x.data
<1>1. PICK a \in AllAddrs : x \in [file : Files, addr : {a}, type : {TypeOf(a)}, level : Nat,
                                   data : Contents(a)]
  BY SlotFields
<1> DEFINE y == [x EXCEPT !.level = l]
<1>2. y.file = x.file /\ y.addr = x.addr /\ y.type = x.type /\ y.data = x.data
  BY <1>1
<1>3. y \in [file : Files, addr : {a}, type : {TypeOf(a)}, level : {l}, data : Contents(a)]
  BY <1>1
<1>4. l \in 1 .. MaxStack + 1 => y \in Slot
  BY <1>3, SlotFields
<1>5. l \in Nat => y \in LooseSlot
  BY <1>3, SlotFields
<1> QED
  BY <1>2, <1>4, <1>5

\* A stack is a stack whose levels may be out of order.
LEMMA SlotIsLoose == Stacks \subseteq LooseStacks
<1>1. Slot \subseteq LooseSlot
  <2> SUFFICES ASSUME NEW x \in Slot PROVE x \in LooseSlot
    OBVIOUS
  <2>1. PICK a \in AllAddrs : x \in [file : Files, addr : {a}, type : {TypeOf(a)},
                                     level : 1 .. MaxStack + 1, data : Contents(a)]
    BY SlotFields
  <2>2. x \in [file : Files, addr : {a}, type : {TypeOf(a)}, level : Nat, data : Contents(a)]
    BY <2>1
  <2> QED  BY <2>2, SlotFields
<1> QED
  BY <1>1 DEF Stacks, LooseStacks

\* The ranks of the levels are levels.
LEMMA RankBound ==
  ASSUME NEW s, NEW T
  PROVE  LET levels == {s[i].level : i \in {j \in Slots : s[j] # Empty}} \ {1}
         IN T \subseteq levels => 1 + Cardinality(T) \in 1 .. MaxStack + 1
<1> DEFINE used == {j \in Slots : s[j] # Empty}
           h == [i \in used |-> s[i].level]
           all == {s[i].level : i \in used}
<1> SUFFICES ASSUME T \subseteq all PROVE 1 + Cardinality(T) \in 1 .. MaxStack + 1
  OBVIOUS
<1>1. MaxStack \in Nat \ {0}
  BY StackAssumption
<1>2. IsFiniteSet(Slots) /\ Cardinality(Slots) = MaxStack
  BY <1>1, FS_Interval DEF Slots
<1>3. IsFiniteSet(used) /\ Cardinality(used) <= MaxStack /\ Cardinality(used) \in Nat
  BY <1>2, FS_Subset, FS_CardinalityType
<1>4. h \in Surjection(used, all)
  BY DEF Surjection
<1>5. IsFiniteSet(all) /\ Cardinality(all) <= Cardinality(used)
  BY <1>3, <1>4, FS_Surjection
<1>6. IsFiniteSet(T) /\ Cardinality(T) <= Cardinality(all)
  BY <1>5, FS_Subset
<1>7. Cardinality(T) \in Nat /\ Cardinality(all) \in Nat
  BY <1>5, <1>6, FS_CardinalityType
<1> QED
  BY <1>1, <1>3, <1>5, <1>6, <1>7

\* Replacing levels by ranks makes a stack, with the same entries.
LEMMA RankedKeeps ==
  ASSUME NEW s \in LooseStacks
  PROVE  Ranked(s) \in Stacks /\ Shrunk(Ranked(s), s)
<1> DEFINE levels == {s[i].level : i \in {j \in Slots : s[j] # Empty}} \ {1}
           Rank(level) == IF level = 1 THEN 1
                          ELSE 1 + Cardinality({m \in levels : m <= level})
<1>1. \A level : Rank(level) \in 1 .. MaxStack + 1
  <2> TAKE level
  <2>1. {m \in levels : m <= level} \subseteq levels
    OBVIOUS
  <2>2. 1 + Cardinality({m \in levels : m <= level}) \in 1 .. MaxStack + 1
    BY <2>1, RankBound
  <2> QED
    BY <2>2, StackAssumption
<1> HIDE DEF levels
<1>2. Ranked(s) = [i \in Slots |-> IF s[i] = Empty THEN Empty
                                   ELSE [s[i] EXCEPT !.level = Rank(s[i].level)]]
  BY DEF Ranked, levels
<1> HIDE DEF Rank
<1>3. ASSUME NEW i \in Slots, s[i] # Empty
      PROVE  /\ Ranked(s)[i] \in Slot
             /\ SameOrGone(Ranked(s)[i], s[i])
  <2>1. s[i] \in LooseSlot
    BY <1>3 DEF LooseStacks
  <2>2. Ranked(s)[i] = [s[i] EXCEPT !.level = Rank(s[i].level)]
    BY <1>2, <1>3
  <2> QED
    BY <2>1, <2>2, <1>1, <1>3, Releveled DEF SameOrGone
<1>4. \A i \in Slots : s[i] = Empty => Ranked(s)[i] = Empty
  BY <1>2
<1>5. Ranked(s) \in Stacks
  BY <1>2, <1>3, <1>4 DEF Stacks
<1> QED
  BY <1>3, <1>4, <1>5 DEF Shrunk, SameOrGone

\* GET_STK raises an entry and changes none.
LEMMA RaiseKeeps ==
  ASSUME NEW s \in Stacks, NEW f, NEW a
  PROVE  Raise(s, f, a) \in Stacks /\ Shrunk(Raise(s, f, a), s)
<1> DEFINE r == [i \in Slots |-> IF Matches(s[i], f, a) THEN [s[i] EXCEPT !.level = 1] ELSE s[i]]
<1>1. s \in LooseStacks
  BY SlotIsLoose
<1>2. \A i \in Slots : r[i] \in LooseSlot \cup {Empty} /\ SameOrGone(r[i], s[i])
  <2> SUFFICES ASSUME NEW i \in Slots
               PROVE  r[i] \in LooseSlot \cup {Empty} /\ SameOrGone(r[i], s[i])
    OBVIOUS
  <2>1. CASE Matches(s[i], f, a)
    <3>1. s[i] \in LooseSlot /\ s[i] # Empty /\ r[i] = [s[i] EXCEPT !.level = 1]
      BY <2>1, <1>1 DEF LooseStacks, Matches
    <3> QED  BY <3>1, Releveled DEF SameOrGone
  <2>2. CASE ~Matches(s[i], f, a)
    BY <2>2, <1>1 DEF LooseStacks, SameOrGone
  <2> QED  BY <2>1, <2>2
<1>3. r \in LooseStacks
  BY <1>2 DEF LooseStacks
<1>4. Raise(s, f, a) = Ranked(r)
  BY DEF Raise
<1> HIDE DEF r
<1>5. Ranked(r) \in Stacks /\ Shrunk(Ranked(r), r)
  BY <1>3, RankedKeeps
<1> QED
  BY <1>2, <1>4, <1>5 DEF Shrunk, SameOrGone

\* SET_STK finds a slot for a new entry: one of the highest level exists.
LEMMA VictimIsSlot ==
  ASSUME NEW s \in Stacks
  PROVE  Victim(s) \in Slots
<1> DEFINE empty == {i \in Slots : s[i] = Empty}
           highest == {i \in Slots : \A j \in Slots : s[j].level <= s[i].level}
           best == IF empty # {} THEN empty ELSE highest
<1>1. best # {}
  <2>1. CASE empty # {}
    BY <2>1
  <2>2. CASE empty = {}
    <3>1. MaxStack \in Nat \ {0}
      BY StackAssumption
    <3>2. \A i \in Slots : s[i].level \in 1 .. MaxStack + 1
      <4> SUFFICES ASSUME NEW i \in Slots PROVE s[i].level \in 1 .. MaxStack + 1
        OBVIOUS
      <4>1. s[i] \in Slot
        BY <2>2 DEF Stacks
      <4> QED  BY <4>1, SlotFields
    <3> DEFINE gaps == {MaxStack + 1 - s[i].level : i \in Slots}
    <3>3. gaps \in SUBSET Nat
      BY <3>1, <3>2
    <3>4. 1 \in Slots
      BY <3>1 DEF Slots
    <3>5. gaps # {}
      BY <3>4
    <3>6. PICK m \in gaps : \A n \in gaps : m <= n
      BY <3>3, <3>5, LeastElement
    <3>7. PICK i \in Slots : m = MaxStack + 1 - s[i].level
      BY <3>6
    <3>8. \A j \in Slots : MaxStack + 1 - s[i].level <= MaxStack + 1 - s[j].level
      BY <3>6, <3>7
    <3>9. \A j \in Slots : s[j].level <= s[i].level
      BY <3>8, <3>2, <3>1
    <3> QED  BY <3>9, <2>2
  <2> QED  BY <2>1, <2>2
<1>2. best \in SUBSET Nat /\ best \subseteq Slots
  BY DEF Slots
<1>3. \E i \in best : \A j \in best : i <= j
  BY <1>1, <1>2, LeastElement
<1>4. Victim(s) = CHOOSE i \in best : \A j \in best : i <= j
  BY DEF Victim
<1> HIDE DEF best
<1> QED
  BY <1>2, <1>3, <1>4

\* SET_STK puts the entry at one place; all others stay or are replaced by it.
LEMMA SetStackPuts ==
  ASSUME NEW s \in Stacks, NEW f \in Files, NEW a \in AllAddrs, NEW d \in Contents(a)
  PROVE  /\ SetStack(s, f, a, d) \in Stacks
         /\ \E p \in Slots : PutAt(SetStack(s, f, a, d), s, p, f, a, d)
<1> DEFINE new == [file |-> f, addr |-> a, type |-> TypeOf(a), level |-> 1, data |-> d]
           place == IF OnStack(s, f, a) THEN CHOOSE i \in Slots : Matches(s[i], f, a)
                    ELSE Victim(s)
           r == [i \in Slots |-> IF i = place THEN new
                                 ELSE IF s[i] = Empty THEN Empty
                                 ELSE [s[i] EXCEPT !.level = s[i].level + 1]]
<1>1. place \in Slots /\ (OnStack(s, f, a) => Matches(s[place], f, a))
  BY VictimIsSlot DEF OnStack
<1>2. SetStack(s, f, a, d) = Ranked(r)
  BY DEF SetStack
<1> HIDE DEF place
<1>3. new \in LooseSlot
  <2>1. new \in [file : Files, addr : {a}, type : {TypeOf(a)}, level : Nat, data : Contents(a)]
    OBVIOUS
  <2> QED  BY <2>1, SlotFields
<1>4. \A i \in Slots \ {place} : r[i] \in LooseSlot \cup {Empty} /\ SameOrGone(r[i], s[i])
  <2> SUFFICES ASSUME NEW i \in Slots \ {place}
               PROVE  r[i] \in LooseSlot \cup {Empty} /\ SameOrGone(r[i], s[i])
    OBVIOUS
  <2>1. CASE s[i] = Empty
    BY <2>1 DEF SameOrGone
  <2>2. CASE s[i] # Empty
    <3>1. s[i] \in LooseSlot
      BY <2>2, SlotIsLoose DEF LooseStacks
    <3>2. s[i].level + 1 \in Nat
      BY <3>1, SlotFields
    <3>3. r[i] = [s[i] EXCEPT !.level = s[i].level + 1]
      BY <2>2
    <3> QED  BY <3>1, <3>2, <3>3, <2>2, Releveled DEF SameOrGone
  <2> QED  BY <2>1, <2>2
<1>5. r[place] = new
  BY <1>1
<1>6. r \in LooseStacks
  BY <1>3, <1>4, <1>5 DEF LooseStacks
<1>7. new.file = f /\ new.addr = a /\ new.type = TypeOf(a) /\ new.data = d
  OBVIOUS
<1> HIDE DEF r, new
<1>8. Ranked(r) \in Stacks /\ Shrunk(Ranked(r), r)
  BY <1>6, RankedKeeps
<1>9. PutAt(Ranked(r), s, place, f, a, d)
  <2>1. SameOrGone(Ranked(r)[place], new)
    BY <1>1, <1>5, <1>8 DEF Shrunk
  <2>2. \A i \in Slots \ {place} : SameOrGone(Ranked(r)[i], s[i])
    BY <1>4, <1>8 DEF Shrunk, SameOrGone
  <2> QED
    BY <2>1, <2>2, <1>1, <1>7 DEF PutAt, SameOrGone
<1> QED
  BY <1>1, <1>2, <1>8, <1>9

-----------------------------------------------------------------------------
(* The invariant.                                                          *)

\* Copy `data' of address a agrees with the chunks of the file, n entries of
\* whose table count.  Of the file header the end of file alone: the rest is
\* written around the stack (ADFI_write_modification_date).
Agrees(data, a, chunks, n) ==
  IF a = Header THEN data.eof = chunks[Header].eof
  ELSE data = chunks[a] /\ (a \in Nat => a <= n)

Once(s) ==
  \A i, j \in Slots : i # j /\ s[i] # Empty => ~Matches(s[j], s[i].file, s[i].addr)

OfOpenFiles(s, o) == \A i \in Slots : s[i] # Empty => s[i].file \in o

\* An entry behind the last that counts has no copy: AddEntry, which writes it
\* around the stack, relies on it.
Current(s, d, c, u) ==
  \A i \in Slots : s[i] # Empty =>
    /\ s[i].addr \in Addrs(s[i].file)
    /\ <<s[i].file, s[i].addr>> \notin u =>
         Agrees(s[i].data, s[i].addr, d[s[i].file], c[s[i].file])

StackOK(s, o, d, c, u) == s \in Stacks /\ Once(s) /\ OfOpenFiles(s, o) /\ Current(s, d, c, u)

\* Nothing else than chunk a of file f changes on disk or becomes sure.
OnlyAt(f, a, d1, u1, d2, u2) ==
  \A g \in Files : \A b \in Addrs(g) : <<g, b>> # <<f, a>> =>
    d2[g][b] = d1[g][b] /\ (<<g, b>> \in u1 => <<g, b>> \in u2)

\* The contents of the files are functions of the addresses.
Shape ==
  /\ disk = [f \in Files |-> [a \in Addrs(f) |-> disk[f][a]]]
  /\ count = [f \in Files |-> count[f]]

StackInv == TypeOK /\ Shape /\ StackOK(stack, open, disk, count, unsure)

\* The addresses of a file: its header, its nodes, and the numbers of its entries.
LEMMA AddrFacts ==
  ASSUME NEW f \in Files
  PROVE  /\ Addrs(f) \subseteq AllAddrs /\ Header \in Addrs(f) /\ Header \notin Nat
         /\ Header \notin NodeAddrs[f] /\ NodeAddrs[f] \cap Nat = {}
         /\ MaxEntries[f] \in Nat
         /\ \A a \in Nat : a \in Addrs(f) <=> a \in 1 .. MaxEntries[f]
         /\ \A a \in Addrs(f) : a # Header /\ a \notin Nat => a \in NodeAddrs[f]
BY StackAssumption DEF Addrs, AllAddrs, EntryAddrs

\* A stack that only lost entries is as good as it was.
LEMMA ShrunkOK ==
  ASSUME NEW s, NEW t \in Stacks, NEW o, NEW d, NEW c, NEW u,
         StackOK(s, o, d, c, u), Shrunk(t, s)
  PROVE  StackOK(t, o, d, c, u)
<1>1. Once(t)
  BY DEF StackOK, Shrunk, SameOrGone, Once, Matches
<1>2. OfOpenFiles(t, o)
  BY DEF StackOK, Shrunk, SameOrGone, OfOpenFiles
<1>3. Current(t, d, c, u)
  BY DEF StackOK, Shrunk, SameOrGone, Current
<1> QED
  BY <1>1, <1>2, <1>3 DEF StackOK

\* Putting data on the stack that agrees with what the chunk will hold, when
\* nothing else on disk changes and no other place becomes sure.
LEMMA PutOK ==
  ASSUME NEW s, NEW o \in SUBSET Files, NEW d1, NEW d2, NEW c, NEW u1, NEW u2,
         StackOK(s, o, d1, c, u1),
         NEW f \in o, NEW a \in Addrs(f), NEW x \in Contents(a),
         OnlyAt(f, a, d1, u1, d2, u2),
         <<f, a>> \notin u2 => Agrees(x, a, d2[f], c[f])
  PROVE  StackOK(SetStack(s, f, a, x), o, d2, c, u2)
<1> DEFINE t == SetStack(s, f, a, x)
<1>1. f \in Files /\ a \in AllAddrs /\ s \in Stacks
  BY AddrFacts DEF StackOK
<1>2. t \in Stacks /\ \E p \in Slots : PutAt(t, s, p, f, a, x)
  BY <1>1, SetStackPuts
<1>3. PICK p \in Slots : PutAt(t, s, p, f, a, x)
  BY <1>2
<1> HIDE DEF t
<1>4. \A i \in Slots \ {p} : t[i] # Empty => ~Matches(t[i], f, a)
  <2> SUFFICES ASSUME NEW i \in Slots \ {p}, Matches(t[i], f, a) PROVE FALSE
    OBVIOUS
  <2>1. Matches(s[i], f, a)
    BY <1>3 DEF PutAt, SameOrGone, Matches
  <2>2. Matches(s[p], f, a)
    BY <1>3, <2>1 DEF PutAt, OnStack
  <2> QED
    BY <2>1, <2>2 DEF StackOK, Once, Matches
<1>5. Once(t)
  <2> SUFFICES ASSUME NEW i \in Slots, NEW j \in Slots, i # j, t[i] # Empty,
                      Matches(t[j], t[i].file, t[i].addr)
               PROVE  FALSE
    BY DEF Once
  <2>1. CASE i = p
    BY <2>1, <1>3, <1>4 DEF PutAt, Matches
  <2>2. CASE j = p
    BY <2>2, <1>3, <1>4 DEF PutAt, Matches
  <2>3. CASE i # p /\ j # p
    BY <2>3, <1>3 DEF PutAt, SameOrGone, StackOK, Once, Matches
  <2> QED
    BY <2>1, <2>2, <2>3
<1>6. OfOpenFiles(t, o)
  BY <1>3 DEF PutAt, SameOrGone, StackOK, OfOpenFiles
<1>7. Current(t, d2, c, u2)
  <2> SUFFICES ASSUME NEW i \in Slots, t[i] # Empty
               PROVE  /\ t[i].addr \in Addrs(t[i].file)
                      /\ <<t[i].file, t[i].addr>> \notin u2 =>
                           Agrees(t[i].data, t[i].addr, d2[t[i].file], c[t[i].file])
    BY DEF Current
  <2>1. CASE i = p
    BY <2>1, <1>3 DEF PutAt
  <2>2. CASE i # p
    <3>1. /\ s[i] # Empty /\ t[i].file = s[i].file /\ t[i].addr = s[i].addr
          /\ t[i].data = s[i].data
      BY <2>2, <1>3 DEF PutAt, SameOrGone
    <3> DEFINE g == s[i].file
               b == s[i].addr
    <3>2. <<g, b>> # <<f, a>>
      BY <2>2, <1>4, <3>1 DEF Matches
    <3>3. g \in Files /\ b \in Addrs(g)
      BY <3>1 DEF StackOK, OfOpenFiles, Current
    <3>4. d2[g][b] = d1[g][b] /\ (<<g, b>> \notin u2 => <<g, b>> \notin u1)
      BY <3>2, <3>3 DEF OnlyAt
    <3>5. <<g, b>> \notin u1 => Agrees(s[i].data, b, d1[g], c[g])
      BY <3>1 DEF StackOK, Current
    <3> QED
      BY <3>1, <3>3, <3>4, <3>5 DEF Agrees
  <2> QED
    BY <2>1, <2>2
<1> QED
  BY <1>2, <1>5, <1>6, <1>7 DEF StackOK, t

\* What a read is served is typed, and is what is on disk where no write failed.
LEMMA ServedFacts ==
  ASSUME StackInv, NEW f \in open, NEW a \in Addrs(f)
  PROVE  /\ Served(f, a) \in Contents(a)
         /\ disk[f][a] \in Contents(a)
         /\ <<f, a>> \notin unsure /\ (a \in Nat => a <= count[f]) =>
              Agrees(Served(f, a), a, disk[f], count[f])
<1>1. f \in Files /\ disk[f][a] \in Contents(a)
  BY DEF StackInv, TypeOK
<1>2. CASE ~OnStack(stack, f, a)
  BY <1>1, <1>2 DEF Served, Agrees
<1>3. CASE OnStack(stack, f, a)
  <2>1. PICK i \in Slots : Matches(stack[i], f, a) /\ Served(f, a) = stack[i].data
    BY <1>3 DEF OnStack, Served, Copy
  <2>2. stack[i] # Empty /\ stack[i].file = f /\ stack[i].addr = a /\ stack[i] \in Slot
    BY <2>1 DEF Matches, StackInv, StackOK, Stacks
  <2>3. stack[i].data \in Contents(a)
    BY <2>2, SlotFields
  <2> QED
    BY <1>1, <2>1, <2>2, <2>3 DEF StackInv, StackOK, Current
<1> QED
  BY <1>2, <1>3

\* Reading through the stack keeps the invariant of the stack.
LEMMA ReadThroughOK ==
  ASSUME StackInv, NEW f \in open, NEW a \in Addrs(f), a \in Nat => a <= count[f]
  PROVE  StackOK(ReadThrough(stack, f, a), open, disk, count, unsure)
<1>1. open \in SUBSET Files /\ disk[f][a] \in Contents(a) /\ stack \in Stacks
  BY ServedFacts DEF StackInv, TypeOK, StackOK
<1>2. StackOK(stack, open, disk, count, unsure)
  BY DEF StackInv
<1>3. CASE OnStack(stack, f, a)
  <2>1. Raise(stack, f, a) \in Stacks /\ Shrunk(Raise(stack, f, a), stack)
    BY <1>1, RaiseKeeps
  <2>2. StackOK(Raise(stack, f, a), open, disk, count, unsure)
    BY <1>2, <2>1, ShrunkOK
  <2> QED
    BY <1>3, <2>2 DEF ReadThrough
<1>4. CASE ~OnStack(stack, f, a)
  <2>1. Agrees(disk[f][a], a, disk[f], count[f])
    BY DEF Agrees
  <2>2. StackOK(SetStack(stack, f, a, disk[f][a]), open, disk, count, unsure)
    BY <1>1, <1>2, <2>1, PutOK DEF OnlyAt
  <2> QED
    BY <1>4, <2>2 DEF ReadThrough
<1> QED
  BY <1>3, <1>4

-----------------------------------------------------------------------------
(* The steps.                                                              *)

\* The parts of the invariant that are not about the stack.
DiskOK(d) ==
  /\ d = [f \in Files |-> [a \in Addrs(f) |-> d[f][a]]]
  /\ \A f \in Files : \A a \in Addrs(f) : d[f][a] \in Contents(a)

CountOK(c) == c = [f \in Files |-> c[f]] /\ \A f \in Files : c[f] \in 0 .. MaxEntries[f]

SetsOK(o, up, upg, u) ==
  o \subseteq Files /\ up \subseteq o /\ upg \subseteq o /\ u \subseteq o \X AllAddrs

\* The invariant, by the variables it speaks of.
LEMMA InvParts ==
  StackInv <=> /\ DiskOK(disk) /\ CountOK(count) /\ SetsOK(open, update, upgraded, unsure)
               /\ StackOK(stack, open, disk, count, unsure)
BY DEF StackInv, TypeOK, Shape, DiskOK, CountOK, SetsOK, StackOK, Stacks

\* The same after a step.
LEMMA InvPartsNext ==
  StackInv' <=> /\ DiskOK(disk') /\ CountOK(count')
                /\ SetsOK(open', update', upgraded', unsure')
                /\ StackOK(stack', open', disk', count', unsure')
BY DEF StackInv, TypeOK, Shape, DiskOK, CountOK, SetsOK, StackOK, Stacks

\* A write through the stack: it fails or not, the copy is as the disk or unsure.
LEMMA WriteFromOK ==
  ASSUME StackInv, NEW f \in open, NEW a \in Addrs(f), NEW x \in Contents(a),
         a \in Nat => a <= count[f],
         NEW s, StackOK(s, open, disk, count, unsure), WriteFrom(s, f, a, x)
  PROVE  /\ StackOK(stack', open, disk', count, unsure')
         /\ DiskOK(disk') /\ unsure' \subseteq open \X AllAddrs
<1>1. open \in SUBSET Files /\ f \in Files /\ a \in AllAddrs
      /\ unsure \subseteq open \X AllAddrs /\ DiskOK(disk)
  BY InvParts, AddrFacts DEF SetsOK
<1>2. stack' = SetStack(s, f, a, x)
  BY DEF WriteFrom
<1>3. CASE disk' = [disk EXCEPT ![f][a] = x] /\ unsure' = unsure \ {<<f, a>>}
  <2>1. /\ DiskOK(disk') /\ disk'[f][a] = x
        /\ \A g \in Files : \A b \in Addrs(g) : <<g, b>> # <<f, a>> => disk'[g][b] = disk[g][b]
    BY <1>1, <1>3 DEF DiskOK
  <2>2. Agrees(x, a, disk'[f], count[f])
    BY <2>1 DEF Agrees
  <2>3. OnlyAt(f, a, disk, unsure, disk', unsure')
    BY <2>1, <1>3 DEF OnlyAt
  <2>4. StackOK(SetStack(s, f, a, x), open, disk', count, unsure')
    BY <1>1, <2>2, <2>3, PutOK
  <2> QED
    BY <1>1, <1>2, <1>3, <2>1, <2>4
<1>4. CASE disk' = disk /\ unsure' = unsure \cup {<<f, a>>}
  <2>1. StackOK(SetStack(s, f, a, x), open, disk', count, unsure')
    BY <1>1, <1>4, PutOK DEF OnlyAt
  <2> QED
    BY <1>1, <1>2, <1>4, <2>1
<1> QED
  BY <1>3, <1>4 DEF WriteFrom

\* A read through the stack serves the copy, or adds one that is as the disk.
LEMMA ReadStep ==
  ASSUME StackInv, NEW f \in Files, NEW a \in AllAddrs, Read(f, a)
  PROVE  StackInv'
<1>1. StackOK(stack', open, disk, count, unsure)
  BY ReadThroughOK DEF Read
<1> QED
  BY <1>1, InvParts, InvPartsNext DEF Read

\* The action Write keeps the invariant.
LEMMA WriteStep ==
  ASSUME StackInv, NEW f \in Files, NEW a \in AllAddrs \ {Header}, NEW v \in Values, Write(f, a, v)
  PROVE  StackInv'
<1>1. v \in Contents(a)
  BY DEF Contents
<1>2. f \in open /\ a \in Addrs(f) /\ (a \in Nat => a <= count[f]) /\ WriteFrom(stack, f, a, v)
  BY DEF Write
<1>3. StackOK(stack', open, disk', count, unsure') /\ DiskOK(disk')
      /\ unsure' \subseteq open \X AllAddrs
  BY <1>1, <1>2, WriteFromOK, InvParts
<1> QED
  BY <1>3, InvParts, InvPartsNext DEF Write, SetsOK

\* ADFI_file_malloc and ADF_Database_Set_Format write back the header they read.
LEMMA HeaderStep ==
  ASSUME StackInv, NEW f \in Files, Malloc(f) \/ \E d \in Dates : SetFormat(f, d)
  PROVE  StackInv'
<1>1. f \in open /\ Header \in Addrs(f) /\ Header \notin Nat
  BY AddrFacts DEF Malloc, SetFormat
<1>2. Served(f, Header) \in FileHeader
  BY <1>1, ServedFacts DEF Contents
<1>3. PICK h \in FileHeader : WriteFrom(ReadThrough(stack, f, Header), f, Header, h)
  <2>1. CASE Malloc(f)
    <3>1. [Served(f, Header) EXCEPT !.eof = Served(f, Header).eof + 1] \in FileHeader
      BY <1>2, <2>1, StackAssumption DEF FileHeader, Malloc
    <3> QED  BY <2>1, <3>1 DEF Malloc
  <2>2. ASSUME NEW d \in Dates, SetFormat(f, d)
        PROVE  \E h \in FileHeader : WriteFrom(ReadThrough(stack, f, Header), f, Header, h)
    <3>1. [Served(f, Header) EXCEPT !.date = d] \in FileHeader
      BY <1>2 DEF FileHeader
    <3> QED  BY <2>2, <3>1 DEF SetFormat
  <2> QED  BY <2>1, <2>2
<1>4. h \in Contents(Header)
  BY DEF Contents
<1>5. StackOK(ReadThrough(stack, f, Header), open, disk, count, unsure)
  BY <1>1, ReadThroughOK
<1>6. StackOK(stack', open, disk', count, unsure') /\ DiskOK(disk')
      /\ unsure' \subseteq open \X AllAddrs
  BY <1>1, <1>3, <1>4, <1>5, WriteFromOK
<1> QED
  BY <1>6, InvParts, InvPartsNext DEF Malloc, SetFormat, SetsOK

\* The action FreeNode keeps the invariant.
LEMMA FreeNodeStep ==
  ASSUME StackInv, NEW f \in Files, NEW n \in AllAddrs \ {Header}, FreeNode(f, n)
  PROVE  StackInv'
<1>1. f \in open /\ n \in Addrs(f) /\ n \notin Nat /\ n # Header
  BY AddrFacts DEF FreeNode, Addrs
<1>2. Freed \in Contents(n)
  BY <1>1 DEF Contents
<1>3. /\ DiskOK(disk')
      /\ \A g \in Files : \A b \in Addrs(g) : <<g, b>> # <<f, n>> => disk'[g][b] = disk[g][b]
  BY <1>1, <1>2, InvParts DEF FreeNode, DiskOK
<1>4. Delete(stack, f, n) \in Stacks /\ Shrunk(Delete(stack, f, n), stack)
  BY InvParts DEF StackOK, Delete, Shrunk, SameOrGone, Stacks
<1>5. StackOK(stack', open, disk, count, unsure)
  BY <1>4, ShrunkOK, InvParts DEF FreeNode
<1>6. \A i \in Slots : stack'[i] # Empty => <<stack'[i].file, stack'[i].addr>> # <<f, n>>
  BY DEF FreeNode, Delete, Matches
<1>7. Current(stack', disk', count, unsure)
  <2> SUFFICES ASSUME NEW i \in Slots, stack'[i] # Empty
               PROVE  LET g == stack'[i].file
                          b == stack'[i].addr
                      IN /\ b \in Addrs(g)
                         /\ <<g, b>> \notin unsure => Agrees(stack'[i].data, b, disk'[g], count[g])
    BY DEF Current
  <2> DEFINE g == stack'[i].file
             b == stack'[i].addr
  <2>1. g \in Files /\ b \in Addrs(g) /\ <<g, b>> # <<f, n>>
    BY <1>5, <1>6, InvParts DEF StackOK, OfOpenFiles, Current, SetsOK
  <2>2. disk'[g][b] = disk[g][b]
    BY <1>3, <2>1
  <2>3. <<g, b>> \notin unsure => Agrees(stack'[i].data, b, disk[g], count[g])
    BY <1>5 DEF StackOK, Current
  <2> QED  BY <2>1, <2>2, <2>3 DEF Agrees
<1>8. StackOK(stack', open, disk', count, unsure)
  BY <1>5, <1>7 DEF StackOK
<1> QED
  BY <1>3, <1>8, InvParts, InvPartsNext DEF FreeNode

\* The date and the version are written around the stack: the end of the file,
\* which the copy is used for, stays.
LEMMA DateStep ==
  ASSUME StackInv, NEW f \in Files, NEW d \in Dates, ModificationDate(f, d)
  PROVE  StackInv'
<1> DEFINE h == disk[f][Header]
<1>1. f \in open /\ DiskOK(disk) /\ Header \in Addrs(f) /\ h \in FileHeader
  BY InvParts, AddrFacts, ServedFacts DEF ModificationDate, Contents
<1>2. PICK k \in FileHeader : disk' = [disk EXCEPT ![f][Header] = k] /\ k.eof = h.eof
  <2> DEFINE k == [[h EXCEPT !.date = d] EXCEPT !.old = h.old /\ f \notin update]
  <2>1. (h.old /\ f \notin update) \in BOOLEAN
    OBVIOUS
  <2>2. k \in FileHeader /\ k.eof = h.eof
    BY <1>1, <2>1 DEF FileHeader
  <2>3. disk' = [disk EXCEPT ![f][Header] = k]
    BY <1>1 DEF ModificationDate, DiskOK, FileHeader
  <2> QED  BY <2>2, <2>3
<1> HIDE DEF h
<1>3. DiskOK(disk')
  <2>1. k \in Contents(Header)
    BY DEF Contents
  <2> QED  BY <1>1, <1>2, <2>1 DEF DiskOK
<1>4. \A g \in Files : /\ disk'[g][Header].eof = disk[g][Header].eof
                       /\ \A b \in Addrs(g) \ {Header} : disk'[g][b] = disk[g][b]
  BY <1>1, <1>2, AddrFacts DEF DiskOK, h
<1>5. Current(stack, disk', count, unsure)
  <2>1. StackOK(stack, open, disk, count, unsure) /\ open \subseteq Files
    BY InvParts DEF SetsOK
  <2> QED
    BY <1>4, <2>1 DEF StackOK, OfOpenFiles, Current, Agrees
<1>6. StackOK(stack, open, disk', count, unsure)
  BY <1>5, InvParts DEF StackOK
<1> QED
  BY <1>3, <1>6, InvParts, InvPartsNext DEF ModificationDate, SetsOK

\* The entry behind the last one has no copy.
LEMMA AddStep ==
  ASSUME StackInv, NEW f \in Files, NEW v \in Values, AddEntry(f, v)
  PROVE  StackInv'
<1> DEFINE a == count[f] + 1
<1>1. f \in open /\ DiskOK(disk) /\ CountOK(count) /\ SetsOK(open, update, upgraded, unsure)
      /\ StackOK(stack, open, disk, count, unsure)
  BY InvParts DEF AddEntry
<1>2. a \in Nat /\ a \in Addrs(f) /\ a # Header /\ a \in 1 .. MaxEntries[f]
  BY <1>1, AddrFacts DEF CountOK, AddEntry
<1>3. v \in Contents(a)
  BY <1>2 DEF Contents
<1>4. DiskOK(disk') /\ CountOK(count')
  <2>1. disk' = [disk EXCEPT ![f][a] = v]
    BY DEF AddEntry
  <2>2. count' = [count EXCEPT ![f] = a]
    BY DEF AddEntry
  <2> HIDE DEF a
  <2>3. DiskOK(disk')
    BY <2>1, <1>1, <1>2, <1>3 DEF DiskOK
  <2>4. CountOK(count')
    BY <2>2, <1>1, <1>2, AddrFacts DEF CountOK
  <2> QED  BY <2>3, <2>4
<1>5. Current(stack, disk', count', unsure)
  <2> SUFFICES ASSUME NEW i \in Slots, stack[i] # Empty,
                      <<stack[i].file, stack[i].addr>> \notin unsure
               PROVE  Agrees(stack[i].data, stack[i].addr, disk'[stack[i].file],
                             count'[stack[i].file])
    BY <1>1 DEF StackOK, Current
  <2> DEFINE g == stack[i].file
             b == stack[i].addr
  <2>1. g \in Files /\ b \in Addrs(g) /\ Agrees(stack[i].data, b, disk[g], count[g])
    BY <1>1 DEF StackOK, Current, OfOpenFiles, SetsOK
  <2>2. <<g, b>> # <<f, a>>
    BY <2>1, <1>1, <1>2 DEF Agrees, CountOK
  <2>3. disk'[g][b] = disk[g][b]
    BY <2>1, <2>2, <1>1, <1>2 DEF DiskOK, AddEntry
  <2>4. count'[g] = count[g] \/ (g = f /\ count'[g] = count[g] + 1)
    BY <2>1, <1>1 DEF CountOK, AddEntry
  <2>5. count[g] \in Nat
    BY <2>1, <1>1, AddrFacts DEF CountOK
  <2> HIDE DEF g, b
  <2> QED  BY <2>1, <2>3, <2>4, <2>5 DEF Agrees, g, b
<1> QED
  BY <1>1, <1>4, <1>5, InvPartsNext DEF AddEntry, StackOK

\* Clearing the entries of one type leaves none of the file.
LEMMA ClearTypeFacts ==
  ASSUME NEW f \in Files, StackOK(stack, open, disk, count, unsure)
  PROVE  LET t == ClearType(stack, f, "SUBNODE_STK")
         IN /\ t \in Stacks /\ Shrunk(t, stack)
            /\ \A i \in Slots : t[i] # Empty /\ t[i].file = f => t[i].addr \notin Nat
<1> DEFINE t == ClearType(stack, f, "SUBNODE_STK")
<1>1. t \in Stacks /\ Shrunk(t, stack)
  BY DEF StackOK, ClearType, Shrunk, SameOrGone, Stacks
<1>2. ASSUME NEW i \in Slots, t[i] # Empty, t[i].file = f
      PROVE  t[i].addr \notin Nat
  <2>1. t[i] = stack[i] /\ stack[i].type # "SUBNODE_STK" /\ stack[i] \in Slot
    BY <1>2 DEF ClearType, OfFile, StackOK, Stacks
  <2>2. stack[i].type = TypeOf(stack[i].addr)
    BY <2>1, SlotFields
  <2>3. stack[i].addr \in Nat => stack[i].addr # Header
    BY AddrFacts
  <2> QED  BY <2>1, <2>2, <2>3 DEF TypeOf
<1> QED
  BY <1>1, <1>2

\* The table with the hole closed is a table.
LEMMA RewrittenFacts ==
  ASSUME StackInv, NEW f \in open, NEW hole \in AllAddrs \cap Nat, hole <= count[f]
  PROVE  /\ hole \in 1 .. count[f] /\ count[f] \in 1 .. MaxEntries[f]
         /\ disk' = [disk EXCEPT ![f] = Rewritten(f, hole)] =>
              /\ DiskOK(disk')
              /\ \A g \in Files : \A b \in Addrs(g) :
                   g # f \/ b \notin Nat => disk'[g][b] = disk[g][b]
<1>1. f \in Files /\ DiskOK(disk) /\ CountOK(count)
  BY InvParts DEF SetsOK
<1>2. PICK file \in Files : hole \in Addrs(file)
  BY DEF AllAddrs
<1>3. hole \in Nat /\ 1 <= hole
  BY <1>2, AddrFacts
<1>4. hole \in 1 .. count[f] /\ count[f] \in 1 .. MaxEntries[f]
  BY <1>1, <1>3, AddrFacts DEF CountOK
<1>5. MaxEntries[f] \in Nat
  BY <1>1, AddrFacts
<1>6. \A a \in Addrs(f) : /\ Rewritten(f, hole)[a] \in Contents(a)
                          /\ a \notin Nat => Rewritten(f, hole)[a] = disk[f][a]
  <2> SUFFICES ASSUME NEW a \in Addrs(f)
               PROVE  /\ Rewritten(f, hole)[a] \in Contents(a)
                      /\ a \notin Nat => Rewritten(f, hole)[a] = disk[f][a]
    OBVIOUS
  <2>1. CASE a \notin hole .. count[f]
    BY <2>1, <1>1, <1>3, <1>4 DEF Rewritten, DiskOK
  <2>2. CASE a \in hole .. count[f] /\ a < count[f]
    <3>1. a \in Nat /\ a + 1 \in Nat /\ a + 1 \in Addrs(f)
      BY <2>2, <1>1, <1>3, <1>4, AddrFacts
    <3>2. disk[f][a + 1] \in Contents(a)
      BY <3>1, <1>1, AddrFacts DEF DiskOK, Contents
    <3> QED  BY <2>2, <3>1, <3>2 DEF Rewritten
  <2>3. CASE a \in hole .. count[f] /\ ~(a < count[f])
    <3>1. a \in Nat /\ a # Header
      BY <2>3, <1>3, <1>4, <1>1, AddrFacts
    <3> QED  BY <2>3, <3>1 DEF Rewritten, Contents
  <2> QED  BY <2>1, <2>2, <2>3
<1>7. Rewritten(f, hole) = [a \in Addrs(f) |-> Rewritten(f, hole)[a]]
  BY DEF Rewritten
<1>8. ASSUME disk' = [disk EXCEPT ![f] = Rewritten(f, hole)]
      PROVE  /\ DiskOK(disk')
             /\ \A g \in Files : \A b \in Addrs(g) :
                  g # f \/ b \notin Nat => disk'[g][b] = disk[g][b]
  <2>1. disk'[f] = Rewritten(f, hole) /\ \A g \in Files \ {f} : disk'[g] = disk[g]
    BY <1>8, <1>1 DEF DiskOK
  <2> QED  BY <2>1, <1>1, <1>6, <1>7, <1>8 DEF DiskOK
<1> QED
  BY <1>4, <1>8

\* The action DeleteEntry keeps the invariant.
LEMMA DeleteEntryStep ==
  ASSUME StackInv, NEW f \in Files, NEW hole \in AllAddrs \cap Nat, DeleteEntry(f, hole)
  PROVE  StackInv'
<1>1. f \in open /\ hole <= count[f] /\ CountOK(count) /\ SetsOK(open, update, upgraded, unsure)
      /\ StackOK(stack, open, disk, count, unsure)
  BY InvParts DEF DeleteEntry
<1>2. /\ count[f] \in 1 .. MaxEntries[f] /\ DiskOK(disk')
      /\ \A g \in Files : \A b \in Addrs(g) : g # f \/ b \notin Nat => disk'[g][b] = disk[g][b]
  BY <1>1, RewrittenFacts DEF DeleteEntry
<1>3. CountOK(count') /\ \A g \in Files \ {f} : count'[g] = count[g]
  BY <1>1, <1>2, AddrFacts DEF CountOK, DeleteEntry
<1>4. /\ stack' \in Stacks /\ Shrunk(stack', stack)
      /\ \A i \in Slots : stack'[i] # Empty /\ stack'[i].file = f => stack'[i].addr \notin Nat
  BY <1>1, ClearTypeFacts DEF DeleteEntry
<1>5. StackOK(stack', open, disk, count, unsure)
  BY <1>1, <1>4, ShrunkOK
<1>6. Current(stack', disk', count', unsure)
  <2> SUFFICES ASSUME NEW i \in Slots, stack'[i] # Empty,
                      <<stack'[i].file, stack'[i].addr>> \notin unsure
               PROVE  Agrees(stack'[i].data, stack'[i].addr, disk'[stack'[i].file],
                             count'[stack'[i].file])
    BY <1>5 DEF StackOK, Current
  <2> DEFINE g == stack'[i].file
             b == stack'[i].addr
  <2>1. g \in Files /\ b \in Addrs(g) /\ Agrees(stack'[i].data, b, disk[g], count[g])
    BY <1>1, <1>5 DEF StackOK, Current, OfOpenFiles, SetsOK
  <2>2. g # f \/ b \notin Nat
    BY <1>4
  <2>3. disk'[g][b] = disk[g][b] /\ (b \in Nat => count'[g] = count[g])
    BY <1>2, <1>3, <2>1, <2>2
  <2> HIDE DEF g, b
  <2> QED  BY <2>1, <2>3 DEF Agrees, g, b
<1> QED
  BY <1>1, <1>2, <1>3, <1>5, <1>6, InvPartsNext DEF DeleteEntry, StackOK

\* Every entry of the table is unsure after a failure.
LEMMA DeleteEntryFailsStep ==
  ASSUME StackInv, NEW f \in Files, NEW hole \in AllAddrs \cap Nat, DeleteEntryFails(f, hole)
  PROVE  StackInv'
<1>1. f \in open /\ hole <= count[f] /\ CountOK(count) /\ SetsOK(open, update, upgraded, unsure)
      /\ StackOK(stack, open, disk, count, unsure)
  BY InvParts DEF DeleteEntryFails
<1>2. /\ DiskOK(disk')
      /\ \A g \in Files : \A b \in Addrs(g) : g # f \/ b \notin Nat => disk'[g][b] = disk[g][b]
  BY <1>1, RewrittenFacts DEF DeleteEntryFails
<1>3. /\ \A x : x \notin unsure' => x \notin unsure
      /\ \A b \in Addrs(f) : b \in Nat => <<f, b>> \in unsure'
  BY AddrFacts DEF DeleteEntryFails, EntryAddrs
<1>4. SetsOK(open, update, upgraded, unsure')
  BY <1>1 DEF SetsOK, DeleteEntryFails, AllAddrs, Addrs
<1>5. Current(stack, disk', count, unsure')
  <2> SUFFICES ASSUME NEW i \in Slots, stack[i] # Empty,
                      <<stack[i].file, stack[i].addr>> \notin unsure'
               PROVE  Agrees(stack[i].data, stack[i].addr, disk'[stack[i].file],
                             count[stack[i].file])
    BY <1>1 DEF StackOK, Current
  <2> DEFINE g == stack[i].file
             b == stack[i].addr
  <2>1. g \in Files /\ b \in Addrs(g) /\ Agrees(stack[i].data, b, disk[g], count[g])
    BY <1>1, <1>3 DEF StackOK, Current, OfOpenFiles, SetsOK
  <2>2. g # f \/ b \notin Nat
    BY <1>3, <2>1
  <2>3. disk'[g][b] = disk[g][b]
    BY <1>2, <2>1, <2>2
  <2> HIDE DEF g, b
  <2> QED  BY <2>1, <2>3 DEF Agrees, g, b
<1> QED
  BY <1>1, <1>2, <1>4, <1>5, InvPartsNext DEF DeleteEntryFails, StackOK

\* The action FreeTable keeps the invariant.
LEMMA FreeTableStep ==
  ASSUME StackInv, NEW f \in Files, FreeTable(f)
  PROVE  StackInv'
<1>1. StackOK(stack', open, disk, count, unsure)
  BY ClearTypeFacts, ShrunkOK, InvParts DEF FreeTable
<1> QED
  BY <1>1, InvParts, InvPartsNext DEF FreeTable

\* What ADF_Database_Open finds has the types of chunks, and the header it reads
\* is the first copy of the file: there is none left of an earlier one.
LEMMA OpenStep ==
  ASSUME StackInv, NEW f \in Files, Open(f)
  PROVE  StackInv'
<1>1. PICK header \in FileHeader, nodes \in [NodeAddrs[f] -> Values \cup {Freed}],
           n \in 0 .. MaxEntries[f] :
        \E entries \in [1 .. n -> Values] :
          /\ disk' = [disk EXCEPT ![f] = [a \in Addrs(f) |->
                        IF a = Header THEN header ELSE IF a \notin Nat THEN nodes[a]
                        ELSE IF a <= n THEN entries[a] ELSE Unused]]
          /\ count' = [count EXCEPT ![f] = n]
          /\ update' = IF header.old THEN update \cup {f} ELSE update
          /\ stack' = IF OnStack(stack, f, Header) THEN Raise(stack, f, Header)
                      ELSE SetStack(stack, f, Header, header)
  BY DEF Open
<1>2. PICK entries \in [1 .. n -> Values] :
          /\ disk' = [disk EXCEPT ![f] = [a \in Addrs(f) |->
                        IF a = Header THEN header ELSE IF a \notin Nat THEN nodes[a]
                        ELSE IF a <= n THEN entries[a] ELSE Unused]]
          /\ count' = [count EXCEPT ![f] = n]
          /\ update' = IF header.old THEN update \cup {f} ELSE update
          /\ stack' = IF OnStack(stack, f, Header) THEN Raise(stack, f, Header)
                      ELSE SetStack(stack, f, Header, header)
  BY <1>1
<1> DEFINE chunks == [a \in Addrs(f) |->
                        IF a = Header THEN header ELSE IF a \notin Nat THEN nodes[a]
                        ELSE IF a <= n THEN entries[a] ELSE Unused]
<1>3. /\ DiskOK(disk) /\ CountOK(count) /\ SetsOK(open, update, upgraded, unsure)
      /\ StackOK(stack, open, disk, count, unsure)
      /\ f \notin open /\ open' = open \cup {f}
  BY InvParts DEF Open
<1>4. \A a \in Addrs(f) : chunks[a] \in Contents(a)
  <2> SUFFICES ASSUME NEW a \in Addrs(f) PROVE chunks[a] \in Contents(a)
    OBVIOUS
  <2>1. CASE a = Header
    BY <2>1 DEF Contents
  <2>2. CASE a # Header /\ a \notin Nat
    <3>1. a \in NodeAddrs[f]
      BY <2>2, AddrFacts
    <3>2. chunks[a] = nodes[a]
      BY <2>2
    <3> QED  BY <2>2, <3>1, <3>2 DEF Contents
  <2>3. CASE a # Header /\ a \in Nat
    <3>1. a \in 1 .. MaxEntries[f] /\ MaxEntries[f] \in Nat
      BY <2>3, AddrFacts
    <3>2. a <= n => entries[a] \in Values
      BY <3>1
    <3>3. chunks[a] = IF a <= n THEN entries[a] ELSE Unused
      BY <2>3
    <3> QED  BY <2>3, <3>2, <3>3 DEF Contents
  <2> QED  BY <2>1, <2>2, <2>3
<1>5. chunks = [a \in Addrs(f) |-> chunks[a]] /\ chunks[Header] = header
  BY AddrFacts
<1>6. disk' = [disk EXCEPT ![f] = chunks]
  BY <1>2
<1> HIDE DEF chunks
<1>7. disk'[f] = chunks /\ \A g \in Files \ {f} : disk'[g] = disk[g]
  BY <1>3, <1>6 DEF DiskOK
<1>8. DiskOK(disk')
  BY <1>3, <1>4, <1>5, <1>6, <1>7 DEF DiskOK
<1>9. CountOK(count') /\ \A g \in Files \ {f} : count'[g] = count[g]
  BY <1>2, <1>3, AddrFacts DEF CountOK
<1>10. ~OnStack(stack, f, Header)
  BY <1>3 DEF StackOK, OfOpenFiles, OnStack, Matches
<1>11. StackOK(stack, open', disk', count', unsure')
  <2>1. unsure' = unsure
    BY DEF Open
  <2> QED
    BY <1>3, <1>7, <1>9, <2>1 DEF StackOK, OfOpenFiles, Current, Agrees, SetsOK
<1>12. StackOK(stack', open', disk', count', unsure')
  <2>1. open' \in SUBSET Files /\ f \in open' /\ Header \in Addrs(f) /\ header \in Contents(Header)
    BY <1>3, AddrFacts DEF SetsOK, Contents
  <2>2. OnlyAt(f, Header, disk', unsure', disk', unsure')
    BY DEF OnlyAt
  <2>3. Agrees(header, Header, disk'[f], count'[f])
    BY <1>5, <1>7 DEF Agrees
  <2>4. stack' = SetStack(stack, f, Header, header)
    BY <1>2, <1>10
  <2> QED
    BY <1>11, <2>1, <2>2, <2>3, <2>4, PutOK
<1>13. SetsOK(open', update', upgraded', unsure')
  <2>1. update' \subseteq update \cup {f} /\ upgraded' = upgraded /\ unsure' = unsure
    BY <1>2 DEF Open
  <2> QED  BY <2>1, <1>3 DEF SetsOK
<1> QED
  BY <1>8, <1>9, <1>12, <1>13, InvPartsNext

\* What a file that is not open holds has the types of chunks.
LEMMA ShutTyped ==
  ASSUME NEW f \in Files
  PROVE  /\ Shut(f) = [a \in Addrs(f) |-> Shut(f)[a]]
         /\ \A a \in Addrs(f) : Shut(f)[a] \in Contents(a)
<1>1. (CHOOSE d \in Dates : TRUE) \in Dates /\ 0 \in 0 .. MaxEof
  BY StackAssumption
<1>2. [old |-> FALSE, date |-> CHOOSE d \in Dates : TRUE, eof |-> 0] \in FileHeader
  BY <1>1 DEF FileHeader
<1> QED
  BY <1>2 DEF Shut, Contents

\* The action Close keeps the invariant.
LEMMA CloseStep ==
  ASSUME StackInv, NEW f \in Files, Close(f)
  PROVE  StackInv'
<1>1. /\ DiskOK(disk) /\ CountOK(count) /\ SetsOK(open, update, upgraded, unsure)
      /\ StackOK(stack, open, disk, count, unsure)
      /\ f \in open /\ open' = open \ {f}
  BY InvParts DEF Close
<1>2. disk'[f] = Shut(f) /\ \A g \in Files \ {f} : disk'[g] = disk[g]
  BY <1>1 DEF DiskOK, Close
<1>3. DiskOK(disk')
  <2>1. disk' = [disk EXCEPT ![f] = Shut(f)]
    BY DEF Close
  <2> QED  BY <1>1, <1>2, <2>1, ShutTyped DEF DiskOK
<1>4. CountOK(count') /\ \A g \in Files \ {f} : count'[g] = count[g]
  BY <1>1, AddrFacts DEF CountOK, Close
<1>5. SetsOK(open', update', upgraded', unsure')
  <2>1. unsure' \subseteq open' \X AllAddrs
    BY <1>1 DEF SetsOK, Close
  <2> QED  BY <1>1, <2>1 DEF SetsOK, Close
<1>6. /\ stack' \in Stacks /\ Shrunk(stack', stack)
      /\ \A i \in Slots : stack'[i] # Empty => stack'[i].file # f
  BY <1>1 DEF Close, Clear, OfFile, StackOK, Stacks, Shrunk, SameOrGone
<1>7. StackOK(stack', open, disk, count, unsure)
  BY <1>1, <1>6, ShrunkOK
<1>8. OfOpenFiles(stack', open')
  BY <1>1, <1>6, <1>7 DEF StackOK, OfOpenFiles
<1>9. Current(stack', disk', count', unsure')
  <2> SUFFICES ASSUME NEW i \in Slots, stack'[i] # Empty
               PROVE  LET g == stack'[i].file
                          b == stack'[i].addr
                      IN /\ b \in Addrs(g)
                         /\ <<g, b>> \notin unsure' =>
                              Agrees(stack'[i].data, b, disk'[g], count'[g])
    BY DEF Current
  <2> DEFINE g == stack'[i].file
             b == stack'[i].addr
  <2>1. g \in Files \ {f} /\ b \in Addrs(g)
    BY <1>1, <1>6, <1>7 DEF StackOK, OfOpenFiles, Current, SetsOK
  <2>2. <<g, b>> \notin unsure => Agrees(stack'[i].data, b, disk[g], count[g])
    BY <1>7 DEF StackOK, Current
  <2>3. disk'[g] = disk[g] /\ count'[g] = count[g]
    BY <2>1, <1>2, <1>4
  <2>4. <<g, b>> \notin unsure' => <<g, b>> \notin unsure
    BY <2>1 DEF Close
  <2> QED  BY <2>1, <2>2, <2>3, <2>4
<1>10. StackOK(stack', open', disk', count', unsure')
  BY <1>7, <1>8, <1>9 DEF StackOK
<1> QED
  BY <1>3, <1>4, <1>5, <1>10, InvPartsNext

-----------------------------------------------------------------------------
(* The theorems.                                                           *)

\* The empty stack satisfies the invariant.
LEMMA StackInit == Init => StackInv
<1> SUFFICES ASSUME Init PROVE StackInv
  OBVIOUS
<1>1. DiskOK(disk)
  BY ShutTyped DEF Init, DiskOK
<1>2. CountOK(count)
  BY AddrFacts DEF Init, CountOK
<1>3. SetsOK(open, update, upgraded, unsure)
  BY DEF Init, SetsOK
<1>4. StackOK(stack, open, disk, count, unsure)
  BY DEF Init, StackOK, Stacks, Once, OfOpenFiles, Current
<1> QED
  BY <1>1, <1>2, <1>3, <1>4, InvParts

\* The invariant of the priority stack: each address at most once, copies of
\* open files only, and each copy as the file has it unless a write failed there.
THEOREM StackInvariant == Spec => []StackInv
<1>1. StackInv /\ [Next]_vars => StackInv'
  <2> SUFFICES ASSUME StackInv, [Next]_vars PROVE StackInv'
    OBVIOUS
  <2>1. ASSUME NEW f \in Files, Open(f) PROVE StackInv'
    BY <2>1, OpenStep
  <2>2. ASSUME NEW f \in Files, Close(f) PROVE StackInv'
    BY <2>2, CloseStep
  <2>3. ASSUME NEW f \in Files, NEW a \in AllAddrs, Read(f, a) PROVE StackInv'
    BY <2>3, ReadStep
  <2>4. ASSUME NEW f \in Files, NEW a \in AllAddrs \ {Header}, NEW v \in Values, Write(f, a, v)
        PROVE  StackInv'
    BY <2>4, WriteStep
  <2>5. ASSUME NEW f \in Files, NEW n \in AllAddrs \ {Header}, FreeNode(f, n) PROVE StackInv'
    BY <2>5, FreeNodeStep
  <2>6. ASSUME NEW f \in Files, NEW v \in Values, AddEntry(f, v) PROVE StackInv'
    BY <2>6, AddStep
  <2>7. ASSUME NEW f \in Files, NEW hole \in AllAddrs \cap Nat,
               DeleteEntry(f, hole) \/ DeleteEntryFails(f, hole)
        PROVE  StackInv'
    BY <2>7, DeleteEntryStep, DeleteEntryFailsStep
  <2>8. ASSUME NEW f \in Files, FreeTable(f) PROVE StackInv'
    BY <2>8, FreeTableStep
  <2>9. ASSUME NEW f \in Files, Malloc(f) PROVE StackInv'
    BY <2>9, HeaderStep
  <2>10. ASSUME NEW f \in Files, NEW d \in Dates, SetFormat(f, d) \/ ModificationDate(f, d)
         PROVE  StackInv'
    BY <2>10, HeaderStep, DateStep
  <2>11. CASE UNCHANGED vars
    BY <2>11, InvParts, InvPartsNext DEF vars
  <2> QED
    BY <2>1, <2>2, <2>3, <2>4, <2>5, <2>6, <2>7, <2>8, <2>9, <2>10, <2>11 DEF Next
<1> QED
  BY <1>1, StackInit, PTL DEF Spec

\* The slots hold entries of existing files and addresses, with levels the
\* counter can hold; what is on disk keeps its type.
THEOREM TypeCorrect == Spec => []TypeOK
<1>1. StackInv => TypeOK
  BY DEF StackInv
<1> QED
  BY <1>1, StackInvariant, PTL

\* SET_STK never makes a second copy of an address, which a deletion would miss.
THEOREM NoSecondCopy == Spec => []KeysOnce
<1>1. StackInv => KeysOnce
  BY DEF StackInv, StackOK, Once, KeysOnce
<1> QED
  BY <1>1, StackInvariant, PTL

\* Closing a file leaves no copy that the next file of that index would be served.
THEOREM NothingLeftOfClosed == Spec => []ClosedIsForgotten
<1>1. StackInv => ClosedIsForgotten
  BY DEF StackInv, StackOK, OfOpenFiles, ClosedIsForgotten
<1> QED
  BY <1>1, StackInvariant, PTL

\* Whatever functions wrote around the stack before, a read is served what is
\* on disk.
THEOREM NeverStale == Spec => []ServedIsCurrent
<1>1. StackInv => ServedIsCurrent
  <2> SUFFICES ASSUME StackInv, NEW f \in open
               PROVE  /\ \A n \in NodeAddrs[f] : <<f, n>> \notin unsure => Served(f, n) = disk[f][n]
                      /\ \A a \in 1 .. count[f] : <<f, a>> \notin unsure => Served(f, a) = disk[f][a]
                      /\ <<f, Header>> \notin unsure =>
                           Served(f, Header).eof = disk[f][Header].eof
    BY DEF ServedIsCurrent
  <2>1. f \in Files /\ count[f] \in 0 .. MaxEntries[f]
    BY DEF StackInv, TypeOK
  <2>2. ASSUME NEW n \in NodeAddrs[f], <<f, n>> \notin unsure
        PROVE  Served(f, n) = disk[f][n]
    <3>1. n \in Addrs(f) /\ n # Header /\ n \notin Nat
      BY <2>1, AddrFacts DEF Addrs
    <3> QED  BY <2>2, <3>1, ServedFacts DEF Agrees
  <2>3. ASSUME NEW a \in 1 .. count[f], <<f, a>> \notin unsure
        PROVE  Served(f, a) = disk[f][a]
    <3>1. a \in Addrs(f) /\ a # Header /\ a <= count[f]
      BY <2>1, AddrFacts
    <3> QED  BY <2>3, <3>1, ServedFacts DEF Agrees
  <2>4. <<f, Header>> \notin unsure => Served(f, Header).eof = disk[f][Header].eof
    BY <2>1, AddrFacts, ServedFacts DEF Agrees
  <2> QED
    BY <2>2, <2>3, <2>4
<1> QED
  BY <1>1, StackInvariant, PTL
=============================================================================
