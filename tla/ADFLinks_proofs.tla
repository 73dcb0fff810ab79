--------------------------- MODULE ADFLinks_proofs ---------------------------
(***************************************************************************)
(* The link that is remembered leads where its path leads, for all files,  *)
(* tables, names and depths.                                               *)
(***************************************************************************)
EXTENDS ADFLinks, FiniteSetTheorems, SequenceTheorems, WellFoundedInduction, TLAPS

-----------------------------------------------------------------------------
(* The invariant.                                                          *)

DiskOK ==
  /\ DOMAIN disk = Files
  /\ \A f \in Files :
       /\ Root \in Nodes(f) /\ disk[f][Root].parent = Root
       /\ Nodes(f) \subseteq Addresses[f] \cup {Root}
       /\ \A a \in Nodes(f) : disk[f][a].parent \in Nodes(f) /\ disk[f][a].link \in Targets[f] \cup {NoLink}

\* The functions under way.  A node that is real is followed already.
ChaseFrames == [do : {"chase"}, id : LiveIDs, at : LiveIDs, depth : Nat]
FindFrames == [do : {"find"}, at : LiveIDs, path : Ways, real : BOOLEAN]
Links == {NoLink} \cup UNION {Targets[f] : f \in Files}
CreateFrames == [do : {"create"}, name : Names, link : Links]
EnterFrames == {c \in [do : {"enter"}, at : LiveIDs, name : Names, link : Links] :
                  c.link \in Targets[table[c.at.slot]] \cup {NoLink}}
Looks == {[do |-> "look"]}

\* Where a frame of each kind is leads where it began.
ChaseRight(c) ==
  /\ c.at = c.id \/ IsLink(c.id)
  /\ c.depth = 0 => c.at = c.id
  /\ ~renamed => Leads[Followed(Place(c.at))] = Leads[Followed(Place(c.id))]
FindRight(c) == c.real => ~IsLink(c.at)

\* A frame and the one that called it.
CalledBy(c, caller) ==
  \/ /\ c \in ChaseFrames /\ ChaseRight(c)
     /\ \/ caller \in Looks
        \/ caller \in CreateFrames /\ (caller.link # NoLink => ~IsLink(c.id) /\ caller.link \in Targets[table[c.id.slot]])
        \/ caller \in FindFrames /\ ~caller.real /\ c.id = caller.at
  \/ /\ c \in FindFrames /\ FindRight(c)
     /\ \/ caller \in Looks
        \/ /\ caller \in ChaseFrames /\ IsLink(caller.at)
           /\ ~renamed => Leads[<<Place(c.at), c.path>>] = Leads[<<Start(Place(caller.at)), LinkPath(caller.at).path>>]

Bottoms == Looks \cup CreateFrames \cup EnterFrames
StackOK(s) ==
  /\ s \in Seq(ChaseFrames \cup FindFrames \cup Bottoms)
  /\ s # <<>> => s[Len(s)] \in Bottoms
  /\ \A i \in 1..(Len(s) - 1) : CalledBy(s[i], s[i + 1])

CacheOK ==
  cache # NoCache =>
    /\ cache \in LiveIDs \X LiveIDs
    /\ IsLink(cache[1]) /\ ~IsLink(cache[2])
    /\ ~renamed => Leads[Followed(Place(cache[1]))] = Place(cache[2])

LinksInv ==
  /\ DiskOK
  /\ table \in [Slots -> Files \cup {Free}]
  /\ renamed \in BOOLEAN
  /\ CacheOK
  /\ StackOK(calls) /\ (Len(calls) = 1 => calls[1] \in EnterFrames)

-----------------------------------------------------------------------------
(* Small facts.                                                            *)

\* A set of numbers that is not empty has a least one.
LEMMA LeastNatural ==
  ASSUME NEW S \in SUBSET Nat, S # {}
  PROVE  \E m \in S : \A n \in S : m <= n
<1>1. PICK m \in S : \A n \in S : ~(<<n, m>> \in OpToRel(<, Nat))
  BY NatLessThanWellFounded, WFMin
<1>2. \A n \in S : ~(n < m)
  BY <1>1 DEF OpToRel
<1> QED  BY <1>2

\* Min is the least element.
LEMMA MinIn ==
  ASSUME NEW S \in SUBSET Nat, S # {}
  PROVE  Min(S) \in S
BY LeastNatural DEF Min

\* The values of a function on a finite set, and what lies in them.
LEMMA FiniteRange ==
  ASSUME NEW S, IsFiniteSet(S), NEW f
  PROVE  IsFiniteSet({f[x] : x \in S})
<1> DEFINE T == {f[x] : x \in S}
           g == [x \in S |-> f[x]]
<1>1. g \in Surjection(S, T)
  BY DEF Surjection
<1> QED
  BY <1>1, FS_Surjection, Zenon

\* A union of finitely many finite sets is finite.
LEMMA FiniteUnion ==
  ASSUME NEW S, IsFiniteSet(S), NEW f, \A x \in S : IsFiniteSet(f[x])
  PROVE  IsFiniteSet(UNION {f[x] : x \in S})
<1> DEFINE T == {f[x] : x \in S}
<1>1. IsFiniteSet(T)
  BY FiniteRange, Zenon
<1>2. \A t \in T : IsFiniteSet(t)
  OBVIOUS
<1> QED
  BY <1>1, <1>2, FS_UNION, Zenon

\* What is left of a way is a way.
LEMMA WaysOK ==
  /\ Ways \subseteq Seq(Names) \ {<<>>}
  /\ \A w \in Ways : Len(w) # 1 => Tail(w) \in Ways
  /\ Paths \subseteq Ways
<1>1. \A path \in Paths : path \in Seq(Names) /\ Len(path) \in Nat \ {0}
  BY LinksAssumption DEF Paths
<1>2. ASSUME NEW path \in Paths, NEW i \in 1..Len(path)
      PROVE  /\ SubSeq(path, i, Len(path)) \in Seq(Names) \ {<<>>}
             /\ Len(SubSeq(path, i, Len(path))) = Len(path) - i + 1
             /\ Tail(SubSeq(path, i, Len(path))) = SubSeq(path, i + 1, Len(path))
  <2>1. path \in Seq(Names) /\ Len(path) \in i..Len(path)
    BY <1>1
  <2>2. /\ SubSeq(path, i, Len(path)) \in Seq(Names)
        /\ Len(SubSeq(path, i, Len(path))) = Len(path) - i + 1
    BY <2>1, SubSeqProperties
  <2>3. SubSeq(path, i, Len(path)) # <<>>
    BY <2>2, <1>1
  <2>4. Tail(SubSeq(path, i, Len(path))) = SubSeq(path, i + 1, Len(path))
    BY <2>1, HeadTailOfSubSeq
  <2> QED
    BY <2>2, <2>3, <2>4
<1>3. \A path \in Paths : SubSeq(path, 1, Len(path)) = path /\ 1 \in 1..Len(path)
  BY <1>1, SubSeqFull
<1>4. \A w : w \in Ways <=> \E path \in Paths : \E i \in 1..Len(path) : w = SubSeq(path, i, Len(path))
  BY DEF Ways
<1>5. ASSUME NEW w \in Ways, Len(w) # 1 PROVE Tail(w) \in Ways
  <2>1. PICK path \in Paths : \E i \in 1..Len(path) : w = SubSeq(path, i, Len(path))
    BY <1>4, Zenon
  <2>2. PICK i \in 1..Len(path) : w = SubSeq(path, i, Len(path))
    BY <2>1
  <2>3. i + 1 \in 1..Len(path)
    BY <1>1, <1>2, <1>5, <2>2
  <2>4. Tail(w) = SubSeq(path, i + 1, Len(path))
    BY <1>2, <2>2
  <2> QED
    BY <1>4, <2>3, <2>4, Zenon
<1>6. Ways \subseteq Seq(Names) \ {<<>>}
  <2> SUFFICES ASSUME NEW w \in Ways PROVE w \in Seq(Names) \ {<<>>}
    OBVIOUS
  <2>1. PICK path \in Paths : \E i \in 1..Len(path) : w = SubSeq(path, i, Len(path))
    BY <1>4, Zenon
  <2>2. PICK i \in 1..Len(path) : w = SubSeq(path, i, Len(path))
    BY <2>1
  <2> QED
    BY <1>2, <2>2
<1>7. Paths \subseteq Ways
  <2> SUFFICES ASSUME NEW path \in Paths PROVE path \in Ways
    OBVIOUS
  <2> QED
    BY <1>3, <1>4, Zenon
<1> QED
  BY <1>5, <1>6, <1>7

\* There are finitely many ways.
LEMMA WaysFinite == IsFiniteSet(Ways)
<1> DEFINE H == [f \in Files |-> {to.path : to \in Targets[f]}]
           G == [path \in Paths |-> {SubSeq(path, i, Len(path)) : i \in 1..Len(path)}]
<1>1. ASSUME NEW f \in Files PROVE IsFiniteSet(H[f])
  <2> DEFINE P == [to \in Targets[f] |-> to.path]
  <2>0. IsFiniteSet(Targets[f])
    BY LinksAssumption
  <2> HIDE DEF P
  <2>1. IsFiniteSet({P[to] : to \in Targets[f]})
    BY <2>0, FiniteRange, Zenon
  <2>2. {P[to] : to \in Targets[f]} = H[f]
    BY DEF P
  <2> QED
    BY <2>1, <2>2
<1> HIDE DEF H
<1>a. IsFiniteSet(Files) /\ \A f \in Files : IsFiniteSet(H[f])
  BY <1>1, LinksAssumption
<1>2. IsFiniteSet(UNION {H[f] : f \in Files})
  BY <1>a, FiniteUnion, Zenon
<1>3. Paths = UNION {H[f] : f \in Files}
  BY DEF Paths, H
<1>4. ASSUME NEW path \in Paths PROVE IsFiniteSet(G[path])
  <2> DEFINE P == [i \in 1..Len(path) |-> SubSeq(path, i, Len(path))]
  <2>1. Len(path) \in Nat
    BY LinksAssumption DEF Paths
  <2>2. IsFiniteSet(1..Len(path))
    BY <2>1, FS_Interval
  <2> HIDE DEF P
  <2>3. IsFiniteSet({P[i] : i \in 1..Len(path)})
    BY <2>2, FiniteRange, Zenon
  <2>4. {P[i] : i \in 1..Len(path)} = G[path]
    BY DEF P
  <2> QED
    BY <2>3, <2>4
<1> HIDE DEF G
<1>b. IsFiniteSet(Paths) /\ \A path \in Paths : IsFiniteSet(G[path])
  BY <1>2, <1>3, <1>4
<1>5. IsFiniteSet(UNION {G[path] : path \in Paths})
  BY <1>b, FiniteUnion, Zenon
<1>6. Ways = UNION {G[path] : path \in Paths}
  BY DEF Ways, G
<1> QED
  BY <1>5, <1>6

-----------------------------------------------------------------------------
(* Where goals lead.                                                       *)

Answers == [Goals -> Places \cup {Nowhere}]

\* The places of the nodes; none of them is nowhere.
LEMMA PlacesOK ==
  /\ \A f \in Files : \A a \in Nodes(f) : <<f, a>> \in Places
  /\ \A p \in Places : p[1] \in Files /\ p[2] \in Nodes(p[1]) /\ p = <<p[1], p[2]>> /\ p # Nowhere
<1>1. \A p : p \in Places <=> \E f \in Files : \E a \in Nodes(f) : p = <<f, a>>
  BY DEF Places
<1>2. \A f, a : <<f, a>> # Nowhere
  BY DEF Nowhere
<1> QED
  BY <1>1, <1>2

\* The goals are finitely many.
LEMMA GoalsFinite ==
  ASSUME DiskOK
  PROVE  IsFiniteSet(Goals)
<1> DEFINE H == [f \in Files |-> Addresses[f] \cup {Root}]
           All == UNION {H[f] : f \in Files}
<1>1. IsFiniteSet(Files) /\ \A f \in Files : IsFiniteSet(Addresses[f])
  BY LinksAssumption
<1>2. \A f \in Files : IsFiniteSet(H[f])
  BY <1>1, FS_AddElement
<1>3. \A p \in Places : p \in Files \X All
  <2> SUFFICES ASSUME NEW p \in Places PROVE p \in Files \X All
    OBVIOUS
  <2>1. p[1] \in Files /\ p[2] \in H[p[1]] /\ p = <<p[1], p[2]>>
    BY PlacesOK DEF DiskOK
  <2> HIDE DEF H
  <2> QED
    BY <2>1
<1> HIDE DEF H
<1>4. IsFiniteSet(All)
  BY <1>1, <1>2, FiniteUnion, Zenon
<1> HIDE DEF All
<1>5. IsFiniteSet(Files \X All)
  BY <1>1, <1>4, FS_Product
<1>6. IsFiniteSet(Places)
  BY <1>3, <1>5, FS_Subset
<1>7. IsFiniteSet(Ways \cup {<<>>})
  BY WaysFinite, FS_AddElement
<1> QED
  BY <1>6, <1>7, FS_Product DEF Goals

\* Where the path of a link begins, and the path.
LEMMA LinksLead ==
  ASSUME DiskOK, NEW p \in Places, LinkAt(p) # NoLink
  PROVE  /\ LinkAt(p) \in Targets[p[1]] /\ LinkAt(p).file \in Files \cup {Here}
         /\ Start(p) \in Places /\ LinkAt(p).path \in Ways
         /\ <<Start(p), LinkAt(p).path>> \in Goals
<1>1. p[1] \in Files /\ p[2] \in Nodes(p[1])
  BY PlacesOK
<1>2. LinkAt(p) \in Targets[p[1]]
  BY <1>1 DEF DiskOK, LinkAt
<1>3. LinkAt(p).file \in Files \cup {Here}
  BY <1>1, <1>2, LinksAssumption
<1>4. LinkAt(p).path \in Paths
  BY <1>1, <1>2 DEF Paths
<1>5. Start(p) \in Places
  BY <1>1, <1>3, PlacesOK DEF Start, DiskOK
<1> QED
  BY <1>2, <1>3, <1>4, <1>5, WaysOK DEF Goals

\* The child a name finds.
LEMMA ChildLeads ==
  ASSUME DiskOK, NEW p \in Places, NEW name, Named(p[1], p[2], name) # {}
  PROVE  /\ Min(Named(p[1], p[2], name)) \in Named(p[1], p[2], name)
         /\ Min(Named(p[1], p[2], name)) \in Nodes(p[1])
         /\ <<p[1], Min(Named(p[1], p[2], name))>> \in Places
<1>1. p[1] \in Files
  BY PlacesOK
<1>2. Named(p[1], p[2], name) \subseteq Nodes(p[1]) \ {Root}
  BY DEF Named, ChildrenOf
<1>3. Named(p[1], p[2], name) \subseteq Nat
  BY <1>1, <1>2, LinksAssumption DEF DiskOK
<1>4. Min(Named(p[1], p[2], name)) \in Named(p[1], p[2], name)
  BY <1>3, MinIn
<1> QED
  BY <1>1, <1>2, <1>4, PlacesOK

\* A goal leads to a place or nowhere.
LEMMA EndType ==
  ASSUME DiskOK, NEW m \in Answers, NEW g \in Goals
  PROVE  End(g, m) \in Places \cup {Nowhere}
<1>1. g[1] \in Places /\ g[2] \in Ways \cup {<<>>}
  BY DEF Goals
<1>2. CASE g[2] = <<>>
  <2>1. CASE LinkAt(g[1]) = NoLink
    BY <1>1, <1>2, <2>1 DEF End, FollowedEnd
  <2>2. CASE LinkAt(g[1]) # NoLink
    <3> DEFINE end == m[<<Start(g[1]), LinkAt(g[1]).path>>]
    <3>1. end \in Places \cup {Nowhere}
      BY <1>1, <2>2, LinksLead DEF Answers
    <3>2. end # Nowhere => m[Followed(end)] \in Places \cup {Nowhere}
      BY <3>1 DEF Answers, Goals, Followed
    <3>3. End(g, m) = IF end = Nowhere THEN Nowhere ELSE m[Followed(end)]
      BY <1>2, <2>2 DEF End, FollowedEnd
    <3> QED
      BY <3>2, <3>3
  <2> QED
    BY <2>1, <2>2
<1>3. CASE g[2] # <<>>
  <2> DEFINE real == m[Followed(g[1])]
             child == Named(real[1], real[2], Head(g[2]))
  <2>1. real \in Places \cup {Nowhere}
    BY <1>1 DEF Answers, Goals, Followed
  <2>2. End(g, m) = IF real = Nowhere THEN Nowhere
                    ELSE IF child = {} THEN Nowhere
                    ELSE IF Len(g[2]) = 1 THEN <<real[1], Min(child)>>
                    ELSE m[<<<<real[1], Min(child)>>, Tail(g[2])>>]
    BY <1>3 DEF End, PathEnd
  <2>3. CASE real # Nowhere /\ child # {}
    <3>1. <<real[1], Min(child)>> \in Places
      BY <2>1, <2>3, ChildLeads
    <3>2. Len(g[2]) # 1 => Tail(g[2]) \in Ways
      BY <1>1, <1>3, WaysOK
    <3>3. Len(g[2]) # 1 => m[<<<<real[1], Min(child)>>, Tail(g[2])>>] \in Places \cup {Nowhere}
      BY <3>1, <3>2 DEF Answers, Goals
    <3> QED
      BY <2>2, <2>3, <3>1, <3>3
  <2> QED
    BY <2>2, <2>3
<1> QED
  BY <1>2, <1>3

\* What is known of more goals leads the others nowhere else.
LEMMA EndGrows ==
  ASSUME DiskOK, NEW m \in Answers, NEW k \in Answers, \A g \in Goals : m[g] # Nowhere => k[g] = m[g],
         NEW g \in Goals, End(g, m) # Nowhere
  PROVE  End(g, k) = End(g, m)
<1>1. g[1] \in Places /\ g[2] \in Ways \cup {<<>>}
  BY DEF Goals
<1>2. CASE g[2] = <<>>
  <2>1. CASE LinkAt(g[1]) = NoLink
    BY <1>2, <2>1 DEF End, FollowedEnd
  <2>2. CASE LinkAt(g[1]) # NoLink
    <3> DEFINE via == <<Start(g[1]), LinkAt(g[1]).path>>
    <3>1. via \in Goals
      BY <1>1, <2>2, LinksLead
    <3>2. \A x : End(g, x) = IF x[via] = Nowhere THEN Nowhere ELSE x[Followed(x[via])]
      BY <1>2, <2>2 DEF End, FollowedEnd
    <3> HIDE DEF via
    <3>3. m[via] # Nowhere /\ m[via] \in Places
      BY <3>1, <3>2 DEF Answers
    <3>4. Followed(m[via]) \in Goals
      BY <3>3 DEF Goals, Followed
    <3> QED
      BY <3>1, <3>2, <3>3, <3>4
  <2> QED
    BY <2>1, <2>2
<1>3. CASE g[2] # <<>>
  <2> DEFINE real == m[Followed(g[1])]
             child == Named(real[1], real[2], Head(g[2]))
  <2>1. Followed(g[1]) \in Goals
    BY <1>1 DEF Goals, Followed
  <2>2. \A x : End(g, x) = IF x[Followed(g[1])] = Nowhere THEN Nowhere
                    ELSE IF Named(x[Followed(g[1])][1], x[Followed(g[1])][2], Head(g[2])) = {} THEN Nowhere
                    ELSE IF Len(g[2]) = 1 THEN <<x[Followed(g[1])][1], Min(Named(x[Followed(g[1])][1], x[Followed(g[1])][2], Head(g[2])))>>
                    ELSE x[<<<<x[Followed(g[1])][1], Min(Named(x[Followed(g[1])][1], x[Followed(g[1])][2], Head(g[2])))>>, Tail(g[2])>>]
    BY <1>3 DEF End, PathEnd
  <2>3. real # Nowhere /\ child # {} /\ k[Followed(g[1])] = real
    BY <2>1, <2>2
  <2>4. real \in Places
    BY <2>1, <2>3 DEF Answers
  <2>5. CASE Len(g[2]) = 1
    BY <2>2, <2>3, <2>5
  <2>6. CASE Len(g[2]) # 1
    <3>1. <<<<real[1], Min(child)>>, Tail(g[2])>> \in Goals
      BY <1>1, <1>3, <2>3, <2>4, <2>6, WaysOK, ChildLeads DEF Goals
    <3> QED
      BY <2>2, <2>3, <2>6, <3>1
  <2> QED
    BY <2>5, <2>6
<1> QED
  BY <1>2, <1>3

-----------------------------------------------------------------------------
(* All that can be known is known after a round for each goal.             *)

Round(n, known) == [goal \in Goals |-> IF n = 0 THEN Nowhere ELSE End(goal, known[n - 1])]

\* There are as many rounds as one likes.
LEMMA RoundsExist ==
  ASSUME NEW b \in Nat
  PROVE  \E k : k = [n \in 0..b |-> Round(n, k)]
<1> DEFINE Bad == {c \in Nat : ~ \E k : k = [n \in 0..c |-> Round(n, k)]}
<1> SUFFICES ASSUME Bad # {} PROVE FALSE
  OBVIOUS
<1>1. PICK c \in Bad : \A d \in Bad : c <= d
  BY LeastNatural
<1>2. c \in Nat /\ ~ \E k : k = [n \in 0..c |-> Round(n, k)]
  BY <1>1
<1>3. CASE c = 0
  <2> DEFINE k == [n \in 0..c |-> [goal \in Goals |-> Nowhere]]
  <2>1. \A n \in 0..c : Round(n, k) = [goal \in Goals |-> Nowhere]
    BY <1>3 DEF Round
  <2>2. k = [n \in 0..c |-> Round(n, k)]
    BY <2>1
  <2> QED
    BY <1>2, <2>2
<1>4. CASE c # 0
  <2>1. c - 1 \in Nat /\ c - 1 \notin Bad
    BY <1>1, <1>2, <1>4
  <2>2. PICK j : j = [n \in 0..(c - 1) |-> Round(n, j)]
    BY <2>1
  <2> DEFINE k == [n \in 0..c |-> IF n = c THEN Round(c, j) ELSE j[n]]
  <2>3. \A n \in 0..c : Round(n, k) = k[n]
    <3> SUFFICES ASSUME NEW n \in 0..c PROVE Round(n, k) = k[n]
      OBVIOUS
    <3>1. n # 0 => n - 1 \in 0..c /\ n - 1 # c /\ n - 1 \in 0..(c - 1)
      BY <1>2
    <3>2. n # 0 => k[n - 1] = j[n - 1]
      BY <3>1
    <3> HIDE DEF k
    <3>3. Round(n, k) = Round(n, j)
      BY <3>2 DEF Round
    <3>4. CASE n = c
      BY <3>3, <3>4, <1>2 DEF k
    <3>5. CASE n # c
      <4>1. n \in 0..(c - 1)
        BY <1>2, <3>5
      <4>2. j[n] = Round(n, j)
        BY <2>2, <4>1
      <4>3. k[n] = j[n]
        BY <3>5 DEF k
      <4> QED
        BY <3>3, <4>2, <4>3
    <3> QED
      BY <3>4, <3>5
  <2>4. k = [n \in 0..c |-> Round(n, k)]
    BY <2>3
  <2> HIDE DEF k
  <2> QED
    BY <1>2, <2>4
<1> QED
  BY <1>3, <1>4

\* The rounds that lead to Leads.
LEMMA LeadsRounds ==
  ASSUME DiskOK
  PROVE  \E b, k :
           /\ b \in Nat /\ b = Cardinality(Goals) /\ Leads = k[b]
           /\ \A n \in 0..b : k[n] \in Answers
           /\ k[0] = [goal \in Goals |-> Nowhere]
           /\ \A n \in 1..b : k[n] = [goal \in Goals |-> End(goal, k[n - 1])]
<1> DEFINE b == Cardinality(Goals)
           Is(k) == k = [n \in 0..b |-> [goal \in Goals |-> IF n = 0 THEN Nowhere ELSE End(goal, k[n - 1])]]
           k == CHOOSE k : Is(k)
<1>1. b \in Nat
  BY GoalsFinite, FS_CardinalityType
<1>2. \E j : Is(j)
  BY <1>1, RoundsExist DEF Round
<1>3. Is(k)
  BY <1>2
<1>4. Leads = k[b]
  BY DEF Leads
<1> HIDE DEF k, b
<1>5. k[0] = [goal \in Goals |-> Nowhere]
  BY <1>1, <1>3
<1>6. ASSUME NEW n \in 1..b PROVE k[n] = [goal \in Goals |-> End(goal, k[n - 1])]
  <2>1. n \in 0..b /\ n # 0
    BY <1>1
  <2>2. k[n] = [goal \in Goals |-> IF n = 0 THEN Nowhere ELSE End(goal, k[n - 1])]
    BY <1>3, <2>1
  <2> QED
    BY <2>1, <2>2
<1> HIDE DEF Is
<1>7. \A n \in 0..b : k[n] \in Answers
  <2> DEFINE Bad == {n \in Nat : n \in 0..b /\ k[n] \notin Answers}
  <2> SUFFICES ASSUME Bad # {} PROVE FALSE
    BY <1>1
  <2>1. PICK n \in Bad : \A i \in Bad : n <= i
    BY LeastNatural
  <2>2. n # 0
    BY <1>5, <2>1 DEF Answers
  <2>3. n \in 1..b /\ n - 1 \in 0..b /\ n - 1 \notin Bad
    BY <1>1, <2>1, <2>2
  <2>4. k[n - 1] \in Answers
    BY <2>3
  <2>5. \A goal \in Goals : End(goal, k[n - 1]) \in Places \cup {Nowhere}
    BY <2>4, EndType
  <2>6. k[n] \in Answers
    BY <1>6, <2>3, <2>5 DEF Answers
  <2> QED
    BY <2>1, <2>6
<1> QED
  BY <1>1, <1>4, <1>5, <1>6, <1>7 DEF b

\* A chain of sets that grow in a finite set, as long as that set has elements,
\* ends with all of it or stands still before.
LEMMA ChainEnds ==
  ASSUME NEW T, IsFiniteSet(T), NEW s, \A n \in 0..Cardinality(T) : s[n] \subseteq T,
         \A n \in 1..Cardinality(T) : s[n - 1] \subseteq s[n]
  PROVE  s[Cardinality(T)] = T \/ \E n \in 1..Cardinality(T) : s[n] = s[n - 1]
<1> DEFINE b == Cardinality(T)
<1>1. b \in Nat
  BY FS_CardinalityType
<1> SUFFICES ASSUME \A n \in 1..b : s[n] # s[n - 1] PROVE s[b] = T
  OBVIOUS
<1> DEFINE Bad == {n \in Nat : n \in 0..b /\ ~(Cardinality(s[n]) >= n)}
<1>2. Bad = {}
  <2> SUFFICES ASSUME Bad # {} PROVE FALSE
    OBVIOUS
  <2>1. PICK n \in Bad : \A i \in Bad : n <= i
    BY LeastNatural
  <2>2. \A i \in 0..b : IsFiniteSet(s[i]) /\ Cardinality(s[i]) \in Nat
    BY FS_Subset, FS_CardinalityType
  <2>3. n # 0
    BY <2>1, <2>2
  <2>4. n \in 1..b /\ n - 1 \in 0..b /\ n - 1 \notin Bad
    BY <1>1, <2>1, <2>3
  <2>5. Cardinality(s[n - 1]) >= n - 1
    BY <2>4
  <2>6. s[n - 1] \subseteq s[n] /\ s[n - 1] # s[n]
    BY <2>4
  <2>7. Cardinality(s[n - 1]) <= Cardinality(s[n]) /\ Cardinality(s[n - 1]) # Cardinality(s[n])
    BY <2>2, <2>4, <2>6, FS_Subset
  <2> QED
    BY <2>1, <2>2, <2>4, <2>5, <2>7
<1>3. Cardinality(s[b]) >= b /\ s[b] \subseteq T
  BY <1>1, <1>2
<1>4. Cardinality(s[b]) <= b /\ Cardinality(s[b]) \in Nat
  BY <1>3, FS_Subset, FS_CardinalityType
<1>5. Cardinality(s[b]) = Cardinality(T)
  BY <1>1, <1>3, <1>4
<1> QED
  BY <1>3, <1>5, FS_Subset

\* What Leads says is what the goals lead to when it is known.
LEMMA LeadsFixed ==
  ASSUME DiskOK
  PROVE  Leads \in Answers /\ \A g \in Goals : Leads[g] = End(g, Leads)
<1>1. PICK b, k :
           /\ b \in Nat /\ b = Cardinality(Goals) /\ Leads = k[b]
           /\ \A n \in 0..b : k[n] \in Answers
           /\ k[0] = [goal \in Goals |-> Nowhere]
           /\ \A n \in 1..b : k[n] = [goal \in Goals |-> End(goal, k[n - 1])]
  BY LeadsRounds
<1> DEFINE More(m, l) == \A g \in Goals : m[g] # Nowhere => l[g] = m[g]
           Known(m) == {g \in Goals : m[g] # Nowhere}
           Next1(m) == [goal \in Goals |-> End(goal, m)]
<1>2. \A n \in 1..b : n - 1 \in 0..b /\ n \in 0..b /\ k[n] = Next1(k[n - 1])
  BY <1>1
<1>3. ASSUME NEW m \in Answers, NEW l \in Answers, More(m, l) PROVE More(Next1(m), Next1(l))
  BY <1>3, EndGrows
<1>4. \A m \in Answers : Next1(m) \in Answers
  BY EndType DEF Answers
<1>5. \A n \in 0..b : More(k[n], Next1(k[n]))
  <2> DEFINE Bad == {n \in Nat : n \in 0..b /\ ~More(k[n], Next1(k[n]))}
  <2> SUFFICES ASSUME Bad # {} PROVE FALSE
    BY <1>1
  <2>1. PICK n \in Bad : \A i \in Bad : n <= i
    BY LeastNatural
  <2>2. n # 0
    BY <1>1, <2>1
  <2>3. n \in 1..b /\ n - 1 \in Nat /\ n - 1 \notin Bad
    BY <1>1, <2>1, <2>2
  <2>4. More(k[n - 1], Next1(k[n - 1]))
    BY <1>2, <2>3
  <2>5. More(k[n - 1], k[n]) /\ k[n - 1] \in Answers /\ k[n] \in Answers
    BY <1>1, <1>2, <2>3, <2>4
  <2> HIDE DEF More, Next1
  <2>6. More(Next1(k[n - 1]), Next1(k[n]))
    BY <1>3, <2>5
  <2>7. More(k[n], Next1(k[n]))
    BY <1>2, <2>3, <2>6
  <2> QED
    BY <2>1, <2>7
<1>6. \A n \in 1..b : Known(k[n - 1]) \subseteq Known(k[n])
  <2> SUFFICES ASSUME NEW n \in 1..b PROVE Known(k[n - 1]) \subseteq Known(k[n])
    OBVIOUS
  <2>1. n - 1 \in 0..b /\ k[n] = Next1(k[n - 1])
    BY <1>2
  <2>2. More(k[n - 1], Next1(k[n - 1]))
    BY <1>5, <2>1
  <2>3. \A g \in Goals : k[n - 1][g] # Nowhere => k[n][g] = k[n - 1][g]
    <3> HIDE DEF Next1
    <3> QED
      BY <2>1, <2>2
  <2> QED
    BY <2>3
<1> DEFINE s == [n \in 0..b |-> Known(k[n])]
<1>7. s[b] = Goals \/ \E n \in 1..b : s[n] = s[n - 1]
  <2>1. IsFiniteSet(Goals)
    BY GoalsFinite
  <2>2. \A n \in 0..b : s[n] \subseteq Goals
    OBVIOUS
  <2>3. \A n \in 1..b : s[n - 1] \subseteq s[n]
    BY <1>2, <1>6
  <2> HIDE DEF s
  <2> QED
    BY <1>1, <2>1, <2>2, <2>3, ChainEnds
<1>8. b \in 0..b /\ k[b] \in Answers
  BY <1>1
<1> SUFFICES k[b] \in Answers /\ \A g \in Goals : k[b][g] = End(g, k[b])
  BY <1>1, Zenon
<1>9. CASE s[b] = Goals
  <2>1. \A g \in Goals : k[b][g] # Nowhere
    BY <1>8, <1>9
  <2>2. \A g \in Goals : k[b][g] = Next1(k[b])[g]
    BY <1>5, <1>8, <2>1
  <2>3. \A g \in Goals : k[b][g] = End(g, k[b])
    BY <2>2
  <2> QED
    BY <1>8, <2>3
<1>10. CASE \E n \in 1..b : s[n] = s[n - 1]
  <2>1. PICK n \in 1..b : s[n] = s[n - 1]
    BY <1>10
  <2>2. Known(k[n]) = Known(k[n - 1])
    BY <1>2, <2>1
  <2>a. n - 1 \in 0..b /\ n \in 0..b /\ k[n] = Next1(k[n - 1])
    BY <1>2
  <2>b. More(k[n - 1], Next1(k[n - 1])) /\ k[n - 1] \in Answers /\ k[n] \in Answers
    BY <1>1, <1>5, <2>a
  <2>3. More(k[n - 1], k[n]) /\ k[n - 1] \in Answers /\ k[n] \in Answers
    BY <2>a, <2>b
  <2>4. \A g \in Goals : k[n][g] = k[n - 1][g]
    <3> SUFFICES ASSUME NEW g \in Goals PROVE k[n][g] = k[n - 1][g]
      OBVIOUS
    <3>1. CASE k[n - 1][g] # Nowhere
      BY <2>3, <3>1
    <3>2. CASE k[n - 1][g] = Nowhere
      BY <2>2, <3>2
    <3> QED
      BY <3>1, <3>2
  <2>5. k[n] = k[n - 1]
    BY <2>3, <2>4 DEF Answers
  <2>6. \A i \in 0..b : i >= n => k[i] = k[n]
    <3> DEFINE Bad == {i \in Nat : i \in 0..b /\ i >= n /\ k[i] # k[n]}
    <3> SUFFICES ASSUME Bad # {} PROVE FALSE
      BY <1>1
    <3>1. PICK i \in Bad : \A j \in Bad : i <= j
      BY LeastNatural
    <3>2. i # n
      BY <3>1
    <3>3. i \in 1..b /\ i - 1 \in Nat /\ i - 1 \in 0..b /\ i - 1 >= n /\ i - 1 \notin Bad
      BY <1>1, <3>1, <3>2
    <3>4. k[i - 1] = k[n] /\ k[n] = k[n - 1]
      BY <2>5, <3>3
    <3> HIDE DEF Next1
    <3>5. k[i] = Next1(k[i - 1]) /\ k[n] = Next1(k[n - 1])
      BY <1>2, <3>3
    <3> QED
      BY <3>1, <3>4, <3>5
  <2>7. k[b] = k[n] /\ k[n] = Next1(k[n])
    BY <1>2, <1>8, <2>5, <2>6
  <2> QED
    BY <1>8, <2>7
<1> QED
  BY <1>1, <1>7, <1>9, <1>10, Zenon

-----------------------------------------------------------------------------
(* A node more leads nothing elsewhere that leads to a place.              *)

Grown ==
  \A f \in Files :
    /\ Nodes(f) \subseteq Nodes(f)'
    /\ \A a \in Nodes(f) : /\ disk'[f][a].link = disk[f][a].link
                           /\ \A name : Named(f, a, name) # {} => Named(f, a, name)' = Named(f, a, name)

\* A place stays a place, and its link what it is.
LEMMA GrownPlaces ==
  ASSUME Grown, NEW p \in Places
  PROVE  p \in Places' /\ LinkAt(p)' = LinkAt(p) /\ Start(p)' = Start(p)
<1>1. p[1] \in Files /\ p[2] \in Nodes(p[1]) /\ p = <<p[1], p[2]>>
  BY PlacesOK
<1>2. p[2] \in Nodes(p[1])' /\ disk'[p[1]][p[2]].link = disk[p[1]][p[2]].link
  BY <1>1 DEF Grown
<1>3. p \in Places'
  BY <1>1, <1>2 DEF Places
<1> QED
  BY <1>2, <1>3 DEF LinkAt, Start

\* With more nodes and more known, a goal leads where it led.
LEMMA EndStays ==
  ASSUME DiskOK, Grown, NEW m \in Answers, NEW k,
         \A g \in Goals : m[g] # Nowhere => k[g] = m[g],
         NEW g \in Goals, End(g, m) # Nowhere
  PROVE  End(g, k)' = End(g, m)
<1>1. g[1] \in Places /\ g[2] \in Ways \cup {<<>>}
  BY DEF Goals
<1>2. CASE g[2] = <<>>
  <2>0. LinkAt(g[1])' = LinkAt(g[1]) /\ Start(g[1])' = Start(g[1])
    BY <1>1, GrownPlaces
  <2>1. CASE LinkAt(g[1]) = NoLink
    BY <1>2, <2>0, <2>1 DEF End, FollowedEnd
  <2>2. CASE LinkAt(g[1]) # NoLink
    <3> DEFINE via == <<Start(g[1]), LinkAt(g[1]).path>>
    <3>1. via \in Goals
      BY <1>1, <2>2, LinksLead
    <3>2. /\ End(g, m) = IF m[via] = Nowhere THEN Nowhere ELSE m[Followed(m[via])]
          /\ End(g, k)' = IF k[via] = Nowhere THEN Nowhere ELSE k[Followed(k[via])]
      BY <1>2, <2>0, <2>2 DEF End, FollowedEnd, Followed
    <3> HIDE DEF via
    <3>3. m[via] # Nowhere /\ m[via] \in Places
      BY <3>1, <3>2 DEF Answers
    <3>4. Followed(m[via]) \in Goals
      BY <3>3 DEF Goals, Followed
    <3> QED
      BY <3>1, <3>2, <3>3, <3>4
  <2> QED
    BY <2>1, <2>2
<1>3. CASE g[2] # <<>>
  <2> DEFINE real == m[Followed(g[1])]
             name == Head(g[2])
             child == Named(real[1], real[2], name)
  <2>1. Followed(g[1]) \in Goals
    BY <1>1 DEF Goals, Followed
  <2>2. End(g, m) = IF real = Nowhere THEN Nowhere
                    ELSE IF child = {} THEN Nowhere
                    ELSE IF Len(g[2]) = 1 THEN <<real[1], Min(child)>>
                    ELSE m[<<<<real[1], Min(child)>>, Tail(g[2])>>]
    BY <1>3 DEF End, PathEnd
  <2>3. real # Nowhere /\ child # {} /\ k[Followed(g[1])] = real
    BY <2>1, <2>2
  <2>4. real \in Places
    BY <2>1, <2>3 DEF Answers
  <2>5. child' = child
    BY <2>3, <2>4, PlacesOK DEF Grown
  <2>6. End(g, k)' = IF Len(g[2]) = 1 THEN <<real[1], Min(child)>>
                     ELSE k[<<<<real[1], Min(child)>>, Tail(g[2])>>]
    <3>1. k[Followed(g[1])] = real /\ Named(real[1], real[2], name)' = child
      BY <2>3, <2>5
    <3> DEFINE r == real
               c == child
    <3>2. k[<<g[1], <<>>>>] = r /\ Named(r[1], r[2], name)' = c /\ c # {} /\ r # Nowhere
      BY <2>3, <3>1 DEF Followed
    <3> HIDE DEF r, c
    <3>3. End(g, k)' = IF Len(g[2]) = 1 THEN <<r[1], Min(c)>> ELSE k[<<<<r[1], Min(c)>>, Tail(g[2])>>]
      BY <1>3, <3>2 DEF End, PathEnd, Followed
    <3> QED
      BY <3>3 DEF r, c
  <2>7. CASE Len(g[2]) = 1
    BY <2>2, <2>3, <2>6, <2>7
  <2>8. CASE Len(g[2]) # 1
    <3>1. <<<<real[1], Min(child)>>, Tail(g[2])>> \in Goals
      BY <1>1, <1>3, <2>3, <2>4, <2>8, WaysOK, ChildLeads DEF Goals
    <3> QED
      BY <2>2, <2>3, <2>6, <2>8, <3>1
  <2> QED
    BY <2>7, <2>8
<1> QED
  BY <1>2, <1>3

\* LeadsFixed of the next state.
LEMMA LeadsFixedNext ==
  (DiskOK => Leads \in Answers /\ \A g \in Goals : Leads[g] = End(g, Leads))'
<1>1. DiskOK => Leads \in Answers /\ \A g \in Goals : Leads[g] = End(g, Leads)
  BY LeadsFixed
<1> QED
  BY <1>1, PTL

\* What leads to a place still leads there.
LEMMA LeadsGrow ==
  ASSUME DiskOK, DiskOK', Grown, NEW g \in Goals, Leads[g] # Nowhere
  PROVE  Leads'[g] = Leads[g]
<1>1. PICK b, k :
           /\ b \in Nat /\ b = Cardinality(Goals) /\ Leads = k[b]
           /\ \A n \in 0..b : k[n] \in Answers
           /\ k[0] = [goal \in Goals |-> Nowhere]
           /\ \A n \in 1..b : k[n] = [goal \in Goals |-> End(goal, k[n - 1])]
  BY LeadsRounds
<1>2. Leads' \in Answers' /\ \A h \in Goals' : Leads'[h] = End(h, Leads)'
  BY LeadsFixedNext
<1>3. Goals \subseteq Goals'
  BY GrownPlaces DEF Goals, Ways, Paths
<1> DEFINE Bad == {n \in Nat : n \in 0..b /\ \E h \in Goals : k[n][h] # Nowhere /\ Leads'[h] # k[n][h]}
<1> SUFFICES Bad = {}
  BY <1>1
<1> SUFFICES ASSUME Bad # {} PROVE FALSE
  OBVIOUS
<1>4. PICK n \in Bad : \A i \in Bad : n <= i
  BY LeastNatural
<1>5. PICK h \in Goals : k[n][h] # Nowhere /\ Leads'[h] # k[n][h]
  BY <1>4
<1>6. n # 0
  BY <1>1, <1>5
<1>7. n \in 1..b /\ n - 1 \in Nat /\ n - 1 \in 0..b /\ n - 1 \notin Bad
  BY <1>1, <1>4, <1>6
<1>8. k[n - 1] \in Answers /\ \A i \in Goals : k[n - 1][i] # Nowhere => Leads'[i] = k[n - 1][i]
  BY <1>1, <1>7
<1>a. k[n] = [goal \in Goals |-> End(goal, k[n - 1])]
  BY <1>1, <1>7
<1>9. k[n][h] = End(h, k[n - 1])
  BY <1>5, <1>a
<1> DEFINE j == k[n - 1]
           L == Leads'
<1>10. \A l : (\A i \in Goals : j[i] # Nowhere => l[i] = j[i]) => End(h, l)' = End(h, j)
  BY <1>5, <1>8, <1>9, EndStays
<1>11. End(h, Leads)' = k[n][h]
  BY <1>8, <1>9, <1>10
<1> QED
  BY <1>2, <1>3, <1>5, <1>11

-----------------------------------------------------------------------------
(* Identifiers.                                                            *)

TableOK == table \in [Slots -> Files \cup {Free}]

\* The identifiers of nodes there are, and the places they stand for.
LEMMA LiveOK ==
  DiskOK /\ TableOK =>
    /\ \A s, a : ID(s, a) \in LiveIDs <=> s \in InUse /\ a \in Nodes(table[s])
    /\ \A id \in LiveIDs : /\ id = ID(id.slot, id.at) /\ id.slot \in InUse /\ id.at \in Nodes(table[id.slot])
                           /\ table[id.slot] \in Files /\ Place(id) \in Places
                           /\ (IsLink(id) <=> LinkAt(Place(id)) # NoLink)
                           /\ LinkPath(id) = LinkAt(Place(id))
<1> SUFFICES ASSUME DiskOK, TableOK PROVE
    /\ \A s, a : ID(s, a) \in LiveIDs <=> s \in InUse /\ a \in Nodes(table[s])
    /\ \A id \in LiveIDs : /\ id = ID(id.slot, id.at) /\ id.slot \in InUse /\ id.at \in Nodes(table[id.slot])
                           /\ table[id.slot] \in Files /\ Place(id) \in Places
                           /\ (IsLink(id) <=> LinkAt(Place(id)) # NoLink)
                           /\ LinkPath(id) = LinkAt(Place(id))
  OBVIOUS
<1>1. \A s \in InUse : table[s] \in Files
  BY DEF InUse, TableOK
<1>2. ASSUME NEW f \in Files, NEW a \in Nodes(f) PROVE a \in {Root} \cup UNION {Addresses[g] : g \in Files}
  <2> DEFINE All == UNION {Addresses[g] : g \in Files}
  <2>1. a \in Addresses[f] \cup {Root}
    BY DEF DiskOK
  <2>2. Addresses[f] \subseteq All
    OBVIOUS
  <2> HIDE DEF All
  <2>3. a \in {Root} \cup All
    BY <2>1, <2>2
  <2> QED
    BY <2>3 DEF All
<1>3. \A id \in IDs : id = ID(id.slot, id.at) /\ id.slot \in InUse
  BY DEF IDs, ID
<1>4. \A s \in InUse : \A a \in {Root} \cup UNION {Addresses[g] : g \in Files} : ID(s, a) \in IDs
  BY DEF IDs
<1>5. \A s, a : ID(s, a).slot = s /\ ID(s, a).at = a
  BY DEF ID
<1>6. ASSUME NEW s, NEW a PROVE ID(s, a) \in LiveIDs <=> s \in InUse /\ a \in Nodes(table[s])
  <2>1. ID(s, a) \in LiveIDs => s \in InUse /\ a \in Nodes(table[s])
    BY <1>3, <1>5 DEF LiveIDs
  <2>2. s \in InUse /\ a \in Nodes(table[s]) => ID(s, a) \in LiveIDs
    BY <1>1, <1>2, <1>4, <1>5 DEF LiveIDs
  <2> QED
    BY <2>1, <2>2
<1>7. ASSUME NEW id \in LiveIDs
      PROVE  /\ id = ID(id.slot, id.at) /\ id.slot \in InUse /\ id.at \in Nodes(table[id.slot])
             /\ table[id.slot] \in Files /\ Place(id) \in Places
             /\ (IsLink(id) <=> LinkAt(Place(id)) # NoLink)
             /\ LinkPath(id) = LinkAt(Place(id))
  <2>1. id = ID(id.slot, id.at) /\ id.slot \in InUse /\ id.at \in Nodes(table[id.slot])
    BY <1>3 DEF LiveIDs
  <2>2. table[id.slot] \in Files /\ Place(id) \in Places
    BY <1>1, <2>1, PlacesOK DEF Place
  <2>3. Node(id).link = LinkAt(Place(id))
    BY DEF Node, LinkAt, Place
  <2> QED
    BY <2>1, <2>2, <2>3 DEF IsLink, LinkPath
<1> QED
  BY <1>6, <1>7

\* LiveOK of the next state.
LEMMA LiveOKNext ==
  (DiskOK /\ TableOK =>
    /\ \A s, a : ID(s, a) \in LiveIDs <=> s \in InUse /\ a \in Nodes(table[s])
    /\ \A id \in LiveIDs : /\ id = ID(id.slot, id.at) /\ id.slot \in InUse /\ id.at \in Nodes(table[id.slot])
                           /\ table[id.slot] \in Files /\ Place(id) \in Places
                           /\ (IsLink(id) <=> LinkAt(Place(id)) # NoLink)
                           /\ LinkPath(id) = LinkAt(Place(id)))'
BY LiveOK, PTL

\* When files are opened only, an identifier stays what it is.
Opened == disk' = disk /\ TableOK' /\ \A s \in InUse : table'[s] = table[s]

\* Where links lead is a matter of the files alone, not of the table.
LEMMA SameLeads ==
  ASSUME disk' = disk
  PROVE  Leads' = Leads
BY DEF Leads, Goals, Places, Nodes, End, FollowedEnd, PathEnd, LinkAt, Named, ChildrenOf, Start, Followed

\* What is kept of the frames then.
LEMMA OpenedKeeps ==
  ASSUME DiskOK, TableOK, Opened
  PROVE  /\ DiskOK' /\ Leads' = Leads /\ LiveIDs \subseteq LiveIDs' /\ InUse \subseteq InUse'
         /\ \A p : Start(p)' = Start(p) /\ LinkAt(p)' = LinkAt(p)
         /\ \A id \in LiveIDs : /\ Place(id)' = Place(id) /\ (IsLink(id)' <=> IsLink(id))
                                /\ LinkPath(id)' = LinkPath(id) /\ table'[id.slot] = table[id.slot]
<1>1. DiskOK' /\ \A f : Nodes(f)' = Nodes(f)
  BY DEF DiskOK, Nodes, Opened
<1>2. Leads' = Leads
  BY SameLeads DEF Opened
<1>3. InUse \subseteq InUse'
  BY DEF InUse, Opened
<1>4. \A p : Start(p)' = Start(p) /\ LinkAt(p)' = LinkAt(p)
  BY DEF Start, LinkAt, Opened
<1>5. ASSUME NEW id \in LiveIDs
      PROVE  /\ id \in LiveIDs' /\ Place(id)' = Place(id) /\ (IsLink(id)' <=> IsLink(id))
             /\ LinkPath(id)' = LinkPath(id) /\ table'[id.slot] = table[id.slot]
  <2>1. id = ID(id.slot, id.at) /\ id.slot \in InUse /\ id.at \in Nodes(table[id.slot])
    BY LiveOK
  <2>2. table'[id.slot] = table[id.slot]
    BY <2>1 DEF Opened
  <2>3. id.slot \in InUse' /\ id.at \in Nodes(table[id.slot])'
    BY <1>1, <1>3, <2>1, <2>2
  <2>4. id \in LiveIDs'
    BY <1>1, <2>1, <2>2, <2>3, LiveOKNext DEF Opened
  <2>5. Place(id)' = Place(id) /\ Node(id)' = Node(id)
    BY <2>2 DEF Place, Node, Opened
  <2> QED
    BY <2>2, <2>4, <2>5 DEF IsLink, LinkPath
<1> QED
  BY <1>1, <1>2, <1>3, <1>4, <1>5

\* The functions under way are as right when files were opened.
LEMMA StackKept ==
  ASSUME DiskOK, TableOK, Opened, renamed' = renamed, NEW s, StackOK(s)
  PROVE  StackOK(s)'
<1> USE OpenedKeeps
<1>1. /\ ChaseFrames \subseteq ChaseFrames' /\ FindFrames \subseteq FindFrames'
      /\ Looks' = Looks /\ CreateFrames' = CreateFrames
  BY DEF ChaseFrames, FindFrames, Looks, CreateFrames, Links, Ways, Paths
<1>2. EnterFrames \subseteq EnterFrames'
  BY DEF EnterFrames, Links
<1>3. Bottoms \subseteq Bottoms'
  BY <1>1, <1>2 DEF Bottoms
<1>4. ASSUME NEW c, NEW caller, CalledBy(c, caller) PROVE CalledBy(c, caller)'
  <2>1. CASE c \in ChaseFrames /\ ChaseRight(c)
    <3>1. c.id \in LiveIDs /\ c.at \in LiveIDs
      BY <2>1 DEF ChaseFrames
    <3>2. ChaseRight(c)'
      BY <2>1, <3>1 DEF ChaseRight, Followed
    <3>3. CASE caller \in Looks
      BY <1>1, <2>1, <3>2, <3>3 DEF CalledBy
    <3>4. CASE caller \in CreateFrames /\ (caller.link # NoLink => ~IsLink(c.id) /\ caller.link \in Targets[table[c.id.slot]])
      BY <1>1, <2>1, <3>1, <3>2, <3>4 DEF CalledBy
    <3>5. CASE caller \in FindFrames /\ ~caller.real /\ c.id = caller.at
      BY <1>1, <2>1, <3>2, <3>5 DEF CalledBy
    <3>6. c \notin FindFrames
      BY <2>1 DEF ChaseFrames, FindFrames
    <3> QED
      BY <1>4, <3>3, <3>4, <3>5, <3>6 DEF CalledBy
  <2>2. CASE c \in FindFrames /\ FindRight(c)
    <3>1. c.at \in LiveIDs
      BY <2>2 DEF FindFrames
    <3>2. FindRight(c)'
      BY <2>2, <3>1 DEF FindRight
    <3>3. CASE caller \in Looks
      BY <1>1, <2>2, <3>2, <3>3 DEF CalledBy
    <3>4. CASE /\ caller \in ChaseFrames /\ IsLink(caller.at)
               /\ ~renamed => Leads[<<Place(c.at), c.path>>] = Leads[<<Start(Place(caller.at)), LinkPath(caller.at).path>>]
      <4>1. caller.at \in LiveIDs
        BY <3>4 DEF ChaseFrames
      <4> QED
        BY <1>1, <2>2, <3>1, <3>2, <3>4, <4>1 DEF CalledBy
    <3>5. c \notin ChaseFrames
      BY <2>2 DEF ChaseFrames, FindFrames
    <3> QED
      BY <1>4, <3>3, <3>4, <3>5 DEF CalledBy
  <2> QED
    BY <1>4, <2>1, <2>2 DEF CalledBy
<1>5. s \in Seq(ChaseFrames \cup FindFrames \cup Bottoms)'
  <2>1. ChaseFrames \cup FindFrames \cup Bottoms \subseteq (ChaseFrames \cup FindFrames \cup Bottoms)'
    BY <1>1, <1>3
  <2> QED
    BY <2>1 DEF StackOK
<1> QED
  BY <1>3, <1>4, <1>5 DEF StackOK

\* A call.
LEMMA PushOK ==
  ASSUME NEW s, StackOK(s), s # <<>>, NEW c, CalledBy(c, s[1])
  PROVE  StackOK(<<c>> \o s) /\ Len(<<c>> \o s) = Len(s) + 1
<1> DEFINE F == ChaseFrames \cup FindFrames \cup Bottoms
           t == <<c>> \o s
<1>1. s \in Seq(F) /\ c \in F
  BY DEF StackOK, CalledBy
<1>2. t \in Seq(F) /\ Len(t) = Len(s) + 1 /\ t[1] = c /\ \A i \in 1..Len(s) : t[i + 1] = s[i]
  BY <1>1
<1>3. Len(s) \in Nat \ {0}
  BY <1>1
<1>4. t[Len(t)] \in Bottoms
  BY <1>2, <1>3 DEF StackOK
<1>5. ASSUME NEW i \in 1..(Len(t) - 1) PROVE CalledBy(t[i], t[i + 1])
  <2>1. CASE i = 1
    BY <1>2, <1>3, <2>1
  <2>2. CASE i # 1
    <3>1. i - 1 \in 1..(Len(s) - 1) /\ t[i] = s[i - 1] /\ t[i + 1] = s[(i - 1) + 1]
      BY <1>2, <1>3, <1>5, <2>2
    <3>2. CalledBy(s[i - 1], s[(i - 1) + 1])
      BY <3>1 DEF StackOK
    <3> QED
      BY <3>1, <3>2
  <2> QED
    BY <2>1, <2>2
<1> HIDE DEF t
<1> QED
  BY <1>2, <1>4, <1>5 DEF StackOK, t

\* The rest of the functions under way without the one called last.
LEMMA PopOK ==
  ASSUME NEW s, StackOK(s), Len(s) > 1
  PROVE  /\ StackOK(Tail(s)) /\ Tail(s) # <<>> /\ Tail(s)[1] = s[2] /\ Len(Tail(s)) = Len(s) - 1
         /\ CalledBy(s[1], s[2])
<1> DEFINE F == ChaseFrames \cup FindFrames \cup Bottoms
           t == Tail(s)
<1>1. s \in Seq(F) /\ Len(s) \in Nat /\ s # <<>>
  BY DEF StackOK
<1>2. t \in Seq(F) /\ Len(t) = Len(s) - 1 /\ \A i \in 1..Len(t) : t[i] = s[i + 1]
  BY <1>1, HeadTailProperties
<1> HIDE DEF t
<1>a. Len(t) \in Nat /\ Len(t) >= 1 /\ 1 \in 1..Len(t) /\ Len(t) \in 1..Len(t) /\ Len(t) + 1 = Len(s)
  BY <1>1, <1>2
<1>3. t # <<>> /\ t[1] = s[2] /\ t[Len(t)] = s[Len(s)]
  <2>1. t[1] = s[1 + 1] /\ t[Len(t)] = s[Len(t) + 1]
    BY <1>2, <1>a
  <2> QED
    BY <1>a, <2>1
<1>4. t[Len(t)] \in Bottoms
  BY <1>1, <1>3 DEF StackOK
<1>5. ASSUME NEW i \in 1..(Len(t) - 1) PROVE CalledBy(t[i], t[i + 1])
  <2>1. i + 1 \in 1..(Len(s) - 1) /\ t[i] = s[i + 1] /\ t[i + 1] = s[(i + 1) + 1]
    BY <1>1, <1>2
  <2>2. CalledBy(s[i + 1], s[(i + 1) + 1])
    BY <2>1 DEF StackOK
  <2> QED
    BY <2>1, <2>2
<1>6. CalledBy(s[1], s[2])
  <2>1. 1 \in 1..(Len(s) - 1)
    BY <1>1
  <2> QED
    BY <2>1 DEF StackOK
<1> QED
  BY <1>2, <1>3, <1>4, <1>5, <1>6 DEF StackOK, t

\* PushOK in the next state.
LEMMA PushOKNext ==
  (\A s, c : StackOK(s) /\ s # <<>> /\ CalledBy(c, s[1]) => StackOK(<<c>> \o s) /\ Len(<<c>> \o s) = Len(s) + 1)'
<1>1. \A s, c : StackOK(s) /\ s # <<>> /\ CalledBy(c, s[1]) => StackOK(<<c>> \o s) /\ Len(<<c>> \o s) = Len(s) + 1
  BY PushOK
<1> QED
  BY <1>1, PTL

\* A function that was called by the library's user, and what it calls first.
LEMMA TwoOK ==
  ASSUME NEW c, NEW bottom \in Bottoms, CalledBy(c, bottom)
  PROVE  StackOK(<<c, bottom>>) /\ Len(<<c, bottom>>) = 2
<1> DEFINE s == <<c, bottom>>
<1>1. s \in Seq(ChaseFrames \cup FindFrames \cup Bottoms) /\ Len(s) = 2 /\ s[1] = c /\ s[2] = bottom
  BY DEF CalledBy
<1> HIDE DEF s
<1>2. StackOK(s) /\ Len(s) = 2
  BY <1>1 DEF StackOK
<1> QED
  BY <1>2 DEF s

\* No function under way.
LEMMA NoneOK == StackOK(<<>>) /\ (StackOK(<<>>))'
<1>1. StackOK(<<>>)
  BY DEF StackOK
<1> QED
  BY <1>1, PTL

\* The function called last is the one its name says.
LEMMA TopOK ==
  ASSUME LinksInv, calls # <<>>
  PROVE  /\ Top = calls[1]
         /\ Top.do = "chase" => Len(calls) > 1 /\ Top \in ChaseFrames /\ ChaseRight(Top)
         /\ Top.do = "find" => Len(calls) > 1 /\ Top \in FindFrames /\ FindRight(Top)
         /\ Top.do = "enter" => Len(calls) = 1 /\ Top \in EnterFrames
<1>1. Top = calls[1]
  BY DEF Top, LinksInv, StackOK
<1>a. Len(calls) \in Nat /\ Len(calls) # 0
  BY DEF LinksInv, StackOK
<1>2. CASE Len(calls) = 1
  BY <1>1, <1>2 DEF LinksInv, EnterFrames
<1>3. CASE Len(calls) > 1
  <2>1. CalledBy(calls[1], calls[2])
    BY <1>3, PopOK DEF LinksInv
  <2>2. \/ Top \in ChaseFrames /\ ChaseRight(Top)
        \/ Top \in FindFrames /\ FindRight(Top)
    BY <1>1, <2>1 DEF CalledBy
  <2> QED
    BY <1>1, <1>3, <2>2 DEF ChaseFrames, FindFrames
<1>b. \A n \in Nat : n # 0 => n = 1 \/ n > 1
  OBVIOUS
<1>4. Len(calls) = 1 \/ Len(calls) > 1
  BY <1>a, <1>b, Zenon
<1> QED
  BY <1>2, <1>3, <1>4, Zenon

-----------------------------------------------------------------------------
(* What a node and a path lead to, by what they lead to on the way.        *)

\* A node that is no link is where it leads; a link leads where its path leads.
LEMMA FollowedLeads ==
  ASSUME DiskOK, NEW p \in Places
  PROVE  /\ LinkAt(p) = NoLink => Leads[Followed(p)] = p
         /\ LinkAt(p) # NoLink =>
              /\ Leads[<<Start(p), LinkAt(p).path>>] \in Places \cup {Nowhere}
              /\ Leads[Followed(p)] = IF Leads[<<Start(p), LinkAt(p).path>>] = Nowhere THEN Nowhere
                                      ELSE Leads[Followed(Leads[<<Start(p), LinkAt(p).path>>])]
<1>1. Followed(p) \in Goals /\ Followed(p)[1] = p /\ Followed(p)[2] = <<>>
  BY DEF Goals, Followed
<1>2. Leads \in Answers /\ Leads[Followed(p)] = End(Followed(p), Leads)
  BY <1>1, LeadsFixed
<1>3. Leads[Followed(p)] = FollowedEnd(p, Leads)
  BY <1>1, <1>2 DEF End
<1>4. LinkAt(p) # NoLink => <<Start(p), LinkAt(p).path>> \in Goals
  BY LinksLead
<1> QED
  BY <1>2, <1>3, <1>4 DEF FollowedEnd, Answers

\* A path from a node that is no link leads to the child of its first name, and on.
LEMMA PathLeads ==
  ASSUME DiskOK, NEW p \in Places, NEW w \in Ways
  PROVE  /\ Leads[<<p, w>>] = PathEnd(p, w, Leads)
         /\ Leads[<<p, w>>] \in Places \cup {Nowhere}
         /\ LinkAt(p) = NoLink /\ Named(p[1], p[2], Head(w)) # {} =>
              LET child == <<p[1], Min(Named(p[1], p[2], Head(w)))>>
              IN  Leads[<<p, w>>] = IF Len(w) = 1 THEN child ELSE Leads[<<child, Tail(w)>>]
<1>1. <<p, w>> \in Goals /\ w # <<>>
  BY WaysOK DEF Goals
<1>2. Leads \in Answers /\ Leads[<<p, w>>] = End(<<p, w>>, Leads)
  BY <1>1, LeadsFixed
<1>3. Leads[<<p, w>>] = PathEnd(p, w, Leads)
  BY <1>1, <1>2 DEF End
<1>4. p # Nowhere
  BY PlacesOK
<1>5. ASSUME LinkAt(p) = NoLink, Named(p[1], p[2], Head(w)) # {}
      PROVE  Leads[<<p, w>>] = IF Len(w) = 1 THEN <<p[1], Min(Named(p[1], p[2], Head(w)))>>
                               ELSE Leads[<<<<p[1], Min(Named(p[1], p[2], Head(w)))>>, Tail(w)>>]
  <2>1. Leads[Followed(p)] = p
    BY <1>5, FollowedLeads
  <2> QED
    BY <1>3, <1>4, <1>5, <2>1 DEF PathEnd
<1> QED
  BY <1>1, <1>2, <1>3, <1>5 DEF Answers

\* Two nodes that lead to the same place are the same for paths from them.
LEMMA PathLeadsSame ==
  ASSUME DiskOK, NEW p \in Places, NEW q \in Places, NEW w \in Ways,
         Leads[Followed(p)] = Leads[Followed(q)]
  PROVE  Leads[<<p, w>>] = Leads[<<q, w>>]
<1>1. Leads[<<p, w>>] = PathEnd(p, w, Leads) /\ Leads[<<q, w>>] = PathEnd(q, w, Leads)
  BY PathLeads
<1> QED
  BY <1>1 DEF PathEnd

-----------------------------------------------------------------------------
(* A function returns to the one that called it.                           *)

\* A function that is not the first one was called itself.
LEMMA PopTwoOK ==
  ASSUME NEW s, StackOK(s), Len(s) > 1, s[2] \notin Bottoms
  PROVE  /\ StackOK(Tail(Tail(s))) /\ Tail(Tail(s)) # <<>>
         /\ CalledBy(s[2], Tail(Tail(s))[1])
<1> DEFINE t == Tail(s)
<1>1. StackOK(t) /\ t # <<>> /\ t[1] = s[2]
  BY PopOK
<1> HIDE DEF t
<1>2. Len(t) \in Nat /\ Len(t) # 0 /\ t[Len(t)] \in Bottoms
  BY <1>1 DEF StackOK
<1>3. Len(t) # 1
  BY <1>1, <1>2
<1>a. \A n \in Nat : n # 0 /\ n # 1 => n > 1
  OBVIOUS
<1>4. Len(t) > 1
  BY <1>2, <1>3, <1>a, Zenon
<1>5. StackOK(Tail(t)) /\ Tail(t) # <<>> /\ Tail(t)[1] = t[2] /\ CalledBy(t[1], t[2])
  BY <1>1, <1>4, PopOK
<1> QED
  BY <1>1, <1>5 DEF t

\* With a call there are two functions under way at least.
LEMMA PushTwo ==
  ASSUME NEW s, StackOK(s), s # <<>>, NEW c, CalledBy(c, s[1])
  PROVE  StackOK(<<c>> \o s) /\ Len(<<c>> \o s) # 1
<1>1. StackOK(<<c>> \o s) /\ Len(<<c>> \o s) = Len(s) + 1
  BY PushOK
<1>2. Len(s) \in Nat /\ Len(s) # 0
  BY DEF StackOK
<1>3. \A n \in Nat : n # 0 => n + 1 # 1
  OBVIOUS
<1> QED
  BY <1>1, <1>2, <1>3, Zenon

\* The kinds of functions differ.
LEMMA KindsOK ==
  /\ \A c \in ChaseFrames : c.do = "chase" /\ c \notin Bottoms
  /\ \A c \in FindFrames : c.do = "find" /\ c \notin Bottoms
  /\ \A c \in CreateFrames : c.do = "create"
  /\ \A c \in Looks : c.do = "look"
BY DEF ChaseFrames, FindFrames, CreateFrames, EnterFrames, Looks, Bottoms

\* A link that has been followed: the caller goes on with the node found.
LEMMA ChaseGoesOn ==
  ASSUME DiskOK, TableOK, NEW caller \in ChaseFrames, ChaseRight(caller), IsLink(caller.at), NEW id \in LiveIDs,
         ~renamed => Leads[<<Start(Place(caller.at)), LinkPath(caller.at).path>>] = Place(id)
  PROVE  LET c == [caller EXCEPT !.at = id, !.depth = Deeper(@)]
         IN  c \in ChaseFrames /\ ChaseRight(c) /\ c.id = caller.id
<1> DEFINE c == [caller EXCEPT !.at = id, !.depth = Deeper(@)]
           p == Place(caller.at)
<1>0. caller.at \in LiveIDs /\ caller.id \in LiveIDs /\ caller.depth \in Nat
  BY DEF ChaseFrames
<1>a. Deeper(caller.depth) \in Nat /\ Deeper(caller.depth) # 0
  BY <1>0 DEF Deeper
<1>1. c \in ChaseFrames /\ c.id = caller.id /\ c.at = id /\ c.depth # 0
  BY <1>0, <1>a DEF ChaseFrames
<1>2. IsLink(caller.id)
  BY DEF ChaseRight
<1>3. p \in Places /\ Place(id) \in Places /\ LinkAt(p) # NoLink /\ LinkPath(caller.at) = LinkAt(p)
  BY <1>0, LiveOK
<1>4. Place(id) # Nowhere
  BY <1>3, PlacesOK
<1>5. ~renamed => Leads[Followed(p)] = Leads[Followed(Place(id))]
  BY <1>3, <1>4, FollowedLeads
<1>6. ~renamed => Leads[Followed(p)] = Leads[Followed(Place(caller.id))]
  BY DEF ChaseRight
<1> HIDE DEF c, p
<1>7. ChaseRight(c)
  BY <1>1, <1>2, <1>5, <1>6 DEF ChaseRight
<1> QED
  BY <1>1, <1>7 DEF c

\* A node that is no link has been found: the caller looks for the path from there.
LEMMA FindGoesOn ==
  ASSUME DiskOK, TableOK, NEW caller \in FindFrames, NEW id \in LiveIDs, ~IsLink(id),
         ~renamed => Leads[Followed(Place(caller.at))] = Place(id), NEW below, CalledBy(caller, below)
  PROVE  CalledBy([caller EXCEPT !.at = id, !.real = TRUE], below)
<1> DEFINE c == [caller EXCEPT !.at = id, !.real = TRUE]
<1>0. caller.at \in LiveIDs /\ caller.path \in Ways
  BY DEF FindFrames
<1>1. c \in FindFrames /\ c.at = id /\ c.path = caller.path /\ FindRight(c)
  BY DEF FindFrames, FindRight
<1>2. Place(id) \in Places /\ Place(caller.at) \in Places /\ LinkAt(Place(id)) = NoLink
  BY <1>0, LiveOK
<1>3. Leads[Followed(Place(id))] = Place(id)
  BY <1>2, FollowedLeads
<1>4. ~renamed => Leads[<<Place(id), caller.path>>] = Leads[<<Place(caller.at), caller.path>>]
  BY <1>0, <1>2, <1>3, PathLeadsSame
<1>5. caller \notin ChaseFrames
  BY KindsOK
<1>6. CASE below \in Looks
  BY <1>1, <1>6 DEF CalledBy
<1>7. CASE /\ below \in ChaseFrames /\ IsLink(below.at)
           /\ ~renamed => Leads[<<Place(caller.at), caller.path>>] = Leads[<<Start(Place(below.at)), LinkPath(below.at).path>>]
  <2> HIDE DEF c
  <2>1. ~renamed => Leads[<<Place(c.at), c.path>>] = Leads[<<Start(Place(below.at)), LinkPath(below.at).path>>]
    BY <1>1, <1>4, <1>7
  <2>2. CalledBy(c, below)
    BY <1>1, <1>7, <2>1 DEF CalledBy
  <2> QED
    BY <2>2 DEF c
<1> QED
  BY <1>5, <1>6, <1>7 DEF CalledBy

\* A node was found where the function was to look: its caller goes on as it should.
LEMMA ReturnOK ==
  ASSUME LinksInv, Len(calls) > 1, NEW id \in LiveIDs,
         \/ /\ Top \in ChaseFrames /\ ~IsLink(id)
            /\ id = Top.id \/ IsLink(Top.id)
            /\ ~renamed => Leads[Followed(Place(Top.id))] = Place(id)
         \/ /\ Top \in FindFrames
            /\ ~renamed => Leads[<<Place(Top.at), Top.path>>] = Place(id)
  PROVE  StackOK(Returned(id)) /\ (Len(Returned(id)) = 1 => Returned(id)[1] \in EnterFrames)
<1> DEFINE caller == calls[2]
           rest == Tail(Tail(calls))
<1>0. DiskOK /\ TableOK /\ StackOK(calls)
  BY DEF LinksInv, TableOK
<1>1. CalledBy(Top, caller) /\ Top = calls[1]
  BY <1>0, PopOK, TopOK
<1>2. caller \notin Bottoms => StackOK(rest) /\ rest # <<>> /\ CalledBy(caller, rest[1])
  BY <1>0, PopTwoOK
<1>3. Returned(id) = CASE caller.do = "chase" ->
                              IF TooDeep(Deeper(caller.depth)) THEN <<>>
                              ELSE <<[caller EXCEPT !.at = id, !.depth = Deeper(@)]>> \o rest
                         [] caller.do = "find" -> <<[caller EXCEPT !.at = id, !.real = TRUE]>> \o rest
                         [] caller.do = "create" -> <<[do |-> "enter", at |-> id, name |-> caller.name, link |-> caller.link]>>
                         [] OTHER -> <<>>
  BY DEF Returned
<1>4. StackOK(<<>>) /\ Len(<<>>) = 0
  BY NoneOK
<1> HIDE DEF caller, rest
<1>5. CASE caller \in Looks
  <2>1. caller.do = "look"
    BY <1>5, KindsOK
  <2>2. Returned(id) = <<>>
    BY <1>3, <2>1
  <2> QED
    BY <1>4, <2>2
<1>6. CASE Top \in ChaseFrames /\ caller \in CreateFrames
  <2>1. caller.do = "create" /\ Top \notin FindFrames /\ caller \notin Looks /\ caller \notin FindFrames
    BY <1>6, KindsOK
  <2> DEFINE c == [do |-> "enter", at |-> id, name |-> caller.name, link |-> caller.link]
  <2>2. Returned(id) = <<c>>
    BY <1>3, <2>1
  <2>3. caller.link # NoLink => ~IsLink(Top.id) /\ caller.link \in Targets[table[Top.id.slot]]
    BY <1>1, <2>1 DEF CalledBy
  <2>a. Top \in ChaseFrames /\ (id = Top.id \/ IsLink(Top.id))
    BY <1>6, <2>1
  <2>4. caller.link \in Targets[table[id.slot]] \cup {NoLink}
    BY <2>3, <2>a
  <2>5. c \in EnterFrames
    BY <1>6, <2>4 DEF EnterFrames, CreateFrames
  <2> HIDE DEF c
  <2>6. StackOK(<<c>>) /\ Len(<<c>>) = 1 /\ <<c>>[1] = c
    BY <2>5 DEF StackOK, Bottoms
  <2> QED
    BY <2>2, <2>5, <2>6
<1>7. CASE Top \in ChaseFrames /\ caller \in FindFrames
  <2>1. caller.do = "find" /\ Top \notin FindFrames /\ caller \notin Looks /\ caller \notin CreateFrames /\ caller \notin Bottoms
    BY <1>7, KindsOK DEF FindFrames, CreateFrames
  <2>2. Top.id = caller.at
    BY <1>1, <2>1 DEF CalledBy
  <2>3. ~IsLink(id) /\ (~renamed => Leads[Followed(Place(caller.at))] = Place(id))
    BY <2>1, <2>2
  <2> DEFINE c == [caller EXCEPT !.at = id, !.real = TRUE]
  <2>4. CalledBy(c, rest[1])
    BY <1>0, <1>2, <1>7, <2>1, <2>3, FindGoesOn
  <2> HIDE DEF c
  <2>5. StackOK(<<c>> \o rest) /\ Len(<<c>> \o rest) # 1
    BY <1>2, <2>1, <2>4, PushTwo
  <2>6. Returned(id) = <<c>> \o rest
    BY <1>3, <2>1 DEF c
  <2> QED
    BY <2>5, <2>6
<1>8. CASE Top \in FindFrames /\ caller \in ChaseFrames
  <2>1. caller.do = "chase" /\ Top \notin ChaseFrames /\ caller \notin Looks /\ caller \notin Bottoms /\ caller \notin FindFrames
    BY <1>8, KindsOK DEF FindFrames, ChaseFrames
  <2>2. /\ IsLink(caller.at)
        /\ ~renamed => Leads[<<Place(Top.at), Top.path>>] = Leads[<<Start(Place(caller.at)), LinkPath(caller.at).path>>]
    BY <1>1, <2>1 DEF CalledBy
  <2>3. ~renamed => Leads[<<Start(Place(caller.at)), LinkPath(caller.at).path>>] = Place(id)
    BY <2>1, <2>2
  <2>4. ChaseRight(caller) /\ CalledBy(caller, rest[1])
    BY <1>2, <2>1 DEF CalledBy
  <2> DEFINE c == [caller EXCEPT !.at = id, !.depth = Deeper(@)]
  <2>5. c \in ChaseFrames /\ ChaseRight(c) /\ c.id = caller.id
    BY <1>0, <1>8, <2>2, <2>3, <2>4, ChaseGoesOn
  <2>6. Returned(id) = <<>> \/ Returned(id) = <<c>> \o rest
    BY <1>3, <2>1
  <2> HIDE DEF c
  <2>7. CalledBy(c, rest[1])
    BY <2>1, <2>4, <2>5 DEF CalledBy
  <2>8. StackOK(<<c>> \o rest) /\ Len(<<c>> \o rest) # 1
    BY <1>2, <2>1, <2>7, PushTwo
  <2>9. CASE Returned(id) = <<>>
    BY <1>4, <2>9
  <2> QED
    BY <2>6, <2>8, <2>9, Zenon
<1> QED
  BY <1>1, <1>5, <1>6, <1>7, <1>8 DEF CalledBy

-----------------------------------------------------------------------------
(* The steps keep the invariant.                                           *)

\* A slot that is not in use takes a file; all other slots stay what they are.
LEMMA SlotTaken ==
  ASSUME TableOK, InUse # Slots, NEW f \in Files, table' = [table EXCEPT ![FreeSlot] = f], disk' = disk
  PROVE  Opened /\ FreeSlot \in InUse' /\ table'[FreeSlot] = f
<1>1. Slots \subseteq Nat /\ InUse \subseteq Slots
  BY LinksAssumption DEF Slots, InUse
<1>2. FreeSlot \in Slots \ InUse
  BY <1>1, MinIn DEF FreeSlot
<1>3. table'[FreeSlot] = f /\ f # Free /\ \A s \in InUse : table'[s] = table[s]
  BY <1>1, <1>2, LinksAssumption DEF TableOK
<1>4. TableOK'
  BY DEF TableOK
<1> QED
  BY <1>2, <1>3, <1>4 DEF Opened, InUse

\* What a step keeps that does not write: it opens a file at most.
LEMMA KeptOK ==
  ASSUME LinksInv, Opened, renamed' = renamed, CacheOK', NEW s, StackOK(s), Len(s) = 1 => s[1] \in EnterFrames,
         calls' = s
  PROVE  LinksInv'
<1>0. DiskOK /\ TableOK
  BY DEF LinksInv, TableOK
<1>1. DiskOK' /\ TableOK' /\ LiveIDs \subseteq LiveIDs' /\ \A id \in LiveIDs : table'[id.slot] = table[id.slot]
  BY <1>0, OpenedKeeps DEF Opened
<1>2. StackOK(s)'
  BY <1>0, StackKept
<1>3. EnterFrames \subseteq EnterFrames'
  BY <1>1 DEF EnterFrames, Links
<1>4. StackOK(calls)'
  BY <1>2
<1> QED
  BY <1>1, <1>3, <1>4 DEF LinksInv, TableOK

\* What is remembered stays right when files are opened.
LEMMA CacheKept ==
  ASSUME LinksInv, Opened, renamed' = renamed, cache' = cache
  PROVE  CacheOK'
<1>0. DiskOK /\ TableOK /\ CacheOK
  BY DEF LinksInv, TableOK
<1> SUFFICES ASSUME cache # NoCache
             PROVE  /\ cache \in LiveIDs' \X LiveIDs'
                    /\ IsLink(cache[1])' /\ ~IsLink(cache[2])'
                    /\ ~renamed => Leads'[Followed(Place(cache[1]))'] = Place(cache[2])'
  BY DEF CacheOK
<1>1. cache \in LiveIDs \X LiveIDs /\ cache[1] \in LiveIDs /\ cache[2] \in LiveIDs
  BY <1>0 DEF CacheOK
<1>2. /\ Leads' = Leads /\ LiveIDs \subseteq LiveIDs'
      /\ Place(cache[1])' = Place(cache[1]) /\ Place(cache[2])' = Place(cache[2])
      /\ (IsLink(cache[1])' <=> IsLink(cache[1])) /\ (IsLink(cache[2])' <=> IsLink(cache[2]))
  <2>2. PICK one, two : one = cache[1] /\ two = cache[2]
    OBVIOUS
  <2>3. /\ Leads' = Leads /\ LiveIDs \subseteq LiveIDs' /\ one \in LiveIDs /\ two \in LiveIDs
        /\ Place(one)' = Place(one) /\ Place(two)' = Place(two)
        /\ (IsLink(one)' <=> IsLink(one)) /\ (IsLink(two)' <=> IsLink(two))
    BY <1>0, <1>1, <2>2, OpenedKeeps
  <2>4. cache'[1] = one /\ cache'[2] = two
    BY <2>2
  <2> QED
    BY <2>2, <2>3, <2>4 DEF Place, IsLink, Node
<1> QED
  BY <1>0, <1>1, <1>2 DEF CacheOK, Followed

\* With no function under way and nothing remembered.
LEMMA ForgotOK ==
  ASSUME DiskOK', TableOK', Forget, calls' = <<>>
  PROVE  LinksInv'
<1>1. StackOK(calls)'
  BY NoneOK
<1>2. Len(calls') = 0
  OBVIOUS
<1>3. CacheOK' /\ renamed' \in BOOLEAN
  BY Zenon DEF CacheOK, Forget
<1>4. Len(calls') = 1 => calls'[1] \in EnterFrames'
  BY <1>2
<1> QED
  BY <1>1, <1>3, <1>4, Zenon DEF LinksInv, TableOK

\* ADF_Database_Open.
LEMMA OpenStep ==
  ASSUME LinksInv, NEW f \in Files, Open(f)
  PROVE  LinksInv'
<1>1. Opened
  BY SlotTaken DEF LinksInv, TableOK, Open
<1>2. CacheOK'
  BY <1>1, CacheKept DEF Open
<1> QED
  BY <1>1, <1>2, NoneOK, KeptOK DEF Open, Idle

\* ADF_Database_Close.
LEMMA CloseStep ==
  ASSUME LinksInv, NEW s \in Slots, Close(s)
  PROVE  LinksInv'
<1>1. DiskOK'
  BY DEF LinksInv, DiskOK, Close, Nodes
<1>2. TableOK'
  BY DEF LinksInv, TableOK, Close
<1> QED
  BY <1>1, <1>2, ForgotOK DEF Close, Idle

\* A step that only calls, returns or fails.
LEMMA CallsOnly ==
  ASSUME LinksInv, UNCHANGED <<disk, table, cache, renamed>>, NEW s, calls' = s,
         StackOK(s), Len(s) = 1 => s[1] \in EnterFrames
  PROVE  LinksInv'
<1>1. Opened
  BY DEF Opened, LinksInv, TableOK
<1>2. CacheOK'
  BY <1>1, CacheKept
<1> QED
  BY <1>1, <1>2, KeptOK

\* An error goes back through all callers.
LEMMA FailsStep ==
  ASSUME LinksInv, Fails
  PROVE  LinksInv'
BY CallsOnly, NoneOK DEF Fails

\* A node that is to be followed.
LEMMA ChaseBegins ==
  ASSUME NEW id \in LiveIDs
  PROVE  Chase(id) \in ChaseFrames /\ ChaseRight(Chase(id)) /\ Chase(id).id = id
BY DEF Chase, ChaseFrames, ChaseRight

\* A path that is to be looked for.
LEMMA FindBegins ==
  ASSUME NEW id \in LiveIDs, NEW path \in Ways
  PROVE  Find(id, path) \in FindFrames /\ FindRight(Find(id, path)) /\ Find(id, path).at = id
         /\ Find(id, path).path = path
BY DEF Find, FindFrames, FindRight

\* The functions of the library that follow a node.
LEMMA LookStep ==
  ASSUME LinksInv, NEW id \in LiveIDs, Look(id)
  PROVE  LinksInv'
<1> DEFINE look == [do |-> "look"]
<1>1. look \in Looks /\ look \in Bottoms
  BY DEF Looks, Bottoms
<1> HIDE DEF look
<1>2. CalledBy(Chase(id), look)
  BY <1>1, ChaseBegins DEF CalledBy
<1>3. StackOK(<<Chase(id), look>>) /\ Len(<<Chase(id), look>>) # 1
  BY <1>1, <1>2, TwoOK
<1> QED
  BY <1>3, CallsOnly DEF Look, look

\* ADF_Get_Node_ID.
LEMMA GetNodeIDStep ==
  ASSUME LinksInv, NEW id \in LiveIDs, NEW path \in Paths, GetNodeID(id, path)
  PROVE  LinksInv'
<1> DEFINE look == [do |-> "look"]
<1>1. look \in Looks /\ look \in Bottoms /\ path \in Ways
  BY WaysOK DEF Looks, Bottoms
<1> HIDE DEF look
<1>2. CalledBy(Find(id, path), look)
  BY <1>1, FindBegins DEF CalledBy
<1>3. StackOK(<<Find(id, path), look>>) /\ Len(<<Find(id, path), look>>) # 1
  BY <1>1, <1>2, TwoOK
<1> QED
  BY <1>3, CallsOnly DEF GetNodeID, look

\* ADF_Create and ADF_Link.
LEMMA CreateStep ==
  ASSUME LinksInv, NEW id \in LiveIDs, NEW name \in Names, NEW link \in Targets[table[id.slot]] \cup {NoLink},
         Create(id, name, link)
  PROVE  LinksInv'
<1> DEFINE c == [do |-> "create", name |-> name, link |-> link]
<1>0. table[id.slot] \in Files
  BY LiveOK DEF LinksInv, TableOK
<1>1. link \in Links
  BY <1>0 DEF Links
<1>2. c \in CreateFrames /\ c \in Bottoms /\ c.link = link
  BY <1>1 DEF CreateFrames, Bottoms
<1> HIDE DEF c
<1>3. link # NoLink => ~IsLink(Chase(id).id) /\ link \in Targets[table[Chase(id).id.slot]]
  BY ChaseBegins DEF Create
<1>4. CalledBy(Chase(id), c)
  BY <1>2, <1>3, ChaseBegins DEF CalledBy
<1>5. StackOK(<<Chase(id), c>>) /\ Len(<<Chase(id), c>>) # 1
  BY <1>2, <1>4, TwoOK
<1> QED
  BY <1>5, CallsOnly DEF Create, c

\* ADF_Put_Name: with another name the link that is remembered may lead elsewhere.
LEMMA PutNameStep ==
  ASSUME LinksInv, NEW id \in LiveIDs, NEW name \in Names, PutName(id, name)
  PROVE  LinksInv'
<1> DEFINE f == table[id.slot]
<1>0. DiskOK /\ TableOK /\ CacheOK
  BY DEF LinksInv, TableOK
<1>1. f \in Files /\ id.at \in Nodes(f) /\ id.at # Root
  BY <1>0, LiveOK DEF PutName
<1>2. /\ DOMAIN disk' = DOMAIN disk
      /\ \A g \in Files : /\ Nodes(g)' = Nodes(g)
                          /\ \A a \in Nodes(g) : /\ disk'[g][a].parent = disk[g][a].parent
                                                 /\ disk'[g][a].link = disk[g][a].link
  <2> DEFINE node == [disk[f][id.at] EXCEPT !.name = name]
  <2>1. disk' = [disk EXCEPT ![f] = [disk[f] EXCEPT ![id.at] = node]]
    BY DEF PutName
  <2>2. node.parent = disk[f][id.at].parent /\ node.link = disk[f][id.at].link
    OBVIOUS
  <2> HIDE DEF f, node
  <2> QED
    BY <1>0, <1>1, <2>1, <2>2 DEF Nodes, DiskOK
<1> HIDE DEF f
<1>3. DiskOK'
  BY <1>0, <1>2 DEF DiskOK
<1>4. TableOK' /\ table' = table /\ InUse' = InUse
  BY <1>0 DEF PutName, TableOK, InUse
<1>5. LiveIDs \subseteq LiveIDs' /\ \A i \in LiveIDs : IsLink(i)' <=> IsLink(i)
  <2> SUFFICES ASSUME NEW i \in LiveIDs PROVE i \in LiveIDs' /\ (IsLink(i)' <=> IsLink(i))
    OBVIOUS
  <2>1. i = ID(i.slot, i.at) /\ i.slot \in InUse /\ i.at \in Nodes(table[i.slot]) /\ table[i.slot] \in Files
    BY <1>0, LiveOK
  <2>2. i \in LiveIDs'
    BY <1>2, <1>3, <1>4, <2>1, LiveOKNext
  <2>3. Node(i)'.link = Node(i).link
    BY <1>2, <1>4, <2>1 DEF Node
  <2> QED
    BY <2>2, <2>3 DEF IsLink
<1>6. cache' = cache /\ renamed' = (cache # NoCache) /\ calls' = <<>>
  BY DEF PutName, Idle
<1>7. CacheOK'
  <2> SUFFICES ASSUME cache # NoCache
               PROVE  /\ cache \in LiveIDs' \X LiveIDs'
                      /\ IsLink(cache[1])' /\ ~IsLink(cache[2])' /\ renamed'
    BY <1>6 DEF CacheOK
  <2>1. PICK one, two : one = cache[1] /\ two = cache[2]
    OBVIOUS
  <2>2. one \in LiveIDs /\ two \in LiveIDs /\ IsLink(one) /\ ~IsLink(two) /\ cache \in LiveIDs \X LiveIDs
    BY <1>0, <2>1 DEF CacheOK
  <2>3. IsLink(one)' /\ ~IsLink(two)'
    BY <1>5, <2>2
  <2>4. cache'[1] = one /\ cache'[2] = two
    BY <1>6, <2>1
  <2> QED
    BY <1>5, <1>6, <2>2, <2>3, <2>4 DEF IsLink, Node
<1>8. StackOK(calls)'
  BY <1>6, NoneOK
<1>9. Len(calls') # 1
  BY <1>6
<1>10. renamed' \in BOOLEAN
  BY <1>6
<1> QED
  BY <1>3, <1>4, <1>7, <1>8, <1>9, <1>10 DEF LinksInv, TableOK

\* What is below a node: with each node its children, without the root.
LEMMA SubtreeOK ==
  ASSUME DiskOK, NEW f \in Files, NEW a \in Nodes(f), a # Root
  PROVE  /\ Root \notin Subtree(f, a)
         /\ \A b \in Subtree(f, a) : ChildrenOf(f, b) \subseteq Subtree(f, a)
<1>1. Root \notin Subtree(f, a)
  <2> DEFINE S == Nodes(f) \ {Root}
  <2>1. a \in S /\ S \in SUBSET Nodes(f) /\ \A c \in S : ChildrenOf(f, c) \subseteq S
    BY DEF ChildrenOf
  <2>2. Root \notin S
    OBVIOUS
  <2> HIDE DEF S
  <2> QED
    BY <2>1, <2>2 DEF Subtree
<1>2. ASSUME NEW b \in Subtree(f, a), NEW c \in ChildrenOf(f, b) PROVE c \in Subtree(f, a)
  BY <1>2 DEF Subtree, ChildrenOf
<1> QED
  BY <1>1, <1>2

\* ADF_Delete.
LEMMA DeleteStep ==
  ASSUME LinksInv, NEW id \in LiveIDs, Delete(id)
  PROVE  LinksInv'
<1> DEFINE f == table[id.slot]
           left == Nodes(f) \ Subtree(f, id.at)
<1>0. DiskOK /\ TableOK
  BY DEF LinksInv, TableOK
<1>1. f \in Files /\ id.at \in Nodes(f) /\ id.at # Root
  BY <1>0, LiveOK DEF Delete
<1>2. disk' = [disk EXCEPT ![f] = [a \in left |-> disk[f][a]]]
  BY DEF Delete
<1>3. Root \in left /\ \A a \in left : disk[f][a].parent \in left
  <2>1. Root \in left
    BY <1>0, <1>1, SubtreeOK DEF DiskOK
  <2>2. ASSUME NEW a \in left, a # Root PROVE disk[f][a].parent \in left
    <3>1. a \in Nodes(f) /\ disk[f][a].parent \in Nodes(f)
      BY <1>0, <1>1 DEF DiskOK
    <3>2. a \in ChildrenOf(f, disk[f][a].parent)
      BY <2>2, <3>1 DEF ChildrenOf
    <3> QED
      BY <1>0, <1>1, <3>1, <3>2, SubtreeOK
  <2>3. disk[f][Root].parent = Root
    BY <1>0, <1>1 DEF DiskOK
  <2> QED
    BY <2>1, <2>2, <2>3
<1> HIDE DEF f
<1>4. left \subseteq Nodes(f)
  OBVIOUS
<1> HIDE DEF left
<1>5. DiskOK'
  <2>0. DOMAIN disk = Files
    BY <1>0 DEF DiskOK
  <2>1. DOMAIN disk' = Files
    BY <1>2, <2>0
  <2>2. disk'[f] = [a \in left |-> disk[f][a]] /\ \A g \in Files \ {f} : disk'[g] = disk[g]
    BY <1>1, <1>2, <2>0
  <2>3. ASSUME NEW g \in Files
        PROVE  /\ Root \in Nodes(g)' /\ disk'[g][Root].parent = Root
               /\ Nodes(g)' \subseteq Addresses[g] \cup {Root}
               /\ \A a \in Nodes(g)' : disk'[g][a].parent \in Nodes(g)' /\ disk'[g][a].link \in Targets[g] \cup {NoLink}
    <3>1. CASE g = f
      <4>1. Nodes(g)' = left /\ \A a \in left : disk'[g][a] = disk[f][a]
        BY <2>2, <3>1 DEF Nodes
      <4>2. disk[f][Root].parent = Root /\ Nodes(f) \subseteq Addresses[f] \cup {Root}
        BY <1>0, <1>1 DEF DiskOK
      <4>3. \A a \in Nodes(f) : disk[f][a].link \in Targets[f] \cup {NoLink}
        BY <1>0, <1>1 DEF DiskOK
      <4> QED
        BY <1>3, <1>4, <3>1, <4>1, <4>2, <4>3
    <3>2. CASE g # f
      <4>1. disk'[g] = disk[g] /\ Nodes(g)' = Nodes(g)
        BY <2>2, <3>2 DEF Nodes
      <4> QED
        BY <1>0, <4>1 DEF DiskOK
    <3> QED
      BY <3>1, <3>2
  <2> QED
    BY <2>1, <2>3 DEF DiskOK
<1>6. TableOK'
  BY <1>0 DEF Delete, TableOK
<1> QED
  BY <1>5, <1>6, ForgotOK DEF Delete, Idle

\* ADF_Move_Child.
LEMMA MoveChildStep ==
  ASSUME LinksInv, NEW id \in LiveIDs, NEW p \in Nodes(table[id.slot]), MoveChild(id, p)
  PROVE  LinksInv'
<1> DEFINE f == table[id.slot]
<1>0. DiskOK /\ TableOK
  BY DEF LinksInv, TableOK
<1>1. f \in Files /\ id.at \in Nodes(f) /\ id.at # Root /\ p \in Nodes(f)
  BY <1>0, LiveOK DEF MoveChild
<1>2. DiskOK'
  <2> DEFINE node == [disk[f][id.at] EXCEPT !.parent = p]
  <2>1. disk' = [disk EXCEPT ![f] = [disk[f] EXCEPT ![id.at] = node]]
    BY DEF MoveChild
  <2>2. node.link = disk[f][id.at].link /\ (node.parent = p \/ node.parent = disk[f][id.at].parent)
    OBVIOUS
  <2> HIDE DEF f, node
  <2>3. node.parent \in Nodes(f)
    BY <1>0, <1>1, <2>2 DEF DiskOK
  <2>4. /\ DOMAIN disk' = DOMAIN disk
        /\ \A g \in Files : /\ Nodes(g)' = Nodes(g)
                            /\ \A a \in Nodes(g) :
                                 disk'[g][a] = IF g = f /\ a = id.at THEN node ELSE disk[g][a]
    BY <1>0, <1>1, <2>1 DEF Nodes, DiskOK
  <2> QED
    BY <1>0, <1>1, <2>2, <2>3, <2>4 DEF DiskOK
<1>3. TableOK'
  BY <1>0 DEF MoveChild, TableOK
<1> QED
  BY <1>2, <1>3, ForgotOK DEF MoveChild, Idle

\* The process dies.
LEMMA OverflowStep ==
  ASSUME LinksInv, Overflow
  PROVE  LinksInv'
<1>1. DiskOK'
  BY DEF LinksInv, DiskOK, Overflow, Nodes
<1>2. TableOK'
  BY DEF TableOK, Overflow
<1> QED
  BY <1>1, <1>2, ForgotOK DEF Overflow

\* A step that changes nothing.
LEMMA StutterStep ==
  ASSUME LinksInv, UNCHANGED vars
  PROVE  LinksInv'
<1>1. PICK s : s = calls
  OBVIOUS
<1>2. StackOK(s) /\ (Len(s) = 1 => s[1] \in EnterFrames)
  BY <1>1 DEF LinksInv
<1>3. calls' = s /\ UNCHANGED <<disk, table, cache, renamed>>
  BY <1>1 DEF vars
<1> QED
  BY <1>2, <1>3, CallsOnly

-----------------------------------------------------------------------------
(* The steps of following links.                                           *)

\* ADFI_chase_link with the link it remembers.
LEMMA ChaseRememberedStep ==
  ASSUME LinksInv, calls # <<>>, ChaseRemembered
  PROVE  LinksInv'
<1>1. Len(calls) > 1 /\ Top \in ChaseFrames
  BY TopOK DEF ChaseRemembered
<1>2. PICK id : id = cache[2]
  OBVIOUS
<1>3. id \in LiveIDs /\ ~IsLink(id) /\ IsLink(Top.id) /\ (~renamed => Leads[Followed(Place(Top.id))] = Place(id))
  BY <1>2 DEF LinksInv, CacheOK, ChaseRemembered
<1>4. StackOK(Returned(id)) /\ (Len(Returned(id)) = 1 => Returned(id)[1] \in EnterFrames)
  BY <1>1, <1>3, ReturnOK
<1>5. calls' = Returned(id) /\ UNCHANGED <<disk, table, cache, renamed>>
  BY <1>2 DEF ChaseRemembered, Return
<1>6. PICK s : s = Returned(id)
  OBVIOUS
<1>7. StackOK(s) /\ (Len(s) = 1 => s[1] \in EnterFrames) /\ calls' = s
  BY <1>4, <1>5, <1>6
<1> QED
  BY <1>5, <1>7, CallsOnly

\* ADFI_chase_link at a node that is no link: it is remembered.
LEMMA ChaseEndsStep ==
  ASSUME LinksInv, calls # <<>>, ChaseEnds
  PROVE  LinksInv'
<1>0. DiskOK /\ TableOK /\ CacheOK
  BY DEF LinksInv, TableOK
<1>1. Len(calls) > 1 /\ Top \in ChaseFrames /\ ChaseRight(Top)
  BY TopOK DEF ChaseEnds, NotRemembered
<1>2. PICK id, from : id = Top.at /\ from = Top.id
  OBVIOUS
<1>3. id \in LiveIDs /\ from \in LiveIDs /\ ~IsLink(id) /\ (id = from \/ IsLink(from))
  BY <1>1, <1>2 DEF ChaseEnds, ChaseFrames, ChaseRight
<1>4. Leads[Followed(Place(id))] = Place(id)
  BY <1>0, <1>3, LiveOK, FollowedLeads
<1>5. ~renamed => Leads[Followed(Place(from))] = Place(id)
  BY <1>1, <1>2, <1>4 DEF ChaseRight
<1>6. StackOK(Returned(id)) /\ (Len(Returned(id)) = 1 => Returned(id)[1] \in EnterFrames)
  BY <1>1, <1>2, <1>3, <1>5, ReturnOK
<1>7. PICK s : s = Returned(id)
  OBVIOUS
<1>8. StackOK(s) /\ (Len(s) = 1 => s[1] \in EnterFrames) /\ calls' = s
  BY <1>2, <1>6, <1>7 DEF ChaseEnds, Return
<1>9. UNCHANGED <<disk, table, renamed>> /\ cache' = IF id = from THEN cache ELSE <<from, id>>
  BY <1>2 DEF ChaseEnds
<1>10. Opened
  BY <1>0, <1>9 DEF Opened, TableOK
<1>11. CASE id = from
  <2>1. CacheOK'
    BY <1>9, <1>10, <1>11, CacheKept
  <2> QED
    BY <1>8, <1>9, <1>10, <2>1, KeptOK
<1>12. CASE id # from
  <2>1. /\ Leads' = Leads /\ id \in LiveIDs' /\ from \in LiveIDs' /\ (IsLink(id)' <=> IsLink(id)) /\ (IsLink(from)' <=> IsLink(from))
        /\ Place(id)' = Place(id) /\ Place(from)' = Place(from)
    BY <1>0, <1>3, <1>10, OpenedKeeps
  <2>2. cache' = <<from, id>> /\ cache'[1] = from /\ cache'[2] = id
    BY <1>9, <1>12
  <2>3. CacheOK'
    <3> SUFFICES /\ cache' \in LiveIDs' \X LiveIDs'
                 /\ IsLink(cache[1])' /\ ~IsLink(cache[2])'
                 /\ ~renamed => Leads'[Followed(Place(cache[1]))'] = Place(cache[2])'
      BY <1>9 DEF CacheOK
    <3>1. (IsLink(cache[1])' <=> IsLink(from)') /\ (IsLink(cache[2])' <=> IsLink(id)')
      BY <2>2 DEF IsLink, Node
    <3>2. Place(cache[1])' = Place(from)' /\ Place(cache[2])' = Place(id)'
      BY <2>2 DEF Place
    <3> QED
      BY <1>3, <1>5, <1>12, <2>1, <2>2, <3>1, <3>2 DEF Followed
  <2> QED
    BY <1>8, <1>9, <1>10, <2>3, KeptOK
<1> QED
  BY <1>11, <1>12

\* ADFI_chase_link at a link: what it calls to look for the path.
LEMMA FollowOK ==
  ASSUME LinksInv, calls # <<>>, NotRemembered, IsLink(Top.at), Opened, UNCHANGED <<cache, renamed>>,
         NEW slot \in InUse', table'[slot] = Start(Place(Top.at))[1], Follow(slot)
  PROVE  LinksInv'
<1>0. DiskOK /\ TableOK /\ CacheOK /\ StackOK(calls)
  BY DEF LinksInv, TableOK
<1>1. Top = calls[1] /\ Top \in ChaseFrames /\ ChaseRight(Top)
  BY TopOK DEF NotRemembered
<1>2. PICK s, top, at : s = calls /\ top = Top /\ at = Top.at
  OBVIOUS
<1>3. at \in LiveIDs /\ Place(at) \in Places /\ LinkAt(Place(at)) # NoLink /\ LinkPath(at) = LinkAt(Place(at))
  BY <1>0, <1>1, <1>2, LiveOK DEF ChaseFrames
<1>4. LinkPath(at).path \in Ways /\ Start(Place(at)) \in Places
  BY <1>0, <1>3, LinksLead
<1>5. PICK path : path = LinkPath(at).path
  OBVIOUS
<1> DEFINE c == Find(RootID(slot), path)
<1>6. /\ DiskOK' /\ TableOK' /\ Leads' = Leads /\ Place(at)' = Place(at) /\ LinkPath(at)' = LinkPath(at)
      /\ Start(Place(at))' = Start(Place(at)) /\ (IsLink(at)' <=> IsLink(at)) /\ at \in LiveIDs'
  <2>1. PICK p : p = Place(at)
    OBVIOUS
  <2>2. Start(p)' = Start(p) /\ Place(at)' = p
    BY <1>0, <1>3, <2>1, OpenedKeeps
  <2>3. Start(Place(at))' = Start(p)'
    BY <2>2 DEF Start, LinkAt
  <2> QED
    BY <1>0, <1>3, <2>1, <2>2, <2>3, OpenedKeeps DEF Opened
<1>7. RootID(slot) \in LiveIDs' /\ Place(RootID(slot))' = Start(Place(at)) /\ Root \in Nodes(table[slot])'
  <2>1. RootID(slot).slot = slot /\ RootID(slot).at = Root /\ RootID(slot) = ID(slot, Root)
    BY DEF RootID, ID
  <2>2. Start(Place(at)) = <<table'[slot], Root>> /\ table'[slot] \in Files
    BY <1>2, <1>4, PlacesOK DEF Start
  <2>3. Root \in Nodes(table[slot])'
    BY <1>6, <2>2 DEF DiskOK
  <2>4. RootID(slot) \in LiveIDs'
    BY <1>6, <2>1, <2>3, LiveOKNext
  <2> QED
    BY <2>1, <2>2, <2>3, <2>4 DEF Place
<1>8. c \in FindFrames' /\ FindRight(c)' /\ c.at = RootID(slot) /\ c.path = path
  BY <1>4, <1>5, <1>7 DEF Find, FindFrames, FindRight, Ways, Paths
<1>9. StackOK(s)' /\ s # <<>> /\ s[1] = top
  BY <1>0, <1>1, <1>2, StackKept
<1>10. top \in ChaseFrames' /\ top.at = at
  BY <1>0, <1>1, <1>2, OpenedKeeps DEF ChaseFrames
<1>11. CalledBy(c, top)'
  <2> HIDE DEF c
  <2>1. Place(c.at)' = Start(Place(at)) /\ LinkPath(top.at)' = LinkPath(at) /\ Start(Place(top.at))' = Start(Place(at))
    BY <1>6, <1>7, <1>8, <1>10
  <2>2. Leads'[<<Place(c.at)', c.path>>] = Leads'[<<Start(Place(top.at))', LinkPath(top.at)'.path>>]
    BY <1>5, <1>8, <2>1
  <2>3. IsLink(top.at)'
    BY <1>2, <1>6, <1>10
  <2> QED
    BY <1>8, <1>10, <2>2, <2>3 DEF CalledBy
<1> HIDE DEF c
<1>12. StackOK(<<c>> \o s)' /\ Len(<<c>> \o s) = Len(s) + 1
  BY <1>9, <1>11, PushOKNext
<1>13. calls' = <<c>> \o s
  BY <1>2, <1>5 DEF c, Follow
<1>14. Len(calls') # 1
  <2>1. Len(s) \in Nat /\ Len(s) # 0
    BY <1>0, <1>2 DEF StackOK
  <2>2. \A n \in Nat : n # 0 => n + 1 # 1
    OBVIOUS
  <2> QED
    BY <1>12, <1>13, <2>1, <2>2, Zenon
<1>15. StackOK(calls)'
  BY <1>12, <1>13
<1>16. CacheOK'
  BY CacheKept
<1> QED
  BY <1>6, <1>14, <1>15, <1>16 DEF LinksInv, TableOK

\* The path of a link is looked for in the file it says, which is open.
LEMMA ChaseHereStep ==
  ASSUME LinksInv, calls # <<>>, ChaseHere
  PROVE  LinksInv'
<1>0. DiskOK /\ TableOK
  BY DEF LinksInv, TableOK
<1>1. Top.at \in LiveIDs
  BY TopOK DEF ChaseHere, NotRemembered, ChaseFrames
<1>2. PICK slot : slot = Top.at.slot
  OBVIOUS
<1>3. slot \in InUse /\ LinkPath(Top.at) = LinkAt(Place(Top.at))
  BY <1>0, <1>1, <1>2, LiveOK
<1>4. Start(Place(Top.at))[1] = table[slot]
  BY <1>2, <1>3 DEF Start, Place, ChaseHere
<1>5. Opened /\ slot \in InUse' /\ table' = table
  BY <1>0, <1>3 DEF Opened, TableOK, ChaseHere, InUse
<1>6. Follow(slot)
  BY <1>2 DEF ChaseHere
<1> QED
  BY <1>4, <1>5, <1>6, FollowOK DEF ChaseHere

\* The file a link says is open already: the first slot with it is taken.
LEMMA ChaseOpenStep ==
  ASSUME LinksInv, calls # <<>>, ChaseOpen
  PROVE  LinksInv'
<1>0. DiskOK /\ TableOK
  BY DEF LinksInv, TableOK
<1>1. Top.at \in LiveIDs
  BY TopOK DEF ChaseOpen, NotRemembered, ChaseFrames
<1>2. LinkPath(Top.at) = LinkAt(Place(Top.at))
  BY <1>0, <1>1, LiveOK
<1>3. PICK slot, file : file = LinkPath(Top.at).file /\ slot = Min(SlotsOf(file))
  OBVIOUS
<1>4. SlotsOf(file) # {} /\ SlotsOf(file) \subseteq InUse /\ InUse \subseteq Slots /\ Slots \subseteq Nat
  BY <1>3 DEF ChaseOpen, SlotsOf, InUse, Slots
<1>5. slot \in SlotsOf(file)
  BY <1>3, <1>4, MinIn
<1>6. slot \in InUse /\ table[slot] = file /\ file \in Files
  BY <1>0, <1>4, <1>5 DEF SlotsOf, InUse, TableOK
<1>7. file # Here
  BY <1>6, LinksAssumption
<1>8. Start(Place(Top.at))[1] = table[slot]
  BY <1>2, <1>3, <1>6, <1>7 DEF Start
<1>9. Opened /\ slot \in InUse' /\ table' = table
  BY <1>0, <1>6 DEF Opened, TableOK, ChaseOpen, InUse
<1>10. Follow(slot)
  BY <1>3 DEF ChaseOpen
<1> QED
  BY <1>8, <1>9, <1>10, FollowOK DEF ChaseOpen

\* The file a link says is opened, if a slot is left.
LEMMA ChaseOpensStep ==
  ASSUME LinksInv, calls # <<>>, ChaseOpens
  PROVE  LinksInv'
<1>0. DiskOK /\ TableOK
  BY DEF LinksInv, TableOK
<1>1. Top.at \in LiveIDs
  BY TopOK DEF ChaseOpens, NotRemembered, ChaseFrames
<1>2. LinkPath(Top.at) = LinkAt(Place(Top.at)) /\ Place(Top.at) \in Places /\ LinkAt(Place(Top.at)) # NoLink
  BY <1>0, <1>1, LiveOK DEF ChaseOpens
<1>3. PICK slot, file : file = LinkPath(Top.at).file /\ slot = FreeSlot
  OBVIOUS
<1>4. file \in Files /\ file # Here
  BY <1>0, <1>2, <1>3, LinksLead DEF ChaseOpens
<1>5. CASE InUse = Slots
  <2>1. Fails
    BY <1>5 DEF ChaseOpens
  <2> QED
    BY <2>1, FailsStep
<1>6. CASE InUse # Slots
  <2>1. table' = [table EXCEPT ![FreeSlot] = file] /\ Follow(slot) /\ UNCHANGED <<disk, cache, renamed>>
    BY <1>3, <1>6 DEF ChaseOpens
  <2>2. Opened /\ slot \in InUse' /\ table'[slot] = file
    BY <1>0, <1>3, <1>4, <1>6, <2>1, SlotTaken
  <2>3. Start(Place(Top.at))[1] = file
    BY <1>2, <1>3, <1>4 DEF Start
  <2> QED
    BY <2>1, <2>2, <2>3, FollowOK DEF ChaseOpens
<1> QED
  BY <1>5, <1>6

\* ADF_Get_Node_ID follows the node it is at.
LEMMA FindRealStep ==
  ASSUME LinksInv, calls # <<>>, FindReal
  PROVE  LinksInv'
<1>1. Top = calls[1] /\ Top \in FindFrames /\ StackOK(calls)
  BY TopOK DEF FindReal, LinksInv
<1>2. PICK s, c : s = calls /\ c = Chase(Top.at)
  OBVIOUS
<1>3. Top.at \in LiveIDs
  BY <1>1 DEF FindFrames
<1>4. c \in ChaseFrames /\ ChaseRight(c) /\ c.id = Top.at
  BY <1>2, <1>3, ChaseBegins
<1>5. CalledBy(c, s[1])
  BY <1>1, <1>2, <1>4 DEF CalledBy, FindReal
<1>6. StackOK(<<c>> \o s) /\ Len(<<c>> \o s) # 1
  BY <1>1, <1>2, <1>5, PushTwo
<1>7. calls' = <<c>> \o s /\ UNCHANGED <<disk, table, cache, renamed>>
  BY <1>2 DEF FindReal
<1> QED
  BY <1>6, <1>7, CallsOnly

\* ADF_Get_Node_ID goes on to the child with the next name.
LEMMA FindChildStep ==
  ASSUME LinksInv, calls # <<>>, FindChild
  PROVE  LinksInv'
<1>0. DiskOK /\ TableOK /\ StackOK(calls)
  BY DEF LinksInv, TableOK
<1>1. Top = calls[1] /\ Top \in FindFrames /\ FindRight(Top) /\ Len(calls) > 1
  BY TopOK DEF FindChild
<1>2. PICK at, path : at = Top.at /\ path = Top.path
  OBVIOUS
<1>3. at \in LiveIDs /\ path \in Ways /\ ~IsLink(at)
  BY <1>1, <1>2 DEF FindFrames, FindRight, FindChild
<1>4. at.slot \in InUse /\ Place(at) \in Places /\ LinkAt(Place(at)) = NoLink /\ Place(at) = <<table[at.slot], at.at>>
  BY <1>0, <1>3, LiveOK DEF Place
<1>5. PICK here : here = Named(table[at.slot], at.at, Head(path))
  OBVIOUS
<1>6. CASE here = {}
  <2>1. Fails
    BY <1>2, <1>5, <1>6 DEF FindChild
  <2> QED
    BY <2>1, FailsStep
<1>7. CASE here # {}
  <2>1. PICK child : child = ID(at.slot, Min(here))
    OBVIOUS
  <2>a. PICK p : p = Place(at)
    OBVIOUS
  <2>b. /\ p \in Places /\ LinkAt(p) = NoLink /\ p[1] = table[at.slot]
        /\ Named(p[1], p[2], Head(path)) = here /\ Named(p[1], p[2], Head(path)) # {}
    BY <1>4, <1>5, <1>7, <2>a
  <2>2. Min(here) \in Nodes(table[at.slot])
    BY <1>0, <2>b, ChildLeads
  <2>3. child \in LiveIDs /\ Place(child) = <<table[at.slot], Min(here)>>
    BY <1>0, <1>4, <2>1, <2>2, LiveOK DEF Place, ID
  <2>4. Leads[<<Place(at), path>>] = IF Len(path) = 1 THEN Place(child) ELSE Leads[<<Place(child), Tail(path)>>]
    <3>1. Leads[<<p, path>>] = IF Len(path) = 1 THEN <<p[1], Min(Named(p[1], p[2], Head(path)))>>
                               ELSE Leads[<<<<p[1], Min(Named(p[1], p[2], Head(path)))>>, Tail(path)>>]
      BY <1>0, <1>3, <2>b, PathLeads
    <3>2. Leads[<<p, path>>] = IF Len(path) = 1 THEN <<table[at.slot], Min(here)>>
                               ELSE Leads[<<<<table[at.slot], Min(here)>>, Tail(path)>>]
      BY <2>b, <3>1
    <3> QED
      BY <2>3, <2>a, <3>2
  <2>5. UNCHANGED <<disk, table, cache, renamed>>
    BY <1>2, <1>5, <1>7 DEF FindChild
  <2>6. CASE Len(path) = 1
    <3>1. StackOK(Returned(child)) /\ (Len(Returned(child)) = 1 => Returned(child)[1] \in EnterFrames)
      BY <1>1, <1>2, <2>3, <2>4, <2>6, ReturnOK
    <3>2. PICK s : s = Returned(child)
      OBVIOUS
    <3>3. calls' = s
      BY <1>2, <1>5, <1>7, <2>1, <2>6, <3>2 DEF FindChild, Return
    <3> QED
      BY <2>5, <3>1, <3>2, <3>3, CallsOnly
  <2>7. CASE Len(path) # 1
    <3>1. PICK c, s : c = Find(child, Tail(path)) /\ s = Tail(calls)
      OBVIOUS
    <3>2. Tail(path) \in Ways
      BY <1>3, <2>7, WaysOK
    <3>3. c \in FindFrames /\ FindRight(c) /\ c.at = child /\ c.path = Tail(path)
      BY <2>3, <3>1, <3>2, FindBegins
    <3>4. StackOK(s) /\ s # <<>> /\ s[1] = calls[2] /\ CalledBy(calls[1], calls[2])
      BY <1>0, <1>1, <3>1, PopOK
    <3>5. Top \notin ChaseFrames
      BY <1>1, KindsOK
    <3>6. PICK caller : caller = calls[2]
      OBVIOUS
    <3>7. \/ caller \in Looks
          \/ /\ caller \in ChaseFrames /\ IsLink(caller.at)
             /\ ~renamed => Leads[<<Place(at), path>>] = Leads[<<Start(Place(caller.at)), LinkPath(caller.at).path>>]
      BY <1>1, <1>2, <3>4, <3>5, <3>6 DEF CalledBy
    <3>8. Leads[<<Place(c.at), c.path>>] = Leads[<<Place(at), path>>]
      BY <2>4, <2>7, <3>3
    <3>9. CalledBy(c, caller)
      BY <3>3, <3>7, <3>8 DEF CalledBy
    <3>10. StackOK(<<c>> \o s) /\ Len(<<c>> \o s) # 1
      BY <3>4, <3>6, <3>9, PushTwo
    <3>11. calls' = <<c>> \o s
      BY <1>2, <1>5, <1>7, <2>1, <2>7, <3>1 DEF FindChild
    <3> QED
      BY <2>5, <3>10, <3>11, CallsOnly
  <2> QED
    BY <2>6, <2>7
<1> QED
  BY <1>6, <1>7

\* ADF_Create writes the node and its entry: what is known leads nowhere else.
LEMMA EnterStep ==
  ASSUME LinksInv, calls # <<>>, Enter
  PROVE  LinksInv'
<1>0. DiskOK /\ TableOK /\ CacheOK
  BY DEF LinksInv, TableOK
<1>1. Top \in EnterFrames
  BY TopOK DEF Enter
<1>2. PICK f, at, name, link : f = table[Top.at.slot] /\ at = Top.at.at /\ name = Top.name /\ link = Top.link
  OBVIOUS
<1>3. f \in Files /\ at \in Nodes(f) /\ link \in Targets[f] \cup {NoLink}
  BY <1>0, <1>1, <1>2, LiveOK DEF EnterFrames
<1>4. PICK free : free = Addresses[f] \ Nodes(f)
  OBVIOUS
<1>5. CASE Named(f, at, name) # {} \/ free = {}
  <2>1. Fails
    BY <1>2, <1>4, <1>5 DEF Enter
  <2> QED
    BY <2>1, FailsStep
<1>6. CASE Named(f, at, name) = {} /\ free # {}
  <2>1. PICK new : new = Min(free)
    OBVIOUS
  <2>2. new \in Addresses[f] /\ new \notin Nodes(f) /\ new # Root
    <3>1. free \subseteq Nat
      BY <1>3, <1>4, LinksAssumption
    <3> QED
      BY <1>0, <1>3, <1>4, <1>6, <2>1, <3>1, MinIn DEF DiskOK
  <2>3. PICK node : node = [parent |-> at, name |-> name, link |-> link]
    OBVIOUS
  <2>4. /\ disk' = [disk EXCEPT ![f] = [a \in Nodes(f) \cup {new} |-> IF a \in Nodes(f) THEN disk[f][a] ELSE node]]
        /\ calls' = <<>> /\ UNCHANGED <<table, cache, renamed>>
    BY <1>2, <1>4, <1>6, <2>1, <2>3 DEF Enter
  <2>5. /\ DOMAIN disk' = Files
        /\ \A g \in Files : /\ Nodes(g)' = IF g = f THEN Nodes(f) \cup {new} ELSE Nodes(g)
                            /\ \A a \in Nodes(g) : disk'[g][a] = disk[g][a]
        /\ disk'[f][new] = node
    BY <1>0, <1>3, <2>2, <2>4 DEF DiskOK, Nodes
  <2>6. node.parent = at /\ node.name = name /\ node.link = link
    BY <2>3
  <2>7. DiskOK'
    <3> SUFFICES ASSUME NEW g \in Files
                 PROVE  /\ Root \in Nodes(g)' /\ disk'[g][Root].parent = Root
                        /\ Nodes(g)' \subseteq Addresses[g] \cup {Root}
                        /\ \A a \in Nodes(g)' : disk'[g][a].parent \in Nodes(g)' /\ disk'[g][a].link \in Targets[g] \cup {NoLink}
      BY <2>5 DEF DiskOK
    <3>1. /\ Root \in Nodes(g) /\ disk[g][Root].parent = Root /\ Nodes(g) \subseteq Addresses[g] \cup {Root}
          /\ \A a \in Nodes(g) : disk[g][a].parent \in Nodes(g) /\ disk[g][a].link \in Targets[g] \cup {NoLink}
      BY <1>0 DEF DiskOK
    <3>2. CASE g = f
      BY <1>3, <2>2, <2>5, <2>6, <3>1, <3>2
    <3>3. CASE g # f
      BY <2>5, <3>1, <3>3
    <3> QED
      BY <3>2, <3>3
  <2>8. TableOK' /\ InUse' = InUse /\ table' = table
    BY <1>0, <2>4 DEF TableOK, InUse
  <2>9. Grown
    <3> SUFFICES ASSUME NEW g \in Files, NEW a \in Nodes(g), NEW any, Named(g, a, any) # {}
                 PROVE  Named(g, a, any)' = Named(g, a, any)
      BY <2>5 DEF Grown
    <3>1. CASE g # f
      BY <2>5, <3>1 DEF Named, ChildrenOf
    <3>2. CASE g = f
      <4>1. ~(at = a /\ name = any)
        BY <1>6, <3>2
      <4> QED
        BY <2>2, <2>5, <2>6, <3>2, <4>1 DEF Named, ChildrenOf
    <3> QED
      BY <3>1, <3>2
  <2>10. /\ LiveIDs \subseteq LiveIDs'
         /\ \A id \in LiveIDs : Place(id)' = Place(id) /\ (IsLink(id)' <=> IsLink(id))
    <3> SUFFICES ASSUME NEW id \in LiveIDs
                 PROVE  id \in LiveIDs' /\ Place(id)' = Place(id) /\ (IsLink(id)' <=> IsLink(id))
      OBVIOUS
    <3>1. id = ID(id.slot, id.at) /\ id.slot \in InUse /\ id.at \in Nodes(table[id.slot]) /\ table[id.slot] \in Files
      BY <1>0, LiveOK
    <3>2. id \in LiveIDs'
      BY <2>5, <2>7, <2>8, <3>1, LiveOKNext
    <3>3. Node(id)' = Node(id) /\ Place(id)' = Place(id)
      BY <2>5, <2>8, <3>1 DEF Node, Place
    <3> QED
      BY <3>2, <3>3 DEF IsLink
  <2>11. CacheOK'
    <3> SUFFICES ASSUME cache # NoCache
                 PROVE  /\ cache \in LiveIDs' \X LiveIDs'
                        /\ IsLink(cache[1])' /\ ~IsLink(cache[2])'
                        /\ ~renamed => Leads'[Followed(Place(cache[1]))'] = Place(cache[2])'
      BY <2>4 DEF CacheOK
    <3>1. PICK one, two : one = cache[1] /\ two = cache[2]
      OBVIOUS
    <3>2. /\ one \in LiveIDs /\ two \in LiveIDs /\ IsLink(one) /\ ~IsLink(two) /\ cache \in LiveIDs \X LiveIDs
          /\ ~renamed => Leads[Followed(Place(one))] = Place(two)
      BY <1>0, <3>1 DEF CacheOK
    <3>3. cache'[1] = one /\ cache'[2] = two
      BY <2>4, <3>1
    <3>4. IsLink(one)' /\ ~IsLink(two)' /\ Place(one)' = Place(one) /\ Place(two)' = Place(two)
      BY <2>10, <3>2
    <3>5. Place(one) \in Places /\ Place(two) \in Places
      BY <1>0, <3>2, LiveOK
    <3>6. Place(two) # Nowhere /\ Followed(Place(one)) \in Goals
      BY <3>5, PlacesOK DEF Goals, Followed
    <3>7. PICK g, end : g = Followed(Place(one)) /\ end = Place(two)
      OBVIOUS
    <3>8. ~renamed => Leads'[g] = end
      BY <1>0, <2>7, <2>9, <3>2, <3>6, <3>7, LeadsGrow
    <3>9. Followed(Place(cache[1]))' = g /\ Place(cache[2])' = end
      BY <3>3, <3>4, <3>7 DEF Followed, Place
    <3>10. IsLink(cache[1])' /\ ~IsLink(cache[2])'
      BY <3>3, <3>4 DEF IsLink, Node
    <3> QED
      BY <2>10, <3>2, <3>8, <3>9, <3>10
  <2>12. StackOK(calls)' /\ Len(calls') # 1
    BY <2>4, NoneOK
  <2>13. renamed' \in BOOLEAN
    BY <2>4 DEF LinksInv
  <2> QED
    BY <2>7, <2>8, <2>11, <2>12, <2>13 DEF LinksInv, TableOK
<1> QED
  BY <1>5, <1>6

-----------------------------------------------------------------------------
(* The theorems.                                                           *)

\* Initially nothing is open, nothing remembered and nothing under way.
LEMMA InitOK == Init => LinksInv
<1> SUFFICES ASSUME Init PROVE LinksInv
  OBVIOUS
<1>1. DiskOK
  <2>1. \A f \in Files : Nodes(f) = {Root} /\ disk[f][Root].parent = Root /\ disk[f][Root].link = NoLink
    BY DEF Init, Nodes
  <2>2. DOMAIN disk = Files
    BY DEF Init
  <2> QED
    BY <2>1, <2>2 DEF DiskOK
<1>2. TableOK
  BY DEF Init, TableOK
<1>3. CacheOK /\ renamed \in BOOLEAN
  BY Zenon DEF Init, CacheOK
<1>4. StackOK(calls) /\ Len(calls) # 1
  BY NoneOK DEF Init
<1> QED
  BY <1>1, <1>2, <1>3, <1>4 DEF LinksInv, TableOK

\* Every step keeps the invariant.
LEMMA NextOK == LinksInv /\ [Next]_vars => LinksInv'
<1> SUFFICES ASSUME LinksInv, [Next]_vars PROVE LinksInv'
  OBVIOUS
<1>1. ASSUME NEW f \in Files, Open(f) PROVE LinksInv'
  BY <1>1, OpenStep
<1>2. ASSUME NEW s \in Slots, Close(s) PROVE LinksInv'
  BY <1>2, CloseStep
<1>3. ASSUME NEW id \in LiveIDs, Look(id) PROVE LinksInv'
  BY <1>3, LookStep
<1>4. ASSUME NEW id \in LiveIDs, Delete(id) PROVE LinksInv'
  BY <1>4, DeleteStep
<1>5. ASSUME NEW id \in LiveIDs, NEW path \in Paths, GetNodeID(id, path) PROVE LinksInv'
  BY <1>5, GetNodeIDStep
<1>6. ASSUME NEW id \in LiveIDs, NEW name \in Names, PutName(id, name) PROVE LinksInv'
  BY <1>6, PutNameStep
<1>7. ASSUME NEW id \in LiveIDs, NEW name \in Names, NEW link \in Targets[table[id.slot]] \cup {NoLink},
             Create(id, name, link)
      PROVE  LinksInv'
  BY <1>7, CreateStep
<1>8. ASSUME NEW id \in LiveIDs, NEW p \in Nodes(table[id.slot]), MoveChild(id, p) PROVE LinksInv'
  BY <1>8, MoveChildStep
<1>9. CASE Step
  <2>1. calls # <<>>
    BY <1>9 DEF Step
  <2> QED
    BY <1>9, <2>1, ChaseRememberedStep, ChaseEndsStep, ChaseHereStep, ChaseOpenStep, ChaseOpensStep,
       FindRealStep, FindChildStep, EnterStep DEF Step
<1>10. CASE Overflow
  BY <1>10, OverflowStep
<1>11. CASE UNCHANGED vars
  BY <1>11, StutterStep
<1> QED
  BY <1>1, <1>2, <1>3, <1>4, <1>5, <1>6, <1>7, <1>8, <1>9, <1>10, <1>11 DEF Next

\* The invariant holds in every state.
THEOREM LinksInvariant == Spec => []LinksInv
BY InitOK, NextOK, PTL DEF Spec

\* TypeOK (ADFI_chase_link, ADF_Get_Node_ID, ADF_Create): the nodes of each file have
\* parents there and links that can be, each slot of the table is free or holds a file,
\* and the identifiers that are remembered and those of the functions under way are of
\* nodes there are, whatever was closed and deleted since.
THEOREM TypeCorrect == Spec => []TypeOK
<1>1. LinksInv => TypeOK
  <2> SUFFICES ASSUME LinksInv PROVE TypeOK
    OBVIOUS
  <2>1. DiskOK /\ TableOK /\ CacheOK /\ StackOK(calls)
    BY DEF LinksInv, TableOK
  <2>2. ASSUME NEW i \in DOMAIN calls, calls[i].do \in {"chase", "find", "enter"}
        PROVE  calls[i].at \in LiveIDs
    <3>1. calls[i] \in ChaseFrames \cup FindFrames \cup CreateFrames \cup EnterFrames \cup Looks
      BY <2>1 DEF StackOK, Bottoms
    <3>2. calls[i].do # "create" /\ calls[i].do # "look"
      BY <2>2
    <3> QED
      BY <3>1, <3>2, KindsOK DEF ChaseFrames, FindFrames, EnterFrames
  <2>3. cache # NoCache => cache[1] \in LiveIDs /\ cache[2] \in LiveIDs
    BY <2>1 DEF CacheOK
  <2> QED
    BY <2>1, <2>2, <2>3 DEF TypeOK, DiskOK, TableOK
<1> QED
  BY <1>1, LinksInvariant, PTL

\* RememberedIsRight (ADFI_chase_link): the link that is remembered leads where its
\* path leads, whatever was created, deleted, moved, opened and closed since, in any
\* file, when no node got another name.
THEOREM Remembered == Spec => []RememberedIsRight
<1>1. LinksInv => RememberedIsRight
  BY DEF LinksInv, CacheOK, RememberedIsRight
<1> QED
  BY <1>1, LinksInvariant, PTL

\* Where ADFI_chase_link ends is where the path of the link leads.
FoundIsRight ==
  \A i \in DOMAIN calls :
    calls[i].do = "chase" /\ ~IsLink(calls[i].at) /\ ~renamed =>
      Leads[Followed(Place(calls[i].id))] = Place(calls[i].at)

\* FoundIsRight (ADFI_chase_link, ADF_Get_Node_ID): a function that follows a link and
\* has come to a node that is no link has come to where the path of the link leads,
\* through whatever files, links on the way and remembered links it went.
THEOREM FollowedRight == Spec => []FoundIsRight
<1>1. LinksInv => FoundIsRight
  <2> SUFFICES ASSUME LinksInv, ~renamed, NEW i \in DOMAIN calls, calls[i].do = "chase", ~IsLink(calls[i].at)
               PROVE  Leads[Followed(Place(calls[i].id))] = Place(calls[i].at)
    BY DEF FoundIsRight
  <2>1. DiskOK /\ TableOK /\ StackOK(calls)
    BY DEF LinksInv, TableOK
  <2>2. calls[i] \in ChaseFrames
    BY <2>1, KindsOK DEF StackOK, Bottoms, FindFrames, CreateFrames, EnterFrames
  <2>3. i # Len(calls)
    BY <2>1, <2>2, KindsOK DEF StackOK
  <2>4. i \in 1..(Len(calls) - 1)
    BY <2>1, <2>3 DEF StackOK
  <2>5. CalledBy(calls[i], calls[i + 1]) /\ calls[i] \notin FindFrames
    BY <2>1, <2>2, <2>4, KindsOK DEF StackOK
  <2>6. Leads[Followed(Place(calls[i].at))] = Leads[Followed(Place(calls[i].id))]
    BY <2>5 DEF CalledBy, ChaseRight
  <2>7. Place(calls[i].at) \in Places /\ LinkAt(Place(calls[i].at)) = NoLink
    BY <2>1, <2>2, LiveOK DEF ChaseFrames
  <2> QED
    BY <2>1, <2>6, <2>7, FollowedLeads
<1> QED
  BY <1>1, LinksInvariant, PTL
=============================================================================
