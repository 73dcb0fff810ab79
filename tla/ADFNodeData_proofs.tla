------------------------- MODULE ADFNodeData_proofs -------------------------
(***************************************************************************)
(* The data of a node can be read as it was written, for all types, shapes *)
(* and chunks.                                                             *)
(***************************************************************************)
EXTENDS ADFNodeData, FiniteSetTheorems, SequenceTheorems, WellFoundedInduction, TLAPS

-----------------------------------------------------------------------------
(* Recursive functions, sums and products.                                 *)

\* A set of numbers that is not empty has a least one.
LEMMA LeastNatural ==
  ASSUME NEW S \in SUBSET Nat, S # {}
  PROVE  \E m \in S : \A n \in S : m <= n
<1>1. PICK m \in S : \A n \in S : ~(<<n, m>> \in OpToRel(<, Nat))
  BY NatLessThanWellFounded, WFMin
<1>2. \A n \in S : ~(n < m)
  BY <1>1 DEF OpToRel
<1> QED  BY <1>2

\* What holds of the first numbers and of the next one each time holds of all.
LEMMA UpTo ==
  ASSUME NEW n \in Nat, NEW S, 0 \in S, \A i \in 1..n : i - 1 \in S => i \in S
  PROVE  0..n \subseteq S
<1> SUFFICES ASSUME (0..n) \ S # {} PROVE FALSE
  OBVIOUS
<1> DEFINE T == (0..n) \ S
<1>0. T \in SUBSET Nat /\ T # {}
  OBVIOUS
<1> HIDE DEF T
<1>1. PICK m \in T : \A k \in T : m <= k
  BY <1>0, LeastNatural
<1> USE DEF T
<1>2. m # 0 /\ m \in 1..n /\ m - 1 \in 0..n /\ ~(m <= m - 1)
  BY <1>1
<1>3. m - 1 \in S
  BY <1>1, <1>2
<1> QED  BY <1>1, <1>2, <1>3

\* The function f begins with a and takes a step from each number to the next, and no other
\* function does.
Stepping(f, n, S, a, step) ==
  /\ f \in [0..n -> S]
  /\ f[0] = a
  /\ \A i \in 1..n : f[i] = step[i][f[i - 1]]
  /\ \A g : g[0] = a /\ (\A i \in 1..n : g[i - 1] \in S => g[i] = step[i][g[i - 1]])
              => \A i \in 0..n : g[i] = f[i]

\* There is such a function.
LEMMA Steps ==
  ASSUME NEW n \in Nat, NEW S, NEW a \in S, NEW step \in [1..n -> [S -> S]]
  PROVE  \E f : Stepping(f, n, S, a, step)
<1> DEFINE Is(m, f) == f \in [0..m -> S] /\ f[0] = a /\ \A i \in 1..m : f[i] = step[i][f[i - 1]]
           Far == {m \in 0..n : \E f : Is(m, f)}
<1>1. 0 \in Far
  <2> DEFINE g == [i \in 0..0 |-> a]
  <2>1. g \in [0..0 -> S] /\ g[0] = a /\ \A i \in 1..0 : g[i] = step[i][g[i - 1]]
    OBVIOUS
  <2> HIDE DEF g
  <2>2. Is(0, g) /\ 0 \in 0..n
    BY <2>1
  <2> QED  BY <2>2
<1>2. ASSUME NEW m \in 1..n, m - 1 \in Far PROVE m \in Far
  <2>1. PICK f : Is(m - 1, f)
    BY <1>2
  <2> DEFINE g == [i \in 0..m |-> IF i = m THEN step[m][f[m - 1]] ELSE f[i]]
  <2>2. m - 1 \in 0..(m - 1) /\ f[m - 1] \in S
    BY <2>1
  <2>3. step[m][f[m - 1]] \in S
    BY <2>2
  <2>4. g \in [0..m -> S]
    BY <2>1, <2>3
  <2>5. g[0] = a
    BY <2>1
  <2>6. ASSUME NEW i \in 1..m PROVE g[i] = step[i][g[i - 1]]
    <3>1. i - 1 \in 0..m /\ i - 1 # m /\ g[i - 1] = f[i - 1]
      OBVIOUS
    <3>2. CASE i = m
      BY <3>1, <3>2
    <3>3. CASE i # m
      <4>1. i \in 1..(m - 1)
        BY <3>3
      <4> QED  BY <2>1, <3>1, <3>3, <4>1
    <3> QED  BY <3>2, <3>3
  <2> HIDE DEF g
  <2>7. Is(m, g)
    BY <2>4, <2>5, <2>6
  <2>8. m \in 0..n
    OBVIOUS
  <2> HIDE DEF Is
  <2> QED  BY <2>7, <2>8
<1> HIDE DEF Far
<1>3. 0..n \subseteq Far
  BY <1>1, <1>2, UpTo
<1>4. PICK f : Is(n, f)
  <2>1. n \in Far
    BY <1>3
  <2> QED  BY <2>1 DEF Far
<1>5. ASSUME NEW g, g[0] = a, \A i \in 1..n : g[i - 1] \in S => g[i] = step[i][g[i - 1]]
      PROVE  \A i \in 0..n : g[i] = f[i]
  <2> DEFINE Same == {i \in 0..n : g[i] = f[i]}
  <2>1. 0 \in Same
    BY <1>4, <1>5
  <2>2. ASSUME NEW i \in 1..n, i - 1 \in Same PROVE i \in Same
    <3>1. g[i - 1] = f[i - 1] /\ f[i - 1] \in S
      BY <1>4, <2>2
    <3>2. g[i] = step[i][g[i - 1]] /\ f[i] = step[i][f[i - 1]]
      BY <1>4, <1>5, <3>1
    <3> QED  BY <3>1, <3>2
  <2> HIDE DEF Same
  <2>3. 0..n \subseteq Same
    BY <2>1, <2>2, UpTo
  <2> QED  BY <2>3 DEF Same
<1> QED  BY <1>4, <1>5 DEF Stepping

\* Before is the sum of what comes before: nothing at first, and one number more each time.
LEMMA Sums ==
  ASSUME NEW sizes \in Seq(Nat)
  PROVE  /\ \A i \in 1..(Len(sizes) + 1) : Before(sizes, i) \in Nat
         /\ Before(sizes, 1) = 0
         /\ \A i \in 1..Len(sizes) : Before(sizes, i + 1) = Before(sizes, i) + sizes[i]
<1> DEFINE n == Len(sizes)
           step == [i \in 1..n |-> [x \in Nat |-> x + sizes[i]]]
           Is(f) == f = [j \in 0..n |-> IF j = 0 THEN 0 ELSE f[j - 1] + sizes[j]]
           sum == CHOOSE f : Is(f)
<1>1. n \in Nat /\ \A i \in 1..n : sizes[i] \in Nat
  OBVIOUS
<1>2. step \in [1..n -> [Nat -> Nat]]
  BY <1>1
<1>3. \A i \in 1..n, x \in Nat : step[i][x] = x + sizes[i]
  OBVIOUS
<1> HIDE DEF step
<1> HIDE DEF n
<1>4. PICK f : Stepping(f, n, Nat, 0, step)
  <2>1. 0 \in Nat
    OBVIOUS
  <2> QED  BY <1>1, <1>2, <2>1, Steps
<1> USE DEF n
<1>5. ASSUME NEW i \in 1..n PROVE f[i] = f[i - 1] + sizes[i]
  <2>1. i - 1 \in 0..n
    OBVIOUS
  <2> QED  BY <1>3, <1>4, <2>1 DEF Stepping
<1>6. Is(f)
  BY <1>4, <1>5 DEF Stepping
<1>7. Is(sum)
  BY <1>6
<1>8. \A i : Before(sizes, i) = sum[i - 1]
  BY DEF Before
<1> HIDE DEF sum
<1>9. sum[0] = 0 /\ \A i \in 1..n : sum[i] = sum[i - 1] + sizes[i]
  BY <1>1, <1>7
<1> HIDE DEF Is
<1> DEFINE Natural == {i \in 0..n : sum[i] \in Nat}
<1>10. 0 \in Natural
  BY <1>1, <1>9
<1>11. ASSUME NEW i \in 1..n, i - 1 \in Natural PROVE i \in Natural
  <2>1. sum[i - 1] \in Nat /\ sizes[i] \in Nat
    BY <1>1, <1>11
  <2>2. sum[i] = sum[i - 1] + sizes[i]
    BY <1>9
  <2>3. sum[i] \in Nat
    BY <2>1, <2>2
  <2> QED  BY <2>3
<1> HIDE DEF Natural
<1>12. 0..n \subseteq Natural
  BY <1>1, <1>10, <1>11, UpTo
<1>13. \A i \in 0..n : sum[i] \in Nat
  BY <1>12 DEF Natural
<1>14. ASSUME NEW i \in 1..(n + 1) PROVE Before(sizes, i) \in Nat
  <2>1. i - 1 \in 0..n
    BY <1>1
  <2> QED  BY <1>8, <1>13, <2>1
<1>15. Before(sizes, 1) = 0
  BY <1>8, <1>9
<1>16. ASSUME NEW i \in 1..n PROVE Before(sizes, i + 1) = Before(sizes, i) + sizes[i]
  <2>1. (i + 1) - 1 = i
    OBVIOUS
  <2>2. Before(sizes, i + 1) = sum[i] /\ Before(sizes, i) = sum[i - 1]
    BY <1>8, <2>1
  <2> QED  BY <1>9, <2>2
<1> QED  BY <1>14, <1>15, <1>16

\* The sums do not get smaller.
LEMMA SumsGrow ==
  ASSUME NEW sizes \in Seq(Nat), NEW i \in 1..(Len(sizes) + 1), NEW j \in 1..(Len(sizes) + 1), i <= j
  PROVE  Before(sizes, i) <= Before(sizes, j)
<1> DEFINE n == Len(sizes)
           More == {k \in 0..n : i <= k + 1 => Before(sizes, i) <= Before(sizes, k + 1)}
<1>1. n \in Nat /\ Before(sizes, i) \in Nat
  BY Sums
<1>2. 0 \in More
  BY <1>1
<1>3. ASSUME NEW k \in 1..n, k - 1 \in More PROVE k \in More
  <2>1. Before(sizes, k + 1) = Before(sizes, k) + sizes[k] /\ Before(sizes, k) \in Nat /\ sizes[k] \in Nat
    BY <1>1, Sums
  <2>2. (k - 1) + 1 = k
    OBVIOUS
  <2>3. i <= k => Before(sizes, i) <= Before(sizes, k)
    BY <1>3, <2>2
  <2>4. CASE i <= k
    BY <1>1, <2>1, <2>3, <2>4
  <2>5. CASE ~(i <= k)
    <3>1. i <= k + 1 => i = k + 1
      BY <2>5
    <3>2. Before(sizes, k + 1) \in Nat
      BY <1>1, <2>1
    <3> QED  BY <1>1, <3>1, <3>2
  <2> QED  BY <2>4, <2>5
<1> HIDE DEF More
<1>4. 0..n \subseteq More
  BY <1>1, <1>2, <1>3, UpTo
<1>5. j - 1 \in More /\ (j - 1) + 1 = j
  BY <1>1, <1>4
<1> QED  BY <1>5 DEF More

\* Every number up to the sum of all falls to one of them, and to one only.
LEMMA Falls ==
  ASSUME NEW sizes \in Seq(Nat), NEW k \in 1..Before(sizes, Len(sizes) + 1)
  PROVE  \E i \in 1..Len(sizes) :
           /\ Before(sizes, i) < k /\ k <= Before(sizes, i + 1)
           /\ \A j \in 1..Len(sizes) : Before(sizes, j) < k /\ k <= Before(sizes, j + 1) => j = i
<1> DEFINE n == Len(sizes)
           Reached == {i \in 1..n : k <= Before(sizes, i + 1)}
<1>1. n \in Nat /\ (\A i \in 1..(n + 1) : Before(sizes, i) \in Nat) /\ Before(sizes, 1) = 0
  BY Sums
<1>2. n # 0
  BY <1>1
<1>3. n \in Reached
  BY <1>1, <1>2
<1>4. PICK i \in Reached : \A j \in Reached : i <= j
  <2>1. Reached \in SUBSET Nat /\ Reached # {}
    BY <1>3
  <2> HIDE DEF Reached
  <2> QED  BY <2>1, LeastNatural
<1>5. i \in 1..n /\ k <= Before(sizes, i + 1)
  BY <1>4
<1>6. Before(sizes, i) < k
  <2>1. CASE i = 1
    BY <1>1, <2>1
  <2>2. CASE i # 1
    <3>1. i - 1 \in 1..n /\ (i - 1) + 1 = i /\ ~(i <= i - 1)
      BY <1>5, <2>2
    <3>2. ~(k <= Before(sizes, i))
      BY <1>4, <3>1
    <3> QED  BY <1>1, <1>5, <3>2
  <2> QED  BY <2>1, <2>2
<1>7. ASSUME NEW j \in 1..n, Before(sizes, j) < k, k <= Before(sizes, j + 1) PROVE j = i
  <2>1. i <= j
    BY <1>4, <1>7
  <2>2. CASE i < j
    <3>1. i + 1 \in 1..(n + 1) /\ j \in 1..(n + 1) /\ i + 1 <= j
      BY <1>5, <2>2
    <3>2. Before(sizes, i + 1) <= Before(sizes, j)
      BY <3>1, SumsGrow
    <3>3. Before(sizes, i + 1) \in Nat /\ Before(sizes, j) \in Nat /\ Before(sizes, n + 1) \in Nat
      BY <1>1, <3>1
    <3>4. k \in Nat
      BY <3>3
    <3> HIDE DEF n
    <3> QED  BY <1>5, <1>7, <3>2, <3>3, <3>4
  <2> QED  BY <1>5, <2>1, <2>2
<1> QED  BY <1>5, <1>6, <1>7

\* Two lists of numbers that begin alike have the same sums there.
LEMMA SumsAlike ==
  ASSUME NEW sizes \in Seq(Nat), NEW others \in Seq(Nat), NEW n \in Nat,
         n <= Len(sizes), n <= Len(others), \A i \in 1..n : sizes[i] = others[i]
  PROVE  \A i \in 1..(n + 1) : Before(sizes, i) = Before(others, i)
<1> DEFINE Alike == {i \in 0..n : Before(sizes, i + 1) = Before(others, i + 1)}
<1>1. 0 \in Alike
  BY Sums
<1>2. ASSUME NEW i \in 1..n, i - 1 \in Alike PROVE i \in Alike
  <2>1. i \in 1..Len(sizes) /\ i \in 1..Len(others) /\ (i - 1) + 1 = i
    OBVIOUS
  <2>2. Before(sizes, i + 1) = Before(sizes, i) + sizes[i] /\ Before(others, i + 1) = Before(others, i) + others[i]
    BY <2>1, Sums
  <2>3. Before(sizes, i) = Before(others, i)
    BY <1>2, <2>1
  <2> QED  BY <2>2, <2>3
<1> HIDE DEF Alike
<1>3. 0..n \subseteq Alike
  BY <1>1, <1>2, UpTo
<1>4. ASSUME NEW i \in 1..(n + 1) PROVE Before(sizes, i) = Before(others, i)
  <2>1. i - 1 \in Alike /\ (i - 1) + 1 = i
    BY <1>3
  <2> QED  BY <2>1 DEF Alike
<1> QED  BY <1>4

\* A function on the numbers up to n is a sequence.
LEMMA IsSequence ==
  ASSUME NEW S, NEW n \in Nat, NEW f, f = [i \in 1..n |-> f[i]], \A i \in 1..n : f[i] \in S
  PROVE  f \in Seq(S) /\ Len(f) = n /\ DOMAIN f = 1..n
<1>1. f \in [1..n -> S]
  OBVIOUS
<1> QED  BY <1>1

\* The number of elements below a dimension is the product of the lengths: one at first,
\* and a factor more each time.
LEMMA Products ==
  ASSUME NEW dims \in Seq(Nat \ {0})
  PROVE  /\ \A k \in 1..(Len(dims) + 1) : Below(dims, k) \in Nat \ {0}
         /\ Below(dims, 1) = 1
         /\ \A k \in 1..Len(dims) : Below(dims, k + 1) = Below(dims, k) * dims[k]
<1> DEFINE n == Len(dims)
           Factor(f, i) == IF i = 1 THEN 1 ELSE f[i - 1] * dims[i - 1]
           Is(f) == f = [i \in 1..(n + 1) |-> Factor(f, i)]
           product == CHOOSE f : Is(f)
           step == [i \in 1..n |-> [x \in Nat \ {0} |-> x * dims[i]]]
<1>1. n \in Nat /\ \A i \in 1..n : dims[i] \in Nat \ {0}
  OBVIOUS
<1>2. \A x, y \in Nat \ {0} : x * y \in Nat \ {0}
  OBVIOUS
<1>3. step \in [1..n -> [Nat \ {0} -> Nat \ {0}]]
  BY <1>1, <1>2
<1>4. \A i \in 1..n, x \in Nat \ {0} : step[i][x] = x * dims[i]
  OBVIOUS
<1> HIDE DEF step, n
<1>5. PICK f : Stepping(f, n, Nat \ {0}, 1, step)
  <2>1. 1 \in Nat \ {0}
    OBVIOUS
  <2> QED  BY <1>1, <1>3, <2>1, Steps
<1> DEFINE g == [i \in 1..(n + 1) |-> f[i - 1]]
<1>6. ASSUME NEW i \in 1..(n + 1) PROVE g[i] \in Nat \ {0} /\ g[i] = Factor(g, i)
  <2>1. i - 1 \in 0..n /\ f[i - 1] \in Nat \ {0} /\ g[i] = f[i - 1] /\ f[0] = 1
    BY <1>1, <1>5 DEF Stepping
  <2>2. CASE i = 1
    BY <2>1, <2>2
  <2>3. CASE i # 1
    <3>1. i - 1 \in 1..n /\ (i - 1) - 1 \in 0..n /\ i - 1 \in 1..(n + 1)
      BY <1>1, <2>3
    <3>2. f[(i - 1) - 1] \in Nat \ {0} /\ f[i - 1] = step[i - 1][f[(i - 1) - 1]]
      BY <1>5, <3>1 DEF Stepping
    <3>3. f[i - 1] = f[(i - 1) - 1] * dims[i - 1]
      BY <1>4, <3>1, <3>2
    <3>4. g[i - 1] = f[(i - 1) - 1]
      BY <3>1
    <3> QED  BY <2>1, <2>3, <3>3, <3>4
  <2> QED  BY <2>2, <2>3
<1>7. Is(g)
  <2>1. g = [i \in 1..(n + 1) |-> g[i]]
    OBVIOUS
  <2> HIDE DEF g
  <2> QED  BY <1>6, <2>1
<1>8. Is(product)
  <2> HIDE DEF Is
  <2> QED  BY <1>7
<1>9. \A k : Below(dims, k) = product[k]
  BY DEF Below, n
<1> HIDE DEF product
<1> DEFINE Positive == {i \in 0..n : product[i + 1] \in Nat \ {0}}
<1>10. 0 \in Positive
  <2>1. 1 \in 1..(n + 1) /\ product[1] = 1
    BY <1>1, <1>8
  <2> QED  BY <1>1, <2>1
<1>11. ASSUME NEW i \in 1..n, i - 1 \in Positive PROVE i \in Positive
  <2>1. i + 1 \in 1..(n + 1) /\ i + 1 # 1 /\ (i + 1) - 1 = i /\ (i - 1) + 1 = i
    BY <1>1
  <2>2. product[i + 1] = product[i] * dims[i]
    BY <1>8, <2>1
  <2>3. product[i] \in Nat \ {0}
    BY <1>11, <2>1
  <2> QED  BY <1>1, <1>2, <2>2, <2>3
<1> HIDE DEF Positive
<1>12. 0..n \subseteq Positive
  BY <1>1, <1>10, <1>11, UpTo
<1>13. ASSUME NEW k \in 1..(n + 1) PROVE Below(dims, k) \in Nat \ {0}
  <2>1. k - 1 \in 0..n /\ (k - 1) + 1 = k
    BY <1>1
  <2> QED  BY <1>9, <1>12, <2>1 DEF Positive
<1>14. Below(dims, 1) = 1
  <2>1. 1 \in 1..(n + 1) /\ product[1] = 1
    BY <1>1, <1>8
  <2> QED  BY <1>9, <2>1
<1>15. ASSUME NEW k \in 1..n PROVE Below(dims, k + 1) = Below(dims, k) * dims[k]
  <2>1. k + 1 \in 1..(n + 1) /\ k + 1 # 1 /\ (k + 1) - 1 = k
    BY <1>1
  <2>2. product[k + 1] = product[k] * dims[k]
    BY <1>8, <2>1
  <2> QED  BY <1>9, <2>2
<1> QED  BY <1>13, <1>14, <1>15 DEF n

-----------------------------------------------------------------------------
(* Chunks.                                                                 *)

\* What the space of a chunk may hold.
Cell == {"all", "block", "strided", "junk", "tag", "zero"} \X Nat
Chunk == [entry : Nat, size : Nat, cells : Seq(Cell)]

\* A sequence is empty, or has elements of its set.
LEMMA NotEmpty ==
  ASSUME NEW S, NEW s \in Seq(S)
  PROVE  /\ Len(s) \in Nat /\ (s = <<>> <=> Len(s) = 0)
         /\ s = <<>> \/ Len(s) = 1 \/ Len(s) > 1
         /\ \A i \in 1..Len(s) : s[i] \in S
<1>1. Len(s) \in Nat /\ (s = <<>> <=> Len(s) = 0) /\ \A i \in 1..Len(s) : s[i] \in S
  BY EmptySeq
<1>2. PICK l \in Nat : l = Len(s)
  BY <1>1
<1>3. l = 0 \/ l = 1 \/ l > 1
  OBVIOUS
<1> QED  BY <1>1, <1>2, <1>3

\* Chunks as TypeOK has them.
Sound(cs) ==
  /\ cs \in Seq(Chunk)
  /\ \A i \in 1..Len(cs) :
       /\ cs[i].size \in 1..Len(cs[i].cells)
       /\ IF Len(cs) = 1 THEN cs[i].entry = 0 ELSE cs[i].entry \in 1..Len(cs[i].cells)

DataInv == shape \in [type : Types, dims : Shapes] /\ Sound(chunks)

\* An array has no element without a type, and one at least with a type.
LEMMA TotalIs ==
  ASSUME shape \in [type : Types, dims : Shapes]
  PROVE  Total \in Nat /\ (shape.type # NoType => Total # 0)
<1>1. shape.dims \in Seq(Nat \ {0})
  BY ShapesAssumption
<1>2. PICK dims \in Seq(Nat \ {0}) : dims = shape.dims
  BY <1>1
<1>3. Size(dims) \in Nat \ {0}
  <2>1. Len(dims) + 1 \in 1..(Len(dims) + 1)
    BY <1>2
  <2> QED  BY <2>1, Products DEF Size
<1> QED  BY <1>2, <1>3 DEF Total

\* How much each chunk stands for.
Spans(cs) == [j \in DOMAIN cs |-> Span(cs, j)]

\* A chunk stands for one element at least, and has space for all of them.
LEMMA SpanIs ==
  ASSUME NEW cs, Sound(cs)
  PROVE  /\ Spans(cs) \in Seq(Nat) /\ Len(Spans(cs)) = Len(cs) /\ Len(cs) \in Nat
         /\ DOMAIN cs = 1..Len(cs)
         /\ \A i \in 1..Len(cs) :
              /\ Span(cs, i) \in 1..Len(cs[i].cells) /\ Spans(cs)[i] = Span(cs, i) /\ Span(cs, i) \in Nat
              /\ Len(cs) = 1 => Span(cs, i) = cs[i].size
              /\ Len(cs) # 1 => Span(cs, i) = cs[i].entry
<1>1. DOMAIN cs = 1..Len(cs) /\ Len(cs) \in Nat /\ \A i \in 1..Len(cs) : Len(cs[i].cells) \in Nat
  BY DEF Sound, Chunk
<1>2. ASSUME NEW i \in 1..Len(cs)
      PROVE  /\ Span(cs, i) \in 1..Len(cs[i].cells)
             /\ Len(cs) = 1 => Span(cs, i) = cs[i].size
             /\ Len(cs) # 1 => Span(cs, i) = cs[i].entry
  <2>1. Len(cs) = 1 => i = 1
    BY <1>1
  <2> QED  BY <2>1 DEF Span, Sound
<1>3. \A i \in 1..Len(cs) : Spans(cs)[i] = Span(cs, i) /\ Span(cs, i) \in Nat
  BY <1>1, <1>2 DEF Spans
<1>4. Spans(cs) = [i \in 1..Len(cs) |-> Spans(cs)[i]]
  BY <1>1 DEF Spans
<1>5. Spans(cs) \in Seq(Nat) /\ Len(Spans(cs)) = Len(cs)
  BY <1>1, <1>3, <1>4, IsSequence
<1> QED  BY <1>1, <1>2, <1>3, <1>5

\* Where the chunks begin.
LEMMA BaseIs ==
  ASSUME NEW cs, Sound(cs)
  PROVE  /\ \A i : Base(cs, i) = Before(Spans(cs), i)
         /\ \A i \in 1..(Len(cs) + 1) : Base(cs, i) \in Nat
         /\ Base(cs, 1) = 0
         /\ \A i \in 1..Len(cs) : Base(cs, i + 1) = Base(cs, i) + Span(cs, i)
         /\ \A i, j \in 1..(Len(cs) + 1) : i <= j => Base(cs, i) <= Base(cs, j)
<1>1. \A i : Base(cs, i) = Before(Spans(cs), i)
  BY DEF Base, Spans
<1>2. PICK sizes : sizes = Spans(cs)
  OBVIOUS
<1>3. sizes \in Seq(Nat) /\ Len(sizes) = Len(cs) /\ \A i \in 1..Len(cs) : sizes[i] = Span(cs, i)
  BY <1>2, SpanIs
<1>4. /\ \A i \in 1..(Len(sizes) + 1) : Before(sizes, i) \in Nat
      /\ Before(sizes, 1) = 0
      /\ \A i \in 1..Len(sizes) : Before(sizes, i + 1) = Before(sizes, i) + sizes[i]
  BY <1>3, Sums
<1>5. \A i, j \in 1..(Len(sizes) + 1) : i <= j => Before(sizes, i) <= Before(sizes, j)
  BY <1>3, SumsGrow
<1> QED  BY <1>1, <1>2, <1>3, <1>4, <1>5, ZenonT(30)

\* What is used of a chunk: from where it begins to where it ends or the array does.
LEMMA UsedIs ==
  ASSUME NEW cs, Sound(cs), shape \in [type : Types, dims : Shapes], NEW i \in 1..Len(cs)
  PROVE  /\ Used(cs, i) \in 0..Span(cs, i)
         /\ Used(cs, i) # 0 => Base(cs, i) + Used(cs, i) <= Total
         /\ Used(cs, i) # Span(cs, i) => Base(cs, i) + Used(cs, i) >= Total
         /\ Base(cs, i + 1) <= Total => Used(cs, i) = Span(cs, i)
<1>1. Total \in Nat /\ Span(cs, i) \in Nat
  BY TotalIs, SpanIs
<1>2. Base(cs, i) \in Nat /\ Base(cs, i + 1) = Base(cs, i) + Span(cs, i)
  <2>1. i \in 1..(Len(cs) + 1)
    OBVIOUS
  <2> QED  BY <2>1, BaseIs
<1> QED  BY <1>1, <1>2 DEF Used, AtMost, AtLeast0

\* The items of a program, and the zeros.
LEMMA ItemsAre ==
  ASSUME NEW kind \in {"all", "block", "strided"}, NEW n \in Nat
  PROVE  /\ Items(kind, n) \in Seq(Cell) /\ Len(Items(kind, n)) = n
         /\ \A k \in 1..n : Items(kind, n)[k] = Item(kind, k)
         /\ Zeros(n) \in Seq(Cell) /\ Len(Zeros(n)) = n
<1>1. Items(kind, n) \in Seq(Cell) /\ Len(Items(kind, n)) = n /\ \A k \in 1..n : Items(kind, n)[k] = Item(kind, k)
  <2>1. \A k \in 1..n : Item(kind, k) \in Cell
    BY DEF Item, Cell
  <2> QED  BY <2>1 DEF Items
<1>2. Zeros(n) \in Seq(Cell) /\ Len(Zeros(n)) = n
  <2>1. Zero \in Cell
    BY DEF Zero, Cell
  <2> QED  BY <2>1 DEF Zeros
<1> QED  BY <1>1, <1>2

\* A part of them.
LEMMA PartOfItems ==
  ASSUME NEW s \in Seq(Cell), NEW a \in Nat, NEW b \in Nat, a >= 1, b <= Len(s)
  PROVE  /\ SubSeq(s, a, b) \in Seq(Cell)
         /\ Len(SubSeq(s, a, b)) = IF a <= b THEN b - a + 1 ELSE 0
         /\ \A k \in 1..(b - a + 1) : SubSeq(s, a, b)[k] = s[a + k - 1]
<1>1. \A k \in a..b : s[k] \in Cell
  <2>1. \A k \in a..b : k \in 1..Len(s)
    OBVIOUS
  <2> QED  BY <2>1
<1>2. a \in Int /\ b \in Int
  OBVIOUS
<1> QED  BY <1>1, <1>2, SubSeqProperties

\* Space that was allocated.
LEMMA FreshIs ==
  ASSUME NEW n \in Nat
  PROVE  Fresh(n) \in Chunk /\ Len(Fresh(n).cells) = n /\ Fresh(n).entry = 0
<1>1. Junk \in Cell
  BY DEF Junk, Cell
<1>2. [i \in 1..n |-> Junk] \in Seq(Cell) /\ Len([i \in 1..n |-> Junk]) = n
  BY <1>1
<1> QED  BY <1>2 DEF Fresh, Chunk

\* What ADFI_write_data_chunk makes of a cell, and of a chunk.
Put(c, size, start, data, i) ==
  IF i \in (start + 1)..(start + Len(data)) THEN data[i - start]
  ELSE IF i = size + 1 THEN Tag ELSE c.cells[i]

IsWritten(w, c, size, start, data) ==
  /\ w \in Chunk /\ w.size = size /\ w.entry = c.entry /\ Len(w.cells) = Len(c.cells)
  /\ \A i \in 1..Len(c.cells) : w.cells[i] = Put(c, size, start, data, i)

\* So it is written.
LEMMA Written ==
  ASSUME NEW c \in Chunk, NEW size \in Nat, NEW start \in Nat, NEW data \in Seq(Cell)
  PROVE  IsWritten(WriteChunk(c, size, start, data), c, size, start, data)
<1> DEFINE cells == [i \in 1..Len(c.cells) |-> Put(c, size, start, data, i)]
<1>1. c.cells \in Seq(Cell) /\ Len(c.cells) \in Nat /\ DOMAIN c.cells = 1..Len(c.cells) /\ Len(data) \in Nat
      /\ c = [entry |-> c.entry, size |-> c.size, cells |-> c.cells] /\ c.entry \in Nat
  BY DEF Chunk
<1>2. WriteChunk(c, size, start, data) = [entry |-> c.entry, size |-> size, cells |-> cells]
  <2>1. cells = [i \in DOMAIN c.cells |-> IF i \in (start + 1)..(start + Len(data)) THEN data[i - start]
                                          ELSE IF i = size + 1 THEN Tag ELSE c.cells[i]]
    BY <1>1 DEF Put
  <2> HIDE DEF cells
  <2>2. WriteChunk(c, size, start, data) = [c EXCEPT !.size = size, !.cells = cells]
    BY <2>1 DEF WriteChunk
  <2> QED  BY <1>1, <2>2
<1>3. ASSUME NEW i \in 1..Len(c.cells) PROVE Put(c, size, start, data, i) \in Cell
  <2>1. i \in (start + 1)..(start + Len(data)) => i - start \in 1..Len(data)
    BY <1>1
  <2>2. i \in (start + 1)..(start + Len(data)) => data[i - start] \in Cell
    BY <2>1
  <2>3. Tag \in Cell /\ c.cells[i] \in Cell
    BY <1>1 DEF Tag, Cell
  <2> QED  BY <2>2, <2>3 DEF Put
<1>4. cells \in Seq(Cell) /\ Len(cells) = Len(c.cells) /\ \A i \in 1..Len(c.cells) : cells[i] = Put(c, size, start, data, i)
  <2>1. cells = [i \in 1..Len(c.cells) |-> cells[i]] /\ \A i \in 1..Len(c.cells) : cells[i] = Put(c, size, start, data, i)
    OBVIOUS
  <2> HIDE DEF cells
  <2> QED  BY <1>1, <1>3, <2>1, IsSequence
<1> HIDE DEF cells
<1> QED  BY <1>1, <1>2, <1>4 DEF Chunk, IsWritten

\* An entry in the table.
LEMMA EntryIs ==
  ASSUME NEW c \in Chunk
  PROVE  /\ Entered(c) \in Chunk /\ Entered(c).size = c.size /\ Entered(c).entry = c.size
         /\ Entered(c).cells = c.cells
BY DEF Entered, Chunk

\* A chunk that is added to a table.
LEMMA AddedIs ==
  ASSUME NEW n \in Nat, NEW start \in Nat, NEW data \in Seq(Cell)
  PROVE  /\ Added(n, start, data) \in Chunk /\ Added(n, start, data).size = n
         /\ Added(n, start, data).entry = n /\ Len(Added(n, start, data).cells) = n
         /\ Added(n, start, data).cells = WriteChunk(Fresh(n), n, start, data).cells
<1>1. PICK c : c = WriteChunk(Fresh(n), n, start, data)
  OBVIOUS
<1>2. c \in Chunk /\ c.size = n /\ Len(c.cells) = n
  <2>1. PICK f \in Chunk : f = Fresh(n) /\ Len(f.cells) = n
    BY FreshIs
  <2>2. IsWritten(WriteChunk(f, n, start, data), f, n, start, data)
    BY Written
  <2> QED  BY <1>1, <2>1, <2>2 DEF IsWritten
<1>3. Added(n, start, data) = [entry |-> n, size |-> c.size, cells |-> c.cells]
  BY <1>1, <1>2 DEF Added, Chunk
<1> QED  BY <1>1, <1>2, <1>3 DEF Chunk

-----------------------------------------------------------------------------
(* The chunks stay sound.                                                  *)

\* One chunk outside a table is sound.
LEMMA OneSound ==
  ASSUME NEW c \in Chunk, c.entry = 0, c.size \in 1..Len(c.cells)
  PROVE  Sound(<<c>>)
<1>1. <<c>> \in Seq(Chunk) /\ Len(<<c>>) = 1 /\ <<c>>[1] = c
  OBVIOUS
<1> QED  BY <1>1 DEF Sound

\* A table of two chunks is sound when both have entries and are written in part.
LEMMA TwoSound ==
  ASSUME NEW c \in Chunk, c.entry \in 1..Len(c.cells), c.size \in 1..Len(c.cells),
         NEW d \in Chunk, d.entry \in 1..Len(d.cells), d.size \in 1..Len(d.cells)
  PROVE  Sound(<<c, d>>)
<1>1. <<c, d>> \in Seq(Chunk) /\ Len(<<c, d>>) = 2 /\ <<c, d>>[1] = c /\ <<c, d>>[2] = d
  OBVIOUS
<1> QED  BY <1>1 DEF Sound

\* A table whose chunks are written keeps its entries.
Rewritten(cs, old) ==
  /\ cs = [i \in 1..Len(old) |-> cs[i]]
  /\ \A i \in 1..Len(old) :
       /\ cs[i] \in Chunk /\ cs[i].entry = old[i].entry /\ Len(cs[i].cells) = Len(old[i].cells)
       /\ cs[i].size \in 1..Len(cs[i].cells)

\* The chunks stay sound.
LEMMA RewrittenSound ==
  ASSUME NEW old, Sound(old), Len(old) # 1, NEW cs, Rewritten(cs, old)
  PROVE  Sound(cs) /\ Len(cs) = Len(old) /\ \A i \in 1..Len(old) : Span(cs, i) = Span(old, i)
<1>1. Len(old) \in Nat
  BY DEF Sound
<1>2. cs \in Seq(Chunk) /\ Len(cs) = Len(old)
  BY <1>1, IsSequence DEF Rewritten
<1> QED  BY <1>2 DEF Sound, Rewritten, Span

\* A table to which a chunk is added.
Grown(t, cs, a) ==
  /\ Sound(t) /\ t = Append(cs, a)
  /\ Len(t) = Len(cs) + 1
  /\ \A i \in 1..Len(cs) : t[i] = cs[i]
  /\ t[Len(cs) + 1] = a

\* It stays sound.
LEMMA GrownSound ==
  ASSUME NEW cs, Sound(cs), Len(cs) > 1,
         NEW a \in Chunk, a.entry \in 1..Len(a.cells), a.size \in 1..Len(a.cells),
         NEW t, t = cs \o <<a>>
  PROVE  Grown(t, cs, a)
<1>1. cs \in Seq(Chunk) /\ <<a>> \in Seq(Chunk) /\ Len(<<a>>) = 1 /\ <<a>>[1] = a /\ Len(cs) \in Nat
  BY DEF Sound
<1>3. t \in Seq(Chunk) /\ Len(t) = Len(cs) + 1 /\ (\A i \in 1..Len(cs) : t[i] = cs[i]) /\ t[Len(cs) + 1] = a
  BY <1>1
<1>4. ASSUME NEW i \in 1..Len(t) PROVE t[i].size \in 1..Len(t[i].cells) /\ t[i].entry \in 1..Len(t[i].cells)
  <2>1. CASE i \in 1..Len(cs)
    BY <1>1, <1>3, <2>1 DEF Sound
  <2>2. CASE i = Len(cs) + 1
    BY <1>3, <2>2
  <2> QED  BY <1>1, <1>3, <2>1, <2>2
<1>5. Sound(t)
  BY <1>1, <1>3, <1>4 DEF Sound
<1>6. t = Append(cs, a)
  BY <1>1, AppendIsConcat
<1> QED  BY <1>3, <1>5, <1>6 DEF Grown

\* A chunk that is written to, with its size set to at most its space.
LEMMA WrittenSound ==
  ASSUME NEW c \in Chunk, NEW size \in Nat, size \in 1..Len(c.cells), NEW start \in Nat, NEW data \in Seq(Cell)
  PROVE  /\ WriteChunk(c, size, start, data) \in Chunk
         /\ WriteChunk(c, size, start, data).entry = c.entry
         /\ WriteChunk(c, size, start, data).size = size
         /\ Len(WriteChunk(c, size, start, data).cells) = Len(c.cells)
         /\ size \in 1..Len(WriteChunk(c, size, start, data).cells)
<1>1. IsWritten(WriteChunk(c, size, start, data), c, size, start, data)
  BY Written
<1> QED  BY <1>1 DEF IsWritten

\* The same of space just allocated.
LEMMA FreshWritten ==
  ASSUME NEW n \in Nat \ {0}, NEW start \in Nat, NEW data \in Seq(Cell)
  PROVE  /\ WriteChunk(Fresh(n), n, start, data) \in Chunk
         /\ WriteChunk(Fresh(n), n, start, data).entry = 0
         /\ WriteChunk(Fresh(n), n, start, data).size = n
         /\ Len(WriteChunk(Fresh(n), n, start, data).cells) = n
<1>1. Fresh(n) \in Chunk /\ Len(Fresh(n).cells) = n /\ Fresh(n).entry = 0
  BY FreshIs
<1>2. PICK f \in Chunk : f = Fresh(n)
  BY <1>1
<1>3. n \in Nat
  OBVIOUS
<1>4. IsWritten(WriteChunk(f, n, start, data), f, n, start, data)
  BY <1>3, Written
<1> QED  BY <1>1, <1>2, <1>4 DEF IsWritten

\* A chunk of the table as ADF_Write_All_Data leaves it.
AllInChunk(i, data) ==
  IF Used(chunks, i) = 0 THEN chunks[i]
  ELSE WriteChunk(chunks[i], Used(chunks, i), 0, SubSeq(data, Base(chunks, i) + 1, Base(chunks, i) + Used(chunks, i)))

\* The part of the data for a chunk of the table.
LEMMA PartForChunk ==
  ASSUME DataInv, NEW i \in 1..Len(chunks), Used(chunks, i) # 0, NEW data \in Seq(Cell), Len(data) = Total
  PROVE  LET part == SubSeq(data, Base(chunks, i) + 1, Base(chunks, i) + Used(chunks, i))
         IN  /\ part \in Seq(Cell) /\ Len(part) = Used(chunks, i)
             /\ \A k \in 1..Used(chunks, i) : part[k] = data[Base(chunks, i) + k]
<1>1. PICK b, u : b = Base(chunks, i) /\ u = Used(chunks, i)
  OBVIOUS
<1>2. b \in Nat /\ u \in Nat \ {0} /\ b + u <= Total /\ Total \in Nat
  <2>1. Sound(chunks) /\ shape \in [type : Types, dims : Shapes] /\ i \in 1..(Len(chunks) + 1)
    BY DEF DataInv, Sound
  <2>2. Base(chunks, i) \in Nat /\ Total \in Nat /\ Span(chunks, i) \in Nat
    BY <2>1, BaseIs, TotalIs, SpanIs
  <2>3. Used(chunks, i) \in 0..Span(chunks, i) /\ Base(chunks, i) + Used(chunks, i) <= Total
    BY <2>1, UsedIs
  <2> QED  BY <1>1, <2>2, <2>3
<1>3. /\ SubSeq(data, b + 1, b + u) \in Seq(Cell)
      /\ Len(SubSeq(data, b + 1, b + u)) = IF b + 1 <= b + u THEN (b + u) - (b + 1) + 1 ELSE 0
      /\ \A k \in 1..((b + u) - (b + 1) + 1) : SubSeq(data, b + 1, b + u)[k] = data[(b + 1) + k - 1]
  <2>1. b + 1 \in Nat /\ b + u \in Nat /\ b + 1 >= 1 /\ b + u <= Len(data)
    BY <1>2
  <2> QED  BY <2>1, PartOfItems
<1>4. (b + u) - (b + 1) + 1 = u /\ b + 1 <= b + u /\ \A k \in 1..u : (b + 1) + k - 1 = b + k
  BY <1>2
<1> QED  BY <1>1, <1>3, <1>4

-----------------------------------------------------------------------------
(* The whole array is written.                                             *)

\* The chunks cs hold all of data: they can be read, chunk after chunk.
Holds(cs, data) ==
  /\ Sound(cs) /\ Len(cs) \in Nat \ {0}
  /\ Base(cs, Len(cs) + 1) >= Total
  /\ \A i \in 1..Len(cs) :
       Used(cs, i) # 0 =>
         /\ cs[i].size = Used(cs, i) /\ EndTagFound(cs[i])
         /\ \A k \in 1..Used(cs, i) : cs[i].cells[k] = data[Base(cs, i) + k]

\* A chunk that is written from its first element to its last ends with its tag.
LEMMA WrittenWhole ==
  ASSUME NEW c \in Chunk, NEW size \in Nat, size \in 1..Len(c.cells), NEW data \in Seq(Cell), Len(data) = size,
         NEW w, w = WriteChunk(c, size, 0, data)
  PROVE  /\ w \in Chunk /\ w.size = size /\ w.entry = c.entry /\ Len(w.cells) = Len(c.cells)
         /\ EndTagFound(w)
         /\ \A k \in 1..size : w.cells[k] = data[k]
<1>1. Len(c.cells) \in Nat /\ 0 \in Nat
  BY DEF Chunk
<1>2. /\ w \in Chunk /\ w.size = size /\ w.entry = c.entry /\ Len(w.cells) = Len(c.cells)
      /\ \A i \in 1..Len(c.cells) : w.cells[i] = Put(c, size, 0, data, i)
  <2>1. IsWritten(WriteChunk(c, size, 0, data), c, size, 0, data)
    BY <1>1, Written
  <2> QED  BY <2>1 DEF IsWritten
<1>3. \A k \in 1..size : w.cells[k] = data[k]
  <2>1. \A k \in 1..size : k \in 1..Len(c.cells) /\ k \in (0 + 1)..(0 + Len(data)) /\ k - 0 = k
    BY <1>1
  <2> QED  BY <1>2, <2>1 DEF Put
<1>4. size < Len(c.cells) => w.cells[size + 1] = Tag
  <2>1. size < Len(c.cells) => size + 1 \in 1..Len(c.cells) /\ size + 1 \notin (0 + 1)..(0 + Len(data))
    BY <1>1
  <2> QED  BY <1>2, <2>1 DEF Put
<1> QED  BY <1>2, <1>3, <1>4 DEF EndTagFound

\* Chunks that stand for as much begin at the same places, and as much of them is used.
LEMMA SameBases ==
  ASSUME NEW cs, Sound(cs), NEW old, Sound(old), NEW n \in Nat, n <= Len(cs), n <= Len(old),
         \A i \in 1..n : Span(cs, i) = Span(old, i)
  PROVE  /\ \A i \in 1..(n + 1) : Base(cs, i) = Base(old, i)
         /\ \A i \in 1..n : Used(cs, i) = Used(old, i)
<1>1. PICK a, b : a = Spans(cs) /\ b = Spans(old)
  OBVIOUS
<1>2. /\ a \in Seq(Nat) /\ Len(a) = Len(cs) /\ Len(cs) \in Nat /\ \A i \in 1..Len(cs) : a[i] = Span(cs, i)
      /\ b \in Seq(Nat) /\ Len(b) = Len(old) /\ Len(old) \in Nat /\ \A i \in 1..Len(old) : b[i] = Span(old, i)
  BY <1>1, SpanIs
<1>3. \A i \in 1..n : a[i] = b[i]
  <2>1. \A i \in 1..n : i \in 1..Len(cs) /\ i \in 1..Len(old)
    BY <1>2
  <2> QED  BY <1>2, <2>1
<1>4. \A i \in 1..(n + 1) : Before(a, i) = Before(b, i)
  BY <1>2, <1>3, SumsAlike
<1>5. \A i \in 1..(n + 1) : Base(cs, i) = Base(old, i)
  BY <1>1, <1>4, BaseIs
<1>6. \A i \in 1..n : Used(cs, i) = Used(old, i)
  <2>1. \A i \in 1..n : i \in 1..(n + 1)
    OBVIOUS
  <2> QED  BY <1>5, <2>1 DEF Used
<1> QED  BY <1>5, <1>6

\* One chunk of the length of the array.
LEMMA HoldsInOne ==
  ASSUME Total \in Nat \ {0}, NEW c \in Chunk, c.entry = 0, c.size = Total, Total <= Len(c.cells), EndTagFound(c),
         NEW data, \A k \in 1..Total : c.cells[k] = data[k]
  PROVE  Holds(<<c>>, data)
<1>1. PICK cs : cs = <<c>>
  OBVIOUS
<1>2. Len(cs) = 1 /\ cs[1] = c /\ DOMAIN cs = 1..1
  BY <1>1
<1>3. Sound(cs)
  <2>1. Len(c.cells) \in Nat /\ c.size \in 1..Len(c.cells)
    BY DEF Chunk
  <2> QED  BY <1>1, <2>1, OneSound
<1>4. Span(cs, 1) = Total
  BY <1>2 DEF Span
<1>5. Base(cs, 1) = 0 /\ Base(cs, 1 + 1) = Base(cs, 1) + Span(cs, 1)
  <2>1. 1 \in 1..Len(cs)
    BY <1>2
  <2> QED  BY <1>3, <2>1, BaseIs
<1>6. Base(cs, Len(cs) + 1) = Total
  BY <1>2, <1>4, <1>5
<1>7. Used(cs, 1) = Total
  BY <1>4, <1>5 DEF Used, AtMost, AtLeast0
<1>8. \A k \in 1..Total : 0 + k = k
  OBVIOUS
<1>9. \A i \in 1..Len(cs) : i = 1
  BY <1>2
<1> QED  BY <1>1, <1>2, <1>3, <1>5, <1>6, <1>7, <1>8, <1>9 DEF Holds

\* Two chunks, of a table that is made for them.
InTwo(c, d, n, m, data) ==
  /\ n \in Nat \ {0} /\ m \in Nat \ {0} /\ Total = n + m
  /\ c \in Chunk /\ c.entry = n /\ c.size = n /\ n <= Len(c.cells) /\ EndTagFound(c)
  /\ d \in Chunk /\ d.entry = m /\ d.size = m /\ m <= Len(d.cells) /\ EndTagFound(d)
  /\ \A k \in 1..n : c.cells[k] = data[k]
  /\ \A k \in 1..m : d.cells[k] = data[n + k]

\* They hold the data.
LEMMA HoldsInTwo ==
  ASSUME NEW c, NEW d, NEW n, NEW m, NEW data, InTwo(c, d, n, m, data)
  PROVE  Holds(<<c, d>>, data)
<1> USE DEF InTwo
<1>1. PICK cs : cs = <<c, d>>
  OBVIOUS
<1>2. Len(cs) = 2 /\ cs[1] = c /\ cs[2] = d
  BY <1>1
<1>3. Sound(cs)
  <2>1. Len(c.cells) \in Nat /\ Len(d.cells) \in Nat
    BY DEF Chunk
  <2>2. c.entry \in 1..Len(c.cells) /\ c.size \in 1..Len(c.cells) /\ d.entry \in 1..Len(d.cells) /\ d.size \in 1..Len(d.cells)
    BY <2>1
  <2> QED  BY <1>1, <2>2, TwoSound
<1>4. Span(cs, 1) = n /\ Span(cs, 2) = m
  BY <1>2 DEF Span
<1>5. Base(cs, 1) = 0 /\ Base(cs, 2) = n /\ Base(cs, 3) = n + m
  <2>1. 1 \in 1..Len(cs) /\ 2 \in 1..Len(cs) /\ 1 + 1 = 2 /\ 2 + 1 = 3
    BY <1>2
  <2>2. Base(cs, 1) = 0 /\ Base(cs, 1 + 1) = Base(cs, 1) + Span(cs, 1) /\ Base(cs, 2 + 1) = Base(cs, 2) + Span(cs, 2)
    BY <1>3, <2>1, BaseIs
  <2> QED  BY <1>4, <2>1, <2>2
<1>6. Used(cs, 1) = n /\ Used(cs, 2) = m
  BY <1>4, <1>5 DEF Used, AtMost, AtLeast0
<1>7. \A k \in 1..n : 0 + k = k
  OBVIOUS
<1>8. Base(cs, Len(cs) + 1) >= Total
  BY <1>2, <1>5
<1>9. \A i \in 1..Len(cs) : i = 1 \/ i = 2
  BY <1>2
<1>10. ASSUME NEW i \in 1..Len(cs)
       PROVE  /\ cs[i].size = Used(cs, i) /\ EndTagFound(cs[i])
              /\ \A k \in 1..Used(cs, i) : cs[i].cells[k] = data[Base(cs, i) + k]
  BY <1>2, <1>5, <1>6, <1>7, <1>9
<1>11. Len(cs) \in Nat \ {0}
  BY <1>2
<1>12. Holds(cs, data)
  BY <1>3, <1>8, <1>10, <1>11 DEF Holds
<1> QED  BY <1>1, <1>12

\* The chunks of a table, each with its part.
LEMMA HoldsInTable ==
  ASSUME DataInv, Total \in Nat \ {0}, Len(chunks) > 1, NEW data \in Seq(Cell), Len(data) = Total
  PROVE  Sound(AllInTable(data)) /\ Holds(AllInTable(data), data)
<1> DEFINE n == Len(chunks)
           K == [i \in DOMAIN chunks |-> AllInChunk(i, data)]
<1>1. /\ n \in Nat /\ DOMAIN chunks = 1..n /\ Sound(chunks) /\ shape \in [type : Types, dims : Shapes]
      /\ \A i \in 1..n : chunks[i] \in Chunk /\ chunks[i].size \in 1..Len(chunks[i].cells)
  BY DEF DataInv, Sound
<1>2. /\ \A i \in 1..(n + 1) : Base(chunks, i) \in Nat
      /\ \A i \in 1..n : Span(chunks, i) \in 1..Len(chunks[i].cells) /\ Used(chunks, i) \in 0..Span(chunks, i)
  BY <1>1, BaseIs, SpanIs, UsedIs
<1>3. ASSUME NEW i \in 1..n
      PROVE  /\ K[i] \in Chunk /\ K[i].entry = chunks[i].entry /\ Len(K[i].cells) = Len(chunks[i].cells)
             /\ K[i].size \in 1..Len(K[i].cells)
             /\ Used(chunks, i) # 0 =>
                  /\ K[i].size = Used(chunks, i) /\ EndTagFound(K[i])
                  /\ \A k \in 1..Used(chunks, i) : K[i].cells[k] = data[Base(chunks, i) + k]
  <2>1. K[i] = AllInChunk(i, data)
    BY <1>1
  <2>2. CASE Used(chunks, i) = 0
    BY <1>1, <2>1, <2>2 DEF AllInChunk
  <2>3. CASE Used(chunks, i) # 0
    <3>1. PICK c \in Chunk : c = chunks[i]
      BY <1>1
    <3>2. PICK u \in Nat \ {0} : u = Used(chunks, i)
      <4>1. Len(chunks[i].cells) \in Nat
        BY <1>1 DEF Chunk
      <4> QED  BY <1>2, <2>3, <4>1
    <3>3. PICK part : part = SubSeq(data, Base(chunks, i) + 1, Base(chunks, i) + Used(chunks, i))
      OBVIOUS
    <3>4. /\ part \in Seq(Cell) /\ Len(part) = u
          /\ \A k \in 1..u : part[k] = data[Base(chunks, i) + k]
      BY <2>3, <3>2, <3>3, PartForChunk
    <3>5. PICK w : w = WriteChunk(c, u, 0, part)
      OBVIOUS
    <3>6. K[i] = w
      BY <2>1, <2>3, <3>1, <3>2, <3>3, <3>5 DEF AllInChunk
    <3>7. u \in 1..Len(c.cells)
      <4>1. Len(c.cells) \in Nat
        BY DEF Chunk
      <4> QED  BY <1>2, <3>1, <3>2, <4>1
    <3>8. /\ w \in Chunk /\ w.size = u /\ w.entry = c.entry /\ Len(w.cells) = Len(c.cells)
          /\ EndTagFound(w)
          /\ \A k \in 1..u : w.cells[k] = part[k]
      BY <3>4, <3>5, <3>7, WrittenWhole
    <3> HIDE DEF K
    <3> QED  BY <3>1, <3>2, <3>4, <3>6, <3>7, <3>8
  <2> QED  BY <2>2, <2>3
<1>4. Rewritten(K, chunks)
  <2>1. K = [i \in 1..n |-> K[i]]
    BY <1>1
  <2> HIDE DEF K
  <2> QED  BY <1>3, <2>1 DEF Rewritten
<1>5. AllInTable(data) = K \o (IF Total > Spanned THEN <<Added(Total - Spanned, 0, SubSeq(data, Spanned + 1, Total))>> ELSE <<>>)
  BY DEF AllInTable, AllInChunk
<1> HIDE DEF K, n
<1>6. Sound(K) /\ Len(K) = n /\ (\A i \in 1..n : Span(K, i) = Span(chunks, i)) /\ K \in Seq(Chunk)
  <2>1. Len(chunks) # 1 /\ Sound(chunks) /\ n = Len(chunks)
    BY <1>1 DEF n
  <2>2. Sound(K) /\ Len(K) = Len(chunks) /\ \A i \in 1..Len(chunks) : Span(K, i) = Span(chunks, i)
    BY <1>4, <2>1, RewrittenSound
  <2> QED  BY <2>1, <2>2 DEF Sound
<1>7. /\ \A i \in 1..(n + 1) : Base(K, i) = Base(chunks, i)
      /\ \A i \in 1..n : Used(K, i) = Used(chunks, i)
  BY <1>1, <1>6, SameBases DEF n
<1>8. PICK s : s = Spanned
  OBVIOUS
<1>9. s \in Nat /\ s = Base(chunks, n + 1)
  <2>1. n + 1 \in 1..(n + 1)
    BY <1>1
  <2> QED  BY <1>2, <1>8, <2>1 DEF Spanned, n
<1>10. CASE Total <= s
  <2>1. AllInTable(data) = K
    <3>1. ~(Total > s) /\ K \o <<>> = K
      BY <1>6, <1>9, <1>10, ConcatEmptySeq
    <3> QED  BY <1>5, <1>8, <3>1
  <2>2. Base(K, Len(K) + 1) >= Total
    <3>1. n + 1 \in 1..(n + 1)
      BY <1>1
    <3> QED  BY <1>6, <1>7, <1>9, <1>10, <3>1
  <2>3. Len(K) \in Nat \ {0}
    BY <1>1, <1>6 DEF n
  <2>4. \A i \in 1..n : i \in 1..(n + 1)
    BY <1>1
  <2>5. ASSUME NEW i \in 1..Len(K), Used(K, i) # 0
        PROVE  /\ K[i].size = Used(K, i) /\ EndTagFound(K[i])
               /\ \A k \in 1..Used(K, i) : K[i].cells[k] = data[Base(K, i) + k]
    <3>1. i \in 1..n /\ Used(K, i) = Used(chunks, i) /\ Base(K, i) = Base(chunks, i)
      BY <1>6, <1>7, <2>4
    <3> QED  BY <1>3, <2>5, <3>1
  <2>6. Holds(K, data)
    BY <1>6, <2>2, <2>3, <2>5 DEF Holds
  <2> QED  BY <1>6, <2>1, <2>6
<1>11. CASE ~(Total <= s)
  <2>1. PICK m \in Nat \ {0} : m = Total - s
    BY <1>9, <1>11
  <2>2. PICK part : part = SubSeq(data, s + 1, Total)
    OBVIOUS
  <2>3. /\ part \in Seq(Cell) /\ Len(part) = m
        /\ \A k \in 1..m : part[k] = data[s + k]
    <3>1. s + 1 \in Nat /\ Total \in Nat /\ s + 1 >= 1 /\ Total <= Len(data)
      BY <1>9
    <3>2. /\ part \in Seq(Cell)
          /\ Len(part) = IF s + 1 <= Total THEN Total - (s + 1) + 1 ELSE 0
          /\ \A k \in 1..(Total - (s + 1) + 1) : part[k] = data[(s + 1) + k - 1]
      BY <2>2, <3>1, PartOfItems
    <3>3. Total - (s + 1) + 1 = m /\ s + 1 <= Total /\ \A k \in 1..m : (s + 1) + k - 1 = s + k
      BY <1>9, <1>11, <2>1
    <3> QED  BY <3>2, <3>3
  <2>4. PICK a : a = Added(m, 0, part)
    OBVIOUS
  <2>5. a \in Chunk /\ a.size = m /\ a.entry = m /\ Len(a.cells) = m /\ a.cells = WriteChunk(Fresh(m), m, 0, part).cells
    BY <2>3, <2>4, AddedIs
  <2>6. EndTagFound(a) /\ \A k \in 1..m : a.cells[k] = part[k]
    <3>1. PICK f, w : f = Fresh(m) /\ w = WriteChunk(f, m, 0, part)
      OBVIOUS
    <3>2. f \in Chunk /\ Len(f.cells) = m
      BY <3>1, FreshIs
    <3>3. m \in Nat /\ m \in 1..Len(f.cells)
      BY <3>2
    <3>4. w.size = m /\ Len(w.cells) = m /\ \A k \in 1..m : w.cells[k] = part[k]
      BY <2>3, <3>1, <3>2, <3>3, WrittenWhole
    <3>5. a.cells = w.cells
      BY <2>5, <3>1
    <3> QED  BY <2>5, <3>4, <3>5 DEF EndTagFound
  <2>7. PICK t : t = K \o <<a>>
    OBVIOUS
  <2>8. AllInTable(data) = t
    BY <1>5, <1>8, <1>9, <1>11, <2>1, <2>2, <2>4, <2>7
  <2>9. /\ Sound(t) /\ Len(t) = n + 1
        /\ \A i \in 1..n : t[i] = K[i]
        /\ t[n + 1] = a
    <3>1. Len(K) > 1 /\ a.entry \in 1..Len(a.cells) /\ a.size \in 1..Len(a.cells)
      BY <1>6, <2>5 DEF n
    <3>2. Grown(t, K, a)
      BY <1>6, <2>5, <2>7, <3>1, GrownSound
    <3> QED  BY <1>6, <3>2 DEF Grown
  <2>10. ASSUME NEW i \in 1..n PROVE Span(t, i) = Span(K, i)
    <3>1. Len(t) # 1 /\ Len(K) # 1
      BY <1>1, <1>6, <2>9
    <3>2. t[i] = K[i]
      BY <2>9
    <3> QED  BY <3>1, <3>2 DEF Span
  <2>11. Span(t, n + 1) = m
    BY <1>1, <2>5, <2>9 DEF Span, n
  <2>12. /\ \A i \in 1..(n + 1) : Base(t, i) = Base(K, i)
         /\ \A i \in 1..n : Used(t, i) = Used(K, i)
    <3>1. n \in Nat /\ n <= Len(t) /\ n <= Len(K)
      BY <1>1, <1>6, <2>9
    <3> QED  BY <1>6, <2>9, <2>10, <3>1, SameBases
  <2>13. Base(t, n + 1) = s
    <3>1. n + 1 \in 1..(n + 1)
      BY <1>1
    <3> QED  BY <1>7, <1>9, <2>12, <3>1
  <2>14. Base(t, (n + 1) + 1) = s + m
    <3>1. n + 1 \in 1..Len(t)
      BY <1>1, <2>9
    <3>2. Base(t, (n + 1) + 1) = Base(t, n + 1) + Span(t, n + 1)
      BY <2>9, <3>1, BaseIs
    <3> QED  BY <2>11, <2>13, <3>2
  <2>15. s + m = Total
    BY <1>9, <2>1
  <2>16. Used(t, n + 1) = m
    BY <1>9, <2>11, <2>13, <2>15 DEF Used, AtMost, AtLeast0
  <2>17. ASSUME NEW i \in 1..Len(t), Used(t, i) # 0
         PROVE  /\ t[i].size = Used(t, i) /\ EndTagFound(t[i])
                /\ \A k \in 1..Used(t, i) : t[i].cells[k] = data[Base(t, i) + k]
    <3>1. CASE i = n + 1
      BY <2>3, <2>5, <2>6, <2>9, <2>13, <2>16, <3>1
    <3>2. CASE i # n + 1
      <4>1. i \in 1..n /\ i \in 1..(n + 1)
        BY <1>1, <2>9, <3>2
      <4>2. Used(t, i) = Used(chunks, i) /\ Base(t, i) = Base(chunks, i) /\ t[i] = K[i]
        BY <1>7, <2>9, <2>12, <4>1
      <4> QED  BY <1>3, <2>17, <4>1, <4>2
    <3> QED  BY <3>1, <3>2
  <2>18. Len(t) \in Nat \ {0} /\ Base(t, Len(t) + 1) >= Total
    BY <1>1, <1>9, <2>1, <2>9, <2>14, <2>15
  <2>19. Holds(t, data)
    BY <2>9, <2>17, <2>18 DEF Holds
  <2> QED  BY <2>8, <2>9, <2>19
<1> QED  BY <1>9, <1>10, <1>11

\* After ADF_Write_All_Data the chunks hold all the data.
LEMMA AllHolds ==
  ASSUME DataInv, Total \in Nat \ {0}, NEW data \in Seq(Cell), Len(data) = Total
  PROVE  Holds(AllWritten(data), data)
<1>1. Sound(chunks) /\ Len(chunks) \in Nat /\ chunks \in Seq(Chunk)
  BY DEF DataInv, Sound
<1>0. chunks = <<>> \/ Len(chunks) = 1 \/ Len(chunks) > 1
  <2>1. PICK cs \in Seq(Chunk) : cs = chunks
    BY <1>1
  <2> QED  BY <2>1, NotEmpty
<1>01. Len(chunks) # 0 => chunks # <<>>
  OBVIOUS
<1>2. PICK T \in Nat \ {0} : T = Total
  OBVIOUS
<1>3. CASE chunks = <<>>
  <2>1. PICK f, w : f = Fresh(T) /\ w = WriteChunk(f, T, 0, data)
    OBVIOUS
  <2>2. f \in Chunk /\ Len(f.cells) = T /\ f.entry = 0
    BY <2>1, FreshIs
  <2>3. T \in Nat /\ T \in 1..Len(f.cells) /\ Len(data) = T
    BY <1>2, <2>2
  <2>4. /\ w \in Chunk /\ w.size = T /\ w.entry = f.entry /\ Len(w.cells) = Len(f.cells)
        /\ EndTagFound(w) /\ \A k \in 1..T : w.cells[k] = data[k]
    BY <2>1, <2>2, <2>3, WrittenWhole
  <2>5. AllWritten(data) = <<w>>
    BY <1>2, <1>3, <2>1 DEF AllWritten
  <2>6. w.entry = 0 /\ w.size = Total /\ Total <= Len(w.cells) /\ \A k \in 1..Total : w.cells[k] = data[k]
    BY <1>2, <2>2, <2>4
  <2>7. Holds(<<w>>, data)
    BY <2>4, <2>6, HoldsInOne
  <2> QED  BY <2>5, <2>7
<1>4. CASE Len(chunks) = 1
  <2>1. PICK c \in Chunk : c = chunks[1]
    <3>1. 1 \in 1..Len(chunks)
      BY <1>4
    <3>2. chunks[1] \in Chunk
      BY <1>1, <3>1
    <3> QED  BY <3>2
  <2>2. c.size \in 1..Len(c.cells) /\ c.entry = 0 /\ Len(c.cells) \in Nat
    BY <1>1, <1>4, <2>1 DEF Sound, Chunk
  <2>3. chunks # <<>>
    BY <1>01, <1>4
  <2>4. CASE Total <= c.size
    <3>1. PICK w : w = WriteChunk(c, T, 0, data)
      OBVIOUS
    <3>2. T \in Nat /\ T \in 1..Len(c.cells) /\ Len(data) = T
      BY <1>2, <2>2, <2>4
    <3>3. /\ w \in Chunk /\ w.size = T /\ w.entry = c.entry /\ Len(w.cells) = Len(c.cells)
          /\ EndTagFound(w) /\ \A k \in 1..T : w.cells[k] = data[k]
      BY <3>1, <3>2, WrittenWhole
    <3>4. AllWritten(data) = <<w>>
      <4>1. AllWritten(data) = <<WriteChunk(chunks[1], Total, 0, data)>>
        <5>1. Total <= chunks[1].size /\ ~(Total > chunks[1].size)
          BY <1>2, <2>1, <2>2, <2>4
        <5> QED  BY <1>4, <2>3, <5>1 DEF AllWritten
      <4> QED  BY <1>2, <2>1, <3>1, <4>1
    <3>5. w.entry = 0 /\ w.size = Total /\ Total <= Len(w.cells) /\ \A k \in 1..Total : w.cells[k] = data[k]
      BY <1>2, <2>2, <3>2, <3>3
    <3>6. Holds(<<w>>, data)
      BY <3>3, <3>5, HoldsInOne
    <3> QED  BY <3>4, <3>6
  <2>5. CASE ~(Total <= c.size)
    <3>1. PICK n \in Nat \ {0}, m \in Nat \ {0} : n = c.size /\ m = Total - n
      <4>1. c.size \in Nat \ {0} /\ Total - c.size \in Nat \ {0}
        BY <1>2, <2>2, <2>5
      <4> QED  BY <4>1
    <3>2. Total = n + m /\ n \in Nat /\ m \in Nat
      BY <1>2, <3>1
    <3>3. PICK first, rest : first = SubSeq(data, 1, n) /\ rest = SubSeq(data, n + 1, Total)
      OBVIOUS
    <3>4. first \in Seq(Cell) /\ Len(first) = n /\ \A k \in 1..n : first[k] = data[k]
      <4>1. 1 \in Nat /\ n \in Nat /\ 1 >= 1 /\ n <= Len(data)
        BY <3>1, <3>2
      <4>2. /\ first \in Seq(Cell) /\ Len(first) = IF 1 <= n THEN n - 1 + 1 ELSE 0
            /\ \A k \in 1..(n - 1 + 1) : first[k] = data[1 + k - 1]
        BY <3>3, <4>1, PartOfItems
      <4>3. 1 <= n /\ n - 1 + 1 = n /\ \A k \in 1..n : 1 + k - 1 = k
        OBVIOUS
      <4> QED  BY <4>2, <4>3
    <3>5. rest \in Seq(Cell) /\ Len(rest) = m /\ \A k \in 1..m : rest[k] = data[n + k]
      <4>1. n + 1 \in Nat /\ Total \in Nat /\ n + 1 >= 1 /\ Total <= Len(data)
        OBVIOUS
      <4>2. /\ rest \in Seq(Cell) /\ Len(rest) = IF n + 1 <= Total THEN Total - (n + 1) + 1 ELSE 0
            /\ \A k \in 1..(Total - (n + 1) + 1) : rest[k] = data[(n + 1) + k - 1]
        BY <3>3, <4>1, PartOfItems
      <4>3. n + 1 <= Total /\ Total - (n + 1) + 1 = m /\ \A k \in 1..m : (n + 1) + k - 1 = n + k
        BY <3>2
      <4> QED  BY <4>2, <4>3
    <3>6. PICK w, f, v : w = WriteChunk(c, n, 0, first) /\ f = Fresh(m) /\ v = WriteChunk(f, m, 0, rest)
      OBVIOUS
    <3>7. f \in Chunk /\ Len(f.cells) = m
      BY <3>2, <3>6, FreshIs
    <3>8. n \in 1..Len(c.cells) /\ m \in 1..Len(f.cells)
      BY <2>2, <3>1, <3>7
    <3>9. /\ w \in Chunk /\ w.size = n /\ w.entry = c.entry /\ Len(w.cells) = Len(c.cells)
          /\ EndTagFound(w) /\ \A k \in 1..n : w.cells[k] = first[k]
      BY <3>2, <3>4, <3>6, <3>8, WrittenWhole
    <3>10. /\ v \in Chunk /\ v.size = m /\ v.entry = f.entry /\ Len(v.cells) = Len(f.cells)
           /\ EndTagFound(v) /\ \A k \in 1..m : v.cells[k] = rest[k]
      BY <3>2, <3>5, <3>6, <3>7, <3>8, WrittenWhole
    <3>11. PICK ew, ev : ew = Entered(w) /\ ev = Entered(v)
      OBVIOUS
    <3>12. /\ ew \in Chunk /\ ew.size = n /\ ew.entry = n /\ ew.cells = w.cells
           /\ ev \in Chunk /\ ev.size = m /\ ev.entry = m /\ ev.cells = v.cells
      BY <3>9, <3>10, <3>11, EntryIs
    <3>13. AllWritten(data) = <<ew, ev>>
      <4>1. AllWritten(data) = AllInTwo(data)
        <5>1. ~(Total <= chunks[1].size) /\ Total > chunks[1].size
          BY <1>2, <2>1, <2>2, <2>5
        <5> QED  BY <1>4, <2>3, <5>1 DEF AllWritten
      <4>2. n = chunks[1].size /\ m = Total - n
        BY <2>1, <3>1
      <4> QED  BY <2>1, <3>3, <3>6, <3>11, <4>1, <4>2 DEF AllInTwo
    <3>14. /\ n <= Len(ew.cells) /\ m <= Len(ev.cells) /\ EndTagFound(ew) /\ EndTagFound(ev)
           /\ \A k \in 1..n : ew.cells[k] = data[k]
           /\ \A k \in 1..m : ev.cells[k] = data[n + k]
      BY <3>4, <3>5, <3>7, <3>8, <3>9, <3>10, <3>12 DEF EndTagFound
    <3>15. Holds(<<ew, ev>>, data)
      <4>1. InTwo(ew, ev, n, m, data)
        BY <3>2, <3>12, <3>14 DEF InTwo
      <4> QED  BY <4>1, HoldsInTwo
    <3> QED  BY <3>13, <3>15
  <2> QED  BY <2>4, <2>5
<1>5. CASE Len(chunks) > 1
  <2>1. chunks # <<>> /\ Len(chunks) # 1
    <3>1. \A l \in Nat : l > 1 => l # 1 /\ l # 0
      OBVIOUS
    <3>2. Len(chunks) # 1 /\ Len(chunks) # 0
      BY <1>1, <1>5, <3>1
    <3> QED  BY <1>01, <3>2
  <2>2. AllWritten(data) = AllInTable(data)
    BY <2>1 DEF AllWritten
  <2> QED  BY <1>5, <2>2, HoldsInTable
<1> QED
  BY <1>0, <1>3, <1>4, <1>5

-----------------------------------------------------------------------------
(* Reading chunk after chunk.                                              *)

\* The pieces one after the other: as long as all of them, and each at its place.
Flat(flat, S, pieces, lens, n) ==
  /\ flat \in Seq(S) /\ Len(flat) = Before(lens, n + 1)
  /\ \A i \in 1..n : \A k \in 1..Len(pieces[i]) : flat[Before(lens, i) + k] = pieces[i][k]

\* So FlattenSeq puts them.
LEMMA Flattened ==
  ASSUME NEW S, NEW pieces, NEW n \in Nat \ {0}, pieces = [i \in 1..n |-> pieces[i]], \A i \in 1..n : pieces[i] \in Seq(S),
         NEW lens, lens = [i \in 1..n |-> Len(pieces[i])]
  PROVE  Flat(FlattenSeq(pieces), S, pieces, lens, n)
<1>1. Len(pieces) = n /\ pieces \in Seq(Seq(S))
  BY IsSequence
<1>2. lens \in Seq(Nat) /\ Len(lens) = n /\ \A i \in 1..n : lens[i] = Len(pieces[i])
  <2>1. \A i \in 1..n : lens[i] = Len(pieces[i]) /\ Len(pieces[i]) \in Nat
    BY <1>1
  <2>2. lens = [i \in 1..n |-> lens[i]]
    BY <2>1
  <2> QED  BY <2>1, <2>2, IsSequence
<1>3. /\ \A i \in 1..(n + 1) : Before(lens, i) \in Nat
      /\ Before(lens, 1) = 0
      /\ \A i \in 1..n : Before(lens, i + 1) = Before(lens, i) + Len(pieces[i])
  BY <1>2, Sums
<1> DEFINE Joined(f, i) == IF i = 1 THEN pieces[i] ELSE f[i - 1] \o pieces[i]
           Is(f) == f = [i \in 1..n |-> Joined(f, i)]
           flatten == CHOOSE f : Is(f)
           step == [i \in 1..n |-> [x \in Seq(S) |-> x \o pieces[i]]]
<1>4. step \in [1..n -> [Seq(S) -> Seq(S)]]
  <2>1. \A i \in 1..n, x \in Seq(S) : x \o pieces[i] \in Seq(S)
    OBVIOUS
  <2> QED  BY <2>1
<1>5. \A i \in 1..n, x \in Seq(S) : step[i][x] = x \o pieces[i]
  OBVIOUS
<1> HIDE DEF step
<1>6. PICK f : Stepping(f, n, Seq(S), <<>>, step)
  <2>1. <<>> \in Seq(S) /\ n \in Nat
    OBVIOUS
  <2> QED  BY <1>4, <2>1, Steps
<1>7. /\ f[0] = <<>> /\ \A i \in 0..n : f[i] \in Seq(S)
      /\ \A i \in 1..n : f[i] = f[i - 1] \o pieces[i]
  <2>1. f[0] = <<>> /\ \A i \in 0..n : f[i] \in Seq(S)
    BY <1>6 DEF Stepping
  <2>2. \A i \in 1..n : i - 1 \in 0..n /\ f[i] = step[i][f[i - 1]]
    BY <1>6 DEF Stepping
  <2> QED  BY <1>5, <2>1, <2>2
<1>8. f[1] = pieces[1]
  <2>1. 1 \in 1..n /\ 1 - 1 = 0
    OBVIOUS
  <2>2. f[1] = <<>> \o pieces[1] /\ pieces[1] \in Seq(S)
    BY <1>7, <2>1
  <2> QED  BY <2>2, ConcatEmptySeq
<1> DEFINE g == [i \in 1..n |-> f[i]]
<1>9. Is(g)
  <2>1. ASSUME NEW i \in 1..n PROVE g[i] = Joined(g, i)
    <3>1. i # 1 => i - 1 \in 1..n /\ g[i - 1] = f[i - 1]
      OBVIOUS
    <3> QED  BY <1>7, <1>8, <3>1
  <2>2. g = [i \in 1..n |-> g[i]]
    OBVIOUS
  <2> HIDE DEF g
  <2> QED  BY <2>1, <2>2
<1>10. Is(flatten)
  <2> HIDE DEF Is
  <2> QED  BY <1>9
<1>11. FlattenSeq(pieces) = flatten[n]
  BY <1>1 DEF FlattenSeq
<1> HIDE DEF flatten, g
<1>12. \A i \in 1..n : flatten[i] = Joined(flatten, i)
  BY <1>10
<1> HIDE DEF Is
<1> DEFINE Right(i) ==
             /\ flatten[i] \in Seq(S) /\ Len(flatten[i]) = Before(lens, i + 1)
             /\ \A j \in 1..i : \A k \in 1..Len(pieces[j]) : flatten[i][Before(lens, j) + k] = pieces[j][k]
           Far == {i \in 0..n : i = 0 \/ Right(i)}
<1>13. 0 \in Far
  OBVIOUS
<1>14. ASSUME NEW i \in 1..n, i - 1 \in Far PROVE i \in Far
  <2>1. Before(lens, i) \in Nat /\ Before(lens, i + 1) = Before(lens, i) + Len(pieces[i]) /\ pieces[i] \in Seq(S)
    <3>1. i \in 1..(n + 1)
      OBVIOUS
    <3> QED  BY <1>3, <3>1
  <2>2. CASE i = 1
    <3>1. flatten[1] = pieces[1] /\ Before(lens, 1) = 0
      BY <1>3, <1>12, <2>2
    <3>2. ASSUME NEW j \in 1..1, NEW k \in 1..Len(pieces[j]) PROVE flatten[1][Before(lens, j) + k] = pieces[j][k]
      <4>1. j = 1 /\ 0 + k = k
        <5>1. k \in Nat
          BY <2>1, <2>2
        <5> QED  BY <5>1
      <4> QED  BY <3>1, <4>1
    <3>3. Len(flatten[1]) = Before(lens, 1 + 1)
      BY <2>1, <2>2, <3>1
    <3>4. flatten[1] \in Seq(S)
      BY <2>1, <2>2, <3>1
    <3>5. Right(1)
      BY <3>2, <3>3, <3>4
    <3> HIDE DEF Right
    <3> QED  BY <2>2, <3>5
  <2>3. CASE i # 1
    <3>1. PICK h : h = i - 1
      OBVIOUS
    <3>2. h \in 1..n /\ h + 1 = i /\ Right(h)
      <4>1. h \in 1..n /\ h + 1 = i /\ h # 0 /\ h \in Far
        <5>1. h \in 1..n /\ h + 1 = i /\ h # 0
          BY <2>3, <3>1
        <5> HIDE DEF Far
        <5> QED  BY <1>14, <3>1, <5>1
      <4> HIDE DEF Right
      <4>2. h = 0 \/ Right(h)
        BY <4>1
      <4> QED  BY <4>1, <4>2
    <3>3. PICK x, y, z : x = flatten[h] /\ y = pieces[i] /\ z = flatten[i]
      OBVIOUS
    <3>4. z = x \o y /\ x \in Seq(S) /\ y \in Seq(S) /\ Len(x) = Before(lens, i)
      BY <1>12, <2>1, <2>3, <3>1, <3>2, <3>3
    <3>5. /\ z \in Seq(S) /\ Len(z) = Len(x) + Len(y)
          /\ \A k \in 1..(Len(x) + Len(y)) : z[k] = IF k <= Len(x) THEN x[k] ELSE y[k - Len(x)]
      BY <3>4, ConcatProperties
    <3>6. ASSUME NEW j \in 1..i, NEW k \in 1..Len(pieces[j]) PROVE z[Before(lens, j) + k] = pieces[j][k]
      <4>1. j \in 1..n /\ j \in 1..(n + 1) /\ Len(pieces[j]) \in Nat
        OBVIOUS
      <4>2. Before(lens, j) \in Nat /\ Before(lens, j + 1) = Before(lens, j) + Len(pieces[j])
        BY <1>3, <4>1
      <4>3. CASE j = i
        <5>1. Before(lens, j) + k \in 1..(Len(x) + Len(y)) /\ ~(Before(lens, j) + k <= Len(x))
              /\ (Before(lens, j) + k) - Len(x) = k
          BY <3>3, <3>4, <4>1, <4>2, <4>3
        <5> QED  BY <3>3, <3>5, <4>3, <5>1
      <4>4. CASE j # i
        <5>1. j \in 1..h /\ j + 1 <= i /\ j + 1 \in 1..(n + 1) /\ i \in 1..(n + 1)
          BY <3>2, <4>4
        <5>2. Before(lens, j + 1) <= Before(lens, i)
          BY <1>2, <5>1, SumsGrow
        <5>3. Before(lens, j) + k \in 1..(Len(x) + Len(y)) /\ Before(lens, j) + k <= Len(x)
          <6>1. PICK b, l, u, v : b = Before(lens, j) /\ l = Len(pieces[j]) /\ u = Len(x) /\ v = Len(y)
            OBVIOUS
          <6>2. b \in Nat /\ l \in Nat /\ u \in Nat /\ v \in Nat /\ k \in 1..l /\ b + l <= u
            BY <3>4, <4>1, <4>2, <5>2, <6>1
          <6>3. b + k \in 1..(u + v) /\ b + k <= u
            BY <6>2
          <6> QED  BY <6>1, <6>3
        <5>4. x[Before(lens, j) + k] = pieces[j][k]
          BY <3>2, <3>3, <5>1
        <5> QED  BY <3>5, <5>3, <5>4
      <4> QED  BY <4>3, <4>4
    <3>7. Len(z) = Before(lens, i + 1)
      BY <2>1, <3>3, <3>4, <3>5
    <3>8. i \in 0..n
      OBVIOUS
    <3>9. Right(i)
      BY <3>3, <3>5, <3>6, <3>7
    <3> HIDE DEF Right
    <3> QED  BY <3>8, <3>9
  <2> QED  BY <2>2, <2>3
<1> HIDE DEF Far
<1>15. 0..n \subseteq Far
  <2>1. n \in Nat
    OBVIOUS
  <2> QED  BY <1>13, <1>14, <2>1, UpTo
<1>16. n \in Far /\ n # 0
  BY <1>15
<1>17. Right(n)
  BY <1>16 DEF Far
<1> QED  BY <1>11, <1>17 DEF Flat

-----------------------------------------------------------------------------
(* The operations keep the chunks sound.                                   *)

\* No chunk at all.
LEMMA NoneSound == Sound(<<>>)
BY DEF Sound

\* The whole array.
LEMMA WriteAllSound ==
  ASSUME DataInv, WriteAllData
  PROVE  Sound(chunks')
<1>1. Total \in Nat \ {0}
  BY TotalIs DEF DataInv, WriteAllData
<1>2. PICK T \in Nat : T = Total
  BY <1>1
<1>3. PICK data : data = Items("all", T)
  OBVIOUS
<1>4. data \in Seq(Cell) /\ Len(data) = Total
  BY <1>2, <1>3, ItemsAre
<1>5. Holds(AllWritten(data), data)
  BY <1>1, <1>4, AllHolds
<1>6. chunks' = AllWritten(data)
  BY <1>2, <1>3 DEF WriteAllData
<1> QED  BY <1>5, <1>6 DEF Holds

\* What the operations on a block know of it.
Block(s, e) == s \in Nat /\ e \in Nat /\ s <= e /\ e <= Total /\ Total \in Nat \ {0}

\* A block of an array.
LEMMA BlockIs ==
  ASSUME DataInv, NEW s \in 0..Total, NEW e \in 0..Total, InRange(s, e)
  PROVE  Block(s, e)
<1>1. Total \in Nat
  BY TotalIs DEF DataInv
<1> QED  BY <1>1 DEF Block, InRange

\* The items of a block.
LEMMA BlockItemsAre ==
  ASSUME NEW s \in Nat, NEW e \in Nat, s <= e
  PROVE  Items("block", e - s) \in Seq(Cell)
<1>1. PICK m \in Nat : m = e - s
  <2>1. e - s \in Nat
    OBVIOUS
  <2> QED  BY <2>1
<1> QED  BY <1>1, ItemsAre

\* What is left of them.
LEMMA BlockItems ==
  ASSUME NEW s \in Nat, NEW e \in Nat, s <= e, NEW a \in Nat, NEW b \in Nat, a >= 1, b <= e - s
  PROVE  SubSeq(Items("block", e - s), a, b) \in Seq(Cell)
<1>1. PICK m \in Nat : m = e - s
  <2>1. e - s \in Nat
    OBVIOUS
  <2> QED  BY <2>1
<1>2. PICK data : data = Items("block", m)
  OBVIOUS
<1>3. data \in Seq(Cell) /\ Len(data) = m
  BY <1>2, ItemsAre
<1>4. b <= Len(data)
  BY <1>1, <1>3
<1>5. SubSeq(data, a, b) \in Seq(Cell)
  BY <1>3, <1>4, PartOfItems
<1> QED  BY <1>1, <1>2, <1>3, <1>5

\* One chunk, new or as it was.
LEMMA BlockFirstSound ==
  ASSUME DataInv, NEW s, NEW e, Block(s, e), WriteBlockFirst(s, e)
  PROVE  Sound(chunks')
<1>1. PICK T \in Nat \ {0} : T = Total
  BY DEF Block
<1>2. s \in Nat /\ e \in Nat /\ s <= e /\ e - s \in Nat
  BY DEF Block
<1>3. PICK data : data = Items("block", e - s)
  OBVIOUS
<1>4. data \in Seq(Cell)
  BY <1>2, <1>3, BlockItemsAre
<1>5. PICK w : w = WriteChunk(Fresh(T), T, s, data)
  OBVIOUS
<1>6. w \in Chunk /\ w.entry = 0 /\ w.size = T /\ Len(w.cells) = T
  BY <1>2, <1>4, <1>5, FreshWritten
<1>7. w.size \in 1..Len(w.cells)
  BY <1>6
<1>8. Sound(<<w>>)
  BY <1>6, <1>7, OneSound
<1> QED  BY <1>1, <1>3, <1>5, <1>8 DEF WriteBlockFirst

\* The single chunk of a node.
LEMMA SingleIs ==
  ASSUME DataInv, Len(chunks) = 1
  PROVE  /\ chunks[1] \in Chunk /\ chunks[1].entry = 0 /\ chunks[1].size \in 1..Len(chunks[1].cells)
         /\ chunks[1].size \in Nat \ {0} /\ Spanned = chunks[1].size
<1>1. Sound(chunks) /\ chunks \in Seq(Chunk) /\ 1 \in 1..Len(chunks)
  BY DEF DataInv, Sound
<1>2. chunks[1] \in Chunk /\ chunks[1].entry = 0 /\ chunks[1].size \in 1..Len(chunks[1].cells)
  BY <1>1 DEF Sound
<1>3. chunks[1].size \in Nat \ {0}
  BY <1>2 DEF Chunk
<1>4. Base(chunks, 1 + 1) = Base(chunks, 1) + Span(chunks, 1) /\ Base(chunks, 1) = 0
  BY <1>1, BaseIs
<1>5. Spanned = chunks[1].size
  BY <1>3, <1>4 DEF Spanned, Span
<1> QED  BY <1>2, <1>3, <1>5

\* A block in the single chunk.
LEMMA BlockInPlaceSound ==
  ASSUME DataInv, NEW s, NEW e, Block(s, e), WriteBlockInPlace(s, e)
  PROVE  Sound(chunks')
<1>1. Len(chunks) = 1
  BY DEF WriteBlockInPlace
<1>2. PICK c \in Chunk : c = chunks[1]
  BY <1>1, SingleIs
<1>3. c.entry = 0 /\ c.size \in 1..Len(c.cells) /\ c.size \in Nat
  BY <1>1, <1>2, SingleIs
<1>4. s \in Nat /\ e \in Nat /\ s <= e /\ e - s \in Nat
  BY DEF Block
<1>5. PICK data, w : data = Items("block", e - s) /\ w = WriteChunk(c, c.size, s, data)
  OBVIOUS
<1>6. data \in Seq(Cell)
  BY <1>4, <1>5, BlockItemsAre
<1>7. w \in Chunk /\ w.entry = 0 /\ w.size \in 1..Len(w.cells)
  BY <1>3, <1>4, <1>5, <1>6, WrittenSound
<1>8. Sound(<<w>>)
  BY <1>7, OneSound
<1> QED  BY <1>2, <1>5, <1>8 DEF WriteBlockInPlace

\* A chunk of its size becomes the first or the second of a table.
LEMMA EnteredSound ==
  ASSUME NEW c \in Chunk, c.size \in 1..Len(c.cells)
  PROVE  Entered(c) \in Chunk /\ Entered(c).entry \in 1..Len(Entered(c).cells) /\ Entered(c).size \in 1..Len(Entered(c).cells)
BY EntryIs

\* A block that makes a second chunk necessary.
LEMMA BlockSecondSound ==
  ASSUME DataInv, NEW s, NEW e, Block(s, e), WriteBlockSecond(s, e)
  PROVE  Sound(chunks')
<1>1. Len(chunks) = 1 /\ Total > chunks[1].size
  BY DEF WriteBlockSecond
<1>2. PICK c \in Chunk : c = chunks[1]
  BY <1>1, SingleIs
<1>3. PICK n \in Nat \ {0} : n = c.size
  BY <1>1, <1>2, SingleIs
<1>4. c.size \in 1..Len(c.cells) /\ Total \in Nat /\ Total > n
  BY <1>1, <1>2, <1>3, SingleIs DEF Block
<1>5. PICK m \in Nat \ {0} : m = Total - n
  <2>1. Total - n \in Nat \ {0}
    BY <1>4
  <2> QED  BY <2>1
<1>6. s \in Nat /\ e \in Nat /\ s <= e /\ e - s \in Nat
  BY DEF Block
<1>7. PICK inFirst : inFirst = AtMost(e - s, n - s)
  OBVIOUS
<1>8. s <= n => inFirst \in Nat /\ inFirst <= e - s
  BY <1>6, <1>7 DEF AtMost
<1>9. PICK first : first = IF s <= n THEN WriteChunk(c, n, s, Items("block", inFirst)) ELSE c
  OBVIOUS
<1>10. first \in Chunk /\ first.size \in 1..Len(first.cells)
  <2>1. CASE s <= n
    <3>1. PICK data : data = Items("block", inFirst)
      OBVIOUS
    <3>2. data \in Seq(Cell)
      BY <1>8, <2>1, <3>1, ItemsAre
    <3>3. n \in Nat /\ n \in 1..Len(c.cells)
      BY <1>3, <1>4
    <3>4. /\ WriteChunk(c, n, s, data) \in Chunk /\ WriteChunk(c, n, s, data).size = n
          /\ n \in 1..Len(WriteChunk(c, n, s, data).cells)
      BY <1>6, <3>2, <3>3, WrittenSound
    <3> QED  BY <1>9, <2>1, <3>1, <3>4
  <2>2. CASE ~(s <= n)
    BY <1>4, <1>9, <2>2
  <2> QED  BY <2>1, <2>2
<1>11. PICK rest : rest = SubSeq(Items("block", e - s), IF s <= n THEN inFirst + 1 ELSE 1, e - s)
  OBVIOUS
<1>12. rest \in Seq(Cell)
  <2>1. PICK a \in Nat : a = (IF s <= n THEN inFirst + 1 ELSE 1) /\ a >= 1
    BY <1>8
  <2>2. e - s <= e - s
    BY <1>6
  <2> QED  BY <1>6, <1>11, <2>1, <2>2, BlockItems
<1>13. [k \in DOMAIN rest |-> Junk] \in Seq(Cell)
  <2>1. DOMAIN rest = 1..Len(rest) /\ Len(rest) \in Nat /\ Junk \in Cell
    BY <1>12 DEF Junk, Cell
  <2>2. PICK junk : junk = [k \in DOMAIN rest |-> Junk]
    OBVIOUS
  <2>3. junk = [k \in 1..Len(rest) |-> junk[k]] /\ \A k \in 1..Len(rest) : junk[k] \in Cell
    BY <2>1, <2>2
  <2>4. junk \in Seq(Cell)
    BY <2>1, <2>3, IsSequence
  <2> QED  BY <2>2, <2>4
<1>14. PICK data \in IF s <= n THEN {rest} ELSE {rest, [k \in DOMAIN rest |-> Junk]} :
         chunks' = <<Entered(first),
                     Entered(IF s <= n /\ inFirst = e - s
                             THEN WriteChunk(Fresh(m), m, 0, Zeros(m))
                             ELSE WriteChunk(Fresh(m), m, AtLeast0(s - n), data))>>
  BY <1>2, <1>3, <1>5, <1>7, <1>9, <1>11 DEF WriteBlockSecond
<1>15. data \in Seq(Cell)
  BY <1>12, <1>13, <1>14
<1>16. PICK z, w : z = WriteChunk(Fresh(m), m, 0, Zeros(m)) /\ w = WriteChunk(Fresh(m), m, AtLeast0(s - n), data)
  OBVIOUS
<1>17. z \in Chunk /\ z.size \in 1..Len(z.cells)
  <2>1. 0 \in Nat /\ m \in Nat /\ Zeros(m) \in Seq(Cell)
    BY ItemsAre
  <2>2. PICK zeros \in Seq(Cell) : zeros = Zeros(m)
    BY <2>1
  <2>3. z \in Chunk /\ z.size = m /\ Len(z.cells) = m
    BY <1>16, <2>1, <2>2, FreshWritten
  <2> QED  BY <2>3
<1>18. w \in Chunk /\ w.size \in 1..Len(w.cells)
  <2>1. PICK at \in Nat : at = AtLeast0(s - n)
    <3>1. AtLeast0(s - n) \in Nat
      BY <1>6 DEF AtLeast0
    <3> QED  BY <3>1
  <2>2. w \in Chunk /\ w.size = m /\ Len(w.cells) = m
    BY <1>15, <1>16, <2>1, FreshWritten
  <2> QED  BY <2>2
<1>19. PICK v : v = IF s <= n /\ inFirst = e - s THEN z ELSE w
  OBVIOUS
<1>20. v \in Chunk /\ v.size \in 1..Len(v.cells)
  BY <1>17, <1>18, <1>19
<1>21. chunks' = <<Entered(first), Entered(v)>>
  BY <1>14, <1>16, <1>19
<1>22. PICK x, y : x = Entered(first) /\ y = Entered(v)
  OBVIOUS
<1>23. /\ x \in Chunk /\ x.entry \in 1..Len(x.cells) /\ x.size \in 1..Len(x.cells)
       /\ y \in Chunk /\ y.entry \in 1..Len(y.cells) /\ y.size \in 1..Len(y.cells)
  BY <1>10, <1>20, <1>22, EnteredSound
<1>24. Sound(<<x, y>>)
  BY <1>23, TwoSound
<1> QED  BY <1>21, <1>22, <1>24

\* A block in the chunks of a table.
LEMMA BlockInTableSound ==
  ASSUME DataInv, NEW s, NEW e, Block(s, e), Len(chunks) > 1
  PROVE  Sound(BlockInTable(s, e)) /\ Len(BlockInTable(s, e)) = Len(chunks)
<1> DEFINE n == Len(chunks)
<1>1. /\ n \in Nat /\ DOMAIN chunks = 1..n /\ Sound(chunks) /\ n # 1
      /\ \A i \in 1..n : chunks[i] \in Chunk /\ chunks[i].size \in 1..Len(chunks[i].cells)
  BY DEF DataInv, Sound
<1>2. /\ \A i \in 1..(n + 1) : Base(chunks, i) \in Nat
      /\ \A i \in 1..n : Span(chunks, i) \in 1..Len(chunks[i].cells) /\ Span(chunks, i) \in Nat
  BY <1>1, BaseIs, SpanIs
<1>3. s \in Nat /\ e \in Nat /\ s <= e
  BY DEF Block
<1> DEFINE Of(i) ==
             LET p == InChunk(i, s, e)
                 done == Base(chunks, i) + p.from - s
             IN  IF p.n = 0 THEN chunks[i]
                 ELSE WriteChunk(chunks[i], Span(chunks, i), p.from, SubSeq(Items("block", e - s), done + 1, done + p.n))
<1>4. ASSUME NEW i \in 1..n
      PROVE  /\ Of(i) \in Chunk /\ Of(i).entry = chunks[i].entry /\ Len(Of(i).cells) = Len(chunks[i].cells)
             /\ Of(i).size \in 1..Len(Of(i).cells)
  <2>1. PICK b \in Nat, span \in Nat, c \in Chunk : b = Base(chunks, i) /\ span = Span(chunks, i) /\ c = chunks[i]
    <3>1. i \in 1..(n + 1)
      BY <1>1
    <3> QED  BY <1>1, <1>2, <3>1
  <2>2. span \in 1..Len(c.cells) /\ c.size \in 1..Len(c.cells)
    BY <1>1, <1>2, <2>1
  <2>3. PICK from \in Nat : from = (IF s > b THEN s - b ELSE 0)
    <3>1. (IF s > b THEN s - b ELSE 0) \in Nat
      BY <1>3
    <3> QED  BY <3>1
  <2>4. PICK m \in Nat : m = AtLeast0(AtMost(span, e - b) - from)
    <3>1. AtLeast0(AtMost(span, e - b) - from) \in Nat
      BY <1>3 DEF AtLeast0, AtMost
    <3> QED  BY <3>1
  <2>5. InChunk(i, s, e) = [from |-> from, n |-> m]
    BY <2>1, <2>3, <2>4 DEF InChunk
  <2>6. PICK done : done = b + from - s
    OBVIOUS
  <2>7. Of(i) = IF m = 0 THEN c ELSE WriteChunk(c, span, from, SubSeq(Items("block", e - s), done + 1, done + m))
    BY <2>1, <2>5, <2>6
  <2> HIDE DEF Of
  <2>8. CASE m = 0
    BY <2>1, <2>2, <2>7, <2>8
  <2>9. CASE m # 0
    <3>1. done + 1 \in Nat /\ done + m \in Nat /\ done + 1 >= 1 /\ done + m <= e - s
      BY <1>3, <2>3, <2>4, <2>6, <2>9 DEF AtLeast0, AtMost
    <3>2. PICK data : data = SubSeq(Items("block", e - s), done + 1, done + m)
      OBVIOUS
    <3>3. data \in Seq(Cell)
      BY <1>3, <3>1, <3>2, BlockItems
    <3>4. PICK w : w = WriteChunk(c, span, from, data)
      OBVIOUS
    <3>5. w \in Chunk /\ w.entry = c.entry /\ w.size = span /\ Len(w.cells) = Len(c.cells) /\ span \in 1..Len(w.cells)
      <4>1. span \in 1..Len(c.cells) /\ c \in Chunk
        BY <2>2
      <4> QED  BY <3>3, <3>4, <4>1, WrittenSound
    <3>6. Of(i) = w
      BY <2>7, <2>9, <3>2, <3>4
    <3> QED  BY <2>1, <3>5, <3>6
  <2> QED  BY <2>8, <2>9
<1>5. BlockInTable(s, e) = [i \in 1..n |-> Of(i)]
  BY <1>1 DEF BlockInTable
<1> HIDE DEF Of
<1>6. PICK K : K = BlockInTable(s, e)
  OBVIOUS
<1>7. Rewritten(K, chunks)
  <2>1. K = [i \in 1..n |-> K[i]] /\ \A i \in 1..n : K[i] = Of(i)
    BY <1>5, <1>6
  <2> QED  BY <1>4, <2>1 DEF Rewritten
<1>8. Sound(K) /\ Len(K) = Len(chunks)
  BY <1>1, <1>7, RewrittenSound
<1> QED  BY <1>6, <1>8

\* A block in a table that has to grow.
LEMMA BlockGrowSound ==
  ASSUME DataInv, NEW s, NEW e, Block(s, e), WriteBlockGrow(s, e)
  PROVE  Sound(chunks')
<1>1. Len(chunks) > 1 /\ Total - Spanned > 0
  BY DEF WriteBlockGrow
<1>2. s \in Nat /\ e \in Nat /\ s <= e /\ Total \in Nat
  BY DEF Block
<1>3. Spanned \in Nat
  <2>1. Sound(chunks) /\ Len(chunks) + 1 \in 1..(Len(chunks) + 1)
    BY DEF DataInv, Sound
  <2> QED  BY <2>1, BaseIs DEF Spanned
<1>4. PICK n \in Nat \ {0} : n = Total - Spanned
  <2>1. Total - Spanned \in Nat \ {0}
    BY <1>1, <1>2, <1>3
  <2> QED  BY <2>1
<1>5. PICK done \in Nat, start \in Nat : done = AtLeast0(AtMost(e - s, Spanned - s)) /\ start = AtLeast0(s - n)
  <2>1. AtLeast0(AtMost(e - s, Spanned - s)) \in Nat /\ AtLeast0(s - n) \in Nat
    BY <1>2, <1>3 DEF AtLeast0, AtMost
  <2> QED  BY <2>1
<1>6. PICK K : K = BlockInTable(s, e)
  OBVIOUS
<1>7. Sound(K) /\ Len(K) > 1
  BY <1>1, <1>6, BlockInTableSound
<1>8. PICK zeros, rest : zeros = Zeros(n) /\ rest = SubSeq(Items("block", e - s), done + 1, e - s)
  OBVIOUS
<1>9. zeros \in Seq(Cell) /\ rest \in Seq(Cell)
  <2>1. done + 1 \in Nat /\ e - s \in Nat /\ done + 1 >= 1 /\ e - s <= e - s
    BY <1>2
  <2> QED  BY <1>2, <1>8, <2>1, ItemsAre, BlockItems
<1>10. PICK a, b : a = Added(n, 0, zeros) /\ b = Added(n, start, rest)
  OBVIOUS
<1>11. chunks' = K \o <<a>> \/ chunks' = K \/ chunks' = K \o <<b>>
  BY <1>4, <1>5, <1>6, <1>8, <1>10 DEF WriteBlockGrow
<1>12. ASSUME NEW x \in {a, b} PROVE Sound(K \o <<x>>)
  <2>1. 0 \in Nat /\ n \in Nat
    OBVIOUS
  <2>2. x \in Chunk /\ x.size = n /\ x.entry = n /\ Len(x.cells) = n
    <3>1. CASE x = a
      BY <1>9, <1>10, <2>1, <3>1, AddedIs
    <3>2. CASE x = b
      BY <1>9, <1>10, <2>1, <3>2, AddedIs
    <3> QED  BY <3>1, <3>2
  <2>3. x.entry \in 1..Len(x.cells) /\ x.size \in 1..Len(x.cells)
    BY <2>2
  <2>4. PICK t : t = K \o <<x>>
    OBVIOUS
  <2>5. Grown(t, K, x)
    BY <1>7, <2>2, <2>3, <2>4, GrownSound
  <2> QED  BY <2>4, <2>5 DEF Grown
<1>13. Sound(K \o <<a>>) /\ Sound(K \o <<b>>)
  BY <1>12
<1> QED  BY <1>7, <1>11, <1>13

\* A block of the array.
LEMMA WriteBlockSound ==
  ASSUME DataInv, NEW s \in 0..Total, NEW e \in 0..Total, WriteBlockData(s, e)
  PROVE  Sound(chunks')
<1>1. Block(s, e)
  BY BlockIs DEF WriteBlockData
<1>2. CASE WriteBlockFirst(s, e)
  BY <1>1, <1>2, BlockFirstSound
<1>3. CASE WriteBlockInPlace(s, e)
  BY <1>1, <1>3, BlockInPlaceSound
<1>4. CASE WriteBlockSecond(s, e)
  BY <1>1, <1>4, BlockSecondSound
<1>5. CASE WriteBlockTable(s, e)
  <2>1. Len(chunks) > 1 /\ chunks' = BlockInTable(s, e)
    BY <1>5 DEF WriteBlockTable
  <2> QED  BY <1>1, <2>1, BlockInTableSound
<1>6. CASE WriteBlockGrow(s, e)
  BY <1>1, <1>6, BlockGrowSound
<1> QED  BY <1>2, <1>3, <1>4, <1>5, <1>6 DEF WriteBlockData

\* A set of numbers up to n that is not empty has a greatest one.
LEMMA GreatestUpTo ==
  ASSUME NEW n \in Nat, NEW S \in SUBSET (0..n), S # {}
  PROVE  Max(S) \in S /\ \A x \in S : x <= Max(S)
<1> DEFINE T == {n - x : x \in S}
<1>1. T \in SUBSET Nat /\ T # {}
  <2>1. \A x \in S : x \in 0..n /\ n - x \in Nat
    OBVIOUS
  <2>2. PICK x \in S : TRUE
    OBVIOUS
  <2>3. n - x \in T
    BY <2>2
  <2> QED  BY <2>1, <2>3
<1> HIDE DEF T
<1>2. PICK m \in T : \A k \in T : m <= k
  BY <1>1, LeastNatural
<1>3. PICK x \in S : m = n - x
  BY <1>2 DEF T
<1>4. \A y \in S : n - y \in T
  BY DEF T
<1>5. \A y \in S : x >= y
  BY <1>2, <1>3, <1>4
<1>6. Max(S) = CHOOSE z \in S : \A y \in S : z >= y
  BY DEF Max
<1>7. Max(S) \in S /\ \A y \in S : Max(S) >= y
  BY <1>5, <1>6
<1> QED  BY <1>7

\* A selection in an array, and how many elements it has.
SelectionIn(dims, sel) ==
  /\ sel.first = [k \in 1..Len(dims) |-> sel.first[k]]
  /\ \A k \in 1..Len(dims) :
       /\ sel.first[k] \in 1..dims[k] /\ sel.last[k] \in 1..dims[k] /\ sel.first[k] <= sel.last[k]
       /\ sel.stride[k] \in Nat \ {0}

\* The selections enumerated are such.
LEMMA SelectionsIn ==
  ASSUME NEW dims \in Seq(Nat \ {0}), NEW sel \in Selections(dims)
  PROVE  SelectionIn(dims, sel)
<1>1. ValidSelection(dims, sel) /\ DOMAIN dims = 1..Len(dims)
  BY DEF Selections
<1>2. \A k \in 1..Len(dims) : sel.stride[k] \in Int
  <2>1. PICK m : m = Max({dims[k] : k \in DOMAIN dims} \cup {1})
    OBVIOUS
  <2>2. sel.stride \in [DOMAIN dims -> 1..m]
    BY <2>1 DEF Selections
  <2>3. \A k \in 1..m : k \in Int
    OBVIOUS
  <2> QED  BY <1>1, <2>2, <2>3
<1>3. ASSUME NEW k \in 1..Len(dims)
      PROVE  /\ sel.first[k] \in 1..dims[k] /\ sel.last[k] \in 1..dims[k] /\ sel.first[k] <= sel.last[k]
             /\ sel.stride[k] \in Nat \ {0}
  <2>1. /\ sel.first[k] \in 1..dims[k] /\ sel.last[k] \in 1..dims[k] /\ sel.first[k] <= sel.last[k]
        /\ sel.stride[k] >= 1
    BY <1>1 DEF ValidSelection
  <2>2. PICK x \in Int : x = sel.stride[k]
    BY <1>2
  <2> QED  BY <2>1, <2>2
<1>4. sel.first = [k \in 1..Len(dims) |-> sel.first[k]]
  <2>1. PICK m : m = Max({dims[k] : k \in DOMAIN dims} \cup {1})
    OBVIOUS
  <2>2. sel.first \in [DOMAIN dims -> 1..m]
    BY <2>1 DEF Selections
  <2> QED  BY <1>1, <2>2
<1> QED  BY <1>3, <1>4 DEF SelectionIn

\* A selection has elements.
LEMMA CountIs ==
  ASSUME NEW dims \in Seq(Nat \ {0}), NEW sel, SelectionIn(dims, sel)
  PROVE  Count(dims, sel) \in Nat \ {0}
<1> DEFINE c == [k \in DOMAIN dims |-> (sel.last[k] - sel.first[k] + sel.stride[k]) \div sel.stride[k]]
<1>1. DOMAIN dims = 1..Len(dims) /\ Len(dims) \in Nat
  OBVIOUS
<1>2. \A x \in Nat, y \in Nat \ {0} : (x + y) \div y \in Nat \ {0}
  OBVIOUS
<1>3. ASSUME NEW k \in 1..Len(dims) PROVE c[k] \in Nat \ {0}
  <2>1. PICK x \in Nat, y \in Nat \ {0} : x = sel.last[k] - sel.first[k] /\ y = sel.stride[k]
    <3>1. /\ sel.first[k] \in 1..dims[k] /\ sel.last[k] \in 1..dims[k] /\ sel.first[k] <= sel.last[k]
          /\ sel.stride[k] \in Nat \ {0}
      BY DEF SelectionIn
    <3>2. dims[k] \in Nat
      OBVIOUS
    <3>3. sel.last[k] - sel.first[k] \in Nat
      BY <3>1, <3>2
    <3> QED  BY <3>1, <3>3
  <2>2. c[k] = (x + y) \div y
    BY <1>1, <2>1
  <2> HIDE DEF c
  <2> QED  BY <1>2, <2>2
<1>4. c = [k \in 1..Len(dims) |-> c[k]]
  BY <1>1
<1>5. Count(dims, sel) = Size(c)
  BY DEF Count
<1> HIDE DEF c
<1>6. c \in Seq(Nat \ {0})
  BY <1>1, <1>3, <1>4, IsSequence
<1>7. Len(c) + 1 \in 1..(Len(c) + 1)
  BY <1>6
<1> QED  BY <1>5, <1>6, <1>7, Products DEF Size

\* A walk is as long as its selection.
LEMMA WalkLength ==
  ASSUME shape \in [type : Types, dims : Shapes], NEW at \in Walks[shape.dims]
  PROVE  \E n \in Nat \ {0} : DOMAIN at = 1..n
<1>1. PICK dims \in Shapes : dims = shape.dims
  OBVIOUS
<1>2. dims \in Seq(Nat \ {0})
  BY ShapesAssumption
<1>3. PICK sel \in Selections(dims) : at = Walk(dims, sel)
  BY <1>1 DEF Walks
<1>4. Count(dims, sel) \in Nat \ {0}
  BY <1>2, SelectionsIn, CountIs
<1>5. DOMAIN at = 1..Count(dims, sel)
  BY <1>3 DEF Walk
<1> QED  BY <1>4, <1>5

\* The space for the whole array.
LEMMA SpaceSound ==
  ASSUME DataInv, shape.type # NoType
  PROVE  Sound(SpaceForAll)
<1>1. Total \in Nat \ {0} /\ Sound(chunks) /\ chunks \in Seq(Chunk)
  BY TotalIs DEF DataInv, Sound
<1>2. CASE chunks = <<>>
  <2>1. PICK T \in Nat \ {0} : T = Total
    BY <1>1
  <2>2. PICK zeros : zeros = Zeros(T)
    OBVIOUS
  <2>3. zeros \in Seq(Cell) /\ 0 \in Nat
    BY <2>2, ItemsAre
  <2>4. PICK w : w = WriteChunk(Fresh(T), T, 0, zeros)
    OBVIOUS
  <2>5. w \in Chunk /\ w.entry = 0 /\ w.size = T /\ Len(w.cells) = T
    BY <2>3, <2>4, FreshWritten
  <2>6. w.size \in 1..Len(w.cells)
    BY <2>5
  <2>7. Sound(<<w>>)
    BY <2>5, <2>6, OneSound
  <2> QED  BY <1>2, <2>1, <2>2, <2>4, <2>7 DEF SpaceForAll
<1>3. CASE chunks # <<>> /\ Len(chunks) = 1 /\ Total > chunks[1].size
  <2>1. PICK c \in Chunk : c = chunks[1] /\ c.size \in 1..Len(c.cells) /\ c.size \in Nat
    BY <1>3, SingleIs
  <2>2. PICK m \in Nat \ {0} : m = Total - c.size
    <3>1. Total - c.size \in Nat \ {0}
      BY <1>1, <1>3, <2>1
    <3> QED  BY <3>1
  <2>3. PICK zeros : zeros = Zeros(m)
    OBVIOUS
  <2>4. zeros \in Seq(Cell) /\ 0 \in Nat
    BY <2>3, ItemsAre
  <2>5. PICK w : w = WriteChunk(Fresh(m), m, 0, zeros)
    OBVIOUS
  <2>6. w \in Chunk /\ w.size \in 1..Len(w.cells)
    <3>1. w \in Chunk /\ w.size = m /\ Len(w.cells) = m
      BY <2>4, <2>5, FreshWritten
    <3> QED  BY <3>1
  <2>7. PICK x, y : x = Entered(c) /\ y = Entered(w)
    OBVIOUS
  <2>8. /\ x \in Chunk /\ x.entry \in 1..Len(x.cells) /\ x.size \in 1..Len(x.cells)
        /\ y \in Chunk /\ y.entry \in 1..Len(y.cells) /\ y.size \in 1..Len(y.cells)
    BY <2>1, <2>6, <2>7, EnteredSound
  <2>9. Sound(<<x, y>>)
    BY <2>8, TwoSound
  <2>10. SpaceForAll = <<x, y>>
    BY <1>3, <2>1, <2>2, <2>3, <2>5, <2>7 DEF SpaceForAll
  <2> QED  BY <2>9, <2>10
<1>4. CASE chunks # <<>> /\ Len(chunks) > 1 /\ Total > Spanned
  <2>1. Spanned \in Nat
    <3>1. Len(chunks) + 1 \in 1..(Len(chunks) + 1)
      BY <1>1
    <3> QED  BY <1>1, <3>1, BaseIs DEF Spanned
  <2>2. PICK m \in Nat \ {0} : m = Total - Spanned
    <3>1. Total - Spanned \in Nat \ {0}
      BY <1>1, <1>4, <2>1
    <3> QED  BY <3>1
  <2>3. PICK zeros : zeros = Zeros(m)
    OBVIOUS
  <2>4. zeros \in Seq(Cell) /\ 0 \in Nat /\ m \in Nat
    BY <2>3, ItemsAre
  <2>5. PICK a : a = Added(m, 0, zeros)
    OBVIOUS
  <2>6. a \in Chunk /\ a.size = m /\ a.entry = m /\ Len(a.cells) = m
    BY <2>4, <2>5, AddedIs
  <2>7. a.entry \in 1..Len(a.cells) /\ a.size \in 1..Len(a.cells)
    BY <2>6
  <2>8. PICK cs \in Seq(Chunk) : cs = chunks
    BY <1>1
  <2>9. Sound(cs) /\ Len(cs) > 1
    BY <1>1, <1>4, <2>8
  <2>10. PICK t : t = cs \o <<a>>
    OBVIOUS
  <2>11. Sound(t) /\ t = Append(cs, a)
    <3>1. Grown(t, cs, a)
      BY <2>6, <2>7, <2>9, <2>10, GrownSound
    <3> QED  BY <3>1 DEF Grown
  <2>12. SpaceForAll = Append(chunks, a)
    <3>1. \A l \in Nat : l > 1 => l # 1
      OBVIOUS
    <3>2. Len(chunks) # 1
      BY <1>1, <1>4, <3>1
    <3> QED  BY <1>4, <2>2, <2>3, <2>5, <3>2 DEF SpaceForAll
  <2> QED  BY <2>8, <2>11, <2>12
<1>5. SpaceForAll = chunks \/ chunks = <<>> \/ (chunks # <<>> /\ Len(chunks) = 1 /\ Total > chunks[1].size)
      \/ (chunks # <<>> /\ Len(chunks) > 1 /\ Total > Spanned)
  BY DEF SpaceForAll
<1> QED  BY <1>1, <1>2, <1>3, <1>4, <1>5

\* Elements that are put to their places change neither the sizes nor the spaces.
LEMMA PlacedSound ==
  ASSUME NEW cs, Sound(cs), NEW n \in Nat, NEW at, DOMAIN at = 1..n
  PROVE  Sound(Placed(cs, at))
<1> DEFINE At(i, j) == {x \in DOMAIN at : j <= Span(cs, i) /\ at[x] + 1 = Base(cs, i) + j}
           Cells(i) == [j \in DOMAIN cs[i].cells |-> IF At(i, j) = {} THEN cs[i].cells[j] ELSE Item("strided", Max(At(i, j)))]
<1>1. /\ cs \in Seq(Chunk) /\ Len(cs) \in Nat /\ DOMAIN cs = 1..Len(cs)
      /\ \A i \in 1..Len(cs) : cs[i] \in Chunk
  BY DEF Sound
<1>2. ASSUME NEW i, NEW j, At(i, j) # {} PROVE Item("strided", Max(At(i, j))) \in Cell
  <2>1. At(i, j) \in SUBSET (0..n)
    OBVIOUS
  <2> HIDE DEF At
  <2>0. PICK S \in SUBSET (0..n) : S = At(i, j)
    BY <2>1
  <2>2. Max(At(i, j)) \in Nat
    <3>1. S # {}
      BY <1>2, <2>0
    <3>2. Max(S) \in S
      BY <3>1, GreatestUpTo
    <3>3. Max(S) \in 0..n
      BY <3>2
    <3> QED  BY <2>0, <3>3
  <2> QED  BY <2>2 DEF Item, Cell
<1>3. ASSUME NEW i \in 1..Len(cs) PROVE Cells(i) \in Seq(Cell) /\ Len(Cells(i)) = Len(cs[i].cells)
  <2>1. PICK l \in Nat : l = Len(cs[i].cells) /\ DOMAIN cs[i].cells = 1..l /\ \A j \in 1..l : cs[i].cells[j] \in Cell
    <3>1. cs[i].cells \in Seq(Cell)
      BY <1>1 DEF Chunk
    <3>2. PICK cells \in Seq(Cell) : cells = cs[i].cells
      BY <3>1
    <3> QED  BY <3>2
  <2>2. PICK f : f = Cells(i)
    OBVIOUS
  <2> HIDE DEF At
  <2>3. f = [j \in 1..l |-> f[j]] /\ \A j \in 1..l : f[j] = IF At(i, j) = {} THEN cs[i].cells[j] ELSE Item("strided", Max(At(i, j)))
    BY <2>1, <2>2
  <2>4. ASSUME NEW j \in 1..l PROVE f[j] \in Cell
    <3>1. CASE At(i, j) = {}
      BY <2>1, <2>3, <3>1
    <3>2. CASE At(i, j) # {}
      BY <1>2, <2>3, <3>2
    <3> QED  BY <3>1, <3>2
  <2>5. f \in Seq(Cell) /\ Len(f) = l
    BY <2>3, <2>4, IsSequence
  <2> QED  BY <2>1, <2>2, <2>5
<1>4. PICK K : K = Placed(cs, at)
  OBVIOUS
<1>5. K = [i \in 1..Len(cs) |-> [cs[i] EXCEPT !.cells = Cells(i)]]
  BY <1>1, <1>4 DEF Placed
<1> HIDE DEF Cells, At
<1>6. ASSUME NEW i \in 1..Len(cs)
      PROVE  /\ K[i] \in Chunk /\ K[i].entry = cs[i].entry /\ K[i].size = cs[i].size
             /\ Len(K[i].cells) = Len(cs[i].cells)
  <2>1. PICK c \in Chunk, f \in Seq(Cell) : c = cs[i] /\ f = Cells(i) /\ Len(f) = Len(c.cells)
    BY <1>1, <1>3
  <2>2. K[i] = [c EXCEPT !.cells = f]
    BY <1>5, <2>1
  <2> QED  BY <2>1, <2>2 DEF Chunk
<1>7. K \in Seq(Chunk) /\ Len(K) = Len(cs)
  <2>1. K = [i \in 1..Len(cs) |-> K[i]]
    BY <1>5
  <2> QED  BY <1>1, <1>6, <2>1, IsSequence
<1>8. Sound(K)
  BY <1>6, <1>7 DEF Sound
<1> QED  BY <1>4, <1>8

-----------------------------------------------------------------------------
(* The invariant.                                                          *)

\* At first a node has no type, no dimensions and no data.
LEMMA DataInit == Init => DataInv
<1> SUFFICES ASSUME Init PROVE DataInv
  OBVIOUS
<1>1. shape \in [type : Types, dims : Shapes]
  BY ShapesAssumption DEF Init
<1> QED  BY <1>1, NoneSound DEF Init, DataInv

\* Every operation keeps the chunks sound.
LEMMA DataStep == DataInv /\ [Next]_vars => DataInv'
<1> SUFFICES ASSUME DataInv, [Next]_vars PROVE DataInv'
  OBVIOUS
<1>1. shape \in [type : Types, dims : Shapes] /\ Sound(chunks)
  BY DEF DataInv
<1>2. ASSUME NEW type \in Types, NEW dims \in Shapes, PutDimensionInformation(type, dims) PROVE DataInv'
  <2>1. shape' \in [type : Types, dims : Shapes]
    BY <1>1, <1>2 DEF PutDimensionInformation
  <2>2. Sound(chunks')
    BY <1>1, <1>2, NoneSound DEF PutDimensionInformation
  <2> QED  BY <2>1, <2>2 DEF DataInv, Sound
<1>3. CASE WriteAllData
  <2>1. Sound(chunks') /\ shape' = shape
    BY <1>3, WriteAllSound DEF WriteAllData
  <2> QED  BY <1>1, <2>1 DEF DataInv, Sound
<1>4. ASSUME NEW s \in 0..Total, NEW e \in 0..Total, WriteBlockData(s, e) PROVE DataInv'
  <2>1. Sound(chunks') /\ shape' = shape
    BY <1>4, WriteBlockSound DEF WriteBlockData
  <2> QED  BY <1>1, <2>1 DEF DataInv, Sound
<1>5. ASSUME NEW at \in Walks[shape.dims], WriteData(at) PROVE DataInv'
  <2>1. PICK n \in Nat \ {0} : DOMAIN at = 1..n
    BY <1>1, WalkLength
  <2>2. Sound(SpaceForAll)
    BY <1>5, SpaceSound DEF WriteData
  <2>3. PICK cs : cs = SpaceForAll
    OBVIOUS
  <2>4. Sound(Placed(cs, at))
    BY <2>1, <2>2, <2>3, PlacedSound
  <2>5. Sound(chunks') /\ shape' = shape
    BY <1>5, <2>3, <2>4 DEF WriteData
  <2> QED  BY <1>1, <2>5 DEF DataInv, Sound
<1>6. CASE UNCHANGED vars
  BY <1>1, <1>6 DEF DataInv, Sound, vars
<1> QED  BY <1>2, <1>3, <1>4, <1>5, <1>6 DEF Next

\* The chunks are always sound.
THEOREM DataInvariant == Spec => []DataInv
<1>1. Init => DataInv
  BY DataInit
<1>2. DataInv /\ [Next]_vars => DataInv'
  BY DataStep
<1> QED  BY <1>1, <1>2, PTL DEF Spec

\* Every chunk has a size within its space, and in a table every chunk has an entry within its
\* space, for all types and shapes: no write of ADF_interface.c makes a chunk that claims more
\* than was allocated for it.
THEOREM TypeCorrect == Spec => []TypeOK
<1>1. DataInv => TypeOK
  BY DEF DataInv, Sound, TypeOK
<1> QED  BY <1>1, DataInvariant, PTL

-----------------------------------------------------------------------------
(* Reading a part of the array, chunk after chunk.                         *)

\* A chunk that is read: without an error exactly when the end tag is found and neither the
\* part nor the size reaches beyond the chunk.
IsRead(r, c, size, start, n) ==
  /\ r.error = "NO_ERROR" <=> start + n <= size /\ EndTagFound(c) /\ size <= c.size
  /\ r.error = "NO_ERROR" =>
       /\ r = [error |-> "NO_ERROR", data |-> r.data]
       /\ r.data \in Seq(Cell) /\ Len(r.data) = n
       /\ \A k \in 1..n : r.data[k] = c.cells[start + k]

\* So it is read.
LEMMA ReadChunkIs ==
  ASSUME NEW c \in Chunk, c.size \in 1..Len(c.cells), NEW size \in Nat, NEW start \in Nat, NEW n \in Nat
  PROVE  IsRead(ReadChunk(c, size, start, n), c, size, start, n)
<1> DEFINE data == SubSeq(c.cells, start + 1, start + n)
<1>1. PICK l \in Nat, cells \in Seq(Cell), z \in Nat : l = Len(cells) /\ cells = c.cells /\ z = c.size
  BY DEF Chunk
<1>2. PICK r : r = ReadChunk(c, size, start, n)
  OBVIOUS
<1>3. start + n <= size /\ EndTagFound(c) /\ size <= z => r = [error |-> "NO_ERROR", data |-> data]
  <2>1. start + n <= size /\ size <= z => ~(start + n > size) /\ ~(size > z)
    OBVIOUS
  <2> QED  BY <1>1, <1>2, <2>1 DEF ReadChunk, Beyond
<1>4. ~(start + n <= size /\ EndTagFound(c) /\ size <= z) => r.error # "NO_ERROR"
  <2>1. ~(start + n <= size) => start + n > size
    OBVIOUS
  <2>2. ~(size <= z) => size > z
    OBVIOUS
  <2> QED  BY <1>1, <1>2, <2>1, <2>2 DEF ReadChunk, Beyond, Refused
<1>5. start + n <= size /\ size <= z =>
        data \in Seq(Cell) /\ Len(data) = n /\ \A k \in 1..n : data[k] = c.cells[start + k]
  <2> SUFFICES ASSUME start + n <= size, size <= z
               PROVE  data \in Seq(Cell) /\ Len(data) = n /\ \A k \in 1..n : data[k] = c.cells[start + k]
    OBVIOUS
  <2>1. start + 1 \in Nat /\ start + n \in Nat /\ start + 1 >= 1 /\ start + n <= Len(cells)
    BY <1>1
  <2>2. /\ SubSeq(cells, start + 1, start + n) \in Seq(Cell)
        /\ Len(SubSeq(cells, start + 1, start + n)) = IF start + 1 <= start + n THEN (start + n) - (start + 1) + 1 ELSE 0
        /\ \A k \in 1..((start + n) - (start + 1) + 1) : SubSeq(cells, start + 1, start + n)[k] = cells[(start + 1) + k - 1]
    BY <2>1, PartOfItems
  <2>3. /\ (start + n) - (start + 1) + 1 = n
        /\ (IF start + 1 <= start + n THEN (start + n) - (start + 1) + 1 ELSE 0) = n
        /\ \A k \in 1..n : (start + 1) + k - 1 = start + k
    OBVIOUS
  <2> QED  BY <1>1, <2>2, <2>3
<1> HIDE DEF data
<1> QED  BY <1>1, <1>2, <1>3, <1>4, <1>5 DEF IsRead

\* What lies of the elements s + 1 .. e in a chunk: where in the chunk, and how many.
From(cs, i, s) == AtLeast0(s - Base(cs, i))
Portion(cs, i, s, e) == AtLeast0(AtMost(Span(cs, i), e - Base(cs, i)) - From(cs, i, s))

\* They lie within what is used of the chunk.
LEMMA PortionIs ==
  ASSUME NEW cs, Sound(cs), shape \in [type : Types, dims : Shapes], NEW i \in 1..Len(cs),
         NEW s \in Nat, NEW e \in Nat, s <= e, e <= Total
  PROVE  /\ Portion(cs, i, s, e) \in Nat /\ From(cs, i, s) \in Nat /\ Used(cs, i) \in Nat
         /\ Portion(cs, i, s, e) # 0 => From(cs, i, s) + Portion(cs, i, s, e) <= Used(cs, i)
         /\ Portion(cs, i, s, e) = AtLeast0(AtMost(Used(cs, i), e - Base(cs, i)) - From(cs, i, s))
         /\ Used(cs, i) = Portion(cs, i, 0, Total) /\ From(cs, i, 0) = 0
<1>1. PICK b \in Nat, m \in Nat, t \in Nat : b = Base(cs, i) /\ m = Span(cs, i) /\ t = Total
  <2>1. i \in 1..(Len(cs) + 1)
    OBVIOUS
  <2>2. Base(cs, i) \in Nat /\ Span(cs, i) \in Nat /\ Total \in Nat
    BY <2>1, BaseIs, SpanIs, TotalIs
  <2> QED  BY <2>2
<1>2. /\ From(cs, i, s) = AtLeast0(s - b) /\ From(cs, i, 0) = AtLeast0(0 - b)
      /\ Used(cs, i) = AtLeast0(AtMost(m, t - b))
      /\ Portion(cs, i, s, e) = AtLeast0(AtMost(m, e - b) - AtLeast0(s - b))
      /\ Portion(cs, i, 0, Total) = AtLeast0(AtMost(m, t - b) - AtLeast0(0 - b))
  BY <1>1 DEF From, Used, Portion
<1>3. e <= t
  BY <1>1
<1>4. AtLeast0(s - b) \in Nat /\ AtLeast0(0 - b) = 0
  BY DEF AtLeast0
<1>5. AtLeast0(AtMost(m, t - b)) \in Nat /\ AtLeast0(AtMost(m, e - b) - AtLeast0(s - b)) \in Nat
  BY DEF AtLeast0, AtMost
<1>6. AtLeast0(AtMost(m, e - b) - AtLeast0(s - b)) # 0 =>
        AtLeast0(s - b) + AtLeast0(AtMost(m, e - b) - AtLeast0(s - b)) <= AtLeast0(AtMost(m, t - b))
  BY <1>3 DEF AtLeast0, AtMost
<1>7. AtLeast0(AtMost(m, e - b) - AtLeast0(s - b)) = AtLeast0(AtMost(AtLeast0(AtMost(m, t - b)), e - b) - AtLeast0(s - b))
  BY <1>3 DEF AtLeast0, AtMost
<1>8. AtLeast0(AtMost(m, t - b)) = AtLeast0(AtMost(m, t - b) - AtLeast0(0 - b))
  BY DEF AtLeast0, AtMost
<1> QED  BY <1>1, <1>2, <1>4, <1>5, <1>6, <1>7, <1>8

\* The lengths of the portions.
Portions(cs, s, e) == [i \in 1..Len(cs) |-> Portion(cs, i, s, e)]

\* The portions before a chunk add up to the part of the block that lies before that chunk.
LEMMA PortionSums ==
  ASSUME NEW cs, Sound(cs), shape \in [type : Types, dims : Shapes], NEW s \in Nat, NEW e \in Nat, s <= e, e <= Total
  PROVE  /\ Portions(cs, s, e) \in Seq(Nat) /\ Len(Portions(cs, s, e)) = Len(cs)
         /\ \A i \in 1..(Len(cs) + 1) : Before(Portions(cs, s, e), i) = AtLeast0(AtMost(Base(cs, i), e) - s)
<1>0. PICK n \in Nat : n = Len(cs)
  BY SpanIs
<1>01. PICK lens : lens = Portions(cs, s, e)
  OBVIOUS
<1>1. lens = Portions(cs, s, e) /\ n = Len(cs)
  BY <1>0, <1>01
<1>2. lens \in Seq(Nat) /\ Len(lens) = n /\ \A i \in 1..n : lens[i] = Portion(cs, i, s, e)
  <2>1. lens = [i \in 1..n |-> lens[i]] /\ \A i \in 1..n : lens[i] = Portion(cs, i, s, e)
    BY <1>1 DEF Portions
  <2>2. \A i \in 1..n : Portion(cs, i, s, e) \in Nat
    BY <1>1, PortionIs
  <2>3. \A i \in 1..n : lens[i] \in Nat
    BY <2>1, <2>2
  <2> QED  BY <2>1, <2>3, IsSequence
<1> DEFINE Right == {i \in 0..n : Before(lens, i + 1) = AtLeast0(AtMost(Base(cs, i + 1), e) - s)}
<1>3. 0 \in Right
  <2>1. Before(lens, 1) = 0 /\ Base(cs, 1) = 0
    BY <1>2, Sums, BaseIs
  <2>2. AtLeast0(AtMost(0, e) - s) = 0
    BY DEF AtLeast0, AtMost
  <2> QED  BY <2>1, <2>2
<1>4. ASSUME NEW i \in 1..n, i - 1 \in Right PROVE i \in Right
  <2>1. Before(lens, i + 1) = Before(lens, i) + lens[i]
    BY <1>2, Sums
  <2>2. Before(lens, i) = AtLeast0(AtMost(Base(cs, i), e) - s)
    <3>1. (i - 1) + 1 = i
      OBVIOUS
    <3> QED  BY <1>4, <3>1
  <2>3. PICK b \in Nat, m \in Nat : b = Base(cs, i) /\ m = Span(cs, i) /\ b + m = Base(cs, i + 1)
    <3>1. i \in 1..Len(cs) /\ i \in 1..(Len(cs) + 1)
      BY <1>1
    <3>2. Base(cs, i) \in Nat /\ Span(cs, i) \in Nat /\ Base(cs, i + 1) = Base(cs, i) + Span(cs, i)
      BY <3>1, BaseIs, SpanIs
    <3> QED  BY <3>2
  <2>4. lens[i] = AtLeast0(AtMost(m, e - b) - AtLeast0(s - b))
    BY <1>2, <2>3 DEF Portion, From
  <2>5. AtLeast0(AtMost(b, e) - s) + AtLeast0(AtMost(m, e - b) - AtLeast0(s - b)) = AtLeast0(AtMost(b + m, e) - s)
    BY DEF AtLeast0, AtMost
  <2>6. Before(lens, i + 1) = AtLeast0(AtMost(Base(cs, i + 1), e) - s)
    BY <2>1, <2>2, <2>3, <2>4, <2>5
  <2> QED  BY <2>6
<1> HIDE DEF Right
<1>5. 0..n \subseteq Right
  BY <1>3, <1>4, UpTo
<1>6. ASSUME NEW i \in 1..(n + 1) PROVE Before(lens, i) = AtLeast0(AtMost(Base(cs, i), e) - s)
  <2>1. i - 1 \in 0..n /\ (i - 1) + 1 = i
    OBVIOUS
  <2> QED  BY <1>5, <2>1 DEF Right
<1> QED  BY <1>1, <1>2, <1>6

\* Results of reading the elements s + 1 .. e chunk after chunk.
Results(results, cs, s, e) ==
  /\ results = [i \in 1..Len(cs) |-> results[i]]
  /\ \A i \in 1..Len(cs) :
       IF Portion(cs, i, s, e) = 0 THEN results[i] = Nothing
       ELSE IsRead(results[i], cs[i], Used(cs, i), From(cs, i, s), Portion(cs, i, s, e))

\* The first of the wrong results is wrong.
LEMMA FirstWrong ==
  ASSUME NEW n \in Nat, NEW results, DOMAIN results = 1..n, NEW m,
         Gathered(results, m).error = "NO_ERROR"
  PROVE  \A i \in 1..n : results[i].error = "NO_ERROR"
<1> DEFINE wrong == {i \in DOMAIN results : results[i].error # "NO_ERROR"}
<1>1. CASE wrong # {}
  <2>0. wrong \in SUBSET Nat
    <3>1. \A i \in 1..n : i \in Nat
      OBVIOUS
    <3> QED  BY <3>1
  <2>1. PICK w \in SUBSET Nat : w = wrong
    BY <2>0
  <2>2. PICK x \in w : \A y \in w : x <= y
    BY <1>1, <2>1, LeastNatural
  <2>3. Min(w) \in w
    BY <2>2 DEF Min
  <2>4. results[Min(w)].error # "NO_ERROR"
    BY <2>1, <2>3
  <2>5. Gathered(results, m) = results[Min(w)]
    BY <1>1, <2>1 DEF Gathered
  <2> QED  BY <2>4, <2>5
<1> QED  BY <1>1

\* Where nothing is wrong all the pieces are put together, if they are long enough.
LEMMA NoneWrong ==
  ASSUME NEW n \in Nat, NEW results, DOMAIN results = 1..n, NEW m \in Nat,
         \A i \in 1..n : results[i].error = "NO_ERROR",
         NEW data, data = FlattenSeq([i \in 1..n |-> results[i].data]), Len(data) \in Nat
  PROVE  Gathered(results, m) = IF m <= Len(data) THEN [error |-> "NO_ERROR", data |-> data] ELSE Refused("INCOMPLETE_DATA")
<1>1. {i \in DOMAIN results : results[i].error # "NO_ERROR"} = {}
  OBVIOUS
<1>2. Gathered(results, m) = IF Len(data) < m THEN Refused("INCOMPLETE_DATA") ELSE [error |-> "NO_ERROR", data |-> data]
  BY <1>1 DEF Gathered
<1>3. Len(data) < m <=> ~(m <= Len(data))
  OBVIOUS
<1> QED  BY <1>2, <1>3

\* The pieces of a read, one after the other.
Pieces(results, cs) == [i \in 1..Len(cs) |-> results[i].data]

\* Where nothing is wrong every element is where it belongs.
InPlace(data, cs, s, e) ==
  /\ data \in Seq(Cell) /\ Len(data) = AtLeast0(AtMost(Base(cs, Len(cs) + 1), e) - s)
  /\ \A k \in 1..Len(data) :
       \E i \in 1..Len(cs) :
         /\ Base(cs, i) < s + k /\ s + k <= Base(cs, i + 1)
         /\ (s + k) - Base(cs, i) <= Used(cs, i)
         /\ data[k] = cs[i].cells[(s + k) - Base(cs, i)]

\* A part of an array within a table of chunks.
PartOf(cs, s, e) ==
  /\ Sound(cs) /\ Len(cs) # 0 /\ shape \in [type : Types, dims : Shapes]
  /\ s \in Nat /\ e \in Nat /\ s <= e /\ e <= Total

\* So it is with the pieces.
LEMMA PiecesInPlace ==
  ASSUME NEW cs, NEW s, NEW e, PartOf(cs, s, e), NEW results, Results(results, cs, s, e),
         \A i \in 1..Len(cs) : results[i].error = "NO_ERROR"
  PROVE  InPlace(FlattenSeq(Pieces(results, cs)), cs, s, e)
<1>0. Sound(cs) /\ shape \in [type : Types, dims : Shapes] /\ s \in Nat /\ e \in Nat /\ s <= e /\ e <= Total
  BY DEF PartOf
<1>1. PICK n \in Nat \ {0} : n = Len(cs)
  <2>1. Len(cs) \in Nat
    BY <1>0, SpanIs
  <2> QED  BY <2>1 DEF PartOf
<1>2. PICK pieces : pieces = Pieces(results, cs)
  OBVIOUS
<1>3. PICK lens : lens = Portions(cs, s, e)
  OBVIOUS
<1>4. ASSUME NEW i \in 1..n
      PROVE  /\ pieces[i] \in Seq(Cell) /\ Len(pieces[i]) = Portion(cs, i, s, e)
             /\ \A k \in 1..Portion(cs, i, s, e) : pieces[i][k] = cs[i].cells[From(cs, i, s) + k]
  <2>1. pieces[i] = results[i].data
    BY <1>1, <1>2 DEF Pieces
  <2>2. CASE Portion(cs, i, s, e) = 0
    <3>1. results[i] = Nothing
      BY <1>1, <2>2 DEF Results
    <3>2. pieces[i] = <<>>
      BY <2>1, <3>1 DEF Nothing
    <3> QED  BY <2>2, <3>2
  <2>3. CASE Portion(cs, i, s, e) # 0
    <3>1. IsRead(results[i], cs[i], Used(cs, i), From(cs, i, s), Portion(cs, i, s, e)) /\ results[i].error = "NO_ERROR"
      BY <1>1, <2>3 DEF Results
    <3> QED  BY <2>1, <3>1 DEF IsRead
  <2> QED  BY <2>2, <2>3
<1>5. pieces = [i \in 1..n |-> pieces[i]] /\ \A i \in 1..n : pieces[i] \in Seq(Cell)
  BY <1>1, <1>2, <1>4 DEF Pieces
<1>6. lens = [i \in 1..n |-> Len(pieces[i])]
  BY <1>1, <1>3, <1>4 DEF Portions
<1>7. PICK data : data = FlattenSeq(pieces)
  OBVIOUS
<1>8. /\ data \in Seq(Cell) /\ Len(data) = Before(lens, n + 1)
      /\ \A i \in 1..n : \A k \in 1..Len(pieces[i]) : data[Before(lens, i) + k] = pieces[i][k]
  <2>1. Flat(FlattenSeq(pieces), Cell, pieces, lens, n)
    BY <1>5, <1>6, Flattened
  <2> QED  BY <1>7, <2>1 DEF Flat
<1>9. /\ lens \in Seq(Nat) /\ Len(lens) = n
      /\ \A i \in 1..(n + 1) : Before(lens, i) = AtLeast0(AtMost(Base(cs, i), e) - s)
  BY <1>0, <1>1, <1>3, PortionSums
<1>10. Len(data) = AtLeast0(AtMost(Base(cs, Len(cs) + 1), e) - s)
  <2>1. n + 1 \in 1..(n + 1)
    OBVIOUS
  <2> QED  BY <1>1, <1>8, <1>9, <2>1
<1>11. ASSUME NEW k \in 1..Len(data)
       PROVE  \E i \in 1..Len(cs) :
                /\ Base(cs, i) < s + k /\ s + k <= Base(cs, i + 1)
                /\ (s + k) - Base(cs, i) <= Used(cs, i)
                /\ data[k] = cs[i].cells[(s + k) - Base(cs, i)]
  <2>1. k \in 1..Before(lens, Len(lens) + 1)
    BY <1>8, <1>9
  <2>2. PICK i \in 1..n : Before(lens, i) < k /\ k <= Before(lens, i + 1)
    BY <1>9, <2>1, Falls
  <2>3. PICK b \in Nat, m \in Nat, u \in Nat, p \in Nat, f \in Nat :
          /\ b = Base(cs, i) /\ m = Span(cs, i) /\ b + m = Base(cs, i + 1) /\ u = Used(cs, i)
          /\ p = Portion(cs, i, s, e) /\ f = From(cs, i, s)
    <3>1. i \in 1..Len(cs) /\ i \in 1..(Len(cs) + 1)
      BY <1>1
    <3>2. Base(cs, i) \in Nat /\ Span(cs, i) \in Nat /\ Base(cs, i + 1) = Base(cs, i) + Span(cs, i)
      BY <1>0, <3>1, BaseIs, SpanIs
    <3>3. Used(cs, i) \in Nat /\ Portion(cs, i, s, e) \in Nat /\ From(cs, i, s) \in Nat
      BY <1>0, <3>1, PortionIs
    <3> QED  BY <3>2, <3>3
  <2>4. /\ f = AtLeast0(s - b) /\ p = AtLeast0(AtMost(m, e - b) - f)
        /\ (p # 0 => f + p <= u)
    <3>1. i \in 1..Len(cs)
      BY <1>1
    <3>2. Portion(cs, i, s, e) # 0 => From(cs, i, s) + Portion(cs, i, s, e) <= Used(cs, i)
      BY <1>0, <3>1, PortionIs
    <3>3. f = AtLeast0(s - b) /\ p = AtLeast0(AtMost(m, e - b) - f)
      BY <2>3 DEF Portion, From
    <3> QED  BY <2>3, <3>2, <3>3
  <2>5. Before(lens, i) = AtLeast0(AtMost(b, e) - s) /\ Before(lens, i + 1) = AtLeast0(AtMost(b + m, e) - s)
    <3>1. i \in 1..(n + 1) /\ i + 1 \in 1..(n + 1)
      OBVIOUS
    <3> QED  BY <1>9, <2>3, <3>1
  <2>6. PICK x \in Nat : x = Before(lens, i) /\ x < k /\ k <= AtLeast0(AtMost(b + m, e) - s) /\ x = AtLeast0(AtMost(b, e) - s)
    <3>1. AtLeast0(AtMost(b, e) - s) \in Nat
      BY <1>0 DEF AtLeast0, AtMost
    <3> QED  BY <2>2, <2>5, <3>1
  <2>7. k \in Nat
    BY <1>8
  <2>8. b < s + k /\ s + k <= b + m /\ k - x \in 1..p /\ f + (k - x) = (s + k) - b
    BY <1>0, <2>4, <2>6, <2>7 DEF AtLeast0, AtMost
  <2>9. data[x + (k - x)] = pieces[i][k - x] /\ pieces[i][k - x] = cs[i].cells[f + (k - x)]
    <3>1. PICK q \in 1..p : q = k - x
      BY <2>8
    <3>2. Len(pieces[i]) = p /\ pieces[i][q] = cs[i].cells[f + q]
      BY <1>4, <2>3
    <3>3. q \in 1..Len(pieces[i])
      BY <3>2
    <3>4. data[Before(lens, i) + q] = pieces[i][q]
      BY <1>8, <3>3
    <3> QED  BY <2>6, <3>1, <3>2, <3>4
  <2>10. x + (k - x) = k
    BY <2>7
  <2>11. (s + k) - b <= u
    <3>1. PICK q \in 1..p : q = k - x
      BY <2>8
    <3>2. f + p <= u /\ f + q <= f + p
      BY <2>4, <3>1
    <3> QED  BY <2>8, <3>1, <3>2
  <2>12. data[k] = cs[i].cells[(s + k) - b]
    BY <2>8, <2>9, <2>10
  <2> QED  BY <1>1, <2>3, <2>8, <2>11, <2>12
<1>12. InPlace(data, cs, s, e)
  BY <1>8, <1>10, <1>11 DEF InPlace
<1> QED  BY <1>2, <1>7, <1>12

\* Reading across the table: without an error when the chunks are as the table says, and what
\* is read without an error is what lies there.
LEMMA ReadAcross ==
  ASSUME NEW cs, NEW s, NEW e, PartOf(cs, s, e), NEW results, Results(results, cs, s, e),
         NEW r, r = Gathered(results, e - s)
  PROVE  /\ Base(cs, Len(cs) + 1) >= e
            /\ (\A i \in 1..Len(cs) : Portion(cs, i, s, e) # 0 => EndTagFound(cs[i]) /\ Used(cs, i) <= cs[i].size)
              => r.error = "NO_ERROR"
         /\ r.error = "NO_ERROR" => /\ InPlace(r.data, cs, s, e) /\ Len(r.data) = e - s
                                   /\ r = [error |-> "NO_ERROR", data |-> r.data]
<1>0. Sound(cs) /\ shape \in [type : Types, dims : Shapes] /\ s \in Nat /\ e \in Nat /\ s <= e /\ e <= Total
  BY DEF PartOf
<1>1. PICK n \in Nat : n = Len(cs)
  BY <1>0, SpanIs
<1>2. DOMAIN results = 1..n /\ results = [i \in 1..n |-> results[i]]
  BY <1>1 DEF Results
<1>3. PICK m \in Nat : m = e - s
  <2>1. e - s \in Nat
    BY <1>0
  <2> QED  BY <2>1
<1>4. PICK data : data = FlattenSeq(Pieces(results, cs))
  OBVIOUS
<1>5. PICK z \in Nat : z = Base(cs, Len(cs) + 1)
  <2>1. n + 1 \in 1..(Len(cs) + 1)
    BY <1>1
  <2>2. Base(cs, n + 1) \in Nat
    BY <1>0, <2>1, BaseIs
  <2> QED  BY <1>1, <2>2
<1>6. ASSUME \A i \in 1..n : results[i].error = "NO_ERROR"
      PROVE  /\ InPlace(data, cs, s, e) /\ Len(data) = AtLeast0(AtMost(z, e) - s)
             /\ r = IF m <= Len(data) THEN [error |-> "NO_ERROR", data |-> data] ELSE Refused("INCOMPLETE_DATA")
  <2>1. InPlace(data, cs, s, e)
    BY <1>1, <1>4, <1>6, PiecesInPlace
  <2>2. Len(data) = AtLeast0(AtMost(z, e) - s)
    BY <1>5, <2>1 DEF InPlace
  <2>3. Len(data) \in Nat
    BY <2>1 DEF InPlace
  <2>4. data = FlattenSeq([i \in 1..n |-> results[i].data])
    BY <1>1, <1>4 DEF Pieces
  <2>5. Gathered(results, m) = IF m <= Len(data) THEN [error |-> "NO_ERROR", data |-> data] ELSE Refused("INCOMPLETE_DATA")
    BY <1>2, <1>6, <2>3, <2>4, NoneWrong, SMTT(30)
  <2> QED  BY <1>3, <2>1, <2>2, <2>5
<1>7. ASSUME z >= e,
             \A i \in 1..n : Portion(cs, i, s, e) # 0 => EndTagFound(cs[i]) /\ Used(cs, i) <= cs[i].size
      PROVE  r.error = "NO_ERROR"
  <2>1. ASSUME NEW i \in 1..n PROVE results[i].error = "NO_ERROR"
    <3>1. CASE Portion(cs, i, s, e) = 0
      BY <1>1, <3>1 DEF Results, Nothing
    <3>2. CASE Portion(cs, i, s, e) # 0
      <4>1. IsRead(results[i], cs[i], Used(cs, i), From(cs, i, s), Portion(cs, i, s, e))
        BY <1>1, <3>2 DEF Results
      <4>2. From(cs, i, s) + Portion(cs, i, s, e) <= Used(cs, i)
        BY <1>0, <1>1, <3>2, PortionIs
      <4>3. EndTagFound(cs[i]) /\ Used(cs, i) <= cs[i].size
        BY <1>7, <3>2
      <4> QED  BY <4>1, <4>2, <4>3 DEF IsRead
    <3> QED  BY <3>1, <3>2
  <2>2. Len(data) = AtLeast0(AtMost(z, e) - s)
        /\ r = IF m <= Len(data) THEN [error |-> "NO_ERROR", data |-> data] ELSE Refused("INCOMPLETE_DATA")
    BY <1>6, <2>1
  <2>3. m <= AtLeast0(AtMost(z, e) - s)
    BY <1>0, <1>3, <1>7 DEF AtLeast0, AtMost
  <2> QED  BY <2>2, <2>3
<1>8. ASSUME r.error = "NO_ERROR"
      PROVE  InPlace(r.data, cs, s, e) /\ Len(r.data) = e - s /\ r = [error |-> "NO_ERROR", data |-> r.data]
  <2>1. Gathered(results, m).error = "NO_ERROR"
    BY <1>3, <1>8
  <2>2. \A i \in 1..n : results[i].error = "NO_ERROR"
    BY <1>2, <2>1, FirstWrong
  <2>3. /\ InPlace(data, cs, s, e) /\ Len(data) = AtLeast0(AtMost(z, e) - s)
        /\ r = IF m <= Len(data) THEN [error |-> "NO_ERROR", data |-> data] ELSE Refused("INCOMPLETE_DATA")
    BY <1>6, <2>2
  <2>4. m <= Len(data) /\ r.data = data /\ r = [error |-> "NO_ERROR", data |-> r.data]
    BY <1>8, <2>3 DEF Refused
  <2>5. AtLeast0(AtMost(z, e) - s) <= m
    BY <1>0, <1>3 DEF AtLeast0, AtMost
  <2>6. Len(data) = m
    <3>1. PICK l \in Nat : l = Len(data)
      BY <2>3 DEF InPlace
    <3> QED  BY <2>3, <2>4, <2>5, <3>1
  <2> QED  BY <1>3, <2>3, <2>4, <2>6
<1> QED  BY <1>1, <1>5, <1>7, <1>8

-----------------------------------------------------------------------------
(* What is read back.                                                      *)

\* The functions that read the whole array, and a block of it.
AllResults(cs) ==
  [i \in DOMAIN cs |-> IF Used(cs, i) = 0 THEN Nothing ELSE ReadChunk(cs[i], Used(cs, i), 0, Used(cs, i))]
BlockResults(s, e) ==
  [i \in DOMAIN chunks |-> IF Part(i, s, e).n = 0 THEN Nothing
                           ELSE ReadChunk(chunks[i], Used(chunks, i), Part(i, s, e).from, Part(i, s, e).n)]

\* A node with a type has one element at least.
LEMMA SomeElements ==
  ASSUME shape \in [type : Types, dims : Shapes]
  PROVE  Total \in Nat /\ (Total > 0 <=> shape.type # NoType)
<1>1. Total \in Nat /\ (shape.type # NoType => Total # 0)
  BY TotalIs
<1>2. shape.type = NoType => Total = 0
  BY DEF Total
<1> QED  BY <1>1, <1>2

\* They read chunk after chunk.
LEMMA AllResultsAre ==
  ASSUME NEW cs, Sound(cs), shape \in [type : Types, dims : Shapes]
  PROVE  Results(AllResults(cs), cs, 0, Total)
<1>1. PICK results : results = AllResults(cs)
  OBVIOUS
<1>2. DOMAIN cs = 1..Len(cs) /\ Len(cs) \in Nat /\ Total \in Nat /\ 0 \in Nat /\ 0 <= Total /\ Total <= Total
  BY SpanIs, TotalIs
<1>3. results = [i \in 1..Len(cs) |-> results[i]]
  BY <1>1, <1>2 DEF AllResults
<1>4. ASSUME NEW i \in 1..Len(cs)
      PROVE  IF Portion(cs, i, 0, Total) = 0 THEN results[i] = Nothing
             ELSE IsRead(results[i], cs[i], Used(cs, i), From(cs, i, 0), Portion(cs, i, 0, Total))
  <2>1. Used(cs, i) \in Nat /\ Used(cs, i) = Portion(cs, i, 0, Total) /\ From(cs, i, 0) = 0
    BY <1>2, PortionIs
  <2>2. results[i] = IF Used(cs, i) = 0 THEN Nothing ELSE ReadChunk(cs[i], Used(cs, i), 0, Used(cs, i))
    BY <1>1, <1>2 DEF AllResults
  <2>3. PICK c \in Chunk, u \in Nat : c = cs[i] /\ u = Used(cs, i) /\ c.size \in 1..Len(c.cells)
    <3>1. cs[i] \in Chunk /\ cs[i].size \in 1..Len(cs[i].cells)
      BY DEF Sound
    <3> QED  BY <2>1, <3>1
  <2>4. IsRead(ReadChunk(c, u, 0, u), c, u, 0, u)
    BY <1>2, <2>3, ReadChunkIs
  <2> QED  BY <2>1, <2>2, <2>3, <2>4
<1>5. Results(results, cs, 0, Total)
  BY <1>3, <1>4 DEF Results
<1> QED  BY <1>1, <1>5

\* A read of a block takes from every chunk the portion that lies in the block.
LEMMA BlockResultsAre ==
  ASSUME DataInv, NEW s \in Nat, NEW e \in Nat, s <= e, e <= Total
  PROVE  /\ Results(BlockResults(s, e), chunks, s, e)
         /\ \A i \in 1..Len(chunks) : Part(i, s, e) = [from |-> From(chunks, i, s), n |-> Portion(chunks, i, s, e)]
<1>1. PICK results : results = BlockResults(s, e)
  OBVIOUS
<1>2. Sound(chunks) /\ shape \in [type : Types, dims : Shapes]
  BY DEF DataInv
<1>3. DOMAIN chunks = 1..Len(chunks) /\ Len(chunks) \in Nat
  BY <1>2, SpanIs
<1>4. results = [i \in 1..Len(chunks) |-> results[i]]
  BY <1>1, <1>3 DEF BlockResults
<1>5. ASSUME NEW i \in 1..Len(chunks)
      PROVE  Part(i, s, e) = [from |-> From(chunks, i, s), n |-> Portion(chunks, i, s, e)]
  <2>1. PICK b \in Nat : b = Base(chunks, i)
    <3>1. i \in 1..(Len(chunks) + 1)
      BY <1>3
    <3>2. Base(chunks, i) \in Nat
      BY <1>2, <3>1, BaseIs
    <3> QED  BY <3>2
  <2>2. From(chunks, i, s) = IF s > b THEN s - b ELSE 0
    BY <2>1 DEF From, AtLeast0
  <2>3. Portion(chunks, i, s, e) = AtLeast0(AtMost(Used(chunks, i), e - b) - From(chunks, i, s))
    BY <1>2, <2>1, PortionIs
  <2> QED  BY <2>1, <2>2, <2>3 DEF Part
<1>6. ASSUME NEW i \in 1..Len(chunks)
      PROVE  IF Portion(chunks, i, s, e) = 0 THEN results[i] = Nothing
             ELSE IsRead(results[i], chunks[i], Used(chunks, i), From(chunks, i, s), Portion(chunks, i, s, e))
  <2>1. Used(chunks, i) \in Nat /\ Portion(chunks, i, s, e) \in Nat /\ From(chunks, i, s) \in Nat
    BY <1>2, PortionIs
  <2>2. PICK c \in Chunk, u \in Nat, p \in Nat, f \in Nat :
          /\ c = chunks[i] /\ u = Used(chunks, i) /\ p = Portion(chunks, i, s, e) /\ f = From(chunks, i, s)
          /\ c.size \in 1..Len(c.cells)
    <3>1. chunks[i] \in Chunk /\ chunks[i].size \in 1..Len(chunks[i].cells)
      BY <1>2 DEF Sound
    <3> QED  BY <2>1, <3>1
  <2>3. Part(i, s, e).n = p /\ Part(i, s, e).from = f
    BY <1>5, <2>2
  <2>4. results[i] = IF p = 0 THEN Nothing ELSE ReadChunk(c, u, f, p)
    BY <1>1, <1>3, <2>2, <2>3 DEF BlockResults
  <2>5. IsRead(ReadChunk(c, u, f, p), c, u, f, p)
    BY <2>2, ReadChunkIs
  <2> QED  BY <2>2, <2>4, <2>5
<1>7. Results(results, chunks, s, e)
  BY <1>4, <1>6 DEF Results
<1> QED  BY <1>1, <1>5, <1>7

\* A single chunk that holds the array.
LEMMA HeldInOne ==
  ASSUME NEW cs, NEW data, Holds(cs, data), Len(cs) = 1, shape \in [type : Types, dims : Shapes], Total > 0
  PROVE  /\ cs[1] \in Chunk /\ cs[1].size = Total /\ cs[1].size \in 1..Len(cs[1].cells) /\ EndTagFound(cs[1])
         /\ \A k \in 1..Total : cs[1].cells[k] = data[k]
<1>1. Sound(cs) /\ Base(cs, 1 + 1) >= Total /\ 1 \in 1..Len(cs) /\ Total \in Nat
  BY TotalIs DEF Holds
<1>2. cs[1] \in Chunk /\ cs[1].size \in 1..Len(cs[1].cells)
  <2>1. PICK c \in Seq(Chunk) : c = cs
    BY <1>1 DEF Sound
  <2>2. c[1] \in Chunk
    BY <1>1, <2>1, NotEmpty
  <2> QED  BY <1>1, <2>1, <2>2 DEF Sound
<1>3. PICK m \in Nat : m = Span(cs, 1)
  BY <1>1, SpanIs
<1>4. Base(cs, 1 + 1) = Base(cs, 1) + Span(cs, 1) /\ Base(cs, 1) = 0
  BY <1>1, BaseIs
<1>5. m >= Total
  BY <1>1, <1>3, <1>4
<1>6. Used(cs, 1) = Total
  BY <1>1, <1>3, <1>4, <1>5 DEF Used, AtLeast0, AtMost
<1>7. /\ cs[1].size = Used(cs, 1) /\ EndTagFound(cs[1])
      /\ \A k \in 1..Used(cs, 1) : cs[1].cells[k] = data[Base(cs, 1) + k]
  BY <1>1, <1>6 DEF Holds
<1>8. \A k \in 1..Total : 0 + k = k
  OBVIOUS
<1> QED  BY <1>2, <1>4, <1>6, <1>7, <1>8

\* Chunks that hold the whole array are read without an error, and give it.
LEMMA HeldIsRead ==
  ASSUME NEW cs, NEW data, Holds(cs, data), data \in Seq(Cell), Len(data) = Total,
         shape \in [type : Types, dims : Shapes], Total > 0, shape.dims # <<>>
  PROVE  ReadAll(cs) = [error |-> "NO_ERROR", data |-> data]
<1>1. Sound(cs) /\ Len(cs) \in Nat \ {0} /\ Total \in Nat /\ shape.type # NoType /\ DOMAIN cs = 1..Len(cs)
  BY SomeElements, SpanIs DEF Holds
<1>2. cs # <<>>
  <2>1. PICK c \in Seq(Chunk) : c = cs
    BY <1>1 DEF Sound
  <2> QED  BY <1>1, <2>1, NotEmpty
<1>3. PICK T \in Nat : T = Total
  BY <1>1
<1>4. CASE Len(cs) = 1
  <2>1. PICK c \in Chunk : c = cs[1] /\ c.size = T /\ c.size \in 1..Len(c.cells) /\ EndTagFound(c)
                           /\ \A k \in 1..T : c.cells[k] = data[k]
    BY <1>3, <1>4, HeldInOne
  <2>2. PICK r : r = ReadChunk(c, T, 0, T)
    OBVIOUS
  <2>3. IsRead(r, c, T, 0, T)
    <3>1. 0 \in Nat
      OBVIOUS
    <3> QED  BY <2>1, <2>2, <3>1, ReadChunkIs
  <2>4. r = [error |-> "NO_ERROR", data |-> r.data] /\ r.data \in Seq(Cell) /\ Len(r.data) = T /\ \A k \in 1..T : r.data[k] = data[k]
    <3>1. 0 + T <= T /\ T <= T /\ \A k \in 1..T : 0 + k = k
      OBVIOUS
    <3> QED  BY <2>1, <2>3, <3>1 DEF IsRead
  <2>5. r.data = data
    BY <1>3, <2>4, SeqEqual
  <2>6. ReadAll(cs) = r
    BY <1>1, <1>2, <1>3, <1>4, <2>1, <2>2 DEF ReadAll
  <2> QED  BY <2>4, <2>5, <2>6
<1>5. CASE Len(cs) # 1
  <2>1. PICK results, r : results = AllResults(cs) /\ r = Gathered(results, T)
    OBVIOUS
  <2>2. ReadAll(cs) = r
    BY <1>1, <1>2, <1>3, <1>5, <2>1 DEF ReadAll, AllResults
  <2>3. PartOf(cs, 0, T) /\ Results(results, cs, 0, T) /\ T - 0 = T
    BY <1>1, <1>3, <2>1, AllResultsAre DEF PartOf
  <2>4. /\ Base(cs, Len(cs) + 1) >= T
        /\ \A i \in 1..Len(cs) : Portion(cs, i, 0, T) # 0 => EndTagFound(cs[i]) /\ Used(cs, i) <= cs[i].size
    <3>1. Base(cs, Len(cs) + 1) >= T
      BY <1>3 DEF Holds
    <3>2. ASSUME NEW i \in 1..Len(cs), Portion(cs, i, 0, T) # 0 PROVE EndTagFound(cs[i]) /\ Used(cs, i) <= cs[i].size
      <4>1. 0 \in Nat /\ 0 <= T /\ T <= Total
        BY <1>3
      <4>2. Used(cs, i) = Portion(cs, i, 0, Total) /\ Used(cs, i) \in Nat
        BY <1>1, <1>3, <4>1, PortionIs
      <4>3. cs[i].size = Used(cs, i) /\ EndTagFound(cs[i])
        BY <1>3, <3>2, <4>2 DEF Holds
      <4> QED  BY <4>2, <4>3
    <3> QED  BY <3>1, <3>2
  <2>5. r = [error |-> "NO_ERROR", data |-> r.data] /\ InPlace(r.data, cs, 0, T) /\ Len(r.data) = T
    BY <2>1, <2>3, <2>4, ReadAcross
  <2>6. ASSUME NEW k \in 1..T PROVE r.data[k] = data[k]
    <3>1. PICK i \in 1..Len(cs) :
            /\ Base(cs, i) < 0 + k /\ 0 + k <= Base(cs, i + 1)
            /\ (0 + k) - Base(cs, i) <= Used(cs, i)
            /\ r.data[k] = cs[i].cells[(0 + k) - Base(cs, i)]
      BY <2>5 DEF InPlace
    <3>2. PICK b \in Nat, u \in Nat : b = Base(cs, i) /\ u = Used(cs, i)
      <4>1. i \in 1..(Len(cs) + 1) /\ 0 \in Nat /\ 0 <= Total /\ Total <= Total
        BY <1>1
      <4>2. Base(cs, i) \in Nat /\ Used(cs, i) \in Nat
        BY <1>1, <4>1, BaseIs, PortionIs
      <4> QED  BY <4>2
    <3>3. PICK j \in 1..u : j = (0 + k) - b
      <4>1. (0 + k) - b \in 1..u
        BY <3>1, <3>2
      <4> QED  BY <4>1
    <3>4. u # 0 /\ b + j = k
      BY <3>3
    <3>5. \A x \in 1..Used(cs, i) : cs[i].cells[x] = data[Base(cs, i) + x]
      BY <3>2, <3>4 DEF Holds
    <3> QED  BY <3>1, <3>2, <3>3, <3>4, <3>5
  <2>7. r.data \in Seq(Cell)
    BY <2>5 DEF InPlace
  <2>8. r.data = data
    BY <1>3, <2>5, <2>6, <2>7, SeqEqual
  <2> QED  BY <2>2, <2>5, <2>8
<1> QED  BY <1>4, <1>5

\* Whatever the chunks had been through, an array that was written as a whole is read back.
LEMMA WholeIsRead ==
  ASSUME DataInv
  PROVE  WholeWriteCanBeRead
<1> SUFFICES ASSUME Total > 0, shape.dims # <<>>
             PROVE  ReadAll(AllWritten(Items("all", Total))) = [error |-> "NO_ERROR", data |-> Items("all", Total)]
  BY DEF WholeWriteCanBeRead
<1>1. shape \in [type : Types, dims : Shapes] /\ Total \in Nat \ {0}
  BY TotalIs DEF DataInv
<1>2. PICK T \in Nat : T = Total
  BY <1>1
<1>3. PICK data, cs, r : data = Items("all", T) /\ cs = AllWritten(data) /\ r = ReadAll(cs)
  OBVIOUS
<1>4. data \in Seq(Cell) /\ Len(data) = Total
  BY <1>2, <1>3, ItemsAre
<1>5. Holds(cs, data)
  BY <1>1, <1>3, <1>4, AllHolds
<1>6. r = [error |-> "NO_ERROR", data |-> data]
  BY <1>1, <1>3, <1>4, <1>5, HeldIsRead
<1> QED  BY <1>2, <1>3, <1>6

\* A table has elements everywhere up to the sum of its entries.
LEMMA NoChunk ==
  ASSUME DataInv, chunks = <<>>
  PROVE  Spanned = 0
<1>1. Sound(chunks) /\ Len(chunks) + 1 = 1
  BY DEF DataInv
<1> QED  BY <1>1, BaseIs DEF Spanned

\* When the chunks that hold a block are as the table says, only a block that begins where a
\* chunk ends cannot be read.
LEMMA BlockIsRead ==
  ASSUME DataInv
  PROVE  BlockReadsStopAtBoundaries
<1> SUFFICES ASSUME NEW s \in 0..Total, NEW e \in 0..Total, s < e, shape.dims # <<>>, Total <= Spanned, Intact(s, e),
                    ReadBlock(s, e).error # "NO_ERROR"
             PROVE  Len(chunks) > 1 /\ EndsAt(s)
  BY DEF BlockReadsStopAtBoundaries
<1>1. Sound(chunks) /\ shape \in [type : Types, dims : Shapes] /\ Total \in Nat /\ chunks \in Seq(Chunk)
  BY TotalIs DEF DataInv, Sound
<1>2. s \in Nat /\ e \in Nat /\ s <= e /\ e <= Total /\ Total > 0 /\ e - s \in Nat /\ e - s > 0
  BY <1>1
<1>3. shape.type # NoType
  BY <1>1, <1>2, SomeElements
<1>4. ASSUME chunks = <<>> PROVE FALSE
  <2>1. Spanned = 0
    BY <1>4, NoChunk
  <2> QED  BY <1>1, <1>2, <2>1
<1>5. Len(chunks) = 1 \/ Len(chunks) > 1
  <2>1. PICK cs \in Seq(Chunk) : cs = chunks
    BY <1>1
  <2> QED  BY <1>4, <2>1, NotEmpty
<1>6. \A i \in 1..Len(chunks) : Portion(chunks, i, s, e) # 0 => EndTagFound(chunks[i]) /\ Used(chunks, i) <= chunks[i].size
  <2>1. ASSUME NEW i \in 1..Len(chunks), Portion(chunks, i, s, e) # 0
        PROVE  EndTagFound(chunks[i]) /\ Used(chunks, i) <= chunks[i].size
    <3>1. Part(i, s, e).n = Portion(chunks, i, s, e)
      BY <1>2, BlockResultsAre
    <3>2. Portion(chunks, i, s, e) \in Nat
      BY <1>1, <1>2, PortionIs
    <3>3. Part(i, s, e).n > 0 /\ i \in DOMAIN chunks
      BY <1>1, <2>1, <3>1, <3>2
    <3> QED  BY <3>3 DEF Intact
  <2> QED  BY <2>1
<1>7. ASSUME Len(chunks) = 1 PROVE FALSE
  <2>1. PICK c \in Chunk : c = chunks[1] /\ c.size \in 1..Len(c.cells) /\ c.size \in Nat /\ Total <= c.size
    BY <1>7, SingleIs
  <2>2. PICK T \in Nat, m \in Nat : T = Total /\ m = e - s /\ s + m = e
    BY <1>1, <1>2
  <2>3. PICK r : r = ReadChunk(c, T, s, m)
    OBVIOUS
  <2>4. IsRead(r, c, T, s, m)
    BY <1>2, <2>1, <2>2, <2>3, ReadChunkIs
  <2>5. ReadBlock(s, e) = r
    BY <1>3, <1>4, <1>7, <2>1, <2>2, <2>3 DEF ReadBlock
  <2>6. EndTagFound(c)
    <3>1. Base(chunks, 1) = 0 /\ Span(chunks, 1) = c.size /\ 1 \in 1..Len(chunks)
      BY <1>1, <1>7, <2>1, BaseIs DEF Span
    <3>2. Portion(chunks, 1, s, e) # 0
      <4>1. Portion(chunks, 1, s, e) = AtLeast0(AtMost(c.size, e - 0) - AtLeast0(s - 0))
        BY <3>1 DEF Portion, From
      <4>2. PICK z \in Nat : z = c.size /\ e <= z
        BY <1>1, <1>2, <2>1
      <4>3. AtLeast0(AtMost(z, e - 0) - AtLeast0(s - 0)) # 0
        BY <1>2, <4>2 DEF AtLeast0, AtMost
      <4> QED  BY <4>1, <4>2, <4>3
    <3> QED  BY <1>6, <2>1, <3>1, <3>2
  <2> QED  BY <1>2, <2>1, <2>2, <2>4, <2>5, <2>6 DEF IsRead
<1>8. ASSUME ~EndsAt(s), Len(chunks) > 1 PROVE FALSE
  <2>1. PICK results, r : results = BlockResults(s, e) /\ r = Gathered(results, e - s)
    OBVIOUS
  <2>2. ReadBlock(s, e) = r
    <3>1. \A l \in Nat : l > 1 => l # 1
      OBVIOUS
    <3>2. Len(chunks) # 1
      BY <1>1, <1>8, <3>1
    <3> QED  BY <1>3, <1>4, <1>8, <2>1, <3>2 DEF ReadBlock, BlockResults
  <2>3. PartOf(chunks, s, e)
    <3>1. \A l \in Nat : l > 1 => l # 0
      OBVIOUS
    <3> QED  BY <1>1, <1>2, <1>8, <3>1 DEF PartOf
  <2>4. Results(results, chunks, s, e)
    BY <1>2, <2>1, BlockResultsAre
  <2>5. Base(chunks, Len(chunks) + 1) >= e
    <3>1. Spanned \in Nat
      <4>1. Len(chunks) + 1 \in 1..(Len(chunks) + 1)
        BY <1>1
      <4> QED  BY <1>1, <4>1, BaseIs DEF Spanned
    <3>2. Spanned >= e
      BY <1>1, <1>2, <3>1
    <3> QED  BY <3>2 DEF Spanned
  <2>6. r.error = "NO_ERROR"
    BY <1>6, <2>1, <2>3, <2>4, <2>5, ReadAcross
  <2> QED  BY <2>2, <2>6
<1> QED  BY <1>5, <1>7, <1>8

-----------------------------------------------------------------------------
(* The ways to read agree.                                                 *)

\* The element of the array in the chunk it lies in.
LEMMA ElementIn ==
  ASSUME DataInv, Len(chunks) # 1, NEW i \in 1..Len(chunks), NEW x \in Nat, Base(chunks, i) < x, x <= Base(chunks, i + 1)
  PROVE  ElementOnDisk(x) = chunks[i].cells[x - Base(chunks, i)]
<1>1. Sound(chunks) /\ DOMAIN chunks = 1..Len(chunks) /\ Len(chunks) \in Nat
  BY SpanIs DEF DataInv
<1>2. PICK sizes : sizes = Spans(chunks)
  OBVIOUS
<1>3. sizes \in Seq(Nat) /\ Len(sizes) = Len(chunks) /\ \A j : Base(chunks, j) = Before(sizes, j)
  BY <1>1, <1>2, SpanIs, BaseIs
<1>4. x \in 1..Before(sizes, Len(sizes) + 1)
  <2>1. i + 1 \in 1..(Len(chunks) + 1) /\ Len(chunks) + 1 \in 1..(Len(chunks) + 1) /\ i + 1 <= Len(chunks) + 1 /\ i \in 1..(Len(chunks) + 1)
    BY <1>1
  <2>2. /\ Base(chunks, i + 1) <= Base(chunks, Len(chunks) + 1) /\ Base(chunks, i) \in Nat /\ Base(chunks, i + 1) \in Nat
        /\ Base(chunks, Len(chunks) + 1) \in Nat
    BY <1>1, <2>1, BaseIs
  <2>3. x \in 1..Base(chunks, Len(chunks) + 1)
    BY <2>2
  <2> QED  BY <1>3, <2>3
<1>5. PICK j \in 1..Len(sizes) :
        \A h \in 1..Len(sizes) : Before(sizes, h) < x /\ x <= Before(sizes, h + 1) => h = j
  BY <1>3, <1>4, Falls
<1>6. \A h \in DOMAIN chunks : Base(chunks, h) < x /\ x <= Base(chunks, h + 1) => h = i
  BY <1>1, <1>3, <1>5
<1>7. (CHOOSE h \in DOMAIN chunks : Base(chunks, h) < x /\ x <= Base(chunks, h + 1)) = i
  BY <1>1, <1>6
<1> QED  BY <1>7 DEF ElementOnDisk

\* What is known of an element lies on disk.
LEMMA KnownOnDisk ==
  ASSUME NEW k \in 1..Total, Known(k)
  PROVE  View[k] = ElementOnDisk(k) /\ k <= Spanned
<1>1. View[k] = IF k <= Spanned THEN ElementOnDisk(k) ELSE Junk
  BY DEF View
<1>2. Junk \in V!Unknown
  BY DEF Junk, V!Unknown, V!Junk
<1> QED  BY <1>1, <1>2 DEF Known

\* As many elements as there are.
LEMMA ViewLength ==
  ASSUME DataInv
  PROVE  Len(View) = Total /\ Total \in Nat
<1>1. PICK T \in Nat : T = Total
  BY TotalIs DEF DataInv
<1>2. PICK f : f = View
  OBVIOUS
<1>3. f = [k \in 1..T |-> f[k]]
  BY <1>1, <1>2 DEF View
<1>4. PICK S : \A k \in 1..T : f[k] \in S
  <2>1. \A k \in 1..T : f[k] \in {f[j] : j \in 1..T}
    OBVIOUS
  <2> QED  BY <2>1
<1>5. Len(f) = T
  BY <1>3, <1>4, IsSequence
<1> QED  BY <1>1, <1>2, <1>5

\* What is read of a single chunk, and of a table.
LEMMA SingleAgrees ==
  ASSUME DataInv, Len(chunks) = 1, NEW s \in Nat, NEW e \in Nat, s <= e, e <= Total,
         NEW r, r = ReadChunk(chunks[1], Total, s, e - s), r.error = "NO_ERROR", NEW k \in 1..(e - s), Known(s + k)
  PROVE  r.data[k] = View[s + k]
<1>1. PICK T \in Nat, m \in Nat : T = Total /\ m = e - s /\ s + m = e
  <2>1. Total \in Nat /\ e - s \in Nat /\ s + (e - s) = e
    BY TotalIs DEF DataInv
  <2> QED  BY <2>1
<1>2. PICK c \in Chunk : c = chunks[1] /\ c.size \in 1..Len(c.cells) /\ c.size \in Nat
  BY SingleIs
<1>3. IsRead(r, c, T, s, m)
  BY <1>1, <1>2, ReadChunkIs
<1>4. k \in 1..m /\ s + k \in 1..T /\ s + k \in 1..Total
  BY <1>1
<1>5. r.data[k] = c.cells[s + k] /\ T <= c.size
  BY <1>3, <1>4 DEF IsRead
<1>6. s + k <= Len(c.cells)
  <2>1. Len(c.cells) \in Nat
    BY DEF Chunk
  <2> QED  BY <1>2, <1>4, <1>5, <2>1
<1>7. ElementOnDisk(s + k) = c.cells[s + k]
  BY <1>2, <1>6 DEF ElementOnDisk
<1>8. PICK x \in 1..Total : x = s + k
  BY <1>4
<1>9. View[x] = ElementOnDisk(x)
  BY <1>8, KnownOnDisk
<1> QED  BY <1>5, <1>7, <1>8, <1>9

\* What is put in place from the chunks of a table is what was written there.
LEMMA TableAgrees ==
  ASSUME DataInv, Len(chunks) # 1, NEW s \in Nat, NEW e \in Nat, s <= e, e <= Total,
         NEW data, InPlace(data, chunks, s, e), Len(data) = e - s, NEW k \in 1..(e - s), Known(s + k)
  PROVE  data[k] = View[s + k]
<1>1. PICK x \in 1..Total : x = s + k
  <2>1. s + k \in 1..Total
    BY TotalIs DEF DataInv
  <2> QED  BY <2>1
<1>2. PICK i \in 1..Len(chunks) : Base(chunks, i) < x /\ x <= Base(chunks, i + 1) /\ data[k] = chunks[i].cells[x - Base(chunks, i)]
  BY <1>1 DEF InPlace
<1>3. x \in Nat
  BY <1>1
<1>4. ElementOnDisk(x) = chunks[i].cells[x - Base(chunks, i)]
  BY <1>2, <1>3, ElementIn
<1>5. View[x] = ElementOnDisk(x)
  BY <1>1, KnownOnDisk
<1> QED  BY <1>1, <1>2, <1>4, <1>5

\* A node with data on disk has one chunk, or a table.
LEMMA OneOrMore ==
  ASSUME DataInv, chunks # <<>>
  PROVE  Len(chunks) \in Nat /\ Len(chunks) # 0 /\ (Len(chunks) = 1 \/ Len(chunks) > 1) /\ Sound(chunks)
<1>1. PICK cs \in Seq(Chunk) : cs = chunks
  BY DEF DataInv, Sound
<1>2. cs # <<>>
  BY <1>1
<1>3. Len(cs) \in Nat /\ Len(cs) # 0 /\ (Len(cs) = 1 \/ Len(cs) > 1)
  BY <1>2, NotEmpty
<1> QED  BY <1>1, <1>3 DEF DataInv

\* Reading the whole array.
LEMMA AllAgrees ==
  ASSUME DataInv
  PROVE  Agrees(ReadAll(chunks), [k \in 1..Total |-> k])
<1>1. PICK r : r = ReadAll(chunks)
  OBVIOUS
<1> SUFFICES ASSUME r.error = "NO_ERROR", NEW k \in 1..Total, Known(k) PROVE r.data[k] = View[k]
  BY <1>1 DEF Agrees
<1>2. shape.type # NoType /\ shape.dims # <<>> /\ chunks # <<>>
  BY <1>1 DEF ReadAll, Refused
<1>3. PICK T \in Nat : T = Total
  BY TotalIs DEF DataInv
<1>4. 0 \in Nat /\ 0 <= T /\ T - 0 = T /\ 0 + k = k /\ k \in 1..(T - 0)
  BY <1>3
<1>5. CASE Len(chunks) = 1
  <2>1. r = ReadChunk(chunks[1], Total, 0, T - 0)
    BY <1>1, <1>2, <1>3, <1>4, <1>5 DEF ReadAll
  <2>2. Known(0 + k)
    BY <1>4
  <2>3. r.data[k] = View[0 + k]
    BY <1>3, <1>4, <1>5, <2>1, <2>2, SingleAgrees
  <2> QED  BY <1>4, <2>3
<1>6. CASE Len(chunks) # 1
  <2>1. PICK results : results = AllResults(chunks)
    OBVIOUS
  <2>2. r = Gathered(results, T - 0)
    BY <1>1, <1>2, <1>3, <1>4, <1>6, <2>1 DEF ReadAll, AllResults
  <2>3. PartOf(chunks, 0, T) /\ Results(results, chunks, 0, T)
    BY <1>2, <1>3, <1>4, <2>1, OneOrMore, AllResultsAre DEF PartOf, DataInv
  <2>4. InPlace(r.data, chunks, 0, T) /\ Len(r.data) = T - 0
    BY <2>2, <2>3, ReadAcross
  <2>5. Known(0 + k)
    BY <1>4
  <2>6. r.data[k] = View[0 + k]
    <3>0. PICK data : data = r.data
      OBVIOUS
    <3>1. PICK z \in Nat : data = r.data /\ z = 0
      BY <3>0
    <3>2. InPlace(data, chunks, z, T) /\ Len(data) = T - z /\ Known(z + k) /\ k \in 1..(T - z) /\ z <= T /\ T <= Total
      BY <1>3, <1>4, <2>4, <2>5, <3>1
    <3>3. data[k] = View[z + k]
      BY <1>6, <3>2, TableAgrees
    <3> QED  BY <3>1, <3>3
  <2> QED  BY <1>4, <2>6
<1> QED  BY <1>5, <1>6

\* Reading a block.
LEMMA BlockAgrees ==
  ASSUME DataInv, NEW s \in 0..Total, NEW e \in 0..Total, s <= e
  PROVE  Agrees(ReadBlock(s, e), [k \in 1..(e - s) |-> s + k])
<1>1. PICK r : r = ReadBlock(s, e)
  OBVIOUS
<1> SUFFICES ASSUME r.error = "NO_ERROR", NEW k \in 1..(e - s), Known(s + k) PROVE r.data[k] = View[s + k]
  BY <1>1 DEF Agrees
<1>2. shape.type # NoType /\ shape.dims # <<>> /\ chunks # <<>>
  BY <1>1 DEF ReadBlock, Refused
<1>3. Total \in Nat /\ s \in Nat /\ e \in Nat /\ e <= Total
  BY TotalIs DEF DataInv
<1>4. CASE Len(chunks) = 1
  <2>1. r = ReadChunk(chunks[1], Total, s, e - s)
    BY <1>1, <1>2, <1>4 DEF ReadBlock
  <2> QED  BY <1>3, <1>4, <2>1, SingleAgrees
<1>5. CASE Len(chunks) # 1
  <2>1. PICK results : results = BlockResults(s, e)
    OBVIOUS
  <2>2. r = Gathered(results, e - s)
    BY <1>1, <1>2, <1>5, <2>1 DEF ReadBlock, BlockResults, Refused
  <2>3. PartOf(chunks, s, e)
    BY <1>2, <1>3, OneOrMore DEF PartOf, DataInv
  <2>4. Results(results, chunks, s, e)
    BY <1>3, <2>1, BlockResultsAre
  <2>5. InPlace(r.data, chunks, s, e) /\ Len(r.data) = e - s
    BY <2>2, <2>3, <2>4, ReadAcross
  <2> QED  BY <1>3, <1>5, <2>5, TableAgrees
<1> QED  BY <1>4, <1>5

\* A function that begins with a at one and takes a step from each number to the next.
Recurs(f, n, S, a, step) ==
  /\ f = [i \in 1..n |-> IF i = 1 THEN a ELSE step[i][f[i - 1]]]
  /\ \A i \in 1..n : f[i] \in S

\* There is one.
LEMMA Recursion ==
  ASSUME NEW n \in Nat, NEW S, NEW a \in S, NEW step \in [1..n -> [S -> S]]
  PROVE  \E f : Recurs(f, n, S, a, step)
<1> DEFINE shifted == [i \in 1..n |-> IF i \in 1..(n - 1) THEN step[i + 1] ELSE step[i]]
<1>1. shifted \in [1..n -> [S -> S]]
  <2>1. \A i \in 1..n : i \in 1..(n - 1) => i + 1 \in 1..n
    OBVIOUS
  <2> QED  BY <2>1
<1>2. \A i \in 1..(n - 1) : shifted[i] = step[i + 1]
  OBVIOUS
<1> HIDE DEF shifted
<1>3. PICK h : Stepping(h, n, S, a, shifted)
  BY <1>1, Steps
<1> DEFINE f == [i \in 1..n |-> h[i - 1]]
<1>4. ASSUME NEW i \in 1..n PROVE f[i] \in S /\ f[i] = IF i = 1 THEN a ELSE step[i][f[i - 1]]
  <2>1. i - 1 \in 0..n /\ h[i - 1] \in S /\ f[i] = h[i - 1] /\ h[0] = a
    BY <1>3 DEF Stepping
  <2>2. CASE i = 1
    BY <2>1, <2>2
  <2>3. CASE i # 1
    <3>1. i - 1 \in 1..n /\ i - 1 \in 1..(n - 1) /\ (i - 1) + 1 = i
      BY <2>3
    <3>2. h[i - 1] = shifted[i - 1][h[(i - 1) - 1]]
      BY <1>3, <3>1 DEF Stepping
    <3>3. shifted[i - 1] = step[i]
      BY <1>2, <3>1
    <3>4. f[i - 1] = h[(i - 1) - 1]
      BY <3>1
    <3> QED  BY <2>1, <2>3, <3>2, <3>3, <3>4
  <2> QED  BY <2>2, <2>3
<1>5. f = [i \in 1..n |-> f[i]]
  OBVIOUS
<1> HIDE DEF f
<1>6. Recurs(f, n, S, a, step)
  BY <1>4, <1>5 DEF Recurs
<1> QED  BY <1>6

\* The positions in an array.
Positions(dims) == {p \in [1..Len(dims) -> Nat] : \A k \in 1..Len(dims) : p[k] \in 1..dims[k]}

\* The dimension that advances, or the one behind the last.
Up(dims, sel, pos) == Min(Advancing(dims, sel, pos) \cup {Len(dims) + 1})

\* It is there.
LEMMA UpIs ==
  ASSUME NEW dims \in Seq(Nat \ {0}), NEW sel, NEW pos
  PROVE  /\ Up(dims, sel, pos) \in 1..(Len(dims) + 1)
         /\ Up(dims, sel, pos) \in 1..Len(dims) => Up(dims, sel, pos) \in Advancing(dims, sel, pos)
         /\ \A k \in Advancing(dims, sel, pos) : Up(dims, sel, pos) <= k
<1>1. PICK S : S = Advancing(dims, sel, pos) \cup {Len(dims) + 1}
  OBVIOUS
<1>2. S \in SUBSET (1..(Len(dims) + 1)) /\ S # {}
  BY <1>1 DEF Advancing
<1>3. S \in SUBSET Nat
  BY <1>2
<1>4. PICK x \in S : \A y \in S : x <= y
  BY <1>2, <1>3, LeastNatural
<1>5. Min(S) \in S /\ \A y \in S : Min(S) <= y
  BY <1>4 DEF Min
<1>6. Up(dims, sel, pos) = Min(S)
  BY <1>1 DEF Up
<1>7. \A k \in 1..Len(dims) : k # Len(dims) + 1
  OBVIOUS
<1> QED  BY <1>1, <1>2, <1>5, <1>6, <1>7

\* The next position lies in the array.
LEMMA NextInArray ==
  ASSUME NEW dims \in Seq(Nat \ {0}), NEW sel, SelectionIn(dims, sel), NEW pos \in Positions(dims)
  PROVE  NextPosition(dims, sel, pos) \in Positions(dims)
<1>1. PICK up \in 1..(Len(dims) + 1) : up = Up(dims, sel, pos) /\ (up \in 1..Len(dims) => up \in Advancing(dims, sel, pos))
  BY UpIs
<1>2. PICK q : q = NextPosition(dims, sel, pos)
  OBVIOUS
<1>3. q = [k \in 1..Len(dims) |-> IF k < up THEN sel.first[k] ELSE IF k = up THEN pos[k] + sel.stride[k] ELSE pos[k]]
  BY <1>1, <1>2 DEF NextPosition, Up
<1>4. ASSUME NEW k \in 1..Len(dims) PROVE q[k] \in 1..dims[k] /\ q[k] \in Nat
  <2>1. PICK d \in Nat, f \in Nat, t \in Nat, p \in Nat, l \in Nat :
          /\ d = dims[k] /\ f = sel.first[k] /\ t = sel.stride[k] /\ p = pos[k] /\ l = sel.last[k]
          /\ f >= 1 /\ f <= d /\ p >= 1 /\ p <= d /\ l <= d
    <3>1. dims[k] \in Nat /\ sel.first[k] \in 1..dims[k] /\ sel.stride[k] \in Nat /\ sel.last[k] \in 1..dims[k]
      BY DEF SelectionIn
    <3>2. pos[k] \in 1..dims[k]
      BY DEF Positions
    <3>3. /\ sel.first[k] \in Nat /\ sel.first[k] >= 1 /\ sel.first[k] <= dims[k]
          /\ sel.last[k] \in Nat /\ sel.last[k] <= dims[k]
          /\ pos[k] \in Nat /\ pos[k] >= 1 /\ pos[k] <= dims[k]
      BY <3>1, <3>2, SMTT(30)
    <3> QED  BY <3>1, <3>3
  <2>2. k = up => p + t <= l
    BY <1>1, <2>1 DEF Advancing
  <2>3. q[k] = IF k < up THEN f ELSE IF k = up THEN p + t ELSE p
    BY <1>3, <2>1
  <2>4. q[k] \in 1..d /\ q[k] \in Nat
    <3>1. CASE k < up
      BY <2>1, <2>3, <3>1
    <3>2. CASE ~(k < up) /\ k = up
      <4>1. q[k] = p + t
        BY <2>3, <3>2
      <4>2. p + t <= l
        BY <2>2, <3>2
      <4>3. p + t \in 1..d /\ p + t \in Nat
        <5>1. p \in Nat /\ t \in Nat /\ l \in Nat /\ d \in Nat /\ p >= 1 /\ l <= d
          BY <2>1
        <5> QED  BY <4>2, <5>1
      <4> QED  BY <4>1, <4>3
    <3>3. CASE ~(k < up) /\ k # up
      BY <2>1, <2>3, <3>3
    <3> QED  BY <3>1, <3>2, <3>3
  <2> QED  BY <2>1, <2>4
<1>5. q \in [1..Len(dims) -> Nat]
  BY <1>3, <1>4
<1> QED  BY <1>2, <1>4, <1>5 DEF Positions

\* A sum of numbers that belong to the dimensions.
LEMMA SumOverDims ==
  ASSUME NEW dims \in Seq(Nat \ {0}), NEW f, f = [k \in DOMAIN dims |-> f[k]], \A k \in 1..Len(dims) : f[k] \in Nat,
         NEW i \in 1..(Len(dims) + 1)
  PROVE  Before(f, i) \in Nat
<1>1. Len(dims) \in Nat /\ f = [k \in 1..Len(dims) |-> f[k]]
  OBVIOUS
<1>2. f \in Seq(Nat) /\ Len(f) = Len(dims)
  BY <1>1, IsSequence
<1> QED  BY <1>2, Sums

\* The first element of a selection, and the way to the next one.
LEMMA OffsetsAre ==
  ASSUME NEW dims \in Seq(Nat \ {0}), NEW sel, SelectionIn(dims, sel)
  PROVE  /\ StartOffset(dims, sel) \in Nat
         /\ \A pos \in Positions(dims) : NextOffset(dims, sel, pos) \in Nat
<1>0. \A d, p, g \in Nat : p <= d /\ g >= 1 => d - p + g - 1 \in Nat
  OBVIOUS
<1>1. \A x, y \in Nat : x * y \in Nat
  OBVIOUS
<1>2. \A k \in 1..(Len(dims) + 1) : Below(dims, k) \in Nat
  BY Products
<1>3. \A k \in 1..Len(dims) : /\ dims[k] \in Nat /\ sel.first[k] \in 1..dims[k] /\ sel.first[k] - 1 \in Nat
                              /\ sel.stride[k] - 1 \in Nat
  BY DEF SelectionIn
<1>4. DOMAIN dims = 1..Len(dims) /\ Len(dims) \in Nat
  OBVIOUS
<1>5. StartOffset(dims, sel) \in Nat
  <2>1. PICK f : f = [k \in DOMAIN dims |-> (sel.first[k] - 1) * Below(dims, k)]
    OBVIOUS
  <2>2. ASSUME NEW k \in 1..Len(dims) PROVE f[k] \in Nat
    <3>1. PICK x \in Nat, y \in Nat : x = sel.first[k] - 1 /\ y = Below(dims, k)
      <4>1. k \in 1..(Len(dims) + 1)
        BY <1>4
      <4> QED  BY <1>2, <1>3, <4>1
    <3>2. f[k] = x * y
      BY <1>4, <2>1, <3>1
    <3> QED  BY <1>1, <3>2
  <2>3. f = [k \in DOMAIN dims |-> f[k]]
    BY <2>1
  <2>4. Len(dims) + 1 \in 1..(Len(dims) + 1)
    BY <1>4
  <2>5. Before(f, Len(dims) + 1) \in Nat
    BY <2>2, <2>3, <2>4, SumOverDims
  <2> QED  BY <2>1, <2>5 DEF StartOffset
<1>6. ASSUME NEW pos \in Positions(dims) PROVE NextOffset(dims, sel, pos) \in Nat
  <2>1. PICK up \in 1..(Len(dims) + 1) : up = Up(dims, sel, pos)
    BY UpIs
  <2>2. PICK f : f = [k \in DOMAIN dims |-> dims[k] - pos[k] + sel.first[k] - 1]
    OBVIOUS
  <2>3. ASSUME NEW k \in 1..Len(dims) PROVE f[k] \in Nat
    <3>1. PICK d \in Nat, p \in Nat, g \in Nat : d = dims[k] /\ p = pos[k] /\ g = sel.first[k] /\ g >= 1 /\ p <= d
      <4>1. pos[k] \in 1..dims[k]
        BY DEF Positions
      <4>2. dims[k] \in Nat /\ pos[k] \in Nat /\ pos[k] <= dims[k]
        BY <1>3, <4>1
      <4>3. sel.first[k] \in Nat /\ sel.first[k] >= 1
        BY <1>3, <4>2
      <4> QED  BY <4>2, <4>3
    <3>2. f[k] = d - p + g - 1
      BY <1>4, <2>2, <3>1
    <3>3. d - p + g - 1 \in Nat
      BY <1>0, <3>1
    <3> QED  BY <3>2, <3>3
  <2>4. f = [k \in DOMAIN dims |-> f[k]]
    BY <2>2
  <2>5. Before(f, up) \in Nat
    BY <2>3, <2>4, SumOverDims
  <2>6. PICK m : m = IF up \in DOMAIN dims THEN 1 + (sel.stride[up] - 1) * Below(dims, up) ELSE 0
    OBVIOUS
  <2>7. m \in Nat
    <3>1. CASE up \in 1..Len(dims)
      <4>1. PICK x \in Nat, y \in Nat : x = sel.stride[up] - 1 /\ y = Below(dims, up)
        BY <1>2, <1>3, <3>1
      <4>2. x * y \in Nat /\ m = 1 + x * y
        BY <1>1, <1>4, <2>6, <3>1, <4>1
      <4> QED  BY <4>2
    <3>2. CASE up \notin 1..Len(dims)
      BY <1>4, <2>6, <3>2
    <3> QED  BY <3>1, <3>2
  <2>8. NextOffset(dims, sel, pos) = Before(f, up) + m
    BY <2>1, <2>2, <2>6 DEF NextOffset, Up
  <2> QED  BY <2>5, <2>7, <2>8
<1> QED  BY <1>5, <1>6

\* A walk never leaves the array to the front.
LEMMA WalkIs ==
  ASSUME NEW dims \in Seq(Nat \ {0}), NEW sel, SelectionIn(dims, sel)
  PROVE  /\ \A k \in DOMAIN Walk(dims, sel) : Walk(dims, sel)[k] \in Nat
         /\ \E pos : \A i \in 1..Count(dims, sel) :
              /\ pos[i] = IF i = 1 THEN sel.first ELSE NextPosition(dims, sel, pos[i - 1])
              /\ Walk(dims, sel)[i] = IF i = 1 THEN StartOffset(dims, sel)
                                      ELSE Walk(dims, sel)[i - 1] + NextOffset(dims, sel, pos[i - 1])
<1>1. PICK n \in Nat : n = Count(dims, sel)
  BY CountIs
<1> DEFINE IsPos(f) == f = [i \in 1..n |-> IF i = 1 THEN sel.first ELSE NextPosition(dims, sel, f[i - 1])]
           pos == CHOOSE f : IsPos(f)
           IsAt(f) == f = [i \in 1..n |-> IF i = 1 THEN StartOffset(dims, sel)
                                          ELSE f[i - 1] + NextOffset(dims, sel, pos[i - 1])]
           at == CHOOSE f : IsAt(f)
<1>2. Walk(dims, sel) = [i \in 1..n |-> at[i]]
  BY <1>1 DEF Walk
<1>3. sel.first \in Positions(dims)
  <2>1. \A k \in 1..Len(dims) : sel.first[k] \in 1..dims[k] /\ sel.first[k] \in Nat
    BY DEF SelectionIn
  <2>2. sel.first = [k \in 1..Len(dims) |-> sel.first[k]]
    BY DEF SelectionIn
  <2>3. PICK first : first = sel.first
    OBVIOUS
  <2>4. first \in [1..Len(dims) -> Nat] /\ \A k \in 1..Len(dims) : first[k] \in 1..dims[k]
    BY <2>1, <2>2, <2>3
  <2> QED  BY <2>3, <2>4 DEF Positions
<1> DEFINE step == [i \in 1..n |-> [p \in Positions(dims) |-> NextPosition(dims, sel, p)]]
<1>4. step \in [1..n -> [Positions(dims) -> Positions(dims)]]
  BY NextInArray
<1>5. \A i \in 1..n, p \in Positions(dims) : step[i][p] = NextPosition(dims, sel, p)
  OBVIOUS
<1> HIDE DEF step
<1>6. PICK g : Recurs(g, n, Positions(dims), sel.first, step)
  BY <1>3, <1>4, Recursion
<1>7. ASSUME NEW i \in 1..n PROVE g[i] = IF i = 1 THEN sel.first ELSE NextPosition(dims, sel, g[i - 1])
  <2>1. g[i] = IF i = 1 THEN sel.first ELSE step[i][g[i - 1]]
    BY <1>6 DEF Recurs
  <2>2. i # 1 => i - 1 \in 1..n
    OBVIOUS
  <2>3. i # 1 => g[i - 1] \in Positions(dims)
    BY <1>6, <2>2 DEF Recurs
  <2> QED  BY <1>5, <2>1, <2>3
<1>8. g = [i \in 1..n |-> g[i]]
  BY <1>6 DEF Recurs
<1>9. IsPos(g)
  BY <1>7, <1>8
<1>10. IsPos(pos)
  <2> HIDE DEF IsPos
  <2> QED  BY <1>9
<1>11. ASSUME NEW i \in 1..n PROVE pos[i] = IF i = 1 THEN sel.first ELSE NextPosition(dims, sel, pos[i - 1])
  <2> HIDE DEF pos
  <2> QED  BY <1>10
<1> HIDE DEF IsPos, pos
<1> DEFINE In == {i \in 0..n : i = 0 \/ pos[i] \in Positions(dims)}
<1>12. 0 \in In
  OBVIOUS
<1>13. ASSUME NEW i \in 1..n, i - 1 \in In PROVE i \in In
  <2>1. CASE i = 1
    BY <1>3, <1>11, <2>1
  <2>2. CASE i # 1
    <3>1. i - 1 # 0
      BY <2>2
    <3>2. pos[i - 1] \in Positions(dims)
      BY <1>13, <3>1
    <3>3. pos[i] = NextPosition(dims, sel, pos[i - 1])
      BY <1>11, <2>2
    <3>4. PICK p \in Positions(dims) : p = pos[i - 1]
      BY <3>2
    <3>5. NextPosition(dims, sel, p) \in Positions(dims)
      BY NextInArray
    <3> QED  BY <3>3, <3>4, <3>5
  <2> QED  BY <2>1, <2>2
<1> HIDE DEF In
<1>14. 0..n \subseteq In
  BY <1>12, <1>13, UpTo
<1>15. ASSUME NEW i \in 1..n PROVE pos[i] \in Positions(dims)
  <2>1. i \in In /\ i # 0
    BY <1>14
  <2> QED  BY <2>1 DEF In
<1> DEFINE far == [i \in 1..n |-> [x \in Nat |-> IF i = 1 THEN x ELSE x + NextOffset(dims, sel, pos[i - 1])]]
<1>16. ASSUME NEW i \in 1..n, i # 1 PROVE NextOffset(dims, sel, pos[i - 1]) \in Nat
  <2>1. i - 1 \in 1..n
    BY <1>16
  <2>2. PICK p \in Positions(dims) : p = pos[i - 1]
    BY <1>15, <2>1
  <2> QED  BY <2>2, OffsetsAre
<1>17. far \in [1..n -> [Nat -> Nat]]
  <2>1. ASSUME NEW i \in 1..n, NEW x \in Nat
        PROVE  (IF i = 1 THEN x ELSE x + NextOffset(dims, sel, pos[i - 1])) \in Nat
    BY <1>16
  <2> QED  BY <2>1
<1>18. \A i \in 1..n, x \in Nat : i # 1 => far[i][x] = x + NextOffset(dims, sel, pos[i - 1])
  OBVIOUS
<1> HIDE DEF far
<1>19. PICK h : Recurs(h, n, Nat, StartOffset(dims, sel), far)
  <2>1. StartOffset(dims, sel) \in Nat
    BY OffsetsAre
  <2> QED  BY <1>17, <2>1, Recursion
<1>20. ASSUME NEW i \in 1..n
       PROVE  h[i] = IF i = 1 THEN StartOffset(dims, sel) ELSE h[i - 1] + NextOffset(dims, sel, pos[i - 1])
  <2>1. h[i] = IF i = 1 THEN StartOffset(dims, sel) ELSE far[i][h[i - 1]]
    BY <1>19 DEF Recurs
  <2>2. i # 1 => i - 1 \in 1..n
    OBVIOUS
  <2>3. i # 1 => h[i - 1] \in Nat
    BY <1>19, <2>2 DEF Recurs
  <2> QED  BY <1>18, <2>1, <2>3
<1>21. h = [i \in 1..n |-> h[i]]
  BY <1>19 DEF Recurs
<1>22. IsAt(h)
  BY <1>20, <1>21
<1>23. IsAt(at)
  <2> HIDE DEF IsAt
  <2> QED  BY <1>22
<1>24. ASSUME NEW i \in 1..n
       PROVE  at[i] = IF i = 1 THEN StartOffset(dims, sel) ELSE at[i - 1] + NextOffset(dims, sel, pos[i - 1])
  <2> HIDE DEF at
  <2> QED  BY <1>23
<1> HIDE DEF IsAt, at
<1> DEFINE There == {i \in 0..n : i = 0 \/ at[i] \in Nat}
<1>25. 0 \in There
  OBVIOUS
<1>26. ASSUME NEW i \in 1..n, i - 1 \in There PROVE i \in There
  <2>1. CASE i = 1
    BY <1>24, <2>1, OffsetsAre
  <2>2. CASE i # 1
    <3>1. i - 1 # 0
      BY <2>2
    <3>2. at[i - 1] \in Nat
      BY <1>26, <3>1
    <3>3. at[i] = at[i - 1] + NextOffset(dims, sel, pos[i - 1]) /\ NextOffset(dims, sel, pos[i - 1]) \in Nat
      BY <1>16, <1>24, <2>2
    <3> QED  BY <3>2, <3>3
  <2> QED  BY <2>1, <2>2
<1> HIDE DEF There
<1>27. 0..n \subseteq There
  BY <1>25, <1>26, UpTo
<1>28. ASSUME NEW i \in 1..n PROVE at[i] \in Nat
  <2>1. i \in There /\ i # 0
    BY <1>27
  <2> QED  BY <2>1 DEF There
<1>29. ASSUME NEW i \in 1..n
       PROVE  Walk(dims, sel)[i] = IF i = 1 THEN StartOffset(dims, sel)
                                   ELSE Walk(dims, sel)[i - 1] + NextOffset(dims, sel, pos[i - 1])
  <2>1. Walk(dims, sel)[i] = at[i]
    BY <1>2
  <2>2. i # 1 => Walk(dims, sel)[i - 1] = at[i - 1]
    <3>1. i # 1 => i - 1 \in 1..n
      OBVIOUS
    <3> QED  BY <1>2, <3>1
  <2> QED  BY <1>24, <2>1, <2>2
<1>30. DOMAIN Walk(dims, sel) = 1..n /\ \A i \in 1..n : Walk(dims, sel)[i] \in Nat
  BY <1>2, <1>28
<1> QED  BY <1>1, <1>11, <1>29, <1>30

\* Reading a selection.
LEMMA StridedAgrees ==
  ASSUME DataInv, NEW at \in Walks[shape.dims]
  PROVE  Agrees(ReadStrided(at), [k \in DOMAIN at |-> at[k] + 1])
<1>1. PICK dims \in Shapes : dims = shape.dims
  BY DEF DataInv
<1>2. dims \in Seq(Nat \ {0})
  BY ShapesAssumption
<1>3. PICK sel \in Selections(dims) : at = Walk(dims, sel)
  BY <1>1 DEF Walks
<1>4. SelectionIn(dims, sel)
  BY <1>2, SelectionsIn
<1>5. \A k \in DOMAIN at : at[k] \in Nat
  BY <1>2, <1>3, <1>4, WalkIs
<1>6. PICK r : r = ReadStrided(at)
  OBVIOUS
<1> SUFFICES ASSUME r.error = "NO_ERROR", NEW k \in DOMAIN at, at[k] + 1 <= Len(View), Known(at[k] + 1)
             PROVE  r.data[k] = View[at[k] + 1]
  BY <1>6 DEF Agrees
<1>7. PICK x \in 1..Total : x = at[k] + 1
  <2>1. Len(View) = Total /\ Total \in Nat
    BY ViewLength
  <2>2. at[k] + 1 \in 1..Total
    BY <1>5, <2>1
  <2> QED  BY <2>2
<1>8. View[x] = ElementOnDisk(x) /\ x <= Spanned
  BY <1>7, KnownOnDisk
<1>9. ASSUME chunks = <<>> PROVE FALSE
  <2>1. Spanned = 0
    BY <1>9, NoChunk
  <2> QED  BY <1>7, <1>8, <2>1
<1>10. r = [error |-> "NO_ERROR", data |-> [j \in DOMAIN at |-> ElementOnDisk(at[j] + 1)]]
  BY <1>6, <1>9 DEF ReadStrided, Refused
<1> QED  BY <1>7, <1>8, <1>10

\* All of them.
LEMMA AllWaysAgree ==
  ASSUME DataInv
  PROVE  ReadsAgree
BY AllAgrees, BlockAgrees, StridedAgrees DEF ReadsAgree

-----------------------------------------------------------------------------
(* The theorems.                                                           *)

\* After the whole array has been written it can be read, and gives what was written, whatever
\* the chunks had been through: arrays that grew or shrank, any number of chunks in the table,
\* entries longer than what is used, end tags that a strided write destroyed.
THEOREM WrittenIsRead == Spec => []WholeWriteCanBeRead
<1>1. DataInv => WholeWriteCanBeRead
  BY WholeIsRead
<1> QED  BY <1>1, DataInvariant, PTL

\* The only block that cannot be read, when its chunks are as the table says, is one that begins
\* exactly where a chunk of the table ends: nothing else stops the loop of ADF_Read_Block_Data
\* over the table.
THEOREM OnlyBoundariesStop == Spec => []BlockReadsStopAtBoundaries
<1>1. DataInv => BlockReadsStopAtBoundaries
  BY BlockIsRead
<1> QED  BY <1>1, DataInvariant, PTL

\* What ADF_Read_All_Data, ADF_Read_Block_Data and ADF_Read_Data return without an error is the
\* same for every element that was written, however the array is cut in chunks.
THEOREM SameForAllReads == Spec => []ReadsAgree
<1>1. DataInv => ReadsAgree
  BY AllWaysAgree
<1> QED  BY <1>1, DataInvariant, PTL
-----------------------------------------------------------------------------
(* What is seen of the array in its chunks.                                *)

\* The k-th element, and the array, as View has them of chunks.
OnDisk(cs, k) ==
  IF Len(cs) = 1 THEN IF k <= Len(cs[1].cells) THEN cs[1].cells[k] ELSE Junk
  ELSE LET i == CHOOSE i \in DOMAIN cs : Base(cs, i) < k /\ k <= Base(cs, i + 1)
       IN  cs[i].cells[k - Base(cs, i)]

Seen(cs) == [k \in 1..Total |-> IF k <= Base(cs, Len(cs) + 1) THEN OnDisk(cs, k) ELSE Junk]

\* What the present chunks show, and those behind a step that keeps the shape.
LEMMA ViewIs == View = Seen(chunks)
BY DEF View, Seen, ElementOnDisk, OnDisk, Spanned

\* The same behind a step.
LEMMA ViewNext ==
  ASSUME UNCHANGED shape
  PROVE  View' = Seen(chunks')
<1>1. Total' = Total
  BY DEF Total
<1>2. Spanned' = Base(chunks', Len(chunks') + 1)
  BY DEF Spanned, Base, Span
<1>3. \A k : ElementOnDisk(k)' = OnDisk(chunks', k)
  BY DEF ElementOnDisk, OnDisk, Base, Span
<1> QED  BY <1>1, <1>2, <1>3 DEF View, Seen

\* An element that lies in a chunk, and one that lies in none.
LEMMA SeenIn ==
  ASSUME NEW cs, Sound(cs), NEW i \in 1..Len(cs), NEW k \in 1..Total, k \in Nat, Base(cs, i) < k, k <= Base(cs, i + 1)
  PROVE  Seen(cs)[k] = cs[i].cells[k - Base(cs, i)]
<1>1. DOMAIN cs = 1..Len(cs) /\ Len(cs) \in Nat
  BY SpanIs
<1>2. PICK sizes : sizes = Spans(cs)
  OBVIOUS
<1>3. sizes \in Seq(Nat) /\ Len(sizes) = Len(cs) /\ \A j : Base(cs, j) = Before(sizes, j)
  BY <1>2, SpanIs, BaseIs
<1>4. k \in 1..Before(sizes, Len(sizes) + 1) /\ k <= Base(cs, Len(cs) + 1)
  <2>1. i + 1 \in 1..(Len(cs) + 1) /\ Len(cs) + 1 \in 1..(Len(cs) + 1) /\ i + 1 <= Len(cs) + 1
    BY <1>1
  <2>2. Base(cs, i + 1) <= Base(cs, Len(cs) + 1) /\ Base(cs, i + 1) \in Nat /\ Base(cs, Len(cs) + 1) \in Nat
    BY <2>1, BaseIs
  <2>3. k \in 1..Base(cs, Len(cs) + 1)
    BY <2>2
  <2> QED  BY <1>3, <2>2, <2>3
<1>5. PICK j \in 1..Len(sizes) :
        \A h \in 1..Len(sizes) : Before(sizes, h) < k /\ k <= Before(sizes, h + 1) => h = j
  BY <1>3, <1>4, Falls
<1>6. \A h \in DOMAIN cs : Base(cs, h) < k /\ k <= Base(cs, h + 1) => h = i
  BY <1>1, <1>3, <1>5
<1>7. (CHOOSE h \in DOMAIN cs : Base(cs, h) < k /\ k <= Base(cs, h + 1)) = i
  BY <1>1, <1>6
<1>8. OnDisk(cs, k) = cs[i].cells[k - Base(cs, i)]
  <2>1. CASE Len(cs) # 1
    BY <1>7, <2>1 DEF OnDisk
  <2>2. CASE Len(cs) = 1
    <3>0. 1 \in 1..Len(cs) /\ i = 1 /\ k - 0 = k
      BY <2>2
    <3>1. Base(cs, 1) = 0 /\ Base(cs, 1 + 1) = Base(cs, 1) + Span(cs, 1) /\ Span(cs, 1) \in 1..Len(cs[1].cells)
      BY <3>0, BaseIs, SpanIs
    <3>2. cs[1] \in Chunk
      BY <3>0 DEF Sound
    <3>3. Len(cs[1].cells) \in Nat
      BY <3>2 DEF Chunk
    <3>4. k <= Len(cs[1].cells)
      BY <3>0, <3>1, <3>3
    <3> QED  BY <2>2, <3>0, <3>1, <3>4 DEF OnDisk
  <2> QED  BY <2>1, <2>2
<1> QED  BY <1>4, <1>8 DEF Seen

\* Behind the last chunk nothing is seen.
LEMMA SeenBehind ==
  ASSUME NEW cs, NEW k \in 1..Total, ~(k <= Base(cs, Len(cs) + 1))
  PROVE  Seen(cs)[k] = Junk
BY DEF Seen

\* Each element up to the end of the last chunk lies in a chunk.
LEMMA Lies ==
  ASSUME NEW cs, Sound(cs), NEW k \in Nat \ {0}, k <= Base(cs, Len(cs) + 1)
  PROVE  \E i \in 1..Len(cs) : /\ Base(cs, i) < k /\ k <= Base(cs, i + 1)
                               /\ Base(cs, i) \in Nat /\ k - Base(cs, i) \in 1..Span(cs, i)
                               /\ Span(cs, i) \in Nat
<1>1. PICK sizes : sizes = Spans(cs)
  OBVIOUS
<1>2. /\ sizes \in Seq(Nat) /\ Len(sizes) = Len(cs) /\ Len(cs) \in Nat
      /\ \A j : Base(cs, j) = Before(sizes, j)
  BY <1>1, SpanIs, BaseIs
<1>3. k \in 1..Before(sizes, Len(sizes) + 1)
  <2>1. Len(sizes) + 1 \in 1..(Len(sizes) + 1)
    BY <1>2
  <2>2. Before(sizes, Len(sizes) + 1) \in Nat /\ k <= Before(sizes, Len(sizes) + 1)
    BY <1>2, <2>1, Sums
  <2> QED  BY <2>2
<1>4. PICK i \in 1..Len(sizes) : Before(sizes, i) < k /\ k <= Before(sizes, i + 1)
  BY <1>2, <1>3, Falls
<1>5. i \in 1..Len(cs) /\ i \in 1..(Len(cs) + 1) /\ Base(cs, i) < k /\ k <= Base(cs, i + 1)
  BY <1>2, <1>4
<1>6. Base(cs, i) \in Nat /\ Base(cs, i + 1) = Base(cs, i) + Span(cs, i) /\ Span(cs, i) \in Nat
  BY <1>5, BaseIs, SpanIs
<1>7. k - Base(cs, i) \in 1..Span(cs, i)
  BY <1>5, <1>6
<1> QED  BY <1>5, <1>6, <1>7

\* Chunks are written, with as many elements each as before: the elements in S change to f.
Changed(ds, cs, S, f) ==
  /\ Sound(cs) /\ Sound(ds) /\ Len(cs) <= Len(ds)
  /\ \A i \in 1..Len(cs) :
       /\ Span(ds, i) = Span(cs, i)
       /\ \A j \in 1..Span(cs, i) :
            ds[i].cells[j] = IF Base(cs, i) + j \in S THEN f[Base(cs, i) + j] ELSE cs[i].cells[j]

\* Then just these elements of the array change.
LEMMA ChangedIsSeen ==
  ASSUME NEW cs, NEW ds, NEW S, NEW f, Changed(ds, cs, S, f), shape \in [type : Types, dims : Shapes]
  PROVE  /\ Base(ds, Len(cs) + 1) = Base(cs, Len(cs) + 1)
         /\ \A k \in 1..Total :
              k <= Base(cs, Len(cs) + 1) => Seen(ds)[k] = IF k \in S THEN f[k] ELSE Seen(cs)[k]
<1>1. Sound(cs) /\ Sound(ds) /\ Len(cs) <= Len(ds) /\ \A i \in 1..Len(cs) : Span(ds, i) = Span(cs, i)
  BY DEF Changed
<1>2. Len(cs) \in Nat /\ Len(ds) \in Nat /\ Total \in Nat
  BY <1>1, SpanIs, TotalIs
<1>3. \A i \in 1..(Len(cs) + 1) : Base(ds, i) = Base(cs, i)
  <2>1. Len(cs) <= Len(cs)
    BY <1>2
  <2> QED  BY <1>1, <1>2, <2>1, SameBases
<1>4. Base(ds, Len(cs) + 1) = Base(cs, Len(cs) + 1)
  <2>1. Len(cs) + 1 \in 1..(Len(cs) + 1)
    BY <1>2
  <2> QED  BY <1>3, <2>1
<1>5. ASSUME NEW k \in 1..Total, k <= Base(cs, Len(cs) + 1)
      PROVE  Seen(ds)[k] = IF k \in S THEN f[k] ELSE Seen(cs)[k]
  <2>1. k \in Nat \ {0}
    BY <1>2
  <2>2. PICK i \in 1..Len(cs) : /\ Base(cs, i) < k /\ k <= Base(cs, i + 1)
                                /\ Base(cs, i) \in Nat /\ k - Base(cs, i) \in 1..Span(cs, i)
    BY <1>1, <1>5, <2>1, Lies
  <2>3. i \in 1..Len(ds) /\ i \in 1..(Len(cs) + 1) /\ i + 1 \in 1..(Len(cs) + 1)
    BY <1>1, <1>2
  <2>4. Base(ds, i) = Base(cs, i) /\ Base(ds, i + 1) = Base(cs, i + 1)
    BY <1>3, <2>3
  <2>5. Seen(cs)[k] = cs[i].cells[k - Base(cs, i)]
    BY <1>1, <2>1, <2>2, SeenIn
  <2>6. Seen(ds)[k] = ds[i].cells[k - Base(cs, i)]
    <3>1. Base(ds, i) < k /\ k <= Base(ds, i + 1)
      BY <2>2, <2>4
    <3>2. Seen(ds)[k] = ds[i].cells[k - Base(ds, i)]
      BY <1>1, <2>1, <2>3, <3>1, SeenIn
    <3> QED  BY <2>4, <3>2
  <2>7. PICK j : j = k - Base(cs, i) /\ Base(cs, i) + j = k /\ j \in 1..Span(cs, i)
    <3>1. Base(cs, i) + (k - Base(cs, i)) = k
      BY <2>1, <2>2
    <3> QED  BY <2>2, <3>1
  <2>8. ds[i].cells[j] = IF Base(cs, i) + j \in S THEN f[Base(cs, i) + j] ELSE cs[i].cells[j]
    BY <2>2, <2>7 DEF Changed
  <2> QED  BY <2>5, <2>6, <2>7, <2>8
<1> QED  BY <1>4, <1>5

-----------------------------------------------------------------------------
(* A block is written.                                                     *)

\* The cells of a chunk that count, when it is written.
LEMMA WrittenCells ==
  ASSUME NEW c \in Chunk, NEW size \in Nat, size <= Len(c.cells), NEW start \in Nat, NEW data \in Seq(Cell),
         NEW w, w = WriteChunk(c, size, start, data)
  PROVE  \A j \in 1..size : w.cells[j] = IF j \in (start + 1)..(start + Len(data)) THEN data[j - start] ELSE c.cells[j]
<1>1. IsWritten(w, c, size, start, data)
  BY Written
<1>2. Len(c.cells) \in Nat
  BY DEF Chunk
<1>3. \A j \in 1..size : j \in 1..Len(c.cells) /\ j # size + 1
  BY <1>2
<1> QED  BY <1>1, <1>3 DEF IsWritten, Put

\* A part of the items of a block.
IsPart(items, a, b) ==
  items \in Seq(Cell) /\ Len(items) = b - a /\ \A k \in 1..(b - a) : items[k] = Item("block", a + k)

\* Such a part is taken from the caller's data.
LEMMA PartOfBlock ==
  ASSUME NEW m \in Nat, NEW a \in Nat, NEW b \in Nat, a <= b, b <= m
  PROVE  IsPart(SubSeq(Items("block", m), a + 1, b), a, b)
<1>1. PICK items : items = Items("block", m)
  OBVIOUS
<1>2. items \in Seq(Cell) /\ Len(items) = m /\ \A k \in 1..m : items[k] = Item("block", k)
  BY <1>1, ItemsAre
<1>3. /\ SubSeq(items, a + 1, b) \in Seq(Cell)
      /\ Len(SubSeq(items, a + 1, b)) = IF a + 1 <= b THEN b - (a + 1) + 1 ELSE 0
      /\ \A k \in 1..(b - (a + 1) + 1) : SubSeq(items, a + 1, b)[k] = items[(a + 1) + k - 1]
  <2>1. a + 1 \in Nat /\ a + 1 >= 1 /\ b <= Len(items)
    BY <1>2
  <2> QED  BY <1>2, <2>1, PartOfItems
<1>4. b - (a + 1) + 1 = b - a /\ (~(a + 1 <= b) => b - a = 0)
      /\ \A k \in 1..(b - a) : (a + 1) + k - 1 = a + k /\ a + k \in 1..m
  OBVIOUS
<1>5. \A k \in 1..(b - a) : SubSeq(items, a + 1, b)[k] = Item("block", a + k)
  BY <1>2, <1>3, <1>4
<1>6. Len(SubSeq(items, a + 1, b)) = b - a
  BY <1>3, <1>4
<1> QED  BY <1>1, <1>3, <1>5, <1>6 DEF IsPart

\* The elements of a block, by their places in the array.
BlockAt(s) == [k \in Nat |-> Item("block", k - s)]

\* What a write of the elements s + 1 .. e does to the elements that are seen.
BlockSeen(ds, s, e) ==
  \A k \in 1..Total :
    /\ k \in (s + 1)..e => Seen(ds)[k] = Item("block", k - s)
    /\ k \notin (s + 1)..e /\ k <= Spanned => Seen(ds)[k] = Seen(chunks)[k]

\* In a table each chunk gets its part of the block.
LEMMA BlockChanges ==
  ASSUME DataInv, NEW s, NEW e, Block(s, e), Len(chunks) > 1
  PROVE  Changed(BlockInTable(s, e), chunks, (s + 1)..e, BlockAt(s))
<1> DEFINE n == Len(chunks)
<1>1. /\ n \in Nat /\ DOMAIN chunks = 1..n /\ Sound(chunks) /\ n # 1
      /\ \A i \in 1..n : chunks[i] \in Chunk /\ chunks[i].size \in 1..Len(chunks[i].cells)
  BY DEF DataInv, Sound
<1>2. /\ \A i \in 1..(n + 1) : Base(chunks, i) \in Nat
      /\ \A i \in 1..n : Span(chunks, i) \in 1..Len(chunks[i].cells) /\ Span(chunks, i) \in Nat
                         /\ Span(chunks, i) = chunks[i].entry
  BY <1>1, BaseIs, SpanIs
<1>3. s \in Nat /\ e \in Nat /\ s <= e
  BY DEF Block
<1>4. PICK K : K = BlockInTable(s, e)
  OBVIOUS
<1>5. Sound(K) /\ Len(K) = n
  BY <1>4, BlockInTableSound
<1>6. ASSUME NEW i \in 1..n
      PROVE  /\ Span(K, i) = Span(chunks, i)
             /\ \A j \in 1..Span(chunks, i) :
                  K[i].cells[j] = IF Base(chunks, i) + j \in (s + 1)..e THEN BlockAt(s)[Base(chunks, i) + j] ELSE chunks[i].cells[j]
  <2>1. PICK b \in Nat, span \in Nat, c \in Chunk : b = Base(chunks, i) /\ span = Span(chunks, i) /\ c = chunks[i]
    <3>1. i \in 1..(n + 1)
      BY <1>1
    <3> QED  BY <1>1, <1>2, <3>1
  <2>2. span \in 1..Len(c.cells) /\ span <= Len(c.cells) /\ c.entry = span
    <3>1. Len(c.cells) \in Nat
      BY DEF Chunk
    <3> QED  BY <1>2, <2>1, <3>1
  <2>3. PICK from \in Nat : from = (IF s > b THEN s - b ELSE 0)
    <3>1. (IF s > b THEN s - b ELSE 0) \in Nat
      BY <1>3
    <3> QED  BY <3>1
  <2>4. PICK m \in Nat : m = AtLeast0(AtMost(span, e - b) - from)
    <3>1. AtLeast0(AtMost(span, e - b) - from) \in Nat
      BY <1>3 DEF AtLeast0, AtMost
    <3> QED  BY <3>1
  <2>5. InChunk(i, s, e) = [from |-> from, n |-> m]
    BY <2>1, <2>3, <2>4 DEF InChunk
  <2>6. PICK done : done = b + from - s
    OBVIOUS
  <2>7. K[i] = IF m = 0 THEN c ELSE WriteChunk(c, span, from, SubSeq(Items("block", e - s), done + 1, done + m))
    BY <1>1, <1>4, <2>1, <2>5, <2>6 DEF BlockInTable
  <2>8. ASSUME NEW j \in 1..span
        PROVE  /\ b + j \in (s + 1)..e <=> m # 0 /\ j \in (from + 1)..(from + m)
               /\ j \in (from + 1)..(from + m) => m # 0 /\ done + (j - from) = (b + j) - s /\ j - from \in 1..m
               /\ b + j \in Nat
    BY <1>3, <2>3, <2>4, <2>6 DEF AtLeast0, AtMost
  <2>9. K[i].entry = span /\ \A j \in 1..span : K[i].cells[j] = IF b + j \in (s + 1)..e THEN Item("block", (b + j) - s) ELSE c.cells[j]
    <3>1. CASE m = 0
      BY <2>2, <2>7, <2>8, <3>1
    <3>2. CASE m # 0
      <4>1. done \in Nat /\ done + m \in Nat /\ done <= done + m /\ done + m <= e - s /\ e - s \in Nat /\ (done + m) - done = m
        BY <1>3, <2>3, <2>4, <2>6, <3>2 DEF AtLeast0, AtMost
      <4>2. PICK data : data = SubSeq(Items("block", e - s), done + 1, done + m)
        OBVIOUS
      <4>3. data \in Seq(Cell) /\ Len(data) = m /\ \A k \in 1..m : data[k] = Item("block", done + k)
        <5>1. PICK l \in Nat, h \in Nat, d \in Nat : l = e - s /\ h = done + m /\ d = done
          BY <4>1
        <5>2. data = SubSeq(Items("block", l), d + 1, h) /\ d <= h /\ h <= l /\ h - d = m
          BY <4>1, <4>2, <5>1
        <5>3. /\ SubSeq(Items("block", l), d + 1, h) \in Seq(Cell)
              /\ Len(SubSeq(Items("block", l), d + 1, h)) = h - d
              /\ \A k \in 1..(h - d) : SubSeq(Items("block", l), d + 1, h)[k] = Item("block", d + k)
          <6>1. d <= h /\ h <= l
            BY <5>2
          <6>2. PICK items : items = SubSeq(Items("block", l), d + 1, h)
            OBVIOUS
          <6>3. IsPart(items, d, h)
            BY <6>1, <6>2, PartOfBlock
          <6> QED  BY <6>2, <6>3 DEF IsPart
        <5>4. data \in Seq(Cell) /\ Len(data) = h - d /\ \A k \in 1..(h - d) : data[k] = Item("block", d + k)
          BY <5>2, <5>3
        <5> QED  BY <5>1, <5>2, <5>4
      <4>4. PICK w : w = WriteChunk(c, span, from, data)
        OBVIOUS
      <4>5. K[i] = w
        BY <2>7, <3>2, <4>2, <4>4
      <4>6. \A j \in 1..span : w.cells[j] = IF j \in (from + 1)..(from + m) THEN data[j - from] ELSE c.cells[j]
        <5>1. span \in 1..Len(c.cells) /\ c \in Chunk /\ data \in Seq(Cell) /\ Len(data) = m
          BY <2>2, <4>3
        <5> QED  BY <4>4, <5>1, WrittenCells
      <4>7. w.entry = span
        <5>1. IsWritten(w, c, span, from, data)
          BY <4>3, <4>4, Written
        <5> QED  BY <2>2, <5>1 DEF IsWritten
      <4>8. ASSUME NEW j \in 1..span, b + j \in (s + 1)..e PROVE w.cells[j] = Item("block", (b + j) - s)
        BY <2>8, <4>3, <4>6, <4>8
      <4>9. ASSUME NEW j \in 1..span, b + j \notin (s + 1)..e PROVE w.cells[j] = c.cells[j]
        BY <2>8, <3>2, <4>6, <4>9
      <4> QED  BY <4>5, <4>7, <4>8, <4>9
    <3> QED  BY <3>1, <3>2
  <2>10. Span(K, i) = span
    BY <1>1, <1>5, <2>9 DEF Span
  <2>11. \A j \in 1..span : BlockAt(s)[b + j] = Item("block", (b + j) - s)
    BY <2>8 DEF BlockAt
  <2> QED  BY <2>1, <2>9, <2>10, <2>11
<1>7. Len(chunks) <= Len(K)
  BY <1>1, <1>5
<1>8. Changed(K, chunks, (s + 1)..e, BlockAt(s))
  <2>1. Len(chunks) = n
    OBVIOUS
  <2> HIDE DEF n
  <2> QED  BY <1>1, <1>5, <1>6, <1>7, <2>1 DEF Changed
<1> QED  BY <1>4, <1>8

\* Chunks that change so are seen so, but for the part of the block that lies behind them.
LEMMA BlockChanged ==
  ASSUME DataInv, NEW s, NEW e, Block(s, e), NEW ds, Changed(ds, chunks, (s + 1)..e, BlockAt(s))
  PROVE  \A k \in 1..Total :
           k <= Spanned => Seen(ds)[k] = IF k \in (s + 1)..e THEN Item("block", k - s) ELSE Seen(chunks)[k]
<1>1. shape \in [type : Types, dims : Shapes] /\ Total \in Nat
  BY TotalIs DEF DataInv
<1>2. \A k \in 1..Total :
        k <= Base(chunks, Len(chunks) + 1) => Seen(ds)[k] = IF k \in (s + 1)..e THEN BlockAt(s)[k] ELSE Seen(chunks)[k]
  <2>1. PICK S, f, cs : S = (s + 1)..e /\ f = BlockAt(s) /\ cs = chunks
    OBVIOUS
  <2>2. Changed(ds, cs, S, f)
    BY <2>1
  <2>3. \A k \in 1..Total : k <= Base(cs, Len(cs) + 1) => Seen(ds)[k] = IF k \in S THEN f[k] ELSE Seen(cs)[k]
    BY <1>1, <2>2, ChangedIsSeen
  <2> QED  BY <2>1, <2>3
<1>3. \A k \in 1..Total : k \in Nat /\ BlockAt(s)[k] = Item("block", k - s)
  BY <1>1 DEF BlockAt
<1> QED  BY <1>2, <1>3 DEF Spanned

\* In a table that is long enough the block is written.
LEMMA BlockInTableSeen ==
  ASSUME DataInv, NEW s, NEW e, Block(s, e), WriteBlockTable(s, e)
  PROVE  BlockSeen(chunks', s, e)
<1>1. Len(chunks) > 1 /\ Total <= Spanned /\ chunks' = BlockInTable(s, e)
  BY DEF WriteBlockTable
<1>2. PICK ds : ds = BlockInTable(s, e)
  OBVIOUS
<1>3. Changed(ds, chunks, (s + 1)..e, BlockAt(s))
  BY <1>1, <1>2, BlockChanges
<1>4. \A k \in 1..Total : k <= Spanned
  <2>1. Total \in Nat /\ Spanned \in Nat
    <3>1. Sound(chunks) /\ Len(chunks) + 1 \in 1..(Len(chunks) + 1)
      BY DEF DataInv, Sound
    <3> QED  BY <3>1, BaseIs, TotalIs DEF Spanned, DataInv
  <2> QED  BY <1>1, <2>1
<1> QED  BY <1>1, <1>2, <1>3, <1>4, BlockChanged DEF BlockSeen

\* What is seen of one chunk, and of two.
LEMMA OneSeen ==
  ASSUME NEW c \in Chunk, c.entry = 0, c.size \in 1..Len(c.cells), NEW k \in 1..Total, k \in Nat, k <= c.size
  PROVE  Seen(<<c>>)[k] = c.cells[k]
<1>1. PICK cs : cs = <<c>>
  OBVIOUS
<1>2. Sound(cs) /\ Len(cs) = 1 /\ cs[1] = c /\ 1 \in 1..Len(cs)
  BY <1>1, OneSound
<1>3. Base(cs, 1) = 0 /\ Base(cs, 1 + 1) = Base(cs, 1) + Span(cs, 1) /\ Span(cs, 1) = c.size
  BY <1>2, BaseIs DEF Span
<1>4. c.size \in Nat
  BY DEF Chunk
<1>5. Base(cs, 1) < k /\ k <= Base(cs, 1 + 1) /\ k - Base(cs, 1) = k
  BY <1>3, <1>4
<1>6. Seen(cs)[k] = cs[1].cells[k - Base(cs, 1)]
  BY <1>2, <1>5, SeenIn
<1> QED  BY <1>1, <1>2, <1>5, <1>6

\* So with two chunks: the second begins where the first ends.
LEMMA TwoSeen ==
  ASSUME NEW c \in Chunk, c.entry \in 1..Len(c.cells), c.size \in 1..Len(c.cells),
         NEW d \in Chunk, d.entry \in 1..Len(d.cells), d.size \in 1..Len(d.cells), NEW k \in 1..Total, k \in Nat
  PROVE  /\ k <= c.entry => Seen(<<c, d>>)[k] = c.cells[k]
         /\ k > c.entry /\ k <= c.entry + d.entry => Seen(<<c, d>>)[k] = d.cells[k - c.entry]
<1>1. PICK cs : cs = <<c, d>>
  OBVIOUS
<1>2. Sound(cs) /\ Len(cs) = 2 /\ cs[1] = c /\ cs[2] = d /\ 1 \in 1..Len(cs) /\ 2 \in 1..Len(cs)
  BY <1>1, TwoSound
<1>3. Span(cs, 1) = c.entry /\ Span(cs, 2) = d.entry /\ c.entry \in Nat /\ d.entry \in Nat
  BY <1>2 DEF Span, Chunk
<1>4. Base(cs, 1) = 0 /\ Base(cs, 1 + 1) = Base(cs, 1) + Span(cs, 1) /\ Base(cs, 2 + 1) = Base(cs, 2) + Span(cs, 2)
  BY <1>2, BaseIs
<1>5. 1 + 1 = 2 /\ 2 + 1 = 3
  OBVIOUS
<1>6. Base(cs, 2) = c.entry /\ Base(cs, 2 + 1) = c.entry + d.entry /\ Base(cs, 1 + 1) = c.entry
  BY <1>3, <1>4, <1>5
<1>7. ASSUME k <= c.entry PROVE Seen(cs)[k] = c.cells[k]
  <2>1. Base(cs, 1) < k /\ k <= Base(cs, 1 + 1) /\ k - Base(cs, 1) = k
    BY <1>4, <1>6, <1>7
  <2>2. Seen(cs)[k] = cs[1].cells[k - Base(cs, 1)]
    BY <1>2, <2>1, SeenIn
  <2> QED  BY <1>2, <2>1, <2>2
<1>8. ASSUME k > c.entry, k <= c.entry + d.entry PROVE Seen(cs)[k] = d.cells[k - c.entry]
  <2>1. Base(cs, 2) < k /\ k <= Base(cs, 2 + 1)
    BY <1>3, <1>6, <1>8
  <2>2. Seen(cs)[k] = cs[2].cells[k - Base(cs, 2)]
    BY <1>2, <2>1, SeenIn
  <2> QED  BY <1>2, <1>6, <2>2
<1> QED  BY <1>1, <1>7, <1>8

\* The first write to a node.
LEMMA BlockFirstSeen ==
  ASSUME DataInv, NEW s, NEW e, Block(s, e), WriteBlockFirst(s, e)
  PROVE  BlockSeen(chunks', s, e)
<1>1. PICK T \in Nat \ {0} : T = Total
  BY DEF Block
<1>2. s \in Nat /\ e \in Nat /\ s <= e /\ e - s \in Nat /\ e <= T
  BY <1>1 DEF Block
<1>3. PICK m \in Nat : m = e - s
  BY <1>2
<1>3a. PICK data : data = Items("block", m)
  OBVIOUS
<1>4. data \in Seq(Cell) /\ Len(data) = m /\ \A k \in 1..m : data[k] = Item("block", k)
  BY <1>3a, ItemsAre
<1>5. PICK f \in Chunk : f = Fresh(T) /\ Len(f.cells) = T /\ f.entry = 0
  BY FreshIs
<1>6. PICK w : w = WriteChunk(f, T, s, data)
  OBVIOUS
<1>7. w \in Chunk /\ w.entry = 0 /\ w.size = T /\ Len(w.cells) = T
  <2>1. IsWritten(w, f, T, s, data)
    BY <1>2, <1>4, <1>6, Written
  <2> QED  BY <1>5, <2>1 DEF IsWritten
<1>8. \A j \in 1..T : w.cells[j] = IF j \in (s + 1)..(s + Len(data)) THEN data[j - s] ELSE f.cells[j]
  <2>1. T <= Len(f.cells) /\ T \in Nat
    BY <1>5
  <2> QED  BY <1>2, <1>4, <1>6, <2>1, WrittenCells
<1>9. chunks' = <<w>> /\ chunks = <<>>
  BY <1>1, <1>3, <1>3a, <1>5, <1>6 DEF WriteBlockFirst
<1>10. Spanned = 0
  BY <1>9, NoChunk
<1>11. ASSUME NEW k \in 1..Total, k \in (s + 1)..e PROVE Seen(chunks')[k] = Item("block", k - s)
  <2>1. k \in Nat /\ k \in 1..T /\ k <= w.size /\ w.size \in 1..Len(w.cells) /\ k - s \in 1..m /\ k \in (s + 1)..(s + Len(data))
    BY <1>1, <1>2, <1>3, <1>4, <1>7, <1>11
  <2>2. Seen(<<w>>)[k] = w.cells[k]
    BY <1>7, <2>1, OneSeen
  <2> QED  BY <1>4, <1>8, <1>9, <2>1, <2>2
<1>12. \A k \in 1..Total : ~(k <= Spanned)
  BY <1>10
<1> QED  BY <1>11, <1>12 DEF BlockSeen

\* A block in the single chunk.
LEMMA BlockInPlaceSeen ==
  ASSUME DataInv, NEW s, NEW e, Block(s, e), WriteBlockInPlace(s, e)
  PROVE  BlockSeen(chunks', s, e)
<1>1. Len(chunks) = 1 /\ Total <= chunks[1].size
  BY DEF WriteBlockInPlace
<1>2. PICK c \in Chunk : c = chunks[1] /\ c.entry = 0 /\ c.size \in 1..Len(c.cells) /\ c.size \in Nat
  BY <1>1, SingleIs
<1>3. s \in Nat /\ e \in Nat /\ s <= e /\ e - s \in Nat /\ e <= Total /\ Total \in Nat
  BY DEF Block
<1>4. PICK m \in Nat : m = e - s
  BY <1>3
<1>4a. PICK data : data = Items("block", m)
  OBVIOUS
<1>5. data \in Seq(Cell) /\ Len(data) = m /\ \A k \in 1..m : data[k] = Item("block", k)
  BY <1>4a, ItemsAre
<1>6a. PICK z \in Nat : z = c.size
  BY <1>2
<1>6. PICK w : w = WriteChunk(c, z, s, data)
  OBVIOUS
<1>7. w \in Chunk /\ w.entry = 0 /\ w.size = z /\ Len(w.cells) = Len(c.cells)
  <2>1. IsWritten(w, c, z, s, data)
    BY <1>3, <1>5, <1>6, Written
  <2> QED  BY <1>2, <1>6a, <2>1 DEF IsWritten
<1>8. \A j \in 1..z : w.cells[j] = IF j \in (s + 1)..(s + Len(data)) THEN data[j - s] ELSE c.cells[j]
  <2>1. z <= Len(c.cells)
    <3>1. Len(c.cells) \in Nat
      BY DEF Chunk
    <3> QED  BY <1>2, <1>6a, <3>1
  <2> QED  BY <1>3, <1>5, <1>6, <2>1, WrittenCells
<1>9. chunks' = <<w>> /\ chunks = <<c>>
  <2>1. chunks \in Seq(Chunk)
    BY DEF DataInv, Sound
  <2> QED  BY <1>1, <1>2, <1>4, <1>4a, <1>6a, <1>6, <2>1 DEF WriteBlockInPlace
<1>10. ASSUME NEW k \in 1..Total
       PROVE  /\ k \in (s + 1)..e => Seen(chunks')[k] = Item("block", k - s)
              /\ k \notin (s + 1)..e => Seen(chunks')[k] = Seen(chunks)[k]
  <2>1. /\ k \in Nat /\ k \in 1..z /\ k <= w.size /\ w.size \in 1..Len(w.cells) /\ k <= c.size
        /\ k \in (s + 1)..e <=> k \in (s + 1)..(s + Len(data))
        /\ k \in (s + 1)..e => k - s \in 1..m
    BY <1>1, <1>2, <1>3, <1>4, <1>5, <1>6a, <1>7
  <2>2. Seen(<<w>>)[k] = w.cells[k]
    BY <1>7, <2>1, OneSeen
  <2>3. Seen(<<c>>)[k] = c.cells[k]
    BY <1>2, <2>1, OneSeen
  <2> QED  BY <1>5, <1>8, <1>9, <2>1, <2>2, <2>3
<1> QED  BY <1>10 DEF BlockSeen

\* What is seen of the elements up to the end of the chunks there were is the block, and what
\* was there before.
BlockUpTo(ds, s, e) ==
  \A k \in 1..Total :
    k <= Spanned => Seen(ds)[k] = IF k \in (s + 1)..e THEN Item("block", k - s) ELSE Seen(chunks)[k]

\* A block that makes a second chunk necessary: written right when it begins in the first.
LEMMA BlockSecondSeen ==
  ASSUME DataInv, NEW s, NEW e, Block(s, e), WriteBlockSecond(s, e)
  PROVE  BlockUpTo(chunks', s, e) /\ (FaultyBlock(s, e) \/ BlockSeen(chunks', s, e))
<1>1. Len(chunks) = 1 /\ Total > chunks[1].size
  BY DEF WriteBlockSecond
<1>2. PICK c \in Chunk : c = chunks[1] /\ c.entry = 0 /\ c.size \in 1..Len(c.cells) /\ Len(c.cells) \in Nat
  BY <1>1, SingleIs DEF Chunk
<1>3. PICK n \in Nat \ {0} : n = c.size /\ n = Spanned
  BY <1>1, <1>2, SingleIs
<1>4. PICK T \in Nat : T = Total
  BY DEF Block
<1>5. PICK m \in Nat \ {0} : m = Total - n
  <2>1. T - n \in Nat \ {0}
    BY <1>1, <1>2, <1>3, <1>4
  <2> QED  BY <1>4, <2>1
<1>6. s \in Nat /\ e \in Nat /\ s <= e /\ e - s \in Nat /\ e <= T /\ T = n + m
  BY <1>4, <1>5 DEF Block
<1>7. PICK inFirst : inFirst = AtMost(e - s, n - s)
  OBVIOUS
<1>8. /\ s <= n => inFirst \in Nat /\ inFirst <= e - s
      /\ s <= n /\ inFirst # e - s => inFirst = n - s /\ n < e
      /\ s <= n /\ inFirst = e - s => e <= n
      /\ s <= n => s + inFirst = AtMost(e, n)
  BY <1>6, <1>7 DEF AtMost
<1>9. PICK first : first = IF s <= n THEN WriteChunk(c, n, s, Items("block", inFirst)) ELSE c
  OBVIOUS
<1>10. /\ first \in Chunk /\ first.size = n /\ Len(first.cells) = Len(c.cells)
       /\ \A j \in 1..n : first.cells[j] = IF j \in (s + 1)..e THEN Item("block", j - s) ELSE c.cells[j]
  <2>1. CASE s <= n
    <3>0. PICK i \in Nat : i = inFirst
      BY <1>8, <2>1
    <3>1. PICK data : data = Items("block", i)
      OBVIOUS
    <3>2. data \in Seq(Cell) /\ Len(data) = i /\ \A k \in 1..i : data[k] = Item("block", k)
      BY <3>1, ItemsAre
    <3>3. IsWritten(first, c, n, s, data)
      BY <1>6, <1>9, <2>1, <3>0, <3>1, <3>2, Written
    <3>4. \A j \in 1..n : first.cells[j] = IF j \in (s + 1)..(s + Len(data)) THEN data[j - s] ELSE c.cells[j]
      <4>1. n \in Nat /\ n <= Len(c.cells)
        BY <1>2, <1>3
      <4> QED  BY <1>6, <1>9, <2>1, <3>0, <3>1, <3>2, <4>1, WrittenCells
    <3>5. \A j \in 1..n : /\ j \in (s + 1)..e <=> j \in (s + 1)..(s + i)
                          /\ j \in (s + 1)..(s + i) => j - s \in 1..i
      BY <1>6, <1>8, <2>1, <3>0 DEF AtMost
    <3>6. first \in Chunk /\ first.size = n /\ Len(first.cells) = Len(c.cells)
      BY <3>3 DEF IsWritten
    <3> QED  BY <3>2, <3>4, <3>5, <3>6
  <2>2. CASE ~(s <= n)
    <3>1. \A j \in 1..n : j \notin (s + 1)..e
      BY <1>6, <2>2
    <3> QED  BY <1>3, <1>9, <2>2, <3>1
  <2> QED  BY <2>1, <2>2
<1>11. PICK rest : rest = SubSeq(Items("block", e - s), IF s <= n THEN inFirst + 1 ELSE 1, e - s)
  OBVIOUS
<1>12. PICK data \in IF s <= n THEN {rest} ELSE {rest, [k \in DOMAIN rest |-> Junk]} :
         chunks' = <<Entered(first),
                     Entered(IF s <= n /\ inFirst = e - s
                             THEN WriteChunk(Fresh(m), m, 0, Zeros(m))
                             ELSE WriteChunk(Fresh(m), m, AtLeast0(s - n), data))>>
  BY <1>2, <1>3, <1>5, <1>7, <1>9, <1>11 DEF WriteBlockSecond
<1>13. /\ rest \in Seq(Cell) /\ (s <= n => Len(rest) = (e - s) - inFirst)
       /\ s <= n => \A k \in 1..((e - s) - inFirst) : rest[k] = Item("block", inFirst + k)
  <2>1. PICK a \in Nat, b \in Nat : a = (IF s <= n THEN inFirst ELSE 0) /\ b = e - s
    BY <1>6, <1>8
  <2>2. rest = SubSeq(Items("block", b), a + 1, b)
    <3>1. (IF s <= n THEN inFirst + 1 ELSE 1) = a + 1
      BY <2>1
    <3> QED  BY <1>11, <2>1, <3>1
  <2>3. a <= b /\ b <= b
    BY <1>6, <1>8, <2>1
  <2>4. rest \in Seq(Cell) /\ Len(rest) = b - a /\ \A k \in 1..(b - a) : rest[k] = Item("block", a + k)
    BY <2>2, <2>3, PartOfBlock DEF IsPart
  <2> QED  BY <2>1, <2>4
<1>14. data \in Seq(Cell)
  <2>1. [k \in DOMAIN rest |-> Junk] \in Seq(Cell)
    <3>1. DOMAIN rest = 1..Len(rest) /\ Len(rest) \in Nat /\ Junk \in Cell
      BY <1>13 DEF Junk, Cell
    <3>2. PICK junk : junk = [k \in DOMAIN rest |-> Junk]
      OBVIOUS
    <3>3. junk = [k \in 1..Len(rest) |-> junk[k]] /\ \A k \in 1..Len(rest) : junk[k] \in Cell
      BY <3>1, <3>2
    <3>4. junk \in Seq(Cell)
      BY <3>1, <3>3, IsSequence
    <3> QED  BY <3>2, <3>4
  <2> QED  BY <1>12, <1>13, <2>1
<1>15. PICK z, w : z = WriteChunk(Fresh(m), m, 0, Zeros(m)) /\ w = WriteChunk(Fresh(m), m, AtLeast0(s - n), data)
  OBVIOUS
<1>16. z \in Chunk /\ z.size = m /\ Len(z.cells) = m
  <2>1. PICK zeros : zeros = Zeros(m)
    OBVIOUS
  <2>2. zeros \in Seq(Cell) /\ 0 \in Nat
    BY <2>1, ItemsAre
  <2> QED  BY <1>15, <2>1, <2>2, FreshWritten
<1>17. PICK at \in Nat : at = AtLeast0(s - n)
  <2>1. AtLeast0(s - n) \in Nat
    BY <1>6 DEF AtLeast0
  <2> QED  BY <2>1
<1>18. w \in Chunk /\ w.size = m /\ Len(w.cells) = m
  BY <1>14, <1>15, <1>17, FreshWritten
<1>19. PICK v : v = IF s <= n /\ inFirst = e - s THEN z ELSE w
  OBVIOUS
<1>20. v \in Chunk /\ v.size = m /\ Len(v.cells) = m
  BY <1>16, <1>18, <1>19
<1>21. PICK x, y : x = Entered(first) /\ y = Entered(v)
  OBVIOUS
<1>22. chunks' = <<x, y>> /\ chunks = <<c>>
  <2>1. chunks \in Seq(Chunk)
    BY DEF DataInv, Sound
  <2> QED  BY <1>1, <1>2, <1>12, <1>15, <1>19, <1>21, <2>1
<1>23. /\ x \in Chunk /\ x.size = n /\ x.entry = n /\ x.cells = first.cells
       /\ y \in Chunk /\ y.size = m /\ y.entry = m /\ y.cells = v.cells
  BY <1>10, <1>20, <1>21, EntryIs
<1>24. /\ x.entry \in 1..Len(x.cells) /\ x.size \in 1..Len(x.cells)
       /\ y.entry \in 1..Len(y.cells) /\ y.size \in 1..Len(y.cells)
  BY <1>2, <1>3, <1>10, <1>20, <1>23
<1>25. ASSUME NEW k \in 1..Total
       PROVE  /\ k \in Nat /\ k <= n + m
              /\ k <= n => Seen(<<x, y>>)[k] = first.cells[k]
              /\ k > n => Seen(<<x, y>>)[k] = v.cells[k - n]
              /\ k <= n => Seen(chunks)[k] = c.cells[k]
  <2>1. k \in Nat /\ k <= n + m
    BY <1>4, <1>6
  <2>2. /\ k <= x.entry => Seen(<<x, y>>)[k] = x.cells[k]
        /\ k > x.entry /\ k <= x.entry + y.entry => Seen(<<x, y>>)[k] = y.cells[k - x.entry]
    BY <1>23, <1>24, <2>1, TwoSeen
  <2>3. k <= c.size => Seen(<<c>>)[k] = c.cells[k]
    BY <1>2, <2>1, OneSeen
  <2> QED  BY <1>3, <1>22, <1>23, <2>1, <2>2, <2>3
<1>26. BlockUpTo(chunks', s, e)
  <2>1. ASSUME NEW k \in 1..Total, k <= Spanned
        PROVE  Seen(chunks')[k] = IF k \in (s + 1)..e THEN Item("block", k - s) ELSE Seen(chunks)[k]
    <3>1. k <= n /\ k \in 1..n
      BY <1>3, <1>25, <2>1
    <3> QED  BY <1>10, <1>22, <1>25, <3>1
  <2> QED  BY <2>1 DEF BlockUpTo
<1>27. CASE s <= n
  <2>1. ASSUME NEW k \in 1..Total, k \in (s + 1)..e, ~(k <= Spanned) PROVE Seen(chunks')[k] = Item("block", k - s)
    <3>1. k \in Nat /\ k > n /\ k <= e /\ n < e
      BY <1>3, <1>6, <1>25, <2>1
    <3>2. inFirst = n - s /\ v = w /\ data = rest /\ at = 0 /\ inFirst \in Nat
      <4>1. inFirst # e - s
        BY <1>6, <1>8, <1>27, <3>1
      <4>2. at = 0
        BY <1>6, <1>17, <1>27 DEF AtLeast0
      <4> QED  BY <1>8, <1>12, <1>19, <1>27, <4>1, <4>2
    <3>3. PICK f \in Chunk : f = Fresh(m) /\ Len(f.cells) = m
      BY FreshIs
    <3>4. \A j \in 1..m : w.cells[j] = IF j \in (at + 1)..(at + Len(data)) THEN data[j - at] ELSE f.cells[j]
      <4>1. m \in Nat /\ m <= Len(f.cells)
        BY <3>3
      <4> QED  BY <1>14, <1>15, <1>17, <3>3, <4>1, WrittenCells
    <3>5. PICK j \in Nat : j = k - n
      BY <3>1
    <3>6. j \in 1..m /\ j \in (at + 1)..(at + Len(data)) /\ j - at = j /\ j \in 1..((e - s) - inFirst) /\ inFirst + j = k - s
      <4>1. j \in 1..m /\ j - at = j
        BY <1>25, <3>1, <3>2, <3>5
      <4>2. (e - s) - inFirst = e - n
        BY <1>6, <3>2
      <4>3. j \in 1..(e - n) /\ inFirst + j = k - s
        BY <1>6, <3>1, <3>2, <3>5
      <4>4. Len(data) = e - n
        BY <1>13, <1>27, <3>2, <4>2
      <4>5. at + 1 = 1 /\ at + (e - n) = e - n
        BY <1>6, <3>2
      <4> QED  BY <4>1, <4>2, <4>3, <4>4, <4>5
    <3>7. w.cells[j] = Item("block", inFirst + j)
      BY <1>13, <1>27, <3>2, <3>4, <3>6
    <3> QED  BY <1>22, <1>25, <3>1, <3>2, <3>5, <3>6, <3>7
  <2>2. BlockSeen(chunks', s, e)
    BY <1>26, <2>1 DEF BlockSeen, BlockUpTo
  <2> QED  BY <1>26, <2>2
<1>28. CASE ~(s <= n) /\ s < e
  <2>1. chunks # <<>> /\ Total > Spanned /\ s > Spanned
    BY <1>3, <1>4, <1>6, <1>22, <1>28
  <2> QED  BY <1>1, <1>26, <1>28, <2>1 DEF FaultyBlock
<1>29. CASE s = e
  <2>1. \A k \in 1..Total : k \notin (s + 1)..e
    BY <1>6, <1>29
  <2> QED  BY <1>26, <2>1 DEF BlockSeen, BlockUpTo
<1> QED  BY <1>6, <1>27, <1>28, <1>29

\* A table that gets another chunk: what is in front of it stays as it was changed.
LEMMA ChangedAndGrown ==
  ASSUME NEW cs, NEW ds, NEW S, NEW f, Changed(ds, cs, S, f), Len(cs) > 1, NEW t, NEW a, Grown(t, ds, a)
  PROVE  Changed(t, cs, S, f)
<1>1. Sound(cs) /\ Sound(t) /\ Sound(ds) /\ Len(cs) <= Len(ds)
  BY DEF Changed, Grown
<1>2. Len(cs) \in Nat /\ Len(ds) \in Nat /\ Len(t) = Len(ds) + 1
  BY <1>1, SpanIs DEF Grown
<1>3. Len(cs) <= Len(t) /\ Len(t) # 1 /\ Len(ds) # 1
  <2>1. PICK l \in Nat, d \in Nat : l = Len(cs) /\ d = Len(ds)
    BY <1>2
  <2>2. l > 1 /\ l <= d /\ Len(t) = d + 1
    BY <1>1, <1>2, <2>1
  <2>3. l <= d + 1 /\ d + 1 # 1 /\ d # 1
    BY <2>2
  <2> QED  BY <2>1, <2>2, <2>3
<1>4. ASSUME NEW i \in 1..Len(cs) PROVE t[i] = ds[i] /\ Span(t, i) = Span(ds, i)
  <2>1. i \in 1..Len(ds)
    BY <1>1, <1>2
  <2>2. t[i] = ds[i]
    BY <2>1 DEF Grown
  <2> QED  BY <1>3, <2>2 DEF Span
<1>5. ASSUME NEW i \in 1..Len(cs)
      PROVE  /\ Span(t, i) = Span(cs, i)
             /\ \A j \in 1..Span(cs, i) :
                  t[i].cells[j] = IF Base(cs, i) + j \in S THEN f[Base(cs, i) + j] ELSE cs[i].cells[j]
  BY <1>4 DEF Changed
<1> QED  BY <1>1, <1>3, <1>5 DEF Changed

\* And what lies in the chunk that is added.
LEMMA GrownSeen ==
  ASSUME NEW cs, NEW ds, NEW S, NEW f, Changed(ds, cs, S, f), Len(cs) > 1, Len(ds) = Len(cs),
         shape \in [type : Types, dims : Shapes],
         NEW t, NEW a, Grown(t, ds, a),
         NEW k \in 1..Total, k \in Nat, k > Base(cs, Len(cs) + 1), k <= Base(cs, Len(cs) + 1) + a.entry
  PROVE  Seen(t)[k] = a.cells[k - Base(cs, Len(cs) + 1)]
<1>1. Changed(t, cs, S, f)
  BY ChangedAndGrown
<1>2. PICK n \in Nat : n = Len(cs)
  BY SpanIs DEF Changed
<1>3. Base(t, n + 1) = Base(cs, n + 1)
  BY <1>1, <1>2, ChangedIsSeen
<1>4. Sound(t) /\ Len(t) = n + 1 /\ t[n + 1] = a /\ n + 1 \in 1..Len(t) /\ Len(t) # 1
  BY <1>2 DEF Grown
<1>5. Base(t, n + 1 + 1) = Base(t, n + 1) + Span(t, n + 1)
  BY <1>4, BaseIs
<1>6. Span(t, n + 1) = a.entry
  BY <1>4 DEF Span
<1>7. Base(t, n + 1) < k /\ k <= Base(t, n + 1 + 1)
  <2>1. Base(t, n + 1) \in Nat
    <3>1. n + 1 \in 1..(Len(t) + 1)
      BY <1>2, <1>4
    <3> QED  BY <1>4, <3>1, BaseIs
  <2> QED  BY <1>2, <1>3, <1>5, <1>6, <2>1
<1>8. Seen(t)[k] = t[n + 1].cells[k - Base(t, n + 1)]
  BY <1>4, <1>7, SeenIn
<1> QED  BY <1>2, <1>3, <1>4, <1>8

\* A block in a table that has to grow: written right when its place in the new chunk is.
LEMMA BlockGrowSeen ==
  ASSUME DataInv, NEW s, NEW e, Block(s, e), WriteBlockGrow(s, e)
  PROVE  BlockUpTo(chunks', s, e) /\ (FaultyBlock(s, e) \/ BlockSeen(chunks', s, e))
<1>1. Len(chunks) > 1 /\ Total - Spanned > 0
  BY DEF WriteBlockGrow
<1>2. PICK T \in Nat, p \in Nat, n \in Nat \ {0} : T = Total /\ p = Spanned /\ n = T - p
  <2>1. Total \in Nat /\ Spanned \in Nat
    <3>1. Sound(chunks) /\ Len(chunks) + 1 \in 1..(Len(chunks) + 1)
      BY DEF DataInv, Sound
    <3> QED  BY <3>1, BaseIs DEF Spanned, Block
  <2>2. Total - Spanned \in Nat \ {0}
    BY <1>1, <2>1
  <2> QED  BY <2>1, <2>2
<1>3. s \in Nat /\ e \in Nat /\ s <= e /\ e <= T /\ T = p + n /\ e - s \in Nat
  BY <1>2 DEF Block
<1>4. PICK done \in Nat, start \in Nat : done = AtLeast0(AtMost(e - s, p - s)) /\ start = AtLeast0(s - n)
  <2>1. AtLeast0(AtMost(e - s, p - s)) \in Nat /\ AtLeast0(s - n) \in Nat
    BY <1>3 DEF AtLeast0, AtMost
  <2> QED  BY <2>1
<1>5. PICK K : K = BlockInTable(s, e)
  OBVIOUS
<1>6. Sound(K) /\ Len(K) = Len(chunks) /\ Changed(K, chunks, (s + 1)..e, BlockAt(s))
  BY <1>1, <1>5, BlockInTableSound, BlockChanges
<1>7. PICK zeros, rest : zeros = Zeros(n) /\ rest = SubSeq(Items("block", e - s), done + 1, e - s)
  OBVIOUS
<1>8. /\ zeros \in Seq(Cell) /\ rest \in Seq(Cell) /\ Len(rest) = (e - s) - done
      /\ \A k \in 1..((e - s) - done) : rest[k] = Item("block", done + k)
  <2>1. PICK l \in Nat : l = e - s
    BY <1>3
  <2>2. done <= l
    BY <1>3, <1>4, <2>1 DEF AtLeast0, AtMost
  <2>3. rest = SubSeq(Items("block", l), done + 1, l) /\ l <= l
    BY <1>7, <2>1
  <2>4. rest \in Seq(Cell) /\ Len(rest) = l - done /\ \A k \in 1..(l - done) : rest[k] = Item("block", done + k)
    <3>1. \A x \in Nat : x <= x
      OBVIOUS
    <3>2. /\ SubSeq(Items("block", l), done + 1, l) \in Seq(Cell)
          /\ Len(SubSeq(Items("block", l), done + 1, l)) = l - done
          /\ \A k \in 1..(l - done) : SubSeq(Items("block", l), done + 1, l)[k] = Item("block", done + k)
      BY <2>2, <3>1, PartOfBlock DEF IsPart
    <3> QED  BY <2>3, <3>2
  <2>5. zeros \in Seq(Cell)
    BY <1>7, ItemsAre
  <2> QED  BY <2>1, <2>4, <2>5
<1>9. PICK a, b : a = Added(n, 0, zeros) /\ b = Added(n, start, rest)
  OBVIOUS
<1>10. chunks' = IF done = e - s THEN K \o <<a>> ELSE IF start + (e - s - done) > n THEN K ELSE K \o <<b>>
  BY <1>2, <1>4, <1>5, <1>7, <1>9 DEF WriteBlockGrow
<1>11. /\ a \in Chunk /\ a.size = n /\ a.entry = n /\ Len(a.cells) = n
       /\ b \in Chunk /\ b.size = n /\ b.entry = n /\ Len(b.cells) = n
       /\ b.cells = WriteChunk(Fresh(n), n, start, rest).cells
  <2>1. 0 \in Nat /\ n \in Nat
    OBVIOUS
  <2>2. a \in Chunk /\ a.size = n /\ a.entry = n /\ Len(a.cells) = n
    BY <1>8, <1>9, <2>1, AddedIs
  <2>3. /\ b \in Chunk /\ b.size = n /\ b.entry = n /\ Len(b.cells) = n
        /\ b.cells = WriteChunk(Fresh(n), n, start, rest).cells
    BY <1>8, <1>9, <2>1, AddedIs
  <2> QED  BY <2>2, <2>3
<1>12. ASSUME NEW x \in {a, b}, NEW t, t = K \o <<x>> PROVE Grown(t, K, x)
  <2>1. x \in Chunk /\ x.entry \in 1..Len(x.cells) /\ x.size \in 1..Len(x.cells)
    BY <1>11
  <2>2. Len(K) > 1
    BY <1>1, <1>6
  <2> QED  BY <1>6, <1>12, <2>1, <2>2, GrownSound
<1>13. Changed(chunks', chunks, (s + 1)..e, BlockAt(s))
  <2>1. ASSUME NEW x \in {a, b}, NEW t, t = K \o <<x>> PROVE Changed(t, chunks, (s + 1)..e, BlockAt(s))
    BY <1>1, <1>6, <1>12, <2>1, ChangedAndGrown
  <2>2. PICK t, u : t = K \o <<a>> /\ u = K \o <<b>>
    OBVIOUS
  <2>3. Changed(t, chunks, (s + 1)..e, BlockAt(s)) /\ Changed(u, chunks, (s + 1)..e, BlockAt(s))
    BY <2>1, <2>2
  <2> QED  BY <1>6, <1>10, <2>2, <2>3
<1>14. BlockUpTo(chunks', s, e)
  <2>1. PICK ds : ds = chunks'
    OBVIOUS
  <2>2. Changed(ds, chunks, (s + 1)..e, BlockAt(s))
    BY <1>13, <2>1
  <2>3. \A k \in 1..Total :
          k <= Spanned => Seen(ds)[k] = IF k \in (s + 1)..e THEN Item("block", k - s) ELSE Seen(chunks)[k]
    BY <2>2, BlockChanged
  <2> QED  BY <2>1, <2>3 DEF BlockUpTo
<1>15. CASE done = e - s
  <2>1. ASSUME NEW k \in 1..Total, k \in (s + 1)..e PROVE k <= Spanned
    <3>1. s < e /\ k <= e
      BY <1>3, <2>1
    <3>2. e <= p
      BY <1>3, <1>4, <1>15, <3>1 DEF AtLeast0, AtMost
    <3> QED  BY <1>2, <1>3, <3>1, <3>2
  <2>2. BlockSeen(chunks', s, e)
    BY <1>14, <2>1 DEF BlockSeen, BlockUpTo
  <2> QED  BY <1>14, <2>2
<1>16. CASE done # e - s /\ start # AtLeast0(s - p)
  <2>1. s < e
    BY <1>3, <1>4, <1>16 DEF AtLeast0, AtMost
  <2>2. chunks # <<>> /\ Len(chunks) # 1
    <3>1. Len(chunks) \in Nat
      BY DEF DataInv, Sound
    <3>2. \A l \in Nat : l > 1 => l # 1 /\ l # 0
      OBVIOUS
    <3>3. Len(chunks) # 1 /\ Len(chunks) # 0
      BY <1>1, <3>1, <3>2
    <3> QED  BY <3>3
  <2>3. Total > Spanned /\ AtLeast0(s - (Total - Spanned)) # AtLeast0(s - Spanned)
    BY <1>2, <1>3, <1>4, <1>16
  <2> QED  BY <1>14, <2>1, <2>2, <2>3 DEF FaultyBlock
<1>17. CASE done # e - s /\ start = AtLeast0(s - p)
  <2>1. /\ done = (IF s <= p THEN p - s ELSE 0) /\ start = (IF s <= p THEN 0 ELSE s - p)
        /\ (e - s) - done = e - (p + start) /\ start + ((e - s) - done) <= n
    BY <1>3, <1>4, <1>17 DEF AtLeast0, AtMost
  <2>2. chunks' = K \o <<b>>
    <3>1. ~(start + (e - s - done) > n)
      BY <1>3, <2>1
    <3> QED  BY <1>10, <1>17, <3>1
  <2>3. PICK t : t = K \o <<b>>
    OBVIOUS
  <2>4. Grown(t, K, b)
    BY <1>12, <2>3
  <2>5. PICK f \in Chunk : f = Fresh(n) /\ Len(f.cells) = n
    BY FreshIs
  <2>6. \A j \in 1..n : b.cells[j] = IF j \in (start + 1)..(start + Len(rest)) THEN rest[j - start] ELSE f.cells[j]
    <3>1. PICK w : w = WriteChunk(f, n, start, rest)
      OBVIOUS
    <3>2. n \in Nat /\ n <= Len(f.cells)
      BY <2>5
    <3>3. \A j \in 1..n : w.cells[j] = IF j \in (start + 1)..(start + Len(rest)) THEN rest[j - start] ELSE f.cells[j]
      <4>1. rest \in Seq(Cell)
        BY <1>8
      <4> QED  BY <3>1, <3>2, <4>1, WrittenCells
    <3> QED  BY <1>11, <2>5, <3>1, <3>3
  <2>7. ASSUME NEW k \in 1..Total, k \in (s + 1)..e, ~(k <= Spanned) PROVE Seen(chunks')[k] = Item("block", k - s)
    <3>1. k \in Nat /\ k > p /\ k <= p + n /\ k <= e /\ k > s
      BY <1>2, <1>3, <2>7
    <3>2. Base(chunks, Len(chunks) + 1) = p
      BY <1>2 DEF Spanned
    <3>3. shape \in [type : Types, dims : Shapes]
      BY DEF DataInv
    <3>4. Seen(t)[k] = b.cells[k - p]
      <4>1. k > Base(chunks, Len(chunks) + 1) /\ k <= Base(chunks, Len(chunks) + 1) + b.entry
        BY <1>11, <3>1, <3>2
      <4>2. Seen(t)[k] = b.cells[k - Base(chunks, Len(chunks) + 1)]
        BY <1>1, <1>6, <2>4, <3>1, <3>3, <4>1, GrownSeen
      <4> QED  BY <3>2, <4>2
    <3>5. PICK j \in Nat : j = k - p
      BY <3>1
    <3>6. j \in 1..n /\ j \in (start + 1)..(start + ((e - s) - done)) /\ done + (j - start) = k - s
          /\ j - start \in 1..((e - s) - done)
      BY <1>3, <2>1, <3>1, <3>5
    <3>7. b.cells[j] = rest[j - start]
      BY <1>8, <2>6, <3>6
    <3>8. rest[j - start] = Item("block", done + (j - start))
      BY <1>8, <3>6
    <3> QED  BY <2>2, <2>3, <3>4, <3>5, <3>6, <3>7, <3>8
  <2>8. BlockSeen(chunks', s, e)
    BY <1>14, <2>7 DEF BlockSeen, BlockUpTo
  <2> QED  BY <1>14, <2>8
<1> QED  BY <1>15, <1>16, <1>17

-----------------------------------------------------------------------------
(* Each operation does what NodeValues says.                               *)

\* The elements before and behind a step that keeps the shape.
LEMMA ValuesAre ==
  ASSUME DataInv, UNCHANGED shape
  PROVE  /\ Total \in Nat /\ Len(View) = Total
         /\ DOMAIN View = 1..Total /\ DOMAIN View' = 1..Total
         /\ \A k \in 1..Total : View[k] = Seen(chunks)[k] /\ View'[k] = Seen(chunks')[k]
         /\ \A k \in 1..Total : View[k] \notin V!Unknown => k <= Spanned
<1>1. Total \in Nat /\ Len(View) = Total
  BY ViewLength
<1>2. View = Seen(chunks) /\ View' = Seen(chunks')
  BY ViewIs, ViewNext
<1>3. \A cs : DOMAIN Seen(cs) = 1..Total
  BY DEF Seen
<1>4. \A k \in 1..Total : Known(k) => k <= Spanned
  BY KnownOnDisk
<1> QED  BY <1>1, <1>2, <1>3, <1>4 DEF Known

\* Another type or other dimensions: what both arrays have is kept, or all is lost.
LEMMA ShapeValues ==
  ASSUME DataInv, NEW type \in Types, NEW dims \in Shapes, PutDimensionInformation(type, dims)
  PROVE  V!Next
<1>1. shape \in [type : Types, dims : Shapes] /\ shape' \in [type : Types, dims : Shapes]
  BY DEF DataInv, PutDimensionInformation
<1>2. DOMAIN View' = 1..V!Elements(shape')
  BY DEF View, Total, V!Elements, Size, Below, V!Size, V!Below
<1>3. CASE Preserves(type, dims)
  <2>1. chunks' = chunks /\ shape'.type = shape.type /\ Len(shape'.dims) = Len(shape.dims)
    BY <1>3 DEF PutDimensionInformation, Preserves
  <2>2. Spanned' = Spanned /\ \A k : ElementOnDisk(k)' = ElementOnDisk(k)
    BY <2>1 DEF Spanned, Base, Span, ElementOnDisk
  <2>3. \A k \in DOMAIN View \cap DOMAIN View' : View'[k] = View[k]
    BY <2>2 DEF View
  <2>4. V!Resize(View, View')
    BY <1>2, <2>1, <2>3 DEF V!Resize
  <2> QED  BY <1>1, <2>4 DEF V!Next
<1>4. CASE ~Preserves(type, dims)
  <2>1. chunks' = <<>>
    BY <1>4 DEF PutDimensionInformation
  <2>2. Spanned' = 0
    <3>1. PICK cs : cs = <<>>
      OBVIOUS
    <3>2. Sound(cs) /\ Len(cs) = 0
      BY <3>1, NoneSound
    <3>3. Base(cs, 1) = 0 /\ Len(cs) + 1 = 1
      BY <3>2, BaseIs
    <3>4. Spanned' = Base(chunks', Len(chunks') + 1)
      BY DEF Spanned, Base, Span
    <3> QED  BY <2>1, <3>1, <3>3, <3>4
  <2>3. \A k \in 1..Total' : ~(k <= 0)
    <3>1. PICK T : T = Total'
      OBVIOUS
    <3>2. T \in Nat
      <4>1. shape'.dims \in Seq(Nat \ {0})
        BY <1>1, ShapesAssumption
      <4>2. PICK ds \in Seq(Nat \ {0}) : ds = shape'.dims
        BY <4>1
      <4>3. Size(ds) \in Nat
        <5>1. Len(ds) + 1 \in 1..(Len(ds) + 1)
          BY <4>2
        <5> QED  BY <5>1, Products DEF Size
      <4>4. T = IF shape'.type = NoType THEN 0 ELSE Size(ds)
        BY <3>1, <4>2 DEF Total
      <4> QED  BY <4>3, <4>4
    <3> QED  BY <3>1, <3>2
  <2>4. \A k \in DOMAIN View' : View'[k] \in V!Unknown
    <3>1. DOMAIN View' = 1..Total' /\ \A k \in 1..Total' : View'[k] = Junk
      BY <2>2, <2>3 DEF View
    <3>2. Junk \in V!Unknown
      BY DEF Junk, V!Unknown, V!Junk
    <3> QED  BY <3>1, <3>2
  <2>5. V!Reset(View')
    BY <1>2, <2>4 DEF V!Reset
  <2> QED  BY <1>1, <2>5 DEF V!Next
<1> QED  BY <1>3, <1>4

\* Chunks that hold the data show it.
LEMMA HeldSeen ==
  ASSUME shape \in [type : Types, dims : Shapes], NEW cs, NEW data, Holds(cs, data), NEW k \in 1..Total
  PROVE  Seen(cs)[k] = data[k]
<1>1. PICK T \in Nat : T = Total
  BY TotalIs
<1>2. k \in Nat \ {0} /\ k <= T /\ Sound(cs) /\ Base(cs, Len(cs) + 1) >= T
  BY <1>1 DEF Holds
<1>3. k <= Base(cs, Len(cs) + 1)
  <2>1. Base(cs, Len(cs) + 1) \in Nat
    <3>1. Len(cs) + 1 \in 1..(Len(cs) + 1)
      BY <1>2, SpanIs
    <3> QED  BY <1>2, <3>1, BaseIs
  <2> QED  BY <1>2, <2>1
<1>4. PICK i \in 1..Len(cs) : /\ Base(cs, i) < k /\ k <= Base(cs, i + 1)
                              /\ Base(cs, i) \in Nat /\ k - Base(cs, i) \in 1..Span(cs, i)
                              /\ Span(cs, i) \in Nat
  BY <1>2, <1>3, Lies
<1>5. Seen(cs)[k] = cs[i].cells[k - Base(cs, i)]
  BY <1>2, <1>4, SeenIn
<1>6. k - Base(cs, i) \in 1..Used(cs, i) /\ Used(cs, i) # 0
  <2>1. PICK b \in Nat, p \in Nat, u \in Nat : b = Base(cs, i) /\ p = Span(cs, i) /\ u = Used(cs, i)
    <3>1. Used(cs, i) \in 0..Span(cs, i)
      BY <1>2, UsedIs
    <3> QED  BY <1>4, <3>1
  <2>2. u # p => b + u >= T
    BY <1>1, <1>2, <2>1, UsedIs
  <2>3. k - b \in 1..p
    BY <1>4, <2>1
  <2>4. k - b \in 1..u
    BY <1>2, <2>2, <2>3
  <2> QED  BY <2>1, <2>4
<1>7. cs[i].cells[k - Base(cs, i)] = data[Base(cs, i) + (k - Base(cs, i))]
  BY <1>6 DEF Holds
<1>8. Base(cs, i) + (k - Base(cs, i)) = k
  BY <1>2, <1>4
<1> QED  BY <1>5, <1>7, <1>8

\* A write of the whole array.
LEMMA AllValues ==
  ASSUME DataInv, WriteAllData
  PROVE  V!Next
<1>1. Total > 0 /\ UNCHANGED shape /\ chunks' = AllWritten(Items("all", Total))
  BY DEF WriteAllData
<1>2. PICK T \in Nat \ {0} : T = Total
  BY <1>1, ValuesAre
<1>3. PICK data : data = Items("all", T)
  OBVIOUS
<1>4. data \in Seq(Cell) /\ Len(data) = T /\ \A k \in 1..T : data[k] = Item("all", k)
  BY <1>3, ItemsAre
<1>5. Holds(chunks', data)
  <2>1. Holds(AllWritten(data), data)
    BY <1>2, <1>4, AllHolds
  <2> QED  BY <1>1, <1>2, <1>3, <2>1
<1>6. \A k \in 1..T : View'[k] = Item("all", k)
  <2>1. PICK cs : cs = chunks'
    OBVIOUS
  <2>2. \A k \in 1..Total : Seen(cs)[k] = data[k]
    BY <1>5, <2>1, HeldSeen DEF DataInv
  <2> QED  BY <1>1, <1>2, <1>4, <2>1, <2>2, ValuesAre
<1>7. DOMAIN View = 1..T /\ DOMAIN View' = 1..T /\ Len(View) = T
  BY <1>1, <1>2, ValuesAre
<1>8. V!Write("all", [i \in 1..T |-> i], View, View')
  <2>1. \A k \in 1..T : View'[k] = V!Item("all", k)
    BY <1>6 DEF Item, V!Item
  <2>2. \A i \in 1..T : i \in {[k \in 1..T |-> k][j] : j \in DOMAIN [k \in 1..T |-> k]}
    OBVIOUS
  <2> QED  BY <1>7, <2>1, <2>2 DEF V!Write
<1> QED  BY <1>1, <1>7, <1>8 DEF V!Next

\* A write of a block: right, or one of the two faults, and these damage the block alone.
LEMMA BlockValues ==
  ASSUME DataInv, NEW s \in 0..Total, NEW e \in 0..Total, WriteBlockData(s, e)
  PROVE  V!Next \/ DamagesBlock(s, e)
<1>1. Block(s, e) /\ UNCHANGED shape
  BY BlockIs DEF WriteBlockData
<1>2. BlockSeen(chunks', s, e) \/ (FaultyBlock(s, e) /\ BlockUpTo(chunks', s, e))
  <2>1. CASE WriteBlockFirst(s, e)
    BY <1>1, <2>1, BlockFirstSeen
  <2>2. CASE WriteBlockInPlace(s, e)
    BY <1>1, <2>2, BlockInPlaceSeen
  <2>3. CASE WriteBlockSecond(s, e)
    BY <1>1, <2>3, BlockSecondSeen
  <2>4. CASE WriteBlockTable(s, e)
    BY <1>1, <2>4, BlockInTableSeen
  <2>5. CASE WriteBlockGrow(s, e)
    BY <1>1, <2>5, BlockGrowSeen
  <2> QED  BY <2>1, <2>2, <2>3, <2>4, <2>5 DEF WriteBlockData
<1>3. PICK T \in Nat : T = Total
  BY <1>1, ValuesAre
<1>4. s \in 0..T /\ e \in 0..T /\ s <= e /\ e - s \in Nat
  BY <1>1, <1>3 DEF Block
<1>5. /\ DOMAIN View = 1..T /\ DOMAIN View' = 1..T /\ Len(View) = T
      /\ \A k \in 1..T : View[k] = Seen(chunks)[k] /\ View'[k] = Seen(chunks')[k]
      /\ \A k \in 1..T : View[k] \notin V!Unknown => k <= Spanned
  BY <1>1, <1>3, ValuesAre
<1>6. CASE BlockSeen(chunks', s, e)
  <2> DEFINE at == [k \in 1..(e - s) |-> s + k]
  <2>1. \A k \in 1..(e - s) : View'[at[k]] = V!Item("block", k)
    <3>1. \A k \in 1..(e - s) : s + k \in 1..T /\ s + k \in (s + 1)..e /\ (s + k) - s = k /\ at[k] = s + k
      BY <1>4
    <3>2. \A k \in 1..(e - s) : View'[s + k] = Item("block", k)
      BY <1>3, <1>5, <1>6, <3>1 DEF BlockSeen
    <3> QED  BY <3>1, <3>2 DEF Item, V!Item
  <2>2. \A k \in (1..T) \ {at[j] : j \in DOMAIN at} : View[k] \notin V!Unknown => View'[k] = View[k]
    <3>1. ASSUME NEW k \in (s + 1)..e PROVE k \in {at[j] : j \in DOMAIN at}
      <4>1. k - s \in 1..(e - s) /\ s + (k - s) = k
        BY <1>4
      <4>2. k - s \in DOMAIN at /\ at[k - s] = k
        BY <4>1
      <4> QED  BY <4>2
    <3> QED  BY <1>3, <1>5, <1>6, <3>1 DEF BlockSeen
  <2>3. V!Write("block", at, View, View')
    BY <1>5, <2>1, <2>2 DEF V!Write
  <2> QED  BY <1>1, <1>4, <1>5, <2>3 DEF V!Next
<1>7. CASE FaultyBlock(s, e) /\ BlockUpTo(chunks', s, e)
  <2>1. \A k \in 1..Total : Known(k) /\ k \notin (s + 1)..e => View'[k] = View[k]
    BY <1>3, <1>5, <1>7 DEF Known, BlockUpTo
  <2> QED  BY <1>1, <1>7, <2>1 DEF DamagesBlock
<1> QED  BY <1>2, <1>6, <1>7

-----------------------------------------------------------------------------
(* Selections: the walk over one.                                          *)

\* The place of a position is a sum.
PlaceTerms(dims, p) == [k \in DOMAIN dims |-> (p[k] - 1) * Below(dims, k)]
Place(dims, p) == Before(PlaceTerms(dims, p), Len(dims) + 1)

\* What the lower dimensions add is less than one step of the next.
LEMMA PlaceSums ==
  ASSUME NEW dims \in Seq(Nat \ {0}), NEW p, \A k \in 1..Len(dims) : p[k] \in 1..dims[k]
  PROVE  /\ PlaceTerms(dims, p) \in Seq(Nat) /\ Len(PlaceTerms(dims, p)) = Len(dims)
         /\ \A k \in 1..Len(dims) : PlaceTerms(dims, p)[k] = (p[k] - 1) * Below(dims, k)
         /\ \A k \in 1..(Len(dims) + 1) : /\ Before(PlaceTerms(dims, p), k) \in Nat
                                          /\ Before(PlaceTerms(dims, p), k) < Below(dims, k)
         /\ Before(PlaceTerms(dims, p), 1) = 0
         /\ \A k \in 1..Len(dims) : Before(PlaceTerms(dims, p), k + 1)
                                      = Before(PlaceTerms(dims, p), k) + (p[k] - 1) * Below(dims, k)
<1>1. DOMAIN dims = 1..Len(dims) /\ Len(dims) \in Nat /\ \A k \in 1..Len(dims) : dims[k] \in Nat \ {0}
  OBVIOUS
<1>2. /\ \A k \in 1..(Len(dims) + 1) : Below(dims, k) \in Nat \ {0}
      /\ Below(dims, 1) = 1
      /\ \A k \in 1..Len(dims) : Below(dims, k + 1) = Below(dims, k) * dims[k]
  BY Products
<1>3. PICK f : f = [k \in DOMAIN dims |-> (p[k] - 1) * Below(dims, k)]
  OBVIOUS
<1>4. \A x, y \in Nat : x * y \in Nat
  OBVIOUS
<1>5. ASSUME NEW k \in 1..Len(dims) PROVE f[k] \in Nat /\ f[k] = (p[k] - 1) * Below(dims, k)
  <2>1. PICK x \in Nat, y \in Nat : x = p[k] - 1 /\ y = Below(dims, k)
    <3>1. k \in 1..(Len(dims) + 1)
      BY <1>1
    <3>2. p[k] - 1 \in Nat
      BY <1>1
    <3> QED  BY <1>2, <3>1, <3>2
  <2>2. f[k] = x * y
    BY <1>1, <1>3, <2>1
  <2> QED  BY <1>4, <2>1, <2>2
<1>6. f \in Seq(Nat) /\ Len(f) = Len(dims)
  <2>1. f = [k \in 1..Len(dims) |-> f[k]]
    BY <1>1, <1>3
  <2> QED  BY <1>1, <1>5, <2>1, IsSequence
<1>7. /\ \A k \in 1..(Len(dims) + 1) : Before(f, k) \in Nat
      /\ Before(f, 1) = 0
      /\ \A k \in 1..Len(dims) : Before(f, k + 1) = Before(f, k) + f[k]
  BY <1>6, Sums
<1>8. \A x, b, q, d \in Nat : x < b /\ q >= 1 /\ q <= d => x + (q - 1) * b < b * d
  <2> SUFFICES ASSUME NEW x \in Nat, NEW b \in Nat, NEW q \in Nat, NEW d \in Nat, x < b, q >= 1, q <= d
               PROVE  x + (q - 1) * b < b * d
    OBVIOUS
  <2>1. PICK r \in Nat : d = q + r
    <3>1. d - q \in Nat /\ d = q + (d - q)
      OBVIOUS
    <3> QED  BY <3>1
  <2>2. b * d = b * q + b * r /\ b * r \in Nat
    BY <2>1
  <2>3. (q - 1) * b + b = b * q
    OBVIOUS
  <2> QED  BY <2>2, <2>3
<1> DEFINE S == {i \in Nat : i \in 0..Len(dims) /\ Before(f, i + 1) < Below(dims, i + 1)}
<1>9. 0 \in S
  BY <1>1, <1>2, <1>7
<1>10. ASSUME NEW i \in 1..Len(dims), i - 1 \in S PROVE i \in S
  <2>1. i \in Nat /\ i \in 0..Len(dims) /\ (i - 1) + 1 = i /\ i \in 1..(Len(dims) + 1)
    BY <1>1
  <2>2. PICK x \in Nat, b \in Nat, q \in Nat, d \in Nat :
          x = Before(f, i) /\ b = Below(dims, i) /\ q = p[i] /\ d = dims[i] /\ q >= 1 /\ q <= d
    <3>1. p[i] \in Nat /\ p[i] >= 1 /\ p[i] <= dims[i] /\ dims[i] \in Nat
      BY <1>1
    <3> QED  BY <1>2, <1>7, <2>1, <3>1
  <2>3. x < b
    BY <1>10, <2>1, <2>2
  <2>4. Before(f, i + 1) = x + (q - 1) * b /\ Below(dims, i + 1) = b * d
    BY <1>2, <1>5, <1>7, <2>2
  <2>5. Before(f, i + 1) < Below(dims, i + 1)
    BY <1>8, <2>2, <2>3, <2>4
  <2> QED  BY <2>1, <2>5
<1> HIDE DEF S
<1>11. 0..Len(dims) \subseteq S
  BY <1>1, <1>9, <1>10, UpTo
<1>12. ASSUME NEW k \in 1..(Len(dims) + 1) PROVE Before(f, k) < Below(dims, k)
  <2>1. k - 1 \in S /\ (k - 1) + 1 = k
    BY <1>1, <1>11
  <2> QED  BY <2>1 DEF S
<1>13. PlaceTerms(dims, p) = f
  BY <1>3 DEF PlaceTerms
<1> QED  BY <1>5, <1>6, <1>7, <1>12, <1>13

\* The place of a position is a place in the array.
LEMMA PlaceIn ==
  ASSUME NEW dims \in Seq(Nat \ {0}), NEW p, \A k \in 1..Len(dims) : p[k] \in 1..dims[k]
  PROVE  Size(dims) \in Nat \ {0} /\ Place(dims, p) \in 0..(Size(dims) - 1)
<1>1. Len(dims) + 1 \in 1..(Len(dims) + 1)
  OBVIOUS
<1>2. Size(dims) \in Nat \ {0}
  BY <1>1, Products DEF Size
<1>3. Place(dims, p) \in Nat /\ Place(dims, p) < Size(dims)
  BY <1>1, PlaceSums DEF Place, Size
<1>4. PICK x \in Nat, z \in Nat \ {0} : x = Place(dims, p) /\ z = Size(dims) /\ x < z
  BY <1>2, <1>3
<1>5. x \in 0..(z - 1)
  BY <1>4
<1> QED  BY <1>4, <1>5

\* Lists of numbers that end alike differ in their sums as their beginnings do.
LEMMA SumsTail ==
  ASSUME NEW f \in Seq(Nat), NEW g \in Seq(Nat), Len(f) = Len(g), NEW m \in 1..(Len(f) + 1),
         \A i \in m..Len(f) : f[i] = g[i]
  PROVE  Before(f, Len(f) + 1) + Before(g, m) = Before(g, Len(f) + 1) + Before(f, m)
<1>1. PICK n \in Nat : n = Len(f) /\ n = Len(g)
  OBVIOUS
<1>2. /\ \A i \in 1..(n + 1) : Before(f, i) \in Nat /\ Before(g, i) \in Nat
      /\ \A i \in 1..n : Before(f, i + 1) = Before(f, i) + f[i] /\ Before(g, i + 1) = Before(g, i) + g[i]
      /\ \A i \in 1..n : f[i] \in Nat /\ g[i] \in Nat
  <2>1. /\ \A i \in 1..(n + 1) : Before(f, i) \in Nat
        /\ \A i \in 1..n : Before(f, i + 1) = Before(f, i) + f[i]
    BY <1>1, Sums
  <2>2. /\ \A i \in 1..(n + 1) : Before(g, i) \in Nat
        /\ \A i \in 1..n : Before(g, i + 1) = Before(g, i) + g[i]
    BY <1>1, Sums
  <2>3. \A i \in 1..n : f[i] \in Nat /\ g[i] \in Nat
    BY <1>1
  <2> QED  BY <2>1, <2>2, <2>3
<1> DEFINE S == {i \in 0..n : i + 1 >= m => Before(f, i + 1) + Before(g, m) = Before(g, i + 1) + Before(f, m)}
<1>3. \A i \in 0..n : i + 1 = m => i \in S
  <2> SUFFICES ASSUME NEW i \in 0..n, i + 1 = m PROVE i \in S
    OBVIOUS
  <2>1. Before(f, m) \in Nat /\ Before(g, m) \in Nat
    BY <1>1, <1>2
  <2>2. Before(f, m) + Before(g, m) = Before(g, m) + Before(f, m)
    BY <2>1
  <2> QED  BY <2>2
<1>4. 0 \in S
  <2>1. CASE m = 1
    BY <1>1, <1>3, <2>1
  <2>2. CASE m # 1
    <3>1. ~(0 + 1 >= m)
      BY <1>1, <2>2
    <3> QED  BY <1>1, <3>1
  <2> QED  BY <2>1, <2>2
<1>5. ASSUME NEW i \in 1..n, i - 1 \in S PROVE i \in S
  <2>1. CASE i + 1 = m
    BY <1>1, <1>3, <2>1
  <2>2. CASE i + 1 < m
    BY <1>1, <2>2
  <2>3. CASE i >= m
    <3>1. (i - 1) + 1 = i /\ i \in m..n
      BY <1>1, <2>3
    <3>2. Before(f, i) + Before(g, m) = Before(g, i) + Before(f, m)
      BY <1>5, <2>3, <3>1
    <3>3. f[i] = g[i]
      BY <1>1, <3>1
    <3>4. PICK a \in Nat, b \in Nat, c \in Nat, d \in Nat, e \in Nat :
            a = Before(f, i) /\ b = Before(g, m) /\ c = Before(g, i) /\ d = Before(f, m) /\ e = f[i]
      <4>1. i \in 1..(n + 1)
        BY <1>1
      <4> QED  BY <1>1, <1>2, <4>1
    <3>5. Before(f, i + 1) = a + e /\ Before(g, i + 1) = c + e
      BY <1>2, <3>3, <3>4
    <3>6. a + b = c + d => a + e + b = c + e + d
      OBVIOUS
    <3>7. Before(f, i + 1) + Before(g, m) = Before(g, i + 1) + Before(f, m)
      BY <3>2, <3>4, <3>5, <3>6
    <3> QED  BY <1>1, <3>7
  <2> QED  BY <1>1, <2>1, <2>2, <2>3
<1> HIDE DEF S
<1>6. 0..n \subseteq S
  BY <1>4, <1>5, UpTo
<1>7. n \in S /\ n + 1 >= m
  BY <1>1, <1>6
<1> QED  BY <1>1, <1>7 DEF S

\* The higher dimensions decide which of two places comes first.
LEMMA HigherPlace ==
  ASSUME NEW dims \in Seq(Nat \ {0}), NEW p, NEW r, NEW k \in 1..Len(dims),
         \A i \in 1..Len(dims) : p[i] \in 1..dims[i] /\ r[i] \in 1..dims[i],
         p[k] < r[k], \A i \in (k + 1)..Len(dims) : p[i] = r[i]
  PROVE  Place(dims, p) < Place(dims, r)
<1>1. PICK n \in Nat : n = Len(dims)
  OBVIOUS
<1>2. PICK f, g : f = PlaceTerms(dims, p) /\ g = PlaceTerms(dims, r)
  OBVIOUS
<1>3. /\ f \in Seq(Nat) /\ Len(f) = n
      /\ \A i \in 1..n : f[i] = (p[i] - 1) * Below(dims, i)
      /\ \A i \in 1..(n + 1) : Before(f, i) \in Nat /\ Before(f, i) < Below(dims, i)
      /\ \A i \in 1..n : Before(f, i + 1) = Before(f, i) + (p[i] - 1) * Below(dims, i)
  BY <1>1, <1>2, PlaceSums
<1>4. /\ g \in Seq(Nat) /\ Len(g) = n
      /\ \A i \in 1..n : g[i] = (r[i] - 1) * Below(dims, i)
      /\ \A i \in 1..(n + 1) : Before(g, i) \in Nat /\ Before(g, i) < Below(dims, i)
      /\ \A i \in 1..n : Before(g, i + 1) = Before(g, i) + (r[i] - 1) * Below(dims, i)
  BY <1>1, <1>2, PlaceSums
<1>5. k \in 1..n /\ k \in 1..(n + 1) /\ k + 1 \in 1..(n + 1) /\ n + 1 \in 1..(n + 1)
  BY <1>1
<1>6. Before(f, n + 1) + Before(g, k + 1) = Before(g, n + 1) + Before(f, k + 1)
  <2>1. ASSUME NEW i \in (k + 1)..n PROVE f[i] = g[i]
    <3>1. i \in 1..n /\ p[i] = r[i]
      BY <1>1
    <3>2. f[i] = (p[i] - 1) * Below(dims, i) /\ g[i] = (r[i] - 1) * Below(dims, i)
      BY <1>3, <1>4, <3>1
    <3> QED  BY <3>1, <3>2
  <2>2. f \in Seq(Nat) /\ g \in Seq(Nat) /\ Len(f) = n /\ Len(g) = n
    BY <1>3, <1>4
  <2>3. Before(f, Len(f) + 1) + Before(g, k + 1) = Before(g, Len(f) + 1) + Before(f, k + 1)
    <3>1. Len(f) = Len(g) /\ k + 1 \in 1..(Len(f) + 1)
      BY <1>5, <2>2
    <3>2. \A i \in (k + 1)..Len(f) : f[i] = g[i]
      BY <2>1, <2>2
    <3> QED  BY <2>2, <3>1, <3>2, SumsTail
  <2> QED  BY <2>2, <2>3
<1>7. PICK b \in Nat, x \in Nat, y \in Nat, u \in Nat, v \in Nat :
        /\ b = Below(dims, k) /\ x = Before(f, k) /\ x < b /\ y = Before(g, k)
        /\ u = p[k] /\ v = r[k] /\ u < v /\ 1 <= u
  <2>1. Below(dims, k) \in Nat
    BY <1>1, <1>5, Products
  <2>2. p[k] \in Nat /\ r[k] \in Nat /\ 1 <= p[k]
    <3>1. dims[k] \in Nat
      OBVIOUS
    <3> QED  BY <3>1
  <2> QED  BY <1>3, <1>4, <1>5, <2>1, <2>2
<1>8. Before(f, k + 1) = x + (u - 1) * b /\ Before(g, k + 1) = y + (v - 1) * b
  BY <1>3, <1>4, <1>5, <1>7
<1>9. x + (u - 1) * b < y + (v - 1) * b
  <2>0. u < v /\ x < b
    BY <1>7
  <2>1. PICK t \in Nat : v = u + 1 + t
    <3>1. v - u - 1 \in Nat /\ v = u + 1 + (v - u - 1)
      BY <2>0
    <3> QED  BY <3>1
  <2>2. (v - 1) * b = (u - 1) * b + b + t * b /\ t * b \in Nat /\ (u - 1) * b \in Int
    BY <2>1
  <2>3. PICK ub \in Int, vb \in Int, tb \in Nat :
          ub = (u - 1) * b /\ tb = t * b /\ vb = (v - 1) * b /\ vb = ub + b + tb
    BY <2>2
  <2>4. \A a \in Nat, c \in Nat, d \in Int, e \in Nat, h \in Nat : a < h => a + d < c + (d + h + e)
    OBVIOUS
  <2>5. x + ub < y + (ub + b + tb)
    BY <2>0, <2>4
  <2> QED  BY <2>3, <2>5
<1>10. Before(f, k + 1) < Before(g, k + 1)
  BY <1>8, <1>9
<1>11. Before(f, n + 1) < Before(g, n + 1)
  <2>1. PICK a \in Nat, c \in Nat, d \in Nat, e \in Nat :
          a = Before(f, n + 1) /\ c = Before(g, k + 1) /\ d = Before(g, n + 1) /\ e = Before(f, k + 1)
    BY <1>3, <1>4, <1>5
  <2>2. a + c = d + e /\ e < c
    BY <1>6, <1>10, <2>1
  <2>3. a < d
    BY <2>2
  <2> QED  BY <2>1, <2>3
<1> QED  BY <1>1, <1>2, <1>11 DEF Place

\* Different positions have different places.
LEMMA PlaceOnce ==
  ASSUME NEW dims \in Seq(Nat \ {0}), NEW p, NEW r,
         \A i \in 1..Len(dims) : p[i] \in 1..dims[i] /\ r[i] \in 1..dims[i],
         Place(dims, p) = Place(dims, r)
  PROVE  \A i \in 1..Len(dims) : p[i] = r[i]
<1>1. PICK n \in Nat : n = Len(dims)
  OBVIOUS
<1> DEFINE D == {i \in 1..n : p[i] # r[i]}
<1> SUFFICES ASSUME D # {} PROVE FALSE
  BY <1>1
<1>2. D \in SUBSET (0..n)
  OBVIOUS
<1> HIDE DEF D
<1>3. Max(D) \in D /\ \A i \in D : i <= Max(D)
  BY <1>2, GreatestUpTo
<1>4. PICK k \in 1..n : k = Max(D) /\ p[k] # r[k]
  BY <1>3 DEF D
<1>5. \A i \in (k + 1)..n : i \in 1..n /\ ~(i <= k)
  OBVIOUS
<1>6. \A i \in (k + 1)..n : p[i] = r[i]
  BY <1>3, <1>4, <1>5 DEF D
<1>7. p[k] \in Nat /\ r[k] \in Nat
  <2>1. dims[k] \in Nat
    BY <1>1
  <2> QED  BY <1>1, <2>1
<1>8. Place(dims, p) \in Nat
  <2>1. Len(dims) + 1 \in 1..(Len(dims) + 1)
    BY <1>1
  <2> QED  BY <2>1, PlaceSums DEF Place
<1>9. CASE p[k] < r[k]
  <2>1. Place(dims, p) < Place(dims, r)
    BY <1>1, <1>6, <1>9, HigherPlace
  <2> QED  BY <1>8, <2>1
<1>10. CASE r[k] < p[k]
  <2>1. \A i \in (k + 1)..n : r[i] = p[i]
    BY <1>6
  <2>2. Place(dims, r) < Place(dims, p)
    BY <1>1, <1>10, <2>1, HigherPlace
  <2> QED  BY <1>8, <2>2
<1> QED  BY <1>4, <1>7, <1>9, <1>10

\* How often a stride fits between the first and the last index, and one more.
LEMMA Quotients ==
  ASSUME NEW x \in Nat, NEW s \in Nat \ {0}
  PROVE  /\ (x + s) \div s \in Nat \ {0}
         /\ x - (x % s) = ((x + s) \div s - 1) * s
         /\ \A t \in Nat : t * s <= x <=> t < (x + s) \div s
<1>1. PICK q \in Nat, r \in Nat : x = q * s + r /\ r < s /\ r = x % s
  <2>1. x \div s \in Nat /\ x % s \in Nat /\ x % s < s /\ x = (x \div s) * s + (x % s)
    OBVIOUS
  <2> QED  BY <2>1
<1>2. (x + s) \div s = q + 1
  <2>1. x + s = (q + 1) * s + r
    BY <1>1
  <2>2. PICK y \in Nat : y = x + s
    OBVIOUS
  <2>3. PICK u \in Nat, v \in Nat : u = y \div s /\ y = u * s + v /\ v < s
    <3>1. y \div s \in Nat /\ y % s \in Nat /\ y % s < s /\ y = (y \div s) * s + (y % s)
      OBVIOUS
    <3> QED  BY <3>1
  <2>4. \A a, b, c, d \in Nat : a * s + b = c * s + d /\ b < s /\ d < s => a = c
    <3> SUFFICES ASSUME NEW a \in Nat, NEW b \in Nat, NEW c \in Nat, NEW d \in Nat,
                        a * s + b = c * s + d, b < s, d < s
                 PROVE  a = c
      OBVIOUS
    <3>1. \A k, l \in Nat : k < l => k * s + s <= l * s
      <4> SUFFICES ASSUME NEW k \in Nat, NEW l \in Nat, k < l PROVE k * s + s <= l * s
        OBVIOUS
      <4>1. PICK t \in Nat : l = k + 1 + t
        <5>1. l - k - 1 \in Nat /\ l = k + 1 + (l - k - 1)
          OBVIOUS
        <5> QED  BY <5>1
      <4>2. l * s = k * s + s + t * s /\ t * s \in Nat /\ k * s \in Nat
        BY <4>1
      <4> QED  BY <4>2
    <3>2. PICK as \in Nat, cs \in Nat : as = a * s /\ cs = c * s
      OBVIOUS
    <3>3. ~(a < c)
      <4>1. a < c => as + s <= cs
        BY <3>1, <3>2
      <4>2. as + b = cs + d
        BY <3>2
      <4> QED  BY <4>1, <4>2
    <3>4. ~(c < a)
      <4>1. c < a => cs + s <= as
        BY <3>1, <3>2
      <4>2. as + b = cs + d
        BY <3>2
      <4> QED  BY <4>1, <4>2
    <3> QED  BY <3>3, <3>4
  <2>5. q + 1 \in Nat /\ u * s + v = (q + 1) * s + r
    BY <2>1, <2>2, <2>3
  <2>6. u = q + 1
    BY <1>1, <2>3, <2>4, <2>5
  <2> QED  BY <2>2, <2>3, <2>6
<1>3. x - (x % s) = ((q + 1) - 1) * s
  <2>1. PICK qs \in Nat : qs = q * s
    OBVIOUS
  <2>2. x = qs + r
    BY <1>1, <2>1
  <2>3. x - r = qs /\ (q + 1) - 1 = q
    BY <2>2
  <2> QED  BY <1>1, <2>1, <2>3
<1>4. ASSUME NEW t \in Nat PROVE t * s <= x <=> t < q + 1
  <2>1. CASE t < q + 1
    <3>1. PICK d \in Nat : q = t + d
      <4>1. q - t \in Nat /\ q = t + (q - t)
        BY <2>1
      <4> QED  BY <4>1
    <3>2. q * s = t * s + d * s /\ d * s \in Nat /\ t * s \in Nat
      BY <3>1
    <3>3. PICK qs \in Nat, ts \in Nat, ds \in Nat : qs = q * s /\ ts = t * s /\ ds = d * s /\ qs = ts + ds
      BY <3>2
    <3>4. x = qs + r
      BY <1>1, <3>3
    <3>5. ts <= x
      BY <3>3, <3>4
    <3> QED  BY <2>1, <3>3, <3>5
  <2>2. CASE ~(t < q + 1)
    <3>1. PICK d \in Nat : t = q + 1 + d
      <4>1. t - q - 1 \in Nat /\ t = q + 1 + (t - q - 1)
        BY <2>2
      <4> QED  BY <4>1
    <3>2. t * s = q * s + s + d * s /\ d * s \in Nat /\ q * s \in Nat
      BY <3>1
    <3>3. PICK qs \in Nat, ts \in Nat, ds \in Nat : qs = q * s /\ ts = t * s /\ ds = d * s /\ ts = qs + s + ds
      BY <3>2
    <3>4. x = qs + r /\ r < s
      BY <1>1, <3>3
    <3>5. ~(ts <= x)
      BY <3>3, <3>4
    <3> QED  BY <2>2, <3>3, <3>5
  <2> QED  BY <2>1, <2>2
<1> QED  BY <1>2, <1>3, <1>4

\* How many indices of each dimension are selected, and the position with given numbers among them.
Lengths(dims, sel) == [k \in DOMAIN dims |-> (sel.last[k] - sel.first[k] + sel.stride[k]) \div sel.stride[k]]
At(dims, sel, q) == [k \in DOMAIN dims |-> sel.first[k] + (q[k] - 1) * sel.stride[k]]
Numbers(dims, sel, q) == \A k \in 1..Len(dims) : q[k] \in 1..Lengths(dims, sel)[k]

\* The numbers are those of a smaller array.
LEMMA LengthsAre ==
  ASSUME NEW dims \in Seq(Nat \ {0}), NEW sel, SelectionIn(dims, sel)
  PROVE  /\ Lengths(dims, sel) \in Seq(Nat \ {0})
         /\ Len(Lengths(dims, sel)) = Len(dims)
         /\ Count(dims, sel) = Size(Lengths(dims, sel))
<1>1. DOMAIN dims = 1..Len(dims) /\ Len(dims) \in Nat
  OBVIOUS
<1>2. PICK c : c = Lengths(dims, sel)
  OBVIOUS
<1>3. ASSUME NEW k \in 1..Len(dims) PROVE c[k] \in Nat \ {0}
  <2>1. PICK x \in Nat, y \in Nat \ {0} : x = sel.last[k] - sel.first[k] /\ y = sel.stride[k]
    <3>1. /\ sel.first[k] \in 1..dims[k] /\ sel.last[k] \in 1..dims[k] /\ sel.first[k] <= sel.last[k]
          /\ sel.stride[k] \in Nat \ {0}
      BY DEF SelectionIn
    <3>2. dims[k] \in Nat
      OBVIOUS
    <3>3. sel.last[k] - sel.first[k] \in Nat
      BY <3>1, <3>2
    <3> QED  BY <3>1, <3>3
  <2>2. c[k] = (x + y) \div y
    BY <1>1, <1>2, <2>1 DEF Lengths
  <2> QED  BY <2>2, Quotients
<1>4. c = [k \in 1..Len(dims) |-> c[k]]
  BY <1>1, <1>2 DEF Lengths
<1>5. c \in Seq(Nat \ {0}) /\ Len(c) = Len(dims)
  BY <1>1, <1>3, <1>4, IsSequence
<1>6. Count(dims, sel) = Size(c)
  BY <1>2 DEF Count, Lengths
<1> QED  BY <1>2, <1>5, <1>6

\* The index with a given number is selected; another follows it unless it is the last.
LEMMA NumberedIndex ==
  ASSUME NEW dims \in Seq(Nat \ {0}), NEW sel, SelectionIn(dims, sel), NEW k \in 1..Len(dims),
         NEW q \in 1..Lengths(dims, sel)[k]
  PROVE  LET x == sel.first[k] + (q - 1) * sel.stride[k]
         IN  /\ x \in sel.first[k]..sel.last[k]
             /\ x \in 1..dims[k]
             /\ (x - sel.first[k]) % sel.stride[k] = 0
             /\ x + sel.stride[k] <= sel.last[k] <=> q < Lengths(dims, sel)[k]
             /\ q = Lengths(dims, sel)[k]
                  => x = sel.last[k] - ((sel.last[k] - sel.first[k]) % sel.stride[k])
<1>1. PICK d \in Nat, a \in Nat, b \in Nat, s \in Nat \ {0} :
        /\ d = dims[k] /\ a = sel.first[k] /\ b = sel.last[k] /\ s = sel.stride[k]
        /\ 1 <= a /\ a <= b /\ b <= d
  <2>1. dims[k] \in Nat
    OBVIOUS
  <2>2. /\ sel.first[k] \in 1..dims[k] /\ sel.last[k] \in 1..dims[k] /\ sel.first[k] <= sel.last[k]
        /\ sel.stride[k] \in Nat \ {0}
    BY DEF SelectionIn
  <2> QED  BY <2>1, <2>2
<1>2. PICK y \in Nat : y = b - a /\ b = a + y
  <2>1. b - a \in Nat /\ b = a + (b - a)
    BY <1>1
  <2> QED  BY <2>1
<1>3. PICK c \in Nat \ {0} :
        /\ c = Lengths(dims, sel)[k]
        /\ y - (y % s) = (c - 1) * s
        /\ \A t \in Nat : t * s <= y <=> t < c
  <2>1. Lengths(dims, sel)[k] = (sel.last[k] - sel.first[k] + sel.stride[k]) \div sel.stride[k]
    BY DEF Lengths
  <2>2. Lengths(dims, sel)[k] = (y + s) \div s
    BY <1>1, <1>2, <2>1
  <2> QED  BY <2>2, Quotients
<1>4. PICK t \in Nat : t = q - 1 /\ q = t + 1 /\ t < c
  <2>1. q \in 1..c
    BY <1>3
  <2>2. q - 1 \in Nat /\ q = (q - 1) + 1 /\ q - 1 < c
    BY <2>1
  <2> QED  BY <2>2
<1>5. PICK ts \in Nat : ts = t * s /\ ts <= y
  <2>1. t * s \in Nat /\ t * s <= y
    BY <1>3, <1>4
  <2> QED  BY <2>1
<1>6. PICK x \in Nat : x = a + ts /\ x = sel.first[k] + (q - 1) * sel.stride[k]
  <2>1. a + ts \in Nat
    OBVIOUS
  <2>2. sel.first[k] + (q - 1) * sel.stride[k] = a + t * s
    BY <1>1, <1>4
  <2> QED  BY <1>5, <2>1, <2>2
<1>7. x \in a..b /\ x \in 1..d
  <2>1. a <= x /\ x <= b
    BY <1>2, <1>5, <1>6
  <2>2. 1 <= x /\ x <= d
    BY <1>1, <2>1
  <2> QED  BY <2>1, <2>2
<1>8. (x - a) % s = 0
  <2>1. x - a = ts
    BY <1>6
  <2>2. (t * s) % s = 0
    <3>1. (t * s) - ((t * s) % s) = ((t * s + s) \div s - 1) * s
      BY <1>5, Quotients
    <3>2. PICK r \in Nat : r = ts % s /\ r < s
      BY <1>5
    <3>3. PICK v \in Nat : v = (ts + s) \div s - 1
      <4>1. (ts + s) \div s \in Nat \ {0}
        BY Quotients
      <4> QED  BY <4>1
    <3>4. t * s = v * s + r
      <4>1. PICK vs \in Nat : vs = v * s
        OBVIOUS
      <4>2. ts - r = vs
        BY <1>5, <3>1, <3>2, <3>3, <4>1
      <4>3. ts = vs + r
        BY <4>2
      <4> QED  BY <1>5, <4>1, <4>3
    <3>5. \A i, j \in Nat : i * s = j * s + r => r = 0
      <4> SUFFICES ASSUME NEW i \in Nat, NEW j \in Nat, i * s = j * s + r PROVE r = 0
        OBVIOUS
      <4>1. CASE i <= j
        <5>1. PICK e \in Nat : j = i + e
          <6>1. j - i \in Nat /\ j = i + (j - i)
            BY <4>1
          <6> QED  BY <6>1
        <5>2. j * s = i * s + e * s /\ e * s \in Nat /\ i * s \in Nat
          BY <5>1
        <5>3. PICK js \in Nat, is \in Nat, es \in Nat : js = j * s /\ is = i * s /\ es = e * s /\ js = is + es
          BY <5>2
        <5>4. is = js + r
          BY <5>3
        <5> QED  BY <3>2, <5>3, <5>4
      <4>2. CASE ~(i <= j)
        <5>1. PICK e \in Nat : i = j + 1 + e
          <6>1. i - j - 1 \in Nat /\ i = j + 1 + (i - j - 1)
            BY <4>2
          <6> QED  BY <6>1
        <5>2. i * s = j * s + s + e * s /\ e * s \in Nat /\ j * s \in Nat
          BY <5>1
        <5>3. PICK js \in Nat, is \in Nat, es \in Nat :
                js = j * s /\ is = i * s /\ es = e * s /\ is = js + s + es
          BY <5>2
        <5>4. is = js + r
          BY <5>3
        <5>5. r < s
          BY <3>2
        <5> QED  BY <5>3, <5>4, <5>5
      <4> QED  BY <4>1, <4>2
    <3> QED  BY <1>5, <3>2, <3>4, <3>5
  <2> QED  BY <1>5, <2>1, <2>2
<1>9. x + s <= b <=> q < c
  <2>1. (t + 1) * s = ts + s
    BY <1>5
  <2>2. t + 1 \in Nat /\ ((t + 1) * s <= y <=> t + 1 < c)
    BY <1>3
  <2>3. ts + s <= y <=> q < c
    BY <1>4, <2>1, <2>2
  <2> QED  BY <1>2, <1>6, <2>3
<1>10. q = c => x = b - (y % s)
  <2> SUFFICES ASSUME q = c PROVE x = b - (y % s)
    OBVIOUS
  <2>1. c - 1 = t
    BY <1>4
  <2>2. y - (y % s) = ts
    BY <1>3, <1>5, <2>1
  <2>3. PICK r \in Int : r = y % s
    OBVIOUS
  <2>4. y - r = ts
    BY <2>2, <2>3
  <2>5. x = b - r
    BY <1>2, <1>6, <2>4
  <2> QED  BY <2>3, <2>5
<1>11. (x - sel.first[k]) % sel.stride[k] = 0
  BY <1>1, <1>8
<1>12. x + sel.stride[k] <= sel.last[k] <=> q < Lengths(dims, sel)[k]
  BY <1>1, <1>3, <1>9
<1>13. q = Lengths(dims, sel)[k] => x = sel.last[k] - ((sel.last[k] - sel.first[k]) % sel.stride[k])
  BY <1>1, <1>2, <1>3, <1>10
<1>14. x \in sel.first[k]..sel.last[k] /\ x \in 1..dims[k]
  BY <1>1, <1>7
<1> QED  BY <1>6, <1>11, <1>12, <1>13, <1>14

\* Each selected index has a number.
LEMMA IndexNumbered ==
  ASSUME NEW dims \in Seq(Nat \ {0}), NEW sel, SelectionIn(dims, sel), NEW k \in 1..Len(dims),
         NEW x \in sel.first[k]..sel.last[k], (x - sel.first[k]) % sel.stride[k] = 0
  PROVE  \E q \in 1..Lengths(dims, sel)[k] : x = sel.first[k] + (q - 1) * sel.stride[k]
<1>1. PICK a \in Nat, b \in Nat, s \in Nat \ {0} :
        a = sel.first[k] /\ b = sel.last[k] /\ s = sel.stride[k] /\ a <= b
  <2>1. dims[k] \in Nat
    OBVIOUS
  <2>2. /\ sel.first[k] \in 1..dims[k] /\ sel.last[k] \in 1..dims[k] /\ sel.first[k] <= sel.last[k]
        /\ sel.stride[k] \in Nat \ {0}
    BY DEF SelectionIn
  <2> QED  BY <2>1, <2>2
<1>2. PICK y \in Nat, z \in Nat : b = a + y /\ y = b - a /\ x = a + z /\ z = x - a /\ z <= y
  <2>1. x \in a..b
    BY <1>1
  <2>2. PICK w \in Nat : w = x
    BY <2>1
  <2>3. a <= w /\ w <= b
    BY <2>1, <2>2
  <2>4. b - a \in Nat /\ b = a + (b - a) /\ w - a \in Nat /\ w = a + (w - a) /\ w - a <= b - a
    BY <2>3
  <2> QED  BY <2>2, <2>4
<1>3. PICK c \in Nat \ {0} : c = Lengths(dims, sel)[k] /\ \A t \in Nat : t * s <= y <=> t < c
  <2>1. Lengths(dims, sel)[k] = (sel.last[k] - sel.first[k] + sel.stride[k]) \div sel.stride[k]
    BY DEF Lengths
  <2>2. Lengths(dims, sel)[k] = (y + s) \div s
    BY <1>1, <1>2, <2>1
  <2> QED  BY <2>2, Quotients
<1>4. z % s = 0
  BY <1>1, <1>2
<1>5. PICK t \in Nat : z = t * s
  <2>1. z - (z % s) = ((z + s) \div s - 1) * s /\ (z + s) \div s \in Nat \ {0}
    BY Quotients
  <2>2. PICK u \in Nat \ {0} : u = (z + s) \div s
    BY <2>1
  <2>3. PICK v \in Nat : v = u - 1
    OBVIOUS
  <2>4. z - 0 = v * s
    BY <1>4, <2>1, <2>2, <2>3
  <2>5. PICK vs \in Nat : vs = v * s
    OBVIOUS
  <2>6. z = v * s
    BY <2>4, <2>5
  <2> QED  BY <2>6
<1>6. t < c
  BY <1>2, <1>3, <1>5
<1>7. t + 1 \in 1..c /\ (t + 1) - 1 = t
  BY <1>6
<1>8. x = a + ((t + 1) - 1) * s
  BY <1>2, <1>5, <1>7
<1> QED  BY <1>1, <1>3, <1>7, <1>8

\* A list of n numbers, each greater than the one before, and the set of them.
Climbs(w, n, S) ==
  /\ \A i \in 1..n : w[i] \in Nat /\ w[i] \in S
  /\ \A i \in 2..n : w[i - 1] < w[i]
  /\ \A x \in S : \E i \in 1..n : x = w[i]

\* The numbers of the set, in their order, are the list.
LEMMA Increasing ==
  ASSUME NEW n \in Nat, NEW w, NEW S, Climbs(w, n, S)
  PROVE  /\ Cardinality(S) = n
         /\ \A i \in 1..n : w[i] = CHOOSE a \in S : Cardinality({b \in S : b < a}) = i - 1
<1>0. /\ \A i \in 1..n : w[i] \in Nat /\ w[i] \in S
      /\ \A i \in 2..n : w[i - 1] < w[i]
      /\ \A x \in S : \E i \in 1..n : x = w[i]
  BY DEF Climbs
<1> DEFINE Begun(m) == {w[i] : i \in 1..m}
           Above(m) == \A i \in 1..(m - 1) : w[i] < w[m]
           T == {m \in 0..n : m # 0 => Above(m)}
<1>1. 0 \in T
  OBVIOUS
<1>2. ASSUME NEW m \in 1..n, m - 1 \in T PROVE m \in T
  <2>1. ASSUME NEW i \in 1..(m - 1) PROVE w[i] < w[m]
    <3>1. m \in 2..n /\ m - 1 \in 1..n /\ i \in 1..n
      OBVIOUS
    <3>2. w[m - 1] < w[m] /\ w[m - 1] \in Nat /\ w[m] \in Nat /\ w[i] \in Nat
      BY <1>0, <3>1
    <3>3. CASE i = m - 1
      BY <3>2, <3>3
    <3>4. CASE i # m - 1
      <4>1. i \in 1..((m - 1) - 1)
        BY <3>1, <3>4
      <4>2. w[i] < w[m - 1]
        BY <1>2, <3>1, <4>1
      <4> QED  BY <3>2, <4>2
    <3> QED  BY <3>3, <3>4
  <2> QED  BY <2>1
<1> HIDE DEF T
<1>3. 0..n \subseteq T
  BY <1>1, <1>2, UpTo
<1>4. ASSUME NEW i \in 1..n, NEW j \in 1..n, i < j PROVE w[i] < w[j]
  <2>1. j \in T /\ j # 0 /\ i \in 1..(j - 1)
    BY <1>3, <1>4
  <2> QED  BY <2>1 DEF T
<1> DEFINE C == {m \in 0..n : IsFiniteSet(Begun(m)) /\ Cardinality(Begun(m)) = m}
<1>5. 0 \in C
  <2>1. Begun(0) = {}
    OBVIOUS
  <2> HIDE DEF Begun
  <2> QED  BY <2>1, FS_EmptySet
<1>6. ASSUME NEW m \in 1..n, m - 1 \in C PROVE m \in C
  <2>1. Begun(m) = Begun(m - 1) \cup {w[m]}
    <3>1. 1..m = 1..(m - 1) \cup {m}
      OBVIOUS
    <3> QED  BY <3>1
  <2>2. w[m] \notin Begun(m - 1)
    <3>1. ASSUME NEW i \in 1..(m - 1) PROVE w[i] # w[m]
      <4>1. i \in 1..n /\ i < m
        OBVIOUS
      <4>2. w[i] < w[m] /\ w[i] \in Nat
        BY <1>0, <1>4, <4>1
      <4> QED  BY <4>2
    <3> QED  BY <3>1
  <2>3. IsFiniteSet(Begun(m - 1)) /\ Cardinality(Begun(m - 1)) = m - 1
    BY <1>6
  <2> HIDE DEF Begun
  <2>4. PICK F : F = Begun(m - 1)
    OBVIOUS
  <2>5. IsFiniteSet(F \cup {w[m]}) /\ Cardinality(F \cup {w[m]}) = Cardinality(F) + 1
    BY <2>2, <2>3, <2>4, FS_AddElement
  <2>6. Cardinality(F) + 1 = m
    BY <2>3, <2>4
  <2>7. F \cup {w[m]} = Begun(m)
    BY <2>1, <2>4
  <2>8. IsFiniteSet(Begun(m)) /\ Cardinality(Begun(m)) = m
    BY <2>5, <2>6, <2>7
  <2> QED  BY <2>8
<1> HIDE DEF C
<1>7. 0..n \subseteq C
  BY <1>5, <1>6, UpTo
<1>8. \A m \in 0..n : Cardinality(Begun(m)) = m
  BY <1>7 DEF C
<1>9. Cardinality(S) = n
  <2>1. S = Begun(n)
    BY <1>0
  <2> HIDE DEF Begun
  <2> QED  BY <1>8, <2>1
<1>10. ASSUME NEW i \in 1..n PROVE Cardinality({b \in S : b < w[i]}) = i - 1
  <2>1. {b \in S : b < w[i]} = Begun(i - 1)
    <3>1. ASSUME NEW b \in Begun(i - 1) PROVE b \in S /\ b < w[i]
      <4>1. PICK j \in 1..(i - 1) : b = w[j]
        BY <3>1
      <4>2. j \in 1..n /\ j < i
        OBVIOUS
      <4> QED  BY <1>0, <1>4, <4>1, <4>2
    <3>2. ASSUME NEW b \in S, b < w[i] PROVE b \in Begun(i - 1)
      <4>1. PICK j \in 1..n : b = w[j]
        BY <1>0
      <4>2. w[i] \in Nat /\ w[j] \in Nat
        BY <1>0
      <4>3. ~(i < j)
        <5>1. i < j => w[i] < w[j]
          BY <1>4
        <5> QED  BY <3>2, <4>1, <4>2, <5>1
      <4>4. i # j
        BY <3>2, <4>1, <4>2
      <4>5. j \in 1..(i - 1)
        BY <4>3, <4>4
      <4> QED  BY <4>1, <4>5
    <3> HIDE DEF Begun
    <3> QED  BY <3>1, <3>2
  <2>2. i - 1 \in 0..n
    OBVIOUS
  <2> HIDE DEF Begun
  <2> QED  BY <1>8, <2>1, <2>2
<1>11. ASSUME NEW i \in 1..n PROVE w[i] = CHOOSE a \in S : Cardinality({b \in S : b < a}) = i - 1
  <2>1. w[i] \in S /\ Cardinality({b \in S : b < w[i]}) = i - 1
    BY <1>0, <1>10
  <2>2. ASSUME NEW a \in S, Cardinality({b \in S : b < a}) = i - 1 PROVE a = w[i]
    <3>1. PICK j \in 1..n : a = w[j]
      BY <1>0
    <3>2. Cardinality({b \in S : b < a}) = j - 1
      BY <1>10, <3>1
    <3>3. i - 1 = j - 1
      BY <2>2, <3>2
    <3>4. i = j
      BY <3>3
    <3> QED  BY <3>1, <3>4
  <2>3. PICK a : a = CHOOSE x \in S : Cardinality({b \in S : b < x}) = i - 1
    OBVIOUS
  <2>4. a \in S /\ Cardinality({b \in S : b < a}) = i - 1
    BY <2>1, <2>3
  <2>5. a = w[i]
    BY <2>2, <2>4
  <2> QED  BY <2>3, <2>5
<1> QED  BY <1>9, <1>11

\* A position has coordinates of the array.
LEMMA NumberedPosition ==
  ASSUME NEW dims \in Seq(Nat \ {0}), NEW sel, SelectionIn(dims, sel), NEW q, Numbers(dims, sel, q)
  PROVE  /\ At(dims, sel, q) \in Positions(dims)
         /\ \A k \in 1..Len(dims) :
              /\ At(dims, sel, q)[k] = sel.first[k] + (q[k] - 1) * sel.stride[k]
              /\ At(dims, sel, q)[k] \in 1..dims[k]
              /\ k \in Advancing(dims, sel, At(dims, sel, q)) <=> q[k] < Lengths(dims, sel)[k]
<1>1. PICK p : p = At(dims, sel, q)
  OBVIOUS
<1>2. DOMAIN dims = 1..Len(dims) /\ p = [k \in 1..Len(dims) |-> p[k]]
  BY <1>1 DEF At
<1>3. ASSUME NEW k \in 1..Len(dims)
      PROVE  /\ p[k] = sel.first[k] + (q[k] - 1) * sel.stride[k]
             /\ p[k] \in 1..dims[k]
             /\ k \in Advancing(dims, sel, p) <=> q[k] < Lengths(dims, sel)[k]
  <2>1. q[k] \in 1..Lengths(dims, sel)[k]
    BY DEF Numbers
  <2>2. p[k] = sel.first[k] + (q[k] - 1) * sel.stride[k]
    BY <1>1, <1>2 DEF At
  <2>3. p[k] \in 1..dims[k] /\ (p[k] + sel.stride[k] <= sel.last[k] <=> q[k] < Lengths(dims, sel)[k])
    <3>1. PICK x, z : x = q[k] /\ z = p[k]
      OBVIOUS
    <3>2. x \in 1..Lengths(dims, sel)[k] /\ z = sel.first[k] + (x - 1) * sel.stride[k]
      BY <2>1, <2>2, <3>1
    <3>3. z \in 1..dims[k] /\ (z + sel.stride[k] <= sel.last[k] <=> x < Lengths(dims, sel)[k])
      BY <3>2, NumberedIndex
    <3> QED  BY <3>1, <3>3
  <2> QED  BY <1>2, <2>2, <2>3 DEF Advancing
<1>4. p \in Positions(dims)
  <2>1. \A k \in 1..Len(dims) : p[k] \in 1..dims[k] /\ p[k] \in Nat
    BY <1>3
  <2>2. p \in [1..Len(dims) -> Nat]
    BY <1>2, <2>1
  <2> QED  BY <2>1, <2>2 DEF Positions
<1> QED  BY <1>1, <1>3, <1>4

\* Below a dimension where all the others have come to their end, the place is the last one.
LEMMA Carry ==
  ASSUME NEW c \in Seq(Nat \ {0}), NEW q, \A k \in 1..Len(c) : q[k] \in 1..c[k],
         NEW up \in 1..(Len(c) + 1), \A k \in 1..Len(c) : k < up => q[k] = c[k]
  PROVE  Before(PlaceTerms(c, q), up) = Below(c, up) - 1
<1>1. PICK n \in Nat : n = Len(c)
  OBVIOUS
<1>2. PICK f : f = PlaceTerms(c, q)
  OBVIOUS
<1>3. /\ \A k \in 1..(n + 1) : Before(f, k) \in Nat
      /\ Before(f, 1) = 0
      /\ \A k \in 1..n : Before(f, k + 1) = Before(f, k) + (q[k] - 1) * Below(c, k)
  BY <1>1, <1>2, PlaceSums
<1>4. /\ \A k \in 1..(n + 1) : Below(c, k) \in Nat \ {0}
      /\ Below(c, 1) = 1
      /\ \A k \in 1..n : Below(c, k + 1) = Below(c, k) * c[k]
  BY <1>1, Products
<1> DEFINE S == {i \in 0..n : i + 1 <= up => Before(f, i + 1) = Below(c, i + 1) - 1}
<1>5. 0 \in S
  BY <1>3, <1>4
<1>6. ASSUME NEW i \in 1..n, i - 1 \in S PROVE i \in S
  <2>1. (i - 1) + 1 = i /\ i \in 1..(n + 1)
    OBVIOUS
  <2>2. CASE i + 1 <= up
    <3>1. i < up /\ i <= up
      BY <1>1, <2>2
    <3>2. Before(f, i) = Below(c, i) - 1
      BY <1>6, <2>1, <3>1
    <3>3. PICK x \in Nat, b \in Nat, d \in Nat : x = Before(f, i) /\ b = Below(c, i) /\ d = c[i] /\ q[i] = d
      <4>1. Before(f, i) \in Nat /\ Below(c, i) \in Nat
        BY <1>3, <1>4, <2>1
      <4>2. c[i] \in Nat /\ q[i] = c[i]
        BY <1>1, <3>1
      <4> QED  BY <4>1, <4>2
    <3>4. Before(f, i + 1) = x + (d - 1) * b /\ Below(c, i + 1) = b * d
      BY <1>3, <1>4, <3>3
    <3>5. (d - 1) * b = b * d - b /\ b * d \in Nat
      OBVIOUS
    <3>6. PICK y \in Int, z \in Nat : y = (d - 1) * b /\ z = b * d /\ y = z - b
      BY <3>5
    <3>7. x = b - 1
      BY <3>2, <3>3
    <3>8. x + y = z - 1
      BY <3>6, <3>7
    <3>9. Before(f, i + 1) = Below(c, i + 1) - 1
      BY <3>4, <3>6, <3>8
    <3> QED  BY <3>9
  <2>3. CASE ~(i + 1 <= up)
    BY <2>3
  <2> QED  BY <2>2, <2>3
<1> HIDE DEF S
<1>7. 0..n \subseteq S
  BY <1>5, <1>6, UpTo
<1>8. up - 1 \in S /\ (up - 1) + 1 = up /\ up <= up
  BY <1>1, <1>7
<1> QED  BY <1>2, <1>8 DEF S

\* Below a dimension where all the others have begun anew, the place is the first one.
LEMMA Anew ==
  ASSUME NEW c \in Seq(Nat \ {0}), NEW q, \A k \in 1..Len(c) : q[k] \in 1..c[k],
         NEW up \in 1..(Len(c) + 1), \A k \in 1..Len(c) : k < up => q[k] = 1
  PROVE  Before(PlaceTerms(c, q), up) = 0
<1>1. PICK n \in Nat : n = Len(c)
  OBVIOUS
<1>2. PICK f : f = PlaceTerms(c, q)
  OBVIOUS
<1>3. /\ Before(f, 1) = 0
      /\ \A k \in 1..n : Before(f, k + 1) = Before(f, k) + (q[k] - 1) * Below(c, k)
  BY <1>1, <1>2, PlaceSums
<1>4. \A k \in 1..(n + 1) : Below(c, k) \in Nat
  BY <1>1, Products
<1> DEFINE S == {i \in 0..n : i + 1 <= up => Before(f, i + 1) = 0}
<1>5. 0 \in S
  BY <1>3
<1>6. ASSUME NEW i \in 1..n, i - 1 \in S PROVE i \in S
  <2>1. (i - 1) + 1 = i /\ i \in 1..(n + 1)
    OBVIOUS
  <2>2. CASE i + 1 <= up
    <3>1. i < up /\ i <= up
      BY <1>1, <2>2
    <3>2. Before(f, i) = 0
      BY <1>6, <2>1, <3>1
    <3>3. PICK b \in Nat : b = Below(c, i) /\ q[i] = 1
      BY <1>1, <1>4, <2>1, <3>1
    <3>4. Before(f, i + 1) = 0 + (1 - 1) * b
      BY <1>3, <3>2, <3>3
    <3>5. (1 - 1) * b = 0
      OBVIOUS
    <3>6. Before(f, i + 1) = 0
      BY <3>4, <3>5
    <3> QED  BY <3>6
  <2>3. CASE ~(i + 1 <= up)
    BY <2>3
  <2> QED  BY <2>2, <2>3
<1> HIDE DEF S
<1>7. 0..n \subseteq S
  BY <1>5, <1>6, UpTo
<1>8. up - 1 \in S /\ (up - 1) + 1 = up /\ up <= up
  BY <1>1, <1>7
<1> QED  BY <1>2, <1>8 DEF S

\* One dimension advances by some indices, those above it stay.
Advances(dims, p, r, up, t) ==
  /\ \A i \in 1..Len(dims) : p[i] \in 1..dims[i] /\ r[i] \in 1..dims[i]
  /\ r[up] = p[up] + t
  /\ \A i \in (up + 1)..Len(dims) : p[i] = r[i]

\* How far the places are apart then.
LEMMA PlacesApart ==
  ASSUME NEW dims \in Seq(Nat \ {0}), NEW p, NEW r, NEW up \in 1..Len(dims), NEW t \in Nat,
         Advances(dims, p, r, up, t)
  PROVE  Place(dims, r) + Before(PlaceTerms(dims, p), up)
           = Place(dims, p) + Before(PlaceTerms(dims, r), up) + t * Below(dims, up)
<1>0. /\ \A i \in 1..Len(dims) : p[i] \in 1..dims[i] /\ r[i] \in 1..dims[i]
      /\ r[up] = p[up] + t
      /\ \A i \in (up + 1)..Len(dims) : p[i] = r[i]
  BY DEF Advances
<1>1. PICK n \in Nat : n = Len(dims)
  OBVIOUS
<1>2. PICK f, g : f = PlaceTerms(dims, p) /\ g = PlaceTerms(dims, r)
  OBVIOUS
<1>3. /\ f \in Seq(Nat) /\ Len(f) = n
      /\ \A i \in 1..n : f[i] = (p[i] - 1) * Below(dims, i)
      /\ \A i \in 1..(n + 1) : Before(f, i) \in Nat
      /\ \A i \in 1..n : Before(f, i + 1) = Before(f, i) + (p[i] - 1) * Below(dims, i)
  BY <1>0, <1>1, <1>2, PlaceSums
<1>4. /\ g \in Seq(Nat) /\ Len(g) = n
      /\ \A i \in 1..n : g[i] = (r[i] - 1) * Below(dims, i)
      /\ \A i \in 1..(n + 1) : Before(g, i) \in Nat
      /\ \A i \in 1..n : Before(g, i + 1) = Before(g, i) + (r[i] - 1) * Below(dims, i)
  BY <1>0, <1>1, <1>2, PlaceSums
<1>5. up \in 1..n /\ up \in 1..(n + 1) /\ up + 1 \in 1..(n + 1) /\ n + 1 \in 1..(n + 1)
  BY <1>1
<1>6. Before(f, n + 1) + Before(g, up + 1) = Before(g, n + 1) + Before(f, up + 1)
  <2>1. ASSUME NEW i \in (up + 1)..n PROVE f[i] = g[i]
    <3>1. i \in 1..n /\ p[i] = r[i]
      BY <1>0, <1>1
    <3>2. f[i] = (p[i] - 1) * Below(dims, i) /\ g[i] = (r[i] - 1) * Below(dims, i)
      BY <1>3, <1>4, <3>1
    <3> QED  BY <3>1, <3>2
  <2>2. f \in Seq(Nat) /\ g \in Seq(Nat) /\ Len(f) = n /\ Len(g) = n
    BY <1>3, <1>4
  <2>3. Before(f, Len(f) + 1) + Before(g, up + 1) = Before(g, Len(f) + 1) + Before(f, up + 1)
    <3>1. Len(f) = Len(g) /\ up + 1 \in 1..(Len(f) + 1)
      BY <1>5, <2>2
    <3>2. \A i \in (up + 1)..Len(f) : f[i] = g[i]
      BY <2>1, <2>2
    <3> QED  BY <2>2, <3>1, <3>2, SumsTail
  <2> QED  BY <2>2, <2>3
<1>7. PICK b \in Nat, x \in Nat, y \in Nat, u \in Nat :
        b = Below(dims, up) /\ x = Before(f, up) /\ y = Before(g, up) /\ u = p[up] /\ 1 <= u
  <2>1. Below(dims, up) \in Nat
    BY <1>1, <1>5, Products
  <2>2. p[up] \in Nat /\ 1 <= p[up]
    <3>1. dims[up] \in Nat /\ p[up] \in 1..dims[up]
      BY <1>0
    <3> QED  BY <3>1
  <2> QED  BY <1>3, <1>4, <1>5, <2>1, <2>2
<1>8. Before(f, up + 1) = x + (u - 1) * b /\ Before(g, up + 1) = y + ((u + t) - 1) * b
  BY <1>0, <1>3, <1>4, <1>5, <1>7
<1>9. PICK ub \in Int, tb \in Nat : ub = (u - 1) * b /\ tb = t * b /\ ((u + t) - 1) * b = ub + tb
  OBVIOUS
<1>10. PICK P \in Nat, R \in Nat : P = Before(f, n + 1) /\ R = Before(g, n + 1)
  BY <1>3, <1>4, <1>5
<1>11. P + (y + (ub + tb)) = R + (x + ub)
  BY <1>6, <1>8, <1>9, <1>10
<1>12. R + x = P + y + tb
  BY <1>11
<1>13. Place(dims, p) = P /\ Place(dims, r) = R
  BY <1>1, <1>2, <1>10 DEF Place
<1> QED  BY <1>2, <1>7, <1>9, <1>12, <1>13

\* The next numbers: those of the place behind.
LEMMA NextRank ==
  ASSUME NEW c \in Seq(Nat \ {0}), NEW q, NEW r, NEW up \in 1..Len(c),
         \A k \in 1..Len(c) : q[k] \in 1..c[k], \A k \in 1..Len(c) : k < up => q[k] = c[k], q[up] < c[up],
         \A k \in 1..Len(c) : r[k] = IF k < up THEN 1 ELSE IF k = up THEN q[k] + 1 ELSE q[k]
  PROVE  /\ \A k \in 1..Len(c) : r[k] \in 1..c[k]
         /\ Place(c, r) = Place(c, q) + 1
<1>1. ASSUME NEW k \in 1..Len(c) PROVE r[k] \in 1..c[k]
  <2>1. PICK d \in Nat \ {0}, x \in Nat : d = c[k] /\ x = q[k] /\ 1 <= x /\ x <= d
    <3>1. c[k] \in Nat \ {0} /\ q[k] \in 1..c[k]
      OBVIOUS
    <3> QED  BY <3>1
  <2>2. k = up => x < d
    BY <2>1
  <2>3. r[k] = IF k < up THEN 1 ELSE IF k = up THEN x + 1 ELSE x
    BY <2>1
  <2>4. r[k] \in 1..d
    <3>1. CASE k < up
      BY <2>1, <2>3, <3>1
    <3>2. CASE ~(k < up) /\ k = up
      BY <2>1, <2>2, <2>3, <3>2
    <3>3. CASE ~(k < up) /\ k # up
      BY <2>1, <2>3, <3>3
    <3> QED  BY <3>1, <3>2, <3>3
  <2> QED  BY <2>1, <2>4
<1>2. PICK n \in Nat : n = Len(c) /\ up \in 1..(n + 1) /\ n + 1 \in 1..(n + 1)
  OBVIOUS
<1>3. Before(PlaceTerms(c, q), up) = Below(c, up) - 1
  BY <1>2, Carry
<1>4. \A k \in 1..Len(c) : k < up => r[k] = 1
  OBVIOUS
<1>5. Before(PlaceTerms(c, r), up) = 0
  BY <1>1, <1>2, <1>4, Anew
<1>6. \A k \in (up + 1)..Len(c) : q[k] = r[k]
  <2>1. ASSUME NEW k \in (up + 1)..Len(c) PROVE q[k] = r[k]
    <3>1. k \in 1..Len(c) /\ ~(k < up) /\ k # up
      BY <1>2
    <3> QED  BY <3>1
  <2> QED  BY <2>1
<1>7. r[up] = q[up] + 1
  OBVIOUS
<1>8. Place(c, r) + Before(PlaceTerms(c, q), up)
        = Place(c, q) + Before(PlaceTerms(c, r), up) + 1 * Below(c, up)
  <2>1. \A k \in 1..Len(c) : q[k] \in 1..c[k] /\ r[k] \in 1..c[k]
    BY <1>1
  <2>2. PICK t \in Nat : t = 1
    OBVIOUS
  <2>3. r[up] = q[up] + t
    BY <1>7, <2>2
  <2>4. Advances(c, q, r, up, t)
    BY <1>6, <2>1, <2>3 DEF Advances
  <2>5. Place(c, r) + Before(PlaceTerms(c, q), up)
          = Place(c, q) + Before(PlaceTerms(c, r), up) + t * Below(c, up)
    BY <2>4, PlacesApart
  <2> QED  BY <2>2, <2>5
<1>9. PICK P \in Nat, R \in Nat, b \in Nat : P = Place(c, q) /\ R = Place(c, r) /\ b = Below(c, up)
  <2>1. Place(c, q) \in Nat
    BY <1>2, PlaceSums DEF Place
  <2>2. Place(c, r) \in Nat
    BY <1>1, <1>2, PlaceSums DEF Place
  <2>3. Below(c, up) \in Nat
    BY <1>2, Products
  <2> QED  BY <2>1, <2>2, <2>3
<1>10. R + (b - 1) = P + 0 + 1 * b
  BY <1>3, <1>5, <1>8, <1>9
<1>11. R = P + 1
  BY <1>10
<1> QED  BY <1>1, <1>9, <1>11

\* Behind the last numbers there are none.
LEMMA LastRank ==
  ASSUME NEW c \in Seq(Nat \ {0}), NEW q, \A k \in 1..Len(c) : q[k] = c[k]
  PROVE  Place(c, q) = Size(c) - 1
<1>1. PICK n \in Nat : n = Len(c) /\ n + 1 \in 1..(n + 1)
  OBVIOUS
<1>2. \A k \in 1..n : q[k] \in 1..c[k]
  <2>1. ASSUME NEW k \in 1..n PROVE q[k] \in 1..c[k]
    <3>1. PICK d \in Nat \ {0} : d = c[k] /\ q[k] = d
      BY <1>1
    <3> QED  BY <3>1
  <2> QED  BY <2>1
<1>3. Before(PlaceTerms(c, q), n + 1) = Below(c, n + 1) - 1
  BY <1>1, <1>2, Carry
<1> QED  BY <1>1, <1>3 DEF Place, Size

\* One dimension advances, those below it begin anew. Those between the first and the one that
\* advances have come to the end of the array and begin at its beginning.
Renews(dims, first, p, r, up, s, z) ==
  /\ \A k \in 1..Len(dims) : p[k] \in 1..dims[k] /\ r[k] \in 1..dims[k] /\ first[k] \in 1..dims[k]
  /\ \A k \in 1..Len(dims) : k < up => r[k] = first[k]
  /\ r[up] = p[up] + s
  /\ \A k \in (up + 1)..Len(dims) : p[k] = r[k]
  /\ \A k \in 2..(up - 1) : p[k] = dims[k] /\ first[k] = 1
  /\ z \in Seq(Nat) /\ Len(z) = Len(dims)
  /\ \A k \in 1..Len(dims) : z[k] = dims[k] - p[k] + first[k] - 1

\* The way to the next element is then the distance between the places.
LEMMA OffsetRight ==
  ASSUME NEW dims \in Seq(Nat \ {0}), NEW first, NEW p, NEW r, NEW up \in 1..Len(dims), NEW s \in Nat \ {0},
         NEW z, Renews(dims, first, p, r, up, s, z)
  PROVE  Place(dims, r) = Place(dims, p) + (Before(z, up) + (1 + (s - 1) * Below(dims, up)))
<1>0. /\ \A k \in 1..Len(dims) : p[k] \in 1..dims[k] /\ r[k] \in 1..dims[k] /\ first[k] \in 1..dims[k]
      /\ \A k \in 1..Len(dims) : k < up => r[k] = first[k]
      /\ r[up] = p[up] + s
      /\ \A k \in (up + 1)..Len(dims) : p[k] = r[k]
      /\ \A k \in 2..(up - 1) : p[k] = dims[k] /\ first[k] = 1
      /\ z \in Seq(Nat) /\ Len(z) = Len(dims)
      /\ \A k \in 1..Len(dims) : z[k] = dims[k] - p[k] + first[k] - 1
  BY DEF Renews
<1>1. PICK n \in Nat : n = Len(dims) /\ up \in 1..(n + 1) /\ up \in 1..n /\ DOMAIN dims = 1..n /\ n + 1 \in 1..(n + 1)
  OBVIOUS
<1>2. PICK f, g : f = PlaceTerms(dims, p) /\ g = PlaceTerms(dims, r)
  OBVIOUS
<1>3. /\ \A i \in 1..(n + 1) : Before(f, i) \in Nat
      /\ Before(f, 1) = 0
      /\ \A i \in 1..n : Before(f, i + 1) = Before(f, i) + (p[i] - 1) * Below(dims, i)
  BY <1>0, <1>1, <1>2, PlaceSums
<1>4. /\ \A i \in 1..(n + 1) : Before(g, i) \in Nat
      /\ Before(g, 1) = 0
      /\ \A i \in 1..n : Before(g, i + 1) = Before(g, i) + (r[i] - 1) * Below(dims, i)
  BY <1>0, <1>1, <1>2, PlaceSums
<1>5. \A k \in 1..n : z[k] = dims[k] - p[k] + first[k] - 1
  BY <1>0, <1>1
<1>8. /\ \A i \in 1..(n + 1) : Before(z, i) \in Nat
      /\ Before(z, 1) = 0
      /\ \A i \in 1..n : Before(z, i + 1) = Before(z, i) + z[i]
  BY <1>0, <1>1, Sums
<1>9. /\ \A i \in 1..(n + 1) : Below(dims, i) \in Nat \ {0}
      /\ Below(dims, 1) = 1
      /\ \A i \in 1..n : Below(dims, i + 1) = Below(dims, i) * dims[i]
  BY <1>1, Products
<1> DEFINE S == {i \in 0..n : i + 1 <= up =>
                   Before(z, i + 1) + Before(f, i + 1) = Before(g, i + 1) + (Below(dims, i + 1) - 1)}
<1>10. 0 \in S
  BY <1>3, <1>4, <1>8, <1>9
<1>11. ASSUME NEW i \in 1..n, i - 1 \in S PROVE i \in S
  <2>1. (i - 1) + 1 = i /\ i \in 1..(n + 1)
    OBVIOUS
  <2>2. CASE i + 1 <= up
    <3>1. i < up /\ i <= up /\ (i = 1 \/ i \in 2..(up - 1))
      BY <1>1, <2>2
    <3>2. Before(z, i) + Before(f, i) = Before(g, i) + (Below(dims, i) - 1)
      BY <1>11, <2>1, <3>1
    <3>3. PICK Z \in Nat, F \in Nat, G \in Nat, b \in Nat \ {0} :
            Z = Before(z, i) /\ F = Before(f, i) /\ G = Before(g, i) /\ b = Below(dims, i)
      BY <1>3, <1>4, <1>8, <1>9, <2>1
    <3>4. PICK d \in Nat, x \in Nat, y \in Nat : d = dims[i] /\ x = p[i] /\ y = r[i] /\ y = first[i]
      <4>1. dims[i] \in Nat /\ p[i] \in 1..dims[i] /\ r[i] \in 1..dims[i] /\ r[i] = first[i]
        BY <1>0, <1>1, <3>1
      <4> QED  BY <4>1
    <3>5. (d - x + y - 1) + (x - 1) * b + b = (y - 1) * b + b * d
      <4>1. CASE i = 1
        <5>1. b = 1
          BY <1>9, <3>3, <4>1
        <5>2. (x - 1) * 1 = x - 1 /\ (y - 1) * 1 = y - 1 /\ 1 * d = d
          OBVIOUS
        <5>3. (d - x + y - 1) + (x - 1) + 1 = (y - 1) + d
          OBVIOUS
        <5> QED  BY <5>1, <5>2, <5>3
      <4>2. CASE i \in 2..(up - 1)
        <5>1. x = d /\ y = 1
          BY <1>0, <3>4, <4>2
        <5>2. (d - d + 1 - 1) + (d - 1) * b + b = (1 - 1) * b + b * d
          OBVIOUS
        <5> QED  BY <5>1, <5>2
      <4> QED  BY <3>1, <4>1, <4>2
    <3>6. /\ Before(z, i + 1) = Z + (d - x + y - 1)
          /\ Before(f, i + 1) = F + (x - 1) * b
          /\ Before(g, i + 1) = G + (y - 1) * b
          /\ Below(dims, i + 1) = b * d
      <4>1. Before(z, i + 1) = Z + (d - x + y - 1)
        BY <1>5, <1>8, <3>3, <3>4
      <4>2. Before(f, i + 1) = F + (x - 1) * b
        BY <1>3, <3>3, <3>4
      <4>3. Before(g, i + 1) = G + (y - 1) * b
        BY <1>4, <3>3, <3>4
      <4>4. Below(dims, i + 1) = b * d
        BY <1>9, <3>3, <3>4
      <4> QED  BY <4>1, <4>2, <4>3, <4>4
    <3>7. PICK u \in Int, xb \in Int, yb \in Int, bd \in Int :
            u = d - x + y - 1 /\ xb = (x - 1) * b /\ yb = (y - 1) * b /\ bd = b * d
      OBVIOUS
    <3>8. u + xb + b = yb + bd /\ Z + F = G + (b - 1)
      BY <3>2, <3>3, <3>5, <3>7
    <3>9. (Z + u) + (F + xb) = (G + yb) + (bd - 1)
      BY <3>8
    <3>10. Before(z, i + 1) + Before(f, i + 1) = Before(g, i + 1) + (Below(dims, i + 1) - 1)
      BY <3>6, <3>7, <3>9
    <3> QED  BY <3>10
  <2>3. CASE ~(i + 1 <= up)
    BY <2>3
  <2> QED  BY <2>2, <2>3
<1> HIDE DEF S
<1>12. 0..n \subseteq S
  BY <1>10, <1>11, UpTo
<1>13. Before(z, up) + Before(f, up) = Before(g, up) + (Below(dims, up) - 1)
  <2>1. up - 1 \in 0..n /\ (up - 1) + 1 = up /\ up <= up
    BY <1>1
  <2>2. up - 1 \in S
    BY <1>12, <2>1
  <2> QED  BY <2>1, <2>2 DEF S
<1>14. Place(dims, r) + Before(f, up) = Place(dims, p) + Before(g, up) + s * Below(dims, up)
  <2>1. \A k \in 1..Len(dims) : p[k] \in 1..dims[k] /\ r[k] \in 1..dims[k]
    BY <1>0
  <2>2. PICK t \in Nat : t = s
    OBVIOUS
  <2>3. r[up] = p[up] + t
    BY <1>0, <2>2
  <2>4. \A k \in (up + 1)..Len(dims) : p[k] = r[k]
    BY <1>0
  <2>5. Advances(dims, p, r, up, t)
    BY <2>1, <2>3, <2>4 DEF Advances
  <2>6. Place(dims, r) + Before(PlaceTerms(dims, p), up)
          = Place(dims, p) + Before(PlaceTerms(dims, r), up) + t * Below(dims, up)
    BY <2>5, PlacesApart
  <2> QED  BY <1>2, <2>2, <2>6
<1>15. PICK P \in Nat, R \in Nat, b \in Nat, Z \in Nat, F \in Nat, G \in Nat :
         /\ P = Place(dims, p) /\ R = Place(dims, r) /\ b = Below(dims, up)
         /\ Z = Before(z, up) /\ F = Before(f, up) /\ G = Before(g, up)
  <2>1. Place(dims, p) \in Nat
    BY <1>0, <1>1, PlaceSums DEF Place
  <2>2. Place(dims, r) \in Nat
    BY <1>0, <1>1, PlaceSums DEF Place
  <2>3. Below(dims, up) \in Nat
    BY <1>1, <1>9
  <2> QED  BY <1>1, <1>3, <1>4, <1>8, <2>1, <2>2, <2>3
<1>16. PICK sb \in Nat : sb = s * b /\ (s - 1) * b = sb - b
  OBVIOUS
<1>17. Z + F = G + (b - 1) /\ R + F = P + G + sb
  BY <1>13, <1>14, <1>15, <1>16
<1>18. R = P + (Z + (1 + (sb - b)))
  BY <1>17
<1> QED  BY <1>15, <1>16, <1>18

\* Between the first dimension and one that advances, a selection has the whole array, unless it
\* leaves out something.
LEMMA WholeBetween ==
  ASSUME NEW dims \in Seq(Nat \ {0}), NEW sel, SelectionIn(dims, sel), ~LeavesOut(dims, sel),
         NEW up \in 1..Len(dims), sel.first[up] + sel.stride[up] <= sel.last[up], NEW k \in 2..(up - 1)
  PROVE  /\ sel.first[k] = 1
         /\ sel.last[k] - ((sel.last[k] - sel.first[k]) % sel.stride[k]) >= dims[k]
<1>1. k \in 1..Len(dims) /\ k \in 2..(Len(dims) - 1) /\ up \in (k + 1)..Len(dims)
  OBVIOUS
<1>2. PICK d \in Nat, a \in Nat, b \in Nat, s \in Nat \ {0} :
        d = dims[k] /\ a = sel.first[k] /\ b = sel.last[k] /\ s = sel.stride[k] /\ 1 <= a
  <2>1. dims[k] \in Nat
    BY <1>1
  <2>2. sel.first[k] \in 1..dims[k] /\ sel.last[k] \in 1..dims[k] /\ sel.stride[k] \in Nat \ {0}
    BY <1>1 DEF SelectionIn
  <2>3. sel.first[k] \in Nat /\ 1 <= sel.first[k] /\ sel.last[k] \in Nat
    BY <2>1, <2>2
  <2> QED  BY <2>1, <2>2, <2>3
<1>3. ~(sel.first[k] > 1 \/ sel.last[k] - ((sel.last[k] - sel.first[k]) % sel.stride[k]) < dims[k])
  BY <1>1 DEF LeavesOut
<1>4. PICK r \in Int : r = (b - a) % s
  OBVIOUS
<1>5. ~(a > 1) /\ ~(b - r < d)
  BY <1>2, <1>3, <1>4
<1>6. a = 1 /\ b - r >= d
  <2>1. 1 <= a
    BY <1>2
  <2> QED  BY <1>5, <2>1
<1> QED  BY <1>2, <1>4, <1>6

\* A step of the walk leads to the element with the next number, except from the last one.
LEMMA WalkStep ==
  ASSUME NEW dims \in Seq(Nat \ {0}), NEW sel, SelectionIn(dims, sel), ~LeavesOut(dims, sel),
         NEW q, Numbers(dims, sel, q)
  PROVE  \/ Place(Lengths(dims, sel), q) = Size(Lengths(dims, sel)) - 1
         \/ \E r : /\ Numbers(dims, sel, r)
                   /\ NextPosition(dims, sel, At(dims, sel, q)) = At(dims, sel, r)
                   /\ Place(Lengths(dims, sel), r) = Place(Lengths(dims, sel), q) + 1
                   /\ Place(dims, At(dims, sel, r))
                        = Place(dims, At(dims, sel, q)) + NextOffset(dims, sel, At(dims, sel, q))
                   /\ Place(dims, At(dims, sel, q)) < Place(dims, At(dims, sel, r))
<1>1. PICK n \in Nat : n = Len(dims) /\ DOMAIN dims = 1..n
  OBVIOUS
<1>2. PICK c \in Seq(Nat \ {0}) : c = Lengths(dims, sel) /\ Len(c) = n
  BY <1>1, LengthsAre
<1>3. \A k \in 1..n : q[k] \in 1..c[k] /\ c[k] \in Nat \ {0}
  BY <1>1, <1>2 DEF Numbers
<1>4. PICK p \in Positions(dims) :
        /\ p = At(dims, sel, q)
        /\ \A k \in 1..n : /\ p[k] = sel.first[k] + (q[k] - 1) * sel.stride[k]
                           /\ p[k] \in 1..dims[k]
                           /\ k \in Advancing(dims, sel, p) <=> q[k] < c[k]
  BY <1>1, <1>2, NumberedPosition
<1>5. PICK up \in 1..(n + 1) :
        /\ up = Up(dims, sel, p)
        /\ up \in 1..n => up \in Advancing(dims, sel, p)
        /\ \A k \in Advancing(dims, sel, p) : up <= k
  BY <1>1, UpIs
<1>6. ASSUME NEW k \in 1..n, k < up PROVE q[k] = c[k]
  <2>1. ~(up <= k)
    BY <1>6
  <2>2. ~(q[k] < c[k])
    BY <1>4, <1>5, <2>1
  <2>3. PICK d \in Nat, x \in Nat : d = c[k] /\ x = q[k] /\ x <= d
    BY <1>3
  <2> QED  BY <2>2, <2>3
<1>7. CASE up = n + 1
  <2>1. \A k \in 1..n : k < up
    BY <1>7
  <2>2. \A k \in 1..Len(c) : q[k] = c[k]
    BY <1>2, <1>6, <2>1
  <2>3. Place(c, q) = Size(c) - 1
    BY <2>2, LastRank
  <2> QED  BY <1>2, <2>3
<1>8. CASE up \in 1..n
  <2>1. q[up] < c[up] /\ up \in Advancing(dims, sel, p)
    BY <1>4, <1>5, <1>8
  <2>2. PICK r : r = [k \in 1..n |-> IF k < up THEN 1 ELSE IF k = up THEN q[k] + 1 ELSE q[k]]
    OBVIOUS
  <2>3. (\A k \in 1..n : r[k] \in 1..c[k]) /\ Place(c, r) = Place(c, q) + 1
    <3>1. \A k \in 1..Len(c) : q[k] \in 1..c[k]
      BY <1>2, <1>3
    <3>2. \A k \in 1..Len(c) : k < up => q[k] = c[k]
      BY <1>2, <1>6
    <3>3. \A k \in 1..Len(c) : r[k] = IF k < up THEN 1 ELSE IF k = up THEN q[k] + 1 ELSE q[k]
      BY <1>2, <2>2
    <3>4. up \in 1..Len(c)
      BY <1>2, <1>8
    <3>5. (\A k \in 1..Len(c) : r[k] \in 1..c[k]) /\ Place(c, r) = Place(c, q) + 1
      BY <2>1, <3>1, <3>2, <3>3, <3>4, NextRank
    <3> QED  BY <1>2, <3>5
  <2>4. Numbers(dims, sel, r)
    BY <1>1, <1>2, <2>3 DEF Numbers
  <2>5. PICK p2 \in Positions(dims) :
          /\ p2 = At(dims, sel, r)
          /\ \A k \in 1..n : /\ p2[k] = sel.first[k] + (r[k] - 1) * sel.stride[k]
                             /\ p2[k] \in 1..dims[k]
    BY <1>1, <2>4, NumberedPosition
  <2>6. \A k \in 1..n : /\ sel.first[k] \in Nat /\ sel.stride[k] \in Nat \ {0}
                        /\ sel.first[k] \in 1..dims[k] /\ sel.last[k] \in Nat
    <3>1. ASSUME NEW k \in 1..n
          PROVE  /\ sel.first[k] \in Nat /\ sel.stride[k] \in Nat \ {0}
                 /\ sel.first[k] \in 1..dims[k] /\ sel.last[k] \in Nat
      <4>1. /\ sel.first[k] \in 1..dims[k] /\ sel.last[k] \in 1..dims[k] /\ sel.stride[k] \in Nat \ {0}
            /\ dims[k] \in Nat
        BY <1>1 DEF SelectionIn
      <4> QED  BY <4>1
    <3> QED  BY <3>1
  <2>7. ASSUME NEW k \in 1..n
        PROVE  p2[k] = IF k < up THEN sel.first[k] ELSE IF k = up THEN p[k] + sel.stride[k] ELSE p[k]
    <3>1. PICK a \in Nat, s \in Nat, x \in Nat : a = sel.first[k] /\ s = sel.stride[k] /\ x = q[k]
      BY <1>3, <2>6
    <3>2. p2[k] = a + (r[k] - 1) * s /\ p[k] = a + (x - 1) * s
      BY <1>4, <2>5, <3>1
    <3>3. CASE k < up
      <4>1. r[k] = 1
        BY <2>2, <3>3
      <4>2. (1 - 1) * s = 0
        OBVIOUS
      <4> QED  BY <3>1, <3>2, <3>3, <4>1, <4>2
    <3>4. CASE ~(k < up) /\ k = up
      <4>1. r[k] = x + 1
        BY <2>2, <3>1, <3>4
      <4>2. ((x + 1) - 1) * s = (x - 1) * s + s /\ (x - 1) * s \in Int
        OBVIOUS
      <4>3. PICK xs \in Int : xs = (x - 1) * s
        OBVIOUS
      <4>4. p2[k] = a + (xs + s) /\ p[k] = a + xs
        BY <3>2, <4>1, <4>2, <4>3
      <4>5. p2[k] = p[k] + s
        BY <4>4
      <4> QED  BY <3>1, <3>4, <4>5
    <3>5. CASE ~(k < up) /\ k # up
      <4>1. r[k] = x
        BY <2>2, <3>1, <3>5
      <4> QED  BY <3>2, <3>5, <4>1
    <3> QED  BY <3>3, <3>4, <3>5
  <2>8. NextPosition(dims, sel, p) = p2
    <3>1. NextPosition(dims, sel, p)
            = [k \in 1..n |-> IF k < up THEN sel.first[k] ELSE IF k = up THEN p[k] + sel.stride[k] ELSE p[k]]
      BY <1>1, <1>5 DEF NextPosition, Up
    <3>2. p2 = [k \in 1..n |-> p2[k]]
      BY <1>1 DEF Positions
    <3> QED  BY <2>7, <3>1, <3>2
  <2>9. PICK s \in Nat \ {0} : s = sel.stride[up]
    BY <1>8, <2>6
  <2>10. p2[up] = p[up] + s
    BY <1>8, <2>7, <2>9
  <2>11. \A k \in 1..n : k < up => p2[k] = sel.first[k]
    BY <2>7
  <2>12. \A k \in (up + 1)..n : p[k] = p2[k]
    <3>1. ASSUME NEW k \in (up + 1)..n PROVE p[k] = p2[k]
      <4>1. k \in 1..n /\ ~(k < up) /\ k # up
        BY <1>8
      <4> QED  BY <2>7, <4>1
    <3> QED  BY <3>1
  <2>13. sel.first[up] + sel.stride[up] <= sel.last[up]
    <3>1. PICK a \in Nat, t \in Nat, l \in Nat, x \in Nat :
            a = sel.first[up] /\ t = sel.stride[up] /\ l = sel.last[up] /\ x = p[up]
      <4>1. p[up] \in 1..dims[up] /\ dims[up] \in Nat
        BY <1>1, <1>4, <1>8
      <4>2. p[up] \in Nat
        BY <4>1
      <4> QED  BY <1>8, <2>6, <4>2
    <3>2. x + t <= l
      BY <2>1, <3>1 DEF Advancing
    <3>3. a <= x
      <4>1. PICK y \in Nat : y = q[up] - 1
        BY <1>3, <1>8
      <4>2. p[up] = sel.first[up] + (q[up] - 1) * sel.stride[up]
        BY <1>4, <1>8
      <4>3. x = a + y * t
        BY <3>1, <4>1, <4>2
      <4>4. PICK yt \in Nat : yt = y * t
        OBVIOUS
      <4>5. x = a + yt
        BY <4>3, <4>4
      <4> QED  BY <4>5
    <3>4. a + t <= l
      BY <3>2, <3>3
    <3> QED  BY <3>1, <3>4
  <2>14. ASSUME NEW k \in 2..(up - 1) PROVE p[k] = dims[k] /\ sel.first[k] = 1
    <3>1. k \in 1..n /\ k < up /\ up \in 1..Len(dims)
      BY <1>1, <1>8
    <3>2. q[k] = c[k]
      BY <1>6, <3>1
    <3>3. /\ sel.first[k] = 1
          /\ sel.last[k] - ((sel.last[k] - sel.first[k]) % sel.stride[k]) >= dims[k]
      BY <2>13, <3>1, WholeBetween
    <3>4. p[k] = sel.last[k] - ((sel.last[k] - sel.first[k]) % sel.stride[k])
      BY <1>1, <1>2, <1>3, <1>4, <3>1, <3>2, NumberedIndex
    <3>5. p[k] \in 1..dims[k] /\ dims[k] \in Nat
      BY <1>1, <1>4, <3>1
    <3>6. p[k] >= dims[k]
      BY <3>3, <3>4
    <3>7. p[k] = dims[k]
      BY <3>5, <3>6
    <3> QED  BY <3>3, <3>7
  <2>15. Place(dims, p2) = Place(dims, p) + NextOffset(dims, sel, p)
    <3>1. \A k \in 1..Len(dims) : p[k] \in 1..dims[k] /\ p2[k] \in 1..dims[k] /\ sel.first[k] \in 1..dims[k]
      BY <1>1, <1>4, <2>5, <2>6
    <3>2. PICK first, z : first = sel.first /\ z = [k \in DOMAIN dims |-> dims[k] - p[k] + first[k] - 1]
      OBVIOUS
    <3>3. Place(dims, p2) = Place(dims, p) + (Before(z, up) + (1 + (s - 1) * Below(dims, up)))
      <4>1. \A k \in 1..Len(dims) : p[k] \in 1..dims[k] /\ p2[k] \in 1..dims[k] /\ first[k] \in 1..dims[k]
        BY <3>1, <3>2
      <4>2. \A k \in 1..Len(dims) : k < up => p2[k] = first[k]
        BY <1>1, <2>11, <3>2
      <4>3. \A k \in (up + 1)..Len(dims) : p[k] = p2[k]
        BY <1>1, <2>12
      <4>4. \A k \in 2..(up - 1) : p[k] = dims[k] /\ first[k] = 1
        BY <2>14, <3>2
      <4>5. up \in 1..Len(dims)
        BY <1>1, <1>8
      <4>6. ASSUME NEW k \in 1..Len(dims) PROVE z[k] \in Nat /\ z[k] = dims[k] - p[k] + first[k] - 1
        <5>1. PICK d \in Nat, x \in Nat, y \in Nat : d = dims[k] /\ x = p[k] /\ y = first[k] /\ x <= d /\ 1 <= y
          <6>1. dims[k] \in Nat /\ p[k] \in 1..dims[k] /\ first[k] \in 1..dims[k]
            BY <4>1
          <6> QED  BY <6>1
        <5>2. \A i, j, l \in Nat : j <= i /\ 1 <= l => i - j + l - 1 \in Nat
          OBVIOUS
        <5>3. z[k] = d - x + y - 1
          BY <3>2, <5>1
        <5>4. z[k] \in Nat
          <6>1. x <= d /\ 1 <= y
            BY <5>1
          <6>2. PICK m \in Nat : m = d - x + y - 1
            BY <5>2, <6>1
          <6> QED  BY <5>3, <6>2
        <5>5. z[k] = dims[k] - p[k] + first[k] - 1
          BY <5>1, <5>3
        <5> QED  BY <5>4, <5>5
      <4>7. z \in Seq(Nat) /\ Len(z) = Len(dims)
        <5>1. z = [k \in 1..n |-> z[k]] /\ \A k \in 1..n : z[k] \in Nat
          BY <1>1, <3>2, <4>6
        <5>2. z \in Seq(Nat) /\ Len(z) = n
          BY <5>1, IsSequence
        <5> QED  BY <1>1, <5>2
      <4>8. Renews(dims, first, p, p2, up, s, z)
        BY <2>10, <4>1, <4>2, <4>3, <4>4, <4>6, <4>7 DEF Renews
      <4> QED  BY <4>5, <4>8, OffsetRight
    <3>4. NextOffset(dims, sel, p) = Before(z, up) + (1 + (s - 1) * Below(dims, up))
      BY <1>1, <1>5, <1>8, <2>9, <3>2 DEF NextOffset, Up
    <3> QED  BY <3>3, <3>4
  <2>16. Place(dims, p) < Place(dims, p2)
    <3>1. \A k \in 1..Len(dims) : p[k] \in 1..dims[k] /\ p2[k] \in 1..dims[k]
      BY <1>1, <1>4, <2>5
    <3>2. p[up] < p2[up]
      <4>1. PICK x \in Nat : x = p[up]
        <5>1. p[up] \in 1..dims[up] /\ dims[up] \in Nat
          BY <1>1, <1>4, <1>8
        <5> QED  BY <5>1
      <4> QED  BY <2>10, <4>1
    <3>3. up \in 1..Len(dims) /\ \A k \in (up + 1)..Len(dims) : p[k] = p2[k]
      BY <1>1, <1>8, <2>12
    <3> QED  BY <3>1, <3>2, <3>3, HigherPlace
  <2> QED  BY <1>2, <1>4, <2>3, <2>4, <2>5, <2>8, <2>15, <2>16
<1> QED  BY <1>5, <1>7, <1>8

\* The first element, with the first number of each dimension.
LEMMA WalkStart ==
  ASSUME NEW dims \in Seq(Nat \ {0}), NEW sel, SelectionIn(dims, sel)
  PROVE  \E q : /\ Numbers(dims, sel, q)
                /\ sel.first = At(dims, sel, q)
                /\ Place(Lengths(dims, sel), q) = 0
                /\ StartOffset(dims, sel) = Place(dims, At(dims, sel, q))
<1>1. PICK n \in Nat : n = Len(dims) /\ DOMAIN dims = 1..n /\ n + 1 \in 1..(n + 1)
  OBVIOUS
<1>2. PICK c \in Seq(Nat \ {0}) : c = Lengths(dims, sel) /\ Len(c) = n
  BY <1>1, LengthsAre
<1>3. PICK q : q = [k \in 1..n |-> 1]
  OBVIOUS
<1>4. \A k \in 1..n : q[k] = 1 /\ q[k] \in 1..c[k]
  <2>1. ASSUME NEW k \in 1..n PROVE q[k] = 1 /\ q[k] \in 1..c[k]
    <3>1. PICK d \in Nat \ {0} : d = c[k]
      BY <1>2
    <3>2. 1 \in 1..d
      OBVIOUS
    <3> QED  BY <1>3, <3>1, <3>2
  <2> QED  BY <2>1
<1>5. Numbers(dims, sel, q)
  BY <1>1, <1>2, <1>4 DEF Numbers
<1>6. sel.first = At(dims, sel, q)
  <2>1. PICK p : p = At(dims, sel, q)
    OBVIOUS
  <2>2. p = [k \in 1..n |-> sel.first[k] + (q[k] - 1) * sel.stride[k]]
    BY <1>1, <2>1 DEF At
  <2>3. ASSUME NEW k \in 1..n PROVE p[k] = sel.first[k]
    <3>1. PICK a \in Nat, s \in Nat : a = sel.first[k] /\ s = sel.stride[k]
      <4>1. sel.first[k] \in 1..dims[k] /\ sel.stride[k] \in Nat \ {0} /\ dims[k] \in Nat
        BY <1>1 DEF SelectionIn
      <4> QED  BY <4>1
    <3>2. p[k] = a + (1 - 1) * s
      BY <1>4, <2>2, <3>1
    <3>3. a + (1 - 1) * s = a
      OBVIOUS
    <3> QED  BY <3>1, <3>2, <3>3
  <2>4. p = [k \in 1..n |-> sel.first[k]]
    BY <2>2, <2>3
  <2>5. sel.first = [k \in 1..n |-> sel.first[k]]
    BY <1>1 DEF SelectionIn
  <2> QED  BY <2>1, <2>4, <2>5
<1>7. Place(c, q) = 0
  <2>1. \A k \in 1..Len(c) : q[k] \in 1..c[k]
    BY <1>2, <1>4
  <2>2. \A k \in 1..Len(c) : k < n + 1 => q[k] = 1
    BY <1>2, <1>4
  <2>3. n + 1 \in 1..(Len(c) + 1)
    BY <1>1, <1>2
  <2>4. Before(PlaceTerms(c, q), n + 1) = 0
    BY <2>1, <2>2, <2>3, Anew
  <2> QED  BY <1>2, <2>4 DEF Place
<1>8. StartOffset(dims, sel) = Place(dims, sel.first)
  BY DEF StartOffset, Place, PlaceTerms
<1> QED  BY <1>2, <1>5, <1>6, <1>7, <1>8

\* The i-th element of the walk is that with the i-th numbers, and lies behind the one before.
LEMMA WalkNumbered ==
  ASSUME NEW dims \in Seq(Nat \ {0}), NEW sel, SelectionIn(dims, sel), ~LeavesOut(dims, sel)
  PROVE  /\ \A i \in 1..Count(dims, sel) :
              \E q : /\ Numbers(dims, sel, q)
                     /\ Place(Lengths(dims, sel), q) = i - 1
                     /\ Walk(dims, sel)[i] = Place(dims, At(dims, sel, q))
         /\ \A i \in 2..Count(dims, sel) : Walk(dims, sel)[i - 1] < Walk(dims, sel)[i]
<1>1. PICK n \in Nat : n = Count(dims, sel)
  BY CountIs
<1>2. PICK c : c = Lengths(dims, sel)
  OBVIOUS
<1>3. n = Size(c)
  BY <1>1, <1>2, LengthsAre
<1>4. PICK w : w = Walk(dims, sel)
  OBVIOUS
<1>5. PICK pos : \A i \in 1..n :
        /\ pos[i] = IF i = 1 THEN sel.first ELSE NextPosition(dims, sel, pos[i - 1])
        /\ w[i] = IF i = 1 THEN StartOffset(dims, sel) ELSE w[i - 1] + NextOffset(dims, sel, pos[i - 1])
  BY <1>1, <1>4, WalkIs
<1> DEFINE At2(i, q) == /\ Numbers(dims, sel, q)
                        /\ pos[i] = At(dims, sel, q)
                        /\ Place(c, q) = i - 1
                        /\ w[i] = Place(dims, At(dims, sel, q))
           S == {i \in 0..n : i = 0 \/ \E q : At2(i, q)}
<1>6. 0 \in S
  OBVIOUS
<1>7. ASSUME NEW i \in 2..n, NEW q, At2(i - 1, q)
      PROVE  w[i - 1] < w[i] /\ \E r : At2(i, r)
  <2>1. i \in 1..n /\ i # 1 /\ (i - 1) - 1 # n - 1 /\ ((i - 1) - 1) + 1 = i - 1
    OBVIOUS
  <2>2. Place(c, q) # Size(c) - 1
    BY <1>3, <1>7, <2>1
  <2>3. PICK r : /\ Numbers(dims, sel, r)
                 /\ NextPosition(dims, sel, At(dims, sel, q)) = At(dims, sel, r)
                 /\ Place(c, r) = Place(c, q) + 1
                 /\ Place(dims, At(dims, sel, r))
                      = Place(dims, At(dims, sel, q)) + NextOffset(dims, sel, At(dims, sel, q))
                 /\ Place(dims, At(dims, sel, q)) < Place(dims, At(dims, sel, r))
    BY <1>2, <1>7, <2>2, WalkStep
  <2>4. pos[i] = At(dims, sel, r)
    BY <1>5, <1>7, <2>1, <2>3
  <2>5. w[i] = Place(dims, At(dims, sel, r))
    BY <1>5, <1>7, <2>1, <2>3
  <2>6. Place(c, r) = i - 1
    BY <1>7, <2>1, <2>3
  <2>7. w[i - 1] < w[i]
    BY <1>7, <2>3, <2>5
  <2> QED  BY <2>3, <2>4, <2>5, <2>6, <2>7
<1>8. ASSUME NEW i \in 1..n, i - 1 \in S PROVE i \in S
  <2>1. CASE i = 1
    <3>1. PICK q : /\ Numbers(dims, sel, q)
                   /\ sel.first = At(dims, sel, q)
                   /\ Place(c, q) = 0
                   /\ StartOffset(dims, sel) = Place(dims, At(dims, sel, q))
      BY <1>2, WalkStart
    <3>2. pos[1] = sel.first /\ w[1] = StartOffset(dims, sel) /\ 1 - 1 = 0
      BY <1>5, <2>1
    <3>3. At2(1, q)
      BY <3>1, <3>2
    <3> HIDE DEF At2
    <3> QED  BY <2>1, <3>3
  <2>2. CASE i # 1
    <3>1. i \in 2..n /\ i - 1 # 0
      BY <2>2
    <3> HIDE DEF At2
    <3>2. PICK q : At2(i - 1, q)
      BY <1>8, <3>1
    <3>3. PICK r : At2(i, r)
      BY <1>7, <3>1, <3>2
    <3> QED  BY <3>3
  <2> QED  BY <2>1, <2>2
<1> HIDE DEF At2, S
<1>9. 0..n \subseteq S
  BY <1>6, <1>8, UpTo
<1>10. ASSUME NEW i \in 1..n PROVE \E q : At2(i, q)
  <2>1. i \in S /\ i # 0
    BY <1>9
  <2> QED  BY <2>1 DEF S
<1>11. ASSUME NEW i \in 2..n PROVE w[i - 1] < w[i]
  <2>1. i - 1 \in 1..n
    OBVIOUS
  <2>2. PICK q : At2(i - 1, q)
    BY <1>10, <2>1
  <2> QED  BY <1>7, <2>2
<1>12. ASSUME NEW i \in 1..n
       PROVE  \E q : /\ Numbers(dims, sel, q)
                     /\ Place(c, q) = i - 1
                     /\ w[i] = Place(dims, At(dims, sel, q))
  BY <1>10 DEF At2
<1> QED  BY <1>1, <1>2, <1>4, <1>11, <1>12

\* The positions of a selection are those with numbers.
LEMMA IndicesNumbered ==
  ASSUME NEW dims \in Seq(Nat \ {0}), NEW sel \in Selections(dims)
  PROVE  /\ \A q : Numbers(dims, sel, q) => At(dims, sel, q) \in Indices(dims, sel)
         /\ \A p \in Indices(dims, sel) : \E q : Numbers(dims, sel, q) /\ p = At(dims, sel, q)
<1>1. PICK n \in Nat : n = Len(dims) /\ DOMAIN dims = 1..n
  OBVIOUS
<1>2. SelectionIn(dims, sel)
  BY SelectionsIn
<1>3. n >= 1
  BY <1>1 DEF Selections, ValidSelection
<1>4. PICK most \in Nat : most = Max({dims[k] : k \in DOMAIN dims}) /\ \A k \in 1..n : dims[k] <= most
  <2>1. PICK S : S = {dims[k] : k \in DOMAIN dims}
    OBVIOUS
  <2>2. dims \in Seq(Nat) /\ \A k \in 1..n : dims[k] \in Nat
    BY <1>1
  <2>3. PICK m \in Nat : m = Before(dims, n + 1)
    BY <1>1, <2>2, Sums
  <2>4. ASSUME NEW k \in 1..n PROVE dims[k] \in 0..m
    <3>1. k \in 1..(n + 1) /\ k + 1 \in 1..(n + 1) /\ n + 1 \in 1..(n + 1) /\ k + 1 <= n + 1
      BY <1>1
    <3>2. Before(dims, k + 1) = Before(dims, k) + dims[k] /\ Before(dims, k) \in Nat
      BY <1>1, <2>2, <3>1, Sums
    <3>3. Before(dims, k + 1) <= m
      BY <1>1, <2>2, <2>3, <3>1, SumsGrow
    <3>4. PICK d \in Nat : d = dims[k]
      BY <2>2
    <3>5. d <= m
      BY <3>2, <3>3, <3>4
    <3> QED  BY <3>4, <3>5
  <2>5. S \in SUBSET (0..m) /\ S # {}
    <3>1. S \subseteq 0..m
      BY <1>1, <2>1, <2>4
    <3>2. 1 \in DOMAIN dims
      BY <1>1, <1>3
    <3> QED  BY <2>1, <3>1, <3>2
  <2>6. Max(S) \in S /\ \A x \in S : x <= Max(S)
    BY <2>5, GreatestUpTo
  <2>7. Max(S) \in Nat
    <3>1. PICK x \in S : x = Max(S)
      BY <2>6
    <3>2. x \in 0..m
      BY <2>5
    <3> QED  BY <3>1, <3>2
  <2>8. \A k \in 1..n : dims[k] \in S
    BY <1>1, <2>1
  <2> QED  BY <2>1, <2>6, <2>7, <2>8
<1>5. ASSUME NEW q, Numbers(dims, sel, q) PROVE At(dims, sel, q) \in Indices(dims, sel)
  <2>1. PICK p : p = At(dims, sel, q)
    OBVIOUS
  <2>2. ASSUME NEW k \in 1..n
        PROVE  p[k] \in 1..most /\ p[k] \in sel.first[k]..sel.last[k] /\ (p[k] - sel.first[k]) % sel.stride[k] = 0
    <3>1. p[k] = sel.first[k] + (q[k] - 1) * sel.stride[k] /\ p[k] \in 1..dims[k]
      BY <1>1, <1>2, <1>5, <2>1, NumberedPosition
    <3>2. q[k] \in 1..Lengths(dims, sel)[k]
      BY <1>1, <1>5 DEF Numbers
    <3>3. p[k] \in sel.first[k]..sel.last[k] /\ (p[k] - sel.first[k]) % sel.stride[k] = 0
      BY <1>1, <1>2, <3>1, <3>2, NumberedIndex
    <3>4. p[k] \in 1..most
      <4>0. dims[k] \in Nat /\ dims[k] <= most
        BY <1>1, <1>4
      <4>1. PICK d \in Nat : d = dims[k] /\ d <= most
        BY <4>0
      <4> QED  BY <3>1, <4>1
    <3> QED  BY <3>3, <3>4
  <2>3. p = [k \in 1..n |-> p[k]]
    BY <1>1, <2>1 DEF At
  <2>4. p \in [DOMAIN dims -> 1..most]
    BY <1>1, <2>2, <2>3
  <2> QED  BY <1>1, <1>4, <2>1, <2>2, <2>4 DEF Indices
<1>6. ASSUME NEW p \in Indices(dims, sel) PROVE \E q : Numbers(dims, sel, q) /\ p = At(dims, sel, q)
  <2>1. p = [k \in 1..n |-> p[k]]
    BY <1>1 DEF Indices
  <2>2. ASSUME NEW k \in 1..n
        PROVE  \E t \in 1..Lengths(dims, sel)[k] : p[k] = sel.first[k] + (t - 1) * sel.stride[k]
    <3>1. p[k] \in sel.first[k]..sel.last[k] /\ (p[k] - sel.first[k]) % sel.stride[k] = 0
      BY <1>1 DEF Indices
    <3>2. k \in 1..Len(dims)
      BY <1>1
    <3>3. PICK x : x = p[k]
      OBVIOUS
    <3>4. \E t \in 1..Lengths(dims, sel)[k] : x = sel.first[k] + (t - 1) * sel.stride[k]
      BY <1>2, <3>1, <3>2, <3>3, IndexNumbered
    <3> QED  BY <3>3, <3>4
  <2> DEFINE q == [k \in 1..n |-> CHOOSE t \in 1..Lengths(dims, sel)[k] : p[k] = sel.first[k] + (t - 1) * sel.stride[k]]
  <2>3. ASSUME NEW k \in 1..n
        PROVE  q[k] \in 1..Lengths(dims, sel)[k] /\ p[k] = sel.first[k] + (q[k] - 1) * sel.stride[k]
    <3>1. q[k] = CHOOSE t \in 1..Lengths(dims, sel)[k] : p[k] = sel.first[k] + (t - 1) * sel.stride[k]
      OBVIOUS
    <3> HIDE DEF q
    <3>2. PICK x : x = CHOOSE t \in 1..Lengths(dims, sel)[k] : p[k] = sel.first[k] + (t - 1) * sel.stride[k]
      OBVIOUS
    <3>3. x \in 1..Lengths(dims, sel)[k] /\ p[k] = sel.first[k] + (x - 1) * sel.stride[k]
      BY <2>2, <3>2
    <3> QED  BY <3>1, <3>2, <3>3
  <2> HIDE DEF q
  <2>4. Numbers(dims, sel, q)
    BY <1>1, <2>3 DEF Numbers
  <2>5. p = At(dims, sel, q)
    <3>1. At(dims, sel, q) = [k \in 1..n |-> sel.first[k] + (q[k] - 1) * sel.stride[k]]
      BY <1>1 DEF At
    <3> QED  BY <2>1, <2>3, <3>1
  <2> QED  BY <2>4, <2>5
<1> QED  BY <1>5, <1>6

\* The walk over a selection that leaves out nothing between is the selection, in its order.
LEMMA WalkIsSelected ==
  ASSUME NEW dims \in Seq(Nat \ {0}), NEW sel \in Selections(dims), ~LeavesOut(dims, sel)
  PROVE  Walk(dims, sel) = Selected(dims, sel)
<1>1. SelectionIn(dims, sel)
  BY SelectionsIn
<1>2. PICK n \in Nat : n = Count(dims, sel)
  BY <1>1, CountIs
<1>3. PICK c \in Seq(Nat \ {0}) : c = Lengths(dims, sel) /\ n = Size(c) /\ Len(c) = Len(dims)
  BY <1>1, <1>2, LengthsAre
<1>4. PICK w : w = Walk(dims, sel)
  OBVIOUS
<1>5. w = [i \in 1..n |-> w[i]]
  BY <1>2, <1>4 DEF Walk
<1>6. \A i \in 1..n : w[i] \in Nat
  <2>1. DOMAIN w = 1..n
    BY <1>5
  <2> QED  BY <1>1, <1>4, <2>1, WalkIs
<1>7. /\ \A i \in 1..n : \E q : /\ Numbers(dims, sel, q)
                                /\ Place(c, q) = i - 1
                                /\ w[i] = Place(dims, At(dims, sel, q))
      /\ \A i \in 2..n : w[i - 1] < w[i]
  <2>1. /\ \A i \in 1..Count(dims, sel) :
              \E q : /\ Numbers(dims, sel, q)
                     /\ Place(Lengths(dims, sel), q) = i - 1
                     /\ Walk(dims, sel)[i] = Place(dims, At(dims, sel, q))
        /\ \A i \in 2..Count(dims, sel) : Walk(dims, sel)[i - 1] < Walk(dims, sel)[i]
    BY <1>1, WalkNumbered
  <2> QED  BY <1>2, <1>3, <1>4, <2>1
<1>8. PICK at : at = {Place(dims, p) : p \in Indices(dims, sel)}
  OBVIOUS
<1>9. PICK S : S = {w[i] : i \in 1..n}
  OBVIOUS
<1>10. S \subseteq at
  <2>1. ASSUME NEW i \in 1..n PROVE w[i] \in at
    <3>1. PICK q : Numbers(dims, sel, q) /\ w[i] = Place(dims, At(dims, sel, q))
      BY <1>7
    <3>2. At(dims, sel, q) \in Indices(dims, sel)
      BY <3>1, IndicesNumbered
    <3> QED  BY <1>8, <3>1, <3>2
  <2> QED  BY <1>9, <2>1
<1>11. at \subseteq S
  <2>1. ASSUME NEW p \in Indices(dims, sel) PROVE Place(dims, p) \in S
    <3>1. PICK q : Numbers(dims, sel, q) /\ p = At(dims, sel, q)
      BY IndicesNumbered
    <3>2. \A k \in 1..Len(c) : q[k] \in 1..c[k]
      BY <1>3, <3>1 DEF Numbers
    <3>3. PICK j \in Nat : j = Place(c, q) /\ j + 1 \in 1..n /\ (j + 1) - 1 = j
      <4>1. Place(c, q) \in 0..(n - 1)
        BY <1>3, <3>2, PlaceIn
      <4> QED  BY <4>1
    <3>4. PICK r : /\ Numbers(dims, sel, r)
                   /\ Place(c, r) = j
                   /\ w[j + 1] = Place(dims, At(dims, sel, r))
      BY <1>7, <3>3
    <3>5. \A k \in 1..Len(c) : r[k] \in 1..c[k]
      BY <1>3, <3>4 DEF Numbers
    <3>6. \A k \in 1..Len(c) : q[k] = r[k]
      <4>1. \A k \in 1..Len(c) : q[k] \in 1..c[k] /\ r[k] \in 1..c[k]
        BY <3>2, <3>5
      <4>2. Place(c, q) = Place(c, r)
        BY <3>3, <3>4
      <4> QED  BY <4>1, <4>2, PlaceOnce
    <3>7. At(dims, sel, r) = p
      <4>1. DOMAIN dims = 1..Len(c)
        BY <1>3
      <4> QED  BY <3>1, <3>6, <4>1 DEF At
    <3> QED  BY <1>9, <3>3, <3>4, <3>7
  <2> QED  BY <1>8, <2>1
<1>12. at = S
  BY <1>10, <1>11
<1>13. Selected(dims, sel) = [i \in 1..Cardinality(at) |-> CHOOSE a \in at : Cardinality({b \in at : b < a}) = i - 1]
  BY <1>8 DEF Selected, Place, PlaceTerms
<1>14. /\ Cardinality(S) = n
       /\ \A i \in 1..n : w[i] = CHOOSE a \in S : Cardinality({b \in S : b < a}) = i - 1
  <2>1. (\A i \in 1..n : w[i] \in S) /\ \A x \in S : \E i \in 1..n : x = w[i]
    BY <1>9
  <2>2. \A i \in 2..n : w[i - 1] < w[i]
    BY <1>7
  <2>3. Climbs(w, n, S)
    BY <1>6, <2>1, <2>2 DEF Climbs
  <2> QED  BY <2>3, Increasing
<1>15. PICK chosen : chosen = [i \in 1..n |-> CHOOSE a \in S : Cardinality({b \in S : b < a}) = i - 1]
  OBVIOUS
<1>16. Selected(dims, sel) = chosen
  BY <1>12, <1>13, <1>14, <1>15
<1>17. w = chosen
  BY <1>5, <1>14, <1>15
<1> QED  BY <1>4, <1>16, <1>17

\* In a finite set of numbers there is one with any number of others in front of it.
LEMMA Ranks ==
  ASSUME NEW n \in Nat, NEW S \in SUBSET (0..(n - 1))
  PROVE  /\ Cardinality(S) \in Nat
         /\ \A i \in 1..Cardinality(S) : \E a \in S : Cardinality({b \in S : b < a}) = i - 1
<1> DEFINE Lower(m) == {b \in S : b < m}
<1>0. \A b \in S : b \in Nat /\ b < n
  OBVIOUS
<1>1. IsFiniteSet(S)
  <2>1. IsFiniteSet(0..(n - 1))
    BY FS_Interval
  <2> QED  BY <2>1, FS_Subset
<1>2. \A m : IsFiniteSet(Lower(m)) /\ Cardinality(Lower(m)) \in Nat
  <2> SUFFICES ASSUME NEW m PROVE IsFiniteSet(Lower(m)) /\ Cardinality(Lower(m)) \in Nat
    OBVIOUS
  <2>1. Lower(m) \subseteq S
    OBVIOUS
  <2> HIDE DEF Lower
  <2>2. IsFiniteSet(Lower(m))
    BY <1>1, <2>1, FS_Subset
  <2> QED  BY <2>2, FS_CardinalityType
<1>3. Cardinality(S) \in Nat
  BY <1>1, FS_CardinalityType
<1>4. ASSUME NEW i \in 1..Cardinality(S) PROVE \E a \in S : Cardinality(Lower(a)) = i - 1
  <2> DEFINE T == {m \in Nat : i <= Cardinality(Lower(m))}
  <2>1. n \in T
    <3>1. Lower(n) = S
      BY <1>0
    <3> HIDE DEF Lower
    <3> QED  BY <1>3, <3>1
  <2>2. T \in SUBSET Nat /\ T # {}
    BY <2>1
  <2> HIDE DEF T
  <2>3. PICK m \in T : \A k \in T : m <= k
    BY <2>2, LeastNatural
  <2>4. m \in Nat /\ i <= Cardinality(Lower(m))
    BY <2>3 DEF T
  <2>5. m # 0
    <3>1. CASE m = 0
      <4>1. Lower(m) = {}
        <5>1. \A b \in S : ~(b < m)
          BY <1>0, <3>1
        <5> QED  BY <5>1
      <4>2. Cardinality(Lower(m)) = 0
        BY <4>1, FS_EmptySet
      <4> HIDE DEF Lower
      <4> QED  BY <1>3, <2>4, <4>2
    <3> QED  BY <3>1
  <2>6. PICK a \in Nat : a = m - 1 /\ m = a + 1
    BY <2>4, <2>5
  <2>7. ~(i <= Cardinality(Lower(a)))
    <3>1. ~(m <= a)
      BY <2>4, <2>6
    <3>2. a \notin T
      BY <2>3, <3>1
    <3> QED  BY <3>2 DEF T
  <2>8. CASE a \in S
    <3>1. Lower(m) = Lower(a) \cup {a} /\ a \notin Lower(a)
      <4>1. \A b \in S : b < m <=> b < a \/ b = a
        BY <1>0, <2>6
      <4>2. ~(a < a)
        OBVIOUS
      <4> QED  BY <2>8, <4>1, <4>2
    <3> HIDE DEF Lower
    <3>2. Cardinality(Lower(m)) = Cardinality(Lower(a)) + 1
      BY <1>2, <3>1, FS_AddElement
    <3>3. Cardinality(Lower(a)) = i - 1
      BY <1>2, <1>3, <2>4, <2>7, <3>2
    <3> QED  BY <2>8, <3>3
  <2>9. CASE a \notin S
    <3>1. Lower(m) = Lower(a)
      <4>1. \A b \in S : b < m <=> b < a
        BY <1>0, <2>6, <2>9
      <4> QED  BY <4>1
    <3> HIDE DEF Lower
    <3> QED  BY <2>4, <2>7, <3>1
  <2> QED  BY <2>8, <2>9
<1> QED  BY <1>3, <1>4

\* The selected places lie in the array, each once.
LEMMA SelectedIs ==
  ASSUME NEW dims \in Seq(Nat \ {0}), NEW sel \in Selections(dims)
  PROVE  /\ \E n \in Nat : DOMAIN Selected(dims, sel) = 1..n
         /\ \A i \in DOMAIN Selected(dims, sel) :
              /\ Selected(dims, sel)[i] \in 0..(Size(dims) - 1)
              /\ \A j \in DOMAIN Selected(dims, sel) :
                   Selected(dims, sel)[i] = Selected(dims, sel)[j] => i = j
<1>1. SelectionIn(dims, sel) /\ DOMAIN dims = 1..Len(dims)
  BY SelectionsIn
<1>2. PICK at : at = {Place(dims, p) : p \in Indices(dims, sel)}
  OBVIOUS
<1>3. PICK n \in Nat : n = Size(dims)
  <2>1. Len(dims) + 1 \in 1..(Len(dims) + 1)
    OBVIOUS
  <2> QED  BY <2>1, Products DEF Size
<1>4. at \in SUBSET (0..(n - 1))
  <2>1. ASSUME NEW p \in Indices(dims, sel)
        PROVE  Place(dims, p) \in 0..(n - 1)
    <3>1. ASSUME NEW k \in 1..Len(dims) PROVE p[k] \in 1..dims[k]
      <4>1. p[k] \in sel.first[k]..sel.last[k]
        BY <1>1 DEF Indices
      <4>2. sel.first[k] \in 1..dims[k] /\ sel.last[k] \in 1..dims[k]
        BY <1>1 DEF SelectionIn
      <4>3. dims[k] \in Nat
        OBVIOUS
      <4> QED  BY <4>1, <4>2, <4>3
    <3> QED  BY <1>3, <3>1, PlaceIn
  <2> QED  BY <1>2, <2>1
<1>5. /\ Cardinality(at) \in Nat
      /\ \A i \in 1..Cardinality(at) : \E a \in at : Cardinality({b \in at : b < a}) = i - 1
  BY <1>4, Ranks
<1>6. Selected(dims, sel) = [i \in 1..Cardinality(at) |-> CHOOSE a \in at : Cardinality({b \in at : b < a}) = i - 1]
  BY <1>2 DEF Selected, Place, PlaceTerms
<1>7. PICK s : s = Selected(dims, sel)
  OBVIOUS
<1>8. DOMAIN s = 1..Cardinality(at)
  BY <1>6, <1>7
<1>9. ASSUME NEW i \in 1..Cardinality(at) PROVE s[i] \in at /\ Cardinality({b \in at : b < s[i]}) = i - 1
  <2>1. s[i] = CHOOSE a \in at : Cardinality({b \in at : b < a}) = i - 1
    BY <1>6, <1>7
  <2> QED  BY <1>5, <2>1
<1>10. ASSUME NEW i \in 1..Cardinality(at), NEW j \in 1..Cardinality(at), s[i] = s[j] PROVE i = j
  <2>1. i - 1 = j - 1
    BY <1>9, <1>10
  <2> QED  BY <1>5, <2>1
<1> QED  BY <1>3, <1>4, <1>5, <1>7, <1>8, <1>9, <1>10

\* The walk over each selection of a shape a node can have is the selection.
WalksRight == \A dims \in Shapes : \A sel \in Selections(dims) : Walk(dims, sel) = Selected(dims, sel)

\* A walk over elements of the array, over each once.
LEMMA WalkIn ==
  ASSUME WalksRight, shape \in [type : Types, dims : Shapes], shape.type # NoType, NEW at \in Walks[shape.dims]
  PROVE  /\ \E n \in Nat : DOMAIN at = 1..n
         /\ \A x \in DOMAIN at : at[x] \in Nat /\ at[x] + 1 \in 1..Total
         /\ \A x, y \in DOMAIN at : at[x] = at[y] => x = y
         /\ [x \in DOMAIN at |-> at[x] + 1] \in V!SelectedElements[shape.dims]
<1>1. PICK dims \in Seq(Nat \ {0}) : dims = shape.dims /\ dims \in Shapes
  BY ShapesAssumption
<1>2. PICK sel \in Selections(dims) : at = Walk(dims, sel)
  BY <1>1 DEF Walks
<1>3. at = Selected(dims, sel)
  BY <1>1, <1>2 DEF WalksRight
<1>4. PICK n \in Nat : n = Size(dims) /\ Total = n
  <2>1. Len(dims) + 1 \in 1..(Len(dims) + 1)
    OBVIOUS
  <2> QED  BY <1>1, <2>1, Products DEF Size, Total
<1>5. /\ \E m \in Nat : DOMAIN at = 1..m
      /\ \A x \in DOMAIN at : at[x] \in 0..(n - 1) /\ \A y \in DOMAIN at : at[x] = at[y] => x = y
  BY <1>2, <1>3, <1>4, SelectedIs
<1>6. V!SelectedElements[dims] =
        {[k \in DOMAIN V!Selected(dims, q) |-> V!Selected(dims, q)[k] + 1] : q \in V!Selections(dims)}
  BY <1>1 DEF V!SelectedElements
<1>7. V!Selected(dims, sel) = Selected(dims, sel) /\ V!Selections(dims) = Selections(dims)
  <2>1. V!Selected(dims, sel) = Selected(dims, sel)
    BY DEF V!Selected, Selected, V!Indices, Indices, V!Before, Before, V!Below, Below, V!Max, Max,
           V!Cardinality, Cardinality
  <2>2. V!Selections(dims) = Selections(dims)
    BY DEF V!Selections, Selections, V!ValidSelection, ValidSelection, V!Max, Max
  <2> QED  BY <2>1, <2>2
<1>8. [x \in DOMAIN at |-> at[x] + 1] \in V!SelectedElements[dims]
  BY <1>2, <1>3, <1>6, <1>7
<1>9. \A a \in 0..(n - 1) : a \in Nat /\ a + 1 \in 1..n
  OBVIOUS
<1> QED  BY <1>1, <1>4, <1>5, <1>8, <1>9

\* Chunks that are left as they are.
LEMMA Unchanged ==
  ASSUME NEW cs, Sound(cs)
  PROVE  Changed(cs, cs, {}, <<>>)
<1>1. Len(cs) <= Len(cs)
  BY SpanIs
<1> QED  BY <1>1 DEF Changed

\* The space for the whole array is that of the chunks there are, and more behind them.
LEMMA SpaceKeeps ==
  ASSUME DataInv, shape.type # NoType
  PROVE  /\ Changed(SpaceForAll, chunks, {}, <<>>)
         /\ Base(SpaceForAll, Len(SpaceForAll) + 1) >= Total
<1>1. Total \in Nat \ {0} /\ Sound(chunks) /\ chunks \in Seq(Chunk) /\ Sound(SpaceForAll)
  BY TotalIs, SpaceSound DEF DataInv, Sound
<1>2. PICK T \in Nat \ {0} : T = Total
  BY <1>1
<1>3. PICK cs \in Seq(Chunk) : cs = chunks /\ Sound(cs)
  BY <1>1
<1>4. cs = <<>> \/ Len(cs) = 1 \/ Len(cs) > 1
  BY NotEmpty
<1>5. PICK p \in Nat : p = Spanned /\ p = Base(cs, Len(cs) + 1)
  <2>1. Len(cs) + 1 \in 1..(Len(cs) + 1)
    BY <1>3
  <2> QED  BY <1>3, <2>1, BaseIs DEF Spanned
<1>6. PICK ds : ds = SpaceForAll
  OBVIOUS
<1>7. CASE cs = <<>>
  <2>1. PICK zeros : zeros = Zeros(T)
    OBVIOUS
  <2>2. zeros \in Seq(Cell) /\ 0 \in Nat
    BY <2>1, ItemsAre
  <2>3. PICK w : w = WriteChunk(Fresh(T), T, 0, zeros)
    OBVIOUS
  <2>4. w.size = T
    BY <2>2, <2>3, FreshWritten
  <2>5. ds = <<w>> /\ Len(ds) = 1 /\ Len(cs) = 0 /\ Sound(ds)
    BY <1>1, <1>2, <1>3, <1>6, <1>7, <2>1, <2>3 DEF SpaceForAll
  <2>6. Base(ds, 1) = 0 /\ Base(ds, 1 + 1) = Base(ds, 1) + Span(ds, 1) /\ Span(ds, 1) = w.size
    <3>1. 1 \in 1..Len(ds)
      BY <2>5
    <3> QED  BY <2>5, <3>1, BaseIs DEF Span
  <2>7. Base(ds, Len(ds) + 1) >= T
    BY <2>4, <2>5, <2>6
  <2>8. Changed(ds, cs, {}, <<>>)
    BY <1>3, <2>5 DEF Changed
  <2> QED  BY <1>2, <1>3, <1>6, <2>7, <2>8
<1>8. CASE Len(cs) = 1 /\ T > cs[1].size
  <2>1. PICK c \in Chunk, n \in Nat \ {0} : c = cs[1] /\ n = c.size /\ c.size \in 1..Len(c.cells)
    BY <1>3, <1>8, SingleIs
  <2>2. PICK m \in Nat \ {0} : m = T - n
    <3>1. T - n \in Nat \ {0}
      BY <1>8, <2>1
    <3> QED  BY <3>1
  <2>3. PICK zeros : zeros = Zeros(m)
    OBVIOUS
  <2>4. zeros \in Seq(Cell) /\ 0 \in Nat
    BY <2>3, ItemsAre
  <2>5. PICK w : w = WriteChunk(Fresh(m), m, 0, zeros)
    OBVIOUS
  <2>6. w \in Chunk /\ w.size = m /\ Len(w.cells) = m
    BY <2>4, <2>5, FreshWritten
  <2>7. PICK x, y : x = Entered(c) /\ y = Entered(w)
    OBVIOUS
  <2>8. x.entry = n /\ x.cells = c.cells /\ y.entry = m
    BY <2>1, <2>6, <2>7, EntryIs
  <2>9. cs # <<>> /\ 1 \in 1..Len(cs) /\ \A i \in 1..Len(cs) : i = 1
    <3>1. cs # <<>>
      BY <1>8, NotEmpty
    <3> QED  BY <1>8, <3>1
  <2>10. ds = <<x, y>> /\ Len(ds) = 2 /\ ds[1] = x /\ ds[2] = y
    <3>1. chunks # <<>> /\ Len(chunks) = 1 /\ Total > chunks[1].size
      BY <1>2, <1>3, <1>8, <2>9
    <3>2. ds = <<x, y>>
      BY <1>2, <1>3, <1>6, <2>1, <2>2, <2>3, <2>5, <2>7, <3>1 DEF SpaceForAll
    <3> QED  BY <3>2
  <2>11. Span(ds, 1) = n /\ Span(ds, 2) = m /\ Span(cs, 1) = n
    BY <1>8, <2>1, <2>8, <2>10 DEF Span
  <2>12. Changed(ds, cs, {}, <<>>)
    <3>1. Len(cs) <= Len(ds)
      BY <1>8, <2>10
    <3> QED  BY <1>1, <1>3, <1>6, <2>1, <2>8, <2>9, <2>10, <2>11, <3>1 DEF Changed
  <2>13. Base(ds, Len(ds) + 1) >= T
    <3>1. Sound(ds) /\ 1 \in 1..Len(ds) /\ 2 \in 1..Len(ds) /\ 1 + 1 = 2
      BY <1>1, <1>6, <2>10
    <3>2. Base(ds, 1) = 0 /\ Base(ds, 2) = Base(ds, 1) + Span(ds, 1) /\ Base(ds, 2 + 1) = Base(ds, 2) + Span(ds, 2)
      BY <3>1, BaseIs
    <3>3. Base(ds, 2 + 1) = n + m /\ n + m = T
      BY <2>2, <2>11, <3>2
    <3>4. T >= T
      OBVIOUS
    <3> QED  BY <2>10, <3>3, <3>4
  <2> QED  BY <1>2, <1>3, <1>6, <2>12, <2>13
<1>9. CASE Len(cs) > 1 /\ T > p
  <2>1. PICK m \in Nat \ {0} : m = T - p
    <3>1. T - p \in Nat \ {0}
      BY <1>9
    <3> QED  BY <3>1
  <2>2. PICK zeros : zeros = Zeros(m)
    OBVIOUS
  <2>3. zeros \in Seq(Cell) /\ 0 \in Nat /\ m \in Nat
    BY <2>2, ItemsAre
  <2>4. PICK a : a = Added(m, 0, zeros)
    OBVIOUS
  <2>5. a \in Chunk /\ a.size = m /\ a.entry = m /\ Len(a.cells) = m
    BY <2>3, <2>4, AddedIs
  <2>6. a.entry \in 1..Len(a.cells) /\ a.size \in 1..Len(a.cells)
    BY <2>5
  <2>7. Grown(ds, cs, a)
    <3>1. PICK t : t = cs \o <<a>>
      OBVIOUS
    <3>2. Grown(t, cs, a)
      BY <1>3, <1>9, <2>5, <2>6, <3>1, GrownSound
    <3>3. Len(chunks) # 1 /\ chunks # <<>>
      <4>1. \A l \in Nat : l > 1 => l # 1 /\ l # 0
        OBVIOUS
      <4>2. Len(cs) \in Nat /\ (cs = <<>> <=> Len(cs) = 0)
        BY NotEmpty
      <4> QED  BY <1>3, <1>9, <4>1, <4>2
    <3>4. ds = Append(cs, a)
      BY <1>2, <1>3, <1>5, <1>6, <1>9, <2>1, <2>2, <2>4, <3>3 DEF SpaceForAll
    <3>5. t = ds
      BY <3>2, <3>4 DEF Grown
    <3> QED  BY <3>2, <3>5
  <2>8. Changed(ds, cs, {}, <<>>)
    BY <1>3, <1>9, <2>7, Unchanged, ChangedAndGrown
  <2>9. Base(ds, Len(ds) + 1) >= T
    <3>1. Base(ds, Len(cs) + 1) = p
      <4>1. Base(ds, Len(cs) + 1) = Base(cs, Len(cs) + 1)
        BY <2>8, ChangedIsSeen DEF DataInv
      <4> QED  BY <1>5, <4>1
    <3>2. Sound(ds) /\ Len(ds) = Len(cs) + 1 /\ ds[Len(cs) + 1] = a /\ Len(cs) + 1 \in 1..Len(ds) /\ Len(ds) # 1
      BY <1>3, <1>9, <2>7 DEF Grown
    <3>3. Base(ds, Len(cs) + 1 + 1) = p + Span(ds, Len(cs) + 1)
      BY <3>1, <3>2, BaseIs
    <3>4. Span(ds, Len(cs) + 1) = m
      BY <2>5, <3>2 DEF Span
    <3>5. p + m = T /\ T >= T
      BY <2>1
    <3> QED  BY <3>2, <3>3, <3>4, <3>5
  <2> QED  BY <1>2, <1>3, <1>6, <2>8, <2>9
<1>10. CASE cs # <<>> /\ ~(Len(cs) = 1 /\ T > cs[1].size) /\ ~(Len(cs) > 1 /\ T > p)
  <2>1. ds = cs
    BY <1>2, <1>3, <1>5, <1>6, <1>10 DEF SpaceForAll
  <2>2. p >= T
    <3>1. CASE Len(cs) = 1
      <4>1. p = cs[1].size /\ cs[1].size \in Nat
        BY <1>3, <1>5, <3>1, SingleIs
      <4> QED  BY <1>10, <3>1, <4>1
    <3>2. CASE Len(cs) > 1
      BY <1>10, <3>2
    <3> QED  BY <1>4, <1>10, <3>1, <3>2
  <2>3. Changed(cs, cs, {}, <<>>)
    BY <1>3, Unchanged
  <2> QED  BY <1>2, <1>3, <1>5, <1>6, <2>1, <2>2, <2>3
<1> QED  BY <1>4, <1>7, <1>8, <1>9, <1>10

\* Elements that are put to their places change there, and nowhere else.
LEMMA PlacedChanges ==
  ASSUME NEW cs, Sound(cs), NEW n \in Nat, NEW at, DOMAIN at = 1..n,
         NEW S, S = {at[x] + 1 : x \in DOMAIN at},
         NEW f, \A x \in DOMAIN at : f[at[x] + 1] = Item("strided", x),
         \A x, y \in DOMAIN at : at[x] + 1 = at[y] + 1 => x = y
  PROVE  Changed(Placed(cs, at), cs, S, f)
<1>1. PICK ds : ds = Placed(cs, at)
  OBVIOUS
<1>2. Sound(ds)
  BY <1>1, PlacedSound
<1>3. DOMAIN cs = 1..Len(cs) /\ Len(cs) \in Nat /\ \A i \in 1..Len(cs) : cs[i] \in Chunk
  BY DEF Sound
<1>4. DOMAIN ds = DOMAIN cs /\ DOMAIN ds = 1..Len(ds) /\ Len(ds) \in Nat
  BY <1>1, <1>2, SpanIs DEF Placed
<1>5. Len(ds) = Len(cs) /\ Len(cs) <= Len(ds)
  BY <1>3, <1>4
<1>6. ASSUME NEW i \in 1..Len(cs)
      PROVE  /\ Span(ds, i) = Span(cs, i)
             /\ \A j \in 1..Span(cs, i) :
                  ds[i].cells[j] = IF Base(cs, i) + j \in S THEN f[Base(cs, i) + j] ELSE cs[i].cells[j]
  <2>1. PICK c \in Chunk : c = cs[i]
    BY <1>3
  <2>2. PICK cells : cells = [j \in DOMAIN c.cells |->
                       LET k == {x \in DOMAIN at : j <= Span(cs, i) /\ at[x] + 1 = Base(cs, i) + j}
                       IN  IF k = {} THEN c.cells[j] ELSE Item("strided", Max(k))]
    OBVIOUS
  <2>3. ds[i] = [c EXCEPT !.cells = cells]
    BY <1>1, <1>3, <2>1, <2>2 DEF Placed
  <2>4. ds[i].entry = c.entry /\ ds[i].size = c.size /\ ds[i].cells = cells
    BY <2>3 DEF Chunk
  <2>5. Span(ds, i) = Span(cs, i)
    <3>1. Len(cs) = 1 => i = 1
      BY <1>3
    <3> QED  BY <1>5, <2>1, <2>4, <3>1 DEF Span
  <2>6. ASSUME NEW j \in 1..Span(cs, i)
        PROVE  cells[j] = IF Base(cs, i) + j \in S THEN f[Base(cs, i) + j] ELSE c.cells[j]
    <3>1. j <= Span(cs, i) /\ j \in DOMAIN c.cells
      <4>1. Span(cs, i) \in 1..Len(c.cells) /\ Span(cs, i) \in Nat
        BY <2>1, SpanIs
      <4>2. DOMAIN c.cells = 1..Len(c.cells) /\ Len(c.cells) \in Nat
        BY DEF Chunk
      <4> QED  BY <4>1, <4>2
    <3>2. PICK k : k = {x \in DOMAIN at : j <= Span(cs, i) /\ at[x] + 1 = Base(cs, i) + j}
      OBVIOUS
    <3>3. cells[j] = IF k = {} THEN c.cells[j] ELSE Item("strided", Max(k))
      BY <2>2, <3>1, <3>2
    <3>4. CASE k = {}
      <4>1. Base(cs, i) + j \notin S
        BY <3>1, <3>2, <3>4
      <4> QED  BY <3>3, <3>4, <4>1
    <3>5. CASE k # {}
      <4>1. k \in SUBSET (0..n)
        BY <3>2
      <4>2. Max(k) \in k
        BY <3>5, <4>1, GreatestUpTo
      <4>3. PICK x \in DOMAIN at : x = Max(k) /\ at[x] + 1 = Base(cs, i) + j
        BY <3>2, <4>2
      <4>4. Base(cs, i) + j \in S /\ f[Base(cs, i) + j] = Item("strided", x)
        BY <4>3
      <4> QED  BY <3>3, <3>5, <4>3, <4>4
    <3> QED  BY <3>4, <3>5
  <2> QED  BY <2>1, <2>4, <2>5, <2>6
<1>7. Changed(ds, cs, S, f)
  BY <1>2, <1>5, <1>6 DEF Changed
<1> QED  BY <1>1, <1>7

\* A write of a selection.
LEMMA StridedValues ==
  ASSUME WalksRight, DataInv, NEW at \in Walks[shape.dims], WriteData(at)
  PROVE  V!Next
<1>1. shape.type # NoType /\ UNCHANGED shape /\ chunks' = Placed(SpaceForAll, at)
  BY DEF WriteData
<1>2. shape \in [type : Types, dims : Shapes]
  BY DEF DataInv
<1>3. PICK n \in Nat : DOMAIN at = 1..n
  BY <1>1, <1>2, WalkIn
<1>4. /\ \A x \in DOMAIN at : at[x] \in Nat /\ at[x] + 1 \in 1..Total
      /\ \A x, y \in DOMAIN at : at[x] = at[y] => x = y
      /\ [x \in DOMAIN at |-> at[x] + 1] \in V!SelectedElements[shape.dims]
  BY <1>1, <1>2, WalkIn
<1>5. \A x, y \in DOMAIN at : at[x] + 1 = at[y] + 1 => x = y
  <2>1. \A a, b \in Nat : a + 1 = b + 1 => a = b
    OBVIOUS
  <2> QED  BY <1>4, <2>1
<1>6. PICK S, f : /\ S = {at[x] + 1 : x \in DOMAIN at}
                  /\ f = [k \in S |-> Item("strided", CHOOSE x \in DOMAIN at : at[x] + 1 = k)]
  OBVIOUS
<1>7. ASSUME NEW x \in DOMAIN at PROVE f[at[x] + 1] = Item("strided", x)
  <2>1. at[x] + 1 \in S
    BY <1>6
  <2>2. PICK y : y = CHOOSE z \in DOMAIN at : at[z] + 1 = at[x] + 1
    OBVIOUS
  <2>3. y \in DOMAIN at /\ at[y] + 1 = at[x] + 1
    BY <2>2
  <2>4. y = x
    BY <1>5, <2>3
  <2>5. f[at[x] + 1] = Item("strided", y)
    BY <1>6, <2>1, <2>2
  <2> QED  BY <2>4, <2>5
<1>8. PICK cs : cs = SpaceForAll
  OBVIOUS
<1>9. Sound(cs) /\ Changed(cs, chunks, {}, <<>>) /\ Base(cs, Len(cs) + 1) >= Total
  BY <1>1, <1>8, SpaceKeeps DEF Changed
<1>10. PICK ds : ds = chunks'
  OBVIOUS
<1>11. Changed(ds, cs, S, f)
  <2>1. Changed(Placed(cs, at), cs, S, f)
    BY <1>3, <1>5, <1>6, <1>7, <1>9, PlacedChanges
  <2> QED  BY <1>1, <1>8, <1>10, <2>1
<1>12. ASSUME NEW k \in 1..Total
       PROVE  /\ Seen(ds)[k] = IF k \in S THEN f[k] ELSE Seen(cs)[k]
              /\ k <= Spanned => Seen(cs)[k] = Seen(chunks)[k]
  <2>1. k <= Base(cs, Len(cs) + 1)
    <3>1. Len(cs) + 1 \in 1..(Len(cs) + 1)
      BY <1>9, SpanIs
    <3>2. Base(cs, Len(cs) + 1) \in Nat /\ Total \in Nat
      BY <1>2, <1>9, <3>1, BaseIs, TotalIs
    <3> QED  BY <1>9, <3>2
  <2>2. Seen(ds)[k] = IF k \in S THEN f[k] ELSE Seen(cs)[k]
    BY <1>2, <1>11, <2>1, ChangedIsSeen
  <2>3. ASSUME k <= Spanned PROVE Seen(cs)[k] = Seen(chunks)[k]
    <3>1. PICK old, none, empty : old = chunks /\ none = {} /\ empty = <<>>
      OBVIOUS
    <3>2. Changed(cs, old, none, empty)
      BY <1>9, <3>1
    <3>3. k <= Base(old, Len(old) + 1)
      BY <2>3, <3>1 DEF Spanned
    <3>4. Seen(cs)[k] = IF k \in none THEN empty[k] ELSE Seen(old)[k]
      BY <1>2, <3>2, <3>3, ChangedIsSeen
    <3> QED  BY <3>1, <3>4
  <2> QED  BY <2>2, <2>3
<1>13. /\ Total \in Nat /\ Len(View) = Total
       /\ DOMAIN View = 1..Total /\ DOMAIN View' = 1..Total
       /\ \A k \in 1..Total : View[k] = Seen(chunks)[k] /\ View'[k] = Seen(ds)[k]
       /\ \A k \in 1..Total : View[k] \notin V!Unknown => k <= Spanned
  BY <1>1, <1>10, ValuesAre
<1>14. PICK to : to = [x \in DOMAIN at |-> at[x] + 1]
  OBVIOUS
<1>15. \A x \in DOMAIN to : View'[to[x]] = V!Item("strided", x)
  <2>1. ASSUME NEW x \in DOMAIN to PROVE View'[to[x]] = V!Item("strided", x)
    <3>1. x \in DOMAIN at /\ to[x] = at[x] + 1 /\ to[x] \in 1..Total /\ to[x] \in S
      BY <1>4, <1>6, <1>14
    <3>2. View'[to[x]] = f[to[x]]
      BY <1>12, <1>13, <3>1
    <3>3. f[to[x]] = Item("strided", x)
      BY <1>7, <3>1
    <3> QED  BY <3>2, <3>3 DEF Item, V!Item
  <2> QED  BY <2>1
<1>16. \A k \in (1..Total) \ {to[x] : x \in DOMAIN to} : View[k] \notin V!Unknown => View'[k] = View[k]
  <2>1. {to[x] : x \in DOMAIN to} = S
    BY <1>6, <1>14
  <2> QED  BY <1>12, <1>13, <2>1
<1>17. V!Write("strided", to, View, View')
  BY <1>13, <1>15, <1>16 DEF V!Write
<1> QED  BY <1>1, <1>4, <1>13, <1>14, <1>17 DEF V!Next

\* ADFI_increment_array goes from one element of a selection to the next, over all of them and in
\* their order, for every array and every selection but those with its named fault.
THEOREM SelectionsVisited == Spec => []WalkVisitsSelection
<1>1. DataInv => WalkVisitsSelection
  <2> SUFFICES ASSUME DataInv, NEW dims \in Walked \cup {shape.dims} PROVE VisitsSelection[dims]
    BY DEF WalkVisitsSelection
  <2>1. dims \in Shapes \cup Walked /\ dims \in Seq(Nat \ {0})
    BY ShapesAssumption DEF DataInv
  <2>2. ASSUME NEW sel \in Selections(dims) PROVE LeavesOut(dims, sel) \/ Walk(dims, sel) = Selected(dims, sel)
    BY <2>1, WalkIsSelected
  <2> QED  BY <2>1, <2>2 DEF VisitsSelection
<1> QED  BY <1>1, DataInvariant, PTL

\* A node without a type has no elements.
LEMMA NoValues == Init => V!Init
<1> SUFFICES ASSUME Init PROVE V!Init
  OBVIOUS
<1>1. Total = 0 /\ shape = [type |-> NoType, dims |-> <<>>]
  BY DEF Init, Total
<1>2. View = [k \in 1..0 |-> IF k <= Spanned THEN ElementOnDisk(k) ELSE Junk]
  BY <1>1 DEF View
<1>3. View = <<>>
  BY <1>2
<1> QED  BY <1>1, <1>3 DEF V!Init

\* The library does with the data of a node what NodeValues promises, for all types and shapes
\* none of whose selections leaves out the beginning or the end of a dimension between others
\* (ADFI_increment_array goes wrong where LeavesOut): ADF_Write_All_Data, ADF_Write_Block_Data and
\* ADF_Write_Data give the elements they name the caller's values and change no other that was
\* written, and ADF_Put_Dimension_Information keeps the elements both arrays have or loses all; but
\* for the two faults of a block write to an array that has grown, and these change nothing outside
\* the block.
THEOREM ValuesTheorem ==
  ASSUME \A dims \in Shapes : \A sel \in Selections(dims) : ~LeavesOut(dims, sel)
  PROVE  Spec => ValuesKept
<1>0. WalksRight
  <2>1. ASSUME NEW dims \in Shapes, NEW sel \in Selections(dims) PROVE Walk(dims, sel) = Selected(dims, sel)
    <3>1. dims \in Seq(Nat \ {0})
      BY ShapesAssumption
    <3> QED  BY <3>1, WalkIsSelected
  <2> QED  BY <2>1 DEF WalksRight
<1> DEFINE Step == V!Next \/ \E s, e \in 0..Total : DamagesBlock(s, e)
<1>1. Init => V!Init
  BY NoValues
<1>2. DataInv /\ [Next]_vars => [Step]_<<shape, View>>
  <2> SUFFICES ASSUME DataInv, [Next]_vars PROVE Step \/ UNCHANGED <<shape, View>>
    OBVIOUS
  <2>1. ASSUME NEW type \in Types, NEW dims \in Shapes, PutDimensionInformation(type, dims) PROVE Step
    BY <2>1, ShapeValues
  <2>2. CASE WriteAllData
    BY <2>2, AllValues
  <2>3. ASSUME NEW s \in 0..Total, NEW e \in 0..Total, WriteBlockData(s, e) PROVE Step
    BY <2>3, BlockValues
  <2>4. ASSUME NEW at \in Walks[shape.dims], WriteData(at) PROVE Step
    BY <1>0, <2>4, StridedValues
  <2>5. CASE UNCHANGED vars
    <3>1. UNCHANGED shape /\ chunks' = chunks
      BY <2>5 DEF vars
    <3>2. UNCHANGED View
      BY <3>1, ViewIs, ViewNext DEF Seen, Total, OnDisk, Base, Span
    <3> QED  BY <3>1, <3>2
  <2> HIDE DEF Step
  <2> QED  BY <2>1, <2>2, <2>3, <2>4, <2>5 DEF Next
<1> QED  BY <1>1, <1>2, DataInvariant, PTL DEF Spec, ValuesKept

\* No selection of an array of at most two dimensions is one with which ADFI_increment_array goes
\* wrong: for such arrays the library does what NodeValues promises without an assumption on the
\* selections.
COROLLARY ValuesOfPlanes ==
  ASSUME \A dims \in Shapes : Len(dims) <= 2
  PROVE  Spec => ValuesKept
<1>1. ASSUME NEW dims \in Shapes, NEW sel \in Selections(dims) PROVE ~LeavesOut(dims, sel)
  <2>1. dims \in Seq(Nat \ {0}) /\ Len(dims) <= 2
    BY ShapesAssumption
  <2>2. 2..(Len(dims) - 1) = {}
    BY <2>1
  <2> QED  BY <2>2 DEF LeavesOut
<1> QED  BY <1>1, ValuesTheorem
=============================================================================
