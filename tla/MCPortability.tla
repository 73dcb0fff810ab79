---------------------------- MODULE MCPortability ---------------------------
(* An instance of ADFPortability for TLC: the five machines the library knows    *)
(* and one it does not (long of 4 bytes, pointers of 8), all formats, numbers    *)
(* around the limits of each.                                                    *)
EXTENDS ADFPortability

MCMachines ==
  {[order |-> f.order, sizes |-> KnownSizes(f)] : f \in ToSet(Known)}
  \cup {[order |-> "L", sizes |-> [int |-> 4, long |-> 4, float |-> 4, double |-> 8, pointer |-> 8]]}
MCRequests == ToSet(Known) \cup {Format("N", 32)}
MCDataPlace == Place(16909060, 4091)
MCPlaces == {Place(0, 266), Place(1, 0), Place(258, 4095), Place(2147483647, 511), MCDataPlace}

Small == <<0, 0, 0, 0, 1, 2, 3, 4>>
Wide == <<1, 2, 3, 4, 5, 6, 7, 8>>
Top32 == <<0, 0, 0, 0, 200, 2, 3, 4>>
Neg32 == [i \in 1..4 |-> 255] \o <<200, 2, 3, 4>>

Ones(n) == [i \in 1..13 |-> IF i <= n THEN 15 ELSE 0]
R(exp) == Real(FALSE, exp, Ones(5))
Long(exp) == Real(TRUE, exp, Ones(13))

Numbers(base) ==
  CASE base \in {"I4", "I8"} -> {Small, Wide, Neg32}
    [] base \in {"U4", "U8"} -> {Small, Wide, Top32}
    [] base = "R4" -> {R(0), Nil(TRUE), Nil(FALSE), R(127), R(-126), R(128), R(129), R(-127), R(-128),
                       Real(TRUE, -2, Ones(11))}
    [] base = "R8" -> {R(0), Nil(TRUE), Long(1), Long(1023), Long(-1022), R(1024), R(1025), R(-1023), R(-1024),
                       Real(TRUE, -1024, Ones(11))}
    [] base \in {"X4", "X8"} -> {<<R(0), R(3)>>, <<R(-5), Nil(FALSE)>>, <<Nil(TRUE), R(5)>>}
    [] OTHER -> {65}

Usual(base) ==
  CASE IsReal(base) -> R(2) [] IsComplex(base) -> <<R(2), R(4)>> [] IsInteger(base) -> Small [] OTHER -> 66

One(base) == <<[base |-> base, array |-> 0]>>
Pair(a, n, b) == <<[base |-> a, array |-> n], [base |-> b, array |-> 0]>>
MCTypes == {One(b) : b \in {"I4", "U4", "I8", "U8", "R4", "R8", "X4", "X8", "B1"}}
           \cup {Pair("I4", 0, "R8"), Pair("I4", 1, "R8"), Pair("C1", 3, "I8"), Pair("R4", 2, "I4")}

\* Three elements, the second with any number in its first place.
MCDataOf ==
  [type \in MCTypes |->
    LET usual == [k \in DOMAIN Bases(type) |-> Usual(Bases(type)[k])]
    IN  {<<usual, [usual EXCEPT ![1] = x], usual>> : x \in Numbers(Bases(type)[1])}]
=============================================================================
