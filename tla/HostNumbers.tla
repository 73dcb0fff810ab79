----------------------------- MODULE HostNumbers ----------------------------
(***************************************************************************)
(* The reference: what a number is, and the bytes a machine holds in       *)
(* memory for it, from the definitions of the IEEE and Cray formats.       *)
(*                                                                         *)
(* An integer is its 64 bits, most significant byte first.  A real is a    *)
(* sign, an exponent and the 52 bits of its fraction in 13 nibbles:        *)
(* 1.fraction * 2^exponent; a complex number is two reals.  A character is *)
(* a byte.                                                                 *)
(***************************************************************************)
EXTENDS NumberFormats

Zero == 99999   \* the exponent of zero

Real(neg, exp, frac) == [neg |-> neg, exp |-> exp, frac |-> frac]
NoFraction == [i \in 1..13 |-> 0]
Nil(neg) == Real(neg, Zero, NoFraction)

IsReal(base) == base \in {"R4", "R8"}
IsComplex(base) == base \in {"X4", "X8"}
IsInteger(base) == base \in {"I4", "U4", "I8", "U8"}
PartOf(base) == IF base = "X4" THEN "R4" ELSE "R8"

\* The bits of a fraction a machine keeps, and its normal exponents.
FractionBits(order, base) == IF order = "C" THEN 47 ELSE IF base = "R4" THEN 23 ELSE 52
MaxExp(order, base) == IF order = "C" THEN 8190 ELSE IF base = "R4" THEN 127 ELSE 1023
MinExp(order, base) == IF order = "C" THEN -8190 ELSE IF base = "R4" THEN -126 ELSE -1022

Truncated(frac, bits) ==
  [i \in 1..13 |-> CASE 4 * i <= bits -> frac[i]
                     [] 4 * (i - 1) >= bits -> 0
                     [] OTHER -> frac[i] - (frac[i] % 2^(4 * i - bits))]

\* Whether a machine can hold a number exactly.
FitsReal(m, base, x) ==
  /\ x.exp = Zero \/ x.exp \in MinExp(m.order, base)..MaxExp(m.order, base)
  /\ x.exp = Zero /\ x.neg => m.order # "C"
  /\ Truncated(x.frac, FractionBits(m.order, base)) = x.frac

Fits(m, base, x) ==
  CASE IsReal(base) -> FitsReal(m, base, x)
    [] IsComplex(base) -> FitsReal(m, PartOf(base), x[1]) /\ FitsReal(m, PartOf(base), x[2])
    [] base \in {"I4", "I8"} -> Size(base, m.sizes) = 8 \/ SignFill(Last4(x), 4) = x
    [] base \in {"U4", "U8"} -> Size(base, m.sizes) = 8 \/ Zeros(4) \o Last4(x) = x
    [] OTHER -> TRUE

\* Most significant byte first.
RealBytes(order, base, x) ==
  LET f == x.frac
      sign == IF x.neg THEN 128 ELSE 0
      pair(i) == f[i] * 16 + f[i + 1]                                \* a byte from nibble i on
      skew(i) == (f[i] % 2) * 128 + f[i + 1] * 8 + f[i + 2] \div 2   \* a byte from its last bit on
      cray == 16384 + x.exp + 1
  IN  CASE order = "C" /\ x.exp = Zero -> Zeros(8)
        [] order # "C" /\ x.exp = Zero -> <<sign>> \o Zeros(IF base = "R4" THEN 3 ELSE 7)
        [] order = "C" /\ x.exp # Zero ->
             <<sign + cray \div 256, cray % 256, 128 + f[1] * 8 + f[2] \div 2,
               skew(2), skew(4), skew(6), skew(8), skew(10)>>
        [] order # "C" /\ x.exp # Zero /\ base = "R4" ->
             <<sign + (x.exp + 127) \div 2, ((x.exp + 127) % 2) * 128 + f[1] * 8 + f[2] \div 2, skew(2), skew(4)>>
        [] OTHER ->
             <<sign + (x.exp + 1023) \div 16, ((x.exp + 1023) % 16) * 16 + f[1],
               pair(2), pair(4), pair(6), pair(8), pair(10), pair(12)>>

InOrder(order, bytes) == IF order = "L" THEN Reverse(bytes) ELSE bytes

NumberBytes(m, base, x) ==
  CASE IsReal(base) -> InOrder(m.order, RealBytes(m.order, base, x))
    [] IsComplex(base) -> InOrder(m.order, RealBytes(m.order, PartOf(base), x[1]))
                          \o InOrder(m.order, RealBytes(m.order, PartOf(base), x[2]))
    [] IsInteger(base) -> InOrder(m.order, IF Size(base, m.sizes) = 8 THEN x ELSE Last4(x))
    [] OTHER -> <<x>>

\* The numbers of an element, one after the other.
Bases(type) == Joined([i \in DOMAIN type |-> [k \in 1..Times(type[i]) |-> type[i].base]])

AllFit(m, type, values) ==
  \A e \in DOMAIN values : \A k \in DOMAIN Bases(type) : Fits(m, Bases(type)[k], values[e][k])

HostBytes(m, type, values) ==
  Joined([e \in DOMAIN values |->
    Joined([k \in DOMAIN Bases(type) |-> NumberBytes(m, Bases(type)[k], values[e][k])])])
=============================================================================
