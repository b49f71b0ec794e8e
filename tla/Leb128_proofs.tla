--------------------------- MODULE Leb128_proofs -----------------------------
(***************************************************************************)
(* The loops of ByteArray.js, for every width of group, Number and BigInt. *)
(* Left(k) is what is left of the value after k groups: the measuring and  *)
(* the writing loop walk along it, and the bytes of a field are its lowest *)
(* groups (LoopInv).  The reading loop puts the groups together again:     *)
(* after k bytes it holds the value modulo 2 to the power of the bits read *)
(* (ReadInv), and from a field of another tool the sum of its groups       *)
(* (BigInv).                                                               *)
(***************************************************************************)
EXTENDS Leb128, Induction, SequenceTheorems

-----------------------------------------------------------------------------
(* Powers of 2, quotients and remainders *)

LEMMA Pow2Def ==
    /\ Pow2 \in [Nat -> Nat]
    /\ Pow2[0] = 1
    /\ \A n \in Nat : Pow2[n + 1] = 2 * Pow2[n]
<1> DEFINE step == [p \in Nat \X Nat |-> 2 * p[1]]
<1>1. \A n \in Nat : Keeps(step, Nat, n)
  BY DEF Keeps
<1>2. PICK f : NatRecursion(f, Nat, 1, step)
  <2>1. 1 \in Nat
    OBVIOUS
  <2> HIDE DEF step
  <2> QED BY <1>1, <2>1, NatRecursionExists
<1>3. ASSUME NEW k \in Nat \ {0} PROVE f[k] = 2 * f[k - 1]
  <2>1. k - 1 \in Nat /\ f[k - 1] \in Nat /\ k \in Nat
    BY <1>2 DEF NatRecursion
  <2>2. step[<<f[k - 1], k>>] = 2 * f[k - 1]
    BY <2>1
  <2> HIDE DEF step
  <2> QED BY <1>2, <2>2 DEF NatRecursion
<1>4. f = [n \in Nat |-> IF n = 0 THEN 1 ELSE 2 * f[n - 1]]
  BY <1>2, <1>3 DEF NatRecursion
<1>5. Pow2 = [n \in Nat |-> IF n = 0 THEN 1 ELSE 2 * Pow2[n - 1]]
  BY <1>4 DEF Pow2
<1>6. Pow2[0] = 1 /\ \A n \in Nat : Pow2[n + 1] = 2 * Pow2[n]
  BY <1>5
<1> DEFINE T == {n \in Nat : Pow2[n] \in Nat}
<1>7. T = Nat
  <2>1. 0 \in T /\ \A n \in T : n + 1 \in T
    BY <1>6
  <2>2. T \in SUBSET Nat
    OBVIOUS
  <2> HIDE DEF T
  <2> QED BY <2>1, <2>2, NatInductionSet
<1>8. \A n \in Nat : Pow2[n] \in Nat
  BY <1>7
<1>9. Pow2 \in [Nat -> Nat]
  BY <1>5, <1>8
<1> QED BY <1>6, <1>9

LEMMA Pow2Pos == \A n \in Nat : Pow2[n] \in Nat /\ Pow2[n] >= 1
<1> DEFINE T == {n \in Nat : Pow2[n] >= 1}
<1>1. 0 \in T /\ \A n \in T : n + 1 \in T
  <2>1. \A n \in Nat : Pow2[n] \in Nat
    BY Pow2Def
  <2>2. ASSUME NEW n \in T PROVE n + 1 \in T
    BY <2>1, Pow2Def
  <2>3. 0 \in T
    BY Pow2Def
  <2> QED BY <2>2, <2>3
<1>2. T \in SUBSET Nat
  OBVIOUS
<1>3. T = Nat
  <2> HIDE DEF T
  <2> QED BY <1>1, <1>2, NatInductionSet
<1> QED BY <1>3, Pow2Def

LEMMA MulAssoc == \A a, b, c \in Int : a * (b * c) = (a * b) * c /\ a * (b + c) = a * b + a * c
OBVIOUS

LEMMA Pow2Plus == \A m, n \in Nat : Pow2[m + n] = Pow2[m] * Pow2[n]
<1> SUFFICES ASSUME NEW m \in Nat PROVE \A n \in Nat : Pow2[m + n] = Pow2[m] * Pow2[n]
  OBVIOUS
<1> DEFINE T == {n \in Nat : Pow2[m + n] = Pow2[m] * Pow2[n]}
<1>1. 0 \in T
  BY Pow2Def
<1>2. ASSUME NEW n \in T PROVE n + 1 \in T
  <2>1. n \in Nat /\ Pow2[m + n] = Pow2[m] * Pow2[n] /\ Pow2[m] \in Int /\ Pow2[n] \in Int
    BY Pow2Pos
  <2>2. Pow2[m + (n + 1)] = 2 * Pow2[m + n]
    BY <2>1, Pow2Def
  <2>3. Pow2[n + 1] = 2 * Pow2[n]
    BY <2>1, Pow2Def
  <2>4. 2 * (Pow2[m] * Pow2[n]) = Pow2[m] * (2 * Pow2[n])
    BY <2>1
  <2> QED BY <2>1, <2>2, <2>3, <2>4
<1>3. T \in SUBSET Nat
  OBVIOUS
<1>4. T = Nat
  <2> HIDE DEF T
  <2> QED BY <1>1, <1>2, <1>3, NatInductionSet
<1> QED BY <1>4

LEMMA Division ==
    ASSUME NEW b \in Nat \ {0}, NEW v \in Int
    PROVE  v \div b \in Int /\ v % b \in 0 .. b - 1 /\ v = b * (v \div b) + (v % b)
OBVIOUS

LEMMA MulMonotone ==
    ASSUME NEW b \in Nat, NEW x \in Int, NEW y \in Int, x <= y
    PROVE  b * x <= b * y
<1>1. PICK d \in Nat : y = x + d
  <2>1. y - x \in Nat /\ y = x + (y - x)
    OBVIOUS
  <2> QED BY <2>1
<1>2. b * y = b * x + b * d
  BY <1>1
<1>3. b * d >= 0 /\ b * x \in Int /\ b * d \in Int
  OBVIOUS
<1> QED BY <1>2, <1>3

LEMMA DivisionUnique ==
    ASSUME NEW b \in Nat \ {0}, NEW q \in Int, NEW r \in 0 .. b - 1
    PROVE  (b * q + r) \div b = q /\ (b * q + r) % b = r
<1> DEFINE v == b * q + r
<1>1. v \in Int
  OBVIOUS
<1>2. v \div b \in Int /\ v % b \in 0 .. b - 1 /\ v = b * (v \div b) + (v % b)
  <2> HIDE DEF v
  <2> QED BY <1>1, Division
<1> DEFINE d == v \div b
           s == v % b
<1>3. d \in Int /\ s \in 0 .. b - 1 /\ b * q + r = b * d + s
  BY <1>2
<1>4. d = q
  <2> HIDE DEF d, s
  <2>1. CASE d < q
    <3>1. b * (d + 1) <= b * q
      BY <2>1, <1>3, MulMonotone
    <3>2. b * (d + 1) = b * d + b
      BY <1>3
    <3> QED BY <3>1, <3>2, <1>3
  <2>2. CASE q < d
    <3>1. b * (q + 1) <= b * d
      BY <2>2, <1>3, MulMonotone
    <3>2. b * (q + 1) = b * q + b
      BY <1>3
    <3> QED BY <3>1, <3>2, <1>3
  <2> QED BY <2>1, <2>2, <1>3
<1>5. s = r
  <2> HIDE DEF d, s
  <2> QED BY <1>3, <1>4
<1> QED BY <1>4, <1>5

LEMMA MulPositive ==
    ASSUME NEW a \in Nat \ {0}, NEW b \in Nat \ {0}
    PROVE  a * b \in Nat \ {0} /\ a * b >= b /\ a * b >= a
<1>1. b * 1 <= b * a /\ a * 1 <= a * b
  BY MulMonotone
<1>2. b * a = a * b
  OBVIOUS
<1> DEFINE p == a * b
<1>3. p \in Int
  OBVIOUS
<1>4. b <= p /\ a <= p
  BY <1>1, <1>2
<1> HIDE DEF p
<1>5. p \in Nat \ {0} /\ p >= b /\ p >= a
  BY <1>3, <1>4
<1> QED BY <1>5 DEF p

\* Dividing twice, and the digit that the second division takes off.
LEMMA DivideTwice ==
    ASSUME NEW a \in Nat \ {0}, NEW b \in Nat \ {0}, NEW v \in Int
    PROVE  /\ (v \div a) \div b = v \div (a * b)
           /\ v % (a * b) = (v % a) + a * ((v \div a) % b)
<1> DEFINE q == v \div a
           r == v % a
           d == q \div b
           s == q % b
<1>1. q \in Int /\ r \in 0 .. a - 1 /\ v = a * q + r
  BY Division
<1>2. d \in Int /\ s \in 0 .. b - 1 /\ q = b * d + s
  <2> HIDE DEF q
  <2> QED BY <1>1, Division
<1> HIDE DEF q, r, d, s
<1>3. a * q = (a * b) * d + a * s
  <2>1. a * q = a * (b * d + s)
    BY <1>2
  <2>2. a * (b * d + s) = a * (b * d) + a * s
    BY <1>2
  <2>3. a * (b * d) = (a * b) * d
    BY <1>2
  <2> QED BY <2>1, <2>2, <2>3
<1>4. r + a * s \in 0 .. a * b - 1
  <2>1. a * s <= a * (b - 1) /\ a * (b - 1) = a * b - a
    BY <1>2, MulMonotone
  <2>2. a * s >= 0 /\ a * s \in Int /\ a * b \in Int
    BY <1>2
  <2> QED BY <1>1, <2>1, <2>2
<1>5. v = (a * b) * d + (r + a * s)
  <2>1. (a * b) * d \in Int /\ a * s \in Int /\ r \in Int
    BY <1>1, <1>2
  <2>2. v = ((a * b) * d + a * s) + r
    BY <1>1, <1>3
  <2> QED BY <2>1, <2>2
<1> DEFINE p == a * b
           t == r + a * s
<1>6. p \in Nat \ {0} /\ t \in 0 .. p - 1 /\ v = p * d + t
  BY <1>4, <1>5, MulPositive
<1>7. v \div p = d /\ v % p = t
  <2> HIDE DEF p, t
  <2> QED BY <1>2, <1>6, DivisionUnique
<1> QED BY <1>7 DEF q, r, d, s

\* The bounds of a quotient.
LEMMA DivRange ==
    ASSUME NEW b \in Nat \ {0}, NEW x \in Nat, NEW v \in Int, -(b * x) <= v, v < b * x
    PROVE  v \div b \in -x .. x - 1
<1> DEFINE q == v \div b
           r == v % b
<1>1. q \in Int /\ r \in 0 .. b - 1 /\ v = b * q + r
  BY Division
<1> HIDE DEF q, r
<1>2. q < x
  <2>1. SUFFICES ASSUME x <= q PROVE FALSE
    BY <1>1
  <2>2. b * x <= b * q
    BY <1>1, <2>1, MulMonotone
  <2> QED BY <1>1, <2>2
<1>3. q >= -x
  <2>1. SUFFICES ASSUME q + 1 <= -x PROVE FALSE
    BY <1>1
  <2>2. b * (q + 1) <= b * (-x)
    BY <1>1, <2>1, MulMonotone
  <2>3. b * (q + 1) = b * q + b /\ b * (-x) = -(b * x)
    BY <1>1
  <2>4. b * q \in Int /\ b * x \in Int
    BY <1>1
  <2> QED BY <1>1, <2>2, <2>3, <2>4
<1>4. q \in -x .. x - 1
  BY <1>1, <1>2, <1>3
<1> QED BY <1>4 DEF q

LEMMA DivShrinks ==
    ASSUME NEW b \in Nat \ {0}, NEW x \in Nat, NEW v \in -x .. x - 1
    PROVE  v \div b \in -x .. x - 1
<1>1. x * 1 <= x * b /\ x * b = b * x /\ b * x \in Int
  BY MulMonotone
<1>2. -(b * x) <= v /\ v < b * x /\ v \in Int
  BY <1>1
<1> QED BY <1>2, DivRange, Zenon

LEMMA DivNatural ==
    ASSUME NEW b \in Nat \ {0}, NEW v \in Nat
    PROVE  v \div b \in Nat
<1> DEFINE q == v \div b
           r == v % b
<1>1. q \in Int /\ r \in 0 .. b - 1 /\ v = b * q + r
  BY Division
<1> HIDE DEF q, r
<1>2. q >= 0
  <2>1. SUFFICES ASSUME q + 1 <= 0 PROVE FALSE
    BY <1>1
  <2>2. b * (q + 1) <= b * 0 /\ b * (q + 1) = b * q + b
    BY <1>1, <2>1, MulMonotone
  <2>3. b * q \in Int
    BY <1>1
  <2> QED BY <1>1, <2>2, <2>3
<1> QED BY <1>1, <1>2 DEF q

LEMMA SmallDivision ==
    ASSUME NEW b \in Nat \ {0}, NEW v \in -b .. b - 1
    PROVE  /\ v \div b = (IF v < 0 THEN -1 ELSE 0)
           /\ v % b = (IF v < 0 THEN v + b ELSE v)
<1>1. CASE v < 0
  <2>1. v = b * (-1) + (v + b) /\ v + b \in 0 .. b - 1
    BY <1>1
  <2> DEFINE r == v + b
             q == -1
  <2>2. v = b * q + r /\ r \in 0 .. b - 1 /\ q \in Int
    BY <2>1
  <2>3. v \div b = q /\ v % b = r
    <3> HIDE DEF r, q
    <3> QED BY <2>2, DivisionUnique
  <2> QED BY <1>1, <2>3
<1>2. CASE v >= 0
  <2> DEFINE q == 0
  <2>1. v = b * q + v /\ v \in 0 .. b - 1 /\ q \in Int
    BY <1>2
  <2>2. v \div b = q /\ v % b = v
    <3> HIDE DEF q
    <3> QED BY <2>1, DivisionUnique
  <2> QED BY <1>2, <2>2
<1> QED BY <1>1, <1>2

\* Adding a multiple of the divisor.
LEMMA ModShift ==
    ASSUME NEW b \in Nat \ {0}, NEW v \in Int, NEW c \in Int
    PROVE  (v + b * c) % b = v % b /\ (v + b * c) \div b = (v \div b) + c
<1> DEFINE q == v \div b
           r == v % b
<1>1. q \in Int /\ r \in 0 .. b - 1 /\ v = b * q + r
  BY Division
<1>2. v + b * c = b * (q + c) + r
  <2> HIDE DEF q, r
  <2>1. b * (q + c) = b * q + b * c /\ b * q \in Int /\ b * c \in Int
    BY <1>1
  <2> QED BY <1>1, <2>1
<1> DEFINE w == v + b * c
           e == q + c
<1>3. e \in Int /\ w = b * e + r
  BY <1>1, <1>2
<1>4. w % b = r /\ w \div b = e
  <2> HIDE DEF w, e, r
  <2> QED BY <1>1, <1>3, DivisionUnique
<1> QED BY <1>4

-----------------------------------------------------------------------------
(* AsIntN *)

LEMMA HalfPow2 ==
    ASSUME NEW n \in Nat \ {0}
    PROVE  Pow2[n] = 2 * Pow2[n - 1] /\ Pow2[n - 1] \in Nat \ {0} /\ Pow2[n] \in Nat \ {0}
<1>1. n - 1 \in Nat /\ (n - 1) + 1 = n
  OBVIOUS
<1>2. Pow2[n] = 2 * Pow2[n - 1]
  BY <1>1, Pow2Def
<1> QED BY <1>1, <1>2, Pow2Pos

LEMMA AsIntNTyped ==
    ASSUME NEW n \in Nat \ {0}, NEW v \in Int
    PROVE  AsIntN(n, v) \in Signed(n)
<1> DEFINE low == v % Pow2[n]
           h == Pow2[n - 1]
           p == Pow2[n]
<1>1. p = 2 * h /\ h \in Nat \ {0} /\ p \in Nat \ {0}
  BY HalfPow2
<1>2. low \in 0 .. p - 1
  BY <1>1, Division
<1>3. AsIntN(n, v) = IF low >= h THEN low - p ELSE low
  BY DEF AsIntN
<1> HIDE DEF low, p
<1>4. AsIntN(n, v) \in -h .. h - 1
  <2> HIDE DEF h
  <2> QED BY <1>1, <1>2, <1>3
<1> QED BY <1>4 DEF Signed

LEMMA AsIntNSame ==
    ASSUME NEW n \in Nat \ {0}, NEW v \in Signed(n)
    PROVE  AsIntN(n, v) = v
<1> DEFINE low == v % Pow2[n]
           h == Pow2[n - 1]
           p == Pow2[n]
<1>1. p = 2 * h /\ h \in Nat \ {0} /\ p \in Nat \ {0}
  BY HalfPow2
<1>2. v \in -h .. h - 1 /\ v \in -p .. p - 1
  <2>1. v \in -h .. h - 1
    BY DEF Signed
  <2> HIDE DEF h, p
  <2> QED BY <1>1, <2>1
<1>3. low = IF v < 0 THEN v + p ELSE v
  <2> HIDE DEF h
  <2> QED BY <1>1, <1>2, SmallDivision
<1>4. AsIntN(n, v) = IF low >= h THEN low - p ELSE low
  BY DEF AsIntN
<1> HIDE DEF low, p, h
<1> QED BY <1>1, <1>2, <1>3, <1>4

\* AsIntN looks at the lowest bits only.
LEMMA AsIntNCongruent ==
    ASSUME NEW n \in Nat \ {0}, NEW v \in Int, NEW w \in Int, v % Pow2[n] = w % Pow2[n]
    PROVE  AsIntN(n, v) = AsIntN(n, w)
BY DEF AsIntN

\* It differs from its argument by a multiple of 2 to the width.
LEMMA AsIntNMod ==
    ASSUME NEW n \in Nat \ {0}, NEW v \in Int
    PROVE  AsIntN(n, v) % Pow2[n] = v % Pow2[n]
<1> DEFINE p == Pow2[n]
           low == v % p
           q == v \div p
<1>1. p \in Nat \ {0}
  BY HalfPow2
<1>2. low \in 0 .. p - 1 /\ q \in Int /\ v = p * q + low
  <2> HIDE DEF p
  <2> QED BY <1>1, Division
<1> DEFINE c == IF low >= Pow2[n - 1] THEN -q - 1 ELSE -q
<1>3. c \in Int
  <2> HIDE DEF q
  <2> QED BY <1>2
<1>4. AsIntN(n, v) = v + p * c
  <2>1. AsIntN(n, v) = IF low >= Pow2[n - 1] THEN low - p ELSE low
    BY DEF AsIntN
  <2>2. p * (-q - 1) = -(p * q) - p /\ p * (-q) = -(p * q) /\ p * q \in Int
    <3> HIDE DEF q, p, low
    <3> QED BY <1>1, <1>2
  <2> DEFINE high == low >= Pow2[n - 1]
  <2>3. AsIntN(n, v) = (IF high THEN low - p ELSE low) /\ c = (IF high THEN -q - 1 ELSE -q)
    BY <2>1
  <2> HIDE DEF q, p, low, high, c
  <2> QED BY <1>1, <1>2, <2>2, <2>3
<1> HIDE DEF c
<1>5. (v + p * c) % p = v % p
  <2> HIDE DEF p
  <2> QED BY <1>1, <1>3, ModShift
<1> QED BY <1>4, <1>5

-----------------------------------------------------------------------------
(* What is left of a value after some groups *)

\* An unsigned Number that the first shift takes for a negative one.
Wraps == ~field.signed /\ ~field.big /\ field.value >= Pow2[NumberBits - 1]

\* What is left of the value after k groups.
Left(k) == IF k > 0 /\ Wraps THEN 0 ELSE field.value \div Pow2[GroupBits * k]

LEMMA Pow2Monotone == \A m, n \in Nat : m <= n => Pow2[m] <= Pow2[n]
<1> SUFFICES ASSUME NEW m \in Nat, NEW n \in Nat, m <= n PROVE Pow2[m] <= Pow2[n]
  OBVIOUS
<1>1. n - m \in Nat /\ n = m + (n - m)
  OBVIOUS
<1>2. Pow2[n] = Pow2[m] * Pow2[n - m]
  BY <1>1, Pow2Plus
<1>3. Pow2[m] \in Nat \ {0} /\ Pow2[n - m] \in Nat \ {0}
  BY <1>1, Pow2Pos
<1> QED BY <1>2, <1>3, MulPositive

LEMMA Widths ==
    /\ GroupBits \in Nat \ {0} /\ NumberBits \in Nat \ {0} /\ BigBits \in Nat \ {0}
    /\ Base = Pow2[GroupBits] /\ Base = 2 * Pow2[GroupBits - 1]
    /\ Pow2[GroupBits - 1] \in Nat \ {0} /\ Base \in Nat \ {0}
    /\ Bits \in Nat \ {0} /\ Bits = (IF field.big THEN BigBits ELSE NumberBits)
BY WidthAssumption, HalfPow2 DEF Base, Bits

\* The place of a group.
LEMMA Places ==
    ASSUME NEW k \in Nat
    PROVE  /\ GroupBits * k \in Nat /\ GroupBits * (k + 1) = GroupBits * k + GroupBits
           /\ Pow2[GroupBits * k] \in Nat \ {0}
           /\ Pow2[GroupBits * (k + 1)] = Pow2[GroupBits * k] * Base
<1>1. GroupBits * k \in Nat /\ GroupBits * (k + 1) = GroupBits * k + GroupBits
  BY Widths
<1>2. Pow2[GroupBits * k + GroupBits] = Pow2[GroupBits * k] * Pow2[GroupBits]
  BY <1>1, Pow2Plus, Widths
<1> QED BY <1>1, <1>2, Pow2Pos, Widths

LEMMA FieldTyped ==
    ASSUME field \in Fields
    PROVE  /\ field.signed \in BOOLEAN /\ field.big \in BOOLEAN /\ field.foreign = FALSE
           /\ field.padTo \in Paddings /\ field.padTo \in Nat /\ field.value \in Int
           /\ field.signed => field.value \in Signed(Bits)
           /\ ~field.signed => field.value \in Nat /\ field.value < Pow2[Bits]
<1>1. PICK signed \in BOOLEAN, big \in BOOLEAN : field \in FieldsOf(signed, big)
  BY DEF Fields
<1>2. /\ field.signed = signed /\ field.big = big /\ field.foreign = FALSE
      /\ field.padTo \in Paddings /\ field.value \in ValuesOf(signed, big)
  BY <1>1 DEF FieldsOf
<1>3. Signed(BigBits) \subseteq Int /\ Signed(NumberBits) \subseteq Int
  BY Widths, Pow2Pos DEF Signed
<1>4. CASE signed
  <2>1. field.value \in Signed(Bits)
    BY <1>2, <1>4, Widths DEF ValuesOf
  <2> QED BY <2>1, <1>1, <1>2, <1>3, <1>4, WidthAssumption, Widths
<1>5. CASE ~signed
  <2>1. field.value \in (IF big THEN 0 .. Pow2[BigBits] - 1 ELSE 0 .. MaxNumber)
    BY <1>2, <1>5, <1>1 DEF ValuesOf
  <2>2. Pow2[BigBits] \in Nat /\ Pow2[NumberBits] \in Nat
    BY Widths, Pow2Pos
  <2>3. MaxNumber \in 0 .. Pow2[NumberBits] - 1
    BY WidthAssumption
  <2>4. field.value \in Nat /\ field.value < Pow2[Bits]
    <3>1. CASE big
      BY <2>1, <2>2, <3>1, <1>2, Widths
    <3>2. CASE ~big
      BY <2>1, <2>2, <2>3, <3>2, <1>2, Widths
    <3> QED BY <3>1, <3>2
  <2>5. field.value \in Int /\ ~field.signed
    BY <2>4, <1>2, <1>5
  <2>6. field.padTo \in Nat /\ field.signed \in BOOLEAN /\ field.big \in BOOLEAN
    BY <1>1, <1>2, WidthAssumption
  <2> QED BY <2>4, <2>5, <2>6, <1>2
<1> QED BY <1>4, <1>5

\* Where nothing wraps, one more group divides what is left by the base.
LEMMA LeftDivides ==
    ASSUME field \in Fields, NEW k \in Nat
    PROVE  /\ Left(k) \in Int
           /\ ~Wraps => Left(k + 1) = Left(k) \div Base
<1>1. field.value \in Int /\ Pow2[GroupBits * k] \in Nat \ {0} /\ Base \in Nat \ {0}
  BY FieldTyped, Places, Widths
<1>2. Left(k) \in Int
  <2>1. field.value \div Pow2[GroupBits * k] \in Int
    BY <1>1, Division
  <2> QED BY <2>1 DEF Left
<1>3. Pow2[GroupBits * (k + 1)] = Pow2[GroupBits * k] * Base
  BY Places
<1>4. (field.value \div Pow2[GroupBits * k]) \div Base = field.value \div (Pow2[GroupBits * k] * Base)
  BY <1>1, DivideTwice
<1> QED BY <1>2, <1>3, <1>4 DEF Left

LEMMA LeftRange ==
    ASSUME field \in Fields, NEW k \in Nat
    PROVE  /\ ~field.signed => Left(k) \in Nat
           /\ ~field.big /\ (k > 0 \/ ~Wraps) => Left(k) \in Signed(NumberBits)
<1> DEFINE b == Pow2[GroupBits * k]
           h == Pow2[NumberBits - 1]
<1>1. field.value \in Int /\ b \in Nat \ {0} /\ h \in Nat \ {0}
  BY FieldTyped, Places, HalfPow2, Widths
<1>2. ~field.signed => field.value \in Nat
  BY FieldTyped
<1>3. ASSUME ~field.signed PROVE Left(k) \in Nat
  <2>1. field.value \div b \in Nat
    <3> HIDE DEF b
    <3> QED BY <1>1, <1>2, <1>3, DivNatural
  <2> QED BY <2>1 DEF Left
<1>4. ASSUME ~field.big, k > 0 \/ ~Wraps PROVE Left(k) \in Signed(NumberBits)
  <2>1. 0 \in Signed(NumberBits)
    <3>1. 0 \in -h .. h - 1
      <4> HIDE DEF h
      <4> QED BY <1>1
    <3> QED BY <3>1 DEF Signed
  <2>2. CASE Wraps
    BY <2>1, <2>2, <1>4 DEF Left
  <2>3. CASE ~Wraps
    <3>1. field.value \in -h .. h - 1
      <4>1. CASE field.signed
        BY <4>1, <1>4, FieldTyped, Widths DEF Signed
      <4>2. CASE ~field.signed
        <5>1. ~(field.value >= h)
          BY <4>2, <1>4, <2>3 DEF Wraps
        <5> HIDE DEF h
        <5> QED BY <5>1, <1>1, <1>2, <4>2
      <4> QED BY <4>1, <4>2
    <3>2. field.value \div b \in -h .. h - 1
      <4> HIDE DEF b, h
      <4> QED BY <3>1, <1>1, DivShrinks
    <3>3. Left(k) = field.value \div b
      BY <2>3 DEF Left
    <3> QED BY <3>2, <3>3 DEF Signed
  <2> QED BY <2>2, <2>3
<1> QED BY <1>3, <1>4

\* One iteration of a loop leaves what the next one starts from.
LEMMA RestOfLeft ==
    ASSUME field \in Fields, NEW k \in Nat
    PROVE  Rest(Left(k)) = Left(k + 1)
<1>1. field.signed \in BOOLEAN /\ field.big \in BOOLEAN /\ Base \in Nat \ {0}
  BY FieldTyped, Widths
<1>2. CASE ~Wraps
  <2>1. Shifted(Left(k)) = Left(k + 1)
    <3>1. Left(k + 1) = Left(k) \div Base
      BY <1>2, LeftDivides
    <3>2. ~field.big => AsIntN(NumberBits, Left(k)) = Left(k)
      BY <1>2, LeftRange, AsIntNSame, Widths
    <3> QED BY <3>1, <3>2 DEF Shifted
  <2>2. ~field.signed => ~(Left(k + 1) < 0)
    BY LeftRange
  <2> QED BY <2>1, <2>2 DEF Rest, ShiftedUnsigned
<1>3. CASE Wraps
  <2>1. ~field.signed /\ ~field.big /\ field.value >= Pow2[NumberBits - 1]
    BY <1>3 DEF Wraps
  <2>2. Left(k + 1) = 0
    BY <1>3 DEF Left
  <2>3. Shifted(Left(k)) <= 0
    <3> DEFINE v == AsIntN(NumberBits, Left(k))
    <3>1. v \in Int /\ v <= 0
      <4>1. CASE k = 0
        <5> DEFINE p == Pow2[NumberBits]
                   h == Pow2[NumberBits - 1]
        <5>1. Left(k) = field.value
          <6>1. Left(k) = field.value \div 1
            BY <4>1, Pow2Def, Widths DEF Left
          <6>2. field.value \in Int
            BY FieldTyped
          <6> QED BY <6>1, <6>2
        <5>2. p = 2 * h /\ h \in Nat \ {0} /\ p \in Nat \ {0}
          BY HalfPow2, Widths
        <5>3. field.value \in Nat /\ field.value < p /\ field.value >= h
          BY <2>1, FieldTyped, Widths
        <5>4. field.value % p = field.value
          <6>1. field.value \in -p .. p - 1 /\ ~(field.value < 0)
            <7> HIDE DEF h, p
            <7> QED BY <5>3, <5>2
          <6> HIDE DEF h, p
          <6> QED BY <6>1, <5>2, SmallDivision
        <5>5. v = field.value - p
          BY <5>1, <5>3, <5>4 DEF AsIntN
        <5> HIDE DEF p, h, v
        <5> QED BY <5>2, <5>3, <5>5
      <4>2. CASE k > 0
        <5>1. Left(k) = 0
          BY <4>2, <1>3 DEF Left
        <5>2. Left(k) \in Signed(NumberBits)
          BY <4>2, <2>1, LeftRange
        <5> QED BY <5>1, <5>2, AsIntNSame, Widths
      <4> QED BY <4>1, <4>2
    <3>2. Shifted(Left(k)) = v \div Base
      BY <2>1 DEF Shifted
    <3>3. v \div Base <= 0
      <4> DEFINE q == v \div Base
                 r == v % Base
      <4>1. q \in Int /\ r \in 0 .. Base - 1 /\ v = Base * q + r
        <5> HIDE DEF v
        <5> QED BY <3>1, <1>1, Division
      <4> HIDE DEF v, q, r
      <4>2. SUFFICES ASSUME q >= 1 PROVE FALSE
        BY <4>1 DEF q
      <4>3. Base * 1 <= Base * q
        BY <4>1, <4>2, <1>1, MulMonotone
      <4> QED BY <4>1, <4>3, <3>1, <1>1
    <3> QED BY <3>2, <3>3
  <2>4. Shifted(Left(k)) \in Int
    <3>1. AsIntN(NumberBits, Left(k)) \in Int
      <4>1. AsIntN(NumberBits, Left(k)) \in Signed(NumberBits)
        BY LeftDivides, AsIntNTyped, Widths
      <4> QED BY <4>1, HalfPow2, Widths DEF Signed
    <3> QED BY <3>1, <2>1, <1>1, Division DEF Shifted
  <2> QED BY <2>1, <2>2, <2>3, <2>4 DEF Rest, ShiftedUnsigned
<1> QED BY <1>2, <1>3

\* A group whose rest is only its own sign.
LEMMA SmallGroup ==
    ASSUME NEW v \in Int
    PROVE  /\ v \in -Pow2[GroupBits - 1] .. Pow2[GroupBits - 1] - 1 =>
                /\ v \div Base = (IF v < 0 THEN -1 ELSE 0)
                /\ HighBit(Slice(v)) <=> v < 0
           /\ Slice(v) \in 0 .. Base - 1
           /\ Slice(0) = 0 /\ ~HighBit(0) /\ Slice(-1) = Base - 1 /\ HighBit(Base - 1)
           /\ 0 \div Base = 0 /\ (-1) \div Base = -1
<1> DEFINE h == Pow2[GroupBits - 1]
<1>1. h \in Nat \ {0} /\ Base = 2 * h /\ Base \in Nat \ {0}
  BY Widths
<1>2. ASSUME NEW w \in -h .. h - 1
      PROVE  /\ w \div Base = (IF w < 0 THEN -1 ELSE 0)
             /\ w % Base = (IF w < 0 THEN w + Base ELSE w)
             /\ HighBit(Slice(w)) <=> w < 0
  <2>1. w \in -Base .. Base - 1
    <3> HIDE DEF h
    <3> QED BY <1>1
  <2>2. w \div Base = (IF w < 0 THEN -1 ELSE 0) /\ w % Base = (IF w < 0 THEN w + Base ELSE w)
    BY <2>1, <1>1, SmallDivision
  <2>3. HighBit(Slice(w)) <=> (w % Base) >= h
    BY DEF HighBit, Slice
  <2>4. w \in Int /\ w >= -h /\ w < h
    <3> HIDE DEF h
    <3> QED BY <1>1
  <2> HIDE DEF h
  <2> QED BY <2>2, <2>3, <2>4, <1>1
<1>3. Slice(v) \in 0 .. Base - 1
  BY <1>1, Division DEF Slice
<1>4. 0 \in -h .. h - 1 /\ -1 \in -h .. h - 1
  <2> HIDE DEF h
  <2> QED BY <1>1
<1>5. 0 \div Base = 0 /\ Slice(0) = 0 /\ ~HighBit(Slice(0))
  BY <1>2, <1>4 DEF Slice
<1>6. (-1) \div Base = -1 /\ Slice(-1) = Base - 1 /\ HighBit(Slice(-1))
  <2> DEFINE one == -1
  <2>1. one \in -h .. h - 1 /\ one < 0 /\ one + Base = Base - 1
    BY <1>4, <1>1
  <2>2. one \div Base = -1 /\ one % Base = one + Base /\ HighBit(Slice(one))
    <3>1. one < 0 /\ one \in -h .. h - 1
      BY <2>1
    <3> HIDE DEF one, h
    <3> QED BY <1>2, <3>1
  <2>3. one \div Base = -1 /\ one % Base = Base - 1 /\ HighBit(Slice(one))
    BY <2>1, <2>2
  <2> QED BY <2>3 DEF Slice
<1> QED BY <1>2, <1>3, <1>5, <1>6

\* The group that holds the last bit of the width is the last one.
LEMMA LastInWidth ==
    ASSUME field \in Fields, NEW k \in Nat, GroupBits * k < Bits, Bits <= GroupBits * (k + 1)
    PROVE  IsLast(Left(k))
<1>1. field.signed \in BOOLEAN /\ field.big \in BOOLEAN /\ field.value \in Int
  BY FieldTyped
<1> DEFINE at == GroupBits * k
<1>2. at \in Nat /\ GroupBits * (k + 1) = at + GroupBits
  BY Places
<1>3. CASE ~field.signed
  <2>1. Left(k + 1) = 0
    <3>1. CASE Wraps
      BY <3>1 DEF Left
    <3>2. CASE ~Wraps
      <4> DEFINE b == Pow2[GroupBits * (k + 1)]
      <4>1. GroupBits * (k + 1) \in Nat /\ b \in Nat \ {0}
        BY <1>2, Widths, Pow2Pos
      <4>2. Pow2[Bits] <= b /\ Pow2[Bits] \in Nat
        BY <4>1, Pow2Monotone, Pow2Pos, Widths
      <4>3. field.value \in Nat /\ field.value < Pow2[Bits]
        BY <1>3, FieldTyped
      <4>4. field.value \in -b .. b - 1 /\ ~(field.value < 0)
        <5> HIDE DEF b
        <5> QED BY <4>1, <4>2, <4>3
      <4>5. field.value \div b = 0
        <5> HIDE DEF b
        <5> QED BY <4>1, <4>4, SmallDivision
      <4> QED BY <4>5, <3>2 DEF Left
    <3> QED BY <3>1, <3>2
  <2>2. Rest(Left(k)) = 0
    BY <2>1, RestOfLeft
  <2> QED BY <2>2, <1>3 DEF IsLast, Rest
<1>4. CASE field.signed
  <2> DEFINE m == Bits - 1 - at
             x == Pow2[m]
             b == Pow2[at]
             h == Pow2[GroupBits - 1]
  <2>1. m \in Nat /\ m <= GroupBits - 1 /\ Bits - 1 = at + m /\ GroupBits - 1 \in Nat
    <3> HIDE DEF at
    <3> QED BY <1>2, Widths
  <2>2. b \in Nat \ {0} /\ x \in Nat \ {0} /\ h \in Nat \ {0} /\ x <= h
    <3> HIDE DEF at, m
    <3> QED BY <1>2, <2>1, Pow2Pos, Pow2Monotone
  <2>3. Pow2[Bits - 1] = b * x
    <3> HIDE DEF at, m
    <3> QED BY <1>2, <2>1, Pow2Plus
  <2>4. field.value \in -(b * x) .. (b * x) - 1
    BY <1>4, <2>3, FieldTyped DEF Signed
  <2>5. field.value \div b \in -x .. x - 1
    <3> HIDE DEF b, x
    <3>1. b * x \in Int
      BY <2>2
    <3>2. -(b * x) <= field.value /\ field.value < b * x
      BY <2>4, <3>1
    <3> QED BY <3>2, <2>2, <1>1, DivRange
  <2>6. ~Wraps
    BY <1>4 DEF Wraps
  <2>7. Left(k) \in -h .. h - 1 /\ Left(k) \in Int
    <3>1. Left(k) = field.value \div b
      BY <2>6 DEF Left
    <3> HIDE DEF b, x, h
    <3> QED BY <3>1, <2>5, <2>2
  <2>8. Shifted(Left(k)) = Left(k) \div Base
    <3>1. ~field.big => AsIntN(NumberBits, Left(k)) = Left(k)
      BY <2>6, LeftRange, AsIntNSame, Widths
    <3> QED BY <3>1 DEF Shifted
  <2>9. /\ Left(k) \div Base = (IF Left(k) < 0 THEN -1 ELSE 0)
        /\ HighBit(Slice(Left(k))) <=> Left(k) < 0
    BY <2>7, SmallGroup
  <2> QED BY <2>8, <2>9, <1>4 DEF IsLast, NoMore
<1> QED BY <1>1, <1>3, <1>4

\* After the last group only the sign is left, which the padding repeats.
LEMMA AfterLast ==
    ASSUME field \in Fields, NEW n \in Nat, IsLast(Left(n)), NEW k \in Nat, k > n
    PROVE  /\ Left(k) = Left(n + 1)
           /\ Left(k) \in {0, -1} /\ (~field.signed => Left(k) = 0)
           /\ field.signed => (HighBit(Slice(Left(k - 1))) <=> Left(k) = -1)
<1> DEFINE end == Left(n + 1)
<1>1. field.signed \in BOOLEAN
  BY FieldTyped
<1>2. Rest(Left(n)) = end
  BY RestOfLeft
<1>3. /\ end \in {0, -1} /\ (~field.signed => end = 0)
      /\ field.signed => (HighBit(Slice(Left(n))) <=> end = -1)
  <2>1. CASE field.signed
    <3>1. NoMore(Left(n)) /\ Shifted(Left(n)) = end
      BY <1>2, <2>1 DEF IsLast, Rest
    <3> QED BY <3>1, <2>1 DEF NoMore
  <2>2. CASE ~field.signed
    <3>1. ShiftedUnsigned(Left(n)) = 0 /\ ShiftedUnsigned(Left(n)) = end
      BY <1>2, <2>2 DEF IsLast, Rest
    <3> QED BY <3>1, <2>2
  <2> QED BY <1>1, <2>1, <2>2
<1> HIDE DEF end
<1> DEFINE T == {j \in Nat : Left(n + 1 + j) = end}
<1>4. 0 \in T
  BY DEF end
<1>5. ASSUME NEW j \in T PROVE j + 1 \in T
  <2>1. j \in Nat /\ Left(n + 1 + j) = end /\ n + 1 + j \in Nat
    OBVIOUS
  <2>2. Rest(end) = end
    <3>1. 0 \div Base = 0 /\ (-1) \div Base = -1
      BY SmallGroup
    <3>2. ~field.big => AsIntN(NumberBits, end) = end
      <4>1. ASSUME ~field.big PROVE end \in Signed(NumberBits)
        BY <4>1, LeftRange DEF end
      <4> QED BY <4>1, AsIntNSame, Widths
    <3>3. Shifted(end) = end
      BY <3>1, <3>2, <1>3 DEF Shifted
    <3> QED BY <3>3, <1>3 DEF Rest, ShiftedUnsigned
  <2>3. Left((n + 1 + j) + 1) = end
    BY <2>1, <2>2, RestOfLeft
  <2>4. n + 1 + (j + 1) = (n + 1 + j) + 1
    BY <2>1
  <2> QED BY <2>1, <2>3, <2>4
<1>6. T = Nat
  <2>1. T \in SUBSET Nat
    OBVIOUS
  <2> HIDE DEF T
  <2> QED BY <1>4, <1>5, <2>1, NatInductionSet
<1>7. ASSUME NEW i \in Nat, i > n PROVE Left(i) = end
  <2> DEFINE j == i - (n + 1)
  <2>1. j \in Nat /\ n + 1 + j = i
    BY <1>7
  <2>2. j \in T
    BY <2>1, <1>6, Zenon
  <2> QED BY <2>1, <2>2
<1>8. field.signed => (HighBit(Slice(Left(k - 1))) <=> end = -1)
  <2>1. CASE k = n + 1
    <3>1. k - 1 = n
      BY <2>1
    <3>2. Left(k - 1) = Left(n)
      BY <3>1, Zenon
    <3> QED BY <3>2, <1>3, Zenon
  <2>2. CASE k > n + 1
    <3>1. Left(k - 1) = end
      BY <2>2, <1>7
    <3>2. Slice(0) = 0 /\ ~HighBit(0) /\ Slice(-1) = Base - 1 /\ HighBit(Base - 1)
      BY SmallGroup
    <3>3. CASE end = 0
      <4>1. ~HighBit(Slice(Left(k - 1)))
        BY <3>1, <3>2, <3>3
      <4> QED BY <4>1, <3>3
    <3>4. CASE end = -1
      <4>1. HighBit(Slice(Left(k - 1)))
        BY <3>1, <3>2, <3>4
      <4> QED BY <4>1, <3>4
    <3> QED BY <3>3, <3>4, <1>3
  <2> QED BY <2>1, <2>2
<1> QED BY <1>3, <1>7, <1>8 DEF end

-----------------------------------------------------------------------------
(* The width that was predicted is the width that is written *)

\* The groups of the value end with group n.
Ends(n) == n \in Nat /\ IsLast(Left(n)) /\ \A k \in 0 .. n - 1 : ~IsLast(Left(k))

\* The bytes so far are the groups of the value, one after the other.
Encoded ==
    \A k \in 1 .. Len(bytes) : bytes[k] = [slice |-> Slice(Left(k - 1)), more |-> k < predicted]

Reading == {"read", "done", "failed"}

Shape ==
    /\ field \in Fields \cup ForeignFields
    /\ phase \in {"measure", "write", "pad"} \cup Reading
    /\ count \in Nat /\ predicted \in Nat
    /\ bytes \in Seq(Byte)
    /\ field.foreign => phase \in Reading

\* What the loops have done so far, by phase.
Measured ==
    /\ value = Left(count) /\ bytes = << >>
    /\ \A k \in 0 .. count - 1 : ~IsLast(Left(k))

Written(n) ==
    /\ Ends(n) /\ predicted = Padded(n + 1) /\ Encoded
    /\ phase = "write" => count \in 0 .. n /\ value = Left(count) /\ Len(bytes) = count
    /\ phase = "pad" => count = n + 1 /\ value = Left(count) /\ Len(bytes) = count
    /\ phase \in Reading => Len(bytes) = predicted

LoopInv ==
    /\ Shape
    /\ ~field.foreign /\ phase = "measure" => Measured
    /\ ~field.foreign /\ phase # "measure" => \E n \in 0 .. predicted - 1 : Written(n)

LEMMA FieldKind ==
    ASSUME field \in Fields \cup ForeignFields
    PROVE  /\ ~field.foreign => field \in Fields
           /\ field.foreign => field \in ForeignFields
BY FieldTyped DEF ForeignFields

LEMMA LeftStart ==
    ASSUME field \in Fields
    PROVE  Left(0) = field.value
<1>1. field.value \in Int /\ GroupBits * 0 = 0
  BY FieldTyped, Widths
<1>2. Left(0) = field.value \div 1
  BY <1>1, Pow2Def DEF Left
<1> QED BY <1>1, <1>2

LEMMA SameField ==
    ASSUME field' = field, NEW CONSTANT k
    PROVE  /\ Left(k)' = Left(k) /\ Padded(k)' = Padded(k)
           /\ IsLast(Left(k))' = IsLast(Left(k))
BY DEF Left, Wraps, Padded, IsLast, NoMore, Shifted, ShiftedUnsigned

LEMMA EndsSame ==
    ASSUME field' = field, NEW CONSTANT n, Ends(n)
    PROVE  Ends(n)'
BY SameField DEF Ends

LEMMA PaddedTyped ==
    ASSUME field \in Fields, NEW n \in Nat
    PROVE  Padded(n) \in Nat /\ Padded(n) >= n /\ Padded(n) >= field.padTo
           /\ (Padded(n) = n \/ Padded(n) = field.padTo)
BY FieldTyped DEF Padded

\* The last group starts inside the width.
LEMMA EndsInWidth ==
    ASSUME field \in Fields, NEW n \in Nat, Ends(n)
    PROVE  GroupBits * n < Bits
<1> DEFINE last == Bits - 1
           k == last \div GroupBits
           r == last % GroupBits
<1>1. last \in Nat /\ last \in Int /\ GroupBits \in Nat \ {0}
  BY Widths
<1>2. k \in Nat /\ r \in 0 .. GroupBits - 1 /\ last = GroupBits * k + r
  <2> HIDE DEF last
  <2>1. k \in Nat
    BY <1>1, DivNatural
  <2>2. r \in 0 .. GroupBits - 1 /\ last = GroupBits * k + r
    BY <1>1, Division
  <2> QED BY <2>1, <2>2
<1> HIDE DEF k, r
<1>3. GroupBits * k < Bits /\ Bits <= GroupBits * (k + 1)
  BY <1>1, <1>2, Places, Widths
<1>4. IsLast(Left(k))
  BY <1>2, <1>3, LastInWidth
<1>5. n <= k
  BY <1>2, <1>4 DEF Ends
<1>6. GroupBits * n <= GroupBits * k /\ GroupBits * n \in Nat /\ GroupBits * k \in Nat
  BY <1>2, <1>5, MulMonotone, Widths, Places
<1> QED BY <1>3, <1>6, Widths

\* The groups of a Number fit into its padding.
LEMMA PaddingFits ==
    ASSUME field \in Fields, NEW n \in Nat, Ends(n), ~field.big, field.padTo > 0
    PROVE  n + 1 <= field.padTo
<1> DEFINE k == field.padTo - 1
<1>1. field.padTo \in Paddings \ {0} /\ field.padTo \in Nat /\ Bits = NumberBits
  BY FieldTyped, Widths
<1>2. k \in Nat /\ k + 1 = field.padTo
  BY <1>1
<1>3. GroupBits * k < Bits /\ Bits <= GroupBits * (k + 1)
  BY <1>1, <1>2, PaddingAssumption
<1>4. IsLast(Left(k))
  <2> HIDE DEF k
  <2> QED BY <1>2, <1>3, LastInWidth
<1>5. n <= k
  <2> HIDE DEF k
  <2> QED BY <1>2, <1>4 DEF Ends
<1> QED BY <1>1, <1>5

LEMMA LoopInit == Init => LoopInv
<1> SUFFICES ASSUME Init PROVE LoopInv
  OBVIOUS
<1>1. CASE field \in Fields /\ phase = "measure" /\ value = field.value /\ bytes = << >>
  <2>1. field.foreign = FALSE /\ Left(0) = field.value
    BY <1>1, FieldTyped, LeftStart
  <2>2. count = 0 /\ predicted = 0
    BY DEF Init
  <2> QED BY <1>1, <2>1, <2>2 DEF LoopInv, Shape, Measured
<1>2. CASE field \in ForeignFields /\ phase = "read" /\ bytes \in ForeignBytes
  <2>1. field.foreign = TRUE
    BY <1>2 DEF ForeignFields
  <2>2. bytes \in Seq(Byte)
    <3>1. PICK n \in 1 .. MaxForeign : bytes \in [1 .. n -> [slice : ForeignSlices, more : BOOLEAN]]
      BY <1>2 DEF ForeignBytes
    <3>2. n \in Nat
      BY WidthAssumption
    <3>3. ForeignSlices \subseteq 0 .. Base - 1
      BY WidthAssumption
    <3>4. [slice : ForeignSlices, more : BOOLEAN] \subseteq Byte
      BY <3>3, Zenon DEF Byte
    <3>5. bytes \in [1 .. n -> Byte]
      BY <3>1, <3>4
    <3> QED BY <3>2, <3>5
  <2>3. count = 0 /\ predicted = 0
    BY DEF Init
  <2> QED BY <1>2, <2>1, <2>2, <2>3 DEF LoopInv, Shape, Reading
<1> QED BY <1>1, <1>2 DEF Init

LEMMA LoopMeasure == LoopInv /\ Measure => LoopInv'
<1> SUFFICES ASSUME LoopInv, Measure PROVE LoopInv'
  OBVIOUS
<1>1. Shape /\ phase = "measure" /\ field' = field /\ bytes' = bytes
  BY DEF LoopInv, Measure
<1>2. ~field.foreign /\ field \in Fields
  BY <1>1, FieldKind DEF Shape, Reading
<1>3. value = Left(count) /\ bytes = << >> /\ \A k \in 0 .. count - 1 : ~IsLast(Left(k))
  BY <1>1, <1>2 DEF LoopInv, Measured
<1>4. count \in Nat
  BY <1>1 DEF Shape
<1>5. CASE IsLast(value)
  <2>1. predicted' = Padded(count + 1) /\ phase' = "write" /\ value' = field.value /\ count' = 0
    BY <1>5 DEF Measure
  <2>2. Ends(count)
    BY <1>3, <1>4, <1>5 DEF Ends
  <2>3. Padded(count + 1) \in Nat /\ Padded(count + 1) >= count + 1
    BY <1>2, <1>4, PaddedTyped
  <2>4. Shape'
    BY <1>1, <1>2, <2>1, <2>3 DEF Shape
  <2>5. count \in 0 .. predicted' - 1
    BY <1>4, <2>1, <2>3
  <2>6. Len(bytes') = 0 /\ bytes' = << >>
    BY <1>1, <1>3
  <2>7. \E m \in 0 .. predicted' - 1 : Written(m)'
    <3>1. PICK m : m = count
      OBVIOUS
    <3>2. Ends(m)' /\ Padded(m + 1)' = Padded(m + 1)
      BY <3>1, <2>2, <1>1, EndsSame, SameField
    <3>3. Left(0)' = Left(0) /\ Left(0) = field.value
      BY <1>1, <1>2, SameField, LeftStart
    <3>4. Encoded'
      BY <2>6 DEF Encoded
    <3>5. 0 \in 0 .. m
      BY <3>1, <1>4
    <3>6. Written(m)'
      BY <3>1, <3>2, <3>3, <3>4, <3>5, <2>1, <2>6 DEF Written, Reading
    <3> QED BY <3>1, <3>6, <2>5
  <2> QED BY <2>1, <2>4, <2>7 DEF LoopInv
<1>6. CASE ~IsLast(value)
  <2>1. value' = Rest(value) /\ count' = count + 1 /\ predicted' = predicted /\ phase' = phase
    BY <1>6 DEF Measure
  <2>2. Shape'
    BY <1>1, <1>4, <2>1 DEF Shape
  <2>3. value' = Left(count')
    BY <1>2, <1>3, <1>4, <2>1, RestOfLeft
  <2>4. \A k \in 0 .. count' - 1 : ~IsLast(Left(k))
    BY <1>3, <1>4, <1>6, <2>1
  <2>5. Measured'
    <3>1. PICK c : c = count + 1
      OBVIOUS
    <3>2. value' = Left(c)'
      BY <3>1, <2>1, <2>3, <1>1, SameField
    <3>3. \A k \in 0 .. c - 1 : ~IsLast(Left(k))'
      BY <3>1, <2>1, <2>4, <1>1, SameField
    <3> QED BY <3>1, <3>2, <3>3, <2>1, <1>1, <1>3 DEF Measured
  <2> QED BY <2>1, <2>2, <2>5, <1>1 DEF LoopInv
<1> QED BY <1>5, <1>6

LEMMA LoopWrite == LoopInv /\ Write => LoopInv'
<1> SUFFICES ASSUME LoopInv, Write PROVE LoopInv'
  OBVIOUS
<1>1. Shape /\ phase = "write" /\ field' = field /\ predicted' = predicted
  BY DEF LoopInv, Write
<1>2. ~field.foreign /\ field \in Fields
  BY <1>1, FieldKind DEF Shape, Reading
<1>3. PICK n \in 0 .. predicted - 1 : Written(n)
  BY <1>1, <1>2 DEF LoopInv
<1>4. /\ Ends(n) /\ predicted = Padded(n + 1) /\ Encoded
      /\ count \in 0 .. n /\ value = Left(count) /\ Len(bytes) = count
  BY <1>1, <1>3 DEF Written
<1>5. n \in Nat /\ count \in Nat /\ predicted \in Nat /\ bytes \in Seq(Byte)
  BY <1>1, <1>4 DEF Shape
<1>6. field.padTo \in Nat /\ predicted >= n + 1 /\ predicted >= field.padTo
      /\ (predicted = n + 1 \/ predicted = field.padTo)
  <2>1. n + 1 \in Nat
    BY <1>5
  <2> QED BY <2>1, <1>2, <1>4, PaddedTyped, FieldTyped
<1> DEFINE new == [slice |-> Slice(Left(count)), more |-> count + 1 < predicted]
<1>7. IsLast(value) <=> count = n
  BY <1>4, <1>5 DEF Ends
<1>8. bytes' = Append(bytes, new)
  <2>1. (~IsLast(value) \/ count + 1 < field.padTo) <=> count + 1 < predicted
    BY <1>4, <1>5, <1>6, <1>7
  <2>2. (~IsLast(value) \/ count + 1 < field.padTo) = (count + 1 < predicted)
    BY <2>1
  <2> QED BY <2>2, <1>4 DEF Write
<1>9. new \in Byte
  <2>1. Left(count) \in Int
    BY <1>2, <1>5, LeftDivides
  <2>2. Slice(Left(count)) \in 0 .. Base - 1
    BY <2>1, SmallGroup
  <2> QED BY <2>2 DEF Byte
<1>10. /\ bytes' \in Seq(Byte) /\ Len(bytes') = count + 1
       /\ \A k \in 1 .. Len(bytes') : bytes'[k] = IF k <= count THEN bytes[k] ELSE new
  <2> HIDE DEF new
  <2> QED BY <1>4, <1>5, <1>8, <1>9
<1>11. Encoded'
  <2>1. ASSUME NEW CONSTANT k \in 1 .. count + 1
        PROVE bytes'[k] = [slice |-> Slice(Left(k - 1))', more |-> k < predicted]
    <3>1. Slice(Left(k - 1))' = Slice(Left(k - 1))
      BY <1>1, SameField DEF Slice
    <3>2. CASE k <= count
      BY <3>1, <3>2, <1>4, <1>5, <1>10 DEF Encoded
    <3>3. CASE k = count + 1
      <4>1. k - 1 = count
        BY <3>3, <1>5
      <4>2. bytes'[k] = new
        BY <3>3, <1>10, <1>5
      <4> QED BY <3>1, <3>3, <4>1, <4>2
    <3> QED BY <3>2, <3>3, <1>5
  <2> QED BY <2>1, <1>10, <1>1 DEF Encoded
<1>12. value' = Left(count + 1) /\ count' = count + 1
       /\ phase' = (IF count = n THEN "pad" ELSE "write")
  BY <1>1, <1>2, <1>4, <1>5, <1>7, RestOfLeft DEF Write
<1>13. Shape'
  BY <1>1, <1>2, <1>5, <1>10, <1>12 DEF Shape
<1>14. Written(n)'
  <2>1. Ends(n)' /\ Padded(n + 1)' = Padded(n + 1)
    BY <1>1, <1>4, EndsSame, SameField
  <2>2. PICK c : c = count + 1
    OBVIOUS
  <2>3. value' = Left(c)' /\ count' = c
    BY <2>2, <1>12, <1>1, SameField
  <2>4. c \in Nat /\ (phase' = "write" => c \in 0 .. n) /\ (phase' = "pad" => c = n + 1)
    BY <2>2, <1>4, <1>5, <1>12
  <2> QED BY <2>1, <2>2, <2>3, <2>4, <1>1, <1>4, <1>10, <1>11, <1>12 DEF Written, Reading
<1>15. n \in 0 .. predicted' - 1
  BY <1>1, <1>3
<1> QED BY <1>12, <1>13, <1>14, <1>15 DEF LoopInv

LEMMA LoopPad == LoopInv /\ Pad => LoopInv'
<1> SUFFICES ASSUME LoopInv, Pad PROVE LoopInv'
  OBVIOUS
<1>1. /\ Shape /\ phase = "pad" /\ field' = field /\ predicted' = predicted
      /\ phase' = "read" /\ count' = 0 /\ bytes' = bytes \o Padding
  BY DEF LoopInv, Pad
<1>2. ~field.foreign /\ field \in Fields
  BY <1>1, FieldKind DEF Shape, Reading
<1>3. PICK n \in 0 .. predicted - 1 : Written(n)
  BY <1>1, <1>2 DEF LoopInv
<1>4. /\ Ends(n) /\ predicted = Padded(n + 1) /\ Encoded
      /\ count = n + 1 /\ value = Left(count) /\ Len(bytes) = count
  BY <1>1, <1>3 DEF Written
<1>5. n \in Nat /\ count \in Nat /\ predicted \in Nat /\ bytes \in Seq(Byte)
  BY <1>1, <1>4 DEF Shape
<1>6. field.padTo \in Nat /\ predicted >= n + 1 /\ predicted >= field.padTo
      /\ (predicted = n + 1 \/ predicted = field.padTo)
  <2>1. n + 1 \in Nat
    BY <1>5
  <2> QED BY <2>1, <1>2, <1>4, PaddedTyped, FieldTyped
<1>7. ASSUME NEW k \in Nat, k > n PROVE Slice(Left(k)) = PadSlice
  <2>1. Left(k) = value /\ Left(k) \in {0, -1} /\ (~field.signed => Left(k) = 0)
    BY <1>2, <1>4, <1>5, <1>7, AfterLast DEF Ends
  <2>2. Slice(0) = 0 /\ Slice(-1) = Base - 1
    BY SmallGroup
  <2>3. CASE Left(k) = 0
    BY <2>1, <2>2, <2>3 DEF PadSlice
  <2>4. CASE Left(k) = -1
    BY <2>1, <2>2, <2>4 DEF PadSlice
  <2> QED BY <2>1, <2>3, <2>4
<1> DEFINE m == predicted - count
<1>8. m \in Nat /\ Padding = [i \in 1 .. m |-> [slice |-> PadSlice, more |-> count + i < field.padTo]]
  BY <1>4, <1>5, <1>6 DEF Padding
<1>9. PadSlice \in 0 .. Base - 1
  BY Widths DEF PadSlice
<1>10. Padding \in Seq(Byte) /\ Len(Padding) = m
  <2> HIDE DEF m
  <2>1. \A i \in 1 .. m : [slice |-> PadSlice, more |-> count + i < field.padTo] \in Byte
    BY <1>9 DEF Byte
  <2>2. Padding \in [1 .. m -> Byte]
    BY <2>1, <1>8
  <2> QED BY <2>2, <1>8
<1>11. /\ bytes' \in Seq(Byte) /\ Len(bytes') = predicted
       /\ \A k \in 1 .. predicted : bytes'[k] = IF k <= count THEN bytes[k] ELSE Padding[k - count]
  <2>1. /\ bytes \o Padding \in Seq(Byte) /\ Len(bytes \o Padding) = count + m
        /\ \A k \in 1 .. count + m :
              (bytes \o Padding)[k] = IF k <= count THEN bytes[k] ELSE Padding[k - count]
    <3> HIDE DEF m
    <3>1. Len(bytes) = count /\ Len(Padding) = m /\ Padding \in Seq(Byte)
      BY <1>4, <1>10
    <3> QED BY <3>1, <1>5, <1>8, ConcatProperties
  <2>2. count + m = predicted
    BY <1>5
  <2> QED BY <2>1, <2>2, <1>1
<1>12. Encoded'
  <2>1. ASSUME NEW CONSTANT k \in 1 .. predicted
        PROVE bytes'[k] = [slice |-> Slice(Left(k - 1))', more |-> k < predicted]
    <3>1. Slice(Left(k - 1))' = Slice(Left(k - 1))
      BY <1>1, SameField DEF Slice
    <3>2. CASE k <= count
      BY <3>1, <3>2, <1>4, <1>5, <1>11 DEF Encoded
    <3>3. CASE k > count
      <4>1. k - count \in 1 .. m /\ count + (k - count) = k /\ k - 1 \in Nat /\ k - 1 > n
        BY <3>3, <1>4, <1>5
      <4>2. bytes'[k] = [slice |-> PadSlice, more |-> k < field.padTo]
        <5>1. bytes'[k] = Padding[k - count]
          BY <3>3, <1>11, <1>5
        <5> HIDE DEF m
        <5> QED BY <5>1, <4>1, <1>8
      <4>3. Slice(Left(k - 1)) = PadSlice
        BY <4>1, <1>7
      <4>4. field.padTo = predicted
        BY <3>3, <1>4, <1>5, <1>6
      <4> QED BY <3>1, <4>2, <4>3, <4>4
    <3> QED BY <3>2, <3>3, <1>5
  <2> QED BY <2>1, <1>11, <1>1 DEF Encoded
<1>13. Shape'
  BY <1>1, <1>2, <1>5, <1>11 DEF Shape, Reading
<1>14. Written(n)'
  <2>1. Ends(n)' /\ Padded(n + 1)' = Padded(n + 1)
    BY <1>1, <1>4, EndsSame, SameField
  <2> QED BY <2>1, <1>1, <1>4, <1>11, <1>12 DEF Written
<1>15. n \in 0 .. predicted' - 1
  BY <1>1, <1>3
<1> QED BY <1>1, <1>13, <1>14, <1>15 DEF LoopInv

LEMMA LoopReading ==
    LoopInv /\ (ReadUnsigned \/ ReadSigned \/ PastEnd \/ UNCHANGED vars) => LoopInv'
<1> SUFFICES ASSUME LoopInv, ReadUnsigned \/ ReadSigned \/ PastEnd \/ UNCHANGED vars PROVE LoopInv'
  OBVIOUS
<1>1. field' = field /\ predicted' = predicted /\ bytes' = bytes
  BY DEF ReadUnsigned, ReadSigned, PastEnd, vars
<1>5. ASSUME Encoded PROVE Encoded'
  <2>1. ASSUME NEW CONSTANT k \in 1 .. Len(bytes)
        PROVE  bytes[k] = [slice |-> Slice(Left(k - 1))', more |-> k < predicted]
    <3>1. Slice(Left(k - 1))' = Slice(Left(k - 1))
      BY <1>1, SameField DEF Slice
    <3> QED BY <3>1, <1>5 DEF Encoded
  <2> QED BY <2>1, <1>1 DEF Encoded
<1>2. CASE phase \in Reading /\ phase' \in Reading /\ count' \in Nat
  <2>1. Shape'
    BY <1>1, <1>2 DEF LoopInv, Shape
  <2>2. ASSUME ~field.foreign PROVE \E n \in 0 .. predicted' - 1 : Written(n)'
    <3>1. PICK n \in 0 .. predicted - 1 : Written(n)
      BY <1>2, <2>2 DEF LoopInv, Reading
    <3>2. Ends(n)' /\ Padded(n + 1)' = Padded(n + 1)
      BY <3>1, <1>1, EndsSame, SameField DEF Written
    <3>3. Encoded'
      BY <1>5, <3>1 DEF Written
    <3>4. Written(n)'
      BY <1>1, <1>2, <3>1, <3>2, <3>3 DEF Written, Reading
    <3> QED BY <3>1, <3>4, <1>1
  <2> QED BY <1>1, <1>2, <2>1, <2>2 DEF LoopInv, Reading
<1>3. CASE UNCHANGED vars
  <2>1. phase' = phase /\ value' = value /\ count' = count
    BY <1>3 DEF vars
  <2>2. CASE phase \in Reading
    BY <1>2, <2>1, <2>2 DEF LoopInv, Shape
  <2>3. CASE phase \notin Reading
    <3>1. Shape' /\ (phase = "measure" <=> phase' = "measure")
      BY <1>1, <2>1 DEF LoopInv, Shape
    <3>2. ASSUME ~field.foreign, phase = "measure" PROVE Measured'
      BY <1>1, <2>1, <3>2, SameField DEF LoopInv, Measured
    <3>3. ASSUME ~field.foreign, phase # "measure" PROVE \E n \in 0 .. predicted' - 1 : Written(n)'
      <4>1. PICK n \in 0 .. predicted - 1 : Written(n)
        BY <3>3 DEF LoopInv
      <4>2. Ends(n)' /\ Padded(n + 1)' = Padded(n + 1) /\ Left(count)' = Left(count)
        BY <1>1, <2>1, <4>1, EndsSame, SameField DEF Written
      <4>3. Encoded'
        BY <1>5, <4>1 DEF Written
      <4>4. Written(n)'
        BY <1>1, <2>1, <4>1, <4>2, <4>3 DEF Written
      <4> QED BY <4>1, <4>4, <1>1
    <3> QED BY <1>1, <3>1, <3>2, <3>3 DEF LoopInv
  <2> QED BY <2>2, <2>3
<1>4. CASE ReadUnsigned \/ ReadSigned \/ PastEnd
  <2>1. phase \in Reading /\ phase' \in Reading
    BY <1>4 DEF ReadUnsigned, ReadSigned, PastEnd, Reading
  <2>2. count' \in Nat
    BY <1>4 DEF ReadUnsigned, ReadSigned, PastEnd, LoopInv, Shape
  <2> QED BY <1>2, <2>1, <2>2
<1> QED BY <1>3, <1>4

\* What the measuring and the writing loop have done, at every step.
THEOREM LoopInvariant == Spec => []LoopInv
<1>1. LoopInv /\ [Next]_vars => LoopInv'
  BY LoopMeasure, LoopWrite, LoopPad, LoopReading DEF Next, Finished
<1> QED BY <1>1, LoopInit, PTL DEF Spec

\* The width that a length function predicts is the width that is written, and
\* a padded field has one width: RELOC_PAD bytes hold any Number of 32 bits.
THEOREM LengthPredictedCorrect == Spec => []LengthPredicted
<1>1. LoopInv => LengthPredicted
  <2> SUFFICES ASSUME LoopInv, phase \in Reading, ~field.foreign
               PROVE  /\ Len(bytes) = predicted
                      /\ ~field.big /\ field.padTo > 0 => Len(bytes) = field.padTo
    BY DEF LengthPredicted, Reading
  <2>1. field \in Fields
    BY FieldKind DEF LoopInv, Shape
  <2>2. PICK n \in 0 .. predicted - 1 : Written(n)
    BY DEF LoopInv, Reading
  <2>3. n \in Nat /\ Ends(n) /\ predicted = Padded(n + 1) /\ Len(bytes) = predicted
    BY <2>2 DEF Written, Ends
  <2>4. ASSUME ~field.big, field.padTo > 0 PROVE Len(bytes) = field.padTo
    <3>1. n + 1 <= field.padTo
      BY <2>1, <2>3, <2>4, PaddingFits
    <3>2. n + 1 \in Nat /\ Padded(n + 1) >= field.padTo
          /\ (Padded(n + 1) = n + 1 \/ Padded(n + 1) = field.padTo)
      <4>1. n + 1 \in Nat
        BY <2>3
      <4>2. \A m \in Nat : /\ Padded(m) >= field.padTo
                           /\ (Padded(m) = m \/ Padded(m) = field.padTo)
        BY <2>1, PaddedTyped
      <4> QED BY <4>1, <4>2
    <3> QED BY <2>1, <2>3, <3>1, <3>2, FieldTyped
  <2> QED BY <2>3, <2>4
<1> QED BY <1>1, LoopInvariant, PTL

-----------------------------------------------------------------------------
(* The bitwise or of numbers that have no bit in common is their sum *)

OrBit(a, b, k) == IF Bit(a, k) = 1 \/ Bit(b, k) = 1 THEN Pow2[k] ELSE 0

LEMMA BitOrSteps ==
    ASSUME NEW a \in Int, NEW b \in Int
    PROVE  \E low : /\ low[0] = 0
                    /\ \A k \in 1 .. NumberBits : low[k] = low[k - 1] + OrBit(a, b, k - 1)
                    /\ BitOr(a, b) = low[NumberBits]
<1> DEFINE step == [p \in Int \X (1 .. NumberBits) |-> p[1] + OrBit(a, b, p[2] - 1)]
<1>1. NumberBits \in Nat
  BY Widths
<1>2. ASSUME NEW k \in 1 .. NumberBits PROVE OrBit(a, b, k - 1) \in Int
  <2>1. k - 1 \in Nat
    BY <1>1
  <2>2. Pow2[k - 1] \in Int
    BY <2>1, Pow2Pos
  <2> QED BY <2>2 DEF OrBit
<1>3. ASSUME NEW v \in Int, NEW k \in 1 .. NumberBits
      PROVE  step[<<v, k>>] = v + OrBit(a, b, k - 1)
  OBVIOUS
<1> HIDE DEF step
<1>4. Keeps(step, Int, NumberBits)
  <2>1. ASSUME NEW v \in Int, NEW k \in 1 .. NumberBits PROVE step[<<v, k>>] \in Int
    BY <1>2, <1>3
  <2> QED BY <2>1 DEF Keeps
<1>5. PICK low : Recursion(low, Int, 0, step, NumberBits)
  <2>1. 0 \in Int
    OBVIOUS
  <2> QED BY <2>1, <1>1, <1>4, RecursionExists
<1>6. low \in [0 .. NumberBits -> Int] /\ low[0] = 0
  BY <1>5 DEF Recursion
<1>7. ASSUME NEW k \in 1 .. NumberBits PROVE low[k] = low[k - 1] + OrBit(a, b, k - 1)
  <2>1. low[k - 1] \in Int
    BY <1>1, <1>6
  <2> QED BY <2>1, <1>3, <1>5 DEF Recursion
<1> DEFINE F(g) == [k \in 0 .. NumberBits |->
                      IF k = 0 THEN 0
                      ELSE g[k - 1] + (IF Bit(a, k - 1) = 1 \/ Bit(b, k - 1) = 1 THEN Pow2[k - 1] ELSE 0)]
<1>8. low = F(low)
  <2>1. ASSUME NEW k \in 0 .. NumberBits PROVE low[k] = F(low)[k]
    <3>1. CASE k = 0
      BY <3>1, <1>6
    <3>2. CASE k # 0
      <4>1. k \in 1 .. NumberBits
        BY <3>2
      <4> QED BY <4>1, <3>2, <1>7 DEF OrBit
    <3> QED BY <3>1, <3>2
  <2>2. low = [k \in 0 .. NumberBits |-> low[k]]
    BY <1>6
  <2>3. low = [k \in 0 .. NumberBits |-> F(low)[k]]
    <3> HIDE DEF F
    <3> QED BY <2>1, <2>2
  <2>4. F(low) = [k \in 0 .. NumberBits |-> F(low)[k]]
    OBVIOUS
  <2> HIDE DEF F
  <2> QED BY <2>3, <2>4
<1> DEFINE chosen == CHOOSE g : g = F(g)
<1>9. chosen = F(chosen)
  <2> HIDE DEF F
  <2> QED BY <1>8
<1>10. BitOr(a, b) = chosen[NumberBits]
  BY DEF BitOr
<1> HIDE DEF chosen
<1>11. chosen[0] = 0 /\ \A k \in 1 .. NumberBits : chosen[k] = chosen[k - 1] + OrBit(a, b, k - 1)
  <2>1. 0 \in 0 .. NumberBits
    BY <1>1
  <2>2. F(chosen)[0] = 0
    BY <2>1
  <2>3. ASSUME NEW k \in 1 .. NumberBits
        PROVE F(chosen)[k] = chosen[k - 1] + OrBit(a, b, k - 1)
    <3>1. k \in 0 .. NumberBits /\ k # 0
      BY <1>1
    <3> QED BY <3>1 DEF OrBit
  <2> HIDE DEF F
  <2> QED BY <2>2, <2>3, <1>9
<1> QED BY <1>10, <1>11

LEMMA BitOfMultiple ==
    ASSUME NEW s \in Nat, NEW a \in 0 .. Pow2[s] - 1, NEW c \in Int, NEW k \in Nat
    PROVE  /\ Bit(a + Pow2[s] * c, k) \in {0, 1}
           /\ Bit(a + Pow2[s] * c, k) = 1 <=> Bit(a, k) = 1 \/ Bit(Pow2[s] * c, k) = 1
<1> DEFINE p == Pow2[s]
           b == Pow2[k]
           m == p * c
<1>1. p \in Nat \ {0} /\ b \in Nat \ {0} /\ m \in Int /\ a \in Int /\ a \in 0 .. p - 1
  BY Pow2Pos
<1>2. \A v \in Int : Bit(v, k) \in {0, 1}
  <2>1. ASSUME NEW v \in Int PROVE v \div b \in Int
    <3> HIDE DEF b
    <3> QED BY <1>1, Division
  <2> QED BY <2>1 DEF Bit
<1>3. CASE k < s
  <2> DEFINE j == s - k - 1
             r == Pow2[j]
             d == r * c
  <2>1. j \in Nat /\ s = (k + 1) + j /\ k + 1 \in Nat
    BY <1>3
  <2>2. p = Pow2[k + 1] * r /\ Pow2[k + 1] = 2 * b /\ r \in Nat
    <3> HIDE DEF j
    <3>1. Pow2[s] = Pow2[k + 1] * Pow2[j]
      BY <2>1, Pow2Plus
    <3>2. Pow2[k + 1] = 2 * Pow2[k] /\ Pow2[j] \in Nat
      BY <2>1, Pow2Def, Pow2Pos
    <3> QED BY <3>1, <3>2
  <2>3. m = b * (2 * d) /\ d \in Int
    <3>1. (2 * b) * r = b * (2 * r)
      <4> HIDE DEF p, b, r
      <4> QED BY <1>1, <2>2
    <3>2. (b * (2 * r)) * c = b * (2 * (r * c))
      <4>1. b \in Int /\ r \in Int
        BY <1>1, <2>2
      <4> HIDE DEF p, b, r
      <4>2. (b * (2 * r)) * c = b * ((2 * r) * c)
        BY <4>1, MulAssoc
      <4>3. (2 * r) * c = 2 * (r * c)
        BY <4>1
      <4> QED BY <4>2, <4>3
    <3>3. r * c \in Int
      BY <2>2
    <3> QED BY <3>1, <3>2, <3>3, <2>2
  <2>4. ASSUME NEW v \in Int PROVE Bit(v + m, k) = Bit(v, k)
    <3>1. (v + b * (2 * d)) \div b = (v \div b) + 2 * d
      <4> HIDE DEF b, d
      <4> QED BY <1>1, <2>3, ModShift
    <3>2. v \div b \in Int
      <4> HIDE DEF b
      <4> QED BY <1>1, Division
    <3>3. ((v \div b) + 2 * d) % 2 = (v \div b) % 2
      <4> DEFINE q == v \div b
      <4> HIDE DEF b, d, q
      <4>1. q \in Int
        BY <3>2 DEF q
      <4>2. (q + 2 * d) % 2 = q % 2
        BY <4>1, <2>3
      <4> QED BY <4>2 DEF q
    <3> QED BY <3>1, <3>3, <2>3 DEF Bit
  <2>5. Bit(0 + m, k) = Bit(0, k) /\ 0 + m = m
    BY <2>4, <1>1
  <2>6. Bit(0, k) = 0
    <3>1. 0 \div b = 0
      <4>1. 0 \in -b .. b - 1
        <5> HIDE DEF b
        <5> QED BY <1>1
      <4> HIDE DEF b
      <4> QED BY <4>1, <1>1, SmallDivision
    <3> QED BY <3>1 DEF Bit
  <2> QED BY <2>4, <2>5, <2>6, <1>1, <1>2
<1>4. CASE k >= s
  <2>1. a \div b = 0
    <3>1. p <= b
      BY <1>4, Pow2Monotone
    <3>2. a \in -b .. b - 1 /\ ~(a < 0)
      <4> HIDE DEF b
      <4> QED BY <3>1, <1>1
    <3> HIDE DEF b
    <3> QED BY <3>2, <1>1, SmallDivision
  <2>2. Bit(a, k) = 0
    BY <2>1 DEF Bit
  <2> DEFINE j == k - s
             e == Pow2[j]
  <2>3. j \in Nat /\ k = s + j
    BY <1>4
  <2>4. b = p * e /\ e \in Nat \ {0}
    <3> HIDE DEF j
    <3>1. Pow2[k] = Pow2[s] * Pow2[j]
      BY <2>3, Pow2Plus
    <3>2. Pow2[j] \in Nat \ {0}
      BY <2>3, Pow2Pos
    <3> QED BY <3>1, <3>2
  <2>5. (a + m) \div p = c /\ (0 + m) \div p = c
    <3>1. a \div p = 0 /\ 0 \div p = 0
      <4>1. a \in -p .. p - 1 /\ ~(a < 0) /\ 0 \in -p .. p - 1
        <5> HIDE DEF p
        <5> QED BY <1>1
      <4> HIDE DEF p
      <4>2. ASSUME NEW v \in -p .. p - 1, ~(v < 0) PROVE v \div p = 0
        BY <4>2, <1>1, SmallDivision
      <4> QED BY <4>1, <4>2
    <3>2. (a + p * c) \div p = (a \div p) + c /\ (0 + p * c) \div p = (0 \div p) + c
      <4> HIDE DEF p
      <4> QED BY <1>1, ModShift
    <3> QED BY <3>1, <3>2
  <2>6. ASSUME NEW v \in Int PROVE v \div b = (v \div p) \div e
    <3> HIDE DEF p, e, b
    <3> QED BY <2>4, <1>1, DivideTwice
  <2>7. a + m \in Int /\ 0 + m \in Int /\ 0 + m = m
    <3> HIDE DEF m
    <3> QED BY <1>1
  <2>8. (a + m) \div b = c \div e /\ m \div b = c \div e
    <3> HIDE DEF b, p, e, m
    <3> QED BY <2>5, <2>6, <2>7
  <2>9. Bit(a + m, k) = Bit(m, k)
    BY <2>8 DEF Bit
  <2> QED BY <2>2, <2>7, <2>9, <1>2
<1> QED BY <1>3, <1>4

LEMMA BitOrIsSum ==
    ASSUME NEW s \in Nat, NEW a \in 0 .. Pow2[s] - 1, NEW c \in Int
    PROVE  BitOr(a, Pow2[s] * c) = (a + Pow2[s] * c) % Pow2[NumberBits]
<1> DEFINE m == Pow2[s] * c
           v == a + m
<1>1. Pow2[s] \in Nat /\ a \in Int /\ m \in Int /\ v \in Int /\ NumberBits \in Nat
  BY Pow2Pos, Widths
<1>2. PICK low : /\ low[0] = 0
                 /\ \A k \in 1 .. NumberBits : low[k] = low[k - 1] + OrBit(a, m, k - 1)
                 /\ BitOr(a, m) = low[NumberBits]
  <2> HIDE DEF m
  <2> QED BY <1>1, BitOrSteps
<1>3. ASSUME NEW k \in Nat
      PROVE  v % Pow2[k + 1] = (v % Pow2[k]) + OrBit(a, m, k)
  <2> DEFINE b == Pow2[k]
  <2>1. Pow2[k + 1] = b * 2 /\ b \in Nat \ {0}
    BY Pow2Def, Pow2Pos
  <2>2. v % (b * 2) = (v % b) + b * ((v \div b) % 2)
    <3> DEFINE two == 2
    <3>1. two \in Nat \ {0}
      OBVIOUS
    <3> HIDE DEF b, v, two
    <3>2. v % (b * two) = (v % b) + b * ((v \div b) % two)
      BY <1>1, <2>1, <3>1, DivideTwice
    <3> QED BY <3>2 DEF two
  <2>3. Bit(v, k) \in {0, 1} /\ (Bit(v, k) = 1 <=> Bit(a, k) = 1 \/ Bit(m, k) = 1)
    BY BitOfMultiple
  <2>4. Bit(v, k) = (v \div b) % 2
    BY DEF Bit
  <2>5. b * Bit(v, k) = OrBit(a, m, k)
    <3>1. CASE Bit(v, k) = 1
      <4>1. OrBit(a, m, k) = b
        BY <3>1, <2>3 DEF OrBit
      <4> HIDE DEF b, v, m
      <4> QED BY <3>1, <4>1, <2>1
    <3>2. CASE Bit(v, k) = 0
      <4>1. OrBit(a, m, k) = 0
        BY <3>2, <2>3 DEF OrBit
      <4> HIDE DEF b, v, m
      <4> QED BY <3>2, <4>1, <2>1
    <3> QED BY <3>1, <3>2, <2>3
  <2>6. v % Pow2[k + 1] = (v % b) + OrBit(a, m, k)
    <3> HIDE DEF b, v, m
    <3> QED BY <2>1, <2>2, <2>4, <2>5
  <2> QED BY <2>6
<1> DEFINE T == {k \in 0 .. NumberBits : low[k] = v % Pow2[k]}
<1>4. 0 \in T
  <2>1. Pow2[0] = 1 /\ v % 1 = 0
    <3> HIDE DEF v
    <3> QED BY <1>1, Pow2Def
  <2> HIDE DEF v
  <2> QED BY <1>1, <1>2, <2>1
<1>5. ASSUME NEW k \in T, k < NumberBits PROVE k + 1 \in T
  <2>1. k \in Nat /\ k + 1 \in 1 .. NumberBits /\ (k + 1) - 1 = k /\ low[k] = v % Pow2[k]
    <3> HIDE DEF v
    <3> QED BY <1>1, <1>5
  <2>2. low[k + 1] = low[k] + OrBit(a, m, k)
    <3> HIDE DEF v, m
    <3> QED BY <2>1, <1>2
  <2>3. low[k + 1] = v % Pow2[k + 1]
    <3> HIDE DEF v, m
    <3> QED BY <2>1, <2>2, <1>3
  <2> HIDE DEF v, m
  <2> QED BY <2>1, <2>3
<1>6. T = 0 .. NumberBits
  <2>1. T \in SUBSET (0 .. NumberBits)
    OBVIOUS
  <2> HIDE DEF T
  <2> QED BY <1>1, <1>4, <1>5, <2>1, UpToInduction
<1>7. NumberBits \in T
  BY <1>1, <1>6
<1> QED BY <1>2, <1>7

-----------------------------------------------------------------------------
(* What is written is read back *)

\* The value as it was read from the first k bytes.
ReadBack(k) ==
    LET low == field.value % Pow2[GroupBits * k]
    IN  IF field.signed /\ ~field.big THEN AsIntN(NumberBits, low) ELSE low

ReadInv ==
    ~field.foreign =>
        /\ phase = "read" => count < Len(bytes) /\ value = ReadBack(count)
        /\ phase = "done" => count = Len(bytes) /\ value = field.value
        /\ phase # "failed"

\* Unsigned Numbers of 32 bits, the highest of which is set, are not written.
NumbersFit == MaxNumber < Pow2[NumberBits - 1]

LEMMA NothingWraps == NumbersFit /\ field \in Fields => ~Wraps
<1> SUFFICES ASSUME NumbersFit, field \in Fields, ~field.signed, ~field.big
             PROVE  ~(field.value >= Pow2[NumberBits - 1])
  BY DEF Wraps
<1>1. field.value \in 0 .. MaxNumber
  <2>1. PICK signed \in BOOLEAN, big \in BOOLEAN : field \in FieldsOf(signed, big)
    BY DEF Fields
  <2>2. field.signed = signed /\ field.big = big /\ field.value \in ValuesOf(signed, big)
    BY <2>1 DEF FieldsOf
  <2> QED BY <2>2 DEF ValuesOf
<1>2. MaxNumber \in Nat /\ Pow2[NumberBits - 1] \in Nat
  BY WidthAssumption, HalfPow2
<1> QED BY <1>1, <1>2 DEF NumbersFit

\* The field that is read: its groups, its length and its end.
LEMMA WhatIsRead ==
    ASSUME LoopInv, phase \in Reading, ~field.foreign, NumbersFit
    PROVE  /\ field \in Fields
           /\ Len(bytes) \in Nat \ {0}
           /\ \A k \in Nat : Left(k) = field.value \div Pow2[GroupBits * k] /\ Left(k) \in Int
           /\ \A k \in 0 .. Len(bytes) - 1 :
                 /\ bytes[k + 1].slice = Left(k) % Base
                 /\ bytes[k + 1].more <=> k + 1 < Len(bytes)
                 /\ GroupBits * k < Bits
           /\ Left(Len(bytes)) \in {0, -1} /\ (~field.signed => Left(Len(bytes)) = 0)
           /\ field.signed => (HighBit(bytes[Len(bytes)].slice) <=> Left(Len(bytes)) = -1)
<1> DEFINE L == Len(bytes)
<1>1. field \in Fields
  BY FieldKind DEF LoopInv, Shape
<1>2. PICK n \in 0 .. predicted - 1 : Written(n)
  BY DEF LoopInv, Reading
<1>3. n \in Nat /\ Ends(n) /\ L = Padded(n + 1) /\ L = predicted /\ Encoded
  BY <1>2 DEF Written, Ends
<1>4. L \in Nat \ {0} /\ L > n /\ (L = n + 1 \/ L = field.padTo)
  <2>1. n + 1 \in Nat
    BY <1>3
  <2>2. /\ Padded(n + 1) \in Nat /\ Padded(n + 1) >= n + 1
        /\ (Padded(n + 1) = n + 1 \/ Padded(n + 1) = field.padTo)
    BY <2>1, <1>1, PaddedTyped
  <2> HIDE DEF L
  <2> QED BY <2>2, <1>3
<1>5. \A k \in Nat : Left(k) = field.value \div Pow2[GroupBits * k] /\ Left(k) \in Int
  BY <1>1, LeftDivides, NothingWraps DEF Left
<1>6. ASSUME NEW k \in 0 .. L - 1
      PROVE  /\ bytes[k + 1].slice = Left(k) % Base
             /\ bytes[k + 1].more <=> k + 1 < L
  <2>1. k + 1 \in 1 .. L /\ (k + 1) - 1 = k
    BY <1>4
  <2>2. bytes[k + 1] = [slice |-> Slice(Left(k)), more |-> k + 1 < predicted]
    BY <2>1, <1>3 DEF Encoded
  <2>3. bytes[k + 1].slice = Slice(Left(k)) /\ bytes[k + 1].more = (k + 1 < predicted)
    BY <2>2
  <2> HIDE DEF L
  <2> QED BY <2>3, <1>3 DEF Slice
<1>7. ASSUME NEW k \in 0 .. L - 1 PROVE GroupBits * k < Bits
  <2> DEFINE last == L - 1
  <2>1. last \in Nat /\ k \in Nat /\ k <= last
    BY <1>4
  <2>2. GroupBits * last < Bits
    <3>1. CASE L = n + 1
      <4>1. last = n
        BY <3>1, <1>3
      <4> HIDE DEF last
      <4> QED BY <4>1, <1>1, <1>3, EndsInWidth
    <3>2. CASE L = field.padTo
      <4>1. field.padTo \in Paddings \ {0} /\ last = field.padTo - 1
        BY <3>2, <1>1, <1>4, FieldTyped
      <4>2. GroupBits * last < NumberBits /\ NumberBits <= BigBits
        BY <4>1, PaddingAssumption
      <4>3. GroupBits * last \in Nat
        <5> HIDE DEF last
        <5> QED BY <2>1, Places
      <4> DEFINE at == GroupBits * last
      <4> HIDE DEF at, last
      <4>4. at < Bits
        BY <4>2, <4>3, Widths DEF at
      <4> QED BY <4>4 DEF at
    <3> QED BY <3>1, <3>2, <1>4
  <2>3. GroupBits * k <= GroupBits * last /\ GroupBits * k \in Nat /\ GroupBits * last \in Nat
    <3> HIDE DEF last
    <3> QED BY <2>1, MulMonotone, Widths, Places
  <2> DEFINE a == GroupBits * k
             b == GroupBits * last
  <2> HIDE DEF a, b
  <2>4. a < Bits
    BY <2>2, <2>3, Widths DEF a, b
  <2> QED BY <2>4 DEF a
<1>8. /\ Left(L) \in {0, -1} /\ (~field.signed => Left(L) = 0)
      /\ field.signed => (HighBit(Slice(Left(L - 1))) <=> Left(L) = -1)
  <2> HIDE DEF L
  <2> QED BY <1>1, <1>3, <1>4, AfterLast DEF Ends
<1>9. bytes[L].slice = Slice(Left(L - 1))
  <2>1. L - 1 \in 0 .. L - 1 /\ (L - 1) + 1 = L
    BY <1>4
  <2> HIDE DEF L
  <2> QED BY <2>1, <1>6 DEF Slice
<1> QED BY <1>1, <1>4, <1>5, <1>6, <1>7, <1>8, <1>9

LEMMA ModPlus ==
    ASSUME NEW p \in Nat \ {0}, NEW v \in Int, NEW w \in Int, v % p = w % p, NEW x \in Int
    PROVE  (v + x) % p = (w + x) % p
<1> DEFINE a == v \div p
           b == w \div p
           r == v % p
<1>1. a \in Int /\ b \in Int /\ r \in Int /\ v = p * a + r /\ w = p * b + r
  BY Division
<1> HIDE DEF a, b, r
<1>2. v + x = (w + x) + p * (a - b)
  <2>1. p * (a - b) = p * a - p * b /\ p * a \in Int /\ p * b \in Int
    BY <1>1
  <2> QED BY <2>1, <1>1
<1> DEFINE y == w + x
           c == a - b
<1>3. y \in Int /\ c \in Int /\ v + x = y + p * c
  BY <1>1, <1>2
<1>4. (y + p * c) % p = y % p
  <2> HIDE DEF y, c
  <2> QED BY <1>3, ModShift
<1> QED BY <1>3, <1>4

Congruent(p, v, w) == v % p = w % p

LEMMA CongruentPlus ==
    \A p \in Nat \ {0} : \A v, w, x \in Int : Congruent(p, v, w) => Congruent(p, v + x, w + x)
<1> SUFFICES ASSUME NEW p \in Nat \ {0}, NEW v \in Int, NEW w \in Int, NEW x \in Int, v % p = w % p
             PROVE  (v + x) % p = (w + x) % p
  BY DEF Congruent
<1> QED BY ModPlus

LEMMA ModTwice ==
    ASSUME NEW p \in Nat \ {0}, NEW v \in Int
    PROVE  v % p \in Int /\ (v % p) % p = v % p
<1> DEFINE r == v % p
<1>1. r \in 0 .. p - 1
  BY Division
<1>2. r \in -p .. p - 1 /\ ~(r < 0)
  <2> HIDE DEF r
  <2> QED BY <1>1
<1>3. r % p = r
  <2> HIDE DEF r
  <2> QED BY <1>2, SmallDivision
<1> QED BY <1>1, <1>3

LEMMA ReadOr ==
    ASSUME field \in Fields, field.signed, count \in Nat, shift < Bits,
           NEW slice \in Int, slice = (field.value \div Pow2[shift]) % Base
    PROVE  OrShifted(ReadBack(count), slice) = ReadBack(count + 1)
<1> DEFINE v == field.value
           p == Pow2[shift]
           low == v % p
           m == p * slice
<1>1. shift = GroupBits * count /\ shift \in Nat /\ p \in Nat \ {0}
      /\ Pow2[GroupBits * (count + 1)] = p * Base
  BY Places DEF shift
<1>2. v \in Int /\ field.big \in BOOLEAN /\ low \in 0 .. p - 1 /\ m \in Int
  <2>1. v \in Int /\ field.big \in BOOLEAN
    BY FieldTyped
  <2>2. low \in 0 .. p - 1
    <3> HIDE DEF v, p
    <3> QED BY <2>1, <1>1, Division
  <2>3. m \in Int
    <3> HIDE DEF p
    <3> QED BY <1>1
  <2> QED BY <2>1, <2>2, <2>3
<1>3. v % Pow2[GroupBits * (count + 1)] = low + m
  <2>1. v % (p * Base) = (v % p) + p * ((v \div p) % Base)
    <3> HIDE DEF v, p
    <3> QED BY <1>1, <1>2, Widths, DivideTwice
  <2> QED BY <2>1, <1>1
<1>4. CASE field.big
  <2>1. ReadBack(count) = low /\ ReadBack(count + 1) = low + m
    BY <1>1, <1>3, <1>4 DEF ReadBack
  <2>2. slice * p = m
    <3> HIDE DEF p
    <3> QED BY <1>1
  <2> QED BY <2>1, <2>2, <1>4 DEF OrShifted
<1>5. CASE ~field.big
  <2> DEFINE n == Pow2[NumberBits]
             value0 == AsIntN(NumberBits, low)
             r == m % n
  <2>1. n \in Nat \ {0} /\ NumberBits \in Nat \ {0} /\ shift < NumberBits
    BY <1>5, Widths, HalfPow2
  <2>2. value0 % n = low
    <3>1. value0 % n = low % n
      <4>1. low \in Int
        BY <1>2
      <4> HIDE DEF low
      <4> QED BY <4>1, <2>1, AsIntNMod
    <3>2. p <= n
      BY <1>1, <2>1, Pow2Monotone
    <3>3. low \in -n .. n - 1 /\ ~(low < 0)
      <4> HIDE DEF low, p, n
      <4> QED BY <1>1, <1>2, <2>1, <3>2
    <3>4. low % n = low
      <4> HIDE DEF low, n
      <4> QED BY <2>1, <3>3, SmallDivision
    <3> QED BY <3>1, <3>4
  <2>3. shift % NumberBits = shift
    <3>1. shift \in -NumberBits .. NumberBits - 1 /\ ~(shift < 0)
      BY <1>1, <2>1
    <3> QED BY <3>1, <2>1, SmallDivision
  <2>4. PICK c \in Int : r = p * c
    <3> DEFINE j == NumberBits - shift
               e == Pow2[j]
               d == m \div n
    <3>1. j \in Nat /\ NumberBits = shift + j
      BY <1>1, <2>1
    <3>2. n = p * e /\ e \in Int
      <4> HIDE DEF j
      <4>1. Pow2[NumberBits] = Pow2[shift] * Pow2[j] /\ Pow2[j] \in Nat
        BY <1>1, <3>1, Pow2Plus, Pow2Pos
      <4> QED BY <4>1
    <3>3. d \in Int /\ m = n * d + r /\ r \in Int
      <4> HIDE DEF n, m
      <4> QED BY <1>2, <2>1, Division
    <3>4. r = p * (slice - e * d)
      <4> HIDE DEF p, e, d, n, r
      <4>1. n * d = p * (e * d)
        BY <1>1, <3>2, <3>3
      <4>2. p * (slice - e * d) = p * slice - p * (e * d)
        <5>1. e * d \in Int
          BY <3>2, <3>3
        <5> DEFINE f == e * d
        <5> HIDE DEF f
        <5>2. p * (slice - f) = p * slice - p * f
          BY <5>1, <1>1 DEF f
        <5> QED BY <5>2 DEF f
      <4>3. p * slice \in Int /\ p * (e * d) \in Int
        BY <1>1, <3>2, <3>3
      <4> QED BY <4>1, <4>2, <4>3, <3>3
    <3>5. slice - e * d \in Int
      <4> HIDE DEF e, d
      <4> QED BY <3>2, <3>3
    <3> QED BY <3>4, <3>5
  <2>5. BitOr(low, p * c) = (low + p * c) % n
    BY <1>1, <1>2, <2>4, BitOrIsSum
  <2>6. (low + r) % n = (low + m) % n
    <3>1. low \in Int /\ r \in Int /\ r % n = m % n
      <4>1. m \in Int
        BY <1>2
      <4> HIDE DEF m, n
      <4>2. (m % n) % n = m % n /\ m % n \in Int
        BY <2>1, <4>1, ModTwice
      <4> QED BY <4>2, <1>2
    <3>2. m \in Int
      BY <1>2
    <3> HIDE DEF low, r, m, n
    <3>3. (r + low) % n = (m + low) % n
      <4>1. n \in Nat \ {0} /\ r \in Int /\ low \in Int /\ m \in Int /\ r % n = m % n
        BY <2>1, <3>1, <3>2
      <4>2. Congruent(n, r, m)
        BY <4>1 DEF Congruent
      <4>3. Congruent(n, r + low, m + low)
        BY <4>1, <4>2, CongruentPlus
      <4> QED BY <4>3 DEF Congruent
    <3>4. r + low = low + r /\ m + low = low + m
      BY <3>1, <3>2
    <3> QED BY <3>3, <3>4
  <2>7. BitOr(value0 % n, r) = (low + m) % n
    <3> HIDE DEF value0, low, r, n, m
    <3> QED BY <2>2, <2>4, <2>5, <2>6
  <2>8. AsIntN(NumberBits, (low + m) % n) = AsIntN(NumberBits, low + m)
    <3> DEFINE x == low + m
    <3>1. x \in Int
      <4> HIDE DEF m, p
      <4> QED BY <1>2
    <3>2. (x % n) % n = x % n /\ x % n \in Int
      <4> HIDE DEF x, n
      <4> QED BY <3>1, <2>1, ModTwice
    <3> HIDE DEF x
    <3>3. AsIntN(NumberBits, x % n) = AsIntN(NumberBits, x)
      BY <3>1, <3>2, <2>1, AsIntNCongruent
    <3> QED BY <3>3 DEF x
  <2>9. ReadBack(count) = value0 /\ ReadBack(count + 1) = AsIntN(NumberBits, low + m)
    BY <1>1, <1>3, <1>5 DEF ReadBack
  <2>10. OrShifted(value0, slice) = AsIntN(NumberBits, BitOr(value0 % n, r))
    <3>1. slice * Pow2[shift] = m
      <4> HIDE DEF p
      <4>1. slice * p = p * slice
        BY <1>1
      <4> QED BY <4>1 DEF p
    <3> HIDE DEF value0
    <3> QED BY <1>5, <2>3, <3>1 DEF OrShifted
  <2> QED BY <2>7, <2>8, <2>9, <2>10
<1> QED BY <1>2, <1>4, <1>5

LEMMA ReadSign ==
    ASSUME field \in Fields, field.signed, count \in Nat, NEW slice,
           Left(count + 1) = field.value \div Pow2[GroupBits * (count + 1)],
           Left(count + 1) \in {0, -1}, HighBit(slice) <=> Left(count + 1) = -1
    PROVE  SignExtended(ReadBack(count + 1), slice) = field.value
<1> DEFINE v == field.value
           at == GroupBits * (count + 1)
           p == Pow2[at]
           low == v % p
           q == v \div p
           n == Pow2[Bits]
           read == ReadBack(count + 1)
<1>1. at \in Nat /\ at = shift + GroupBits /\ p \in Nat \ {0} /\ n \in Nat \ {0} /\ Bits \in Nat \ {0}
  <2>1. count + 1 \in Nat
    OBVIOUS
  <2> QED BY <2>1, Places, Widths, HalfPow2 DEF shift
<1>2. v \in Int /\ v \in Signed(Bits) /\ field.big \in BOOLEAN
  BY FieldTyped
<1>3. low \in Int /\ q \in {0, -1} /\ v = p * q + low /\ (HighBit(slice) <=> q = -1)
  <2>1. low \in Int /\ v = p * q + low
    <3> HIDE DEF v, p
    <3> QED BY <1>1, <1>2, Division, SMTT(30)
  <2> QED BY <2>1
<1>4. read \in Int /\ read % n = low % n
  <2>1. CASE field.big
    BY <2>1, <1>3 DEF ReadBack
  <2>2. CASE ~field.big
    <3>1. read = AsIntN(Bits, low)
      BY <2>2, Widths DEF ReadBack
    <3>2. AsIntN(Bits, low) \in Signed(Bits) /\ AsIntN(Bits, low) % n = low % n
      <4> HIDE DEF low
      <4> QED BY <1>1, <1>3, AsIntNTyped, AsIntNMod
    <3>3. Signed(Bits) \subseteq Int
      BY <1>1, HalfPow2 DEF Signed
    <3> QED BY <3>1, <3>2, <3>3
  <2> QED BY <1>2, <2>1, <2>2
<1> DEFINE w == IF at < Bits /\ HighBit(slice) THEN read - p ELSE read
<1>5. SignExtended(read, slice) = AsIntN(Bits, w)
  <2>1. shift + GroupBits = at
    BY <1>1
  <2> HIDE DEF read, at
  <2> QED BY <2>1 DEF SignExtended
<1>6. w \in Int
  <2> HIDE DEF read, p, at
  <2> QED BY <1>1, <1>4
<1>7. w % n = v % n
  <2>1. CASE q = 0
    <3>1. v = low /\ w = read
      <4> HIDE DEF v, low, read, q, p, at
      <4> QED BY <2>1, <1>1, <1>3
    <3> HIDE DEF v, low, read, w, n
    <3> QED BY <3>1, <1>4
  <2>2. CASE q = -1 /\ at < Bits
    <3>1. v = low + (-p) /\ w = read + (-p) /\ -p \in Int
      <4> HIDE DEF v, low, read, q, p, at
      <4> QED BY <2>2, <1>1, <1>3, <1>4
    <3> DEFINE x == -p
    <3>2. (read + x) % n = (low + x) % n
      <4>1. x \in Int
        BY <3>1
      <4> HIDE DEF x, read, low, n
      <4> QED BY <4>1, <1>1, <1>3, <1>4, ModPlus
    <3> HIDE DEF v, low, read, w, n
    <3> QED BY <3>1, <3>2
  <2>3. CASE q = -1 /\ ~(at < Bits)
    <3> DEFINE j == at - Bits
               e == Pow2[j]
    <3>1. j \in Nat /\ at = Bits + j
      <4> HIDE DEF at
      <4> QED BY <1>1, <2>3
    <3>2. p = n * e /\ e \in Int
      <4>1. Pow2[at] = Pow2[Bits] * Pow2[j] /\ Pow2[j] \in Nat
        <5> HIDE DEF at, j
        <5> QED BY <1>1, <3>1, Pow2Plus, Pow2Pos
      <4> QED BY <4>1
    <3>3. v = low + n * (-e) /\ w = read /\ -e \in Int
      <4> HIDE DEF v, low, read, q, p, at, n, e
      <4>1. n * (-e) = -(n * e)
        BY <1>1, <3>2
      <4> QED BY <4>1, <2>3, <3>2, <1>1, <1>3
    <3> DEFINE c == -e
    <3>4. (low + n * c) % n = low % n
      <4>1. c \in Int
        BY <3>3
      <4> HIDE DEF c, low, n
      <4> QED BY <4>1, <1>1, <1>3, ModShift
    <3> HIDE DEF v, low, read, w, n
    <3> QED BY <3>3, <3>4, <1>4
  <2> QED BY <1>3, <2>1, <2>2, <2>3
<1>8. AsIntN(Bits, w) = AsIntN(Bits, v) /\ AsIntN(Bits, v) = v
  <2> HIDE DEF w, v
  <2> QED BY <1>1, <1>2, <1>6, <1>7, AsIntNCongruent, AsIntNSame
<1> QED BY <1>5, <1>8

\* Nothing is read from no bytes.
LEMMA ReadNothing == field \in Fields => ReadBack(0) = 0
<1> SUFFICES ASSUME field \in Fields PROVE ReadBack(0) = 0
  OBVIOUS
<1>1. field.value \in Int /\ GroupBits * 0 = 0 /\ Pow2[0] = 1
  BY FieldTyped, Widths, Pow2Def
<1>2. field.value % Pow2[GroupBits * 0] = 0
  BY <1>1
<1>3. 0 \in Signed(NumberBits)
  <2> DEFINE h == Pow2[NumberBits - 1]
  <2>1. h \in Nat \ {0}
    BY Widths, HalfPow2
  <2>2. 0 \in -h .. h - 1
    <3> HIDE DEF h
    <3> QED BY <2>1
  <2> QED BY <2>2 DEF Signed
<1>4. AsIntN(NumberBits, 0) = 0
  BY <1>3, Widths, AsIntNSame
<1> QED BY <1>2, <1>4 DEF ReadBack

LEMMA ReadStart == LoopInv /\ Pad /\ LoopInv' => ReadInv'
<1> SUFFICES ASSUME LoopInv, Pad, LoopInv', ~field.foreign PROVE ReadInv'
  BY DEF ReadInv, Pad
<1>1. phase' = "read" /\ value' = 0 /\ count' = 0 /\ field' = field
  BY DEF Pad
<1>2. field \in Fields
  BY FieldKind DEF LoopInv, Shape
<1>3. \E n \in 0 .. predicted' - 1 : Written(n)'
  BY <1>1 DEF LoopInv
<1>4. predicted' \in Nat
  BY DEF LoopInv, Shape
<1>5. 0 < Len(bytes')
  <2>1. PICK p \in Nat : p = predicted'
    BY <1>4
  <2>2. PICK n \in 0 .. p - 1 : Written(n)'
    BY <1>3, <2>1
  <2>3. Len(bytes') = p
    BY <1>1, <2>1, <2>2 DEF Written, Reading
  <2>4. 0 < p
    <3>1. \E m : m \in 0 .. p - 1
      BY <2>2, Zenon
    <3>2. p \in Nat
      BY <2>1
    <3>3. ASSUME p = 0 PROVE FALSE
      BY <3>1, <3>3
    <3> QED BY <3>2, <3>3
  <2> QED BY <2>3, <2>4
<1>6. PICK zero : zero = 0
  OBVIOUS
<1>7. ReadBack(zero)' = ReadBack(zero)
  BY <1>1 DEF ReadBack
<1>8. value' = ReadBack(count)'
  BY <1>1, <1>2, <1>6, <1>7, ReadNothing
<1> QED BY <1>1, <1>5, <1>8 DEF ReadInv

LEMMA ReadStepSigned == NumbersFit /\ LoopInv /\ ReadInv /\ (ReadSigned \/ PastEnd) => ReadInv'
<1> SUFFICES ASSUME NumbersFit, LoopInv, ReadInv, ReadSigned \/ PastEnd, ~field.foreign PROVE ReadInv'
  BY DEF ReadInv, ReadSigned, PastEnd
<1> DEFINE L == Len(bytes)
           byte == bytes[count + 1]
<1>1. phase = "read" /\ field.signed /\ field' = field /\ bytes' = bytes
  BY DEF ReadSigned, PastEnd
<1>2. count < L /\ value = ReadBack(count) /\ count \in Nat
  BY <1>1 DEF ReadInv, LoopInv, Shape
<1>3. ReadSigned
  <2>1. ~PastEnd
    BY <1>2 DEF PastEnd
  <2> QED BY <2>1
<1>4. /\ field \in Fields /\ L \in Nat \ {0}
      /\ \A k \in Nat : Left(k) = field.value \div Pow2[GroupBits * k] /\ Left(k) \in Int
      /\ \A k \in 0 .. L - 1 :
            /\ bytes[k + 1].slice = Left(k) % Base
            /\ bytes[k + 1].more <=> k + 1 < L
            /\ GroupBits * k < Bits
      /\ Left(L) \in {0, -1} /\ (HighBit(bytes[L].slice) <=> Left(L) = -1)
  BY <1>1, WhatIsRead DEF Reading
<1>5. /\ byte.slice = Left(count) % Base /\ (byte.more <=> count + 1 < L) /\ shift < Bits
      /\ Left(count) \in Int /\ Left(count) = field.value \div Pow2[shift]
  <2>1. count \in 0 .. L - 1
    BY <1>2, <1>4
  <2> QED BY <2>1, <1>2, <1>4 DEF shift
<1>6. byte.slice \in Int
  <2> DEFINE left == Left(count)
  <2>1. left \in Int /\ byte.slice = left % Base /\ Base \in Nat \ {0}
    BY <1>5, Widths
  <2> HIDE DEF left, byte
  <2>2. left % Base \in Int
    BY <2>1, Division
  <2> QED BY <2>1, <2>2
<1>7. ~TooBig(byte.slice)
  <2>1. shift \in Nat /\ Bits \in Nat \ {0}
    BY <1>2, Places, Widths DEF shift
  <2>2. ASSUME shift = Bits - 1 PROVE byte.slice \in {0, Base - 1}
    <3> DEFINE h == Pow2[shift]
    <3>1. field.value \in -h .. h - 1
      BY <1>1, <1>4, <2>2, FieldTyped DEF Signed
    <3>2. h \in Nat \ {0}
      BY <2>1, Pow2Pos
    <3>3. field.value \div h \in {0, -1}
      <4> HIDE DEF h
      <4> QED BY <3>1, <3>2, SmallDivision
    <3>4. Slice(0) = 0 /\ Slice(-1) = Base - 1
      BY SmallGroup
    <3> QED BY <3>3, <3>4, <1>5 DEF Slice
  <2> QED BY <2>1, <2>2, <1>5 DEF TooBig
<1>8. OrShifted(value, byte.slice) = ReadBack(count + 1)
  <2> HIDE DEF byte
  <2> QED BY <1>1, <1>2, <1>4, <1>5, <1>6, ReadOr
<1>9. /\ count' = count + 1
      /\ value' = (IF byte.more THEN ReadBack(count + 1) ELSE SignExtended(ReadBack(count + 1), byte.slice))
      /\ phase' = (IF byte.more THEN "read" ELSE "done")
  BY <1>3, <1>7, <1>8 DEF ReadSigned
<1>10. CASE byte.more
  <2>1. PICK c : c = count + 1
    OBVIOUS
  <2>2. ReadBack(c)' = ReadBack(c)
    BY <1>1 DEF ReadBack
  <2>3. count' < Len(bytes') /\ value' = ReadBack(count)'
    BY <1>1, <1>5, <1>9, <1>10, <2>1, <2>2
  <2> QED BY <2>3, <1>9, <1>10 DEF ReadInv
<1>11. CASE ~byte.more
  <2>1. count + 1 = L
    BY <1>2, <1>4, <1>5, <1>11
  <2>2. SignExtended(ReadBack(count + 1), byte.slice) = field.value
    <3>1. /\ Left(count + 1) = field.value \div Pow2[GroupBits * (count + 1)]
          /\ Left(count + 1) \in {0, -1}
          /\ HighBit(byte.slice) <=> Left(count + 1) = -1
      <4>1. count + 1 \in Nat
        BY <1>2
      <4>2. Left(count + 1) = field.value \div Pow2[GroupBits * (count + 1)]
        BY <4>1, <1>4
      <4> HIDE DEF L
      <4> QED BY <4>2, <2>1, <1>4
    <3> HIDE DEF byte
    <3> QED BY <3>1, <1>1, <1>2, <1>4, ReadSign
  <2> QED BY <2>1, <2>2, <1>1, <1>9, <1>11 DEF ReadInv
<1> QED BY <1>10, <1>11

LEMMA ReadStepUnsigned == NumbersFit /\ LoopInv /\ ReadInv /\ ReadUnsigned => ReadInv'
<1> SUFFICES ASSUME NumbersFit, LoopInv, ReadInv, ReadUnsigned, ~field.foreign PROVE ReadInv'
  BY DEF ReadInv, ReadUnsigned
<1> DEFINE L == Len(bytes)
           byte == bytes[count + 1]
           v == field.value
           p == Pow2[shift]
<1>1. phase = "read" /\ ~field.signed /\ field' = field /\ bytes' = bytes /\ count' = count + 1
  BY DEF ReadUnsigned
<1>2. count < L /\ value = ReadBack(count) /\ count \in Nat
  BY <1>1 DEF ReadInv, LoopInv, Shape
<1>3. /\ field \in Fields /\ L \in Nat \ {0}
      /\ \A k \in Nat : Left(k) = v \div Pow2[GroupBits * k] /\ Left(k) \in Int
      /\ \A k \in 0 .. L - 1 :
            /\ bytes[k + 1].slice = Left(k) % Base
            /\ bytes[k + 1].more <=> k + 1 < L
      /\ Left(L) = 0
  BY <1>1, WhatIsRead DEF Reading
<1>4. /\ byte.slice = (v \div p) % Base /\ (byte.more <=> count + 1 < L)
  <2>1. count \in 0 .. L - 1
    BY <1>2, <1>3
  <2> QED BY <2>1, <1>2, <1>3 DEF shift
<1>5. ByteAt(count + 1) = byte
  <2>1. count + 1 <= L
    BY <1>2, <1>3
  <2> QED BY <2>1 DEF ByteAt
<1>6. value' = value + byte.slice * p /\ phase' = (IF byte.more THEN "read" ELSE "done")
  BY <1>5 DEF ReadUnsigned
<1>7. \A k \in Nat : ReadBack(k) = v % Pow2[GroupBits * k]
  BY <1>1 DEF ReadBack
<1>8. value' = ReadBack(count + 1)
  <2>1. v \in Int /\ p \in Nat \ {0} /\ Pow2[GroupBits * (count + 1)] = p * Base /\ Base \in Nat \ {0}
    BY <1>2, <1>3, FieldTyped, Places, Widths DEF shift
  <2>2. v % (p * Base) = (v % p) + p * ((v \div p) % Base)
    <3> HIDE DEF v, p
    <3> QED BY <2>1, DivideTwice
  <2>3. v % p = value
    BY <1>2, <1>7 DEF shift
  <2>4. count + 1 \in Nat
    BY <1>2
  <2>5. byte.slice * p = p * byte.slice
    <3>1. byte.slice \in Int
      <4>1. v \div p \in Int
        <5> HIDE DEF v, p
        <5> QED BY <2>1, Division
      <4> DEFINE q == v \div p
      <4>2. q % Base \in Int
        <5> HIDE DEF q
        <5> QED BY <4>1, <2>1, Division DEF q
      <4> QED BY <4>2, <1>4
    <3> HIDE DEF p, byte
    <3> QED BY <3>1, <2>1
  <2> HIDE DEF p, v, byte
  <2> QED BY <2>1, <2>2, <2>3, <2>4, <2>5, <1>4, <1>6, <1>7
<1>9. CASE byte.more
  <2>1. PICK c : c = count + 1
    OBVIOUS
  <2>2. ReadBack(c)' = ReadBack(c)
    BY <1>1 DEF ReadBack
  <2>3. count' < Len(bytes') /\ value' = ReadBack(count)'
    BY <1>1, <1>4, <1>8, <1>9, <2>1, <2>2
  <2> QED BY <2>3, <1>6, <1>9 DEF ReadInv
<1>10. CASE ~byte.more
  <2>1. count + 1 = L
    BY <1>2, <1>3, <1>4, <1>10
  <2>2. v % Pow2[GroupBits * L] = v
    <3> DEFINE b == Pow2[GroupBits * L]
    <3>1. v \in Int /\ b \in Nat \ {0} /\ v \div b = 0
      <4>1. b \in Nat \ {0}
        <5> HIDE DEF L
        <5> QED BY <1>3, Places
      <4>2. v \div b = 0
        BY <1>3
      <4> QED BY <4>1, <4>2, <1>3, FieldTyped
    <3> HIDE DEF v, b
    <3>2. v % b \in Int /\ v = b * (v \div b) + (v % b)
      BY <3>1, Division
    <3> QED BY <3>1, <3>2 DEF b
  <2>3. value' = v
    <3> HIDE DEF L, v
    <3> QED BY <2>1, <2>2, <1>3, <1>7, <1>8
  <2> QED BY <2>1, <2>3, <1>1, <1>6, <1>10 DEF ReadInv
<1> QED BY <1>9, <1>10

LEMMA ReadStep == NumbersFit /\ LoopInv /\ ReadInv /\ LoopInv' /\ [Next]_vars => ReadInv'
<1> SUFFICES ASSUME NumbersFit, LoopInv, ReadInv, LoopInv', [Next]_vars PROVE ReadInv'
  OBVIOUS
<1>1. CASE Measure
  <2>1. phase' \in {"measure", "write"}
    BY <1>1 DEF Measure
  <2> QED BY <2>1 DEF ReadInv
<1>2. CASE Write
  <2>1. phase' \in {"write", "pad"}
    BY <1>2 DEF Write
  <2> QED BY <2>1 DEF ReadInv
<1>3. CASE UNCHANGED vars
  BY <1>3 DEF ReadInv, ReadBack, vars
<1> QED BY <1>1, <1>2, <1>3, ReadStart, ReadStepSigned, ReadStepUnsigned DEF Next, Finished

\* Every value that is written is read back as it was, up to the last byte and
\* not beyond it, if the unsigned Numbers that are written have their highest bit
\* clear (the shifts of JavaScript take them for negative ones).
THEOREM RoundTripCorrect ==
    ASSUME NumbersFit
    PROVE  Spec => []RoundTrip
<1>1. Init => ReadInv
  BY DEF Init, ReadInv, ForeignFields
<1>2. LoopInv /\ ReadInv /\ LoopInv' /\ [Next]_vars => ReadInv'
  BY ReadStep
<1>3. ReadInv => RoundTrip
  BY DEF ReadInv, RoundTrip
<1> QED BY <1>1, <1>2, <1>3, LoopInvariant, PTL DEF Spec

-----------------------------------------------------------------------------
(* What is read from the signed fields of any tool *)

Term(i) == bytes[i].slice * Pow2[GroupBits * (i - 1)]

\* The first k groups, with no sign.
Partial(k) ==
    LET term[i \in 0 .. k] ==
            IF i = 0 THEN 0 ELSE term[i - 1] + bytes[i].slice * Pow2[GroupBits * (i - 1)]
    IN  term[k]

LEMMA TermTyped ==
    ASSUME bytes \in Seq(Byte), NEW i \in 1 .. Len(bytes)
    PROVE  bytes[i].slice \in 0 .. Base - 1 /\ Term(i) \in Int
<1>1. bytes[i].slice \in 0 .. Base - 1
  <2>1. bytes[i] \in Byte
    OBVIOUS
  <2> QED BY <2>1 DEF Byte
<1>2. i - 1 \in Nat
  OBVIOUS
<1>3. Pow2[GroupBits * (i - 1)] \in Nat
  BY <1>2, Places
<1>4. bytes[i].slice \in Int
  BY <1>1, Widths
<1> DEFINE a == bytes[i].slice
           b == Pow2[GroupBits * (i - 1)]
<1>5. a * b \in Int
  <2> HIDE DEF a, b
  <2>1. a \in Int /\ b \in Int
    BY <1>3, <1>4 DEF a, b
  <2> QED BY <2>1
<1> QED BY <1>1, <1>5 DEF Term

LEMMA PartialSteps ==
    ASSUME bytes \in Seq(Byte), NEW n \in 0 .. Len(bytes)
    PROVE  \E term : /\ term \in [0 .. n -> Int] /\ term[0] = 0
                     /\ \A k \in 1 .. n : term[k] = term[k - 1] + Term(k)
                     /\ Partial(n) = term[n]
<1> DEFINE step == [p \in Int \X (1 .. n) |-> p[1] + Term(p[2])]
<1>1. n \in Nat
  OBVIOUS
<1>2. ASSUME NEW k \in 1 .. n PROVE Term(k) \in Int
  <2>1. k \in 1 .. Len(bytes)
    OBVIOUS
  <2> QED BY <2>1, TermTyped
<1>3. ASSUME NEW v \in Int, NEW k \in 1 .. n PROVE step[<<v, k>>] = v + Term(k)
  OBVIOUS
<1> HIDE DEF step
<1>4. Keeps(step, Int, n)
  <2>1. ASSUME NEW v \in Int, NEW k \in 1 .. n PROVE step[<<v, k>>] \in Int
    <3>1. Term(k) \in Int /\ step[<<v, k>>] = v + Term(k)
      BY <1>2, <1>3, Zenon
    <3> QED BY <3>1
  <2> QED BY <2>1 DEF Keeps
<1>5. PICK sums : Recursion(sums, Int, 0, step, n)
  <2>1. 0 \in Int
    OBVIOUS
  <2> QED BY <2>1, <1>1, <1>4, RecursionExists
<1>6. sums \in [0 .. n -> Int] /\ sums[0] = 0
  BY <1>5 DEF Recursion
<1>7. ASSUME NEW k \in 1 .. n PROVE sums[k] = sums[k - 1] + Term(k)
  <2>1. sums[k - 1] \in Int
    BY <1>1, <1>6
  <2> QED BY <2>1, <1>3, <1>5 DEF Recursion
<1> DEFINE F(g) == [i \in 0 .. n |->
                      IF i = 0 THEN 0
                      ELSE g[i - 1] + bytes[i].slice * Pow2[GroupBits * (i - 1)]]
<1>8. sums = F(sums)
  <2>1. ASSUME NEW k \in 0 .. n PROVE sums[k] = F(sums)[k]
    <3>1. CASE k = 0
      BY <3>1, <1>6
    <3>2. CASE k # 0
      <4>1. k \in 1 .. n
        BY <3>2
      <4> QED BY <4>1, <3>2, <1>7 DEF Term
    <3> QED BY <3>1, <3>2
  <2>2. sums = [k \in 0 .. n |-> sums[k]]
    BY <1>6
  <2>3. sums = [k \in 0 .. n |-> F(sums)[k]]
    <3> HIDE DEF F
    <3> QED BY <2>1, <2>2
  <2>4. F(sums) = [k \in 0 .. n |-> F(sums)[k]]
    OBVIOUS
  <2> HIDE DEF F
  <2> QED BY <2>3, <2>4
<1> DEFINE chosen == CHOOSE g : g = F(g)
<1>9. chosen = F(chosen)
  <2> HIDE DEF F
  <2> QED BY <1>8
<1>10. Partial(n) = chosen[n]
  BY DEF Partial
<1> HIDE DEF chosen
<1>11. chosen[0] = 0 /\ \A k \in 1 .. n : chosen[k] = chosen[k - 1] + Term(k)
  <2>1. 0 \in 0 .. n
    BY <1>1
  <2>2. F(chosen)[0] = 0
    BY <2>1
  <2>3. ASSUME NEW k \in 1 .. n
        PROVE F(chosen)[k] = chosen[k - 1] + Term(k)
    <3>1. k \in 0 .. n /\ k # 0
      BY <1>1
    <3> QED BY <3>1 DEF Term
  <2> HIDE DEF F
  <2> QED BY <2>2, <2>3, <1>9
<1> DEFINE T == {k \in 0 .. n : chosen[k] = sums[k]}
<1>12. T = 0 .. n
  <2>1. 0 \in T
    BY <1>1, <1>6, <1>11
  <2>2. ASSUME NEW k \in T, k < n PROVE k + 1 \in T
    <3>1. k + 1 \in 1 .. n /\ (k + 1) - 1 = k /\ chosen[k] = sums[k]
      BY <1>1, <2>2
    <3>2. chosen[k + 1] = sums[k + 1]
      BY <3>1, <1>7, <1>11
    <3> QED BY <3>1, <3>2
  <2>3. T \in SUBSET (0 .. n)
    OBVIOUS
  <2> HIDE DEF T
  <2> QED BY <1>1, <2>1, <2>2, <2>3, UpToInduction
<1>13. chosen[n] = sums[n]
  BY <1>1, <1>12
<1> QED BY <1>6, <1>7, <1>10, <1>13

LEMMA PartialNext ==
    ASSUME bytes \in Seq(Byte), NEW n \in 0 .. Len(bytes)
    PROVE  /\ Partial(n) \in Int
           /\ n = 0 => Partial(n) = 0
           /\ n < Len(bytes) => Partial(n + 1) = Partial(n) + Term(n + 1)
<1>1. PICK t : /\ t \in [0 .. n -> Int] /\ t[0] = 0
               /\ \A k \in 1 .. n : t[k] = t[k - 1] + Term(k)
               /\ Partial(n) = t[n]
  BY PartialSteps
<1>2. n \in 0 .. n
  OBVIOUS
<1>3. ASSUME n < Len(bytes) PROVE Partial(n + 1) = Partial(n) + Term(n + 1)
  <2>1. n + 1 \in 0 .. Len(bytes)
    BY <1>3
  <2>2. PICK u : /\ u \in [0 .. n + 1 -> Int] /\ u[0] = 0
                 /\ \A k \in 1 .. n + 1 : u[k] = u[k - 1] + Term(k)
                 /\ Partial(n + 1) = u[n + 1]
    BY <2>1, PartialSteps
  <2> DEFINE T == {k \in 0 .. n : u[k] = t[k]}
  <2>3. 0 \in T
    BY <1>1, <2>2
  <2>4. ASSUME NEW k \in T, k < n PROVE k + 1 \in T
    <3>1. k + 1 \in 1 .. n /\ k + 1 \in 1 .. n + 1 /\ (k + 1) - 1 = k /\ u[k] = t[k]
      BY <2>4
    <3>2. u[k + 1] = t[k + 1]
      BY <3>1, <1>1, <2>2
    <3> QED BY <3>1, <3>2
  <2>5. T = 0 .. n
    <3>1. T \in SUBSET (0 .. n) /\ n \in Nat
      OBVIOUS
    <3> HIDE DEF T
    <3> QED BY <2>3, <2>4, <3>1, UpToInduction
  <2>6. u[n] = t[n]
    BY <1>2, <2>5
  <2>7. n + 1 \in 1 .. n + 1 /\ (n + 1) - 1 = n
    OBVIOUS
  <2>8. u[n + 1] = u[n] + Term(n + 1)
    BY <2>2, <2>7
  <2> QED BY <1>1, <2>2, <2>6, <2>8
<1> QED BY <1>1, <1>2, <1>3

LEMMA PartialRange ==
    ASSUME bytes \in Seq(Byte), NEW n \in 0 .. Len(bytes)
    PROVE  Partial(n) \in 0 .. Pow2[GroupBits * n] - 1
<1> DEFINE L == Len(bytes)
           T == {k \in 0 .. L : Partial(k) \in 0 .. Pow2[GroupBits * k] - 1}
<1>1. L \in Nat
  OBVIOUS
<1>2. 0 \in T
  <2>1. Partial(0) = 0
    BY <1>1, PartialNext
  <2>2. GroupBits * 0 = 0 /\ Pow2[0] = 1
    BY Widths, Pow2Def
  <2>3. Partial(0) \in 0 .. Pow2[GroupBits * 0] - 1
    BY <2>1, <2>2
  <2> HIDE DEF L
  <2> QED BY <1>1, <2>3
<1>3. ASSUME NEW k \in T, k < L PROVE k + 1 \in T
  <2> DEFINE p == Pow2[GroupBits * k]
             a == bytes[k + 1].slice
             s == Partial(k)
  <2>1. k \in Nat /\ k \in 0 .. L /\ k + 1 \in 1 .. L /\ k + 1 \in 0 .. L /\ (k + 1) - 1 = k
    BY <1>1, <1>3
  <2>2. s \in 0 .. p - 1
    BY <1>3
  <2>3. p \in Nat \ {0} /\ Pow2[GroupBits * (k + 1)] = p * Base
    BY <2>1, Places
  <2>4. a \in 0 .. Base - 1
    BY <2>1, TermTyped
  <2>5. Partial(k + 1) = s + a * p
    BY <2>1, <1>3, PartialNext DEF Term
  <2>6. s + a * p \in 0 .. p * Base - 1
    <3> HIDE DEF p, a, s
    <3>1. a \in Int /\ a >= 0 /\ a <= Base - 1 /\ Base \in Int
      BY <2>4, Widths
    <3>2. p * a <= p * (Base - 1) /\ p * 0 <= p * a
      BY <2>3, <3>1, MulMonotone
    <3>3. p * (Base - 1) = p * Base - p /\ p * 0 = 0 /\ a * p = p * a /\ p * a \in Int /\ p * Base \in Int
      BY <2>3, <3>1
    <3> DEFINE x == p * a
               y == p * Base
    <3>4. x \in Int /\ y \in Int /\ x <= y - p /\ 0 <= x
      BY <3>2, <3>3
    <3> HIDE DEF x, y
    <3>5. s + x \in 0 .. y - 1
      BY <3>4, <2>2, <2>3
    <3> QED BY <3>3, <3>5 DEF x, y
  <2>7. Partial(k + 1) \in 0 .. Pow2[GroupBits * (k + 1)] - 1
    BY <2>3, <2>5, <2>6
  <2> QED BY <2>1, <2>7
<1>4. T = 0 .. L
  <2>1. T \in SUBSET (0 .. L)
    OBVIOUS
  <2> HIDE DEF T, L
  <2> QED BY <1>1, <1>2, <1>3, <2>1, UpToInduction
<1> QED BY <1>4

\* The sum that the loop has read, and what it made of it in the end.
BigInv ==
    field.signed /\ field.big =>
        /\ phase = "read" => count <= Len(bytes) /\ value = Partial(count)
        /\ phase = "done" => BigAcceptedIsDenoted

\* The last group completes the integer, if the width does not end before it.
LEMMA BigEnd ==
    ASSUME bytes \in Seq(Byte), field.signed, field.big, NEW n \in 0 .. Len(bytes) - 1,
           count = n, ~TooBig(bytes[n + 1].slice), GroupBits * n < Bits,
           value = Partial(n)
    PROVE  SignExtended(Partial(n + 1), bytes[n + 1].slice)
             = Partial(n + 1) - (IF HighBit(bytes[n + 1].slice) THEN Pow2[GroupBits * (n + 1)] ELSE 0)
<1> DEFINE slice == bytes[n + 1].slice
           t == Partial(n)
           s == Partial(n + 1)
           p == Pow2[shift]
           next == shift + GroupBits
           e == Pow2[next]
           w == IF HighBit(slice) THEN s - e ELSE s
           width == Pow2[Bits]
           half == Pow2[Bits - 1]
<1>1. n \in Nat /\ n \in 0 .. Len(bytes) /\ n + 1 \in 0 .. Len(bytes) /\ n < Len(bytes)
      /\ n + 1 \in 1 .. Len(bytes) /\ (n + 1) - 1 = n
  OBVIOUS
<1>2. /\ shift = GroupBits * n /\ shift \in Nat /\ next \in Nat /\ GroupBits * (n + 1) = next
      /\ p \in Nat \ {0} /\ e = p * Base /\ e \in Nat \ {0}
  <2>1. shift = GroupBits * n
    BY DEF shift
  <2>2. /\ GroupBits * n \in Nat /\ GroupBits * (n + 1) = GroupBits * n + GroupBits
        /\ Pow2[GroupBits * n] \in Nat \ {0}
        /\ Pow2[GroupBits * (n + 1)] = Pow2[GroupBits * n] * Base
    BY <1>1, Places
  <2>3. shift \in Nat /\ p \in Nat \ {0} /\ GroupBits * (n + 1) = next /\ e = p * Base
    BY <2>1, <2>2
  <2>4. GroupBits \in Nat /\ Base \in Nat \ {0}
    BY Widths
  <2>5. next \in Nat
    BY <2>3, <2>4
  <2>6. e \in Nat \ {0}
    <3> HIDE DEF e, p
    <3> QED BY <2>3, <2>4, MulPositive
  <2> QED BY <2>1, <2>3, <2>5, <2>6
<1>3. width = 2 * half /\ half \in Nat \ {0} /\ width \in Nat \ {0} /\ Bits \in Nat \ {0}
      /\ Signed(Bits) = -half .. half - 1
  BY Widths, HalfPow2 DEF Signed
<1>4. t \in 0 .. p - 1 /\ s \in 0 .. e - 1 /\ s = t + slice * p /\ slice \in 0 .. Base - 1
  BY <1>1, <1>2, PartialRange, PartialNext, TermTyped DEF Term
<1>5. s - (IF HighBit(slice) THEN Pow2[GroupBits * (n + 1)] ELSE 0) = w
  <2>1. Pow2[GroupBits * (n + 1)] = e
    BY <1>2
  <2> HIDE DEF s, e, slice
  <2> QED BY <2>1, <1>2, <1>4, SMTT(30)
<1>6. CASE next < Bits
  <2>1. SignExtended(s, slice) = AsIntN(Bits, w)
    <3> HIDE DEF s, slice
    <3> QED BY <1>6 DEF SignExtended
  <2>2. e <= half
    <3>1. next <= Bits - 1 /\ Bits - 1 \in Nat
      BY <1>2, <1>3, <1>6
    <3> HIDE DEF next
    <3> QED BY <1>2, <3>1, Pow2Monotone
  <2>3. w \in Signed(Bits)
    <3> DEFINE high == HighBit(slice)
    <3>1. w = IF high THEN s - e ELSE s
      OBVIOUS
    <3> HIDE DEF s, e, half, high, w
    <3>2. e \in Nat /\ half \in Nat /\ s \in 0 .. e - 1 /\ e <= half
      BY <2>2, <1>2, <1>3, <1>4
    <3>3. w \in -half .. half - 1
      BY <3>1, <3>2
    <3> QED BY <3>3, <1>3
  <2>4. AsIntN(Bits, w) = w
    BY <2>3, <1>3, AsIntNSame
  <2> QED BY <1>5, <2>1, <2>4
<1>7. CASE next >= Bits
  <2>1. SignExtended(s, slice) = AsIntN(Bits, s)
    <3>1. ~(next < Bits)
      BY <1>2, <1>3, <1>7
    <3> HIDE DEF s, slice
    <3> QED BY <3>1 DEF SignExtended
  <2>2. shift = Bits - 1
    <3> DEFINE last == BigBits - 1
               d == last \div GroupBits
    <3>1. d \in Int /\ last = GroupBits * d /\ last = Bits - 1 /\ last \in Int
      <4>1. last \in Int /\ GroupBits \in Nat \ {0} /\ last % GroupBits = 0 /\ last = Bits - 1
        BY BigAssumption, Widths
      <4>2. d \in Int /\ last = GroupBits * d + (last % GroupBits)
        <5> HIDE DEF last
        <5> QED BY <4>1, Division
      <4>3. GroupBits * d \in Int
        <5> HIDE DEF d
        <5> QED BY <4>1, <4>2
      <4> HIDE DEF last, d
      <4> QED BY <4>1, <4>2, <4>3
    <3> HIDE DEF last, d
    <3>2. n <= d
      <4>1. SUFFICES ASSUME d + 1 <= n PROVE FALSE
        BY <1>1, <3>1
      <4>2. GroupBits * (d + 1) <= GroupBits * n /\ GroupBits * (d + 1) = GroupBits * d + GroupBits
        BY <4>1, <1>1, <3>1, MulMonotone, Widths
      <4> DEFINE x == GroupBits * d
                 y == GroupBits * n
      <4>3. x \in Int /\ y \in Int /\ x + GroupBits <= y /\ x = Bits - 1 /\ y < Bits
        BY <4>2, <3>1, <1>2
      <4>4. GroupBits \in Nat \ {0}
        BY Widths
      <4> HIDE DEF x, y
      <4> QED BY <4>3, <4>4, <1>3
    <3>3. d <= n
      <4>1. SUFFICES ASSUME n + 1 <= d PROVE FALSE
        BY <1>1, <3>1
      <4>2. GroupBits * (n + 1) <= GroupBits * d
        BY <4>1, <1>1, <3>1, MulMonotone, Widths
      <4> QED BY <4>2, <3>1, <1>2, <1>3, <1>7
    <3>4. n = d
      BY <3>2, <3>3, <1>1, <3>1
    <3> QED BY <3>1, <3>4, <1>2
  <2>3. slice \in {0, Base - 1} /\ p = half
    BY <2>2, Widths DEF TooBig
  <2>4. Slice(0) = 0 /\ ~HighBit(0) /\ HighBit(Base - 1)
    BY SmallGroup
  <2>5. CASE slice = 0
    <3>1. s = t /\ w = s
      <4>1. ~HighBit(slice) /\ slice * p = 0
        <5>1. 0 * p = 0
          <6> HIDE DEF p
          <6> QED BY <1>2
        <5> HIDE DEF p, slice
        <5> QED BY <2>4, <2>5, <5>1
      <4> HIDE DEF s, t, e, p, slice
      <4> QED BY <4>1, <1>2, <1>4
    <3>2. s \in Signed(Bits)
      <4> HIDE DEF s, t, half, p, slice
      <4> QED BY <3>1, <2>3, <1>3, <1>4
    <3>3. AsIntN(Bits, s) = s
      <4> HIDE DEF s
      <4> QED BY <3>2, <1>3, AsIntNSame
    <3> QED BY <3>1, <3>3, <2>1, <1>5
  <2>6. CASE slice = Base - 1
    <3> DEFINE g == Pow2[GroupBits - 1]
    <3>1. Base = 2 * g /\ g \in Nat \ {0} /\ Base \in Nat \ {0}
      BY Widths
    <3>2. HighBit(slice)
      <4> HIDE DEF slice
      <4> QED BY <2>4, <2>6
    <3>3. s = t + (e - p) /\ w = t - p
      <4>1. slice * p = e - p
        <5>1. (Base - 1) * p = p * Base - p
          <6> HIDE DEF p, g
          <6> QED BY <1>2, <3>1
        <5> HIDE DEF p, slice, e
        <5> QED BY <5>1, <2>6, <1>2
      <4> HIDE DEF s, t, e, p, slice
      <4>2. w = s - e
        BY <3>2
      <4> QED BY <4>1, <4>2, <1>2, <1>4, SMTT(30)
    <3>4. e = width * g
      <4>1. p * Base = (2 * p) * g
        <5> HIDE DEF p, g
        <5>1. p * (2 * g) = (2 * p) * g
          BY <1>2, <3>1
        <5> QED BY <5>1, <3>1
      <4> HIDE DEF p, g, e, half, width
      <4> QED BY <4>1, <2>3, <1>2, <1>3
    <3>5. w \in Signed(Bits) /\ w \in Int /\ s = w + width * g
      <4> HIDE DEF s, t, half, p, slice, e, w, width, g
      <4> QED BY <3>3, <3>4, <2>3, <1>2, <1>3, <1>4
    <3>6. (w + width * g) % width = w % width
      <4>1. g \in Int
        BY <3>1
      <4> HIDE DEF w, width, g
      <4> QED BY <4>1, <3>5, <1>3, ModShift
    <3>7. AsIntN(Bits, s) = AsIntN(Bits, w) /\ AsIntN(Bits, w) = w
      <4>1. s % Pow2[Bits] = w % Pow2[Bits] /\ s \in Int
        <5>1. s % width = w % width
          <6> HIDE DEF s, w, width, g
          <6> QED BY <3>5, <3>6
        <5>2. s \in Int
          <6> HIDE DEF s, e
          <6> QED BY <1>2, <1>4
        <5> QED BY <5>1, <5>2
      <4> HIDE DEF s, w
      <4> QED BY <4>1, <3>5, <1>3, AsIntNCongruent, AsIntNSame
    <3> QED BY <3>7, <2>1, <1>5
  <2> QED BY <2>3, <2>5, <2>6
<1> QED BY <1>2, <1>3, <1>6, <1>7

LEMMA PartialStart == Partial(0) = 0
<1> DEFINE F(g) == [i \in 0 .. 0 |->
                      IF i = 0 THEN 0
                      ELSE g[i - 1] + bytes[i].slice * Pow2[GroupBits * (i - 1)]]
           zero == [i \in 0 .. 0 |-> 0]
<1>1. \A g : F(g) = zero
  OBVIOUS
<1>2. zero = F(zero)
  BY <1>1
<1> DEFINE chosen == CHOOSE g : g = F(g)
<1>3. chosen = F(chosen)
  <2> HIDE DEF F, zero
  <2> QED BY <1>2
<1>4. chosen[0] = 0
  <2>1. zero[0] = 0
    OBVIOUS
  <2> HIDE DEF F, zero, chosen
  <2> QED BY <2>1, <1>1, <1>3
<1> QED BY <1>4 DEF Partial

LEMMA BigStep == LoopInv /\ BigInv /\ [Next]_vars => BigInv'
<1> SUFFICES ASSUME LoopInv, BigInv, [Next]_vars PROVE BigInv'
  OBVIOUS
<1>1. bytes \in Seq(Byte) /\ count \in Nat
  BY DEF LoopInv, Shape
<1>2. CASE Measure \/ Write
  <2>1. phase' \in {"measure", "write", "pad"}
    BY <1>2 DEF Measure, Write
  <2> QED BY <2>1 DEF BigInv
<1>3. CASE Pad
  <2>1. phase' = "read" /\ value' = 0 /\ count' = 0
    BY <1>3 DEF Pad
  <2>2. Len(bytes') \in Nat /\ bytes' \in Seq(Byte)
    <3>1. Shape'
      BY <1>3, LoopPad DEF LoopInv
    <3> QED BY <3>1 DEF Shape
  <2>3. (Partial(0) = 0)'
    BY PartialStart, PTL
  <2>4. 0 <= Len(bytes')
    BY <2>2
  <2>5. count' <= Len(bytes') /\ value' = Partial(count)'
    BY <2>1, <2>3, <2>4
  <2> QED BY <2>1, <2>5 DEF BigInv
<1>4. CASE ReadUnsigned
  BY <1>4 DEF ReadUnsigned, BigInv
<1>5. CASE PastEnd
  BY <1>5 DEF PastEnd, BigInv
<1>6. CASE UNCHANGED vars
  BY <1>6 DEF BigInv, BigAcceptedIsDenoted, Partial, Denoted, InWidth, Bits, shift, HighBit, vars
<1>7. CASE ReadSigned
  <2> SUFFICES ASSUME field.signed, field.big PROVE BigInv'
    BY <1>7 DEF BigInv, ReadSigned
  <2> DEFINE byte == bytes[count + 1]
  <2>1. /\ phase = "read" /\ count < Len(bytes) /\ field' = field /\ bytes' = bytes
        /\ value = Partial(count)
    BY <1>7 DEF ReadSigned, BigInv
  <2>2. PICK n \in 0 .. Len(bytes) - 1 : n = count
    BY <1>1, <2>1
  <2>3. n \in 0 .. Len(bytes) /\ n < Len(bytes) /\ n \in Nat /\ (n + 1) - 1 = n
    BY <1>1, <2>2
  <2>4. CASE TooBig(byte.slice)
    BY <1>7, <2>4 DEF ReadSigned, BigInv
  <2>5. CASE ~TooBig(byte.slice)
    <3>1. OrShifted(value, byte.slice) = Partial(n + 1)
      <4>1. Partial(n + 1) = Partial(n) + byte.slice * Pow2[shift]
        BY <1>1, <2>2, <2>3, PartialNext DEF Term, shift
      <4> QED BY <4>1, <2>1, <2>2 DEF OrShifted
    <3>2. /\ count' = n + 1
          /\ value' = (IF byte.more THEN Partial(n + 1) ELSE SignExtended(Partial(n + 1), byte.slice))
          /\ phase' = (IF byte.more THEN "read" ELSE "done")
      BY <1>7, <2>2, <2>5, <3>1 DEF ReadSigned
    <3>3. PICK c : c = n + 1
      OBVIOUS
    <3>4. Partial(c)' = Partial(c)
      BY <2>1 DEF Partial
    <3>5. CASE byte.more
      <4>1. count' <= Len(bytes') /\ value' = Partial(count)'
        BY <3>2, <3>3, <3>4, <3>5, <2>1, <2>3, <1>1
      <4> QED BY <4>1, <3>2, <3>5 DEF BigInv
    <3>6. CASE ~byte.more
      <4> SUFFICES ASSUME InWidth' PROVE (value = Denoted)'
        BY <3>2, <3>6 DEF BigInv, BigAcceptedIsDenoted
      <4>1. GroupBits * n < Bits
        <5>1. GroupBits * (count' - 1) < Bits
          BY <2>1 DEF InWidth, Bits
        <5>2. count' - 1 = n
          BY <3>2, <2>3
        <5> QED BY <5>1, <5>2
      <4>2. SignExtended(Partial(n + 1), bytes[n + 1].slice)
             = Partial(n + 1) - (IF HighBit(bytes[n + 1].slice) THEN Pow2[GroupBits * (n + 1)] ELSE 0)
        BY <1>1, <2>1, <2>2, <2>5, <4>1, BigEnd
      <4>3. Denoted' = Partial(n + 1) - (IF HighBit(bytes[n + 1].slice) THEN Pow2[GroupBits * (n + 1)] ELSE 0)
        <5>1. Denoted = Partial(count) - (IF HighBit(bytes[count].slice) THEN Pow2[shift] ELSE 0)
          BY DEF Denoted, Partial
        <5>2. Denoted' = Partial(c) - (IF HighBit(bytes[c].slice) THEN Pow2[GroupBits * c] ELSE 0)
          BY <2>1, <3>2, <3>3 DEF Denoted, Partial, shift, HighBit
        <5> QED BY <5>2, <3>3
      <4> QED BY <4>2, <4>3, <3>2, <3>6, <2>2
    <3> QED BY <3>5, <3>6
  <2> QED BY <2>4, <2>5
<1> QED BY <1>2, <1>3, <1>4, <1>5, <1>6, <1>7 DEF Next, Finished

\* A signed field of 64 bits, of whatever tool, is read as the integer that its
\* bytes stand for, or refused: no bit beyond the width is lost.
THEOREM BigAcceptedCorrect == Spec => []BigAcceptedIsDenoted
<1>1. Init => BigInv
  <2> SUFFICES ASSUME Init, phase = "read" PROVE count <= Len(bytes) /\ value = Partial(count)
    BY DEF Init, BigInv
  <2>1. count = 0 /\ value = 0
    BY DEF Init
  <2>2. bytes \in Seq(Byte)
    BY LoopInit DEF LoopInv, Shape
  <2>3. 0 <= Len(bytes)
    BY <2>2
  <2> QED BY <2>1, <2>3, PartialStart
<1>2. LoopInv /\ BigInv /\ [Next]_vars => BigInv'
  BY BigStep
<1>3. BigInv => BigAcceptedIsDenoted
  BY DEF BigInv, BigAcceptedIsDenoted
<1> QED BY <1>1, <1>2, <1>3, LoopInvariant, PTL DEF Spec
==============================================================================
