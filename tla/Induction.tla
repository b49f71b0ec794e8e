------------------------------ MODULE Induction -------------------------------
(***************************************************************************)
(* Induction over the natural numbers in a form without operator           *)
(* parameters: over the set of the numbers for which a claim holds.  And   *)
(* what follows from it for recursive functions; sequences whose elements  *)
(* may be anything; and what the loops over sequences compute.             *)
(***************************************************************************)
EXTENDS Loops, FiniteSetTheorems, SequenceTheorems, WellFoundedInduction, TLAPS

LEMMA NatInductionSet ==
    ASSUME NEW T \in SUBSET Nat, 0 \in T, \A n \in T : n + 1 \in T
    PROVE  T = Nat
<1>1. SUFFICES ASSUME Nat \ T # {} PROVE FALSE
  OBVIOUS
<1>2. PICK x \in Nat \ T : \A y \in Nat \ T : ~(<<y, x>> \in OpToRel(<, Nat))
  BY <1>1, NatLessThanWellFounded, WFMin
<1>3. x # 0 /\ x \in Nat
  BY <1>2
<1>4. x - 1 \in Nat /\ x - 1 < x /\ (x - 1) + 1 = x
  BY <1>3
<1>5. x - 1 \notin T
  BY <1>3, <1>4
<1>6. <<x - 1, x>> \in OpToRel(<, Nat)
  BY <1>3, <1>4 DEF OpToRel
<1> QED BY <1>2, <1>4, <1>5, <1>6

LEMMA UpToInduction ==
    ASSUME NEW n \in Nat, NEW T \in SUBSET (0 .. n), 0 \in T,
           \A k \in T : k < n => k + 1 \in T
    PROVE  T = 0 .. n
<1> DEFINE U == T \cup {k \in Nat : k > n}
<1>0. \A k \in T : k \in Nat /\ k <= n
  OBVIOUS
<1>1. U \in SUBSET Nat /\ 0 \in U
  <2>1. \A k \in U : k \in Nat
    BY <1>0
  <2> QED BY <2>1
<1>2. \A k \in U : k + 1 \in U
  BY <1>0
<1>3. U = Nat
  <2> HIDE DEF U
  <2> QED BY <1>1, <1>2, NatInductionSet
<1>4. \A k \in 0 .. n : k \in T
  BY <1>3
<1> QED BY <1>0, <1>4

LEMMA LeastNat ==
    ASSUME NEW T \in SUBSET Nat, T # {}
    PROVE  \E x \in T : \A y \in T : x <= y
<1>1. PICK x \in T : \A y \in T : ~(<<y, x>> \in OpToRel(<, Nat))
  BY NatLessThanWellFounded, WFMin
<1>2. \A y \in T : ~(y < x)
  BY <1>1 DEF OpToRel
<1> QED BY <1>2

\* The step keeps to S; f is the function that the step defines from f0 on.
Keeps(step, S, n) == \A v \in S, k \in 1 .. n : step[<<v, k>>] \in S
Recursion(f, S, f0, step, n) ==
    /\ f \in [0 .. n -> S]
    /\ f[0] = f0
    /\ \A k \in 1 .. n : f[k] = step[<<f[k - 1], k>>]

\* A recursive function exists when its step stays in a set.
LEMMA RecursionExists ==
    ASSUME NEW S, NEW f0 \in S, NEW n \in Nat, NEW step, Keeps(step, S, n)
    PROVE  \E f : Recursion(f, S, f0, step, n)
<1> DEFINE T == {m \in 0 .. n : \E f : Recursion(f, S, f0, step, m)}
<1>1. 0 \in T
  <2>1. Recursion([k \in 0 .. 0 |-> f0], S, f0, step, 0)
    BY DEF Recursion
  <2> QED BY <2>1
<1>2. ASSUME NEW m \in T, m < n PROVE m + 1 \in T
  <2>1. m \in 0 .. n /\ m + 1 \in 1 .. n
    BY <1>2
  <2>2. PICK f : Recursion(f, S, f0, step, m)
    BY <1>2
  <2> DEFINE g == [k \in 0 .. m + 1 |-> IF k <= m THEN f[k] ELSE step[<<f[m], m + 1>>]]
  <2>3. f[m] \in S
    BY <2>1, <2>2 DEF Recursion
  <2>4. step[<<f[m], m + 1>>] \in S
    BY <2>1, <2>3 DEF Keeps
  <2>5. g \in [0 .. m + 1 -> S]
    BY <2>1, <2>2, <2>4 DEF Recursion
  <2>6. g[0] = f0
    BY <2>1, <2>2 DEF Recursion
  <2>7. ASSUME NEW k \in 1 .. m + 1 PROVE g[k] = step[<<g[k - 1], k>>]
    <3>1. CASE k <= m
      <4>1. g[k] = f[k] /\ g[k - 1] = f[k - 1]
        BY <3>1, <2>1
      <4> QED BY <4>1, <3>1, <2>2, <2>1 DEF Recursion
    <3>2. CASE k = m + 1
      <4>1. g[k - 1] = f[m]
        BY <3>2, <2>1
      <4>2. g[k] = step[<<f[m], m + 1>>]
        BY <3>2, <2>1
      <4> QED BY <4>1, <4>2, <3>2
    <3> QED BY <3>1, <3>2, <2>1
  <2>8. Recursion(g, S, f0, step, m + 1)
    <3> HIDE DEF g
    <3> QED BY <2>5, <2>6, <2>7 DEF Recursion
  <2> QED BY <2>1, <2>8
<1>3. T = 0 .. n
  <2>1. T \in SUBSET (0 .. n)
    OBVIOUS
  <2> HIDE DEF T
  <2> QED BY <1>1, <1>2, <2>1, UpToInduction
<1>4. n \in T
  BY <1>3
<1> QED BY <1>4

\* Two functions with the same start and the same step agree.
LEMMA RecursionUnique ==
    ASSUME NEW n \in Nat, NEW step, NEW f, NEW g, f[0] = g[0],
           \A k \in 1 .. n : f[k] = step[<<f[k - 1], k>>],
           \A k \in 1 .. n : g[k] = step[<<g[k - 1], k>>]
    PROVE  \A k \in 0 .. n : f[k] = g[k]
<1> DEFINE T == {k \in 0 .. n : f[k] = g[k]}
<1>1. 0 \in T
  OBVIOUS
<1>2. ASSUME NEW k \in T, k < n PROVE k + 1 \in T
  <2>1. k + 1 \in 1 .. n /\ (k + 1) - 1 = k /\ f[k] = g[k]
    BY <1>2
  <2>2. f[k + 1] = g[k + 1]
    BY <2>1
  <2> QED BY <2>1, <2>2
<1>3. T = 0 .. n
  <2>1. T \in SUBSET (0 .. n)
    OBVIOUS
  <2> HIDE DEF T
  <2> QED BY <1>1, <1>2, <2>1, UpToInduction
<1> QED BY <1>3

NatRecursion(f, S, f0, step) ==
    /\ f \in [Nat -> S]
    /\ f[0] = f0
    /\ \A k \in Nat \ {0} : f[k] = step[<<f[k - 1], k>>]

\* The same over all natural numbers.
LEMMA NatRecursionExists ==
    ASSUME NEW S, NEW f0 \in S, NEW step, \A n \in Nat : Keeps(step, S, n)
    PROVE  \E f : NatRecursion(f, S, f0, step)
<1> DEFINE Pick(n) == CHOOSE f : Recursion(f, S, f0, step, n)
           g == [n \in Nat |-> Pick(n)[n]]
<1> HIDE DEF Pick, g
<1>1. ASSUME NEW n \in Nat PROVE Recursion(Pick(n), S, f0, step, n)
  BY RecursionExists DEF Pick
<1>2. ASSUME NEW n \in Nat \ {0} PROVE Pick(n)[n - 1] = Pick(n - 1)[n - 1]
  <2>1. n - 1 \in Nat /\ n \in Nat /\ n - 1 \in 0 .. n - 1
    OBVIOUS
  <2>2. Recursion(Pick(n), S, f0, step, n) /\ Recursion(Pick(n - 1), S, f0, step, n - 1)
    BY <1>1, <2>1
  <2>3. Recursion(Pick(n - 1), S, f0, step, n - 1)
    BY <2>2
  <2> DEFINE a == Pick(n)
             b == Pick(n - 1)
  <2> HIDE DEF a, b
  <2>4. a[0] = b[0]
    BY <2>2 DEF Recursion, a, b
  <2>5. \A k \in 1 .. n - 1 : a[k] = step[<<a[k - 1], k>>]
    BY <2>1, <2>2 DEF Recursion, a
  <2>6. \A k \in 1 .. n - 1 : b[k] = step[<<b[k - 1], k>>]
    BY <2>1, <2>2 DEF Recursion, b
  <2>7. \A k \in 0 .. n - 1 : a[k] = b[k]
    BY <2>1, <2>4, <2>5, <2>6, RecursionUnique
  <2> QED BY <2>1, <2>7 DEF a, b
<1>3. g \in [Nat -> S]
  <2>1. ASSUME NEW n \in Nat PROVE Pick(n)[n] \in S
    BY <1>1 DEF Recursion
  <2> QED BY <2>1 DEF g
<1>4. g[0] = f0
  BY <1>1 DEF Recursion, g
<1>5. ASSUME NEW k \in Nat \ {0} PROVE g[k] = step[<<g[k - 1], k>>]
  <2>1. k \in 1 .. k /\ k - 1 \in Nat /\ k \in Nat
    OBVIOUS
  <2>2. Pick(k)[k] = step[<<Pick(k)[k - 1], k>>]
    BY <2>1, <1>1 DEF Recursion
  <2>3. Pick(k)[k - 1] = Pick(k - 1)[k - 1]
    BY <1>2
  <2>4. g[k] = Pick(k)[k] /\ g[k - 1] = Pick(k - 1)[k - 1]
    BY <2>1 DEF g
  <2> QED BY <2>2, <2>3, <2>4
<1> QED BY <1>3, <1>4, <1>5 DEF NatRecursion

----------------------------------------------------------------------------
(* Sequences whose elements may be anything.                               *)

IsSeq(s) == s \in Seq(ToSet(s))
Distinct(s) == \A a, b \in DOMAIN s : s[a] = s[b] => a = b

LEMMA SeqIsSeq ==
    ASSUME NEW S, NEW s \in Seq(S)
    PROVE  IsSeq(s) /\ ToSet(s) \subseteq S
<1>1. Len(s) \in Nat /\ DOMAIN s = 1 .. Len(s) /\ s \in [1 .. Len(s) -> S]
  BY LenProperties
<1>2. Range(s) = ToSet(s)
  BY DEF Range, ToSet
<1>3. s \in Seq(Range(s)) /\ Range(s) \in SUBSET S
  BY SeqOfRange, RangeOfSeq
<1> QED BY <1>2, <1>3 DEF IsSeq

LEMMA IsSeqLen ==
    ASSUME NEW s, IsSeq(s)
    PROVE  Len(s) \in Nat /\ DOMAIN s = 1 .. Len(s)
BY LenProperties DEF IsSeq

LEMMA EmptyIsSeq == IsSeq(<<>>) /\ Distinct(<<>>) /\ Len(<<>>) = 0 /\ DOMAIN <<>> = {}
<1>1. <<>> \in Seq({}) /\ Len(<<>>) = 0
  BY EmptySeq
<1>2. IsSeq(<<>>) /\ DOMAIN <<>> = 1 .. 0
  BY <1>1, SeqIsSeq, LenProperties
<1>3. DOMAIN <<>> = {}
  BY <1>2
<1> QED BY <1>1, <1>2, <1>3 DEF Distinct

LEMMA HasFirst ==
    ASSUME NEW s, IsSeq(s), s # <<>>
    PROVE  1 \in DOMAIN s /\ s[1] \in ToSet(s)
<1>1. Len(s) \in Nat \ {0}
  BY EmptySeq DEF IsSeq
<1>2. 1 \in DOMAIN s
  BY <1>1, IsSeqLen
<1> QED BY <1>2 DEF ToSet

LEMMA AppendIsSeq ==
    ASSUME NEW s, IsSeq(s), NEW e
    PROVE  /\ IsSeq(Append(s, e))
           /\ Len(Append(s, e)) = Len(s) + 1
           /\ \A k \in 1 .. Len(s) : Append(s, e)[k] = s[k]
           /\ Append(s, e)[Len(s) + 1] = e
           /\ ToSet(Append(s, e)) \subseteq ToSet(s) \cup {e}
<1> DEFINE S == ToSet(s) \cup {e}
<1>1. s \in Seq(S) /\ e \in S
  BY SeqMonotonic DEF IsSeq
<1> HIDE DEF S
<1>2. /\ Append(s, e) \in Seq(S)
      /\ Len(Append(s, e)) = Len(s) + 1
      /\ \A k \in 1 .. Len(s) : Append(s, e)[k] = s[k]
      /\ Append(s, e)[Len(s) + 1] = e
  BY <1>1, AppendProperties
<1>3. IsSeq(Append(s, e)) /\ ToSet(Append(s, e)) \subseteq S
  BY <1>2, SeqIsSeq
<1> QED BY <1>2, <1>3 DEF S

LEMMA AppendDistinct ==
    ASSUME NEW s, IsSeq(s), Distinct(s), NEW e, ~Contains(s, e)
    PROVE  Distinct(Append(s, e))
<1>1. Len(s) \in Nat /\ DOMAIN s = 1 .. Len(s)
  BY IsSeqLen
<1>2. /\ IsSeq(Append(s, e)) /\ Len(Append(s, e)) = Len(s) + 1
      /\ \A k \in 1 .. Len(s) : Append(s, e)[k] = s[k]
      /\ Append(s, e)[Len(s) + 1] = e
  BY AppendIsSeq
<1>3. DOMAIN Append(s, e) = 1 .. Len(s) + 1
  BY <1>2, IsSeqLen
<1>4. SUFFICES ASSUME NEW a \in 1 .. Len(s) + 1, NEW b \in 1 .. Len(s) + 1,
                      Append(s, e)[a] = Append(s, e)[b]
               PROVE  a = b
  BY <1>3 DEF Distinct
<1>5. CASE a \in 1 .. Len(s) /\ b \in 1 .. Len(s)
  BY <1>1, <1>2, <1>4, <1>5 DEF Distinct
<1>6. CASE a = Len(s) + 1 /\ b = Len(s) + 1
  BY <1>6
<1>7. CASE a = Len(s) + 1 /\ b \in 1 .. Len(s)
  BY <1>2, <1>4, <1>7 DEF Contains
<1>8. CASE b = Len(s) + 1 /\ a \in 1 .. Len(s)
  BY <1>2, <1>4, <1>8 DEF Contains
<1> QED BY <1>1, <1>4, <1>5, <1>6, <1>7, <1>8

LEMMA ConcatIsSeq ==
    ASSUME NEW s, IsSeq(s), NEW t, IsSeq(t)
    PROVE  /\ IsSeq(s \o t)
           /\ Len(s \o t) = Len(s) + Len(t)
           /\ \A k \in 1 .. Len(s) + Len(t) :
                 (s \o t)[k] = IF k <= Len(s) THEN s[k] ELSE t[k - Len(s)]
<1> DEFINE S == ToSet(s) \cup ToSet(t)
<1>1. s \in Seq(S) /\ t \in Seq(S)
  BY SeqMonotonic DEF IsSeq
<1> HIDE DEF S
<1>2. /\ s \o t \in Seq(S)
      /\ Len(s \o t) = Len(s) + Len(t)
      /\ \A k \in 1 .. Len(s) + Len(t) :
            (s \o t)[k] = IF k <= Len(s) THEN s[k] ELSE t[k - Len(s)]
  BY <1>1, ConcatProperties
<1> QED BY <1>2, SeqIsSeq

\* A function on 1 .. n is a sequence.
LEMMA FunctionIsSeq ==
    ASSUME NEW n \in Nat, NEW s, DOMAIN s = 1 .. n, s = [k \in 1 .. n |-> s[k]]
    PROVE  IsSeq(s) /\ Len(s) = n
<1>1. s \in [1 .. n -> ToSet(s)]
  BY DEF ToSet
<1>2. s \in Seq(ToSet(s))
  BY <1>1, SeqDef
<1>3. Len(s) = n
  <2>1. Len(s) \in Nat /\ DOMAIN s = 1 .. Len(s)
    BY <1>2, LenProperties
  <2> QED BY <2>1
<1> QED BY <1>2, <1>3 DEF IsSeq

LEMMA SingletonIs ==
    ASSUME NEW x
    PROVE  IsSeq(<<x>>) /\ Len(<<x>>) = 1 /\ <<x>>[1] = x /\ DOMAIN <<x>> = {1}
<1>1. <<x>> \in Seq({x}) /\ Len(<<x>>) = 1 /\ <<x>>[1] = x
  OBVIOUS
<1>2. 1 .. 1 = {1}
  OBVIOUS
<1>3. IsSeq(<<x>>) /\ DOMAIN <<x>> = 1 .. 1
  BY <1>1, SeqIsSeq, LenProperties
<1> QED BY <1>1, <1>2, <1>3

LEMMA PairIsSeq ==
    ASSUME NEW a, NEW b
    PROVE  IsSeq(<<a, b>>) /\ <<a, b>> \in Seq({a, b})
<1>1. <<a, b>> \in Seq({a, b})
  OBVIOUS
<1> DEFINE s == <<a, b>>
<1> HIDE DEF s
<1>2. s \in Seq({a, b}) => IsSeq(s)
  BY SeqIsSeq
<1> QED BY <1>1, <1>2 DEF s

LEMMA TripleIsSeq ==
    ASSUME NEW a, NEW b, NEW c
    PROVE  IsSeq(<<a, b, c>>)
<1>1. <<a, b, c>> \in Seq({a, b, c})
  OBVIOUS
<1> DEFINE s == <<a, b, c>>
<1> HIDE DEF s
<1>2. s \in Seq({a, b, c}) => IsSeq(s)
  BY SeqIsSeq
<1> QED BY <1>1, <1>2 DEF s

----------------------------------------------------------------------------
(* The loops: Where, Firsts and SumOf, step by step; concatenations; one   *)
(* element of a sequence in a set, or none, and what the loops make of it; *)
(* elements by keys, one sequence for each key.                            *)

LEMMA WhereSteps ==
    ASSUME NEW s, IsSeq(s), NEW T
    PROVE  \E taken :
              /\ taken[0] = <<>>
              /\ \A k \in 1 .. Len(s) :
                    taken[k] = IF s[k] \in T THEN Append(taken[k - 1], s[k]) ELSE taken[k - 1]
              /\ Where(s, T) = taken[Len(s)]
<1> DEFINE n == Len(s)
           S == Seq(ToSet(s))
           step == [p \in S \X (1 .. n) |-> IF s[p[2]] \in T THEN Append(p[1], s[p[2]]) ELSE p[1]]
<1>1. n \in Nat /\ DOMAIN s = 1 .. n /\ <<>> \in S
  BY IsSeqLen, EmptySeq
<1>2. ASSUME NEW v \in S, NEW k \in 1 .. n
      PROVE  step[<<v, k>>] = IF s[k] \in T THEN Append(v, s[k]) ELSE v
  OBVIOUS
<1>3. ASSUME NEW v \in S, NEW k \in 1 .. n PROVE step[<<v, k>>] \in S
  <2>1. s[k] \in ToSet(s)
    BY <1>1 DEF ToSet
  <2>2. Append(v, s[k]) \in S
    BY <2>1, AppendProperties
  <2> QED BY <2>2, <1>2
<1> HIDE DEF step, n, S
<1>4. Keeps(step, S, n)
  BY <1>3 DEF Keeps
<1>5. PICK taken : Recursion(taken, S, <<>>, step, n)
  BY <1>1, <1>4, RecursionExists
<1>6. taken \in [0 .. n -> S] /\ taken[0] = <<>>
  BY <1>5 DEF Recursion
<1>7. ASSUME NEW k \in 1 .. n
      PROVE  taken[k] = IF s[k] \in T THEN Append(taken[k - 1], s[k]) ELSE taken[k - 1]
  <2>1. taken[k - 1] \in S
    BY <1>1, <1>6
  <2> QED BY <2>1, <1>2, <1>5 DEF Recursion
<1> DEFINE F(g) == [k \in 0 .. Len(s) |->
                      IF k = 0 THEN <<>>
                      ELSE IF s[k] \in T THEN Append(g[k - 1], s[k]) ELSE g[k - 1]]
<1>8. taken = F(taken)
  <2>1. ASSUME NEW k \in 0 .. n PROVE taken[k] = F(taken)[k]
    <3>1. CASE k = 0
      BY <3>1, <1>6, <1>1 DEF n
    <3>2. CASE k # 0
      <4>1. k \in 1 .. n
        BY <3>2, <1>1
      <4> QED BY <4>1, <3>2, <1>7, <1>1 DEF n
    <3> QED BY <3>1, <3>2
  <2>2. taken = [k \in 0 .. n |-> taken[k]]
    BY <1>6
  <2>3. F(taken) = [k \in 0 .. n |-> F(taken)[k]]
    BY DEF n
  <2>4. [k \in 0 .. n |-> taken[k]] = [k \in 0 .. n |-> F(taken)[k]]
    <3> HIDE DEF F
    <3> QED BY <2>1
  <2> HIDE DEF F
  <2> QED BY <2>2, <2>3, <2>4
<1> DEFINE chosen == CHOOSE g : g = F(g)
<1>9. Where(s, T) = chosen[n]
  BY DEF Where, n
<1>10. chosen = F(chosen)
  <2> HIDE DEF F
  <2> QED BY <1>8
<1>11. chosen[0] = <<>>
  <2>1. 0 \in 0 .. Len(s)
    BY <1>1 DEF n
  <2> HIDE DEF chosen
  <2>2. chosen[0] = F(chosen)[0]
    <3> HIDE DEF F
    <3> QED BY <1>10
  <2> QED BY <2>1, <2>2
<1>12. ASSUME NEW k \in 1 .. n
       PROVE  chosen[k] = IF s[k] \in T THEN Append(chosen[k - 1], s[k]) ELSE chosen[k - 1]
  <2>1. k \in 0 .. Len(s) /\ k # 0
    BY <1>1 DEF n
  <2> HIDE DEF chosen
  <2>2. chosen[k] = F(chosen)[k]
    <3> HIDE DEF F
    <3> QED BY <1>10
  <2> QED BY <2>1, <2>2
<1> HIDE DEF chosen, F
<1> QED BY <1>9, <1>11, <1>12 DEF n

LEMMA FirstsSteps ==
    ASSUME NEW s, IsSeq(s)
    PROVE  \E firsts :
              /\ firsts[0] = <<>>
              /\ \A k \in 1 .. Len(s) :
                    firsts[k] = IF Contains(firsts[k - 1], s[k]) THEN firsts[k - 1] ELSE Append(firsts[k - 1], s[k])
              /\ Firsts(s) = firsts[Len(s)]
<1> DEFINE n == Len(s)
           S == Seq(ToSet(s))
           step == [p \in S \X (1 .. n) |-> IF Contains(p[1], s[p[2]]) THEN p[1] ELSE Append(p[1], s[p[2]])]
<1>1. n \in Nat /\ DOMAIN s = 1 .. n /\ <<>> \in S
  BY IsSeqLen, EmptySeq
<1>2. ASSUME NEW v \in S, NEW k \in 1 .. n
      PROVE  step[<<v, k>>] = IF Contains(v, s[k]) THEN v ELSE Append(v, s[k])
  OBVIOUS
<1>3. ASSUME NEW v \in S, NEW k \in 1 .. n PROVE step[<<v, k>>] \in S
  <2>1. s[k] \in ToSet(s)
    BY <1>1 DEF ToSet
  <2>2. Append(v, s[k]) \in S
    BY <2>1, AppendProperties
  <2> QED BY <2>2, <1>2
<1> HIDE DEF step, n, S
<1>4. Keeps(step, S, n)
  BY <1>3 DEF Keeps
<1>5. PICK firsts : Recursion(firsts, S, <<>>, step, n)
  BY <1>1, <1>4, RecursionExists
<1>6. firsts \in [0 .. n -> S] /\ firsts[0] = <<>>
  BY <1>5 DEF Recursion
<1>7. ASSUME NEW k \in 1 .. n
      PROVE  firsts[k] = IF Contains(firsts[k - 1], s[k]) THEN firsts[k - 1] ELSE Append(firsts[k - 1], s[k])
  <2>1. firsts[k - 1] \in S
    BY <1>1, <1>6
  <2> QED BY <2>1, <1>2, <1>5 DEF Recursion
<1> DEFINE F(g) == [k \in 0 .. Len(s) |->
                      IF k = 0 THEN <<>>
                      ELSE IF Contains(g[k - 1], s[k]) THEN g[k - 1] ELSE Append(g[k - 1], s[k])]
<1>8. firsts = F(firsts)
  <2>1. ASSUME NEW k \in 0 .. n PROVE firsts[k] = F(firsts)[k]
    <3>1. CASE k = 0
      BY <3>1, <1>6, <1>1 DEF n
    <3>2. CASE k # 0
      <4>1. k \in 1 .. n
        BY <3>2, <1>1
      <4> QED BY <4>1, <3>2, <1>7, <1>1 DEF n
    <3> QED BY <3>1, <3>2
  <2>2. firsts = [k \in 0 .. n |-> firsts[k]]
    BY <1>6
  <2>3. F(firsts) = [k \in 0 .. n |-> F(firsts)[k]]
    BY DEF n
  <2>4. [k \in 0 .. n |-> firsts[k]] = [k \in 0 .. n |-> F(firsts)[k]]
    <3> HIDE DEF F
    <3> QED BY <2>1
  <2> HIDE DEF F
  <2> QED BY <2>2, <2>3, <2>4
<1> DEFINE chosen == CHOOSE g : g = F(g)
<1>9. Firsts(s) = chosen[n]
  BY DEF Firsts, n
<1>10. chosen = F(chosen)
  <2> HIDE DEF F
  <2> QED BY <1>8
<1>11. chosen[0] = <<>>
  <2>1. 0 \in 0 .. Len(s)
    BY <1>1 DEF n
  <2> HIDE DEF chosen
  <2>2. chosen[0] = F(chosen)[0]
    <3> HIDE DEF F
    <3> QED BY <1>10
  <2> QED BY <2>1, <2>2
<1>12. ASSUME NEW k \in 1 .. n
       PROVE  chosen[k] = IF Contains(chosen[k - 1], s[k]) THEN chosen[k - 1] ELSE Append(chosen[k - 1], s[k])
  <2>1. k \in 0 .. Len(s) /\ k # 0
    BY <1>1 DEF n
  <2> HIDE DEF chosen
  <2>2. chosen[k] = F(chosen)[k]
    <3> HIDE DEF F
    <3> QED BY <1>10
  <2> QED BY <2>1, <2>2
<1> HIDE DEF chosen, F
<1> QED BY <1>9, <1>11, <1>12 DEF n

LEMMA AppendToSet ==
    ASSUME NEW s, IsSeq(s), NEW e
    PROVE  ToSet(Append(s, e)) = ToSet(s) \cup {e}
<1>1. /\ IsSeq(Append(s, e)) /\ Len(Append(s, e)) = Len(s) + 1
      /\ \A k \in 1 .. Len(s) : Append(s, e)[k] = s[k]
      /\ Append(s, e)[Len(s) + 1] = e
      /\ ToSet(Append(s, e)) \subseteq ToSet(s) \cup {e}
  BY AppendIsSeq
<1>2. Len(s) \in Nat /\ DOMAIN s = 1 .. Len(s) /\ DOMAIN Append(s, e) = 1 .. Len(s) + 1
  BY <1>1, IsSeqLen
<1>3. \A k \in 1 .. Len(s) : k \in 1 .. Len(s) + 1
  BY <1>2
<1>4. Len(s) + 1 \in 1 .. Len(s) + 1
  BY <1>2
<1> QED BY <1>1, <1>2, <1>3, <1>4 DEF ToSet

\* What Where keeps, in which order and how often.
LEMMA WhereIs ==
    ASSUME NEW s, IsSeq(s), NEW T
    PROVE  /\ IsSeq(Where(s, T))
           /\ ToSet(Where(s, T)) = ToSet(s) \cap T
           /\ Distinct(s) => Distinct(Where(s, T))
<1> DEFINE n == Len(s)
           Upto(k) == {s[j] : j \in 1 .. k}
<1>1. n \in Nat /\ DOMAIN s = 1 .. n
  BY IsSeqLen
<1>2. PICK taken :
          /\ taken[0] = <<>>
          /\ \A k \in 1 .. n :
                taken[k] = IF s[k] \in T THEN Append(taken[k - 1], s[k]) ELSE taken[k - 1]
          /\ Where(s, T) = taken[n]
  BY WhereSteps
<1> DEFINE P == {k \in 0 .. n : /\ IsSeq(taken[k])
                                /\ ToSet(taken[k]) = Upto(k) \cap T
                                /\ Distinct(s) => Distinct(taken[k])}
<1> HIDE DEF n
<1>3. 0 \in P
  <2>1. ToSet(<<>>) = {}
    BY EmptyIsSeq DEF ToSet
  <2>2. Upto(0) = {}
    OBVIOUS
  <2> QED BY <1>1, <1>2, <2>1, <2>2, EmptyIsSeq
<1>4. ASSUME NEW k \in P, k < n PROVE k + 1 \in P
  <2>1. k \in 0 .. n /\ k + 1 \in 1 .. n /\ k + 1 \in 0 .. n /\ (k + 1) - 1 = k
    BY <1>1, <1>4
  <2>2. taken[k + 1] = IF s[k + 1] \in T THEN Append(taken[k], s[k + 1]) ELSE taken[k]
    BY <1>2, <2>1
  <2>3. IsSeq(taken[k]) /\ ToSet(taken[k]) = Upto(k) \cap T /\ (Distinct(s) => Distinct(taken[k]))
    BY <1>4
  <2>4. Upto(k + 1) = Upto(k) \cup {s[k + 1]}
    <3>1. \A j : j \in 1 .. k + 1 <=> j \in 1 .. k \/ j = k + 1
      BY <2>1
    <3> QED BY <3>1
  <2>5. Distinct(s) => s[k + 1] \notin Upto(k)
    <3>1. \A j \in 1 .. k : j \in DOMAIN s /\ j # k + 1 /\ k + 1 \in DOMAIN s
      BY <1>1, <2>1
    <3> QED BY <3>1 DEF Distinct
  <2> HIDE DEF Upto
  <2>6. CASE s[k + 1] \in T
    <3>1. IsSeq(taken[k + 1]) /\ ToSet(taken[k + 1]) = ToSet(taken[k]) \cup {s[k + 1]}
      BY <2>2, <2>3, <2>6, AppendIsSeq, AppendToSet
    <3>2. ASSUME Distinct(s) PROVE Distinct(taken[k + 1])
      <4>1. s[k + 1] \notin ToSet(taken[k])
        BY <2>3, <2>5, <3>2
      <4>2. ~Contains(taken[k], s[k + 1])
        BY <4>1, <2>3, IsSeqLen DEF Contains, ToSet
      <4> QED BY <2>2, <2>3, <2>6, <3>2, <4>2, AppendDistinct
    <3>3. ToSet(taken[k + 1]) = Upto(k + 1) \cap T
      BY <3>1, <2>3, <2>4, <2>6
    <3> QED BY <2>1, <3>1, <3>2, <3>3
  <2>7. CASE s[k + 1] \notin T
    <3>1. taken[k + 1] = taken[k] /\ Upto(k + 1) \cap T = Upto(k) \cap T
      BY <2>2, <2>4, <2>7
    <3> QED BY <2>1, <2>3, <3>1
  <2> QED BY <2>6, <2>7
<1>5. n \in P
  <2>1. P \in SUBSET (0 .. n)
    OBVIOUS
  <2>2. P = 0 .. n
    <3> HIDE DEF P
    <3> QED BY <1>1, <1>3, <1>4, <2>1, UpToInduction
  <2>3. n \in 0 .. n
    BY <1>1
  <2> HIDE DEF P
  <2> QED BY <2>2, <2>3
<1>6. ToSet(s) = Upto(n)
  BY <1>1 DEF ToSet
<1> QED BY <1>2, <1>5, <1>6

\* Firsts has every element, once.
LEMMA FirstsIs ==
    ASSUME NEW s, IsSeq(s)
    PROVE  /\ IsSeq(Firsts(s))
           /\ Distinct(Firsts(s))
           /\ ToSet(Firsts(s)) = ToSet(s)
<1> DEFINE n == Len(s)
           Upto(k) == {s[j] : j \in 1 .. k}
<1>1. n \in Nat /\ DOMAIN s = 1 .. n
  BY IsSeqLen
<1>2. PICK firsts :
          /\ firsts[0] = <<>>
          /\ \A k \in 1 .. n :
                firsts[k] = IF Contains(firsts[k - 1], s[k]) THEN firsts[k - 1] ELSE Append(firsts[k - 1], s[k])
          /\ Firsts(s) = firsts[n]
  BY FirstsSteps
<1> DEFINE P == {k \in 0 .. n : /\ IsSeq(firsts[k])
                                /\ Distinct(firsts[k])
                                /\ ToSet(firsts[k]) = Upto(k)}
<1> HIDE DEF n
<1>3. 0 \in P
  <2>1. ToSet(<<>>) = {}
    BY EmptyIsSeq DEF ToSet
  <2>2. Upto(0) = {}
    OBVIOUS
  <2> QED BY <1>1, <1>2, <2>1, <2>2, EmptyIsSeq
<1>4. ASSUME NEW k \in P, k < n PROVE k + 1 \in P
  <2>1. k \in 0 .. n /\ k + 1 \in 1 .. n /\ k + 1 \in 0 .. n /\ (k + 1) - 1 = k
    BY <1>1, <1>4
  <2>2. firsts[k + 1] = IF Contains(firsts[k], s[k + 1]) THEN firsts[k] ELSE Append(firsts[k], s[k + 1])
    BY <1>2, <2>1
  <2>3. IsSeq(firsts[k]) /\ Distinct(firsts[k]) /\ ToSet(firsts[k]) = Upto(k)
    BY <1>4
  <2>4. Upto(k + 1) = Upto(k) \cup {s[k + 1]}
    <3>1. \A j : j \in 1 .. k + 1 <=> j \in 1 .. k \/ j = k + 1
      BY <2>1
    <3> QED BY <3>1
  <2> HIDE DEF Upto
  <2>5. CASE Contains(firsts[k], s[k + 1])
    <3>1. s[k + 1] \in ToSet(firsts[k])
      BY <2>3, <2>5, IsSeqLen DEF Contains, ToSet
    <3> QED BY <2>1, <2>2, <2>3, <2>4, <2>5, <3>1
  <2>6. CASE ~Contains(firsts[k], s[k + 1])
    <3>1. /\ IsSeq(firsts[k + 1]) /\ Distinct(firsts[k + 1])
          /\ ToSet(firsts[k + 1]) = ToSet(firsts[k]) \cup {s[k + 1]}
      BY <2>2, <2>3, <2>6, AppendIsSeq, AppendDistinct, AppendToSet
    <3> QED BY <2>1, <2>3, <2>4, <3>1
  <2> QED BY <2>5, <2>6
<1>5. n \in P
  <2>1. P \in SUBSET (0 .. n)
    OBVIOUS
  <2>2. P = 0 .. n
    <3> HIDE DEF P
    <3> QED BY <1>1, <1>3, <1>4, <2>1, UpToInduction
  <2>3. n \in 0 .. n
    BY <1>1
  <2> HIDE DEF P
  <2> QED BY <2>2, <2>3
<1>6. ToSet(s) = Upto(n)
  BY <1>1 DEF ToSet
<1> QED BY <1>2, <1>5, <1>6

LEMMA FlattenOne ==
    ASSUME NEW s
    PROVE  FlattenSeq(<<s>>) = s
<1> DEFINE F(g) == [k \in 1 .. Len(<<s>>) |-> IF k = 1 THEN <<s>>[k] ELSE g[k - 1] \o <<s>>[k]]
           flatten == CHOOSE g : g = F(g)
           one == [k \in 1 .. 1 |-> s]
<1>1. Len(<<s>>) = 1 /\ <<s>>[1] = s
  OBVIOUS
<1>2. one = F(one)
  <2>1. \A k \in 1 .. 1 : k = 1
    OBVIOUS
  <2>2. F(one) = [k \in 1 .. 1 |-> IF k = 1 THEN s ELSE one[k - 1] \o <<s>>[k]]
    BY <1>1, <2>1
  <2>3. [k \in 1 .. 1 |-> IF k = 1 THEN s ELSE one[k - 1] \o <<s>>[k]] = [k \in 1 .. 1 |-> s]
    <3> HIDE DEF one
    <3> QED BY <2>1
  <2> QED BY <2>2, <2>3
<1>3. flatten = F(flatten)
  <2> HIDE DEF F
  <2> QED BY <1>2
<1>4. flatten[1] = s
  <2> HIDE DEF flatten
  <2>1. flatten[1] = F(flatten)[1]
    <3> HIDE DEF F
    <3> QED BY <1>3
  <2>2. 1 \in 1 .. Len(<<s>>)
    BY <1>1
  <2> QED BY <1>1, <2>1, <2>2
<1>5. FlattenSeq(<<s>>) = flatten[Len(<<s>>)]
  BY <1>1 DEF FlattenSeq
<1> HIDE DEF flatten
<1> QED BY <1>1, <1>4, <1>5

LEMMA MinIs ==
    ASSUME NEW T \in SUBSET Nat, T # {}
    PROVE  Min(T) \in T /\ \A y \in T : Min(T) <= y
<1>1. \E x \in T : \A y \in T : x <= y
  BY LeastNat
<1> QED BY <1>1 DEF Min

Sums(s, sum) ==
    /\ sum \in [0 .. Len(s) -> Int]
    /\ sum[0] = 0
    /\ \A k \in 1 .. Len(s) : sum[k] = sum[k - 1] + s[k]

LEMMA SumSteps ==
    ASSUME NEW s \in Seq(Int)
    PROVE  \E sum : Sums(s, sum) /\ SumOf(s) = sum[Len(s)]
<1> DEFINE n == Len(s)
           step == [p \in Int \X (1 .. n) |-> p[1] + s[p[2]]]
<1>1. n \in Nat /\ \A k \in 1 .. n : s[k] \in Int
  BY LenProperties, ElementOfSeq
<1>2. ASSUME NEW v \in Int, NEW k \in 1 .. n PROVE step[<<v, k>>] = v + s[k]
  OBVIOUS
<1> HIDE DEF step, n
<1>3. ASSUME NEW v \in Int, NEW k \in 1 .. n PROVE step[<<v, k>>] \in Int
  <2>1. s[k] \in Int
    BY <1>1
  <2>2. v + s[k] \in Int
    BY <2>1
  <2> QED BY <2>2, <1>2
<1>4. Keeps(step, Int, n)
  BY <1>3 DEF Keeps
<1>5. PICK sum : Recursion(sum, Int, 0, step, n)
  <2>1. 0 \in Int
    OBVIOUS
  <2> QED BY <2>1, <1>1, <1>4, RecursionExists
<1>6. sum \in [0 .. n -> Int] /\ sum[0] = 0
  BY <1>5 DEF Recursion
<1>7. ASSUME NEW k \in 1 .. n PROVE sum[k] = sum[k - 1] + s[k]
  <2>1. sum[k - 1] \in Int
    BY <1>1, <1>6
  <2> QED BY <2>1, <1>2, <1>5 DEF Recursion
<1> DEFINE F(g) == [k \in 0 .. Len(s) |-> IF k = 0 THEN 0 ELSE g[k - 1] + s[k]]
<1>8. sum = F(sum)
  <2>1. ASSUME NEW k \in 0 .. n PROVE sum[k] = F(sum)[k]
    <3>1. CASE k = 0
      BY <3>1, <1>6, <1>1 DEF n
    <3>2. CASE k # 0
      <4>1. k \in 1 .. n
        BY <3>2, <1>1
      <4> QED BY <4>1, <3>2, <1>7, <1>1 DEF n
    <3> QED BY <3>1, <3>2
  <2>2. sum = [k \in 0 .. n |-> sum[k]]
    BY <1>6
  <2>3. F(sum) = [k \in 0 .. n |-> F(sum)[k]]
    BY DEF n
  <2>4. [k \in 0 .. n |-> sum[k]] = [k \in 0 .. n |-> F(sum)[k]]
    <3> HIDE DEF F
    <3> QED BY <2>1
  <2> HIDE DEF F
  <2> QED BY <2>2, <2>3, <2>4
<1> DEFINE chosen == CHOOSE g : g = F(g)
<1>9. SumOf(s) = chosen[n]
  BY DEF SumOf, n
<1>10. chosen = F(chosen)
  <2> HIDE DEF F
  <2> QED BY <1>8
<1>11. chosen[0] = 0
  <2>1. 0 \in 0 .. Len(s)
    BY <1>1 DEF n
  <2> HIDE DEF chosen
  <2>2. chosen[0] = F(chosen)[0]
    <3> HIDE DEF F
    <3> QED BY <1>10
  <2> QED BY <2>1, <2>2
<1>12. ASSUME NEW k \in 1 .. n PROVE chosen[k] = chosen[k - 1] + s[k]
  <2>1. k \in 0 .. Len(s) /\ k # 0
    BY <1>1 DEF n
  <2> HIDE DEF chosen
  <2>2. chosen[k] = F(chosen)[k]
    <3> HIDE DEF F
    <3> QED BY <1>10
  <2> QED BY <2>1, <2>2
<1> HIDE DEF chosen, F
<1> DEFINE T == {k \in 0 .. n : chosen[k] = sum[k]}
<1>13. 0 \in T
  BY <1>1, <1>6, <1>11
<1>14. ASSUME NEW k \in T, k < n PROVE k + 1 \in T
  <2>1. k + 1 \in 1 .. n /\ k + 1 \in 0 .. n /\ (k + 1) - 1 = k /\ chosen[k] = sum[k]
    BY <1>1, <1>14
  <2>2. chosen[k + 1] = sum[k + 1]
    BY <2>1, <1>7, <1>12
  <2> QED BY <2>1, <2>2
<1>15. T = 0 .. n
  <2>1. T \in SUBSET (0 .. n)
    OBVIOUS
  <2> HIDE DEF T
  <2> QED BY <1>1, <1>13, <1>14, <2>1, UpToInduction
<1>16. chosen[n] = sum[n]
  <2>1. n \in 0 .. n
    BY <1>1
  <2> QED BY <2>1, <1>15
<1> QED BY <1>6, <1>7, <1>9, <1>16 DEF Sums, n

LEMMA SumOfInt ==
    ASSUME NEW s \in Seq(Int)
    PROVE  SumOf(s) \in Int
<1>1. PICK sum : Sums(s, sum) /\ SumOf(s) = sum[Len(s)]
  BY SumSteps
<1>2. Len(s) \in 0 .. Len(s)
  BY LenProperties
<1> QED BY <1>1, <1>2 DEF Sums

LEMMA SumEmpty == SumOf(<<>>) = 0
<1>1. <<>> \in Seq(Int) /\ Len(<<>>) = 0
  BY EmptySeq
<1>2. PICK sum : Sums(<<>>, sum) /\ SumOf(<<>>) = sum[Len(<<>>)]
  BY <1>1, SumSteps
<1> QED BY <1>1, <1>2 DEF Sums

LEMMA SumOne ==
    ASSUME NEW a \in Int
    PROVE  SumOf(<<a>>) = a
<1> DEFINE s == <<a>>
<1>1. s \in Seq(Int) /\ Len(s) = 1 /\ s[1] = a
  OBVIOUS
<1> HIDE DEF s
<1>2. PICK sum : Sums(s, sum) /\ SumOf(s) = sum[Len(s)]
  BY <1>1, SumSteps
<1>3. sum[0] = 0 /\ sum[1] = sum[0] + s[1]
  <2>1. 1 \in 1 .. Len(s) /\ 1 - 1 = 0
    BY <1>1
  <2> QED BY <2>1, <1>2 DEF Sums
<1>4. SumOf(s) = a
  BY <1>1, <1>2, <1>3
<1> QED BY <1>4 DEF s

LEMMA SumConcat ==
    ASSUME NEW s \in Seq(Int), NEW t \in Seq(Int)
    PROVE  SumOf(s \o t) = SumOf(s) + SumOf(t)
<1> DEFINE m == Len(s)
           n == Len(t)
           st == s \o t
<1>1. m \in Nat /\ n \in Nat
  BY LenProperties
<1>2. /\ st \in Seq(Int) /\ Len(st) = m + n
      /\ \A k \in 1 .. m + n : st[k] = IF k <= m THEN s[k] ELSE t[k - m]
  BY ConcatProperties
<1> HIDE DEF m, n, st
<1>3. PICK a : Sums(st, a) /\ SumOf(st) = a[Len(st)]
  BY <1>2, SumSteps
<1>4. PICK b : Sums(s, b) /\ SumOf(s) = b[m]
  BY SumSteps DEF m
<1>5. PICK c : Sums(t, c) /\ SumOf(t) = c[n]
  BY SumSteps DEF n
<1>6. /\ a[0] = 0 /\ \A k \in 1 .. m + n : a[k] = a[k - 1] + st[k]
      /\ b \in [0 .. m -> Int] /\ b[0] = 0 /\ \A k \in 1 .. m : b[k] = b[k - 1] + s[k]
      /\ c \in [0 .. n -> Int] /\ c[0] = 0 /\ \A k \in 1 .. n : c[k] = c[k - 1] + t[k]
  BY <1>2, <1>3, <1>4, <1>5 DEF Sums, m, n
<1> DEFINE T == {k \in 0 .. m : a[k] = b[k]}
<1>7. m \in T
  <2>1. 0 \in T
    BY <1>1, <1>6
  <2>2. ASSUME NEW k \in T, k < m PROVE k + 1 \in T
    <3>1. k + 1 \in 1 .. m /\ k + 1 \in 1 .. m + n /\ k + 1 \in 0 .. m /\ k + 1 <= m /\ (k + 1) - 1 = k /\ a[k] = b[k]
      BY <1>1, <2>2
    <3>2. st[k + 1] = s[k + 1]
      BY <1>2, <3>1
    <3>3. a[k + 1] = a[k] + st[k + 1] /\ b[k + 1] = b[k] + s[k + 1]
      BY <1>6, <3>1
    <3> QED BY <3>1, <3>2, <3>3
  <2>3. T \in SUBSET (0 .. m)
    OBVIOUS
  <2> HIDE DEF T
  <2>4. T = 0 .. m
    BY <1>1, <2>1, <2>2, <2>3, UpToInduction
  <2>5. m \in 0 .. m
    BY <1>1
  <2> QED BY <2>4, <2>5
<1> DEFINE U == {k \in 0 .. n : a[m + k] = b[m] + c[k]}
<1>8. n \in U
  <2>1. 0 \in U
    <3>1. a[m] = b[m] /\ b[m] \in Int /\ m + 0 = m
      BY <1>1, <1>6, <1>7
    <3> QED BY <1>1, <1>6, <3>1
  <2>2. ASSUME NEW k \in U, k < n PROVE k + 1 \in U
    <3>1. /\ k + 1 \in 1 .. n /\ m + (k + 1) \in 1 .. m + n /\ k + 1 \in 0 .. n /\ k \in 0 .. n
          /\ (k + 1) - 1 = k /\ (m + (k + 1)) - 1 = m + k /\ (m + (k + 1)) - m = k + 1 /\ ~(m + (k + 1) <= m)
          /\ a[m + k] = b[m] + c[k]
      BY <1>1, <2>2
    <3>2. st[m + (k + 1)] = t[k + 1]
      BY <1>2, <3>1
    <3>3. a[m + (k + 1)] = a[m + k] + st[m + (k + 1)] /\ c[k + 1] = c[k] + t[k + 1]
      BY <1>6, <3>1
    <3>4. b[m] \in Int /\ c[k] \in Int /\ t[k + 1] \in Int
      <4>1. m \in 0 .. m
        BY <1>1
      <4> QED BY <4>1, <1>6, <3>1, ElementOfSeq DEF n
    <3>5. a[m + (k + 1)] = b[m] + c[k + 1]
      BY <3>1, <3>2, <3>3, <3>4
    <3> QED BY <3>1, <3>5
  <2>3. U \in SUBSET (0 .. n)
    OBVIOUS
  <2> HIDE DEF U
  <2>4. U = 0 .. n
    BY <1>1, <2>1, <2>2, <2>3, UpToInduction
  <2>5. n \in 0 .. n
    BY <1>1
  <2> QED BY <2>4, <2>5
<1>9. SumOf(st) = b[m] + c[n]
  BY <1>2, <1>3, <1>8
<1> QED BY <1>4, <1>5, <1>9 DEF st

\* FlattenSeq concatenates one after the other.
LEMMA FlattenSteps ==
    ASSUME NEW U, NEW ss \in Seq(Seq(U))
    PROVE  \E all : /\ all \in [0 .. Len(ss) -> Seq(U)]
                    /\ all[0] = <<>>
                    /\ \A k \in 1 .. Len(ss) : all[k] = all[k - 1] \o ss[k]
                    /\ FlattenSeq(ss) = all[Len(ss)]
<1> DEFINE n == Len(ss)
           S == Seq(U)
           step == [p \in S \X (1 .. n) |-> p[1] \o ss[p[2]]]
<1>1. n \in Nat /\ (\A k \in 1 .. n : ss[k] \in S) /\ <<>> \in S
  BY LenProperties, ElementOfSeq, EmptySeq
<1>2. ASSUME NEW v \in S, NEW k \in 1 .. n PROVE step[<<v, k>>] = v \o ss[k]
  OBVIOUS
<1>3. ASSUME NEW v \in S, NEW k \in 1 .. n PROVE step[<<v, k>>] \in S
  <2>1. v \o ss[k] \in S
    BY <1>1, ConcatProperties
  <2> QED BY <2>1, <1>2
<1> HIDE DEF step, n, S
<1>4. Keeps(step, S, n)
  BY <1>3 DEF Keeps
<1>5. PICK all : Recursion(all, S, <<>>, step, n)
  BY <1>1, <1>4, RecursionExists
<1>6. all \in [0 .. n -> S] /\ all[0] = <<>>
  BY <1>5 DEF Recursion
<1>7. ASSUME NEW k \in 1 .. n PROVE all[k] = all[k - 1] \o ss[k]
  <2>1. all[k - 1] \in S
    BY <1>1, <1>6
  <2> QED BY <2>1, <1>2, <1>5 DEF Recursion
<1>8. CASE n = 0
  <2>1. FlattenSeq(ss) = ss
    BY <1>8 DEF FlattenSeq, n
  <2>2. ss = <<>>
    BY <1>8, EmptySeq DEF n
  <2> QED BY <2>1, <2>2, <1>6, <1>7, <1>8 DEF n, S
<1>9. CASE n # 0
  <2> DEFINE F(g) == [k \in 1 .. Len(ss) |-> IF k = 1 THEN ss[k] ELSE g[k - 1] \o ss[k]]
             cut == [k \in 1 .. n |-> all[k]]
             chosen == CHOOSE g : g = F(g)
  <2>1. 1 \in 1 .. n /\ n \in 1 .. n
    BY <1>1, <1>9
  <2>2. all[1] = ss[1]
    <3>1. all[1] = all[1 - 1] \o ss[1]
      BY <1>7, <2>1
    <3>2. ss[1] \in S /\ all[1 - 1] = <<>>
      BY <1>1, <1>6, <2>1
    <3> QED BY <3>1, <3>2, ConcatEmptySeq DEF S
  <2>3. cut = F(cut)
    <3>1. ASSUME NEW k \in 1 .. n PROVE cut[k] = F(cut)[k]
      <4>1. CASE k = 1
        BY <4>1, <2>1, <2>2 DEF n
      <4>2. CASE k # 1
        <5>1. k - 1 \in 1 .. n
          BY <1>1, <4>2
        <5> QED BY <5>1, <4>2, <1>7 DEF n
      <4> QED BY <4>1, <4>2
    <3>2. F(cut) = [k \in 1 .. n |-> F(cut)[k]]
      BY DEF n
    <3>3. cut = [k \in 1 .. n |-> cut[k]]
      OBVIOUS
    <3>4. [k \in 1 .. n |-> F(cut)[k]] = [k \in 1 .. n |-> cut[k]]
      <4> HIDE DEF F, cut
      <4> QED BY <3>1
    <3> HIDE DEF F, cut
    <3> QED BY <3>2, <3>3, <3>4
  <2>4. FlattenSeq(ss) = chosen[n]
    <3>1. Len(ss) # 0
      BY <1>9 DEF n
    <3> QED BY <3>1 DEF FlattenSeq, n
  <2>5. chosen = F(chosen)
    <3> HIDE DEF F, cut
    <3> QED BY <2>3
  <2>6. ASSUME NEW k \in 1 .. n
        PROVE  chosen[k] = IF k = 1 THEN ss[k] ELSE chosen[k - 1] \o ss[k]
    <3> HIDE DEF chosen
    <3>1. chosen[k] = F(chosen)[k]
      <4> HIDE DEF F
      <4> QED BY <2>5
    <3> QED BY <3>1 DEF n
  <2> HIDE DEF chosen, F, cut
  <2> DEFINE T == {0} \cup {k \in 1 .. n : chosen[k] = all[k]}
  <2>7. ASSUME NEW k \in T, k < n PROVE k + 1 \in T
    <3>1. k \in 0 .. n /\ k + 1 \in 1 .. n /\ (k + 1) - 1 = k
      BY <1>1, <2>7
    <3>2. CASE k = 0
      <4>1. chosen[1] = ss[1] /\ k + 1 = 1
        BY <2>1, <2>6, <3>2
      <4> QED BY <4>1, <2>1, <2>2
    <3>3. CASE k # 0
      <4>1. chosen[k] = all[k] /\ k + 1 # 1
        BY <3>3, <2>7, <3>1
      <4>2. chosen[k + 1] = chosen[k] \o ss[k + 1]
        BY <2>6, <3>1, <4>1
      <4>3. all[k + 1] = all[k] \o ss[k + 1]
        BY <1>7, <3>1
      <4> QED BY <3>1, <4>1, <4>2, <4>3
    <3> QED BY <3>2, <3>3
  <2>8. T \in SUBSET (0 .. n) /\ 0 \in T
    BY <1>1
  <2>9. T = 0 .. n
    <3> HIDE DEF T
    <3> QED BY <1>1, <2>7, <2>8, UpToInduction
  <2>10. chosen[n] = all[n]
    <3>1. n \in 0 .. n
      BY <1>1
    <3> QED BY <3>1, <2>9, <1>9
  <2> QED BY <2>4, <2>10, <1>6, <1>7 DEF n, S
<1> QED BY <1>8, <1>9

LEMMA FlattenSum ==
    ASSUME NEW ss \in Seq(Seq(Int)), NEW sizes \in Seq(Int), Len(sizes) = Len(ss),
           \A k \in 1 .. Len(ss) : sizes[k] = SumOf(ss[k])
    PROVE  FlattenSeq(ss) \in Seq(Int) /\ SumOf(FlattenSeq(ss)) = SumOf(sizes)
<1> DEFINE n == Len(ss)
<1>1. n \in Nat /\ \A k \in 1 .. n : ss[k] \in Seq(Int) /\ sizes[k] \in Int
  BY LenProperties, ElementOfSeq
<1>2. PICK all : /\ all \in [0 .. n -> Seq(Int)]
                 /\ all[0] = <<>>
                 /\ \A k \in 1 .. n : all[k] = all[k - 1] \o ss[k]
                 /\ FlattenSeq(ss) = all[n]
  BY FlattenSteps
<1> HIDE DEF n
<1>3. PICK sum : Sums(sizes, sum) /\ SumOf(sizes) = sum[n]
  BY SumSteps DEF n
<1>4. sum \in [0 .. n -> Int] /\ sum[0] = 0 /\ \A k \in 1 .. n : sum[k] = sum[k - 1] + sizes[k]
  BY <1>3 DEF Sums, n
<1> DEFINE T == {k \in 0 .. n : SumOf(all[k]) = sum[k]}
<1>5. 0 \in T
  BY <1>1, <1>2, <1>4, SumEmpty
<1>6. ASSUME NEW k \in T, k < n PROVE k + 1 \in T
  <2>1. k \in 0 .. n /\ k + 1 \in 1 .. n /\ k + 1 \in 0 .. n /\ (k + 1) - 1 = k /\ SumOf(all[k]) = sum[k]
    BY <1>1, <1>6
  <2>2. all[k] \in Seq(Int) /\ ss[k + 1] \in Seq(Int) /\ all[k + 1] = all[k] \o ss[k + 1]
    BY <1>1, <1>2, <2>1
  <2>3. SumOf(all[k + 1]) = SumOf(all[k]) + SumOf(ss[k + 1])
    BY <2>2, SumConcat
  <2>4. sum[k + 1] = sum[k] + sizes[k + 1] /\ sizes[k + 1] = SumOf(ss[k + 1])
    BY <1>4, <2>1 DEF n
  <2> QED BY <2>1, <2>3, <2>4
<1>7. T = 0 .. n
  <2>1. T \in SUBSET (0 .. n)
    OBVIOUS
  <2> HIDE DEF T
  <2> QED BY <1>1, <1>5, <1>6, <2>1, UpToInduction
<1>8. n \in 0 .. n
  BY <1>1
<1>9. SumOf(all[n]) = sum[n]
  BY <1>7, <1>8
<1> QED BY <1>2, <1>3, <1>8, <1>9

\* A sequence given element by element.
LEMMA IntSeq ==
    ASSUME NEW n \in Nat, NEW S, NEW s, DOMAIN s = 1 .. n, s = [k \in 1 .. n |-> s[k]],
           \A k \in 1 .. n : s[k] \in S
    PROVE  s \in Seq(S) /\ Len(s) = n
<1>1. s \in [1 .. n -> S]
  OBVIOUS
<1>2. s \in Seq(S)
  BY <1>1, SeqDef
<1>3. Len(s) = n
  BY <1>1, <1>2, FunctionIsSeq
<1> QED BY <1>2, <1>3

LEMMA SumThree ==
    ASSUME NEW a \in Int, NEW b \in Int, NEW c \in Int
    PROVE  <<a, b, c>> \in Seq(Int) /\ SumOf(<<a, b, c>>) = a + b + c
<1> DEFINE s == <<a, b, c>>
<1>1. s \in Seq(Int) /\ Len(s) = 3 /\ s[1] = a /\ s[2] = b /\ s[3] = c
  OBVIOUS
<1> HIDE DEF s
<1>2. PICK sum : Sums(s, sum) /\ SumOf(s) = sum[Len(s)]
  BY <1>1, SumSteps
<1>3. \A k \in 1 .. 3 : sum[k] = sum[k - 1] + s[k]
  BY <1>1, <1>2 DEF Sums
<1>4. sum[0] = 0 /\ sum[1] = sum[1 - 1] + a /\ sum[2] = sum[2 - 1] + b /\ sum[3] = sum[3 - 1] + c
  BY <1>1, <1>2, <1>3 DEF Sums
<1>5. SumOf(s) = a + b + c
  BY <1>1, <1>2, <1>4
<1> QED BY <1>1, <1>5 DEF s

LEMMA SumTwo ==
    ASSUME NEW a \in Int, NEW b \in Int
    PROVE  <<a, b>> \in Seq(Int) /\ SumOf(<<a, b>>) = a + b
<1> DEFINE s == <<a, b>>
<1>1. s \in Seq(Int) /\ Len(s) = 2 /\ s[1] = a /\ s[2] = b
  OBVIOUS
<1> HIDE DEF s
<1>2. PICK sum : Sums(s, sum) /\ SumOf(s) = sum[Len(s)]
  BY <1>1, SumSteps
<1>3. \A k \in 1 .. 2 : sum[k] = sum[k - 1] + s[k]
  BY <1>1, <1>2 DEF Sums
<1>4. sum[0] = 0 /\ sum[1] = sum[1 - 1] + a /\ sum[2] = sum[2 - 1] + b
  BY <1>1, <1>2, <1>3 DEF Sums
<1>5. SumOf(s) = a + b
  BY <1>1, <1>2, <1>4
<1> QED BY <1>1, <1>5 DEF s

NoneIn(s, T) == \A k \in DOMAIN s : s[k] \notin T

Sole(s, T, e) == \E k \in DOMAIN s : s[k] = e /\ e \in T /\ \A j \in DOMAIN s : s[j] \in T => j = k

LEMMA AppendNone ==
    ASSUME NEW s, IsSeq(s), NEW T, NEW e, NoneIn(s, T), e \notin T
    PROVE  NoneIn(Append(s, e), T)
<1>1. /\ IsSeq(Append(s, e)) /\ Len(Append(s, e)) = Len(s) + 1
      /\ \A k \in 1 .. Len(s) : Append(s, e)[k] = s[k]
      /\ Append(s, e)[Len(s) + 1] = e
  BY AppendIsSeq
<1>2. Len(s) \in Nat /\ DOMAIN s = 1 .. Len(s) /\ DOMAIN Append(s, e) = 1 .. Len(s) + 1
  BY <1>1, IsSeqLen
<1> QED BY <1>1, <1>2 DEF NoneIn

LEMMA AppendOneOld ==
    ASSUME NEW s, IsSeq(s), NEW T, NEW e, NEW x, Sole(s, T, x), e \notin T
    PROVE  Sole(Append(s, e), T, x)
<1>1. /\ IsSeq(Append(s, e)) /\ Len(Append(s, e)) = Len(s) + 1
      /\ \A k \in 1 .. Len(s) : Append(s, e)[k] = s[k]
      /\ Append(s, e)[Len(s) + 1] = e
  BY AppendIsSeq
<1>2. Len(s) \in Nat /\ DOMAIN s = 1 .. Len(s) /\ DOMAIN Append(s, e) = 1 .. Len(s) + 1
  BY <1>1, IsSeqLen
<1>3. PICK k \in DOMAIN s : s[k] = x /\ x \in T /\ \A j \in DOMAIN s : s[j] \in T => j = k
  BY DEF Sole
<1>4. k \in DOMAIN Append(s, e) /\ Append(s, e)[k] = x
  BY <1>1, <1>2, <1>3
<1>5. ASSUME NEW j \in DOMAIN Append(s, e), Append(s, e)[j] \in T PROVE j = k
  <2>1. j # Len(s) + 1
    BY <1>1, <1>5
  <2>2. j \in DOMAIN s /\ Append(s, e)[j] = s[j]
    BY <1>1, <1>2, <2>1
  <2> QED BY <2>2, <1>3, <1>5
<1> QED BY <1>3, <1>4, <1>5 DEF Sole

LEMMA AppendOneNew ==
    ASSUME NEW s, IsSeq(s), NEW T, NEW e, NoneIn(s, T), e \in T
    PROVE  Sole(Append(s, e), T, e)
<1>1. /\ IsSeq(Append(s, e)) /\ Len(Append(s, e)) = Len(s) + 1
      /\ \A k \in 1 .. Len(s) : Append(s, e)[k] = s[k]
      /\ Append(s, e)[Len(s) + 1] = e
  BY AppendIsSeq
<1>2. Len(s) \in Nat /\ DOMAIN s = 1 .. Len(s) /\ DOMAIN Append(s, e) = 1 .. Len(s) + 1
  BY <1>1, IsSeqLen
<1>3. Len(s) + 1 \in DOMAIN Append(s, e)
  BY <1>2
<1>4. ASSUME NEW j \in DOMAIN Append(s, e), Append(s, e)[j] \in T PROVE j = Len(s) + 1
  <2>1. SUFFICES ASSUME j # Len(s) + 1 PROVE FALSE
    OBVIOUS
  <2>2. j \in DOMAIN s /\ Append(s, e)[j] = s[j]
    BY <1>1, <1>2, <2>1
  <2> QED BY <2>2, <1>4 DEF NoneIn
<1> QED BY <1>1, <1>3, <1>4 DEF Sole

\* The one element in T is found, when it is in U, where the walk takes U.
LEMMA WhereOne ==
    ASSUME NEW s, IsSeq(s), NEW T, NEW U, NEW e, Sole(s, T, e), e \in U
    PROVE  Sole(Where(s, U), T, e)
<1> DEFINE n == Len(s)
<1>1. n \in Nat /\ DOMAIN s = 1 .. n
  BY IsSeqLen
<1>2. PICK taken :
          /\ taken[0] = <<>>
          /\ \A k \in 1 .. n :
                taken[k] = IF s[k] \in U THEN Append(taken[k - 1], s[k]) ELSE taken[k - 1]
          /\ Where(s, U) = taken[n]
  BY WhereSteps
<1>3. PICK m \in DOMAIN s : s[m] = e /\ e \in T /\ \A j \in DOMAIN s : s[j] \in T => j = m
  BY DEF Sole
<1> DEFINE P == {k \in 0 .. n : /\ IsSeq(taken[k])
                                /\ k < m => NoneIn(taken[k], T)
                                /\ k >= m => Sole(taken[k], T, e)}
<1> HIDE DEF n
<1>4. 0 \in P
  <2>1. NoneIn(<<>>, T)
    BY EmptyIsSeq DEF NoneIn
  <2> QED BY <1>1, <1>2, <1>3, <2>1, EmptyIsSeq
<1>5. ASSUME NEW k \in P, k < n PROVE k + 1 \in P
  <2>1. k \in 0 .. n /\ k + 1 \in 1 .. n /\ k + 1 \in 0 .. n /\ (k + 1) - 1 = k
    BY <1>1, <1>5
  <2>2. taken[k + 1] = IF s[k + 1] \in U THEN Append(taken[k], s[k + 1]) ELSE taken[k]
    BY <1>2, <2>1
  <2>3. IsSeq(taken[k]) /\ (k < m => NoneIn(taken[k], T)) /\ (k >= m => Sole(taken[k], T, e))
    BY <1>5
  <2>4. IsSeq(taken[k + 1])
    BY <2>2, <2>3, AppendIsSeq
  <2>5. CASE k + 1 = m
    <3>1. k < m /\ s[k + 1] = e /\ e \in T
      BY <2>5, <1>3, <2>1
    <3>2. Sole(taken[k + 1], T, e)
      BY <3>1, <2>2, <2>3, AppendOneNew
    <3> QED BY <2>1, <2>4, <2>5, <3>2
  <2>6. CASE k + 1 # m
    <3>1. s[k + 1] \notin T
      BY <2>1, <2>6, <1>1, <1>3
    <3>2. (k + 1 < m => k < m) /\ (k + 1 >= m => k >= m)
      BY <2>1, <2>6, <1>1, <1>3
    <3>3. k + 1 < m => NoneIn(taken[k + 1], T)
      BY <3>1, <3>2, <2>2, <2>3, AppendNone
    <3>4. k + 1 >= m => Sole(taken[k + 1], T, e)
      BY <3>1, <3>2, <2>2, <2>3, AppendOneOld
    <3> QED BY <2>1, <2>4, <3>3, <3>4
  <2> QED BY <2>5, <2>6
<1>6. n \in P
  <2>1. P \in SUBSET (0 .. n)
    OBVIOUS
  <2>2. P = 0 .. n
    <3> HIDE DEF P
    <3> QED BY <1>1, <1>4, <1>5, <2>1, UpToInduction
  <2>3. n \in 0 .. n
    BY <1>1
  <2> HIDE DEF P
  <2> QED BY <2>2, <2>3
<1>7. n >= m
  BY <1>1, <1>3
<1> QED BY <1>2, <1>6, <1>7

LEMMA WhereSingle ==
    ASSUME NEW s, IsSeq(s), NEW T, NEW e, Sole(s, T, e)
    PROVE  Where(s, T) = <<e>>
<1> DEFINE w == Where(s, T)
<1>1. IsSeq(w) /\ ToSet(w) = ToSet(s) \cap T
  BY WhereIs
<1>2. Sole(w, T, e)
  <2>1. e \in T
    BY DEF Sole
  <2> QED BY <2>1, WhereOne
<1> HIDE DEF w
<1>3. PICK k \in DOMAIN w : w[k] = e /\ \A j \in DOMAIN w : w[j] \in T => j = k
  BY <1>2 DEF Sole
<1>4. Len(w) \in Nat /\ DOMAIN w = 1 .. Len(w)
  BY <1>1, IsSeqLen
<1>5. \A j \in DOMAIN w : w[j] \in T
  BY <1>1 DEF ToSet
<1>6. \A j \in DOMAIN w : j = k
  BY <1>3, <1>5
<1>7. k = 1 /\ Len(w) = 1
  <2>1. 1 \in DOMAIN w /\ Len(w) \in DOMAIN w
    BY <1>3, <1>4
  <2> QED BY <2>1, <1>6
<1>8. w[1] = e
  BY <1>3, <1>7
<1>9. w = <<e>>
  <2>1. /\ w \in Seq(ToSet(w) \cup {e}) /\ <<e>> \in Seq(ToSet(w) \cup {e})
        /\ Len(<<e>>) = 1 /\ <<e>>[1] = e
    BY <1>1, SeqMonotonic DEF IsSeq
  <2> DEFINE v == <<e>>
  <2>2. v \in Seq(ToSet(w) \cup {e}) /\ Len(v) = 1 /\ v[1] = e
    BY <2>1
  <2> HIDE DEF v
  <2>3. \A j \in 1 .. Len(w) : w[j] = v[j]
    BY <1>7, <1>8, <2>2
  <2>4. w = v
    BY <1>7, <2>1, <2>2, <2>3, SeqEqual
  <2> QED BY <2>4 DEF v
<1> QED BY <1>9 DEF w

LEMMA ConcatNone ==
    ASSUME NEW s, IsSeq(s), NEW t, IsSeq(t), NEW T, NoneIn(s, T), NoneIn(t, T)
    PROVE  NoneIn(s \o t, T)
<1>1. /\ IsSeq(s \o t) /\ Len(s \o t) = Len(s) + Len(t)
      /\ \A k \in 1 .. Len(s) + Len(t) : (s \o t)[k] = IF k <= Len(s) THEN s[k] ELSE t[k - Len(s)]
  BY ConcatIsSeq
<1>2. /\ Len(s) \in Nat /\ DOMAIN s = 1 .. Len(s) /\ Len(t) \in Nat /\ DOMAIN t = 1 .. Len(t)
      /\ DOMAIN (s \o t) = 1 .. Len(s) + Len(t)
  BY <1>1, IsSeqLen
<1>3. ASSUME NEW k \in 1 .. Len(s) + Len(t) PROVE (s \o t)[k] \notin T
  <2>1. CASE k <= Len(s)
    BY <2>1, <1>1, <1>2 DEF NoneIn
  <2>2. CASE ~(k <= Len(s))
    <3>1. k - Len(s) \in DOMAIN t
      BY <2>2, <1>2
    <3> QED BY <3>1, <2>2, <1>1 DEF NoneIn
  <2> QED BY <2>1, <2>2
<1> QED BY <1>2, <1>3 DEF NoneIn

LEMMA ConcatOneLeft ==
    ASSUME NEW s, IsSeq(s), NEW t, IsSeq(t), NEW T, NEW e, Sole(s, T, e), NoneIn(t, T)
    PROVE  Sole(s \o t, T, e)
<1>1. /\ IsSeq(s \o t) /\ Len(s \o t) = Len(s) + Len(t)
      /\ \A k \in 1 .. Len(s) + Len(t) : (s \o t)[k] = IF k <= Len(s) THEN s[k] ELSE t[k - Len(s)]
  BY ConcatIsSeq
<1>2. /\ Len(s) \in Nat /\ DOMAIN s = 1 .. Len(s) /\ Len(t) \in Nat /\ DOMAIN t = 1 .. Len(t)
      /\ DOMAIN (s \o t) = 1 .. Len(s) + Len(t)
  BY <1>1, IsSeqLen
<1>3. PICK m \in DOMAIN s : s[m] = e /\ e \in T /\ \A j \in DOMAIN s : s[j] \in T => j = m
  BY DEF Sole
<1>4. m \in DOMAIN (s \o t) /\ (s \o t)[m] = e
  BY <1>1, <1>2, <1>3
<1>5. ASSUME NEW k \in DOMAIN (s \o t), (s \o t)[k] \in T PROVE k = m
  <2>1. CASE k <= Len(s)
    BY <2>1, <1>1, <1>2, <1>3, <1>5
  <2>2. CASE ~(k <= Len(s))
    <3>1. k - Len(s) \in DOMAIN t
      BY <2>2, <1>2
    <3> QED BY <3>1, <2>2, <1>1, <1>2, <1>5 DEF NoneIn
  <2> QED BY <2>1, <2>2
<1> QED BY <1>3, <1>4, <1>5 DEF Sole

LEMMA ConcatOneRight ==
    ASSUME NEW s, IsSeq(s), NEW t, IsSeq(t), NEW T, NEW e, NoneIn(s, T), Sole(t, T, e)
    PROVE  Sole(s \o t, T, e)
<1>1. /\ IsSeq(s \o t) /\ Len(s \o t) = Len(s) + Len(t)
      /\ \A k \in 1 .. Len(s) + Len(t) : (s \o t)[k] = IF k <= Len(s) THEN s[k] ELSE t[k - Len(s)]
  BY ConcatIsSeq
<1>2. /\ Len(s) \in Nat /\ DOMAIN s = 1 .. Len(s) /\ Len(t) \in Nat /\ DOMAIN t = 1 .. Len(t)
      /\ DOMAIN (s \o t) = 1 .. Len(s) + Len(t)
  BY <1>1, IsSeqLen
<1>3. PICK m \in DOMAIN t : t[m] = e /\ e \in T /\ \A j \in DOMAIN t : t[j] \in T => j = m
  BY DEF Sole
<1> DEFINE M == Len(s) + m
<1>4. M \in DOMAIN (s \o t) /\ (s \o t)[M] = e
  <2>1. M \in 1 .. Len(s) + Len(t) /\ ~(M <= Len(s)) /\ M - Len(s) = m
    BY <1>2, <1>3
  <2> QED BY <2>1, <1>1, <1>2, <1>3
<1>5. ASSUME NEW k \in DOMAIN (s \o t), (s \o t)[k] \in T PROVE k = M
  <2>1. CASE k <= Len(s)
    BY <2>1, <1>1, <1>2, <1>5 DEF NoneIn
  <2>2. CASE ~(k <= Len(s))
    <3>1. k - Len(s) \in DOMAIN t
      BY <2>2, <1>2
    <3>2. k - Len(s) = m
      BY <3>1, <2>2, <1>1, <1>2, <1>3, <1>5
    <3> QED BY <3>2, <1>2, <1>3
  <2> QED BY <2>1, <2>2
<1> HIDE DEF M
<1> QED BY <1>3, <1>4, <1>5 DEF Sole

LEMMA SeqsIn ==
    ASSUME NEW ss, IsSeq(ss), \A k \in DOMAIN ss : IsSeq(ss[k])
    PROVE  \E U : ss \in Seq(Seq(U))
<1> DEFINE U == UNION {ToSet(ss[k]) : k \in DOMAIN ss}
<1>1. ASSUME NEW k \in DOMAIN ss PROVE ss[k] \in Seq(U)
  <2>1. ss[k] \in Seq(ToSet(ss[k])) /\ ToSet(ss[k]) \subseteq U
    BY DEF IsSeq
  <2> HIDE DEF U
  <2> QED BY <2>1, SeqMonotonic
<1> HIDE DEF U
<1>2. ToSet(ss) \subseteq Seq(U)
  BY <1>1 DEF ToSet
<1>3. ss \in Seq(Seq(U))
  BY <1>2, SeqMonotonic DEF IsSeq
<1> QED BY <1>3

LEMMA FlattenIsSeq ==
    ASSUME NEW ss, IsSeq(ss), \A k \in DOMAIN ss : IsSeq(ss[k])
    PROVE  IsSeq(FlattenSeq(ss))
<1>1. PICK U : ss \in Seq(Seq(U))
  BY SeqsIn
<1>2. PICK all : all \in [0 .. Len(ss) -> Seq(U)] /\ FlattenSeq(ss) = all[Len(ss)]
  BY <1>1, FlattenSteps
<1>3. Len(ss) \in 0 .. Len(ss)
  BY IsSeqLen
<1> QED BY <1>2, <1>3, SeqIsSeq

LEMMA FlattenNone ==
    ASSUME NEW ss, IsSeq(ss), NEW T, \A k \in DOMAIN ss : IsSeq(ss[k]) /\ NoneIn(ss[k], T)
    PROVE  NoneIn(FlattenSeq(ss), T)
<1> DEFINE n == Len(ss)
<1>1. PICK U : ss \in Seq(Seq(U))
  BY SeqsIn
<1>2. PICK all : /\ all \in [0 .. n -> Seq(U)]
                 /\ all[0] = <<>>
                 /\ \A k \in 1 .. n : all[k] = all[k - 1] \o ss[k]
                 /\ FlattenSeq(ss) = all[n]
  BY <1>1, FlattenSteps
<1>3. n \in Nat /\ DOMAIN ss = 1 .. n
  BY IsSeqLen
<1> DEFINE P == {k \in 0 .. n : NoneIn(all[k], T)}
<1> HIDE DEF n
<1>4. 0 \in P
  <2>1. NoneIn(<<>>, T)
    BY EmptyIsSeq DEF NoneIn
  <2> QED BY <1>2, <1>3, <2>1
<1>5. ASSUME NEW k \in P, k < n PROVE k + 1 \in P
  <2>1. k \in 0 .. n /\ k + 1 \in 1 .. n /\ k + 1 \in 0 .. n /\ (k + 1) - 1 = k
    BY <1>3, <1>5
  <2>2. all[k + 1] = all[k] \o ss[k + 1] /\ all[k] \in Seq(U)
    BY <1>2, <2>1
  <2>3. IsSeq(all[k]) /\ IsSeq(ss[k + 1]) /\ NoneIn(ss[k + 1], T) /\ NoneIn(all[k], T)
    BY <1>3, <1>5, <2>1, <2>2, SeqIsSeq
  <2>4. NoneIn(all[k + 1], T)
    BY <2>2, <2>3, ConcatNone
  <2> QED BY <2>1, <2>4
<1>6. n \in P
  <2>1. P \in SUBSET (0 .. n)
    OBVIOUS
  <2>2. P = 0 .. n
    <3> HIDE DEF P
    <3> QED BY <1>3, <1>4, <1>5, <2>1, UpToInduction
  <2>3. n \in 0 .. n
    BY <1>3
  <2> HIDE DEF P
  <2> QED BY <2>2, <2>3
<1> QED BY <1>2, <1>6

LEMMA FlattenOneOf ==
    ASSUME NEW ss, IsSeq(ss), NEW T, NEW e, NEW m \in DOMAIN ss, Sole(ss[m], T, e),
           \A k \in DOMAIN ss : IsSeq(ss[k]) /\ (k # m => NoneIn(ss[k], T))
    PROVE  Sole(FlattenSeq(ss), T, e)
<1> DEFINE n == Len(ss)
<1>1. PICK U : ss \in Seq(Seq(U))
  BY SeqsIn
<1>2. PICK all : /\ all \in [0 .. n -> Seq(U)]
                 /\ all[0] = <<>>
                 /\ \A k \in 1 .. n : all[k] = all[k - 1] \o ss[k]
                 /\ FlattenSeq(ss) = all[n]
  BY <1>1, FlattenSteps
<1>3. n \in Nat /\ DOMAIN ss = 1 .. n
  BY IsSeqLen
<1> DEFINE P == {k \in 0 .. n : (k < m => NoneIn(all[k], T)) /\ (k >= m => Sole(all[k], T, e))}
<1> HIDE DEF n
<1>4. 0 \in P
  <2>1. NoneIn(<<>>, T)
    BY EmptyIsSeq DEF NoneIn
  <2> QED BY <1>2, <1>3, <2>1
<1>5. ASSUME NEW k \in P, k < n PROVE k + 1 \in P
  <2>1. k \in 0 .. n /\ k + 1 \in 1 .. n /\ k + 1 \in 0 .. n /\ (k + 1) - 1 = k
    BY <1>3, <1>5
  <2>2. all[k + 1] = all[k] \o ss[k + 1] /\ all[k] \in Seq(U)
    BY <1>2, <2>1
  <2>3. IsSeq(all[k]) /\ IsSeq(ss[k + 1]) /\ (k + 1 # m => NoneIn(ss[k + 1], T))
    BY <1>3, <2>1, <2>2, SeqIsSeq
  <2>4. (k < m => NoneIn(all[k], T)) /\ (k >= m => Sole(all[k], T, e))
    BY <1>5
  <2>5. CASE k + 1 = m
    <3>1. Sole(all[k + 1], T, e)
      BY <2>1, <2>2, <2>3, <2>4, <2>5, ConcatOneRight
    <3> QED BY <2>1, <2>5, <3>1
  <2>6. CASE k + 1 # m
    <3>1. (k + 1 < m => k < m) /\ (k + 1 >= m => k >= m)
      BY <2>1, <2>6, <1>3
    <3>2. k + 1 < m => NoneIn(all[k + 1], T)
      BY <3>1, <2>2, <2>3, <2>4, <2>6, ConcatNone
    <3>3. k + 1 >= m => Sole(all[k + 1], T, e)
      BY <3>1, <2>2, <2>3, <2>4, <2>6, ConcatOneLeft
    <3> QED BY <2>1, <3>2, <3>3
  <2> QED BY <2>5, <2>6
<1>6. n \in P
  <2>1. P \in SUBSET (0 .. n)
    OBVIOUS
  <2>2. P = 0 .. n
    <3> HIDE DEF P
    <3> QED BY <1>3, <1>4, <1>5, <2>1, UpToInduction
  <2>3. n \in 0 .. n
    BY <1>3
  <2> HIDE DEF P
  <2> QED BY <2>2, <2>3
<1>7. n >= m
  BY <1>3
<1> QED BY <1>2, <1>6, <1>7

\* A sequence of what a function F makes of the elements of another.
Mapped(t, s, F) == DOMAIN t = DOMAIN s /\ t = [k \in DOMAIN s |-> t[k]] /\ \A k \in DOMAIN s : t[k] = F[s[k]]

LEMMA MappedIsSeq ==
    ASSUME NEW s, IsSeq(s), NEW F, NEW t, Mapped(t, s, F)
    PROVE  IsSeq(t) /\ Len(t) = Len(s)
<1>1. Len(s) \in Nat /\ DOMAIN s = 1 .. Len(s)
  BY IsSeqLen
<1>2. DOMAIN t = 1 .. Len(s) /\ t = [k \in 1 .. Len(s) |-> t[k]]
  BY <1>1 DEF Mapped
<1> QED BY <1>1, <1>2, FunctionIsSeq

LEMMA MappedNone ==
    ASSUME NEW s, NEW F, NEW t, Mapped(t, s, F), NEW T, \A x \in ToSet(s) : F[x] \notin T
    PROVE  NoneIn(t, T)
<1>1. \A k \in DOMAIN s : s[k] \in ToSet(s)
  BY DEF ToSet
<1> QED BY <1>1 DEF NoneIn, Mapped

LEMMA MappedOne ==
    ASSUME NEW s, NEW F, NEW t, Mapped(t, s, F), NEW T, NEW A, NEW e, Sole(s, A, e), F[e] \in T,
           \A x \in ToSet(s) : F[x] \in T => x \in A
    PROVE  Sole(t, T, F[e])
<1>1. PICK m \in DOMAIN s : s[m] = e /\ e \in A /\ \A j \in DOMAIN s : s[j] \in A => j = m
  BY DEF Sole
<1>2. \A k \in DOMAIN s : s[k] \in ToSet(s)
  BY DEF ToSet
<1>3. m \in DOMAIN t /\ t[m] = F[e]
  BY <1>1 DEF Mapped
<1>4. \A j \in DOMAIN t : t[j] \in T => j = m
  BY <1>1, <1>2 DEF Mapped
<1> QED BY <1>3, <1>4 DEF Sole

KeyAt(s, K, g) == Firsts([k \in DOMAIN s |-> K[s[k]]])[g]

Keyed(ss, s, K, L, F, W) ==
    LET keys == Firsts([k \in DOMAIN s |-> K[s[k]]])
    IN  /\ DOMAIN ss = DOMAIN keys
        /\ ss = [g \in DOMAIN keys |-> ss[g]]
        /\ \A g \in DOMAIN keys :
              /\ Mapped(ss[g], W[g], F) /\ IsSeq(W[g])
              /\ \A x \in ToSet(W[g]) : x \in ToSet(s) /\ x \in L /\ K[x] = keys[g]

LEMMA KeysAre ==
    ASSUME NEW s, IsSeq(s), NEW K
    PROVE  LET keyOf == [k \in DOMAIN s |-> K[s[k]]] IN
           /\ IsSeq(Firsts(keyOf)) /\ Distinct(Firsts(keyOf))
           /\ ToSet(Firsts(keyOf)) = {K[r] : r \in ToSet(s)}
<1> DEFINE keyOf == [k \in DOMAIN s |-> K[s[k]]]
<1>1. Len(s) \in Nat /\ DOMAIN s = 1 .. Len(s)
  BY IsSeqLen
<1>2. DOMAIN keyOf = 1 .. Len(s) /\ keyOf = [k \in 1 .. Len(s) |-> keyOf[k]]
  BY <1>1
<1>3. ToSet(keyOf) = {K[r] : r \in ToSet(s)}
  BY DEF ToSet
<1> HIDE DEF keyOf
<1>4. IsSeq(keyOf)
  BY <1>1, <1>2, FunctionIsSeq
<1>5. IsSeq(Firsts(keyOf)) /\ Distinct(Firsts(keyOf)) /\ ToSet(Firsts(keyOf)) = ToSet(keyOf)
  BY <1>4, FirstsIs
<1> QED BY <1>3, <1>5 DEF keyOf

LEMMA KeyedIs ==
    ASSUME NEW s, IsSeq(s), NEW K, NEW L, NEW F, NEW W, NEW ss, Keyed(ss, s, K, L, F, W)
    PROVE  /\ IsSeq(ss) /\ \A g \in DOMAIN ss : IsSeq(ss[g])
           /\ IsSeq(FlattenSeq(ss))
<1> DEFINE keyOf == [k \in DOMAIN s |-> K[s[k]]]
           keys == Firsts(keyOf)
<1>1. IsSeq(keys)
  BY KeysAre
<1>2. /\ DOMAIN ss = DOMAIN keys /\ ss = [g \in DOMAIN keys |-> ss[g]]
      /\ \A g \in DOMAIN keys : Mapped(ss[g], W[g], F) /\ IsSeq(W[g])
  BY DEF Keyed
<1> HIDE DEF keyOf, keys
<1>3. Len(keys) \in Nat /\ DOMAIN keys = 1 .. Len(keys)
  BY <1>1, IsSeqLen
<1>4. IsSeq(ss)
  BY <1>2, <1>3, FunctionIsSeq
<1>5. \A g \in DOMAIN ss : IsSeq(ss[g])
  BY <1>2, MappedIsSeq
<1> QED BY <1>4, <1>5, FlattenIsSeq

\* Everything there comes from an element.
LEMMA KeyedFrom ==
    ASSUME NEW s, IsSeq(s), NEW K, NEW L, NEW F, NEW W, NEW ss, Keyed(ss, s, K, L, F, W),
           NEW n \in DOMAIN FlattenSeq(ss)
    PROVE  \E r \in ToSet(s) : r \in L /\ FlattenSeq(ss)[n] = F[r]
<1> DEFINE x == FlattenSeq(ss)[n]
<1>1. SUFFICES ASSUME \A r \in ToSet(s) : r \in L => F[r] # x PROVE FALSE
  OBVIOUS
<1>2. IsSeq(ss) /\ \A g \in DOMAIN ss : IsSeq(ss[g])
  BY KeyedIs
<1>3. \A g \in DOMAIN ss : /\ Mapped(ss[g], W[g], F)
                            /\ \A y \in ToSet(W[g]) : y \in ToSet(s) /\ y \in L
  BY DEF Keyed
<1>4. ASSUME NEW g \in DOMAIN ss PROVE NoneIn(ss[g], {x})
  <2>1. \A y \in ToSet(W[g]) : F[y] \notin {x}
    BY <1>1, <1>3
  <2> HIDE DEF x
  <2> QED BY <1>3, <2>1, MappedNone
<1>5. NoneIn(FlattenSeq(ss), {x})
  <2> HIDE DEF x
  <2> QED BY <1>2, <1>4, FlattenNone
<1> QED BY <1>5 DEF NoneIn

LEMMA KeyedOne ==
    ASSUME NEW s, IsSeq(s), NEW K, NEW L, NEW F, NEW W, NEW ss, Keyed(ss, s, K, L, F, W),
           NEW T, NEW e, e \in ToSet(s), F[e] \in T, NEW A,
           \A r \in ToSet(s) : r \in L /\ F[r] \in T => r \in A,
           \A r \in ToSet(s) : r \in A => r = e,
           \A g \in DOMAIN ss : KeyAt(s, K, g) = K[e] => Sole(W[g], A, e)
    PROVE  Sole(FlattenSeq(ss), T, F[e])
<1> DEFINE keyOf == [k \in DOMAIN s |-> K[s[k]]]
           keys == Firsts(keyOf)
<1>1. IsSeq(ss) /\ \A g \in DOMAIN ss : IsSeq(ss[g])
  BY KeyedIs
<1>2. /\ DOMAIN ss = DOMAIN keys
      /\ \A g \in DOMAIN keys :
            /\ Mapped(ss[g], W[g], F) /\ IsSeq(W[g])
            /\ \A x \in ToSet(W[g]) : x \in ToSet(s) /\ x \in L /\ K[x] = keys[g]
  BY DEF Keyed
<1>3. Distinct(keys) /\ ToSet(keys) = {K[r] : r \in ToSet(s)}
  BY KeysAre
<1>4. \A g \in DOMAIN ss : keys[g] = K[e] => Sole(W[g], A, e)
  BY DEF KeyAt
<1> HIDE DEF keyOf, keys
<1>6. PICK m \in DOMAIN keys : keys[m] = K[e]
  <2>1. K[e] \in ToSet(keys)
    BY <1>3
  <2> QED BY <2>1 DEF ToSet
<1>7. Sole(ss[m], T, F[e])
  <2>1. Mapped(ss[m], W[m], F) /\ Sole(W[m], A, e)
    BY <1>2, <1>4, <1>6
  <2>2. \A x \in ToSet(W[m]) : F[x] \in T => x \in A
    BY <1>2
  <2> QED BY <2>1, <2>2, MappedOne
<1>8. ASSUME NEW g \in DOMAIN ss, g # m PROVE NoneIn(ss[g], T)
  <2>1. Mapped(ss[g], W[g], F)
    BY <1>2
  <2>2. keys[g] # K[e]
    BY <1>2, <1>3, <1>6, <1>8 DEF Distinct
  <2>3. \A x \in ToSet(W[g]) : F[x] \notin T
    BY <2>2, <1>2
  <2> QED BY <2>1, <2>3, MappedNone
<1>9. m \in DOMAIN ss
  BY <1>2, <1>6
<1> QED BY <1>1, <1>7, <1>8, <1>9, FlattenOneOf

\* A sequence with one element in a set of others.
LEMMA ConcatToSet ==
    ASSUME NEW s, IsSeq(s), NEW t, IsSeq(t)
    PROVE  ToSet(s \o t) = ToSet(s) \cup ToSet(t)
<1>1. /\ IsSeq(s \o t) /\ Len(s \o t) = Len(s) + Len(t)
      /\ \A k \in 1 .. Len(s) + Len(t) : (s \o t)[k] = IF k <= Len(s) THEN s[k] ELSE t[k - Len(s)]
  BY ConcatIsSeq
<1>2. /\ Len(s) \in Nat /\ DOMAIN s = 1 .. Len(s) /\ Len(t) \in Nat /\ DOMAIN t = 1 .. Len(t)
      /\ DOMAIN (s \o t) = 1 .. Len(s) + Len(t)
  BY <1>1, IsSeqLen
<1> DEFINE u == s \o t
<1>3. ASSUME NEW k \in DOMAIN s PROVE s[k] \in ToSet(u)
  <2>1. k \in DOMAIN u /\ u[k] = s[k]
    BY <1>1, <1>2
  <2> QED BY <2>1 DEF ToSet
<1>4. ASSUME NEW k \in DOMAIN t PROVE t[k] \in ToSet(u)
  <2>1. Len(s) + k \in DOMAIN u /\ ~(Len(s) + k <= Len(s)) /\ (Len(s) + k) - Len(s) = k
    BY <1>2
  <2>2. u[Len(s) + k] = t[k]
    BY <2>1, <1>1, <1>2
  <2> QED BY <2>1, <2>2 DEF ToSet
<1>5. ASSUME NEW k \in DOMAIN u PROVE u[k] \in ToSet(s) \cup ToSet(t)
  <2>1. CASE k <= Len(s)
    BY <2>1, <1>1, <1>2 DEF ToSet
  <2>2. CASE ~(k <= Len(s))
    <3>1. k - Len(s) \in DOMAIN t
      BY <2>2, <1>2
    <3> QED BY <3>1, <2>2, <1>1, <1>2 DEF ToSet
  <2> QED BY <2>1, <2>2
<1> HIDE DEF u
<1>6. ToSet(u) = ToSet(s) \cup ToSet(t)
  BY <1>3, <1>4, <1>5 DEF ToSet
<1> QED BY <1>6 DEF u

\* What is in a part is in the whole.
LEMMA FlattenHas ==
    ASSUME NEW ss, IsSeq(ss), \A k \in DOMAIN ss : IsSeq(ss[k]), NEW m \in DOMAIN ss, NEW x \in ToSet(ss[m])
    PROVE  x \in ToSet(FlattenSeq(ss))
<1> DEFINE n == Len(ss)
<1>1. PICK U : ss \in Seq(Seq(U))
  BY SeqsIn
<1>2. PICK all : /\ all \in [0 .. n -> Seq(U)]
                 /\ all[0] = <<>>
                 /\ \A k \in 1 .. n : all[k] = all[k - 1] \o ss[k]
                 /\ FlattenSeq(ss) = all[n]
  BY <1>1, FlattenSteps
<1>3. n \in Nat /\ DOMAIN ss = 1 .. n
  BY IsSeqLen
<1> DEFINE P == {k \in 0 .. n : k >= m => x \in ToSet(all[k])}
<1> HIDE DEF n
<1>4. 0 \in P
  BY <1>3
<1>5. ASSUME NEW k \in P, k < n PROVE k + 1 \in P
  <2>1. k \in 0 .. n /\ k + 1 \in 1 .. n /\ k + 1 \in 0 .. n /\ (k + 1) - 1 = k
    BY <1>3, <1>5
  <2>2. all[k + 1] = all[k] \o ss[k + 1] /\ all[k] \in Seq(U)
    BY <1>2, <2>1
  <2>3. IsSeq(all[k]) /\ IsSeq(ss[k + 1])
    BY <1>3, <2>1, <2>2, SeqIsSeq
  <2>4. ToSet(all[k + 1]) = ToSet(all[k]) \cup ToSet(ss[k + 1])
    BY <2>2, <2>3, ConcatToSet
  <2>5. k + 1 >= m => k + 1 = m \/ k >= m
    BY <2>1, <1>3
  <2> QED BY <1>5, <2>1, <2>4, <2>5
<1>6. P = 0 .. n
  <2>1. P \in SUBSET (0 .. n)
    OBVIOUS
  <2> HIDE DEF P
  <2> QED BY <1>3, <1>4, <1>5, <2>1, UpToInduction
<1>7. n \in P /\ n >= m
  BY <1>3, <1>6
<1> QED BY <1>2, <1>7

\* The same where nothing more is made of them.
LEMMA MappedSelf ==
    ASSUME NEW s, IsSeq(s), NEW S, ToSet(s) \subseteq S
    PROVE  Mapped(s, s, [x \in S |-> x])
<1>1. s = [k \in DOMAIN s |-> s[k]]
  <2>1. s \in [1 .. Len(s) -> ToSet(s)]
    BY ElementOfSeq, LenProperties DEF IsSeq
  <2> QED BY <2>1
<1>2. \A k \in DOMAIN s : s[k] \in S
  BY DEF ToSet
<1> QED BY <1>1, <1>2 DEF Mapped

LEMMA ConcatMapped ==
    ASSUME NEW s, IsSeq(s), NEW t, IsSeq(t), NEW F, NEW fs, Mapped(fs, s, F), NEW ft, Mapped(ft, t, F)
    PROVE  Mapped(fs \o ft, s \o t, F)
<1>1. IsSeq(fs) /\ Len(fs) = Len(s) /\ IsSeq(ft) /\ Len(ft) = Len(t)
  BY MappedIsSeq
<1>2. /\ IsSeq(s \o t) /\ Len(s \o t) = Len(s) + Len(t)
      /\ \A k \in 1 .. Len(s) + Len(t) : (s \o t)[k] = IF k <= Len(s) THEN s[k] ELSE t[k - Len(s)]
  BY ConcatIsSeq
<1>3. /\ IsSeq(fs \o ft) /\ Len(fs \o ft) = Len(s) + Len(t)
      /\ \A k \in 1 .. Len(s) + Len(t) : (fs \o ft)[k] = IF k <= Len(s) THEN fs[k] ELSE ft[k - Len(s)]
  <2>1. /\ IsSeq(fs \o ft) /\ Len(fs \o ft) = Len(fs) + Len(ft)
        /\ \A k \in 1 .. Len(fs) + Len(ft) : (fs \o ft)[k] = IF k <= Len(fs) THEN fs[k] ELSE ft[k - Len(fs)]
    BY <1>1, ConcatIsSeq
  <2> QED BY <1>1, <2>1
<1>4. /\ Len(s) \in Nat /\ DOMAIN s = 1 .. Len(s) /\ Len(t) \in Nat /\ DOMAIN t = 1 .. Len(t)
      /\ DOMAIN (s \o t) = 1 .. Len(s) + Len(t) /\ DOMAIN (fs \o ft) = 1 .. Len(s) + Len(t)
  BY <1>2, <1>3, IsSeqLen
<1> DEFINE u == s \o t
           fu == fs \o ft
<1>5. fu = [k \in DOMAIN u |-> fu[k]]
  <2>1. fu \in Seq(ToSet(fu))
    BY <1>3 DEF IsSeq
  <2>2. DOMAIN fu = DOMAIN u
    BY <1>4
  <2> HIDE DEF fu, u
  <2>3. fu \in [1 .. Len(fu) -> ToSet(fu)]
    BY <2>1, ElementOfSeq, LenProperties
  <2> QED BY <2>2, <2>3
<1>6. ASSUME NEW k \in DOMAIN u PROVE fu[k] = F[u[k]]
  <2>1. CASE k <= Len(s)
    <3>1. k \in DOMAIN s
      BY <2>1, <1>4
    <3> QED BY <3>1, <2>1, <1>2, <1>3, <1>4 DEF Mapped
  <2>2. CASE ~(k <= Len(s))
    <3>1. k - Len(s) \in DOMAIN t
      BY <2>2, <1>4
    <3>2. fu[k] = ft[k - Len(s)] /\ u[k] = t[k - Len(s)]
      BY <2>2, <1>2, <1>3, <1>4
    <3> QED BY <3>1, <3>2 DEF Mapped
  <2> QED BY <2>1, <2>2
<1>7. DOMAIN fu = DOMAIN u
  BY <1>4
<1> HIDE DEF fu, u
<1>8. Mapped(fu, u, F)
  BY <1>5, <1>6, <1>7 DEF Mapped
<1> QED BY <1>8 DEF fu, u

FirstOf(I) == IF I # {} THEN Min(I) ELSE 0

LEMMA FirstOfIs ==
    ASSUME NEW n \in Nat, NEW I \in SUBSET (1 .. n)
    PROVE  IF I = {} THEN FirstOf(I) = 0 ELSE FirstOf(I) \in I
<1>1. I # {} => Min(I) \in I
  <2>1. I \in SUBSET Nat
    OBVIOUS
  <2> QED BY <2>1, MinIs
<1> QED BY <1>1 DEF FirstOf

LEMMA ConcatElements ==
    ASSUME NEW s, IsSeq(s), NEW t, IsSeq(t)
    PROVE  /\ IsSeq(s \o t) /\ ToSet(s \o t) = ToSet(s) \cup ToSet(t)
           /\ \A k \in DOMAIN s : k \in DOMAIN (s \o t) /\ (s \o t)[k] = s[k]
           /\ \A k \in DOMAIN (s \o t) :
                 \/ k \in DOMAIN s /\ (s \o t)[k] = s[k]
                 \/ k - Len(s) \in DOMAIN t /\ (s \o t)[k] = t[k - Len(s)]
<1>1. /\ IsSeq(s \o t) /\ Len(s \o t) = Len(s) + Len(t)
      /\ \A k \in 1 .. Len(s) + Len(t) : (s \o t)[k] = IF k <= Len(s) THEN s[k] ELSE t[k - Len(s)]
  BY ConcatIsSeq
<1>2. /\ Len(s) \in Nat /\ DOMAIN s = 1 .. Len(s) /\ Len(t) \in Nat /\ DOMAIN t = 1 .. Len(t)
      /\ DOMAIN (s \o t) = 1 .. Len(s) + Len(t)
  BY <1>1, IsSeqLen
<1>3. ASSUME NEW k \in DOMAIN s PROVE k \in DOMAIN (s \o t) /\ (s \o t)[k] = s[k]
  BY <1>1, <1>2
<1>4. ASSUME NEW k \in DOMAIN (s \o t)
      PROVE  \/ k \in DOMAIN s /\ (s \o t)[k] = s[k]
             \/ k - Len(s) \in DOMAIN t /\ (s \o t)[k] = t[k - Len(s)]
  BY <1>1, <1>2
<1> QED BY <1>1, <1>3, <1>4, ConcatToSet

\* The elements differ in what K says of them.
Apart(s, K) == \A a, b \in DOMAIN s : K[s[a]] = K[s[b]] => a = b

LEMMA ConcatApart ==
    ASSUME NEW s, IsSeq(s), NEW t, IsSeq(t), NEW K, Apart(s, K), Apart(t, K),
           \A a \in ToSet(s), b \in ToSet(t) : K[a] # K[b]
    PROVE  Apart(s \o t, K)
<1> DEFINE u == s \o t
<1>1. \A k \in DOMAIN u : \/ k \in DOMAIN s /\ u[k] = s[k] /\ u[k] \in ToSet(s)
                          \/ k - Len(s) \in DOMAIN t /\ u[k] = t[k - Len(s)] /\ u[k] \in ToSet(t)
  BY ConcatElements DEF ToSet
<1>2. \A k \in DOMAIN u : k \in Int
  <2>1. IsSeq(u)
    BY ConcatElements
  <2> QED BY <2>1, IsSeqLen
<1>3. Len(s) \in Int
  BY IsSeqLen
<1> HIDE DEF u
<1>4. ASSUME NEW a \in DOMAIN u, NEW b \in DOMAIN u, K[u[a]] = K[u[b]] PROVE a = b
  <2>1. CASE a \in DOMAIN s /\ u[a] = s[a] /\ u[a] \in ToSet(s)
    <3>1. b \in DOMAIN s /\ u[b] = s[b]
      BY <1>1, <1>4, <2>1
    <3> QED BY <1>4, <2>1, <3>1 DEF Apart
  <2>2. CASE a - Len(s) \in DOMAIN t /\ u[a] = t[a - Len(s)] /\ u[a] \in ToSet(t)
    <3>1. b - Len(s) \in DOMAIN t /\ u[b] = t[b - Len(s)]
      BY <1>1, <1>4, <2>2
    <3>2. a - Len(s) = b - Len(s)
      BY <1>4, <2>2, <3>1 DEF Apart
    <3> QED BY <1>2, <1>3, <3>2
  <2> QED BY <1>1, <2>1, <2>2
<1>5. Apart(u, K)
  BY <1>4 DEF Apart
<1> QED BY <1>5 DEF u

LEMMA ConcatDistinct ==
    ASSUME NEW s, IsSeq(s), Distinct(s), NEW t, IsSeq(t), Distinct(t), ToSet(s) \cap ToSet(t) = {}
    PROVE  Distinct(s \o t)
<1> SUFFICES ASSUME NEW a \in DOMAIN (s \o t), NEW b \in DOMAIN (s \o t), (s \o t)[a] = (s \o t)[b] PROVE a = b
  BY DEF Distinct
<1>0. \A k \in DOMAIN (s \o t) :
          \/ k \in DOMAIN s /\ (s \o t)[k] = s[k]
          \/ k - Len(s) \in DOMAIN t /\ (s \o t)[k] = t[k - Len(s)]
  BY ConcatElements
<1>1. /\ (a \in DOMAIN s /\ (s \o t)[a] = s[a]) \/ (a - Len(s) \in DOMAIN t /\ (s \o t)[a] = t[a - Len(s)])
      /\ (b \in DOMAIN s /\ (s \o t)[b] = s[b]) \/ (b - Len(s) \in DOMAIN t /\ (s \o t)[b] = t[b - Len(s)])
  BY <1>0
<1>2. \A j \in DOMAIN s, k \in DOMAIN t : s[j] # t[k]
  BY DEF ToSet
<1>3. a \in Int /\ b \in Int /\ Len(s) \in Int
  BY ConcatElements, IsSeqLen
<1>4. CASE a \in DOMAIN s /\ b \in DOMAIN s /\ s[a] = s[b]
  BY <1>4 DEF Distinct
<1>5. CASE a - Len(s) \in DOMAIN t /\ b - Len(s) \in DOMAIN t /\ t[a - Len(s)] = t[b - Len(s)]
  <2>1. a - Len(s) = b - Len(s)
    BY <1>5 DEF Distinct
  <2> QED BY <1>3, <2>1
<1> QED BY <1>1, <1>2, <1>4, <1>5

LEMMA FirstsAppend ==
    ASSUME NEW w, IsSeq(w), NEW e
    PROVE  Firsts(Append(w, e)) = IF Contains(Firsts(w), e) THEN Firsts(w) ELSE Append(Firsts(w), e)
<1> DEFINE t == Append(w, e)
           n == Len(w)
<1>1. n \in Nat /\ IsSeq(t) /\ Len(t) = n + 1 /\ (\A k \in 1 .. n : t[k] = w[k]) /\ t[n + 1] = e
  BY AppendIsSeq, IsSeqLen
<1> HIDE DEF t, n
<1>2. PICK f : /\ f[0] = <<>>
               /\ \A k \in 1 .. n : f[k] = IF Contains(f[k - 1], w[k]) THEN f[k - 1] ELSE Append(f[k - 1], w[k])
               /\ Firsts(w) = f[n]
  BY FirstsSteps DEF n
<1>3. PICK g : /\ g[0] = <<>>
               /\ \A k \in 1 .. n + 1 : g[k] = IF Contains(g[k - 1], t[k]) THEN g[k - 1] ELSE Append(g[k - 1], t[k])
               /\ Firsts(t) = g[n + 1]
  BY <1>1, FirstsSteps
<1> DEFINE T == {k \in 0 .. n : f[k] = g[k]}
<1>4. 0 \in T
  BY <1>1, <1>2, <1>3
<1>5. ASSUME NEW k \in T, k < n PROVE k + 1 \in T
  <2>1. k + 1 \in 1 .. n /\ k + 1 \in 1 .. n + 1 /\ k + 1 - 1 = k /\ f[k] = g[k] /\ t[k + 1] = w[k + 1]
    BY <1>1, <1>5
  <2> QED BY <2>1, <1>2, <1>3
<1>6. T = 0 .. n
  <2> HIDE DEF T
  <2>1. T \in SUBSET (0 .. n)
    BY DEF T
  <2> QED BY <1>1, <1>4, <1>5, <2>1, UpToInduction
<1>7. f[n] = g[n]
  BY <1>1, <1>6
<1>8. n + 1 \in 1 .. n + 1 /\ n + 1 - 1 = n
  BY <1>1
<1>9. g[n + 1] = IF Contains(g[n], e) THEN g[n] ELSE Append(g[n], e)
  BY <1>1, <1>3, <1>8
<1> QED BY <1>2, <1>3, <1>7, <1>9 DEF t

\* The places where an element of T occurs first.
FirstIn(s, T) == {m \in DOMAIN s : s[m] \in T /\ \A j \in 1 .. m - 1 : s[j] # s[m]}

PlaceAmong(I, m) == Cardinality({j \in I : j < m}) + 1

\* Firsts of Where has them in their order: each behind those before it.
LEMMA FirstsPlaces ==
    ASSUME NEW s, IsSeq(s), NEW T, NEW I, I = FirstIn(s, T), NEW F, F = Firsts(Where(s, T))
    PROVE  /\ Len(F) = Cardinality(I)
           /\ \A m \in I : PlaceAmong(I, m) \in 1 .. Len(F) /\ F[PlaceAmong(I, m)] = s[m]
<1> DEFINE n == Len(s)
<1>1. n \in Nat /\ DOMAIN s = 1 .. n
  BY IsSeqLen
<1>2. I \subseteq 1 .. n /\ \A m \in 1 .. n : m \in I <=> s[m] \in T /\ \A j \in 1 .. m - 1 : s[j] # s[m]
  BY <1>1 DEF FirstIn
<1> HIDE DEF n
<1>3. PICK taken : /\ taken[0] = <<>>
                   /\ \A k \in 1 .. n : taken[k] = IF s[k] \in T THEN Append(taken[k - 1], s[k]) ELSE taken[k - 1]
                   /\ Where(s, T) = taken[n]
  BY WhereSteps DEF n
<1> DEFINE Upto(k) == {j \in I : j <= k}
           Below(m) == {j \in I : j < m}
           P(k, G) == /\ Len(G) = Cardinality(Upto(k))
                      /\ \A x : Contains(G, x) <=> x \in T /\ \E j \in 1 .. k : s[j] = x
                      /\ \A m \in Upto(k) : Cardinality(Below(m)) + 1 \in 1 .. Len(G) /\ G[Cardinality(Below(m)) + 1] = s[m]
           C == {k \in 0 .. n : IsSeq(taken[k]) /\ P(k, Firsts(taken[k]))}
<1>4. \A k \in 0 .. n : IsFiniteSet(Upto(k)) /\ Cardinality(Upto(k)) \in Nat
  <2>1. IsFiniteSet(1 .. n)
    BY <1>1, FS_Interval
  <2>2. ASSUME NEW k \in 0 .. n PROVE IsFiniteSet(Upto(k)) /\ Cardinality(Upto(k)) \in Nat
    <3>1. Upto(k) \in SUBSET (1 .. n)
      BY <1>2
    <3> HIDE DEF Upto
    <3> QED BY <2>1, <3>1, FS_Subset, FS_CardinalityType
  <2> QED BY <2>2
<1>5. 0 \in C
  <2>1. Firsts(<<>>) = <<>>
    <3>1. PICK f : f[0] = <<>> /\ Firsts(<<>>) = f[Len(<<>>)]
      BY EmptyIsSeq, FirstsSteps
    <3> QED BY <3>1, EmptyIsSeq
  <2>2. Upto(0) = {}
    BY <1>1, <1>2
  <2>3. Cardinality({}) = 0
    BY FS_EmptySet
  <2>4. \A x : ~Contains(<<>>, x)
    BY EmptyIsSeq DEF Contains
  <2>5. P(0, <<>>)
    <3>1. ~ \E j \in 1 .. 0 : TRUE
      OBVIOUS
    <3>2. Len(<<>>) = Cardinality(Upto(0)) /\ ~ \E m \in Upto(0) : TRUE
      <4> HIDE DEF Upto, Below
      <4> QED BY <2>2, <2>3, EmptyIsSeq
    <3>3. \A x : Contains(<<>>, x) <=> x \in T /\ \E j \in 1 .. 0 : s[j] = x
      BY <2>4, <3>1
    <3> HIDE DEF Upto, Below
    <3> QED BY <3>2, <3>3
  <2> HIDE DEF P
  <2> QED BY <1>1, <1>3, <2>1, <2>5, EmptyIsSeq
<1>6. ASSUME NEW k \in C, k < n PROVE k + 1 \in C
  <2> DEFINE q == k + 1
             t == taken[k]
             G == Firsts(t)
             e == s[q]
  <2>1. /\ k \in 0 .. n /\ q \in 1 .. n /\ q \in 0 .. n /\ q - 1 = k /\ IsSeq(t) /\ P(k, G)
        /\ taken[q] = IF e \in T THEN Append(t, e) ELSE t
    <3> HIDE DEF P
    <3> QED BY <1>1, <1>3, <1>6
  <2>2. IsSeq(G) /\ Len(G) \in Nat /\ DOMAIN G = 1 .. Len(G)
    BY <2>1, FirstsIs, IsSeqLen
  <2>3. \A m \in 1 .. n : m \in Upto(q) <=> m \in Upto(k) \/ (m = q /\ q \in I)
    BY <1>2, <2>1
  <2>4. \A j \in 1 .. n : j \in 1 .. q <=> j \in 1 .. k \/ j = q
    BY <2>1
  <2>5. Upto(q) \subseteq 1 .. n /\ Upto(k) \subseteq 1 .. n /\ q \notin Upto(k)
    BY <1>2, <2>1
  <2>6. q \in I <=> e \in T /\ \A j \in 1 .. k : s[j] # e
    BY <1>2, <2>1
  <2>7. Below(q) = Upto(k)
    BY <1>2, <2>1
  <2>8. 1 .. k \subseteq 1 .. n /\ 1 .. q \subseteq 1 .. n
    <3>1. k \in 0 .. n /\ q \in 1 .. n
      BY <2>1
    <3> HIDE DEF q
    <3> QED BY <1>1, <3>1
  <2> HIDE DEF G, t, e, q
  <2>9. CASE q \in I
    <3>1. e \in T /\ ~Contains(G, e)
      <4>1. e \in T /\ \A j \in 1 .. k : s[j] # e
        BY <2>6, <2>9
      <4> QED BY <2>1, <4>1
    <3>2. IsSeq(taken[q]) /\ Firsts(taken[q]) = Append(G, e)
      <4>1. IsSeq(t) /\ taken[q] = Append(t, e)
        BY <2>1, <3>1
      <4> QED BY <3>1, <4>1, AppendIsSeq, FirstsAppend DEF G
    <3>3. /\ Len(Append(G, e)) = Len(G) + 1 /\ (\A j \in 1 .. Len(G) : Append(G, e)[j] = G[j])
          /\ Append(G, e)[Len(G) + 1] = e
      BY <2>2, AppendIsSeq
    <3>4. Upto(q) = Upto(k) \cup {q}
      <4> HIDE DEF Upto
      <4> QED BY <2>1, <2>3, <2>5, <2>9
    <3>5. Cardinality(Upto(q)) = Cardinality(Upto(k)) + 1
      <4>1. IsFiniteSet(Upto(k)) /\ q \notin Upto(k)
        BY <1>4, <2>1, <2>5
      <4> HIDE DEF Upto
      <4> QED BY <3>4, <4>1, FS_AddElement
    <3> DEFINE H == Append(G, e)
    <3> HIDE DEF H
    <3>6. \A x : Contains(H, x) <=> Contains(G, x) \/ x = e
      <4>1. \A j \in 1 .. Len(H) : j \in 1 .. Len(G) \/ j = Len(G) + 1
        BY <2>2, <3>3 DEF H
      <4>2. \A j \in 1 .. Len(G) : j \in 1 .. Len(H) /\ H[j] = G[j]
        BY <2>2, <3>3 DEF H
      <4>3. Len(G) + 1 \in 1 .. Len(H) /\ H[Len(G) + 1] = e
        BY <2>2, <3>3 DEF H
      <4> QED BY <4>1, <4>2, <4>3 DEF Contains
    <3>7. \A x : Contains(H, x) <=> x \in T /\ \E j \in 1 .. q : s[j] = x
      <4>1. \A x : Contains(G, x) <=> x \in T /\ \E j \in 1 .. k : s[j] = x
        BY <2>1
      <4>2. \A x : (\E j \in 1 .. q : s[j] = x) <=> (\E j \in 1 .. k : s[j] = x) \/ x = e
        BY <2>1, <2>4, <2>8 DEF e
      <4> QED BY <3>1, <3>6, <4>1, <4>2
    <3>8. ASSUME NEW m \in Upto(q) PROVE Cardinality(Below(m)) + 1 \in 1 .. Len(H) /\ H[Cardinality(Below(m)) + 1] = s[m]
      <4>1. CASE m \in Upto(k)
        <5>1. Cardinality(Below(m)) + 1 \in 1 .. Len(G) /\ G[Cardinality(Below(m)) + 1] = s[m]
          BY <2>1, <4>1
        <5>2. Len(H) = Len(G) + 1 /\ H[Cardinality(Below(m)) + 1] = G[Cardinality(Below(m)) + 1]
          BY <3>3, <5>1 DEF H
        <5> QED BY <2>2, <5>1, <5>2
      <4>2. CASE m = q
        <5>1. Cardinality(Below(m)) = Len(G)
          BY <2>1, <2>7, <4>2
        <5> QED BY <2>2, <3>3, <4>2, <5>1 DEF H, e
      <4> QED BY <3>4, <4>1, <4>2
    <3>9. Len(H) = Cardinality(Upto(q))
      <4>1. Len(G) = Cardinality(Upto(k))
        BY <2>1
      <4> QED BY <3>3, <3>5, <4>1 DEF H
    <3>10. P(q, H)
      BY <3>7, <3>8, <3>9
    <3> HIDE DEF P
    <3> QED BY <2>1, <3>2, <3>10 DEF H, q
  <2>10. CASE q \notin I
    <3>1. Upto(q) = Upto(k)
      <4> HIDE DEF Upto
      <4> QED BY <2>3, <2>5, <2>10
    <3>2. \A x : Contains(G, x) <=> x \in T /\ \E j \in 1 .. k : s[j] = x
      BY <2>1
    <3>3. \A x : Contains(G, x) <=> x \in T /\ \E j \in 1 .. q : s[j] = x
      <4>1. \A x : (\E j \in 1 .. q : s[j] = x) <=> (\E j \in 1 .. k : s[j] = x) \/ x = e
        BY <2>1, <2>4, <2>8 DEF e
      <4> QED BY <2>6, <2>10, <3>2, <4>1
    <3>4. P(q, G)
      <4>1. Len(G) = Cardinality(Upto(q))
        <5> HIDE DEF Upto, Below
        <5> QED BY <2>1, <3>1
      <4>2. \A m \in Upto(q) : Cardinality(Below(m)) + 1 \in 1 .. Len(G) /\ G[Cardinality(Below(m)) + 1] = s[m]
        <5> HIDE DEF Upto, Below
        <5> QED BY <2>1, <3>1
      <4> QED BY <3>3, <4>1, <4>2
    <3>5. IsSeq(taken[q]) /\ Firsts(taken[q]) = G
      <4>1. CASE e \in T
        <5>1. Contains(G, e)
          BY <2>6, <2>10, <3>2, <4>1
        <5> QED BY <2>1, <4>1, <5>1, AppendIsSeq, FirstsAppend DEF G
      <4>2. CASE e \notin T
        BY <2>1, <4>2 DEF G
      <4> QED BY <4>1, <4>2
    <3> HIDE DEF P
    <3> QED BY <2>1, <3>4, <3>5 DEF q
  <2> QED BY <2>9, <2>10
<1>7. C = 0 .. n
  <2>1. C \in SUBSET (0 .. n)
    OBVIOUS
  <2> HIDE DEF C
  <2> QED BY <1>1, <1>5, <1>6, <2>1, UpToInduction
<1>8. P(n, F)
  <2>1. n \in C
    <3> HIDE DEF C
    <3> QED BY <1>1, <1>7
  <2> HIDE DEF P
  <2> QED BY <1>3, <2>1
<1>9. Upto(n) = I
  BY <1>1, <1>2
<1> QED BY <1>8, <1>9 DEF PlaceAmong

\* Nothing is dropped where nothing is repeated.
LEMMA FirstsSame ==
    ASSUME NEW s, IsSeq(s), Distinct(s)
    PROVE  Firsts(s) = s
<1> DEFINE n == Len(s)
<1>1. n \in Nat /\ DOMAIN s = 1 .. n
  BY IsSeqLen
<1>2. PICK firsts :
        /\ firsts[0] = <<>>
        /\ \A k \in 1 .. n : firsts[k] = IF Contains(firsts[k - 1], s[k]) THEN firsts[k - 1] ELSE Append(firsts[k - 1], s[k])
        /\ Firsts(s) = firsts[n]
  BY FirstsSteps
<1> HIDE DEF n
<1> DEFINE Prefix(k) == IsSeq(firsts[k]) /\ Len(firsts[k]) = k /\ \A j \in 1 .. k : firsts[k][j] = s[j]
           T == {k \in 0 .. n : Prefix(k)}
<1>3. 0 \in T
  <2>1. Prefix(0)
    BY <1>2, EmptyIsSeq
  <2> QED BY <1>1, <2>1
<1>4. ASSUME NEW k \in T, k < n PROVE k + 1 \in T
  <2>1. k \in 0 .. n /\ IsSeq(firsts[k]) /\ Len(firsts[k]) = k /\ \A j \in 1 .. k : firsts[k][j] = s[j]
    OBVIOUS
  <2>2. PICK t, u : t = firsts[k] /\ u = firsts[k + 1]
    OBVIOUS
  <2>3. k + 1 \in 1 .. n /\ (k + 1) - 1 = k
    BY <1>1, <1>4, <2>1
  <2>4. DOMAIN t = 1 .. k
    BY <2>1, <2>2, IsSeqLen
  <2>5. ~Contains(t, s[k + 1])
    <3>1. ASSUME NEW j \in 1 .. k PROVE t[j] # s[k + 1]
      BY <1>1, <2>1, <2>2, <2>3 DEF Distinct
    <3> QED BY <2>1, <2>2, <3>1 DEF Contains
  <2>6. u = Append(t, s[k + 1])
    BY <1>2, <2>2, <2>3, <2>5
  <2>7. /\ IsSeq(u) /\ Len(u) = k + 1
        /\ \A j \in 1 .. k : u[j] = t[j]
        /\ u[k + 1] = s[k + 1]
    BY <2>1, <2>2, <2>6, AppendIsSeq
  <2>8. \A j \in 1 .. k + 1 : u[j] = s[j]
    <3>1. \A j \in 1 .. k + 1 : j \in 1 .. k \/ j = k + 1
      BY <2>1
    <3> QED BY <2>1, <2>2, <2>7, <3>1
  <2>9. Prefix(k + 1)
    BY <2>2, <2>7, <2>8
  <2>10. k + 1 \in 0 .. n
    BY <2>3
  <2> QED BY <2>9, <2>10
<1>5. T = 0 .. n
  <2>1. T \in SUBSET (0 .. n)
    OBVIOUS
  <2> HIDE DEF T
  <2> QED BY <1>1, <1>3, <1>4, <2>1, UpToInduction
<1>6. Prefix(n)
  <2>1. n \in T
    BY <1>1, <1>5
  <2> QED BY <2>1
<1>7. PICK f : f = firsts[n]
  OBVIOUS
<1>8. IsSeq(f) /\ Len(f) = n /\ \A j \in 1 .. n : f[j] = s[j]
  BY <1>6, <1>7
<1>9. s = f
  <2>1. DOMAIN f = 1 .. n /\ DOMAIN s = 1 .. n
    BY <1>1, <1>8, IsSeqLen
  <2>2. f = [j \in 1 .. n |-> f[j]] /\ s = [j \in 1 .. n |-> s[j]]
    BY <1>8, <2>1 DEF IsSeq
  <2> QED BY <1>8, <2>2
<1> QED BY <1>2, <1>7, <1>9

LEMMA SameSize ==
    ASSUME NEW A, NEW B, IsFiniteSet(A), NEW o,
           \A a \in A : o[a] \in B, \A b \in B : \E a \in A : o[a] = b,
           \A a, c \in A : o[a] = o[c] => a = c
    PROVE  Cardinality(B) = Cardinality(A)
<1> DEFINE g == [a \in A |-> o[a]]
<1>1. g \in Bijection(A, B)
  BY DEF Bijection, Injection, Surjection, IsInjective
<1>2. ExistsBijection(A, B)
  BY <1>1 DEF ExistsBijection
<1> QED BY <1>2, FS_Bijection

\* Where has as many elements as there are places with them.
LEMMA WhereSize ==
    ASSUME NEW s, IsSeq(s), NEW T
    PROVE  Len(Where(s, T)) = Cardinality({j \in DOMAIN s : s[j] \in T})
<1> DEFINE n == Len(s)
           At0(k) == {j \in 1 .. k : s[j] \in T}
<1>1. n \in Nat /\ DOMAIN s = 1 .. n
  BY IsSeqLen
<1> HIDE DEF n
<1>2. PICK taken : /\ taken[0] = <<>>
                   /\ \A k \in 1 .. n : taken[k] = IF s[k] \in T THEN Append(taken[k - 1], s[k]) ELSE taken[k - 1]
                   /\ Where(s, T) = taken[n]
  BY WhereSteps DEF n
<1> DEFINE C == {k \in 0 .. n : IsSeq(taken[k]) /\ Len(taken[k]) = Cardinality(At0(k))}
<1>3. 0 \in C
  <2>1. At0(0) = {}
    OBVIOUS
  <2>2. Cardinality({}) = 0
    BY FS_EmptySet
  <2>3. 0 \in 0 .. n /\ taken[0] = <<>> /\ IsSeq(taken[0]) /\ Len(taken[0]) = 0
    BY <1>1, <1>2, EmptyIsSeq
  <2>4. Len(taken[0]) = Cardinality(At0(0))
    <3> HIDE DEF At0
    <3> QED BY <2>1, <2>2, <2>3
  <2> HIDE DEF At0
  <2> QED BY <2>3, <2>4
<1>4. ASSUME NEW k \in C, k < n PROVE k + 1 \in C
  <2>1. /\ k \in 0 .. n /\ k + 1 \in 1 .. n /\ k + 1 \in 0 .. n /\ k + 1 - 1 = k /\ IsSeq(taken[k])
        /\ Len(taken[k]) = Cardinality(At0(k))
    BY <1>1, <1>4
  <2>2. IsFiniteSet(At0(k)) /\ k + 1 \notin At0(k)
    <3>1. IsFiniteSet(1 .. k) /\ At0(k) \in SUBSET (1 .. k)
      BY <2>1, FS_Interval
    <3>2. k + 1 \notin At0(k)
      BY <2>1
    <3> HIDE DEF At0
    <3> QED BY <3>1, <3>2, FS_Subset
  <2>3. CASE s[k + 1] \in T
    <3>1. taken[k + 1] = Append(taken[k], s[k + 1])
      <4>1. PICK m \in 1 .. n : m = k + 1
        BY <2>1
      <4>2. taken[m] = Append(taken[m - 1], s[m])
        BY <1>2, <2>3, <4>1
      <4> QED BY <2>1, <4>1, <4>2
    <3>2. At0(k + 1) = At0(k) \cup {k + 1}
      BY <2>1, <2>3
    <3>3. IsSeq(taken[k + 1]) /\ Len(taken[k + 1]) = Len(taken[k]) + 1
      BY <2>1, <3>1, AppendIsSeq
    <3> HIDE DEF At0
    <3>4. Cardinality(At0(k + 1)) = Cardinality(At0(k)) + 1
      BY <2>2, <3>2, FS_AddElement
    <3> QED BY <2>1, <3>3, <3>4
  <2>4. CASE s[k + 1] \notin T
    <3>1. taken[k + 1] = taken[k]
      BY <1>2, <2>1, <2>4
    <3>2. At0(k + 1) = At0(k)
      BY <2>1, <2>4
    <3> HIDE DEF At0
    <3> QED BY <2>1, <3>1, <3>2
  <2> QED BY <2>3, <2>4
<1>5. C = 0 .. n
  <2>1. C \in SUBSET (0 .. n)
    OBVIOUS
  <2> HIDE DEF C
  <2> QED BY <1>1, <1>3, <1>4, <2>1, UpToInduction
<1>6. n \in C
  <2> HIDE DEF C
  <2> QED BY <1>1, <1>5
<1> QED BY <1>1, <1>2, <1>6

\* One element, at one place.
LEMMA WhereOnly ==
    ASSUME NEW s, IsSeq(s), NEW T, NEW e, Where(s, T) = <<e>>
    PROVE  \E k \in DOMAIN s : \A j \in DOMAIN s : s[j] \in T <=> j = k
<1> DEFINE A == {j \in DOMAIN s : s[j] \in T}
<1>1. Cardinality(A) = 1
  <2>1. Len(Where(s, T)) = Cardinality(A)
    BY WhereSize
  <2>2. Len(<<e>>) = 1
    BY SingletonIs
  <2> HIDE DEF A
  <2> QED BY <2>1, <2>2
<1>2. IsFiniteSet(A)
  <2>0. Len(s) \in Nat /\ DOMAIN s = 1 .. Len(s)
    BY IsSeqLen
  <2>1. IsFiniteSet(1 .. Len(s)) /\ A \in SUBSET (1 .. Len(s))
    BY <2>0, FS_Interval
  <2> HIDE DEF A
  <2> QED BY <2>1, FS_Subset
<1>3. \E k : A = {k}
  <2> HIDE DEF A
  <2> QED BY <1>1, <1>2, FS_Singleton
<1> QED BY <1>3

\* Runs of equal numbers, and the lengths of those before the m-th.
Runs(n, len) == [k \in 1 .. n |-> [c \in 1 .. len[k] + 1 |-> k]]
RunsAhead(len, m) == [j \in 1 .. m - 1 |-> len[j] + 1]

\* In runs of equal numbers, laid end to end, a number first occurs behind the
\* lengths of the runs before its own.
LEMMA FlattenRuns ==
    ASSUME NEW n \in Nat, NEW len \in [1 .. n -> Nat],
           NEW ss, ss = Runs(n, len), NEW m \in 1 .. n, NEW d, d = RunsAhead(len, m)
    PROVE  /\ IsSeq(FlattenSeq(ss)) /\ SumOf(d) \in Nat
           /\ SumOf(d) + 1 \in 1 .. Len(FlattenSeq(ss)) /\ FlattenSeq(ss)[SumOf(d) + 1] = m
           /\ \A a \in 1 .. SumOf(d) : FlattenSeq(ss)[a] # m
<1>0. ss = [k \in 1 .. n |-> [c \in 1 .. len[k] + 1 |-> k]] /\ d = [j \in 1 .. m - 1 |-> len[j] + 1]
  BY DEF Runs, RunsAhead
<1>1. /\ \A k \in 1 .. n : ss[k] \in Seq(Nat) /\ Len(ss[k]) = len[k] + 1 /\ \A c \in 1 .. len[k] + 1 : ss[k][c] = k
      /\ ss \in Seq(Seq(Nat)) /\ Len(ss) = n
  <2>1. ASSUME NEW k \in 1 .. n
        PROVE  ss[k] \in Seq(Nat) /\ Len(ss[k]) = len[k] + 1 /\ \A c \in 1 .. len[k] + 1 : ss[k][c] = k
    <3>1. PICK l \in Nat : l = len[k] + 1
      OBVIOUS
    <3>2. ss[k] = [c \in 1 .. l |-> k]
      BY <1>0, <3>1
    <3>3. [c \in 1 .. l |-> k] \in Seq(Nat) /\ Len([c \in 1 .. l |-> k]) = l
      OBVIOUS
    <3> QED BY <3>1, <3>2, <3>3
  <2>2. DOMAIN ss = 1 .. n /\ ss = [k \in 1 .. n |-> ss[k]]
    BY <1>0
  <2>3. PICK S : S = Seq(Nat)
    OBVIOUS
  <2>4. \A k \in 1 .. n : ss[k] \in S
    BY <2>1, <2>3
  <2>5. ss \in Seq(S) /\ Len(ss) = n
    <3>1. PICK t : t = ss
      OBVIOUS
    <3>2. DOMAIN t = 1 .. n /\ t = [k \in 1 .. n |-> t[k]] /\ \A k \in 1 .. n : t[k] \in S
      BY <2>2, <2>4, <3>1
    <3>3. t \in Seq(S) /\ Len(t) = n
      BY <3>2, IntSeq
    <3> QED BY <3>1, <3>3
  <2> QED BY <2>1, <2>3, <2>5
<1>2. PICK all :
        /\ all \in [0 .. n -> Seq(Nat)] /\ all[0] = <<>>
        /\ \A k \in 1 .. n : all[k] = all[k - 1] \o ss[k]
        /\ FlattenSeq(ss) = all[n]
  <2>1. PICK all : /\ all \in [0 .. Len(ss) -> Seq(Nat)] /\ all[0] = <<>>
                   /\ \A k \in 1 .. Len(ss) : all[k] = all[k - 1] \o ss[k]
                   /\ FlattenSeq(ss) = all[Len(ss)]
    <3>1. PICK U : U = Nat
      OBVIOUS
    <3>2. PICK t : t = ss /\ t \in Seq(Seq(U))
      BY <1>1, <3>1
    <3>3. PICK all : /\ all \in [0 .. Len(t) -> Seq(U)] /\ all[0] = <<>>
                     /\ \A k \in 1 .. Len(t) : all[k] = all[k - 1] \o t[k]
                     /\ FlattenSeq(t) = all[Len(t)]
      BY <3>2, FlattenSteps
    <3> QED BY <3>1, <3>2, <3>3
  <2> QED BY <1>1, <2>1
<1>3. d \in Seq(Int) /\ Len(d) = m - 1 /\ \A j \in 1 .. m - 1 : d[j] = len[j] + 1
  <2>1. PICK l \in Nat : l = m - 1
    OBVIOUS
  <2>2. DOMAIN d = 1 .. l /\ d = [j \in 1 .. l |-> d[j]] /\ \A j \in 1 .. l : d[j] = len[j] + 1 /\ d[j] \in Int
    BY <1>0, <2>1
  <2> QED BY <2>1, <2>2, IntSeq, ZenonT(40)
<1>4. PICK sum : /\ sum \in [0 .. m - 1 -> Int] /\ sum[0] = 0
                 /\ \A k \in 1 .. m - 1 : sum[k] = sum[k - 1] + d[k]
                 /\ SumOf(d) = sum[m - 1]
  BY <1>3, SumSteps DEF Sums
<1>5. PICK o \in Int : o = sum[m - 1]
  BY <1>4
<1> DEFINE Short(k) == Len(all[k]) = sum[k] /\ \A a \in 1 .. Len(all[k]) : all[k][a] # m
           Long(k) == /\ o \in Nat /\ Len(all[k]) >= o + 1 /\ all[k][o + 1] = m
                      /\ \A a \in 1 .. o : all[k][a] # m
           T == {k \in 0 .. n : (k < m => Short(k)) /\ (k >= m => Long(k))}
<1> HIDE DEF Short, Long, T
<1>6. 0 \in T
  <2>1. Len(all[0]) = sum[0] /\ DOMAIN all[0] = {} /\ Len(all[0]) = 0
    BY <1>2, <1>4
  <2>2. Short(0)
    BY <2>1 DEF Short
  <2> QED BY <2>2 DEF T
<1>7. ASSUME NEW k \in T, k < n PROVE k + 1 \in T
  <2>1. k \in 0 .. n /\ (k < m => Short(k)) /\ (k >= m => Long(k))
    BY <1>7 DEF T
  <2>2. PICK p : p = all[k] /\ p \in Seq(Nat)
    BY <1>2, <2>1
  <2>3. PICK j \in 1 .. n : j = k + 1
    BY <1>7, <2>1
  <2>4. PICK q : q = ss[j] /\ q \in Seq(Nat) /\ Len(q) = len[j] + 1 /\ \A c \in 1 .. Len(q) : q[c] = j
    BY <1>1
  <2>5. PICK r : r = all[j] /\ r = p \o q
    <3>1. j - 1 = k
      BY <2>1, <2>3
    <3>2. all[j] = all[k] \o ss[j]
      BY <1>2, <3>1
    <3> QED BY <2>2, <2>4, <3>2
  <2>6. /\ Len(r) = Len(p) + Len(q) /\ Len(p) \in Nat /\ Len(q) \in Nat /\ Len(q) >= 1
        /\ \A a \in 1 .. Len(r) : r[a] = IF a <= Len(p) THEN p[a] ELSE j
    <3>1. IsSeq(p) /\ IsSeq(q) /\ Len(p) \in Nat /\ Len(q) \in Nat /\ Len(q) >= 1
      BY <2>2, <2>4, SeqIsSeq
    <3>2. /\ Len(r) = Len(p) + Len(q)
          /\ \A a \in 1 .. Len(p) + Len(q) : r[a] = IF a <= Len(p) THEN p[a] ELSE q[a - Len(p)]
      BY <2>5, <3>1, ConcatIsSeq
    <3>3. \A a \in 1 .. Len(p) + Len(q) : a <= Len(p) \/ q[a - Len(p)] = j
      BY <2>4, <3>1, SMTT(30)
    <3> QED BY <3>1, <3>2, <3>3
  <2>7. CASE j < m
    <3>1. Len(p) = sum[k] /\ \A a \in 1 .. Len(p) : p[a] # m
      <4>1. k < m
        BY <2>1, <2>3, <2>7
      <4>2. Short(k)
        BY <2>1, <4>1
      <4> QED BY <2>2, <4>2 DEF Short
    <3>2. sum[j] = sum[k] + d[j] /\ d[j] = len[j] + 1
      <4>1. j - 1 = k /\ j \in 1 .. m - 1
        BY <2>1, <2>3, <2>7
      <4> QED BY <1>3, <1>4, <4>1
    <3>3. Short(j)
      <4>1. Len(r) = sum[j]
        BY <2>3, <2>4, <2>6, <3>1, <3>2
      <4>2. ASSUME NEW a \in 1 .. Len(r) PROVE r[a] # m
        <5>1. r[a] = IF a <= Len(p) THEN p[a] ELSE j
          BY <2>6
        <5>2. a <= Len(p) => a \in 1 .. Len(p)
          BY <2>6
        <5> QED BY <2>7, <3>1, <5>1, <5>2
      <4> QED BY <2>5, <4>1, <4>2 DEF Short
    <3> QED BY <2>3, <2>7, <3>3 DEF T
  <2>8. CASE j = m
    <3>0. k = m - 1 /\ k < m
      BY <2>1, <2>3, <2>8
    <3>1. Len(p) = o /\ \A a \in 1 .. Len(p) : p[a] # m
      <4>1. Short(k)
        BY <2>1, <3>0
      <4>2. Len(p) = sum[k] /\ \A a \in 1 .. Len(p) : p[a] # m
        BY <2>2, <4>1 DEF Short
      <4> QED BY <1>5, <3>0, <4>2
    <3>2. Long(j)
      BY <2>5, <2>6, <2>8, <3>1 DEF Long
    <3> QED BY <2>3, <2>8, <3>2 DEF T
  <2>9. CASE j > m
    <3>1. o \in Nat /\ Len(p) >= o + 1 /\ p[o + 1] = m /\ \A a \in 1 .. o : p[a] # m
      <4>1. k >= m
        BY <2>1, <2>3, <2>9
      <4>2. Long(k)
        BY <2>1, <4>1
      <4> QED BY <2>2, <4>2 DEF Long
    <3>2. Long(j)
      BY <2>5, <2>6, <3>1 DEF Long
    <3> QED BY <2>3, <2>9, <3>2 DEF T
  <2> QED BY <2>7, <2>8, <2>9
<1>8. T \in SUBSET (0 .. n)
  BY DEF T
<1>9. n \in T
  <2>1. T = 0 .. n
    BY <1>6, <1>7, <1>8, UpToInduction
  <2> QED BY <2>1
<1>10. Long(n)
  BY <1>9 DEF T
<1>11. all[n] \in Seq(Nat)
  BY <1>2
<1>12. /\ o \in Nat /\ Len(all[n]) >= o + 1 /\ all[n][o + 1] = m /\ \A a \in 1 .. o : all[n][a] # m
  BY <1>10 DEF Long
<1>13. PICK f : f = all[n] /\ f \in Seq(Nat)
  BY <1>11
<1>14. IsSeq(f) /\ Len(f) \in Nat
  BY <1>13, SeqIsSeq
<1>15. FlattenSeq(ss) = f /\ SumOf(d) = o
  BY <1>2, <1>4, <1>5, <1>13
<1> HIDE DEF Long
<1>16. o + 1 \in 1 .. Len(f)
  BY <1>12, <1>13, <1>14
<1> QED BY <1>12, <1>13, <1>14, <1>15, <1>16

\* An empty sequence more.
LEMMA FlattenInsert ==
    ASSUME NEW ss, IsSeq(ss), \A k \in DOMAIN ss : IsSeq(ss[k]), NEW m \in DOMAIN ss,
           NEW tt, IsSeq(tt), Len(tt) = Len(ss) + 1,
           \A k \in DOMAIN tt : tt[k] = IF k < m THEN ss[k] ELSE IF k = m THEN <<>> ELSE ss[k - 1]
    PROVE  FlattenSeq(tt) = FlattenSeq(ss)
<1> DEFINE n == Len(ss)
<1>1. PICK U : ss \in Seq(Seq(U))
  BY SeqsIn
<1>2. PICK all : /\ all \in [0 .. n -> Seq(U)]
                 /\ all[0] = <<>>
                 /\ \A k \in 1 .. n : all[k] = all[k - 1] \o ss[k]
                 /\ FlattenSeq(ss) = all[n]
  BY <1>1, FlattenSteps
<1>3. n \in Nat /\ DOMAIN ss = 1 .. n /\ DOMAIN tt = 1 .. n + 1 /\ m \in 1 .. n
  BY IsSeqLen
<1>4. \A k \in 1 .. n : ss[k] \in Seq(U)
  BY <1>1, <1>3, ElementOfSeq
<1>5. \A k \in 1 .. n + 1 : tt[k] = IF k < m THEN ss[k] ELSE IF k = m THEN <<>> ELSE ss[k - 1]
  BY <1>3
<1>6. tt \in Seq(Seq(U))
  <2>1. ASSUME NEW k \in 1 .. n + 1 PROVE tt[k] \in Seq(U)
    <3>1. CASE k < m
      BY <1>3, <1>4, <1>5, <3>1
    <3>2. CASE k = m
      <4>1. ~(k < m)
        BY <1>3, <3>2
      <4>2. tt[k] = <<>>
        BY <1>5, <3>2, <4>1
      <4> QED BY <4>2, EmptySeq
    <3>3. CASE k > m
      <4>1. k - 1 \in 1 .. n /\ ~(k < m) /\ k # m
        BY <1>3, <3>3
      <4> QED BY <1>4, <1>5, <4>1
    <3> QED BY <1>3, <3>1, <3>2, <3>3
  <2>2. tt = [k \in 1 .. n + 1 |-> tt[k]]
    <3>1. tt \in [1 .. Len(tt) -> ToSet(tt)]
      BY ElementOfSeq, LenProperties DEF IsSeq
    <3> QED BY <1>3, <3>1
  <2> QED BY <1>3, <2>1, <2>2, IntSeq
<1>7. PICK more : /\ more \in [0 .. n + 1 -> Seq(U)]
                  /\ more[0] = <<>>
                  /\ \A k \in 1 .. n + 1 : more[k] = more[k - 1] \o tt[k]
                  /\ FlattenSeq(tt) = more[n + 1]
  <2>1. Len(tt) = n + 1
    OBVIOUS
  <2>2. \E more : /\ more \in [0 .. Len(tt) -> Seq(U)]
                  /\ more[0] = <<>>
                  /\ \A k \in 1 .. Len(tt) : more[k] = more[k - 1] \o tt[k]
                  /\ FlattenSeq(tt) = more[Len(tt)]
    BY <1>6, FlattenSteps
  <2> HIDE DEF n
  <2> QED BY <2>1, <2>2
<1> DEFINE P == {k \in 0 .. n + 1 : more[k] = IF k < m THEN all[k] ELSE all[k - 1]}
<1> HIDE DEF n
<1>8. 0 \in P
  BY <1>2, <1>3, <1>7
<1>9. ASSUME NEW k \in P, k < n + 1 PROVE k + 1 \in P
  <2>1. /\ k \in 0 .. n + 1 /\ k + 1 \in 1 .. n + 1 /\ k + 1 \in 0 .. n + 1 /\ (k + 1) - 1 = k
        /\ more[k + 1] = more[k] \o tt[k + 1] /\ more[k] \in Seq(U)
    <3>1. /\ k \in 0 .. n + 1 /\ k + 1 \in 1 .. n + 1 /\ k + 1 \in 0 .. n + 1 /\ (k + 1) - 1 = k
      BY <1>3, <1>9
    <3>2. more[k + 1] = more[(k + 1) - 1] \o tt[k + 1] /\ more[k] \in Seq(U)
      BY <1>7, <3>1
    <3> QED BY <3>1, <3>2
  <2>2. CASE k + 1 < m
    <3>1. k + 1 \in 1 .. n /\ k < m
      BY <1>3, <2>1, <2>2
    <3>2. more[k] = all[k] /\ all[k + 1] = all[k] \o ss[k + 1] /\ tt[k + 1] = ss[k + 1]
      BY <1>2, <1>5, <1>9, <2>1, <2>2, <3>1
    <3> QED BY <2>1, <2>2, <3>2
  <2>3. CASE k + 1 = m
    <3>1. k < m /\ ~(k + 1 < m)
      BY <1>3, <2>3
    <3>2. more[k] = all[k] /\ tt[k + 1] = <<>>
      BY <1>5, <1>9, <2>1, <2>3, <3>1
    <3>3. more[k + 1] = more[k]
      BY <2>1, <3>2, ConcatEmptySeq
    <3> QED BY <2>1, <3>1, <3>2, <3>3
  <2>4. CASE k + 1 > m
    <3>1. k \in 1 .. n /\ ~(k < m) /\ ~(k + 1 < m) /\ k + 1 # m
      BY <1>3, <2>1, <2>4
    <3>2. more[k] = all[k - 1] /\ tt[k + 1] = ss[k] /\ all[k] = all[k - 1] \o ss[k]
      <4>1. tt[k + 1] = ss[(k + 1) - 1]
        BY <1>5, <2>1, <3>1
      <4>2. tt[k + 1] = ss[k]
        BY <2>1, <4>1
      <4>3. more[k] = all[k - 1]
        BY <1>9, <3>1
      <4> QED BY <1>2, <3>1, <4>2, <4>3
    <3> QED BY <2>1, <3>1, <3>2
  <2> QED BY <1>3, <2>1, <2>2, <2>3, <2>4
<1>10. n + 1 \in P
  <2>1. n + 1 \in Nat /\ P \in SUBSET (0 .. n + 1)
    BY <1>3
  <2>2. P = 0 .. n + 1
    <3> HIDE DEF P
    <3> QED BY <1>8, <1>9, <2>1, UpToInduction
  <2>3. n + 1 \in 0 .. n + 1
    BY <2>1
  <2> HIDE DEF P
  <2> QED BY <2>2, <2>3
<1>11. more[n + 1] = all[n]
  BY <1>3, <1>10
<1> QED BY <1>2, <1>7, <1>11

\* One element less.
LEMMA RemoveFirstIs ==
    ASSUME NEW s, IsSeq(s), NEW e, NEW t, t = RemoveFirst(s, e)
    PROVE  /\ IsSeq(t) /\ ToSet(t) \subseteq ToSet(s)
           /\ \A x \in ToSet(s) : x # e => x \in ToSet(t)
           /\ Distinct(s) => Distinct(t) /\ e \notin ToSet(t)
<1> DEFINE n == Len(s)
           I == {k \in 1 .. Len(s) : s[k] = e}
           p == FirstOf(I)
<1>1. n \in Nat /\ DOMAIN s = 1 .. n
  BY IsSeqLen
<1>2. CASE e \notin ToSet(s)
  <2>1. t = s
    BY <1>1, <1>2 DEF RemoveFirst, ToSet
  <2> QED BY <1>2, <2>1
<1>3. CASE e \in ToSet(s)
  <2>1. I # {} /\ \E k \in 1 .. Len(s) : s[k] = e
    BY <1>1, <1>3 DEF ToSet
  <2>2. p \in 1 .. n /\ s[p] = e
    <3>1. p \in I
      BY <1>1, <2>1, FirstOfIs
    <3> HIDE DEF p
    <3> QED BY <3>1
  <2>3. t = SubSeq(s, 1, p - 1) \o SubSeq(s, p + 1, Len(s))
    BY <2>1 DEF RemoveFirst, RemoveAt, SelectInSeq, FirstOf
  <2> DEFINE a == SubSeq(s, 1, p - 1)
             c == SubSeq(s, p + 1, Len(s))
  <2> HIDE DEF p, n
  <2>4. /\ a \in Seq(ToSet(s)) /\ Len(a) = p - 1 /\ \A k \in 1 .. p - 1 : a[k] = s[k]
    <3>1. s \in Seq(ToSet(s)) /\ \A k \in 1 .. p - 1 : k \in 1 .. Len(s)
      BY <1>1, <2>2 DEF IsSeq, n
    <3> QED BY <1>1, <2>2, <3>1, SubSeqProperties
  <2>5. /\ c \in Seq(ToSet(s)) /\ Len(c) = n - p /\ \A k \in 1 .. n - p : c[k] = s[p + k]
    <3>1. s \in Seq(ToSet(s)) /\ \A k \in p + 1 .. n : k \in 1 .. Len(s)
      BY <1>1, <2>2 DEF IsSeq, n
    <3>2. /\ c \in Seq(ToSet(s))
          /\ Len(c) = IF p + 1 <= n THEN n - (p + 1) + 1 ELSE 0
          /\ \A k \in 1 .. n - (p + 1) + 1 : c[k] = s[(p + 1) + k - 1]
      BY <1>1, <2>2, <3>1, SubSeqProperties DEF n
    <3>3. \A k \in 1 .. n - p : k \in 1 .. n - (p + 1) + 1 /\ (p + 1) + k - 1 = p + k
      BY <1>1, <2>2
    <3> QED BY <1>1, <2>2, <3>2, <3>3
  <2>6. t = a \o c
    BY <2>3
  <2> HIDE DEF a, c
  <2>7. IsSeq(a) /\ IsSeq(c)
    BY <2>4, <2>5, SeqIsSeq
  <2>8. IsSeq(t) /\ DOMAIN t = 1 .. n - 1
    <3>1. Len(t) = n - 1 /\ IsSeq(t)
      <4>1. IsSeq(t) /\ Len(t) = Len(a) + Len(c)
        BY <2>6, <2>7, ConcatIsSeq
      <4>2. Len(a) + Len(c) = n - 1
        BY <1>1, <2>2, <2>4, <2>5
      <4> QED BY <4>1, <4>2
    <3> QED BY <3>1, IsSeqLen
  <2>9. \A k \in 1 .. n - 1 : t[k] = IF k < p THEN s[k] ELSE s[k + 1]
    <3>1. \A k \in 1 .. n - 1 : t[k] = IF k <= p - 1 THEN a[k] ELSE c[k - (p - 1)]
      <4>1. Len(a) + Len(c) = n - 1 /\ Len(a) = p - 1
        BY <1>1, <2>2, <2>4, <2>5
      <4> QED BY <2>6, <2>7, <4>1, ConcatIsSeq
    <3>2. ASSUME NEW k \in 1 .. n - 1, k < p PROVE t[k] = s[k]
      BY <1>1, <2>2, <2>4, <3>1, <3>2
    <3>3. ASSUME NEW k \in 1 .. n - 1, ~(k < p) PROVE t[k] = s[k + 1]
      <4>1. k - (p - 1) \in 1 .. n - p /\ p + (k - (p - 1)) = k + 1 /\ ~(k <= p - 1)
        BY <1>1, <2>2, <3>3
      <4>2. t[k] = c[k - (p - 1)]
        BY <3>1, <4>1
      <4> QED BY <2>5, <4>1, <4>2
    <3> QED BY <3>2, <3>3
  <2> DEFINE Old(k) == IF k < p THEN k ELSE k + 1
  <2>10. ASSUME NEW k \in 1 .. n - 1 PROVE Old(k) \in 1 .. n /\ Old(k) # p /\ t[k] = s[Old(k)]
    BY <1>1, <2>2, <2>9
  <2>11. \A j, k \in 1 .. n - 1 : Old(j) = Old(k) => j = k
    BY <1>1, <2>2
  <2>12. ASSUME NEW k \in 1 .. n, k # p PROVE \E j \in 1 .. n - 1 : Old(j) = k
    <3>1. CASE k < p
      <4>1. k \in 1 .. n - 1 /\ Old(k) = k
        BY <1>1, <2>2, <3>1
      <4> QED BY <4>1
    <3>2. CASE k > p
      <4>1. k - 1 \in 1 .. n - 1 /\ Old(k - 1) = k
        BY <1>1, <2>2, <3>2
      <4> QED BY <4>1
    <3> QED BY <1>1, <2>2, <2>12, <3>1, <3>2
  <2> HIDE DEF Old
  <2>13. ToSet(t) \subseteq ToSet(s)
    BY <1>1, <2>8, <2>10 DEF ToSet
  <2>14. ASSUME NEW x \in ToSet(s), x # e PROVE x \in ToSet(t)
    <3>1. PICK k \in 1 .. n : s[k] = x
      BY <1>1 DEF ToSet
    <3>2. k # p
      BY <2>2, <2>14, <3>1
    <3>3. PICK j \in 1 .. n - 1 : Old(j) = k
      BY <2>12, <3>2
    <3>4. t[j] = x
      BY <2>10, <3>1, <3>3
    <3> QED BY <2>8, <3>4 DEF ToSet
  <2>15. ASSUME Distinct(s) PROVE Distinct(t) /\ e \notin ToSet(t)
    <3>1. Distinct(t)
      BY <1>1, <2>8, <2>10, <2>11, <2>15 DEF Distinct
    <3>2. \A k \in 1 .. n - 1 : t[k] # e
      BY <1>1, <2>2, <2>10, <2>15 DEF Distinct
    <3> QED BY <2>8, <3>1, <3>2 DEF ToSet
  <2> QED BY <2>8, <2>13, <2>14, <2>15
<1> QED BY <1>2, <1>3

\* Another element in the place of one.
LEMMA ReplaceAllIs ==
    ASSUME NEW s, IsSeq(s), NEW old, NEW new, NEW t, t = ReplaceAll(s, old, new)
    PROVE  /\ IsSeq(t)
           /\ \A x \in ToSet(t) : x = new \/ x \in ToSet(s)
           /\ \A x \in ToSet(s) : x # old => x \in ToSet(t)
           /\ old \in ToSet(s) => new \in ToSet(t)
           /\ Distinct(s) /\ (new = old \/ new \notin ToSet(s)) => Distinct(t)
<1>1. Len(s) \in Nat /\ DOMAIN s = 1 .. Len(s)
  BY IsSeqLen
<1>2. /\ DOMAIN t = 1 .. Len(s) /\ t = [k \in 1 .. Len(s) |-> t[k]]
      /\ \A k \in 1 .. Len(s) : t[k] = IF s[k] = old THEN new ELSE s[k]
  BY DEF ReplaceAll
<1>3. IsSeq(t)
  BY <1>1, <1>2, FunctionIsSeq
<1>4. ASSUME NEW x \in ToSet(s), x # old PROVE x \in ToSet(t)
  BY <1>1, <1>2, <1>4 DEF ToSet
<1>5. old \in ToSet(s) => new \in ToSet(t)
  BY <1>1, <1>2 DEF ToSet
<1>6. Distinct(s) /\ (new = old \/ new \notin ToSet(s)) => Distinct(t)
  BY <1>1, <1>2 DEF Distinct, ToSet
<1>7. \A x \in ToSet(t) : x = new \/ x \in ToSet(s)
  BY <1>1, <1>2 DEF ToSet
<1> QED BY <1>3, <1>4, <1>5, <1>6, <1>7

----------------------------------------------------------------------------
(* Sequences of pairs, what they name, and the rows that the steps add.    *)

LEMMA SingletonExcept ==
    ASSUME NEW x, NEW w
    PROVE  [<<x>> EXCEPT ![1] = w] = <<w>>
<1> DEFINE e == <<x>>
<1>1. e \in Seq({x}) /\ Len(e) = 1
  OBVIOUS
<1> HIDE DEF e
<1>2. [e EXCEPT ![1] = w] \in Seq({x, w}) /\ Len([e EXCEPT ![1] = w]) = 1 /\ [e EXCEPT ![1] = w][1] = w
  BY <1>1
<1>3. [e EXCEPT ![1] = w] = <<w>>
  BY <1>2
<1> QED BY <1>3 DEF e

LEMMA SingletonFunction ==
    ASSUME NEW e, DOMAIN e = {1}, e = [k \in {1} |-> e[k]]
    PROVE  e = <<e[1]>>
<1>1. 1 .. 1 = {1}
  OBVIOUS
<1>2. e \in [1 .. 1 -> ToSet(e)]
  BY <1>1 DEF ToSet
<1>3. e \in Seq(ToSet(e)) /\ Len(e) = 1
  <2>1. e \in Seq(ToSet(e))
    BY <1>2, SeqDef
  <2>2. Len(e) \in Nat /\ 1 .. 1 = 1 .. Len(e)
    BY <1>1, <2>1, LenProperties
  <2> QED BY <2>1, <2>2
<1> QED BY <1>3

PairsOK(pairs) == IsSeq(pairs) /\ \A k \in DOMAIN pairs : IsSeq(pairs[k])

LEMMA FlattenPairs ==
    ASSUME NEW n \in Nat, NEW a, NEW b
    PROVE  IsSeq(FlattenSeq([k \in 1 .. n |-> <<a[k], b[k]>>]))
<1> DEFINE U == {a[k] : k \in 1 .. n} \cup {b[k] : k \in 1 .. n}
           ss == [k \in 1 .. n |-> <<a[k], b[k]>>]
<1>1. ASSUME NEW k \in 1 .. n PROVE ss[k] \in Seq(U)
  <2>1. a[k] \in U /\ b[k] \in U
    OBVIOUS
  <2> DEFINE c == a[k]
             d == b[k]
  <2>2. ss[k] = <<c, d>>
    OBVIOUS
  <2>3. c \in U /\ d \in U
    BY <2>1
  <2> HIDE DEF U, ss, c, d
  <2> QED BY <2>2, <2>3
<1>2. DOMAIN ss = 1 .. n /\ ss = [k \in 1 .. n |-> ss[k]]
  OBVIOUS
<1> HIDE DEF U, ss
<1>3. ss \in [1 .. n -> Seq(U)]
  BY <1>1, <1>2
<1>4. ss \in Seq(Seq(U))
  BY <1>3, SeqDef
<1>5. PICK all : all \in [0 .. Len(ss) -> Seq(U)] /\ FlattenSeq(ss) = all[Len(ss)]
  BY <1>4, FlattenSteps
<1>6. Len(ss) \in 0 .. Len(ss)
  BY <1>4, LenProperties
<1>7. IsSeq(FlattenSeq(ss))
  BY <1>5, <1>6, SeqIsSeq
<1> QED BY <1>7 DEF ss

\* Pairs, one for each element of a sequence.
LEMMA PairsIs ==
    ASSUME NEW rs, IsSeq(rs), NEW pairs, DOMAIN pairs = DOMAIN rs,
           pairs = [k \in DOMAIN rs |-> pairs[k]],
           \A k \in DOMAIN rs : IsSeq(pairs[k])
    PROVE  PairsOK(pairs)
<1> DEFINE n == Len(rs)
<1>1. n \in Nat /\ DOMAIN rs = 1 .. n
  BY IsSeqLen
<1> HIDE DEF n
<1>2. IsSeq(pairs)
  BY <1>1, FunctionIsSeq
<1> QED BY <1>2 DEF PairsOK

\* The groups of relocations that the module can answer.
LEMMA GroupPairs ==
    ASSUME NEW relocs, IsSeq(relocs), NEW T,
           NEW pairs, DOMAIN pairs = DOMAIN Where(relocs, T),
           pairs = [k \in DOMAIN Where(relocs, T) |-> pairs[k]],
           \A k \in DOMAIN Where(relocs, T) : IsSeq(pairs[k])
    PROVE  PairsOK(pairs)
BY WhereIs, PairsIs

\* An element that its group's walk comes to is there.
LEMMA KeyedHas ==
    ASSUME NEW s, IsSeq(s), NEW K, NEW L, NEW F, NEW W, NEW ss, Keyed(ss, s, K, L, F, W), NEW e \in ToSet(s),
           \A g \in DOMAIN ss : KeyAt(s, K, g) = K[e] => e \in ToSet(W[g])
    PROVE  \E n \in DOMAIN FlattenSeq(ss) : FlattenSeq(ss)[n] = F[e]
<1> DEFINE keyOf == [k \in DOMAIN s |-> K[s[k]]]
           keys == Firsts(keyOf)
<1>1. IsSeq(ss) /\ \A g \in DOMAIN ss : IsSeq(ss[g])
  BY KeyedIs
<1>2. DOMAIN ss = DOMAIN keys /\ \A g \in DOMAIN keys : Mapped(ss[g], W[g], F)
  BY DEF Keyed
<1>3. ToSet(keys) = {K[r] : r \in ToSet(s)}
  BY KeysAre
<1>4. \A g \in DOMAIN ss : keys[g] = K[e] => e \in ToSet(W[g])
  BY DEF KeyAt
<1> HIDE DEF keyOf, keys
<1>5. PICK m \in DOMAIN keys : keys[m] = K[e]
  <2>1. K[e] \in ToSet(keys)
    BY <1>3
  <2> QED BY <2>1 DEF ToSet
<1>6. F[e] \in ToSet(ss[m])
  <2>1. PICK k \in DOMAIN W[m] : W[m][k] = e
    BY <1>2, <1>4, <1>5 DEF ToSet
  <2>2. k \in DOMAIN ss[m] /\ ss[m][k] = F[e]
    BY <1>2, <1>5, <2>1 DEF Mapped
  <2> QED BY <2>2 DEF ToSet
<1>7. F[e] \in ToSet(FlattenSeq(ss))
  BY <1>1, <1>2, <1>5, <1>6, FlattenHas
<1> QED BY <1>7 DEF ToSet

\* The fixes name the places at, each with what it means, and no others; a
\* place that is there once is named once.
Says(fixes, at, means) ==
    /\ IsSeq(fixes)
    /\ \A n \in DOMAIN fixes : \E k \in DOMAIN at : fixes[n] = [at |-> at[k], means |-> means[k]]
    /\ \A k \in DOMAIN at : \E n \in DOMAIN fixes : fixes[n].at = at[k]
    /\ \A k \in DOMAIN at :
          (\A j \in DOMAIN at : at[j] = at[k] => j = k) =>
              \E n \in DOMAIN fixes :
                  /\ fixes[n] = [at |-> at[k], means |-> means[k]]
                  /\ \A m \in DOMAIN fixes : fixes[m].at = at[k] => m = n

\* From elements and a walk over the groups to Says.
LEMMA KeyedSays ==
    ASSUME NEW s, IsSeq(s), NEW K, NEW L, NEW F, NEW W, NEW ss, Keyed(ss, s, K, L, F, W),
           NEW H, NEW fixes, Mapped(fixes, FlattenSeq(ss), H),
           NEW own, NEW at, NEW means, DOMAIN at = DOMAIN own, \A k \in DOMAIN own : own[k] \in ToSet(s),
           \A r \in ToSet(s) : r \in L => \E k \in DOMAIN own : r = own[k],
           \A k \in DOMAIN own : H[F[own[k]]] = [at |-> at[k], means |-> means[k]],
           \A k \in DOMAIN own : \A g \in DOMAIN ss : KeyAt(s, K, g) = K[own[k]] => own[k] \in ToSet(W[g]),
           \A k \in DOMAIN own : \A A :
               /\ A = {own[k]} /\ (\A j \in DOMAIN own : own[j] = own[k] => j = k)
               => \A g \in DOMAIN ss : KeyAt(s, K, g) = K[own[k]] => Sole(W[g], A, own[k])
    PROVE  Says(fixes, at, means)
<1> DEFINE flat == FlattenSeq(ss)
<1>1. IsSeq(flat) /\ IsSeq(fixes)
  BY KeyedIs, MappedIsSeq
<1>2. DOMAIN fixes = DOMAIN flat /\ \A n \in DOMAIN fixes : fixes[n] = H[flat[n]]
  BY DEF Mapped
<1>3. ASSUME NEW n \in DOMAIN fixes PROVE \E k \in DOMAIN at : fixes[n] = [at |-> at[k], means |-> means[k]]
  <2>1. PICK r \in ToSet(s) : r \in L /\ flat[n] = F[r]
    BY <1>2, KeyedFrom
  <2>2. PICK k \in DOMAIN own : r = own[k]
    BY <2>1
  <2>3. fixes[n] = H[flat[n]]
    BY <1>2
  <2>4. fixes[n] = H[F[own[k]]]
    <3> HIDE DEF flat
    <3> QED BY <2>1, <2>2, <2>3
  <2> QED BY <2>2, <2>4
<1>4. ASSUME NEW k \in DOMAIN at, \A j \in DOMAIN at : at[j] = at[k] => j = k
      PROVE  \E n \in DOMAIN fixes :
                  /\ fixes[n] = [at |-> at[k], means |-> means[k]]
                  /\ \A m \in DOMAIN fixes : fixes[m].at = at[k] => m = n
  <2> DEFINE e == own[k]
             A == {e}
             T == {x \in ToSet(flat) \cup {F[e]} : H[x].at = at[k]}
  <2>1. e \in ToSet(s) /\ H[F[e]] = [at |-> at[k], means |-> means[k]]
    BY <1>4
  <2>2. F[e] \in T
    BY <2>1
  <2>3. \A j \in DOMAIN own : own[j] = e => j = k
    <3>1. SUFFICES ASSUME NEW j \in DOMAIN own, own[j] = e PROVE j = k
      OBVIOUS
    <3>2. H[F[e]] = [at |-> at[j], means |-> means[j]]
      BY <3>1
    <3>3. at[j] = at[k]
      <4> HIDE DEF e
      <4> QED BY <3>2, <2>1
    <3> QED BY <3>3, <1>4
  <2>4. \A g \in DOMAIN ss : KeyAt(s, K, g) = K[e] => Sole(W[g], A, e)
    BY <2>3, <1>4
  <2>5. ASSUME NEW r \in ToSet(s), r \in L, F[r] \in T PROVE r \in A
    <3>1. PICK j \in DOMAIN own : r = own[j]
      BY <2>5
    <3>2. H[F[r]] = [at |-> at[j], means |-> means[j]]
      BY <3>1
    <3>3. H[F[r]].at = at[k]
      BY <2>5
    <3>4. at[j] = at[k]
      BY <3>2, <3>3
    <3> QED BY <3>1, <3>4, <1>4
  <2>6. \A r \in ToSet(s) : r \in A => r = e
    OBVIOUS
  <2>7. Sole(flat, T, F[e])
    <3>1. Sole(FlattenSeq(ss), T, F[e])
      <4> HIDE DEF T, A, e, flat
      <4> QED BY <2>1, <2>2, <2>4, <2>5, <2>6, KeyedOne, SMTT(60)
    <3> QED BY <3>1
  <2>8. PICK n \in DOMAIN flat : flat[n] = F[e] /\ \A m \in DOMAIN flat : flat[m] \in T => m = n
    BY <2>7 DEF Sole
  <2>9. \A m \in DOMAIN flat : H[flat[m]].at = at[k] => flat[m] \in T
    BY DEF ToSet
  <2> HIDE DEF T, flat
  <2> QED BY <1>2, <2>1, <2>8, <2>9
<1>5. ASSUME NEW k \in DOMAIN at PROVE \E n \in DOMAIN fixes : fixes[n].at = at[k]
  <2> DEFINE e == own[k]
  <2>1. e \in ToSet(s) /\ \A g \in DOMAIN ss : KeyAt(s, K, g) = K[e] => e \in ToSet(W[g])
    BY <1>5
  <2>2. H[F[e]] = [at |-> at[k], means |-> means[k]]
    BY <1>5
  <2>3. PICK n \in DOMAIN flat : flat[n] = F[e]
    <3> HIDE DEF e
    <3> QED BY <2>1, KeyedHas
  <2>4. n \in DOMAIN fixes /\ fixes[n] = H[F[e]]
    BY <1>2, <2>3
  <2>5. fixes[n].at = at[k]
    <3> HIDE DEF e, flat
    <3> QED BY <2>2, <2>4
  <2> QED BY <2>4, <2>5
<1> QED BY <1>1, <1>3, <1>4, <1>5 DEF Says

FlatOf(groups) == [g \in DOMAIN groups |-> [k \in DOMAIN groups[g].pairs |-> [key |-> groups[g].key, pair |-> groups[g].pairs[k]]]]

\* The groups of relocations by a key, each with what it is paired with.
Paired(groups, relocs, K, P) ==
    LET keys == Firsts([k \in DOMAIN relocs |-> K[relocs[k]]])
        Of(g) == Where(relocs, {r \in ToSet(relocs) : K[r] = keys[g]})
    IN  /\ DOMAIN groups = DOMAIN keys
        /\ \A g \in DOMAIN keys :
              /\ groups[g].key = keys[g]
              /\ groups[g].pairs = [k \in DOMAIN Of(g) |-> P[Of(g)[k]]]

\* Groups of pairs name what each relocation in them is paired with.
LEMMA PairedSays ==
    ASSUME NEW relocs, IsSeq(relocs), NEW K, NEW P, NEW groups, Paired(groups, relocs, K, P),
           NEW H, NEW fixes, Mapped(fixes, FlattenSeq(FlatOf(groups)), H),
           NEW at, NEW means, DOMAIN at = DOMAIN relocs,
           \A k \in DOMAIN relocs : H[[key |-> K[relocs[k]], pair |-> P[relocs[k]]]] = [at |-> at[k], means |-> means[k]]
    PROVE  Says(fixes, at, means)
<1> DEFINE keys == Firsts([k \in DOMAIN relocs |-> K[relocs[k]]])
           F == [r \in ToSet(relocs) |-> [key |-> K[r], pair |-> P[r]]]
           L == ToSet(relocs)
           A(g) == {r \in ToSet(relocs) : K[r] = keys[g]}
           W == [g \in DOMAIN keys |-> Where(relocs, A(g))]
           ss == FlatOf(groups)
<1>1. /\ DOMAIN groups = DOMAIN keys
      /\ \A g \in DOMAIN keys : groups[g].key = keys[g] /\ groups[g].pairs = [k \in DOMAIN W[g] |-> P[W[g][k]]]
  BY DEF Paired
<1>2. DOMAIN ss = DOMAIN keys /\ ss = [g \in DOMAIN keys |-> ss[g]]
  BY <1>1 DEF FlatOf
<1>3. \A g \in DOMAIN keys : KeyAt(relocs, K, g) = keys[g]
  BY DEF KeyAt
<1>4. \A k \in DOMAIN relocs : relocs[k] \in ToSet(relocs)
  BY DEF ToSet
<1>5. ASSUME NEW g \in DOMAIN keys
      PROVE  /\ Mapped(ss[g], W[g], F) /\ IsSeq(W[g])
             /\ \A x \in ToSet(W[g]) : x \in ToSet(relocs) /\ x \in L /\ K[x] = keys[g]
  <2> DEFINE w == Where(relocs, A(g))
  <2>1. IsSeq(w) /\ ToSet(w) = ToSet(relocs) \cap A(g)
    BY WhereIs
  <2>2. W[g] = w
    OBVIOUS
  <2>3. \A x \in ToSet(w) : x \in ToSet(relocs) /\ K[x] = keys[g]
    BY <2>1
  <2>4. ss[g] = [k \in DOMAIN w |-> [key |-> keys[g], pair |-> P[w[k]]]]
    <3> HIDE DEF keys
    <3>1. groups[g].key = keys[g] /\ groups[g].pairs = [k \in DOMAIN w |-> P[w[k]]]
      BY <1>1
    <3>2. ss[g] = [k \in DOMAIN groups[g].pairs |-> [key |-> groups[g].key, pair |-> groups[g].pairs[k]]]
      BY <1>1 DEF FlatOf
    <3> HIDE DEF w, ss, W
    <3>3. \A k \in DOMAIN w : groups[g].pairs[k] = P[w[k]]
      BY <3>1
    <3>4. DOMAIN groups[g].pairs = DOMAIN w
      BY <3>1
    <3> QED BY <3>1, <3>2, <3>3, <3>4
  <2> HIDE DEF keys, w, ss, W
  <2>5. \A k \in DOMAIN w : w[k] \in ToSet(w)
    BY DEF ToSet
  <2>6. Mapped(ss[g], w, F)
    <3>1. DOMAIN ss[g] = DOMAIN w /\ ss[g] = [k \in DOMAIN w |-> ss[g][k]]
      BY <2>4
    <3>2. ASSUME NEW k \in DOMAIN w PROVE ss[g][k] = F[w[k]]
      BY <2>3, <2>4, <2>5
    <3> QED BY <3>1, <3>2 DEF Mapped
  <2> QED BY <2>1, <2>2, <2>3, <2>6
<1>6. Keyed(ss, relocs, K, L, F, W)
  <2> HIDE DEF ss, W, F, L
  <2> QED BY <1>2, <1>5 DEF Keyed
<1>7. ASSUME NEW k \in DOMAIN relocs, NEW T, T = {relocs[k]}, \A j \in DOMAIN relocs : relocs[j] = relocs[k] => j = k,
             NEW g \in DOMAIN ss, KeyAt(relocs, K, g) = K[relocs[k]]
      PROVE  Sole(W[g], T, relocs[k])
  <2>1. Sole(relocs, T, relocs[k])
    BY <1>7 DEF Sole
  <2>2. g \in DOMAIN keys /\ relocs[k] \in A(g)
    BY <1>2, <1>3, <1>4, <1>7
  <2>3. W[g] = Where(relocs, A(g))
    BY <2>2
  <2> HIDE DEF A, W
  <2> QED BY <2>1, <2>2, <2>3, WhereOne
<1>8. \A k \in DOMAIN relocs : H[F[relocs[k]]] = [at |-> at[k], means |-> means[k]]
  <2>1. \A k \in DOMAIN relocs : F[relocs[k]] = [key |-> K[relocs[k]], pair |-> P[relocs[k]]]
    BY <1>4
  <2> HIDE DEF F
  <2> QED BY <2>1
<1>9. \A r \in ToSet(relocs) : r \in L => \E k \in DOMAIN relocs : r = relocs[k]
  BY DEF ToSet
<1>11. ASSUME NEW k \in DOMAIN relocs, NEW g \in DOMAIN ss, KeyAt(relocs, K, g) = K[relocs[k]]
       PROVE  relocs[k] \in ToSet(W[g])
  <2>1. g \in DOMAIN keys /\ relocs[k] \in A(g)
    BY <1>2, <1>3, <1>4, <1>11
  <2>2. W[g] = Where(relocs, A(g))
    BY <2>1
  <2> HIDE DEF A, W
  <2> QED BY <1>4, <2>1, <2>2, WhereIs
<1> HIDE DEF ss, W, F, L, keys
<1>10. Mapped(fixes, FlattenSeq(ss), H)
  BY DEF ss
<1> QED BY <1>4, <1>6, <1>7, <1>8, <1>9, <1>10, <1>11, KeyedSays, SMTT(60)

Named(s, d) == FirstOf({k \in 1 .. Len(s) : s[k].name = d})

LEMMA NamedIs ==
    ASSUME NEW s, IsSeq(s), NEW d
    PROVE  IF \E k \in DOMAIN s : s[k].name = d
           THEN Named(s, d) \in DOMAIN s /\ s[Named(s, d)].name = d ELSE Named(s, d) = 0
<1> DEFINE I == {k \in 1 .. Len(s) : s[k].name = d}
<1>1. Len(s) \in Nat /\ DOMAIN s = 1 .. Len(s)
  BY IsSeqLen
<1>2. IF I = {} THEN FirstOf(I) = 0 ELSE FirstOf(I) \in I
  BY <1>1, FirstOfIs
<1>3. I = {k \in DOMAIN s : s[k].name = d}
  BY <1>1
<1>4. CASE I = {}
  BY <1>2, <1>3, <1>4 DEF Named
<1>5. CASE I # {}
  <2>1. Named(s, d) \in I
    BY <1>2, <1>5 DEF Named
  <2> QED BY <1>3, <2>1
<1> QED BY <1>4, <1>5

\* A call that becomes two instructions.
Called(is, n, x, y) == SubSeq(is, 1, n - 1) \o <<x, y>> \o SubSeq(is, n + 1, Len(is))

LEMMA CalledIs ==
    ASSUME NEW is, IsSeq(is), NEW n \in DOMAIN is, NEW x, NEW y
    PROVE  /\ IsSeq(Called(is, n, x, y)) /\ Len(Called(is, n, x, y)) = Len(is) + 1
           /\ \A k \in DOMAIN Called(is, n, x, y) :
                 Called(is, n, x, y)[k] = IF k < n THEN is[k] ELSE IF k = n THEN x ELSE IF k = n + 1 THEN y ELSE is[k - 1]
<1>1. Len(is) \in Nat /\ DOMAIN is = 1 .. Len(is) /\ n \in 1 .. Len(is)
  BY IsSeqLen
<1> DEFINE a == SubSeq(is, 1, n - 1)
           b == <<x, y>>
           c == SubSeq(is, n + 1, Len(is))
           m == Len(is)
<1>2. /\ a \in Seq(ToSet(is)) /\ Len(a) = n - 1 /\ \A k \in 1 .. n - 1 : a[k] = is[k]
  <2>1. is \in Seq(ToSet(is)) /\ \A k \in 1 .. n - 1 : k \in 1 .. Len(is)
    BY <1>1 DEF IsSeq
  <2> QED BY <1>1, <2>1, SubSeqProperties
<1>3. /\ c \in Seq(ToSet(is)) /\ Len(c) = m - n /\ \A k \in 1 .. m - n : c[k] = is[n + k]
  <2>1. is \in Seq(ToSet(is)) /\ \A k \in n + 1 .. m : k \in 1 .. Len(is)
    BY <1>1 DEF IsSeq
  <2>2. /\ c \in Seq(ToSet(is))
        /\ Len(c) = IF n + 1 <= m THEN m - (n + 1) + 1 ELSE 0
        /\ \A k \in 1 .. m - (n + 1) + 1 : c[k] = is[(n + 1) + k - 1]
    BY <1>1, <2>1, SubSeqProperties
  <2>3. \A k \in 1 .. m - n : k \in 1 .. m - (n + 1) + 1 /\ (n + 1) + k - 1 = n + k
    BY <1>1
  <2> QED BY <1>1, <2>2, <2>3
<1>4. IsSeq(a) /\ IsSeq(c) /\ IsSeq(b) /\ Len(b) = 2 /\ b[1] = x /\ b[2] = y
  BY <1>2, <1>3, SeqIsSeq, PairIsSeq
<1> HIDE DEF a, b, c, m
<1>5. /\ IsSeq(a \o b) /\ Len(a \o b) = n + 1
      /\ \A k \in 1 .. n + 1 : (a \o b)[k] = IF k <= n - 1 THEN a[k] ELSE b[k - (n - 1)]
  <2>1. Len(a) + Len(b) = n + 1 /\ Len(a) = n - 1
    BY <1>1, <1>2, <1>4
  <2> QED BY <1>4, <2>1, ConcatIsSeq, ZenonT(40)
<1> DEFINE ab == a \o b
           new == ab \o c
<1>6. \A k \in 1 .. n + 1 : ab[k] = IF k < n THEN is[k] ELSE IF k = n THEN x ELSE y
  <2> SUFFICES ASSUME NEW k \in 1 .. n + 1 PROVE ab[k] = IF k < n THEN is[k] ELSE IF k = n THEN x ELSE y
    OBVIOUS
  <2>1. CASE k < n
    BY <2>1, <1>1, <1>2, <1>5
  <2>2. CASE k = n
    <3>1. k - (n - 1) = 1 /\ ~(k <= n - 1)
      BY <2>2, <1>1
    <3> QED BY <2>2, <3>1, <1>4, <1>5
  <2>3. CASE k = n + 1
    <3>1. k - (n - 1) = 2 /\ ~(k <= n - 1) /\ ~(k < n) /\ k # n
      BY <2>3, <1>1
    <3> QED BY <3>1, <1>4, <1>5
  <2>4. k < n \/ k = n \/ k = n + 1
    BY <1>1
  <2> HIDE DEF ab
  <2> QED BY <2>1, <2>2, <2>3, <2>4
<1>7. /\ IsSeq(new) /\ Len(new) = m + 1
      /\ \A k \in 1 .. m + 1 : new[k] = IF k <= n + 1 THEN ab[k] ELSE c[k - (n + 1)]
  <2>1. Len(ab) + Len(c) = m + 1 /\ Len(ab) = n + 1
    BY <1>1, <1>3, <1>5 DEF m
  <2>2. IsSeq(ab)
    BY <1>5
  <2> HIDE DEF ab
  <2> QED BY <1>4, <2>1, <2>2, ConcatIsSeq, ZenonT(40)
<1>8. DOMAIN new = 1 .. m + 1
  BY <1>7, IsSeqLen
<1> HIDE DEF ab
<1>9. ASSUME NEW k \in 1 .. m + 1
      PROVE  new[k] = IF k < n THEN is[k] ELSE IF k = n THEN x ELSE IF k = n + 1 THEN y ELSE is[k - 1]
  <2>1. CASE k <= n + 1
    <3>1. new[k] = ab[k] /\ k \in 1 .. n + 1
      BY <1>1, <1>7, <2>1
    <3> HIDE DEF new
    <3> QED BY <1>1, <1>6, <2>1, <3>1
  <2>2. CASE k > n + 1
    <3>1. k - (n + 1) \in 1 .. m - n /\ n + (k - (n + 1)) = k - 1 /\ ~(k <= n + 1)
      BY <1>1, <2>2 DEF m
    <3>2. new[k] = is[k - 1]
      BY <1>3, <1>7, <3>1
    <3> HIDE DEF new
    <3> QED BY <1>1, <2>2, <3>2
  <2>3. k <= n + 1 \/ k > n + 1
    BY <1>1, <1>7, IsSeqLen DEF m
  <2> HIDE DEF new
  <2> QED BY <2>1, <2>2, <2>3
<1>10. Called(is, n, x, y) = new
  BY DEF Called, a, b, c, ab
<1> HIDE DEF new
<1> QED BY <1>7, <1>8, <1>9, <1>10 DEF m

\* Pairs in a row.
PairsOf(n, a, b) == [k \in 1 .. n |-> <<a[k], b[k]>>]

InRow(s, n, a, b) ==
    /\ IsSeq(s)
    /\ \A m \in DOMAIN s : \E j \in 1 .. n : (m = 2 * j - 1 /\ s[m] = a[j]) \/ (m = 2 * j /\ s[m] = b[j])
    /\ \A j \in 1 .. n : /\ 2 * j - 1 \in DOMAIN s /\ s[2 * j - 1] = a[j]
                         /\ 2 * j \in DOMAIN s /\ s[2 * j] = b[j]

LEMMA PairsInRow ==
    ASSUME NEW n \in Nat, NEW a, NEW b, NEW s, s = FlattenSeq(PairsOf(n, a, b))
    PROVE  InRow(s, n, a, b)
<1> DEFINE U == {a[k] : k \in 1 .. n} \cup {b[k] : k \in 1 .. n}
           ss == [k \in 1 .. n |-> <<a[k], b[k]>>]
           Pair(k) == <<a[k], b[k]>>
<1>1. ASSUME NEW k \in 1 .. n PROVE ss[k] \in Seq(U) /\ ss[k] = Pair(k)
  <2>1. a[k] \in U /\ b[k] \in U
    OBVIOUS
  <2> DEFINE c == a[k]
             d == b[k]
  <2>2. ss[k] = <<c, d>> /\ ss[k] = Pair(k)
    OBVIOUS
  <2>3. c \in U /\ d \in U
    BY <2>1
  <2> HIDE DEF U, ss, c, d, Pair
  <2> QED BY <2>2, <2>3
<1>2. DOMAIN ss = 1 .. n /\ ss = [k \in 1 .. n |-> ss[k]]
  OBVIOUS
<1>e. s = FlattenSeq(ss)
  BY DEF PairsOf
<1>3. ASSUME NEW k \in 1 .. n PROVE IsSeq(Pair(k)) /\ Len(Pair(k)) = 2 /\ Pair(k)[1] = a[k] /\ Pair(k)[2] = b[k]
  BY PairIsSeq
<1> HIDE DEF U, ss, Pair
<1>4. ss \in [1 .. n -> Seq(U)]
  BY <1>1, <1>2
<1>5. ss \in Seq(Seq(U)) /\ Len(ss) = n
  <2>1. ss \in Seq(Seq(U))
    BY <1>4, SeqDef
  <2> QED BY <1>2, <2>1, IsSeqLen, SeqIsSeq, FunctionIsSeq
<1>6. PICK all : /\ all \in [0 .. n -> Seq(U)] /\ all[0] = <<>>
                 /\ \A k \in 1 .. n : all[k] = all[k - 1] \o ss[k]
                 /\ FlattenSeq(ss) = all[n]
  BY <1>5, FlattenSteps
<1> DEFINE From(t, m) == \E j \in 1 .. n : (m = 2 * j - 1 /\ t[m] = a[j]) \/ (m = 2 * j /\ t[m] = b[j])
           Upto(k) == /\ Len(all[k]) = 2 * k
                      /\ \A m \in 1 .. 2 * k : From(all[k], m)
                      /\ \A j \in 1 .. k : all[k][2 * j - 1] = a[j] /\ all[k][2 * j] = b[j]
           T == {k \in 0 .. n : Upto(k)}
<1>7. 0 \in T
  <2>1. Len(all[0]) = 2 * 0
    BY <1>6, EmptyIsSeq
  <2> QED BY <2>1
<1>8. ASSUME NEW k \in T, k < n PROVE k + 1 \in T
  <2>1. k \in Nat /\ k + 1 \in 1 .. n /\ k \in 0 .. n /\ (k + 1) - 1 = k
    BY <1>8
  <2> DEFINE v == all[k]
             p == Pair(k + 1)
             t == all[k + 1]
  <2>2. IsSeq(v) /\ t = v \o p
    BY <1>1, <1>6, <2>1, SeqIsSeq
  <2>3. /\ Len(v) = 2 * k /\ (\A m \in 1 .. 2 * k : From(v, m))
        /\ \A j \in 1 .. k : v[2 * j - 1] = a[j] /\ v[2 * j] = b[j]
    BY <1>8
  <2>4. IsSeq(p) /\ Len(p) = 2 /\ p[1] = a[k + 1] /\ p[2] = b[k + 1]
    BY <1>3, <2>1
  <2> HIDE DEF v, p, t
  <2>5. Len(t) = 2 * k + 2 /\ \A m \in 1 .. 2 * k + 2 : t[m] = IF m <= 2 * k THEN v[m] ELSE p[m - 2 * k]
    <3>1. Len(v \o p) = Len(v) + Len(p) /\ \A m \in 1 .. Len(v) + Len(p) : (v \o p)[m] = IF m <= Len(v) THEN v[m] ELSE p[m - Len(v)]
      BY <2>2, <2>4, ConcatIsSeq
    <3> QED BY <2>2, <2>3, <2>4, <3>1
  <2>6. t[2 * k + 1] = a[k + 1] /\ t[2 * k + 2] = b[k + 1]
    <3>1. 2 * k + 1 \in 1 .. 2 * k + 2 /\ (2 * k + 1) - 2 * k = 1 /\ ~(2 * k + 1 <= 2 * k)
      BY <2>1
    <3>2. 2 * k + 2 \in 1 .. 2 * k + 2 /\ (2 * k + 2) - 2 * k = 2 /\ ~(2 * k + 2 <= 2 * k)
      BY <2>1
    <3> QED BY <2>4, <2>5, <3>1, <3>2
  <2>7. \A m \in 1 .. 2 * k : t[m] = v[m] /\ m \in 1 .. 2 * k + 2
    BY <2>1, <2>5, SMTT(30)
  <2>8. ASSUME NEW m \in 1 .. 2 * (k + 1) PROVE From(t, m)
    <3>1. CASE m \in 1 .. 2 * k
      BY <2>3, <2>7, <3>1, ZenonT(40)
    <3>2. CASE m = 2 * k + 1
      <4>1. m = 2 * (k + 1) - 1
        BY <2>1, <3>2
      <4> QED BY <2>1, <2>6, <3>2, <4>1
    <3>3. CASE m = 2 * k + 2
      <4>1. m = 2 * (k + 1)
        BY <2>1, <3>3
      <4> QED BY <2>1, <2>6, <3>3, <4>1
    <3>4. m \in 1 .. 2 * k \/ m = 2 * k + 1 \/ m = 2 * k + 2
      BY <2>1
    <3> QED BY <3>1, <3>2, <3>3, <3>4
  <2>9. ASSUME NEW j \in 1 .. k + 1 PROVE t[2 * j - 1] = a[j] /\ t[2 * j] = b[j]
    <3>1. CASE j \in 1 .. k
      <4>1. 2 * j - 1 \in 1 .. 2 * k /\ 2 * j \in 1 .. 2 * k
        BY <2>1, <3>1, SMTT(30)
      <4> QED BY <2>3, <2>7, <3>1, <4>1
    <3>2. CASE j = k + 1
      <4>1. 2 * j - 1 = 2 * k + 1 /\ 2 * j = 2 * k + 2
        BY <2>1, <3>2
      <4> QED BY <2>6, <3>2, <4>1
    <3>3. j \in 1 .. k \/ j = k + 1
      BY <2>1
    <3> QED BY <3>1, <3>2, <3>3
  <2>10. Len(t) = 2 * (k + 1)
    BY <2>1, <2>5
  <2>11. Upto(k + 1)
    BY <2>8, <2>9, <2>10 DEF t
  <2> QED BY <2>1, <2>11
<1>9. T = 0 .. n
  <2> HIDE DEF Upto
  <2> QED BY <1>7, <1>8, UpToInduction
<1>10. Upto(n)
  <2> HIDE DEF Upto
  <2> QED BY <1>9
<1>s. s = all[n]
  BY <1>6, <1>e
<1>11. IsSeq(s) /\ DOMAIN s = 1 .. 2 * n /\ s = FlattenSeq(ss)
  <2>1. IsSeq(s)
    BY <1>6, <1>s, SeqIsSeq
  <2> QED BY <1>6, <1>10, <1>s, <2>1, IsSeqLen
<1>12. \A j \in 1 .. n : 2 * j - 1 \in 1 .. 2 * n /\ 2 * j \in 1 .. 2 * n
  OBVIOUS
<1>13. /\ \A m \in DOMAIN s : From(s, m)
       /\ \A j \in 1 .. n : 2 * j - 1 \in DOMAIN s /\ s[2 * j - 1] = a[j] /\ 2 * j \in DOMAIN s /\ s[2 * j] = b[j]
  BY <1>10, <1>11, <1>12, <1>s, ZenonT(40)
<1> QED BY <1>11, <1>13 DEF InRow

\* The relocations of the program stay where they are.
Same0(new, old, old0) == \A k \in DOMAIN old0 : new[k] = old[k]

LEMMA SameConcat ==
    ASSUME NEW old, IsSeq(old), NEW old0, DOMAIN old0 \subseteq DOMAIN old, NEW more, IsSeq(more)
    PROVE  Same0(old \o more, old, old0)
BY ConcatElements DEF Same0

LEMMA ThreeOf ==
    ASSUME NEW p, NEW q, IsSeq(p), IsSeq(q), Len(p) = 1, Len(q) = 2
    PROVE  (p \o q)[1] = p[1] /\ (p \o q)[2] = q[1] /\ (p \o q)[3] = q[2]
<1>1. 1 \in 1 .. Len(p) + Len(q) /\ 2 \in 1 .. Len(p) + Len(q) /\ 3 \in 1 .. Len(p) + Len(q)
  OBVIOUS
<1>2. /\ (p \o q)[1] = IF 1 <= Len(p) THEN p[1] ELSE q[1 - Len(p)]
      /\ (p \o q)[2] = IF 2 <= Len(p) THEN p[2] ELSE q[2 - Len(p)]
      /\ (p \o q)[3] = IF 3 <= Len(p) THEN p[3] ELSE q[3 - Len(p)]
  BY <1>1, ConcatIsSeq
<1>3. 1 <= Len(p) /\ ~(2 <= Len(p)) /\ ~(3 <= Len(p)) /\ 2 - Len(p) = 1 /\ 3 - Len(p) = 2
  OBVIOUS
<1> QED BY <1>2, <1>3

\* An import is put into a map once.
KeysApart(map) == \A j, k \in DOMAIN map : map[j][1] = map[k][1] => j = k

\* The vector when one import takes the place of another.
Replaced(fs, old, new) ==
    IF new # old /\ Contains(fs, new) THEN RemoveFirst(fs, old) ELSE ReplaceAll(fs, old, new)

LEMMA ReplacedIs ==
    ASSUME NEW fs, IsSeq(fs), NEW old, NEW new, old \in ToSet(fs), NEW t, t = Replaced(fs, old, new)
    PROVE  /\ IsSeq(t)
           /\ Distinct(fs) => Distinct(t)
           /\ \A x \in ToSet(fs) : x # old => x \in ToSet(t)
           /\ new \in ToSet(t)
           /\ \A x \in ToSet(t) : x = new \/ x \in ToSet(fs)
<1>0. DOMAIN fs = 1 .. Len(fs)
  BY IsSeqLen
<1>1. CASE new # old /\ Contains(fs, new)
  <2>1. t = RemoveFirst(fs, old)
    BY <1>1 DEF Replaced
  <2>2. new \in ToSet(fs)
    BY <1>0, <1>1 DEF Contains, ToSet
  <2> QED BY <1>1, <2>1, <2>2, RemoveFirstIs
<1>2. CASE ~(new # old /\ Contains(fs, new))
  <2>1. t = ReplaceAll(fs, old, new)
    BY <1>2 DEF Replaced
  <2>2. new = old \/ new \notin ToSet(fs)
    BY <1>0, <1>2 DEF Contains, ToSet
  <2> QED BY <2>1, <2>2, ReplaceAllIs
<1> QED BY <1>1, <1>2

LEMMA CalledAs ==
    ASSUME NEW is, IsSeq(is), NEW n \in DOMAIN is, NEW x, NEW y, NEW new, new = Called(is, n, x, y)
    PROVE  /\ IsSeq(new) /\ Len(new) = Len(is) + 1 /\ DOMAIN new = 1 .. Len(is) + 1
           /\ \A k \in DOMAIN new : new[k] = IF k < n THEN is[k] ELSE IF k = n THEN x ELSE IF k = n + 1 THEN y ELSE is[k - 1]
<1>1. /\ IsSeq(new) /\ Len(new) = Len(is) + 1
      /\ \A k \in DOMAIN new : new[k] = IF k < n THEN is[k] ELSE IF k = n THEN x ELSE IF k = n + 1 THEN y ELSE is[k - 1]
  BY CalledIs
<1>2. DOMAIN new = 1 .. Len(is) + 1
  BY <1>1, IsSeqLen
<1> QED BY <1>1, <1>2

===============================================================================
