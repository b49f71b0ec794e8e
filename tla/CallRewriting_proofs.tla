------------------------- MODULE CallRewriting_proofs -------------------------
(***************************************************************************)
(* Proofs about CallRewriting, for every function: a built-in is removed   *)
(* when nothing uses it any more and only then, and the walk ends although *)
(* the handlers edit what it walks over.                                   *)
(***************************************************************************)
EXTENDS CallRewriting, Induction, FiniteSetTheorems

----------------------------------------------------------------------------
(* The instructions that the handlers leave are not calls.                 *)

NoCall(is) == IsSeq(is) /\ \A k \in DOMAIN is : is[k].op # \h10

LEMMA InstFields ==
    /\ \A op, type, arg : Inst(op, type, arg).op = op
    /\ \A op : Op(op).op = op
    /\ \A op, value : Constant(op, value).op = op
    /\ \A op, align : [Op(op) EXCEPT !.align = align].op = op
<1>1. \A op, type, arg : Inst(op, type, arg).op = op
  BY DEF Inst
<1>2. \A op : Op(op).op = op
  BY DEF Op, Inst
<1>3. \A op, value : Constant(op, value).op = op
  BY DEF Constant, Inst
<1>4. \A op, align : [Op(op) EXCEPT !.align = align].op = op
  BY DEF Op, Inst
<1> QED BY <1>1, <1>2, <1>3, <1>4

LEMMA SingleNoCall ==
    ASSUME NEW inst, inst.op # \h10
    PROVE  NoCall(<<inst>>)
<1>1. IsSeq(<<inst>>) /\ <<inst>>[1] = inst /\ DOMAIN <<inst>> = {1}
  BY SingletonIs
<1> QED BY <1>1 DEF NoCall

LEMMA PairNoCall ==
    ASSUME NEW a, a.op # \h10, NEW b, b.op # \h10
    PROVE  NoCall(<<a, b>>)
<1> DEFINE s == <<a, b>>
<1>1. IsSeq(s) /\ s[1] = a /\ s[2] = b /\ Len(s) = 2
  BY PairIsSeq
<1> HIDE DEF s
<1>2. DOMAIN s = 1 .. 2
  BY <1>1, IsSeqLen
<1>3. \A k \in 1 .. 2 : k = 1 \/ k = 2
  OBVIOUS
<1>4. NoCall(s)
  BY <1>1, <1>2, <1>3 DEF NoCall
<1> QED BY <1>4 DEF s

LEMMA HandlerCode ==
    /\ \A name, params, results, is : H(name, params, results, is).code = is
    /\ \A name, type, op : Unary(name, type, op).code = <<Op(op)>>
<1>1. \A name, params, results, is : H(name, params, results, is).code = is
  BY DEF H
<1>2. \A name, type, op : Unary(name, type, op).code = <<Op(op)>>
  BY DEF H, Unary
<1> QED BY <1>1, <1>2

LEMMA AccessNoCall ==
    ASSUME NEW op, op # \h10, NEW align
    PROVE  NoCall(Access(op, align))
<1> DEFINE inst == [Op(op) EXCEPT !.align = align]
<1>1. inst.op # \h10
  BY InstFields
<1>2. Access(op, align) = <<inst>>
  BY DEF Access
<1> HIDE DEF inst
<1> QED BY <1>1, <1>2, SingleNoCall

LEMMA OpNoCall ==
    ASSUME NEW op, op # \h10
    PROVE  NoCall(<<Op(op)>>)
<1> DEFINE inst == Op(op)
<1>1. inst.op # \h10
  BY InstFields
<1> HIDE DEF inst
<1>2. NoCall(<<inst>>)
  BY <1>1, SingleNoCall
<1> QED BY <1>2 DEF inst

LEMMA CompareNoCall ==
    ASSUME NEW a, NEW value, NEW b, a # \h10, b # \h10
    PROVE  NoCall(<<Constant(a, value), Op(b)>>)
<1> DEFINE c == Constant(a, value)
           d == Op(b)
<1>1. c.op # \h10 /\ d.op # \h10
  BY InstFields
<1> HIDE DEF c, d
<1>2. NoCall(<<c, d>>)
  BY <1>1, PairNoCall
<1> QED BY <1>2 DEF c, d

LEMMA RmwNoCall ==
    ASSUME NEW prefix, NEW suffix, NEW type, NEW first \in Nat, first > \h10, NEW align
    PROVE  \A h \in Rmw(prefix, suffix, type, first, align) : NoCall(h.code)
<1>1. SUFFICES ASSUME NEW h \in Rmw(prefix, suffix, type, first, align) PROVE NoCall(h.code)
  OBVIOUS
<1>2. PICK k \in DOMAIN RmwNames :
          h = H(prefix \o "_" \o RmwNames[k] \o suffix, <<I32, type>>, <<type>>, Access(first + 7 * (k - 1), align))
  BY <1>1 DEF Rmw
<1>3. h.code = Access(first + 7 * (k - 1), align)
  BY <1>2, Zenon DEF H
<1>4. k \in 1 .. 6
  BY DEF RmwNames
<1>5. first + 7 * (k - 1) # \h10
  BY <1>4, SMT
<1> QED BY <1>3, <1>5, AccessNoCall

LEMMA WaitsNoCall == \A h \in Waits : NoCall(h.code)
<1>1. \A op \in {\hFE00, \hFE01, \hFE02} : NoCall(Access(op, 2))
  BY AccessNoCall, SMT
<1>2. NoCall(<<Op(\hFE03)>>)
  BY OpNoCall, SMT
<1> QED BY <1>1, <1>2, HandlerCode, SMT DEF Waits

LEMMA Access8NoCall == \A h \in Access8 : NoCall(h.code)
<1>1. \A h \in Rmw("i32_atomic_rmw8", "_u", I32, \hFE20, 0) : NoCall(h.code)
  BY RmwNoCall, SMT
<1>2. \A op \in {\hFE12, \hFE19, \hFE4A} : NoCall(Access(op, 0))
  BY AccessNoCall, SMT
<1> QED BY <1>1, <1>2, HandlerCode, SMT DEF Access8

LEMMA Access16NoCall == \A cmpxchg : \A h \in Access16(cmpxchg) : NoCall(h.code)
<1>1. \A h \in Rmw("i32_atomic_rmw16", "_u", I32, \hFE21, 1) : NoCall(h.code)
  BY RmwNoCall, SMT
<1>2. \A op \in {\hFE13, \hFE1A, \hFE4B} : \A align : NoCall(Access(op, align))
  BY AccessNoCall, SMT
<1> QED BY <1>1, <1>2, HandlerCode, SMT DEF Access16

LEMMA Access32NoCall == \A load : \A h \in Access32(load) : NoCall(h.code)
<1>1. \A h \in Rmw("i32_atomic_rmw", NoSuffix, I32, \hFE1E, 2) : NoCall(h.code)
  BY RmwNoCall, SMT
<1>2. \A op \in {\hFE10, \hFE17, \hFE48} : \A align : NoCall(Access(op, align))
  BY AccessNoCall, SMT
<1> QED BY <1>1, <1>2, HandlerCode, SMT DEF Access32

LEMMA Access64NoCall == \A h \in Access64 : NoCall(h.code)
<1>1. \A h \in Rmw("i64_atomic_rmw", NoSuffix, I64, \hFE1F, 3) : NoCall(h.code)
  BY RmwNoCall, SMT
<1>2. \A op \in {\hFE02, \hFE11, \hFE18, \hFE49} : NoCall(Access(op, 3))
  BY AccessNoCall, SMT
<1> QED BY <1>1, <1>2, HandlerCode, SMT DEF Access64

LEMMA FloatNoCall == \A h \in BuiltinF64 \cup BuiltinF32 : NoCall(h.code)
<1>1. \A op \in {\h9B, \h9C, \h99, \h9E, \h9D, \hA6, \h8D, \h8E, \h90, \h8B, \h8F, \h91, \h98} :
          NoCall(<<Op(op)>>)
  BY OpNoCall, SMT
<1>2. \A value : /\ NoCall(<<Constant(\h44, value), Op(\h61)>>)
                 /\ NoCall(<<Constant(\h43, value), Op(\h5B)>>)
  BY CompareNoCall, SMT
<1>3. \A h \in BuiltinF64 : NoCall(h.code)
  <2> SUFFICES ASSUME NEW h \in BuiltinF64 PROVE NoCall(h.code)
    OBVIOUS
  <2>1. \/ \E op \in {\h9B, \h9C, \h99, \h9E, \h9D, \hA6} : h.code = <<Op(op)>>
        \/ \E value : h.code = <<Constant(\h44, value), Op(\h61)>>
    BY HandlerCode, SMT DEF BuiltinF64
  <2>2. CASE \E op \in {\h9B, \h9C, \h99, \h9E, \h9D, \hA6} : h.code = <<Op(op)>>
    BY <1>1, <2>2, SMT
  <2>3. CASE \E value : h.code = <<Constant(\h44, value), Op(\h61)>>
    BY <1>2, <2>3, ZenonT(60)
  <2> QED BY <2>1, <2>2, <2>3
<1>4. \A h \in BuiltinF32 : NoCall(h.code)
  <2> SUFFICES ASSUME NEW h \in BuiltinF32 PROVE NoCall(h.code)
    OBVIOUS
  <2>1. \/ \E op \in {\h8D, \h8E, \h90, \h8B, \h8F, \h91, \h98} : h.code = <<Op(op)>>
        \/ \E value : h.code = <<Constant(\h43, value), Op(\h5B)>>
    BY HandlerCode, SMT DEF BuiltinF32
  <2>2. CASE \E op \in {\h8D, \h8E, \h90, \h8B, \h8F, \h91, \h98} : h.code = <<Op(op)>>
    BY <1>1, <2>2, SMT
  <2>3. CASE \E value : h.code = <<Constant(\h43, value), Op(\h5B)>>
    BY <1>2, <2>3, Zenon
  <2> QED BY <2>1, <2>2, <2>3
<1> QED BY <1>3, <1>4

LEMMA OtherNoCall == \A h \in BuiltinMemory \cup CoreOther : NoCall(h.code)
<1>1. \A op \in {\hFC0A, \h3F, \h40, \hFC0B, \hFC10, \h9B, \h9C, \h8B} : NoCall(<<Op(op)>>)
  BY OpNoCall, SMT
<1>2. \A h \in MemoryHandlers : NoCall(h.code)
  BY <1>1, HandlerCode, SMT DEF MemoryHandlers
<1> QED BY <1>1, <1>2, HandlerCode, SMT DEF BuiltinMemory, CoreOther

LEMMA HandlersNoCall == \A map : \A h \in HandlersOf(map) : NoCall(h.code)
BY WaitsNoCall, Access8NoCall, Access16NoCall, Access32NoCall, Access64NoCall, FloatNoCall, OtherNoCall
   DEF HandlersOf, BuiltinHandlers, CoreHandlers, BuiltinAtomic8, BuiltinAtomic16, BuiltinAtomic32,
       BuiltinAtomic64, CoreAtomic8, CoreAtomic16, CoreAtomic32, CoreAtomic64

----------------------------------------------------------------------------
(* Counting the calls.                                                     *)

Calls(is, from, to, names) == {k \in from .. to : IsCall(is[k], names)}
Count(is, names) == Cardinality(Calls(is, 1, Len(is), names))

LEMMA CallsFinite ==
    ASSUME NEW is, NEW from \in Int, NEW to \in Int, NEW names
    PROVE  IsFiniteSet(Calls(is, from, to, names)) /\ Cardinality(Calls(is, from, to, names)) \in Nat
<1>1. IsFiniteSet(from .. to)
  BY FS_Interval
<1>2. Calls(is, from, to, names) \in SUBSET (from .. to)
  BY DEF Calls
<1>3. IsFiniteSet(Calls(is, from, to, names))
  BY <1>1, <1>2, FS_Subset
<1> QED BY <1>3, FS_CardinalityType

LEMMA ShiftCount ==
    ASSUME NEW A \in SUBSET Int, IsFiniteSet(A), NEW B \in SUBSET Int, NEW d \in Int,
           \A k \in Int : k \in A <=> k + d \in B
    PROVE  IsFiniteSet(B) /\ Cardinality(B) = Cardinality(A)
<1> DEFINE f == [k \in A |-> k + d]
<1>1. f \in [A -> B]
  OBVIOUS
<1>2. \A a, b \in A : f[a] = f[b] => a = b
  OBVIOUS
<1>3. \A b \in B : \E a \in A : f[a] = b
  <2> TAKE b \in B
  <2>1. b - d \in Int /\ (b - d) + d = b
    OBVIOUS
  <2>2. b - d \in A
    BY <2>1
  <2> QED BY <2>1, <2>2
<1> HIDE DEF f
<1>4. f \in Bijection(A, B)
  BY <1>1, <1>2, <1>3 DEF Bijection, Injection, IsInjective, Surjection
<1> QED BY <1>4, FS_Bijection DEF ExistsBijection

LEMMA SplitCount ==
    ASSUME NEW A, IsFiniteSet(A), NEW B, IsFiniteSet(B), A \cap B = {}
    PROVE  Cardinality(A \cup B) = Cardinality(A) + Cardinality(B)
<1>1. Cardinality(A \cup B) = Cardinality(A) + Cardinality(B) - Cardinality(A \cap B)
  BY FS_Union
<1>2. Cardinality(A \cap B) = 0
  BY FS_EmptySet
<1>3. Cardinality(A) \in Nat /\ Cardinality(B) \in Nat
  BY FS_CardinalityType
<1> QED BY <1>1, <1>2, <1>3

LEMMA ConcatAhead ==
    ASSUME NEW s, IsSeq(s), NEW t, IsSeq(t), NEW names
    PROVE  Cardinality(Calls(s \o t, Len(s) + 1, Len(s \o t), names)) = Count(t, names)
<1>1. Len(s) \in Nat /\ Len(t) \in Nat
  BY IsSeqLen
<1>2. /\ Len(s \o t) = Len(s) + Len(t)
      /\ \A k \in 1 .. Len(s) + Len(t) : (s \o t)[k] = IF k <= Len(s) THEN s[k] ELSE t[k - Len(s)]
  BY ConcatIsSeq
<1> DEFINE A == Calls(t, 1, Len(t), names)
           B == Calls(s \o t, Len(s) + 1, Len(s \o t), names)
<1>3. A \in SUBSET Int /\ B \in SUBSET Int
  BY <1>1, <1>2 DEF Calls
<1>4. ASSUME NEW k \in Int PROVE k \in A <=> k + Len(s) \in B
  <2>1. k \in 1 .. Len(t) <=> k + Len(s) \in Len(s) + 1 .. Len(s \o t)
    BY <1>1, <1>2
  <2>2. k \in 1 .. Len(t) => (s \o t)[k + Len(s)] = t[k]
    <3> HAVE k \in 1 .. Len(t)
    <3>1. k + Len(s) \in 1 .. Len(s) + Len(t) /\ ~(k + Len(s) <= Len(s)) /\ (k + Len(s)) - Len(s) = k
      BY <1>1
    <3> QED BY <3>1, <1>2
  <2> QED BY <2>1, <2>2 DEF Calls
<1>5. IsFiniteSet(A)
  BY <1>1, CallsFinite
<1> HIDE DEF A, B
<1> DEFINE d == Len(s)
<1>6. Cardinality(B) = Cardinality(A)
  <2>1. d \in Int /\ \A k \in Int : k \in A <=> k + d \in B
    BY <1>1, <1>4
  <2> HIDE DEF d
  <2> QED BY <1>3, <1>5, <2>1, ShiftCount
<1> QED BY <1>6 DEF A, B, Count

LEMMA CountConcat ==
    ASSUME NEW s, IsSeq(s), NEW t, IsSeq(t), NEW names
    PROVE  Count(s \o t, names) = Count(s, names) + Count(t, names)
<1>1. Len(s) \in Nat /\ Len(t) \in Nat
  BY IsSeqLen
<1>2. /\ Len(s \o t) = Len(s) + Len(t)
      /\ \A k \in 1 .. Len(s) + Len(t) : (s \o t)[k] = IF k <= Len(s) THEN s[k] ELSE t[k - Len(s)]
  BY ConcatIsSeq
<1> DEFINE A == Calls(s, 1, Len(s), names)
           B == Calls(s \o t, Len(s) + 1, Len(s \o t), names)
<1>3. Calls(s \o t, 1, Len(s \o t), names) = A \cup B
  <2>1. ASSUME NEW k \in 1 .. Len(s) PROVE k \in 1 .. Len(s \o t) /\ (s \o t)[k] = s[k]
    BY <1>1, <1>2
  <2>2. \A k \in 1 .. Len(s \o t) : k \in 1 .. Len(s) \/ k \in Len(s) + 1 .. Len(s \o t)
    BY <1>1, <1>2
  <2>3. \A k \in Len(s) + 1 .. Len(s \o t) : k \in 1 .. Len(s \o t)
    BY <1>1, <1>2
  <2> QED BY <2>1, <2>2, <2>3 DEF Calls
<1>4. A \cap B = {}
  BY <1>1 DEF Calls
<1>5. IsFiniteSet(A) /\ IsFiniteSet(B)
  BY <1>1, <1>2, CallsFinite
<1>6. Cardinality(B) = Count(t, names)
  BY ConcatAhead
<1> HIDE DEF A, B
<1>7. Cardinality(A \cup B) = Cardinality(A) + Cardinality(B)
  BY <1>4, <1>5, SplitCount
<1> QED BY <1>3, <1>6, <1>7 DEF A, Count

LEMMA CountNoCall ==
    ASSUME NEW is, NoCall(is), NEW names
    PROVE  Count(is, names) = 0
<1>1. Calls(is, 1, Len(is), names) = {}
  <2>1. DOMAIN is = 1 .. Len(is)
    BY IsSeqLen DEF NoCall
  <2> QED BY <2>1 DEF Calls, NoCall, IsCall
<1> QED BY <1>1, FS_EmptySet DEF Count

LEMMA CountOne ==
    ASSUME NEW inst, NEW names
    PROVE  Count(<<inst>>, names) = IF IsCall(inst, names) THEN 1 ELSE 0
<1> DEFINE s == <<inst>>
<1>1. IsSeq(s) /\ Len(s) = 1 /\ s[1] = inst
  BY SingletonIs
<1> HIDE DEF s
<1>2. \A k : k \in 1 .. 1 <=> k = 1
  OBVIOUS
<1>3. CASE IsCall(inst, names)
  <2>1. Calls(s, 1, Len(s), names) = {1}
    BY <1>1, <1>2, <1>3 DEF Calls
  <2> QED BY <2>1, <1>3, FS_Singleton DEF Count, s
<1>4. CASE ~IsCall(inst, names)
  <2>1. Calls(s, 1, Len(s), names) = {}
    BY <1>1, <1>2, <1>4 DEF Calls
  <2> QED BY <2>1, <1>4, FS_EmptySet DEF Count, s
<1> QED BY <1>3, <1>4

LEMMA UsesCount ==
    ASSUME NEW is, IsSeq(is), NEW elems, NEW name
    PROVE  Uses(is, elems, name) = Count(is, {name}) + IF name \in elems THEN 1 ELSE 0
<1>1. DOMAIN is = 1 .. Len(is)
  BY IsSeqLen
<1> QED BY <1>1 DEF Uses, Count, Calls

LEMMA CountType ==
    ASSUME NEW is, IsSeq(is), NEW names
    PROVE  Count(is, names) \in Nat
BY IsSeqLen, CallsFinite DEF Count

LEMMA PartIsSeq ==
    ASSUME NEW is, IsSeq(is), NEW m \in Nat \ {0}, NEW n \in Int, n <= Len(is)
    PROVE  /\ IsSeq(SubSeq(is, m, n))
           /\ Len(SubSeq(is, m, n)) = IF m <= n THEN n - m + 1 ELSE 0
           /\ \A i \in 1 .. n - m + 1 : SubSeq(is, m, n)[i] = is[m + i - 1]
<1>1. Len(is) \in Nat /\ DOMAIN is = 1 .. Len(is)
  BY IsSeqLen
<1>2. \A i \in m .. n : i \in DOMAIN is
  BY <1>1
<1>3. \A i \in m .. n : is[i] \in ToSet(is)
  BY <1>2 DEF ToSet
<1>4. /\ SubSeq(is, m, n) \in Seq(ToSet(is))
      /\ Len(SubSeq(is, m, n)) = IF m <= n THEN n - m + 1 ELSE 0
      /\ \A i \in 1 .. n - m + 1 : SubSeq(is, m, n)[i] = is[m + i - 1]
  BY <1>3, SubSeqProperties
<1> QED BY <1>4, SeqIsSeq

\* A sequence is what is before x, x and what is behind it.
LEMMA CountParts ==
    ASSUME NEW is, IsSeq(is), NEW at \in 1 .. Len(is), NEW names
    PROVE  Count(is, names) = Count(SubSeq(is, 1, at - 1), names)
                              + (IF IsCall(is[at], names) THEN 1 ELSE 0)
                              + Count(SubSeq(is, at + 1, Len(is)), names)
<1> DEFINE B == SubSeq(is, 1, at - 1)
           A == SubSeq(is, at + 1, Len(is))
           C == <<is[at]>>
<1>1. Len(is) \in Nat /\ at \in Nat /\ at - 1 \in Nat /\ at - 1 <= Len(is) /\ at + 1 \in Nat \ {0}
  BY IsSeqLen
<1>2. /\ IsSeq(B) /\ Len(B) = at - 1
      /\ \A i \in 1 .. at - 1 : B[i] = is[i]
  <2>1. /\ IsSeq(SubSeq(is, 1, at - 1))
        /\ Len(SubSeq(is, 1, at - 1)) = IF 1 <= at - 1 THEN at - 1 - 1 + 1 ELSE 0
        /\ \A i \in 1 .. at - 1 - 1 + 1 : SubSeq(is, 1, at - 1)[i] = is[1 + i - 1]
    BY <1>1, PartIsSeq
  <2>2. \A i \in 1 .. at - 1 : i \in 1 .. at - 1 - 1 + 1 /\ 1 + i - 1 = i
    BY <1>1
  <2>3. (IF 1 <= at - 1 THEN at - 1 - 1 + 1 ELSE 0) = at - 1
    BY <1>1
  <2> QED BY <2>1, <2>2, <2>3
<1>3. /\ IsSeq(A) /\ Len(A) = Len(is) - at
      /\ \A i \in 1 .. Len(is) - at : A[i] = is[at + i]
  <2>1. /\ IsSeq(SubSeq(is, at + 1, Len(is)))
        /\ Len(SubSeq(is, at + 1, Len(is))) = IF at + 1 <= Len(is) THEN Len(is) - (at + 1) + 1 ELSE 0
        /\ \A i \in 1 .. Len(is) - (at + 1) + 1 : SubSeq(is, at + 1, Len(is))[i] = is[at + 1 + i - 1]
    BY <1>1, PartIsSeq
  <2>2. \A i \in 1 .. Len(is) - at : i \in 1 .. Len(is) - (at + 1) + 1 /\ at + 1 + i - 1 = at + i
    BY <1>1
  <2>3. (IF at + 1 <= Len(is) THEN Len(is) - (at + 1) + 1 ELSE 0) = Len(is) - at
    BY <1>1
  <2> QED BY <2>1, <2>2, <2>3
<1>4. IsSeq(C) /\ Len(C) = 1 /\ C[1] = is[at]
  BY SingletonIs
<1> HIDE DEF A, B, C
<1>5. /\ IsSeq(B \o C) /\ Len(B \o C) = at
      /\ \A k \in 1 .. at : (B \o C)[k] = is[k]
  <2>1. /\ IsSeq(B \o C) /\ Len(B \o C) = Len(B) + Len(C)
        /\ \A k \in 1 .. Len(B) + Len(C) : (B \o C)[k] = IF k <= Len(B) THEN B[k] ELSE C[k - Len(B)]
    BY <1>2, <1>4, ConcatIsSeq
  <2>2. ASSUME NEW k \in 1 .. at PROVE (B \o C)[k] = is[k]
    <3>1. CASE k <= at - 1
      BY <3>1, <2>1, <1>1, <1>2, <1>4
    <3>2. CASE k = at
      <4>1. k \in 1 .. Len(B) + Len(C) /\ ~(k <= Len(B)) /\ k - Len(B) = 1
        BY <3>2, <1>1, <1>2, <1>4
      <4>2. (B \o C)[k] = C[k - Len(B)]
        BY <4>1, <2>1
      <4>3. C[k - Len(B)] = C[1]
        BY <4>1
      <4> QED BY <4>2, <4>3, <3>2, <1>4
    <3>3. k <= at - 1 \/ k = at
      BY <1>1
    <3> QED BY <3>1, <3>2, <3>3
  <2> QED BY <2>1, <2>2, <1>1, <1>2, <1>4
<1>6. (B \o C) \o A = is
  <2>1. /\ IsSeq((B \o C) \o A) /\ Len((B \o C) \o A) = Len(B \o C) + Len(A)
        /\ \A k \in 1 .. Len(B \o C) + Len(A) :
              ((B \o C) \o A)[k] = IF k <= Len(B \o C) THEN (B \o C)[k] ELSE A[k - Len(B \o C)]
    BY <1>3, <1>5, ConcatIsSeq
  <2>2. Len((B \o C) \o A) = Len(is)
    BY <2>1, <1>1, <1>3, <1>5
  <2>3. ASSUME NEW k \in 1 .. Len(is) PROVE ((B \o C) \o A)[k] = is[k]
    <3>1. CASE k <= at
      BY <3>1, <2>1, <1>1, <1>3, <1>5
    <3>2. CASE k > at
      <4>1. k \in 1 .. Len(B \o C) + Len(A) /\ ~(k <= Len(B \o C))
        BY <3>2, <1>1, <1>3, <1>5
      <4>2. k - at \in 1 .. Len(is) - at /\ at + (k - at) = k
        BY <3>2, <1>1
      <4>3. A[k - at] = is[k]
        BY <4>2, <1>3
      <4>4. ((B \o C) \o A)[k] = A[k - Len(B \o C)]
        BY <4>1, <2>1
      <4>5. A[k - Len(B \o C)] = A[k - at]
        BY <1>5
      <4> QED BY <4>3, <4>4, <4>5
    <3>3. k <= at \/ k > at
      BY <1>1
    <3> QED BY <3>1, <3>2, <3>3
  <2>4. (B \o C) \o A \in Seq(ToSet((B \o C) \o A)) /\ is \in Seq(ToSet(is))
    BY <2>1 DEF IsSeq
  <2>5. (B \o C) \o A = [k \in 1 .. Len(is) |-> ((B \o C) \o A)[k]]
    BY <2>2, <2>4, LenProperties
  <2>6. is = [k \in 1 .. Len(is) |-> is[k]]
    BY <2>4, LenProperties
  <2> DEFINE D == (B \o C) \o A
  <2> HIDE DEF D
  <2>7. [k \in 1 .. Len(is) |-> D[k]] = [k \in 1 .. Len(is) |-> is[k]]
    BY <2>3 DEF D
  <2> QED BY <2>5, <2>6, <2>7 DEF D
<1>7. Count((B \o C) \o A, names) = Count(B, names) + Count(C, names) + Count(A, names)
  BY <1>2, <1>3, <1>4, <1>5, CountConcat
<1>8. Count(C, names) = IF IsCall(is[at], names) THEN 1 ELSE 0
  BY CountOne DEF C
<1> QED BY <1>6, <1>7, <1>8 DEF A, B

LEMMA CallsNext ==
    ASSUME NEW is, NEW from \in Int, NEW to \in Int, from <= to + 1, NEW names
    PROVE  Cardinality(Calls(is, from, to + 1, names))
              = Cardinality(Calls(is, from, to, names)) + IF IsCall(is[to + 1], names) THEN 1 ELSE 0
<1> DEFINE A == Calls(is, from, to, names)
<1>1. IsFiniteSet(A) /\ Cardinality(A) \in Nat /\ to + 1 \notin A
  <2>1. to + 1 \notin from .. to
    OBVIOUS
  <2> QED BY <2>1, CallsFinite DEF Calls
<1>2. \A k : k \in from .. to + 1 <=> k \in from .. to \/ k = to + 1
  OBVIOUS
<1>3. CASE IsCall(is[to + 1], names)
  <2>1. Calls(is, from, to + 1, names) = A \cup {to + 1}
    BY <1>2, <1>3 DEF Calls
  <2> HIDE DEF A
  <2>2. Cardinality(A \cup {to + 1}) = Cardinality(A) + 1
    BY <1>1, FS_AddElement
  <2> QED BY <2>1, <2>2, <1>3 DEF A
<1>4. CASE ~IsCall(is[to + 1], names)
  <2>1. Calls(is, from, to + 1, names) = A
    BY <1>2, <1>4 DEF Calls
  <2> QED BY <2>1, <1>1, <1>4
<1> QED BY <1>3, <1>4

LEMMA CallsNone ==
    ASSUME NEW is, NEW from \in Int, NEW to \in Int, to < from, NEW names
    PROVE  Cardinality(Calls(is, from, to, names)) = 0
<1>1. from .. to = {}
  OBVIOUS
<1>2. Calls(is, from, to, names) = {}
  BY <1>1 DEF Calls
<1> QED BY <1>2, FS_EmptySet

----------------------------------------------------------------------------
(* What the edits of alloca keep: the calls before and behind a place.     *)

NoneUpTo(is, to, names) == \A j \in 1 .. Len(is) : j <= to => ~IsCall(is[j], names)
Behind(is, at, names) == Calls(is, at + 1, Len(is), names)
SameCalls(a, b, names) ==
    /\ Count(b, names) = Count(a, names)
    /\ \A at \in Nat : Behind(b, at, names) = Behind(a, at, names)
    /\ \A at \in Nat : NoneUpTo(a, at, names) => NoneUpTo(b, at, names)
    /\ NoneUpTo(a, Len(a), names) => NoneUpTo(b, Len(b), names)
ShiftedCalls(a, b, d, names) ==
    /\ Count(b, names) = Count(a, names)
    /\ \A at \in Nat : Cardinality(Behind(b, at + d, names)) = Cardinality(Behind(a, at, names))
    /\ \A at \in Nat : NoneUpTo(a, at, names) => NoneUpTo(b, at + d, names)
    /\ NoneUpTo(a, Len(a), names) => NoneUpTo(b, Len(b), names)
Cut(s) == SubSeq(s, 1, Len(s) - 3)

LEMMA ExtendKeeps ==
    ASSUME NEW s, IsSeq(s), NEW t, NoCall(t), NEW names
    PROVE  /\ IsSeq(s \o t) /\ Len(s \o t) = Len(s) + Len(t)
           /\ \A j \in 1 .. Len(s) : (s \o t)[j] = s[j]
           /\ SameCalls(s, s \o t, names)
<1>1. Len(s) \in Nat /\ IsSeq(t) /\ Len(t) \in Nat /\ DOMAIN t = 1 .. Len(t)
  BY IsSeqLen DEF NoCall
<1> DEFINE n == s \o t
<1>2. /\ IsSeq(n) /\ Len(n) = Len(s) + Len(t)
      /\ \A k \in 1 .. Len(s) + Len(t) : n[k] = IF k <= Len(s) THEN s[k] ELSE t[k - Len(s)]
  BY <1>1, ConcatIsSeq
<1>3. Count(n, names) = Count(s, names)
  <2>1. Count(n, names) = Count(s, names) + Count(t, names)
    BY <1>1, CountConcat
  <2>2. Count(t, names) = 0 /\ Count(s, names) \in Nat
    BY CountNoCall, CountType
  <2> QED BY <2>1, <2>2
<1> HIDE DEF n
<1>4. \A j \in 1 .. Len(s) : n[j] = s[j] /\ j \in 1 .. Len(n)
  BY <1>1, <1>2
<1>5. ASSUME NEW j \in 1 .. Len(n), j > Len(s) PROVE ~IsCall(n[j], names)
  <2>1. j - Len(s) \in DOMAIN t /\ j \in 1 .. Len(s) + Len(t) /\ ~(j <= Len(s))
    BY <1>1, <1>2, <1>5
  <2>2. n[j] = t[j - Len(s)]
    BY <2>1, <1>2
  <2> QED BY <2>1, <2>2 DEF NoCall, IsCall
<1>6. ASSUME NEW j \in 1 .. Len(n), IsCall(n[j], names)
      PROVE  j \in 1 .. Len(s) /\ n[j] = s[j]
  <2>1. ~(j > Len(s))
    BY <1>5, <1>6
  <2>2. j \in 1 .. Len(s)
    BY <2>1, <1>1, <1>2
  <2> QED BY <2>2, <1>4
<1>7. ASSUME NEW at \in Nat PROVE Behind(n, at, names) = Behind(s, at, names)
  <2>1. \A j : j \in at + 1 .. Len(n) /\ IsCall(n[j], names) => j \in at + 1 .. Len(s) /\ n[j] = s[j]
    <3> SUFFICES ASSUME NEW j \in at + 1 .. Len(n), IsCall(n[j], names)
                 PROVE  j \in at + 1 .. Len(s) /\ n[j] = s[j]
      OBVIOUS
    <3>1. j \in 1 .. Len(n)
      BY <1>1, <1>2
    <3>2. j \in 1 .. Len(s) /\ n[j] = s[j]
      BY <3>1, <1>6
    <3> QED BY <3>2, <1>1, <1>2
  <2>2. \A j \in at + 1 .. Len(s) : j \in at + 1 .. Len(n) /\ n[j] = s[j]
    <3> TAKE j \in at + 1 .. Len(s)
    <3>1. j \in 1 .. Len(s) /\ j \in at + 1 .. Len(n)
      BY <1>1, <1>2
    <3> QED BY <3>1, <1>4
  <2> QED BY <2>1, <2>2 DEF Behind, Calls
<1>8. ASSUME NEW at \in Nat, NoneUpTo(s, at, names) PROVE NoneUpTo(n, at, names)
  BY <1>6, <1>8 DEF NoneUpTo
<1>9. ASSUME NoneUpTo(s, Len(s), names) PROVE NoneUpTo(n, Len(n), names)
  <2>1. \A j \in 1 .. Len(s) : ~IsCall(s[j], names)
    BY <1>1, <1>9 DEF NoneUpTo
  <2> QED BY <2>1, <1>6 DEF NoneUpTo
<1>10. SameCalls(s, n, names)
  BY <1>3, <1>7, <1>8, <1>9 DEF SameCalls
<1> QED BY <1>2, <1>4, <1>10 DEF n

LEMMA PrefixKeeps ==
    ASSUME NEW f, NoCall(f), NEW s, IsSeq(s), NEW names
    PROVE  /\ IsSeq(f \o s) /\ Len(f) \in Nat /\ Len(f \o s) = Len(f) + Len(s)
           /\ \A j \in 1 .. Len(s) : (f \o s)[j + Len(f)] = s[j]
           /\ ShiftedCalls(s, f \o s, Len(f), names)
<1>1. Len(s) \in Nat /\ IsSeq(f) /\ Len(f) \in Nat /\ DOMAIN f = 1 .. Len(f)
  BY IsSeqLen DEF NoCall
<1> DEFINE n == f \o s
           d == Len(f)
<1>2. /\ IsSeq(n) /\ Len(n) = Len(f) + Len(s)
      /\ \A k \in 1 .. Len(f) + Len(s) : n[k] = IF k <= Len(f) THEN f[k] ELSE s[k - Len(f)]
  BY <1>1, ConcatIsSeq
<1>3. Count(n, names) = Count(s, names)
  <2>1. Count(n, names) = Count(f, names) + Count(s, names)
    BY <1>1, CountConcat
  <2>2. Count(f, names) = 0 /\ Count(s, names) \in Nat
    BY CountNoCall, CountType
  <2> QED BY <2>1, <2>2
<1> HIDE DEF n, d
<1>4. d \in Nat /\ Len(n) = d + Len(s)
  BY <1>1, <1>2 DEF d
<1>5. ASSUME NEW j \in 1 .. Len(s) PROVE n[j + d] = s[j] /\ j + d \in 1 .. Len(n)
  <2>1. j + d \in 1 .. d + Len(s) /\ ~(j + d <= d) /\ (j + d) - d = j
    BY <1>1, <1>4
  <2>2. n[j + d] = s[(j + d) - d]
    BY <2>1, <1>2 DEF d
  <2> QED BY <2>1, <2>2, <1>4
<1>6. ASSUME NEW j \in 1 .. Len(n), IsCall(n[j], names)
      PROVE  j - d \in 1 .. Len(s) /\ n[j] = s[j - d]
  <2>1. j \in 1 .. Len(f) + Len(s)
    BY <1>2
  <2>2. ~(j <= Len(f))
    <3>1. SUFFICES ASSUME j <= Len(f) PROVE FALSE
      OBVIOUS
    <3>2. n[j] = f[j] /\ j \in DOMAIN f
      BY <3>1, <2>1, <1>1, <1>2
    <3> QED BY <3>2, <1>6 DEF NoCall, IsCall
  <2>3. n[j] = s[j - d]
    BY <2>1, <2>2, <1>2 DEF d
  <2>4. j - d \in 1 .. Len(s)
    BY <2>1, <2>2, <1>1 DEF d
  <2> QED BY <2>3, <2>4
<1>7. ASSUME NEW at \in Nat PROVE Cardinality(Behind(n, at + d, names)) = Cardinality(Behind(s, at, names))
  <2> DEFINE A == Behind(s, at, names)
             B == Behind(n, at + d, names)
  <2>1. A \in SUBSET Int /\ B \in SUBSET Int
    BY <1>1, <1>4 DEF Behind, Calls
  <2>2. IsFiniteSet(A)
    BY <1>1, CallsFinite DEF Behind
  <2>3. ASSUME NEW k \in Int, k \in A PROVE k + d \in B
    <3>1. k \in at + 1 .. Len(s) /\ IsCall(s[k], names)
      BY <2>3 DEF Behind, Calls
    <3>2. k \in 1 .. Len(s) /\ k + d \in at + d + 1 .. Len(n)
      BY <3>1, <1>1, <1>4
    <3>3. n[k + d] = s[k]
      BY <3>2, <1>5
    <3> QED BY <3>1, <3>2, <3>3 DEF Behind, Calls
  <2>4. ASSUME NEW k \in Int, k + d \in B PROVE k \in A
    <3>1. k + d \in at + d + 1 .. Len(n) /\ IsCall(n[k + d], names)
      BY <2>4 DEF Behind, Calls
    <3>2. k + d \in 1 .. Len(n) /\ (k + d) - d = k /\ k \in at + 1 .. Len(s)
      BY <3>1, <1>1, <1>4
    <3>3. n[k + d] = s[k]
      BY <3>1, <3>2, <1>6
    <3> QED BY <3>1, <3>2, <3>3 DEF Behind, Calls
  <2> HIDE DEF A, B
  <2>5. d \in Int /\ \A k \in Int : k \in A <=> k + d \in B
    BY <2>3, <2>4, <1>4
  <2>6. Cardinality(B) = Cardinality(A)
    BY <2>1, <2>2, <2>5, ShiftCount
  <2> QED BY <2>6 DEF A, B
<1>8. ASSUME NEW at \in Nat, NoneUpTo(s, at, names) PROVE NoneUpTo(n, at + d, names)
  <2>1. SUFFICES ASSUME NEW j \in 1 .. Len(n), j <= at + d, IsCall(n[j], names) PROVE FALSE
    BY DEF NoneUpTo
  <2>2. j - d \in 1 .. Len(s) /\ n[j] = s[j - d]
    BY <2>1, <1>6
  <2>3. j - d <= at
    BY <2>1, <1>4
  <2> QED BY <2>1, <2>2, <2>3, <1>8 DEF NoneUpTo
<1>9. ASSUME NoneUpTo(s, Len(s), names) PROVE NoneUpTo(n, Len(n), names)
  <2>1. \A j \in 1 .. Len(s) : ~IsCall(s[j], names)
    BY <1>1, <1>9 DEF NoneUpTo
  <2>2. \A j \in 1 .. Len(n) : ~IsCall(n[j], names)
    BY <2>1, <1>6
  <2> QED BY <2>2 DEF NoneUpTo
<1>10. ShiftedCalls(s, n, d, names)
  BY <1>3, <1>7, <1>8, <1>9 DEF ShiftedCalls
<1> QED BY <1>1, <1>2, <1>5, <1>10 DEF n, d

LEMMA CutKeeps ==
    ASSUME NEW s, IsSeq(s), Len(s) >= 3, s[Len(s)].op # \h10, s[Len(s) - 1].op # \h10, s[Len(s) - 2].op # \h10,
           NEW names
    PROVE  /\ IsSeq(Cut(s)) /\ Len(Cut(s)) = Len(s) - 3
           /\ \A j \in 1 .. Len(Cut(s)) : Cut(s)[j] = s[j]
           /\ SameCalls(s, Cut(s), names)
<1> DEFINE n == SubSeq(s, 1, Len(s) - 3)
<1>1. Len(s) \in Nat /\ Len(s) - 3 \in Nat
  BY IsSeqLen
<1>2. IsSeq(n) /\ Len(n) = Len(s) - 3 /\ \A j \in 1 .. Len(n) : n[j] = s[j]
  <2>1. /\ IsSeq(n)
        /\ Len(n) = IF 1 <= Len(s) - 3 THEN (Len(s) - 3) - 1 + 1 ELSE 0
        /\ \A i \in 1 .. (Len(s) - 3) - 1 + 1 : n[i] = s[1 + i - 1]
    BY <1>1, PartIsSeq
  <2> HIDE DEF n
  <2>2. Len(n) = Len(s) - 3
    <3>1. \A m \in Nat : (IF 1 <= m THEN m - 1 + 1 ELSE 0) = m
      OBVIOUS
    <3>2. (IF 1 <= Len(s) - 3 THEN (Len(s) - 3) - 1 + 1 ELSE 0) = Len(s) - 3
      BY <3>1, <1>1
    <3> QED BY <2>1, <3>2
  <2>3. \A i \in 1 .. Len(n) : i \in 1 .. (Len(s) - 3) - 1 + 1 /\ 1 + i - 1 = i
    BY <2>2, <1>1
  <2> QED BY <2>1, <2>2, <2>3
<1> HIDE DEF n
<1>3. ASSUME NEW j \in 1 .. Len(s), IsCall(s[j], names) PROVE j \in 1 .. Len(n)
  <2>1. j # Len(s) /\ j # Len(s) - 1 /\ j # Len(s) - 2
    BY <1>3 DEF IsCall
  <2> QED BY <2>1, <1>1, <1>2
<1>4. ASSUME NEW from \in Nat \ {0} PROVE Calls(n, from, Len(n), names) = Calls(s, from, Len(s), names)
  <2>1. ASSUME NEW j \in from .. Len(s), IsCall(s[j], names) PROVE j \in from .. Len(n) /\ n[j] = s[j]
    <3>1. j \in 1 .. Len(s)
      BY <1>1
    <3>2. j \in 1 .. Len(n)
      BY <3>1, <2>1, <1>3
    <3> QED BY <3>2, <1>1, <1>2
  <2>2. \A j \in from .. Len(n) : j \in from .. Len(s) /\ n[j] = s[j]
    BY <1>1, <1>2
  <2> QED BY <2>1, <2>2 DEF Calls
<1>5. Count(n, names) = Count(s, names)
  BY <1>4 DEF Count
<1>6. \A at \in Nat : Behind(n, at, names) = Behind(s, at, names)
  BY <1>4 DEF Behind
<1>7. \A j \in 1 .. Len(n) : j \in 1 .. Len(s)
  BY <1>1, <1>2
<1>8. \A at \in Nat : NoneUpTo(s, at, names) => NoneUpTo(n, at, names)
  BY <1>2, <1>7 DEF NoneUpTo
<1>9. NoneUpTo(s, Len(s), names) => NoneUpTo(n, Len(n), names)
  <2> HAVE NoneUpTo(s, Len(s), names)
  <2>1. \A j \in 1 .. Len(s) : ~IsCall(s[j], names)
    BY <1>1 DEF NoneUpTo
  <2> QED BY <2>1, <1>2, <1>7 DEF NoneUpTo
<1>10. SameCalls(s, n, names)
  BY <1>5, <1>6, <1>8, <1>9 DEF SameCalls
<1> QED BY <1>2, <1>10 DEF n, Cut

LEMMA AppendCounts ==
    ASSUME NEW s, IsSeq(s), NEW e, NEW names
    PROVE  /\ Count(Append(s, e), names) = Count(s, names) + IF IsCall(e, names) THEN 1 ELSE 0
           /\ \A at \in 0 .. Len(s) : Cardinality(Behind(Append(s, e), at, names))
                                         = Cardinality(Behind(s, at, names)) + IF IsCall(e, names) THEN 1 ELSE 0
           /\ \A at \in 0 .. Len(s) : NoneUpTo(s, at, names) => NoneUpTo(Append(s, e), at, names)
           /\ NoneUpTo(s, Len(s), names) /\ ~IsCall(e, names) => NoneUpTo(Append(s, e), Len(Append(s, e)), names)
<1> DEFINE n == Append(s, e)
<1>1. /\ IsSeq(n) /\ Len(n) = Len(s) + 1 /\ Len(s) \in Nat
      /\ \A k \in 1 .. Len(s) : n[k] = s[k]
      /\ n[Len(s) + 1] = e
  BY AppendIsSeq, IsSeqLen
<1> HIDE DEF n
<1>2. ASSUME NEW from \in 1 .. Len(s) + 1
      PROVE  Cardinality(Calls(n, from, Len(n), names))
                = Cardinality(Calls(s, from, Len(s), names)) + IF IsCall(e, names) THEN 1 ELSE 0
  <2>1. Calls(n, from, Len(s), names) = Calls(s, from, Len(s), names)
    <3>1. \A j \in from .. Len(s) : j \in 1 .. Len(s)
      BY <1>1
    <3> QED BY <3>1, <1>1 DEF Calls
  <2>2. Cardinality(Calls(n, from, Len(s) + 1, names))
           = Cardinality(Calls(n, from, Len(s), names)) + IF IsCall(n[Len(s) + 1], names) THEN 1 ELSE 0
    <3>1. from \in Int /\ Len(s) \in Int /\ from <= Len(s) + 1
      BY <1>1
    <3> QED BY <3>1, CallsNext
  <2> QED BY <2>1, <2>2, <1>1
<1>3. Count(n, names) = Count(s, names) + IF IsCall(e, names) THEN 1 ELSE 0
  <2>1. 1 \in 1 .. Len(s) + 1
    BY <1>1
  <2> QED BY <2>1, <1>2 DEF Count
<1>4. \A at \in 0 .. Len(s) : Cardinality(Behind(n, at, names))
                                 = Cardinality(Behind(s, at, names)) + IF IsCall(e, names) THEN 1 ELSE 0
  <2> TAKE at \in 0 .. Len(s)
  <2>1. at + 1 \in 1 .. Len(s) + 1
    BY <1>1
  <2> QED BY <2>1, <1>2 DEF Behind
<1>5. ASSUME NEW at \in 0 .. Len(s), NoneUpTo(s, at, names) PROVE NoneUpTo(n, at, names)
  <2>1. SUFFICES ASSUME NEW j \in 1 .. Len(n), j <= at PROVE ~IsCall(n[j], names)
    BY DEF NoneUpTo
  <2>2. j \in 1 .. Len(s)
    BY <2>1, <1>1
  <2> QED BY <2>1, <2>2, <1>1, <1>5 DEF NoneUpTo
<1>6. ASSUME NoneUpTo(s, Len(s), names), ~IsCall(e, names) PROVE NoneUpTo(n, Len(n), names)
  <2>1. ASSUME NEW j \in 1 .. Len(n) PROVE ~IsCall(n[j], names)
    <3>1. CASE j <= Len(s)
      <4>1. j \in 1 .. Len(s)
        BY <3>1, <1>1
      <4> QED BY <4>1, <3>1, <1>1, <1>6 DEF NoneUpTo
    <3>2. CASE j = Len(s) + 1
      BY <3>2, <1>1, <1>6
    <3>3. j <= Len(s) \/ j = Len(s) + 1
      BY <1>1
    <3> QED BY <3>1, <3>2, <3>3
  <2> QED BY <2>1 DEF NoneUpTo
<1> QED BY <1>3, <1>4, <1>5, <1>6 DEF n

----------------------------------------------------------------------------
(* The pass of alloca.                                                     *)

Added == {Set("$alloca_sz"), GetSP, Get("$alloca_sz"), Op(\h6B), Tee("$alloca_ret"), SetSP,
          Get("$alloca_ret"), Set("$sp_enter"), Get("$sp_enter"), Tee("$sp_enter")}
KeptAtPrologue == <<GetSP, Tee("$sp_enter")>>
Restored == <<Get("$sp_enter"), SetSP>>

LEMMA AddedNoCall ==
    ASSUME NEW s \in Seq(Added)
    PROVE  NoCall(s)
<1>1. \A local : Set(local).op = \h21 /\ Get(local).op = \h20 /\ Tee(local).op = \h22
  BY InstFields DEF Set, Get, Tee
<1>2. GetSP.op = \h23 /\ SetSP.op = \h24 /\ Op(\h6B).op = \h6B
  BY InstFields DEF GetSP, SetSP
<1>3. \A a \in Added : a.op # \h10
  BY <1>1, <1>2, SMT DEF Added
<1>4. IsSeq(s) /\ ToSet(s) \subseteq Added
  BY SeqIsSeq
<1> QED BY <1>3, <1>4 DEF NoCall, ToSet

LEMMA AddedSeqs ==
    /\ Allocate \in Seq(Added) /\ Len(Allocate) = 7 /\ Allocate[7].op = \h20
    /\ KeepSP \in Seq(Added) /\ <<>> \in Seq(Added)
    /\ KeptAtPrologue \in Seq(Added)
    /\ Restored \in Seq(Added) /\ Len(Restored) = 2 /\ Restored[1].op = \h20
<1> DEFINE a == Set("$alloca_sz")
           b == GetSP
           c == Get("$alloca_sz")
           d == Op(\h6B)
           e == Tee("$alloca_ret")
           f == SetSP
           g == Get("$alloca_ret")
           h == Set("$sp_enter")
           i == Get("$sp_enter")
           j == Tee("$sp_enter")
<1>1. g.op = \h20 /\ i.op = \h20
  BY InstFields DEF Get
<1>2. Added = {a, b, c, d, e, f, g, h, i, j}
  BY DEF Added
<1>3. Allocate = <<a, b, c, d, e, f, g>> /\ KeepSP = <<b, h>>
  BY DEF Allocate, KeepSP
<1>4. KeptAtPrologue = <<b, j>> /\ Restored = <<i, f>>
  BY DEF KeptAtPrologue, Restored
<1> HIDE DEF a, b, c, d, e, f, g, h, i, j
<1>5. <<a, b, c, d, e, f, g>> \in Seq(Added) /\ <<b, h>> \in Seq(Added) /\ <<b, j>> \in Seq(Added)
      /\ <<i, f>> \in Seq(Added) /\ <<>> \in Seq(Added)
  BY <1>2
<1>6. Len(<<a, b, c, d, e, f, g>>) = 7 /\ <<a, b, c, d, e, f, g>>[7] = g
  OBVIOUS
<1>7. Len(<<i, f>>) = 2 /\ <<i, f>>[1] = i
  OBVIOUS
<1> QED BY <1>1, <1>3, <1>4, <1>5, <1>6, <1>7

\* What EndsWith says of the three instructions that are cut off.
LEMMA CutOff ==
    ASSUME NEW s, IsSeq(s), EndsWith(s, <<\h20, \h41, \h6A>>)
    PROVE  /\ Len(s) >= 3
           /\ s[Len(s)].op = \h6A /\ s[Len(s) - 1].op = \h41 /\ s[Len(s) - 2].op = \h20
<1> DEFINE ops == <<\h20, \h41, \h6A>>
           t == SubSeq(s, Len(s) - 2, Len(s))
<1>1. Len(ops) = 3 /\ ops[1] = \h20 /\ ops[2] = \h41 /\ ops[3] = \h6A
  OBVIOUS
<1>2. Len(s) >= 3 /\ Ops(SubSeq(s, Len(s) - Len(ops) + 1, Len(s))) = ops
  <2> HIDE DEF ops
  <2>1. EndsWith(s, ops)
    BY DEF ops
  <2> QED BY <2>1, <1>1 DEF EndsWith
<1> HIDE DEF ops
<1>3. Len(s) \in Nat /\ Len(s) - Len(ops) + 1 = Len(s) - 2 /\ Len(s) - 2 \in Nat \ {0}
  BY <1>1, <1>2, IsSeqLen
<1>4. Ops(t) = ops
  BY <1>2, <1>3
<1>5. /\ IsSeq(t) /\ Len(t) = 3 /\ t[1] = s[Len(s) - 2] /\ t[2] = s[Len(s) - 1] /\ t[3] = s[Len(s)]
  <2>1. /\ IsSeq(t)
        /\ Len(t) = IF Len(s) - 2 <= Len(s) THEN Len(s) - (Len(s) - 2) + 1 ELSE 0
        /\ \A i \in 1 .. Len(s) - (Len(s) - 2) + 1 : t[i] = s[(Len(s) - 2) + i - 1]
    <3>1. Len(s) - 2 \in Nat \ {0} /\ Len(s) \in Int /\ Len(s) <= Len(s)
      BY <1>3
    <3> DEFINE from == Len(s) - 2
               to == Len(s)
    <3> HIDE DEF from, to
    <3>2. /\ IsSeq(SubSeq(s, from, to))
          /\ Len(SubSeq(s, from, to)) = IF from <= to THEN to - from + 1 ELSE 0
          /\ \A i \in 1 .. to - from + 1 : SubSeq(s, from, to)[i] = s[from + i - 1]
      BY <3>1, PartIsSeq DEF from, to
    <3> QED BY <3>2 DEF from, to
  <2> HIDE DEF t
  <2>2. Len(t) = 3 /\ Len(s) - (Len(s) - 2) + 1 = 3
    BY <2>1, <1>3
  <2>3. 1 \in 1 .. 3 /\ 2 \in 1 .. 3 /\ 3 \in 1 .. 3
    OBVIOUS
  <2>4. t[1] = s[(Len(s) - 2) + 1 - 1] /\ t[2] = s[(Len(s) - 2) + 2 - 1] /\ t[3] = s[(Len(s) - 2) + 3 - 1]
    BY <2>1, <2>2, <2>3
  <2>5. (Len(s) - 2) + 1 - 1 = Len(s) - 2 /\ (Len(s) - 2) + 2 - 1 = Len(s) - 1 /\ (Len(s) - 2) + 3 - 1 = Len(s)
    BY <1>3
  <2> QED BY <2>1, <2>2, <2>4, <2>5
<1> HIDE DEF t
<1>6. DOMAIN t = 1 .. 3
  BY <1>5, IsSeqLen
<1>7. \A k \in 1 .. 3 : ops[k] = t[k].op
  BY <1>4, <1>6 DEF Ops
<1>8. ops[1] = t[1].op /\ ops[2] = t[2].op /\ ops[3] = t[3].op
  BY <1>7
<1> QED BY <1>1, <1>2, <1>5, <1>8

PassStates(is) ==
    [out : Seq(ToSet(is) \cup Added), enter : BOOLEAN, use : BOOLEAN, exit : Nat]

\* What one instruction of the pass does.
Edited(is, k, p, q) ==
    \/ /\ is[k].op = \h24 /\ EndsWith(p.out, <<\h20, \h41, \h6A>>)
       /\ q.out = Cut(p.out) \o Restored /\ q.exit = p.exit
    \/ /\ is[k].op = \h23
       /\ q.out = p.out \o KeptAtPrologue /\ q.exit = p.exit
    \/ /\ IsCall(is[k], {"alloca"})
       /\ \E front \in {<<>>, KeepSP} :
             /\ q.out = (front \o p.out) \o Allocate
             /\ q.exit = IF p.exit = 0 THEN Len(q.out) ELSE p.exit + Len(front)
    \/ /\ ~IsCall(is[k], {"alloca"})
       /\ q.out = Append(p.out, is[k]) /\ q.exit = p.exit

LEMMA AllocaStepCases ==
    ASSUME NEW is, IsSeq(is), NEW k \in 1 .. Len(is), NEW p \in PassStates(is)
    PROVE  AllocaStep(is, k, p) \in PassStates(is) /\ Edited(is, k, p, AllocaStep(is, k, p))
<1> DEFINE q == AllocaStep(is, k, p)
<1>0. SUFFICES q \in PassStates(is) /\ Edited(is, k, p, q)
  OBVIOUS
<1> DEFINE U == ToSet(is) \cup Added
           cut == is[k].op = \h24 /\ is[k].arg = SP /\ EndsWith(p.out, <<\h20, \h41, \h6A>>)
           enters == is[k].op = \h23 /\ is[k].arg = SP /\ ~p.enter /\ Starts(is, k + 1, <<\h41, \h6B>>)
           calls == IsCall(is[k], {"alloca"})
           front == IF p.use THEN <<>> ELSE KeepSP
           new == (front \o p.out) \o Allocate
           cutOut == Cut(p.out) \o Restored
<1>1. /\ p.out \in Seq(U) /\ p.enter \in BOOLEAN /\ p.use \in BOOLEAN /\ p.exit \in Nat
      /\ p = [out |-> p.out, enter |-> p.enter, use |-> p.use, exit |-> p.exit]
  BY DEF PassStates
<1>2. is[k] \in U
  BY IsSeqLen DEF ToSet
<1>3. Seq(Added) \subseteq Seq(U)
  BY SeqMonotonic
<1>4. KeptAtPrologue \in Seq(U) /\ Restored \in Seq(U) /\ Allocate \in Seq(U) /\ front \in Seq(U)
  BY <1>3, AddedSeqs
<1>5. /\ p.out \o KeptAtPrologue \in Seq(U) /\ new \in Seq(U) /\ Append(p.out, is[k]) \in Seq(U)
      /\ Len(new) \in Nat /\ Len(front) \in Nat
  <2> HIDE DEF front, U
  <2>1. p.out \o KeptAtPrologue \in Seq(U) /\ front \o p.out \in Seq(U) /\ Append(p.out, is[k]) \in Seq(U)
    BY <1>1, <1>2, <1>4, ConcatProperties, AppendProperties
  <2>2. new \in Seq(U)
    BY <2>1, <1>4, ConcatProperties
  <2> QED BY <2>1, <2>2, <1>4, LenProperties
<1>6. ASSUME cut PROVE cutOut \in Seq(U)
  <2>1. IsSeq(p.out) /\ ToSet(p.out) \subseteq U
    BY <1>1, SeqIsSeq
  <2>2. Len(p.out) >= 3
    BY <2>1, <1>6, CutOff
  <2>3. \A i \in 1 .. Len(p.out) - 3 : i \in DOMAIN p.out
    BY <2>1, <2>2, IsSeqLen
  <2>4. \A i \in 1 .. Len(p.out) - 3 : p.out[i] \in U
    BY <2>1, <2>3 DEF ToSet
  <2>5. Len(p.out) - 3 \in Int
    BY <2>1, IsSeqLen
  <2> HIDE DEF U
  <2>6. Cut(p.out) \in Seq(U)
    BY <2>4, <2>5, SubSeqProperties DEF Cut
  <2> QED BY <2>6, <1>4, ConcatProperties
<1> DEFINE exit == IF p.exit = 0 THEN Len(new) ELSE p.exit + Len(front)
           q1 == [p EXCEPT !.out = cutOut, !.use = TRUE]
           q2 == [p EXCEPT !.out = p.out \o KeptAtPrologue, !.enter = TRUE, !.use = TRUE]
           q3 == [p EXCEPT !.out = new, !.exit = exit]
           q4 == [p EXCEPT !.out = Append(p.out, is[k])]
<1>7. q = CASE cut -> q1 [] enters -> q2 [] calls -> q3 [] OTHER -> q4
  BY <1>1 DEF q, AllocaStep, KeptAtPrologue, Restored, Cut
<1>8. calls => is[k].op = \h10
  BY DEF IsCall
<1>9. front \in {<<>>, KeepSP} /\ exit \in Nat
  BY <1>1, <1>5
<1>10. cut => is[k].op = \h24
  OBVIOUS
<1>11. enters => is[k].op = \h23
  OBVIOUS
<1>16. /\ q1.out = cutOut /\ q1.exit = p.exit
       /\ q2.out = p.out \o KeptAtPrologue /\ q2.exit = p.exit
       /\ q3.out = new /\ q3.exit = exit
       /\ q4.out = Append(p.out, is[k]) /\ q4.exit = p.exit
  <2>1. p \in [out : Seq(U), enter : BOOLEAN, use : BOOLEAN, exit : Nat]
    BY DEF PassStates
  <2> HIDE DEF cutOut, new, exit, U
  <2> QED BY <2>1
<1>17. (cut => q1 \in PassStates(is)) /\ q2 \in PassStates(is) /\ q3 \in PassStates(is) /\ q4 \in PassStates(is)
  <2>1. p \in [out : Seq(U), enter : BOOLEAN, use : BOOLEAN, exit : Nat]
    BY DEF PassStates
  <2>2. PassStates(is) = [out : Seq(U), enter : BOOLEAN, use : BOOLEAN, exit : Nat]
    BY DEF PassStates
  <2> HIDE DEF cutOut, new, exit, cut, U
  <2>3. cut => q1 \in PassStates(is)
    BY <2>1, <2>2, <1>6
  <2>4. q2 \in PassStates(is)
    BY <2>1, <2>2, <1>5
  <2>5. q3 \in PassStates(is)
    BY <2>1, <2>2, <1>5, <1>9
  <2>6. q4 \in PassStates(is)
    BY <2>1, <2>2, <1>5
  <2> QED BY <2>3, <2>4, <2>5, <2>6
<1>18. cut \/ enters \/ calls \/ (~cut /\ ~enters /\ ~calls)
  OBVIOUS
<1> HIDE DEF q, q1, q2, q3, q4, cut, enters, calls, cutOut, U, new, exit
<1>12. CASE cut
  <2>1. q = q1
    BY <1>7, <1>8, <1>10, <1>11, <1>12
  <2>2. is[k].op = \h24 /\ EndsWith(p.out, <<\h20, \h41, \h6A>>)
    BY <1>12 DEF cut
  <2> QED BY <2>1, <2>2, <1>12, <1>16, <1>17 DEF cutOut, Edited
<1>13. CASE enters
  <2>1. q = q2
    BY <1>7, <1>8, <1>10, <1>11, <1>13
  <2> QED BY <2>1, <1>11, <1>13, <1>16, <1>17 DEF Edited
<1>14. CASE calls
  <2>1. q = q3
    BY <1>7, <1>8, <1>10, <1>11, <1>14
  <2>2. q.out = (front \o p.out) \o Allocate /\ q.exit = IF p.exit = 0 THEN Len(q.out) ELSE p.exit + Len(front)
    BY <2>1, <1>16 DEF new, exit
  <2>3. IsCall(is[k], {"alloca"}) /\ q \in PassStates(is)
    BY <1>14, <2>1, <1>17 DEF calls
  <2> HIDE DEF front
  <2> QED BY <2>2, <2>3, <1>9 DEF Edited
<1>15. CASE ~cut /\ ~enters /\ ~calls
  <2>1. q = q4
    BY <1>7, <1>15
  <2>2. ~IsCall(is[k], {"alloca"})
    BY <1>15 DEF calls
  <2> QED BY <2>1, <2>2, <1>16, <1>17 DEF Edited
<1> QED BY <1>12, <1>13, <1>14, <1>15, <1>18

PassStart == [out |-> <<>>, enter |-> FALSE, use |-> FALSE, exit |-> 0]

LEMMA AllocaSteps ==
    ASSUME NEW is, IsSeq(is)
    PROVE  \E taken :
              /\ taken \in [0 .. Len(is) -> PassStates(is)]
              /\ taken[0] = PassStart
              /\ \A k \in 1 .. Len(is) : taken[k] = AllocaStep(is, k, taken[k - 1])
              /\ AllocaPass(is) = taken[Len(is)]
<1> DEFINE n == Len(is)
           S == PassStates(is)
           step == [p \in S \X (1 .. n) |-> AllocaStep(is, p[2], p[1])]
<1>1. n \in Nat
  BY IsSeqLen
<1>2. ASSUME NEW v \in S, NEW k \in 1 .. n
      PROVE  step[<<v, k>>] = AllocaStep(is, k, v)
  OBVIOUS
<1>3. ASSUME NEW v \in S, NEW k \in 1 .. n PROVE step[<<v, k>>] \in S
  <2> DEFINE q == AllocaStep(is, k, v)
  <2> HIDE DEF q
  <2>1. q \in S
    BY AllocaStepCases DEF q
  <2> QED BY <2>1, <1>2 DEF q
<1>4. PassStart \in S
  <2>1. <<>> \in Seq(ToSet(is) \cup Added)
    OBVIOUS
  <2> QED BY <2>1 DEF PassStart, PassStates
<1> HIDE DEF step, n, S
<1>5. PICK taken : Recursion(taken, S, PassStart, step, n)
  <2>1. Keeps(step, S, n)
    BY <1>3 DEF Keeps
  <2> DEFINE first == PassStart
  <2> HIDE DEF first
  <2>2. \E taken : Recursion(taken, S, first, step, n)
    BY <1>1, <1>4, <2>1, RecursionExists DEF first
  <2> QED BY <2>2 DEF first
<1>6. taken \in [0 .. n -> S] /\ taken[0] = PassStart
  BY <1>5 DEF Recursion
<1>7. ASSUME NEW k \in 1 .. n PROVE taken[k] = AllocaStep(is, k, taken[k - 1])
  <2>1. taken[k - 1] \in S
    BY <1>1, <1>6
  <2> QED BY <2>1, <1>2, <1>5 DEF Recursion
<1> DEFINE F(g) == [k \in 0 .. Len(is) |->
                      IF k = 0 THEN PassStart ELSE AllocaStep(is, k, g[k - 1])]
<1>8. taken = F(taken)
  <2>1. ASSUME NEW k \in 0 .. n PROVE taken[k] = F(taken)[k]
    <3>1. CASE k = 0
      BY <3>1, <1>6, <1>1 DEF n
    <3>2. CASE k # 0
      <4>1. k \in 1 .. n
        BY <3>2, <1>1
      <4> QED BY <4>1, <3>2, <1>7, <1>1 DEF n
    <3> QED BY <3>1, <3>2
  <2>2. taken = [k \in 0 .. n |-> taken[k]]
    BY <1>6
  <2>3. F(taken) = [k \in 0 .. n |-> F(taken)[k]]
    BY DEF n
  <2>4. [k \in 0 .. n |-> taken[k]] = [k \in 0 .. n |-> F(taken)[k]]
    <3> HIDE DEF F
    <3> QED BY <2>1
  <2> HIDE DEF F
  <2> QED BY <2>2, <2>3, <2>4
<1> DEFINE chosen == CHOOSE g : g = F(g)
<1>9. AllocaPass(is) = chosen[n]
  BY DEF AllocaPass, PassStart, n
<1>10. chosen = F(chosen)
  <2> HIDE DEF F
  <2> QED BY <1>8
<1>11. chosen[0] = PassStart
  <2>1. F(chosen)[0] = PassStart
    BY <1>1 DEF n
  <2> HIDE DEF F, chosen
  <2> QED BY <1>10, <2>1
<1>12. ASSUME NEW k \in 1 .. n PROVE chosen[k] = AllocaStep(is, k, chosen[k - 1])
  <2>1. F(chosen)[k] = AllocaStep(is, k, chosen[k - 1])
    <3> HIDE DEF chosen
    <3> QED BY <1>1 DEF n
  <2> HIDE DEF F, chosen
  <2> QED BY <1>10, <2>1
<1>13. \A k \in 0 .. n : chosen[k] = taken[k]
  <2> HIDE DEF F, chosen
  <2> DEFINE held == {k \in 0 .. n : chosen[k] = taken[k]}
  <2>1. 0 \in held
    BY <1>1, <1>6, <1>11
  <2>2. ASSUME NEW k \in held, k < n PROVE k + 1 \in held
    <3>1. k + 1 \in 1 .. n /\ (k + 1) - 1 = k /\ chosen[k] = taken[k] /\ k + 1 \in 0 .. n
      BY <2>2, <1>1
    <3>2. chosen[k + 1] = taken[k + 1]
      BY <3>1, <1>7, <1>12
    <3> QED BY <3>1, <3>2
  <2>3. held \in SUBSET (0 .. n)
    OBVIOUS
  <2>4. held = 0 .. n
    <3> HIDE DEF held
    <3> QED BY <1>1, <2>1, <2>2, <2>3, UpToInduction
  <2> QED BY <2>4
<1>14. AllocaPass(is) = taken[n]
  <2>1. n \in 0 .. n
    BY <1>1
  <2> HIDE DEF F, chosen
  <2> QED BY <2>1, <1>9, <1>13
<1> QED BY <1>6, <1>7, <1>14 DEF n, S

\* Every call of alloca is gone after the pass, and no other.
CountedUpTo(is, k, p, name) ==
    Count(p.out, {name}) = IF name = "alloca" THEN 0 ELSE Cardinality(Calls(is, 1, k, {name}))

LEMMA AllocaStepCounts ==
    ASSUME NEW is, IsSeq(is), NEW k \in 1 .. Len(is), NEW p \in PassStates(is),
           NEW name, CountedUpTo(is, k - 1, p, name)
    PROVE  CountedUpTo(is, k, AllocaStep(is, k, p), name)
<1> DEFINE q == AllocaStep(is, k, p)
           before == Cardinality(Calls(is, 1, k - 1, {name}))
           now == Cardinality(Calls(is, 1, k, {name}))
           isAlloca == IsCall(is[k], {"alloca"})
<1>1. IsSeq(p.out) /\ k \in Nat \ {0} /\ k - 1 \in Nat /\ (k - 1) + 1 = k
  <2>1. p.out \in Seq(ToSet(is) \cup Added)
    BY DEF PassStates
  <2>2. IsSeq(p.out)
    BY <2>1, SeqIsSeq
  <2> QED BY <2>2, IsSeqLen
<1>2. before \in Nat /\ now = before + IF IsCall(is[k], {name}) THEN 1 ELSE 0
  <2> DEFINE to == k - 1
  <2>1. to \in Int /\ 1 <= to + 1 /\ to + 1 = k
    BY <1>1
  <2> HIDE DEF to
  <2>2. Cardinality(Calls(is, 1, to + 1, {name}))
           = Cardinality(Calls(is, 1, to, {name})) + IF IsCall(is[to + 1], {name}) THEN 1 ELSE 0
    BY <2>1, CallsNext
  <2>3. Cardinality(Calls(is, 1, to, {name})) \in Nat
    BY <2>1, CallsFinite
  <2> QED BY <2>1, <2>2, <2>3 DEF to
<1>3. Count(p.out, {name}) = IF name = "alloca" THEN 0 ELSE before
  BY DEF CountedUpTo
<1>4. /\ is[k].op # \h10 => ~IsCall(is[k], {name})
      /\ isAlloca /\ name # "alloca" => ~IsCall(is[k], {name})
      /\ ~isAlloca /\ name = "alloca" => ~IsCall(is[k], {name})
  BY DEF IsCall
<1> HIDE DEF q, before, now, isAlloca
<1>5. \/ /\ is[k].op = \h24 /\ EndsWith(p.out, <<\h20, \h41, \h6A>>)
         /\ q.out = Cut(p.out) \o Restored
      \/ is[k].op = \h23 /\ q.out = p.out \o KeptAtPrologue
      \/ isAlloca /\ \E front \in {<<>>, KeepSP} : q.out = (front \o p.out) \o Allocate
      \/ ~isAlloca /\ q.out = Append(p.out, is[k])
  <2>1. Edited(is, k, p, q)
    BY AllocaStepCases DEF q
  <2> QED BY <2>1 DEF Edited, isAlloca
<1>6. CASE /\ is[k].op = \h24 /\ EndsWith(p.out, <<\h20, \h41, \h6A>>)
           /\ q.out = Cut(p.out) \o Restored
  <2> DEFINE cut == Cut(p.out)
             out == p.out
  <2> HIDE DEF out
  <2>2. IsSeq(out) /\ EndsWith(out, <<\h20, \h41, \h6A>>)
    BY <1>1, <1>6 DEF out
  <2>1. /\ Len(out) >= 3 /\ out[Len(out)].op # \h10 /\ out[Len(out) - 1].op # \h10 /\ out[Len(out) - 2].op # \h10
    <3>1. out[Len(out)].op = \h6A /\ out[Len(out) - 1].op = \h41 /\ out[Len(out) - 2].op = \h20 /\ Len(out) >= 3
      BY <2>2, CutOff
    <3> QED BY <3>1
  <2>3. IsSeq(Cut(out)) /\ Count(Cut(out), {name}) = Count(out, {name})
    BY <2>1, <2>2, CutKeeps DEF SameCalls
  <2>4. IsSeq(cut) /\ Count(cut, {name}) = Count(p.out, {name})
    BY <2>3 DEF out
  <2> HIDE DEF cut
  <2>5. Count(cut \o Restored, {name}) = Count(cut, {name})
    BY <2>4, AddedSeqs, AddedNoCall, ExtendKeeps DEF SameCalls
  <2>6. Count(q.out, {name}) = Count(p.out, {name})
    BY <2>4, <2>5, <1>6 DEF cut
  <2> QED BY <2>6, <1>2, <1>3, <1>4, <1>6 DEF CountedUpTo, q, now
<1>7. CASE is[k].op = \h23 /\ q.out = p.out \o KeptAtPrologue
  <2> DEFINE out == p.out
  <2> HIDE DEF out
  <2>1. Count(out \o KeptAtPrologue, {name}) = Count(out, {name})
    BY <1>1, AddedSeqs, AddedNoCall, ExtendKeeps DEF out, SameCalls
  <2> QED BY <2>1, <1>2, <1>3, <1>4, <1>7 DEF CountedUpTo, q, now, out
<1>8. CASE isAlloca /\ \E front \in {<<>>, KeepSP} : q.out = (front \o p.out) \o Allocate
  <2>1. PICK front \in {<<>>, KeepSP} : q.out = (front \o p.out) \o Allocate
    BY <1>8
  <2> DEFINE out == p.out
  <2> HIDE DEF out
  <2>2. NoCall(front) /\ NoCall(Allocate) /\ IsSeq(out)
    BY <1>1, AddedSeqs, AddedNoCall DEF out
  <2>3. IsSeq(front \o out) /\ Count(front \o out, {name}) = Count(out, {name})
    BY <2>2, PrefixKeeps DEF ShiftedCalls
  <2>4. Count((front \o out) \o Allocate, {name}) = Count(front \o out, {name})
    <3> DEFINE s == front \o out
    <3> HIDE DEF s
    <3>1. IsSeq(s)
      BY <2>3 DEF s
    <3>2. Count(s \o Allocate, {name}) = Count(s, {name})
      BY <3>1, <2>2, ExtendKeeps DEF SameCalls
    <3> QED BY <3>2 DEF s
  <2>5. Count(q.out, {name}) = Count(p.out, {name})
    BY <2>1, <2>3, <2>4 DEF out
  <2> QED BY <2>5, <1>2, <1>3, <1>4, <1>8 DEF CountedUpTo, q, now
<1>9. CASE ~isAlloca /\ q.out = Append(p.out, is[k])
  <2> DEFINE out == p.out
             e == is[k]
  <2> HIDE DEF out, e
  <2>1. Count(Append(out, e), {name}) = Count(out, {name}) + IF IsCall(e, {name}) THEN 1 ELSE 0
    BY <1>1, AppendCounts DEF out
  <2>2. Count(q.out, {name}) = Count(p.out, {name}) + IF IsCall(is[k], {name}) THEN 1 ELSE 0
    BY <2>1, <1>9 DEF out, e
  <2>3. CASE name = "alloca"
    BY <2>2, <2>3, <1>3, <1>4, <1>9 DEF CountedUpTo, q
  <2>4. CASE name # "alloca"
    BY <2>2, <2>4, <1>2, <1>3 DEF CountedUpTo, q, now
  <2> QED BY <2>3, <2>4
<1> QED BY <1>5, <1>6, <1>7, <1>8, <1>9 DEF q

LEMMA AllocaPassCounts ==
    ASSUME NEW is, IsSeq(is), NEW name
    PROVE  /\ IsSeq(AllocaPass(is).out) /\ AllocaPass(is).exit \in Nat
           /\ Count(AllocaPass(is).out, {name}) = IF name = "alloca" THEN 0 ELSE Count(is, {name})
<1>1. PICK taken : /\ taken \in [0 .. Len(is) -> PassStates(is)]
                   /\ taken[0] = PassStart
                   /\ \A k \in 1 .. Len(is) : taken[k] = AllocaStep(is, k, taken[k - 1])
                   /\ AllocaPass(is) = taken[Len(is)]
  BY AllocaSteps
<1>2. Len(is) \in Nat
  BY IsSeqLen
<1> DEFINE held == {k \in 0 .. Len(is) : CountedUpTo(is, k, taken[k], name)}
<1>3. 0 \in held
  <2>1. PassStart.out = <<>>
    BY DEF PassStart
  <2>2. Calls(is, 1, 0, {name}) = {}
    BY DEF Calls
  <2>3. Calls(<<>>, 1, Len(<<>>), {name}) = {}
    <3>1. Len(<<>>) = 0 /\ 1 .. 0 = {}
      BY EmptyIsSeq
    <3> QED BY <3>1 DEF Calls
  <2>4. Count(<<>>, {name}) = 0 /\ Cardinality(Calls(is, 1, 0, {name})) = 0
    BY <2>2, <2>3, FS_EmptySet DEF Count
  <2>5. CountedUpTo(is, 0, taken[0], name)
    BY <1>1, <2>1, <2>4 DEF CountedUpTo
  <2> QED BY <2>5, <1>2
<1>4. ASSUME NEW k \in held, k < Len(is) PROVE k + 1 \in held
  <2>1. k + 1 \in 1 .. Len(is) /\ (k + 1) - 1 = k /\ k \in 0 .. Len(is) /\ k + 1 \in 0 .. Len(is)
    BY <1>2, <1>4
  <2>2. taken[k + 1] = AllocaStep(is, k + 1, taken[k]) /\ taken[k] \in PassStates(is)
    BY <1>1, <2>1
  <2>3. CountedUpTo(is, k, taken[k], name)
    BY <1>4
  <2> DEFINE p == taken[k]
             j == k + 1
  <2> HIDE DEF p, j
  <2>4. j \in 1 .. Len(is) /\ p \in PassStates(is) /\ CountedUpTo(is, j - 1, p, name)
    BY <2>1, <2>2, <2>3 DEF p, j
  <2>5. CountedUpTo(is, j, AllocaStep(is, j, p), name)
    BY <2>4, AllocaStepCounts
  <2> QED BY <2>1, <2>2, <2>5 DEF p, j
<1>5. held = 0 .. Len(is)
  <2>1. held \in SUBSET (0 .. Len(is))
    OBVIOUS
  <2> HIDE DEF held
  <2> QED BY <1>2, <1>3, <1>4, <2>1, UpToInduction
<1>6. Len(is) \in 0 .. Len(is)
  BY <1>2
<1>7. CountedUpTo(is, Len(is), taken[Len(is)], name)
  BY <1>5, <1>6
<1>8. taken[Len(is)] \in PassStates(is)
  BY <1>1, <1>6
<1>9. AllocaPass(is).out \in Seq(ToSet(is) \cup Added) /\ AllocaPass(is).exit \in Nat
  BY <1>1, <1>8 DEF PassStates
<1>10. IsSeq(AllocaPass(is).out)
  BY <1>9, SeqIsSeq
<1> QED BY <1>1, <1>7, <1>9, <1>10 DEF CountedUpTo, Count

\* Edits that leave the calls and the place behind the first alloca alone.
Quiet(a, b, names) ==
    /\ SameCalls(a, b, names)
    /\ \A at \in 1 .. Len(a) : a[at].op = \h20 => at \in 1 .. Len(b) /\ b[at].op = \h20

LEMMA EnterQuiet ==
    ASSUME NEW s, IsSeq(s), NEW names
    PROVE  Quiet(s, s \o KeptAtPrologue, names)
<1> DEFINE n == s \o KeptAtPrologue
<1>1. /\ IsSeq(n) /\ Len(n) = Len(s) + Len(KeptAtPrologue)
      /\ \A j \in 1 .. Len(s) : n[j] = s[j]
      /\ SameCalls(s, n, names)
  BY AddedSeqs, AddedNoCall, ExtendKeeps
<1>2. Len(s) \in Nat /\ Len(KeptAtPrologue) \in Nat
  BY AddedSeqs, LenProperties, IsSeqLen
<1> HIDE DEF n
<1>3. \A at \in 1 .. Len(s) : at \in 1 .. Len(n)
  BY <1>1, <1>2
<1>4. Quiet(s, n, names)
  BY <1>1, <1>3 DEF Quiet
<1> QED BY <1>4 DEF n

LEMMA CutQuiet ==
    ASSUME NEW s, IsSeq(s), EndsWith(s, <<\h20, \h41, \h6A>>), NEW names
    PROVE  Quiet(s, Cut(s) \o Restored, names)
<1> DEFINE c == Cut(s)
           n == c \o Restored
<1>1. /\ Len(s) >= 3 /\ Len(s) \in Nat
      /\ s[Len(s)].op = \h6A /\ s[Len(s) - 1].op = \h41 /\ s[Len(s) - 2].op = \h20
  BY CutOff, IsSeqLen
<1>2. s[Len(s)].op # \h10 /\ s[Len(s) - 1].op # \h10 /\ s[Len(s) - 2].op # \h10
  BY <1>1
<1>3. /\ IsSeq(c) /\ Len(c) = Len(s) - 3
      /\ \A j \in 1 .. Len(c) : c[j] = s[j]
      /\ SameCalls(s, c, names)
  BY <1>1, <1>2, CutKeeps
<1> HIDE DEF c
<1>4. /\ IsSeq(n) /\ Len(n) = Len(c) + Len(Restored)
      /\ \A j \in 1 .. Len(c) : n[j] = c[j]
      /\ SameCalls(c, n, names)
  BY <1>3, AddedSeqs, AddedNoCall, ExtendKeeps
<1>5. n[Len(s) - 2] = Restored[1]
  <2>1. IsSeq(Restored) /\ Len(Restored) = 2 /\ Len(c) \in Nat
    BY AddedSeqs, AddedNoCall, <1>3, IsSeqLen DEF NoCall
  <2>2. \A k \in 1 .. Len(c) + Len(Restored) : n[k] = IF k <= Len(c) THEN c[k] ELSE Restored[k - Len(c)]
    BY <1>3, <2>1, ConcatIsSeq
  <2> HIDE DEF n
  <2> DEFINE j == Len(s) - 2
  <2>3. j \in 1 .. Len(c) + Len(Restored) /\ ~(j <= Len(c)) /\ j - Len(c) = 1
    BY <2>1, <1>1, <1>3
  <2> HIDE DEF j
  <2>4. n[j] = Restored[j - Len(c)]
    BY <2>2, <2>3
  <2>5. n[j] = Restored[1]
    BY <2>3, <2>4
  <2> QED BY <2>5 DEF j
<1> HIDE DEF n
<1>6. ASSUME NEW at \in 1 .. Len(s), s[at].op = \h20 PROVE at \in 1 .. Len(n) /\ n[at].op = \h20
  <2>1. at # Len(s) /\ at # Len(s) - 1
    BY <1>1, <1>6
  <2>2. Len(n) = Len(s) - 1
    BY <1>1, <1>3, <1>4, AddedSeqs
  <2>3. at \in 1 .. Len(n)
    BY <2>1, <2>2, <1>1
  <2>4. CASE at = Len(s) - 2
    BY <2>3, <2>4, <1>5, AddedSeqs
  <2>5. CASE at \in 1 .. Len(c)
    BY <2>3, <2>5, <1>3, <1>4, <1>6
  <2>6. at = Len(s) - 2 \/ at \in 1 .. Len(c)
    BY <2>1, <1>1, <1>3, SMTT(30)
  <2> QED BY <2>4, <2>5, <2>6
<1>7. SameCalls(s, n, names)
  BY <1>3, <1>4 DEF SameCalls
<1>8. Quiet(s, n, names)
  BY <1>6, <1>7 DEF Quiet
<1> QED BY <1>8 DEF n, c

\* Up to the first alloca there are no calls of names in the output, and after
\* it at most the calls behind the first alloca in the code.
AheadUpTo(is, at, k, p, names) ==
    /\ k < at => p.exit = 0 /\ NoneUpTo(p.out, Len(p.out), names)
    /\ k >= at =>
         /\ p.exit \in 1 .. Len(p.out) /\ p.out[p.exit].op = \h20
         /\ NoneUpTo(p.out, p.exit, names)
         /\ Cardinality(Behind(p.out, p.exit, names)) <= Cardinality(Calls(is, at + 1, k, names))

LEMMA QuietAhead ==
    ASSUME NEW is, IsSeq(is), NEW at \in 1 .. Len(is), NEW k \in 1 .. Len(is), k # at, NEW names,
           NEW p, IsSeq(p.out), NEW q, Quiet(p.out, q.out, names), q.exit = p.exit,
           AheadUpTo(is, at, k - 1, p, names)
    PROVE  AheadUpTo(is, at, k, q, names)
<1>1. Len(is) \in Nat /\ k \in Nat /\ at \in Nat
  BY IsSeqLen
<1>2. CASE k < at
  <2>1. k - 1 < at /\ ~(k >= at)
    BY <1>1, <1>2
  <2> QED BY <2>1, <1>2 DEF AheadUpTo, Quiet, SameCalls
<1>3. CASE k > at
  <2>1. k - 1 >= at /\ ~(k < at) /\ k - 1 \in Int /\ at + 1 \in Int /\ k \in Int
    BY <1>1, <1>3
  <2>2. /\ p.exit \in 1 .. Len(p.out) /\ p.out[p.exit].op = \h20
        /\ NoneUpTo(p.out, p.exit, names)
        /\ Cardinality(Behind(p.out, p.exit, names)) <= Cardinality(Calls(is, at + 1, k - 1, names))
    BY <2>1 DEF AheadUpTo
  <2>3. p.exit \in Nat /\ Len(p.out) \in Nat
    BY <2>2, IsSeqLen
  <2>4. Behind(q.out, q.exit, names) = Behind(p.out, p.exit, names)
    BY <2>3 DEF Quiet, SameCalls
  <2>5. Cardinality(Calls(is, at + 1, k - 1, names)) <= Cardinality(Calls(is, at + 1, k, names))
    <3> DEFINE A == Calls(is, at + 1, k - 1, names)
               B == Calls(is, at + 1, k, names)
    <3>1. \A j \in at + 1 .. k - 1 : j \in at + 1 .. k
      BY <1>1
    <3>2. A \in SUBSET B
      BY <3>1 DEF Calls
    <3>3. IsFiniteSet(B)
      BY <2>1, CallsFinite
    <3> HIDE DEF A, B
    <3>4. Cardinality(A) <= Cardinality(B)
      BY <3>2, <3>3, FS_Subset
    <3> QED BY <3>4 DEF A, B
  <2>6. /\ Cardinality(Calls(is, at + 1, k - 1, names)) \in Nat /\ Cardinality(Calls(is, at + 1, k, names)) \in Nat
        /\ Cardinality(Behind(p.out, p.exit, names)) \in Nat
    BY <2>1, <2>3, CallsFinite DEF Behind
  <2>7. Cardinality(Behind(q.out, q.exit, names)) <= Cardinality(Calls(is, at + 1, k, names))
    BY <2>2, <2>4, <2>5, <2>6
  <2>8. q.exit \in 1 .. Len(q.out) /\ q.out[q.exit].op = \h20
    BY <2>2 DEF Quiet, SameCalls
  <2>9. NoneUpTo(q.out, q.exit, names)
    BY <2>2, <2>3 DEF Quiet, SameCalls
  <2> QED BY <2>1, <2>7, <2>8, <2>9 DEF AheadUpTo
<1> QED BY <1>1, <1>2, <1>3

LEMMA AllocateAhead ==
    ASSUME NEW is, IsSeq(is), NEW at \in 1 .. Len(is), NEW k \in 1 .. Len(is), k >= at, NEW names,
           NEW p, IsSeq(p.out), NEW q, NEW front, NoCall(front),
           q.out = (front \o p.out) \o Allocate,
           q.exit = IF p.exit = 0 THEN Len(q.out) ELSE p.exit + Len(front),
           AheadUpTo(is, at, k - 1, p, names)
    PROVE  AheadUpTo(is, at, k, q, names)
<1> DEFINE o == p.out
           f == front \o o
           n == f \o Allocate
<1>1. Len(is) \in Nat /\ k \in Nat /\ at \in Nat /\ ~(k < at) /\ k - 1 \in Int /\ at + 1 \in Int
  BY IsSeqLen
<1>2. NoCall(Allocate) /\ IsSeq(Allocate) /\ Len(Allocate) = 7 /\ Allocate[7].op = \h20
  BY AddedSeqs, AddedNoCall DEF NoCall
<1>3. IsSeq(o) /\ Len(o) \in Nat
  BY IsSeqLen
<1> HIDE DEF o
<1>4. /\ IsSeq(f) /\ Len(front) \in Nat /\ Len(f) = Len(front) + Len(o)
      /\ \A j \in 1 .. Len(o) : f[j + Len(front)] = o[j]
      /\ ShiftedCalls(o, f, Len(front), names)
  BY <1>3, PrefixKeeps
<1> HIDE DEF f
<1>5. /\ IsSeq(n) /\ Len(n) = Len(f) + Len(Allocate)
      /\ \A j \in 1 .. Len(f) : n[j] = f[j]
      /\ SameCalls(f, n, names)
  BY <1>2, <1>4, ExtendKeeps
<1>6. Len(f) \in Nat /\ Len(n) = Len(f) + 7 /\ Len(n) \in Nat
  BY <1>2, <1>3, <1>4, <1>5
<1>7. n[Len(n)].op = \h20
  <2>1. \A j \in 1 .. Len(f) + Len(Allocate) : n[j] = IF j <= Len(f) THEN f[j] ELSE Allocate[j - Len(f)]
    BY <1>2, <1>4, ConcatIsSeq
  <2> HIDE DEF n
  <2> DEFINE j == Len(n)
  <2>2. j \in 1 .. Len(f) + Len(Allocate) /\ ~(j <= Len(f)) /\ j - Len(f) = 7
    BY <1>2, <1>6
  <2> HIDE DEF j
  <2>3. n[j] = Allocate[j - Len(f)]
    BY <2>1, <2>2
  <2>4. n[j] = Allocate[7]
    BY <2>2, <2>3
  <2> QED BY <2>4, <1>2 DEF j
<1>8. q.out = n
  BY DEF n, f, o
<1> HIDE DEF n
<1>9. CASE k = at
  <2>1. k - 1 < at
    BY <1>1, <1>9
  <2>2. p.exit = 0 /\ NoneUpTo(o, Len(o), names)
    BY <2>1 DEF AheadUpTo, o
  <2>3. q.exit = Len(n) /\ Len(n) \in 1 .. Len(n)
    BY <2>2, <1>6, <1>8
  <2>4. NoneUpTo(n, Len(n), names)
    BY <2>2, <1>4, <1>5 DEF SameCalls, ShiftedCalls
  <2>5. Cardinality(Behind(n, Len(n), names)) = 0
    <3> DEFINE to == Len(n)
    <3>1. to + 1 \in Int /\ to \in Int /\ to < to + 1
      BY <1>6
    <3> HIDE DEF to
    <3>2. Cardinality(Calls(n, to + 1, to, names)) = 0
      BY <3>1, CallsNone
    <3> QED BY <3>2 DEF Behind, to
  <2>6. Cardinality(Calls(is, at + 1, k, names)) \in Nat
    BY <1>1, CallsFinite
  <2>7. Cardinality(Behind(n, Len(n), names)) <= Cardinality(Calls(is, at + 1, k, names))
    BY <2>5, <2>6
  <2> QED BY <1>1, <1>7, <1>8, <2>3, <2>4, <2>7 DEF AheadUpTo
<1>10. CASE k > at
  <2>1. k - 1 >= at
    BY <1>1, <1>10
  <2>2. /\ p.exit \in 1 .. Len(o) /\ o[p.exit].op = \h20
        /\ NoneUpTo(o, p.exit, names)
        /\ Cardinality(Behind(o, p.exit, names)) <= Cardinality(Calls(is, at + 1, k - 1, names))
    BY <2>1 DEF AheadUpTo, o
  <2>3. p.exit \in Nat /\ p.exit # 0 /\ q.exit = p.exit + Len(front)
    BY <2>2, <1>3
  <2>4. q.exit \in Nat /\ q.exit \in 1 .. Len(f) /\ q.exit \in 1 .. Len(n)
    <3>1. \A e \in Nat, d \in Nat, l \in Nat : e \in 1 .. l => e + d \in Nat /\ e + d \in 1 .. d + l /\ e + d \in 1 .. d + l + 7
      OBVIOUS
    <3>2. LET e == p.exit + Len(front)
          IN  e \in Nat /\ e \in 1 .. Len(front) + Len(o) /\ e \in 1 .. Len(front) + Len(o) + 7
      BY <3>1, <2>2, <2>3, <1>3, <1>4
    <3> QED BY <3>2, <2>3, <1>4, <1>6
  <2>5. n[q.exit].op = \h20
    <3>1. n[q.exit] = f[q.exit] /\ f[p.exit + Len(front)] = o[p.exit]
      BY <2>2, <2>4, <1>4, <1>5
    <3> QED BY <3>1, <2>2, <2>3
  <2>6. NoneUpTo(n, q.exit, names)
    <3>1. NoneUpTo(f, p.exit + Len(front), names)
      BY <2>2, <2>3, <1>4 DEF ShiftedCalls
    <3>2. q.exit \in Nat /\ NoneUpTo(f, q.exit, names)
      BY <2>3, <2>4, <3>1
    <3> QED BY <3>2, <1>5 DEF SameCalls
  <2>7. Cardinality(Behind(n, q.exit, names)) = Cardinality(Behind(o, p.exit, names))
    BY <2>3, <2>4, <1>4, <1>5 DEF SameCalls, ShiftedCalls
  <2>8. Cardinality(Calls(is, at + 1, k - 1, names)) <= Cardinality(Calls(is, at + 1, k, names))
    <3> DEFINE to == k - 1
               from == at + 1
    <3>1. to \in Int /\ from \in Int /\ from <= to + 1 /\ to + 1 = k
      BY <1>1, <2>1
    <3> HIDE DEF to, from
    <3>2. /\ Cardinality(Calls(is, from, to + 1, names))
                = Cardinality(Calls(is, from, to, names)) + IF IsCall(is[to + 1], names) THEN 1 ELSE 0
          /\ Cardinality(Calls(is, from, to, names)) \in Nat
      BY <1>1, <3>1, CallsNext, CallsFinite, SMTT(30)
    <3>3. Cardinality(Calls(is, from, to, names)) <= Cardinality(Calls(is, from, to + 1, names))
      BY <3>2
    <3> QED BY <3>1, <3>3 DEF to, from
  <2>9. /\ Cardinality(Calls(is, at + 1, k - 1, names)) \in Nat /\ Cardinality(Calls(is, at + 1, k, names)) \in Nat
        /\ Cardinality(Behind(o, p.exit, names)) \in Nat
    BY <1>1, <1>3, <2>3, CallsFinite DEF Behind
  <2>10. Cardinality(Behind(n, q.exit, names)) <= Cardinality(Calls(is, at + 1, k, names))
    BY <2>2, <2>7, <2>8, <2>9
  <2> QED BY <1>1, <1>8, <2>4, <2>5, <2>6, <2>10 DEF AheadUpTo
<1> QED BY <1>1, <1>9, <1>10

LEMMA AppendAhead ==
    ASSUME NEW is, IsSeq(is), NEW at \in 1 .. Len(is), NEW k \in 1 .. Len(is), k # at, NEW names,
           NEW p, IsSeq(p.out), NEW q, q.out = Append(p.out, is[k]), q.exit = p.exit,
           k < at => ~IsCall(is[k], names),
           AheadUpTo(is, at, k - 1, p, names)
    PROVE  AheadUpTo(is, at, k, q, names)
<1> DEFINE o == p.out
           e == is[k]
           n == Append(o, e)
<1>1. Len(is) \in Nat /\ k \in Nat /\ at \in Nat
  BY IsSeqLen
<1>2. IsSeq(o) /\ Len(o) \in Nat
  BY IsSeqLen
<1> HIDE DEF o, e
<1>3. /\ IsSeq(n) /\ Len(n) = Len(o) + 1
      /\ \A j \in 1 .. Len(o) : n[j] = o[j]
  BY <1>2, AppendIsSeq
<1>4. /\ \A j \in 0 .. Len(o) : Cardinality(Behind(n, j, names))
                                   = Cardinality(Behind(o, j, names)) + IF IsCall(e, names) THEN 1 ELSE 0
      /\ \A j \in 0 .. Len(o) : NoneUpTo(o, j, names) => NoneUpTo(n, j, names)
      /\ NoneUpTo(o, Len(o), names) /\ ~IsCall(e, names) => NoneUpTo(n, Len(n), names)
  BY <1>2, AppendCounts
<1> HIDE DEF n
<1>5. q.out = n
  BY DEF n, o, e
<1>6. CASE k < at
  <2>1. k - 1 < at /\ ~(k >= at)
    BY <1>1, <1>6
  <2>2. p.exit = 0 /\ NoneUpTo(o, Len(o), names)
    BY <2>1 DEF AheadUpTo, o
  <2>3. ~IsCall(e, names)
    BY <1>6 DEF e
  <2>4. NoneUpTo(n, Len(n), names)
    BY <2>2, <2>3, <1>4
  <2> QED BY <2>1, <2>2, <2>4, <1>5, <1>6 DEF AheadUpTo
<1>7. CASE k > at
  <2>1. k - 1 >= at /\ ~(k < at) /\ k - 1 \in Int /\ at + 1 \in Int /\ k \in Int
    BY <1>1, <1>7
  <2>2. /\ p.exit \in 1 .. Len(o) /\ o[p.exit].op = \h20
        /\ NoneUpTo(o, p.exit, names)
        /\ Cardinality(Behind(o, p.exit, names)) <= Cardinality(Calls(is, at + 1, k - 1, names))
    BY <2>1 DEF AheadUpTo, o
  <2>3. p.exit \in 0 .. Len(o) /\ p.exit \in 1 .. Len(n) /\ p.exit + 1 \in Int
    BY <2>2, <1>2, <1>3
  <2>4. NoneUpTo(n, p.exit, names) /\ n[p.exit].op = \h20
    BY <2>2, <2>3, <1>3, <1>4
  <2>5. Cardinality(Behind(n, p.exit, names))
           = Cardinality(Behind(o, p.exit, names)) + IF IsCall(e, names) THEN 1 ELSE 0
    BY <2>3, <1>4
  <2>6. /\ Cardinality(Calls(is, at + 1, k, names))
              = Cardinality(Calls(is, at + 1, k - 1, names)) + IF IsCall(e, names) THEN 1 ELSE 0
        /\ Cardinality(Calls(is, at + 1, k - 1, names)) \in Nat
    <3> DEFINE to == k - 1
               from == at + 1
    <3>1. to \in Int /\ from \in Int /\ from <= to + 1 /\ to + 1 = k
      BY <1>1, <2>1
    <3> HIDE DEF to, from
    <3>2. /\ Cardinality(Calls(is, from, to + 1, names))
                = Cardinality(Calls(is, from, to, names)) + IF IsCall(is[to + 1], names) THEN 1 ELSE 0
          /\ Cardinality(Calls(is, from, to, names)) \in Nat
      <4>1. Cardinality(Calls(is, from, to + 1, names))
                = Cardinality(Calls(is, from, to, names)) + IF IsCall(is[to + 1], names) THEN 1 ELSE 0
        BY <3>1, CallsNext
      <4>2. Cardinality(Calls(is, from, to, names)) \in Nat
        BY <3>1, CallsFinite
      <4> QED BY <4>1, <4>2
    <3> QED BY <3>1, <3>2 DEF to, from, e
  <2>7. Cardinality(Behind(o, p.exit, names)) \in Nat
    BY <1>2, <2>3, CallsFinite DEF Behind
  <2>8. Cardinality(Behind(n, p.exit, names)) <= Cardinality(Calls(is, at + 1, k, names))
    BY <2>2, <2>5, <2>6, <2>7
  <2> QED BY <2>1, <2>3, <2>4, <2>8, <1>5 DEF AheadUpTo
<1> QED BY <1>1, <1>6, <1>7

LEMMA AllocaStepAhead ==
    ASSUME NEW is, IsSeq(is), NEW at \in 1 .. Len(is), NEW k \in 1 .. Len(is), NEW names,
           "alloca" \in names, IsCall(is[at], {"alloca"}),
           \A j \in 1 .. at - 1 : ~IsCall(is[j], names),
           NEW p \in PassStates(is), AheadUpTo(is, at, k - 1, p, names)
    PROVE  AheadUpTo(is, at, k, AllocaStep(is, k, p), names)
<1> DEFINE q == AllocaStep(is, k, p)
<1>1. IsSeq(p.out)
  <2>1. p.out \in Seq(ToSet(is) \cup Added)
    BY DEF PassStates
  <2> QED BY <2>1, SeqIsSeq
<1>2. is[at].op = \h10
  BY DEF IsCall
<1>3. k \in Nat /\ at \in Nat /\ (k < at => k \in 1 .. at - 1)
  BY IsSeqLen
<1>4. k < at => ~IsCall(is[k], names) /\ ~IsCall(is[k], {"alloca"})
  BY <1>3 DEF IsCall
<1>5. Edited(is, k, p, q)
  BY AllocaStepCases
<1> HIDE DEF q
<1>6. CASE is[k].op = \h24 /\ EndsWith(p.out, <<\h20, \h41, \h6A>>) /\ q.out = Cut(p.out) \o Restored /\ q.exit = p.exit
  <2> DEFINE o == p.out
  <2> HIDE DEF o
  <2>1. Quiet(o, Cut(o) \o Restored, names)
    BY <1>1, <1>6, CutQuiet DEF o
  <2>2. Quiet(p.out, q.out, names) /\ q.exit = p.exit /\ k # at
    BY <2>1, <1>2, <1>6 DEF o
  <2>3. AheadUpTo(is, at, k, q, names)
    BY <1>1, <2>2, QuietAhead
  <2> QED BY <2>3 DEF q
<1>7. CASE is[k].op = \h23 /\ q.out = p.out \o KeptAtPrologue /\ q.exit = p.exit
  <2> DEFINE o == p.out
  <2> HIDE DEF o
  <2>1. Quiet(o, o \o KeptAtPrologue, names)
    BY <1>1, EnterQuiet DEF o
  <2>2. Quiet(p.out, q.out, names) /\ q.exit = p.exit /\ k # at
    BY <2>1, <1>2, <1>7 DEF o
  <2>3. AheadUpTo(is, at, k, q, names)
    BY <1>1, <2>2, QuietAhead
  <2> QED BY <2>3 DEF q
<1>8. CASE /\ IsCall(is[k], {"alloca"})
           /\ \E front \in {<<>>, KeepSP} :
                 /\ q.out = (front \o p.out) \o Allocate
                 /\ q.exit = IF p.exit = 0 THEN Len(q.out) ELSE p.exit + Len(front)
  <2>1. PICK front \in {<<>>, KeepSP} :
                 /\ q.out = (front \o p.out) \o Allocate
                 /\ q.exit = IF p.exit = 0 THEN Len(q.out) ELSE p.exit + Len(front)
    BY <1>8
  <2>2. NoCall(front)
    BY AddedSeqs, AddedNoCall
  <2>3. k >= at
    BY <1>3, <1>4, <1>8
  <2>4. AheadUpTo(is, at, k, q, names)
    BY <1>1, <2>1, <2>2, <2>3, AllocateAhead
  <2> QED BY <2>4 DEF q
<1>9. CASE ~IsCall(is[k], {"alloca"}) /\ q.out = Append(p.out, is[k]) /\ q.exit = p.exit
  <2>1. k # at
    BY <1>9
  <2>2. AheadUpTo(is, at, k, q, names)
    BY <1>1, <1>4, <1>9, <2>1, AppendAhead
  <2> QED BY <2>2 DEF q
<1> QED BY <1>5, <1>6, <1>7, <1>8, <1>9 DEF Edited

LEMMA AllocaPassAhead ==
    ASSUME NEW is, IsSeq(is), NEW at \in 1 .. Len(is), NEW names,
           "alloca" \in names, IsCall(is[at], {"alloca"}),
           \A j \in 1 .. at - 1 : ~IsCall(is[j], names)
    PROVE  LET p == AllocaPass(is)
           IN  /\ p.exit \in 1 .. Len(p.out)
               /\ NoneUpTo(p.out, p.exit, names)
               /\ Cardinality(Behind(p.out, p.exit, names)) <= Cardinality(Behind(is, at, names))
<1>1. PICK taken : /\ taken \in [0 .. Len(is) -> PassStates(is)]
                   /\ taken[0] = PassStart
                   /\ \A k \in 1 .. Len(is) : taken[k] = AllocaStep(is, k, taken[k - 1])
                   /\ AllocaPass(is) = taken[Len(is)]
  BY AllocaSteps
<1>2. Len(is) \in Nat /\ at \in Nat
  BY IsSeqLen
<1> DEFINE held == {k \in 0 .. Len(is) : AheadUpTo(is, at, k, taken[k], names)}
<1>3. 0 \in held
  <2>1. PassStart.out = <<>> /\ PassStart.exit = 0
    BY DEF PassStart
  <2>2. NoneUpTo(<<>>, Len(<<>>), names)
    <3>1. Len(<<>>) = 0 /\ 1 .. 0 = {}
      BY EmptyIsSeq
    <3> QED BY <3>1 DEF NoneUpTo
  <2>3. 0 < at /\ ~(0 >= at)
    BY <1>2
  <2>4. AheadUpTo(is, at, 0, taken[0], names)
    BY <1>1, <2>1, <2>2, <2>3 DEF AheadUpTo
  <2> QED BY <2>4, <1>2
<1>4. ASSUME NEW k \in held, k < Len(is) PROVE k + 1 \in held
  <2>1. k + 1 \in 1 .. Len(is) /\ (k + 1) - 1 = k /\ k \in 0 .. Len(is) /\ k + 1 \in 0 .. Len(is)
    BY <1>2, <1>4
  <2>2. taken[k + 1] = AllocaStep(is, k + 1, taken[k]) /\ taken[k] \in PassStates(is)
    BY <1>1, <2>1
  <2>3. AheadUpTo(is, at, k, taken[k], names)
    BY <1>4
  <2> DEFINE p == taken[k]
             j == k + 1
  <2> HIDE DEF p, j
  <2>4. j \in 1 .. Len(is) /\ p \in PassStates(is) /\ AheadUpTo(is, at, j - 1, p, names)
    BY <2>1, <2>2, <2>3 DEF p, j
  <2>5. AheadUpTo(is, at, j, AllocaStep(is, j, p), names)
    BY <2>4, AllocaStepAhead
  <2> QED BY <2>1, <2>2, <2>5 DEF p, j
<1>5. held = 0 .. Len(is)
  <2>1. held \in SUBSET (0 .. Len(is))
    OBVIOUS
  <2> HIDE DEF held
  <2> QED BY <1>2, <1>3, <1>4, <2>1, UpToInduction
<1>6. Len(is) \in 0 .. Len(is) /\ Len(is) >= at
  BY <1>2
<1>7. AheadUpTo(is, at, Len(is), taken[Len(is)], names)
  BY <1>5, <1>6
<1> QED BY <1>1, <1>6, <1>7 DEF AheadUpTo, Behind

----------------------------------------------------------------------------
(* What the splices leave.                                                 *)

\* b ends as a does from an index on, d places further on.
MovedBy(a, from, b, d) ==
    /\ Len(b) = Len(a) + d
    /\ \A j \in from .. Len(a) : b[j + d] = a[j]

\* The elements of is from p + 1 to q - 1 replaced by those of new.
Put(is, p, new, q) == SubSeq(is, 1, p) \o new \o SubSeq(is, q, Len(is))

LEMMA PutIs ==
    ASSUME NEW is, IsSeq(is), NEW p \in 0 .. Len(is), NEW new, IsSeq(new), NEW q \in 1 .. Len(is) + 1
    PROVE  /\ IsSeq(Put(is, p, new, q))
           /\ \A j \in 1 .. p : Put(is, p, new, q)[j] = is[j]
           /\ \A j \in 1 .. Len(new) : Put(is, p, new, q)[p + j] = new[j]
           /\ MovedBy(is, q, Put(is, p, new, q), p + Len(new) + 1 - q)
<1> DEFINE B == SubSeq(is, 1, p)
           A == SubSeq(is, q, Len(is))
           M == B \o new
           n == M \o A
<1>1. Len(is) \in Nat /\ p \in Nat /\ q \in Nat \ {0} /\ p <= Len(is) /\ Len(new) \in Nat /\ q <= Len(is) + 1
  BY IsSeqLen
<1>2. IsSeq(B) /\ Len(B) = p /\ \A j \in 1 .. p : B[j] = is[j]
  <2>1. /\ IsSeq(B)
        /\ Len(B) = IF 1 <= p THEN p - 1 + 1 ELSE 0
        /\ \A i \in 1 .. p - 1 + 1 : B[i] = is[1 + i - 1]
    BY <1>1, PartIsSeq
  <2> HIDE DEF B
  <2>2. (IF 1 <= p THEN p - 1 + 1 ELSE 0) = p
    BY <1>1
  <2>3. \A i \in 1 .. p : i \in 1 .. p - 1 + 1 /\ 1 + i - 1 = i
    BY <1>1
  <2> QED BY <2>1, <2>2, <2>3
<1>3. /\ IsSeq(A) /\ Len(A) = Len(is) + 1 - q
      /\ \A j \in q .. Len(is) : j - q + 1 \in 1 .. Len(A) /\ A[j - q + 1] = is[j]
  <2>1. /\ IsSeq(A)
        /\ Len(A) = IF q <= Len(is) THEN Len(is) - q + 1 ELSE 0
        /\ \A i \in 1 .. Len(is) - q + 1 : A[i] = is[q + i - 1]
    BY <1>1, PartIsSeq
  <2> HIDE DEF A
  <2>2. (IF q <= Len(is) THEN Len(is) - q + 1 ELSE 0) = Len(is) + 1 - q
    BY <1>1
  <2>3. \A j \in q .. Len(is) : j - q + 1 \in 1 .. Len(is) + 1 - q /\ j - q + 1 \in 1 .. Len(is) - q + 1 /\ q + (j - q + 1) - 1 = j
    BY <1>1
  <2> QED BY <2>1, <2>2, <2>3
<1> HIDE DEF A, B
<1>4. /\ IsSeq(M) /\ Len(M) = p + Len(new)
      /\ \A k \in 1 .. p + Len(new) : M[k] = IF k <= p THEN B[k] ELSE new[k - p]
  BY <1>2, ConcatIsSeq
<1> HIDE DEF M
<1>5. /\ IsSeq(n) /\ Len(n) = Len(M) + Len(A)
      /\ \A k \in 1 .. Len(M) + Len(A) : n[k] = IF k <= Len(M) THEN M[k] ELSE A[k - Len(M)]
  BY <1>3, <1>4, ConcatIsSeq
<1>6. Len(n) = p + Len(new) + (Len(is) + 1 - q) /\ Len(M) \in Nat /\ Len(A) \in Nat
  BY <1>1, <1>3, <1>4, <1>5
<1> HIDE DEF n
<1>7. ASSUME NEW j \in 1 .. p PROVE n[j] = is[j]
  <2>1. j \in 1 .. p + Len(new) /\ j \in 1 .. Len(M) + Len(A) /\ j <= p /\ j <= Len(M)
    BY <1>1, <1>4, <1>6
  <2>2. n[j] = M[j] /\ M[j] = B[j]
    BY <2>1, <1>4, <1>5
  <2> QED BY <2>2, <1>2
<1>8. ASSUME NEW j \in 1 .. Len(new) PROVE n[p + j] = new[j]
  <2> DEFINE k == p + j
  <2>1. k \in 1 .. p + Len(new) /\ k \in 1 .. Len(M) + Len(A) /\ ~(k <= p) /\ k <= Len(M) /\ k - p = j
    BY <1>1, <1>4, <1>6
  <2> HIDE DEF k
  <2>2. n[k] = M[k] /\ M[k] = new[k - p]
    BY <2>1, <1>4, <1>5
  <2>3. n[k] = new[j]
    BY <2>1, <2>2
  <2> QED BY <2>3 DEF k
<1>9. ASSUME NEW j \in q .. Len(is) PROVE n[p + Len(new) + (j - q + 1)] = is[j]
  <2> DEFINE i == j - q + 1
             k == Len(M) + i
  <2>1. i \in 1 .. Len(A) /\ A[i] = is[j]
    BY <1>3
  <2> HIDE DEF i
  <2>2. k \in 1 .. Len(M) + Len(A) /\ ~(k <= Len(M)) /\ k - Len(M) = i
    BY <2>1, <1>6
  <2>3. k = p + Len(new) + i
    BY <1>4
  <2> HIDE DEF k
  <2>4. n[k] = A[k - Len(M)]
    BY <2>2, <1>5
  <2>5. n[k] = is[j]
    BY <2>1, <2>2, <2>4
  <2> QED BY <2>3, <2>5 DEF i
<1>10. Put(is, p, new, q) = n
  BY DEF Put, n, M, B, A
<1>11. MovedBy(is, q, n, p + Len(new) + 1 - q)
  <2> DEFINE d == p + Len(new) + 1 - q
  <2>1. Len(n) = Len(is) + d
    BY <1>1, <1>6
  <2>2. ASSUME NEW j \in q .. Len(is) PROVE n[j + d] = is[j]
    <3>1. j + d = p + Len(new) + (j - q + 1)
      BY <1>1
    <3> HIDE DEF d
    <3> QED BY <3>1, <1>9
  <2> QED BY <2>1, <2>2 DEF MovedBy
<1> QED BY <1>5, <1>7, <1>8, <1>10, <1>11

LEMMA PutCount ==
    ASSUME NEW is, IsSeq(is), NEW p \in 0 .. Len(is), NEW new, IsSeq(new), NEW q \in 1 .. Len(is) + 1, NEW names
    PROVE  Count(Put(is, p, new, q), names)
              = Count(SubSeq(is, 1, p), names) + Count(new, names) + Count(SubSeq(is, q, Len(is)), names)
<1> DEFINE B == SubSeq(is, 1, p)
           A == SubSeq(is, q, Len(is))
           M == B \o new
<1>1. Len(is) \in Nat /\ p \in Nat /\ q \in Nat \ {0} /\ p <= Len(is)
  BY IsSeqLen
<1>2. IsSeq(B) /\ IsSeq(A)
  BY <1>1, PartIsSeq
<1> HIDE DEF A, B
<1>3. IsSeq(M) /\ Count(M, names) = Count(B, names) + Count(new, names)
  BY <1>2, ConcatIsSeq, CountConcat
<1> HIDE DEF M
<1>4. Count(M \o A, names) = Count(M, names) + Count(A, names)
  BY <1>2, <1>3, CountConcat
<1> QED BY <1>3, <1>4 DEF Put, M, A, B

LEMMA InsertIs ==
    ASSUME NEW is, IsSeq(is), NEW i \in 1 .. Len(is) + 1, NEW e
    PROVE  IsSeq(InsertAt(is, i, e)) /\ MovedBy(is, i, InsertAt(is, i, e), 1)
<1> DEFINE p == i - 1
           new == <<e>>
           d == p + Len(new) + 1 - i
<1>1. InsertAt(is, i, e) = Put(is, p, new, i)
  BY DEF InsertAt, Put
<1>2. p \in 0 .. Len(is)
  BY IsSeqLen
<1>3. IsSeq(new) /\ Len(new) = 1
  BY SingletonIs
<1>4. d = 1
  <2>1. i \in Int
    BY IsSeqLen
  <2> HIDE DEF new
  <2> QED BY <2>1, <1>3
<1> HIDE DEF p, new
<1>5. IsSeq(Put(is, p, new, i)) /\ MovedBy(is, i, Put(is, p, new, i), d)
  BY <1>2, <1>3, PutIs
<1> HIDE DEF d
<1> QED BY <1>1, <1>4, <1>5

LEMMA RemoveIs ==
    ASSUME NEW is, IsSeq(is), NEW i \in 1 .. Len(is)
    PROVE  IsSeq(RemoveAt(is, i)) /\ MovedBy(is, i + 1, RemoveAt(is, i), -1)
<1> DEFINE n == RemoveAt(is, i)
           B == SubSeq(is, 1, i - 1)
           A == SubSeq(is, i + 1, Len(is))
<1>1. Len(is) \in Nat /\ i \in Nat /\ i - 1 \in Nat /\ i - 1 <= Len(is) /\ i + 1 \in Nat \ {0}
  BY IsSeqLen
<1>2. IsSeq(B) /\ Len(B) = i - 1
  <2>1. IsSeq(B) /\ Len(B) = IF 1 <= i - 1 THEN (i - 1) - 1 + 1 ELSE 0
    BY <1>1, PartIsSeq
  <2> HIDE DEF B
  <2>2. (IF 1 <= i - 1 THEN (i - 1) - 1 + 1 ELSE 0) = i - 1
    BY <1>1
  <2> QED BY <2>1, <2>2
<1>3. IsSeq(A) /\ Len(A) = Len(is) - i /\ \A j \in 1 .. Len(is) - i : A[j] = is[i + j]
  <2> DEFINE f == i + 1
  <2>1. f \in Nat \ {0} /\ f = i + 1
    BY <1>1
  <2> HIDE DEF f
  <2>2. /\ IsSeq(SubSeq(is, f, Len(is)))
        /\ Len(SubSeq(is, f, Len(is))) = IF f <= Len(is) THEN Len(is) - f + 1 ELSE 0
        /\ \A j \in 1 .. Len(is) - f + 1 : SubSeq(is, f, Len(is))[j] = is[f + j - 1]
    BY <1>1, <2>1, PartIsSeq
  <2>3. (IF f <= Len(is) THEN Len(is) - f + 1 ELSE 0) = Len(is) - i
    BY <1>1, <2>1
  <2>4. \A j \in 1 .. Len(is) - i : j \in 1 .. Len(is) - f + 1 /\ f + j - 1 = i + j
    BY <1>1, <2>1
  <2> DEFINE t == SubSeq(is, f, Len(is))
  <2> HIDE DEF t
  <2>5. IsSeq(t) /\ Len(t) = Len(is) - i /\ \A j \in 1 .. Len(is) - i : t[j] = is[i + j]
    BY <2>2, <2>3, <2>4 DEF t
  <2> QED BY <2>5 DEF t, f
<1> HIDE DEF A, B
<1>4. n = B \o A
  BY DEF RemoveAt, A, B
<1> HIDE DEF n
<1>5. /\ IsSeq(n) /\ Len(n) = Len(B) + Len(A)
      /\ \A k \in 1 .. Len(B) + Len(A) : n[k] = IF k <= Len(B) THEN B[k] ELSE A[k - Len(B)]
  BY <1>2, <1>3, <1>4, ConcatIsSeq
<1>6. Len(n) = Len(is) - 1
  BY <1>1, <1>2, <1>3, <1>5
<1>7. ASSUME NEW j \in i + 1 .. Len(is) PROVE n[j + (-1)] = is[j]
  <2> DEFINE l == j + (-1)
             k == l - Len(B)
  <2>1. l \in 1 .. Len(B) + Len(A) /\ ~(l <= Len(B)) /\ k \in 1 .. Len(is) - i /\ i + k = j
    BY <1>1, <1>2, <1>3
  <2> HIDE DEF l
  <2>2. n[l] = A[k]
    BY <2>1, <1>5
  <2> HIDE DEF k
  <2>3. A[k] = is[i + k]
    BY <2>1, <1>3
  <2>4. n[l] = is[j]
    BY <2>1, <2>2, <2>3
  <2> QED BY <2>4 DEF l
<1>8. Len(n) = Len(is) + (-1)
  BY <1>1, <1>6
<1> QED BY <1>5, <1>7, <1>8 DEF n, MovedBy

LEMMA ReplaceIs ==
    ASSUME NEW is, IsSeq(is), NEW i \in Nat, NEW e
    PROVE  IsSeq(ReplaceAt(is, i, e)) /\ MovedBy(is, i + 1, ReplaceAt(is, i, e), 0)
<1> DEFINE n == [is EXCEPT ![i] = e]
<1>1. Len(is) \in Nat /\ DOMAIN is = 1 .. Len(is)
  BY IsSeqLen
<1>2. DOMAIN n = 1 .. Len(is) /\ n = [k \in 1 .. Len(is) |-> n[k]]
  BY <1>1
<1>3. \A j \in 1 .. Len(is) : j # i => n[j] = is[j]
  BY <1>1
<1> HIDE DEF n
<1>4. IsSeq(n) /\ Len(n) = Len(is)
  BY <1>1, <1>2, FunctionIsSeq
<1>5. \A j \in i + 1 .. Len(is) : n[j + 0] = is[j]
  <2>1. \A j \in i + 1 .. Len(is) : j \in 1 .. Len(is) /\ j # i /\ j + 0 = j
    BY <1>1
  <2> QED BY <2>1, <1>3
<1>6. Len(n) = Len(is) + 0
  BY <1>1, <1>4
<1> QED BY <1>4, <1>5, <1>6 DEF n, ReplaceAt, MovedBy

LEMMA MovedTwice ==
    ASSUME NEW a, Len(a) \in Nat, NEW b, NEW c, NEW from \in Int, NEW next \in Int,
           NEW d \in Int, NEW e \in Int, next <= from + d, MovedBy(a, from, b, d), MovedBy(b, next, c, e)
    PROVE  MovedBy(a, from, c, d + e)
<1>1. Len(b) = Len(a) + d /\ Len(c) = Len(b) + e
  BY DEF MovedBy
<1>2. Len(c) = Len(a) + (d + e)
  BY <1>1
<1>3. ASSUME NEW j \in from .. Len(a) PROVE c[j + (d + e)] = a[j]
  <2> DEFINE k == j + d
  <2>1. k \in next .. Len(b) /\ k + e = j + (d + e)
    BY <1>1
  <2>2. b[k] = a[j]
    BY DEF MovedBy
  <2> HIDE DEF k
  <2>3. c[k + e] = b[k]
    BY <2>1 DEF MovedBy
  <2> QED BY <2>1, <2>2, <2>3
<1> QED BY <1>2, <1>3 DEF MovedBy

LEMMA MovedLater ==
    ASSUME NEW a, NEW b, NEW from \in Int, NEW later \in Int, from <= later, NEW d, Len(a) \in Int,
           MovedBy(a, from, b, d)
    PROVE  MovedBy(a, later, b, d)
<1>1. \A j \in later .. Len(a) : j \in from .. Len(a)
  OBVIOUS
<1> QED BY <1>1 DEF MovedBy

\* The call that is replaced is not met again.
LEMMA CallHere ==
    ASSUME NEW a, Len(a) \in Nat, NEW at \in 1 .. Len(a), NEW names, IsCall(a[at], names)
    PROVE  Cardinality(Behind(a, at, names)) < Cardinality(Calls(a, at, Len(a), names))
<1> DEFINE A == Behind(a, at, names)
           B == Calls(a, at, Len(a), names)
<1>1. \A j \in at + 1 .. Len(a) : j \in at .. Len(a)
  OBVIOUS
<1>2. A \in SUBSET B
  BY <1>1 DEF Behind, Calls
<1>3. at \in B /\ at \notin A
  <2>1. at \in at .. Len(a) /\ at \notin at + 1 .. Len(a)
    OBVIOUS
  <2> QED BY <2>1 DEF Behind, Calls
<1>4. IsFiniteSet(B) /\ Cardinality(B) \in Nat
  BY CallsFinite
<1> HIDE DEF A, B
<1>5. Cardinality(A) <= Cardinality(B) /\ Cardinality(A) # Cardinality(B)
  BY <1>2, <1>3, <1>4, FS_Subset
<1>6. Cardinality(A) \in Nat
  BY <1>2, <1>4, FS_Subset, FS_CardinalityType
<1>7. Cardinality(A) < Cardinality(B)
  BY <1>4, <1>5, <1>6
<1> QED BY <1>7 DEF A, B

LEMMA MovedAhead ==
    ASSUME NEW a, Len(a) \in Nat, NEW b, NEW at \in 1 .. Len(a), NEW names, IsCall(a[at], names),
           NEW from \in Int, at < from, NEW d \in Int, MovedBy(a, from, b, d)
    PROVE  Cardinality(Calls(b, from + d, Len(b), names)) < Cardinality(Calls(a, at, Len(a), names))
<1> DEFINE A == Calls(a, from, Len(a), names)
           B == Calls(b, from + d, Len(b), names)
<1>1. Len(b) = Len(a) + d /\ Len(b) \in Int
  BY DEF MovedBy
<1>2. A \in SUBSET Int /\ B \in SUBSET Int /\ IsFiniteSet(A)
  <2>1. IsFiniteSet(A)
    BY CallsFinite
  <2> QED BY <1>1, <2>1 DEF Calls
<1>3. ASSUME NEW k \in Int PROVE k \in A <=> k + d \in B
  <2>1. k \in from .. Len(a) <=> k + d \in from + d .. Len(b)
    BY <1>1
  <2>2. k \in from .. Len(a) => b[k + d] = a[k]
    BY DEF MovedBy
  <2> QED BY <2>1, <2>2 DEF Calls
<1>4. A \in SUBSET Behind(a, at, names)
  <2>1. \A j \in from .. Len(a) : j \in at + 1 .. Len(a)
    OBVIOUS
  <2> QED BY <2>1 DEF Behind, Calls
<1>5. IsFiniteSet(Behind(a, at, names)) /\ Cardinality(Behind(a, at, names)) \in Nat
  BY CallsFinite DEF Behind
<1> HIDE DEF A, B
<1>6. Cardinality(B) = Cardinality(A)
  BY <1>2, <1>3, ShiftCount
<1>7. Cardinality(A) <= Cardinality(Behind(a, at, names)) /\ Cardinality(A) \in Nat
  BY <1>2, <1>4, <1>5, FS_Subset, FS_CardinalityType
<1>8. Cardinality(Behind(a, at, names)) < Cardinality(Calls(a, at, Len(a), names))
  BY CallHere
<1>9. Cardinality(Calls(a, at, Len(a), names)) \in Nat
  BY CallsFinite
<1>10. Cardinality(B) < Cardinality(Calls(a, at, Len(a), names))
  BY <1>5, <1>6, <1>7, <1>8, <1>9
<1> QED BY <1>10 DEF B

LEMMA GreatestNat ==
    ASSUME NEW n \in Nat, NEW places \in SUBSET (1 .. n), places # {}
    PROVE  \E k \in places : \A j \in places : j <= k
<1> DEFINE U == {n - k : k \in places}
<1>1. U \in SUBSET Nat /\ U # {}
  OBVIOUS
<1>2. PICK u \in U : \A v \in U : u <= v
  <2> HIDE DEF U
  <2> QED BY <1>1, LeastNat
<1>3. PICK k \in places : u = n - k
  OBVIOUS
<1>4. ASSUME NEW j \in places PROVE j <= k
  <2>1. u <= n - j
    BY <1>2
  <2> QED BY <2>1, <1>3
<1> QED BY <1>4

\* The walk back finds an instruction in front of the call, or none.
LEMMA TraverseBack ==
    ASSUME NEW is, NEW from \in Nat, NEW relative
    PROVE  traverseStack(is, from, relative) \in {Throws} \cup (Undefined .. from)
<1> DEFINE count[k \in 0 .. from] ==
               IF k = from THEN -1
               ELSE count[k + 1] + Pushed(is[k + 1]) - Pulled(is[k + 1])
           Stops(k) == ~HasEntry(is[k].op) \/ count[k] + Pushed(is[k]) = relative
           stops == {k \in 1 .. from : Stops(k)}
           last == CHOOSE k \in stops : \A j \in stops : j <= k
<1>1. traverseStack(is, from, relative) =
          CASE stops = {} -> Undefined
            [] stops # {} /\ HasEntry(is[last].op) -> last
            [] OTHER -> Throws
  BY DEF traverseStack
<1> HIDE DEF Stops, count
<1>2. stops \in SUBSET (1 .. from)
  OBVIOUS
<1> HIDE DEF stops
<1>3. CASE stops = {}
  <2>1. traverseStack(is, from, relative) = Undefined
    BY <1>1, <1>3
  <2> QED BY <2>1 DEF Undefined
<1>4. CASE stops # {}
  <2>1. last \in stops
    BY <1>2, <1>4, GreatestNat
  <2>2. last \in 1 .. from
    BY <2>1, <1>2
  <2> HIDE DEF last
  <2>3. traverseStack(is, from, relative) \in {last, Throws}
    BY <1>1, <1>4
  <2>4. last \in 0 .. from
    BY <2>2
  <2> QED BY <2>3, <2>4 DEF Undefined
<1> QED BY <1>3, <1>4

----------------------------------------------------------------------------
(* The invariant.                                                          *)

Memory == "memory_op_replace_map"
UsageInv ==
    /\ func \in Functions
    /\ IsSeq(code)
    /\ x \in Nat \ {0}
    /\ usage \in [CalleesIn(func.code) -> Int]
    /\ func.map = Memory =>
          \A n \in CalleesIn(func.code) : usage[n] = Uses(func.code, element, n)
    /\ func.map # Memory =>
          /\ \A n \in CalleesIn(func.code) : usage[n] = Uses(code, element, n)
          /\ NoneUpTo(code, x - 1, Handled(func.map))
    /\ phase = "done" =>
          removed = {n \in DOMAIN usage \cap Handled(func.map) : usage[n] = 0}

LEMMA InitUsage == Init => UsageInv
<1> SUFFICES ASSUME Init PROVE UsageInv
  OBVIOUS
<1>1. func \in Functions /\ code = func.code /\ x = 1 /\ phase = "replace"
      /\ usage = [n \in CalleesIn(code) |-> Uses(code, element, n)]
  BY DEF Init
<1>2. IsSeq(code)
  BY <1>1, FunctionsAssumption, SeqIsSeq
<1>3. \A n : Uses(code, element, n) \in Int
  <2> TAKE n
  <2>1. Count(code, {n}) \in Nat
    BY <1>2, CountType
  <2> QED BY <2>1, <1>2, UsesCount
<1>4. NoneUpTo(code, x - 1, Handled(func.map))
  <2>1. x - 1 = 0 /\ \A k \in 1 .. Len(code) : ~(k <= 0)
    BY <1>1, <1>2, IsSeqLen
  <2> QED BY <2>1 DEF NoneUpTo
<1> QED BY <1>1, <1>2, <1>3, <1>4 DEF UsageInv

LEMMA Maps ==
    ASSUME func \in Functions
    PROVE  /\ func.map \in {Memory, "builtin_op_replace_map", "atomic_op_replace_map"}
           /\ func.map = Memory => Handled(func.map) = MemoryOps /\ HandlersOf(func.map) = {}
           /\ func.map # Memory => Handled(func.map) \cap MemoryOps = {}
           /\ \A h \in HandlersOf(func.map) : h.name \in Handled(func.map)
           /\ "alloca" \notin MemoryOps /\ "table_grow" \notin MemoryOps /\ "table_zerofill" \notin MemoryOps
<1>1. func.map \in {Memory, "builtin_op_replace_map", "atomic_op_replace_map"}
  BY FunctionsAssumption DEF Memory
<1>2. "alloca" \notin MemoryOps /\ "table_grow" \notin MemoryOps /\ "table_zerofill" \notin MemoryOps
  BY DEF MemoryOps
<1>3. CASE func.map = Memory
  BY <1>2, <1>3 DEF Memory, Handled, HandlersOf
<1>4. CASE func.map = "builtin_op_replace_map"
  <2>1. Handled(func.map) = BuiltinNames /\ HandlersOf(func.map) = BuiltinHandlers /\ func.map # Memory
    BY <1>4 DEF Handled, HandlersOf, Memory
  <2>2. \A h \in BuiltinHandlers : h.name \in BuiltinNames
    BY DEF BuiltinNames
  <2> QED BY <1>2, <1>4, <2>1, <2>2, NamesAssumption DEF Memory
<1>5. CASE func.map = "atomic_op_replace_map"
  <2>1. Handled(func.map) = CoreNames /\ HandlersOf(func.map) = CoreHandlers /\ func.map # Memory
    BY <1>5 DEF Handled, HandlersOf, Memory
  <2>2. \A h \in CoreHandlers : h.name \in CoreNames
    BY DEF CoreNames
  <2> QED BY <1>2, <1>5, <2>1, <2>2, NamesAssumption DEF Memory
<1> QED BY <1>1, <1>3, <1>4, <1>5

Closer(is, from, new, next, names) ==
    Cardinality(Calls(new, next, Len(new), names)) < Cardinality(Calls(is, from, Len(is), names))

\* Opcode for the call and a local.get or nothing behind it, and a local.tee in front.
LEMMA DroppedEdit ==
    ASSUME NEW is, IsSeq(is), NEW at \in 1 .. Len(is), at < Len(is), NEW names, IsCall(is[at], names), NEW e,
           NEW new, new = RemoveAt(ReplaceAt(is, at, e), at + 1),
           NEW next, next = IF at + 1 < Len(is) THEN at + 2 ELSE at + 1
    PROVE  IsSeq(new) /\ Closer(is, at, new, next, names)
<1> DEFINE r == ReplaceAt(is, at, e)
<1>1. Len(is) \in Nat /\ at \in Nat /\ at + 1 \in Int /\ at + 2 \in Int /\ at + 3 \in Int
  BY IsSeqLen
<1>2. IsSeq(r) /\ MovedBy(is, at + 1, r, 0)
  BY <1>1, ReplaceIs
<1>3. new = RemoveAt(r, at + 1)
  OBVIOUS
<1> HIDE DEF r
<1>4. Len(r) = Len(is)
  BY <1>1, <1>2 DEF MovedBy
<1>5. IsSeq(new) /\ MovedBy(r, at + 2, new, -1)
  <2> DEFINE i == at + 1
  <2>1. i \in 1 .. Len(r) /\ i + 1 = at + 2
    BY <1>1, <1>4
  <2> HIDE DEF i
  <2>2. IsSeq(RemoveAt(r, i)) /\ MovedBy(r, i + 1, RemoveAt(r, i), -1)
    BY <1>2, <2>1, RemoveIs
  <2> QED BY <1>3, <2>1, <2>2 DEF i
<1>6. MovedBy(is, at + 2, r, 0)
  <2> DEFINE f == at + 1
             g == at + 2
  <2>1. f \in Int /\ g \in Int /\ f <= g /\ Len(is) \in Int
    BY <1>1
  <2> HIDE DEF f, g
  <2>2. MovedBy(is, f, r, 0)
    BY <1>2 DEF f
  <2>3. MovedBy(is, g, r, 0)
    BY <2>1, <2>2, MovedLater
  <2> QED BY <2>3 DEF g
<1>7. MovedBy(is, at + 2, new, -1)
  <2> DEFINE g == at + 2
             d == 0
             m == -1
  <2>1. g \in Int /\ d \in Int /\ m \in Int /\ g <= g + d /\ d + m = m
    BY <1>1
  <2>2. MovedBy(is, g, r, d) /\ MovedBy(r, g, new, m)
    BY <1>5, <1>6
  <2> HIDE DEF g, d, m
  <2>3. MovedBy(is, g, new, d + m)
    BY <1>1, <2>1, <2>2, MovedTwice
  <2> QED BY <2>1, <2>3 DEF g, m
<1>8. CASE at + 1 < Len(is)
  <2> DEFINE f == at + 2
             g == at + 3
             m == -1
  <2>1. f \in Int /\ g \in Int /\ f <= g /\ at < g /\ m \in Int /\ g + m = next /\ Len(is) \in Int
    BY <1>1, <1>8
  <2>2. MovedBy(is, f, new, m)
    BY <1>7
  <2> HIDE DEF f, g, m
  <2>3. MovedBy(is, g, new, m)
    BY <2>1, <2>2, MovedLater
  <2>4. Cardinality(Calls(new, g + m, Len(new), names)) < Cardinality(Calls(is, at, Len(is), names))
    BY <1>1, <2>1, <2>3, MovedAhead
  <2> QED BY <1>5, <2>1, <2>4 DEF Closer
<1>9. CASE ~(at + 1 < Len(is))
  <2> DEFINE f == at + 2
             m == -1
  <2>1. f \in Int /\ at < f /\ m \in Int /\ f + m = next
    BY <1>1, <1>9
  <2>2. MovedBy(is, f, new, m)
    BY <1>7
  <2> HIDE DEF f, m
  <2>3. Cardinality(Calls(new, f + m, Len(new), names)) < Cardinality(Calls(is, at, Len(is), names))
    BY <1>1, <2>1, <2>2, MovedAhead
  <2> QED BY <1>5, <2>1, <2>3 DEF Closer
<1> QED BY <1>8, <1>9

\* A local.tee put in front of the call, behind an edit that moved what is
\* behind the call by d.
LEMMA TeeEdit ==
    ASSUME NEW is, IsSeq(is), NEW at \in 1 .. Len(is), NEW names, IsCall(is[at], names),
           NEW r, IsSeq(r), NEW from \in {at + 1, at + 2}, NEW d \in Int, MovedBy(is, from, r, d), at <= Len(r) + 1,
           from + d >= at, from + d + 1 <= at + 3,
           NEW destination \in 0 .. at - 1, NEW e
    PROVE  LET new == InsertAt(r, destination + 1, e)
           IN  IsSeq(new) /\ Closer(is, at, new, at + 3, names)
<1> DEFINE i == destination + 1
           new == InsertAt(r, i, e)
           c == d + 1
           f == at + 3 - c
<1>1. Len(is) \in Nat /\ at \in Nat /\ Len(r) \in Nat /\ from \in Int /\ at < from
  BY IsSeqLen
<1>2. i \in 1 .. Len(r) + 1 /\ i \in Int /\ i <= from + d
  BY <1>1
<1>3. c \in Int /\ f \in Int /\ from <= f /\ at < f /\ f + c = at + 3
  BY <1>1
<1> HIDE DEF i, f
<1>4. IsSeq(new) /\ MovedBy(r, i, new, 1)
  BY <1>2, InsertIs
<1> HIDE DEF new
<1>5. MovedBy(is, from, new, c)
  BY <1>1, <1>2, <1>4, MovedTwice
<1> HIDE DEF c
<1>6. MovedBy(is, f, new, c)
  BY <1>1, <1>3, <1>5, MovedLater
<1>7. Cardinality(Calls(new, f + c, Len(new), names)) < Cardinality(Calls(is, at, Len(is), names))
  BY <1>1, <1>3, <1>6, MovedAhead
<1> QED BY <1>3, <1>4, <1>7 DEF Closer, new, i

\* memcpy and memset: a round of the loop, or it threw.
LEMMA MemoryStep ==
    ASSUME UsageInv, ReplaceMemory
    PROVE  /\ func.map = Memory
           /\ UNCHANGED <<func, element, usage, removed>>
           /\ IsSeq(code') /\ x' \in Nat \ {0}
           /\ phase = "replace" /\ phase' \in {"replace", "threw"}
           /\ phase' = "replace" => Closer(code, x, code', x', Handled(func.map))
<1> DEFINE names == Handled(func.map)
<1>1. IsSeq(code) /\ x \in Nat \ {0} /\ func \in Functions
  BY DEF UsageInv
<1>2. MemoryCall
  BY DEF ReplaceMemory, ReplaceDropped, ReplaceTeed, ReplaceSet, ReplaceUsed, LocalInUse, Throw, Used, Walked
<1>3. phase = "replace" /\ x <= Len(code) /\ x < Len(code) /\ IsCall(code[x], MemoryOps \cap names)
  BY <1>2 DEF MemoryCall, CallOf, Scanning
<1>4. code[x].op = \h10 /\ code[x].arg \in MemoryOps /\ code[x].arg \in names
  BY <1>3 DEF IsCall
<1>5. func.map = Memory
  BY <1>1, <1>4, Maps
<1>6. IsCall(code[x], names)
  BY <1>4 DEF IsCall
<1>7. Len(code) \in Nat /\ x \in 1 .. Len(code) /\ x + 1 \in 1 .. Len(code) /\ x + 1 \in Nat
  BY <1>1, <1>3, IsSeqLen
<1>8. Destination \in {Throws} \cup (Undefined .. x - 1)
  <2> DEFINE from == x - 1
  <2>1. from \in Nat
    BY <1>1
  <2> HIDE DEF from
  <2>2. traverseStack(code, from, 2) \in {Throws} \cup (Undefined .. from)
    BY <2>1, TraverseBack
  <2> QED BY <2>2 DEF Destination, from
<1> HIDE DEF names
<1>9. CASE ReplaceDropped
  <2> DEFINE new == RemoveAt(ReplaceAt(code, x, Opcode), x + 1)
             next == IF x + 1 < Len(code) THEN x + 2 ELSE x + 1
  <2>1. code' = new /\ x' = next /\ UNCHANGED <<func, element, usage, phase, removed>>
    BY <1>9 DEF ReplaceDropped, Edit
  <2>2. next \in Nat \ {0}
    BY <1>7
  <2> HIDE DEF next, new
  <2>3. IsSeq(new) /\ Closer(code, x, new, next, names)
    BY <1>1, <1>3, <1>6, <1>7, DroppedEdit DEF new, next
  <2> QED BY <1>3, <1>5, <2>1, <2>2, <2>3 DEF names
<1>10. CASE ReplaceTeed
  <2> DEFINE a == ReplaceAt(code, x, Opcode)
             r == ReplaceAt(a, x + 1, Get(After.arg))
             e == Tee(After.arg)
             new == InsertAt(r, Destination + 1, e)
  <2>1. code' = new /\ x' = x + 3 /\ UNCHANGED <<func, element, usage, phase, removed>> /\ Destination # Throws
    BY <1>10 DEF ReplaceTeed, Edit
  <2>2. IsSeq(a) /\ MovedBy(code, x + 1, a, 0)
    BY <1>1, ReplaceIs
  <2> HIDE DEF a
  <2>3. IsSeq(r) /\ MovedBy(a, x + 2, r, 0)
    <3> DEFINE i == x + 1
    <3>1. i \in Nat /\ i + 1 = x + 2
      BY <1>7
    <3> HIDE DEF i
    <3>2. IsSeq(ReplaceAt(a, i, Get(After.arg))) /\ MovedBy(a, i + 1, ReplaceAt(a, i, Get(After.arg)), 0)
      BY <2>2, <3>1, ReplaceIs
    <3> QED BY <3>1, <3>2 DEF i
  <2> HIDE DEF r, e
  <2>4. MovedBy(code, x + 2, r, 0) /\ Len(r) = Len(code)
    <3>1. MovedBy(code, x + 2, a, 0)
      <4> DEFINE f == x + 1
                 g == x + 2
      <4>1. f \in Int /\ g \in Int /\ f <= g /\ Len(code) \in Int
        BY <1>7
      <4>2. MovedBy(code, f, a, 0)
        BY <2>2
      <4> HIDE DEF f, g
      <4>3. MovedBy(code, g, a, 0)
        BY <4>1, <4>2, MovedLater
      <4> QED BY <4>3 DEF g
    <3> DEFINE g == x + 2
               d == 0
    <3>2. g \in Int /\ d \in Int /\ g <= g + d /\ d + d = d
      BY <1>7
    <3>3. MovedBy(code, g, a, d) /\ MovedBy(a, g, r, d)
      BY <2>3, <3>1
    <3> HIDE DEF g, d
    <3>4. MovedBy(code, g, r, d + d)
      BY <1>7, <3>2, <3>3, MovedTwice
    <3>5. MovedBy(code, x + 2, r, 0)
      BY <3>2, <3>4 DEF g, d
    <3> QED BY <3>5, <1>7 DEF MovedBy
  <2>5. Destination \in 0 .. x - 1
    BY <2>1, <1>8 DEF Undefined
  <2>6. IsSeq(new) /\ Closer(code, x, new, x + 3, names)
    <3> DEFINE from == x + 2
               d == 0
    <3>1. from \in {x + 1, x + 2} /\ d \in Int /\ x <= Len(r) + 1 /\ from + d >= x /\ from + d + 1 <= x + 3
      BY <1>7, <2>4
    <3>2. MovedBy(code, from, r, d)
      BY <2>4
    <3> HIDE DEF from, d
    <3> QED BY <1>1, <1>6, <1>7, <2>3, <2>5, <3>1, <3>2, TeeEdit
  <2> QED BY <1>3, <1>5, <1>7, <2>1, <2>6 DEF names
<1>11. CASE ReplaceSet
  <2> DEFINE a == ReplaceAt(code, x, Opcode)
             r == RemoveAt(a, x + 1)
             e == Tee(After.arg)
             new == InsertAt(r, Destination + 1, e)
  <2>1. code' = new /\ x' = x + 3 /\ UNCHANGED <<func, element, usage, phase, removed>> /\ Destination # Throws
    BY <1>11 DEF ReplaceSet, Edit
  <2>2. IsSeq(a) /\ MovedBy(code, x + 1, a, 0)
    BY <1>1, ReplaceIs
  <2> HIDE DEF a
  <2>3. Len(a) = Len(code)
    BY <2>2, <1>7 DEF MovedBy
  <2>4. IsSeq(r) /\ MovedBy(a, x + 2, r, -1)
    <3> DEFINE i == x + 1
    <3>1. i \in 1 .. Len(a) /\ i + 1 = x + 2
      BY <1>7, <2>3
    <3> HIDE DEF i
    <3>2. IsSeq(RemoveAt(a, i)) /\ MovedBy(a, i + 1, RemoveAt(a, i), -1)
      BY <2>2, <3>1, RemoveIs
    <3> QED BY <3>1, <3>2 DEF i
  <2> HIDE DEF r, e
  <2>5. MovedBy(code, x + 2, r, -1) /\ Len(r) = Len(code) - 1
    <3>1. MovedBy(code, x + 2, a, 0)
      <4> DEFINE f == x + 1
                 g == x + 2
      <4>1. f \in Int /\ g \in Int /\ f <= g /\ Len(code) \in Int
        BY <1>7
      <4>2. MovedBy(code, f, a, 0)
        BY <2>2
      <4> HIDE DEF f, g
      <4>3. MovedBy(code, g, a, 0)
        BY <4>1, <4>2, MovedLater
      <4> QED BY <4>3 DEF g
    <3> DEFINE g == x + 2
               d == 0
               m == -1
    <3>2. g \in Int /\ d \in Int /\ m \in Int /\ g <= g + d /\ d + m = m
      BY <1>7
    <3>3. MovedBy(code, g, a, d) /\ MovedBy(a, g, r, m)
      BY <2>4, <3>1
    <3> HIDE DEF g, d, m
    <3>4. MovedBy(code, g, r, d + m)
      BY <1>7, <3>2, <3>3, MovedTwice
    <3>5. MovedBy(code, x + 2, r, -1)
      BY <3>2, <3>4 DEF g, m
    <3>6. Len(r) = Len(code) - 1
      BY <3>5, <1>7 DEF MovedBy
    <3> QED BY <3>5, <3>6
  <2>6. Destination \in 0 .. x - 1
    BY <2>1, <1>8 DEF Undefined
  <2>7. IsSeq(new) /\ Closer(code, x, new, x + 3, names)
    <3> DEFINE from == x + 2
               d == -1
    <3>1. from \in {x + 1, x + 2} /\ d \in Int /\ x <= Len(r) + 1 /\ from + d >= x /\ from + d + 1 <= x + 3
      BY <1>7, <2>5
    <3>2. MovedBy(code, from, r, d)
      BY <2>5
    <3> HIDE DEF from, d
    <3> QED BY <1>1, <1>6, <1>7, <2>4, <2>6, <3>1, <3>2, TeeEdit
  <2> QED BY <1>3, <1>5, <1>7, <2>1, <2>7 DEF names
<1>12. CASE ReplaceUsed
  <2> DEFINE a == ReplaceAt(code, x, Opcode)
             r == InsertAt(a, x + 1, Get(memoplocal))
             e == Tee(memoplocal)
             new == InsertAt(r, Destination + 1, e)
  <2>1. /\ code' = new /\ x' = x + 3 /\ UNCHANGED <<func, element, usage, phase, removed>>
        /\ Destination \notin {Undefined, Throws}
    BY <1>12 DEF ReplaceUsed, Used, Edit
  <2>2. IsSeq(a) /\ MovedBy(code, x + 1, a, 0)
    BY <1>1, ReplaceIs
  <2> HIDE DEF a
  <2>3. Len(a) = Len(code)
    BY <2>2, <1>7 DEF MovedBy
  <2>4. IsSeq(r) /\ MovedBy(a, x + 1, r, 1)
    <3> DEFINE i == x + 1
    <3>1. i \in 1 .. Len(a) + 1
      BY <1>7, <2>3
    <3> HIDE DEF i
    <3>2. IsSeq(InsertAt(a, i, Get(memoplocal))) /\ MovedBy(a, i, InsertAt(a, i, Get(memoplocal)), 1)
      BY <2>2, <3>1, InsertIs
    <3> QED BY <3>2 DEF i
  <2> HIDE DEF r, e
  <2>5. MovedBy(code, x + 1, r, 1) /\ Len(r) = Len(code) + 1
    <3> DEFINE g == x + 1
               d == 0
               m == 1
    <3>2. g \in Int /\ d \in Int /\ m \in Int /\ g <= g + d /\ d + m = m
      BY <1>7
    <3>3. MovedBy(code, g, a, d) /\ MovedBy(a, g, r, m)
      BY <2>2, <2>4
    <3> HIDE DEF g, d, m
    <3>4. MovedBy(code, g, r, d + m)
      BY <1>7, <3>2, <3>3, MovedTwice
    <3>5. MovedBy(code, x + 1, r, 1)
      BY <3>2, <3>4 DEF g, m
    <3> QED BY <3>5, <1>7 DEF MovedBy
  <2>6. Destination \in 0 .. x - 1
    BY <2>1, <1>8 DEF Undefined
  <2>7. IsSeq(new) /\ Closer(code, x, new, x + 3, names)
    <3> DEFINE from == x + 1
               d == 1
    <3>1. from \in {x + 1, x + 2} /\ d \in Int /\ x <= Len(r) + 1 /\ from + d >= x /\ from + d + 1 <= x + 3
      BY <1>7, <2>5
    <3>2. MovedBy(code, from, r, d)
      BY <2>5
    <3> HIDE DEF from, d
    <3> QED BY <1>1, <1>6, <1>7, <2>4, <2>6, <3>1, <3>2, TeeEdit
  <2> QED BY <1>3, <1>5, <1>7, <2>1, <2>7 DEF names
<1>13. CASE LocalInUse
  <2>1. code' = code /\ x' = x + 1 /\ UNCHANGED <<func, element, usage, phase, removed>>
    BY <1>13 DEF LocalInUse, Edit
  <2>2. Closer(code, x, code, x + 1, names)
    BY <1>6, <1>7, CallHere DEF Closer, Behind
  <2> QED BY <1>1, <1>3, <1>5, <1>7, <2>1, <2>2 DEF names
<1>14. CASE Throw
  <2>1. phase' = "threw" /\ UNCHANGED <<func, code, x, element, usage, removed>>
    BY <1>14 DEF Throw
  <2> QED BY <1>1, <1>3, <1>5, <2>1
<1> QED BY <1>9, <1>10, <1>11, <1>12, <1>13, <1>14 DEF ReplaceMemory

LEMMA LessBy ==
    ASSUME NEW D, NEW u \in [D -> Int], NEW name, NEW d \in Int
    PROVE  LET v == [u EXCEPT ![name] = @ - d]
           IN  /\ v \in [D -> Int]
               /\ \A n \in D : v[n] = IF n = name THEN u[n] - d ELSE u[n]
<1> DEFINE v == [u EXCEPT ![name] = @ - d]
<1>1. DOMAIN u = D /\ \A n \in D : u[n] \in Int
  OBVIOUS
<1>2. v = [n \in D |-> IF n = name THEN u[name] - d ELSE u[n]]
  BY <1>1
<1> HIDE DEF v
<1>3. \A n \in D : v[n] = IF n = name THEN u[n] - d ELSE u[n]
  BY <1>2
<1>4. \A n \in D : v[n] \in Int
  BY <1>1, <1>3
<1>5. v = [n \in D |-> v[n]]
  BY <1>2
<1>6. v \in [D -> Int]
  BY <1>4, <1>5
<1> QED BY <1>3, <1>6 DEF v

\* A handler that puts instructions in the place of one call and of what is
\* between p and it: the calls of the function itself become one less.
PutInPlace(p, new, name) ==
    /\ code' = Put(code, p, new, x + 1)
    /\ x' = p + Len(new) + 1
    /\ usage' = [usage EXCEPT ![name] = @ - 1]
    /\ UNCHANGED <<func, element, phase, removed>>
LeavesCalls(p, new) ==
    /\ \A n : Count(SubSeq(code, 1, p), {n}) + Count(new, {n}) = Count(SubSeq(code, 1, x - 1), {n})
    /\ NoneUpTo(new, Len(new), Handled(func.map))

LEMMA PlaceStep ==
    ASSUME UsageInv, phase = "replace", func.map # Memory, x <= Len(code), code[x].op = \h10,
           code[x].arg \in Handled(func.map),
           NEW p \in 0 .. x - 1, NEW new, IsSeq(new), LeavesCalls(p, new), PutInPlace(p, new, code[x].arg)
    PROVE  UsageInv' /\ Closer(code, x, code', x', Handled(func.map))
<1> DEFINE name == code[x].arg
           names == Handled(func.map)
           B(n) == Count(SubSeq(code, 1, x - 1), {n})
           A(n) == Count(SubSeq(code, x + 1, Len(code)), {n})
           P(n) == Count(SubSeq(code, 1, p), {n})
<1>1. /\ IsSeq(code) /\ x \in Nat \ {0} /\ func \in Functions /\ usage \in [CalleesIn(func.code) -> Int]
      /\ \A n \in CalleesIn(func.code) : usage[n] = Uses(code, element, n)
      /\ NoneUpTo(code, x - 1, names)
  BY DEF UsageInv
<1>2. /\ code' = Put(code, p, new, x + 1) /\ x' = p + Len(new) + 1
      /\ usage' = [usage EXCEPT ![name] = @ - 1]
      /\ func' = func /\ element' = element /\ phase' = phase
  BY DEF PutInPlace
<1>3. Len(code) \in Nat /\ x \in 1 .. Len(code) /\ x \in Nat /\ Len(new) \in Nat /\ p \in Nat /\ p < x
  BY <1>1, IsSeqLen
<1>4. p \in 0 .. Len(code) /\ x + 1 \in 1 .. Len(code) + 1
  BY <1>3
<1> HIDE DEF name, names
<1>5. /\ IsSeq(code')
      /\ \A j \in 1 .. p : code'[j] = code[j]
      /\ \A j \in 1 .. Len(new) : code'[p + j] = new[j]
      /\ MovedBy(code, x + 1, code', p + Len(new) + 1 - (x + 1))
  <2> DEFINE q == x + 1
  <2>1. q \in 1 .. Len(code) + 1
    BY <1>4
  <2> HIDE DEF q
  <2>2. /\ IsSeq(Put(code, p, new, q))
        /\ \A j \in 1 .. p : Put(code, p, new, q)[j] = code[j]
        /\ \A j \in 1 .. Len(new) : Put(code, p, new, q)[p + j] = new[j]
        /\ MovedBy(code, q, Put(code, p, new, q), p + Len(new) + 1 - q)
    BY <1>1, <1>4, <2>1, PutIs
  <2>3. code' = Put(code, p, new, q)
    BY <1>2 DEF q
  <2>4. /\ IsSeq(code')
        /\ \A j \in 1 .. p : code'[j] = code[j]
        /\ \A j \in 1 .. Len(new) : code'[p + j] = new[j]
        /\ MovedBy(code, q, code', p + Len(new) + 1 - q)
    BY <2>2, <2>3
  <2> QED BY <2>4 DEF q
<1>6. ASSUME NEW n PROVE Count(code', {n}) = Count(code, {n}) - IF n = name THEN 1 ELSE 0
  <2>1. Count(code', {n}) = P(n) + Count(new, {n}) + A(n)
    <3> DEFINE q == x + 1
    <3>1. q \in 1 .. Len(code) + 1
      BY <1>4
    <3>2. code' = Put(code, p, new, q)
      BY <1>2
    <3> HIDE DEF q
    <3>3. Count(code', {n}) = Count(SubSeq(code, 1, p), {n}) + Count(new, {n}) + Count(SubSeq(code, q, Len(code)), {n})
      BY <1>1, <1>4, <3>1, <3>2, PutCount
    <3> QED BY <3>3 DEF q
  <2>2. Count(code, {n}) = B(n) + (IF IsCall(code[x], {n}) THEN 1 ELSE 0) + A(n)
    BY <1>1, <1>3, CountParts
  <2>3. P(n) + Count(new, {n}) = B(n)
    BY DEF LeavesCalls
  <2>4. IsCall(code[x], {n}) <=> n = name
    BY DEF IsCall, name
  <2>5. B(n) \in Nat /\ A(n) \in Nat
    <3>1. IsSeq(SubSeq(code, 1, x - 1))
      <4> DEFINE to == x - 1
      <4>1. to \in Int /\ to <= Len(code)
        BY <1>3
      <4> HIDE DEF to
      <4>2. IsSeq(SubSeq(code, 1, to))
        BY <1>1, <4>1, PartIsSeq
      <4> QED BY <4>2 DEF to
    <3>2. IsSeq(SubSeq(code, x + 1, Len(code)))
      <4> DEFINE from == x + 1
      <4>1. from \in Nat \ {0}
        BY <1>3
      <4> HIDE DEF from
      <4>2. IsSeq(SubSeq(code, from, Len(code)))
        BY <1>1, <1>3, <4>1, PartIsSeq
      <4> QED BY <4>2 DEF from
    <3> QED BY <3>1, <3>2, CountType
  <2> HIDE DEF A, B, P
  <2>6. Count(code', {n}) = B(n) + A(n)
    BY <2>1, <2>3
  <2>7. Count(code, {n}) = B(n) + (IF n = name THEN 1 ELSE 0) + A(n)
    BY <2>2, <2>4
  <2>8. \A b, a \in Nat : \A i \in {0, 1} : b + a = (b + i + a) - i
    OBVIOUS
  <2> QED BY <2>5, <2>6, <2>7, <2>8
<1>7. /\ usage' \in [CalleesIn(func.code) -> Int]
      /\ \A n \in CalleesIn(func.code) : usage'[n] = IF n = name THEN usage[n] - 1 ELSE usage[n]
  <2> DEFINE D == CalleesIn(func.code)
             u == usage'
  <2> DEFINE one == 1
  <2>1. usage \in [D -> Int] /\ u = [usage EXCEPT ![name] = @ - one] /\ one \in Int
    BY <1>1, <1>2
  <2> HIDE DEF D, u, one
  <2>2. u \in [D -> Int] /\ \A n \in D : u[n] = IF n = name THEN usage[n] - one ELSE usage[n]
    BY <2>1, LessBy
  <2> QED BY <2>2 DEF D, u, one
<1>8. ASSUME NEW n \in CalleesIn(func.code) PROVE usage'[n] = Uses(code', element, n)
  <2> DEFINE e == IF n \in element THEN 1 ELSE 0
  <2>1. usage[n] = Count(code, {n}) + e /\ Uses(code', element, n) = Count(code', {n}) + e
    BY <1>1, <1>5, UsesCount
  <2>2. Count(code, {n}) \in Nat /\ e \in Nat
    BY <1>1, CountType
  <2> HIDE DEF e
  <2>3. usage'[n] = IF n = name THEN usage[n] - 1 ELSE usage[n]
    BY <1>7
  <2>4. Count(code', {n}) = Count(code, {n}) - IF n = name THEN 1 ELSE 0
    BY <1>6
  <2>5. CASE n = name
    <3>1. usage'[n] = (Count(code, {n}) + e) - 1 /\ Count(code', {n}) = Count(code, {n}) - 1
      BY <2>1, <2>3, <2>4, <2>5
    <3> QED BY <2>1, <2>2, <3>1
  <2>6. CASE n # name
    <3>1. usage'[n] = Count(code, {n}) + e /\ Count(code', {n}) = Count(code, {n})
      BY <2>1, <2>2, <2>3, <2>4, <2>6
    <3> QED BY <2>1, <3>1
  <2> QED BY <2>5, <2>6
<1>9. NoneUpTo(code', x' - 1, names)
  <2> SUFFICES ASSUME NEW j \in 1 .. Len(code'), j <= x' - 1 PROVE ~IsCall(code'[j], names)
    BY DEF NoneUpTo
  <2>1. j \in Nat \ {0} /\ j <= p + Len(new)
    BY <1>2, <1>3, <1>5, IsSeqLen
  <2>2. CASE j <= p
    <3>1. j \in 1 .. p /\ j \in 1 .. Len(code) /\ j <= x - 1
      BY <2>1, <2>2, <1>3
    <3> QED BY <3>1, <1>1, <1>5 DEF NoneUpTo
  <2>3. CASE j > p
    <3> DEFINE i == j - p
    <3>1. i \in 1 .. Len(new) /\ j = p + i /\ i <= Len(new)
      BY <2>1, <2>3, <1>3
    <3> HIDE DEF i
    <3>2. code'[j] = new[i]
      BY <3>1, <1>5
    <3>3. ~IsCall(new[i], names)
      BY <3>1 DEF LeavesCalls, NoneUpTo, names
    <3> QED BY <3>2, <3>3
  <2> QED BY <2>1, <2>2, <2>3, <1>3
<1>10. x' \in Nat \ {0}
  BY <1>2, <1>3
<1>11. UsageInv'
  BY <1>1, <1>2, <1>5, <1>7, <1>8, <1>9, <1>10 DEF UsageInv, names
<1>12. Closer(code, x, code', x', names)
  <2> DEFINE f == x + 1
             d == p + Len(new) + 1 - f
  <2>1. f \in Int /\ x < f /\ d \in Int /\ f + d = x'
    BY <1>2, <1>3
  <2>2. MovedBy(code, f, code', d)
    BY <1>5
  <2>3. IsCall(code[x], names)
    BY DEF IsCall, names
  <2> HIDE DEF d, f
  <2>4. Cardinality(Calls(code', f + d, Len(code'), names)) < Cardinality(Calls(code, x, Len(code), names))
    BY <1>3, <2>1, <2>2, <2>3, MovedAhead
  <2> QED BY <2>1, <2>4 DEF Closer
<1> QED BY <1>11, <1>12 DEF names

LEMMA PassStep ==
    ASSUME UsageInv, Pass
    PROVE  /\ UsageInv'
           /\ Cardinality(Calls(code', x', Len(code'), Handled(func.map)))
                 = Cardinality(Calls(code, x, Len(code), Handled(func.map)))
           /\ Len(code') - x' < Len(code) - x
<1> DEFINE names == Handled(func.map)
<1>1. /\ phase = "replace" /\ x <= Len(code) /\ ~IsCall(code[x], names)
      /\ x' = x + 1 /\ UNCHANGED <<func, code, element, usage, phase, removed>>
  BY DEF Pass, Scanning
<1>2. IsSeq(code) /\ x \in Nat \ {0}
  BY DEF UsageInv
<1> HIDE DEF names
<1>3. Len(code) \in Nat
  BY <1>2, IsSeqLen
<1>4. Calls(code, x + 1, Len(code), names) = Calls(code, x, Len(code), names)
  <2>1. \A k : k \in x .. Len(code) <=> k = x \/ k \in x + 1 .. Len(code)
    BY <1>1, <1>2, <1>3
  <2> QED BY <1>1, <2>1 DEF Calls
<1>5. func.map # Memory => NoneUpTo(code, (x + 1) - 1, names)
  <2> SUFFICES ASSUME func.map # Memory, NEW j \in 1 .. Len(code), j <= (x + 1) - 1
               PROVE  ~IsCall(code[j], names)
    BY DEF NoneUpTo
  <2>1. j <= x - 1 \/ j = x
    BY <1>2, <1>3
  <2>2. NoneUpTo(code, x - 1, names)
    BY DEF UsageInv, names
  <2> QED BY <1>1, <2>1, <2>2 DEF NoneUpTo
<1>6. UsageInv'
  <2>1. x' \in Nat \ {0} /\ (func.map # Memory => NoneUpTo(code', x' - 1, names))
    BY <1>1, <1>2, <1>5
  <2> QED BY <1>1, <2>1 DEF UsageInv, names
<1>7. Len(code') - x' < Len(code) - x
  BY <1>1, <1>2, <1>3
<1>8. Calls(code', x', Len(code'), names) = Calls(code, x, Len(code), names)
  BY <1>1, <1>4
<1> QED BY <1>6, <1>7, <1>8 DEF names

LEMMA BuiltinStep ==
    ASSUME UsageInv, ReplaceBuiltin
    PROVE  UsageInv' /\ Closer(code, x, code', x', Handled(func.map))
<1>1. PICK h \in HandlersOf(func.map) : h.name = code[x].arg /\ Splice(h.code, h.name)
  BY DEF ReplaceBuiltin
<1>2. phase = "replace" /\ x <= Len(code) /\ code[x].op = \h10
  BY DEF ReplaceBuiltin, Scanning
<1>3. IsSeq(code) /\ x \in Nat \ {0} /\ func \in Functions
  BY DEF UsageInv
<1>4. h.name \in Handled(func.map) /\ func.map # Memory
  BY <1>1, <1>3, Maps
<1> DEFINE p == x - 1
           new == h.code
<1>5. IsSeq(new) /\ NoCall(new)
  BY <1>1, HandlersNoCall DEF NoCall
<1> HIDE DEF new
<1>6. p \in 0 .. x - 1 /\ Len(code) \in Nat /\ Len(new) \in Nat
  BY <1>3, <1>5, IsSeqLen
<1>7. LeavesCalls(p, new)
  <2>1. \A n : Count(new, {n}) = 0
    BY <1>5, CountNoCall
  <2>2. \A n : Count(SubSeq(code, 1, x - 1), {n}) \in Nat
    <3> DEFINE to == x - 1
    <3>1. to \in Int /\ to <= Len(code)
      BY <1>2, <1>3, <1>6
    <3> HIDE DEF to
    <3>2. IsSeq(SubSeq(code, 1, to))
      BY <1>3, <3>1, PartIsSeq
    <3>3. \A n : Count(SubSeq(code, 1, to), {n}) \in Nat
      BY <3>2, CountType
    <3> QED BY <3>3 DEF to
  <2>3. \A n : Count(SubSeq(code, 1, p), {n}) + Count(new, {n}) = Count(SubSeq(code, 1, x - 1), {n})
    <3> TAKE n
    <3> DEFINE b == Count(SubSeq(code, 1, x - 1), {n})
    <3>1. b \in Nat /\ Count(new, {n}) = 0
      BY <2>1, <2>2
    <3>2. Count(SubSeq(code, 1, p), {n}) = b
      OBVIOUS
    <3> HIDE DEF b
    <3>3. Count(SubSeq(code, 1, p), {n}) + Count(new, {n}) = b
      BY <3>1, <3>2
    <3> QED BY <3>3 DEF b
  <2>4. NoneUpTo(new, Len(new), Handled(func.map))
    <3>1. DOMAIN new = 1 .. Len(new)
      BY <1>5, IsSeqLen
    <3> QED BY <1>5, <3>1 DEF NoneUpTo, NoCall, IsCall
  <2> QED BY <2>3, <2>4 DEF LeavesCalls
<1>8. PutInPlace(p, new, code[x].arg)
  <2>1. /\ code' = SubSeq(code, 1, x - 1) \o new \o SubSeq(code, x + 1, Len(code))
        /\ x' = x + Len(new)
        /\ usage' = [usage EXCEPT ![code[x].arg] = @ - 1]
        /\ UNCHANGED <<func, element, phase, removed>>
    BY <1>1 DEF Splice, new
  <2>2. x + Len(new) = p + Len(new) + 1
    BY <1>3, <1>6
  <2>3. code' = Put(code, p, new, x + 1)
    BY <2>1 DEF Put
  <2>4. x' = p + Len(new) + 1
    BY <2>1, <2>2
  <2> QED BY <2>1, <2>3, <2>4 DEF PutInPlace
<1> HIDE DEF p
<1> QED BY <1>1, <1>2, <1>4, <1>5, <1>6, <1>7, <1>8, PlaceStep

\* Every alloca of the function goes in one step.
LEMMA AllocaStepKeeps ==
    ASSUME UsageInv, ReplaceAlloca
    PROVE  UsageInv' /\ Closer(code, x, code', x', Handled(func.map))
<1> DEFINE names == Handled(func.map)
           p == AllocaPass(code)
           u == Uses(code, {}, "alloca")
<1>1. /\ phase = "replace" /\ x <= Len(code) /\ IsCall(code[x], {"alloca"} \cap names)
      /\ code' = p.out /\ x' = p.exit + 1
      /\ usage' = [usage EXCEPT !["alloca"] = @ - u]
      /\ func' = func /\ element' = element /\ phase' = phase /\ removed' = removed
  BY DEF ReplaceAlloca, CallOf, Scanning
<1>2. code[x].op = \h10 /\ code[x].arg = "alloca" /\ "alloca" \in names
  BY <1>1 DEF IsCall
<1>3. func.map # Memory
  <2>1. func \in Functions
    BY DEF UsageInv
  <2>2. func.map = Memory => names = MemoryOps
    BY <2>1, Maps
  <2>3. "alloca" \notin MemoryOps
    BY <2>1, Maps
  <2> QED BY <1>2, <2>2, <2>3
<1>4. /\ IsSeq(code) /\ x \in Nat \ {0} /\ func \in Functions /\ usage \in [CalleesIn(func.code) -> Int]
      /\ \A n \in CalleesIn(func.code) : usage[n] = Uses(code, element, n)
      /\ NoneUpTo(code, x - 1, names)
  BY <1>3 DEF UsageInv
<1>5. Len(code) \in Nat /\ x \in 1 .. Len(code)
  BY <1>1, <1>4, IsSeqLen
<1>6. IsCall(code[x], {"alloca"}) /\ IsCall(code[x], names)
  BY <1>2 DEF IsCall
<1>7. \A j \in 1 .. x - 1 : ~IsCall(code[j], names)
  <2>1. \A j \in 1 .. x - 1 : j \in 1 .. Len(code) /\ j <= x - 1
    BY <1>5
  <2> QED BY <2>1, <1>4 DEF NoneUpTo
<1> HIDE DEF names
<1>8. /\ p.exit \in 1 .. Len(p.out)
      /\ NoneUpTo(p.out, p.exit, names)
      /\ Cardinality(Behind(p.out, p.exit, names)) <= Cardinality(Behind(code, x, names))
  BY <1>2, <1>4, <1>5, <1>6, <1>7, AllocaPassAhead
<1>9. /\ IsSeq(p.out)
      /\ \A n : Count(p.out, {n}) = IF n = "alloca" THEN 0 ELSE Count(code, {n})
  BY <1>4, AllocaPassCounts
<1> HIDE DEF p
<1>10. IsSeq(code') /\ \A n : Count(code', {n}) = IF n = "alloca" THEN 0 ELSE Count(code, {n})
  BY <1>1, <1>9
<1>11. x' \in Nat \ {0} /\ x' - 1 = p.exit
  <2>1. Len(p.out) \in Nat
    BY <1>9, IsSeqLen
  <2>2. p.exit \in Nat
    BY <1>8, <2>1
  <2> QED BY <1>1, <2>2
<1>12. u = Count(code, {"alloca"}) /\ u \in Int
  <2>1. Count(code, {"alloca"}) \in Nat
    BY <1>4, CountType
  <2>2. u = Count(code, {"alloca"}) + (IF "alloca" \in {} THEN 1 ELSE 0)
    <3> DEFINE name == "alloca"
               none == {}
    <3>1. u = Uses(code, none, name)
      OBVIOUS
    <3> HIDE DEF u, name, none
    <3>2. u = Count(code, {name}) + (IF name \in none THEN 1 ELSE 0)
      BY <1>4, <3>1, UsesCount
    <3> QED BY <3>2 DEF name, none
  <2>3. (IF "alloca" \in {} THEN 1 ELSE 0) = 0
    OBVIOUS
  <2> HIDE DEF u
  <2> QED BY <2>1, <2>2, <2>3
<1> HIDE DEF u
<1>13. /\ usage' \in [CalleesIn(func.code) -> Int]
       /\ \A n \in CalleesIn(func.code) : usage'[n] = IF n = "alloca" THEN usage[n] - u ELSE usage[n]
  <2> DEFINE D == CalleesIn(func.code)
             v == usage'
             name == "alloca"
  <2>1. usage \in [D -> Int] /\ v = [usage EXCEPT ![name] = @ - u] /\ u \in Int
    BY <1>1, <1>4, <1>12
  <2> HIDE DEF D, v, name
  <2>2. v \in [D -> Int] /\ \A n \in D : v[n] = IF n = name THEN usage[n] - u ELSE usage[n]
    BY <2>1, LessBy
  <2> QED BY <2>2 DEF D, v, name
<1>14. ASSUME NEW n \in CalleesIn(func.code) PROVE usage'[n] = Uses(code', element, n)
  <2> DEFINE e == IF n \in element THEN 1 ELSE 0
  <2>1. usage[n] = Count(code, {n}) + e /\ Uses(code', element, n) = Count(code', {n}) + e
    BY <1>4, <1>10, UsesCount
  <2>2. Count(code, {n}) \in Nat /\ e \in Nat
    BY <1>4, CountType
  <2> HIDE DEF e
  <2>3. usage'[n] = IF n = "alloca" THEN usage[n] - u ELSE usage[n]
    BY <1>13
  <2>4. CASE n = "alloca"
    <3>1. Count(code', {n}) = 0 /\ u = Count(code, {n}) /\ usage'[n] = usage[n] - u
      BY <1>10, <1>12, <2>3, <2>4
    <3>2. usage'[n] = e
      BY <2>1, <2>2, <3>1
    <3> QED BY <2>1, <2>2, <3>1, <3>2
  <2>5. CASE n # "alloca"
    <3>1. usage'[n] = usage[n] /\ Count(code', {n}) = Count(code, {n})
      BY <1>10, <2>3, <2>5
    <3> QED BY <2>1, <3>1
  <2> QED BY <2>4, <2>5
<1>15. NoneUpTo(code', x' - 1, names)
  BY <1>1, <1>8, <1>11
<1>16. UsageInv'
  BY <1>1, <1>3, <1>4, <1>10, <1>11, <1>13, <1>14, <1>15 DEF UsageInv, names
<1>17. Closer(code, x, code', x', names)
  <2> DEFINE a == Cardinality(Calls(code', x', Len(code'), names))
             b == Cardinality(Behind(code, x, names))
             c == Cardinality(Calls(code, x, Len(code), names))
  <2>1. b < c
    BY <1>5, <1>6, CallHere
  <2>2. a = Cardinality(Behind(p.out, p.exit, names))
    BY <1>1 DEF Behind
  <2>3. a <= b
    BY <1>8, <2>2
  <2>4. a \in Nat /\ b \in Nat /\ c \in Nat
    <3>1. x \in Int /\ x + 1 \in Int /\ x' \in Int /\ Len(code') \in Int /\ Len(code) \in Int
      BY <1>5, <1>10, <1>11, IsSeqLen
    <3> QED BY <3>1, CallsFinite DEF Behind
  <2> HIDE DEF a, b, c
  <2>5. a < c
    BY <2>1, <2>3, <2>4
  <2> QED BY <2>5 DEF Closer, a, c
<1> QED BY <1>16, <1>17 DEF names

\* The calls of a function up to an index are those of the sequence up to there.
LEMMA CountPrefix ==
    ASSUME NEW is, IsSeq(is), NEW m \in 0 .. Len(is), NEW names
    PROVE  Count(SubSeq(is, 1, m), names) = Cardinality(Calls(is, 1, m, names))
<1>1. Len(is) \in Nat /\ m \in Nat /\ m <= Len(is)
  BY IsSeqLen
<1>2. /\ Len(SubSeq(is, 1, m)) = IF 1 <= m THEN m - 1 + 1 ELSE 0
      /\ \A i \in 1 .. m - 1 + 1 : SubSeq(is, 1, m)[i] = is[1 + i - 1]
  BY <1>1, PartIsSeq
<1> DEFINE s == SubSeq(is, 1, m)
<1> HIDE DEF s
<1>3. Len(s) = m /\ \A i \in 1 .. m : s[i] = is[i]
  <2>1. (IF 1 <= m THEN m - 1 + 1 ELSE 0) = m
    BY <1>1
  <2>2. \A i \in 1 .. m : i \in 1 .. m - 1 + 1 /\ 1 + i - 1 = i
    BY <1>1
  <2> QED BY <1>2, <2>1, <2>2 DEF s
<1>4. Calls(s, 1, Len(s), names) = Calls(is, 1, m, names)
  BY <1>3 DEF Calls
<1> QED BY <1>4 DEF Count, s

LEMMA TripleCounts ==
    ASSUME NEW a, NEW b, NEW c, a.op # \h10, c.op # \h10, NEW names
    PROVE  /\ IsSeq(<<a, b, c>>) /\ Len(<<a, b, c>>) = 3
           /\ Count(<<a, b, c>>, names) = IF IsCall(b, names) THEN 1 ELSE 0
           /\ ~IsCall(b, names) => NoneUpTo(<<a, b, c>>, 3, names)
<1> DEFINE s == <<a, b, c>>
<1>1. IsSeq(s) /\ Len(s) = 3 /\ s[1] = a /\ s[2] = b /\ s[3] = c
  BY TripleIsSeq
<1> HIDE DEF s
<1>2. ~IsCall(s[1], names) /\ ~IsCall(s[3], names)
  BY <1>1 DEF IsCall
<1>3. \A k : k \in 1 .. 3 <=> k = 1 \/ k = 2 \/ k = 3
  OBVIOUS
<1>4. Count(s, names) = IF IsCall(b, names) THEN 1 ELSE 0
  <2>1. CASE IsCall(b, names)
    <3>1. Calls(s, 1, Len(s), names) = {2}
      BY <1>1, <1>2, <1>3, <2>1 DEF Calls
    <3> QED BY <2>1, <3>1, FS_Singleton DEF Count
  <2>2. CASE ~IsCall(b, names)
    <3>1. Calls(s, 1, Len(s), names) = {}
      BY <1>1, <1>2, <1>3, <2>2 DEF Calls
    <3> QED BY <2>2, <3>1, FS_EmptySet DEF Count
  <2> QED BY <2>1, <2>2
<1>5. ~IsCall(b, names) => NoneUpTo(s, 3, names)
  BY <1>1, <1>2, <1>3 DEF NoneUpTo
<1> QED BY <1>1, <1>4, <1>5 DEF s

LEMMA TableStep ==
    ASSUME UsageInv, ReplaceTable
    PROVE  UsageInv' /\ Closer(code, x, code', x', Handled(func.map))
<1> DEFINE names == Handled(func.map)
           p == x - 2
           new == <<RefNull, code[x - 1], TableGrow>>
<1>1. /\ phase = "replace" /\ x <= Len(code) /\ IsCall(code[x], {"table_grow", "table_zerofill"} \cap names) /\ x > 1
      /\ code' = SubSeq(code, 1, x - 2) \o new \o SubSeq(code, x + 1, Len(code))
      /\ x' = x + 2
      /\ usage' = [usage EXCEPT ![code[x].arg] = @ - 1]
      /\ UNCHANGED <<func, element, phase, removed>>
  BY DEF ReplaceTable, CallOf, Scanning
<1>2. code[x].op = \h10 /\ code[x].arg \in {"table_grow", "table_zerofill"} /\ code[x].arg \in names
  BY <1>1 DEF IsCall
<1>3. IsSeq(code) /\ x \in Nat \ {0} /\ func \in Functions
  BY DEF UsageInv
<1>4. func.map # Memory
  <2>1. func.map = Memory => names = MemoryOps
    BY <1>3, Maps
  <2>2. "table_grow" \notin MemoryOps /\ "table_zerofill" \notin MemoryOps
    BY <1>3, Maps
  <2>3. code[x].arg \notin MemoryOps
    BY <1>2, <2>2
  <2> QED BY <1>2, <2>1, <2>3
<1>5. NoneUpTo(code, x - 1, names)
  BY <1>4 DEF UsageInv
<1>6. /\ Len(code) \in Nat /\ x \in Nat /\ p \in Nat /\ p \in 0 .. x - 1 /\ p \in 0 .. Len(code)
      /\ x - 1 \in 1 .. Len(code) /\ x - 1 \in 0 .. Len(code) /\ x - 1 <= x - 1 /\ p + 1 = x - 1
  <2>1. Len(code) \in Nat
    BY <1>3, IsSeqLen
  <2> QED BY <1>1, <1>3, <2>1
<1> HIDE DEF names
<1>7. ~IsCall(code[x - 1], names)
  BY <1>5, <1>6 DEF NoneUpTo
<1>8. RefNull.op # \h10 /\ TableGrow.op # \h10
  BY InstFields DEF RefNull, TableGrow
<1>9. /\ IsSeq(new) /\ Len(new) = 3
      /\ \A n : Count(new, {n}) = IF IsCall(code[x - 1], {n}) THEN 1 ELSE 0
      /\ NoneUpTo(new, 3, names)
  <2> DEFINE a == RefNull
             b == code[x - 1]
             c == TableGrow
  <2>1. a.op # \h10 /\ c.op # \h10 /\ ~IsCall(b, names)
    BY <1>7, <1>8
  <2> HIDE DEF a, b, c
  <2>2. /\ IsSeq(<<a, b, c>>) /\ Len(<<a, b, c>>) = 3
        /\ \A n : Count(<<a, b, c>>, {n}) = IF IsCall(b, {n}) THEN 1 ELSE 0
        /\ NoneUpTo(<<a, b, c>>, 3, names)
    BY <2>1, TripleCounts
  <2> QED BY <2>2 DEF a, b, c
<1>10. LeavesCalls(p, new)
  <2>1. ASSUME NEW n
        PROVE  Count(SubSeq(code, 1, p), {n}) + Count(new, {n}) = Count(SubSeq(code, 1, x - 1), {n})
    <3> DEFINE to == x - 1
               A == Cardinality(Calls(code, 1, p, {n}))
               i == IF IsCall(code[to], {n}) THEN 1 ELSE 0
    <3>1. to \in 0 .. Len(code) /\ to = p + 1 /\ p \in Int /\ 1 <= p + 1
      BY <1>6
    <3> HIDE DEF to, p
    <3>2. Count(SubSeq(code, 1, p), {n}) = A
      BY <1>3, <1>6, CountPrefix
    <3>3. Count(SubSeq(code, 1, to), {n}) = Cardinality(Calls(code, 1, to, {n}))
      BY <1>3, <3>1, CountPrefix
    <3>4. Cardinality(Calls(code, 1, p + 1, {n})) = A + IF IsCall(code[p + 1], {n}) THEN 1 ELSE 0
      BY <3>1, CallsNext
    <3>5. Count(SubSeq(code, 1, to), {n}) = A + i
      BY <3>1, <3>3, <3>4
    <3>6. Count(new, {n}) = i
      BY <1>9 DEF to
    <3> HIDE DEF A, i, new
    <3>7. Count(SubSeq(code, 1, p), {n}) + Count(new, {n}) = Count(SubSeq(code, 1, to), {n})
      BY <3>2, <3>5, <3>6
    <3> QED BY <3>7 DEF to
  <2>2. NoneUpTo(new, Len(new), names)
    BY <1>9
  <2> QED BY <2>1, <2>2 DEF LeavesCalls, names
<1>11. PutInPlace(p, new, code[x].arg)
  <2>1. code' = Put(code, p, new, x + 1)
    BY <1>1 DEF Put
  <2>2. x + 2 = p + 3 + 1
    BY <1>6
  <2>3. x' = p + Len(new) + 1
    BY <1>1, <1>9, <2>2
  <2> QED BY <1>1, <2>1, <2>3 DEF PutInPlace
<1> HIDE DEF p, new
<1> QED BY <1>1, <1>2, <1>3, <1>4, <1>6, <1>9, <1>10, <1>11, PlaceStep DEF names

----------------------------------------------------------------------------
(* The theorems.                                                           *)

\* A round of the loop: it threw or ended, or it comes closer.
Comes ==
    \/ phase' # "replace"
    \/ CallsAhead(code', x') < CallsAhead(code, x)
    \/ CallsAhead(code', x') = CallsAhead(code, x) /\ Ahead' < Ahead

LEMMA CloserComes ==
    ASSUME Closer(code, x, code', x', Handled(func.map))
    PROVE  Comes
BY DEF Comes, Closer, CallsAhead, Calls

LEMMA UsageStep ==
    ASSUME UsageInv, Next
    PROVE  UsageInv' /\ Comes
<1>1. CASE Pass
  <2>1. UsageInv' /\ Len(code') - x' < Len(code) - x
    BY <1>1, PassStep
  <2>2. CallsAhead(code', x') = CallsAhead(code, x)
    BY <1>1, PassStep DEF CallsAhead, Calls
  <2> QED BY <2>1, <2>2 DEF Comes, Ahead
<1>2. CASE ReplaceBuiltin
  BY <1>2, BuiltinStep, CloserComes
<1>3. CASE ReplaceMemory
  <2>1. /\ func.map = Memory
        /\ UNCHANGED <<func, element, usage, removed>>
        /\ IsSeq(code') /\ x' \in Nat \ {0}
        /\ phase = "replace" /\ phase' \in {"replace", "threw"}
        /\ phase' = "replace" => Closer(code, x, code', x', Handled(func.map))
    BY <1>3, MemoryStep
  <2>2. phase' # "done"
    BY <2>1
  <2>3. UsageInv'
    BY <2>1, <2>2 DEF UsageInv
  <2>4. Comes
    <3>1. CASE phase' = "replace"
      BY <2>1, <3>1, CloserComes
    <3>2. CASE phase' # "replace"
      BY <3>2 DEF Comes
    <3> QED BY <3>1, <3>2
  <2> QED BY <2>3, <2>4
<1>4. CASE ReplaceAlloca
  BY <1>4, AllocaStepKeeps, CloserComes
<1>5. CASE ReplaceTable
  BY <1>5, TableStep, CloserComes
<1>6. CASE Collect
  <2>1. /\ phase' = "done" /\ UNCHANGED <<func, code, x, element, usage>>
        /\ removed' = {n \in DOMAIN usage \cap Handled(func.map) : usage[n] = 0}
    BY <1>6 DEF Collect
  <2>2. UsageInv'
    BY <2>1 DEF UsageInv
  <2>3. phase' # "replace"
    BY <2>1
  <2> QED BY <2>2, <2>3 DEF Comes
<1> QED BY <1>1, <1>2, <1>3, <1>4, <1>5, <1>6 DEF Next

LEMMA UsageStutter == UsageInv /\ UNCHANGED vars => UsageInv'
BY DEF vars, UsageInv

\* The count of uses that the handlers and the loop keep is the number of calls
\* that are left plus the element's use (of the calls there were, for memcpy and
\* memset), and none of the calls that are to go is behind the loop.
THEOREM UsageInvariant == Spec => []UsageInv
<1>1. UsageInv /\ [Next]_vars => UsageInv'
  BY UsageStep, UsageStutter
<1> QED BY InitUsage, <1>1, PTL DEF Spec

LEMMA UsageRemoves == UsageInv => RemovedWhenUnused
<1> SUFFICES ASSUME UsageInv, phase = "done", NEW n \in CalleesIn(func.code) \cap Handled(func.map)
             PROVE  n \in removed <=> Uses(code, element, n) = 0 /\ n \notin MemoryOps
  BY DEF RemovedWhenUnused
<1>1. func \in Functions /\ DOMAIN usage = CalleesIn(func.code)
  BY DEF UsageInv
<1>2. n \in removed <=> usage[n] = 0
  BY <1>1 DEF UsageInv
<1>3. CASE func.map = Memory
  <2>1. n \in MemoryOps
    BY <1>1, <1>3, Maps
  <2>2. usage[n] = Uses(func.code, element, n)
    BY <1>3 DEF UsageInv
  <2>3. IsSeq(func.code)
    BY <1>1, FunctionsAssumption, SeqIsSeq
  <2> DEFINE is == func.code
             e == IF n \in element THEN 1 ELSE 0
  <2>4. usage[n] = Count(is, {n}) + e /\ e \in Nat
    BY <2>2, <2>3, UsesCount
  <2>5. PICK k \in DOMAIN is : is[k].op = \h10 /\ is[k].arg = n
    BY DEF CalleesIn
  <2> HIDE DEF is, e
  <2>6. k \in Calls(is, 1, Len(is), {n}) /\ IsFiniteSet(Calls(is, 1, Len(is), {n}))
    <3>1. DOMAIN is = 1 .. Len(is) /\ Len(is) \in Nat
      BY <2>3, IsSeqLen DEF is
    <3>2. IsCall(is[k], {n}) /\ k \in 1 .. Len(is)
      BY <2>5, <3>1 DEF IsCall
    <3>3. k \in Calls(is, 1, Len(is), {n})
      BY <3>2 DEF Calls
    <3>4. IsFiniteSet(Calls(is, 1, Len(is), {n}))
      BY <3>1, CallsFinite
    <3> QED BY <3>3, <3>4
  <2>7. Count(is, {n}) \in Nat /\ Count(is, {n}) # 0
    BY <2>6, FS_EmptySet, FS_CardinalityType DEF Count
  <2>8. usage[n] # 0
    BY <2>4, <2>7
  <2> QED BY <1>2, <2>1, <2>8
<1>4. CASE func.map # Memory
  <2>1. n \notin MemoryOps
    BY <1>1, <1>4, Maps
  <2>2. usage[n] = Uses(code, element, n)
    BY <1>4 DEF UsageInv
  <2> QED BY <1>2, <2>1, <2>2
<1> QED BY <1>3, <1>4

\* A built-in is removed when no call and no element uses it any more, and only
\* then, but for memcpy and memset: the functions that funcmap names are spliced
\* from the module by the count that the handlers keep.
THEOREM RemovedWhenUnusedCorrect == Spec => []RemovedWhenUnused
BY UsageInvariant, UsageRemoves, PTL

\* Every round of replaceCallInstructions leaves fewer calls to replace ahead of
\* the loop, or as many and fewer instructions, until it ends or throws: the edits
\* of the handlers cannot make it walk for ever.
THEOREM AdvancesCorrect == Spec => Advances
<1>1. UsageInv /\ [Next]_vars => [Comes]_vars
  BY UsageStep
<1>2. UsageInv /\ [Next]_vars => UsageInv'
  BY UsageStep, UsageStutter
<1>3. Spec => [][Comes]_vars
  BY <1>1, UsageInvariant, PTL DEF Spec
<1> QED BY <1>3 DEF Advances, Comes
===============================================================================
