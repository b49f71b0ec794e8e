--------------------------- MODULE ByteCode_proofs ----------------------------
(***************************************************************************)
(* The three walks over the instructions of a body agree.  The bytes that  *)
(* encodeByteCode writes are as many as byteCodeComputeByteLength has      *)
(* counted, for every body without vector instructions: the two switches   *)
(* agree instruction by instruction, and what the first lets pass the      *)
(* second does not refuse, unless it is an instruction of a local.  What   *)
(* encodeByteCode writes, decodeByteCode reads, and so it does code of     *)
(* another tool; both note the same places of padded operands.             *)
(***************************************************************************)
EXTENDS ByteCode, Induction

-----------------------------------------------------------------------------
(* How many bytes fields take *)

\* The length of a concatenation is the total of the lengths.
LEMMA FlattenLength ==
    ASSUME NEW ss, IsSeq(ss), \A k \in DOMAIN ss : IsSeq(ss[k]),
           NEW sizes \in Seq(Int), Len(sizes) = Len(ss), \A k \in 1 .. Len(ss) : sizes[k] = Len(ss[k])
    PROVE  IsSeq(FlattenSeq(ss)) /\ Len(FlattenSeq(ss)) = SumOf(sizes)
<1> DEFINE n == Len(ss)
<1>1. n \in Nat /\ DOMAIN ss = 1 .. n
  BY IsSeqLen
<1>2. IsSeq(FlattenSeq(ss))
  BY FlattenIsSeq
<1>3. PICK W : ss \in Seq(Seq(W))
  BY SeqsIn
<1>4. PICK all : /\ all \in [0 .. n -> Seq(W)]
                 /\ all[0] = <<>>
                 /\ \A k \in 1 .. n : all[k] = all[k - 1] \o ss[k]
                 /\ FlattenSeq(ss) = all[n]
  BY <1>3, FlattenSteps
<1>5. PICK sum : Sums(sizes, sum) /\ SumOf(sizes) = sum[n]
  BY SumSteps
<1>6. sum \in [0 .. n -> Int] /\ sum[0] = 0 /\ \A k \in 1 .. n : sum[k] = sum[k - 1] + sizes[k]
  BY <1>5 DEF Sums
<1> HIDE DEF n
<1> DEFINE T == {k \in 0 .. n : Len(all[k]) = sum[k]}
<1>7. 0 \in T
  BY <1>1, <1>4, <1>6
<1>8. ASSUME NEW k \in T, k < n PROVE k + 1 \in T
  <2>1. k \in 0 .. n /\ k + 1 \in 1 .. n /\ k + 1 \in 0 .. n /\ (k + 1) - 1 = k /\ Len(all[k]) = sum[k]
    BY <1>1, <1>8
  <2>2. all[k] \in Seq(W) /\ ss[k + 1] \in Seq(W) /\ all[k + 1] = all[k] \o ss[k + 1]
    BY <1>1, <1>3, <1>4, <2>1, ElementOfSeq DEF n
  <2>3. Len(all[k + 1]) = Len(all[k]) + Len(ss[k + 1])
    BY <2>2, ConcatProperties
  <2>4. sum[k + 1] = sum[k] + sizes[k + 1] /\ sizes[k + 1] = Len(ss[k + 1])
    BY <1>6, <2>1 DEF n
  <2> QED BY <2>1, <2>3, <2>4
<1>9. T = 0 .. n
  <2>1. T \in SUBSET (0 .. n)
    OBVIOUS
  <2> HIDE DEF T
  <2> QED BY <1>1, <1>7, <1>8, <2>1, UpToInduction
<1>10. n \in 0 .. n
  BY <1>1
<1> QED BY <1>2, <1>4, <1>5, <1>9, <1>10

LEMMA SumOfNat ==
    ASSUME NEW s \in Seq(Nat)
    PROVE  SumOf(s) \in Nat
<1> DEFINE n == Len(s)
<1>1. n \in Nat /\ s \in Seq(Int) /\ \A k \in 1 .. n : s[k] \in Nat
  BY ElementOfSeq
<1>2. PICK sum : Sums(s, sum) /\ SumOf(s) = sum[n]
  BY <1>1, SumSteps
<1>3. sum[0] = 0 /\ \A k \in 1 .. n : sum[k] = sum[k - 1] + s[k]
  BY <1>2 DEF Sums
<1> HIDE DEF n
<1> DEFINE T == {k \in 0 .. n : sum[k] \in Nat}
<1>4. 0 \in T
  BY <1>1, <1>3
<1>5. ASSUME NEW k \in T, k < n PROVE k + 1 \in T
  <2>1. k + 1 \in 1 .. n /\ k + 1 \in 0 .. n /\ (k + 1) - 1 = k /\ sum[k] \in Nat
    BY <1>1, <1>5
  <2>2. sum[k + 1] = sum[k] + s[k + 1] /\ s[k + 1] \in Nat
    BY <1>1, <1>3, <2>1
  <2> QED BY <2>1, <2>2
<1>6. T = 0 .. n
  <2>1. T \in SUBSET (0 .. n)
    OBVIOUS
  <2> HIDE DEF T
  <2> QED BY <1>1, <1>4, <1>5, <2>1, UpToInduction
<1>7. n \in 0 .. n
  BY <1>1
<1> QED BY <1>2, <1>6, <1>7

\* The fields fs of an instruction are written as n bytes.
SizesOf(inst, fs) == [k \in DOMAIN fs |-> Len(Bytes(inst, fs[k]))]
Takes(inst, fs, n) ==
    /\ IsSeq(fs) /\ \A k \in DOMAIN fs : IsSeq(Bytes(inst, fs[k]))
    /\ SumOf(SizesOf(inst, fs)) = n

LEMMA SizesAre ==
    ASSUME NEW inst, NEW fs, IsSeq(fs), \A k \in DOMAIN fs : IsSeq(Bytes(inst, fs[k]))
    PROVE  /\ SizesOf(inst, fs) \in Seq(Int) /\ Len(SizesOf(inst, fs)) = Len(fs)
           /\ \A k \in 1 .. Len(fs) : SizesOf(inst, fs)[k] = Len(Bytes(inst, fs[k]))
<1>1. Len(fs) \in Nat /\ DOMAIN fs = 1 .. Len(fs)
  BY IsSeqLen
<1>2. ASSUME NEW k \in 1 .. Len(fs) PROVE SizesOf(inst, fs)[k] = Len(Bytes(inst, fs[k])) /\ Len(Bytes(inst, fs[k])) \in Int
  BY <1>1, IsSeqLen DEF SizesOf
<1>3. DOMAIN SizesOf(inst, fs) = 1 .. Len(fs) /\ SizesOf(inst, fs) = [k \in 1 .. Len(fs) |-> SizesOf(inst, fs)[k]]
  BY <1>1 DEF SizesOf
<1>4. \A k \in 1 .. Len(fs) : SizesOf(inst, fs)[k] \in Int
  BY <1>2
<1> QED BY <1>1, <1>2, <1>3, <1>4, IntSeq

LEMMA TakesNone ==
    ASSUME NEW inst
    PROVE  Takes(inst, <<>>, 0)
<1>1. SizesOf(inst, <<>>) \in Seq(Int) /\ Len(SizesOf(inst, <<>>)) = 0
  BY EmptyIsSeq, SizesAre
<1>2. SizesOf(inst, <<>>) = <<>>
  BY <1>1, EmptySeq
<1> QED BY <1>2, EmptyIsSeq, SumEmpty DEF Takes

LEMMA TakesOne ==
    ASSUME NEW inst, NEW f, IsSeq(Bytes(inst, f))
    PROVE  Takes(inst, <<f>>, Len(Bytes(inst, f)))
<1>1. IsSeq(<<f>>) /\ DOMAIN <<f>> = {1} /\ <<f>>[1] = f /\ Len(<<f>>) = 1
  BY SingletonIs
<1>2. /\ SizesOf(inst, <<f>>) \in Seq(Int) /\ Len(SizesOf(inst, <<f>>)) = 1
      /\ SizesOf(inst, <<f>>)[1] = Len(Bytes(inst, f))
  <2>1. \A k \in DOMAIN <<f>> : IsSeq(Bytes(inst, <<f>>[k]))
    BY <1>1
  <2> QED BY <1>1, <2>1, SizesAre
<1>3. SizesOf(inst, <<f>>) = <<Len(Bytes(inst, f))>>
  <2> HIDE DEF SizesOf
  <2> DEFINE z == SizesOf(inst, <<f>>)
  <2>1. z \in Seq(Int) /\ Len(z) = 1 /\ z[1] = Len(Bytes(inst, f))
    BY <1>2
  <2> HIDE DEF z
  <2>2. z = <<z[1]>>
    BY <2>1
  <2> QED BY <2>1, <2>2 DEF z
<1>4. SumOf(SizesOf(inst, <<f>>)) = Len(Bytes(inst, f))
  BY <1>3, SumOne, IsSeqLen
<1> QED BY <1>1, <1>4 DEF Takes

LEMMA TakesConcat ==
    ASSUME NEW inst, NEW fs, NEW gs, NEW m, NEW n, Takes(inst, fs, m), Takes(inst, gs, n)
    PROVE  Takes(inst, fs \o gs, m + n)
<1>1. IsSeq(fs) /\ IsSeq(gs)
  BY DEF Takes
<1>2. Len(fs) \in Nat /\ Len(gs) \in Nat /\ DOMAIN fs = 1 .. Len(fs) /\ DOMAIN gs = 1 .. Len(gs)
  BY <1>1, IsSeqLen
<1> DEFINE c == fs \o gs
<1>3. /\ IsSeq(c) /\ Len(c) = Len(fs) + Len(gs) /\ DOMAIN c = 1 .. Len(fs) + Len(gs)
      /\ \A k \in 1 .. Len(fs) + Len(gs) : c[k] = IF k <= Len(fs) THEN fs[k] ELSE gs[k - Len(fs)]
  BY <1>1, ConcatIsSeq, IsSeqLen
<1> HIDE DEF c
<1>4. ASSUME NEW k \in DOMAIN c PROVE IsSeq(Bytes(inst, c[k]))
  <2>1. CASE k <= Len(fs)
    <3>1. k \in DOMAIN fs /\ c[k] = fs[k]
      BY <1>2, <1>3, <2>1
    <3> QED BY <3>1 DEF Takes
  <2>2. CASE ~(k <= Len(fs))
    <3>1. k - Len(fs) \in DOMAIN gs /\ c[k] = gs[k - Len(fs)]
      BY <1>2, <1>3, <2>2
    <3> QED BY <3>1 DEF Takes
  <2> QED BY <2>1, <2>2
<1> DEFINE a == SizesOf(inst, fs)
           b == SizesOf(inst, gs)
           z == SizesOf(inst, c)
<1>5. /\ a \in Seq(Int) /\ Len(a) = Len(fs) /\ \A k \in 1 .. Len(fs) : a[k] = Len(Bytes(inst, fs[k]))
      /\ b \in Seq(Int) /\ Len(b) = Len(gs) /\ \A k \in 1 .. Len(gs) : b[k] = Len(Bytes(inst, gs[k]))
  BY <1>1, SizesAre DEF Takes
<1>6. z \in Seq(Int) /\ Len(z) = Len(fs) + Len(gs) /\ \A k \in 1 .. Len(fs) + Len(gs) : z[k] = Len(Bytes(inst, c[k]))
  BY <1>3, <1>4, SizesAre
<1>7. SumOf(a) = m /\ SumOf(b) = n
  BY DEF Takes
<1> HIDE DEF a, b, z
<1>8. /\ a \o b \in Seq(Int) /\ Len(a \o b) = Len(fs) + Len(gs)
      /\ \A k \in 1 .. Len(fs) + Len(gs) : (a \o b)[k] = IF k <= Len(fs) THEN a[k] ELSE b[k - Len(fs)]
  <2>1. IsSeq(a) /\ IsSeq(b)
    BY <1>5, SeqIsSeq
  <2>2. a \o b \in Seq(Int)
    BY <1>5
  <2>3. /\ Len(a \o b) = Len(a) + Len(b)
        /\ \A k \in 1 .. Len(a) + Len(b) : (a \o b)[k] = IF k <= Len(a) THEN a[k] ELSE b[k - Len(a)]
    BY <2>1, ConcatIsSeq
  <2> QED BY <1>5, <2>2, <2>3
<1>9. ASSUME NEW k \in 1 .. Len(fs) + Len(gs) PROVE z[k] = (a \o b)[k]
  <2>1. CASE k <= Len(fs)
    <3>1. k \in 1 .. Len(fs) /\ c[k] = fs[k] /\ z[k] = Len(Bytes(inst, c[k]))
      BY <1>2, <1>3, <1>6, <2>1
    <3> QED BY <3>1, <1>5, <1>8, <2>1
  <2>2. CASE ~(k <= Len(fs))
    <3>1. k - Len(fs) \in 1 .. Len(gs) /\ c[k] = gs[k - Len(fs)] /\ z[k] = Len(Bytes(inst, c[k]))
      BY <1>2, <1>3, <1>6, <2>2
    <3> QED BY <3>1, <1>5, <1>8, <2>2
  <2> QED BY <2>1, <2>2
<1>10. z = a \o b
  <2> DEFINE ab == a \o b
  <2>1. ab \in Seq(Int) /\ Len(ab) = Len(z) /\ \A k \in 1 .. Len(z) : z[k] = ab[k]
    BY <1>6, <1>8, <1>9
  <2> HIDE DEF ab
  <2>2. z = ab
    BY <1>6, <2>1, SeqEqual
  <2> QED BY <2>2 DEF ab
<1>11. SumOf(z) = m + n
  BY <1>5, <1>7, <1>10, SumConcat
<1>12. IsSeq(c) /\ (\A k \in DOMAIN c : IsSeq(Bytes(inst, c[k]))) /\ SumOf(SizesOf(inst, c)) = m + n
  BY <1>3, <1>4, <1>11 DEF z
<1> QED BY <1>12 DEF Takes, c

LEMMA ConcatTwo ==
    ASSUME NEW f, NEW g
    PROVE  <<f>> \o <<g>> = <<f, g>> /\ <<f>> \o <<>> = <<f>>
<1> DEFINE c == <<f>> \o <<g>>
           p == <<f, g>>
<1>1. IsSeq(<<f>>) /\ IsSeq(<<g>>) /\ Len(<<f>>) = 1 /\ Len(<<g>>) = 1 /\ <<f>>[1] = f /\ <<g>>[1] = g
  BY SingletonIs
<1>2. c \in Seq({f, g})
  OBVIOUS
<1>3. Len(c) = 2 /\ c[1] = f /\ c[2] = g
  BY <1>1, ConcatIsSeq
<1>4. p \in Seq({f, g}) /\ Len(p) = 2 /\ p[1] = f /\ p[2] = g
  OBVIOUS
<1> HIDE DEF c, p
<1>5. c = p
  BY <1>2, <1>3, <1>4, SeqEqual
<1>6. <<f>> \o <<>> = <<f>>
  OBVIOUS
<1> QED BY <1>5, <1>6 DEF c, p

LEMMA TakesPair ==
    ASSUME NEW inst, NEW f, NEW g, NEW m, NEW n, Takes(inst, <<f>>, m), Takes(inst, <<g>>, n)
    PROVE  Takes(inst, <<f, g>>, m + n)
<1>1. Takes(inst, <<f>> \o <<g>>, m + n)
  BY TakesConcat
<1>2. <<f>> \o <<g>> = <<f, g>>
  BY ConcatTwo
<1> QED BY <1>1, <1>2

\* What the fields of an instruction take is the length of its bytes.
LEMMA TakesBytes ==
    ASSUME NEW inst, NEW n, Takes(inst, Written(inst), n)
    PROVE  IsSeq(BytesOf(inst)) /\ Len(BytesOf(inst)) = n
<1> DEFINE fs == Written(inst)
           ss == [k \in DOMAIN fs |-> Bytes(inst, fs[k])]
<1>1. IsSeq(fs) /\ \A k \in DOMAIN fs : IsSeq(Bytes(inst, fs[k]))
  BY DEF Takes
<1>2. SumOf(SizesOf(inst, fs)) = n
  BY DEF Takes
<1>3. BytesOf(inst) = FlattenSeq(ss)
  BY DEF BytesOf
<1> HIDE DEF fs
<1>4. Len(fs) \in Nat /\ DOMAIN fs = 1 .. Len(fs)
  BY <1>1, IsSeqLen
<1>5. IsSeq(ss) /\ Len(ss) = Len(fs) /\ DOMAIN ss = 1 .. Len(fs) /\ \A k \in DOMAIN ss : IsSeq(ss[k])
  <2>1. DOMAIN ss = 1 .. Len(fs) /\ ss = [k \in 1 .. Len(fs) |-> ss[k]] /\ \A k \in DOMAIN ss : IsSeq(ss[k])
    BY <1>1, <1>4
  <2> HIDE DEF ss
  <2> QED BY <2>1, <1>4, FunctionIsSeq
<1>6. \A k \in 1 .. Len(fs) : ss[k] = Bytes(inst, fs[k])
  BY <1>4
<1> HIDE DEF ss
<1>7. /\ SizesOf(inst, fs) \in Seq(Int) /\ Len(SizesOf(inst, fs)) = Len(ss)
      /\ \A k \in 1 .. Len(ss) : SizesOf(inst, fs)[k] = Len(ss[k])
  BY <1>1, <1>5, <1>6, SizesAre
<1>8. IsSeq(FlattenSeq(ss)) /\ Len(FlattenSeq(ss)) = SumOf(SizesOf(inst, fs))
  BY <1>5, <1>7, FlattenLength
<1> QED BY <1>2, <1>3, <1>8

-----------------------------------------------------------------------------
(* Numbers *)

LEMMA PadIs ==
    ASSUME NEW inst
    PROVE  PadOf(inst) \in Nat
BY VectorAssumption DEF PadOf

LEMMA LengthIs ==
    ASSUME NEW v
    PROVE  LengthULEB(v) \in 1 .. 4 /\ LengthSLEB(v) \in 1 .. 4
BY DEF LengthULEB, LengthSLEB

\* A number is written in as many groups as it is given, padded or not.
LEMMA GroupsLength ==
    ASSUME NEW v, NEW n \in Nat
    PROVE  IsSeq(Groups(v, n)) /\ Len(Groups(v, n)) = n
<1> DEFINE g == Groups(v, n)
<1>1. DOMAIN g = 1 .. n /\ g = [k \in 1 .. n |-> g[k]]
  BY DEF Groups
<1> HIDE DEF g
<1>2. IsSeq(g) /\ Len(g) = n
  BY <1>1, FunctionIsSeq
<1> QED BY <1>2 DEF g

LEMMA LebLength ==
    ASSUME NEW v, NEW p \in Nat
    PROVE  /\ IsSeq(ULEB(v, p)) /\ Len(ULEB(v, p)) = PaddedTo(LengthULEB(v), p)
           /\ IsSeq(SLEB(v, p)) /\ Len(SLEB(v, p)) = PaddedTo(LengthSLEB(v), p)
           /\ PaddedTo(LengthULEB(v), p) \in Nat /\ PaddedTo(LengthSLEB(v), p) \in Nat
           /\ PaddedTo(LengthULEB(v), 0) = LengthULEB(v) /\ PaddedTo(LengthSLEB(v), 0) = LengthSLEB(v)
<1>1. PaddedTo(LengthULEB(v), p) \in Nat /\ PaddedTo(LengthSLEB(v), p) \in Nat
  BY LengthIs DEF PaddedTo
<1>2. PaddedTo(LengthULEB(v), 0) = LengthULEB(v) /\ PaddedTo(LengthSLEB(v), 0) = LengthSLEB(v)
  BY LengthIs DEF PaddedTo
<1> QED BY <1>1, <1>2, GroupsLength DEF ULEB, SLEB

\* Each form of a field.
LEMMA FormsAre ==
    ASSUME NEW v
    PROVE  /\ U8(v).form = "u8" /\ U8(v).value = v
           /\ U(v).form = "uleb" /\ U(v).value = v
           /\ S(v).form = "sleb" /\ S(v).value = v
           /\ RelocU(v).form = "relocU" /\ RelocU(v).value = v
           /\ RelocS(v).form = "relocS" /\ RelocS(v).value = v
           /\ Raw(v).form = "raw" /\ Raw(v).value = v
BY DEF U8, U, S, RelocU, RelocS, Raw

LEMMA BytesAre ==
    ASSUME NEW inst, NEW v
    PROVE  /\ Bytes(inst, U8(v)) = <<LowByte(v)>>
           /\ Bytes(inst, U(v)) = ULEB(v, 0)
           /\ Bytes(inst, S(v)) = SLEB(v, 0)
           /\ Bytes(inst, RelocU(v)) = ULEB(v, PadOf(inst))
           /\ Bytes(inst, RelocS(v)) = SLEB(v, PadOf(inst))
           /\ Bytes(inst, Raw(v)) = v
<1>1. Bytes(inst, U8(v)) = <<LowByte(v)>>
  BY FormsAre DEF Bytes
<1>2. Bytes(inst, U(v)) = ULEB(v, 0)
  BY FormsAre DEF Bytes
<1>3. Bytes(inst, S(v)) = SLEB(v, 0)
  BY FormsAre DEF Bytes
<1>4. Bytes(inst, RelocU(v)) = ULEB(v, PadOf(inst))
  BY FormsAre DEF Bytes
<1>5. Bytes(inst, RelocS(v)) = SLEB(v, PadOf(inst))
  BY FormsAre DEF Bytes
<1>6. Bytes(inst, Raw(v)) = v
  BY FormsAre DEF Bytes
<1> QED BY <1>1, <1>2, <1>3, <1>4, <1>5, <1>6

LEMMA TakesByte ==
    ASSUME NEW inst, NEW v
    PROVE  Takes(inst, <<U8(v)>>, 1)
<1>1. Bytes(inst, U8(v)) = <<LowByte(v)>>
  BY BytesAre
<1>2. IsSeq(Bytes(inst, U8(v))) /\ Len(Bytes(inst, U8(v))) = 1
  BY <1>1, SingletonIs
<1> QED BY <1>2, TakesOne

LEMMA TakesNumber ==
    ASSUME NEW inst, NEW v
    PROVE  Takes(inst, <<U(v)>>, LengthULEB(v)) /\ Takes(inst, <<S(v)>>, LengthSLEB(v))
<1>1. Bytes(inst, U(v)) = ULEB(v, 0) /\ Bytes(inst, S(v)) = SLEB(v, 0)
  BY BytesAre
<1>2. /\ IsSeq(Bytes(inst, U(v))) /\ Len(Bytes(inst, U(v))) = LengthULEB(v)
      /\ IsSeq(Bytes(inst, S(v))) /\ Len(Bytes(inst, S(v))) = LengthSLEB(v)
  BY <1>1, LebLength
<1> QED BY <1>2, TakesOne

LEMMA TakesPadded ==
    ASSUME NEW inst, NEW v
    PROVE  /\ Takes(inst, <<RelocU(v)>>, PaddedTo(LengthULEB(v), PadOf(inst)))
           /\ Takes(inst, <<RelocS(v)>>, PaddedTo(LengthSLEB(v), PadOf(inst)))
<1>1. Bytes(inst, RelocU(v)) = ULEB(v, PadOf(inst)) /\ Bytes(inst, RelocS(v)) = SLEB(v, PadOf(inst))
  BY BytesAre
<1>2. /\ IsSeq(Bytes(inst, RelocU(v))) /\ Len(Bytes(inst, RelocU(v))) = PaddedTo(LengthULEB(v), PadOf(inst))
      /\ IsSeq(Bytes(inst, RelocS(v))) /\ Len(Bytes(inst, RelocS(v))) = PaddedTo(LengthSLEB(v), PadOf(inst))
  BY <1>1, PadIs, LebLength
<1> QED BY <1>2, TakesOne

LEMMA TakesRaw ==
    ASSUME NEW inst, NEW v, IsSeq(v)
    PROVE  Takes(inst, <<Raw(v)>>, Len(v))
<1>1. Bytes(inst, Raw(v)) = v
  BY BytesAre
<1> QED BY <1>1, TakesOne

\* indexOf finds a place, or -1, whose length is that of 0.
LEMMA IndexIs ==
    ASSUME NEW inst, NEW name \in DOMAIN SpaceOf
    PROVE  IndexOfArg(inst, name) \in Int
<1> DEFINE space == SpaceOf[name]
           v == IF space = "locals" THEN Locals ELSE Vector[space]
           obj == inst.arg[name]
<1>1. space \in Spaces
  BY DEF SpaceOf, Spaces
<1> HIDE DEF space
<1>2. IsSeq(v)
  <2>1. CASE space = "locals"
    BY <2>1, VectorAssumption, SeqIsSeq
  <2>2. CASE space # "locals"
    <3>1. space \in DOMAIN Vector
      BY <1>1, <2>2, VectorAssumption
    <3> QED BY <2>2, <3>1, VectorAssumption, SeqIsSeq
  <2> QED BY <2>1, <2>2
<1>3. IndexOfArg(inst, name) = IF Contains(v, obj) THEN (CHOOSE n \in DOMAIN v : v[n] = obj) - 1 ELSE -1
  BY DEF IndexOfArg, Index, space
<1> HIDE DEF v, obj
<1>4. Len(v) \in Nat /\ DOMAIN v = 1 .. Len(v)
  BY <1>2, IsSeqLen
<1>5. CASE Contains(v, obj)
  <2>1. \E n \in DOMAIN v : v[n] = obj
    BY <1>4, <1>5 DEF Contains
  <2>2. (CHOOSE n \in DOMAIN v : v[n] = obj) \in DOMAIN v
    BY <2>1
  <2> QED BY <1>3, <1>4, <1>5, <2>2
<1>6. CASE ~Contains(v, obj)
  BY <1>3, <1>6
<1> QED BY <1>5, <1>6

LEMMA LengthIndexIs ==
    ASSUME NEW inst, NEW name \in DOMAIN SpaceOf
    PROVE  LengthIndex(inst, name) = LengthULEB(IndexOfArg(inst, name))
<1> DEFINE a == IndexOfArg(inst, name)
           m == Max({a, 0})
<1>1. a \in Int
  BY IndexIs
<1>2. LengthIndex(inst, name) = LengthULEB(m)
  BY DEF LengthIndex
<1> HIDE DEF a
<1>3. m \in {a, 0} /\ \A y \in {a, 0} : m >= y
  <2>1. \E x \in {a, 0} : \A y \in {a, 0} : x >= y
    BY <1>1
  <2> QED BY <2>1 DEF Max
<1> HIDE DEF m
<1>4. m = a \/ (a < 128 /\ m < 128)
  BY <1>1, <1>3
<1>5. LengthULEB(m) = LengthULEB(a)
  BY <1>4 DEF LengthULEB
<1> QED BY <1>2, <1>5 DEF a

LEMMA TakesIndex ==
    ASSUME NEW inst, NEW name \in DOMAIN SpaceOf
    PROVE  Takes(inst, <<IndexField(inst, name)>>, LengthIndex(inst, name)) /\ LengthIndex(inst, name) \in Nat
<1> DEFINE v == IndexOfArg(inst, name)
<1>1. LengthIndex(inst, name) = LengthULEB(v)
  BY LengthIndexIs
<1>2. IndexField(inst, name) = U(v)
  BY DEF IndexField
<1> HIDE DEF v
<1>3. Takes(inst, <<U(v)>>, LengthULEB(v))
  BY TakesNumber
<1>4. LengthULEB(v) \in Nat
  BY LengthIs
<1> QED BY <1>1, <1>2, <1>3, <1>4

-----------------------------------------------------------------------------
(* The switches, group by group *)

\* An instruction of a body, as BodiesAssumption has it.
InstOK(inst) ==
    /\ inst.op \in 0 .. \hFB \cup \hFC00 .. \hFEFF
    /\ inst.op \in {\h02, \h03, \h04, \h06} => inst.arg.type[1] \in {"number", "typeidx", "object"}
    /\ inst.op = \h0E => IsSeq(inst.arg.labels)
    /\ inst.op \in {\h43, \h44} => IsSeq(inst.arg.value)
    /\ inst.op = \h43 => Len(inst.arg.value) = 4
    /\ inst.op = \h44 => Len(inst.arg.value) = 8

LEMMA TakesOpcode ==
    ASSUME NEW inst, NEW op \in Int
    PROVE  /\ op <= \hFF => Takes(inst, Opcode(op), 1)
           /\ op > \hFF => Takes(inst, Opcode(op), 1 + LengthULEB(B2(op)))
<1>1. Takes(inst, <<U8(B1(op))>>, 1) /\ Takes(inst, <<U(B2(op))>>, LengthULEB(B2(op)))
  BY TakesByte, TakesNumber
<1>2. CASE op <= \hFF
  <2> DEFINE more == IF op > \hFF THEN <<U(B2(op))>> ELSE <<>>
  <2>1. Opcode(op) = <<U8(B1(op))>> \o <<>>
    <3>1. Opcode(op) = <<U8(B1(op))>> \o more
      BY DEF Opcode
    <3>2. more = <<>>
      BY <1>2
    <3> QED BY <3>1, <3>2
  <2>2. Takes(inst, <<U8(B1(op))>> \o <<>>, 1 + 0)
    BY <1>1, TakesNone, TakesConcat
  <2> QED BY <1>2, <2>1, <2>2
<1>3. CASE op > \hFF
  <2>1. Opcode(op) = <<U8(B1(op))>> \o <<U(B2(op))>>
    BY <1>3 DEF Opcode
  <2>2. Takes(inst, <<U8(B1(op))>> \o <<U(B2(op))>>, 1 + LengthULEB(B2(op)))
    BY <1>1, TakesConcat
  <2> QED BY <1>3, <2>1, <2>2
<1> QED BY <1>2, <1>3

\* The labels of a br_table.
LEMMA TakesLabels ==
    ASSUME NEW inst, NEW labels, IsSeq(labels)
    PROVE  LET n == SumOf([k \in DOMAIN labels |-> LengthULEB(labels[k])]) IN
           n \in Nat /\ Takes(inst, [k \in DOMAIN labels |-> U(labels[k])], n)
<1> DEFINE fs == [k \in DOMAIN labels |-> U(labels[k])]
           z == [k \in DOMAIN labels |-> LengthULEB(labels[k])]
<1>1. Len(labels) \in Nat /\ DOMAIN labels = 1 .. Len(labels)
  BY IsSeqLen
<1>2. IsSeq(fs) /\ Len(fs) = Len(labels) /\ DOMAIN fs = DOMAIN labels
  <2>1. DOMAIN fs = 1 .. Len(labels) /\ fs = [k \in 1 .. Len(labels) |-> fs[k]]
    BY <1>1
  <2> HIDE DEF fs
  <2> QED BY <1>1, <2>1, FunctionIsSeq
<1>3. ASSUME NEW k \in DOMAIN labels
      PROVE  IsSeq(Bytes(inst, fs[k])) /\ Len(Bytes(inst, fs[k])) = LengthULEB(labels[k])
  <2>1. fs[k] = U(labels[k])
    OBVIOUS
  <2>2. Bytes(inst, U(labels[k])) = ULEB(labels[k], 0)
    BY BytesAre
  <2>3. IsSeq(ULEB(labels[k], 0)) /\ Len(ULEB(labels[k], 0)) = LengthULEB(labels[k])
    BY LebLength
  <2> QED BY <2>1, <2>2, <2>3
<1> HIDE DEF fs
<1>4. SizesOf(inst, fs) = z
  BY <1>2, <1>3 DEF SizesOf
<1>5. z \in Seq(Nat)
  <2>1. DOMAIN z = 1 .. Len(labels) /\ z = [k \in 1 .. Len(labels) |-> z[k]] /\ \A k \in 1 .. Len(labels) : z[k] \in Nat
    BY <1>1, LengthIs
  <2> HIDE DEF z
  <2> QED BY <1>1, <2>1, IntSeq
<1> HIDE DEF z
<1>6. SumOf(z) \in Nat
  BY <1>5, SumOfNat
<1>7. Takes(inst, fs, SumOf(z))
  BY <1>2, <1>3, <1>4 DEF Takes
<1> QED BY <1>6, <1>7 DEF fs, z

LEMMA ControlTakes ==
    ASSUME NEW inst, InstOK(inst), inst.op \in ControlOps
    PROVE  \E n \in Nat : LengthControl(inst) = 1 + n /\ Takes(inst, EncodeControl(inst), n)
<1>1. CASE inst.op \in {\h00, \h01, \h05, \h0F, \h19}
  <2>1. LengthControl(inst) = 1 + 0 /\ EncodeControl(inst) = <<>>
    BY <1>1 DEF LengthControl, EncodeControl, IsBlock, Blocks
  <2> QED BY <2>1, TakesNone
<1>2. CASE inst.op \in {\h02, \h03, \h04, \h06}
  <2> DEFINE t == inst.arg.type
  <2>1. LengthControl(inst) = 1 + LengthBlockType(t) /\ EncodeControl(inst) = <<BlockTypeField(t)>>
    BY <1>2 DEF LengthControl, EncodeControl, IsBlock, Blocks
  <2>2. t[1] \in {"number", "typeidx", "object"}
    BY <1>2 DEF InstOK
  <2> HIDE DEF t
  <2>3. CASE t[1] = "number"
    <3>1. LengthBlockType(t) = 1 /\ BlockTypeField(t) = U8(t[2])
      BY <2>3 DEF LengthBlockType, BlockTypeField
    <3> QED BY <2>1, <3>1, TakesByte
  <2>4. CASE t[1] = "typeidx"
    <3>1. LengthBlockType(t) = LengthSLEB(t[2]) /\ BlockTypeField(t) = S(t[2])
      BY <2>4 DEF LengthBlockType, BlockTypeField
    <3>2. LengthSLEB(t[2]) \in Nat
      BY LengthIs
    <3> QED BY <2>1, <3>1, <3>2, TakesNumber
  <2>5. CASE t[1] = "object"
    <3>1. LengthBlockType(t) = LengthSLEB(Index("types", t[2])) /\ BlockTypeField(t) = S(Index("types", t[2]))
      BY <2>5 DEF LengthBlockType, BlockTypeField
    <3>2. LengthSLEB(Index("types", t[2])) \in Nat
      BY LengthIs
    <3> QED BY <2>1, <3>1, <3>2, TakesNumber
  <2> QED BY <2>2, <2>3, <2>4, <2>5
<1>3. CASE inst.op \in {\h07, \h08}
  <2>1. LengthControl(inst) = 1 + LengthIndex(inst, "tag") /\ EncodeControl(inst) = <<IndexField(inst, "tag")>>
    BY <1>3 DEF LengthControl, EncodeControl, IsBlock, Blocks
  <2>2. "tag" \in DOMAIN SpaceOf
    BY DEF SpaceOf
  <2> QED BY <2>1, <2>2, TakesIndex
<1>4. CASE inst.op \in {\h09, \h18}
  <2> DEFINE v == inst.arg.relative_depth
  <2>1. LengthControl(inst) = 1 + LengthULEB(v) /\ EncodeControl(inst) = <<U(v)>>
    BY <1>4 DEF LengthControl, EncodeControl, IsBlock, Blocks
  <2> HIDE DEF v
  <2>2. LengthULEB(v) \in Nat
    BY LengthIs
  <2> QED BY <2>1, <2>2, TakesNumber
<1>5. CASE inst.op \in {\h0C, \h0D}
  <2> DEFINE v == inst.arg.labelidx
  <2>1. LengthControl(inst) = 1 + LengthULEB(v) /\ EncodeControl(inst) = <<U(v)>>
    BY <1>5 DEF LengthControl, EncodeControl, IsBlock, Blocks
  <2> HIDE DEF v
  <2>2. LengthULEB(v) \in Nat
    BY LengthIs
  <2> QED BY <2>1, <2>2, TakesNumber
<1>6. CASE inst.op = \h0E
  <2> DEFINE labels == inst.arg.labels
             fs == [k \in DOMAIN labels |-> U(labels[k])]
             z == SumOf([k \in DOMAIN labels |-> LengthULEB(labels[k])])
             a == Len(labels)
             d == inst.arg.default_br
  <2>1. LengthControl(inst) = 1 + LengthULEB(a) + LengthULEB(d) + z
    BY <1>6 DEF LengthControl, IsBlock, Blocks
  <2>2. EncodeControl(inst) = <<U(a)>> \o fs \o <<U(d)>>
    BY <1>6 DEF EncodeControl, IsBlock, Blocks
  <2>3. z \in Nat /\ Takes(inst, fs, z)
    BY <1>6, TakesLabels DEF InstOK
  <2> HIDE DEF labels, fs, z, a, d
  <2>4. LengthULEB(a) \in Nat /\ LengthULEB(d) \in Nat
    BY LengthIs
  <2>5. Takes(inst, <<U(a)>>, LengthULEB(a)) /\ Takes(inst, <<U(d)>>, LengthULEB(d))
    BY TakesNumber
  <2>6. Takes(inst, <<U(a)>> \o fs, LengthULEB(a) + z)
    BY <2>3, <2>5, TakesConcat
  <2>7. Takes(inst, (<<U(a)>> \o fs) \o <<U(d)>>, (LengthULEB(a) + z) + LengthULEB(d))
    BY <2>5, <2>6, TakesConcat
  <2>8. LengthControl(inst) = 1 + ((LengthULEB(a) + z) + LengthULEB(d)) /\ (LengthULEB(a) + z) + LengthULEB(d) \in Nat
    BY <2>1, <2>3, <2>4
  <2> QED BY <2>2, <2>7, <2>8
<1>7. CASE inst.op = \h10
  <2>1. LengthControl(inst) = 1 + LengthIndex(inst, "func") /\ EncodeControl(inst) = <<IndexField(inst, "func")>>
    BY <1>7 DEF LengthControl, EncodeControl, IsBlock, Blocks
  <2>2. "func" \in DOMAIN SpaceOf
    BY DEF SpaceOf
  <2> QED BY <2>1, <2>2, TakesIndex
<1>8. CASE inst.op = \h11
  <2>1. /\ LengthControl(inst) = 1 + LengthIndex(inst, "type") + LengthIndex(inst, "table")
        /\ EncodeControl(inst) = <<IndexField(inst, "type"), IndexField(inst, "table")>>
    BY <1>8 DEF LengthControl, EncodeControl, IsBlock, Blocks
  <2>2. "type" \in DOMAIN SpaceOf /\ "table" \in DOMAIN SpaceOf
    BY DEF SpaceOf
  <2>3. /\ Takes(inst, <<IndexField(inst, "type")>>, LengthIndex(inst, "type")) /\ LengthIndex(inst, "type") \in Nat
        /\ Takes(inst, <<IndexField(inst, "table")>>, LengthIndex(inst, "table")) /\ LengthIndex(inst, "table") \in Nat
    BY <2>2, TakesIndex
  <2>4. Takes(inst, <<IndexField(inst, "type"), IndexField(inst, "table")>>, LengthIndex(inst, "type") + LengthIndex(inst, "table"))
    BY <2>3, TakesPair
  <2> QED BY <2>1, <2>3, <2>4
<1> QED BY <1>1, <1>2, <1>3, <1>4, <1>5, <1>6, <1>7, <1>8 DEF ControlOps

LEMMA VariableTakes ==
    ASSUME NEW inst, InstOK(inst), inst.op \in VariableOps
    PROVE  \E n \in Nat : LengthVariable(inst) = 1 + n /\ Takes(inst, EncodeVariable(inst), n)
<1>1. CASE inst.op \in {\h0B, \h1A, \h1B, \h1C}
  <2>1. LengthVariable(inst) = 1 + 0 /\ EncodeVariable(inst) = <<>>
    BY <1>1 DEF LengthVariable, EncodeVariable
  <2> QED BY <2>1, TakesNone
<1>2. CASE inst.op \in {\h41, \h42}
  <2> DEFINE v == inst.arg.value
             n == PaddedTo(LengthSLEB(v), PadOf(inst))
  <2>1. LengthVariable(inst) = 1 + n /\ EncodeVariable(inst) = <<RelocS(v)>>
    BY <1>2 DEF LengthVariable, EncodeVariable
  <2>2. n \in Nat
    BY PadIs, LebLength
  <2>3. Takes(inst, <<RelocS(v)>>, n)
    BY TakesPadded
  <2> HIDE DEF v, n
  <2> QED BY <2>1, <2>2, <2>3
<1>3. CASE inst.op = \h43
  <2> DEFINE v == inst.arg.value
  <2>1. LengthVariable(inst) = 1 + 4 /\ EncodeVariable(inst) = <<Raw(v)>>
    BY <1>3 DEF LengthVariable, EncodeVariable
  <2>2. IsSeq(v) /\ Len(v) = 4
    BY <1>3 DEF InstOK
  <2> HIDE DEF v
  <2>3. Takes(inst, <<Raw(v)>>, 4)
    BY <2>2, TakesRaw
  <2> QED BY <2>1, <2>3
<1>4. CASE inst.op = \h44
  <2> DEFINE v == inst.arg.value
  <2>1. LengthVariable(inst) = 1 + 8 /\ EncodeVariable(inst) = <<Raw(v)>>
    BY <1>4 DEF LengthVariable, EncodeVariable
  <2>2. IsSeq(v) /\ Len(v) = 8
    BY <1>4 DEF InstOK
  <2> HIDE DEF v
  <2>3. Takes(inst, <<Raw(v)>>, 8)
    BY <2>2, TakesRaw
  <2> QED BY <2>1, <2>3
<1>5. CASE inst.op \in \h20 .. \h22
  <2>1. LengthVariable(inst) = 1 + LengthIndex(inst, "local") /\ EncodeVariable(inst) = <<IndexField(inst, "local")>>
    BY <1>5 DEF LengthVariable, EncodeVariable
  <2>2. "local" \in DOMAIN SpaceOf
    BY DEF SpaceOf
  <2> QED BY <2>1, <2>2, TakesIndex
<1>6. CASE inst.op \in {\h23, \h24}
  <2>1. LengthVariable(inst) = 1 + LengthIndex(inst, "global") /\ EncodeVariable(inst) = <<IndexField(inst, "global")>>
    BY <1>6 DEF LengthVariable, EncodeVariable
  <2>2. "global" \in DOMAIN SpaceOf
    BY DEF SpaceOf
  <2> QED BY <2>1, <2>2, TakesIndex
<1>7. CASE inst.op \in {\h25, \h26}
  <2>1. LengthVariable(inst) = 1 + LengthIndex(inst, "table") /\ EncodeVariable(inst) = <<IndexField(inst, "table")>>
    BY <1>7 DEF LengthVariable, EncodeVariable
  <2>2. "table" \in DOMAIN SpaceOf
    BY DEF SpaceOf
  <2> QED BY <2>1, <2>2, TakesIndex
<1> QED BY <1>1, <1>2, <1>3, <1>4, <1>5, <1>6, <1>7 DEF VariableOps

\* An alignment and an offset.
LEMMA MemArgIs ==
    ASSUME NEW inst, NEW p \in Nat
    PROVE  LengthMemArg(inst, p) \in Nat
BY LengthIs, LebLength, SMTT(30) DEF LengthMemArg

LEMMA TakesMemArg ==
    ASSUME NEW inst
    PROVE  /\ LengthMemArg(inst, 0) \in Nat /\ LengthMemArg(inst, PadOf(inst)) \in Nat
           /\ Takes(inst, <<U(inst.arg.align), U(inst.arg.offset)>>, LengthMemArg(inst, 0))
           /\ Takes(inst, <<U(inst.arg.align), RelocU(inst.arg.offset)>>, LengthMemArg(inst, PadOf(inst)))
<1> DEFINE a == inst.arg.align
           f == inst.arg.offset
           p == PadOf(inst)
<1>1. /\ LengthMemArg(inst, 0) = LengthULEB(a) + PaddedTo(LengthULEB(f), 0)
      /\ LengthMemArg(inst, p) = LengthULEB(a) + PaddedTo(LengthULEB(f), p)
  BY DEF LengthMemArg
<1>2. p \in Nat
  BY PadIs
<1>3. Takes(inst, <<RelocU(f)>>, PaddedTo(LengthULEB(f), p))
  BY TakesPadded
<1> HIDE DEF a, f, p
<1>4. PaddedTo(LengthULEB(f), 0) = LengthULEB(f) /\ PaddedTo(LengthULEB(f), p) \in Nat
  BY <1>2, LebLength
<1>5. LengthULEB(a) \in Nat /\ LengthULEB(f) \in Nat
  BY LengthIs
<1>6. Takes(inst, <<U(a)>>, LengthULEB(a)) /\ Takes(inst, <<U(f)>>, LengthULEB(f))
  BY TakesNumber
<1>7. Takes(inst, <<U(a), U(f)>>, LengthULEB(a) + LengthULEB(f))
  BY <1>6, TakesPair
<1>8. Takes(inst, <<U(a), RelocU(f)>>, LengthULEB(a) + PaddedTo(LengthULEB(f), p))
  BY <1>3, <1>6, TakesPair
<1>9. /\ LengthMemArg(inst, 0) \in Nat /\ LengthMemArg(inst, p) \in Nat
      /\ Takes(inst, <<U(a), U(f)>>, LengthMemArg(inst, 0))
      /\ Takes(inst, <<U(a), RelocU(f)>>, LengthMemArg(inst, p))
  BY <1>1, <1>4, <1>5, <1>7, <1>8
<1> QED BY <1>9 DEF a, f, p

LEMMA MemoryTakes ==
    ASSUME NEW inst, inst.op \in \h28 .. \h40, LengthMemory(inst) # Throws
    PROVE  /\ \E n \in Nat : LengthMemory(inst) = 1 + n /\ Takes(inst, EncodeMemory(inst), n)
           /\ inst.op \in {\h3F, \h40} => inst.arg.memidx = 0
<1>1. CASE inst.op \in MemoryOps
  <2>1. /\ LengthMemory(inst) = 1 + LengthMemArg(inst, PadOf(inst))
        /\ EncodeMemory(inst) = <<U(inst.arg.align), RelocU(inst.arg.offset)>>
    BY <1>1 DEF LengthMemory, EncodeMemory, MemoryOps
  <2>2. inst.op \notin {\h3F, \h40}
    BY <1>1 DEF MemoryOps
  <2> QED BY <2>1, <2>2, TakesMemArg
<1>2. CASE inst.op \in {\h3F, \h40}
  <2> DEFINE v == inst.arg.memidx
  <2>1. LengthMemory(inst) = IF v # 0 THEN Throws ELSE 2
    BY <1>2 DEF LengthMemory, MemoryOps
  <2>2. EncodeMemory(inst) = <<U8(v)>>
    BY <1>2 DEF EncodeMemory, MemoryOps
  <2>3. v = 0 /\ LengthMemory(inst) = 1 + 1
    BY <2>1
  <2>4. Takes(inst, <<U8(v)>>, 1)
    BY TakesByte
  <2> QED BY <2>2, <2>3, <2>4
<1> QED BY <1>1, <1>2 DEF MemoryOps

LEMMA ReferenceTakes ==
    ASSUME NEW inst, inst.op \in \hD0 .. \hD2
    PROVE  \E n \in Nat : LengthReference(inst) = 1 + n /\ Takes(inst, EncodeReference(inst), n)
<1>1. CASE inst.op = \hD0
  <2> DEFINE v == inst.arg.reftype
  <2>1. LengthReference(inst) = 1 + LengthULEB(v) /\ EncodeReference(inst) = <<U(v)>>
    BY <1>1 DEF LengthReference, EncodeReference
  <2> HIDE DEF v
  <2>2. LengthULEB(v) \in Nat
    BY LengthIs
  <2> QED BY <2>1, <2>2, TakesNumber
<1>2. CASE inst.op = \hD1
  <2>1. LengthReference(inst) = 1 + 0 /\ EncodeReference(inst) = <<>>
    BY <1>2 DEF LengthReference, EncodeReference
  <2> QED BY <2>1, TakesNone
<1>3. CASE inst.op = \hD2
  <2>1. LengthReference(inst) = 1 + LengthIndex(inst, "func") /\ EncodeReference(inst) = <<IndexField(inst, "func")>>
    BY <1>3 DEF LengthReference, EncodeReference
  <2>2. "func" \in DOMAIN SpaceOf
    BY DEF SpaceOf
  <2> QED BY <2>1, <2>2, TakesIndex
<1> QED BY <1>1, <1>2, <1>3

\* An index and a byte, in either order of the text format.
LEMMA TakesIndexByte ==
    ASSUME NEW inst, NEW name \in DOMAIN SpaceOf, NEW v
    PROVE  /\ Takes(inst, <<IndexField(inst, name), U8(v)>>, 1 + LengthIndex(inst, name))
           /\ LengthIndex(inst, name) \in Nat
<1>1. Takes(inst, <<IndexField(inst, name)>>, LengthIndex(inst, name)) /\ LengthIndex(inst, name) \in Nat
  BY TakesIndex
<1>2. Takes(inst, <<U8(v)>>, 1)
  BY TakesByte
<1>3. Takes(inst, <<IndexField(inst, name), U8(v)>>, LengthIndex(inst, name) + 1)
  BY <1>1, <1>2, TakesPair
<1>4. LengthIndex(inst, name) + 1 = 1 + LengthIndex(inst, name)
  BY <1>1
<1> QED BY <1>1, <1>3, <1>4

LEMMA BulkTakes ==
    ASSUME NEW inst, B2(inst.op) \in 0 .. 17
    PROVE  \E n \in Nat : /\ LengthBulk(inst) = 1 + LengthULEB(B2(inst.op)) + n
                          /\ Takes(inst, EncodeBulk(inst), n)
<1> DEFINE sub == B2(inst.op)
<1>1. {"dataSegment", "elem", "table", "table1", "table2"} \subseteq DOMAIN SpaceOf
  BY DEF SpaceOf
<1>2. CASE sub \in 0 .. 7
  <2>1. LengthBulk(inst) = 1 + LengthULEB(sub) + 0 /\ EncodeBulk(inst) = <<>>
    BY <1>2 DEF LengthBulk, EncodeBulk
  <2> HIDE DEF sub
  <2> QED BY <2>1, TakesNone DEF sub
<1>3. CASE sub = 8
  <2>1. /\ LengthBulk(inst) = 1 + LengthULEB(sub) + (1 + LengthIndex(inst, "dataSegment"))
        /\ EncodeBulk(inst) = <<IndexField(inst, "dataSegment"), U8(IndexOfArg(inst, "memory"))>>
    BY <1>3 DEF LengthBulk, EncodeBulk
  <2> HIDE DEF sub
  <2>2. /\ Takes(inst, <<IndexField(inst, "dataSegment"), U8(IndexOfArg(inst, "memory"))>>, 1 + LengthIndex(inst, "dataSegment"))
        /\ LengthIndex(inst, "dataSegment") \in Nat
    BY <1>1, TakesIndexByte
  <2> QED BY <2>1, <2>2 DEF sub
<1>4. CASE sub = 9
  <2>1. /\ LengthBulk(inst) = 1 + LengthULEB(sub) + LengthIndex(inst, "dataSegment")
        /\ EncodeBulk(inst) = <<IndexField(inst, "dataSegment")>>
    BY <1>4 DEF LengthBulk, EncodeBulk
  <2> HIDE DEF sub
  <2> QED BY <1>1, <2>1, TakesIndex DEF sub
<1>5. CASE sub = 10
  <2> DEFINE a == inst.arg.memidx1
             b == inst.arg.memidx2
  <2>1. LengthBulk(inst) = 1 + LengthULEB(sub) + 2 /\ EncodeBulk(inst) = <<U8(a), U8(b)>>
    BY <1>5 DEF LengthBulk, EncodeBulk
  <2> HIDE DEF sub, a, b
  <2>2. Takes(inst, <<U8(a)>>, 1) /\ Takes(inst, <<U8(b)>>, 1)
    BY TakesByte
  <2>3. Takes(inst, <<U8(a), U8(b)>>, 1 + 1)
    BY <2>2, TakesPair
  <2>4. Takes(inst, <<U8(a), U8(b)>>, 2)
    BY <2>3
  <2> QED BY <2>1, <2>4 DEF sub
<1>6. CASE sub = 11
  <2> DEFINE a == inst.arg.memidx
  <2>1. LengthBulk(inst) = 1 + LengthULEB(sub) + 1 /\ EncodeBulk(inst) = <<U8(a)>>
    BY <1>6 DEF LengthBulk, EncodeBulk
  <2> HIDE DEF sub, a
  <2> QED BY <2>1, TakesByte DEF sub
<1>7. CASE sub = 12
  <2>1. /\ LengthBulk(inst) = 1 + LengthULEB(sub) + (1 + LengthIndex(inst, "elem"))
        /\ EncodeBulk(inst) = <<IndexField(inst, "elem"), U8(IndexOfArg(inst, "table"))>>
    BY <1>7 DEF LengthBulk, EncodeBulk
  <2> HIDE DEF sub
  <2>2. /\ Takes(inst, <<IndexField(inst, "elem"), U8(IndexOfArg(inst, "table"))>>, 1 + LengthIndex(inst, "elem"))
        /\ LengthIndex(inst, "elem") \in Nat
    BY <1>1, TakesIndexByte
  <2> QED BY <2>1, <2>2 DEF sub
<1>8. CASE sub = 13
  <2>1. /\ LengthBulk(inst) = 1 + LengthULEB(sub) + LengthIndex(inst, "elem")
        /\ EncodeBulk(inst) = <<IndexField(inst, "elem")>>
    BY <1>8 DEF LengthBulk, EncodeBulk
  <2> HIDE DEF sub
  <2> QED BY <1>1, <2>1, TakesIndex DEF sub
<1>9. CASE sub = 14
  <2>1. /\ LengthBulk(inst) = 1 + LengthULEB(sub) + (LengthIndex(inst, "table1") + LengthIndex(inst, "table2"))
        /\ EncodeBulk(inst) = <<IndexField(inst, "table1"), IndexField(inst, "table2")>>
    BY <1>9 DEF LengthBulk, EncodeBulk
  <2> HIDE DEF sub
  <2>2. /\ Takes(inst, <<IndexField(inst, "table1")>>, LengthIndex(inst, "table1")) /\ LengthIndex(inst, "table1") \in Nat
        /\ Takes(inst, <<IndexField(inst, "table2")>>, LengthIndex(inst, "table2")) /\ LengthIndex(inst, "table2") \in Nat
    BY <1>1, TakesIndex
  <2>3. Takes(inst, <<IndexField(inst, "table1"), IndexField(inst, "table2")>>, LengthIndex(inst, "table1") + LengthIndex(inst, "table2"))
    BY <2>2, TakesPair
  <2> QED BY <2>1, <2>2, <2>3 DEF sub
<1>10. CASE sub \in 15 .. 17
  <2>1. LengthBulk(inst) = 1 + LengthULEB(sub) + LengthIndex(inst, "table") /\ EncodeBulk(inst) = <<IndexField(inst, "table")>>
    BY <1>10 DEF LengthBulk, EncodeBulk
  <2> HIDE DEF sub
  <2> QED BY <1>1, <2>1, TakesIndex DEF sub
<1>11. sub \in 0 .. 7 \/ sub \in {8, 9, 10, 11, 12, 13, 14} \/ sub \in 15 .. 17
  OBVIOUS
<1> QED BY <1>2, <1>3, <1>4, <1>5, <1>6, <1>7, <1>8, <1>9, <1>10, <1>11

LEMMA AtomicTakes ==
    ASSUME NEW inst, B2(inst.op) \in 0 .. 255, LengthAtomic(inst) # Throws
    PROVE  /\ \E n \in Nat : /\ LengthAtomic(inst) = 1 + LengthULEB(B2(inst.op)) + n
                             /\ Takes(inst, EncodeAtomic(inst), n)
           /\ B2(inst.op) \in 0 .. 3 \cup \h10 .. \h4E
           /\ B2(inst.op) = 3 => inst.arg.memidx = 0
<1> DEFINE sub == B2(inst.op)
<1>1. CASE sub \in 0 .. 2
  <2>1. /\ LengthAtomic(inst) = 1 + LengthULEB(sub) + LengthMemArg(inst, 0)
        /\ EncodeAtomic(inst) = <<U(inst.arg.align), U(inst.arg.offset)>>
    BY <1>1 DEF LengthAtomic, EncodeAtomic
  <2>2. sub # 3 /\ sub \in 0 .. 3
    BY <1>1
  <2> HIDE DEF sub
  <2> QED BY <2>1, <2>2, TakesMemArg DEF sub
<1>2. CASE sub = 3
  <2> DEFINE v == inst.arg.memidx
  <2>1. LengthAtomic(inst) = IF "memidx" \notin DOMAIN inst.arg \/ v # 0 THEN Throws ELSE 2 + LengthULEB(sub)
    BY <1>2 DEF LengthAtomic
  <2>2. EncodeAtomic(inst) = <<U8(v)>>
    BY <1>2 DEF EncodeAtomic
  <2>3. v = 0 /\ LengthAtomic(inst) = 2 + LengthULEB(sub)
    BY <2>1
  <2>4. 2 + LengthULEB(sub) = 1 + LengthULEB(sub) + 1
    <3> HIDE DEF sub
    <3> QED BY LengthIs
  <2>5. Takes(inst, <<U8(v)>>, 1)
    BY TakesByte
  <2>6. LengthAtomic(inst) = 1 + LengthULEB(sub) + 1 /\ Takes(inst, EncodeAtomic(inst), 1)
    BY <2>2, <2>3, <2>4, <2>5
  <2>7. sub \in 0 .. 3
    BY <1>2
  <2> QED BY <2>3, <2>6, <2>7
<1>3. CASE sub \in \h10 .. \h4E
  <2>1. /\ LengthAtomic(inst) = 1 + LengthULEB(sub) + LengthMemArg(inst, PadOf(inst))
        /\ EncodeAtomic(inst) = <<U(inst.arg.align), RelocU(inst.arg.offset)>>
    BY <1>3 DEF LengthAtomic, EncodeAtomic
  <2>2. sub # 3 /\ sub \in \h10 .. \h4E
    BY <1>3
  <2> HIDE DEF sub
  <2> QED BY <2>1, <2>2, TakesMemArg DEF sub
<1>4. CASE sub \notin 0 .. 2 /\ sub # 3 /\ sub \notin \h10 .. \h4E
  <2>1. LengthAtomic(inst) = Throws
    BY <1>4 DEF LengthAtomic
  <2> QED BY <2>1
<1> QED BY <1>1, <1>2, <1>3, <1>4

-----------------------------------------------------------------------------
(* One instruction *)

LEMMA PrefixIs ==
    ASSUME NEW op
    PROVE  /\ op \in 0 .. \hFB => op \in Int /\ op <= \hFF /\ B1(op) = op
           /\ op \in \hFC00 .. \hFEFF => /\ op \in Int /\ op > \hFF
                                         /\ B1(op) \in {\hFC, \hFD, \hFE} /\ B2(op) \in 0 .. 255
                                         /\ op = 256 * B1(op) + B2(op)
<1>1. op \in 0 .. \hFB => op \in Int /\ op <= \hFF /\ B1(op) = op
  BY DEF B1
<1>2. op \in \hFC00 .. \hFEFF => /\ op \in Int /\ op > \hFF
                                 /\ B1(op) \in {\hFC, \hFD, \hFE} /\ B2(op) \in 0 .. 255
                                 /\ op = 256 * B1(op) + B2(op)
  BY DEF B1, B2
<1> QED BY <1>1, <1>2

\* The bytes of an instruction, when the opcode takes m of them and the operands n.
LEMMA WrittenTakes ==
    ASSUME NEW inst, NEW fs, Written(inst) = Opcode(inst.op) \o fs,
           NEW m, NEW n, Takes(inst, Opcode(inst.op), m), Takes(inst, fs, n)
    PROVE  IsSeq(BytesOf(inst)) /\ Len(BytesOf(inst)) = m + n
<1>1. Takes(inst, Written(inst), m + n)
  BY TakesConcat
<1> QED BY <1>1, TakesBytes

\* An opcode of one byte.
LEMMA ShortTakes ==
    ASSUME NEW inst, InstOK(inst), inst.op \in 0 .. \hFB, LengthOf(inst) # Throws
    PROVE  /\ LengthOf(inst) \in Nat
           /\ IsSeq(BytesOf(inst)) /\ Len(BytesOf(inst)) = LengthOf(inst)
           /\ inst.op \in {\h3F, \h40} => inst.arg.memidx = 0
<1> DEFINE op == inst.op
<1>1. B1(op) = op /\ op \in Int /\ op \notin {\hFC, \hFD, \hFE}
  BY PrefixIs
<1>2. Takes(inst, Opcode(op), 1)
  BY <1>1, TakesOpcode, PrefixIs
<1>3. ~(Missing(inst) /\ "local" \notin DOMAIN inst.arg)
  BY DEF LengthOf
<1>4. ASSUME NEW fs, Written(inst) = Opcode(op) \o fs, \E n \in Nat : LengthOf(inst) = 1 + n /\ Takes(inst, fs, n)
      PROVE  LengthOf(inst) \in Nat /\ IsSeq(BytesOf(inst)) /\ Len(BytesOf(inst)) = LengthOf(inst)
  <2>1. PICK n \in Nat : LengthOf(inst) = 1 + n /\ Takes(inst, fs, n)
    BY <1>4
  <2>2. IsSeq(BytesOf(inst)) /\ Len(BytesOf(inst)) = 1 + n
    BY <1>2, <1>4, <2>1, WrittenTakes
  <2> QED BY <2>1, <2>2
<1> DEFINE c == Opcode(op) \o EncodeControl(inst)
           v == Opcode(op) \o EncodeVariable(inst)
           m == Opcode(op) \o EncodeMemory(inst)
           n1 == Opcode(op) \o EncodeNumeric(inst)
           r == Opcode(op) \o EncodeReference(inst)
           x == IF B2(op) > 17 THEN <<>> ELSE Opcode(op) \o EncodeBulk(inst)
           y == IF B2(op) \in SimdMemory THEN Opcode(op) \o EncodeSimd(inst) ELSE <<>>
           z == Opcode(op) \o EncodeAtomic(inst)
<1>11. Written(inst) =
         CASE B1(op) \in ControlOps -> c
           [] B1(op) \in VariableOps -> v
           [] B1(op) \in \h28 .. \h40 -> m
           [] B1(op) \in Numerics -> n1
           [] B1(op) \in \hD0 .. \hD2 -> r
           [] B1(op) = \hFC -> x
           [] B1(op) = \hFD -> y
           [] B1(op) = \hFE -> z
  BY DEF Written
<1> HIDE DEF c, v, m, n1, r, x, y, z
<1>5. CASE op \in ControlOps
  <2>0. op \notin VariableOps /\ op \notin \h28 .. \h40 /\ op \notin Numerics /\ op \notin \hD0 .. \hD2
    BY <1>5 DEF ControlOps, VariableOps, Numerics
  <2>1. LengthOf(inst) = LengthControl(inst)
    BY <1>1, <1>3, <1>5, <2>0 DEF LengthOf
  <2>4. Written(inst) = Opcode(op) \o EncodeControl(inst)
    <3>1. Written(inst) = c
      BY <1>1, <1>5, <2>0, <1>11
    <3> QED BY <3>1 DEF c
  <2>2. \E n \in Nat : LengthControl(inst) = 1 + n /\ Takes(inst, EncodeControl(inst), n)
    BY <1>5, ControlTakes
  <2>3. op \notin {\h3F, \h40}
    BY <1>5 DEF ControlOps
  <2> QED BY <2>1, <2>2, <2>3, <2>4, <1>4
<1>6. CASE op \in VariableOps
  <2>0. op \notin ControlOps /\ op \notin \h28 .. \h40 /\ op \notin Numerics /\ op \notin \hD0 .. \hD2
    BY <1>6 DEF ControlOps, VariableOps, Numerics
  <2>1. LengthOf(inst) = LengthVariable(inst)
    BY <1>1, <1>3, <1>6, <2>0 DEF LengthOf
  <2>4. Written(inst) = Opcode(op) \o EncodeVariable(inst)
    <3>1. Written(inst) = v
      BY <1>1, <1>6, <2>0, <1>11
    <3> QED BY <3>1 DEF v
  <2>2. \E n \in Nat : LengthVariable(inst) = 1 + n /\ Takes(inst, EncodeVariable(inst), n)
    BY <1>6, VariableTakes
  <2>3. op \notin {\h3F, \h40}
    BY <1>6 DEF VariableOps
  <2> QED BY <2>1, <2>2, <2>3, <2>4, <1>4
<1>7. CASE op \in \h28 .. \h40
  <2>0. op \notin ControlOps /\ op \notin VariableOps /\ op \notin Numerics /\ op \notin \hD0 .. \hD2
    BY <1>7 DEF ControlOps, VariableOps, Numerics
  <2>1. LengthOf(inst) = LengthMemory(inst)
    BY <1>1, <1>3, <1>7, <2>0 DEF LengthOf
  <2>4. Written(inst) = Opcode(op) \o EncodeMemory(inst)
    <3>1. Written(inst) = m
      BY <1>1, <1>7, <2>0, <1>11
    <3> QED BY <3>1 DEF m
  <2>2. /\ \E n \in Nat : LengthMemory(inst) = 1 + n /\ Takes(inst, EncodeMemory(inst), n)
        /\ op \in {\h3F, \h40} => inst.arg.memidx = 0
    BY <1>7, <2>1, MemoryTakes
  <2> QED BY <2>1, <2>2, <2>4, <1>4
<1>8. CASE op \in Numerics
  <2>0. op \notin ControlOps /\ op \notin VariableOps /\ op \notin \h28 .. \h40 /\ op \notin \hD0 .. \hD2
    BY <1>8 DEF ControlOps, VariableOps, Numerics
  <2>1. LengthOf(inst) = LengthNumeric(inst)
    BY <1>1, <1>3, <1>8, <2>0 DEF LengthOf
  <2>4. Written(inst) = Opcode(op) \o EncodeNumeric(inst)
    <3>1. Written(inst) = n1
      BY <1>1, <1>8, <2>0, <1>11
    <3> QED BY <3>1 DEF n1
  <2>2. LengthNumeric(inst) = 1 + 0 /\ Takes(inst, EncodeNumeric(inst), 0)
    BY TakesNone DEF LengthNumeric, EncodeNumeric
  <2>3. op \notin {\h3F, \h40}
    BY <1>8 DEF Numerics
  <2> QED BY <2>1, <2>2, <2>3, <2>4, <1>4
<1>9. CASE op \in \hD0 .. \hD2
  <2>0. op \notin ControlOps /\ op \notin VariableOps /\ op \notin \h28 .. \h40 /\ op \notin Numerics
    BY <1>9 DEF ControlOps, VariableOps, Numerics
  <2>1. LengthOf(inst) = LengthReference(inst)
    BY <1>1, <1>3, <1>9, <2>0 DEF LengthOf
  <2>4. Written(inst) = Opcode(op) \o EncodeReference(inst)
    <3>1. Written(inst) = r
      BY <1>1, <1>9, <2>0, <1>11
    <3> QED BY <3>1 DEF r
  <2>2. \E n \in Nat : LengthReference(inst) = 1 + n /\ Takes(inst, EncodeReference(inst), n)
    BY <1>9, ReferenceTakes
  <2>3. op \notin {\h3F, \h40}
    BY <1>9
  <2> QED BY <2>1, <2>2, <2>3, <2>4, <1>4
<1>10. CASE op \notin ControlOps /\ op \notin VariableOps /\ op \notin \h28 .. \h40 /\ op \notin Numerics /\ op \notin \hD0 .. \hD2
  <2>1. LengthOf(inst) = Throws
    BY <1>1, <1>10 DEF LengthOf
  <2> QED BY <2>1
<1> QED BY <1>5, <1>6, <1>7, <1>8, <1>9, <1>10

\* An opcode of two bytes.
LEMMA LongTakes ==
    ASSUME NEW inst, inst.op \in \hFC00 .. \hFEFF, ~IsSimd(inst), LengthOf(inst) # Throws
    PROVE  /\ LengthOf(inst) \in Nat
           /\ IsSeq(BytesOf(inst)) /\ Len(BytesOf(inst)) = LengthOf(inst)
           /\ inst.op = \hFE03 => inst.arg.memidx = 0
           /\ B1(inst.op) = \hFE => B2(inst.op) \in 0 .. 3 \cup \h10 .. \h4E
<1> DEFINE op == inst.op
           sub == B2(op)
<1>1. B1(op) \in {\hFC, \hFE} /\ sub \in 0 .. 255 /\ op \in Int /\ op > \hFF /\ op = 256 * B1(op) + sub
  BY PrefixIs DEF IsSimd
<1>2. Takes(inst, Opcode(op), 1 + LengthULEB(sub)) /\ LengthULEB(sub) \in Nat
  BY <1>1, TakesOpcode, LengthIs
<1>3. ~(Missing(inst) /\ "local" \notin DOMAIN inst.arg)
  BY DEF LengthOf
<1>4. ASSUME NEW fs, Written(inst) = Opcode(op) \o fs,
             \E n \in Nat : LengthOf(inst) = 1 + LengthULEB(sub) + n /\ Takes(inst, fs, n)
      PROVE  LengthOf(inst) \in Nat /\ IsSeq(BytesOf(inst)) /\ Len(BytesOf(inst)) = LengthOf(inst)
  <2>1. PICK n \in Nat : LengthOf(inst) = 1 + LengthULEB(sub) + n /\ Takes(inst, fs, n)
    BY <1>4
  <2>2. IsSeq(BytesOf(inst)) /\ Len(BytesOf(inst)) = (1 + LengthULEB(sub)) + n
    BY <1>2, <1>4, <2>1, WrittenTakes
  <2> QED BY <1>2, <2>1, <2>2
<1>5. CASE B1(op) = \hFC
  <2>1. LengthOf(inst) = LengthBulk(inst)
    BY <1>3, <1>5 DEF LengthOf, ControlOps, VariableOps, Numerics
  <2>2. Written(inst) = IF sub > 17 THEN <<>> ELSE Opcode(op) \o EncodeBulk(inst)
    BY <1>5 DEF Written, ControlOps, VariableOps, Numerics
  <2>3. op # \hFE03
    BY <1>1, <1>5
  <2>4. CASE sub > 17
    <3>1. LengthOf(inst) = 0
      BY <2>1, <2>4 DEF LengthBulk
    <3>2. Takes(inst, Written(inst), 0)
      BY <2>2, <2>4, TakesNone
    <3> QED BY <3>1, <3>2, <2>3, <1>5, TakesBytes
  <2>5. CASE ~(sub > 17)
    <3>1. sub \in 0 .. 17
      BY <1>1, <2>5
    <3>2. \E n \in Nat : LengthBulk(inst) = 1 + LengthULEB(sub) + n /\ Takes(inst, EncodeBulk(inst), n)
      BY <3>1, BulkTakes
    <3>3. Written(inst) = Opcode(op) \o EncodeBulk(inst)
      BY <2>2, <2>5
    <3>4. LengthOf(inst) \in Nat /\ IsSeq(BytesOf(inst)) /\ Len(BytesOf(inst)) = LengthOf(inst)
      <4> HIDE DEF op, sub
      <4>1. PICK fs : fs = EncodeBulk(inst)
        OBVIOUS
      <4>2. Written(inst) = Opcode(op) \o fs
        BY <3>3, <4>1
      <4>3. \E n \in Nat : LengthOf(inst) = 1 + LengthULEB(sub) + n /\ Takes(inst, fs, n)
        BY <2>1, <3>2, <4>1
      <4> QED BY <4>2, <4>3, <1>4
    <3> QED BY <3>4, <2>3, <1>5
  <2> QED BY <2>4, <2>5
<1>6. CASE B1(op) = \hFE
  <2>1. LengthOf(inst) = LengthAtomic(inst) /\ Written(inst) = Opcode(op) \o EncodeAtomic(inst)
    BY <1>3, <1>6 DEF LengthOf, Written, ControlOps, VariableOps, Numerics
  <2>2. /\ \E n \in Nat : LengthAtomic(inst) = 1 + LengthULEB(sub) + n /\ Takes(inst, EncodeAtomic(inst), n)
        /\ sub \in 0 .. 3 \cup \h10 .. \h4E
        /\ sub = 3 => inst.arg.memidx = 0
    BY <1>1, <2>1, AtomicTakes
  <2>3. op = \hFE03 => sub = 3
    BY <1>1, <1>6
  <2>4. LengthOf(inst) \in Nat /\ IsSeq(BytesOf(inst)) /\ Len(BytesOf(inst)) = LengthOf(inst)
    <3> HIDE DEF op, sub
    <3>1. PICK fs : fs = EncodeAtomic(inst)
      OBVIOUS
    <3>2. Written(inst) = Opcode(op) \o fs
      BY <2>1, <3>1
    <3>3. \E n \in Nat : LengthOf(inst) = 1 + LengthULEB(sub) + n /\ Takes(inst, fs, n)
      BY <2>1, <2>2, <3>1
    <3> QED BY <3>2, <3>3, <1>4
  <2> QED BY <2>2, <2>3, <2>4
<1> QED BY <1>1, <1>5, <1>6

\* A vector instruction: that it is let through is all that is said of it.
LEMMA SimdPasses ==
    ASSUME NEW inst, inst.op \in \hFC00 .. \hFEFF, IsSimd(inst), LengthOf(inst) # Throws
    PROVE  LengthOf(inst) \in Nat /\ B2(inst.op) \notin EncodeSimdTodo
<1> DEFINE sub == B2(inst.op)
           simd == IF sub \in SimdMemory THEN 1 + LengthULEB(sub) + LengthMemArg(inst, 0) ELSE 0
<1>1. LengthOf(inst) = LengthSimd(inst)
  BY DEF LengthOf, IsSimd, ControlOps, VariableOps, Numerics
<1>2. LengthSimd(inst) = IF sub \in LengthSimdTodo \/ LengthAtomic(inst) = Throws THEN Throws ELSE simd + LengthAtomic(inst)
  BY DEF LengthSimd
<1>3. sub \notin LengthSimdTodo /\ LengthAtomic(inst) # Throws /\ LengthSimd(inst) = simd + LengthAtomic(inst)
  BY <1>1, <1>2
<1>4. sub \notin EncodeSimdTodo
  BY <1>3 DEF LengthSimdTodo, EncodeSimdTodo
<1>5. sub \in 0 .. 255
  BY PrefixIs
<1>6. LengthAtomic(inst) \in Nat
  <2>1. PICK n \in Nat : LengthAtomic(inst) = 1 + LengthULEB(sub) + n
    BY <1>3, <1>5, AtomicTakes
  <2>2. LengthULEB(sub) \in Nat
    BY LengthIs
  <2> QED BY <2>1, <2>2
<1>7. simd \in Nat
  <2>1. LengthULEB(sub) \in Nat
    BY LengthIs
  <2>2. LengthMemArg(inst, 0) \in Nat
    BY MemArgIs
  <2> QED BY <2>1, <2>2
<1> QED BY <1>1, <1>3, <1>4, <1>6, <1>7

\* What the first walk lets through it measures as the second writes it.
LEMMA InstTakes ==
    ASSUME NEW inst, InstOK(inst), LengthOf(inst) # Throws
    PROVE  /\ LengthOf(inst) \in Nat
           /\ ~IsSimd(inst) => IsSeq(BytesOf(inst)) /\ Len(BytesOf(inst)) = LengthOf(inst)
           /\ EncodeThrows(inst) => "local" \in DOMAIN inst.arg
<1> DEFINE op == inst.op
<1>1. ~(Missing(inst) /\ "local" \notin DOMAIN inst.arg)
  BY DEF LengthOf
<1>2. CASE op \in 0 .. \hFB
  <2>1. /\ LengthOf(inst) \in Nat /\ IsSeq(BytesOf(inst)) /\ Len(BytesOf(inst)) = LengthOf(inst)
        /\ op \in {\h3F, \h40} => inst.arg.memidx = 0
    BY <1>2, ShortTakes
  <2>2. op # \hFE03 /\ B1(op) # \hFD /\ B1(op) # \hFE
    BY <1>2, PrefixIs
  <2>3. EncodeThrows(inst) => Missing(inst)
    BY <2>1, <2>2 DEF EncodeThrows
  <2> QED BY <1>1, <2>1, <2>3
<1>3. CASE op \in \hFC00 .. \hFEFF /\ ~IsSimd(inst)
  <2>1. /\ LengthOf(inst) \in Nat /\ IsSeq(BytesOf(inst)) /\ Len(BytesOf(inst)) = LengthOf(inst)
        /\ op = \hFE03 => inst.arg.memidx = 0
        /\ B1(op) = \hFE => B2(op) \in 0 .. 3 \cup \h10 .. \h4E
    BY <1>3, LongTakes
  <2>2. op \notin {\h3F, \h40} /\ B1(op) # \hFD
    BY <1>3 DEF IsSimd
  <2>3. EncodeThrows(inst) => Missing(inst)
    BY <2>1, <2>2 DEF EncodeThrows
  <2> QED BY <1>1, <2>1, <2>3
<1>4. CASE op \in \hFC00 .. \hFEFF /\ IsSimd(inst)
  <2>1. LengthOf(inst) \in Nat /\ B2(op) \notin EncodeSimdTodo
    BY <1>4, SimdPasses
  <2>2. op \notin {\h3F, \h40} /\ B1(op) = \hFD /\ op # \hFE03
    BY <1>4 DEF IsSimd, B1
  <2>3. EncodeThrows(inst) => Missing(inst)
    BY <2>1, <2>2 DEF EncodeThrows
  <2> QED BY <1>1, <1>4, <2>1, <2>3
<1>5. op \in 0 .. \hFB \/ op \in \hFC00 .. \hFEFF
  BY DEF InstOK
<1> HIDE DEF op
<1> QED BY <1>2, <1>3, <1>4, <1>5

-----------------------------------------------------------------------------
(* The walks *)

\* The lengths of the first n instructions, added up.
Upto(lens, n) == [k \in 1 .. n |-> lens[k]]
Total(lens, n) == SumOf(Upto(lens, n))

LEMMA NextTotal ==
    ASSUME NEW lens, NEW n \in Nat, \A k \in 1 .. n : lens[k] \in Nat
    PROVE  /\ Total(lens, 0) = 0
           /\ Total(lens, n) \in Nat
           /\ lens[n + 1] \in Nat => Total(lens, n + 1) = Total(lens, n) + lens[n + 1]
<1>1. Total(lens, 0) = 0
  <2>1. Upto(lens, 0) = <<>>
    BY DEF Upto
  <2> QED BY <2>1, SumEmpty DEF Total
<1> DEFINE a == Upto(lens, n)
           b == Upto(lens, n + 1)
<1>2. a \in Seq(Nat) /\ Len(a) = n /\ \A k \in 1 .. n : a[k] = lens[k]
  <2>1. DOMAIN a = 1 .. n /\ a = [k \in 1 .. n |-> a[k]] /\ \A k \in 1 .. n : a[k] \in Nat /\ a[k] = lens[k]
    BY DEF Upto
  <2> HIDE DEF a
  <2> QED BY <2>1, IntSeq
<1>3. Total(lens, n) \in Nat
  BY <1>2, SumOfNat DEF Total
<1>4. ASSUME lens[n + 1] \in Nat PROVE Total(lens, n + 1) = Total(lens, n) + lens[n + 1]
  <2> DEFINE e == lens[n + 1]
  <2>1. \A k \in 1 .. n + 1 : lens[k] \in Nat
    <3>1. ASSUME NEW k \in 1 .. n + 1 PROVE k \in 1 .. n \/ k = n + 1
      OBVIOUS
    <3> QED BY <3>1, <1>4
  <2>2. b \in Seq(Nat) /\ Len(b) = n + 1 /\ \A k \in 1 .. n + 1 : b[k] = lens[k]
    <3>1. DOMAIN b = 1 .. n + 1 /\ b = [k \in 1 .. n + 1 |-> b[k]] /\ \A k \in 1 .. n + 1 : b[k] \in Nat /\ b[k] = lens[k]
      BY <2>1 DEF Upto
    <3> HIDE DEF b
    <3> QED BY <3>1, IntSeq
  <2> HIDE DEF a, b, e
  <2>3. <<e>> \in Seq(Nat) /\ Len(<<e>>) = 1 /\ <<e>>[1] = e
    BY <1>4 DEF e
  <2>4. /\ a \o <<e>> \in Seq(Nat) /\ Len(a \o <<e>>) = n + 1
        /\ \A k \in 1 .. n + 1 : (a \o <<e>>)[k] = IF k <= n THEN a[k] ELSE <<e>>[k - n]
    BY <1>2, <2>3, ConcatProperties
  <2>5. ASSUME NEW k \in 1 .. n + 1 PROVE b[k] = (a \o <<e>>)[k]
    <3>1. CASE k <= n
      <4>1. k \in 1 .. n
        BY <3>1
      <4>2. (a \o <<e>>)[k] = a[k]
        BY <2>4, <3>1
      <4> QED BY <4>1, <4>2, <1>2, <2>2
    <3>2. CASE ~(k <= n)
      <4>1. k = n + 1 /\ k - n = 1
        BY <3>2
      <4> QED BY <3>2, <4>1, <2>2, <2>3, <2>4 DEF e
    <3> QED BY <3>1, <3>2
  <2>6. b = a \o <<e>>
    <3> DEFINE c == a \o <<e>>
    <3>1. c \in Seq(Nat) /\ Len(c) = Len(b) /\ \A k \in 1 .. Len(b) : b[k] = c[k]
      BY <2>2, <2>4, <2>5
    <3> HIDE DEF c
    <3>2. b = c
      BY <2>2, <3>1, SeqEqual
    <3> QED BY <3>2 DEF c
  <2>7. SumOf(b) = SumOf(a) + SumOf(<<e>>)
    <3>1. a \in Seq(Int) /\ <<e>> \in Seq(Int)
      BY <1>2, <2>3
    <3> QED BY <3>1, <2>6, SumConcat
  <2>8. SumOf(<<e>>) = e
    BY <1>4, SumOne DEF e
  <2> QED BY <2>7, <2>8 DEF Total, a, b, e
<1> QED BY <1>1, <1>3, <1>4

LEMMA LengthSame ==
    ASSUME NEW inst, relocatable' = relocatable
    PROVE  LengthOf(inst)' = LengthOf(inst)
BY DEF LengthOf, LengthSimd, LengthMemory, LengthVariable, LengthAtomic, LengthMemArg, PadOf

\* A body of our own: not empty, and each instruction as InstOK says.
LEMMA CodeIs ==
    ASSUME NEW b \in Codes
    PROVE  /\ Len(b) \in Nat \ {0} /\ DOMAIN b = 1 .. Len(b)
           /\ \A k \in DOMAIN b : InstOK(b[k])
<1>1. b \in Seq(Range(b)) /\ b # <<>>
  BY BodiesAssumption
<1>2. Len(b) \in Nat /\ DOMAIN b = 1 .. Len(b)
  BY <1>1, SeqIsSeq, IsSeqLen
<1>3. Len(b) # 0
  BY <1>1, EmptySeq
<1>4. ASSUME NEW k \in DOMAIN b PROVE InstOK(b[k])
  <2> DEFINE inst == b[k]
  <2>1. /\ inst.op \in 0 .. \hFB \cup \hFC00 .. \hFEFF
        /\ inst.op \in {\h02, \h03, \h04, \h06} => inst.arg.type[1] \in {"number", "typeidx", "object"}
        /\ inst.op = \h0E => inst.arg.labels \in Seq(Range(inst.arg.labels))
        /\ inst.op \in {\h43, \h44} => inst.arg.value \in Seq(Range(inst.arg.value))
        /\ inst.op = \h43 => Len(inst.arg.value) = 4
        /\ inst.op = \h44 => Len(inst.arg.value) = 8
    BY BodiesAssumption
  <2> HIDE DEF inst
  <2>2. inst.op = \h0E => IsSeq(inst.arg.labels)
    BY <2>1, SeqIsSeq
  <2>3. inst.op \in {\h43, \h44} => IsSeq(inst.arg.value)
    BY <2>1, SeqIsSeq
  <2>4. InstOK(inst)
    BY <2>1, <2>2, <2>3 DEF InstOK
  <2> QED BY <2>4 DEF inst
<1> QED BY <1>2, <1>3, <1>4

LEMMA BodyIs ==
    ASSUME NEW b \in Bodies
    PROVE  /\ b \in Codes /\ Len(b) \in Nat \ {0} /\ DOMAIN b = 1 .. Len(b)
           /\ \A k \in DOMAIN b : InstOK(b[k])
<1>1. b \in Codes
  BY DEF Codes
<1> QED BY <1>1, CodeIs

NoSimd(b) == \A k \in DOMAIN b : ~IsSimd(b[k])
\* The first walk is in the middle of a body b of the lengths lens, ...
Measuring(b, lens) ==
    /\ b \in Bodies /\ i \in DOMAIN b /\ DOMAIN lens = DOMAIN b
    /\ \A k \in DOMAIN b : lens[k] = LengthOf(b[k])
    /\ \A k \in 1 .. i - 1 : lens[k] # Throws
    /\ predicted = Total(lens, i - 1) /\ data = <<>>
\* ... or the second is: it has written as much as the first has measured by then.
Writing(b, lens) ==
    /\ b \in Bodies /\ i \in DOMAIN b /\ DOMAIN lens = DOMAIN b
    /\ \A k \in DOMAIN b : lens[k] = LengthOf(b[k]) /\ lens[k] # Throws
    /\ predicted = Total(lens, Len(b))
    /\ NoSimd(b) => IsSeq(data) /\ Len(data) = Total(lens, i - 1)
Walking(b, lens) ==
    /\ b = body
    /\ phase = "length" => Measuring(b, lens)
    /\ phase = "encode" => Writing(b, lens)
    /\ phase = "encode threw" => "local" \in DOMAIN b[i].arg
    /\ phase \in {"decode", "done", "decode threw"} /\ predicted > 0 /\ NoSimd(b) => Len(data) = predicted

\* The inductive invariant of WrittenAsMeasuredButLocals.
MeasuredInv == \E b, lens : Walking(b, lens)

LEMMA MeasuredInit ==
    ASSUME Init
    PROVE  MeasuredInv
<1>1. i = 1 /\ predicted = 0
  BY DEF Init
<1> PICK b : b = body
  OBVIOUS
<1> DEFINE lens == [k \in DOMAIN b |-> LengthOf(b[k])]
<1>2. CASE body \in Bodies /\ phase = "length" /\ data = <<>>
  <2>1. Len(b) \in Nat \ {0} /\ DOMAIN b = 1 .. Len(b)
    BY <1>2, BodyIs
  <2>2. i \in DOMAIN b /\ i - 1 = 0
    BY <1>1, <2>1
  <2>3. DOMAIN lens = DOMAIN b /\ \A k \in DOMAIN b : lens[k] = LengthOf(b[k])
    OBVIOUS
  <2> HIDE DEF lens
  <2>4. Total(lens, 0) = 0
    BY NextTotal
  <2>5. Measuring(b, lens)
    <3>1. \A k \in 1 .. i - 1 : lens[k] # Throws
      BY <2>2
    <3>2. predicted = Total(lens, i - 1)
      BY <1>1, <2>2, <2>4
    <3> QED BY <1>2, <2>2, <2>3, <3>1, <3>2 DEF Measuring
  <2>6. Walking(b, lens)
    BY <1>2, <2>5 DEF Walking
  <2> QED BY <2>6 DEF MeasuredInv
<1>3. CASE phase = "decode"
  <2> HIDE DEF lens
  <2>1. Walking(b, lens)
    BY <1>1, <1>3 DEF Walking
  <2> QED BY <2>1 DEF MeasuredInv
<1> QED BY <1>2, <1>3 DEF Init

LEMMA MeasureStep ==
    ASSUME NEW b, NEW lens, Walking(b, lens), Measure
    PROVE  Walking(b, lens)'
<1>1. phase = "length" /\ b = body /\ Measuring(b, lens)
  BY DEF Walking, Measure
<1>2. body' = body /\ relocatable' = relocatable /\ data' = data
  BY DEF Measure
<1>3. b \in Bodies /\ i \in DOMAIN b /\ DOMAIN lens = DOMAIN b
  BY <1>1 DEF Measuring
<1>4. Len(b) \in Nat \ {0} /\ DOMAIN b = 1 .. Len(b) /\ \A k \in DOMAIN b : InstOK(b[k])
  BY <1>3, BodyIs
<1>5. /\ \A k \in DOMAIN b : lens[k] = LengthOf(b[k]) /\ lens[k] = LengthOf(b[k])'
      /\ \A k \in 1 .. i - 1 : lens[k] # Throws
      /\ predicted = Total(lens, i - 1) /\ data = <<>>
  <2>1. \A k \in DOMAIN b : LengthOf(b[k])' = LengthOf(b[k])
    BY <1>2, LengthSame
  <2> QED BY <1>1, <2>1 DEF Measuring
<1>6. i \in Nat \ {0} /\ i <= Len(b) /\ i - 1 \in Nat /\ (i - 1) + 1 = i
  BY <1>3, <1>4
<1>7. \A k \in 1 .. i - 1 : lens[k] \in Nat
  <2>1. ASSUME NEW k \in 1 .. i - 1 PROVE lens[k] \in Nat
    <3>1. k \in DOMAIN b /\ lens[k] # Throws /\ lens[k] = LengthOf(b[k])
      BY <1>4, <1>5, <1>6
    <3> QED BY <3>1, <1>4, InstTakes
  <2> QED BY <2>1
<1> DEFINE n == LengthOf(body[i])
<1>8. n = lens[i]
  BY <1>1, <1>3, <1>5
<1>9. CASE n = Throws
  <2>1. phase' = "length threw"
    BY <1>9 DEF Measure
  <2>2. phase' # "length" /\ phase' # "encode" /\ phase' # "encode threw" /\ phase' \notin {"decode", "done", "decode threw"}
    BY <2>1
  <2> QED BY <1>1, <1>2, <2>2 DEF Walking
<1>10. CASE n # Throws
  <2>1. predicted' = predicted + lens[i] /\ Advance("encode")
    BY <1>8, <1>10 DEF Measure
  <2> HIDE DEF n
  <2>2. lens[i] \in Nat /\ lens[i] # Throws
    <3>1. i \in DOMAIN b /\ lens[i] = LengthOf(b[i]) /\ InstOK(b[i]) /\ lens[i] # Throws
      BY <1>3, <1>4, <1>5, <1>8, <1>10
    <3> QED BY <3>1, InstTakes
  <2>3. predicted' = Total(lens, i)
    <3>1. Total(lens, (i - 1) + 1) = Total(lens, i - 1) + lens[(i - 1) + 1]
      BY <1>6, <1>7, <2>2, NextTotal
    <3> QED BY <1>5, <1>6, <2>1, <3>1
  <2>4. CASE i = Len(b)
    <3>1. phase' = "encode" /\ i' = 1
      BY <1>1, <2>1, <2>4 DEF Advance
    <3>2. \A k \in DOMAIN b : lens[k] # Throws
      <4>1. ASSUME NEW k \in DOMAIN b PROVE k \in 1 .. i - 1 \/ k = i
        BY <1>4, <1>6, <2>4
      <4> QED BY <4>1, <1>5, <2>2
    <3>3. 1 \in DOMAIN b /\ Total(lens, 1 - 1) = 0 /\ IsSeq(<<>>) /\ Len(<<>>) = 0
      <4>1. Total(lens, 0) = 0
        BY NextTotal
      <4> QED BY <1>4, <4>1, EmptyIsSeq
    <3>4. i' \in DOMAIN b /\ IsSeq(data') /\ Len(data') = Total(lens, i' - 1)
      BY <1>2, <1>5, <3>1, <3>3
    <3>5. Writing(b, lens)'
      BY <1>3, <1>5, <2>3, <2>4, <3>2, <3>4 DEF Writing
    <3>6. phase' # "length" /\ phase' # "encode threw" /\ phase' \notin {"decode", "done", "decode threw"}
      BY <3>1
    <3> QED BY <1>1, <1>2, <3>5, <3>6 DEF Walking
  <2>5. CASE i # Len(b)
    <3>1. phase' = "length" /\ i' = i + 1
      BY <1>1, <2>1, <2>5 DEF Advance
    <3>2. i' \in DOMAIN b /\ i' - 1 = i
      <4>1. i + 1 \in 1 .. Len(b) /\ (i + 1) - 1 = i
        <5>1. Len(b) \in Nat
          BY <1>4
        <5> QED BY <5>1, <1>6, <2>5
      <4>2. DOMAIN b = 1 .. Len(b)
        BY <1>4
      <4> QED BY <4>1, <4>2, <3>1
    <3>3. \A k \in 1 .. i' - 1 : lens[k] # Throws
      <4>1. ASSUME NEW k \in 1 .. i' - 1 PROVE k \in 1 .. i - 1 \/ k = i
        BY <1>6, <3>2
      <4> QED BY <4>1, <1>5, <2>2
    <3>4. predicted' = Total(lens, i' - 1) /\ data' = <<>>
      BY <1>2, <1>5, <2>3, <3>2
    <3>5. Measuring(b, lens)'
      BY <1>3, <1>5, <3>2, <3>3, <3>4 DEF Measuring
    <3>6. phase' # "encode" /\ phase' # "encode threw" /\ phase' \notin {"decode", "done", "decode threw"}
      BY <3>1
    <3> QED BY <1>1, <1>2, <3>5, <3>6 DEF Walking
  <2> QED BY <2>4, <2>5
<1> QED BY <1>9, <1>10

LEMMA EncodeStep ==
    ASSUME NEW b, NEW lens, Walking(b, lens), Encode
    PROVE  Walking(b, lens)'
<1>1. phase = "encode" /\ b = body /\ Writing(b, lens)
  BY DEF Walking, Encode
<1>2. body' = body /\ relocatable' = relocatable /\ predicted' = predicted
  BY DEF Encode
<1>3. b \in Bodies /\ i \in DOMAIN b /\ DOMAIN lens = DOMAIN b
  BY <1>1 DEF Writing
<1>4. Len(b) \in Nat \ {0} /\ DOMAIN b = 1 .. Len(b) /\ \A k \in DOMAIN b : InstOK(b[k])
  BY <1>3, BodyIs
<1>5. /\ \A k \in DOMAIN b : lens[k] = LengthOf(b[k]) /\ lens[k] = LengthOf(b[k])' /\ lens[k] # Throws
      /\ predicted = Total(lens, Len(b))
      /\ NoSimd(b) => IsSeq(data) /\ Len(data) = Total(lens, i - 1)
  <2>1. \A k \in DOMAIN b : LengthOf(b[k])' = LengthOf(b[k])
    BY <1>2, LengthSame
  <2> QED BY <1>1, <2>1 DEF Writing
<1>6. i \in Nat \ {0} /\ i <= Len(b) /\ i - 1 \in Nat /\ (i - 1) + 1 = i
  BY <1>3, <1>4
<1>7. \A k \in DOMAIN b : lens[k] \in Nat
  <2>1. ASSUME NEW k \in DOMAIN b PROVE lens[k] \in Nat
    <3>1. InstOK(b[k]) /\ LengthOf(b[k]) # Throws /\ lens[k] = LengthOf(b[k])
      BY <1>4, <1>5
    <3> QED BY <3>1, InstTakes
  <2> QED BY <2>1
<1> PICK inst : inst = body[i]
  OBVIOUS
<1>8. inst = b[i] /\ InstOK(inst) /\ LengthOf(inst) # Throws /\ lens[i] = LengthOf(inst)
  BY <1>1, <1>3, <1>4, <1>5
<1>9. CASE EncodeThrows(inst)
  <2>1. phase' = "encode threw" /\ i' = i
    BY <1>9 DEF Encode
  <2>2. "local" \in DOMAIN b[i'].arg
    BY <1>8, <1>9, <2>1, InstTakes
  <2>3. phase' # "length" /\ phase' # "encode" /\ phase' \notin {"decode", "done", "decode threw"}
    BY <2>1
  <2> QED BY <1>1, <1>2, <2>2, <2>3 DEF Walking
<1>10. CASE ~EncodeThrows(inst)
  <2>1. data' = data \o BytesOf(inst) /\ Advance("decode")
    BY <1>10 DEF Encode
  <2>2. NoSimd(b) => IsSeq(data') /\ Len(data') = Total(lens, i)
    <3> SUFFICES ASSUME NoSimd(b) PROVE IsSeq(data') /\ Len(data') = Total(lens, i)
      OBVIOUS
    <3>1. ~IsSimd(inst)
      BY <1>3, <1>8 DEF NoSimd
    <3>2. IsSeq(BytesOf(inst)) /\ Len(BytesOf(inst)) = lens[i]
      BY <1>8, <3>1, InstTakes
    <3>3. IsSeq(data) /\ Len(data) = Total(lens, i - 1)
      BY <1>5
    <3>4. IsSeq(data') /\ Len(data') = Total(lens, i - 1) + lens[i]
      BY <2>1, <3>2, <3>3, ConcatIsSeq, ZenonT(40)
    <3>5. Total(lens, (i - 1) + 1) = Total(lens, i - 1) + lens[(i - 1) + 1]
      <4>1. \A k \in 1 .. i - 1 : lens[k] \in Nat
        BY <1>4, <1>6, <1>7
      <4>2. lens[(i - 1) + 1] \in Nat
        BY <1>3, <1>6, <1>7
      <4> QED BY <1>6, <4>1, <4>2, NextTotal
    <3> QED BY <1>6, <3>4, <3>5
  <2>3. CASE i = Len(b)
    <3>1. phase' = "decode"
      BY <1>1, <2>1, <2>3 DEF Advance
    <3>2. NoSimd(b) => Len(data') = predicted'
      BY <1>2, <1>5, <2>2, <2>3
    <3>3. phase' # "length" /\ phase' # "encode" /\ phase' # "encode threw"
      BY <3>1
    <3> QED BY <1>1, <1>2, <3>2, <3>3 DEF Walking, NoSimd
  <2>4. CASE i # Len(b)
    <3>1. phase' = "encode" /\ i' = i + 1
      BY <1>1, <2>1, <2>4 DEF Advance
    <3>2. i' \in DOMAIN b /\ i' - 1 = i
      <4>1. i + 1 \in 1 .. Len(b) /\ (i + 1) - 1 = i
        <5>1. Len(b) \in Nat
          BY <1>4
        <5> QED BY <5>1, <1>6, <2>4
      <4>2. DOMAIN b = 1 .. Len(b)
        BY <1>4
      <4> QED BY <4>1, <4>2, <3>1
    <3>3. NoSimd(b) => IsSeq(data') /\ Len(data') = Total(lens, i' - 1)
      BY <2>2, <3>2
    <3>4. Writing(b, lens)'
      BY <1>2, <1>3, <1>5, <3>2, <3>3 DEF Writing, NoSimd
    <3>5. phase' # "length" /\ phase' # "encode threw" /\ phase' \notin {"decode", "done", "decode threw"}
      BY <3>1
    <3> QED BY <1>1, <1>2, <3>4, <3>5 DEF Walking
  <2> QED BY <2>3, <2>4
<1> QED BY <1>9, <1>10

\* Reading changes neither the bytes nor their number.
LEMMA DecodeStep ==
    ASSUME NEW b, NEW lens, Walking(b, lens), Decode \/ Throw
    PROVE  Walking(b, lens)'
<1>1. phase = "decode" /\ body' = body /\ predicted' = predicted /\ data' = data
  BY DEF Decode, Throw
<1>2. phase' \in {"decode", "done", "decode threw"}
  <2>1. CASE Throw
    BY <2>1 DEF Throw
  <2>2. CASE Decode
    BY <2>2 DEF Decode, DecodeInst
  <2> QED BY <2>1, <2>2
<1>3. b = body /\ (predicted > 0 /\ NoSimd(b) => Len(data) = predicted)
  BY <1>1 DEF Walking
<1>4. phase' # "length" /\ phase' # "encode" /\ phase' # "encode threw"
  BY <1>2
<1> QED BY <1>1, <1>3, <1>4 DEF Walking, NoSimd

LEMMA StutterStep ==
    ASSUME NEW b, NEW lens, Walking(b, lens), UNCHANGED vars
    PROVE  Walking(b, lens)'
<1>1. body' = body /\ relocatable' = relocatable /\ phase' = phase /\ i' = i /\ predicted' = predicted /\ data' = data
  BY DEF vars
<1>2. \A inst : LengthOf(inst)' = LengthOf(inst)
  BY <1>1, LengthSame
<1>3. Measuring(b, lens) => Measuring(b, lens)'
  BY <1>1, <1>2 DEF Measuring
<1>4. Writing(b, lens) => Writing(b, lens)'
  BY <1>1, <1>2 DEF Writing, NoSimd
<1> QED BY <1>1, <1>3, <1>4 DEF Walking, NoSimd

LEMMA MeasuredNext ==
    ASSUME MeasuredInv, [Next]_vars
    PROVE  MeasuredInv'
<1> PICK b, lens : Walking(b, lens)
  BY DEF MeasuredInv
<1>1. Walking(b, lens)'
  BY MeasureStep, EncodeStep, DecodeStep, StutterStep DEF Next, Finished
<1> QED BY <1>1 DEF MeasuredInv

LEMMA MeasuredImplies ==
    ASSUME MeasuredInv
    PROVE  WrittenAsMeasuredButLocals
<1> PICK b, lens : Walking(b, lens)
  BY DEF MeasuredInv
<1>1. b = body
  BY DEF Walking
<1>2. IsWritten /\ (\A k \in DOMAIN body : ~IsSimd(body[k])) => Len(data) = predicted
  BY <1>1 DEF Walking, IsWritten, IsRead, NoSimd
<1>3. phase = "encode threw" => "local" \in DOMAIN body[i].arg
  BY <1>1 DEF Walking
<1> QED BY <1>2, <1>3 DEF WrittenAsMeasuredButLocals

\* The buffer that Module.encode allocates is filled to the last byte, for every
\* body without vector instructions; and encodeByteCode stops in the middle only at
\* an instruction that names a local.
THEOREM WrittenAsMeasuredCorrect == Spec => []WrittenAsMeasuredButLocals
<1>1. Init => MeasuredInv
  BY MeasuredInit
<1>2. MeasuredInv /\ [Next]_vars => MeasuredInv'
  BY MeasuredNext
<1>3. MeasuredInv => WrittenAsMeasuredButLocals
  BY MeasuredImplies
<1> QED BY <1>1, <1>2, <1>3, PTL DEF Spec

-----------------------------------------------------------------------------
(* What is read back *)

\* The bytes from p on are those of s.
At(p, s) ==
    /\ p \in Nat /\ IsSeq(s) /\ Len(data) \in Nat /\ p + Len(s) <= Len(data)
    /\ \A k \in 1 .. Len(s) : data[p + k] = s[k]

LEMMA AtByte ==
    ASSUME NEW p, NEW s, At(p, s), NEW k \in 1 .. Len(s)
    PROVE  ~PastEnd(p + k - 1) /\ ByteAt(p + k - 1) = s[k]
<1>1. p \in Nat /\ Len(s) \in Nat /\ Len(data) \in Nat /\ p + Len(s) <= Len(data) /\ data[p + k] = s[k]
  BY IsSeqLen DEF At
<1>2. p + k - 1 \in Nat /\ p + k - 1 < Len(data) /\ (p + k - 1) + 1 = p + k
  BY <1>1
<1> QED BY <1>1, <1>2 DEF PastEnd, ByteAt

LEMMA AtConcat ==
    ASSUME NEW p, NEW s, IsSeq(s), NEW t, IsSeq(t), At(p, s \o t)
    PROVE  At(p, s) /\ At(p + Len(s), t)
<1>1. /\ Len(s) \in Nat /\ Len(t) \in Nat /\ Len(s \o t) = Len(s) + Len(t)
      /\ \A k \in 1 .. Len(s) + Len(t) : (s \o t)[k] = IF k <= Len(s) THEN s[k] ELSE t[k - Len(s)]
  BY ConcatIsSeq, IsSeqLen
<1>2. /\ p \in Nat /\ Len(data) \in Nat /\ p + Len(s) + Len(t) <= Len(data)
      /\ \A k \in 1 .. Len(s) + Len(t) : data[p + k] = (s \o t)[k]
  BY <1>1 DEF At
<1>3. ASSUME NEW k \in 1 .. Len(s) PROVE data[p + k] = s[k]
  <2>1. k \in 1 .. Len(s) + Len(t) /\ k <= Len(s)
    BY <1>1
  <2> QED BY <2>1, <1>1, <1>2
<1>4. ASSUME NEW k \in 1 .. Len(t) PROVE data[(p + Len(s)) + k] = t[k]
  <2>1. Len(s) + k \in 1 .. Len(s) + Len(t) /\ ~(Len(s) + k <= Len(s)) /\ (Len(s) + k) - Len(s) = k
        /\ p + (Len(s) + k) = (p + Len(s)) + k
    BY <1>1, <1>2
  <2>2. data[p + (Len(s) + k)] = (s \o t)[Len(s) + k]
    BY <2>1, <1>2
  <2>3. (s \o t)[Len(s) + k] = t[k]
    BY <2>1, <1>1
  <2> QED BY <2>1, <2>2, <2>3
<1>5. p + Len(s) \in Nat /\ (p + Len(s)) + Len(t) <= Len(data) /\ p + Len(s) <= Len(data)
  BY <1>1, <1>2
<1> QED BY <1>2, <1>3, <1>4, <1>5 DEF At

\* Of a concatenation of many, each lies behind the ones before it.
LensOf(ss) == [k \in DOMAIN ss |-> Len(ss[k])]
LEMMA AtFlatten ==
    ASSUME NEW ss, IsSeq(ss), \A k \in DOMAIN ss : IsSeq(ss[k]), NEW p, At(p, FlattenSeq(ss)),
           NEW lens, lens = LensOf(ss)
    PROVE  /\ \A k \in DOMAIN ss : At(p + Total(lens, k - 1), ss[k]) /\ lens[k] \in Nat /\ lens[k] = Len(ss[k])
           /\ Len(FlattenSeq(ss)) = Total(lens, Len(ss)) /\ Total(lens, Len(ss)) \in Nat
<1> DEFINE n == Len(ss)
<1>1. n \in Nat /\ DOMAIN ss = 1 .. n
  BY IsSeqLen
<1>2. PICK W : ss \in Seq(Seq(W))
  BY SeqsIn
<1>3. PICK all : /\ all \in [0 .. n -> Seq(W)]
                 /\ all[0] = <<>>
                 /\ \A k \in 1 .. n : all[k] = all[k - 1] \o ss[k]
                 /\ FlattenSeq(ss) = all[n]
  BY <1>2, FlattenSteps
<1>4. \A k \in 1 .. n : lens[k] = Len(ss[k]) /\ lens[k] \in Nat /\ IsSeq(ss[k])
  BY <1>1, IsSeqLen DEF LensOf
<1>5. \A k \in 0 .. n : IsSeq(all[k])
  BY <1>3, SeqIsSeq
<1> HIDE DEF n
<1> DEFINE T == {k \in 0 .. n : /\ Len(all[k]) = Total(lens, k) /\ Total(lens, k) \in Nat
                                /\ At(p, all[k]) => \A j \in 1 .. k : At(p + Total(lens, j - 1), ss[j])}
<1>6. 0 \in T
  BY <1>1, <1>3, NextTotal, EmptySeq
<1>7. ASSUME NEW k \in T, k < n PROVE k + 1 \in T
  <2>1. k \in 0 .. n /\ k \in Nat /\ k + 1 \in 1 .. n /\ k + 1 \in 0 .. n /\ (k + 1) - 1 = k
    BY <1>1, <1>7
  <2>2. all[k + 1] = all[k] \o ss[k + 1] /\ IsSeq(all[k]) /\ IsSeq(ss[k + 1])
    BY <1>3, <1>4, <1>5, <2>1
  <2>3. Total(lens, k + 1) = Total(lens, k) + lens[k + 1] /\ Total(lens, k) \in Nat /\ lens[k + 1] = Len(ss[k + 1])
    <3>1. \A j \in 1 .. k : lens[j] \in Nat
      BY <1>1, <1>4, <2>1
    <3>2. lens[k + 1] \in Nat
      BY <1>4, <2>1
    <3> QED BY <2>1, <3>1, <3>2, <1>4, NextTotal
  <2>4. Len(all[k]) = Total(lens, k)
    OBVIOUS
  <2>5. Len(all[k + 1]) = Total(lens, k + 1) /\ Total(lens, k + 1) \in Nat
    <3>1. Len(all[k] \o ss[k + 1]) = Len(all[k]) + Len(ss[k + 1])
      BY <2>2, ConcatIsSeq
    <3>2. lens[k + 1] \in Nat
      BY <1>4, <2>1
    <3> QED BY <2>2, <2>3, <2>4, <3>1, <3>2
  <2>6. ASSUME At(p, all[k + 1]), NEW j \in 1 .. k + 1 PROVE At(p + Total(lens, j - 1), ss[j])
    <3>1. At(p, all[k]) /\ At(p + Len(all[k]), ss[k + 1])
      BY <2>2, <2>6, AtConcat
    <3>2. CASE j = k + 1
      BY <3>1, <3>2, <2>1, <2>4
    <3>3. CASE j # k + 1
      <4>1. j \in 1 .. k
        BY <2>1, <3>3
      <4> QED BY <3>1, <4>1
    <3> QED BY <3>2, <3>3
  <2> QED BY <2>1, <2>5, <2>6
<1>8. T = 0 .. n
  <2>1. T \in SUBSET (0 .. n)
    OBVIOUS
  <2> HIDE DEF T
  <2> QED BY <1>1, <1>6, <1>7, <2>1, UpToInduction
<1>9. /\ Len(all[n]) = Total(lens, n) /\ Total(lens, n) \in Nat
      /\ \A j \in 1 .. n : At(p + Total(lens, j - 1), ss[j])
  <2>1. n \in T
    BY <1>1, <1>8
  <2> QED BY <2>1, <1>3
<1> QED BY <1>1, <1>3, <1>4, <1>9 DEF n

-----------------------------------------------------------------------------
(* A number of one to seven groups *)

LEMMA GroupBytes ==
    ASSUME NEW v \in Int, NEW n \in 1 .. 7, NEW k \in 1 .. n
    PROVE  /\ Groups(v, n)[k] \in Nat
           /\ k < n => Groups(v, n)[k] >= 128
           /\ k = n => Groups(v, n)[k] < 128
           /\ k <= 4 => Groups(v, n)[k] % 128 = (v \div 128 ^ (k - 1)) % 128
           /\ k = n /\ k > 4 => Groups(v, n)[k] = IF v < 0 THEN 127 ELSE 0
<1> DEFINE b == IF k > 4 THEN (IF v < 0 THEN 127 ELSE 0) ELSE (v \div 128 ^ (k - 1)) % 128
<1>1. Groups(v, n)[k] = b + (IF k < n THEN 128 ELSE 0)
  BY DEF Groups
<1>2. b \in 0 .. 127
  <2>1. CASE k > 4
    BY <2>1
  <2>2. CASE k = 1
    <3>1. 128 ^ (k - 1) = 1
      BY <2>2, SMT
    <3> QED BY <2>2, <3>1, SMT
  <2>3. CASE k = 2
    <3>1. 128 ^ (k - 1) = 128
      BY <2>3, SMT
    <3> QED BY <2>3, <3>1, SMT
  <2>4. CASE k = 3
    <3>1. 128 ^ (k - 1) = 128 * 128
      BY <2>4, SMT
    <3> QED BY <2>4, <3>1, SMT
  <2>5. CASE k = 4
    <3>1. 128 ^ (k - 1) = 128 * 128 * 128
      BY <2>5, SMT
    <3> QED BY <2>5, <3>1, SMT
  <2> QED BY <2>1, <2>2, <2>3, <2>4, <2>5
<1>3. k <= 4 => b = (v \div 128 ^ (k - 1)) % 128
  OBVIOUS
<1>4. k > 4 => b = IF v < 0 THEN 127 ELSE 0
  OBVIOUS
<1> HIDE DEF b
<1>5. (b + (IF k < n THEN 128 ELSE 0)) % 128 = b
  BY <1>2
<1> QED BY <1>1, <1>2, <1>3, <1>4, <1>5

LEMMA LEBEndIs ==
    ASSUME NEW v \in Int, NEW n \in 1 .. 7, NEW p, At(p, Groups(v, n))
    PROVE  /\ LEBEnd(p) = p + n - 1 /\ p \in Nat
           /\ \A k \in 1 .. n : ByteAt(p + k - 1) = Groups(v, n)[k]
<1>1. p \in Nat /\ Len(Groups(v, n)) = n
  BY GroupsLength DEF At
<1>2. \A k \in 1 .. n : ByteAt(p + k - 1) = Groups(v, n)[k]
  BY <1>1, AtByte
<1>3. \A k \in 1 .. n : ByteAt(p + k - 1) \in Nat /\ (k < n => ByteAt(p + k - 1) >= 128) /\ (k = n => ByteAt(p + k - 1) < 128)
  <2>1. ASSUME NEW k \in 1 .. n
        PROVE  ByteAt(p + k - 1) \in Nat /\ (k < n => ByteAt(p + k - 1) >= 128) /\ (k = n => ByteAt(p + k - 1) < 128)
    <3>1. Groups(v, n)[k] \in Nat /\ (k < n => Groups(v, n)[k] >= 128) /\ (k = n => Groups(v, n)[k] < 128)
      BY GroupBytes
    <3>2. ByteAt(p + k - 1) = Groups(v, n)[k]
      BY <1>2
    <3> QED BY <3>1, <3>2
  <2> QED BY <2>1
<1> DEFINE e == p + n - 1
<1>4. e \in p .. p + 6 /\ e \in Nat
  BY <1>1
<1>5. ByteAt(e) < 128
  BY <1>3
<1>6. ASSUME NEW r \in p .. e - 1 PROVE ByteAt(r) >= 128 /\ ~(ByteAt(r) < 128)
  <2>1. r - p + 1 \in 1 .. n /\ r - p + 1 < n /\ p + (r - p + 1) - 1 = r
    BY <1>1, <1>4
  <2>2. ByteAt(p + (r - p + 1) - 1) \in Nat /\ ByteAt(p + (r - p + 1) - 1) >= 128
    BY <1>3, <2>1
  <2> QED BY <2>1, <2>2
<1>7. ByteAt(e) \in Nat
  BY <1>3
<1> HIDE DEF e
<1>8. ASSUME NEW q \in p .. p + 6, ByteAt(q) < 128, \A r \in p .. q - 1 : ByteAt(r) >= 128
      PROVE  q = e
  <2>1. q \in Int /\ e \in Int /\ p \in Int
    BY <1>1, <1>4
  <2>2. ~(q < e)
    <3>1. q < e => q \in p .. e - 1
      BY <2>1
    <3> QED BY <3>1, <1>6, <1>8
  <2>3. ~(q > e)
    <3>1. q > e => e \in p .. q - 1
      BY <2>1, <1>4
    <3>2. ~(ByteAt(e) >= 128)
      BY <1>5, <1>7
    <3> QED BY <3>1, <3>2, <1>8
  <2> QED BY <2>1, <2>2, <2>3
<1>9. LEBEnd(p) = e
  <2> DEFINE Is(q) == ByteAt(q) < 128 /\ \A r \in p .. q - 1 : ByteAt(r) >= 128
  <2>1. e \in p .. p + 6 /\ Is(e)
    BY <1>4, <1>5, <1>6
  <2>2. \A q \in p .. p + 6 : Is(q) => q = e
    BY <1>8
  <2>3. LEBEnd(p) = CHOOSE q \in p .. p + 6 : Is(q)
    BY DEF LEBEnd
  <2> HIDE DEF Is
  <2> QED BY <2>1, <2>2, <2>3
<1> QED BY <1>1, <1>2, <1>9 DEF e

\* The sum of the first groups is the number without what lies above them.
LEMMA LEBSumIs ==
    ASSUME NEW v \in Int, NEW m \in 1 .. 4, NEW p,
           \A k \in 1 .. m : ByteAt(p + k - 1) % 128 = (v \div 128 ^ (k - 1)) % 128
    PROVE  LEBSum(p, m) = v % 128 ^ m
<1> DEFINE lens == [k \in 1 .. m |-> (ByteAt(p + k - 1) % 128) * 128 ^ (k - 1)]
<1>1. LEBSum(p, m) = Total(lens, m)
  <2>1. Upto(lens, m) = lens
    BY DEF Upto
  <2> QED BY <2>1 DEF LEBSum, Total
<1>2. \A k \in 1 .. m : lens[k] = ((v \div 128 ^ (k - 1)) % 128) * 128 ^ (k - 1)
  OBVIOUS
<1> HIDE DEF lens
<1>3. m >= 1 /\ lens[1] = v % 128
  <2>1. lens[1] = ((v \div 128 ^ (1 - 1)) % 128) * 128 ^ (1 - 1)
    <3>1. 1 \in 1 .. m
      OBVIOUS
    <3> QED BY <3>1, <1>2, Zenon
  <2> QED BY <2>1, SMT
<1>4. m >= 2 => lens[2] = ((v \div 128) % 128) * 128
  <2>1. m >= 2 => lens[2] = ((v \div 128 ^ (2 - 1)) % 128) * 128 ^ (2 - 1)
    <3>1. m >= 2 => 2 \in 1 .. m
      OBVIOUS
    <3> QED BY <3>1, <1>2, Zenon
  <2> QED BY <2>1, SMT
<1>5. m >= 3 => lens[3] = ((v \div 128 ^ 2) % 128) * 128 ^ 2
  <2>1. m >= 3 => lens[3] = ((v \div 128 ^ (3 - 1)) % 128) * 128 ^ (3 - 1)
    <3>1. m >= 3 => 3 \in 1 .. m
      OBVIOUS
    <3> QED BY <3>1, <1>2, Zenon
  <2> QED BY <2>1, SMT
<1>6. m >= 4 => lens[4] = ((v \div 128 ^ 3) % 128) * 128 ^ 3
  <2>1. m >= 4 => lens[4] = ((v \div 128 ^ (4 - 1)) % 128) * 128 ^ (4 - 1)
    <3>1. m >= 4 => 4 \in 1 .. m
      OBVIOUS
    <3> QED BY <3>1, <1>2, Zenon
  <2> QED BY <2>1, SMT
<1>7. /\ lens[1] \in Nat /\ (m >= 2 => lens[2] \in Nat)
      /\ (m >= 3 => lens[3] \in Nat) /\ (m >= 4 => lens[4] \in Nat)
  BY <1>3, <1>4, <1>5, <1>6, SMT
<1>8. Total(lens, 1) = lens[1]
  <2>1. Total(lens, 0) = 0 /\ Total(lens, 0 + 1) = Total(lens, 0) + lens[0 + 1]
    BY <1>7, NextTotal
  <2> QED BY <2>1, <1>7
<1>9. m >= 2 => Total(lens, 2) = lens[1] + lens[2]
  <2>1. ASSUME m >= 2 PROVE Total(lens, 1 + 1) = Total(lens, 1) + lens[1 + 1]
    <3>1. \A k \in 1 .. 1 : lens[k] \in Nat
      BY <1>7
    <3> QED BY <3>1, <2>1, <1>7, NextTotal
  <2> QED BY <2>1, <1>8
<1>10. m >= 3 => Total(lens, 3) = lens[1] + lens[2] + lens[3]
  <2>1. ASSUME m >= 3 PROVE Total(lens, 2 + 1) = Total(lens, 2) + lens[2 + 1]
    <3>1. \A k \in 1 .. 2 : lens[k] \in Nat
      BY <1>7, <2>1
    <3> QED BY <3>1, <2>1, <1>7, NextTotal
  <2> QED BY <2>1, <1>9
<1>11. m >= 4 => Total(lens, 4) = lens[1] + lens[2] + lens[3] + lens[4]
  <2>1. ASSUME m >= 4 PROVE Total(lens, 3 + 1) = Total(lens, 3) + lens[3 + 1]
    <3>1. \A k \in 1 .. 3 : lens[k] \in Nat
      BY <1>7, <2>1
    <3> QED BY <3>1, <2>1, <1>7, NextTotal
  <2> QED BY <2>1, <1>10
<1>12. CASE m = 1
  <2>1. Total(lens, 1) = v % 128 ^ 1
    BY <1>3, <1>8, SMT
  <2> QED BY <2>1, <1>1, <1>12
<1>13. CASE m = 2
  <2>1. Total(lens, 2) = (v % 128) + ((v \div 128) % 128) * 128
    BY <1>3, <1>4, <1>9, <1>13
  <2>2. (v % 128) + ((v \div 128) % 128) * 128 = v % 128 ^ 2
    BY SMT
  <2> QED BY <2>1, <2>2, <1>1, <1>13
<1>14. CASE m = 3
  <2>1. Total(lens, 3) = (v % 128) + ((v \div 128) % 128) * 128 + ((v \div 128 ^ 2) % 128) * 128 ^ 2
    BY <1>3, <1>4, <1>5, <1>10, <1>14
  <2>2. (v % 128) + ((v \div 128) % 128) * 128 + ((v \div 128 ^ 2) % 128) * 128 ^ 2 = v % 128 ^ 3
    BY SMT
  <2> QED BY <2>1, <2>2, <1>1, <1>14
<1>15. CASE m = 4
  <2>1. Total(lens, 4) = (v % 128) + ((v \div 128) % 128) * 128 + ((v \div 128 ^ 2) % 128) * 128 ^ 2
                           + ((v \div 128 ^ 3) % 128) * 128 ^ 3
    BY <1>3, <1>4, <1>5, <1>6, <1>11, <1>15
  <2>2. (v % 128) + ((v \div 128) % 128) * 128 + ((v \div 128 ^ 2) % 128) * 128 ^ 2
           + ((v \div 128 ^ 3) % 128) * 128 ^ 3 = v % 128 ^ 4
    BY SMT
  <2> QED BY <2>1, <2>2, <1>1, <1>15
<1> QED BY <1>12, <1>13, <1>14, <1>15

Significance(n) == IF n < 4 THEN n ELSE 4
LEMMA SumRead ==
    ASSUME NEW v \in Int, NEW n \in 1 .. 7, NEW p, At(p, Groups(v, n)), NEW m, m = Significance(n)
    PROVE  /\ m \in 1 .. 4 /\ m <= n /\ Significant(p) = m
           /\ LEBSum(p, m) = v % 128 ^ m /\ LEBEnd(p) + 1 = p + n /\ p \in Nat
           /\ ByteAt(LEBEnd(p)) = Groups(v, n)[n]
<1>1. /\ LEBEnd(p) = p + n - 1 /\ p \in Nat
      /\ \A k \in 1 .. n : ByteAt(p + k - 1) = Groups(v, n)[k]
  BY LEBEndIs
<1>2. m \in 1 .. 4 /\ m <= n
  BY DEF Significance
<1>3. Significant(p) = m
  <2>1. LEBEnd(p) + 1 - p = n
    BY <1>1
  <2>2. Min({4, n}) \in {4, n} /\ \A y \in {4, n} : Min({4, n}) <= y
    <3>1. {4, n} \in SUBSET Nat /\ {4, n} # {}
      OBVIOUS
    <3> QED BY <3>1, MinIs
  <2>3. Min({4, n}) = m
    BY <2>2 DEF Significance
  <2> QED BY <2>1, <2>3 DEF Significant
<1>4. ASSUME NEW k \in 1 .. m PROVE ByteAt(p + k - 1) % 128 = (v \div 128 ^ (k - 1)) % 128
  <2>1. k \in 1 .. n /\ k <= 4
    BY <1>2
  <2>2. Groups(v, n)[k] % 128 = (v \div 128 ^ (k - 1)) % 128
    BY <2>1, GroupBytes, ZenonT(40)
  <2> QED BY <2>1, <2>2, <1>1, Zenon
<1>5. LEBSum(p, m) = v % 128 ^ m
  BY <1>2, <1>4, LEBSumIs, ZenonT(40)
<1> QED BY <1>1, <1>2, <1>3, <1>5

LEMMA ULEBRead ==
    ASSUME NEW v \in 0 .. 128 ^ 4 - 1, NEW n \in LengthULEB(v) .. 7, NEW p, At(p, Groups(v, n))
    PROVE  ReadULEB(p).value = v /\ ReadULEB(p).next = p + n /\ n \in 1 .. 7
<1> DEFINE m == Significance(n)
<1>1. v \in Int /\ 0 <= v /\ v < 128 ^ 4
  BY SMT
<1>2. n \in 1 .. 7
  BY LengthIs
<1>3. Significant(p) = m /\ LEBSum(p, m) = v % 128 ^ m /\ LEBEnd(p) + 1 = p + n
  BY <1>1, <1>2, SumRead
<1>4. v % 128 ^ m = v
  <2>1. CASE n = 1
    <3>1. v < 128 /\ m = 1
      BY <2>1, <1>1, SMT DEF LengthULEB, Significance
    <3> HIDE DEF m
    <3> QED BY <3>1, <1>1, SMT
  <2>2. CASE n = 2
    <3>1. v < 128 ^ 2 /\ m = 2
      BY <2>2, <1>1, SMT DEF LengthULEB, Significance
    <3> HIDE DEF m
    <3> QED BY <3>1, <1>1, SMT
  <2>3. CASE n = 3
    <3>1. v < 128 ^ 3 /\ m = 3
      BY <2>3, <1>1, SMT DEF LengthULEB, Significance
    <3> HIDE DEF m
    <3> QED BY <3>1, <1>1, SMT
  <2>4. CASE n >= 4
    <3>1. m = 4
      BY <2>4, <1>2 DEF Significance
    <3> HIDE DEF m
    <3> QED BY <3>1, <1>1, SMT
  <2> QED BY <1>2, <2>1, <2>2, <2>3, <2>4
<1> QED BY <1>2, <1>3, <1>4 DEF ReadULEB

LEMMA SLEBRead ==
    ASSUME NEW v \in Int, FitsSLEB(v, 4), NEW n \in LengthSLEB(v) .. 7, NEW p, At(p, Groups(v, n))
    PROVE  ReadSLEB(p).value = v /\ ReadSLEB(p).next = p + n /\ n \in 1 .. 7
<1> DEFINE m == Significance(n)
           e == Groups(v, n)[n]
<1>1. n \in 1 .. 7
  BY LengthIs
<1>2. /\ Significant(p) = m /\ LEBSum(p, m) = v % 128 ^ m /\ LEBEnd(p) + 1 = p + n
      /\ ByteAt(LEBEnd(p)) = e
  BY <1>1, SumRead
<1>3. e \in Nat /\ e < 128 /\ (n <= 4 => e % 128 = (v \div 128 ^ (n - 1)) % 128)
      /\ (n > 4 => e = IF v < 0 THEN 127 ELSE 0)
  <2>1. n \in 1 .. n
    BY <1>1
  <2> QED BY <1>1, <2>1, GroupBytes, ZenonT(40)
<1>4. FitsSLEB(v, n) \/ n > 4
  <2>1. CASE n = 1
    BY <2>1 DEF LengthSLEB
  <2>2. CASE n = 2
    BY <2>2, SMT DEF LengthSLEB, FitsSLEB
  <2>3. CASE n = 3
    BY <2>3, SMT DEF LengthSLEB, FitsSLEB
  <2>4. CASE n = 4
    BY <2>4
  <2> QED BY <1>1, <2>1, <2>2, <2>3, <2>4
<1> HIDE DEF e
<1>5. (v % 128 ^ m) - (IF e % 128 >= 64 THEN 128 ^ m ELSE 0) = v
  <2>1. CASE n = 1
    <3>1. m = 1
      BY <2>1 DEF Significance
    <3> HIDE DEF m
    <3>2. -64 * 128 ^ 0 <= v /\ v < 64 * 128 ^ 0
      BY <2>1, <1>4 DEF FitsSLEB
    <3>3. e % 128 = (v \div 128 ^ 0) % 128
      BY <2>1, <1>3
    <3> QED BY <3>1, <3>2, <3>3, SMT
  <2>2. CASE n = 2
    <3>1. m = 2
      BY <2>2 DEF Significance
    <3> HIDE DEF m
    <3>2. -64 * 128 ^ 1 <= v /\ v < 64 * 128 ^ 1
      BY <2>2, <1>4 DEF FitsSLEB
    <3>3. e % 128 = (v \div 128 ^ 1) % 128
      BY <2>2, <1>3
    <3> QED BY <3>1, <3>2, <3>3, SMT
  <2>3. CASE n = 3
    <3>1. m = 3
      BY <2>3 DEF Significance
    <3> HIDE DEF m
    <3>2. -64 * 128 ^ 2 <= v /\ v < 64 * 128 ^ 2
      BY <2>3, <1>4 DEF FitsSLEB
    <3>3. e % 128 = (v \div 128 ^ 2) % 128
      BY <2>3, <1>3
    <3> QED BY <3>1, <3>2, <3>3, SMT
  <2>4. CASE n = 4
    <3>1. m = 4
      BY <2>4 DEF Significance
    <3> HIDE DEF m
    <3>2. -64 * 128 ^ 3 <= v /\ v < 64 * 128 ^ 3
      BY <2>4, <1>4 DEF FitsSLEB
    <3>3. e % 128 = (v \div 128 ^ 3) % 128
      BY <2>4, <1>3
    <3> QED BY <3>1, <3>2, <3>3, SMT
  <2>5. CASE n > 4
    <3>1. m = 4
      BY <2>5, <1>1 DEF Significance
    <3> HIDE DEF m
    <3>2. -64 * 128 ^ 3 <= v /\ v < 64 * 128 ^ 3
      BY DEF FitsSLEB
    <3>3. e = IF v < 0 THEN 127 ELSE 0
      BY <2>5, <1>3
    <3> QED BY <3>1, <3>2, <3>3, SMT
  <2> QED BY <1>1, <2>1, <2>2, <2>3, <2>4, <2>5
<1> QED BY <1>1, <1>2, <1>5 DEF ReadSLEB

-----------------------------------------------------------------------------
(* One field *)

LEMMA HoldsAre ==
    ASSUME NEW v, NEW s
    PROVE  /\ Holds(s, U8(v)) => s = <<LowByte(v)>>
           /\ Holds(s, Raw(v)) => s = v
           /\ Holds(s, U(v)) => \E n \in LengthULEB(v) .. 7 : s = Groups(v, n)
           /\ Holds(s, RelocU(v)) => \E n \in LengthULEB(v) .. 7 : s = Groups(v, n)
           /\ Holds(s, S(v)) => \E n \in LengthSLEB(v) .. 7 : s = Groups(v, n)
           /\ Holds(s, RelocS(v)) => \E n \in LengthSLEB(v) .. 7 : s = Groups(v, n)
<1>1. Holds(s, U8(v)) => s = <<LowByte(v)>>
  BY FormsAre DEF Holds
<1>2. Holds(s, Raw(v)) => s = v
  BY FormsAre DEF Holds
<1>3. Holds(s, U(v)) => \E n \in LengthULEB(v) .. 7 : s = Groups(v, n)
  BY FormsAre DEF Holds
<1>4. Holds(s, RelocU(v)) => \E n \in LengthULEB(v) .. 7 : s = Groups(v, n)
  BY FormsAre DEF Holds
<1>5. Holds(s, S(v)) => \E n \in LengthSLEB(v) .. 7 : s = Groups(v, n)
  BY FormsAre DEF Holds
<1>6. Holds(s, RelocS(v)) => \E n \in LengthSLEB(v) .. 7 : s = Groups(v, n)
  BY FormsAre DEF Holds
<1> QED BY <1>1, <1>2, <1>3, <1>4, <1>5, <1>6

\* Wherever f is, the form reads the operand v, and goes on behind it.
Restores(f, form, name, v) ==
    \A p, s : At(p, s) /\ Holds(s, f) =>
        /\ Read(form, p).next = p + Len(s)
        /\ Resolved(form, name, Read(form, p).value) = v

\* The bound that operands have, a name for the provers.
Bounded(v) == v \in 0 .. 128 ^ 4 - 1

LEMMA NumberRead ==
    ASSUME NEW v, Bounded(v), NEW p, NEW s, At(p, s), Holds(s, U(v)) \/ Holds(s, RelocU(v))
    PROVE  ReadULEB(p).value = v /\ ReadULEB(p).next = p + Len(s) /\ Len(s) \in 1 .. 7
<1>1. PICK n \in LengthULEB(v) .. 7 : s = Groups(v, n)
  BY HoldsAre
<1>2. ReadULEB(p).value = v /\ ReadULEB(p).next = p + n /\ n \in 1 .. 7
  BY <1>1, ULEBRead DEF Bounded
<1>3. Len(s) = n
  BY <1>1, <1>2, GroupsLength
<1> QED BY <1>2, <1>3

LEMMA SignedRead ==
    ASSUME NEW v \in Int, FitsSLEB(v, 4), NEW f \in {S(v), RelocS(v)}, NEW p, NEW s, At(p, s), Holds(s, f)
    PROVE  ReadSLEB(p).value = v /\ ReadSLEB(p).next = p + Len(s) /\ Len(s) \in 1 .. 7
<1>1. PICK n \in LengthSLEB(v) .. 7 : s = Groups(v, n)
  BY HoldsAre
<1>2. ReadSLEB(p).value = v /\ ReadSLEB(p).next = p + n /\ n \in 1 .. 7
  BY <1>1, SLEBRead
<1>3. Len(s) = n
  BY <1>1, <1>2, GroupsLength
<1> QED BY <1>2, <1>3

LEMMA ByteRead ==
    ASSUME NEW v \in 0 .. 255, NEW p, NEW s, At(p, s), Holds(s, U8(v))
    PROVE  ByteAt(p) = v /\ Len(s) = 1 /\ p \in Nat
<1>1. s = <<LowByte(v)>> /\ LowByte(v) = v
  BY HoldsAre DEF LowByte
<1>2. Len(s) = 1 /\ s[1] = v /\ 1 \in 1 .. Len(s)
  BY <1>1
<1>3. p \in Nat /\ p + 1 - 1 = p
  BY DEF At
<1>4. ByteAt(p + 1 - 1) = s[1]
  BY <1>2, AtByte
<1> QED BY <1>2, <1>3, <1>4

LEMMA PlainOperand ==
    ASSUME NEW form, NEW name, name \notin DOMAIN SpaceOf, NEW v
    PROVE  Resolved(form, name, v) = v
BY DEF Resolved

LEMMA RestoresNumber ==
    ASSUME NEW v, Bounded(v), NEW f, f = U(v) \/ f = RelocU(v), NEW name, name \notin DOMAIN SpaceOf
    PROVE  Restores(f, "uleb", name, v)
<1> SUFFICES ASSUME NEW p, NEW s, At(p, s), Holds(s, f)
             PROVE  /\ Read("uleb", p).next = p + Len(s)
                    /\ Resolved("uleb", name, Read("uleb", p).value) = v
  BY DEF Restores
<1>1. Read("uleb", p) = ReadULEB(p)
  BY DEF Read
<1>2. ReadULEB(p).value = v /\ ReadULEB(p).next = p + Len(s)
  BY NumberRead
<1> QED BY <1>1, <1>2, PlainOperand

LEMMA RestoresSigned ==
    ASSUME NEW v \in Int, FitsSLEB(v, 4), NEW name, name \notin DOMAIN SpaceOf
    PROVE  Restores(RelocS(v), "sleb", name, v)
<1> SUFFICES ASSUME NEW p, NEW s, At(p, s), Holds(s, RelocS(v))
             PROVE  /\ Read("sleb", p).next = p + Len(s)
                    /\ Resolved("sleb", name, Read("sleb", p).value) = v
  BY DEF Restores
<1>1. Read("sleb", p) = ReadSLEB(p)
  BY DEF Read
<1>2. ReadSLEB(p).value = v /\ ReadSLEB(p).next = p + Len(s)
  BY SignedRead
<1> QED BY <1>1, <1>2, PlainOperand

LEMMA RestoresByte ==
    ASSUME NEW v \in 0 .. 255, NEW name, name \notin DOMAIN SpaceOf
    PROVE  Restores(U8(v), "u8", name, v)
<1> SUFFICES ASSUME NEW p, NEW s, At(p, s), Holds(s, U8(v))
             PROVE  /\ Read("u8", p).next = p + Len(s)
                    /\ Resolved("u8", name, Read("u8", p).value) = v
  BY DEF Restores
<1>1. Read("u8", p).value = ByteAt(p) /\ Read("u8", p).next = p + 1
  BY DEF Read
<1>2. ByteAt(p) = v /\ Len(s) = 1
  BY ByteRead
<1> QED BY <1>1, <1>2, PlainOperand

Long(v, n) == Len(v) = n
LEMMA BytesRead ==
    ASSUME NEW v, NEW p, At(p, v), NEW n, Long(v, n)
    PROVE  ReadBytes(p, n).value = v /\ ReadBytes(p, n).next = p + n
<1>1. IsSeq(v) /\ DOMAIN v = 1 .. n /\ n \in Nat
  BY IsSeqLen DEF At, Long
<1>2. v = [k \in 1 .. n |-> v[k]]
  <2>1. v \in [1 .. n -> ToSet(v)]
    BY <1>1, LenProperties DEF IsSeq, Long
  <2> QED BY <2>1
<1>3. \A k \in 1 .. n : ByteAt(p + k - 1) = v[k]
  BY AtByte DEF Long
<1>4. [k \in 1 .. n |-> ByteAt(p + k - 1)] = [k \in 1 .. n |-> v[k]]
  BY <1>3
<1> QED BY <1>2, <1>4 DEF ReadBytes

LEMMA RestoresRaw ==
    ASSUME NEW v, NEW name, name \notin DOMAIN SpaceOf
    PROVE  /\ Len(v) = 4 => Restores(Raw(v), "bytes4", name, v)
           /\ Len(v) = 8 => Restores(Raw(v), "bytes8", name, v)
<1>1. ASSUME Len(v) = 4, NEW p, NEW s, At(p, s), Holds(s, Raw(v))
      PROVE  /\ Read("bytes4", p).next = p + Len(s)
             /\ Resolved("bytes4", name, Read("bytes4", p).value) = v
  <2>1. s = v
    BY <1>1, HoldsAre
  <2>2. Read("bytes4", p) = ReadBytes(p, 4)
    BY DEF Read
  <2>3. ReadBytes(p, 4).value = v /\ ReadBytes(p, 4).next = p + 4
    <3>1. At(p, v) /\ Long(v, 4)
      BY <1>1, <2>1 DEF Long
    <3> QED BY <3>1, BytesRead
  <2> QED BY <1>1, <2>1, <2>2, <2>3, PlainOperand, ZenonT(40)
<1>2. ASSUME Len(v) = 8, NEW p, NEW s, At(p, s), Holds(s, Raw(v))
      PROVE  /\ Read("bytes8", p).next = p + Len(s)
             /\ Resolved("bytes8", name, Read("bytes8", p).value) = v
  <2>1. s = v
    BY <1>2, HoldsAre
  <2>2. Read("bytes8", p) = ReadBytes(p, 8)
    BY DEF Read
  <2>3. ReadBytes(p, 8).value = v /\ ReadBytes(p, 8).next = p + 8
    <3>1. At(p, v) /\ Long(v, 8)
      BY <1>2, <2>1 DEF Long
    <3> QED BY <3>1, BytesRead
  <2> QED BY <1>2, <2>1, <2>2, <2>3, PlainOperand, ZenonT(40)
<1> QED BY <1>1, <1>2 DEF Restores

\* An index in a vector of the module, and the object that it is read as.
LEMMA ObjectFound ==
    ASSUME NEW space \in Spaces, NEW obj, Index(space, obj) # -1, NEW idx, idx = Index(space, obj)
    PROVE  /\ Bounded(idx) /\ FitsSLEB(idx, 4)
           /\ ObjectAt(space, idx) = obj /\ obj # "undefined"
<1> DEFINE v == IF space = "locals" THEN Locals ELSE Vector[space]
<1>1. IsSeq(v) /\ "undefined" \notin Range(v) /\ Len(v) < 64 * 128 ^ 3
  <2>1. CASE space = "locals"
    BY <2>1, VectorAssumption, CodesAssumption, SeqIsSeq
  <2>2. CASE space # "locals"
    <3>1. space \in DOMAIN Vector
      BY <2>2, VectorAssumption
    <3> QED BY <2>2, <3>1, VectorAssumption, CodesAssumption, SeqIsSeq
  <2> QED BY <2>1, <2>2
<1>2. Index(space, obj) = IF Contains(v, obj) THEN (CHOOSE n \in DOMAIN v : v[n] = obj) - 1 ELSE -1
  BY DEF Index
<1>3. ObjectAt(space, idx) = IF idx < Len(v) THEN v[idx + 1] ELSE "undefined"
  BY DEF ObjectAt
<1> HIDE DEF v
<1>4. Len(v) \in Nat /\ DOMAIN v = 1 .. Len(v)
  BY <1>1, IsSeqLen
<1>5. Contains(v, obj)
  BY <1>2
<1>6. \E n \in DOMAIN v : v[n] = obj
  BY <1>4, <1>5 DEF Contains
<1>7. PICK n : n = CHOOSE m \in DOMAIN v : v[m] = obj
  OBVIOUS
<1>8. n \in DOMAIN v /\ v[n] = obj
  BY <1>6, <1>7
<1>9. idx = n - 1
  BY <1>2, <1>5, <1>7
<1>10. n \in 1 .. Len(v) /\ idx \in Nat /\ idx < Len(v) /\ idx + 1 = n
  BY <1>4, <1>8, <1>9
<1>11. ObjectAt(space, idx) = obj
  BY <1>3, <1>8, <1>10
<1>12. obj # "undefined"
  BY <1>1, <1>8 DEF Range
<1>13. Bounded(idx) /\ FitsSLEB(idx, 4)
  BY <1>1, <1>4, <1>10, SMT DEF FitsSLEB, Bounded
<1> QED BY <1>11, <1>12, <1>13

LEMMA ArgFound ==
    ASSUME NEW inst, NEW name \in DOMAIN SpaceOf, NEW idx, idx = IndexOfArg(inst, name), idx # -1, NEW form, form # "blocktype"
    PROVE  /\ Bounded(idx)
           /\ Resolved(form, name, idx) = inst.arg[name] /\ inst.arg[name] # "undefined"
<1>1. SpaceOf[name] \in Spaces
  BY DEF SpaceOf, Spaces
<1>2. idx = Index(SpaceOf[name], inst.arg[name])
  BY DEF IndexOfArg
<1>3. /\ Bounded(idx)
      /\ ObjectAt(SpaceOf[name], idx) = inst.arg[name] /\ inst.arg[name] # "undefined"
  BY <1>1, <1>2, ObjectFound
<1> QED BY <1>3 DEF Resolved

LEMMA RestoresIndex ==
    ASSUME NEW inst, NEW name \in DOMAIN SpaceOf, IndexOfArg(inst, name) # -1
    PROVE  Restores(IndexField(inst, name), "uleb", name, inst.arg[name])
<1> DEFINE idx == IndexOfArg(inst, name)
<1>1. Bounded(idx) /\ Resolved("uleb", name, idx) = inst.arg[name]
  BY ArgFound
<1>2. IndexField(inst, name) = U(idx)
  BY DEF IndexField
<1> HIDE DEF idx
<1> SUFFICES ASSUME NEW p, NEW s, At(p, s), Holds(s, U(idx))
             PROVE  /\ Read("uleb", p).next = p + Len(s)
                    /\ Resolved("uleb", name, Read("uleb", p).value) = inst.arg[name]
  BY <1>2 DEF Restores
<1>3. Read("uleb", p) = ReadULEB(p)
  BY DEF Read
<1>4. ReadULEB(p).value = idx /\ ReadULEB(p).next = p + Len(s)
  BY <1>1, NumberRead
<1> QED BY <1>1, <1>3, <1>4

LEMMA RestoresIndexByte ==
    ASSUME NEW inst, NEW name \in DOMAIN SpaceOf, IndexOfArg(inst, name) # -1, IndexOfArg(inst, name) < 256
    PROVE  Restores(U8(IndexOfArg(inst, name)), "u8", name, inst.arg[name])
<1> DEFINE idx == IndexOfArg(inst, name)
<1>1. Bounded(idx) /\ Resolved("u8", name, idx) = inst.arg[name]
  BY ArgFound
<1>2. idx < 256
  OBVIOUS
<1> HIDE DEF idx
<1>3. idx \in 0 .. 255
  BY <1>1, <1>2, SMT DEF Bounded
<1> SUFFICES ASSUME NEW p, NEW s, At(p, s), Holds(s, U8(idx))
             PROVE  /\ Read("u8", p).next = p + Len(s)
                    /\ Resolved("u8", name, Read("u8", p).value) = inst.arg[name]
  BY DEF Restores, idx
<1>4. Read("u8", p).value = ByteAt(p) /\ Read("u8", p).next = p + 1
  BY DEF Read
<1>5. ByteAt(p) = idx /\ Len(s) = 1
  BY <1>3, ByteRead
<1> QED BY <1>1, <1>4, <1>5

-----------------------------------------------------------------------------
(* The operands of an instruction *)

\* Places that a recursive function finds one from the other.
Follow(m, qs, f, next) ==
    /\ f[1] = qs[1]
    /\ \A k \in 1 .. m : f[k + 1] = next[<<k, f[k]>>] /\ next[<<k, qs[k]>>] = qs[k + 1]
LEMMA PlacesFollow ==
    ASSUME NEW m \in Nat, NEW qs, NEW f, NEW next, Follow(m, qs, f, next)
    PROVE  \A k \in 1 .. m + 1 : f[k] = qs[k]
<1> DEFINE T == {k \in 0 .. m : f[k + 1] = qs[k + 1]}
<1>1. 0 \in T
  BY DEF Follow
<1>2. ASSUME NEW k \in T, k < m PROVE k + 1 \in T
  <2>1. k + 1 \in 1 .. m /\ f[k + 1] = qs[k + 1]
    BY <1>2
  <2>2. f[(k + 1) + 1] = qs[(k + 1) + 1]
    BY <2>1 DEF Follow
  <2> QED BY <2>1, <2>2
<1>3. T = 0 .. m
  <2>1. T \in SUBSET (0 .. m)
    OBVIOUS
  <2> HIDE DEF T
  <2> QED BY <1>1, <1>2, <2>1, UpToInduction
<1>4. ASSUME NEW k \in 1 .. m + 1 PROVE f[k] = qs[k]
  <2>1. k - 1 \in 0 .. m /\ (k - 1) + 1 = k
    OBVIOUS
  <2>2. k - 1 \in T
    BY <1>3, <2>1
  <2>3. f[(k - 1) + 1] = qs[(k - 1) + 1]
    BY <2>2
  <2> QED BY <2>1, <2>3
<1> QED BY <1>4

\* A format whose fields lie at the places qs, each behind the one before.
IsFormat(format, m) ==
    /\ m \in Nat /\ Len(format) = m /\ DOMAIN format = 1 .. m
    /\ \A j, k \in 1 .. m : format[j][2] = format[k][2] => j = k
IsPlaces(qs, m) == DOMAIN qs = 1 .. m + 1 /\ qs = [k \in 1 .. m + 1 |-> qs[k]]
FieldAt(field, p, next, v) ==
    Read(field[1], p).next = next /\ Resolved(field[1], field[2], Read(field[1], p).value) = v
Located(inst, format, m, qs) ==
    \A k \in 1 .. m : FieldAt(format[k], qs[k], qs[k + 1], Operand(inst, format[k][2]))

OperandsAre(read, inst, format, m, qs) ==
    /\ read.next = qs[m + 1] /\ \A k \in 1 .. m + 1 : read.begins[k] = qs[k]
    /\ DOMAIN read.arg = {format[k][2] : k \in DOMAIN format}
    /\ \A k \in 1 .. m : read.arg[format[k][2]] = Operand(inst, format[k][2])

LEMMA OperandsRead ==
    ASSUME NEW inst, NEW format, NEW m, IsFormat(format, m),
           NEW qs, IsPlaces(qs, m), NEW p, p = qs[1], Located(inst, format, m, qs),
           NEW read, read = Operands(format, p)
    PROVE  OperandsAre(read, inst, format, m, qs)
<1> DEFINE F(g) == [k \in 1 .. Len(format) + 1 |->
                       IF k = 1 THEN p ELSE Read(format[k - 1][1], g[k - 1]).next]
           begin == CHOOSE g : g = F(g)
           operand(name) ==
              LET k == CHOOSE n \in DOMAIN format : format[n][2] = name
              IN  Resolved(format[k][1], name, Read(format[k][1], begin[k]).value)
<1>1. Operands(format, p) =
        [arg |-> [name \in {format[k][2] : k \in DOMAIN format} |-> operand(name)],
         begins |-> begin, next |-> begin[Len(format) + 1]]
  BY DEF Operands
<1>2. /\ m \in Nat /\ Len(format) = m /\ DOMAIN format = 1 .. m
      /\ \A j, k \in 1 .. m : format[j][2] = format[k][2] => j = k
      /\ DOMAIN qs = 1 .. m + 1 /\ qs = [k \in 1 .. m + 1 |-> qs[k]]
  BY DEF IsFormat, IsPlaces
<1>3. \A k \in 1 .. m : Read(format[k][1], qs[k]).next = qs[k + 1]
  BY DEF Located, FieldAt
<1>4. \A k \in 1 .. m : Resolved(format[k][1], format[k][2], Read(format[k][1], qs[k]).value) = Operand(inst, format[k][2])
  BY DEF Located, FieldAt
<1>5. qs = F(qs)
  <2>1. ASSUME NEW k \in 1 .. m + 1 PROVE qs[k] = F(qs)[k]
    <3>1. CASE k = 1
      BY <1>2, <3>1
    <3>2. CASE k # 1
      <4>1. k - 1 \in 1 .. m /\ (k - 1) + 1 = k
        BY <1>2, <3>2
      <4>2. Read(format[k - 1][1], qs[k - 1]).next = qs[k]
        BY <1>3, <4>1
      <4> QED BY <1>2, <3>2, <4>2
    <3> QED BY <3>1, <3>2
  <2>2. F(qs) = [k \in 1 .. m + 1 |-> F(qs)[k]]
    BY <1>2
  <2>3. [k \in 1 .. m + 1 |-> qs[k]] = [k \in 1 .. m + 1 |-> F(qs)[k]]
    <3> HIDE DEF F
    <3> QED BY <2>1
  <2> HIDE DEF F
  <2> QED BY <1>2, <2>2, <2>3
<1>6. begin = F(begin)
  <2> HIDE DEF F
  <2> QED BY <1>5
<1> HIDE DEF begin
<1>7. /\ DOMAIN begin = 1 .. m + 1 /\ begin[1] = p
      /\ \A k \in 1 .. m : begin[k + 1] = Read(format[k][1], begin[k]).next
  <2>1. DOMAIN F(begin) = 1 .. m + 1 /\ F(begin)[1] = p
    BY <1>2
  <2>2. ASSUME NEW k \in 1 .. m PROVE F(begin)[k + 1] = Read(format[k][1], begin[k]).next
    <3>1. k + 1 \in 1 .. m + 1 /\ k + 1 # 1 /\ (k + 1) - 1 = k
      BY <1>2
    <3> QED BY <3>1, <1>2
  <2> HIDE DEF F
  <2> QED BY <1>6, <2>1, <2>2
<1> DEFINE next == [x \in (1 .. m) \X (Range(begin) \cup Range(qs)) |-> Read(format[x[1]][1], x[2]).next]
<1>8. ASSUME NEW k \in 1 .. m
      PROVE  next[<<k, begin[k]>>] = Read(format[k][1], begin[k]).next /\ next[<<k, qs[k]>>] = Read(format[k][1], qs[k]).next
  <2>1. k \in 1 .. m + 1
    BY <1>2
  <2>2. begin[k] \in Range(begin) \cup Range(qs) /\ qs[k] \in Range(begin) \cup Range(qs)
    BY <1>2, <1>7, <2>1 DEF Range
  <2> QED BY <2>2
<1> HIDE DEF next
<1>9. \A k \in 1 .. m + 1 : begin[k] = qs[k]
  <2>1. \A k \in 1 .. m : begin[k + 1] = next[<<k, begin[k]>>] /\ next[<<k, qs[k]>>] = qs[k + 1]
    BY <1>3, <1>7, <1>8
  <2>2. begin[1] = qs[1]
    BY <1>7
  <2>3. Follow(m, qs, begin, next)
    BY <2>1, <2>2 DEF Follow
  <2> QED BY <1>2, <2>3, PlacesFollow
<1>10. read.next = begin[m + 1] /\ read.begins = begin
      /\ read.arg = [name \in {format[k][2] : k \in DOMAIN format} |-> operand(name)]
  <2> DEFINE args == [name \in {format[k][2] : k \in DOMAIN format} |-> operand(name)]
  <2>1. read = [arg |-> args, begins |-> begin, next |-> begin[Len(format) + 1]]
    BY <1>1
  <2> HIDE DEF args
  <2>2. read.next = begin[Len(format) + 1] /\ read.begins = begin /\ read.arg = args
    BY <2>1
  <2> QED BY <1>2, <2>2 DEF args
<1>11. ASSUME NEW k \in 1 .. m
      PROVE operand(format[k][2]) = Operand(inst, format[k][2])
  <2>1. PICK c : c = CHOOSE n \in DOMAIN format : format[n][2] = format[k][2]
    OBVIOUS
  <2>2. c = k
    BY <1>2, <2>1
  <2>3. begin[k] = qs[k]
    BY <1>2, <1>9
  <2>4. operand(format[k][2]) = Resolved(format[k][1], format[k][2], Read(format[k][1], qs[k]).value)
    BY <2>1, <2>2, <2>3
  <2> QED BY <1>4, <2>4
<1> HIDE DEF operand
<1>12. m + 1 \in 1 .. m + 1
  BY <1>2
<1>13. \A k \in 1 .. m : read.arg[format[k][2]] = operand(format[k][2])
  BY <1>2, <1>10
<1> QED BY <1>9, <1>10, <1>11, <1>12, <1>13 DEF OperandsAre

\* A vector of numbers behind their count.
LabelsAt(p, labels, n, qs) ==
    /\ n = Len(labels) /\ DOMAIN qs = 1 .. n + 1 /\ qs = [k \in 1 .. n + 1 |-> qs[k]]
    /\ ReadULEB(p).value = n /\ ReadULEB(p).next = qs[1]
    /\ \A k \in 1 .. n : ReadULEB(qs[k]).next = qs[k + 1] /\ ReadULEB(qs[k]).value = labels[k]
LEMMA LabelsRead ==
    ASSUME NEW p, NEW labels, IsSeq(labels), NEW n, NEW qs, LabelsAt(p, labels, n, qs),
           NEW read, read = ReadLabels(p)
    PROVE  read.value = labels /\ read.next = qs[n + 1]
<1>1. /\ n = Len(labels) /\ DOMAIN qs = 1 .. n + 1 /\ qs = [k \in 1 .. n + 1 |-> qs[k]]
      /\ ReadULEB(p).value = n /\ ReadULEB(p).next = qs[1]
      /\ \A k \in 1 .. n : ReadULEB(qs[k]).next = qs[k + 1] /\ ReadULEB(qs[k]).value = labels[k]
  BY DEF LabelsAt
<1> DEFINE cnt == ReadULEB(p)
           F(g) == [k \in 1 .. cnt.value + 1 |-> IF k = 1 THEN cnt.next ELSE ReadULEB(g[k - 1]).next]
           begin == CHOOSE g : g = F(g)
<1>2. ReadLabels(p) = [value |-> [k \in 1 .. cnt.value |-> ReadULEB(begin[k]).value], next |-> begin[cnt.value + 1]]
  BY DEF ReadLabels
<1>3. n \in Nat /\ cnt.value = n /\ cnt.next = qs[1] /\ labels = [k \in 1 .. n |-> labels[k]]
  <2>1. n \in Nat /\ labels \in [1 .. n -> ToSet(labels)]
    BY <1>1, LenProperties DEF IsSeq
  <2> QED BY <1>1, <2>1
<1> HIDE DEF cnt
<1>4. qs = F(qs)
  <2>1. ASSUME NEW k \in 1 .. n + 1 PROVE qs[k] = F(qs)[k]
    <3>1. CASE k = 1
      BY <1>3, <3>1
    <3>2. CASE k # 1
      <4>1. k - 1 \in 1 .. n /\ (k - 1) + 1 = k
        BY <1>3, <3>2
      <4>2. ReadULEB(qs[k - 1]).next = qs[k]
        BY <1>1, <4>1
      <4> QED BY <1>3, <3>2, <4>2
    <3> QED BY <3>1, <3>2
  <2>2. F(qs) = [k \in 1 .. n + 1 |-> F(qs)[k]]
    BY <1>3
  <2>3. [k \in 1 .. n + 1 |-> qs[k]] = [k \in 1 .. n + 1 |-> F(qs)[k]]
    <3> HIDE DEF F
    <3> QED BY <2>1
  <2> HIDE DEF F
  <2> QED BY <1>1, <2>2, <2>3
<1>5. begin = F(begin)
  <2> HIDE DEF F
  <2> QED BY <1>4
<1> HIDE DEF begin
<1>6. /\ DOMAIN begin = 1 .. n + 1 /\ begin[1] = qs[1]
      /\ \A k \in 1 .. n : begin[k + 1] = ReadULEB(begin[k]).next
  <2>1. DOMAIN F(begin) = 1 .. n + 1 /\ F(begin)[1] = qs[1]
    BY <1>3
  <2>2. ASSUME NEW k \in 1 .. n PROVE F(begin)[k + 1] = ReadULEB(begin[k]).next
    <3>1. k + 1 \in 1 .. n + 1 /\ k + 1 # 1 /\ (k + 1) - 1 = k
      BY <1>3
    <3> QED BY <3>1, <1>3
  <2> HIDE DEF F
  <2> QED BY <1>5, <2>1, <2>2
<1> DEFINE next == [x \in (1 .. n) \X (Range(begin) \cup Range(qs)) |-> ReadULEB(x[2]).next]
<1>7. ASSUME NEW k \in 1 .. n
      PROVE  next[<<k, begin[k]>>] = ReadULEB(begin[k]).next /\ next[<<k, qs[k]>>] = ReadULEB(qs[k]).next
  <2>1. k \in 1 .. n + 1
    BY <1>3
  <2>2. begin[k] \in Range(begin) \cup Range(qs) /\ qs[k] \in Range(begin) \cup Range(qs)
    BY <1>1, <1>6, <2>1 DEF Range
  <2> QED BY <2>2
<1> HIDE DEF next
<1>8. \A k \in 1 .. n + 1 : begin[k] = qs[k]
  <2>1. \A k \in 1 .. n : begin[k + 1] = next[<<k, begin[k]>>] /\ next[<<k, qs[k]>>] = qs[k + 1]
    BY <1>1, <1>6, <1>7
  <2>2. begin[1] = qs[1]
    BY <1>6
  <2>3. Follow(n, qs, begin, next)
    BY <2>1, <2>2 DEF Follow
  <2> QED BY <1>3, <2>3, PlacesFollow
<1>9. [k \in 1 .. n |-> ReadULEB(begin[k]).value] = [k \in 1 .. n |-> labels[k]]
  <2>1. ASSUME NEW k \in 1 .. n PROVE ReadULEB(begin[k]).value = labels[k]
    <3>1. k \in 1 .. n + 1
      BY <1>3
    <3>2. begin[k] = qs[k]
      BY <3>1, <1>8
    <3> QED BY <1>1, <3>2
  <2> QED BY <2>1
<1>10. read.value = [k \in 1 .. n |-> ReadULEB(begin[k]).value] /\ read.next = begin[n + 1]
  BY <1>2, <1>3
<1>11. begin[n + 1] = qs[n + 1]
  <2>1. n + 1 \in 1 .. n + 1
    BY <1>3
  <2> QED BY <2>1, <1>8
<1> QED BY <1>3, <1>9, <1>10, <1>11

-----------------------------------------------------------------------------
(* Block types *)

\* The first byte of a positive type index is not that of another block type.
LEMMA FirstByteOther ==
    ASSUME NEW v \in Int, v > 0, FitsSLEB(v, 4), NEW n \in LengthSLEB(v) .. 7, NEW p, At(p, Groups(v, n))
    PROVE  ByteAt(p) \notin ValueTypes \cup {\h40}
<1>1. n \in 1 .. 7 /\ 1 \in 1 .. n
  BY LengthIs
<1>2. ByteAt(p) = Groups(v, n)[1]
  <2>1. ByteAt(p + 1 - 1) = Groups(v, n)[1] /\ p \in Nat
    BY <1>1, LEBEndIs
  <2> QED BY <2>1
<1> DEFINE g == Groups(v, n)[1]
<1>3. g \in Nat /\ (1 < n => g >= 128) /\ (n = 1 => g < 128) /\ g % 128 = (v \div 128 ^ (1 - 1)) % 128
  <2>1. /\ Groups(v, n)[1] \in Nat /\ (1 < n => Groups(v, n)[1] >= 128) /\ (1 = n => Groups(v, n)[1] < 128)
        /\ 1 <= 4 => Groups(v, n)[1] % 128 = (v \div 128 ^ (1 - 1)) % 128
    BY <1>1, GroupBytes, ZenonT(40)
  <2> QED BY <2>1
<1> HIDE DEF g
<1>4. CASE n = 1
  <2>1. v < 64
    <3>1. LengthSLEB(v) = 1
      BY <1>4, LengthIs
    <3>2. FitsSLEB(v, 1)
      BY <3>1 DEF LengthSLEB
    <3> QED BY <3>2, SMT DEF FitsSLEB
  <2>2. g = v
    <3>1. g % 128 = (v \div 128 ^ 0) % 128 /\ g < 128
      BY <1>3, <1>4
    <3> QED BY <1>3, <2>1, <3>1, SMT
  <2> QED BY <1>2, <2>1, <2>2 DEF ValueTypes, g
<1>5. CASE n # 1
  BY <1>1, <1>2, <1>3, <1>5 DEF ValueTypes, g
<1> QED BY <1>4, <1>5

\* The type at a positive index.
LEMMA TypeRead ==
    ASSUME NEW v \in Int, v > 0, FitsSLEB(v, 4), NEW p, NEW s, At(p, s), Holds(s, S(v))
    PROVE  /\ ReadBlockType(p).value = <<"object", ObjectAt("types", v)>>
           /\ ReadBlockType(p).next = p + Len(s)
<1>1. PICK n \in LengthSLEB(v) .. 7 : s = Groups(v, n)
  BY HoldsAre
<1>2. ByteAt(p) \notin ValueTypes \cup {\h40}
  BY <1>1, FirstByteOther
<1>3. ReadSLEB(p).value = v /\ ReadSLEB(p).next = p + Len(s)
  BY SignedRead
<1> DEFINE t == ObjectAt("types", v)
<1>4. ReadBlockType(p) =
        [value |-> IF ReadSLEB(p).value > 0 THEN <<"object", ObjectAt("types", ReadSLEB(p).value)>> ELSE <<"invalid">>,
         next |-> ReadSLEB(p).next]
  BY <1>2 DEF ReadBlockType
<1> QED BY <1>3, <1>4

LEMMA RestoresBlock ==
    ASSUME NEW inst, IsBlock(inst), ~BlockTypeInvalid(inst),
           NEW t, t = inst.arg.type, t[1] \in {"number", "typeidx", "object"},
           InBound("blocktype", t), NEW f, f = BlockTypeField(t), f # S(0)
    PROVE  Restores(f, "blocktype", "type", Operand(inst, "type"))
<1> SUFFICES ASSUME NEW p, NEW s, At(p, s), Holds(s, f)
             PROVE  ReadBlockType(p).next = p + Len(s) /\ ReadBlockType(p).value = Operand(inst, "type")
  BY DEF Restores, Read, Resolved
<1>1. t = <<t[1], t[2]>> /\ (t[1] = "typeidx" => t[2] \in 0 .. Len(Vector["types"]) - 1)
  BY DEF InBound
<1>2. inst.arg["type"] = t
  OBVIOUS
<1>3. CASE t[1] = "number"
  <2>1. t[2] \in ValueTypes \cup {\h40}
    BY <1>3 DEF BlockTypeInvalid
  <2>2. t[2] \in 0 .. 255 /\ f = U8(t[2])
    BY <1>3, <2>1 DEF ValueTypes, BlockTypeField
  <2>3. ByteAt(p) = t[2] /\ Len(s) = 1
    BY <2>2, ByteRead
  <2>4. ReadBlockType(p) = [value |-> <<"number", t[2]>>, next |-> p + 1]
    BY <2>1, <2>3 DEF ReadBlockType
  <2>5. Operand(inst, "type") = t
    BY <1>2, <1>3 DEF Operand
  <2> QED BY <1>1, <1>3, <2>3, <2>4, <2>5
<1>4. CASE t[1] = "typeidx"
  <2> DEFINE v == t[2]
  <2>1. f = S(v) /\ v # 0
    BY <1>4 DEF BlockTypeField
  <2>2. v \in Nat /\ v < Len(Vector["types"]) /\ Len(Vector["types"]) \in Nat /\ Len(Vector["types"]) < 64 * 128 ^ 3
    <3>1. "types" \in DOMAIN Vector
      BY VectorAssumption DEF Spaces
    <3>2. Len(Vector["types"]) < 64 * 128 ^ 3
      BY <3>1, CodesAssumption, Zenon
    <3>3. Len(Vector["types"]) \in Nat
      BY <3>1, VectorAssumption, SeqIsSeq, IsSeqLen
    <3> QED BY <1>1, <1>4, <3>2, <3>3
  <2> HIDE DEF v
  <2>3. v \in Int /\ v > 0 /\ FitsSLEB(v, 4)
    BY <2>1, <2>2, SMT DEF FitsSLEB
  <2>4. ObjectAt("types", v) = Vector["types"][v + 1]
    BY <2>2 DEF ObjectAt
  <2>5. Operand(inst, "type") = <<"object", Vector["types"][v + 1]>>
    BY <1>4 DEF Operand, v
  <2> QED BY <2>1, <2>3, <2>4, <2>5, TypeRead
<1>5. CASE t[1] = "object"
  <2> DEFINE v == Index("types", t[2])
  <2>1. f = S(v) /\ v # -1 /\ v # 0
    BY <1>5 DEF BlockTypeField, BlockTypeInvalid
  <2>2. Bounded(v) /\ FitsSLEB(v, 4) /\ ObjectAt("types", v) = t[2]
    BY <2>1, ObjectFound DEF Spaces
  <2> HIDE DEF v
  <2>3. v \in Int /\ v > 0
    BY <2>1, <2>2, SMT DEF Bounded
  <2>4. Operand(inst, "type") = t
    BY <1>2, <1>5 DEF Operand
  <2> QED BY <1>1, <1>5, <2>1, <2>2, <2>3, <2>4, TypeRead
<1> QED BY <1>3, <1>4, <1>5

-----------------------------------------------------------------------------
(* An instruction whose operands are found *)

IsShort(op) == op \in 0 .. \hFB
IsLong(op) == op \in \hFC00 .. \hFEFF
LEMMA ShortIs ==
    ASSUME NEW op, IsShort(op)
    PROVE  B1(op) = op /\ B2(op) = 0 /\ op \notin {\hFC, \hFD, \hFE} /\ op <= \hFF /\ op \in Nat
BY PrefixIs DEF IsShort, B2

LEMMA LongIs ==
    ASSUME NEW op, IsLong(op)
    PROVE  /\ op \in Nat /\ op > \hFF /\ ~(op <= \hFF)
           /\ B1(op) \in {\hFC, \hFD, \hFE} /\ B2(op) \in 0 .. 255 /\ 256 * B1(op) + B2(op) = op
           /\ op \notin \hFC12 .. \hFCFF => ~(B1(op) = \hFC /\ B2(op) > 17)
<1>1. op \in Int /\ op > \hFF /\ B1(op) \in {\hFC, \hFD, \hFE} /\ B2(op) \in 0 .. 255 /\ op = 256 * B1(op) + B2(op)
  BY PrefixIs DEF IsLong
<1> QED BY <1>1

LEMMA NotBoth ==
    ASSUME NEW op
    PROVE  ~(IsShort(op) /\ IsLong(op))
<1> SUFFICES ASSUME IsShort(op), IsLong(op) PROVE FALSE
  OBVIOUS
<1>1. op <= \hFF
  BY ShortIs
<1>2. ~(op <= \hFF)
  BY LongIs
<1> QED BY <1>1, <1>2

\* The opcode at p ends before q.
OpcodeAt(p, op, q) ==
    /\ ~PastEnd(p) /\ ByteAt(p) = B1(op)
    /\ op > \hFF => ReadULEB(p + 1).value = B2(op) /\ ReadULEB(p + 1).next = q
    /\ op <= \hFF => q = p + 1

PaddedOps == MemoryOps \cup \hFE10 .. \hFE4E
LEMMA ConstIs ==
    ASSUME NEW op \in {\h41, \h42}
    PROVE  op \notin PaddedOps /\ op <= \hFF
BY DEF PaddedOps, MemoryOps

Prefixed(b1) == b1 \in {\hFC, \hFD, \hFE}
Sub(p) == IF Prefixed(ByteAt(p)) THEN ReadULEB(p + 1) ELSE [value |-> 0, next |-> p + 1]
KnownAt(p) == Supported(ByteAt(p), Sub(p).value) /\ ~(ByteAt(p) = \hFC /\ Sub(p).value > 17)
OpAt(p) == IF Prefixed(ByteAt(p)) THEN 256 * ByteAt(p) + Sub(p).value ELSE ByteAt(p)
LEMMA InstructionParts ==
    ASSUME NEW p
    PROVE  Instruction(p) =
             Decoded(OpAt(p), KnownAt(p), p,
                     Operands(IF KnownAt(p) THEN FormatOf(ByteAt(p), Sub(p).value) ELSE <<>>, Sub(p).next))
BY DEF Instruction, OpAt, KnownAt, Sub, Prefixed

LEMMA OpcodeParts ==
    ASSUME NEW op, IsShort(op) \/ IsLong(op), IsKnown(op), NEW p, NEW q, OpcodeAt(p, op, q)
    PROVE  OpAt(p) = op /\ KnownAt(p) /\ ByteAt(p) = B1(op) /\ Sub(p).value = B2(op) /\ Sub(p).next = q
<1>1. CASE IsShort(op)
  <2>1. B1(op) = op /\ B2(op) = 0 /\ op \notin {\hFC, \hFD, \hFE} /\ op <= \hFF
    BY <1>1, ShortIs
  <2>2. ByteAt(p) = op /\ ~Prefixed(ByteAt(p)) /\ q = p + 1
    BY <2>1 DEF OpcodeAt, Prefixed
  <2>3. Sub(p) = [value |-> 0, next |-> p + 1] /\ OpAt(p) = op
    BY <2>2 DEF Sub, OpAt
  <2>4. ByteAt(p) # \hFC
    BY <2>1, <2>2
  <2>5. Supported(B1(op), B2(op))
    BY DEF IsKnown
  <2>6. Sub(p).value = 0 /\ Sub(p).next = p + 1
    BY <2>3
  <2> QED BY <2>1, <2>2, <2>3, <2>4, <2>5, <2>6 DEF KnownAt
<1>2. CASE IsLong(op)
  <2>1. /\ op > \hFF /\ B1(op) \in {\hFC, \hFD, \hFE} /\ 256 * B1(op) + B2(op) = op
        /\ op \notin \hFC12 .. \hFCFF => ~(B1(op) = \hFC /\ B2(op) > 17)
    BY <1>2, LongIs
  <2>2. ByteAt(p) = B1(op) /\ Prefixed(ByteAt(p)) /\ ReadULEB(p + 1).value = B2(op) /\ ReadULEB(p + 1).next = q
    BY <2>1 DEF OpcodeAt, Prefixed
  <2>3. Sub(p) = ReadULEB(p + 1)
    BY <2>2 DEF Sub
  <2>4. OpAt(p) = 256 * B1(op) + B2(op)
    BY <2>2, <2>3 DEF OpAt
  <2>5. Supported(B1(op), B2(op)) /\ ~(B1(op) = \hFC /\ B2(op) > 17)
    BY <2>1 DEF IsKnown
  <2>6. KnownAt(p)
    BY <2>2, <2>3, <2>5 DEF KnownAt
  <2> QED BY <2>1, <2>2, <2>3, <2>4, <2>6
<1> QED BY <1>1, <1>2

InstIs(r, inst, op, p, m, qs) ==
    /\ r.op = op /\ r.known = TRUE /\ r.next = qs[m + 1] /\ SameInst(r, inst)
    /\ op \notin PaddedOps => r.rloc = p + 1
    /\ op \in PaddedOps /\ m >= 1 => r.rloc = qs[2]

LEMMA InstFrom ==
    ASSUME NEW inst, NEW op, op = inst.op, IsShort(op) \/ IsLong(op), IsKnown(op), HasOperands(inst), NEW p,
           NEW format, format = FormatOf(B1(op), B2(op)), NEW m, IsFormat(format, m),
           NEW qs, IsPlaces(qs, m), NEW q, q = qs[1], OpcodeAt(p, op, q), Located(inst, format, m, qs),
           NEW r, r = Instruction(p)
    PROVE  InstIs(r, inst, op, p, m, qs)
<1>1. PICK read : read = Operands(format, q)
  OBVIOUS
<1>2. r = Decoded(op, TRUE, p, read)
  <2>1. OpAt(p) = op /\ KnownAt(p) /\ ByteAt(p) = B1(op) /\ Sub(p).value = B2(op) /\ Sub(p).next = q
    BY OpcodeParts
  <2>2. KnownAt(p) = TRUE
    BY <2>1 DEF KnownAt
  <2> QED BY <1>1, <2>1, <2>2, InstructionParts
<1>3. r.op = op /\ r.known = TRUE /\ r.next = read.next /\ r.arg = read.arg
      /\ r.rloc = IF op \in PaddedOps THEN read.begins[2] ELSE p + 1
  BY <1>2 DEF Decoded, PaddedOps
<1>4. /\ read.next = qs[m + 1] /\ \A k \in 1 .. m + 1 : read.begins[k] = qs[k]
      /\ DOMAIN read.arg = {format[k][2] : k \in DOMAIN format}
      /\ \A k \in 1 .. m : read.arg[format[k][2]] = Operand(inst, format[k][2])
  <2>1. OperandsAre(read, inst, format, m, qs)
    BY <1>1, OperandsRead
  <2> QED BY <2>1 DEF OperandsAre
<1>5. SameInst(r, inst)
  <2>1. DOMAIN inst.arg = {format[k][2] : k \in DOMAIN format} /\ DOMAIN format = 1 .. m
    BY DEF HasOperands, IsFormat
  <2>2. ASSUME NEW name \in DOMAIN inst.arg PROVE read.arg[name] = Operand(inst, name)
    <3>1. PICK k \in 1 .. m : name = format[k][2]
      BY <2>1
    <3> QED BY <3>1, <1>4
  <2> QED BY <1>3, <1>4, <2>1, <2>2 DEF SameInst
<1>6. m >= 1 => read.begins[2] = qs[2]
  <2>1. m \in Nat
    BY DEF IsFormat
  <2> QED BY <1>4, <2>1
<1> QED BY <1>3, <1>4, <1>5, <1>6 DEF InstIs

-----------------------------------------------------------------------------
(* The fields of an instruction, one behind the other *)

Solid(f) == \A s : Holds(s, f) => IsSeq(s)
LEMMA FormsSolid ==
    ASSUME NEW v
    PROVE  /\ Solid(U8(v)) /\ Solid(U(v)) /\ Solid(S(v)) /\ Solid(RelocU(v)) /\ Solid(RelocS(v))
           /\ IsSeq(v) => Solid(Raw(v))
<1>1. ASSUME NEW s, Holds(s, U8(v)) PROVE IsSeq(s)
  <2>1. s = <<LowByte(v)>>
    BY <1>1, HoldsAre
  <2> QED BY <2>1, SingletonIs
<1>2. ASSUME NEW s, \E n \in LengthULEB(v) .. 7 : s = Groups(v, n) PROVE IsSeq(s)
  <2>1. PICK n \in LengthULEB(v) .. 7 : s = Groups(v, n)
    BY <1>2
  <2>2. n \in Nat
    BY LengthIs
  <2> QED BY <2>1, <2>2, GroupsLength
<1>3. ASSUME NEW s, \E n \in LengthSLEB(v) .. 7 : s = Groups(v, n) PROVE IsSeq(s)
  <2>1. PICK n \in LengthSLEB(v) .. 7 : s = Groups(v, n)
    BY <1>3
  <2>2. n \in Nat
    BY LengthIs
  <2> QED BY <2>1, <2>2, GroupsLength
<1>4. Solid(U8(v))
  BY <1>1 DEF Solid
<1>5. Solid(U(v))
  BY <1>2, HoldsAre DEF Solid
<1>6. Solid(RelocU(v))
  BY <1>2, HoldsAre DEF Solid
<1>7. Solid(S(v))
  BY <1>3, HoldsAre DEF Solid
<1>8. Solid(RelocS(v))
  BY <1>3, HoldsAre DEF Solid
<1>9. IsSeq(v) => Solid(Raw(v))
  BY HoldsAre DEF Solid
<1> QED BY <1>4, <1>5, <1>6, <1>7, <1>8, <1>9

AllSolid(fs) == IsSeq(fs) /\ \A k \in DOMAIN fs : Solid(fs[k])

LEMMA OpcodeIs ==
    ASSUME NEW op
    PROVE  /\ IsShort(op) => Opcode(op) = <<U8(B1(op))>>
           /\ IsLong(op) => Opcode(op) = <<U8(B1(op)), U(B2(op))>>
<1>1. IsShort(op) => ~(op > \hFF)
  BY ShortIs
<1>2. IsLong(op) => op > \hFF
  BY LongIs
<1>3. <<U8(B1(op))>> \o <<>> = <<U8(B1(op))>>
  BY ConcatTwo
<1>4. <<U8(B1(op))>> \o <<U(B2(op))>> = <<U8(B1(op)), U(B2(op))>>
  BY ConcatTwo
<1> QED BY <1>1, <1>2, <1>3, <1>4 DEF Opcode

\* The fields fs lie at the places qs, in the pieces that follow o others.
FieldsAt(fs, m, ss, o, qs) ==
    \A k \in 1 .. m : /\ At(qs[k], ss[o + k]) /\ Holds(ss[o + k], fs[k])
                      /\ qs[k + 1] = qs[k] + Len(ss[o + k])

\* Where its pieces lie.
LEMMA PiecesAt ==
    ASSUME NEW w, AllSolid(w), NEW ss, DOMAIN ss = DOMAIN w, IsSeq(ss), \A k \in DOMAIN ss : Holds(ss[k], w[k]),
           NEW p, At(p, FlattenSeq(ss)), NEW n, n = Len(w)
    PROVE  \E qs : /\ IsPlaces(qs, n) /\ FieldsAt(w, n, ss, 0, qs)
                   /\ p = qs[1] /\ p + Len(FlattenSeq(ss)) = qs[n + 1] /\ Len(ss) = n
<1> DEFINE lens == LensOf(ss)
           qs == [k \in 1 .. n + 1 |-> p + Total(lens, k - 1)]
<1>1. n \in Nat /\ DOMAIN w = 1 .. n /\ DOMAIN ss = 1 .. n /\ Len(ss) = n /\ p \in Nat
  <2>1. n \in Nat /\ DOMAIN w = 1 .. n
    BY IsSeqLen DEF AllSolid
  <2>2. Len(ss) \in Nat /\ DOMAIN ss = 1 .. Len(ss)
    BY IsSeqLen
  <2>3. Len(ss) = n
    BY <2>1, <2>2
  <2> QED BY <2>1, <2>2, <2>3 DEF At
<1>2. \A k \in DOMAIN ss : IsSeq(ss[k])
  BY DEF AllSolid, Solid
<1>3. /\ \A k \in DOMAIN ss : At(p + Total(lens, k - 1), ss[k]) /\ lens[k] \in Nat /\ lens[k] = Len(ss[k])
      /\ Len(FlattenSeq(ss)) = Total(lens, Len(ss))
  BY <1>2, AtFlatten
<1> HIDE DEF lens
<1>4. Total(lens, 0) = 0
  BY NextTotal, <1>1
<1>5. ASSUME NEW k \in 1 .. n
      PROVE  /\ Total(lens, k - 1) \in Nat /\ Total(lens, k) = Total(lens, k - 1) + Len(ss[k])
             /\ Total(lens, k) \in Nat
  <2>1. k - 1 \in Nat /\ (k - 1) + 1 = k /\ \A j \in 1 .. k : lens[j] \in Nat
    BY <1>1, <1>3
  <2>2. \A j \in 1 .. k - 1 : lens[j] \in Nat
    BY <2>1
  <2>3. Total(lens, k - 1) \in Nat /\ Total(lens, (k - 1) + 1) = Total(lens, k - 1) + lens[(k - 1) + 1]
    BY <2>1, <2>2, NextTotal
  <2>4. lens[k] = Len(ss[k]) /\ lens[k] \in Nat
    BY <1>1, <1>3
  <2> QED BY <2>1, <2>3, <2>4
<1>6. IsPlaces(qs, n)
  BY DEF IsPlaces
<1>7. qs[1] = p /\ qs[n + 1] = p + Total(lens, n)
  BY <1>1, <1>4
<1>8. ASSUME NEW k \in 1 .. n
      PROVE  At(qs[k], ss[0 + k]) /\ Holds(ss[0 + k], w[k]) /\ qs[k + 1] = qs[k] + Len(ss[0 + k])
  <2>1. qs[k] = p + Total(lens, k - 1) /\ qs[k + 1] = p + Total(lens, k) /\ 0 + k = k
    BY <1>1
  <2>2. Len(ss[k]) \in Nat /\ k \in DOMAIN ss
    BY <1>1, <1>3
  <2>3. Holds(ss[k], w[k]) /\ At(p + Total(lens, k - 1), ss[k])
    BY <2>2, <1>3
  <2>4. p + Total(lens, k) = (p + Total(lens, k - 1)) + Len(ss[k])
    BY <2>2, <1>1, <1>5
  <2> HIDE DEF qs
  <2> QED BY <2>1, <2>3, <2>4
<1> HIDE DEF qs
<1>9. FieldsAt(w, n, ss, 0, qs)
  BY <1>8 DEF FieldsAt
<1> QED BY <1>1, <1>3, <1>6, <1>7, <1>9

LEMMA OpcodeSolid ==
    ASSUME NEW op, IsShort(op) \/ IsLong(op), NEW o, o = Len(Opcode(op))
    PROVE  /\ AllSolid(Opcode(op)) /\ (IsShort(op) => o = 1) /\ (IsLong(op) => o = 2)
           /\ Opcode(op)[1] = U8(B1(op)) /\ (IsLong(op) => Opcode(op)[2] = U(B2(op)))
<1>1. CASE IsShort(op)
  <2> DEFINE a == U8(B1(op))
  <2>1. Opcode(op) = <<a>> /\ Solid(a) /\ ~IsLong(op)
    BY <1>1, OpcodeIs, FormsSolid, NotBoth
  <2> HIDE DEF a
  <2>2. IsSeq(<<a>>) /\ Len(<<a>>) = 1 /\ <<a>>[1] = a /\ DOMAIN <<a>> = {1}
    BY SingletonIs
  <2> QED BY <1>1, <2>1, <2>2 DEF AllSolid, a
<1>2. CASE IsLong(op)
  <2> DEFINE a == U8(B1(op))
             b == U(B2(op))
  <2>1. Opcode(op) = <<a, b>> /\ Solid(a) /\ Solid(b) /\ ~IsShort(op)
    BY <1>2, OpcodeIs, FormsSolid, NotBoth
  <2> HIDE DEF a, b
  <2>2. IsSeq(<<a, b>>)
    BY PairIsSeq
  <2>3. Len(<<a, b>>) = 2 /\ <<a, b>>[1] = a /\ <<a, b>>[2] = b /\ DOMAIN <<a, b>> = {1, 2}
    OBVIOUS
  <2>4. AllSolid(<<a, b>>)
    BY <2>1, <2>2, <2>3 DEF AllSolid
  <2> QED BY <1>2, <2>1, <2>3, <2>4 DEF a, b
<1> QED BY <1>1, <1>2

LEMMA SolidConcat ==
    ASSUME NEW fs, AllSolid(fs), NEW gs, AllSolid(gs)
    PROVE  AllSolid(fs \o gs)
<1>1. IsSeq(fs) /\ IsSeq(gs)
  BY DEF AllSolid
<1>2. IsSeq(fs \o gs) /\ \A k \in DOMAIN (fs \o gs) :
         \/ k \in DOMAIN fs /\ (fs \o gs)[k] = fs[k]
         \/ k - Len(fs) \in DOMAIN gs /\ (fs \o gs)[k] = gs[k - Len(fs)]
  BY <1>1, ConcatElements
<1> DEFINE c == fs \o gs
<1> HIDE DEF c
<1>3. ASSUME NEW k \in DOMAIN c PROVE Solid(c[k])
  BY <1>2, <1>3 DEF AllSolid, c
<1> QED BY <1>2, <1>3 DEF AllSolid, c

\* The opcode of an instruction and its fields.
Found(p, op, fs, m, ss, o, qs) ==
    /\ o \in {1, 2} /\ p \in Nat /\ IsPlaces(qs, m) /\ OpcodeAt(p, op, qs[1]) /\ FieldsAt(fs, m, ss, o, qs)
    /\ qs[m + 1] = p + Len(FlattenSeq(ss)) /\ Len(ss) = o + m /\ qs[1] > p

LEMMA ByteBounded ==
    ASSUME NEW v \in 0 .. 255
    PROVE  Bounded(v)
BY SMT DEF Bounded

LEMMA FieldsFound ==
    ASSUME NEW inst, NEW op, op = inst.op, IsShort(op) \/ IsLong(op),
           NEW fs, AllSolid(fs), Written(inst) = Opcode(op) \o fs,
           NEW ss, IsCode(ss, inst), NEW p, At(p, FlattenSeq(ss)), NEW m, m = Len(fs)
    PROVE  \E o, qs : Found(p, op, fs, m, ss, o, qs)
<1>1. PICK o : o = Len(Opcode(op))
  OBVIOUS
<1> DEFINE w == Opcode(op) \o fs
<1>2. /\ AllSolid(Opcode(op)) /\ (IsShort(op) => o = 1) /\ (IsLong(op) => o = 2)
      /\ Opcode(op)[1] = U8(B1(op)) /\ (IsLong(op) => Opcode(op)[2] = U(B2(op)))
  BY <1>1, OpcodeSolid
<1>3. o \in {1, 2} /\ m \in Nat /\ DOMAIN fs = 1 .. m
  BY <1>2, IsSeqLen DEF AllSolid
<1>4. AllSolid(w)
  BY <1>2, SolidConcat
<1>5. /\ Len(w) = o + m
      /\ \A k \in 1 .. o + m : w[k] = IF k <= o THEN Opcode(op)[k] ELSE fs[k - o]
  BY <1>1, <1>2, ConcatIsSeq DEF AllSolid
<1> HIDE DEF w
<1>6. DOMAIN ss = DOMAIN w /\ IsSeq(ss) /\ \A k \in DOMAIN ss : Holds(ss[k], w[k])
  <2>1. w = Written(inst)
    BY DEF w
  <2> QED BY <2>1, SeqIsSeq DEF IsCode
<1> DEFINE n == o + m
<1>7. PICK ps : /\ IsPlaces(ps, n) /\ FieldsAt(w, n, ss, 0, ps)
                /\ p = ps[1] /\ p + Len(FlattenSeq(ss)) = ps[n + 1] /\ Len(ss) = n
  BY <1>4, <1>5, <1>6, PiecesAt
<1>8. p \in Nat
  BY DEF At
<1>9. \A k \in 1 .. n : At(ps[k], ss[k]) /\ Holds(ss[k], w[k]) /\ ps[k + 1] = ps[k] + Len(ss[k])
  <2>1. ASSUME NEW k \in 1 .. n PROVE At(ps[k], ss[k]) /\ Holds(ss[k], w[k]) /\ ps[k + 1] = ps[k] + Len(ss[k])
    <3>1. 0 + k = k
      BY <1>3
    <3> QED BY <3>1, <1>7 DEF FieldsAt
  <2> QED BY <2>1
<1> DEFINE qs == [k \in 1 .. m + 1 |-> ps[o + k]]
<1>10. OpcodeAt(p, op, ps[o + 1])
  <2>1. 1 \in 1 .. n /\ w[1] = U8(B1(op))
    BY <1>2, <1>3, <1>5
  <2>2. At(p, ss[1]) /\ Holds(ss[1], U8(B1(op))) /\ ps[2] = p + Len(ss[1])
    BY <2>1, <1>7, <1>9
  <2>3. B1(op) \in 0 .. 255
    <3>1. ASSUME IsShort(op) PROVE B1(op) \in 0 .. 255
      <4>1. B1(op) = op
        BY <3>1, ShortIs
      <4>2. op \in 0 .. 255
        BY <3>1 DEF IsShort
      <4> QED BY <4>1, <4>2
    <3>2. ASSUME IsLong(op) PROVE B1(op) \in 0 .. 255
      <4>1. B1(op) \in {\hFC, \hFD, \hFE}
        BY <3>2, LongIs
      <4> QED BY <4>1
    <3> QED BY <3>1, <3>2
  <2>4. ByteAt(p) = B1(op) /\ ps[2] = p + 1 /\ ~PastEnd(p)
    <3>1. ByteAt(p) = B1(op) /\ Len(ss[1]) = 1
      BY <2>2, <2>3, ByteRead
    <3> QED BY <2>2, <3>1 DEF At, PastEnd
  <2>5. CASE IsShort(op)
    <3>1. o = 1 /\ op <= \hFF /\ op \in Nat
      BY <2>5, <1>2, ShortIs
    <3> QED BY <3>1, <2>4 DEF OpcodeAt
  <2>6. CASE IsLong(op)
    <3>1. o = 2 /\ op > \hFF /\ ~(op <= \hFF) /\ B2(op) \in 0 .. 255
      BY <2>6, <1>2, LongIs
    <3>2. 2 \in 1 .. n /\ w[2] = U(B2(op))
      BY <2>6, <3>1, <1>2, <1>3, <1>5
    <3>3. At(p + 1, ss[2]) /\ Holds(ss[2], U(B2(op))) /\ ps[3] = (p + 1) + Len(ss[2])
      BY <3>2, <2>4, <1>9
    <3>4. Bounded(B2(op))
      BY <3>1, ByteBounded
    <3>5. ReadULEB(p + 1).value = B2(op) /\ ReadULEB(p + 1).next = (p + 1) + Len(ss[2])
      BY <3>3, <3>4, NumberRead
    <3> QED BY <3>1, <3>3, <3>5, <2>4 DEF OpcodeAt
  <2> QED BY <2>5, <2>6
<1>11. FieldsAt(fs, m, ss, o, qs)
  <2>1. ASSUME NEW k \in 1 .. m
        PROVE  At(qs[k], ss[o + k]) /\ Holds(ss[o + k], fs[k]) /\ qs[k + 1] = qs[k] + Len(ss[o + k])
    <3>1. o + k \in 1 .. n /\ ~(o + k <= o) /\ (o + k) - o = k
      BY <1>3
    <3>2. w[o + k] = fs[k]
      BY <3>1, <1>5
    <3>3. qs[k] = ps[o + k] /\ qs[k + 1] = ps[(o + k) + 1]
      <4>1. k \in 1 .. m + 1 /\ k + 1 \in 1 .. m + 1 /\ o + (k + 1) = (o + k) + 1
        BY <1>3
      <4> QED BY <4>1
    <3> HIDE DEF qs
    <3> QED BY <3>1, <3>2, <3>3, <1>9
  <2> HIDE DEF qs
  <2> QED BY <2>1 DEF FieldsAt
<1>12. qs[m + 1] = ps[n + 1] /\ qs[1] = ps[o + 1] /\ IsPlaces(qs, m)
  <2>1. m + 1 \in 1 .. m + 1 /\ 1 \in 1 .. m + 1 /\ o + (m + 1) = n + 1
    BY <1>3
  <2>2. IsPlaces(qs, m)
    BY DEF IsPlaces
  <2> QED BY <2>1, <2>2
<1>13. qs[1] > p
  <2>1. 1 \in 1 .. n /\ w[1] = U8(B1(op))
    BY <1>2, <1>3, <1>5
  <2>2. Holds(ss[1], U8(B1(op))) /\ ps[2] = p + Len(ss[1])
    BY <2>1, <1>7, <1>9
  <2>3. ps[2] = p + 1
    BY <2>2, HoldsAre, SingletonIs
  <2>4. o = 2 => ps[3] = ps[2] + Len(ss[2]) /\ At(ps[2], ss[2])
    BY <1>3, <1>9
  <2>5. o = 2 => Len(ss[2]) \in Nat
    BY <2>4, IsSeqLen DEF At
  <2>6. CASE o = 1
    <3>1. o + 1 = 2
      BY <2>6
    <3> QED BY <3>1, <1>8, <1>12, <2>3
  <2>7. CASE o = 2
    <3>1. o + 1 = 3
      BY <2>7
    <3>2. ps[3] = (p + 1) + Len(ss[2]) /\ Len(ss[2]) \in Nat
      BY <2>3, <2>4, <2>5, <2>7
    <3>3. ps[3] > p
      <4>1. \A a, l \in Nat : (a + 1) + l > a
        OBVIOUS
      <4> QED BY <1>8, <3>2, <4>1
    <3> QED BY <3>1, <3>3, <1>12
  <2> HIDE DEF qs
  <2> QED BY <2>6, <2>7, <1>3
<1> HIDE DEF qs
<1>14. Found(p, op, fs, m, ss, o, qs)
  BY <1>3, <1>7, <1>8, <1>10, <1>11, <1>12, <1>13 DEF Found
<1> QED BY <1>14

-----------------------------------------------------------------------------
(* Reading back what was written *)

ReadsBack(p, inst, ss) ==
    /\ Instruction(p).op = inst.op /\ Instruction(p).known = TRUE /\ ~PastEnd(p)
    /\ Instruction(p).next = p + Len(FlattenSeq(ss)) /\ SameInst(Instruction(p), inst)
    /\ inst.op \in PaddedOps \cup {\h41, \h42} =>
          Instruction(p).rloc = Instruction(p).next - Len(ss[Len(ss)]) /\ Instruction(p).rloc > p

\* Field by field, the writer and the reader agree.
Agree(inst, fs, format, m) ==
    /\ IsFormat(format, m) /\ AllSolid(fs) /\ Len(fs) = m
    /\ \A k \in 1 .. m : Restores(fs[k], format[k][1], format[k][2], Operand(inst, format[k][2]))

LEMMA AgreeReads ==
    ASSUME NEW inst, NEW op, op = inst.op, IsShort(op) \/ IsLong(op), IsKnown(op), HasOperands(inst),
           NEW fs, Written(inst) = Opcode(op) \o fs, NEW m,
           NEW format, format = FormatOf(B1(op), B2(op)), Agree(inst, fs, format, m),
           op \in PaddedOps => m = 2, op \in {\h41, \h42} => m = 1,
           NEW ss, IsCode(ss, inst), NEW p, At(p, FlattenSeq(ss))
    PROVE  ReadsBack(p, inst, ss)
<1>1. AllSolid(fs) /\ m = Len(fs) /\ IsFormat(format, m) /\ m \in Nat
  BY DEF Agree, IsFormat
<1>2. PICK o, qs : Found(p, op, fs, m, ss, o, qs)
  BY <1>1, FieldsFound
<1>3. /\ o \in {1, 2} /\ IsPlaces(qs, m) /\ OpcodeAt(p, op, qs[1]) /\ FieldsAt(fs, m, ss, o, qs)
      /\ qs[m + 1] = p + Len(FlattenSeq(ss)) /\ Len(ss) = o + m /\ p \in Nat /\ qs[1] > p
  BY <1>2 DEF Found
<1>4. \A k \in 1 .. m : At(qs[k], ss[o + k]) /\ Holds(ss[o + k], fs[k]) /\ qs[k + 1] = qs[k] + Len(ss[o + k])
  BY <1>3 DEF FieldsAt
<1>5. Located(inst, format, m, qs)
  <2>1. ASSUME NEW k \in 1 .. m PROVE FieldAt(format[k], qs[k], qs[k + 1], Operand(inst, format[k][2]))
    <3>1. Restores(fs[k], format[k][1], format[k][2], Operand(inst, format[k][2]))
      BY DEF Agree
    <3>2. At(qs[k], ss[o + k]) /\ Holds(ss[o + k], fs[k]) /\ qs[k + 1] = qs[k] + Len(ss[o + k])
      BY <1>4
    <3> QED BY <3>1, <3>2 DEF Restores, FieldAt
  <2> QED BY <2>1 DEF Located
<1>6. PICK r : r = Instruction(p)
  OBVIOUS
<1>7. /\ r.op = op /\ r.known = TRUE /\ r.next = qs[m + 1] /\ SameInst(r, inst)
      /\ op \notin PaddedOps => r.rloc = p + 1
      /\ op \in PaddedOps /\ m >= 1 => r.rloc = qs[2]
  <2>1. InstIs(r, inst, op, p, m, qs)
    BY <1>1, <1>3, <1>5, <1>6, InstFrom
  <2> QED BY <2>1 DEF InstIs
<1>8. ASSUME op \in PaddedOps \cup {\h41, \h42} PROVE r.rloc = qs[m] /\ m \in {1, 2}
  <2>1. CASE op \in {\h41, \h42}
    <3>1. op \notin PaddedOps /\ op <= \hFF /\ m = 1
      BY <2>1, ConstIs
    <3>2. qs[1] = p + 1
      BY <3>1, <1>3 DEF OpcodeAt
    <3> QED BY <3>1, <3>2, <1>7
  <2>2. CASE op \in PaddedOps
    BY <2>2, <1>7
  <2> QED BY <1>8, <2>1, <2>2
<1>9. op \in PaddedOps \cup {\h41, \h42} => r.rloc = r.next - Len(ss[Len(ss)]) /\ r.rloc > p
  <2> SUFFICES ASSUME op \in PaddedOps \cup {\h41, \h42} PROVE r.rloc = r.next - Len(ss[Len(ss)]) /\ r.rloc > p
    OBVIOUS
  <2>1. r.rloc = qs[m] /\ m \in 1 .. m /\ m \in {1, 2}
    BY <1>8
  <2>2. At(qs[m], ss[o + m]) /\ qs[m + 1] = qs[m] + Len(ss[o + m])
    BY <2>1, <1>4
  <2>3. qs[m] \in Nat /\ Len(ss[o + m]) \in Nat
    BY <2>2, IsSeqLen DEF At
  <2>4. Len(ss) = o + m /\ r.next = qs[m + 1]
    BY <1>3, <1>7
  <2>5. r.rloc = r.next - Len(ss[Len(ss)])
    BY <2>1, <2>2, <2>3, <2>4
  <2>6. qs[m] > p
    <3>1. m = 2 => At(qs[1], ss[o + 1]) /\ qs[2] = qs[1] + Len(ss[o + 1])
      BY <1>4
    <3>2. m = 2 => Len(ss[o + 1]) \in Nat /\ qs[1] \in Nat
      BY <3>1, IsSeqLen DEF At
    <3> QED BY <1>3, <2>1, <3>1, <3>2
  <2> QED BY <2>1, <2>5, <2>6
<1>10. ~PastEnd(p)
  BY <1>3 DEF OpcodeAt
<1> QED BY <1>3, <1>6, <1>7, <1>9, <1>10 DEF ReadsBack

-----------------------------------------------------------------------------
(* The field that is written and the one that is read, by their forms *)

Suits(inst, f, form, name) == Solid(f) /\ Restores(f, form, name, Operand(inst, name))

LEMMA AgreeNone ==
    ASSUME NEW inst
    PROVE  Agree(inst, <<>>, <<>>, 0)
<1>1. IsSeq(<<>>) /\ Len(<<>>) = 0 /\ DOMAIN <<>> = {}
  BY EmptyIsSeq
<1>2. AllSolid(<<>>)
  BY <1>1 DEF AllSolid
<1>3. IsFormat(<<>>, 0)
  BY <1>1 DEF IsFormat
<1> QED BY <1>1, <1>2, <1>3 DEF Agree

LEMMA AgreeOne ==
    ASSUME NEW inst, NEW f, NEW form, NEW name, Suits(inst, f, form, name)
    PROVE  Agree(inst, <<f>>, <<<<form, name>>>>, 1)
<1> DEFINE x == <<form, name>>
<1>1. x[1] = form /\ x[2] = name
  OBVIOUS
<1> HIDE DEF x
<1>2. IsSeq(<<f>>) /\ Len(<<f>>) = 1 /\ <<f>>[1] = f /\ DOMAIN <<f>> = {1}
  BY SingletonIs
<1>3. Len(<<x>>) = 1 /\ <<x>>[1] = x /\ DOMAIN <<x>> = {1}
  BY SingletonIs
<1>4. AllSolid(<<f>>)
  BY <1>2 DEF AllSolid, Suits
<1>5. IsFormat(<<x>>, 1)
  BY <1>3 DEF IsFormat
<1>6. \A k \in 1 .. 1 : Restores(<<f>>[k], <<x>>[k][1], <<x>>[k][2], Operand(inst, <<x>>[k][2]))
  <2> SUFFICES ASSUME NEW k \in 1 .. 1
               PROVE  Restores(<<f>>[k], <<x>>[k][1], <<x>>[k][2], Operand(inst, <<x>>[k][2]))
    OBVIOUS
  <2>1. k = 1
    OBVIOUS
  <2>2. <<f>>[k] = f /\ <<x>>[k][1] = form /\ <<x>>[k][2] = name
    BY <2>1, <1>1, <1>2, <1>3
  <2> QED BY <2>2 DEF Suits
<1> QED BY <1>2, <1>4, <1>5, <1>6 DEF Agree, x

LEMMA AgreeTwo ==
    ASSUME NEW inst, NEW f, NEW form, NEW name, Suits(inst, f, form, name),
           NEW g, NEW form2, NEW name2, Suits(inst, g, form2, name2), name # name2
    PROVE  Agree(inst, <<f, g>>, <<<<form, name>>, <<form2, name2>>>>, 2)
<1> DEFINE x == <<form, name>>
           y == <<form2, name2>>
<1>1. x[1] = form /\ x[2] = name /\ y[1] = form2 /\ y[2] = name2
  OBVIOUS
<1> HIDE DEF x, y
<1>2. IsSeq(<<f, g>>)
  BY PairIsSeq
<1>3. Len(<<f, g>>) = 2 /\ <<f, g>>[1] = f /\ <<f, g>>[2] = g /\ DOMAIN <<f, g>> = {1, 2}
  OBVIOUS
<1>4. Len(<<x, y>>) = 2 /\ <<x, y>>[1] = x /\ <<x, y>>[2] = y /\ DOMAIN <<x, y>> = {1, 2}
  OBVIOUS
<1>5. AllSolid(<<f, g>>)
  BY <1>2, <1>3 DEF AllSolid, Suits
<1>6. IsFormat(<<x, y>>, 2)
  <2>1. ASSUME NEW j \in 1 .. 2, NEW k \in 1 .. 2, <<x, y>>[j][2] = <<x, y>>[k][2] PROVE j = k
    <3>1. (j = 1 \/ j = 2) /\ (k = 1 \/ k = 2)
      OBVIOUS
    <3> QED BY <3>1, <2>1, <1>1, <1>4
  <2>2. DOMAIN <<x, y>> = 1 .. 2
    BY <1>4
  <2> QED BY <2>1, <2>2, <1>4 DEF IsFormat
<1>7. ASSUME NEW k \in 1 .. 2
      PROVE  Restores(<<f, g>>[k], <<x, y>>[k][1], <<x, y>>[k][2], Operand(inst, <<x, y>>[k][2]))
  <2>1. CASE k = 1
    <3>1. <<f, g>>[k] = f /\ <<x, y>>[k][1] = form /\ <<x, y>>[k][2] = name
      BY <2>1, <1>1, <1>3, <1>4
    <3> QED BY <3>1 DEF Suits
  <2>2. CASE k = 2
    <3>1. <<f, g>>[k] = g /\ <<x, y>>[k][1] = form2 /\ <<x, y>>[k][2] = name2
      BY <2>2, <1>1, <1>3, <1>4
    <3> QED BY <3>1 DEF Suits
  <2> QED BY <2>1, <2>2
<1> QED BY <1>3, <1>5, <1>6, <1>7 DEF Agree, x, y

\* What HasOperands says of a format.
Has(inst, format) ==
    /\ DOMAIN inst.arg = {format[k][2] : k \in DOMAIN format}
    /\ \A k \in DOMAIN format :
          format[k][2] \notin DOMAIN SpaceOf \/ format[k][1] = "blocktype" =>
              InBound(format[k][1], inst.arg[format[k][2]])

InBounds(inst, form, name) ==
    name \notin DOMAIN SpaceOf \/ form = "blocktype" => InBound(form, inst.arg[name])

LEMMA HasOne ==
    ASSUME NEW inst, NEW form, NEW name, Has(inst, <<<<form, name>>>>)
    PROVE  name \in DOMAIN inst.arg /\ InBounds(inst, form, name)
<1> DEFINE x == <<form, name>>
<1>1. x[1] = form /\ x[2] = name
  OBVIOUS
<1>2. Has(inst, <<x>>)
  OBVIOUS
<1> HIDE DEF x
<1>3. <<x>>[1] = x /\ DOMAIN <<x>> = {1}
  BY SingletonIs
<1> QED BY <1>1, <1>2, <1>3 DEF Has, InBounds

LEMMA HasTwo ==
    ASSUME NEW inst, NEW form, NEW name, NEW form2, NEW name2, Has(inst, <<<<form, name>>, <<form2, name2>>>>)
    PROVE  /\ name \in DOMAIN inst.arg /\ InBounds(inst, form, name)
           /\ name2 \in DOMAIN inst.arg /\ InBounds(inst, form2, name2)
<1> DEFINE x == <<form, name>>
           y == <<form2, name2>>
<1>1. x[1] = form /\ x[2] = name /\ y[1] = form2 /\ y[2] = name2
  OBVIOUS
<1>2. Has(inst, <<x, y>>)
  OBVIOUS
<1> HIDE DEF x, y
<1>3. <<x, y>>[1] = x /\ <<x, y>>[2] = y /\ DOMAIN <<x, y>> = {1, 2}
  OBVIOUS
<1> QED BY <1>1, <1>2, <1>3 DEF Has, InBounds

LEMMA OperandPlain ==
    ASSUME NEW inst, ~IsBlock(inst), NEW name
    PROVE  Operand(inst, name) = inst.arg[name]
BY DEF Operand

LEMMA SuitsIndex ==
    ASSUME NEW inst, ~IsBlock(inst), ~Missing(inst), NEW name \in DOMAIN SpaceOf, name \in DOMAIN inst.arg
    PROVE  /\ Suits(inst, IndexField(inst, name), "uleb", name)
           /\ IndexOfArg(inst, name) < 256 => Suits(inst, U8(IndexOfArg(inst, name)), "u8", name)
           /\ inst.arg[name] # "undefined"
<1>1. IndexOfArg(inst, name) # -1
  BY DEF Missing
<1>2. Operand(inst, name) = inst.arg[name]
  BY OperandPlain
<1>3. Restores(IndexField(inst, name), "uleb", name, inst.arg[name])
  BY <1>1, RestoresIndex
<1>4. IndexOfArg(inst, name) < 256 => Restores(U8(IndexOfArg(inst, name)), "u8", name, inst.arg[name])
  BY <1>1, RestoresIndexByte
<1>5. Solid(IndexField(inst, name)) /\ Solid(U8(IndexOfArg(inst, name)))
  BY FormsSolid DEF IndexField
<1>6. inst.arg[name] # "undefined"
  <2>1. "uleb" # "blocktype"
    OBVIOUS
  <2>2. PICK idx : idx = IndexOfArg(inst, name)
    OBVIOUS
  <2> QED BY <1>1, <2>1, <2>2, ArgFound
<1> QED BY <1>2, <1>3, <1>4, <1>5, <1>6 DEF Suits

LEMMA SuitsNumber ==
    ASSUME NEW inst, ~IsBlock(inst), NEW name, name \notin DOMAIN SpaceOf, InBounds(inst, "uleb", name),
           NEW v, v = inst.arg[name]
    PROVE  Suits(inst, U(v), "uleb", name) /\ Suits(inst, RelocU(v), "uleb", name)
<1>1. Bounded(v)
  BY DEF InBounds, InBound, Bounded
<1>2. Operand(inst, name) = v
  BY OperandPlain
<1>3. Restores(U(v), "uleb", name, v)
  BY <1>1, RestoresNumber
<1>4. Restores(RelocU(v), "uleb", name, v)
  BY <1>1, RestoresNumber
<1>5. Solid(U(v)) /\ Solid(RelocU(v))
  BY FormsSolid
<1> QED BY <1>2, <1>3, <1>4, <1>5 DEF Suits

LEMMA SuitsSigned ==
    ASSUME NEW inst, ~IsBlock(inst), NEW name, name \notin DOMAIN SpaceOf, InBounds(inst, "sleb", name),
           NEW v, v = inst.arg[name]
    PROVE  Suits(inst, RelocS(v), "sleb", name)
<1>1. v \in Int /\ FitsSLEB(v, 4)
  BY DEF InBounds, InBound
<1>2. Operand(inst, name) = v
  BY OperandPlain
<1>3. Restores(RelocS(v), "sleb", name, v)
  BY <1>1, RestoresSigned
<1>4. Solid(RelocS(v))
  BY FormsSolid
<1> QED BY <1>2, <1>3, <1>4 DEF Suits

LEMMA SuitsByte ==
    ASSUME NEW inst, ~IsBlock(inst), NEW name, name \notin DOMAIN SpaceOf, InBounds(inst, "u8", name),
           NEW v, v = inst.arg[name]
    PROVE  Suits(inst, U8(v), "u8", name)
<1>1. v \in 0 .. 255
  BY DEF InBounds, InBound
<1>2. Operand(inst, name) = v
  BY OperandPlain
<1>3. Restores(U8(v), "u8", name, v)
  BY <1>1, RestoresByte
<1>4. Solid(U8(v))
  BY FormsSolid
<1> QED BY <1>2, <1>3, <1>4 DEF Suits

LEMMA SuitsRaw ==
    ASSUME NEW inst, ~IsBlock(inst), NEW name, name \notin DOMAIN SpaceOf, NEW v, v = inst.arg[name], IsSeq(v)
    PROVE  /\ Len(v) = 4 => Suits(inst, Raw(v), "bytes4", name)
           /\ Len(v) = 8 => Suits(inst, Raw(v), "bytes8", name)
<1>1. Operand(inst, name) = v
  BY OperandPlain
<1>2. Solid(Raw(v))
  BY FormsSolid
<1> QED BY <1>1, <1>2, RestoresRaw DEF Suits

\* The byte 0 is also the number 0.
LEMMA SuitsZero ==
    ASSUME NEW inst, ~IsBlock(inst), NEW name, name \notin DOMAIN SpaceOf, inst.arg[name] = 0
    PROVE  Suits(inst, U8(inst.arg[name]), "uleb", name)
<1>1. Operand(inst, name) = 0
  BY OperandPlain
<1>2. Solid(U8(0))
  BY FormsSolid
<1>3. ASSUME NEW p, NEW s, At(p, s), Holds(s, U8(0))
      PROVE  Read("uleb", p).next = p + Len(s) /\ Resolved("uleb", name, Read("uleb", p).value) = 0
  <2>1. s = <<LowByte(0)>> /\ LowByte(0) = 0
    BY <1>3, HoldsAre DEF LowByte
  <2>2. Groups(0, 1) = <<0>>
    <3>1. Groups(0, 1) = [k \in 1 .. 1 |-> Groups(0, 1)[k]] /\ Groups(0, 1)[1] = 0
      BY SMT DEF Groups
    <3> QED BY <3>1
  <2>3. LengthULEB(0) = 1
    BY DEF LengthULEB
  <2>4. \E n \in LengthULEB(0) .. 7 : s = Groups(0, n)
    BY <2>1, <2>2, <2>3
  <2>5. Holds(s, U(0))
    BY <2>4, FormsAre DEF Holds
  <2>6. Bounded(0)
    BY ByteBounded
  <2>7. Restores(U(0), "uleb", name, 0)
    BY <2>6, RestoresNumber
  <2> QED BY <1>3, <2>5, <2>7 DEF Restores
<1> QED BY <1>1, <1>2, <1>3 DEF Suits, Restores

-----------------------------------------------------------------------------
(* The switches of the writer and of the reader, group by group *)

\* They agree on the fields and on the format, of as many fields as a padding needs.
Agreed(inst, fs, format) ==
    \E m : /\ Agree(inst, fs, format, m)
           /\ inst.op \in PaddedOps => m = 2
           /\ inst.op \in {\h41, \h42} => m = 1

LEMMA NamesAre ==
    /\ {"func", "global", "table", "table1", "table2", "type", "tag", "memory", "dataSegment", "elem", "local"}
         \subseteq DOMAIN SpaceOf
    /\ {"relative_depth", "labelidx", "labels", "default_br", "value", "align", "offset", "memidx",
        "memidx1", "memidx2", "reftype"} \cap DOMAIN SpaceOf = {}
BY DEF SpaceOf

LEMMA NotPadded ==
    ASSUME NEW inst, NEW fs, NEW format, NEW m, Agree(inst, fs, format, m),
           inst.op \notin PaddedOps, inst.op \notin {\h41, \h42}
    PROVE  Agreed(inst, fs, format)
BY DEF Agreed

LEMMA AgreedNone ==
    ASSUME NEW inst, inst.op \notin PaddedOps, inst.op \notin {\h41, \h42}
    PROVE  Agreed(inst, <<>>, <<>>)
BY AgreeNone, NotPadded

\* An instruction with one or two objects of the module, or with a number.
Plain(inst) == ~IsBlock(inst) /\ ~Missing(inst) /\ inst.op \notin PaddedOps /\ inst.op \notin {\h41, \h42}
LEMMA AgreedIndex ==
    ASSUME NEW inst, Plain(inst), NEW name \in DOMAIN SpaceOf, Has(inst, <<<<"uleb", name>>>>)
    PROVE  Agreed(inst, <<IndexField(inst, name)>>, <<<<"uleb", name>>>>)
<1>1. Suits(inst, IndexField(inst, name), "uleb", name)
  BY HasOne, SuitsIndex DEF Plain
<1>2. Agree(inst, <<IndexField(inst, name)>>, <<<<"uleb", name>>>>, 1)
  BY <1>1, AgreeOne
<1> QED BY <1>2, NotPadded DEF Plain

LEMMA AgreedIndices ==
    ASSUME NEW inst, Plain(inst), NEW name \in DOMAIN SpaceOf, NEW name2 \in DOMAIN SpaceOf, name # name2,
           Has(inst, <<<<"uleb", name>>, <<"uleb", name2>>>>)
    PROVE  Agreed(inst, <<IndexField(inst, name), IndexField(inst, name2)>>, <<<<"uleb", name>>, <<"uleb", name2>>>>)
<1>1. name \in DOMAIN inst.arg /\ name2 \in DOMAIN inst.arg
  BY HasTwo
<1>2. Suits(inst, IndexField(inst, name), "uleb", name) /\ Suits(inst, IndexField(inst, name2), "uleb", name2)
  BY <1>1, SuitsIndex DEF Plain
<1>3. Agree(inst, <<IndexField(inst, name), IndexField(inst, name2)>>, <<<<"uleb", name>>, <<"uleb", name2>>>>, 2)
  BY <1>2, AgreeTwo
<1> QED BY <1>3, NotPadded DEF Plain

LEMMA AgreedNumber ==
    ASSUME NEW inst, Plain(inst), NEW name, name \notin DOMAIN SpaceOf, Has(inst, <<<<"uleb", name>>>>)
    PROVE  Agreed(inst, <<U(inst.arg[name])>>, <<<<"uleb", name>>>>)
<1>1. PICK v : v = inst.arg[name]
  OBVIOUS
<1>2. Suits(inst, U(v), "uleb", name)
  BY <1>1, HasOne, SuitsNumber DEF Plain
<1>3. Agree(inst, <<U(v)>>, <<<<"uleb", name>>>>, 1)
  BY <1>2, AgreeOne
<1> QED BY <1>1, <1>3, NotPadded DEF Plain

LEMMA AgreedByte ==
    ASSUME NEW inst, Plain(inst), NEW name, name \notin DOMAIN SpaceOf, Has(inst, <<<<"u8", name>>>>)
    PROVE  Agreed(inst, <<U8(inst.arg[name])>>, <<<<"u8", name>>>>)
<1>1. PICK v : v = inst.arg[name]
  OBVIOUS
<1>2. Suits(inst, U8(v), "u8", name)
  BY <1>1, HasOne, SuitsByte DEF Plain
<1>3. Agree(inst, <<U8(v)>>, <<<<"u8", name>>>>, 1)
  BY <1>2, AgreeOne
<1> QED BY <1>1, <1>3, NotPadded DEF Plain

\* align and offset; the offset may be padded.
LEMMA AgreedMemArg ==
    ASSUME NEW inst, ~IsBlock(inst), Has(inst, MemArg), inst.op \notin {\h41, \h42}
    PROVE  /\ Agreed(inst, <<U(inst.arg.align), RelocU(inst.arg.offset)>>, MemArg)
           /\ Agreed(inst, <<U(inst.arg.align), U(inst.arg.offset)>>, MemArg)
<1>1. PICK v, w : v = inst.arg["align"] /\ w = inst.arg["offset"]
  OBVIOUS
<1>2. MemArg = <<<<"uleb", "align">>, <<"uleb", "offset">>>>
  BY DEF MemArg
<1>3. InBounds(inst, "uleb", "align") /\ InBounds(inst, "uleb", "offset")
  BY <1>2, HasTwo
<1>4. Suits(inst, U(v), "uleb", "align") /\ Suits(inst, U(w), "uleb", "offset") /\ Suits(inst, RelocU(w), "uleb", "offset")
  BY <1>1, <1>3, NamesAre, SuitsNumber
<1>5. "align" # "offset"
  OBVIOUS
<1>6. Agree(inst, <<U(v), RelocU(w)>>, MemArg, 2)
  BY <1>2, <1>4, <1>5, AgreeTwo
<1>7. Agree(inst, <<U(v), U(w)>>, MemArg, 2)
  BY <1>2, <1>4, <1>5, AgreeTwo
<1> QED BY <1>1, <1>6, <1>7 DEF Agreed

LEMMA FormatControlNone ==
    ASSUME NEW op \in {\h00, \h01, \h05, \h0F, \h19, \h0B, \h1A, \h1B, \h1C}
    PROVE  FormatControl(op) = <<>>
<1> DEFINE e == <<>>
    a == <<<<"blocktype", "type">>>>
    b == <<<<"uleb", "tag">>>>
    c == <<<<"uleb", "relative_depth">>>>
    d == <<<<"uleb", "labelidx">>>>
    f == <<<<"labels", "labels">>, <<"uleb", "default_br">>>>
    g == <<<<"uleb", "func">>>>
    h == <<<<"uleb", "type">>, <<"uleb", "table">>>>
    u == <<<<"sleb", "value">>>>
    v == <<<<"bytes4", "value">>>>
    w == <<<<"bytes8", "value">>>>
<1>1. FormatControl(op) =
    CASE op \in {\h00, \h01, \h05, \h0B, \h0F, \h19, \h1A, \h1B, \h1C} -> e
      [] op \in Blocks \cup {\h06} -> a
      [] op \in {\h07, \h08} -> b
      [] op \in {\h09, \h18} -> c
      [] op \in {\h0C, \h0D} -> d
      [] op = \h0E -> f
      [] op = \h10 -> g
      [] op = \h11 -> h
      [] op \in {\h41, \h42} -> u
      [] op = \h43 -> v
      [] op = \h44 -> w
   BY DEF FormatControl
<1> HIDE DEF e,a,b,c,d,f,g,h,u,v,w
<1>2. FormatControl(op) = e
   BY <1>1 DEF Blocks
<1> QED BY <1>2 DEF e

LEMMA ControlAgrees ==
    ASSUME NEW inst, InstOK(inst), inst.op \in ControlOps \ {\h06, \h0E}, ~Missing(inst),
           IsBlock(inst) => BlockTypeField(inst.arg.type) # S(0), Has(inst, FormatControl(inst.op))
    PROVE  Agreed(inst, EncodeControl(inst), FormatControl(inst.op))
<1>1. inst.op \notin PaddedOps /\ inst.op \notin {\h41, \h42}
  BY DEF ControlOps, PaddedOps, MemoryOps
<1>2. CASE inst.op \in {\h00, \h01, \h05, \h0F, \h19}
  <2>1. EncodeControl(inst) = <<>>
    BY <1>2 DEF EncodeControl, IsBlock, Blocks
  <2>2. FormatControl(inst.op) = <<>>
    BY <1>2, FormatControlNone
  <2> QED BY <2>1, <2>2, <1>1, AgreedNone
<1>3. CASE inst.op \in {\h02, \h03, \h04}
  <2>1. PICK t : t = inst.arg.type
    OBVIOUS
  <2> DEFINE f == BlockTypeField(t)
  <2>2. EncodeControl(inst) = <<f>> /\ FormatControl(inst.op) = <<<<"blocktype", "type">>>>
    BY <1>3, <2>1, SMTT(30) DEF EncodeControl, FormatControl, IsBlock, Blocks
  <2>3. IsBlock(inst) /\ ~BlockTypeInvalid(inst) /\ t[1] \in {"number", "typeidx", "object"}
    BY <1>3, <2>1 DEF IsBlock, Blocks, Missing, InstOK
  <2>4. f # S(0)
    BY <2>1, <2>3
  <2>5. InBounds(inst, "blocktype", "type")
    BY <2>2, HasOne
  <2>6. InBound("blocktype", t)
    BY <2>1, <2>5 DEF InBounds
  <2>7. Restores(f, "blocktype", "type", Operand(inst, "type"))
    <3> HIDE DEF f
    <3>1. PICK g : g = BlockTypeField(t)
      OBVIOUS
    <3>2. g = f /\ g # S(0)
      BY <3>1, <2>4 DEF f
    <3> QED BY <2>1, <2>3, <2>6, <3>1, <3>2, RestoresBlock
  <2>8. Solid(f)
    BY <2>3, FormsSolid DEF BlockTypeField
  <2> HIDE DEF f
  <2>9. Agree(inst, <<f>>, <<<<"blocktype", "type">>>>, 1)
    BY <2>7, <2>8, AgreeOne DEF Suits
  <2> QED BY <1>1, <2>2, <2>9, NotPadded
<1>4. CASE inst.op \in {\h07, \h08}
  <2>1. EncodeControl(inst) = <<IndexField(inst, "tag")>> /\ FormatControl(inst.op) = <<<<"uleb", "tag">>>>
    BY <1>4 DEF EncodeControl, FormatControl, IsBlock, Blocks
  <2>2. ~IsBlock(inst)
    BY <1>4 DEF IsBlock, Blocks
  <2>3. Has(inst, <<<<"uleb", "tag">>>>)
    BY <2>1
  <2> QED BY <2>1, <2>2, <2>3, <1>1, NamesAre, AgreedIndex DEF Plain
<1>5. CASE inst.op \in {\h09, \h18}
  <2>1. EncodeControl(inst) = <<U(inst.arg["relative_depth"])>> /\ FormatControl(inst.op) = <<<<"uleb", "relative_depth">>>>
    BY <1>5 DEF EncodeControl, FormatControl, IsBlock, Blocks
  <2>2. ~IsBlock(inst)
    BY <1>5 DEF IsBlock, Blocks
  <2>3. Has(inst, <<<<"uleb", "relative_depth">>>>)
    BY <2>1
  <2> QED BY <2>1, <2>2, <2>3, <1>1, NamesAre, AgreedNumber DEF Plain
<1>6. CASE inst.op \in {\h0C, \h0D}
  <2>1. EncodeControl(inst) = <<U(inst.arg["labelidx"])>> /\ FormatControl(inst.op) = <<<<"uleb", "labelidx">>>>
    BY <1>6 DEF EncodeControl, FormatControl, IsBlock, Blocks
  <2>2. ~IsBlock(inst)
    BY <1>6 DEF IsBlock, Blocks
  <2>3. Has(inst, <<<<"uleb", "labelidx">>>>)
    BY <2>1
  <2> QED BY <2>1, <2>2, <2>3, <1>1, NamesAre, AgreedNumber DEF Plain
<1>7. CASE inst.op = \h10
  <2>1. EncodeControl(inst) = <<IndexField(inst, "func")>> /\ FormatControl(inst.op) = <<<<"uleb", "func">>>>
    BY <1>7 DEF EncodeControl, FormatControl, IsBlock, Blocks
  <2>2. ~IsBlock(inst)
    BY <1>7 DEF IsBlock, Blocks
  <2>3. Has(inst, <<<<"uleb", "func">>>>)
    BY <2>1
  <2> QED BY <2>1, <2>2, <2>3, <1>1, NamesAre, AgreedIndex DEF Plain
<1>8. CASE inst.op = \h11
  <2>1. EncodeControl(inst) = <<IndexField(inst, "type"), IndexField(inst, "table")>> /\ FormatControl(inst.op) = <<<<"uleb", "type">>, <<"uleb", "table">>>>
    BY <1>8 DEF EncodeControl, FormatControl, IsBlock, Blocks
  <2>2. ~IsBlock(inst)
    BY <1>8 DEF IsBlock, Blocks
  <2>3. Has(inst, <<<<"uleb", "type">>, <<"uleb", "table">>>>)
    BY <2>1
  <2> QED BY <2>1, <2>2, <2>3, <1>1, NamesAre, AgreedIndices DEF Plain
<1> QED BY <1>2, <1>3, <1>4, <1>5, <1>6, <1>7, <1>8 DEF ControlOps

FormatOfVariable(op) == IF op \in \h20 .. \h26 THEN FormatVariable(op) ELSE FormatControl(op)
LEMMA VariableAgrees ==
    ASSUME NEW inst, InstOK(inst), inst.op \in VariableOps, ~Missing(inst), Has(inst, FormatOfVariable(inst.op))
    PROVE  Agreed(inst, EncodeVariable(inst), FormatOfVariable(inst.op))
<1>1. inst.op \notin PaddedOps /\ ~IsBlock(inst) /\ ~Missing(inst)
  BY DEF VariableOps, PaddedOps, MemoryOps, IsBlock, Blocks
<1>2. CASE inst.op \in {\h0B, \h1A, \h1B, \h1C}
  <2>1. EncodeVariable(inst) = <<>> /\ FormatOfVariable(inst.op) = <<>> /\ inst.op \notin {\h41, \h42}
    BY <1>2, FormatControlNone, SMTT(30) DEF EncodeVariable, FormatOfVariable
  <2> QED BY <2>1, <1>1, AgreedNone
<1>3. CASE inst.op \in {\h41, \h42}
  <2>1. PICK v : v = inst.arg["value"]
    OBVIOUS
  <2>2. EncodeVariable(inst) = <<RelocS(v)>> /\ FormatOfVariable(inst.op) = <<<<"sleb", "value">>>>
    BY <1>3, <2>1 DEF EncodeVariable, FormatOfVariable, FormatControl, Blocks
  <2>3. InBounds(inst, "sleb", "value")
    BY <2>2, HasOne
  <2>4. Suits(inst, RelocS(v), "sleb", "value")
    BY <2>1, <2>3, <1>1, NamesAre, SuitsSigned
  <2>5. Agree(inst, <<RelocS(v)>>, <<<<"sleb", "value">>>>, 1)
    BY <2>4, AgreeOne
  <2> QED BY <1>1, <2>2, <2>5 DEF Agreed
<1>4. CASE inst.op = \h43
  <2>1. PICK v : v = inst.arg["value"]
    OBVIOUS
  <2>2. EncodeVariable(inst) = <<Raw(v)>> /\ FormatOfVariable(inst.op) = <<<<"bytes4", "value">>>> /\ inst.op \notin {\h41, \h42}
    BY <1>4, <2>1 DEF EncodeVariable, FormatOfVariable, FormatControl, Blocks
  <2>3. IsSeq(v) /\ Len(v) = 4
    BY <1>4, <2>1 DEF InstOK
  <2>4. Suits(inst, Raw(v), "bytes4", "value")
    BY <2>1, <2>3, <1>1, NamesAre, SuitsRaw
  <2>5. Agree(inst, <<Raw(v)>>, <<<<"bytes4", "value">>>>, 1)
    BY <2>4, AgreeOne
  <2> QED BY <1>1, <2>2, <2>5, NotPadded
<1>5. CASE inst.op = \h44
  <2>1. PICK v : v = inst.arg["value"]
    OBVIOUS
  <2>2. EncodeVariable(inst) = <<Raw(v)>> /\ FormatOfVariable(inst.op) = <<<<"bytes8", "value">>>> /\ inst.op \notin {\h41, \h42}
    BY <1>5, <2>1 DEF EncodeVariable, FormatOfVariable, FormatControl, Blocks
  <2>3. IsSeq(v) /\ Len(v) = 8
    BY <1>5, <2>1 DEF InstOK
  <2>4. Suits(inst, Raw(v), "bytes8", "value")
    BY <2>1, <2>3, <1>1, NamesAre, SuitsRaw
  <2>5. Agree(inst, <<Raw(v)>>, <<<<"bytes8", "value">>>>, 1)
    BY <2>4, AgreeOne
  <2> QED BY <1>1, <2>2, <2>5, NotPadded
<1>6. CASE inst.op \in {\h20, \h21, \h22}
  <2>1. EncodeVariable(inst) = <<IndexField(inst, "local")>> /\ FormatOfVariable(inst.op) = <<<<"uleb", "local">>>>
    BY <1>6 DEF EncodeVariable, FormatOfVariable, FormatVariable
  <2>2. inst.op \notin {\h41, \h42}
    BY <1>6
  <2>3. Has(inst, <<<<"uleb", "local">>>>)
    BY <2>1
  <2> QED BY <2>1, <2>2, <2>3, <1>1, NamesAre, AgreedIndex DEF Plain
<1>7. CASE inst.op \in {\h23, \h24}
  <2>1. EncodeVariable(inst) = <<IndexField(inst, "global")>> /\ FormatOfVariable(inst.op) = <<<<"uleb", "global">>>>
    BY <1>7 DEF EncodeVariable, FormatOfVariable, FormatVariable
  <2>2. inst.op \notin {\h41, \h42}
    BY <1>7
  <2>3. Has(inst, <<<<"uleb", "global">>>>)
    BY <2>1
  <2> QED BY <2>1, <2>2, <2>3, <1>1, NamesAre, AgreedIndex DEF Plain
<1>8. CASE inst.op \in {\h25, \h26}
  <2>1. EncodeVariable(inst) = <<IndexField(inst, "table")>> /\ FormatOfVariable(inst.op) = <<<<"uleb", "table">>>>
    BY <1>8 DEF EncodeVariable, FormatOfVariable, FormatVariable
  <2>2. inst.op \notin {\h41, \h42}
    BY <1>8
  <2>3. Has(inst, <<<<"uleb", "table">>>>)
    BY <2>1
  <2> QED BY <2>1, <2>2, <2>3, <1>1, NamesAre, AgreedIndex DEF Plain
<1> QED BY <1>2, <1>3, <1>4, <1>5, <1>6, <1>7, <1>8 DEF VariableOps

LEMMA MemoryAgrees ==
    ASSUME NEW inst, inst.op \in \h28 .. \h40, ~Missing(inst), Has(inst, FormatMemory(inst.op))
    PROVE  Agreed(inst, EncodeMemory(inst), FormatMemory(inst.op))
<1>1. inst.op \notin {\h41, \h42} /\ ~IsBlock(inst)
  BY DEF IsBlock, Blocks
<1>2. CASE inst.op \in MemoryOps
  <2>1. EncodeMemory(inst) = <<U(inst.arg.align), RelocU(inst.arg.offset)>>
    BY <1>2 DEF EncodeMemory, MemoryOps
  <2>2. FormatMemory(inst.op) = MemArg
    BY <1>2 DEF FormatMemory
  <2> QED BY <2>1, <2>2, <1>1, AgreedMemArg
<1>3. CASE inst.op \in {\h3F, \h40}
  <2>1. inst.op \notin MemoryOps /\ inst.op \notin PaddedOps
    BY <1>3 DEF MemoryOps, PaddedOps
  <2>2. EncodeMemory(inst) = <<U8(inst.arg["memidx"])>> /\ FormatMemory(inst.op) = <<<<"u8", "memidx">>>>
    BY <1>3, <2>1 DEF EncodeMemory, FormatMemory
  <2>3. Has(inst, <<<<"u8", "memidx">>>>)
    BY <2>2
  <2> QED BY <2>1, <2>2, <2>3, <1>1, NamesAre, AgreedByte DEF Plain
<1> QED BY <1>2, <1>3 DEF MemoryOps

LEMMA ReferenceAgrees ==
    ASSUME NEW inst, inst.op \in \hD0 .. \hD2, ~Missing(inst), Has(inst, FormatReference(inst.op))
    PROVE  Agreed(inst, EncodeReference(inst), FormatReference(inst.op))
<1>1. inst.op \notin {\h41, \h42} /\ inst.op \notin PaddedOps /\ ~IsBlock(inst)
  BY DEF IsBlock, Blocks, PaddedOps, MemoryOps
<1>2. CASE inst.op = \hD0
  <2>1. EncodeReference(inst) = <<U(inst.arg["reftype"])>> /\ FormatReference(inst.op) = <<<<"uleb", "reftype">>>>
    BY <1>2 DEF EncodeReference, FormatReference
  <2>2. Has(inst, <<<<"uleb", "reftype">>>>)
    BY <2>1
  <2> QED BY <2>1, <2>2, <1>1, NamesAre, AgreedNumber DEF Plain
<1>3. CASE inst.op = \hD1
  <2>1. EncodeReference(inst) = <<>> /\ FormatReference(inst.op) = <<>>
    BY <1>3 DEF EncodeReference, FormatReference
  <2> QED BY <2>1, <1>1, AgreedNone
<1>4. CASE inst.op = \hD2
  <2>1. EncodeReference(inst) = <<IndexField(inst, "func")>> /\ FormatReference(inst.op) = <<<<"uleb", "func">>>>
    BY <1>4 DEF EncodeReference, FormatReference
  <2>2. Has(inst, <<<<"uleb", "func">>>>)
    BY <2>1
  <2> QED BY <2>1, <2>2, <1>1, NamesAre, AgreedIndex DEF Plain
<1> QED BY <1>2, <1>3, <1>4

LEMMA BulkAgrees ==
    ASSUME NEW inst, NEW sub \in 0 .. 17, sub = B2(inst.op), sub # 8, Plain(inst),
           sub = 12 => IndexOfArg(inst, "table") < 256, Has(inst, FormatBulk(sub))
    PROVE  Agreed(inst, EncodeBulk(inst), FormatBulk(sub))
<1>1. inst.op \notin PaddedOps /\ inst.op \notin {\h41, \h42} /\ ~IsBlock(inst) /\ ~Missing(inst)
  BY DEF Plain
<1>2. CASE sub \in 0 .. 7
  <2>1. EncodeBulk(inst) = <<>> /\ FormatBulk(sub) = <<>>
    BY <1>2 DEF EncodeBulk, FormatBulk
  <2> QED BY <2>1, <1>1, AgreedNone
<1>3. CASE sub = 9
  <2>1. EncodeBulk(inst) = <<IndexField(inst, "dataSegment")>> /\ FormatBulk(sub) = <<<<"uleb", "dataSegment">>>>
    BY <1>3 DEF EncodeBulk, FormatBulk
  <2>2. Has(inst, <<<<"uleb", "dataSegment">>>>)
    BY <2>1
  <2> QED BY <2>1, <2>2, NamesAre, AgreedIndex
<1>4. CASE sub = 10
  <2>1. PICK v, u : v = inst.arg["memidx1"] /\ u = inst.arg["memidx2"]
    OBVIOUS
  <2>2. EncodeBulk(inst) = <<U8(v), U8(u)>> /\ FormatBulk(sub) = <<<<"u8", "memidx1">>, <<"u8", "memidx2">>>>
    BY <1>4, <2>1 DEF EncodeBulk, FormatBulk
  <2>3. InBounds(inst, "u8", "memidx1") /\ InBounds(inst, "u8", "memidx2")
    BY <2>2, HasTwo
  <2>4. Suits(inst, U8(v), "u8", "memidx1") /\ Suits(inst, U8(u), "u8", "memidx2")
    BY <2>1, <2>3, <1>1, NamesAre, SuitsByte
  <2>5. "memidx1" # "memidx2"
    OBVIOUS
  <2>6. Agree(inst, <<U8(v), U8(u)>>, <<<<"u8", "memidx1">>, <<"u8", "memidx2">>>>, 2)
    BY <2>4, <2>5, AgreeTwo
  <2> QED BY <1>1, <2>2, <2>6, NotPadded
<1>5. CASE sub = 11
  <2>1. EncodeBulk(inst) = <<U8(inst.arg["memidx"])>> /\ FormatBulk(sub) = <<<<"u8", "memidx">>>>
    BY <1>5 DEF EncodeBulk, FormatBulk
  <2>2. Has(inst, <<<<"u8", "memidx">>>>)
    BY <2>1
  <2> QED BY <2>1, <2>2, NamesAre, AgreedByte
<1>6. CASE sub = 12
  <2>1. /\ EncodeBulk(inst) = <<IndexField(inst, "elem"), U8(IndexOfArg(inst, "table"))>>
        /\ FormatBulk(sub) = <<<<"uleb", "elem">>, <<"u8", "table">>>>
    BY <1>6 DEF EncodeBulk, FormatBulk
  <2>2. "elem" \in DOMAIN inst.arg /\ "table" \in DOMAIN inst.arg
    BY <2>1, HasTwo
  <2>3. Suits(inst, IndexField(inst, "elem"), "uleb", "elem") /\ Suits(inst, U8(IndexOfArg(inst, "table")), "u8", "table")
    BY <2>2, <1>1, <1>6, NamesAre, SuitsIndex
  <2>4. "elem" # "table"
    OBVIOUS
  <2>5. Agree(inst, <<IndexField(inst, "elem"), U8(IndexOfArg(inst, "table"))>>, <<<<"uleb", "elem">>, <<"u8", "table">>>>, 2)
    BY <2>3, <2>4, AgreeTwo
  <2> QED BY <1>1, <2>1, <2>5, NotPadded
<1>7. CASE sub = 13
  <2>1. EncodeBulk(inst) = <<IndexField(inst, "elem")>> /\ FormatBulk(sub) = <<<<"uleb", "elem">>>>
    BY <1>7 DEF EncodeBulk, FormatBulk
  <2>2. Has(inst, <<<<"uleb", "elem">>>>)
    BY <2>1
  <2> QED BY <2>1, <2>2, NamesAre, AgreedIndex
<1>8. CASE sub = 14
  <2>1. EncodeBulk(inst) = <<IndexField(inst, "table1"), IndexField(inst, "table2")>> /\ FormatBulk(sub) = <<<<"uleb", "table1">>, <<"uleb", "table2">>>>
    BY <1>8 DEF EncodeBulk, FormatBulk
  <2>2. Has(inst, <<<<"uleb", "table1">>, <<"uleb", "table2">>>>)
    BY <2>1
  <2> QED BY <2>1, <2>2, NamesAre, AgreedIndices
<1>9. CASE sub \in 15 .. 17
  <2>1. EncodeBulk(inst) = <<IndexField(inst, "table")>> /\ FormatBulk(sub) = <<<<"uleb", "table">>>>
    BY <1>9 DEF EncodeBulk, FormatBulk
  <2>2. Has(inst, <<<<"uleb", "table">>>>)
    BY <2>1
  <2> QED BY <2>1, <2>2, NamesAre, AgreedIndex
<1> QED BY <1>2, <1>3, <1>4, <1>5, <1>6, <1>7, <1>8, <1>9

LEMMA AtomicAgrees ==
    ASSUME NEW inst, NEW sub \in 0 .. 3 \cup \h10 .. \h4E, sub = B2(inst.op), ~IsBlock(inst), inst.op \notin {\h41, \h42},
           sub = 3 => inst.arg.memidx = 0 /\ inst.op \notin PaddedOps, Has(inst, FormatAtomic(sub))
    PROVE  Agreed(inst, EncodeAtomic(inst), FormatAtomic(sub))
<1>1. CASE sub \in 0 .. 2
  <2>1. EncodeAtomic(inst) = <<U(inst.arg.align), U(inst.arg.offset)>> /\ FormatAtomic(sub) = MemArg
    BY <1>1 DEF EncodeAtomic, FormatAtomic
  <2> QED BY <2>1, AgreedMemArg
<1>2. CASE sub = 3
  <2>1. EncodeAtomic(inst) = <<U8(inst.arg["memidx"])>> /\ FormatAtomic(sub) = <<<<"uleb", "memidx">>>> /\ inst.arg["memidx"] = 0
    BY <1>2 DEF EncodeAtomic, FormatAtomic
  <2>2. Suits(inst, U8(inst.arg["memidx"]), "uleb", "memidx")
    BY <2>1, NamesAre, SuitsZero
  <2>3. Agree(inst, <<U8(inst.arg["memidx"])>>, <<<<"uleb", "memidx">>>>, 1)
    BY <2>2, AgreeOne
  <2> QED BY <1>2, <2>1, <2>3, NotPadded
<1>3. CASE sub \in \h10 .. \h4E
  <2>1. EncodeAtomic(inst) = <<U(inst.arg.align), RelocU(inst.arg.offset)>> /\ FormatAtomic(sub) = MemArg
    BY <1>3 DEF EncodeAtomic, FormatAtomic
  <2> QED BY <2>1, AgreedMemArg
<1> QED BY <1>1, <1>2, <1>3

-----------------------------------------------------------------------------
(* The arms of the writer and of the reader that an opcode takes *)
Switched(inst, fs, format) ==
    Written(inst) = Opcode(inst.op) \o fs /\ FormatOf(B1(inst.op), B2(inst.op)) = format

LEMMA ShortSwitched ==
    ASSUME NEW inst, NEW op, op = inst.op, IsShort(op)
    PROVE  /\ op \in ControlOps => Switched(inst, EncodeControl(inst), FormatControl(op))
           /\ op \in VariableOps => Switched(inst, EncodeVariable(inst), FormatOfVariable(op))
           /\ op \in \h28 .. \h40 => Switched(inst, EncodeMemory(inst), FormatMemory(op))
           /\ op \in Numerics => Switched(inst, EncodeNumeric(inst), FormatNumeric(op))
           /\ op \in \hD0 .. \hD2 => Switched(inst, EncodeReference(inst), FormatReference(op))
<1>1. B1(op) = op /\ op \in Int /\ op \notin {\hFC, \hFD, \hFE}
  BY ShortIs
<1> DEFINE c == Opcode(op) \o EncodeControl(inst)
           v == Opcode(op) \o EncodeVariable(inst)
           m == Opcode(op) \o EncodeMemory(inst)
           n == Opcode(op) \o EncodeNumeric(inst)
           r == Opcode(op) \o EncodeReference(inst)
           x == IF B2(op) > 17 THEN <<>> ELSE Opcode(op) \o EncodeBulk(inst)
           y == IF B2(op) \in SimdMemory THEN Opcode(op) \o EncodeSimd(inst) ELSE <<>>
           z == Opcode(op) \o EncodeAtomic(inst)
           fc == FormatControl(op)
           fv == FormatVariable(op)
           fm == FormatMemory(op)
           fn == FormatNumeric(op)
           fr == FormatReference(op)
           fx == FormatBulk(B2(op))
           fy == FormatSimd(B2(op))
           fz == FormatAtomic(B2(op))
<1>2. Written(inst) =
        CASE B1(op) \in ControlOps -> c
          [] B1(op) \in VariableOps -> v
          [] B1(op) \in \h28 .. \h40 -> m
          [] B1(op) \in Numerics -> n
          [] B1(op) \in \hD0 .. \hD2 -> r
          [] B1(op) = \hFC -> x
          [] B1(op) = \hFD -> y
          [] B1(op) = \hFE -> z
  BY DEF Written
<1>3. FormatOf(op, B2(op)) =
        CASE op \in ControlOps \cup {\h0B, \h1A, \h1B, \h1C, \h41, \h42, \h43, \h44} -> fc
          [] op \in \h20 .. \h26 -> fv
          [] op \in \h28 .. \h40 -> fm
          [] op \in Numerics -> fn
          [] op \in \hD0 .. \hD2 -> fr
          [] op = \hFC -> fx
          [] op = \hFD -> fy
          [] op = \hFE -> fz
  BY DEF FormatOf
<1> HIDE DEF c, v, m, n, r, x, y, z, fc, fv, fm, fn, fr, fx, fy, fz
<1>4. ASSUME op \in ControlOps PROVE Written(inst) = c /\ FormatOf(op, B2(op)) = fc
  <2>1. op \notin VariableOps /\ op \notin \h28 .. \h40 /\ op \notin Numerics /\ op \notin \hD0 .. \hD2 /\ op \notin \h20 .. \h26
    BY <1>4 DEF ControlOps, VariableOps, Numerics
  <2>2. Written(inst) = c
    BY <1>1, <1>2, <1>4, <2>1
  <2>3. FormatOf(op, B2(op)) = fc
    BY <1>1, <1>3, <1>4, <2>1
  <2> QED BY <2>2, <2>3
<1>5. ASSUME op \in VariableOps PROVE Written(inst) = v /\ FormatOf(op, B2(op)) = FormatOfVariable(op)
  <2>1. op \notin ControlOps /\ op \notin \h28 .. \h40 /\ op \notin Numerics /\ op \notin \hD0 .. \hD2
    BY <1>5 DEF ControlOps, VariableOps, Numerics
  <2>2. Written(inst) = v
    BY <1>1, <1>2, <1>5, <2>1
  <2>3. CASE op \in \h20 .. \h26
    <3>1. op \notin {\h0B, \h1A, \h1B, \h1C, \h41, \h42, \h43, \h44}
      BY <2>3
    <3>2. FormatOf(op, B2(op)) = fv
      BY <1>1, <1>3, <2>1, <2>3, <3>1
    <3> QED BY <2>2, <2>3, <3>2 DEF FormatOfVariable, fv
  <2>4. CASE op \notin \h20 .. \h26
    <3>1. op \in {\h0B, \h1A, \h1B, \h1C, \h41, \h42, \h43, \h44}
      BY <1>5, <2>4 DEF VariableOps
    <3>2. FormatOf(op, B2(op)) = fc
      BY <1>1, <1>3, <2>1, <2>4, <3>1
    <3> QED BY <2>2, <2>4, <3>2 DEF FormatOfVariable, fc
  <2> QED BY <2>3, <2>4
<1>6. ASSUME op \in \h28 .. \h40 PROVE Written(inst) = m /\ FormatOf(op, B2(op)) = fm
  <2>1. /\ op \notin ControlOps /\ op \notin VariableOps /\ op \notin Numerics /\ op \notin \hD0 .. \hD2
        /\ op \notin \h20 .. \h26 /\ op \notin {\h0B, \h1A, \h1B, \h1C, \h41, \h42, \h43, \h44}
    BY <1>6 DEF ControlOps, VariableOps, Numerics
  <2>2. Written(inst) = m
    BY <1>1, <1>2, <1>6, <2>1
  <2>3. FormatOf(op, B2(op)) = fm
    BY <1>1, <1>3, <1>6, <2>1
  <2> QED BY <2>2, <2>3
<1>7. ASSUME op \in Numerics PROVE Written(inst) = n /\ FormatOf(op, B2(op)) = fn
  <2>1. /\ op \notin ControlOps /\ op \notin VariableOps /\ op \notin \h28 .. \h40 /\ op \notin \hD0 .. \hD2
        /\ op \notin \h20 .. \h26 /\ op \notin {\h0B, \h1A, \h1B, \h1C, \h41, \h42, \h43, \h44}
    BY <1>7 DEF ControlOps, VariableOps, Numerics
  <2>2. Written(inst) = n
    BY <1>1, <1>2, <1>7, <2>1
  <2>3. FormatOf(op, B2(op)) = fn
    BY <1>1, <1>3, <1>7, <2>1
  <2> QED BY <2>2, <2>3
<1>8. ASSUME op \in \hD0 .. \hD2 PROVE Written(inst) = r /\ FormatOf(op, B2(op)) = fr
  <2>1. /\ op \notin ControlOps /\ op \notin VariableOps /\ op \notin \h28 .. \h40 /\ op \notin Numerics
        /\ op \notin \h20 .. \h26 /\ op \notin {\h0B, \h1A, \h1B, \h1C, \h41, \h42, \h43, \h44}
    BY <1>8 DEF ControlOps, VariableOps, Numerics
  <2>2. Written(inst) = r
    BY <1>1, <1>2, <1>8, <2>1
  <2>3. FormatOf(op, B2(op)) = fr
    BY <1>1, <1>3, <1>8, <2>1
  <2> QED BY <2>2, <2>3
<1> QED BY <1>1, <1>4, <1>5, <1>6, <1>7, <1>8, ZenonT(40) DEF Switched, c, v, m, n, r, fc, fm, fn, fr

LEMMA LongSwitched ==
    ASSUME NEW inst, NEW op, op = inst.op, IsLong(op)
    PROVE  /\ B1(op) = \hFC /\ B2(op) <= 17 => Switched(inst, EncodeBulk(inst), FormatBulk(B2(op)))
           /\ B1(op) = \hFD /\ B2(op) \in SimdMemory => Switched(inst, EncodeSimd(inst), FormatSimd(B2(op)))
           /\ B1(op) = \hFE => Switched(inst, EncodeAtomic(inst), FormatAtomic(B2(op)))
<1>1. B1(op) \in {\hFC, \hFD, \hFE} /\ B2(op) \in 0 .. 255
  BY LongIs
<1> PICK b : b = B1(op)
  OBVIOUS
<1> DEFINE c == Opcode(op) \o EncodeControl(inst)
           v == Opcode(op) \o EncodeVariable(inst)
           m == Opcode(op) \o EncodeMemory(inst)
           n == Opcode(op) \o EncodeNumeric(inst)
           r == Opcode(op) \o EncodeReference(inst)
           x == IF B2(op) > 17 THEN <<>> ELSE Opcode(op) \o EncodeBulk(inst)
           y == IF B2(op) \in SimdMemory THEN Opcode(op) \o EncodeSimd(inst) ELSE <<>>
           z == Opcode(op) \o EncodeAtomic(inst)
           fc == FormatControl(b)
           fv == FormatVariable(b)
           fm == FormatMemory(b)
           fn == FormatNumeric(b)
           fr == FormatReference(b)
           fx == FormatBulk(B2(op))
           fy == FormatSimd(B2(op))
           fz == FormatAtomic(B2(op))
<1>2. Written(inst) =
        CASE b \in ControlOps -> c
          [] b \in VariableOps -> v
          [] b \in \h28 .. \h40 -> m
          [] b \in Numerics -> n
          [] b \in \hD0 .. \hD2 -> r
          [] b = \hFC -> x
          [] b = \hFD -> y
          [] b = \hFE -> z
  BY DEF Written
<1>3. FormatOf(b, B2(op)) =
        CASE b \in ControlOps \cup {\h0B, \h1A, \h1B, \h1C, \h41, \h42, \h43, \h44} -> fc
          [] b \in \h20 .. \h26 -> fv
          [] b \in \h28 .. \h40 -> fm
          [] b \in Numerics -> fn
          [] b \in \hD0 .. \hD2 -> fr
          [] b = \hFC -> fx
          [] b = \hFD -> fy
          [] b = \hFE -> fz
  BY DEF FormatOf
<1> HIDE DEF c, v, m, n, r, x, y, z, fc, fv, fm, fn, fr, fx, fy, fz
<1>4. /\ b \notin ControlOps /\ b \notin VariableOps /\ b \notin \h28 .. \h40 /\ b \notin Numerics /\ b \notin \hD0 .. \hD2
      /\ b \notin \h20 .. \h26 /\ b \notin {\h0B, \h1A, \h1B, \h1C, \h41, \h42, \h43, \h44}
  BY <1>1 DEF ControlOps, VariableOps, Numerics
<1>5. ASSUME b = \hFC, B2(op) <= 17 PROVE Written(inst) = Opcode(op) \o EncodeBulk(inst) /\ FormatOf(b, B2(op)) = fx
  <2>1. Written(inst) = x
    BY <1>2, <1>4, <1>5
  <2>2. FormatOf(b, B2(op)) = fx
    BY <1>3, <1>4, <1>5
  <2>3. ~(B2(op) > 17)
    BY <1>1, <1>5
  <2> QED BY <2>1, <2>2, <2>3 DEF x
<1>6. ASSUME b = \hFD, B2(op) \in SimdMemory PROVE Written(inst) = Opcode(op) \o EncodeSimd(inst) /\ FormatOf(b, B2(op)) = fy
  <2>1. Written(inst) = y
    BY <1>2, <1>4, <1>6
  <2>2. FormatOf(b, B2(op)) = fy
    BY <1>3, <1>4, <1>6
  <2> QED BY <1>6, <2>1, <2>2 DEF y
<1>7. ASSUME b = \hFE PROVE Written(inst) = z /\ FormatOf(b, B2(op)) = fz
  <2>1. Written(inst) = z
    BY <1>2, <1>4, <1>7
  <2>2. FormatOf(b, B2(op)) = fz
    BY <1>3, <1>4, <1>7
  <2> QED BY <2>1, <2>2
<1> QED BY <1>5, <1>6, <1>7 DEF Switched, z, fx, fy, fz

-----------------------------------------------------------------------------
(* br_table *)

LabelFields(labels) == [k \in DOMAIN labels |-> U(labels[k])]
TableFields(labels, d) == <<U(Len(labels))>> \o LabelFields(labels) \o <<U(d)>>
LEMMA TableFieldsAre ==
    ASSUME NEW labels, IsSeq(labels), NEW d, NEW n, n = Len(labels), NEW fs, fs = TableFields(labels, d)
    PROVE  /\ n \in Nat /\ AllSolid(fs) /\ Len(fs) = n + 2
           /\ fs[1] = U(n) /\ fs[n + 2] = U(d) /\ \A k \in 1 .. n : fs[k + 1] = U(labels[k])
<1> DEFINE ls == LabelFields(labels)
           a == <<U(n)>>
           c == <<U(d)>>
<1>1. n \in Nat /\ DOMAIN labels = 1 .. n
  BY IsSeqLen
<1>2. IsSeq(ls) /\ Len(ls) = n /\ DOMAIN ls = 1 .. n
  <2>1. DOMAIN ls = 1 .. n /\ ls = [k \in 1 .. n |-> ls[k]]
    BY <1>1 DEF LabelFields
  <2> HIDE DEF ls
  <2> QED BY <1>1, <2>1, FunctionIsSeq
<1>3. \A k \in 1 .. n : ls[k] = U(labels[k])
  BY <1>1 DEF LabelFields
<1> HIDE DEF ls
<1>4. AllSolid(ls)
  <2>1. ASSUME NEW k \in DOMAIN ls PROVE Solid(ls[k])
    <3>1. ls[k] = U(labels[k])
      BY <1>2, <1>3
    <3> QED BY <3>1, FormsSolid
  <2> QED BY <1>2, <2>1 DEF AllSolid
<1>5. IsSeq(a) /\ Len(a) = 1 /\ a[1] = U(n) /\ IsSeq(c) /\ Len(c) = 1 /\ c[1] = U(d) /\ DOMAIN a = {1} /\ DOMAIN c = {1}
  BY SingletonIs
<1> HIDE DEF a, c
<1>6. AllSolid(a) /\ AllSolid(c)
  BY <1>5, FormsSolid DEF AllSolid
<1>7. AllSolid(a \o ls \o c)
  BY <1>4, <1>6, SolidConcat
<1>8. IsSeq(a \o ls) /\ Len(a \o ls) = 1 + n /\ \A k \in 1 .. 1 + n : (a \o ls)[k] = IF k <= 1 THEN a[k] ELSE ls[k - 1]
  <2>1. /\ IsSeq(a \o ls) /\ Len(a \o ls) = Len(a) + Len(ls)
        /\ \A k \in 1 .. Len(a) + Len(ls) : (a \o ls)[k] = IF k <= Len(a) THEN a[k] ELSE ls[k - Len(a)]
    BY <1>2, <1>5, ConcatIsSeq
  <2> QED BY <1>2, <1>5, <2>1
<1> DEFINE b == a \o ls
<1> HIDE DEF b
<1>9. Len(b \o c) = (1 + n) + 1 /\ \A k \in 1 .. (1 + n) + 1 : (b \o c)[k] = IF k <= 1 + n THEN b[k] ELSE c[k - (1 + n)]
  <2>0. IsSeq(b) /\ Len(b) = 1 + n
    BY <1>8 DEF b
  <2>1. /\ Len(b \o c) = Len(b) + Len(c)
        /\ \A k \in 1 .. Len(b) + Len(c) : (b \o c)[k] = IF k <= Len(b) THEN b[k] ELSE c[k - Len(b)]
    BY <1>5, <2>0, ConcatIsSeq
  <2> QED BY <1>5, <2>0, <2>1
<1>10. fs = b \o c
  BY DEF a, b, c, ls, TableFields
<1>11. fs[1] = U(n)
  <2>1. 1 \in 1 .. (1 + n) + 1 /\ 1 <= 1 + n /\ 1 \in 1 .. 1 + n
    BY <1>1
  <2>2. fs[1] = b[1]
    BY <1>9, <1>10, <2>1
  <2>3. b[1] = a[1]
    BY <1>8, <2>1 DEF b
  <2> QED BY <2>2, <2>3, <1>5
<1>12. fs[n + 2] = U(d)
  <2>1. n + 2 \in 1 .. (1 + n) + 1 /\ ~(n + 2 <= 1 + n) /\ (n + 2) - (1 + n) = 1
    BY <1>1
  <2> QED BY <2>1, <1>5, <1>9, <1>10
<1>13. ASSUME NEW k \in 1 .. n PROVE fs[k + 1] = U(labels[k])
  <2>1. k + 1 \in 1 .. (1 + n) + 1 /\ k + 1 <= 1 + n /\ k + 1 \in 1 .. 1 + n /\ ~(k + 1 <= 1) /\ (k + 1) - 1 = k
    BY <1>1
  <2>2. fs[k + 1] = b[k + 1]
    BY <1>9, <1>10, <2>1
  <2>3. b[k + 1] = ls[k]
    BY <1>8, <2>1 DEF b
  <2> QED BY <2>2, <2>3, <1>3
<1>14. Len(fs) = n + 2
  BY <1>1, <1>9, <1>10
<1> QED BY <1>1, <1>7, <1>10, <1>11, <1>12, <1>13, <1>14 DEF b

\* Their places.
TableAt(labels, d, n, ps) ==
    /\ ReadULEB(ps[1]).value = n /\ ReadULEB(ps[1]).next = ps[2]
    /\ \A k \in 1 .. n : ReadULEB(ps[k + 1]).value = labels[k] /\ ReadULEB(ps[k + 1]).next = ps[k + 2]
    /\ ReadULEB(ps[n + 2]).value = d /\ ReadULEB(ps[n + 2]).next = ps[n + 3]
AllBounded(labels) == \A k \in DOMAIN labels : Bounded(labels[k])
LEMMA TablePlaces ==
    ASSUME NEW labels, IsSeq(labels), AllBounded(labels), NEW d, Bounded(d), NEW n, n = Len(labels), Bounded(n),
           NEW fs, fs = TableFields(labels, d), NEW ss, NEW o, NEW ps, FieldsAt(fs, n + 2, ss, o, ps)
    PROVE  TableAt(labels, d, n, ps)
<1>2. n \in Nat /\ fs[1] = U(n) /\ fs[n + 2] = U(d) /\ \A k \in 1 .. n : fs[k + 1] = U(labels[k])
  BY TableFieldsAre
<1>1. n \in Nat /\ fs[1] = U(n) /\ fs[n + 2] = U(d) /\ DOMAIN labels = 1 .. n
  BY <1>2, IsSeqLen
<1>3. ASSUME NEW k \in 1 .. n + 2, NEW v, Bounded(v), fs[k] = U(v)
      PROVE  ReadULEB(ps[k]).value = v /\ ReadULEB(ps[k]).next = ps[k + 1]
  <2>1. At(ps[k], ss[o + k]) /\ Holds(ss[o + k], U(v)) /\ ps[k + 1] = ps[k] + Len(ss[o + k])
    BY <1>3 DEF FieldsAt
  <2> QED BY <2>1, <1>3, NumberRead
<1>4. ReadULEB(ps[1]).value = n /\ ReadULEB(ps[1]).next = ps[1 + 1]
  <2>1. 1 \in 1 .. n + 2
    BY <1>1
  <2> QED BY <2>1, <1>1, <1>3
<1>5. ReadULEB(ps[n + 2]).value = d /\ ReadULEB(ps[n + 2]).next = ps[(n + 2) + 1]
  <2>1. n + 2 \in 1 .. n + 2
    BY <1>1
  <2> QED BY <2>1, <1>1, <1>3
<1>6. ASSUME NEW k \in 1 .. n PROVE ReadULEB(ps[k + 1]).value = labels[k] /\ ReadULEB(ps[k + 1]).next = ps[k + 2]
  <2>1. k + 1 \in 1 .. n + 2 /\ (k + 1) + 1 = k + 2
    BY <1>1
  <2>2. Bounded(labels[k]) /\ fs[k + 1] = U(labels[k])
    BY <1>1, <1>2 DEF AllBounded
  <2>3. ReadULEB(ps[k + 1]).value = labels[k] /\ ReadULEB(ps[k + 1]).next = ps[(k + 1) + 1]
    BY <2>1, <2>2, <1>3
  <2> QED BY <2>1, <2>3
<1>7. (n + 2) + 1 = n + 3 /\ 1 + 1 = 2
  BY <1>1
<1> QED BY <1>4, <1>5, <1>6, <1>7 DEF TableAt

LEMMA TableLabels ==
    ASSUME NEW labels, IsSeq(labels), NEW d, NEW n, Long(labels, n), NEW ps, TableAt(labels, d, n, ps)
    PROVE  ReadLabels(ps[1]).value = labels /\ ReadLabels(ps[1]).next = ps[n + 2]
<1>1. n = Len(labels) /\ n \in Nat
  BY IsSeqLen DEF Long
<1>2. PICK zs : zs = [k \in 1 .. n + 1 |-> ps[k + 1]]
  OBVIOUS
<1>3. DOMAIN zs = 1 .. n + 1 /\ zs = [k \in 1 .. n + 1 |-> zs[k]]
  BY <1>2
<1>4. zs[1] = ps[2] /\ zs[n + 1] = ps[n + 2]
  <2>1. 1 \in 1 .. n + 1 /\ n + 1 \in 1 .. n + 1 /\ (n + 1) + 1 = n + 2 /\ 1 + 1 = 2
    BY <1>1
  <2> QED BY <1>2, <2>1
<1>5. ASSUME NEW k \in 1 .. n PROVE zs[k] = ps[k + 1] /\ zs[k + 1] = ps[k + 2]
  <2>1. k \in 1 .. n + 1 /\ k + 1 \in 1 .. n + 1 /\ (k + 1) + 1 = k + 2
    BY <1>1
  <2> QED BY <1>2, <2>1
<1>6. PICK q : q = ps[1]
  OBVIOUS
<1>7. LabelsAt(q, labels, n, zs)
  <2>1. ReadULEB(q).value = n /\ ReadULEB(q).next = zs[1]
    BY <1>4, <1>6 DEF TableAt
  <2>2. \A k \in 1 .. n : ReadULEB(zs[k]).next = zs[k + 1] /\ ReadULEB(zs[k]).value = labels[k]
    BY <1>5 DEF TableAt
  <2> QED BY <1>1, <1>3, <2>1, <2>2 DEF LabelsAt
<1>8. PICK read : read = ReadLabels(q)
  OBVIOUS
<1>9. read.value = labels /\ read.next = zs[n + 1]
  BY <1>7, <1>8, LabelsRead
<1> QED BY <1>4, <1>6, <1>8, <1>9

LEMMA TableLocated ==
    ASSUME NEW inst, ~IsBlock(inst), NEW labels, labels = inst.arg.labels, IsSeq(labels), NEW d, d = inst.arg.default_br,
           NEW n, n = Len(labels), NEW ps, TableAt(labels, d, n, ps),
           NEW format, format = <<<<"labels", "labels">>, <<"uleb", "default_br">>>>
    PROVE  /\ IsFormat(format, 2) /\ IsPlaces(<<ps[1], ps[n + 2], ps[n + 3]>>, 2)
           /\ Located(inst, format, 2, <<ps[1], ps[n + 2], ps[n + 3]>>)
<1> DEFINE x == <<"labels", "labels">>
           y == <<"uleb", "default_br">>
           a == ps[1]
           b == ps[n + 2]
           c == ps[n + 3]
           qs == <<a, b, c>>
<1>1. x[1] = "labels" /\ x[2] = "labels" /\ y[1] = "uleb" /\ y[2] = "default_br"
  OBVIOUS
<1>2. n \in Nat
  BY IsSeqLen
<1>3. format = <<x, y>>
  OBVIOUS
<1> HIDE DEF x, y
<1>4. Len(<<x, y>>) = 2 /\ <<x, y>>[1] = x /\ <<x, y>>[2] = y /\ DOMAIN <<x, y>> = 1 .. 2
  OBVIOUS
<1>5. IsFormat(format, 2)
  <2>1. ASSUME NEW j \in 1 .. 2, NEW k \in 1 .. 2, <<x, y>>[j][2] = <<x, y>>[k][2] PROVE j = k
    <3>1. (j = 1 \/ j = 2) /\ (k = 1 \/ k = 2)
      OBVIOUS
    <3>2. "labels" # "default_br"
      OBVIOUS
    <3> QED BY <3>1, <3>2, <2>1, <1>1, <1>4
  <2> QED BY <2>1, <1>3, <1>4 DEF IsFormat
<1>6. ReadLabels(a).value = labels /\ ReadLabels(a).next = b
  <2>1. Long(labels, n)
    BY DEF Long
  <2>2. ReadLabels(ps[1]).value = labels /\ ReadLabels(ps[1]).next = ps[n + 2]
    BY <2>1, TableLabels
  <2> QED BY <2>2
<1>7. ReadULEB(b).value = d /\ ReadULEB(b).next = c
  BY DEF TableAt
<1>8. qs[1] = a /\ qs[2] = b /\ qs[3] = c /\ DOMAIN qs = 1 .. 3 /\ qs = [k \in 1 .. 3 |-> qs[k]]
  <2> HIDE DEF a, b, c
  <2> QED OBVIOUS
<1> HIDE DEF qs
<1>9. IsPlaces(qs, 2)
  BY <1>8 DEF IsPlaces
<1>10. FieldAt(x, a, b, Operand(inst, x[2]))
  <2>1. Operand(inst, "labels") = labels
    BY OperandPlain
  <2>2. Resolved("labels", "labels", labels) = labels
    BY NamesAre, PlainOperand
  <2>3. Read("labels", a) = ReadLabels(a)
    BY DEF Read
  <2> QED BY <2>1, <2>2, <2>3, <1>1, <1>6 DEF FieldAt
<1>11. FieldAt(y, b, c, Operand(inst, y[2]))
  <2>1. Operand(inst, "default_br") = d
    BY OperandPlain
  <2>2. Resolved("uleb", "default_br", d) = d
    BY NamesAre, PlainOperand
  <2>3. Read("uleb", b) = ReadULEB(b)
    BY DEF Read
  <2> QED BY <2>1, <2>2, <2>3, <1>1, <1>7 DEF FieldAt
<1>12. Located(inst, format, 2, qs)
  <2> HIDE DEF a, b, c
  <2>1. ASSUME NEW k \in 1 .. 2 PROVE FieldAt(format[k], qs[k], qs[k + 1], Operand(inst, format[k][2]))
    <3>1. CASE k = 1
      <4>1. format[k] = x /\ qs[k] = a /\ qs[k + 1] = b
        BY <3>1, <1>3, <1>4, <1>8
      <4> QED BY <4>1, <1>10
    <3>2. CASE k = 2
      <4>1. format[k] = y /\ qs[k] = b /\ qs[k + 1] = c
        BY <3>2, <1>3, <1>4, <1>8
      <4> QED BY <4>1, <1>11
    <3> QED BY <3>1, <3>2
  <2> QED BY <2>1 DEF Located
<1> QED BY <1>5, <1>9, <1>12 DEF qs, a, b, c

LEMMA TableReads ==
    ASSUME NEW inst, InstOK(inst), inst.op = \h0E, IsKnown(inst.op), HasOperands(inst),
           NEW ss, IsCode(ss, inst), NEW p, At(p, FlattenSeq(ss))
    PROVE  ReadsBack(p, inst, ss)
<1>1. PICK labels, d, op : labels = inst.arg.labels /\ d = inst.arg.default_br /\ op = inst.op
  OBVIOUS
<1>2. PICK n : n = Len(labels)
  OBVIOUS
<1>3. PICK fs : fs = TableFields(labels, d)
  OBVIOUS
<1>4. PICK format : format = <<<<"labels", "labels">>, <<"uleb", "default_br">>>>
  OBVIOUS
<1>5. IsShort(op) /\ op \in ControlOps /\ ~IsBlock(inst) /\ op \notin PaddedOps /\ op \notin {\h41, \h42} /\ B1(op) = op /\ B2(op) = 0
  <2>1. IsShort(op) /\ op \in ControlOps /\ ~IsBlock(inst) /\ op \notin PaddedOps /\ op \notin {\h41, \h42}
    BY <1>1 DEF IsShort, ControlOps, IsBlock, Blocks, PaddedOps, MemoryOps
  <2> QED BY <2>1, ShortIs
<1>6. EncodeControl(inst) = fs /\ FormatControl(op) = format
  <2>1. EncodeControl(inst) = fs
    BY <1>1, <1>3, <1>5 DEF EncodeControl, TableFields, LabelFields, Blocks
  <2>2. FormatControl(op) = format
    BY <1>1, <1>4 DEF FormatControl, Blocks
  <2> QED BY <2>1, <2>2
<1>7. Written(inst) = Opcode(op) \o fs /\ FormatOf(B1(op), B2(op)) = format
  BY <1>1, <1>5, <1>6, ShortSwitched, ZenonT(40) DEF Switched
<1>8. IsSeq(labels)
  BY <1>1 DEF InstOK
<1>9. n \in Nat /\ AllSolid(fs) /\ Len(fs) = n + 2
  BY <1>2, <1>3, <1>8, TableFieldsAre
<1>10. AllBounded(labels) /\ Bounded(d) /\ Bounded(n)
  <2>1. Has(inst, format)
    BY <1>1, <1>7 DEF Has, HasOperands
  <2>2. InBounds(inst, "labels", "labels") /\ InBounds(inst, "uleb", "default_br")
    BY <2>1, <1>4, HasTwo
  <2>3. InBound("labels", labels) /\ InBound("uleb", d)
    BY <2>2, <1>1, NamesAre DEF InBounds
  <2>4. Bounded(d)
    BY <2>3 DEF InBound, Bounded
  <2>5. Len(labels) < 128 ^ 4 /\ AllBounded(labels)
    BY <2>3, Zenon DEF InBound, Bounded, AllBounded
  <2>6. Bounded(n)
    BY <2>5, <1>2, <1>9, SMT DEF Bounded
  <2> QED BY <2>4, <2>5, <2>6
<1>11. PICK m : m = n + 2
  OBVIOUS
<1>12. PICK o, ps : Found(p, op, fs, m, ss, o, ps)
  BY <1>1, <1>5, <1>7, <1>9, <1>11, FieldsFound
<1>13. OpcodeAt(p, op, ps[1]) /\ FieldsAt(fs, n + 2, ss, o, ps) /\ ps[n + 3] = p + Len(FlattenSeq(ss))
  <2>1. m + 1 = n + 3
    BY <1>9, <1>11
  <2> QED BY <2>1, <1>11, <1>12 DEF Found
<1>14. TableAt(labels, d, n, ps)
  BY <1>2, <1>3, <1>8, <1>10, <1>13, TablePlaces
<1>15. PICK qs : qs = <<ps[1], ps[n + 2], ps[n + 3]>>
  OBVIOUS
<1>16. IsFormat(format, 2) /\ IsPlaces(qs, 2) /\ Located(inst, format, 2, qs)
  BY <1>1, <1>2, <1>4, <1>5, <1>8, <1>14, <1>15, TableLocated
<1>17. qs[1] = ps[1] /\ qs[3] = ps[n + 3]
  BY <1>15
<1>18. PICK r : r = Instruction(p)
  OBVIOUS
<1>19. OpcodeAt(p, op, qs[1])
  BY <1>13, <1>17
<1>20. InstIs(r, inst, op, p, 2, qs)
  BY <1>1, <1>5, <1>7, <1>16, <1>18, <1>19, InstFrom
<1>21. 2 + 1 = 3
  OBVIOUS
<1>22. ~PastEnd(p)
  BY <1>19 DEF OpcodeAt
<1> QED BY <1>1, <1>5, <1>13, <1>17, <1>18, <1>20, <1>21, <1>22 DEF InstIs, ReadsBack

-----------------------------------------------------------------------------
(* One instruction *)

\* Written by encode or by another tool, and fit to be read back.
Fit(inst) ==
    /\ InstOK(inst)
    /\ IsShort(inst.op) \/ IsLong(inst.op)
    /\ IsKnown(inst.op) /\ HasOperands(inst) /\ ~EncodeThrows(inst) /\ Survives(inst)

LEMMA SwitchedReads ==
    ASSUME NEW inst, IsShort(inst.op) \/ IsLong(inst.op), IsKnown(inst.op), HasOperands(inst),
           NEW fs, NEW format, Switched(inst, fs, format), Agreed(inst, fs, format),
           NEW ss, IsCode(ss, inst), NEW p, At(p, FlattenSeq(ss))
    PROVE  ReadsBack(p, inst, ss)
<1>1. PICK op : op = inst.op
  OBVIOUS
<1>2. Written(inst) = Opcode(op) \o fs /\ format = FormatOf(B1(op), B2(op))
  BY <1>1 DEF Switched
<1>3. PICK m : Agree(inst, fs, format, m) /\ (op \in PaddedOps => m = 2) /\ (op \in {\h41, \h42} => m = 1)
  BY <1>1 DEF Agreed
<1> QED BY <1>1, <1>2, <1>3, AgreeReads, ZenonT(40)

LEMMA SwitchedHas ==
    ASSUME NEW inst, HasOperands(inst), NEW fs, NEW format, Switched(inst, fs, format)
    PROVE  Has(inst, format)
BY DEF HasOperands, Has, Switched

ReadsAlike(inst) == \E fs, format : Switched(inst, fs, format) /\ Agreed(inst, fs, format)
LEMMA ShortPaired ==
    ASSUME NEW inst, Fit(inst), IsShort(inst.op), inst.op # \h0E
    PROVE  ReadsAlike(inst)
<1>1. PICK op : op = inst.op
  OBVIOUS
<1>2. /\ InstOK(inst) /\ IsKnown(inst.op) /\ HasOperands(inst) /\ ~Missing(inst) /\ op # \h06
      /\ IsBlock(inst) => BlockTypeField(inst.arg.type) # S(0)
  <2>1. InstOK(inst) /\ IsKnown(inst.op) /\ HasOperands(inst) /\ ~EncodeThrows(inst) /\ Survives(inst)
    BY DEF Fit
  <2>2. ~Missing(inst)
    BY <2>1 DEF EncodeThrows
  <2>3. IsBlock(inst) => BlockTypeField(inst.arg.type) # S(0)
    BY <2>1 DEF Survives
  <2>4. op # \h06
    BY <1>1, <2>1 DEF Survives
  <2> QED BY <2>1, <2>2, <2>3, <2>4
<1>3. /\ B1(op) = op /\ B2(op) = 0 /\ op \notin {\hFC, \hFD, \hFE} /\ op \in Nat
  BY <1>1, ShortIs
<1>4. op \in ControlOps \cup VariableOps \cup \h28 .. \hC4 \cup \hD0 .. \hD2
  BY <1>1, <1>2, <1>3 DEF IsKnown, Supported
<1>6. CASE op \in ControlOps \ {\h0E}
  <2>1. Switched(inst, EncodeControl(inst), FormatControl(op))
    BY <1>1, <1>6, ShortSwitched
  <2>2. Has(inst, FormatControl(op))
    BY <2>1, <1>2, SwitchedHas
  <2>3. op \in ControlOps \ {\h06, \h0E}
    BY <1>2, <1>6
  <2>4. Agreed(inst, EncodeControl(inst), FormatControl(op))
    BY <1>1, <1>2, <2>2, <2>3, ControlAgrees
  <2> QED BY <2>1, <2>4 DEF ReadsAlike
<1>7. CASE op \in VariableOps
  <2>1. Switched(inst, EncodeVariable(inst), FormatOfVariable(op))
    BY <1>1, <1>7, ShortSwitched
  <2>2. Has(inst, FormatOfVariable(op))
    BY <2>1, <1>2, SwitchedHas
  <2>3. Agreed(inst, EncodeVariable(inst), FormatOfVariable(op))
    BY <1>1, <1>2, <1>7, <2>2, VariableAgrees
  <2> QED BY <2>1, <2>3 DEF ReadsAlike
<1>8. CASE op \in \h28 .. \h40
  <2>1. Switched(inst, EncodeMemory(inst), FormatMemory(op))
    BY <1>1, <1>8, ShortSwitched
  <2>2. Has(inst, FormatMemory(op))
    BY <2>1, <1>2, SwitchedHas
  <2>3. Agreed(inst, EncodeMemory(inst), FormatMemory(op))
    BY <1>1, <1>2, <1>8, <2>2, MemoryAgrees
  <2> QED BY <2>1, <2>3 DEF ReadsAlike
<1>9. CASE op \in \h45 .. \hC4
  <2>1. Switched(inst, EncodeNumeric(inst), FormatNumeric(op))
    BY <1>1, <1>9, ShortSwitched DEF Numerics
  <2>2. op \notin PaddedOps /\ op \notin {\h41, \h42}
    BY <1>9 DEF PaddedOps, MemoryOps
  <2>3. Agreed(inst, EncodeNumeric(inst), FormatNumeric(op))
    BY <1>1, <2>2, AgreedNone DEF EncodeNumeric, FormatNumeric
  <2> QED BY <2>1, <2>3 DEF ReadsAlike
<1>10. CASE op \in \hD0 .. \hD2
  <2>1. Switched(inst, EncodeReference(inst), FormatReference(op))
    BY <1>1, <1>10, ShortSwitched
  <2>2. Has(inst, FormatReference(op))
    BY <2>1, <1>2, SwitchedHas
  <2>3. Agreed(inst, EncodeReference(inst), FormatReference(op))
    BY <1>1, <1>2, <1>10, <2>2, ReferenceAgrees
  <2> QED BY <2>1, <2>3 DEF ReadsAlike
<1>11. op \in \h28 .. \hC4 => op \in \h28 .. \h40 \/ op \in {\h41, \h42, \h43, \h44} \/ op \in \h45 .. \hC4
  BY <1>3
<1>12. op \in {\h41, \h42, \h43, \h44} => op \in VariableOps
  BY DEF VariableOps
<1> QED BY <1>1, <1>4, <1>6, <1>7, <1>8, <1>9, <1>10, <1>11, <1>12

LEMMA FormatSimdMemory ==
    ASSUME NEW sub \in SimdMemory
    PROVE  FormatSimd(sub) = MemArg
<1> DEFINE l == MemArg \o <<<<"u8", "laneidx">>>>
           a == <<<<"bytes16", "value">>>>
           b == <<<<"bytes16", "lanes">>>>
           c == <<<<"u8", "laneidx">>>>
           e == <<>>
<1>1. FormatSimd(sub) =
        CASE sub \in SimdMemory -> MemArg
          [] sub \in SimdLanes -> l
          [] sub = 12 -> a
          [] sub = 13 -> b
          [] sub \in 21 .. 34 -> c
          [] OTHER -> e
  BY DEF FormatSimd
<1> HIDE DEF l, a, b, c, e
<1>2. sub \notin SimdLanes /\ sub # 12 /\ sub # 13 /\ sub \notin 21 .. 34
  BY DEF SimdMemory, SimdLanes
<1> QED BY <1>1, <1>2

LEMMA LongPaired ==
    ASSUME NEW inst, Fit(inst), IsLong(inst.op)
    PROVE  ReadsAlike(inst)
<1>1. PICK op, sub : op = inst.op /\ sub = B2(op)
  OBVIOUS
<1>2. IsKnown(inst.op) /\ HasOperands(inst)
  BY DEF Fit
<1>3. /\ op \in Nat /\ op > \hFF /\ B1(op) \in {\hFC, \hFD, \hFE} /\ sub \in 0 .. 255 /\ 256 * B1(op) + sub = op
      /\ op \notin \hFC12 .. \hFCFF => ~(B1(op) = \hFC /\ sub > 17)
  BY <1>1, LongIs
<1>4. ~IsBlock(inst) /\ op \notin {\h41, \h42}
  BY <1>1, <1>3 DEF IsBlock, Blocks
<1>5. /\ ~Missing(inst)
      /\ op = \hFE03 => inst.arg.memidx = 0
      /\ B1(op) = \hFD => sub \notin EncodeSimdTodo
      /\ B1(op) = \hFE => sub \in 0 .. 3 \cup \h10 .. \h4E
  BY <1>1 DEF Fit, EncodeThrows
<1>6. CASE B1(op) = \hFC
  <2>1. sub \in 0 .. 17
    <3>1. ~(B1(op) = \hFC /\ sub > 17)
      BY <1>1, <1>2, <1>3 DEF IsKnown
    <3> QED BY <1>3, <1>6, <3>1
  <2>2. op \notin PaddedOps
    BY <1>3, <1>6 DEF PaddedOps, MemoryOps
  <2>3. sub # 8 /\ (sub = 12 => IndexOfArg(inst, "table") < 256)
    <3>1. op # \hFC08 /\ (op = \hFC0C => IndexOfArg(inst, "table") < 256)
      BY <1>1 DEF Fit, Survives
    <3>2. (sub = 8 => op = \hFC08) /\ (sub = 12 => op = \hFC0C)
      BY <1>3, <1>6
    <3> QED BY <3>1, <3>2
  <2>4. Switched(inst, EncodeBulk(inst), FormatBulk(sub))
    <3>1. sub <= 17
      BY <2>1
    <3> QED BY <1>1, <1>6, <3>1, LongSwitched
  <2>5. Has(inst, FormatBulk(sub))
    BY <2>4, <1>2, SwitchedHas
  <2>6. Plain(inst)
    BY <1>1, <1>4, <1>5, <2>2 DEF Plain
  <2>7. Agreed(inst, EncodeBulk(inst), FormatBulk(sub))
    BY <1>1, <2>1, <2>3, <2>5, <2>6, BulkAgrees
  <2> QED BY <2>4, <2>7 DEF ReadsAlike
<1>7. CASE B1(op) = \hFD
  <2>1. sub \in SimdMemory
    <3>1. sub \in SimdMemory \cup SimdLanes \cup {12, 13} \cup 21 .. 34 \cup SimdPlain
      BY <1>1, <1>2, <1>7 DEF IsKnown, Supported
    <3>2. sub \notin {12, 13} \cup 21 .. 34 \cup SimdPlain
      BY <1>5, <1>7, SwitchesAgree
    <3>3. sub \notin SimdLanes
      <4>1. op \notin \hFD54 .. \hFD5B
        BY <1>1 DEF Fit, Survives
      <4>2. sub \in SimdLanes => op \in \hFD54 .. \hFD5B
        BY <1>3, <1>7 DEF SimdLanes
      <4> QED BY <4>1, <4>2
    <3> QED BY <3>1, <3>2, <3>3
  <2>2. Switched(inst, EncodeSimd(inst), FormatSimd(sub))
    BY <1>1, <1>7, <2>1, LongSwitched
  <2>3. FormatSimd(sub) = MemArg
    BY <2>1, FormatSimdMemory
  <2>4. Has(inst, MemArg)
    BY <2>2, <2>3, <1>2, SwitchedHas
  <2>5. Agreed(inst, EncodeSimd(inst), FormatSimd(sub))
    <3>1. Agreed(inst, <<U(inst.arg.align), U(inst.arg.offset)>>, MemArg)
      BY <1>1, <1>4, <2>4, AgreedMemArg
    <3> QED BY <2>3, <3>1 DEF EncodeSimd
  <2> QED BY <2>2, <2>5 DEF ReadsAlike
<1>8. CASE B1(op) = \hFE
  <2>1. Switched(inst, EncodeAtomic(inst), FormatAtomic(sub))
    BY <1>1, <1>8, LongSwitched
  <2>2. Has(inst, FormatAtomic(sub))
    BY <2>1, <1>2, SwitchedHas
  <2>3. sub = 3 => inst.arg.memidx = 0 /\ op \notin PaddedOps
    <3>1. sub = 3 => op = \hFE03
      BY <1>3, <1>8
    <3>2. \hFE03 \notin PaddedOps
      BY DEF PaddedOps, MemoryOps
    <3> QED BY <1>5, <3>1, <3>2
  <2>4. sub \in 0 .. 3 \cup \h10 .. \h4E
    BY <1>5, <1>8
  <2>5. Agreed(inst, EncodeAtomic(inst), FormatAtomic(sub))
    BY <1>1, <1>4, <2>2, <2>3, <2>4, AtomicAgrees
  <2> QED BY <2>1, <2>5 DEF ReadsAlike
<1> QED BY <1>3, <1>6, <1>7, <1>8

LEMMA FitPaired ==
    ASSUME NEW inst, Fit(inst)
    PROVE  inst.op = \h0E \/ ReadsAlike(inst)
BY ShortPaired, LongPaired DEF Fit

LEMMA FitReads ==
    ASSUME NEW inst, Fit(inst), NEW ss, IsCode(ss, inst), NEW p, At(p, FlattenSeq(ss))
    PROVE  ReadsBack(p, inst, ss)
<1>1. InstOK(inst) /\ (IsShort(inst.op) \/ IsLong(inst.op)) /\ IsKnown(inst.op) /\ HasOperands(inst)
  BY DEF Fit
<1>2. CASE inst.op = \h0E
  BY <1>1, <1>2, TableReads
<1>3. CASE ReadsAlike(inst)
  <2>1. PICK fs, format : Switched(inst, fs, format) /\ Agreed(inst, fs, format)
    BY <1>3 DEF ReadsAlike
  <2> QED BY <1>1, <2>1, SwitchedReads
<1> QED BY <1>2, <1>3, FitPaired

\* It is not refused, unless as an else that is in no if.
LEMMA BlockTypeRead ==
    ASSUME NEW inst, Fit(inst), IsBlock(inst)
    PROVE  "type" \in DOMAIN inst.arg /\ Operand(inst, "type") # <<"invalid">>
<1>1. PICK op, t : op = inst.op /\ t = inst.arg["type"]
  OBVIOUS
<1>2. op \in {\h02, \h03, \h04} /\ HasOperands(inst)
  BY <1>1 DEF Fit, Survives, IsBlock, Blocks
<1>3. IsShort(op) /\ op \in ControlOps
  BY <1>2 DEF IsShort, ControlOps
<1>4. Switched(inst, EncodeControl(inst), FormatControl(op))
  BY <1>1, <1>3, ShortSwitched
<1>5. Has(inst, FormatControl(op))
  BY <1>2, <1>4, SwitchedHas
<1>6. FormatControl(op) = <<<<"blocktype", "type">>>>
  BY <1>2 DEF FormatControl, Blocks
<1>7. "type" \in DOMAIN inst.arg /\ InBounds(inst, "blocktype", "type")
  BY <1>5, <1>6, HasOne
<1>8. t = <<t[1], t[2]>>
  BY <1>1, <1>7 DEF InBounds, InBound
<1>9. \A a, b : <<a, b>> # <<"invalid">>
  <2>1. ASSUME NEW a, NEW b PROVE <<a, b>> # <<"invalid">>
    <3>1. Len(<<a, b>>) = 2 /\ Len(<<"invalid">>) = 1
      OBVIOUS
    <3> QED BY <3>1
  <2> QED BY <2>1
<1>10. Operand(inst, "type") = t \/ \E a, b : Operand(inst, "type") = <<a, b>>
  BY <1>1 DEF Operand
<1> QED BY <1>7, <1>8, <1>9, <1>10

LEMMA FuncNamed ==
    ASSUME NEW inst, Fit(inst), inst.op = \h10
    PROVE  "func" \in DOMAIN inst.arg /\ Operand(inst, "func") # "undefined"
<1>1. HasOperands(inst) /\ ~Missing(inst) /\ ~IsBlock(inst)
  BY DEF Fit, EncodeThrows, IsBlock, Blocks
<1>2. IsShort(inst.op) /\ inst.op \in ControlOps
  BY DEF IsShort, ControlOps
<1>3. Switched(inst, EncodeControl(inst), FormatControl(inst.op))
  BY <1>2, ShortSwitched
<1>4. Has(inst, FormatControl(inst.op))
  BY <1>1, <1>3, SwitchedHas
<1>5. FormatControl(inst.op) = <<<<"uleb", "func">>>>
  BY DEF FormatControl, Blocks
<1>6. "func" \in DOMAIN inst.arg
  BY <1>4, <1>5, HasOne
<1> QED BY <1>1, <1>6, NamesAre, SuitsIndex, OperandPlain

LEMMA MemoryZero ==
    ASSUME NEW inst, Fit(inst), inst.op \in {\h3F, \h40}
    PROVE  "memidx" \in DOMAIN inst.arg /\ Operand(inst, "memidx") = 0
<1>1. PICK op : op = inst.op
  OBVIOUS
<1>2. HasOperands(inst) /\ ~EncodeThrows(inst)
  BY DEF Fit
<1>3. inst.arg.memidx = 0
  BY <1>2 DEF EncodeThrows
<1>4. ~IsBlock(inst) /\ op \notin MemoryOps
  BY <1>1 DEF IsBlock, Blocks, MemoryOps
<1>5. IsShort(op) /\ op \in \h28 .. \h40
  BY <1>1 DEF IsShort
<1>6. Switched(inst, EncodeMemory(inst), FormatMemory(op))
  BY <1>1, <1>5, ShortSwitched
<1>7. Has(inst, FormatMemory(op))
  BY <1>2, <1>6, SwitchedHas
<1>8. FormatMemory(op) = <<<<"u8", "memidx">>>>
  BY <1>4 DEF FormatMemory
<1>9. "memidx" \in DOMAIN inst.arg
  BY <1>7, <1>8, HasOne
<1> QED BY <1>3, <1>4, <1>9, OperandPlain

LEMMA FitPasses ==
    ASSUME NEW inst, Fit(inst), NEW ss, IsCode(ss, inst), At(offset, FlattenSeq(ss)),
           NEW r, r = Instruction(offset), inst.op = \h05 => blkstack[Len(blkstack)] = \h04
    PROVE  ~DecodeThrows(r)
<1>1. ReadsBack(offset, inst, ss)
  BY FitReads
<1>2. /\ r.op = inst.op /\ r.known = TRUE /\ ~PastEnd(offset)
      /\ r.next = offset + Len(FlattenSeq(ss)) /\ SameInst(r, inst)
  BY <1>1 DEF ReadsBack
<1>3. r.next <= Len(data)
  BY <1>2 DEF At
<1>4. ~(r.next > Len(data))
  <2>1. r.next \in Nat /\ Len(data) \in Nat
    BY <1>2, IsSeqLen DEF At
  <2> QED BY <1>3, <2>1
<1>5. DOMAIN r.arg = DOMAIN inst.arg /\ \A name \in DOMAIN inst.arg : r.arg[name] = Operand(inst, name)
  BY <1>2 DEF SameInst
<1>6. IsBlock(r) => r.arg.type # <<"invalid">>
  <2> SUFFICES ASSUME IsBlock(r) PROVE r.arg.type # <<"invalid">>
    OBVIOUS
  <2>1. IsBlock(inst)
    BY <1>2 DEF IsBlock
  <2>2. "type" \in DOMAIN inst.arg /\ Operand(inst, "type") # <<"invalid">>
    BY <2>1, BlockTypeRead
  <2> QED BY <1>5, <2>2
<1>7. r.op = \h10 => r.arg.func # "undefined"
  BY <1>2, <1>5, FuncNamed
<1>8. r.op \in {\h3F, \h40} => r.arg.memidx = 0
  BY <1>2, <1>5, MemoryZero
<1>9. ASSUME RangeChecked(r.op), NEW name \in DOMAIN r.arg \cap DOMAIN SpaceOf
      PROVE  r.arg[name] # "undefined"
  <2>1. ~IsBlock(inst)
    BY <1>2, <1>9 DEF RangeChecked, IsBlock, Blocks
  <2>2. ~Missing(inst)
    BY DEF Fit, EncodeThrows
  <2>3. inst.arg[name] # "undefined"
    BY <1>5, <2>1, <2>2, SuitsIndex
  <2>4. r.arg[name] = inst.arg[name]
    BY <1>5, <2>1, OperandPlain
  <2> QED BY <2>3, <2>4
<1>10. ~(RangeChecked(r.op) /\ \E name \in DOMAIN r.arg \cap DOMAIN SpaceOf : r.arg[name] = "undefined")
  BY <1>9
<1>11. ~(r.op = \h05 /\ blkstack[Len(blkstack)] # \h04)
  BY <1>2
<1>12. ~(B1(r.op) \in {\hFD, \hFE} /\ ~r.known)
  BY <1>2
<1> QED BY <1>2, <1>4, <1>6, <1>7, <1>8, <1>10, <1>11, <1>12 DEF DecodeThrows

-----------------------------------------------------------------------------
(* What encode writes *)

LEMMA WrittenSolid ==
    ASSUME NEW inst, Fit(inst)
    PROVE  AllSolid(Written(inst))
<1>1. PICK op : op = inst.op
  OBVIOUS
<1>2. IsShort(op) \/ IsLong(op)
  BY <1>1 DEF Fit
<1>3. AllSolid(Opcode(op))
  BY <1>2, OpcodeSolid
<1>4. \E fs : Written(inst) = Opcode(op) \o fs /\ AllSolid(fs)
  <2>1. CASE op = \h0E
    <3>1. IsSeq(inst.arg.labels)
      BY <1>1, <2>1 DEF Fit, InstOK
    <3>2. PICK labels, d : labels = inst.arg.labels /\ d = inst.arg.default_br
      OBVIOUS
    <3>3. AllSolid(TableFields(labels, d))
      BY <3>1, <3>2, TableFieldsAre
    <3>4. EncodeControl(inst) = TableFields(labels, d)
      BY <1>1, <2>1, <3>2 DEF EncodeControl, TableFields, LabelFields, Blocks, IsBlock
    <3>5. IsShort(op) /\ op \in ControlOps
      BY <2>1 DEF IsShort, ControlOps
    <3>6. Written(inst) = Opcode(op) \o EncodeControl(inst)
      BY <1>1, <3>5, ShortSwitched DEF Switched
    <3> QED BY <3>3, <3>4, <3>6
  <2>2. CASE ReadsAlike(inst)
    <3>1. PICK fs, format : Switched(inst, fs, format) /\ Agreed(inst, fs, format)
      BY <2>2 DEF ReadsAlike
    <3>2. AllSolid(fs)
      BY <3>1 DEF Agreed, Agree
    <3> QED BY <1>1, <3>1, <3>2 DEF Switched
  <2> QED BY <1>1, <2>1, <2>2, FitPaired
<1> QED BY <1>3, <1>4, SolidConcat

LEMMA PadSmall ==
    ASSUME NEW inst
    PROVE  PadOf(inst) \in {0} \cup 4 .. 7
BY VectorAssumption DEF PadOf

LEMMA FieldHolds ==
    ASSUME NEW inst, NEW f
    PROVE  Holds(Bytes(inst, f), f)
<1>1. PICK v, p : v = f.value /\ p = PadOf(inst)
  OBVIOUS
<1>2. p \in {0} \cup 4 .. 7
  BY <1>1, PadSmall
<1>3. LengthULEB(v) \in 1 .. 4 /\ LengthSLEB(v) \in 1 .. 4
  BY LengthIs
<1>4. /\ PaddedTo(LengthULEB(v), p) \in LengthULEB(v) .. 7 /\ PaddedTo(LengthSLEB(v), p) \in LengthSLEB(v) .. 7
      /\ PaddedTo(LengthULEB(v), 0) \in LengthULEB(v) .. 7 /\ PaddedTo(LengthSLEB(v), 0) \in LengthSLEB(v) .. 7
  BY <1>2, <1>3 DEF PaddedTo
<1>5. /\ \E n \in LengthULEB(v) .. 7 : ULEB(v, p) = Groups(v, n)
      /\ \E n \in LengthULEB(v) .. 7 : ULEB(v, 0) = Groups(v, n)
      /\ \E n \in LengthSLEB(v) .. 7 : SLEB(v, p) = Groups(v, n)
      /\ \E n \in LengthSLEB(v) .. 7 : SLEB(v, 0) = Groups(v, n)
  BY <1>4 DEF ULEB, SLEB
<1> DEFINE a == <<LowByte(v)>>
           b == ULEB(v, 0)
           c == SLEB(v, 0)
           d == ULEB(v, p)
           e == SLEB(v, p)
<1>6. Bytes(inst, f) =
        CASE f.form = "u8" -> a
          [] f.form = "uleb" -> b
          [] f.form = "sleb" -> c
          [] f.form = "raw" -> v
          [] f.form = "relocU" -> d
          [] f.form = "relocS" -> e
  BY <1>1 DEF Bytes
<1> HIDE DEF a, b, c, d, e
<1>7. /\ f.form = "u8" => Bytes(inst, f) = a
      /\ f.form = "raw" => Bytes(inst, f) = v
      /\ f.form = "uleb" => Bytes(inst, f) = b
      /\ f.form = "relocU" => Bytes(inst, f) = d
      /\ f.form = "sleb" => Bytes(inst, f) = c
      /\ f.form = "relocS" => Bytes(inst, f) = e
  BY <1>6
<1>8. f.form = "u8" => Bytes(inst, f) = <<LowByte(f.value)>>
  BY <1>1, <1>7 DEF a
<1>9. f.form = "raw" => Bytes(inst, f) = f.value
  BY <1>1, <1>7
<1>10. f.form \in {"uleb", "relocU"} => \E n \in LengthULEB(f.value) .. 7 : Bytes(inst, f) = Groups(f.value, n)
  BY <1>1, <1>5, <1>7 DEF b, d
<1>11. f.form \in {"sleb", "relocS"} => \E n \in LengthSLEB(f.value) .. 7 : Bytes(inst, f) = Groups(f.value, n)
  BY <1>1, <1>5, <1>7 DEF c, e
<1> QED BY <1>8, <1>9, <1>10, <1>11 DEF Holds

PiecesOf(inst) == [k \in DOMAIN Written(inst) |-> Bytes(inst, Written(inst)[k])]
LEMMA EncodedIs ==
    ASSUME NEW inst, Fit(inst)
    PROVE  IsCode(PiecesOf(inst), inst) /\ BytesOf(inst) = FlattenSeq(PiecesOf(inst))
<1>1. PICK w, ss : w = Written(inst) /\ ss = PiecesOf(inst)
  OBVIOUS
<1>2. IsSeq(w)
  BY <1>1, WrittenSolid DEF AllSolid
<1>3. Len(w) \in Nat /\ DOMAIN w = 1 .. Len(w)
  BY <1>2, IsSeqLen
<1>4. ss = [k \in DOMAIN w |-> Bytes(inst, w[k])]
  BY <1>1 DEF PiecesOf
<1>5. IsSeq(ss) /\ DOMAIN ss = DOMAIN w
  <2>1. DOMAIN ss = 1 .. Len(w) /\ ss = [k \in 1 .. Len(w) |-> ss[k]]
    BY <1>3, <1>4
  <2> QED BY <1>3, <2>1, FunctionIsSeq
<1>6. \A k \in DOMAIN ss : Holds(ss[k], w[k])
  BY <1>4, FieldHolds
<1>7. ss \in Seq(Range(ss))
  BY <1>5 DEF IsSeq, Range, ToSet
<1>8. BytesOf(inst) = FlattenSeq(ss)
  BY <1>1 DEF BytesOf, PiecesOf
<1> QED BY <1>1, <1>5, <1>6, <1>7, <1>8 DEF IsCode

\* Code is a sequence of bytes.
LEMMA CodeIsSeq ==
    ASSUME NEW inst, Fit(inst), NEW ss, IsCode(ss, inst)
    PROVE  IsSeq(ss) /\ (\A k \in DOMAIN ss : IsSeq(ss[k])) /\ IsSeq(FlattenSeq(ss)) /\ Len(FlattenSeq(ss)) \in Nat
<1>1. IsSeq(ss) /\ DOMAIN ss = DOMAIN Written(inst) /\ \A k \in DOMAIN ss : Holds(ss[k], Written(inst)[k])
  BY SeqIsSeq DEF IsCode
<1>2. \A k \in DOMAIN ss : IsSeq(ss[k])
  BY <1>1, WrittenSolid DEF AllSolid, Solid
<1>3. PICK sizes : sizes = LensOf(ss)
  OBVIOUS
<1>4. sizes \in Seq(Int) /\ Len(sizes) = Len(ss) /\ \A k \in 1 .. Len(ss) : sizes[k] = Len(ss[k])
  <2>1. Len(ss) \in Nat /\ DOMAIN ss = 1 .. Len(ss)
    BY <1>1, IsSeqLen
  <2>2. \A k \in 1 .. Len(ss) : sizes[k] = Len(ss[k]) /\ sizes[k] \in Int
    <3>1. ASSUME NEW k \in 1 .. Len(ss) PROVE sizes[k] = Len(ss[k]) /\ sizes[k] \in Int
      <4>1. k \in DOMAIN ss
        BY <2>1
      <4>2. Len(ss[k]) \in Nat
        BY <4>1, <1>2, IsSeqLen
      <4> QED BY <4>1, <4>2, <1>3 DEF LensOf
    <3> QED BY <3>1
  <2>3. sizes = [k \in 1 .. Len(ss) |-> sizes[k]] /\ DOMAIN sizes = 1 .. Len(ss)
    BY <1>3, <2>1 DEF LensOf
  <2> QED BY <2>1, <2>2, <2>3, IntSeq
<1>5. IsSeq(FlattenSeq(ss))
  BY <1>1, <1>2, <1>4, FlattenLength
<1> QED BY <1>1, <1>2, <1>5, IsSeqLen

-----------------------------------------------------------------------------
(* The blocks *)

StackAfter(op, stack) == IF op = \h06 THEN Append(stack, \h06) ELSE BlocksAfter(op, stack)

LEMMA StackIs ==
    ASSUME NEW W, NEW op \in W, \h06 \in W, NEW stack \in Seq(W)
    PROVE  StackAfter(op, stack) \in Seq(W)
<1>1. Front(stack) \in Seq(W)
  <2>1. CASE stack = <<>>
    <3>1. Front(stack) = <<>>
      BY <2>1 DEF Front
    <3> QED BY <3>1
  <2>2. CASE stack # <<>>
    BY <2>2 DEF Front
  <2> QED BY <2>1, <2>2
<1>2. Append(stack, op) \in Seq(W) /\ Append(Front(stack), op) \in Seq(W) /\ Append(stack, \h06) \in Seq(W)
  BY <1>1
<1> QED BY <1>1, <1>2 DEF StackAfter, BlocksAfter

\* The blocks that are open behind each instruction follow from those before it.
LEMMA OpenedIs ==
    ASSUME NEW b, Len(b) \in Nat, NEW open, open = Opened(b)
    PROVE  /\ open[0] = <<"body">>
           /\ \A k \in 1 .. Len(b) : open[k] = StackAfter(b[k].op, open[k - 1])
           /\ \A k \in 0 .. Len(b) : IsSeq(open[k])
<1>1. PICK n : n = Len(b) /\ n \in Nat
  OBVIOUS
<1> DEFINE W == {"body", \h06} \cup {b[k].op : k \in 1 .. n}
           step == [vk \in Seq(W) \X (1 .. n) |-> StackAfter(b[vk[2]].op, vk[1])]
<1>2. <<"body">> \in Seq(W) /\ \h06 \in W
  OBVIOUS
<1>3. \A v \in Seq(W), k \in 1 .. n : step[<<v, k>>] = StackAfter(b[k].op, v)
  OBVIOUS
<1>4. \A k \in 1 .. n : b[k].op \in W
  OBVIOUS
<1> HIDE DEF W, step
<1>5. \A v \in Seq(W), k \in 1 .. n : step[<<v, k>>] \in Seq(W)
  <2>1. ASSUME NEW v \in Seq(W), NEW k \in 1 .. n PROVE step[<<v, k>>] \in Seq(W)
    <3>1. StackAfter(b[k].op, v) \in Seq(W)
      BY <1>2, <1>4, StackIs
    <3> QED BY <3>1, <1>3
  <2> QED BY <2>1
<1>6. PICK f : Recursion(f, Seq(W), <<"body">>, step, n)
  BY <1>1, <1>2, <1>5, RecursionExists DEF Keeps
<1> DEFINE Def(g) == g = [k \in 0 .. Len(b) |->
                IF k = 0 THEN <<"body">>
                ELSE IF b[k].op = \h06 THEN Append(g[k - 1], \h06) ELSE BlocksAfter(b[k].op, g[k - 1])]
<1>7. Def(f)
  <2>1. f = [k \in 0 .. n |-> f[k]] /\ f[0] = <<"body">>
    BY <1>6 DEF Recursion
  <2>2. \A k \in 1 .. n : f[k] = StackAfter(b[k].op, f[k - 1])
    <3>1. ASSUME NEW k \in 1 .. n PROVE f[k] = StackAfter(b[k].op, f[k - 1])
      <4>1. k - 1 \in 0 .. n
        BY <1>1
      <4>2. f[k - 1] \in Seq(W) /\ f[k] = step[<<f[k - 1], k>>]
        BY <1>6, <4>1 DEF Recursion
      <4> QED BY <1>3, <4>2
    <3> QED BY <3>1
  <2>3. \A k \in 0 .. n : f[k] = IF k = 0 THEN <<"body">>
                ELSE IF b[k].op = \h06 THEN Append(f[k - 1], \h06) ELSE BlocksAfter(b[k].op, f[k - 1])
    BY <1>1, <2>1, <2>2 DEF StackAfter
  <2> QED BY <1>1, <2>1, <2>3
<1>8. open = CHOOSE g : Def(g)
  BY DEF Opened
<1>9. Def(open)
  <2> HIDE DEF Def
  <2> QED BY <1>7, <1>8
<1>10. open[0] = <<"body">>
  BY <1>1, <1>9
<1>11. ASSUME NEW k \in 1 .. Len(b) PROVE open[k] = StackAfter(b[k].op, open[k - 1])
  <2>1. k \in 0 .. Len(b) /\ k # 0
    BY <1>1
  <2> QED BY <1>9, <2>1 DEF StackAfter
<1>12. \A k \in 0 .. n : open[k] \in Seq(W)
  <2> DEFINE T == {k \in 0 .. n : open[k] \in Seq(W)}
  <2>1. 0 \in T
    <3>1. open[0] \in Seq(W)
      BY <1>2, <1>10, Zenon
    <3> QED BY <1>1, <3>1
  <2>2. ASSUME NEW k \in T, k < n PROVE k + 1 \in T
    <3>1. k + 1 \in 1 .. n /\ k \in 0 .. n /\ (k + 1) - 1 = k
      BY <1>1, <2>2
    <3>2. open[k + 1] = StackAfter(b[k + 1].op, open[(k + 1) - 1])
      BY <1>1, <1>11, <3>1
    <3>3. StackAfter(b[k + 1].op, open[k]) \in Seq(W)
      BY <2>2, <3>1, <1>2, <1>4, StackIs
    <3>4. open[k + 1] \in Seq(W)
      BY <3>1, <3>2, <3>3
    <3> QED BY <3>1, <3>4
  <2>3. T \in SUBSET (0 .. n)
    OBVIOUS
  <2>4. T = 0 .. n
    <3> HIDE DEF T
    <3> QED BY <1>1, <2>1, <2>2, <2>3, UpToInduction
  <2> QED BY <2>4
<1>13. \A k \in 0 .. Len(b) : IsSeq(open[k])
  BY <1>1, <1>12, SeqIsSeq
<1> QED BY <1>10, <1>11, <1>13

-----------------------------------------------------------------------------
(* What has been measured can be written and read *)

LEMMA ShortOrLong ==
    ASSUME NEW inst, InstOK(inst)
    PROVE  IsShort(inst.op) \/ IsLong(inst.op)
BY DEF InstOK, IsShort, IsLong

LEMMA ShortKnown ==
    ASSUME NEW inst, IsShort(inst.op), LengthOf(inst) # Throws
    PROVE  IsKnown(inst.op)
<1>1. PICK op : op = inst.op
  OBVIOUS
<1>2. B1(op) = op /\ B2(op) = 0 /\ op \notin {\hFC, \hFD, \hFE} /\ op <= \hFF /\ op \in Nat
  BY <1>1, ShortIs
<1>3. op \in ControlOps \cup VariableOps \cup \h28 .. \hC4 \cup \hD0 .. \hD2
  <2> DEFINE l1 == LengthControl(inst)
             l2 == LengthVariable(inst)
             l3 == LengthMemory(inst)
             l4 == LengthNumeric(inst)
             l5 == LengthReference(inst)
             l6 == LengthBulk(inst)
             l7 == LengthSimd(inst)
             l8 == LengthAtomic(inst)
             l == CASE op \in ControlOps -> l1
                    [] op \in VariableOps -> l2
                    [] op \in \h28 .. \h40 -> l3
                    [] op \in Numerics -> l4
                    [] op \in \hD0 .. \hD2 -> l5
                    [] op = \hFC -> l6
                    [] op = \hFD -> l7
                    [] op = \hFE -> l8
                    [] OTHER -> Throws
  <2>1. LengthOf(inst) = Throws \/ LengthOf(inst) = l
    BY <1>1, <1>2 DEF LengthOf
  <2>2. l # Throws
    BY <2>1
  <2> HIDE DEF l1, l2, l3, l4, l5, l6, l7, l8
  <2>3. op \in ControlOps \/ op \in VariableOps \/ op \in \h28 .. \h40 \/ op \in Numerics \/ op \in \hD0 .. \hD2
    BY <2>2, <1>2
  <2>4. op \in \h28 .. \h40 \/ op \in Numerics => op \in \h28 .. \hC4
    BY <1>2 DEF Numerics, VariableOps
  <2> QED BY <2>3, <2>4
<1>4. Supported(op, 0)
  BY <1>2, <1>3 DEF Supported
<1>5. op \notin \hFC12 .. \hFCFF
  BY <1>2
<1> QED BY <1>1, <1>2, <1>4, <1>5 DEF IsKnown

LEMMA AtomicKnown ==
    ASSUME NEW inst, LengthAtomic(inst) # Throws, B2(inst.op) \in 0 .. 255
    PROVE  B2(inst.op) \in 0 .. 3 \cup \h10 .. \h4E
BY AtomicTakes

LEMMA LongKnown ==
    ASSUME NEW inst, IsLong(inst.op), LengthOf(inst) # Throws, Survives(inst)
    PROVE  IsKnown(inst.op)
<1>1. PICK op, b1, sub : op = inst.op /\ b1 = B1(op) /\ sub = B2(op)
  OBVIOUS
<1>2. b1 \in {\hFC, \hFD, \hFE} /\ sub \in 0 .. 255 /\ 256 * b1 + sub = op
  BY <1>1, LongIs
<1>3. op \notin \hFC12 .. \hFCFF
  BY <1>1 DEF Survives
<1>4. Supported(b1, sub)
  <2>1. CASE b1 = \hFC
    BY <2>1 DEF Supported
  <2>2. CASE b1 = \hFE
    <3>1. LengthOf(inst) = Throws \/ LengthOf(inst) = LengthAtomic(inst)
      <4> DEFINE l1 == LengthControl(inst)
                 l2 == LengthVariable(inst)
                 l3 == LengthMemory(inst)
                 l4 == LengthNumeric(inst)
                 l5 == LengthReference(inst)
                 l6 == LengthBulk(inst)
                 l7 == LengthSimd(inst)
                 l8 == LengthAtomic(inst)
                 l == CASE b1 \in ControlOps -> l1
                        [] b1 \in VariableOps -> l2
                        [] b1 \in \h28 .. \h40 -> l3
                        [] b1 \in Numerics -> l4
                        [] b1 \in \hD0 .. \hD2 -> l5
                        [] b1 = \hFC -> l6
                        [] b1 = \hFD -> l7
                        [] b1 = \hFE -> l8
                        [] OTHER -> Throws
      <4>1. LengthOf(inst) = Throws \/ LengthOf(inst) = l
        BY <1>1, <1>2 DEF LengthOf
      <4> HIDE DEF l1, l2, l3, l4, l5, l6, l7, l8
      <4>2. l = l8
        BY <2>2 DEF ControlOps, VariableOps, Numerics
      <4> QED BY <4>1, <4>2 DEF l8
    <3>2. sub \in 0 .. 3 \cup \h10 .. \h4E
      BY <1>1, <1>2, <3>1, AtomicKnown
    <3> QED BY <2>2, <3>2 DEF Supported
  <2>3. CASE b1 = \hFD
    <3>1. LengthOf(inst) = Throws \/ LengthOf(inst) = LengthSimd(inst)
      <4> DEFINE l1 == LengthControl(inst)
                 l2 == LengthVariable(inst)
                 l3 == LengthMemory(inst)
                 l4 == LengthNumeric(inst)
                 l5 == LengthReference(inst)
                 l6 == LengthBulk(inst)
                 l7 == LengthSimd(inst)
                 l8 == LengthAtomic(inst)
                 l == CASE b1 \in ControlOps -> l1
                        [] b1 \in VariableOps -> l2
                        [] b1 \in \h28 .. \h40 -> l3
                        [] b1 \in Numerics -> l4
                        [] b1 \in \hD0 .. \hD2 -> l5
                        [] b1 = \hFC -> l6
                        [] b1 = \hFD -> l7
                        [] b1 = \hFE -> l8
                        [] OTHER -> Throws
      <4>1. LengthOf(inst) = Throws \/ LengthOf(inst) = l
        BY <1>1, <1>2 DEF LengthOf
      <4> HIDE DEF l1, l2, l3, l4, l5, l6, l7, l8
      <4>2. l = l7
        BY <2>3 DEF ControlOps, VariableOps, Numerics
      <4> QED BY <4>1, <4>2 DEF l7
    <3>2. sub \notin LengthSimdTodo /\ LengthAtomic(inst) # Throws
      BY <1>1, <3>1 DEF LengthSimd
    <3>3. sub \in 0 .. 3 \cup \h10 .. \h4E
      BY <1>1, <1>2, <3>2, AtomicKnown
    <3>4. sub \in SimdMemory \cup SimdLanes \cup {12, 13} \cup 21 .. 34 \cup SimdPlain
      <4>1. sub \in 0 .. 11 \/ sub \in 12 .. 83
        BY <1>2, <3>3
      <4>2. sub \in 12 .. 83 => sub \in LengthSimdTodo
        BY DEF LengthSimdTodo, Unassigned
      <4>3. sub \in 0 .. 11
        BY <4>1, <4>2, <3>2
      <4> QED BY <4>3 DEF SimdMemory
    <3> QED BY <2>3, <3>4 DEF Supported
  <2> QED BY <1>2, <2>1, <2>2, <2>3
<1> QED BY <1>1, <1>3, <1>4 DEF IsKnown

\* An instruction that has been measured, and that survives, is known.
LEMMA MeasuredKnown ==
    ASSUME NEW inst, InstOK(inst), LengthOf(inst) # Throws, Survives(inst)
    PROVE  IsKnown(inst.op)
BY ShortOrLong, ShortKnown, LongKnown

\* What encode does not refuse of an instruction that has been measured is read back.
LEMMA MeasuredFit ==
    ASSUME NEW b \in Codes, NEW k \in DOMAIN b, LengthOf(b[k]) # Throws, Survives(b[k]), ~EncodeThrows(b[k])
    PROVE  Fit(b[k])
<1>1. InstOK(b[k])
  BY CodeIs
<1>2. IsKnown(b[k].op)
  BY <1>1, MeasuredKnown
<1>3. HasOperands(b[k])
  BY <1>2, CodesAssumption
<1> QED BY <1>1, <1>2, <1>3, ShortOrLong DEF Fit

-----------------------------------------------------------------------------
(* The steps *)

\* What lies in the bytes stays there when bytes are written behind it.
LEMMA AtGrows ==
    ASSUME NEW t, IsSeq(data), IsSeq(t), data' = data \o t, NEW n, n = Len(data)
    PROVE  /\ IsSeq(data)' /\ Len(data)' = n + Len(t)
           /\ At(n, t)'
           /\ \A p, s : At(p, s) => At(p, s)'
<1>1. PICK a, c : a = data /\ c = data \o t
  OBVIOUS
<1>2. IsSeq(c) /\ Len(c) = Len(a) + Len(t)
  <2>1. IsSeq(a \o t) /\ Len(a \o t) = Len(a) + Len(t)
    BY <1>1, ConcatIsSeq
  <2> QED BY <1>1, <2>1
<1>3. \A k \in 1 .. Len(a) + Len(t) : c[k] = IF k <= Len(a) THEN a[k] ELSE t[k - Len(a)]
  BY <1>1, ConcatIsSeq
<1>4. Len(a) \in Nat /\ Len(t) \in Nat /\ Len(c) \in Nat
  BY <1>1, <1>2, IsSeqLen
<1>5. data' = c
  BY <1>1
<1>6. At(n, t)'
  <2>1. \A k \in 1 .. Len(t) : c[Len(a) + k] = t[k]
    BY <1>3, <1>4
  <2>2. At(Len(a), t)'
    BY <2>1, <1>2, <1>4, <1>5 DEF At
  <2> QED BY <2>2, <1>1
<1>7. ASSUME NEW p, NEW s, At(p, s) PROVE At(p, s)'
  <2>1. /\ p \in Nat /\ IsSeq(s) /\ p + Len(s) <= Len(a) /\ \A k \in 1 .. Len(s) : a[p + k] = s[k]
        /\ Len(s) \in Nat
    BY <1>1, <1>7, IsSeqLen DEF At
  <2>2. ASSUME NEW k \in 1 .. Len(s) PROVE c[p + k] = s[k]
    <3>1. p + k \in 1 .. Len(a) + Len(t) /\ p + k <= Len(a)
      BY <2>1, <1>4
    <3>2. c[p + k] = a[p + k]
      BY <3>1, <1>3
    <3> QED BY <2>1, <3>2
  <2> QED BY <2>1, <2>2, <1>2, <1>4, <1>5 DEF At
<1> QED BY <1>1, <1>2, <1>5, <1>6, <1>7

\* A known instruction is added to those that were read, with its place.
LEMMA Pushes ==
    ASSUME NEW r, IsSeq(decoded), decoded' = Marked(Pushed(r), r), NEW d, d = Len(decoded)
    PROVE  /\ d \in Nat /\ IsSeq(decoded)' /\ Len(decoded)' = d + 1
           /\ \A k \in 1 .. d : decoded'[k] = decoded[k]
           /\ decoded'[d + 1].op = r.op /\ decoded'[d + 1].arg = Kept(r)
           /\ relocatable => decoded'[d + 1].roff = r.rloc
<1>1. PICK e, q : e = [op |-> r.op, arg |-> Kept(r), roff |-> -1] /\ q = Append(decoded, e)
  OBVIOUS
<1>2. IsSeq(q) /\ Len(q) = d + 1 /\ (\A k \in 1 .. d : q[k] = decoded[k]) /\ q[d + 1] = e /\ d \in Nat
  BY <1>1, AppendIsSeq, IsSeqLen
<1>3. Pushed(r) = q
  BY <1>1 DEF Pushed
<1>4. DOMAIN q = 1 .. d + 1 /\ q # <<>>
  BY <1>2, IsSeqLen
<1>5. CASE ~relocatable
  <2>1. decoded' = q
    BY <1>3, <1>5 DEF Marked
  <2> QED BY <2>1, <1>1, <1>2, <1>5
<1>6. CASE relocatable
  <2>1. PICK c : c = [q EXCEPT ![d + 1].roff = r.rloc]
    OBVIOUS
  <2>2. decoded' = c
    BY <1>2, <1>3, <1>4, <1>6, <2>1 DEF Marked
  <2>3. DOMAIN c = 1 .. d + 1 /\ c = [k \in 1 .. d + 1 |-> c[k]]
    BY <1>4, <2>1
  <2>4. d + 1 \in Nat /\ d + 1 \in DOMAIN q
    BY <1>2, <1>4
  <2>5. IsSeq(c) /\ Len(c) = d + 1
    BY <2>3, <2>4, FunctionIsSeq
  <2>6. \A k \in 1 .. d : c[k] = decoded[k]
    BY <1>2, <1>4, <2>1
  <2>7. c[d + 1] = [e EXCEPT !.roff = r.rloc]
    BY <1>2, <2>1, <2>4
  <2>8. c[d + 1].op = r.op /\ c[d + 1].arg = Kept(r) /\ c[d + 1].roff = r.rloc
    BY <2>7, <1>1
  <2> QED BY <2>2, <2>5, <2>6, <2>8, <1>2
<1> QED BY <1>5, <1>6

LEMMA SurvivorNamed ==
    ASSUME NEW inst, Survives(inst)
    PROVE  inst.op # \h06 /\ inst.op # \hFC08
<1>1. PICK op : op = inst.op
  OBVIOUS
<1>2. op \notin {\h06, \hFC08}
  BY <1>1 DEF Survives
<1> QED BY <1>1, <1>2

LEMMA FitNamed ==
    ASSUME NEW inst, Fit(inst)
    PROVE  inst.op # \h06 /\ inst.op # \hFC08
BY SurvivorNamed DEF Fit

\* An instruction that was written behind those that have been read is read next.
LEMMA ReadNext ==
    ASSUME NEW inst, Fit(inst), NEW ss, IsCode(ss, inst), At(offset, FlattenSeq(ss)), IsSeq(decoded),
           inst.op = \h05 => blkstack[Len(blkstack)] = \h04
    PROVE  /\ ~Throw
           /\ Decode => LET d == Len(decoded) IN
                /\ d \in Nat /\ IsSeq(decoded)' /\ Len(decoded)' = d + 1
                /\ \A k \in 1 .. d : decoded'[k] = decoded[k]
                /\ SameInst(decoded'[d + 1], inst)
                /\ relocatable => decoded'[d + 1].roff = Instruction(offset).rloc
                /\ offset' = offset + Len(FlattenSeq(ss))
                /\ blkstack' = StackAfter(inst.op, blkstack)
                /\ phase' = IF blkstack' = <<>> THEN "done" ELSE "decode"
<1>1. PICK r, d : r = Instruction(offset) /\ d = Len(decoded)
  OBVIOUS
<1>2. ReadsBack(offset, inst, ss)
  BY FitReads
<1>3. ~DecodeThrows(r)
  BY <1>1, FitPasses
<1>4. ~Throw
  BY <1>1, <1>3 DEF Throw
<1>5. ASSUME Decode
      PROVE  /\ d \in Nat /\ IsSeq(decoded)' /\ Len(decoded)' = d + 1
             /\ \A k \in 1 .. d : decoded'[k] = decoded[k]
             /\ SameInst(decoded'[d + 1], inst)
             /\ relocatable => decoded'[d + 1].roff = r.rloc
             /\ offset' = offset + Len(FlattenSeq(ss))
             /\ blkstack' = StackAfter(inst.op, blkstack)
             /\ phase' = IF blkstack' = <<>> THEN "done" ELSE "decode"
  <2>1. DecodeInst(r)
    BY <1>1, <1>5 DEF Decode
  <2>2. r.op = inst.op /\ r.known = TRUE /\ r.next = offset + Len(FlattenSeq(ss)) /\ SameInst(r, inst)
    BY <1>1, <1>2 DEF ReadsBack
  <2>3. decoded' = Marked(Pushed(r), r)
    BY <2>1, <2>2 DEF DecodeInst
  <2>4. inst.op # \h06 /\ inst.op # \hFC08
    BY FitNamed
  <2>5. Kept(r) = r.arg
    BY <2>2, <2>4 DEF Kept
  <2>6. /\ d \in Nat /\ IsSeq(decoded)' /\ Len(decoded)' = d + 1
        /\ \A k \in 1 .. d : decoded'[k] = decoded[k]
        /\ decoded'[d + 1].op = r.op /\ decoded'[d + 1].arg = r.arg
        /\ relocatable => decoded'[d + 1].roff = r.rloc
    BY <1>1, <2>3, <2>5, Pushes
  <2>7. SameInst(decoded'[d + 1], inst)
    BY <2>2, <2>6 DEF SameInst
  <2>8. Supported(B1(inst.op), B2(inst.op))
    <3>1. IsKnown(inst.op)
      BY DEF Fit
    <3> QED BY <3>1 DEF IsKnown
  <2>9. blkstack' = StackAfter(inst.op, blkstack)
    BY <2>1, <2>2, <2>4 DEF DecodeInst, StackAfter
  <2>10. phase' = IF blkstack' = <<>> THEN "done" ELSE "decode"
    BY <2>1, <2>2, <2>8 DEF DecodeInst
  <2> QED BY <2>1, <2>2, <2>6, <2>7, <2>9, <2>10 DEF DecodeInst
<1> QED BY <1>1, <1>4, <1>5

-----------------------------------------------------------------------------
(* What is written is read *)

Survivors(b) == \A k \in DOMAIN b : Survives(b[k])
Sized(b, code, sizes) == \A k \in DOMAIN b : sizes[k] = Len(FlattenSeq(code[k]))
Coded(b, code, n) == \A k \in 1 .. n : Fit(b[k]) /\ IsCode(code[k], b[k])
Laid(code, sizes, n) ==
    /\ IsSeq(data) /\ Len(data) = Total(sizes, n)
    /\ \A k \in 1 .. n : At(Total(sizes, k - 1), FlattenSeq(code[k]))

\* d instructions have been read, and the next begins where they end.
ReadUpTo(b, sizes, open, d) ==
    /\ IsSeq(decoded) /\ Len(decoded) = d /\ d <= Len(b)
    /\ offset = Total(sizes, d) /\ blkstack = open[d]
    /\ \A k \in 1 .. d : SameInst(decoded[k], b[k])
    /\ phase = "decode" => d < Len(b)
    /\ phase = "done" => d = Len(b)
    /\ phase # "decode threw"

Reading(b, code, sizes, open) ==
    /\ b = body /\ b \in Codes /\ open = Opened(b) /\ Sized(b, code, sizes)
    /\ phase \in {"length", "encode"} =>
          /\ \A k \in DOMAIN b : code[k] = PiecesOf(b[k])
          /\ decoded = <<>> /\ offset = 0 /\ blkstack = <<"body">>
    /\ phase = "encode" /\ Survivors(b) =>
          \E n \in Nat : i = n + 1 /\ Coded(b, code, n) /\ Laid(code, sizes, n)
    /\ IsRead /\ Survivors(b) =>
          /\ Coded(b, code, Len(b)) /\ Laid(code, sizes, Len(b))
          /\ \E d \in Nat : ReadUpTo(b, sizes, open, d)
    /\ IsRead /\ predicted = 0 => Survivors(b)

LEMMA SizesKnown ==
    ASSUME NEW b \in Codes, NEW code, NEW sizes, Sized(b, code, sizes), NEW n \in 0 .. Len(b), Coded(b, code, n)
    PROVE  \A k \in 1 .. n : sizes[k] \in Nat /\ IsSeq(FlattenSeq(code[k])) /\ sizes[k] = Len(FlattenSeq(code[k]))
<1>1. DOMAIN b = 1 .. Len(b) /\ Len(b) \in Nat
  BY CodeIs
<1>2. ASSUME NEW k \in 1 .. n
      PROVE  sizes[k] \in Nat /\ IsSeq(FlattenSeq(code[k])) /\ sizes[k] = Len(FlattenSeq(code[k]))
  <2>1. k \in DOMAIN b
    BY <1>1
  <2>2. Fit(b[k]) /\ IsCode(code[k], b[k])
    BY DEF Coded
  <2>3. IsSeq(FlattenSeq(code[k])) /\ Len(FlattenSeq(code[k])) \in Nat
    BY <2>2, CodeIsSeq
  <2> QED BY <2>1, <2>3 DEF Sized
<1> QED BY <1>2

\* No block is open behind the last instruction, which ends the body.
LEMMA LastEnds ==
    ASSUME NEW b \in Codes
    PROVE  b[Len(b)].op = \h0B
<1>1. PICK n, open : n = Len(b) /\ open = Opened(b)
  OBVIOUS
<1>2. n \in Nat \ {0} /\ DOMAIN b = 1 .. n
  BY <1>1, CodeIs
<1>3. /\ open[0] = <<"body">>
      /\ \A k \in 1 .. n : open[k] = StackAfter(b[k].op, open[k - 1])
  BY <1>1, <1>2, OpenedIs
<1>4. Nested(b)
  BY CodesAssumption
<1>5. \A k \in 1 .. n : open[k] = <<>> <=> k = n
  BY <1>1, <1>2, <1>4 DEF Nested
<1>6. PICK op, stack : op = b[n].op /\ stack = open[n - 1]
  OBVIOUS
<1>7. StackAfter(op, stack) = <<>>
  <2>1. n \in 1 .. n
    BY <1>2
  <2> QED BY <2>1, <1>3, <1>5, <1>6
<1>8. stack # <<>>
  <2>1. CASE n = 1
    BY <2>1, <1>3, <1>6
  <2>2. CASE n # 1
    <3>1. n - 1 \in 1 .. n /\ n - 1 # n
      BY <2>2, <1>2
    <3> QED BY <3>1, <1>5, <1>6
  <2> QED BY <2>1, <2>2
<1>9. IsSeq(stack)
  <2>1. n - 1 \in 0 .. n
    BY <1>2
  <2> QED BY <2>1, <1>1, <1>2, <1>6, OpenedIs
<1>10. PICK W : stack \in Seq(W) /\ op \in W /\ \h06 \in W
  <2>1. stack \in Seq(ToSet(stack) \cup {op, \h06})
    BY <1>9 DEF IsSeq
  <2> QED BY <2>1
<1>11. Front(stack) \in Seq(W)
  BY <1>8, <1>10 DEF Front
<1>12. Append(stack, op) # <<>> /\ Append(stack, \h06) # <<>> /\ Append(Front(stack), op) # <<>>
  BY <1>10, <1>11
<1>13. op = \h0B
  BY <1>7, <1>8, <1>12 DEF StackAfter, BlocksAfter
<1> QED BY <1>1, <1>6, <1>13

LEMMA FileFit ==
    ASSUME NEW file \in Files
    PROVE  /\ file.insts \in Codes
           /\ IsSeq(file.code) /\ Len(file.code) = Len(file.insts) /\ DOMAIN file.code = DOMAIN file.insts
           /\ \A k \in DOMAIN file.insts : Fit(file.insts[k]) /\ IsCode(file.code[k], file.insts[k])
<1>1. PICK b, code : b = file.insts /\ code = file.code
  OBVIOUS
<1>2. b \in Codes
  BY <1>1 DEF Codes
<1>3. Len(b) \in Nat /\ DOMAIN b = 1 .. Len(b)
  BY <1>2, CodeIs
<1>4. /\ DOMAIN code = DOMAIN b /\ code \in Seq(Range(code))
      /\ \A k \in DOMAIN b : IsKnown(b[k].op) /\ ~EncodeThrows(b[k]) /\ Survives(b[k]) /\ IsCode(code[k], b[k])
  BY <1>1, FilesAssumption
<1>5. IsSeq(code)
  BY <1>4, SeqIsSeq
<1>6. Len(code) = Len(b)
  <2>1. Len(code) \in Nat /\ DOMAIN code = 1 .. Len(code)
    BY <1>5, IsSeqLen
  <2>2. \A m, n \in Nat : 1 .. m = 1 .. n => m = n
    OBVIOUS
  <2> QED BY <1>3, <1>4, <2>1, <2>2
<1>7. ASSUME NEW k \in DOMAIN b PROVE Fit(b[k])
  <2>1. InstOK(b[k])
    BY <1>2, CodeIs
  <2>2. IsShort(b[k].op) \/ IsLong(b[k].op)
    BY <2>1, ShortOrLong
  <2>3. HasOperands(b[k])
    BY <1>2, <1>4, CodesAssumption
  <2> QED BY <1>4, <2>1, <2>2, <2>3 DEF Fit
<1> QED BY <1>1, <1>2, <1>4, <1>5, <1>6, <1>7

LEMMA FitSurvives ==
    ASSUME NEW inst, Fit(inst)
    PROVE  Survives(inst)
BY DEF Fit

LEMMA ReadingInit ==
    ASSUME Init
    PROVE  \E b, code, sizes, open : Reading(b, code, sizes, open)
<1>1. PICK b, open : b = body /\ open = Opened(body)
  OBVIOUS
<1>2. decoded = <<>> /\ offset = 0 /\ blkstack = <<"body">> /\ predicted = 0 /\ i = 1
  BY DEF Init
<1>3. CASE b \in Bodies /\ phase = "length" /\ data = <<>>
  <2>1. PICK code : code = [k \in DOMAIN b |-> PiecesOf(b[k])]
    OBVIOUS
  <2>2. PICK sizes : sizes = [k \in DOMAIN b |-> Len(FlattenSeq(code[k]))]
    OBVIOUS
  <2>3. b \in Codes
    BY <1>3, BodyIs
  <2>4. Sized(b, code, sizes)
    BY <2>2 DEF Sized
  <2>5. \A k \in DOMAIN b : code[k] = PiecesOf(b[k])
    BY <2>1
  <2>6. phase # "encode" /\ ~IsRead
    BY <1>3 DEF IsRead
  <2> QED BY <1>1, <1>2, <2>3, <2>4, <2>5, <2>6 DEF Reading
<1>4. ASSUME NEW file \in Files, b = file.insts, phase = "decode", data = BytesIn(file)
      PROVE  \E code, sizes : Reading(b, code, sizes, open)
  <2>1. PICK code : code = file.code
    OBVIOUS
  <2>2. /\ b \in Codes /\ IsSeq(code) /\ Len(code) = Len(b) /\ DOMAIN code = DOMAIN b
        /\ \A k \in DOMAIN b : Fit(b[k]) /\ IsCode(code[k], b[k])
    BY <1>4, <2>1, FileFit
  <2>3. Len(b) \in Nat \ {0} /\ DOMAIN b = 1 .. Len(b)
    BY <2>2, CodeIs
  <2>4. PICK ss, sizes : ss = [k \in DOMAIN code |-> FlattenSeq(code[k])] /\ sizes = LensOf(ss)
    OBVIOUS
  <2>5. IsSeq(ss) /\ Len(ss) = Len(b) /\ DOMAIN ss = 1 .. Len(b)
    <3>1. DOMAIN ss = 1 .. Len(b) /\ ss = [k \in 1 .. Len(b) |-> ss[k]]
      BY <2>2, <2>3, <2>4
    <3> QED BY <2>3, <3>1, FunctionIsSeq
  <2>6. \A k \in DOMAIN ss : IsSeq(ss[k]) /\ Len(ss[k]) \in Nat
    BY <2>2, <2>4, CodeIsSeq
  <2>7. data = FlattenSeq(ss)
    BY <1>4, <2>1, <2>4 DEF BytesIn
  <2>8. IsSeq(data)
    <3>1. IsSeq(FlattenSeq(ss))
      BY <2>5, <2>6, FlattenIsSeq
    <3> QED BY <2>7, <3>1
  <2>9. At(0, FlattenSeq(ss))
    <3>1. Len(data) \in Nat
      BY <2>8, IsSeqLen
    <3> QED BY <2>7, <2>8, <3>1 DEF At
  <2>10. /\ \A k \in DOMAIN ss : At(0 + Total(sizes, k - 1), ss[k]) /\ sizes[k] \in Nat /\ sizes[k] = Len(ss[k])
         /\ Len(FlattenSeq(ss)) = Total(sizes, Len(ss))
    <3>1. sizes = LensOf(ss)
      BY <2>4
    <3>2. IsSeq(ss) /\ \A k \in DOMAIN ss : IsSeq(ss[k])
      BY <2>5, <2>6
    <3> QED BY <3>1, <3>2, <2>9, AtFlatten
  <2>11. Sized(b, code, sizes)
    BY <2>2, <2>3, <2>4, <2>5, <2>10 DEF Sized
  <2>12. Coded(b, code, Len(b))
    BY <2>2, <2>3 DEF Coded
  <2>13. ASSUME NEW k \in 1 .. Len(b) PROVE At(Total(sizes, k - 1), FlattenSeq(code[k]))
    <3>1. At(0 + Total(sizes, k - 1), ss[k]) /\ ss[k] = FlattenSeq(code[k])
      BY <2>2, <2>3, <2>4, <2>5, <2>10
    <3>2. Total(sizes, k - 1) \in Nat
      <4>1. k - 1 \in Nat /\ \A j \in 1 .. k - 1 : sizes[j] \in Nat
        BY <2>5, <2>10
      <4> QED BY <4>1, NextTotal
    <3>3. 0 + Total(sizes, k - 1) = Total(sizes, k - 1)
      BY <3>2
    <3> QED BY <3>1, <3>3
  <2>14. Laid(code, sizes, Len(b))
    BY <2>5, <2>7, <2>8, <2>10, <2>13 DEF Laid
  <2>15. ReadUpTo(b, sizes, open, 0)
    <3>1. IsSeq(<<>>) /\ Len(<<>>) = 0
      BY EmptyIsSeq
    <3>2. Total(sizes, 0) = 0
      BY NextTotal
    <3>3. open[0] = <<"body">>
      BY <1>1, <2>3, OpenedIs
    <3> QED BY <1>2, <1>4, <2>3, <3>1, <3>2, <3>3 DEF ReadUpTo
  <2>16. Survivors(b)
    BY <2>2, FitSurvives DEF Survivors
  <2>17. phase \notin {"length", "encode"}
    BY <1>4
  <2> QED BY <1>1, <2>2, <2>11, <2>12, <2>14, <2>15, <2>16, <2>17 DEF Reading
<1>5. \/ b \in Bodies /\ phase = "length" /\ data = <<>>
      \/ \E file \in Files : b = file.insts /\ phase = "decode" /\ data = BytesIn(file)
  BY <1>1 DEF Init
<1> QED BY <1>3, <1>4, <1>5

LEMMA NothingLaid ==
    ASSUME NEW b, NEW code, NEW sizes, data = <<>>
    PROVE  Coded(b, code, 0) /\ Laid(code, sizes, 0)
<1>1. IsSeq(<<>>) /\ Len(<<>>) = 0
  BY EmptyIsSeq
<1>2. Total(sizes, 0) = 0
  BY NextTotal
<1> QED BY <1>1, <1>2 DEF Coded, Laid

LEMMA ReadingMeasure ==
    ASSUME NEW b, NEW lens, Walking(b, lens), NEW code, NEW sizes, NEW open, Reading(b, code, sizes, open), Measure
    PROVE  Reading(b, code, sizes, open)'
<1>1. phase = "length" /\ data = <<>> /\ data' = data /\ body' = body /\ i \in Nat /\ relocatable' = relocatable
  <2>1. phase = "length"
    BY DEF Measure
  <2>2. Measuring(b, lens)
    BY <2>1 DEF Walking
  <2>3. i \in Nat
    BY <2>2, BodyIs DEF Measuring
  <2> QED BY <2>1, <2>2, <2>3 DEF Measure, Measuring
<1>2. /\ b = body /\ b \in Codes /\ open = Opened(b) /\ Sized(b, code, sizes)
      /\ \A k \in DOMAIN b : code[k] = PiecesOf(b[k])
      /\ decoded = <<>> /\ offset = 0 /\ blkstack = <<"body">>
  BY <1>1 DEF Reading
<1>3. decoded' = <<>> /\ offset' = 0 /\ blkstack' = <<"body">>
  BY <1>2 DEF Measure
<1>4. \A k \in DOMAIN b : PiecesOf(b[k])' = PiecesOf(b[k])
  BY <1>1 DEF PiecesOf, Bytes, PadOf
<1>5. phase' \in {"length", "length threw"} \/ (phase' = "encode" /\ i' = 1)
  <2>1. phase' = "length threw" \/ Advance("encode")
    BY DEF Measure
  <2>2. CASE Advance("encode")
    BY <1>1, <2>2 DEF Advance
  <2> QED BY <2>1, <2>2
<1>6. phase' = "encode" => \E n \in Nat : i' = n + 1 /\ Coded(b, code, n) /\ Laid(code, sizes, n)'
  <2>1. Coded(b, code, 0) /\ Laid(code, sizes, 0)'
    <3>1. Coded(b, code, 0) /\ Laid(code, sizes, 0)
      BY <1>1, NothingLaid
    <3> QED BY <3>1, <1>1 DEF Laid, At
  <2>2. phase' = "encode" => i' = 0 + 1
    BY <1>5
  <2> QED BY <2>1, <2>2
<1>7. ~IsRead'
  <2>1. phase' \notin {"decode", "done", "decode threw"}
    BY <1>5
  <2> QED BY <2>1 DEF IsRead
<1> QED BY <1>1, <1>2, <1>3, <1>4, <1>6, <1>7 DEF Reading

\* The end of a body has a length, so that of a whole body is not 0.
LEMMA EndTakes ==
    ASSUME NEW inst, inst.op = \h0B, LengthOf(inst) # Throws
    PROVE  LengthOf(inst) = 1
<1>1. LengthVariable(inst) = 1
  BY DEF LengthVariable
<1>2. B1(inst.op) = \h0B
  BY DEF B1
<1> DEFINE l1 == LengthControl(inst)
           l2 == LengthVariable(inst)
           l3 == LengthMemory(inst)
           l4 == LengthNumeric(inst)
           l5 == LengthReference(inst)
           l6 == LengthBulk(inst)
           l7 == LengthSimd(inst)
           l8 == LengthAtomic(inst)
           l == CASE \h0B \in ControlOps -> l1
                  [] \h0B \in VariableOps -> l2
                  [] \h0B \in \h28 .. \h40 -> l3
                  [] \h0B \in Numerics -> l4
                  [] \h0B \in \hD0 .. \hD2 -> l5
                  [] \h0B = \hFC -> l6
                  [] \h0B = \hFD -> l7
                  [] \h0B = \hFE -> l8
                  [] OTHER -> Throws
<1>3. LengthOf(inst) = Throws \/ LengthOf(inst) = l
  BY <1>2 DEF LengthOf
<1> HIDE DEF l1, l2, l3, l4, l5, l6, l7, l8
<1>4. l = l2
  BY DEF ControlOps, VariableOps, Numerics
<1> QED BY <1>1, <1>3, <1>4 DEF l2

LEMMA PredictedSome ==
    ASSUME NEW b, NEW lens, Writing(b, lens)
    PROVE  predicted \in Nat /\ predicted # 0
<1>1. b \in Bodies /\ DOMAIN lens = DOMAIN b /\ predicted = Total(lens, Len(b))
  BY DEF Writing
<1>2. b \in Codes /\ Len(b) \in Nat \ {0} /\ DOMAIN b = 1 .. Len(b) /\ \A k \in DOMAIN b : InstOK(b[k])
  BY <1>1, BodyIs
<1>3. \A k \in DOMAIN b : lens[k] \in Nat /\ lens[k] = LengthOf(b[k]) /\ lens[k] # Throws
  <2>1. ASSUME NEW k \in DOMAIN b PROVE lens[k] \in Nat /\ lens[k] = LengthOf(b[k]) /\ lens[k] # Throws
    <3>1. lens[k] = LengthOf(b[k]) /\ lens[k] # Throws
      BY DEF Writing
    <3> QED BY <1>2, <3>1, InstTakes
  <2> QED BY <2>1
<1>4. PICK n : n = Len(b)
  OBVIOUS
<1>5. n \in Nat \ {0} /\ n \in DOMAIN b
  BY <1>2, <1>4
<1>6. lens[n] = 1
  BY <1>2, <1>3, <1>4, <1>5, LastEnds, EndTakes
<1>7. /\ Total(lens, n - 1) \in Nat
      /\ Total(lens, (n - 1) + 1) = Total(lens, n - 1) + lens[(n - 1) + 1]
  <2>1. \A k \in 1 .. n - 1 : lens[k] \in Nat
    BY <1>2, <1>3, <1>4, <1>5
  <2>2. n - 1 \in Nat /\ (n - 1) + 1 = n
    BY <1>5
  <2>3. lens[(n - 1) + 1] \in Nat
    BY <1>6, <2>2
  <2> QED BY <2>1, <2>2, <2>3, NextTotal
<1>8. (n - 1) + 1 = n
  BY <1>5
<1>9. predicted = Total(lens, n - 1) + 1
  BY <1>1, <1>4, <1>6, <1>7, <1>8
<1> QED BY <1>7, <1>9

\* One more instruction is written.
LEMMA LaidNext ==
    ASSUME NEW b \in Codes, NEW code, NEW sizes, Sized(b, code, sizes), NEW n \in Nat, n + 1 \in DOMAIN b,
           Coded(b, code, n), Laid(code, sizes, n), Fit(b[n + 1]), IsCode(code[n + 1], b[n + 1]),
           data' = data \o FlattenSeq(code[n + 1])
    PROVE  Coded(b, code, n + 1) /\ Laid(code, sizes, n + 1)'
<1>1. DOMAIN b = 1 .. Len(b) /\ Len(b) \in Nat
  BY CodeIs
<1>2. PICK m, t : m = n + 1 /\ t = FlattenSeq(code[m])
  OBVIOUS
<1>3. Coded(b, code, m)
  <2>1. \A k \in 1 .. m : k \in 1 .. n \/ k = m
    BY <1>2
  <2> QED BY <1>2, <2>1 DEF Coded
<1>4. m \in 0 .. Len(b)
  BY <1>1, <1>2
<1>5. \A k \in 1 .. m : sizes[k] \in Nat /\ IsSeq(FlattenSeq(code[k])) /\ sizes[k] = Len(FlattenSeq(code[k]))
  BY <1>3, <1>4, SizesKnown
<1>6. IsSeq(t) /\ sizes[m] = Len(t) /\ sizes[m] \in Nat
  BY <1>2, <1>5
<1>7. Total(sizes, n) \in Nat /\ Total(sizes, m) = Total(sizes, n) + sizes[m]
  <2>1. \A k \in 1 .. n : sizes[k] \in Nat
    BY <1>2, <1>5
  <2> QED BY <2>1, <1>2, <1>6, NextTotal
<1>8. PICK p : p = Len(data)
  OBVIOUS
<1>9. p = Total(sizes, n) /\ IsSeq(data) /\ \A k \in 1 .. n : At(Total(sizes, k - 1), FlattenSeq(code[k]))
  BY <1>8 DEF Laid
<1>10. data' = data \o t
  BY <1>2
<1>11. IsSeq(data)' /\ Len(data)' = p + Len(t) /\ At(p, t)' /\ \A q, s : At(q, s) => At(q, s)'
  BY <1>6, <1>8, <1>9, <1>10, AtGrows
<1>12. ASSUME NEW k \in 1 .. m PROVE At(Total(sizes, k - 1), FlattenSeq(code[k]))'
  <2>1. CASE k \in 1 .. n
    BY <2>1, <1>9, <1>11
  <2>2. CASE k = m
    <3>1. k - 1 = n
      BY <2>2, <1>2
    <3> QED BY <3>1, <2>2, <1>2, <1>9, <1>11
  <2> QED BY <2>1, <2>2, <1>2
<1>13. Len(data)' = Total(sizes, m)
  BY <1>6, <1>7, <1>9, <1>11
<1>14. Laid(code, sizes, m)'
  BY <1>11, <1>12, <1>13 DEF Laid
<1> QED BY <1>2, <1>3, <1>14

LEMMA ReadingEncode ==
    ASSUME NEW b, NEW lens, Walking(b, lens), NEW code, NEW sizes, NEW open, Reading(b, code, sizes, open), Encode
    PROVE  Reading(b, code, sizes, open)'
<1>1. phase = "encode" /\ b = body /\ Writing(b, lens)
  BY DEF Walking, Encode
<1>2. /\ body' = body /\ relocatable' = relocatable /\ predicted' = predicted
      /\ decoded' = decoded /\ offset' = offset /\ blkstack' = blkstack
  BY DEF Encode
<1>3. b \in Bodies /\ i \in DOMAIN b /\ \A k \in DOMAIN b : LengthOf(b[k]) # Throws
  BY <1>1 DEF Writing
<1>4. b \in Codes /\ Len(b) \in Nat \ {0} /\ DOMAIN b = 1 .. Len(b)
  BY <1>3, BodyIs
<1>5. /\ open = Opened(b) /\ Sized(b, code, sizes)
      /\ \A k \in DOMAIN b : code[k] = PiecesOf(b[k])
      /\ decoded = <<>> /\ offset = 0 /\ blkstack = <<"body">>
      /\ Survivors(b) => \E n \in Nat : i = n + 1 /\ Coded(b, code, n) /\ Laid(code, sizes, n)
  BY <1>1 DEF Reading
<1>6. \A k \in DOMAIN b : PiecesOf(b[k])' = PiecesOf(b[k])
  BY <1>2 DEF PiecesOf, Bytes, PadOf
<1>7. predicted' # 0
  BY <1>1, <1>2, PredictedSome
<1>8. CASE EncodeThrows(b[i])
  <2>1. phase' = "encode threw"
    BY <1>1, <1>8 DEF Encode
  <2>2. phase' # "length" /\ phase' # "encode" /\ ~IsRead'
    BY <2>1 DEF IsRead
  <2> QED BY <1>1, <1>2, <1>4, <1>5, <2>2 DEF Reading
<1>9. CASE ~EncodeThrows(b[i])
  <2>1. data' = data \o BytesOf(b[i]) /\ Advance("decode")
    BY <1>1, <1>9 DEF Encode
  <2>2. ASSUME Survivors(b)
        PROVE  \E n \in Nat : i = n /\ Coded(b, code, n) /\ Laid(code, sizes, n)'
    <3>1. PICK n \in Nat : i = n + 1 /\ Coded(b, code, n) /\ Laid(code, sizes, n)
      BY <1>5, <2>2
    <3>2. PICK m : m = n + 1
      OBVIOUS
    <3>3. m = i /\ m \in DOMAIN b /\ m \in Nat
      BY <1>3, <3>1, <3>2
    <3>4. Fit(b[m])
      <4>1. Survives(b[m]) /\ ~EncodeThrows(b[m]) /\ LengthOf(b[m]) # Throws
        BY <1>3, <1>9, <2>2, <3>3 DEF Survivors
      <4> QED BY <1>4, <3>3, <4>1, MeasuredFit
    <3>5. IsCode(code[m], b[m]) /\ BytesOf(b[m]) = FlattenSeq(code[m])
      BY <1>5, <3>3, <3>4, EncodedIs
    <3>6. data' = data \o FlattenSeq(code[m])
      BY <2>1, <3>3, <3>5
    <3>7. Coded(b, code, n + 1) /\ Laid(code, sizes, n + 1)'
      BY <1>4, <1>5, <3>1, <3>2, <3>3, <3>4, <3>5, <3>6, LaidNext
    <3> QED BY <3>2, <3>3, <3>7
  <2>3. CASE i = Len(b)
    <3>1. phase' = "decode"
      BY <1>1, <2>1, <2>3 DEF Advance
    <3>2. phase' \notin {"length", "encode"}
      BY <3>1
    <3>3. ASSUME Survivors(b)
          PROVE  /\ Coded(b, code, Len(b)) /\ Laid(code, sizes, Len(b))'
                 /\ \E d \in Nat : ReadUpTo(b, sizes, open, d)'
      <4>1. Coded(b, code, Len(b)) /\ Laid(code, sizes, Len(b))'
        BY <2>2, <2>3, <3>3
      <4>2. IsSeq(<<>>) /\ Len(<<>>) = 0 /\ Total(sizes, 0) = 0
        BY EmptyIsSeq, NextTotal
      <4>3. open[0] = <<"body">>
        BY <1>4, <1>5, OpenedIs
      <4>4. ReadUpTo(b, sizes, open, 0)'
        BY <1>2, <1>4, <1>5, <3>1, <4>2, <4>3 DEF ReadUpTo
      <4> QED BY <4>1, <4>4
    <3> QED BY <1>1, <1>2, <1>4, <1>5, <1>7, <3>2, <3>3 DEF Reading
  <2>4. CASE i # Len(b)
    <3>1. phase' = "encode" /\ i' = i + 1
      BY <1>1, <2>1, <2>4 DEF Advance
    <3>2. Survivors(b) => \E n \in Nat : i' = n + 1 /\ Coded(b, code, n) /\ Laid(code, sizes, n)'
      BY <2>2, <3>1
    <3>3. ~IsRead'
      BY <3>1 DEF IsRead
    <3> QED BY <1>1, <1>2, <1>4, <1>5, <1>6, <3>2, <3>3 DEF Reading
  <2> QED BY <2>3, <2>4
<1> QED BY <1>8, <1>9

LEMMA ReadingDecode ==
    ASSUME NEW b, NEW code, NEW sizes, NEW open, Reading(b, code, sizes, open), Decode \/ Throw
    PROVE  Reading(b, code, sizes, open)'
<1>1. phase = "decode" /\ IsRead /\ body' = body /\ data' = data /\ predicted' = predicted
  BY DEF Decode, Throw, IsRead
<1>2. /\ b = body /\ b \in Codes /\ open = Opened(b) /\ Sized(b, code, sizes)
      /\ predicted = 0 => Survivors(b)
      /\ Survivors(b) => /\ Coded(b, code, Len(b)) /\ Laid(code, sizes, Len(b))
                         /\ \E d \in Nat : ReadUpTo(b, sizes, open, d)
  BY <1>1 DEF Reading
<1>3. Len(b) \in Nat \ {0} /\ DOMAIN b = 1 .. Len(b)
  BY <1>2, CodeIs
<1>4. phase' \notin {"length", "encode"}
  <2>1. CASE Decode
    <3>1. phase' = "done" \/ phase' = "decode"
      BY <2>1 DEF Decode, DecodeInst
    <3> QED BY <3>1
  <2>2. CASE Throw
    BY <2>2 DEF Throw
  <2> QED BY <2>1, <2>2
<1>5. Laid(code, sizes, Len(b)) => Laid(code, sizes, Len(b))'
  BY <1>1 DEF Laid, At
<1>6. ASSUME Survivors(b) PROVE \E d \in Nat : ReadUpTo(b, sizes, open, d)'
  <2>1. PICK d \in Nat : ReadUpTo(b, sizes, open, d)
    BY <1>2, <1>6
  <2>2. PICK k : k = d + 1
    OBVIOUS
  <2>3. /\ IsSeq(decoded) /\ Len(decoded) = d /\ offset = Total(sizes, d) /\ blkstack = open[d]
        /\ d < Len(b) /\ \A j \in 1 .. d : SameInst(decoded[j], b[j])
    BY <1>1, <2>1 DEF ReadUpTo
  <2>4. k \in 1 .. Len(b) /\ k \in DOMAIN b /\ k - 1 = d /\ k \in Nat
    BY <1>3, <2>2, <2>3
  <2>5. Fit(b[k]) /\ IsCode(code[k], b[k])
    BY <1>2, <1>6, <2>4 DEF Coded
  <2>6. At(offset, FlattenSeq(code[k]))
    BY <1>2, <1>6, <2>3, <2>4 DEF Laid
  <2>7. Nested(b)
    BY <1>2, CodesAssumption
  <2>8. b[k].op = \h05 => blkstack[Len(blkstack)] = \h04
    <3>1. b[k].op = \h05 => Last(open[k - 1]) = \h04
      BY <1>2, <2>4, <2>7 DEF Nested
    <3> QED BY <3>1, <2>3, <2>4 DEF Last
  <2>9. /\ ~Throw
        /\ Decode =>
             /\ IsSeq(decoded)' /\ Len(decoded)' = d + 1
             /\ \A j \in 1 .. d : decoded'[j] = decoded[j]
             /\ SameInst(decoded'[d + 1], b[k])
             /\ offset' = offset + Len(FlattenSeq(code[k]))
             /\ blkstack' = StackAfter(b[k].op, blkstack)
             /\ phase' = IF blkstack' = <<>> THEN "done" ELSE "decode"
    BY <2>3, <2>5, <2>6, <2>8, ReadNext
  <2>10. Decode
    BY <2>9
  <2>11. open[k] = StackAfter(b[k].op, open[k - 1])
    BY <1>2, <1>3, <2>4, OpenedIs
  <2>12. blkstack' = open[k]
    BY <2>3, <2>4, <2>9, <2>10, <2>11
  <2>13. phase' = IF k = Len(b) THEN "done" ELSE "decode"
    <3>1. open[k] = <<>> <=> k = Len(b)
      BY <1>2, <2>4, <2>7 DEF Nested
    <3> QED BY <3>1, <2>9, <2>10, <2>12
  <2>14. offset' = Total(sizes, k)
    <3>1. \A j \in 1 .. Len(b) : sizes[j] \in Nat /\ sizes[j] = Len(FlattenSeq(code[j]))
      BY <1>2, <1>3, <1>6, SizesKnown
    <3>2. \A j \in 1 .. d : sizes[j] \in Nat
      BY <1>3, <2>3, <3>1
    <3>3. sizes[d + 1] \in Nat /\ sizes[k] = Len(FlattenSeq(code[k]))
      BY <2>2, <2>4, <3>1
    <3>4. Total(sizes, d + 1) = Total(sizes, d) + sizes[d + 1]
      BY <3>2, <3>3, NextTotal
    <3> QED BY <2>2, <2>3, <2>9, <2>10, <3>3, <3>4
  <2>15. \A j \in 1 .. k : SameInst(decoded'[j], b[j])
    <3>1. ASSUME NEW j \in 1 .. k PROVE SameInst(decoded'[j], b[j])
      <4>1. CASE j \in 1 .. d
        BY <4>1, <2>3, <2>9, <2>10
      <4>2. CASE j = k
        BY <4>2, <2>2, <2>9, <2>10
      <4> QED BY <4>1, <4>2, <2>2
    <3> QED BY <3>1
  <2>16. ReadUpTo(b, sizes, open, k)'
    <3>1. k <= Len(b) /\ (phase' = "decode" => k < Len(b)) /\ (phase' = "done" => k = Len(b)) /\ phase' # "decode threw"
      BY <1>3, <2>4, <2>13
    <3>2. Len(decoded)' = k
      BY <2>2, <2>9, <2>10
    <3> QED BY <2>9, <2>10, <2>12, <2>14, <2>15, <3>1, <3>2 DEF ReadUpTo
  <2> QED BY <2>4, <2>16
<1> QED BY <1>1, <1>2, <1>4, <1>5, <1>6 DEF Reading

LEMMA ReadingStutter ==
    ASSUME NEW b, NEW code, NEW sizes, NEW open, Reading(b, code, sizes, open), UNCHANGED vars
    PROVE  Reading(b, code, sizes, open)'
<1>1. IsRead' <=> IsRead
  BY DEF vars, IsRead
<1>2. \A k \in DOMAIN b : PiecesOf(b[k])' = PiecesOf(b[k])
  BY DEF vars, PiecesOf, Bytes, PadOf
<1>3. \A n : Laid(code, sizes, n) => Laid(code, sizes, n)'
  BY DEF vars, Laid, At
<1>4. \A d : ReadUpTo(b, sizes, open, d) => ReadUpTo(b, sizes, open, d)'
  BY DEF vars, ReadUpTo
<1> QED BY <1>1, <1>2, <1>3, <1>4 DEF vars, Reading

ReadingInv == MeasuredInv /\ \E b, code, sizes, open : Reading(b, code, sizes, open)

LEMMA ReadingNext ==
    ASSUME ReadingInv, [Next]_vars
    PROVE  ReadingInv'
<1>1. PICK b, lens : Walking(b, lens)
  BY DEF ReadingInv, MeasuredInv
<1>2. PICK c, code, sizes, open : Reading(c, code, sizes, open)
  BY DEF ReadingInv
<1>3. b = c
  BY <1>1, <1>2 DEF Walking, Reading
<1>4. MeasuredInv'
  BY MeasuredNext DEF ReadingInv
<1>5. Reading(c, code, sizes, open)'
  <2>1. CASE Measure
    BY <1>1, <1>2, <1>3, <2>1, ReadingMeasure
  <2>2. CASE Encode
    BY <1>1, <1>2, <1>3, <2>2, ReadingEncode
  <2>3. CASE Decode \/ Throw
    BY <1>2, <2>3, ReadingDecode
  <2>4. CASE Finished \/ UNCHANGED vars
    <3>1. UNCHANGED vars
      BY <2>4 DEF Finished
    <3> QED BY <1>2, <3>1, ReadingStutter
  <2> QED BY <2>1, <2>2, <2>3, <2>4 DEF Next
<1> QED BY <1>4, <1>5 DEF ReadingInv

LEMMA ReadingImplies ==
    ASSUME ReadingInv
    PROVE  DecodeRestores /\ FilesDecoded
<1>1. PICK b, code, sizes, open : Reading(b, code, sizes, open)
  BY DEF ReadingInv
<1>2. b = body /\ b \in Codes
  BY <1>1 DEF Reading
<1>3. Len(b) \in Nat \ {0} /\ DOMAIN b = 1 .. Len(b)
  BY <1>2, CodeIs
<1>4. ASSUME IsRead, Survivors(b)
      PROVE  phase # "decode threw" /\ (phase = "done" => SameBody /\ offset = Len(data))
  <2>1. Laid(code, sizes, Len(b))
    BY <1>1, <1>4 DEF Reading
  <2>2. PICK d \in Nat : ReadUpTo(b, sizes, open, d)
    BY <1>1, <1>4 DEF Reading
  <2>3. phase # "decode threw"
    BY <2>2 DEF ReadUpTo
  <2>4. ASSUME phase = "done" PROVE SameBody /\ offset = Len(data)
    <3>1. /\ d = Len(b) /\ Len(decoded) = d /\ offset = Total(sizes, d)
          /\ \A k \in 1 .. d : SameInst(decoded[k], b[k])
      BY <2>2, <2>4 DEF ReadUpTo
    <3>2. Len(data) = Total(sizes, Len(b))
      BY <2>1 DEF Laid
    <3> QED BY <1>2, <1>3, <3>1, <3>2 DEF SameBody
  <2> QED BY <2>3, <2>4
<1>5. DecodeRestores
  <2>1. IsWritten /\ AllSurvive => IsRead /\ Survivors(b)
    BY <1>2 DEF IsWritten, AllSurvive, Survivors
  <2> QED BY <1>4, <2>1 DEF DecodeRestores
<1>6. FilesDecoded
  <2>1. IsRead /\ predicted = 0 => Survivors(b)
    BY <1>1 DEF Reading
  <2> QED BY <1>4, <2>1 DEF FilesDecoded
<1> QED BY <1>5, <1>6

\* What encode writes, decode reads: the same instructions with the same objects,
\* to the last byte (encodeByteCode and decodeByteCode, for every body of
\* instructions that survive).
THEOREM DecodeRestoresCorrect == Spec => []DecodeRestores
<1>1. Init => ReadingInv
  BY MeasuredInit, ReadingInit DEF ReadingInv
<1>2. ReadingInv /\ [Next]_vars => ReadingInv'
  BY ReadingNext
<1>3. ReadingInv => DecodeRestores
  BY ReadingImplies
<1> QED BY <1>1, <1>2, <1>3, PTL DEF Spec

\* Code that another tool wrote, with numbers padded as it likes, is read as the
\* instructions it is (decodeByteCode).
THEOREM FilesDecodedCorrect == Spec => []FilesDecoded
<1>1. Init => ReadingInv
  BY MeasuredInit, ReadingInit DEF ReadingInv
<1>2. ReadingInv /\ [Next]_vars => ReadingInv'
  BY ReadingNext
<1>3. ReadingInv => FilesDecoded
  BY ReadingImplies
<1> QED BY <1>1, <1>2, <1>3, PTL DEF Spec

-----------------------------------------------------------------------------
(* Which operands are padded *)

Bare(fs) == IsSeq(fs) /\ \A k \in DOMAIN fs : fs[k].form \notin {"relocU", "relocS"}

LEMMA BareOne ==
    ASSUME NEW f, f.form \notin {"relocU", "relocS"}
    PROVE  Bare(<<f>>)
<1>1. <<f>>[1] = f /\ DOMAIN <<f>> = {1} /\ IsSeq(<<f>>)
  BY SingletonIs
<1> QED BY <1>1 DEF Bare

LEMMA BareTwo ==
    ASSUME NEW f, f.form \notin {"relocU", "relocS"}, NEW g, g.form \notin {"relocU", "relocS"}
    PROVE  Bare(<<f, g>>)
<1>1. <<f, g>>[1] = f /\ <<f, g>>[2] = g /\ DOMAIN <<f, g>> = {1, 2}
  OBVIOUS
<1>2. IsSeq(<<f, g>>)
  <2>1. <<f, g>> \in Seq({f, g})
    OBVIOUS
  <2> QED BY <2>1, SeqIsSeq
<1> QED BY <1>1, <1>2 DEF Bare

LEMMA BareConcat ==
    ASSUME NEW fs, Bare(fs), NEW gs, Bare(gs)
    PROVE  Bare(fs \o gs)
<1>1. IsSeq(fs \o gs) /\ \A k \in DOMAIN (fs \o gs) :
         \/ k \in DOMAIN fs /\ (fs \o gs)[k] = fs[k]
         \/ k - Len(fs) \in DOMAIN gs /\ (fs \o gs)[k] = gs[k - Len(fs)]
  BY ConcatElements, ConcatIsSeq DEF Bare
<1> DEFINE c == fs \o gs
<1> HIDE DEF c
<1>2. ASSUME NEW k \in DOMAIN c PROVE c[k].form \notin {"relocU", "relocS"}
  BY <1>1, <1>2 DEF Bare, c
<1> QED BY <1>1, <1>2 DEF Bare, c

LEMMA BareForms ==
    ASSUME NEW v, NEW w
    PROVE  /\ Bare(<<>>) /\ Bare(<<U8(v)>>) /\ Bare(<<U(v)>>) /\ Bare(<<S(v)>>) /\ Bare(<<Raw(v)>>)
           /\ Bare(<<U(v), U(w)>>) /\ Bare(<<U(v), U8(w)>>) /\ Bare(<<U8(v), U8(w)>>)
<1>1. /\ U8(v).form = "u8" /\ U(v).form = "uleb" /\ S(v).form = "sleb" /\ Raw(v).form = "raw"
      /\ U8(w).form = "u8" /\ U(w).form = "uleb"
  BY FormsAre
<1>2. Bare(<<>>)
  BY EmptyIsSeq DEF Bare
<1>3. /\ U8(v).form \notin {"relocU", "relocS"} /\ U(v).form \notin {"relocU", "relocS"}
      /\ S(v).form \notin {"relocU", "relocS"} /\ Raw(v).form \notin {"relocU", "relocS"}
      /\ U8(w).form \notin {"relocU", "relocS"} /\ U(w).form \notin {"relocU", "relocS"}
  BY <1>1
<1> QED BY <1>2, <1>3, BareOne, BareTwo

LEMMA BareOpcode ==
    ASSUME NEW op, IsShort(op) \/ IsLong(op)
    PROVE  Bare(Opcode(op))
<1>1. CASE IsShort(op)
  BY <1>1, OpcodeIs, BareForms
<1>2. CASE IsLong(op)
  <2> DEFINE a == U8(B1(op))
             b == U(B2(op))
  <2>1. Opcode(op) = <<a, b>>
    BY <1>2, OpcodeIs
  <2>2. a.form = "u8" /\ b.form = "uleb"
    BY FormsAre
  <2> HIDE DEF a, b
  <2>3. a.form \notin {"relocU", "relocS"} /\ b.form \notin {"relocU", "relocS"}
    BY <2>2
  <2> QED BY <2>1, <2>3, BareTwo
<1> QED BY <1>1, <1>2

LEMMA BareBlock ==
    ASSUME NEW t, t[1] \in {"number", "typeidx", "object"}
    PROVE  Bare(<<BlockTypeField(t)>>)
<1> DEFINE a == U8(t[2])
           b == S(t[2])
           c == S(Index("types", t[2]))
<1>1. BlockTypeField(t) = CASE t[1] = "number" -> a [] t[1] = "typeidx" -> b [] t[1] = "object" -> c
  BY DEF BlockTypeField
<1>2. a.form = "u8" /\ b.form = "sleb" /\ c.form = "sleb"
  BY FormsAre
<1> HIDE DEF a, b, c
<1>3. BlockTypeField(t) \in {a, b, c}
  BY <1>1
<1>4. BlockTypeField(t).form \in {"u8", "sleb"}
  BY <1>2, <1>3
<1> QED BY <1>4, BareOne

LEMMA BareTable ==
    ASSUME NEW labels, IsSeq(labels), NEW d
    PROVE  Bare(TableFields(labels, d))
<1> DEFINE mid == [k \in DOMAIN labels |-> U(labels[k])]
           head == <<U(Len(labels))>>
           tail == <<U(d)>>
<1>1. Bare(head) /\ Bare(tail)
  BY BareForms
<1>2. IsSeq(mid)
  <2>1. Len(labels) \in Nat /\ DOMAIN labels = 1 .. Len(labels)
    BY IsSeqLen
  <2>2. DOMAIN mid = 1 .. Len(labels) /\ mid = [k \in 1 .. Len(labels) |-> mid[k]]
    BY <2>1
  <2> QED BY <2>1, <2>2, FunctionIsSeq
<1>3. Bare(mid)
  <2>1. \A k \in DOMAIN labels : mid[k] = U(labels[k]) /\ U(labels[k]).form = "uleb"
    BY FormsAre
  <2>2. DOMAIN mid = DOMAIN labels
    OBVIOUS
  <2> HIDE DEF mid
  <2> QED BY <1>2, <2>1, <2>2 DEF Bare, mid
<1>4. TableFields(labels, d) = (head \o mid) \o tail
  BY DEF TableFields, LabelFields
<1> HIDE DEF mid, head, tail
<1>5. Bare(head \o mid)
  BY <1>1, <1>3, BareConcat
<1> QED BY <1>1, <1>4, <1>5, BareConcat

IsPaddedOp(op) == op \in PaddedOps \/ op \in {\h41, \h42}

\* Only the last field of a constant or of a memory access is padded.
PaddedLast(inst, fs) ==
    /\ IsPaddedOp(inst.op)
    /\ \E v \in Int : fs = <<RelocS(v)>> \/ \E g : fs = <<g, RelocU(v)>>
Ends(inst, fs) == Bare(fs) \/ PaddedLast(inst, fs)

LEMMA ControlEnds ==
    ASSUME NEW inst, InstOK(inst), inst.op \in ControlOps
    PROVE  Bare(EncodeControl(inst))
<1>1. CASE inst.op \in {\h00, \h01, \h05, \h0F, \h19}
  <2>1. EncodeControl(inst) = <<>>
    BY <1>1 DEF EncodeControl, IsBlock, Blocks
  <2> QED BY <2>1, BareForms
<1>2. CASE inst.op \in {\h02, \h03, \h04, \h06}
  <2>1. PICK t : t = inst.arg.type
    OBVIOUS
  <2>2. EncodeControl(inst) = <<BlockTypeField(t)>>
    BY <1>2, <2>1 DEF EncodeControl, IsBlock, Blocks
  <2>3. t[1] \in {"number", "typeidx", "object"}
    BY <1>2, <2>1 DEF InstOK
  <2> QED BY <2>2, <2>3, BareBlock
<1>3. CASE inst.op \in {\h07, \h08}
  <2>1. EncodeControl(inst) = <<U(IndexOfArg(inst, "tag"))>>
    BY <1>3 DEF EncodeControl, IsBlock, Blocks, IndexField
  <2> QED BY <2>1, BareForms
<1>4. CASE inst.op \in {\h09, \h18}
  <2>1. EncodeControl(inst) = <<U(inst.arg["relative_depth"])>>
    BY <1>4 DEF EncodeControl, IsBlock, Blocks
  <2> QED BY <2>1, BareForms
<1>5. CASE inst.op \in {\h0C, \h0D}
  <2>1. EncodeControl(inst) = <<U(inst.arg["labelidx"])>>
    BY <1>5 DEF EncodeControl, IsBlock, Blocks
  <2> QED BY <2>1, BareForms
<1>6. CASE inst.op = \h0E
  <2>1. PICK labels, d : labels = inst.arg.labels /\ d = inst.arg.default_br
    OBVIOUS
  <2>2. IsSeq(labels)
    BY <1>6, <2>1 DEF InstOK
  <2>3. EncodeControl(inst) = TableFields(labels, d)
    BY <1>6, <2>1 DEF EncodeControl, TableFields, LabelFields, Blocks, IsBlock
  <2> QED BY <2>2, <2>3, BareTable
<1>7. CASE inst.op = \h10
  <2>1. EncodeControl(inst) = <<U(IndexOfArg(inst, "func"))>>
    BY <1>7 DEF EncodeControl, IsBlock, Blocks, IndexField
  <2> QED BY <2>1, BareForms
<1>8. CASE inst.op = \h11
  <2>1. EncodeControl(inst) = <<U(IndexOfArg(inst, "type")), U(IndexOfArg(inst, "table"))>>
    BY <1>8 DEF EncodeControl, IsBlock, Blocks, IndexField
  <2> QED BY <2>1, BareForms
<1> QED BY <1>1, <1>2, <1>3, <1>4, <1>5, <1>6, <1>7, <1>8 DEF ControlOps

LEMMA VariableEnds ==
    ASSUME NEW inst, inst.op \in VariableOps, Has(inst, FormatOfVariable(inst.op))
    PROVE  Ends(inst, EncodeVariable(inst))
<1>1. CASE inst.op \in {\h0B, \h1A, \h1B, \h1C}
  <2>1. EncodeVariable(inst) = <<>>
    BY <1>1 DEF EncodeVariable
  <2> QED BY <2>1, BareForms DEF Ends
<1>2. CASE inst.op \in {\h41, \h42}
  <2>1. PICK v : v = inst.arg["value"]
    OBVIOUS
  <2>2. EncodeVariable(inst) = <<RelocS(v)>> /\ FormatOfVariable(inst.op) = <<<<"sleb", "value">>>>
    BY <1>2, <2>1 DEF EncodeVariable, FormatOfVariable, FormatControl, Blocks
  <2>3. InBounds(inst, "sleb", "value")
    BY <2>2, HasOne
  <2>4. v \in Int
    BY <2>1, <2>3, NamesAre DEF InBounds, InBound
  <2>5. IsPaddedOp(inst.op)
    BY <1>2 DEF IsPaddedOp
  <2> QED BY <2>2, <2>4, <2>5 DEF Ends, PaddedLast
<1>3. CASE inst.op \in {\h43, \h44}
  <2>1. EncodeVariable(inst) = <<Raw(inst.arg["value"])>>
    BY <1>3 DEF EncodeVariable
  <2> QED BY <2>1, BareForms DEF Ends
<1>4. CASE inst.op \in {\h20, \h21, \h22}
  <2>1. EncodeVariable(inst) = <<U(IndexOfArg(inst, "local"))>>
    BY <1>4 DEF EncodeVariable, IndexField
  <2> QED BY <2>1, BareForms DEF Ends
<1>5. CASE inst.op \in {\h23, \h24}
  <2>1. EncodeVariable(inst) = <<U(IndexOfArg(inst, "global"))>>
    BY <1>5 DEF EncodeVariable, IndexField
  <2> QED BY <2>1, BareForms DEF Ends
<1>6. CASE inst.op \in {\h25, \h26}
  <2>1. EncodeVariable(inst) = <<U(IndexOfArg(inst, "table"))>>
    BY <1>6 DEF EncodeVariable, IndexField
  <2> QED BY <2>1, BareForms DEF Ends
<1> QED BY <1>1, <1>2, <1>3, <1>4, <1>5, <1>6 DEF VariableOps

LEMMA MemArgEnds ==
    ASSUME NEW inst, IsPaddedOp(inst.op), Has(inst, MemArg)
    PROVE  Ends(inst, <<U(inst.arg.align), RelocU(inst.arg.offset)>>)
<1>1. PICK v : v = inst.arg["offset"]
  OBVIOUS
<1>2. MemArg = <<<<"uleb", "align">>, <<"uleb", "offset">>>>
  BY DEF MemArg
<1>3. InBounds(inst, "uleb", "offset")
  BY <1>2, HasTwo
<1>4. Bounded(v)
  BY <1>1, <1>3, NamesAre DEF InBounds, InBound, Bounded
<1>5. v \in Int
  BY <1>4, SMT DEF Bounded
<1> QED BY <1>1, <1>5 DEF Ends, PaddedLast

LEMMA MemoryEnds ==
    ASSUME NEW inst, inst.op \in \h28 .. \h40, Has(inst, FormatMemory(inst.op))
    PROVE  Ends(inst, EncodeMemory(inst))
<1>1. CASE inst.op \in MemoryOps
  <2>1. EncodeMemory(inst) = <<U(inst.arg.align), RelocU(inst.arg.offset)>>
    BY <1>1 DEF EncodeMemory, MemoryOps
  <2>2. FormatMemory(inst.op) = MemArg
    BY <1>1 DEF FormatMemory
  <2>3. IsPaddedOp(inst.op)
    BY <1>1 DEF IsPaddedOp, PaddedOps
  <2>4. Has(inst, MemArg)
    BY <2>2
  <2> QED BY <2>1, <2>3, <2>4, MemArgEnds
<1>2. CASE inst.op \in {\h3F, \h40}
  <2>1. inst.op \notin MemoryOps
    BY <1>2 DEF MemoryOps
  <2>2. EncodeMemory(inst) = <<U8(inst.arg["memidx"])>>
    BY <1>2, <2>1 DEF EncodeMemory
  <2> QED BY <2>2, BareForms DEF Ends
<1> QED BY <1>1, <1>2 DEF MemoryOps

LEMMA ReferenceEnds ==
    ASSUME NEW inst, inst.op \in \hD0 .. \hD2
    PROVE  Bare(EncodeReference(inst))
<1>1. CASE inst.op = \hD0
  <2>1. EncodeReference(inst) = <<U(inst.arg["reftype"])>>
    BY <1>1 DEF EncodeReference
  <2> QED BY <2>1, BareForms
<1>2. CASE inst.op = \hD1
  <2>1. EncodeReference(inst) = <<>>
    BY <1>2 DEF EncodeReference
  <2> QED BY <2>1, BareForms
<1>3. CASE inst.op = \hD2
  <2>1. EncodeReference(inst) = <<U(IndexOfArg(inst, "func"))>>
    BY <1>3 DEF EncodeReference, IndexField
  <2> QED BY <2>1, BareForms
<1> QED BY <1>1, <1>2, <1>3

LEMMA BulkEnds ==
    ASSUME NEW inst, NEW sub \in 0 .. 17, sub = B2(inst.op)
    PROVE  Bare(EncodeBulk(inst))
<1>1. CASE sub \in 0 .. 7
  <2>1. EncodeBulk(inst) = <<>>
    BY <1>1 DEF EncodeBulk
  <2> QED BY <2>1, BareForms
<1>2. CASE sub = 8
  <2>1. EncodeBulk(inst) = <<U(IndexOfArg(inst, "dataSegment")), U8(IndexOfArg(inst, "memory"))>>
    BY <1>2 DEF EncodeBulk, IndexField
  <2> QED BY <2>1, BareForms
<1>3. CASE sub = 9
  <2>1. EncodeBulk(inst) = <<U(IndexOfArg(inst, "dataSegment"))>>
    BY <1>3 DEF EncodeBulk, IndexField
  <2> QED BY <2>1, BareForms
<1>4. CASE sub = 10
  <2>1. EncodeBulk(inst) = <<U8(inst.arg["memidx1"]), U8(inst.arg["memidx2"])>>
    BY <1>4 DEF EncodeBulk
  <2> QED BY <2>1, BareForms
<1>5. CASE sub = 11
  <2>1. EncodeBulk(inst) = <<U8(inst.arg["memidx"])>>
    BY <1>5 DEF EncodeBulk
  <2> QED BY <2>1, BareForms
<1>6. CASE sub = 12
  <2>1. EncodeBulk(inst) = <<U(IndexOfArg(inst, "elem")), U8(IndexOfArg(inst, "table"))>>
    BY <1>6 DEF EncodeBulk, IndexField
  <2> QED BY <2>1, BareForms
<1>7. CASE sub = 13
  <2>1. EncodeBulk(inst) = <<U(IndexOfArg(inst, "elem"))>>
    BY <1>7 DEF EncodeBulk, IndexField
  <2> QED BY <2>1, BareForms
<1>8. CASE sub = 14
  <2>1. EncodeBulk(inst) = <<U(IndexOfArg(inst, "table1")), U(IndexOfArg(inst, "table2"))>>
    BY <1>8 DEF EncodeBulk, IndexField
  <2> QED BY <2>1, BareForms
<1>9. CASE sub \in 15 .. 17
  <2>1. EncodeBulk(inst) = <<U(IndexOfArg(inst, "table"))>>
    BY <1>9 DEF EncodeBulk, IndexField
  <2> QED BY <2>1, BareForms
<1> QED BY <1>1, <1>2, <1>3, <1>4, <1>5, <1>6, <1>7, <1>8, <1>9

LEMMA AtomicEnds ==
    ASSUME NEW inst, NEW sub \in 0 .. 3 \cup \h10 .. \h4E, sub = B2(inst.op),
           sub \in \h10 .. \h4E => inst.op \in PaddedOps, Has(inst, FormatAtomic(sub))
    PROVE  Ends(inst, EncodeAtomic(inst))
<1>1. CASE sub \in 0 .. 2
  <2>1. EncodeAtomic(inst) = <<U(inst.arg.align), U(inst.arg.offset)>>
    BY <1>1 DEF EncodeAtomic
  <2> QED BY <2>1, BareForms DEF Ends
<1>2. CASE sub = 3
  <2>1. EncodeAtomic(inst) = <<U8(inst.arg["memidx"])>>
    BY <1>2 DEF EncodeAtomic
  <2> QED BY <2>1, BareForms DEF Ends
<1>3. CASE sub \in \h10 .. \h4E
  <2>1. EncodeAtomic(inst) = <<U(inst.arg.align), RelocU(inst.arg.offset)>> /\ FormatAtomic(sub) = MemArg
    BY <1>3 DEF EncodeAtomic, FormatAtomic
  <2>2. Has(inst, MemArg)
    BY <2>1
  <2>3. IsPaddedOp(inst.op)
    BY <1>3 DEF IsPaddedOp
  <2> QED BY <2>1, <2>2, <2>3, MemArgEnds
<1> QED BY <1>1, <1>2, <1>3

\* The fields of an instruction are bare, or the last is padded.
Ended(inst) == \E fs : Written(inst) = Opcode(inst.op) \o fs /\ Ends(inst, fs)

LEMMA ShortEnds ==
    ASSUME NEW inst, Fit(inst), IsShort(inst.op)
    PROVE  Ended(inst)
<1>1. PICK op : op = inst.op
  OBVIOUS
<1>2. IsKnown(inst.op) /\ HasOperands(inst) /\ InstOK(inst)
  BY DEF Fit
<1>3. B1(op) = op /\ B2(op) = 0 /\ op \notin {\hFC, \hFD, \hFE} /\ op \in Nat
  BY <1>1, ShortIs
<1>4. op \in ControlOps \cup VariableOps \cup \h28 .. \hC4 \cup \hD0 .. \hD2
  BY <1>1, <1>2, <1>3 DEF IsKnown, Supported
<1>5. CASE op \in ControlOps
  <2>1. Switched(inst, EncodeControl(inst), FormatControl(op))
    BY <1>1, <1>5, ShortSwitched
  <2> QED BY <1>1, <1>2, <1>5, <2>1, ControlEnds DEF Switched, Ended, Ends
<1>6. CASE op \in VariableOps
  <2>1. Switched(inst, EncodeVariable(inst), FormatOfVariable(op))
    BY <1>1, <1>6, ShortSwitched
  <2>2. Has(inst, FormatOfVariable(op))
    BY <1>2, <2>1, SwitchedHas
  <2>3. Ends(inst, EncodeVariable(inst))
    BY <1>1, <1>6, <2>2, VariableEnds
  <2> QED BY <2>1, <2>3 DEF Switched, Ended
<1>7. CASE op \in \h28 .. \h40
  <2>1. Switched(inst, EncodeMemory(inst), FormatMemory(op))
    BY <1>1, <1>7, ShortSwitched
  <2>2. Has(inst, FormatMemory(op))
    BY <1>2, <2>1, SwitchedHas
  <2>3. Ends(inst, EncodeMemory(inst))
    BY <1>1, <1>7, <2>2, MemoryEnds
  <2> QED BY <2>1, <2>3 DEF Switched, Ended
<1>8. CASE op \in Numerics
  <2>1. Switched(inst, EncodeNumeric(inst), FormatNumeric(op))
    BY <1>1, <1>8, ShortSwitched
  <2>2. Bare(EncodeNumeric(inst))
    BY BareForms DEF EncodeNumeric
  <2> QED BY <2>1, <2>2 DEF Switched, Ended, Ends
<1>9. CASE op \in \hD0 .. \hD2
  <2>1. Switched(inst, EncodeReference(inst), FormatReference(op))
    BY <1>1, <1>9, ShortSwitched
  <2>2. Bare(EncodeReference(inst))
    BY <1>1, <1>9, ReferenceEnds
  <2> QED BY <2>1, <2>2 DEF Switched, Ended, Ends
<1>10. op \in \h28 .. \hC4 => op \in \h28 .. \h40 \/ op \in Numerics \/ op \in VariableOps
  BY DEF Numerics, VariableOps
<1> QED BY <1>4, <1>5, <1>6, <1>7, <1>8, <1>9, <1>10

LEMMA LongEnds ==
    ASSUME NEW inst, Fit(inst), IsLong(inst.op)
    PROVE  Ended(inst)
<1>1. PICK op, sub : op = inst.op /\ sub = B2(op)
  OBVIOUS
<1>2. IsKnown(inst.op) /\ HasOperands(inst)
  BY DEF Fit
<1>3. /\ op \in Nat /\ B1(op) \in {\hFC, \hFD, \hFE} /\ sub \in 0 .. 255 /\ 256 * B1(op) + sub = op
      /\ op \notin \hFC12 .. \hFCFF => ~(B1(op) = \hFC /\ sub > 17)
  BY <1>1, LongIs
<1>4. CASE B1(op) = \hFC
  <2>1. sub \in 0 .. 17 /\ sub <= 17
    <3>1. ~(B1(op) = \hFC /\ sub > 17)
      BY <1>1, <1>2, <1>3 DEF IsKnown
    <3> QED BY <1>3, <1>4, <3>1
  <2>2. Switched(inst, EncodeBulk(inst), FormatBulk(sub))
    BY <1>1, <1>4, <2>1, LongSwitched
  <2>3. Bare(EncodeBulk(inst))
    BY <1>1, <2>1, BulkEnds
  <2> QED BY <2>2, <2>3 DEF Switched, Ended, Ends
<1>5. CASE B1(op) = \hFD
  <2>1. sub \in SimdMemory
    <3>1. sub \in SimdMemory \cup SimdLanes \cup {12, 13} \cup 21 .. 34 \cup SimdPlain
      BY <1>1, <1>2, <1>5 DEF IsKnown, Supported
    <3>2. sub \notin EncodeSimdTodo
      BY <1>1, <1>5 DEF Fit, EncodeThrows
    <3>3. sub \notin {12, 13} \cup 21 .. 34 \cup SimdPlain
      BY <3>2, SwitchesAgree
    <3>4. sub \notin SimdLanes
      <4>1. op \notin \hFD54 .. \hFD5B
        BY <1>1 DEF Fit, Survives
      <4>2. sub \in SimdLanes => op \in \hFD54 .. \hFD5B
        BY <1>3, <1>5 DEF SimdLanes
      <4> QED BY <4>1, <4>2
    <3> QED BY <3>1, <3>3, <3>4
  <2>2. Switched(inst, EncodeSimd(inst), FormatSimd(sub))
    BY <1>1, <1>5, <2>1, LongSwitched
  <2>3. Bare(EncodeSimd(inst))
    BY BareForms DEF EncodeSimd
  <2> QED BY <2>2, <2>3 DEF Switched, Ended, Ends
<1>6. CASE B1(op) = \hFE
  <2>1. Switched(inst, EncodeAtomic(inst), FormatAtomic(sub))
    BY <1>1, <1>6, LongSwitched
  <2>2. Has(inst, FormatAtomic(sub))
    BY <1>2, <2>1, SwitchedHas
  <2>3. sub \in 0 .. 3 \cup \h10 .. \h4E
    BY <1>1, <1>6 DEF Fit, EncodeThrows
  <2>4. sub \in \h10 .. \h4E => op \in PaddedOps
    BY <1>3, <1>6 DEF PaddedOps
  <2>5. Ends(inst, EncodeAtomic(inst))
    BY <1>1, <2>2, <2>3, <2>4, AtomicEnds
  <2> QED BY <2>1, <2>5 DEF Switched, Ended
<1> QED BY <1>3, <1>4, <1>5, <1>6

LEMMA TotalGrows ==
    ASSUME NEW lens, NEW n \in Nat, \A k \in 1 .. n : lens[k] \in Nat
    PROVE  \A j \in 0 .. n : Total(lens, j) \in Nat /\ Total(lens, j) <= Total(lens, n)
<1>1. ASSUME NEW k \in 0 .. n
      PROVE  /\ Total(lens, k) \in Nat
             /\ k < n => lens[k + 1] \in Nat /\ Total(lens, k + 1) = Total(lens, k) + lens[k + 1]
  <2>1. k \in Nat /\ (k < n => k + 1 \in 1 .. n) /\ \A j \in 1 .. k : j \in 1 .. n
    OBVIOUS
  <2>2. \A j \in 1 .. k : lens[j] \in Nat
    BY <2>1
  <2> QED BY <2>1, <2>2, NextTotal
<1> DEFINE T == {k \in 0 .. n : \A j \in 0 .. k : Total(lens, j) <= Total(lens, k)}
<1>2. 0 \in T
  <2>1. Total(lens, 0) \in Nat
    BY <1>1
  <2> QED BY <2>1
<1>3. ASSUME NEW k \in T, k < n PROVE k + 1 \in T
  <2>1. k \in 0 .. n /\ k + 1 \in 0 .. n /\ \A j \in 0 .. k : Total(lens, j) <= Total(lens, k)
    BY <1>3
  <2>2. Total(lens, k + 1) = Total(lens, k) + lens[k + 1] /\ lens[k + 1] \in Nat /\ Total(lens, k) \in Nat
    BY <1>1, <1>3, <2>1
  <2>3. ASSUME NEW j \in 0 .. k + 1 PROVE Total(lens, j) <= Total(lens, k + 1)
    <3>1. CASE j \in 0 .. k
      <4>1. j \in 0 .. n /\ Total(lens, j) <= Total(lens, k)
        BY <2>1, <3>1
      <4>2. Total(lens, j) \in Nat
        BY <4>1, <1>1
      <4> QED BY <4>1, <4>2, <2>2
    <3>2. CASE j = k + 1
      BY <3>2, <2>2
    <3> QED BY <3>1, <3>2, <2>1
  <2> QED BY <2>1, <2>3
<1>4. T = 0 .. n
  <2>1. T \in SUBSET (0 .. n)
    OBVIOUS
  <2> HIDE DEF T
  <2> QED BY <1>2, <1>3, <2>1, UpToInduction
<1>5. n \in T
  BY <1>4
<1> QED BY <1>1, <1>5

\* Where encode pads an operand, it is the last field, and of RELOC_PAD bytes.
LEMMA PaddedLasts ==
    ASSUME NEW inst, Fit(inst), IsPadded(inst)
    PROVE  /\ relocatable /\ IsPaddedOp(inst.op)
           /\ \E v \in Int, n \in Nat : /\ n > 1 /\ IsSeq(Written(inst)) /\ Len(Written(inst)) = n
                                        /\ Written(inst)[1] = U8(B1(inst.op))
                                        /\ Bytes(inst, Written(inst)[n]) = Groups(v, RELOC_PAD)
<1>1. PICK fs : Written(inst) = Opcode(inst.op) \o fs /\ Ends(inst, fs)
  BY ShortEnds, LongEnds DEF Fit, Ended
<1>2. PICK op, w : op = Opcode(inst.op) /\ w = Written(inst)
  OBVIOUS
<1>3. IsShort(inst.op) \/ IsLong(inst.op)
  BY DEF Fit
<1>4. Bare(op)
  BY <1>2, <1>3, BareOpcode
<1>5. relocatable /\ PadOf(inst) = RELOC_PAD /\ RELOC_PAD \in 4 .. 7
  BY VectorAssumption DEF IsPadded, PadOf
<1>6. PICK k \in DOMAIN w : w[k].form \in {"relocU", "relocS"}
  BY <1>2 DEF IsPadded
<1>7. PaddedLast(inst, fs)
  <2>1. ASSUME Bare(fs) PROVE FALSE
    <3>1. Bare(w)
      BY <1>1, <1>2, <1>4, <2>1, BareConcat
    <3> QED BY <1>6, <3>1 DEF Bare
  <2> QED BY <1>1, <2>1 DEF Ends
<1>8. PICK v \in Int : fs = <<RelocS(v)>> \/ \E g : fs = <<g, RelocU(v)>>
  BY <1>7 DEF PaddedLast
<1>9. Bytes(inst, RelocS(v)) = Groups(v, RELOC_PAD) /\ Bytes(inst, RelocU(v)) = Groups(v, RELOC_PAD)
  <2>1. PaddedTo(LengthULEB(v), RELOC_PAD) = RELOC_PAD /\ PaddedTo(LengthSLEB(v), RELOC_PAD) = RELOC_PAD
    BY <1>5, LengthIs DEF PaddedTo
  <2>2. ULEB(v, RELOC_PAD) = Groups(v, RELOC_PAD) /\ SLEB(v, RELOC_PAD) = Groups(v, RELOC_PAD)
    BY <2>1 DEF ULEB, SLEB
  <2> QED BY <1>5, <2>2, BytesAre
<1>10. PICK o, m : o = Len(op) /\ m = Len(fs)
  OBVIOUS
<1>11. IsSeq(op) /\ o \in {1, 2} /\ op[1] = U8(B1(inst.op))
  BY <1>2, <1>3, <1>10, OpcodeSolid DEF AllSolid
<1>12. IsSeq(fs) /\ m \in {1, 2} /\ Bytes(inst, fs[m]) = Groups(v, RELOC_PAD)
  <2>1. CASE fs = <<RelocS(v)>>
    BY <2>1, <1>9, <1>10, SingletonIs
  <2>2. CASE \E g : fs = <<g, RelocU(v)>>
    <3> PICK g : fs = <<g, RelocU(v)>>
      BY <2>2
    <3>1. fs \in Seq({g, RelocU(v)}) /\ Len(fs) = 2 /\ fs[2] = RelocU(v)
      OBVIOUS
    <3> QED BY <3>1, <1>9, <1>10, SeqIsSeq
  <2> QED BY <1>8, <2>1, <2>2
<1>13. /\ IsSeq(w) /\ Len(w) = o + m
       /\ \A j \in 1 .. o + m : w[j] = IF j <= o THEN op[j] ELSE fs[j - o]
  BY <1>1, <1>2, <1>10, <1>11, <1>12, ConcatIsSeq
<1>14. /\ o + m \in Nat /\ o + m > 1 /\ 1 \in 1 .. o + m /\ 1 <= o
       /\ o + m \in 1 .. o + m /\ ~(o + m <= o) /\ (o + m) - o = m
  BY <1>11, <1>12
<1>15. w[1] = U8(B1(inst.op)) /\ w[o + m] = fs[m]
  BY <1>11, <1>13, <1>14
<1>16. IsPaddedOp(inst.op)
  BY <1>7 DEF PaddedLast
<1> QED BY <1>2, <1>5, <1>12, <1>13, <1>14, <1>15, <1>16

\* The code of an instruction with a padded operand, and where the operand begins.
PaddedCode(inst, ss) ==
    /\ IsPaddedOp(inst.op) /\ IsSeq(ss)
    /\ \E v \in Int, n \in Nat \ {0} : Len(ss) = n /\ ss[n] = Groups(v, RELOC_PAD)
    /\ Len(FlattenSeq(ss)) > RELOC_PAD
PlaceOf(sizes, k) == Total(sizes, k) - RELOC_PAD

\* The length of a concatenation, added up.
LEMMA FlattenTotals ==
    ASSUME NEW ss, IsSeq(ss), \A k \in DOMAIN ss : IsSeq(ss[k]), NEW lens, lens = LensOf(ss), NEW n, n = Len(ss)
    PROVE  /\ n \in Nat /\ \A k \in 1 .. n : lens[k] \in Nat /\ lens[k] = Len(ss[k])
           /\ Len(FlattenSeq(ss)) = Total(lens, n)
<1>1. n \in Nat /\ DOMAIN ss = 1 .. n
  BY IsSeqLen
<1>2. ASSUME NEW k \in 1 .. n PROVE lens[k] \in Nat /\ lens[k] = Len(ss[k])
  <2>1. k \in DOMAIN ss
    BY <1>1
  <2>2. Len(ss[k]) \in Nat
    BY <2>1, IsSeqLen
  <2> QED BY <2>1, <2>2 DEF LensOf
<1>3. DOMAIN lens = 1 .. n /\ lens = [k \in 1 .. n |-> lens[k]]
  BY <1>1 DEF LensOf
<1>4. \A k \in 1 .. n : lens[k] \in Int
  BY <1>2
<1>5. lens \in Seq(Int) /\ Len(lens) = n
  BY <1>1, <1>3, <1>4, IntSeq
<1>6. Len(FlattenSeq(ss)) = SumOf(lens)
  BY <1>2, <1>5, FlattenLength
<1>7. Upto(lens, n) = lens
  BY <1>3 DEF Upto
<1> QED BY <1>1, <1>2, <1>6, <1>7 DEF Total

LEMMA PaddedPieces ==
    ASSUME NEW inst, Fit(inst), IsPadded(inst), NEW ss, ss = PiecesOf(inst)
    PROVE  /\ relocatable /\ PaddedCode(inst, ss)
           /\ BeforeOperand(inst) = Len(FlattenSeq(ss)) - RELOC_PAD
<1>1. PICK w : w = Written(inst)
  OBVIOUS
<1>2. relocatable /\ IsPaddedOp(inst.op)
  BY PaddedLasts
<1>3. PICK v \in Int, n \in Nat : /\ n > 1 /\ IsSeq(w) /\ Len(w) = n /\ w[1] = U8(B1(inst.op))
                                  /\ Bytes(inst, w[n]) = Groups(v, RELOC_PAD)
  BY <1>1, PaddedLasts
<1>4. /\ IsCode(ss, inst) /\ BytesOf(inst) = FlattenSeq(ss)
      /\ IsSeq(ss) /\ \A k \in DOMAIN ss : IsSeq(ss[k])
  BY EncodedIs, CodeIsSeq
<1>5. DOMAIN w = 1 .. n
  BY <1>3, IsSeqLen
<1>6. DOMAIN ss = 1 .. n /\ \A k \in 1 .. n : ss[k] = Bytes(inst, w[k])
  BY <1>1, <1>5 DEF PiecesOf
<1>7. Len(ss) = n
  <2>1. Len(ss) \in Nat /\ DOMAIN ss = 1 .. Len(ss)
    BY <1>4, IsSeqLen
  <2> QED BY <1>3, <1>6, <2>1
<1>8. 1 \in 1 .. n /\ n \in 1 .. n /\ n \in Nat \ {0}
  BY <1>3
<1>9. ss[1] = <<LowByte(B1(inst.op))>> /\ ss[n] = Groups(v, RELOC_PAD)
  BY <1>3, <1>6, <1>8, BytesAre
<1>10. RELOC_PAD \in Nat
  BY VectorAssumption
<1>11. Len(ss[1]) = 1 /\ Len(ss[n]) = RELOC_PAD
  BY <1>9, <1>10, SingletonIs, GroupsLength
<1>12. PICK lens : lens = LensOf(ss)
  OBVIOUS
<1>13. (\A k \in 1 .. n : lens[k] \in Nat /\ lens[k] = Len(ss[k])) /\ Len(FlattenSeq(ss)) = Total(lens, n)
  BY <1>4, <1>7, <1>12, FlattenTotals
<1>14. lens[1] = 1 /\ lens[n] = RELOC_PAD
  BY <1>8, <1>11, <1>13
<1>15. PICK m : m = n - 1
  OBVIOUS
<1>16. m \in Nat /\ 1 \in 0 .. m /\ m + 1 = n /\ \A k \in 1 .. m : k \in 1 .. n
  BY <1>3, <1>15
<1>17. \A k \in 1 .. m : lens[k] \in Nat
  BY <1>13, <1>16
<1>18. Total(lens, 1) \in Nat /\ Total(lens, 1) <= Total(lens, m) /\ Total(lens, m) \in Nat
  <2>1. \A j \in 0 .. m : Total(lens, j) \in Nat /\ Total(lens, j) <= Total(lens, m)
    BY <1>16, <1>17, TotalGrows
  <2>2. m \in 0 .. m
    BY <1>16
  <2> QED BY <1>16, <2>1, <2>2
<1>19. Total(lens, 1) = 1
  <2>1. 0 \in Nat /\ \A k \in 1 .. 0 : lens[k] \in Nat
    OBVIOUS
  <2>2. lens[0 + 1] \in Nat /\ 0 + 1 = 1
    BY <1>14
  <2>3. Total(lens, 0) = 0 /\ Total(lens, 0 + 1) = Total(lens, 0) + lens[0 + 1]
    BY <2>1, <2>2, NextTotal
  <2> QED BY <1>14, <2>3
<1>20. Total(lens, n) = Total(lens, m) + RELOC_PAD
  <2>1. lens[m + 1] \in Nat
    BY <1>10, <1>14, <1>16
  <2>2. Total(lens, m + 1) = Total(lens, m) + lens[m + 1]
    BY <1>16, <1>17, <2>1, NextTotal
  <2> QED BY <1>14, <1>16, <2>2
<1>21. Len(FlattenSeq(ss)) > RELOC_PAD
  BY <1>10, <1>13, <1>18, <1>19, <1>20
<1>22. PaddedCode(inst, ss)
  BY <1>2, <1>4, <1>7, <1>8, <1>9, <1>21 DEF PaddedCode
<1>23. BeforeOperand(inst) = Len(FlattenSeq(ss)) - RELOC_PAD
  <2>1. Len(Bytes(inst, w[Len(w)])) = RELOC_PAD
    BY <1>3, <1>6, <1>8, <1>11
  <2> QED BY <1>1, <1>4, <2>1 DEF BeforeOperand
<1> QED BY <1>2, <1>22, <1>23

-----------------------------------------------------------------------------
(* What encode and decode note of an operand that is patched later *)

Noted(b, code, sizes, n) ==
    \A k \in DOMAIN roff : /\ k \in 1 .. n /\ relocatable /\ PaddedCode(b[k], code[k])
                           /\ roff[k] = PlaceOf(sizes, k)
NotedAgain(b, code, sizes) ==
    \A k \in 1 .. Len(decoded) : relocatable /\ PaddedCode(b[k], code[k]) => decoded[k].roff = PlaceOf(sizes, k)
Placed(b, code, sizes) ==
    /\ phase = "length" => DOMAIN roff = {}
    /\ phase = "encode" /\ Survivors(b) => \E n \in Nat : i = n + 1 /\ Noted(b, code, sizes, n)
    /\ IsRead /\ Survivors(b) => Noted(b, code, sizes, Len(b)) /\ NotedAgain(b, code, sizes)

LEMMA PlacedInit ==
    ASSUME Init, NEW b, NEW code, NEW sizes
    PROVE  Placed(b, code, sizes)
<1>1. DOMAIN roff = {} /\ decoded = <<>> /\ phase # "encode"
  BY DEF Init
<1>2. Len(decoded) = 0
  BY <1>1, EmptyIsSeq
<1> QED BY <1>1, <1>2 DEF Placed, Noted, NotedAgain

LEMMA PlacedMeasure ==
    ASSUME NEW b, NEW code, NEW sizes, Placed(b, code, sizes), Measure
    PROVE  Placed(b, code, sizes)'
<1>1. phase = "length" /\ roff' = roff /\ DOMAIN roff = {}
  BY DEF Measure, Placed
<1>2. phase' \in {"length", "length threw"} \/ (phase' = "encode" /\ i' = 1)
  <2>1. phase' = "length threw" \/ Advance("encode")
    BY DEF Measure
  <2>2. CASE Advance("encode")
    BY <1>1, <2>2 DEF Advance
  <2> QED BY <2>1, <2>2
<1>3. phase' = "encode" => \E n \in Nat : i' = n + 1 /\ Noted(b, code, sizes, n)'
  <2>1. Noted(b, code, sizes, 0)'
    BY <1>1 DEF Noted
  <2>2. phase' = "encode" => i' = 0 + 1
    BY <1>2
  <2> QED BY <2>1, <2>2
<1>4. ~IsRead'
  <2>1. phase' \notin {"decode", "done", "decode threw"}
    BY <1>2
  <2> QED BY <2>1 DEF IsRead
<1> QED BY <1>1, <1>3, <1>4 DEF Placed

LEMMA PlacedStutter ==
    ASSUME NEW b, NEW code, NEW sizes, Placed(b, code, sizes), UNCHANGED vars
    PROVE  Placed(b, code, sizes)'
<1>1. IsRead' <=> IsRead
  BY DEF vars, IsRead
<1>2. \A n : Noted(b, code, sizes, n) => Noted(b, code, sizes, n)'
  BY DEF vars, Noted
<1>3. NotedAgain(b, code, sizes) => NotedAgain(b, code, sizes)'
  BY DEF vars, NotedAgain
<1> QED BY <1>1, <1>2, <1>3 DEF vars, Placed

LEMMA PlacedEncode ==
    ASSUME NEW b, NEW lens, Walking(b, lens), NEW code, NEW sizes, NEW open, Reading(b, code, sizes, open),
           Placed(b, code, sizes), Encode
    PROVE  Placed(b, code, sizes)'
<1>1. phase = "encode" /\ b = body /\ Writing(b, lens)
  BY DEF Walking, Encode
<1>2. relocatable' = relocatable /\ decoded' = decoded
  BY DEF Encode
<1>3. b \in Bodies /\ i \in DOMAIN b /\ \A k \in DOMAIN b : LengthOf(b[k]) # Throws
  BY <1>1 DEF Writing
<1>4. b \in Codes /\ Len(b) \in Nat \ {0} /\ DOMAIN b = 1 .. Len(b)
  BY <1>3, BodyIs
<1>5. /\ Sized(b, code, sizes) /\ \A k \in DOMAIN b : code[k] = PiecesOf(b[k])
      /\ decoded = <<>>
      /\ Survivors(b) => \E n \in Nat : i = n + 1 /\ Coded(b, code, n) /\ Laid(code, sizes, n)
  BY <1>1 DEF Reading
<1>6. CASE EncodeThrows(b[i])
  <2>1. phase' = "encode threw"
    BY <1>1, <1>6 DEF Encode
  <2>2. phase' # "length" /\ phase' # "encode" /\ ~IsRead'
    BY <2>1 DEF IsRead
  <2> QED BY <2>2 DEF Placed
<1>7. CASE ~EncodeThrows(b[i])
  <2>1. /\ Advance("decode")
        /\ roff' = IF ~IsPadded(b[i]) THEN roff
                   ELSE [k \in {i} \cup DOMAIN roff |-> IF k = i THEN Len(data) + BeforeOperand(b[i]) ELSE roff[k]]
    BY <1>1, <1>7 DEF Encode
  <2>2. ASSUME Survivors(b) PROVE \E m \in Nat : i = m /\ Noted(b, code, sizes, m)'
    <3>1. PICK n \in Nat : i = n + 1 /\ Coded(b, code, n) /\ Laid(code, sizes, n)
      BY <1>5, <2>2
    <3>2. Noted(b, code, sizes, n)
      <4>1. PICK m \in Nat : i = m + 1 /\ Noted(b, code, sizes, m)
        BY <1>1, <2>2 DEF Placed
      <4>2. m = n
        BY <3>1, <4>1
      <4> QED BY <4>1, <4>2
    <3>3. PICK m : m = n + 1
      OBVIOUS
    <3>4. m = i /\ m \in DOMAIN b /\ m \in Nat /\ m \in 1 .. m /\ \A k \in 1 .. n : k \in 1 .. m
      BY <1>3, <3>1, <3>3
    <3>5. Fit(b[m])
      <4>1. Survives(b[m]) /\ ~EncodeThrows(b[m]) /\ LengthOf(b[m]) # Throws
        BY <1>3, <1>7, <2>2, <3>4 DEF Survivors
      <4> QED BY <1>4, <3>4, <4>1, MeasuredFit
    <3>6. CASE ~IsPadded(b[m])
      <4>1. roff' = roff
        BY <2>1, <3>4, <3>6
      <4>2. Noted(b, code, sizes, m)'
        BY <1>2, <3>2, <3>4, <4>1 DEF Noted
      <4> QED BY <3>4, <4>2
    <3>7. CASE IsPadded(b[m])
      <4>1. /\ relocatable /\ PaddedCode(b[m], code[m])
            /\ BeforeOperand(b[m]) = Len(FlattenSeq(code[m])) - RELOC_PAD
        BY <1>5, <3>4, <3>5, <3>7, PaddedPieces
      <4>2. PICK place : place = Len(data) + BeforeOperand(b[m])
        OBVIOUS
      <4>3. roff' = [k \in {m} \cup DOMAIN roff |-> IF k = m THEN place ELSE roff[k]]
        BY <2>1, <3>4, <3>7, <4>2
      <4>4. /\ DOMAIN roff' = {m} \cup DOMAIN roff /\ roff'[m] = place
            /\ \A k \in DOMAIN roff : k # m => roff'[k] = roff[k]
        BY <4>3
      <4>5. place = PlaceOf(sizes, m)
        <5>1. Len(data) = Total(sizes, n)
          BY <3>1 DEF Laid
        <5>2. IsCode(code[m], b[m])
          BY <1>5, <3>4, <3>5, EncodedIs
        <5>3. sizes[m] = Len(FlattenSeq(code[m])) /\ sizes[m] \in Nat
          BY <1>5, <3>4, <3>5, <5>2, CodeIsSeq DEF Sized
        <5>4. \A k \in 1 .. n : sizes[k] \in Nat
          <6>1. n \in 0 .. Len(b)
            BY <1>4, <3>3, <3>4
          <6> QED BY <1>4, <1>5, <3>1, <6>1, SizesKnown
        <5>5. Total(sizes, m) = Total(sizes, n) + sizes[m] /\ Total(sizes, n) \in Nat
          BY <3>3, <5>3, <5>4, NextTotal
        <5>6. RELOC_PAD \in Nat
          BY VectorAssumption
        <5> QED BY <4>1, <4>2, <5>1, <5>3, <5>5, <5>6 DEF PlaceOf
      <4>6. ASSUME NEW k \in DOMAIN roff'
            PROVE  k \in 1 .. m /\ relocatable' /\ PaddedCode(b[k], code[k]) /\ roff'[k] = PlaceOf(sizes, k)
        <5>1. CASE k = m
          BY <1>2, <3>4, <4>1, <4>4, <4>5, <5>1
        <5>2. CASE k # m
          <6>1. k \in DOMAIN roff /\ roff'[k] = roff[k]
            BY <4>4, <5>2
          <6> QED BY <1>2, <3>2, <3>4, <6>1 DEF Noted
        <5> QED BY <5>1, <5>2
      <4>7. Noted(b, code, sizes, m)'
        BY <4>6 DEF Noted
      <4> QED BY <3>4, <4>7
    <3> QED BY <3>6, <3>7
  <2>3. CASE i = Len(b)
    <3>1. phase' = "decode"
      BY <1>1, <2>1, <2>3 DEF Advance
    <3>2. phase' \notin {"length", "encode"}
      BY <3>1
    <3>3. NotedAgain(b, code, sizes)'
      <4>1. Len(decoded') = 0
        BY <1>2, <1>5, EmptyIsSeq
      <4> QED BY <4>1 DEF NotedAgain
    <3>4. Survivors(b) => Noted(b, code, sizes, Len(b))'
      BY <2>2, <2>3
    <3> QED BY <3>2, <3>3, <3>4 DEF Placed
  <2>4. CASE i # Len(b)
    <3>1. phase' = "encode" /\ i' = i + 1
      BY <1>1, <2>1, <2>4 DEF Advance
    <3>2. Survivors(b) => \E n \in Nat : i' = n + 1 /\ Noted(b, code, sizes, n)'
      BY <2>2, <3>1
    <3>3. ~IsRead' /\ phase' # "length"
      BY <3>1 DEF IsRead
    <3> QED BY <3>2, <3>3 DEF Placed
  <2> QED BY <2>3, <2>4
<1> QED BY <1>6, <1>7

LEMMA PlacedDecode ==
    ASSUME NEW b, NEW code, NEW sizes, NEW open, Reading(b, code, sizes, open), Placed(b, code, sizes), Decode \/ Throw
    PROVE  Placed(b, code, sizes)'
<1>1. phase = "decode" /\ IsRead /\ relocatable' = relocatable /\ roff' = roff
  BY DEF Decode, Throw, IsRead
<1>2. /\ b \in Codes /\ Sized(b, code, sizes)
      /\ Survivors(b) => /\ Coded(b, code, Len(b)) /\ Laid(code, sizes, Len(b))
                         /\ \E d \in Nat : ReadUpTo(b, sizes, open, d)
  BY <1>1 DEF Reading
<1>3. Len(b) \in Nat \ {0} /\ DOMAIN b = 1 .. Len(b)
  BY <1>2, CodeIs
<1>4. phase' \notin {"length", "encode"}
  <2>1. CASE Decode
    <3>1. phase' = "done" \/ phase' = "decode"
      BY <2>1 DEF Decode, DecodeInst
    <3> QED BY <3>1
  <2>2. CASE Throw
    BY <2>2 DEF Throw
  <2> QED BY <2>1, <2>2
<1>5. Noted(b, code, sizes, Len(b)) => Noted(b, code, sizes, Len(b))'
  BY <1>1 DEF Noted
<1>6. ASSUME Survivors(b) PROVE NotedAgain(b, code, sizes)'
  <2>1. PICK d \in Nat : ReadUpTo(b, sizes, open, d)
    BY <1>2, <1>6
  <2>2. PICK k : k = d + 1
    OBVIOUS
  <2>3. IsSeq(decoded) /\ Len(decoded) = d /\ offset = Total(sizes, d) /\ blkstack = open[d] /\ d < Len(b)
    BY <1>1, <2>1 DEF ReadUpTo
  <2>4. k \in 1 .. Len(b) /\ k \in DOMAIN b /\ k - 1 = d /\ k \in Nat
    BY <1>3, <2>2, <2>3
  <2>5. Fit(b[k]) /\ IsCode(code[k], b[k])
    BY <1>2, <1>6, <2>4 DEF Coded
  <2>6. At(offset, FlattenSeq(code[k]))
    BY <1>2, <1>6, <2>3, <2>4 DEF Laid
  <2>7. b[k].op = \h05 => blkstack[Len(blkstack)] = \h04
    <3>1. open = Opened(b) /\ Nested(b)
      BY <1>1, <1>2, CodesAssumption DEF Reading
    <3>2. b[k].op = \h05 => Last(open[k - 1]) = \h04
      BY <2>4, <3>1 DEF Nested
    <3> QED BY <3>2, <2>3, <2>4 DEF Last
  <2>8. PICK place : place = Instruction(offset).rloc
    OBVIOUS
  <2>9. /\ ~Throw
        /\ Decode => /\ Len(decoded)' = d + 1 /\ \A j \in 1 .. d : decoded'[j] = decoded[j]
                     /\ relocatable => decoded'[d + 1].roff = place
    BY <2>3, <2>5, <2>6, <2>7, <2>8, ReadNext
  <2>10. Len(decoded)' = k /\ (\A j \in 1 .. d : decoded'[j] = decoded[j]) /\ (relocatable => decoded'[k].roff = place)
    BY <2>2, <2>9
  <2>11. PaddedCode(b[k], code[k]) => place = PlaceOf(sizes, k)
    <3>1. SUFFICES ASSUME PaddedCode(b[k], code[k]) PROVE place = PlaceOf(sizes, k)
      OBVIOUS
    <3>2. PICK v \in Int, n \in Nat \ {0} : Len(code[k]) = n /\ code[k][n] = Groups(v, RELOC_PAD)
      BY <3>1 DEF PaddedCode
    <3>3. RELOC_PAD \in Nat
      BY VectorAssumption
    <3>4. Len(code[k][Len(code[k])]) = RELOC_PAD
      BY <3>2, <3>3, GroupsLength
    <3>5. b[k].op \in PaddedOps \cup {\h41, \h42}
      BY <3>1 DEF PaddedCode, IsPaddedOp
    <3>6. ReadsBack(offset, b[k], code[k])
      BY <2>5, <2>6, FitReads
    <3>7. place = (offset + Len(FlattenSeq(code[k]))) - RELOC_PAD
      BY <2>8, <3>4, <3>5, <3>6 DEF ReadsBack
    <3>8. \A j \in 1 .. Len(b) : sizes[j] \in Nat /\ sizes[j] = Len(FlattenSeq(code[j]))
      BY <1>2, <1>3, <1>6, SizesKnown
    <3>9. Total(sizes, k) = Total(sizes, d) + sizes[k]
      <4>1. \A j \in 1 .. d : sizes[j] \in Nat
        BY <1>3, <2>3, <3>8
      <4>2. sizes[d + 1] \in Nat
        BY <2>2, <2>4, <3>8
      <4> QED BY <2>2, <4>1, <4>2, NextTotal
    <3> QED BY <2>3, <2>4, <3>7, <3>8, <3>9 DEF PlaceOf
  <2>12. NotedAgain(b, code, sizes)
    BY <1>1, <1>6 DEF Placed
  <2>13. ASSUME NEW j \in 1 .. k
         PROVE  relocatable' /\ PaddedCode(b[j], code[j]) => decoded'[j].roff = PlaceOf(sizes, j)
    <3>1. CASE j \in 1 .. d
      BY <3>1, <1>1, <2>3, <2>10, <2>12 DEF NotedAgain
    <3>2. CASE j = k
      BY <3>2, <1>1, <2>10, <2>11
    <3> QED BY <3>1, <3>2, <2>2
  <2>14. Len(decoded') = k
    BY <2>10
  <2> QED BY <2>13, <2>14 DEF NotedAgain
<1> QED BY <1>1, <1>4, <1>5, <1>6 DEF Placed

PlacedInv == MeasuredInv /\ \E b, code, sizes, open : Reading(b, code, sizes, open) /\ Placed(b, code, sizes)

LEMMA PlacedNext ==
    ASSUME PlacedInv, [Next]_vars
    PROVE  PlacedInv'
<1>1. PICK b, lens : Walking(b, lens)
  BY DEF PlacedInv, MeasuredInv
<1>2. PICK c, code, sizes, open : Reading(c, code, sizes, open) /\ Placed(c, code, sizes)
  BY DEF PlacedInv
<1>3. b = c
  BY <1>1, <1>2 DEF Walking, Reading
<1>4. MeasuredInv'
  BY MeasuredNext DEF PlacedInv
<1>5. Reading(c, code, sizes, open)' /\ Placed(c, code, sizes)'
  <2>1. CASE Measure
    BY <1>1, <1>2, <1>3, <2>1, ReadingMeasure, PlacedMeasure
  <2>2. CASE Encode
    BY <1>1, <1>2, <1>3, <2>2, ReadingEncode, PlacedEncode
  <2>3. CASE Decode \/ Throw
    BY <1>2, <2>3, ReadingDecode, PlacedDecode
  <2>4. CASE Finished \/ UNCHANGED vars
    <3>1. UNCHANGED vars
      BY <2>4 DEF Finished
    <3> QED BY <1>2, <3>1, ReadingStutter, PlacedStutter
  <2> QED BY <2>1, <2>2, <2>3, <2>4 DEF Next
<1> QED BY <1>4, <1>5 DEF PlacedInv

\* All bytes of a padded operand but the last go on.
LEMMA PaddedBytes ==
    ASSUME NEW inst, Fit(inst), NEW ss, IsCode(ss, inst), PaddedCode(inst, ss), NEW p, At(p, FlattenSeq(ss)),
           NEW q, q = (p + Len(FlattenSeq(ss))) - RELOC_PAD
    PROVE  /\ q \in Nat
           /\ \A m \in q + 1 .. q + RELOC_PAD : data[m] >= 128 <=> m < q + RELOC_PAD
<1>1. PICK v \in Int, n \in Nat \ {0} : Len(ss) = n /\ ss[n] = Groups(v, RELOC_PAD)
  BY DEF PaddedCode
<1>2. IsSeq(ss) /\ \A k \in DOMAIN ss : IsSeq(ss[k])
  BY CodeIsSeq
<1>3. DOMAIN ss = 1 .. n /\ n \in 1 .. n /\ n - 1 \in Nat /\ (n - 1) + 1 = n
  BY <1>1, <1>2, IsSeqLen
<1>4. PICK lens : lens = LensOf(ss)
  OBVIOUS
<1>5. /\ \A k \in DOMAIN ss : At(p + Total(lens, k - 1), ss[k]) /\ lens[k] \in Nat /\ lens[k] = Len(ss[k])
      /\ Len(FlattenSeq(ss)) = Total(lens, n)
  BY <1>1, <1>2, <1>4, AtFlatten
<1>6. RELOC_PAD \in 4 .. 7 /\ RELOC_PAD \in Nat
  BY VectorAssumption
<1>7. IsSeq(Groups(v, RELOC_PAD)) /\ Len(Groups(v, RELOC_PAD)) = RELOC_PAD
  BY <1>6, GroupsLength
<1>8. Total(lens, n) = Total(lens, n - 1) + RELOC_PAD /\ Total(lens, n - 1) \in Nat
  <2>1. \A k \in 1 .. n - 1 : lens[k] \in Nat
    BY <1>3, <1>5
  <2>2. lens[(n - 1) + 1] = RELOC_PAD
    BY <1>1, <1>3, <1>5, <1>7
  <2> QED BY <1>3, <1>6, <2>1, <2>2, NextTotal
<1>9. p \in Nat
  BY DEF At
<1>10. q = p + Total(lens, n - 1) /\ q \in Nat
  BY <1>5, <1>6, <1>8, <1>9
<1>11. At(q, Groups(v, RELOC_PAD))
  BY <1>1, <1>3, <1>5, <1>10
<1>12. ASSUME NEW m \in q + 1 .. q + RELOC_PAD PROVE data[m] >= 128 <=> m < q + RELOC_PAD
  <2>1. PICK k : k = m - q
    OBVIOUS
  <2>2. k \in 1 .. RELOC_PAD /\ q + k = m /\ RELOC_PAD \in 1 .. 7 /\ (k < RELOC_PAD <=> m < q + RELOC_PAD)
    BY <1>6, <1>10, <2>1
  <2>3. data[q + k] = Groups(v, RELOC_PAD)[k]
    BY <1>7, <1>11, <2>2 DEF At
  <2>4. /\ Groups(v, RELOC_PAD)[k] \in Nat
        /\ k < RELOC_PAD => Groups(v, RELOC_PAD)[k] >= 128
        /\ k = RELOC_PAD => Groups(v, RELOC_PAD)[k] < 128
    BY <2>2, GroupBytes
  <2>5. PICK x : x = Groups(v, RELOC_PAD)[k]
    OBVIOUS
  <2>6. x \in Nat /\ (k < RELOC_PAD => x >= 128) /\ (k = RELOC_PAD => x < 128) /\ data[m] = x
    BY <2>2, <2>3, <2>4, <2>5
  <2>7. k < RELOC_PAD \/ k = RELOC_PAD
    BY <2>2, <1>6
  <2> QED BY <2>2, <2>6, <2>7
<1> QED BY <1>10, <1>12

\* No two padded operands overlap.
LEMMA PlacesApart ==
    ASSUME NEW n \in Nat, NEW sizes, \A k \in 1 .. n : sizes[k] \in Nat,
           NEW k \in 1 .. n, NEW m \in 1 .. n, k < m, sizes[k] > RELOC_PAD, sizes[m] > RELOC_PAD
    PROVE  /\ PlaceOf(sizes, m) > PlaceOf(sizes, k) + RELOC_PAD
           /\ PlaceOf(sizes, m) \in Nat /\ PlaceOf(sizes, k) \in Nat
<1>1. RELOC_PAD \in Nat
  BY VectorAssumption
<1>2. ASSUME NEW j \in 1 .. n, sizes[j] > RELOC_PAD
      PROVE  /\ Total(sizes, j) = Total(sizes, j - 1) + sizes[j] /\ Total(sizes, j - 1) \in Nat /\ sizes[j] \in Nat
             /\ Total(sizes, j) \in Nat
  <2>1. j - 1 \in Nat /\ (j - 1) + 1 = j /\ (\A h \in 1 .. j - 1 : h \in 1 .. n)
    OBVIOUS
  <2>2. \A h \in 1 .. j - 1 : sizes[h] \in Nat
    BY <2>1
  <2>3. Total(sizes, (j - 1) + 1) = Total(sizes, j - 1) + sizes[(j - 1) + 1] /\ Total(sizes, j - 1) \in Nat
    BY <2>1, <2>2, NextTotal
  <2> QED BY <2>1, <2>3
<1>3. Total(sizes, k) <= Total(sizes, m - 1)
  <2>1. m - 1 \in Nat /\ k \in 0 .. m - 1 /\ \A h \in 1 .. m - 1 : h \in 1 .. n
    OBVIOUS
  <2>2. \A h \in 1 .. m - 1 : sizes[h] \in Nat
    BY <2>1
  <2> QED BY <2>1, <2>2, TotalGrows
<1>4. /\ Total(sizes, k) = Total(sizes, k - 1) + sizes[k] /\ Total(sizes, k - 1) \in Nat /\ sizes[k] \in Nat
      /\ Total(sizes, k) \in Nat
  BY <1>2
<1>5. /\ Total(sizes, m) = Total(sizes, m - 1) + sizes[m] /\ Total(sizes, m - 1) \in Nat /\ sizes[m] \in Nat
      /\ Total(sizes, m) \in Nat
  BY <1>2
<1> QED BY <1>1, <1>3, <1>4, <1>5 DEF PlaceOf

LEMMA PlacedImplies ==
    ASSUME PlacedInv
    PROVE  OperandsPlaced
<1>1. PICK b, code, sizes, open : Reading(b, code, sizes, open) /\ Placed(b, code, sizes)
  BY DEF PlacedInv
<1>2. b = body /\ b \in Codes /\ Sized(b, code, sizes)
  BY <1>1 DEF Reading
<1>3. PICK n : n = Len(b)
  OBVIOUS
<1>4. n \in Nat /\ DOMAIN b = 1 .. n
  BY <1>2, <1>3, CodeIs
<1>5. SUFFICES ASSUME IsWritten, phase = "done", AllSurvive, NEW k \in DOMAIN roff
      PROVE  /\ decoded[k].roff = roff[k]
             /\ \A m \in roff[k] + 1 .. roff[k] + RELOC_PAD : data[m] >= 128 <=> m < roff[k] + RELOC_PAD
             /\ \A m \in DOMAIN roff : m # k => roff[m] \notin roff[k] - RELOC_PAD .. roff[k] + RELOC_PAD
  BY DEF OperandsPlaced
<1>6. IsRead /\ Survivors(b)
  BY <1>2, <1>5 DEF IsWritten, AllSurvive, Survivors
<1>7. Coded(b, code, n) /\ Laid(code, sizes, n) /\ Len(decoded) = n
  <2>1. Coded(b, code, n) /\ Laid(code, sizes, n)
    BY <1>1, <1>3, <1>6 DEF Reading
  <2>2. PICK d \in Nat : ReadUpTo(b, sizes, open, d)
    BY <1>1, <1>6 DEF Reading
  <2>3. Len(decoded) = d /\ d = n
    BY <1>3, <1>5, <2>2 DEF ReadUpTo
  <2> QED BY <2>1, <2>3
<1>8. Noted(b, code, sizes, n) /\ NotedAgain(b, code, sizes)
  BY <1>1, <1>3, <1>6 DEF Placed
<1>9. \A m \in 1 .. n : sizes[m] \in Nat /\ sizes[m] = Len(FlattenSeq(code[m]))
  <2>1. n \in 0 .. Len(b)
    BY <1>3, <1>4
  <2> QED BY <1>2, <1>7, <2>1, SizesKnown
<1>10. ASSUME NEW m \in DOMAIN roff
       PROVE  /\ m \in 1 .. n /\ relocatable /\ PaddedCode(b[m], code[m]) /\ roff[m] = PlaceOf(sizes, m)
              /\ sizes[m] > RELOC_PAD
  <2>1. m \in 1 .. n /\ relocatable /\ PaddedCode(b[m], code[m]) /\ roff[m] = PlaceOf(sizes, m)
    BY <1>8 DEF Noted
  <2>2. sizes[m] > RELOC_PAD
    BY <1>9, <2>1 DEF PaddedCode
  <2> QED BY <2>1, <2>2
<1>11. PICK place : place = PlaceOf(sizes, k)
  OBVIOUS
<1>12. k \in 1 .. n /\ relocatable /\ PaddedCode(b[k], code[k]) /\ roff[k] = place /\ sizes[k] > RELOC_PAD
  BY <1>10, <1>11
<1>13. decoded[k].roff = place
  BY <1>7, <1>8, <1>11, <1>12 DEF NotedAgain
<1>14. place \in Nat /\ \A m \in place + 1 .. place + RELOC_PAD : data[m] >= 128 <=> m < place + RELOC_PAD
  <2>1. Fit(b[k]) /\ IsCode(code[k], b[k])
    BY <1>7, <1>12 DEF Coded
  <2>2. At(Total(sizes, k - 1), FlattenSeq(code[k]))
    BY <1>7, <1>12 DEF Laid
  <2>3. Total(sizes, k) = Total(sizes, k - 1) + sizes[k]
    <3>1. k - 1 \in Nat /\ (k - 1) + 1 = k /\ \A h \in 1 .. k - 1 : h \in 1 .. n
      BY <1>4, <1>12
    <3>2. (\A h \in 1 .. k - 1 : sizes[h] \in Nat) /\ sizes[(k - 1) + 1] \in Nat
      BY <1>9, <1>12, <3>1
    <3>3. Total(sizes, (k - 1) + 1) = Total(sizes, k - 1) + sizes[(k - 1) + 1]
      BY <3>1, <3>2, NextTotal
    <3> QED BY <3>1, <3>3
  <2>4. place = (Total(sizes, k - 1) + Len(FlattenSeq(code[k]))) - RELOC_PAD
    BY <1>9, <1>11, <1>12, <2>3 DEF PlaceOf
  <2> QED BY <1>12, <2>1, <2>2, <2>4, PaddedBytes
<1>15. ASSUME NEW m \in DOMAIN roff, m # k PROVE roff[m] \notin place - RELOC_PAD .. place + RELOC_PAD
  <2>1. PICK other : other = PlaceOf(sizes, m)
    OBVIOUS
  <2>2. m \in 1 .. n /\ sizes[m] > RELOC_PAD /\ roff[m] = other
    BY <1>10, <2>1
  <2>3. RELOC_PAD \in Nat /\ \A j \in 1 .. n : sizes[j] \in Nat
    BY <1>9, VectorAssumption
  <2>4. CASE k < m
    <3>1. other > place + RELOC_PAD /\ other \in Nat /\ place \in Nat
      BY <1>4, <1>11, <1>12, <2>1, <2>2, <2>3, <2>4, PlacesApart
    <3> QED BY <2>2, <2>3, <3>1
  <2>5. CASE m < k
    <3>1. place > other + RELOC_PAD /\ other \in Nat /\ place \in Nat
      BY <1>4, <1>11, <1>12, <2>1, <2>2, <2>3, <2>5, PlacesApart
    <3> QED BY <2>2, <2>3, <3>1
  <2>6. k < m \/ m < k
    BY <1>12, <1>15, <2>2
  <2> QED BY <2>4, <2>5, <2>6
<1> QED BY <1>12, <1>13, <1>14, <1>15

\* The operand that the dynamic linker patches lies where encode says and where
\* decode finds it, is written in RELOC_PAD bytes, and shares none with another
\* (_roff in encodeByteCode and decodeByteCode).
THEOREM OperandsPlacedCorrect == Spec => []OperandsPlaced
<1>1. Init => PlacedInv
  <2>1. SUFFICES ASSUME Init PROVE PlacedInv
    OBVIOUS
  <2>2. PICK b, code, sizes, open : Reading(b, code, sizes, open)
    BY <2>1, ReadingInit
  <2> QED BY <2>1, <2>2, MeasuredInit, PlacedInit DEF PlacedInv
<1>2. PlacedInv /\ [Next]_vars => PlacedInv'
  BY PlacedNext
<1>3. PlacedInv => OperandsPlaced
  BY PlacedImplies
<1> QED BY <1>1, <1>2, <1>3, PTL DEF Spec
=============================================================================
