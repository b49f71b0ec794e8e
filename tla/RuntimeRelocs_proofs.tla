------------------------- MODULE RuntimeRelocs_proofs -------------------------
(***************************************************************************)
(* Proofs about RuntimeRelocs, for every program and every loader: a       *)
(* function has one place in the element segments; the sizes counted for   *)
(* the section rtld.dylink.0 are those of what is written; the place of    *)
(* every relocation of the program is named once in the file, with what    *)
(* the program meant; every segment copied to the table is named; the      *)
(* constructors are in .init_array in their order; and the visible symbols *)
(* are in .dynsym, with what they mean.                                    *)
(*                                                                         *)
(* First the element segments (ElementsInv), then the sizes: every         *)
(* relocation names something with a length (LinkInv for those of the      *)
(* program, PartsInv for those sorted and added), which the groups of the  *)
(* file need (GroupsInv).                                                  *)
(*                                                                         *)
(* Then the places.  The groups name what they were made of (FileInv, from *)
(* Says); the parts they are made of divide the relocations (SplitInv); a  *)
(* relocation of the program is still at its place, alone (CodeInv,        *)
(* BodyInv, DataInv), and refers to what it referred to, or to what the    *)
(* linker puts for it (RefsInv), because symbols and segments stay what    *)
(* they stand for (SymbolsInv, SegmentsInv).  FixesInv is all of these.    *)
(* The words that the linker adds are in the file, and no others are in    *)
(* their sections (WordsInv).  The symbol table has each symbol once, with *)
(* the segment of each, and .dynsym lists the visible ones (SymtableInv).  *)
(* The parts of the invariants are in RuntimeInvariants; the calls of the  *)
(* body, and what stops the linker, in RuntimeLinks_proofs.                *)
(***************************************************************************)
EXTENDS RuntimeInvariants, SequenceTheorems

----------------------------------------------------------------------------
(* Where a function is.                                                    *)

\* indexOf: a place of f in v, from 0, or -1.
LEMMA IndexInIs ==
    ASSUME NEW v, IsSeq(v), NEW f
    PROVE  \/ Contains(v, f) /\ IndexIn(v, f) + 1 \in 1 .. Len(v) /\ v[IndexIn(v, f) + 1] = f
           \/ ~Contains(v, f) /\ IndexIn(v, f) = -1
<1> DEFINE I == {k \in 1 .. Len(v) : v[k] = f}
<1>1. Len(v) \in Nat /\ I \in SUBSET Nat
  BY IsSeqLen
<1>2. IndexIn(v, f) = (IF I # {} THEN Min(I) ELSE 0) - 1
  BY DEF IndexIn, SelectInSeq
<1>3. CASE I = {}
  <2>1. ~Contains(v, f)
    BY <1>3 DEF Contains
  <2>2. IndexIn(v, f) = -1
    <3> HIDE DEF I
    <3> QED BY <1>2, <1>3
  <2> QED BY <2>1, <2>2
<1>4. CASE I # {}
  <2>1. Min(I) \in I
    BY <1>1, <1>4, MinIs
  <2>2. Min(I) \in 1 .. Len(v) /\ v[Min(I)] = f
    BY <2>1
  <2>3. Contains(v, f)
    BY <2>2 DEF Contains
  <2> DEFINE m == Min(I)
  <2> HIDE DEF m, I
  <2>4. IndexIn(v, f) = m - 1 /\ m \in 1 .. Len(v) /\ v[m] = f
    BY <1>2, <1>4, <2>2 DEF m
  <2>5. IndexIn(v, f) + 1 = m
    BY <2>4, <1>1
  <2> QED BY <2>3, <2>4, <2>5
<1> QED BY <1>3, <1>4

\* The index of the first place that has f.
LEMMA FirstIndex ==
    ASSUME NEW v, IsSeq(v), NEW f, NEW o \in Nat, o + 1 \in 1 .. Len(v), v[o + 1] = f, \A a \in 1 .. o : v[a] # f
    PROVE  IndexIn(v, f) = o
<1>1. PICK I : I = {k \in 1 .. Len(v) : v[k] = f}
  OBVIOUS
<1>2. IndexIn(v, f) = (IF I # {} THEN Min(I) ELSE 0) - 1
  BY <1>1 DEF IndexIn, SelectInSeq
<1>3. o + 1 \in I /\ I \in SUBSET Nat /\ \A y \in I : o + 1 <= y
  BY <1>1, IsSeqLen
<1>4. Min(I) \in I /\ \A y \in I : Min(I) <= y
  BY <1>3, MinIs
<1>5. PICK a : a = Min(I)
  OBVIOUS
<1>6. a \in Nat /\ a <= o + 1 /\ o + 1 <= a
  BY <1>3, <1>4, <1>5
<1> QED BY <1>2, <1>3, <1>5, <1>6

\* The first segment that has f.
LEMMA ElementOfIs ==
    ASSUME IsSeq(elements), NEW f
    PROVE  \/ InElements(f) /\ ElementOf(f) + 1 \in DOMAIN elements /\ ElementOf(f) # -1
              /\ Contains(elements[ElementOf(f) + 1].vector, f)
           \/ ~InElements(f) /\ ElementOf(f) = -1
<1> DEFINE I == {k \in 1 .. Len(elements) : Contains(elements[k].vector, f)}
<1>1. Len(elements) \in Nat /\ DOMAIN elements = 1 .. Len(elements) /\ I \in SUBSET Nat
  BY IsSeqLen
<1>2. ElementOf(f) = (IF I # {} THEN Min(I) ELSE 0) - 1
  BY DEF ElementOf, SelectInSeq
<1>3. InElements(f) <=> I # {}
  BY <1>1 DEF InElements
<1>4. CASE I = {}
  <2>1. ElementOf(f) = -1
    <3> HIDE DEF I
    <3> QED BY <1>2, <1>4
  <2> QED BY <2>1, <1>3, <1>4
<1>5. CASE I # {}
  <2>1. Min(I) \in I
    BY <1>1, <1>5, MinIs
  <2>2. Min(I) \in 1 .. Len(elements) /\ Contains(elements[Min(I)].vector, f)
    BY <2>1
  <2> DEFINE m == Min(I)
  <2> HIDE DEF m, I
  <2>3. ElementOf(f) = m - 1 /\ m \in 1 .. Len(elements) /\ Contains(elements[m].vector, f)
    BY <1>2, <1>5, <2>2 DEF m
  <2>4. ElementOf(f) + 1 = m /\ ElementOf(f) # -1
    BY <2>3, <1>1
  <2> QED BY <1>1, <1>3, <1>5, <2>3, <2>4
<1> QED BY <1>4, <1>5

LEMMA PlaceOfIs ==
    ASSUME IsSeq(elements), \A k \in DOMAIN elements : IsSeq(elements[k].vector), NEW f
    PROVE  IF -1 \in {PlaceOf(f)[1], PlaceOf(f)[2]} THEN ~InElements(f)
           ELSE elements[PlaceOf(f)[1] + 1].vector[PlaceOf(f)[2] + 1] = f
<1> DEFINE k == ElementOf(f)
           v == elements[k + 1].vector
<1>1. PlaceOf(f)[1] = k /\ PlaceOf(f)[2] = (IF k = -1 THEN -1 ELSE IndexIn(v, f))
  BY DEF PlaceOf
<1>2. CASE InElements(f)
  <2>1. k + 1 \in DOMAIN elements /\ k # -1 /\ Contains(v, f)
    BY <1>2, ElementOfIs
  <2>2. IsSeq(v)
    BY <2>1
  <2>3. Len(v) \in Nat
    BY <2>2, IsSeqLen
  <2>4. IndexIn(v, f) + 1 \in 1 .. Len(v) /\ v[IndexIn(v, f) + 1] = f
    <3> HIDE DEF v
    <3> QED BY <2>1, <2>2, IndexInIs
  <2> HIDE DEF k, v
  <2>5. IndexIn(v, f) # -1
    BY <2>3, <2>4
  <2>6. PlaceOf(f)[2] = IndexIn(v, f) /\ -1 \notin {PlaceOf(f)[1], PlaceOf(f)[2]}
    BY <1>1, <2>1, <2>5
  <2> QED BY <1>1, <2>4, <2>6 DEF v
<1>3. CASE ~InElements(f)
  <2>1. k = -1
    BY <1>3, ElementOfIs
  <2> QED BY <1>1, <1>3, <2>1
<1> QED BY <1>2, <1>3

----------------------------------------------------------------------------
(* A function has one address: the inductive invariant.  The vector and    *)
(* the element segments have each function once; while functions are added *)
(* there is at most one segment, which is split in two afterwards.         *)

LEMMA SegmentFields ==
    ASSUME NEW n, NEW v
    PROVE  ElementSegment(n, v).vector = v
BY DEF ElementSegment

LEMMA SegmentFunction ==
    ASSUME NEW n, NEW v
    PROVE  ElementSegment(n, v) = [x \in {"name", "vector"} |-> IF x = "vector" THEN v ELSE n]
BY DEF ElementSegment

LEMMA SegmentExcept ==
    ASSUME NEW n, NEW v, NEW w
    PROVE  [ElementSegment(n, v) EXCEPT !.vector = w] = ElementSegment(n, w)
<1>1. /\ ElementSegment(n, v) = [x \in {"name", "vector"} |-> IF x = "vector" THEN v ELSE n]
      /\ ElementSegment(n, w) = [x \in {"name", "vector"} |-> IF x = "vector" THEN w ELSE n]
  BY SegmentFunction
<1>2. DOMAIN ElementSegment(n, v) = {"name", "vector"} /\ ElementSegment(n, v)["name"] = n
  BY <1>1
<1>3. [ElementSegment(n, v) EXCEPT !.vector = w]
      = [x \in {"name", "vector"} |-> IF x = "vector" THEN w ELSE ElementSegment(n, v)[x]]
  BY <1>2
<1> QED BY <1>1, <1>2, <1>3

LEMMA OneIs ==
    ASSUME NEW v, IsSeq(v), Distinct(v)
    PROVE  /\ IsOne(One(v)) /\ One(v)[1] = ElementSegment("", v)
           /\ DOMAIN One(v) = {1} /\ Len(One(v)) = 1 /\ IsSeq(One(v))
<1>1. One(v)[1] = ElementSegment("", v) /\ DOMAIN One(v) = {1} /\ Len(One(v)) = 1 /\ IsSeq(One(v))
  BY SingletonIs DEF One
<1>2. One(v)[1].vector = v
  BY <1>1, SegmentFields
<1> QED BY <1>1, <1>2 DEF IsOne

LEMMA TwoIs ==
    ASSUME NEW v, IsSeq(v), Distinct(v), NEW w, IsSeq(w), Distinct(w), ToSet(v) \cap ToSet(w) = {}
    PROVE  /\ IsTwo(Two(v, w)) /\ Two(v, w)[1].vector = v /\ Two(v, w)[2].vector = w
           /\ DOMAIN Two(v, w) = {1, 2} /\ IsSeq(Two(v, w))
<1> DEFINE s == One(v)
           t == <<ElementSegment(Objc, w)>>
<1>1. /\ IsSeq(s) /\ Len(s) = 1 /\ s[1] = ElementSegment("", v)
      /\ IsSeq(t) /\ Len(t) = 1 /\ t[1] = ElementSegment(Objc, w)
  BY SingletonIs DEF One
<1>2. Two(v, w) = s \o t
  BY DEF Two
<1> HIDE DEF s, t
<1>3. /\ IsSeq(s \o t) /\ Len(s \o t) = 2
      /\ \A k \in 1 .. 2 : (s \o t)[k] = IF k <= 1 THEN s[k] ELSE t[k - 1]
  <2>1. /\ IsSeq(s \o t) /\ Len(s \o t) = Len(s) + Len(t)
        /\ \A k \in 1 .. Len(s) + Len(t) : (s \o t)[k] = IF k <= Len(s) THEN s[k] ELSE t[k - Len(s)]
    BY <1>1, ConcatIsSeq
  <2>2. Len(s) = 1 /\ Len(t) = 1
    BY <1>1
  <2>3. Len(s) + Len(t) = 2
    BY <2>2
  <2> QED BY <2>1, <2>2, <2>3
<1>4. DOMAIN (s \o t) = {1, 2}
  <2>1. 1 .. 2 = {1, 2}
    OBVIOUS
  <2> QED BY <1>3, <2>1, IsSeqLen
<1>5. Two(v, w)[1] = ElementSegment("", v) /\ Two(v, w)[2] = ElementSegment(Objc, w)
  <2>1. (s \o t)[1] = s[1] /\ (s \o t)[2] = t[1]
    BY <1>3
  <2> QED BY <1>1, <1>2, <2>1
<1>6. Two(v, w)[1].vector = v /\ Two(v, w)[2].vector = w
  BY <1>5, SegmentFields
<1> QED BY <1>2, <1>3, <1>4, <1>6 DEF IsTwo

LEMMA PushIs ==
    ASSUME NEW v, IsSeq(v), NEW fs, IsSeq(fs)
    PROVE  IsOne(Push(One(v), fs)) /\ Push(One(v), fs) = One(Firsts(v \o fs))
<1>1. IsSeq(v \o fs)
  BY ConcatIsSeq
<1>2. IsSeq(Firsts(v \o fs)) /\ Distinct(Firsts(v \o fs))
  BY <1>1, FirstsIs
<1> DEFINE e == ElementSegment("", v)
           f == Firsts(v \o fs)
<1>3. Push(<<e>>, fs) = [<<e>> EXCEPT ![1] = [e EXCEPT !.vector = Firsts(e.vector \o fs)]]
  <2>1. <<e>>[1] = e
    OBVIOUS
  <2> HIDE DEF e
  <2> DEFINE es == <<e>>
  <2>2. es[1] = e
    BY <2>1
  <2> HIDE DEF es
  <2>3. Push(es, fs) = [es EXCEPT ![1] = [e EXCEPT !.vector = Firsts(e.vector \o fs)]]
    BY <2>2 DEF Push
  <2> QED BY <2>3 DEF es
<1>4. [e EXCEPT !.vector = f] = ElementSegment("", f)
  <2> HIDE DEF f
  <2> QED BY SegmentExcept
<1>5. e.vector = v
  BY SegmentFields
<1>6. [<<e>> EXCEPT ![1] = ElementSegment("", f)] = One(f)
  <2> HIDE DEF e, f
  <2> QED BY SingletonExcept DEF One
<1> HIDE DEF e
<1>7. Push(<<e>>, fs) = One(f)
  BY <1>3, <1>4, <1>5, <1>6
<1> QED BY <1>2, <1>7, OneIs DEF e, One

\* What symbols stand for, in a sequence.
LEMMA ValuesIs ==
    ASSUME NEW refs, IsSeq(refs)
    PROVE  IsSeq(Values(refs)) /\ Len(Values(refs)) = Len(refs)
<1>1. Len(refs) \in Nat /\ DOMAIN refs = 1 .. Len(refs)
  BY IsSeqLen
<1> DEFINE n == Len(refs)
           s == Values(refs)
<1>2. DOMAIN s = 1 .. n /\ s = [k \in 1 .. n |-> s[k]]
  BY <1>1 DEF Values
<1> HIDE DEF n, s
<1>3. n \in Nat
  BY <1>1 DEF n
<1>4. IsSeq(s) /\ Len(s) = n
  BY <1>2, <1>3, FunctionIsSeq
<1> QED BY <1>4 DEF n, s

LEMMA CtorFunctionsIs ==
    ASSUME program \in Programs
    PROVE  IsSeq(CtorFunctions)
<1>1. program.ctors \in Seq([symbol : DOMAIN program.symbols, priority : Int])
  BY CtorsAssumption
<1>2. Len(program.ctors) \in Nat /\ DOMAIN program.ctors = 1 .. Len(program.ctors)
  BY <1>1, LenProperties
<1> DEFINE n == Len(program.ctors)
           s == SortedCtors
<1>3. DOMAIN s = DOMAIN program.ctors /\ s = [k \in DOMAIN program.ctors |-> s[k]]
  BY DEF SortedCtors
<1> HIDE DEF n, s
<1>4. IsSeq(s)
  <2>1. n \in Nat /\ DOMAIN s = 1 .. n /\ s = [k \in 1 .. n |-> s[k]]
    BY <1>2, <1>3 DEF n
  <2> QED BY <2>1, FunctionIsSeq
<1>5. IsSeq(Values(SortedCtors))
  BY <1>4, ValuesIs DEF s
<1>6. IsSeq(OwnOf(Values(SortedCtors)))
  BY <1>5, WhereIs DEF OwnOf
<1> QED BY <1>6, FirstsIs DEF CtorFunctions

\* A step that leaves the segments, the vector and the symbol table alone.
LEMMA ElementsInit == InitRelocs => ElementsInv
<1> SUFFICES ASSUME InitRelocs PROVE ElementsInv
  OBVIOUS
<1>1. program \in Programs /\ symtable = program.symtable /\ vec = <<>> /\ elements = <<>> /\ phase = "resolve"
  BY DEF InitRelocs, Init
<1>2. program.symtable \in Seq(DOMAIN program.symbols)
  BY <1>1, ProgramsAssumption
<1>3. IsSeq(symtable)
  BY <1>1, <1>2, SeqIsSeq
<1>4. phase \in Collecting /\ phase \notin Placed
  BY <1>1 DEF Collecting, Placed
<1> QED BY <1>1, <1>3, <1>4, EmptyIsSeq DEF ElementsInv

\* The steps before the first segment.
LEMMA ElementsLink ==
    ASSUME ElementsInv, LinkNext, UNCHANGED relocVars
    PROVE  ElementsInv'
<1>1. phase \in Collecting /\ phase \notin Growing \cup Whole \cup Parted /\ program' = program
  BY DEF LinkNext, Resolve, ResolveDone, ReplaceImport, RetargetImports, RemoveImport, RemoveImportDone,
         RetargetCall, RetargetCallDone, MergeStrings, Goto, linkVars, Collecting, Growing, Whole, Parted, Placed
<1>2. phase' \in Collecting /\ phase' \notin Placed
  BY DEF LinkNext, Resolve, ResolveDone, ReplaceImport, RetargetImports, RemoveImport, RemoveImportDone,
         RetargetCall, RetargetCallDone, MergeStrings, Goto, Collecting, Placed
<1>3. symtable' = symtable \/ symtable' = Where(symtable, {s \in ToSet(symtable) : Kept(s) = s})
  BY DEF LinkNext, Resolve, ResolveDone, ReplaceImport, RetargetImports, RemoveImport, RemoveImportDone,
         RetargetCall, RetargetCallDone, MergeStrings, linkVars
<1>4. IsSeq(symtable')
  BY <1>3, WhereIs DEF ElementsInv
<1>5. elements' = <<>> /\ vec' = vec
  BY <1>1 DEF ElementsInv, relocVars
<1> QED BY <1>1, <1>2, <1>4, <1>5 DEF ElementsInv

LEMMA CollectedVecIs ==
    ASSUME IsSeq(vec), Distinct(vec), NEW ref
    PROVE  IsSeq(CollectedVec(ref)) /\ Distinct(CollectedVec(ref))
BY AppendIsSeq, AppendDistinct DEF CollectedVec

LEMMA ElementsCollect ==
    ASSUME ElementsInv, CollectCode \/ CollectCodeDone \/ CollectData
    PROVE  ElementsInv'
<1>1. phase \in {"code", "data"} /\ phase' \in {"code", "data"}
  BY DEF CollectCode, CollectCodeDone, CollectData, Goto
<1>2. program' = program /\ symtable' = symtable /\ elements' = elements
  BY DEF CollectCode, CollectCodeDone, CollectData, linkVars, relocVars
<1>3. vec' = vec \/ \E ref : vec' = CollectedVec(ref)
  BY DEF CollectCode, CollectCodeDone, CollectData, relocVars
<1>4. IsSeq(vec') /\ Distinct(vec')
  BY <1>3, CollectedVecIs DEF ElementsInv
<1>5. elements = <<>> /\ phase' \in Collecting /\ phase' \notin Placed
  BY <1>1 DEF ElementsInv, Collecting, Growing, Whole, Parted, Placed
<1> QED BY <1>2, <1>4, <1>5 DEF ElementsInv

LEMMA ElementsCreate ==
    ASSUME ElementsInv, CreateElements
    PROVE  ElementsInv'
<1>1. phase' = "export" /\ program' = program /\ symtable' = symtable /\ vec' = vec
  BY DEF CreateElements, Goto, linkVars
<1>2. elements' = <<>> \/ elements' = One(vec)
  BY DEF CreateElements, One, ElementSegment
<1>3. elements' = <<>> \/ IsOne(elements')
  BY <1>2, OneIs DEF ElementsInv
<1>4. phase' \in Growing /\ phase' \notin Placed
  BY <1>1 DEF Growing, Placed
<1> QED BY <1>1, <1>3, <1>4 DEF ElementsInv

LEMMA ElementsCommon ==
    ASSUME ElementsInv, SetupCommonData
    PROVE  ElementsInv'
<1>1. phase = "common" /\ program' = program /\ symtable' = symtable /\ vec' = vec
  BY DEF SetupCommonData, linkVars
<1>2. elements = <<>> \/ IsOne(elements)
  BY <1>1 DEF ElementsInv, Collecting, Growing, Whole, Parted, Placed
<1>3. IsSeq(Values(VisibleFunctions))
  <2>1. IsSeq(VisibleFunctions)
    BY WhereIs DEF ElementsInv, VisibleFunctions
  <2> QED BY <2>1, ValuesIs
<1>4. CASE phase' = "profile"
  <2>1. elements' = Push(IF elements = <<>> THEN One(<<>>) ELSE elements, Values(VisibleFunctions))
    BY <1>4 DEF SetupCommonData, One, ElementSegment
  <2>2. ASSUME elements = <<>> PROVE IsOne(elements')
    <3>1. elements' = Push(One(<<>>), Values(VisibleFunctions))
      BY <2>1, <2>2
    <3>2. IsOne(Push(One(<<>>), Values(VisibleFunctions)))
      BY <1>3, EmptyIsSeq, PushIs
    <3> QED BY <3>1, <3>2
  <2>3. ASSUME elements # <<>> PROVE IsOne(elements')
    <3>1. IsOne(elements) /\ elements' = Push(elements, Values(VisibleFunctions))
      BY <1>2, <2>1, <2>3
    <3>2. elements = One(elements[1].vector) /\ IsSeq(elements[1].vector)
      BY <3>1 DEF IsOne
    <3> DEFINE v == elements[1].vector
    <3>3. IsOne(Push(One(v), Values(VisibleFunctions)))
      <4> HIDE DEF v
      <4> QED BY <3>2, <1>3, PushIs DEF v
    <3> QED BY <3>1, <3>2, <3>3
  <2>4. IsOne(elements')
    BY <2>2, <2>3
  <2>5. phase' \in Whole /\ phase' \notin Placed
    BY <1>4 DEF Whole, Placed
  <2> QED BY <1>1, <2>4, <2>5 DEF ElementsInv
<1>5. CASE phase' = "data-segment missing data-section"
  <2>1. elements' = elements
    BY <1>5 DEF SetupCommonData, Goto
  <2>2. phase' \in Growing /\ phase' \notin Placed
    BY <1>5 DEF Growing, Placed
  <2> QED BY <1>1, <1>2, <2>1, <2>2 DEF ElementsInv
<1> QED BY <1>4, <1>5 DEF SetupCommonData, Goto

LEMMA ElementsInitArray ==
    ASSUME ElementsInv, CreateInitArray
    PROVE  ElementsInv'
<1>1. phase = "init_array" /\ phase' = "objc" /\ program' = program /\ symtable' = symtable /\ vec' = vec
  BY DEF CreateInitArray, LinkedElsewhere, Goto
<1>2. IsOne(elements)
  BY <1>1 DEF ElementsInv, Collecting, Growing, Whole, Parted, Placed
<1> DEFINE missing == Where(CtorFunctions, {f \in ToSet(CtorFunctions) : ~InElements(f)})
<1>3. IsSeq(missing)
  BY CtorFunctionsIs, WhereIs DEF ElementsInv
<1>4. elements' = elements \/ elements' = Push(elements, missing)
  BY DEF CreateInitArray
<1> HIDE DEF missing
<1>5. IsOne(Push(elements, missing))
  <2>1. elements = One(elements[1].vector) /\ IsSeq(elements[1].vector)
    BY <1>2 DEF IsOne
  <2> DEFINE v == elements[1].vector
  <2>2. IsOne(Push(One(v), missing))
    <3> HIDE DEF v
    <3> QED BY <2>1, <1>3, PushIs DEF v
  <2> QED BY <2>1, <2>2
<1>6. phase' \in Whole /\ phase' \notin Placed /\ IsOne(elements')
  BY <1>1, <1>2, <1>4, <1>5 DEF Whole, Placed
<1> QED BY <1>1, <1>6 DEF ElementsInv

\* The methods, if there are any, have the second segment.
LEMMA PartitionedIs ==
    ASSUME IsOne(elements), PartitionMethods
    PROVE  /\ IF AllMethods = <<>> THEN IsOne(elements') ELSE IsTwo(elements')
           /\ elements' = IF AllMethods = <<>> THEN One(Others(1)) ELSE Two(Others(1), AllMethods)
           /\ \A f \in ToSet(elements[1].vector) : f \in ToSet(Others(1)) \cup ToSet(AllMethods)
           /\ IsSeq(Others(1)) /\ Distinct(Others(1)) /\ IsSeq(AllMethods) /\ Distinct(AllMethods)
           /\ ToSet(Others(1)) \cap ToSet(AllMethods) = {}
<1> DEFINE v == elements[1].vector
<1>3. IsSeq(v) /\ Distinct(v) /\ elements = One(v)
  BY DEF IsOne
<1>4. DOMAIN elements = {1} /\ elements[1] = ElementSegment("", v)
  <2> HIDE DEF v
  <2> QED BY <1>3, OneIs
<1>5. /\ IsSeq(Others(1)) /\ Distinct(Others(1)) /\ ToSet(Others(1)) = {f \in ToSet(v) : ~IsMethod(f)}
      /\ IsSeq(Methods(1)) /\ Distinct(Methods(1)) /\ ToSet(Methods(1)) = {f \in ToSet(v) : IsMethod(f)}
  <2> DEFINE T == {f \in ToSet(v) : ~IsMethod(f)}
             U == {f \in ToSet(v) : IsMethod(f)}
  <2>1. Others(1) = Where(v, T) /\ Methods(1) = Where(v, U)
    BY DEF Others, Methods
  <2>2. ToSet(v) \cap T = T /\ ToSet(v) \cap U = U
    OBVIOUS
  <2> HIDE DEF v, T, U
  <2>3. /\ IsSeq(Where(v, T)) /\ Distinct(Where(v, T)) /\ ToSet(Where(v, T)) = ToSet(v) \cap T
        /\ IsSeq(Where(v, U)) /\ Distinct(Where(v, U)) /\ ToSet(Where(v, U)) = ToSet(v) \cap U
    BY <1>3, WhereIs
  <2> QED BY <2>1, <2>2, <2>3 DEF T, U
<1>6. ToSet(Others(1)) \cap ToSet(Methods(1)) = {}
  BY <1>5
<1>7. AllMethods = Methods(1)
  <2> DEFINE s == [k \in DOMAIN elements |-> Methods(k)]
  <2>1. DOMAIN s = {1} /\ s[1] = Methods(1) /\ s = [k \in {1} |-> s[k]]
    BY <1>4
  <2>2. s = <<s[1]>>
    <3> HIDE DEF s
    <3> QED BY <2>1, SingletonFunction
  <2>3. AllMethods = FlattenSeq(s)
    BY DEF AllMethods
  <2> HIDE DEF s
  <2> QED BY <2>1, <2>2, <2>3, FlattenOne
<1>8. [k \in DOMAIN elements |-> [elements[k] EXCEPT !.vector = Others(k)]] = One(Others(1))
  <2> DEFINE s == [k \in DOMAIN elements |-> [elements[k] EXCEPT !.vector = Others(k)]]
  <2>1. [elements[1] EXCEPT !.vector = Others(1)] = ElementSegment("", Others(1))
    <3> HIDE DEF v
    <3>1. [ElementSegment("", v) EXCEPT !.vector = Others(1)] = ElementSegment("", Others(1))
      BY SegmentExcept
    <3>2. elements[1] = ElementSegment("", v)
      BY <1>4
    <3> QED BY <3>1, <3>2
  <2>2. DOMAIN s = {1} /\ s[1] = [elements[1] EXCEPT !.vector = Others(1)] /\ s = [k \in {1} |-> s[k]]
    BY <1>4
  <2>3. s = <<s[1]>>
    <3> HIDE DEF s
    <3> QED BY <2>2, SingletonFunction
  <2> HIDE DEF s
  <2>4. s = One(Others(1))
    BY <2>1, <2>2, <2>3 DEF One
  <2> QED BY <2>4 DEF s
<1>9. elements' = IF AllMethods = <<>> THEN One(Others(1)) ELSE Two(Others(1), Methods(1))
  <2>1. elements' = One(Others(1)) \o (IF AllMethods = <<>> THEN <<>> ELSE <<ElementSegment(Objc, AllMethods)>>)
    BY <1>8 DEF PartitionMethods, ElementSegment
  <2>2. One(Others(1)) \o <<>> = One(Others(1))
    BY <1>5, OneIs, ConcatEmptySeq DEF IsSeq
  <2> QED BY <1>7, <2>1, <2>2 DEF Two
<1>10. IsOne(One(Others(1))) /\ IsTwo(Two(Others(1), Methods(1)))
  BY <1>5, <1>6, OneIs, TwoIs
<1> QED BY <1>5, <1>6, <1>7, <1>9, <1>10

LEMMA ElementsPartition ==
    ASSUME ElementsInv, PartitionMethods
    PROVE  ElementsInv'
<1>1. phase = "objc" /\ phase' = "table" /\ program' = program /\ symtable' = symtable /\ vec' = vec
  BY DEF PartitionMethods, linkVars, Goto
<1>2. IsOne(elements)
  BY <1>1 DEF ElementsInv, Collecting, Growing, Whole, Parted, Placed
<1>3. IsOne(elements') \/ IsTwo(elements')
  BY <1>2, PartitionedIs
<1>4. phase' \in Parted /\ phase' \notin Placed
  BY <1>1 DEF Parted, Placed
<1> QED BY <1>1, <1>3, <1>4 DEF ElementsInv

LEMMA StartPlaceStays ==
    ASSUME UNCHANGED <<elements, symbols, symtable>>
    PROVE  StartPlace' = StartPlace
BY DEF StartPlace, PlaceOf, ElementOf, IndexIn, SelectInSeq, StartSymbols

\* The steps that leave the segments alone.
LEMMA ElementsKept ==
    ASSUME ElementsInv, UNCHANGED <<program, symtable, vec, elements, symbols>>,
           \E phases \in {Growing, Whole, Parted} : phase \in phases /\ phase' \in phases,
           phase' \in Placed => \/ start' = <<>>
                                \/ start' = StartPlace
                                \/ phase \in Placed /\ start' = start
    PROVE  ElementsInv'
<1>1. phase \notin Collecting
  BY DEF Collecting, Growing, Whole, Parted, Placed
<1>2. \/ phase' \in Growing /\ (elements' = <<>> \/ IsOne(elements'))
      \/ phase' \in Whole /\ IsOne(elements')
      \/ phase' \in Parted /\ (IsOne(elements') \/ IsTwo(elements'))
  BY DEF ElementsInv, Collecting, Growing, Whole, Parted, Placed
<1>3. StartPlace' = StartPlace
  BY StartPlaceStays
<1>4. (phase' \in Placed /\ start' # <<>>) => start' = StartPlace'
  BY <1>3 DEF ElementsInv, StartPlace
<1>5. program' \in Programs /\ IsSeq(symtable') /\ IsSeq(vec') /\ Distinct(vec')
  BY DEF ElementsInv
<1> QED BY <1>2, <1>4, <1>5 DEF ElementsInv, StartPlace

LEMMA ElementsStep == ElementsInv /\ [Next]_vars => ElementsInv'
<1> SUFFICES ASSUME ElementsInv, [Next]_vars PROVE ElementsInv'
  OBVIOUS
<1>1. ASSUME LinkNext, UNCHANGED relocVars PROVE ElementsInv'
  BY <1>1, ElementsLink
<1>2. ASSUME CollectCode \/ CollectCodeDone \/ CollectData PROVE ElementsInv'
  BY <1>2, ElementsCollect
<1>3. ASSUME CreateElements PROVE ElementsInv'
  BY <1>3, ElementsCreate
<1>4. ASSUME Export PROVE ElementsInv'
  <2>1. phase = "export" /\ phase' = "common" /\ UNCHANGED <<program, symtable, vec, elements, symbols>>
    BY <1>4 DEF Export, Goto, linkVars
  <2>2. phase \in Growing /\ phase' \in Growing /\ phase' \notin Placed
    BY <2>1 DEF Growing, Placed
  <2> QED BY <2>1, <2>2, ElementsKept
<1>5. ASSUME SetupCommonData PROVE ElementsInv'
  BY <1>5, ElementsCommon
<1>6. ASSUME GenerateExports PROVE ElementsInv'
  <2>1. phase = "profile" /\ phase' = "init_array" /\ UNCHANGED <<program, symtable, vec, elements, symbols>>
    BY <1>6 DEF GenerateExports, Goto, linkVars
  <2>2. phase \in Whole /\ phase' \in Whole /\ phase' \notin Placed
    BY <2>1 DEF Whole, Placed
  <2> QED BY <2>1, <2>2, ElementsKept
<1>7. ASSUME CreateInitArray PROVE ElementsInv'
  BY <1>7, ElementsInitArray
<1>8. ASSUME PartitionMethods PROVE ElementsInv'
  BY <1>8, ElementsPartition
<1>9. ASSUME CreateTableCtor PROVE ElementsInv'
  <2>1. phase = "table" /\ phase' = "dynsym" /\ UNCHANGED <<program, symtable, vec, elements, symbols>>
    BY <1>9 DEF CreateTableCtor, Goto
  <2>2. phase \in Parted /\ phase' \in Parted /\ phase' \notin Placed
    BY <2>1 DEF Parted, Placed
  <2> QED BY <2>1, <2>2, ElementsKept
<1>10. ASSUME SetupModuleData PROVE ElementsInv'
  <2>1. phase = "dynsym" /\ phase' = "header" /\ UNCHANGED <<program, symtable, vec, elements, symbols>>
    BY <1>10 DEF SetupModuleData, LinkedElsewhere, Goto
  <2>2. phase \in Parted /\ phase' \in Parted /\ phase' \notin Placed
    BY <2>1 DEF Parted, Placed
  <2> QED BY <2>1, <2>2, ElementsKept
<1>11. ASSUME WriteHeader PROVE ElementsInv'
  <2>1. phase = "header" /\ phase' = "validate" /\ UNCHANGED <<program, symtable, vec, elements, symbols>>
    BY <1>11 DEF WriteHeader, Goto, linkVars
  <2>2. phase \in Parted /\ phase' \in Parted
    BY <2>1 DEF Parted, Placed
  <2>3. start' = <<>> \/ start' = StartPlace
    BY <1>11 DEF WriteHeader, StartPlace
  <2> QED BY <2>1, <2>2, <2>3, ElementsKept
<1>12. ASSUME Validate \/ EncodeExternal \/ EncodeInternal PROVE ElementsInv'
  <2>1. /\ phase \in {"validate", "external", "internal"}
        /\ phase' \in {"external", "internal", "written", "WASM_VALIDATION_ERROR", "INVALID_DST_OFF",
                       "INVALID_DST_IDX", "INVALID_SRC_OFF", "NOT_ELEM_FUNC"}
        /\ UNCHANGED <<program, symtable, vec, elements, symbols, start>>
    BY <1>12 DEF Validate, EncodeExternal, EncodeInternal, Failure, Goto, linkVars, relocVars
  <2>2. phase \in Parted /\ phase \in Placed /\ phase' \in Parted
    BY <2>1 DEF Parted, Placed
  <2> QED BY <2>1, <2>2, ElementsKept
<1>13. ASSUME UNCHANGED vars PROVE ElementsInv'
  <2>1. UNCHANGED <<phase, program, symtable, vec, elements, symbols, start>>
    BY <1>13 DEF vars, linkVars, relocVars
  <2>2. StartPlace' = StartPlace
    BY <2>1, StartPlaceStays
  <2> QED BY <2>1, <2>2 DEF ElementsInv, StartPlace
<1> QED BY <1>1, <1>2, <1>3, <1>4, <1>5, <1>6, <1>7, <1>8, <1>9, <1>10, <1>11, <1>12, <1>13
        DEF Next, RelocNext, Stopped

LEMMA ElementsInvImplies == ElementsInv => OneAddress
<1> SUFFICES ASSUME ElementsInv PROVE OneAddress
  OBVIOUS
<1>1. CASE elements = <<>>
  <2>1. DOMAIN elements = {} /\ IsSeq(elements)
    BY <1>1, EmptyIsSeq
  <2>2. (Written /\ start # <<>>) => start = PlaceOf(symbols[StartSymbols[1]].value)
    BY DEF ElementsInv, Written, Placed
  <2>3. ASSUME NEW f PROVE IF -1 \in {PlaceOf(f)[1], PlaceOf(f)[2]} THEN ~InElements(f)
                           ELSE elements[PlaceOf(f)[1] + 1].vector[PlaceOf(f)[2] + 1] = f
    BY <2>1, PlaceOfIs
  <2> QED BY <2>1, <2>2, <2>3 DEF OneAddress
<1>2. CASE elements # <<>>
  <2>1. IsOne(elements) \/ IsTwo(elements)
    BY <1>2 DEF ElementsInv
  <2> DEFINE v == elements[1].vector
             w == elements[2].vector
  <2>2. ASSUME IsOne(elements)
        PROVE  /\ DOMAIN elements = {1} /\ IsSeq(elements)
               /\ \A k \in DOMAIN elements : IsSeq(elements[k].vector) /\ Distinct(elements[k].vector)
    <3>1. elements = One(v) /\ IsSeq(v) /\ Distinct(v)
      BY <2>2 DEF IsOne
    <3>2. DOMAIN One(v) = {1} /\ IsSeq(One(v))
      <4> HIDE DEF v
      <4> QED BY <3>1, OneIs
    <3>3. DOMAIN elements = {1} /\ IsSeq(elements)
      BY <3>1, <3>2
    <3> QED BY <3>1, <3>3
  <2>3. ASSUME IsTwo(elements)
        PROVE  /\ DOMAIN elements = {1, 2} /\ IsSeq(elements)
               /\ \A k \in DOMAIN elements : IsSeq(elements[k].vector) /\ Distinct(elements[k].vector)
               /\ ToSet(v) \cap ToSet(w) = {}
    <3>1. /\ elements = Two(v, w) /\ IsSeq(v) /\ Distinct(v) /\ IsSeq(w) /\ Distinct(w)
          /\ ToSet(v) \cap ToSet(w) = {}
      BY <2>3 DEF IsTwo
    <3>2. DOMAIN Two(v, w) = {1, 2} /\ IsSeq(Two(v, w))
      <4> HIDE DEF v, w
      <4> QED BY <3>1, TwoIs
    <3>3. DOMAIN elements = {1, 2} /\ IsSeq(elements)
      BY <3>1, <3>2
    <3> QED BY <3>1, <3>3
  <2>4. IsSeq(elements) /\ \A k \in DOMAIN elements : IsSeq(elements[k].vector) /\ Distinct(elements[k].vector)
    BY <2>1, <2>2, <2>3
  <2>5. ASSUME NEW k \in DOMAIN elements, NEW l \in DOMAIN elements,
               NEW a \in DOMAIN elements[k].vector, NEW b \in DOMAIN elements[l].vector,
               elements[k].vector[a] = elements[l].vector[b]
        PROVE  k = l /\ a = b
    <3>1. elements[k].vector[a] \in ToSet(elements[k].vector) \cap ToSet(elements[l].vector)
      BY <2>5 DEF ToSet
    <3>2. k = l
      BY <2>1, <2>2, <2>3, <3>1
    <3>3. Distinct(elements[k].vector)
      BY <2>4
    <3> QED BY <2>5, <3>2, <3>3 DEF Distinct
  <2>6. (Written /\ start # <<>>) => start = PlaceOf(symbols[StartSymbols[1]].value)
    BY DEF ElementsInv, Written, Placed
  <2>7. ASSUME NEW f PROVE IF -1 \in {PlaceOf(f)[1], PlaceOf(f)[2]} THEN ~InElements(f)
                           ELSE elements[PlaceOf(f)[1] + 1].vector[PlaceOf(f)[2] + 1] = f
    BY <2>4, PlaceOfIs
  <2> QED BY <2>5, <2>6, <2>7 DEF OneAddress
<1> QED BY <1>1, <1>2

\* A function is in the element segments at most once, and the start function
\* is where the header says, for every program.
THEOREM OneAddressCorrect == Spec => []OneAddress
<1>1. Spec => []ElementsInv
  BY ElementsInit, ElementsStep, PTL DEF Spec
<1> QED BY <1>1, ElementsInvImplies, PTL

----------------------------------------------------------------------------
(* The sizes of a group and of a subsection: counted as written.           *)

LEMMA LengthInt == \A n : lengthULEB(n) \in Int
BY DEF lengthULEB

LEMMA LengthsIs ==
    ASSUME NEW pair, IsSeq(pair)
    PROVE  Lengths(pair) \in Seq(Int) /\ SumOf(Lengths(pair)) \in Int
<1> DEFINE n == Len(pair)
           s == Lengths(pair)
<1>1. n \in Nat /\ DOMAIN pair = 1 .. n
  BY IsSeqLen
<1>2. DOMAIN s = 1 .. n /\ s = [k \in 1 .. n |-> s[k]] /\ \A k \in 1 .. n : s[k] \in Int
  BY <1>1, LengthInt DEF Lengths
<1> HIDE DEF n, s
<1>3. s \in Seq(Int)
  BY <1>1, <1>2, IntSeq
<1> QED BY <1>3, SumOfInt DEF s

LEMMA WrittenPairsIs ==
    ASSUME NEW pairs, PairsOK(pairs)
    PROVE  /\ WrittenPairs(pairs) \in Seq(Int)
           /\ PairLengths(pairs) \in Int
           /\ SumOf(WrittenPairs(pairs)) = lengthULEB(Len(pairs)) + PairLengths(pairs)
<1> DEFINE n == Len(pairs)
           ss == [k \in DOMAIN pairs |-> Lengths(pairs[k])]
           sizes == [k \in DOMAIN pairs |-> SumOf(Lengths(pairs[k]))]
           one == <<lengthULEB(n)>>
<1>1. n \in Nat /\ DOMAIN pairs = 1 .. n /\ \A k \in 1 .. n : IsSeq(pairs[k])
  BY IsSeqLen DEF PairsOK
<1>2. \A k \in 1 .. n : Lengths(pairs[k]) \in Seq(Int) /\ SumOf(Lengths(pairs[k])) \in Int
  BY <1>1, LengthsIs
<1>3. WrittenPairs(pairs) = one \o FlattenSeq(ss) /\ PairLengths(pairs) = SumOf(sizes)
  BY DEF WrittenPairs, PairLengths, Lengths
<1>4. /\ DOMAIN ss = 1 .. n /\ ss = [k \in 1 .. n |-> ss[k]] /\ \A k \in 1 .. n : ss[k] \in Seq(Int)
      /\ DOMAIN sizes = 1 .. n /\ sizes = [k \in 1 .. n |-> sizes[k]]
      /\ \A k \in 1 .. n : sizes[k] \in Int /\ sizes[k] = SumOf(ss[k])
  <2> HIDE DEF n
  <2> QED BY <1>1, <1>2
<1> HIDE DEF n, ss, sizes
<1>5. ss \in Seq(Seq(Int)) /\ Len(ss) = n /\ sizes \in Seq(Int) /\ Len(sizes) = n
  BY <1>1, <1>4, IntSeq
<1>6. FlattenSeq(ss) \in Seq(Int) /\ SumOf(FlattenSeq(ss)) = SumOf(sizes) /\ SumOf(sizes) \in Int
  BY <1>4, <1>5, FlattenSum, SumOfInt
<1>7. one \in Seq(Int) /\ SumOf(one) = lengthULEB(n)
  <2>1. lengthULEB(n) \in Int
    BY LengthInt
  <2> DEFINE l == lengthULEB(n)
  <2> HIDE DEF l
  <2>2. <<l>> \in Seq(Int) /\ SumOf(<<l>>) = l
    BY <2>1, SumOne DEF l
  <2> QED BY <2>2 DEF l
<1> HIDE DEF one
<1>8. one \o FlattenSeq(ss) \in Seq(Int) /\ SumOf(one \o FlattenSeq(ss)) = lengthULEB(n) + SumOf(sizes)
  BY <1>6, <1>7, SumConcat, ConcatProperties
<1> QED BY <1>3, <1>6, <1>8 DEF n

LEMMA WrittenDataIs ==
    ASSUME NEW g, PairsOK(g.pairs)
    PROVE  WrittenData(g) \in Seq(Int) /\ SumOf(WrittenData(g)) = CountedData(g)
<1> DEFINE a == lengthULEB(g.key[1])
           b == lengthULEB(g.key[3])
           l == lengthULEB(Len(g.pairs))
           p == PairLengths(g.pairs)
           w == WrittenPairs(g.pairs)
<1>1. a \in Int /\ b \in Int /\ l \in Int
  BY LengthInt
<1>2. w \in Seq(Int) /\ p \in Int /\ SumOf(w) = l + p
  BY WrittenPairsIs
<1>3. WrittenData(g) = <<a, 1, b>> \o w /\ CountedData(g) = 1 + a + b + p + l
  BY DEF WrittenData, CountedData
<1> HIDE DEF a, b, l, p, w
<1>4. <<a, 1, b>> \in Seq(Int) /\ SumOf(<<a, 1, b>>) = a + 1 + b
  BY <1>1, SumThree
<1>5. <<a, 1, b>> \o w \in Seq(Int) /\ SumOf(<<a, 1, b>> \o w) = (a + 1 + b) + (l + p)
  BY <1>2, <1>4, SumConcat, ConcatProperties
<1>6. (a + 1 + b) + (l + p) = 1 + a + b + p + l
  BY <1>1, <1>2
<1> QED BY <1>3, <1>5, <1>6

LEMMA WrittenCodeIs ==
    ASSUME NEW g, PairsOK(g.pairs)
    PROVE  WrittenCode(g) \in Seq(Int) /\ SumOf(WrittenCode(g)) = CountedCode(g)
<1> DEFINE b == lengthULEB(g.key[3])
           l == lengthULEB(Len(g.pairs))
           p == PairLengths(g.pairs)
           w == WrittenPairs(g.pairs)
<1>1. b \in Int /\ l \in Int
  BY LengthInt
<1>2. w \in Seq(Int) /\ p \in Int /\ SumOf(w) = l + p
  BY WrittenPairsIs
<1>3. WrittenCode(g) = <<1, b>> \o w /\ CountedCode(g) = 1 + b + p + l
  BY DEF WrittenCode, CountedCode
<1> HIDE DEF b, l, p, w
<1>4. <<1, b>> \in Seq(Int) /\ SumOf(<<1, b>>) = 1 + b
  BY <1>1, SumTwo
<1>5. <<1, b>> \o w \in Seq(Int) /\ SumOf(<<1, b>> \o w) = (1 + b) + (l + p)
  BY <1>2, <1>4, SumConcat, ConcatProperties
<1>6. (1 + b) + (l + p) = 1 + b + p + l
  BY <1>1, <1>2
<1> QED BY <1>3, <1>5, <1>6

LEMMA WrittenExternalIs ==
    ASSUME NEW g, PairsOK(g.uleb), PairsOK(g.sleb), PairsOK(g.data), Len(g.key[2]) \in Nat
    PROVE  /\ WrittenExternal(g) \in Seq(Int) /\ CountedExternal(g) \in Int
           /\ SumOf(WrittenExternal(g)) = CountedExternal(g)
<1> DEFINE n == Len(g.key[2])
           a == lengthULEB(n)
           l1 == lengthULEB(Len(g.uleb))
           l2 == lengthULEB(Len(g.sleb))
           l3 == lengthULEB(Len(g.data))
           p1 == PairLengths(g.uleb)
           p2 == PairLengths(g.sleb)
           p3 == PairLengths(g.data)
           w1 == WrittenPairs(g.uleb)
           w2 == WrittenPairs(g.sleb)
           w3 == WrittenPairs(g.data)
<1>1. a \in Int /\ n \in Int /\ l1 \in Int /\ l2 \in Int /\ l3 \in Int
  BY LengthInt
<1>2. /\ w1 \in Seq(Int) /\ p1 \in Int /\ SumOf(w1) = l1 + p1
      /\ w2 \in Seq(Int) /\ p2 \in Int /\ SumOf(w2) = l2 + p2
      /\ w3 \in Seq(Int) /\ p3 \in Int /\ SumOf(w3) = l3 + p3
  BY WrittenPairsIs
<1>3. /\ WrittenExternal(g) = <<a, n>> \o w1 \o w2 \o w3
      /\ CountedExternal(g) = n + a + p1 + p2 + p3 + l1 + l2 + l3
  BY DEF WrittenExternal, CountedExternal
<1> HIDE DEF n, a, l1, l2, l3, p1, p2, p3, w1, w2, w3
<1>4. <<a, n>> \in Seq(Int) /\ SumOf(<<a, n>>) = a + n
  BY <1>1, SumTwo
<1>5. <<a, n>> \o w1 \in Seq(Int) /\ SumOf(<<a, n>> \o w1) = (a + n) + (l1 + p1)
  BY <1>2, <1>4, SumConcat, ConcatProperties
<1>6. <<a, n>> \o w1 \o w2 \in Seq(Int) /\ SumOf(<<a, n>> \o w1 \o w2) = (a + n) + (l1 + p1) + (l2 + p2)
  BY <1>2, <1>5, SumConcat, ConcatProperties
<1>7. /\ <<a, n>> \o w1 \o w2 \o w3 \in Seq(Int)
      /\ SumOf(<<a, n>> \o w1 \o w2 \o w3) = (a + n) + (l1 + p1) + (l2 + p2) + (l3 + p3)
  BY <1>2, <1>6, SumConcat, ConcatProperties
<1>8. /\ (a + n) + (l1 + p1) + (l2 + p2) + (l3 + p3) = n + a + p1 + p2 + p3 + l1 + l2 + l3
      /\ n + a + p1 + p2 + p3 + l1 + l2 + l3 \in Int
  BY <1>1, <1>2
<1> QED BY <1>3, <1>7, <1>8

\* A subsection is as large as was counted when its groups are.
LEMMA SubsectionIs ==
    ASSUME NEW groups \in Seq(Seq(Int)), NEW size \in Seq(Int), Len(groups) = Len(size),
           \A k \in 1 .. Len(size) : SumOf(groups[k]) = size[k]
    PROVE  SumOf(WrittenSubsection(groups, size)) = CountedSubsection(size)
<1> DEFINE n == Len(size)
           ss == [k \in DOMAIN groups |-> <<1, lengthULEB(size[k])>> \o groups[k]]
           sizes == [k \in DOMAIN size |-> lengthULEB(size[k]) + 1 + size[k]]
           l == lengthULEB(n)
<1>1. n \in Nat /\ DOMAIN size = 1 .. n /\ DOMAIN groups = 1 .. n
  BY LenProperties
<1>2. l \in Int
  BY LengthInt
<1>3. ASSUME NEW k \in 1 .. n
      PROVE  /\ <<1, lengthULEB(size[k])>> \o groups[k] \in Seq(Int)
             /\ lengthULEB(size[k]) + 1 + size[k] \in Int
             /\ SumOf(<<1, lengthULEB(size[k])>> \o groups[k]) = lengthULEB(size[k]) + 1 + size[k]
  <2> DEFINE a == lengthULEB(size[k])
             g == groups[k]
             c == size[k]
  <2>1. a \in Int /\ g \in Seq(Int) /\ c \in Int /\ SumOf(g) = c
    BY LengthInt, ElementOfSeq
  <2> HIDE DEF a, g, c
  <2>2. <<1, a>> \in Seq(Int) /\ SumOf(<<1, a>>) = 1 + a
    BY <2>1, SumTwo
  <2>3. <<1, a>> \o g \in Seq(Int) /\ SumOf(<<1, a>> \o g) = (1 + a) + c
    BY <2>1, <2>2, SumConcat, ConcatProperties
  <2>4. (1 + a) + c = a + 1 + c /\ a + 1 + c \in Int
    BY <2>1
  <2>5. <<1, a>> \o g \in Seq(Int) /\ a + 1 + c \in Int /\ SumOf(<<1, a>> \o g) = a + 1 + c
    BY <2>3, <2>4
  <2> QED BY <2>5 DEF a, g, c
<1>4. WrittenSubsection(groups, size) = <<l>> \o FlattenSeq(ss) /\ CountedSubsection(size) = SumOf(sizes) + l
  BY DEF WrittenSubsection, CountedSubsection
<1>5. /\ DOMAIN ss = 1 .. n /\ ss = [k \in 1 .. n |-> ss[k]] /\ \A k \in 1 .. n : ss[k] \in Seq(Int)
      /\ DOMAIN sizes = 1 .. n /\ sizes = [k \in 1 .. n |-> sizes[k]]
      /\ \A k \in 1 .. n : sizes[k] \in Int /\ sizes[k] = SumOf(ss[k])
  <2> HIDE DEF n
  <2> QED BY <1>1, <1>3
<1> HIDE DEF n, ss, sizes, l
<1>6. ss \in Seq(Seq(Int)) /\ Len(ss) = n /\ sizes \in Seq(Int) /\ Len(sizes) = n
  BY <1>1, <1>5, IntSeq
<1>7. FlattenSeq(ss) \in Seq(Int) /\ SumOf(FlattenSeq(ss)) = SumOf(sizes) /\ SumOf(sizes) \in Int
  BY <1>5, <1>6, FlattenSum, SumOfInt
<1>8. <<l>> \in Seq(Int) /\ SumOf(<<l>>) = l
  BY <1>2, SumOne
<1>9. SumOf(<<l>> \o FlattenSeq(ss)) = l + SumOf(sizes)
  BY <1>7, <1>8, SumConcat
<1> QED BY <1>2, <1>4, <1>7, <1>9

LEMMA SizesAreRight ==
    ASSUME ExternalOK(file.external), GroupsOK(file.data), GroupsOK(file.code)
    PROVE  SizesPredicted
<1> DEFINE data == [k \in DOMAIN file.data |-> WrittenData(file.data[k])]
           code == [k \in DOMAIN file.code |-> WrittenCode(file.code[k])]
           dataCounted == [k \in DOMAIN file.data |-> CountedData(file.data[k])]
           codeCounted == [k \in DOMAIN file.code |-> CountedCode(file.code[k])]
           internal == data \o code
           counted == dataCounted \o codeCounted
           external == [k \in DOMAIN file.external |-> WrittenExternal(file.external[k])]
           externalCounted == [k \in DOMAIN file.external |-> CountedExternal(file.external[k])]
           m == Len(file.data)
           n == Len(file.code)
           e == Len(file.external)
<1>1. /\ m \in Nat /\ DOMAIN file.data = 1 .. m
      /\ n \in Nat /\ DOMAIN file.code = 1 .. n
      /\ e \in Nat /\ DOMAIN file.external = 1 .. e
  BY IsSeqLen DEF ExternalOK, GroupsOK
<1>2. ASSUME NEW k \in 1 .. m
      PROVE  /\ WrittenData(file.data[k]) \in Seq(Int) /\ CountedData(file.data[k]) \in Int
             /\ SumOf(WrittenData(file.data[k])) = CountedData(file.data[k])
  <2>1. PairsOK(file.data[k].pairs)
    BY <1>1 DEF GroupsOK
  <2> DEFINE g == file.data[k]
  <2> HIDE DEF g
  <2>2. WrittenData(g) \in Seq(Int) /\ SumOf(WrittenData(g)) = CountedData(g)
    BY <2>1, WrittenDataIs DEF g
  <2>3. CountedData(g) \in Int
    BY <2>2, SumOfInt
  <2> QED BY <2>2, <2>3 DEF g
<1>3. ASSUME NEW k \in 1 .. n
      PROVE  /\ WrittenCode(file.code[k]) \in Seq(Int) /\ CountedCode(file.code[k]) \in Int
             /\ SumOf(WrittenCode(file.code[k])) = CountedCode(file.code[k])
  <2>1. PairsOK(file.code[k].pairs)
    BY <1>1 DEF GroupsOK
  <2> DEFINE g == file.code[k]
  <2> HIDE DEF g
  <2>2. WrittenCode(g) \in Seq(Int) /\ SumOf(WrittenCode(g)) = CountedCode(g)
    BY <2>1, WrittenCodeIs DEF g
  <2>3. CountedCode(g) \in Int
    BY <2>2, SumOfInt
  <2> QED BY <2>2, <2>3 DEF g
<1>4. ASSUME NEW k \in 1 .. e
      PROVE  /\ WrittenExternal(file.external[k]) \in Seq(Int) /\ CountedExternal(file.external[k]) \in Int
             /\ SumOf(WrittenExternal(file.external[k])) = CountedExternal(file.external[k])
  BY <1>1, WrittenExternalIs DEF ExternalOK
<1>5. /\ DOMAIN data = 1 .. m /\ data = [k \in 1 .. m |-> data[k]] /\ \A k \in 1 .. m : data[k] \in Seq(Int)
      /\ DOMAIN dataCounted = 1 .. m /\ dataCounted = [k \in 1 .. m |-> dataCounted[k]]
      /\ \A k \in 1 .. m : dataCounted[k] \in Int /\ SumOf(data[k]) = dataCounted[k]
  <2> HIDE DEF m
  <2> QED BY <1>1, <1>2
<1>6. /\ DOMAIN code = 1 .. n /\ code = [k \in 1 .. n |-> code[k]] /\ \A k \in 1 .. n : code[k] \in Seq(Int)
      /\ DOMAIN codeCounted = 1 .. n /\ codeCounted = [k \in 1 .. n |-> codeCounted[k]]
      /\ \A k \in 1 .. n : codeCounted[k] \in Int /\ SumOf(code[k]) = codeCounted[k]
  <2> HIDE DEF n
  <2> QED BY <1>1, <1>3
<1>7. /\ DOMAIN external = 1 .. e /\ external = [k \in 1 .. e |-> external[k]]
      /\ \A k \in 1 .. e : external[k] \in Seq(Int)
      /\ DOMAIN externalCounted = 1 .. e /\ externalCounted = [k \in 1 .. e |-> externalCounted[k]]
      /\ \A k \in 1 .. e : externalCounted[k] \in Int /\ SumOf(external[k]) = externalCounted[k]
  <2> HIDE DEF e
  <2> QED BY <1>1, <1>4
<1> HIDE DEF m, n, e
<1>8. SUFFICES /\ \A k \in DOMAIN external : SumOf(external[k]) = externalCounted[k]
               /\ \A k \in DOMAIN internal : SumOf(internal[k]) = counted[k]
               /\ SumOf(WrittenSubsection(external, externalCounted)) = CountedSubsection(externalCounted)
               /\ SumOf(WrittenSubsection(internal, counted)) = CountedSubsection(counted)
  BY DEF SizesPredicted
<1> HIDE DEF data, code, dataCounted, codeCounted, external, externalCounted
<1>9. /\ data \in Seq(Seq(Int)) /\ Len(data) = m /\ dataCounted \in Seq(Int) /\ Len(dataCounted) = m
      /\ code \in Seq(Seq(Int)) /\ Len(code) = n /\ codeCounted \in Seq(Int) /\ Len(codeCounted) = n
      /\ external \in Seq(Seq(Int)) /\ Len(external) = e /\ externalCounted \in Seq(Int) /\ Len(externalCounted) = e
  BY <1>1, <1>5, <1>6, <1>7, IntSeq
<1>10. /\ internal \in Seq(Seq(Int)) /\ Len(internal) = m + n
       /\ \A k \in 1 .. m + n : internal[k] = IF k <= m THEN data[k] ELSE code[k - m]
  BY <1>9, ConcatProperties
<1>11. /\ counted \in Seq(Int) /\ Len(counted) = m + n
       /\ \A k \in 1 .. m + n : counted[k] = IF k <= m THEN dataCounted[k] ELSE codeCounted[k - m]
  <2>1. dataCounted \in Seq(Int) /\ codeCounted \in Seq(Int) /\ Len(dataCounted) = m /\ Len(codeCounted) = n
    BY <1>9
  <2> QED BY <2>1, ConcatProperties
<1> HIDE DEF internal, counted
<1>12. DOMAIN internal = 1 .. m + n
  BY <1>10, LenProperties
<1>13. \A k \in 1 .. m + n : SumOf(internal[k]) = counted[k]
  <2>1. SUFFICES ASSUME NEW k \in 1 .. m + n PROVE SumOf(internal[k]) = counted[k]
    OBVIOUS
  <2>2. CASE k <= m
    <3>1. k \in 1 .. m
      BY <1>1, <2>2
    <3>2. SumOf(data[k]) = dataCounted[k]
      BY <1>5, <3>1
    <3> QED BY <1>10, <1>11, <2>2, <3>2
  <2>3. CASE ~(k <= m)
    <3>1. k - m \in 1 .. n
      BY <1>1, <2>3
    <3>2. SumOf(code[k - m]) = codeCounted[k - m]
      BY <1>6, <3>1
    <3> QED BY <1>10, <1>11, <2>3, <3>2
  <2> QED BY <2>2, <2>3
<1>14. SumOf(WrittenSubsection(external, externalCounted)) = CountedSubsection(externalCounted)
  BY <1>7, <1>9, SubsectionIs
<1>15. SumOf(WrittenSubsection(internal, counted)) = CountedSubsection(counted)
  BY <1>10, <1>11, <1>13, SubsectionIs
<1> QED BY <1>7, <1>12, <1>13, <1>14, <1>15

----------------------------------------------------------------------------
(* What the sizes are counted from: every name that may reach the file has *)
(* a length, and the relocations stay sequences.                           *)

LEMMA LinkInit == InitRelocs => LinkInv
<1> SUFFICES ASSUME InitRelocs PROVE LinkInv
  OBVIOUS
<1>1. /\ program \in Programs /\ symbols = program.symbols /\ symtable = program.symtable
      /\ codeRelocs = program.codeRelocs /\ dataRelocs = program.dataRelocs
      /\ toImport = <<>> /\ toTable = <<>> /\ i = 1
  BY DEF InitRelocs, Init
<1> DEFINE names == DOMAIN program.symbols
           C == [type : STRING, ref : names, inst : Nat, addend : Int]
           D == [type : STRING, ref : names, segment : STRING, off : Nat, addend : Int]
<1>2. /\ \A s \in names :
            /\ s[1] = "symbol"
            /\ DOMAIN program.symbols[s] = {"kind", "name", "flags", "value", "offset"}
            /\ Len(program.symbols[s].name) \in Nat /\ Len(program.symbols[s].value.name) \in Nat
      /\ program.symtable \in Seq(names)
      /\ program.codeRelocs \in Seq(C) /\ program.dataRelocs \in Seq(D)
  BY <1>1, ProgramsAssumption
<1>3. SymbolsOK(symbols) /\ symtable \in Seq(DOMAIN symbols)
  BY <1>1, <1>2 DEF SymbolsOK, SymbolOK, NameOK
<1>4. MapOK(toImport) /\ MapOK(toTable)
  BY <1>1, EmptyIsSeq DEF MapOK
<1>5. ASSUME NEW r \in C \cup D PROVE RelocOK(r, names)
  BY DEF RelocOK, RefOK
<1>6. ASSUME NEW relocs, relocs \in Seq(C) \/ relocs \in Seq(D) PROVE RelocsOK(relocs, names)
  <2>1. PICK S \in {C, D} : relocs \in Seq(S)
    BY <1>6
  <2> HIDE DEF C, D
  <2>2. IsSeq(relocs) /\ ToSet(relocs) \subseteq S
    BY <2>1, SeqIsSeq
  <2>3. \A k \in DOMAIN relocs : relocs[k] \in S
    BY <2>2 DEF ToSet
  <2> QED BY <1>5, <2>2, <2>3 DEF RelocsOK
<1>7. RelocsOK(codeRelocs, names) /\ RelocsOK(dataRelocs, names)
  <2> HIDE DEF C, D, names
  <2> QED BY <1>1, <1>2, <1>6
<1> QED BY <1>1, <1>3, <1>4, <1>7 DEF LinkInv

\* A step that leaves the symbols alone, and the relocations while they are read.
LEMMA LinkKept ==
    ASSUME LinkInv, UNCHANGED <<symbols, symtable, toImport, toTable>>,
           phase' \in Referring => phase \in Referring /\ UNCHANGED <<codeRelocs, dataRelocs>>,
           i' = i \/ i' = i + 1 \/ i' = 1
    PROVE  LinkInv'
BY DEF LinkInv, SymbolsOK, MapOK, RelocsOK

LEMMA GetIs ==
    ASSUME NEW map, MapOK(map), NEW old, old \in Keys(map)
    PROVE  NameOK(Get(map, old).name)
<1>1. \E p \in Range(map) : p[1] = old
  BY DEF Keys, Range
<1> DEFINE p == CHOOSE p \in Range(map) : p[1] = old
<1>2. p \in Range(map)
  BY <1>1
<1>3. Get(map, old) = p[2]
  BY DEF Get
<1> HIDE DEF p
<1> QED BY <1>2, <1>3 DEF MapOK, Range

LEMMA PutIs ==
    ASSUME NEW map, MapOK(map), NEW old, NEW new, NameOK(new.name)
    PROVE  MapOK(Put(map, old, new))
<1> DEFINE e == <<old, new>>
           t == Append(map, e)
<1>1. e[2] = new
  OBVIOUS
<1>2. IsSeq(map) /\ Len(map) \in Nat
  BY IsSeqLen DEF MapOK
<1> HIDE DEF e
<1>3. /\ IsSeq(t) /\ Len(t) = Len(map) + 1 /\ t[Len(map) + 1] = e
      /\ \A k \in 1 .. Len(map) : t[k] = map[k]
  BY <1>2, AppendIsSeq
<1> HIDE DEF t
<1>4. DOMAIN t = 1 .. Len(map) + 1 /\ DOMAIN map = 1 .. Len(map)
  BY <1>2, <1>3, IsSeqLen
<1>5. ASSUME NEW k \in 1 .. Len(map) + 1 PROVE NameOK(t[k][2].name)
  <2>1. CASE k = Len(map) + 1
    BY <2>1, <1>1, <1>3
  <2>2. CASE k # Len(map) + 1
    <3>1. k \in 1 .. Len(map)
      BY <1>2, <2>2
    <3> QED BY <3>1, <1>3, <1>4 DEF MapOK
  <2> QED BY <2>1, <2>2
<1>6. MapOK(t)
  BY <1>3, <1>4, <1>5 DEF MapOK
<1> QED BY <1>6 DEF Put, t, e

LEMMA GetOrIs ==
    ASSUME NEW map, MapOK(map), NEW v, NameOK(v.name)
    PROVE  NameOK(GetOr(map, v).name)
BY GetIs DEF GetOr

\* A symbol with another value and, maybe, other flags.
LEMMA SymbolValue ==
    ASSUME NEW s, SymbolOK(s), NEW v, NameOK(v.name), NEW f
    PROVE  SymbolOK([s EXCEPT !.value = v]) /\ SymbolOK([s EXCEPT !.value = v, !.flags = f])
BY DEF SymbolOK

LEMMA AnswerIs ==
    ASSUME NEW s, SymbolOK(s), IsFound(s)
    PROVE  NameOK(Answer(s).name)
<1>1. CASE s.kind = 0
  <2>1. Answer(s) = FindFunc(s.value.name) /\ Answer(s) # Nothing
    BY <1>1 DEF IsFound, Answer
  <2>2. PICK l : FindFunc(s.value.name) = ResolveFunc(l, s.value.name)
    BY <2>1 DEF FindFunc
  <2>3. ResolveFunc(l, s.value.name).name = s.value.name
    BY DEF ResolveFunc, Import, Runtime
  <2> QED BY <2>1, <2>2, <2>3 DEF SymbolOK
<1>2. CASE s.kind # 0
  BY <1>2 DEF IsFound, Answer, SymbolOK
<1> QED BY <1>1, <1>2

LEMMA LinkResolve ==
    ASSUME LinkInv, Resolve
    PROVE  LinkInv'
<1> DEFINE x == symtable[i]
           s == symbols[x]
           new == Answer(s)
<1>1. UNCHANGED <<phase, symtable, codeRelocs, dataRelocs>> /\ i <= Len(symtable) /\ i' = i + 1
  BY DEF Resolve
<1>2. CASE ~IsFound(s)
  BY <1>1, <1>2, LinkKept DEF Resolve
<1>3. CASE IsFound(s)
  <2> DEFINE f == (s.flags \ {"UNDEFINED"}) \cup FoundFlags(new)
             t == [s EXCEPT !.value = new, !.flags = f]
  <2>1. symbols' = [symbols EXCEPT ![x] = t]
    BY <1>3 DEF Resolve
  <2>2. /\ toImport' = toImport \/ toImport' = Put(toImport, s.value, new)
        /\ toTable' = toTable \/ toTable' = Put(toTable, s.value, new)
    BY <1>3 DEF Resolve
  <2>3. x \in DOMAIN symbols
    <3>1. symtable \in Seq(DOMAIN symbols) /\ i \in 1 .. Len(symtable)
      BY <1>1 DEF LinkInv
    <3> QED BY <3>1, ElementOfSeq
  <2>4. SymbolOK(s)
    BY <2>3 DEF LinkInv, SymbolsOK
  <2>5. NameOK(new.name)
    BY <1>3, <2>4, AnswerIs
  <2> HIDE DEF new, s, f
  <2>6. SymbolOK(t)
    BY <2>4, <2>5, SymbolValue
  <2> HIDE DEF t
  <2>7. DOMAIN symbols' = DOMAIN symbols /\ SymbolsOK(symbols')
    BY <2>1, <2>6 DEF LinkInv, SymbolsOK
  <2>8. MapOK(toImport') /\ MapOK(toTable')
    BY <2>2, <2>5, PutIs DEF LinkInv
  <2> QED BY <1>1, <2>7, <2>8 DEF LinkInv
<1> QED BY <1>2, <1>3

LEMMA RevaluedIs ==
    ASSUME SymbolsOK(symbols), NEW map, MapOK(map)
    PROVE  SymbolsOK(Revalued(map)) /\ DOMAIN Revalued(map) = DOMAIN symbols
<1>1. DOMAIN Revalued(map) = DOMAIN symbols
  BY DEF Revalued
<1>2. ASSUME NEW x \in DOMAIN symbols PROVE SymbolOK(Revalued(map)[x])
  <2> DEFINE s == symbols[x]
             v == GetOr(map, s.value)
  <2>1. SymbolOK(s)
    BY DEF SymbolsOK
  <2>2. NameOK(v.name)
    BY <2>1, GetOrIs DEF SymbolOK
  <2>3. SymbolOK([s EXCEPT !.value = v])
    <3> HIDE DEF s, v
    <3> QED BY <2>1, <2>2, SymbolValue
  <2>4. Revalued(map)[x] = s \/ Revalued(map)[x] = [s EXCEPT !.value = v]
    BY DEF Revalued
  <2> QED BY <2>1, <2>3, <2>4
<1> QED BY <1>1, <1>2 DEF SymbolsOK

\* What takes the place of a symbol is a symbol.
LEMMA KeptIs ==
    ASSUME symtable \in Seq(DOMAIN symbols), NEW ref, RefOK(ref, DOMAIN symbols)
    PROVE  RefOK(KeptRef(ref), DOMAIN symbols)
<1>1. CASE ref \notin ToSet(symtable)
  BY <1>1 DEF KeptRef
<1>2. CASE ref \in ToSet(symtable) /\ ~IsString(ref)
  BY <1>2 DEF KeptRef, Kept
<1>3. CASE ref \in ToSet(symtable) /\ IsString(ref)
  <2> DEFINE I == {k \in 1 .. Len(symtable) : IsString(symtable[k]) /\ Equal(ref, symtable[k])}
  <2>1. KeptRef(ref) = symtable[IF I # {} THEN Min(I) ELSE 0]
    BY <1>3 DEF KeptRef, Kept, SelectInSeq
  <2>2. PICK k \in DOMAIN symtable : symtable[k] = ref
    BY <1>3 DEF ToSet
  <2>3. k \in 1 .. Len(symtable) /\ Equal(ref, symtable[k])
    BY <2>2, LenProperties DEF Equal
  <2>4. I # {} /\ I \in SUBSET Nat
    BY <1>3, <2>2, <2>3
  <2>5. Min(I) \in I
    <3> HIDE DEF I
    <3> QED BY <2>4, MinIs
  <2>6. symtable[Min(I)] \in DOMAIN symbols
    BY <2>5, ElementOfSeq
  <2> QED BY <2>1, <2>4, <2>6 DEF RefOK
<1> QED BY <1>1, <1>2, <1>3

\* A relocation with another reference.
LEMMA RelocRef ==
    ASSUME NEW names, NEW r, RelocOK(r, names), NEW ref, RefOK(ref, names)
    PROVE  RelocOK([r EXCEPT !.ref = ref], names)
BY DEF RelocOK

\* The relocations, each replaced or left alone.
LEMMA RelocsMapped ==
    ASSUME NEW names, NEW relocs, RelocsOK(relocs, names),
           NEW new, DOMAIN new = DOMAIN relocs, new = [k \in DOMAIN relocs |-> new[k]],
           \A k \in DOMAIN relocs : RelocOK(new[k], names)
    PROVE  RelocsOK(new, names)
<1> DEFINE n == Len(relocs)
<1>1. n \in Nat /\ DOMAIN relocs = 1 .. n
  BY IsSeqLen DEF RelocsOK
<1> HIDE DEF n
<1>2. DOMAIN new = 1 .. n /\ new = [k \in 1 .. n |-> new[k]]
  BY <1>1
<1>3. IsSeq(new)
  BY <1>1, <1>2, FunctionIsSeq
<1> QED BY <1>3 DEF RelocsOK

LEMMA RelocsAppend ==
    ASSUME NEW names, NEW relocs, RelocsOK(relocs, names), NEW r, RelocOK(r, names)
    PROVE  RelocsOK(Append(relocs, r), names)
<1> DEFINE t == Append(relocs, r)
<1>1. IsSeq(relocs) /\ Len(relocs) \in Nat
  BY IsSeqLen DEF RelocsOK
<1>2. IsSeq(t) /\ ToSet(t) \subseteq ToSet(relocs) \cup {r}
  BY <1>1, AppendIsSeq
<1> HIDE DEF t
<1>3. \A k \in DOMAIN t : t[k] \in ToSet(relocs) \cup {r}
  BY <1>2 DEF ToSet
<1>4. \A k \in DOMAIN t : RelocOK(t[k], names)
  BY <1>3 DEF RelocsOK, ToSet
<1>5. RelocsOK(t, names)
  BY <1>2, <1>4 DEF RelocsOK
<1> QED BY <1>5 DEF t

LEMMA LinkRetarget ==
    ASSUME LinkInv, RetargetCall
    PROVE  LinkInv'
<1> DEFINE new == Get(toTable, body[i].arg)
           ref == RuntimeRef(new.module, new.name)
           r == [type |-> "TABLE_INDEX_SLEB", ref |-> ref, inst |-> body[i].id, addend |-> 0]
<1>1. UNCHANGED <<phase, symbols, symtable, dataRelocs, toImport, toTable>> /\ (i' = i + 1 \/ i' = i + 2)
  BY DEF RetargetCall
<1>2. codeRelocs' = codeRelocs \/ (body[i].arg \in Keys(toTable) /\ codeRelocs' = Append(codeRelocs, r))
  BY DEF RetargetCall
<1>3. CASE codeRelocs' = codeRelocs
  BY <1>1, <1>3 DEF LinkInv
<1>4. CASE body[i].arg \in Keys(toTable) /\ codeRelocs' = Append(codeRelocs, r)
  <2>1. NameOK(new.name)
    BY <1>4, GetIs DEF LinkInv
  <2> HIDE DEF new
  <2>2. ref[1] = "runtime" /\ ref[3] = new.name
    BY DEF RuntimeRef
  <2> HIDE DEF ref
  <2>3. "ref" \in DOMAIN r /\ r.ref = ref
    OBVIOUS
  <2>4. RelocOK(r, DOMAIN symbols)
    BY <2>1, <2>2, <2>3 DEF RelocOK, RefOK
  <2> HIDE DEF r
  <2>5. phase \in Referring => RelocsOK(codeRelocs', DOMAIN symbols)
    BY <1>4, <2>4, RelocsAppend DEF LinkInv
  <2> QED BY <1>1, <2>5 DEF LinkInv
<1> QED BY <1>2, <1>3, <1>4

LEMMA LinkRevalued ==
    ASSUME LinkInv, RetargetImports \/ RetargetCallDone
    PROVE  LinkInv'
<1>1. /\ UNCHANGED <<symtable, codeRelocs, dataRelocs, toImport, toTable>> /\ i' = 1
      /\ phase \in Referring
  BY DEF RetargetImports, RetargetCallDone, Goto, Referring, Collecting
<1>2. symbols' = Revalued(toImport) \/ symbols' = Revalued(toTable)
  BY DEF RetargetImports, RetargetCallDone
<1>3. SymbolsOK(symbols') /\ DOMAIN symbols' = DOMAIN symbols
  BY <1>2, RevaluedIs DEF LinkInv
<1> QED BY <1>1, <1>3 DEF LinkInv

LEMMA LinkStrings ==
    ASSUME LinkInv, MergeStrings
    PROVE  LinkInv'
<1>1. UNCHANGED <<symbols, toImport, toTable>> /\ i' = 1 /\ phase \in Referring
  BY DEF MergeStrings, Goto, Referring, Collecting
<1>2. symtable' \in Seq(DOMAIN symbols)
  <2> DEFINE T == {s \in ToSet(symtable) : Kept(s) = s}
  <2>1. IsSeq(symtable) /\ ToSet(symtable) \subseteq DOMAIN symbols
    BY SeqIsSeq DEF LinkInv
  <2>2. symtable' = Where(symtable, T)
    BY DEF MergeStrings
  <2> HIDE DEF T
  <2>3. IsSeq(symtable') /\ ToSet(symtable') \subseteq DOMAIN symbols
    BY <2>1, <2>2, WhereIs
  <2> QED BY <2>3, SeqMonotonic DEF IsSeq
<1>3. ASSUME NEW relocs, RelocsOK(relocs, DOMAIN symbols),
             NEW new, new = [k \in DOMAIN relocs |-> [relocs[k] EXCEPT !.ref = KeptRef(relocs[k].ref)]]
      PROVE  RelocsOK(new, DOMAIN symbols)
  <2>1. ASSUME NEW k \in DOMAIN relocs PROVE RelocOK(new[k], DOMAIN symbols)
    <3> DEFINE r == relocs[k]
               ref == KeptRef(relocs[k].ref)
    <3>1. RelocOK(r, DOMAIN symbols)
      BY <1>3 DEF RelocsOK
    <3>2. RefOK(ref, DOMAIN symbols)
      BY <3>1, KeptIs DEF RelocOK, LinkInv
    <3>3. new[k] = [r EXCEPT !.ref = ref]
      BY <1>3
    <3> HIDE DEF r, ref
    <3> QED BY <3>1, <3>2, <3>3, RelocRef
  <2>2. DOMAIN new = DOMAIN relocs /\ new = [k \in DOMAIN relocs |-> new[k]]
    BY <1>3
  <2> QED BY <1>3, <2>1, <2>2, RelocsMapped
<1>4. /\ codeRelocs' = [k \in DOMAIN codeRelocs |-> [codeRelocs[k] EXCEPT !.ref = KeptRef(codeRelocs[k].ref)]]
      /\ dataRelocs' = [k \in DOMAIN dataRelocs |-> [dataRelocs[k] EXCEPT !.ref = KeptRef(dataRelocs[k].ref)]]
  BY DEF MergeStrings
<1>5. RelocsOK(codeRelocs, DOMAIN symbols) /\ RelocsOK(dataRelocs, DOMAIN symbols)
  BY <1>1 DEF LinkInv
<1>6. RelocsOK(codeRelocs', DOMAIN symbols)
  BY <1>3, <1>4, <1>5
<1>7. RelocsOK(dataRelocs', DOMAIN symbols)
  BY <1>3, <1>4, <1>5
<1> QED BY <1>1, <1>2, <1>6, <1>7 DEF LinkInv

\* A reference to an import becomes a name to ask for.
LEMMA CollectedIs ==
    ASSUME SymbolsOK(symbols), NEW ref, RefOK(ref, DOMAIN symbols)
    PROVE  RefOK(CollectedRef(ref), DOMAIN symbols)
<1> DEFINE v == Referenced(ref).value
<1>1. CASE v.is = "import"
  <2>1. CollectedRef(ref) = Asked(v)
    BY <1>1 DEF CollectedRef
  <2>2. NameOK(v.name)
    <3>1. CASE ref \in DOMAIN symbols
      BY <3>1 DEF Referenced, SymbolsOK, SymbolOK
    <3>2. CASE ref[1] = "runtime"
      BY <3>2, <1>1 DEF Referenced, Nothing
    <3> QED BY <3>1, <3>2 DEF RefOK
  <2> HIDE DEF v
  <2>3. Asked(v)[1] = "runtime" /\ Asked(v)[3] = v.name
    BY DEF Asked, RuntimeRef
  <2> QED BY <2>1, <2>2, <2>3 DEF RefOK
<1>2. CASE v.is # "import"
  BY <1>2 DEF CollectedRef
<1> QED BY <1>1, <1>2

LEMMA LinkCollect ==
    ASSUME LinkInv, CollectCode \/ CollectData
    PROVE  LinkInv'
<1>1. /\ UNCHANGED <<phase, symbols, symtable, toImport, toTable>> /\ i' = i + 1
      /\ phase \in Referring
  BY DEF CollectCode, CollectData, Referring, Collecting
<1>2. RelocsOK(codeRelocs, DOMAIN symbols) /\ RelocsOK(dataRelocs, DOMAIN symbols)
  BY <1>1 DEF LinkInv
<1>3. ASSUME NEW relocs, RelocsOK(relocs, DOMAIN symbols), i <= Len(relocs),
             NEW new, new = Recollected(relocs)
      PROVE  RelocsOK(new, DOMAIN symbols)
  <2>1. i \in DOMAIN relocs
    BY <1>3, IsSeqLen DEF LinkInv, RelocsOK
  <2>2. DOMAIN new = DOMAIN relocs /\ new = [k \in DOMAIN relocs |-> new[k]]
    BY <1>3 DEF Recollected
  <2>3. ASSUME NEW k \in DOMAIN relocs PROVE RelocOK(new[k], DOMAIN symbols)
    <3> DEFINE r == relocs[k]
               ref == CollectedRef(r.ref)
               e == [r EXCEPT !.ref = ref]
    <3>1. RelocOK(r, DOMAIN symbols)
      BY <1>3 DEF RelocsOK
    <3>2. RefOK(ref, DOMAIN symbols)
      BY <3>1, CollectedIs DEF RelocOK, LinkInv
    <3>3. new[k] = e \/ new[k] = r
      BY <1>3 DEF Recollected
    <3> HIDE DEF r, ref
    <3>4. RelocOK(e, DOMAIN symbols)
      BY <3>1, <3>2, RelocRef
    <3> HIDE DEF e
    <3> QED BY <3>1, <3>3, <3>4
  <2> QED BY <1>3, <2>2, <2>3, RelocsMapped
<1>4. RelocsOK(codeRelocs', DOMAIN symbols) /\ RelocsOK(dataRelocs', DOMAIN symbols)
  <2>1. CASE CollectCode
    <3>1. /\ i <= Len(codeRelocs) /\ dataRelocs' = dataRelocs
          /\ \/ codeRelocs' = codeRelocs
             \/ codeRelocs' = Recollected(codeRelocs)
      BY <2>1 DEF CollectCode
    <3> QED BY <3>1, <1>2, <1>3
  <2>2. CASE CollectData
    <3>1. /\ i <= Len(dataRelocs) /\ codeRelocs' = codeRelocs
          /\ \/ dataRelocs' = dataRelocs
             \/ dataRelocs' = Recollected(dataRelocs)
      BY <2>2 DEF CollectData
    <3> QED BY <3>1, <1>2, <1>3
  <2> QED BY <2>1, <2>2
<1> QED BY <1>1, <1>4 DEF LinkInv

LEMMA LinkStep == LinkInv /\ [Next]_vars => LinkInv'
<1> SUFFICES ASSUME LinkInv, [Next]_vars PROVE LinkInv'
  OBVIOUS
<1>1. ASSUME ResolveDone \/ ReplaceImport \/ RemoveImport \/ RemoveImportDone PROVE LinkInv'
  <2>1. /\ UNCHANGED <<symbols, symtable, toImport, toTable, codeRelocs, dataRelocs>>
        /\ phase \in Referring /\ (i' = i \/ i' = i + 1 \/ i' = 1)
    BY <1>1 DEF ResolveDone, ReplaceImport, RemoveImport, RemoveImportDone, Goto, linkVars, Referring, Collecting
  <2> QED BY <2>1, LinkKept
<1>2. ASSUME LinkNext PROVE LinkInv'
  BY <1>1, <1>2, LinkResolve, LinkRevalued, LinkRetarget, LinkStrings DEF LinkNext
<1>3. ASSUME CollectCodeDone \/ CreateElements \/ Export PROVE LinkInv'
  <2>1. /\ UNCHANGED <<symbols, symtable, toImport, toTable, codeRelocs, dataRelocs>>
        /\ phase \in Referring /\ i' = 1
    BY <1>3 DEF CollectCodeDone, CreateElements, Export, Goto, linkVars, Referring, Collecting
  <2> QED BY <2>1, LinkKept
<1>4. ASSUME \/ SetupCommonData \/ GenerateExports \/ CreateInitArray \/ PartitionMethods \/ CreateTableCtor
             \/ SetupModuleData \/ WriteHeader \/ Validate \/ EncodeExternal \/ EncodeInternal
      PROVE  LinkInv'
  <2>1. UNCHANGED <<symbols, symtable, toImport, toTable>> /\ (i' = i \/ i' = 1)
    BY <1>4 DEF SetupCommonData, GenerateExports, CreateInitArray, PartitionMethods, CreateTableCtor,
         SetupModuleData, WriteHeader, Validate, EncodeExternal, EncodeInternal, Failure, Goto, linkVars, LinkedElsewhere
  <2>2. phase' \notin Referring
    BY <1>4 DEF SetupCommonData, GenerateExports, CreateInitArray, PartitionMethods, CreateTableCtor,
         SetupModuleData, WriteHeader, Validate, EncodeExternal, EncodeInternal, Failure, Goto, Referring, Collecting
  <2> QED BY <2>1, <2>2, LinkKept
<1>5. ASSUME UNCHANGED vars PROVE LinkInv'
  <2>1. UNCHANGED <<phase, i, symbols, symtable, toImport, toTable, codeRelocs, dataRelocs>>
    BY <1>5 DEF vars, linkVars
  <2> QED BY <2>1, LinkKept
<1> QED BY <1>2, <1>3, <1>4, <1>5, LinkCollect DEF Next, RelocNext, Stopped

----------------------------------------------------------------------------
(* The relocations by kind, and the groups written.                        *)

LEMMA SymbolsStay ==
    ASSUME [Next]_vars
    PROVE  DOMAIN symbols' = DOMAIN symbols
<1>1. ASSUME Resolve PROVE DOMAIN symbols' = DOMAIN symbols
  BY <1>1 DEF Resolve
<1>2. ASSUME RetargetImports \/ RetargetCallDone PROVE DOMAIN symbols' = DOMAIN symbols
  BY <1>2 DEF RetargetImports, RetargetCallDone, Revalued
<1>3. ASSUME ResolveDone \/ ReplaceImport \/ RemoveImport \/ RemoveImportDone \/ RetargetCall \/ MergeStrings
      PROVE  symbols' = symbols
  BY <1>3 DEF ResolveDone, ReplaceImport, RemoveImport, RemoveImportDone, RetargetCall, MergeStrings, linkVars
<1>4. ASSUME RelocNext PROVE symbols' = symbols
  BY <1>4 DEF RelocNext, CollectCode, CollectCodeDone, CollectData, CreateElements, Export, SetupCommonData,
       GenerateExports, CreateInitArray, PartitionMethods, CreateTableCtor, SetupModuleData, WriteHeader,
       Validate, EncodeExternal, EncodeInternal, linkVars, LinkedElsewhere
<1>5. ASSUME UNCHANGED vars PROVE symbols' = symbols
  BY <1>5 DEF vars, linkVars
<1> QED BY <1>1, <1>2, <1>3, <1>4, <1>5 DEF Next, LinkNext, Stopped

LEMMA PartsInit == InitRelocs => PartsInv
<1> SUFFICES ASSUME InitRelocs PROVE PartsInv
  OBVIOUS
<1>1. parts = [intCode |-> <<>>, extCode |-> <<>>, intData |-> <<>>, extData |-> <<>>] /\ dynsym = <<>>
  BY DEF InitRelocs
<1> QED BY <1>1, EmptyIsSeq DEF PartsInv, RelocsOK

LEMMA WhereOK ==
    ASSUME NEW names, NEW relocs, RelocsOK(relocs, names), NEW T
    PROVE  RelocsOK(Where(relocs, T), names)
<1>1. IsSeq(Where(relocs, T)) /\ ToSet(Where(relocs, T)) \subseteq ToSet(relocs)
  BY WhereIs DEF RelocsOK
<1>2. \A k \in DOMAIN Where(relocs, T) : Where(relocs, T)[k] \in ToSet(relocs)
  BY <1>1 DEF ToSet
<1> QED BY <1>1, <1>2 DEF RelocsOK, ToSet

LEMMA EntriesIs ==
    ASSUME NEW refs, IsSeq(refs), NEW type
    PROVE  IsSeq(Entries(refs, type))
<1> DEFINE n == Len(refs)
           s == Entries(refs, type)
<1>1. n \in Nat /\ DOMAIN refs = 1 .. n
  BY IsSeqLen
<1>2. DOMAIN s = 1 .. n /\ s = [k \in 1 .. n |-> s[k]]
  BY <1>1 DEF Entries
<1> HIDE DEF n, s
<1>3. IsSeq(s)
  BY <1>1, <1>2, FunctionIsSeq
<1> QED BY <1>3 DEF s

LEMMA PartsCommon ==
    ASSUME PartsInv, LinkInv, SetupCommonData
    PROVE  PartsInv'
<1>1. phase \in Referring /\ UNCHANGED symbols
  BY DEF SetupCommonData, Referring, linkVars
<1>2. RelocsOK(codeRelocs, DOMAIN symbols) /\ RelocsOK(dataRelocs, DOMAIN symbols) /\ IsSeq(symtable)
  BY <1>1, SeqIsSeq DEF LinkInv
<1>3. /\ RelocsOK(Externals(codeRelocs), DOMAIN symbols) /\ RelocsOK(Externals(dataRelocs), DOMAIN symbols)
      /\ IsSeq(Internals(codeRelocs)) /\ IsSeq(Internals(dataRelocs))
  BY <1>2, WhereOK, WhereIs DEF Externals, Internals, RelocsOK
<1>4. IsSeq(VisibleData) /\ IsSeq(VisibleFunctions)
  BY <1>2, WhereIs DEF VisibleData, VisibleFunctions
<1>5. IsSeq(Entries(VisibleData, 2) \o Entries(VisibleFunctions, 1))
  BY <1>4, EntriesIs, ConcatIsSeq
<1>6. \/ UNCHANGED <<parts, dynsym>>
      \/ /\ parts' = [intCode |-> Internals(codeRelocs), extCode |-> Externals(codeRelocs),
                      intData |-> Internals(dataRelocs), extData |-> Externals(dataRelocs)]
         /\ dynsym' = Entries(VisibleData, 2) \o Entries(VisibleFunctions, 1)
  BY DEF SetupCommonData
<1> DEFINE ic == Internals(codeRelocs)
           ec == Externals(codeRelocs)
           id == Internals(dataRelocs)
           ed == Externals(dataRelocs)
           ds == Entries(VisibleData, 2) \o Entries(VisibleFunctions, 1)
<1> HIDE DEF ic, ec, id, ed, ds
<1>7. CASE parts' = [intCode |-> ic, extCode |-> ec, intData |-> id, extData |-> ed] /\ dynsym' = ds
  <2>1. /\ DOMAIN parts' = {"intCode", "extCode", "intData", "extData"}
        /\ parts'.intCode = ic /\ parts'.extCode = ec /\ parts'.intData = id /\ parts'.extData = ed
    BY <1>7
  <2>2. /\ RelocsOK(ec, DOMAIN symbols) /\ RelocsOK(ed, DOMAIN symbols) /\ IsSeq(ic) /\ IsSeq(id) /\ IsSeq(ds)
    BY <1>3, <1>5 DEF ic, ec, id, ed, ds
  <2> QED BY <1>1, <1>7, <2>1, <2>2 DEF PartsInv
<1>8. CASE UNCHANGED <<parts, dynsym>>
  BY <1>1, <1>8 DEF PartsInv
<1> QED BY <1>6, <1>7, <1>8 DEF ic, ec, id, ed, ds

\* More relocations that the module can answer.
LEMMA PartsAdded ==
    ASSUME PartsInv, UNCHANGED <<symbols, dynsym>>, NEW relocs, IsSeq(relocs),
           \/ parts' = [parts EXCEPT !.intData = @ \o relocs]
           \/ parts' = [parts EXCEPT !.intCode = @ \o relocs]
    PROVE  PartsInv'
<1>1. IsSeq(parts.intData \o relocs) /\ IsSeq(parts.intCode \o relocs)
  BY ConcatIsSeq DEF PartsInv
<1> DEFINE d == parts.intData \o relocs
           c == parts.intCode \o relocs
<1>2. IsSeq(d) /\ IsSeq(c)
  BY <1>1
<1>3. parts' = [parts EXCEPT !.intData = d] \/ parts' = [parts EXCEPT !.intCode = c]
  OBVIOUS
<1> HIDE DEF c, d
<1>4. /\ DOMAIN parts' = {"intCode", "extCode", "intData", "extData"}
      /\ parts'.extCode = parts.extCode /\ parts'.extData = parts.extData
      /\ parts'.intData = parts.intData \/ parts'.intData = d
      /\ parts'.intCode = parts.intCode \/ parts'.intCode = c
  BY <1>3 DEF PartsInv
<1> QED BY <1>2, <1>4 DEF PartsInv

LEMMA PartsStep == PartsInv /\ LinkInv /\ ElementsInv /\ [Next]_vars => PartsInv'
<1> SUFFICES ASSUME PartsInv, LinkInv, ElementsInv, [Next]_vars PROVE PartsInv'
  OBVIOUS
<1>1. DOMAIN symbols' = DOMAIN symbols
  BY SymbolsStay
<1>2. ASSUME CreateInitArray PROVE PartsInv'
  <2> DEFINE fs == CtorFunctions
             n == Len(fs)
             relocs == [k \in DOMAIN fs |->
                          PointerTo(FunctionRef(fs[k]), "TABLE_INDEX_I32", ".init_array", 4 * (k - 1))]
  <2>1. IsSeq(fs)
    BY CtorFunctionsIs DEF ElementsInv
  <2>2. n \in Nat /\ DOMAIN fs = 1 .. n
    BY <2>1, IsSeqLen
  <2>3. parts' = [parts EXCEPT !.intData = @ \o relocs] /\ UNCHANGED <<symbols, dynsym>>
    BY <1>2 DEF CreateInitArray, AddData, LinkedElsewhere
  <2>4. DOMAIN relocs = 1 .. n /\ relocs = [k \in 1 .. n |-> relocs[k]]
    BY <2>2
  <2> HIDE DEF relocs, n, fs
  <2>5. IsSeq(relocs)
    BY <2>2, <2>4, FunctionIsSeq
  <2> QED BY <2>3, <2>5, PartsAdded
<1>3. ASSUME CreateTableCtor PROVE PartsInv'
  <2> DEFINE ks == Initialised
             n == Len(ks)
             relocs == [k \in DOMAIN ks |-> DestinationReloc(ks[k])]
  <2>1. IsSeq(ks)
    <3> DEFINE a == IF tableElem THEN <<1>> ELSE <<>>
               b == IF objcElem THEN <<Len(elements)>> ELSE <<>>
    <3>1. IsSeq(a) /\ IsSeq(b)
      BY SingletonIs, EmptyIsSeq
    <3>2. ks = a \o b
      BY DEF Initialised
    <3> HIDE DEF a, b
    <3> QED BY <3>1, <3>2, ConcatIsSeq
  <2>2. n \in Nat /\ DOMAIN ks = 1 .. n
    BY <2>1, IsSeqLen
  <2>3. parts' = [parts EXCEPT !.intCode = @ \o relocs] /\ UNCHANGED <<symbols, dynsym>>
    BY <1>3 DEF CreateTableCtor
  <2>4. DOMAIN relocs = 1 .. n /\ relocs = [k \in 1 .. n |-> relocs[k]]
    BY <2>2
  <2> HIDE DEF relocs, n, ks
  <2>5. IsSeq(relocs)
    BY <2>2, <2>4, FunctionIsSeq
  <2> QED BY <2>3, <2>5, PartsAdded
<1>4. ASSUME SetupModuleData PROVE PartsInv'
  <2> DEFINE n == Len(dynsym)
             relocs == FlattenSeq([k \in 1 .. n |-> <<NamePointer(k), SymbolPointer(k)>>])
  <2>1. n \in Nat /\ DOMAIN dynsym = 1 .. n
    BY IsSeqLen DEF PartsInv
  <2>2. parts' = [parts EXCEPT !.intData = @ \o relocs] /\ UNCHANGED <<symbols, dynsym>>
    BY <1>4, <2>1 DEF SetupModuleData, AddData, LinkedElsewhere
  <2>3. IsSeq(relocs)
    <3> DEFINE a == [k \in 1 .. n |-> NamePointer(k)]
               b == [k \in 1 .. n |-> SymbolPointer(k)]
    <3> HIDE DEF n
    <3>1. [k \in 1 .. n |-> <<NamePointer(k), SymbolPointer(k)>>] = [k \in 1 .. n |-> <<a[k], b[k]>>]
      OBVIOUS
    <3>2. IsSeq(FlattenSeq([k \in 1 .. n |-> <<a[k], b[k]>>]))
      <4> HIDE DEF a, b
      <4> QED BY <2>1, FlattenPairs
    <3> QED BY <3>1, <3>2
  <2> HIDE DEF relocs
  <2> QED BY <2>2, <2>3, PartsAdded
<1>5. ASSUME UNCHANGED <<parts, dynsym>> PROVE PartsInv'
  BY <1>1, <1>5 DEF PartsInv
<1>6. ASSUME \/ CollectCode \/ CollectCodeDone \/ CollectData \/ CreateElements \/ Export \/ GenerateExports
             \/ PartitionMethods \/ WriteHeader \/ Validate \/ EncodeExternal \/ EncodeInternal
             \/ UNCHANGED relocVars \/ UNCHANGED vars
      PROVE  PartsInv'
  <2>1. UNCHANGED <<parts, dynsym>>
    BY <1>6 DEF CollectCode, CollectCodeDone, CollectData, CreateElements, Export, GenerateExports,
         PartitionMethods, WriteHeader, Validate, EncodeExternal, EncodeInternal, vars, relocVars
  <2> QED BY <2>1, <1>5
<1> QED BY <1>2, <1>3, <1>4, <1>6, PartsCommon DEF Next, RelocNext, Stopped

LEMMA ExternalGroupsIs ==
    ASSUME PartsInv, LinkInv
    PROVE  ExternalOK(ExternalGroups)
<1> DEFINE relocs == parts.extCode \o parts.extData
           keyOf == [k \in DOMAIN relocs |-> SymbolKey(relocs[k])]
           keys == Firsts(keyOf)
           List(key, list) ==
              [k \in DOMAIN Where(relocs, {r \in ToSet(relocs) : SymbolKey(r) = key /\ IsList(r, list)}) |->
                  ExternalPair(Where(relocs, {r \in ToSet(relocs) : SymbolKey(r) = key /\ IsList(r, list)})[k])]
           n == Len(relocs)
           m == Len(keys)
<1>1. IsSeq(relocs) /\ \A r \in ToSet(relocs) : RelocOK(r, DOMAIN symbols)
  <2> DEFINE c == parts.extCode
             d == parts.extData
  <2>1. RelocsOK(c, DOMAIN symbols) /\ RelocsOK(d, DOMAIN symbols)
    BY DEF PartsInv
  <2> HIDE DEF c, d
  <2>2. /\ IsSeq(c \o d) /\ Len(c \o d) = Len(c) + Len(d)
        /\ \A k \in 1 .. Len(c) + Len(d) : (c \o d)[k] = IF k <= Len(c) THEN c[k] ELSE d[k - Len(c)]
    BY <2>1, ConcatIsSeq DEF RelocsOK
  <2>3. /\ Len(c) \in Nat /\ DOMAIN c = 1 .. Len(c) /\ Len(d) \in Nat /\ DOMAIN d = 1 .. Len(d)
        /\ DOMAIN (c \o d) = 1 .. Len(c) + Len(d)
    BY <2>1, <2>2, IsSeqLen DEF RelocsOK
  <2>4. ASSUME NEW k \in 1 .. Len(c) + Len(d) PROVE RelocOK((c \o d)[k], DOMAIN symbols)
    <3>1. CASE k <= Len(c)
      BY <3>1, <2>1, <2>2, <2>3 DEF RelocsOK
    <3>2. CASE ~(k <= Len(c))
      <4>1. k - Len(c) \in 1 .. Len(d)
        BY <3>2, <2>3
      <4> QED BY <4>1, <3>2, <2>1, <2>2, <2>3 DEF RelocsOK
    <3> QED BY <3>1, <3>2
  <2>5. IsSeq(c \o d) /\ \A r \in ToSet(c \o d) : RelocOK(r, DOMAIN symbols)
    BY <2>2, <2>3, <2>4 DEF ToSet
  <2> QED BY <2>5 DEF c, d
<1>2. ExternalGroups = [g \in DOMAIN keys |->
          [key |-> keys[g], uleb |-> List(keys[g], "uleb"), sleb |-> List(keys[g], "sleb"),
           data |-> List(keys[g], "data")]]
  BY DEF ExternalGroups
<1> HIDE DEF relocs
<1>3. n \in Nat /\ DOMAIN relocs = 1 .. n
  BY <1>1, IsSeqLen
<1>4. IsSeq(keyOf)
  <2>1. DOMAIN keyOf = 1 .. n /\ keyOf = [k \in 1 .. n |-> keyOf[k]]
    BY <1>3
  <2> HIDE DEF keyOf, n
  <2> QED BY <1>3, <2>1, FunctionIsSeq
<1>5. \A key \in ToSet(keyOf) : NameOK(key[2])
  <2>1. SUFFICES ASSUME NEW k \in DOMAIN relocs PROVE NameOK(SymbolKey(relocs[k])[2])
    BY DEF ToSet
  <2> DEFINE ref == relocs[k].ref
  <2>2. RefOK(ref, DOMAIN symbols)
    BY <1>1 DEF ToSet, RelocOK
  <2>3. SymbolKey(relocs[k])[2] = Referenced(ref).name
    BY DEF SymbolKey
  <2> HIDE DEF ref
  <2>4. CASE ref \in DOMAIN symbols
    BY <2>3, <2>4 DEF Referenced, LinkInv, SymbolsOK, SymbolOK
  <2>5. CASE ref[1] = "runtime" /\ NameOK(ref[3])
    BY <2>3, <2>5 DEF Referenced
  <2> QED BY <2>2, <2>4, <2>5 DEF RefOK
<1>6. IsSeq(keys) /\ ToSet(keys) = ToSet(keyOf)
  <2> HIDE DEF keyOf
  <2> QED BY <1>4, FirstsIs
<1> HIDE DEF keyOf, keys
<1>7. m \in Nat /\ DOMAIN keys = 1 .. m
  BY <1>6, IsSeqLen
<1>8. ASSUME NEW key, NEW list PROVE PairsOK(List(key, list))
  <2> DEFINE rs == Where(relocs, {r \in ToSet(relocs) : SymbolKey(r) = key /\ IsList(r, list)})
             pairs == List(key, list)
  <2>1. IsSeq(rs)
    BY <1>1, WhereIs
  <2>2. DOMAIN pairs = DOMAIN rs /\ pairs = [k \in DOMAIN rs |-> pairs[k]]
    OBVIOUS
  <2>3. ASSUME NEW k \in DOMAIN rs PROVE IsSeq(pairs[k])
    <3>1. pairs[k] = ExternalPair(rs[k])
      OBVIOUS
    <3> HIDE DEF rs, pairs
    <3> QED BY <3>1, PairIsSeq, TripleIsSeq DEF ExternalPair
  <2> HIDE DEF rs, pairs
  <2>4. PairsOK(pairs)
    BY <2>1, <2>2, <2>3, PairsIs
  <2> QED BY <2>4 DEF pairs
<1> HIDE DEF List
<1> DEFINE groups == ExternalGroups
<1>9. DOMAIN groups = 1 .. m /\ groups = [g \in 1 .. m |-> groups[g]]
  BY <1>2, <1>7
<1>10. ASSUME NEW g \in 1 .. m
       PROVE  /\ PairsOK(groups[g].uleb) /\ PairsOK(groups[g].sleb) /\ PairsOK(groups[g].data)
              /\ Len(groups[g].key[2]) \in Nat
  <2>1. /\ groups[g].key = keys[g] /\ groups[g].uleb = List(keys[g], "uleb")
        /\ groups[g].sleb = List(keys[g], "sleb") /\ groups[g].data = List(keys[g], "data")
    BY <1>2, <1>7
  <2>2. NameOK(keys[g][2])
    BY <1>5, <1>6, <1>7 DEF ToSet
  <2> QED BY <2>1, <2>2, <1>8 DEF NameOK
<1> HIDE DEF groups, m
<1>11. IsSeq(groups)
  BY <1>7, <1>9, FunctionIsSeq
<1>12. ExternalOK(groups)
  BY <1>9, <1>10, <1>11 DEF ExternalOK
<1> QED BY <1>12 DEF groups

LEMMA DataGroupsIs ==
    ASSUME NEW relocs, IsSeq(relocs)
    PROVE  GroupsOK(Groups(relocs, DataKey, DataPair))
<1> DEFINE keyOf == [k \in DOMAIN relocs |-> DataKey(relocs[k])]
           keys == Firsts(keyOf)
           Of(key) == Where(relocs, {r \in ToSet(relocs) : DataKey(r) = key})
           Pairs(key) == [k \in DOMAIN Of(key) |-> DataPair(Of(key)[k])]
           groups == Groups(relocs, DataKey, DataPair)
           n == Len(relocs)
           m == Len(keys)
<1>1. groups = [g \in DOMAIN keys |-> [key |-> keys[g], pairs |-> Pairs(keys[g])]]
  BY DEF Groups
<1>2. n \in Nat /\ DOMAIN relocs = 1 .. n
  BY IsSeqLen
<1>3. DOMAIN keyOf = 1 .. n /\ keyOf = [k \in 1 .. n |-> keyOf[k]]
  BY <1>2
<1>4. ASSUME NEW key PROVE PairsOK(Pairs(key))
  <2> DEFINE T == {r \in ToSet(relocs) : DataKey(r) = key}
             pairs == Pairs(key)
  <2>1. DOMAIN pairs = DOMAIN Where(relocs, T) /\ pairs = [k \in DOMAIN Where(relocs, T) |-> pairs[k]]
    OBVIOUS
  <2>2. ASSUME NEW k \in DOMAIN Where(relocs, T) PROVE IsSeq(pairs[k])
    <3>1. pairs[k] = DataPair(Where(relocs, T)[k])
      OBVIOUS
    <3> HIDE DEF T, pairs
    <3> QED BY <3>1, PairIsSeq DEF DataPair
  <2> HIDE DEF T, pairs
  <2>3. PairsOK(pairs)
    BY <2>1, <2>2, GroupPairs
  <2> QED BY <2>3 DEF pairs
<1> HIDE DEF n, keyOf, Pairs, groups
<1>5. IsSeq(keys)
  BY <1>2, <1>3, FunctionIsSeq, FirstsIs
<1> HIDE DEF keys
<1>6. m \in Nat /\ DOMAIN keys = 1 .. m
  BY <1>5, IsSeqLen
<1>7. /\ DOMAIN groups = 1 .. m /\ groups = [g \in 1 .. m |-> groups[g]]
      /\ \A g \in 1 .. m : groups[g].pairs = Pairs(keys[g])
  BY <1>1, <1>6
<1> HIDE DEF m
<1>8. IsSeq(groups)
  BY <1>6, <1>7, FunctionIsSeq
<1> QED BY <1>4, <1>7, <1>8 DEF GroupsOK, groups

LEMMA CodeGroupsIs ==
    ASSUME NEW relocs, IsSeq(relocs)
    PROVE  GroupsOK(Groups(relocs, CodeKey, CodePair))
<1> DEFINE keyOf == [k \in DOMAIN relocs |-> CodeKey(relocs[k])]
           keys == Firsts(keyOf)
           Of(key) == Where(relocs, {r \in ToSet(relocs) : CodeKey(r) = key})
           Pairs(key) == [k \in DOMAIN Of(key) |-> CodePair(Of(key)[k])]
           groups == Groups(relocs, CodeKey, CodePair)
           n == Len(relocs)
           m == Len(keys)
<1>1. groups = [g \in DOMAIN keys |-> [key |-> keys[g], pairs |-> Pairs(keys[g])]]
  BY DEF Groups
<1>2. n \in Nat /\ DOMAIN relocs = 1 .. n
  BY IsSeqLen
<1>3. DOMAIN keyOf = 1 .. n /\ keyOf = [k \in 1 .. n |-> keyOf[k]]
  BY <1>2
<1>4. ASSUME NEW key PROVE PairsOK(Pairs(key))
  <2> DEFINE T == {r \in ToSet(relocs) : CodeKey(r) = key}
             pairs == Pairs(key)
  <2>1. DOMAIN pairs = DOMAIN Where(relocs, T) /\ pairs = [k \in DOMAIN Where(relocs, T) |-> pairs[k]]
    OBVIOUS
  <2>2. ASSUME NEW k \in DOMAIN Where(relocs, T) PROVE IsSeq(pairs[k])
    <3>1. pairs[k] = CodePair(Where(relocs, T)[k])
      OBVIOUS
    <3> HIDE DEF T, pairs
    <3> QED BY <3>1, PairIsSeq DEF CodePair
  <2> HIDE DEF T, pairs
  <2>3. PairsOK(pairs)
    BY <2>1, <2>2, GroupPairs
  <2> QED BY <2>3 DEF pairs
<1> HIDE DEF n, keyOf, Pairs, groups
<1>5. IsSeq(keys)
  BY <1>2, <1>3, FunctionIsSeq, FirstsIs
<1> HIDE DEF keys
<1>6. m \in Nat /\ DOMAIN keys = 1 .. m
  BY <1>5, IsSeqLen
<1>7. /\ DOMAIN groups = 1 .. m /\ groups = [g \in 1 .. m |-> groups[g]]
      /\ \A g \in 1 .. m : groups[g].pairs = Pairs(keys[g])
  BY <1>1, <1>6
<1> HIDE DEF m
<1>8. IsSeq(groups)
  BY <1>6, <1>7, FunctionIsSeq
<1> QED BY <1>4, <1>7, <1>8 DEF GroupsOK, groups

LEMMA GroupsInit == InitRelocs => GroupsInv
<1> SUFFICES ASSUME InitRelocs PROVE GroupsInv
  OBVIOUS
<1>1. file = [external |-> <<>>, data |-> <<>>, code |-> <<>>]
  BY DEF InitRelocs
<1> QED BY <1>1, EmptyIsSeq DEF GroupsInv, ExternalOK, GroupsOK

LEMMA GroupsStep == GroupsInv /\ PartsInv /\ LinkInv /\ [Next]_vars => GroupsInv'
<1> SUFFICES ASSUME GroupsInv, PartsInv, LinkInv, [Next]_vars PROVE GroupsInv'
  OBVIOUS
<1>1. ASSUME UNCHANGED file PROVE GroupsInv'
  BY <1>1 DEF GroupsInv
<1>2. ASSUME EncodeExternal PROVE GroupsInv'
  <2> DEFINE e == ExternalGroups
  <2>1. UNCHANGED file \/ file' = [file EXCEPT !.external = e]
    BY <1>2 DEF EncodeExternal
  <2>2. ExternalOK(e)
    BY ExternalGroupsIs
  <2> HIDE DEF e
  <2>3. ASSUME file' = [file EXCEPT !.external = e] PROVE GroupsInv'
    BY <2>2, <2>3 DEF GroupsInv
  <2> QED BY <1>1, <2>1, <2>3
<1>3. ASSUME EncodeInternal PROVE GroupsInv'
  <2> DEFINE d == Groups(parts.intData, DataKey, DataPair)
             c == Groups(parts.intCode, CodeKey, CodePair)
  <2>1. UNCHANGED file \/ file' = [file EXCEPT !.data = d, !.code = c]
    BY <1>3 DEF EncodeInternal
  <2>2. GroupsOK(d) /\ GroupsOK(c)
    BY DataGroupsIs, CodeGroupsIs DEF PartsInv
  <2> HIDE DEF d, c
  <2>3. ASSUME file' = [file EXCEPT !.data = d, !.code = c] PROVE GroupsInv'
    BY <2>2, <2>3 DEF GroupsInv
  <2> QED BY <1>1, <2>1, <2>3
<1>4. ASSUME \/ CollectCode \/ CollectCodeDone \/ CollectData \/ CreateElements \/ Export \/ SetupCommonData
             \/ GenerateExports \/ CreateInitArray \/ PartitionMethods \/ CreateTableCtor \/ SetupModuleData
             \/ WriteHeader \/ Validate \/ UNCHANGED relocVars \/ UNCHANGED vars
      PROVE  GroupsInv'
  <2>1. UNCHANGED file
    BY <1>4 DEF CollectCode, CollectCodeDone, CollectData, CreateElements, Export, SetupCommonData,
         GenerateExports, CreateInitArray, PartitionMethods, CreateTableCtor, SetupModuleData, WriteHeader,
         Validate, vars, relocVars
  <2> QED BY <2>1, <1>1
<1> QED BY <1>2, <1>3, <1>4 DEF Next, RelocNext, Stopped

\* The sizes written in front of the groups and of the subsections are those
\* of what is written, for every program.
THEOREM SizesPredictedCorrect == Spec => []SizesPredicted
<1>1. Spec => []ElementsInv
  BY ElementsInit, ElementsStep, PTL DEF Spec
<1>2. Spec => []LinkInv
  BY LinkInit, LinkStep, PTL DEF Spec
<1>3. Spec => []PartsInv
  BY <1>1, <1>2, PartsInit, PartsStep, PTL DEF Spec
<1>4. Spec => []GroupsInv
  BY <1>2, <1>3, GroupsInit, GroupsStep, PTL DEF Spec
<1>5. GroupsInv => SizesPredicted
  BY SizesAreRight DEF GroupsInv
<1> QED BY <1>4, <1>5, PTL

----------------------------------------------------------------------------
(* What the groups of the file say of the relocations they were made of.   *)

LEMMA RelocsAre ==
    ASSUME PartsInv
    PROVE  /\ IsSeq(parts.extCode) /\ IsSeq(parts.extData) /\ IsSeq(Relocs)
           /\ ToSet(Relocs) = ToSet(parts.extCode) \cup ToSet(parts.extData)
           /\ \A k \in DOMAIN parts.extCode : parts.extCode[k] \in ToSet(Relocs)
           /\ \A k \in DOMAIN parts.extData : parts.extData[k] \in ToSet(Relocs)
<1>1. IsSeq(parts.extCode) /\ IsSeq(parts.extData)
  BY DEF PartsInv, RelocsOK
<1>2. IsSeq(Relocs) /\ ToSet(Relocs) = ToSet(parts.extCode) \cup ToSet(parts.extData)
  BY <1>1, ConcatIsSeq, ConcatToSet DEF Relocs
<1> QED BY <1>1, <1>2 DEF ToSet

LEMMA GroupLists ==
    ASSUME NEW g \in DOMAIN ExternalGroups
    PROVE  /\ ExternalGroups[g].key = Firsts(RelocKeys)[g]
           /\ ExternalGroups[g].uleb = [k \in DOMAIN ListOf(g, "uleb") |-> ExternalPair(ListOf(g, "uleb")[k])]
           /\ ExternalGroups[g].sleb = [k \in DOMAIN ListOf(g, "sleb") |-> ExternalPair(ListOf(g, "sleb")[k])]
           /\ ExternalGroups[g].data = [k \in DOMAIN ListOf(g, "data") |-> ExternalPair(ListOf(g, "data")[k])]
BY DEF ExternalGroups, ListOf, Relocs, RelocKeys

LEMMA ListIs ==
    ASSUME PartsInv, NEW g, NEW list
    PROVE  /\ IsSeq(ListOf(g, list))
           /\ \A x \in ToSet(ListOf(g, list)) :
                  x \in ToSet(Relocs) /\ SymbolKey(x) = Firsts(RelocKeys)[g] /\ IsList(x, list)
           /\ \A e \in ToSet(Relocs) :
                  SymbolKey(e) = Firsts(RelocKeys)[g] /\ IsList(e, list) => e \in ToSet(ListOf(g, list))
           /\ \A A, e : Sole(Relocs, A, e) /\ SymbolKey(e) = Firsts(RelocKeys)[g] /\ IsList(e, list)
                        => Sole(ListOf(g, list), A, e)
           /\ \A A, e : e \notin ToSet(ListOf(g, list)) /\ A = {e} => NoneIn(ListOf(g, list), A)
<1> DEFINE T == {r \in ToSet(Relocs) : SymbolKey(r) = Firsts(RelocKeys)[g] /\ IsList(r, list)}
<1>1. IsSeq(Relocs)
  BY RelocsAre
<1>2. ListOf(g, list) = Where(Relocs, T)
  BY DEF ListOf
<1>3. IsSeq(Where(Relocs, T)) /\ ToSet(Where(Relocs, T)) = ToSet(Relocs) \cap T
  BY <1>1, WhereIs
<1>4. ASSUME NEW A, NEW e, Sole(Relocs, A, e), SymbolKey(e) = Firsts(RelocKeys)[g], IsList(e, list)
      PROVE  Sole(Where(Relocs, T), A, e)
  <2>1. e \in ToSet(Relocs)
    BY <1>4 DEF Sole, ToSet
  <2>2. e \in T
    BY <2>1, <1>4
  <2> HIDE DEF T
  <2> QED BY <2>2, <1>1, <1>4, WhereOne
<1>5. ASSUME NEW A, NEW e, e \notin ToSet(ListOf(g, list)), A = {e} PROVE NoneIn(ListOf(g, list), A)
  BY <1>5 DEF NoneIn, ToSet
<1>6. \A x \in ToSet(Where(Relocs, T)) :
          x \in ToSet(Relocs) /\ SymbolKey(x) = Firsts(RelocKeys)[g] /\ IsList(x, list)
  BY <1>3
<1>7. \A e \in ToSet(Relocs) :
          SymbolKey(e) = Firsts(RelocKeys)[g] /\ IsList(e, list) => e \in ToSet(Where(Relocs, T))
  BY <1>3
<1> HIDE DEF T
<1> QED BY <1>2, <1>3, <1>4, <1>5, <1>6, <1>7

LEMMA KeyOfIs ==
    ASSUME PartsInv
    PROVE  /\ RelocKeys = [k \in DOMAIN Relocs |-> KeyOf[Relocs[k]]]
           /\ \A g : KeyAt(Relocs, KeyOf, g) = Firsts(RelocKeys)[g]
<1>1. RelocKeys = [k \in DOMAIN Relocs |-> KeyOf[Relocs[k]]]
  <2>1. \A k \in DOMAIN Relocs : KeyOf[Relocs[k]] = SymbolKey(Relocs[k])
    BY DEF KeyOf, ToSet
  <2> QED BY <2>1 DEF RelocKeys
<1> QED BY <1>1 DEF KeyAt

\* The fixes of one group.
LEMMA ExternalCodeMapped ==
    ASSUME PartsInv, PartsTyped, NEW g \in DOMAIN ExternalGroups
    PROVE  /\ IsSeq(CodeWalk[g])
           /\ Mapped(ExternalCode(ExternalGroups[g]), CodeWalk[g], CodeFixed)
           /\ \A x \in ToSet(CodeWalk[g]) :
                 /\ x \in ToSet(Relocs) /\ x \in ToSet(parts.extCode)
                 /\ SymbolKey(x) = Firsts(RelocKeys)[g]
<1> DEFINE u == ListOf(g, "uleb")
           v == ListOf(g, "sleb")
           P == [r \in ToSet(Relocs) |-> ExternalPair(r)]
           group == ExternalGroups[g]
           pairs == group.uleb \o group.sleb
<1>1. /\ group.key = Firsts(RelocKeys)[g]
      /\ group.uleb = [k \in DOMAIN u |-> ExternalPair(u[k])]
      /\ group.sleb = [k \in DOMAIN v |-> ExternalPair(v[k])]
  BY GroupLists
<1>2. /\ IsSeq(u) /\ \A x \in ToSet(u) : x \in ToSet(Relocs) /\ SymbolKey(x) = Firsts(RelocKeys)[g] /\ IsList(x, "uleb")
      /\ IsSeq(v) /\ \A x \in ToSet(v) : x \in ToSet(Relocs) /\ SymbolKey(x) = Firsts(RelocKeys)[g] /\ IsList(x, "sleb")
  BY ListIs
<1>3. CodeWalk[g] = u \o v
  BY DEF CodeWalk
<1> HIDE DEF u, v, group
<1>4. Mapped(group.uleb, u, P) /\ Mapped(group.sleb, v, P)
  BY <1>1, <1>2 DEF Mapped, ToSet
<1>5. Mapped(pairs, u \o v, P)
  <2> HIDE DEF P
  <2> QED BY <1>2, <1>4, ConcatMapped
<1>6. IsSeq(u \o v) /\ ToSet(u \o v) = ToSet(u) \cup ToSet(v)
  BY <1>2, ConcatIsSeq, ConcatToSet
<1>7. ASSUME NEW x \in ToSet(u \o v)
      PROVE  /\ x \in ToSet(Relocs) /\ x \in ToSet(parts.extCode)
             /\ SymbolKey(x) = Firsts(RelocKeys)[g]
             /\ ExternalPair(x) = <<CodeOffset(x.inst), 0>>
  <2>1. x \in ToSet(Relocs) /\ SymbolKey(x) = Firsts(RelocKeys)[g] /\ (IsList(x, "uleb") \/ IsList(x, "sleb"))
    BY <1>2, <1>6
  <2>2. x.type \in CodeTypes
    BY <2>1 DEF IsList, CodeTypes
  <2>3. x \in ToSet(parts.extCode)
    <3>1. x.type \notin DataTypes
      BY <2>2 DEF CodeTypes, DataTypes
    <3>2. x \notin ToSet(parts.extData)
      BY <3>1 DEF PartsTyped, Typed, ToSet
    <3> QED BY <3>2, <2>1, RelocsAre
  <2>4. ~IsList(x, "data")
    BY <2>2 DEF IsList, CodeTypes
  <2> QED BY <2>1, <2>3, <2>4 DEF ExternalPair
<1> DEFINE fixes == [k \in DOMAIN pairs |-> [at |-> pairs[k][1], means |-> ByName(group.key, pairs[k][2])]]
           w == u \o v
<1>8. ASSUME NEW k \in DOMAIN w PROVE fixes[k] = CodeFixed[w[k]]
  <2>1. w[k] \in ToSet(w)
    BY DEF ToSet
  <2>2. pairs[k] = P[w[k]] /\ k \in DOMAIN pairs
    BY <1>5 DEF Mapped
  <2> HIDE DEF w, pairs
  <2>3. /\ w[k] \in ToSet(Relocs) /\ SymbolKey(w[k]) = group.key
        /\ ExternalPair(w[k]) = <<CodeOffset(w[k].inst), 0>>
    BY <2>1, <1>1, <1>7 DEF w
  <2>4. pairs[k] = <<CodeOffset(w[k].inst), 0>>
    BY <2>2, <2>3
  <2> QED BY <2>2, <2>3, <2>4 DEF CodeFixed
<1>9. Mapped(fixes, w, CodeFixed)
  <2>1. DOMAIN fixes = DOMAIN w /\ fixes = [k \in DOMAIN w |-> fixes[k]]
    BY <1>5 DEF Mapped
  <2> HIDE DEF fixes, w
  <2> QED BY <2>1, <1>8 DEF Mapped
<1>10. ExternalCode(ExternalGroups[g]) = fixes
  BY DEF ExternalCode, group
<1> HIDE DEF fixes
<1> QED BY <1>3, <1>6, <1>7, <1>9, <1>10

\* The groups for other modules name each instruction that awaits one, with
\* the symbol to ask for.
LEMMA ExternalCodeSays ==
    ASSUME PartsInv, PartsTyped
    PROVE  Says(FlattenSeq([g \in DOMAIN ExternalGroups |-> ExternalCode(ExternalGroups[g])]),
                ExternalCodePlaces, ExternalCodeMeans)
<1> DEFINE ss == [g \in DOMAIN ExternalGroups |-> ExternalCode(ExternalGroups[g])]
           own == parts.extCode
           L == ToSet(parts.extCode)
<1>1. /\ IsSeq(own) /\ IsSeq(parts.extData) /\ IsSeq(Relocs) /\ \A k \in DOMAIN own : own[k] \in ToSet(Relocs)
  BY RelocsAre
<1>2. DOMAIN ExternalGroups = DOMAIN Firsts(RelocKeys)
  BY DEF ExternalGroups, RelocKeys, Relocs
<1>3. Keyed(ss, Relocs, KeyOf, L, CodeFixed, CodeWalk)
  <2> DEFINE keys == Firsts([k \in DOMAIN Relocs |-> KeyOf[Relocs[k]]])
  <2>1. keys = Firsts(RelocKeys)
    BY KeyOfIs
  <2>2. \A x \in ToSet(Relocs) : KeyOf[x] = SymbolKey(x)
    BY DEF KeyOf
  <2>3. DOMAIN ss = DOMAIN keys /\ ss = [g \in DOMAIN keys |-> ss[g]]
    BY <1>2, <2>1
  <2>4. ASSUME NEW g \in DOMAIN keys
        PROVE  /\ Mapped(ss[g], CodeWalk[g], CodeFixed) /\ IsSeq(CodeWalk[g])
               /\ \A x \in ToSet(CodeWalk[g]) : x \in ToSet(Relocs) /\ x \in L /\ KeyOf[x] = keys[g]
    <3>1. g \in DOMAIN ExternalGroups /\ ss[g] = ExternalCode(ExternalGroups[g])
      BY <1>2, <2>1
    <3> HIDE DEF keys, ss
    <3> QED BY <3>1, <2>1, <2>2, ExternalCodeMapped
  <2> HIDE DEF ss, L
  <2> QED BY <2>3, <2>4 DEF Keyed
<1>4. \A k \in DOMAIN own : CodeFixed[own[k]] = [at |-> ExternalCodePlaces[k], means |-> ExternalCodeMeans[k]]
  BY <1>1 DEF CodeFixed, ExternalCodePlaces, ExternalCodeMeans
<1>5. ASSUME NEW k \in DOMAIN own, NEW A, A = {own[k]}, \A j \in DOMAIN own : own[j] = own[k] => j = k,
             NEW g \in DOMAIN ss, KeyAt(Relocs, KeyOf, g) = KeyOf[own[k]]
      PROVE  Sole(CodeWalk[g], A, own[k])
  <2> DEFINE e == own[k]
             u == ListOf(g, "uleb")
             v == ListOf(g, "sleb")
  <2>1. SymbolKey(e) = Firsts(RelocKeys)[g]
    BY <1>1, <1>5, KeyOfIs DEF KeyOf
  <2>2. e.type \in CodeTypes
    BY DEF PartsTyped, Typed
  <2>3. Sole(Relocs, A, e)
    <3>1. Sole(own, A, e)
      BY <1>5 DEF Sole
    <3>2. e \notin ToSet(parts.extData)
      <4>1. e.type \notin DataTypes
        BY <2>2 DEF CodeTypes, DataTypes
      <4> QED BY <4>1 DEF PartsTyped, Typed, ToSet
    <3>3. NoneIn(parts.extData, A)
      BY <3>2, <1>5 DEF NoneIn, ToSet
    <3> HIDE DEF e
    <3> QED BY <1>1, <3>1, <3>3, ConcatOneLeft DEF Relocs
  <2>4. CodeWalk[g] = u \o v
    BY DEF CodeWalk
  <2>5. IsSeq(u) /\ IsSeq(v)
    BY ListIs
  <2>6. CASE IsList(e, "uleb")
    <3>1. Sole(u, A, e)
      BY <2>1, <2>3, <2>6, ListIs
    <3>2. ~IsList(e, "sleb")
      BY <2>6 DEF IsList
    <3>3. NoneIn(v, A)
      BY <1>5, <3>2, ListIs
    <3> HIDE DEF u, v
    <3> QED BY <2>4, <2>5, <3>1, <3>3, ConcatOneLeft
  <2>7. CASE ~IsList(e, "uleb")
    <3>1. IsList(e, "sleb")
      BY <2>2, <2>7 DEF IsList, CodeTypes
    <3>2. Sole(v, A, e)
      BY <2>1, <2>3, <3>1, ListIs
    <3>3. NoneIn(u, A)
      BY <1>5, <2>7, ListIs
    <3> HIDE DEF u, v
    <3> QED BY <2>4, <2>5, <3>2, <3>3, ConcatOneRight
  <2> QED BY <2>6, <2>7
<1>11. ASSUME NEW k \in DOMAIN own, NEW g \in DOMAIN ss, KeyAt(Relocs, KeyOf, g) = KeyOf[own[k]]
       PROVE  own[k] \in ToSet(CodeWalk[g])
  <2> DEFINE u == ListOf(g, "uleb")
             v == ListOf(g, "sleb")
  <2>1. SymbolKey(own[k]) = Firsts(RelocKeys)[g]
    BY <1>1, <1>11, KeyOfIs DEF KeyOf
  <2>2. own[k].type \in CodeTypes
    BY DEF PartsTyped, Typed
  <2>3. IsList(own[k], "uleb") \/ IsList(own[k], "sleb")
    BY <2>2 DEF IsList, CodeTypes
  <2>4. CodeWalk[g] = u \o v
    BY DEF CodeWalk
  <2>5. own[k] \in ToSet(u) \cup ToSet(v)
    BY <1>1, <2>1, <2>3, ListIs
  <2>6. IsSeq(u) /\ IsSeq(v)
    BY ListIs
  <2> HIDE DEF u, v, own
  <2> QED BY <2>4, <2>5, <2>6, ConcatToSet
<1>6. DOMAIN ExternalCodePlaces = DOMAIN own
  BY DEF ExternalCodePlaces
<1>7. \A r \in ToSet(Relocs) : r \in L => \E k \in DOMAIN own : r = own[k]
  BY DEF ToSet
<1> DEFINE S == ToSet(FlattenSeq(ss)) \cup {CodeFixed[own[k]] : k \in DOMAIN own}
           H == [x \in S |-> x]
<1>8. \A k \in DOMAIN own : H[CodeFixed[own[k]]] = [at |-> ExternalCodePlaces[k], means |-> ExternalCodeMeans[k]]
  BY <1>4
<1> HIDE DEF ss, L, own
<1>9. Mapped(FlattenSeq(ss), FlattenSeq(ss), H)
  <2>1. IsSeq(FlattenSeq(ss)) /\ ToSet(FlattenSeq(ss)) \subseteq S
    BY <1>1, <1>3, KeyedIs
  <2> HIDE DEF S
  <2> QED BY <2>1, MappedSelf
<1> HIDE DEF H, S
<1>10. Says(FlattenSeq(ss), ExternalCodePlaces, ExternalCodeMeans)
  BY <1>1, <1>3, <1>5, <1>6, <1>7, <1>8, <1>9, <1>11, KeyedSays, SMTT(60)
<1> QED BY <1>10 DEF ss

LEMMA ExternalDataMapped ==
    ASSUME PartsInv, PartsTyped, NEW g \in DOMAIN ExternalGroups
    PROVE  /\ IsSeq(DataWalk[g])
           /\ Mapped(ExternalData(ExternalGroups[g]), DataWalk[g], DataFixed)
           /\ \A x \in ToSet(DataWalk[g]) :
                 /\ x \in ToSet(Relocs) /\ x \in ToSet(parts.extData)
                 /\ SymbolKey(x) = Firsts(RelocKeys)[g]
<1> DEFINE v == ListOf(g, "data")
           group == ExternalGroups[g]
           fixes == [k \in DOMAIN group.data |->
                        [at |-> <<group.data[k][1], group.data[k][2]>>, means |-> ByName(group.key, group.data[k][3])]]
<1>1. /\ group.key = Firsts(RelocKeys)[g]
      /\ group.data = [k \in DOMAIN v |-> ExternalPair(v[k])]
  BY GroupLists
<1>2. IsSeq(v) /\ \A x \in ToSet(v) : x \in ToSet(Relocs) /\ SymbolKey(x) = Firsts(RelocKeys)[g] /\ IsList(x, "data")
  BY ListIs
<1>3. DataWalk[g] = v
  BY DEF DataWalk
<1> HIDE DEF v, group
<1>4. ASSUME NEW x \in ToSet(v)
      PROVE  /\ x \in ToSet(parts.extData)
             /\ ExternalPair(x) = <<DataPlace(x)[1], DataPlace(x)[2], x.addend>>
  <2>1. x \in ToSet(Relocs) /\ IsList(x, "data")
    BY <1>2
  <2>2. x.type \in DataTypes
    BY <2>1 DEF IsList, DataTypes
  <2>3. x.type \notin CodeTypes
    BY <2>2 DEF CodeTypes, DataTypes
  <2>4. x \notin ToSet(parts.extCode)
    BY <2>3 DEF PartsTyped, Typed, ToSet
  <2> QED BY <2>1, <2>4, RelocsAre DEF ExternalPair, DataPlace
<1>5. ASSUME NEW k \in DOMAIN v PROVE fixes[k] = DataFixed[v[k]]
  <2>1. v[k] \in ToSet(v)
    BY DEF ToSet
  <2>2. k \in DOMAIN group.data /\ group.data[k] = <<DataPlace(v[k])[1], DataPlace(v[k])[2], v[k].addend>>
    BY <1>1, <1>4, <2>1
  <2>3. v[k] \in ToSet(Relocs) /\ SymbolKey(v[k]) = group.key
    BY <2>1, <1>1, <1>2
  <2>4. fixes[k] = [at |-> <<DataPlace(v[k])[1], DataPlace(v[k])[2]>>, means |-> ByName(SymbolKey(v[k]), v[k].addend)]
    BY <2>2, <2>3
  <2> QED BY <2>3, <2>4 DEF DataFixed, DataPlace
<1>6. Mapped(fixes, v, DataFixed)
  <2>1. DOMAIN fixes = DOMAIN v /\ fixes = [k \in DOMAIN v |-> fixes[k]]
    BY <1>1
  <2> HIDE DEF fixes
  <2> QED BY <2>1, <1>5 DEF Mapped
<1>7. ExternalData(ExternalGroups[g]) = fixes
  BY DEF ExternalData, group
<1> HIDE DEF fixes
<1> QED BY <1>2, <1>3, <1>4, <1>6, <1>7

\* They name each word that awaits one, with the symbol and the addend.
LEMMA ExternalDataSays ==
    ASSUME PartsInv, PartsTyped
    PROVE  Says(FlattenSeq([g \in DOMAIN ExternalGroups |-> ExternalData(ExternalGroups[g])]),
                ExternalDataPlaces, ExternalDataMeans)
<1> DEFINE ss == [g \in DOMAIN ExternalGroups |-> ExternalData(ExternalGroups[g])]
           own == parts.extData
           L == ToSet(parts.extData)
<1>1. /\ IsSeq(own) /\ IsSeq(parts.extCode) /\ IsSeq(Relocs) /\ \A k \in DOMAIN own : own[k] \in ToSet(Relocs)
  BY RelocsAre
<1>2. DOMAIN ExternalGroups = DOMAIN Firsts(RelocKeys)
  BY DEF ExternalGroups, RelocKeys, Relocs
<1>3. Keyed(ss, Relocs, KeyOf, L, DataFixed, DataWalk)
  <2> DEFINE keys == Firsts([k \in DOMAIN Relocs |-> KeyOf[Relocs[k]]])
  <2>1. keys = Firsts(RelocKeys)
    BY KeyOfIs
  <2>2. \A x \in ToSet(Relocs) : KeyOf[x] = SymbolKey(x)
    BY DEF KeyOf
  <2>3. DOMAIN ss = DOMAIN keys /\ ss = [g \in DOMAIN keys |-> ss[g]]
    BY <1>2, <2>1
  <2>4. ASSUME NEW g \in DOMAIN keys
        PROVE  /\ Mapped(ss[g], DataWalk[g], DataFixed) /\ IsSeq(DataWalk[g])
               /\ \A x \in ToSet(DataWalk[g]) : x \in ToSet(Relocs) /\ x \in L /\ KeyOf[x] = keys[g]
    <3>1. g \in DOMAIN ExternalGroups /\ ss[g] = ExternalData(ExternalGroups[g])
      BY <1>2, <2>1
    <3> HIDE DEF keys, ss
    <3> QED BY <3>1, <2>1, <2>2, ExternalDataMapped
  <2> HIDE DEF ss, L
  <2> QED BY <2>3, <2>4 DEF Keyed
<1>4. \A k \in DOMAIN own : DataFixed[own[k]] = [at |-> ExternalDataPlaces[k], means |-> ExternalDataMeans[k]]
  BY <1>1 DEF DataFixed, ExternalDataPlaces, ExternalDataMeans
<1>5. ASSUME NEW k \in DOMAIN own, NEW A, A = {own[k]}, \A j \in DOMAIN own : own[j] = own[k] => j = k,
             NEW g \in DOMAIN ss, KeyAt(Relocs, KeyOf, g) = KeyOf[own[k]]
      PROVE  Sole(DataWalk[g], A, own[k])
  <2> DEFINE e == own[k]
  <2>1. SymbolKey(e) = Firsts(RelocKeys)[g]
    BY <1>1, <1>5, KeyOfIs DEF KeyOf
  <2>2. e.type \in DataTypes
    BY DEF PartsTyped, Typed
  <2>3. Sole(Relocs, A, e)
    <3>1. Sole(own, A, e)
      BY <1>5 DEF Sole
    <3>2. e \notin ToSet(parts.extCode)
      <4>1. e.type \notin CodeTypes
        BY <2>2 DEF CodeTypes, DataTypes
      <4> QED BY <4>1 DEF PartsTyped, Typed, ToSet
    <3>3. NoneIn(parts.extCode, A)
      BY <3>2, <1>5 DEF NoneIn, ToSet
    <3> HIDE DEF e
    <3> QED BY <1>1, <3>1, <3>3, ConcatOneRight DEF Relocs
  <2>4. DataWalk[g] = ListOf(g, "data")
    BY DEF DataWalk
  <2>5. IsList(e, "data")
    BY <2>2 DEF IsList, DataTypes
  <2> QED BY <2>1, <2>3, <2>4, <2>5, ListIs
<1>11. ASSUME NEW k \in DOMAIN own, NEW g \in DOMAIN ss, KeyAt(Relocs, KeyOf, g) = KeyOf[own[k]]
       PROVE  own[k] \in ToSet(DataWalk[g])
  <2>1. SymbolKey(own[k]) = Firsts(RelocKeys)[g]
    BY <1>1, <1>11, KeyOfIs DEF KeyOf
  <2>2. own[k].type \in DataTypes
    BY DEF PartsTyped, Typed
  <2>3. IsList(own[k], "data")
    BY <2>2 DEF IsList, DataTypes
  <2>4. DataWalk[g] = ListOf(g, "data")
    BY DEF DataWalk
  <2> QED BY <1>1, <2>1, <2>3, <2>4, ListIs
<1>6. DOMAIN ExternalDataPlaces = DOMAIN own
  BY DEF ExternalDataPlaces
<1>7. \A r \in ToSet(Relocs) : r \in L => \E k \in DOMAIN own : r = own[k]
  BY DEF ToSet
<1> DEFINE S == ToSet(FlattenSeq(ss)) \cup {DataFixed[own[k]] : k \in DOMAIN own}
           H == [x \in S |-> x]
<1>8. \A k \in DOMAIN own : H[DataFixed[own[k]]] = [at |-> ExternalDataPlaces[k], means |-> ExternalDataMeans[k]]
  BY <1>4
<1> HIDE DEF ss, L, own
<1>9. Mapped(FlattenSeq(ss), FlattenSeq(ss), H)
  <2>1. IsSeq(FlattenSeq(ss)) /\ ToSet(FlattenSeq(ss)) \subseteq S
    BY <1>1, <1>3, KeyedIs
  <2> HIDE DEF S
  <2> QED BY <2>1, MappedSelf
<1> HIDE DEF H, S
<1>10. Says(FlattenSeq(ss), ExternalDataPlaces, ExternalDataMeans)
  BY <1>1, <1>3, <1>5, <1>6, <1>7, <1>8, <1>9, <1>11, KeyedSays, SMTT(60)
<1> QED BY <1>10 DEF ss

\* The groups that the module answers name each instruction of its own, with
\* the place in it that is meant.
LEMMA InternalCodeSays ==
    ASSUME IsSeq(parts.intCode), NEW groups, groups = Groups(parts.intCode, CodeKey, CodePair)
    PROVE  Says(CodeSaid(groups), InternalCodePlaces, InternalCodeMeans)
<1> DEFINE relocs == parts.intCode
           K == [r \in ToSet(relocs) |-> CodeKey(r)]
           P == [r \in ToSet(relocs) |-> CodePair(r)]
           keyOf == [k \in DOMAIN relocs |-> CodeKey(relocs[k])]
           flat == FlattenSeq(FlatOf(groups))
           S == ToSet(flat) \cup {[key |-> CodeKey(r), pair |-> CodePair(r)] : r \in ToSet(relocs)}
           H == [x \in S |-> InternalCode(x)]
<1>1. \A k \in DOMAIN relocs : relocs[k] \in ToSet(relocs)
  BY DEF ToSet
<1>2. keyOf = [k \in DOMAIN relocs |-> K[relocs[k]]]
  BY <1>1
<1>3. Paired(groups, relocs, K, P)
  <2> DEFINE keys == Firsts(keyOf)
             Of(g) == Where(relocs, {r \in ToSet(relocs) : CodeKey(r) = keys[g]})
  <2>1. groups = [g \in DOMAIN keys |-> [key |-> keys[g], pairs |-> [k \in DOMAIN Of(g) |-> CodePair(Of(g)[k])]]]
    BY DEF Groups
  <2>2. ASSUME NEW g \in DOMAIN keys
        PROVE  LET W == Where(relocs, {r \in ToSet(relocs) : K[r] = keys[g]})
               IN  groups[g].key = keys[g] /\ groups[g].pairs = [k \in DOMAIN W |-> P[W[k]]]
    <3>1. {r \in ToSet(relocs) : K[r] = keys[g]} = {r \in ToSet(relocs) : CodeKey(r) = keys[g]}
      <4> HIDE DEF keys
      <4> QED OBVIOUS
    <3> DEFINE W == Where(relocs, {r \in ToSet(relocs) : CodeKey(r) = keys[g]})
    <3>2. groups[g].key = keys[g] /\ groups[g].pairs = [k \in DOMAIN W |-> CodePair(W[k])]
      BY <2>1
    <3>3. \A k \in DOMAIN W : W[k] \in ToSet(relocs)
      <4>1. ToSet(W) \subseteq ToSet(relocs)
        BY WhereIs
      <4> HIDE DEF W, relocs
      <4> QED BY <4>1 DEF ToSet
    <3>4. \A k \in DOMAIN W : CodePair(W[k]) = P[W[k]]
      <4> HIDE DEF W
      <4> QED BY <3>3
    <3>5. [k \in DOMAIN W |-> CodePair(W[k])] = [k \in DOMAIN W |-> P[W[k]]]
      <4> HIDE DEF W, P
      <4> QED BY <3>4
    <3> HIDE DEF keyOf, P
    <3> QED BY <3>1, <3>2, <3>5
  <2>3. DOMAIN groups = DOMAIN keys
    BY <2>1
  <2>4. keys = Firsts([k \in DOMAIN relocs |-> K[relocs[k]]])
    BY <1>2
  <2> HIDE DEF K, P, relocs, keys, keyOf
  <2> QED BY <2>2, <2>3, <2>4 DEF Paired
<1>4. CodeSaid(groups) = [k \in DOMAIN flat |-> InternalCode(flat[k])]
  BY DEF CodeSaid, AllGroups, FlatOf
<1>5. Mapped(CodeSaid(groups), flat, H)
  <2>1. \A k \in DOMAIN flat : flat[k] \in S
    BY DEF ToSet
  <2> HIDE DEF flat, S
  <2> QED BY <1>4, <2>1 DEF Mapped
<1>6. ASSUME NEW k \in DOMAIN relocs
      PROVE  H[[key |-> K[relocs[k]], pair |-> P[relocs[k]]]] = [at |-> InternalCodePlaces[k], means |-> InternalCodeMeans[k]]
  <2> DEFINE r == relocs[k]
             x == [key |-> CodeKey(r), pair |-> CodePair(r)]
  <2>1. K[r] = CodeKey(r) /\ P[r] = CodePair(r) /\ x \in S
    BY <1>1
  <2>2. InternalCode(x) = [at |-> CodeOffset(r.inst), means |-> Means(r)]
    BY DEF InternalCode, CodeKey, CodePair, Means
  <2>3. InternalCodePlaces[k] = CodeOffset(r.inst) /\ InternalCodeMeans[k] = Means(r)
    BY DEF InternalCodePlaces, InternalCodeMeans
  <2> HIDE DEF S, K, P
  <2> QED BY <2>1, <2>2, <2>3
<1>7. DOMAIN InternalCodePlaces = DOMAIN relocs
  BY DEF InternalCodePlaces
<1> HIDE DEF H, K, P, S, relocs, flat
<1> QED BY <1>3, <1>5, <1>6, <1>7, PairedSays, SMTT(60) DEF flat, relocs

\* The same for the words of its data.
LEMMA InternalDataSays ==
    ASSUME IsSeq(parts.intData), NEW groups, groups = Groups(parts.intData, DataKey, DataPair)
    PROVE  Says(DataSaid(groups), InternalDataPlaces, InternalDataMeans)
<1> DEFINE relocs == parts.intData
           K == [r \in ToSet(relocs) |-> DataKey(r)]
           P == [r \in ToSet(relocs) |-> DataPair(r)]
           keyOf == [k \in DOMAIN relocs |-> DataKey(relocs[k])]
           flat == FlattenSeq(FlatOf(groups))
           S == ToSet(flat) \cup {[key |-> DataKey(r), pair |-> DataPair(r)] : r \in ToSet(relocs)}
           H == [x \in S |-> InternalData(x)]
<1>1. \A k \in DOMAIN relocs : relocs[k] \in ToSet(relocs)
  BY DEF ToSet
<1>2. keyOf = [k \in DOMAIN relocs |-> K[relocs[k]]]
  BY <1>1
<1>3. Paired(groups, relocs, K, P)
  <2> DEFINE keys == Firsts(keyOf)
             Of(g) == Where(relocs, {r \in ToSet(relocs) : DataKey(r) = keys[g]})
  <2>1. groups = [g \in DOMAIN keys |-> [key |-> keys[g], pairs |-> [k \in DOMAIN Of(g) |-> DataPair(Of(g)[k])]]]
    BY DEF Groups
  <2>2. ASSUME NEW g \in DOMAIN keys
        PROVE  LET W == Where(relocs, {r \in ToSet(relocs) : K[r] = keys[g]})
               IN  groups[g].key = keys[g] /\ groups[g].pairs = [k \in DOMAIN W |-> P[W[k]]]
    <3>1. {r \in ToSet(relocs) : K[r] = keys[g]} = {r \in ToSet(relocs) : DataKey(r) = keys[g]}
      <4> HIDE DEF keys
      <4> QED OBVIOUS
    <3> DEFINE W == Where(relocs, {r \in ToSet(relocs) : DataKey(r) = keys[g]})
    <3>2. groups[g].key = keys[g] /\ groups[g].pairs = [k \in DOMAIN W |-> DataPair(W[k])]
      BY <2>1
    <3>3. \A k \in DOMAIN W : W[k] \in ToSet(relocs)
      <4>1. ToSet(W) \subseteq ToSet(relocs)
        BY WhereIs
      <4> HIDE DEF W, relocs
      <4> QED BY <4>1 DEF ToSet
    <3>4. \A k \in DOMAIN W : DataPair(W[k]) = P[W[k]]
      <4> HIDE DEF W
      <4> QED BY <3>3
    <3>5. [k \in DOMAIN W |-> DataPair(W[k])] = [k \in DOMAIN W |-> P[W[k]]]
      <4> HIDE DEF W, P
      <4> QED BY <3>4
    <3> HIDE DEF keyOf, P
    <3> QED BY <3>1, <3>2, <3>5
  <2>3. DOMAIN groups = DOMAIN keys
    BY <2>1
  <2>4. keys = Firsts([k \in DOMAIN relocs |-> K[relocs[k]]])
    BY <1>2
  <2> HIDE DEF K, P, relocs, keys, keyOf
  <2> QED BY <2>2, <2>3, <2>4 DEF Paired
<1>4. DataSaid(groups) = [k \in DOMAIN flat |-> InternalData(flat[k])]
  BY DEF DataSaid, AllGroups, FlatOf
<1>5. Mapped(DataSaid(groups), flat, H)
  <2>1. \A k \in DOMAIN flat : flat[k] \in S
    BY DEF ToSet
  <2> HIDE DEF flat, S
  <2> QED BY <1>4, <2>1 DEF Mapped
<1>6. ASSUME NEW k \in DOMAIN relocs
      PROVE  H[[key |-> K[relocs[k]], pair |-> P[relocs[k]]]] = [at |-> InternalDataPlaces[k], means |-> InternalDataMeans[k]]
  <2> DEFINE r == relocs[k]
             x == [key |-> DataKey(r), pair |-> DataPair(r)]
  <2>1. K[r] = DataKey(r) /\ P[r] = DataPair(r) /\ x \in S
    BY <1>1
  <2>2. InternalData(x) = [at |-> DataPlace(r), means |-> Means(r)]
    BY DEF InternalData, DataKey, DataPair, DataPlace, Means
  <2>3. InternalDataPlaces[k] = DataPlace(r) /\ InternalDataMeans[k] = Means(r)
    BY DEF InternalDataPlaces, InternalDataMeans
  <2> HIDE DEF S, K, P
  <2> QED BY <2>1, <2>2, <2>3
<1>7. DOMAIN InternalDataPlaces = DOMAIN relocs
  BY DEF InternalDataPlaces
<1> HIDE DEF H, K, P, S, relocs, flat
<1> QED BY <1>3, <1>5, <1>6, <1>7, PairedSays, SMTT(60) DEF flat, relocs

LEMMA OffsetsStay ==
    ASSUME UNCHANGED Settled
    PROVE  BadOffset(parts.extCode)' = BadOffset(parts.extCode) /\ BadOffset(parts.intCode)' = BadOffset(parts.intCode)
<1> USE DEF Settled, BadOffset, Unplaced, CodeOffset, SelectInSeq
<1>1. BadOffset(parts.extCode)' = BadOffset(parts.extCode)
  OBVIOUS
<1>2. BadOffset(parts.intCode)' = BadOffset(parts.intCode)
  OBVIOUS
<1> QED BY <1>1, <1>2

LEMMA SectionsStay ==
    ASSUME UNCHANGED Settled
    PROVE  BadIndex(parts.extData)' = BadIndex(parts.extData) /\ BadIndex(parts.intData)' = BadIndex(parts.intData)
<1> USE DEF Settled, BadIndex, Unsectioned, HasSegment
<1>1. BadIndex(parts.extData)' = BadIndex(parts.extData)
  OBVIOUS
<1>2. BadIndex(parts.intData)' = BadIndex(parts.intData)
  OBVIOUS
<1> QED BY <1>1, <1>2

\* The places of the relocations of the code.
LEMMA CodePlacesStay ==
    ASSUME UNCHANGED Settled
    PROVE  ExternalCodePlaces' = ExternalCodePlaces /\ InternalCodePlaces' = InternalCodePlaces
BY DEF Settled, ExternalCodePlaces, InternalCodePlaces, CodeOffset, SelectInSeq

\* The places of the relocations of the data.
LEMMA DataPlacesStay ==
    ASSUME UNCHANGED Settled
    PROVE  ExternalDataPlaces' = ExternalDataPlaces /\ InternalDataPlaces' = InternalDataPlaces
<1> USE DEF Settled, DataPlace, SectionIndex, SectionOf, DataOffset, Rloc, HasSegment, Packed, SelectInSeq
<1>1. ExternalDataPlaces' = ExternalDataPlaces
  BY DEF ExternalDataPlaces
<1>2. InternalDataPlaces' = InternalDataPlaces
  BY DEF InternalDataPlaces
<1> QED BY <1>1, <1>2

LEMMA ExternalMeansStay ==
    ASSUME UNCHANGED Settled
    PROVE  ExternalCodeMeans' = ExternalCodeMeans /\ ExternalDataMeans' = ExternalDataMeans
BY DEF Settled, ExternalCodeMeans, ExternalDataMeans, SymbolKey, Referenced

LEMMA InternalMeansStay ==
    ASSUME UNCHANGED Settled
    PROVE  InternalCodeMeans' = InternalCodeMeans /\ InternalDataMeans' = InternalDataMeans
<1>1. InternalCodeMeans' = InternalCodeMeans
  BY SMTT(30) DEF Settled, InternalCodeMeans, Means, ByPlace, Source, PlaceOf, ElementOf, IndexIn, Referenced,
                  SectionIndex, SectionOf, Rloc, HasSegment, Packed, SelectInSeq
<1>2. InternalDataMeans' = InternalDataMeans
  BY SMTT(30) DEF Settled, InternalDataMeans, Means, ByPlace, Source, PlaceOf, ElementOf, IndexIn, Referenced,
                  SectionIndex, SectionOf, Rloc, HasSegment, Packed, SelectInSeq
<1> QED BY <1>1, <1>2

LEMMA SourceStays ==
    ASSUME UNCHANGED Settled, NEW r
    PROVE  Source(r)' = Source(r)
BY DEF Settled, Source, PlaceOf, ElementOf, IndexIn, Referenced, SectionIndex, SectionOf,
       Rloc, HasSegment, Packed, SelectInSeq

LEMMA LostStay ==
    ASSUME UNCHANGED Settled, NoLost
    PROVE  NoLost'
<1>1. parts' = parts
  BY DEF Settled
<1>2. ASSUME NEW r \in ToSet(parts.intData) \cup ToSet(parts.intCode)
      PROVE  ~Lost(r)'
  <2>1. Referenced(r.ref)' = Referenced(r.ref)
    BY DEF Settled, Referenced
  <2> QED BY <1>2, <2>1, SourceStays DEF NoLost, Lost
<1> QED BY <1>1, <1>2 DEF NoLost

LEMMA FileInit == InitRelocs => FileInv
BY DEF InitRelocs, Init, FileInv

LEMMA FileExternal ==
    ASSUME FileInv, PartsInv, PartsTyped, GroupsInv, EncodeExternal
    PROVE  FileInv'
<1>1. UNCHANGED Settled
  BY DEF EncodeExternal, Settled, linkVars
<1>2. CASE BadOffset(parts.extCode) \/ BadIndex(parts.extData)
  BY <1>2 DEF EncodeExternal, FileInv
<1>3. CASE ~BadOffset(parts.extCode) /\ ~BadIndex(parts.extData)
  <2>1. phase' = "internal" /\ file' = [file EXCEPT !.external = ExternalGroups]
    BY <1>3 DEF EncodeExternal, Goto
  <2>2. file'.external = ExternalGroups
    BY <2>1 DEF GroupsInv
  <2>3. ExternalCodeFixes' = FlattenSeq([g \in DOMAIN ExternalGroups |-> ExternalCode(ExternalGroups[g])])
    BY <2>2 DEF ExternalCodeFixes, ExternalCode, ByName
  <2>4. ExternalDataFixes' = FlattenSeq([g \in DOMAIN ExternalGroups |-> ExternalData(ExternalGroups[g])])
    BY <2>2 DEF ExternalDataFixes, ExternalData, ByName
  <2>5. /\ Says(ExternalCodeFixes', ExternalCodePlaces', ExternalCodeMeans')
        /\ Says(ExternalDataFixes', ExternalDataPlaces', ExternalDataMeans')
    BY <1>1, <2>3, <2>4, CodePlacesStay, DataPlacesStay, ExternalMeansStay, ExternalCodeSays, ExternalDataSays
  <2>6. ~BadOffset(parts.extCode)' /\ ~BadIndex(parts.extData)'
    BY <1>1, <1>3, OffsetsStay, SectionsStay
  <2> QED BY <2>1, <2>5, <2>6 DEF FileInv
<1> QED BY <1>2, <1>3

LEMMA NoneWhere ==
    ASSUME NEW s, IsSeq(s), NEW A, Where(s, A) = <<>>
    PROVE  \A x \in ToSet(s) : x \notin A
<1>1. ToSet(Where(s, A)) = ToSet(s) \cap A
  BY WhereIs
<1>2. ToSet(Where(s, A)) = {}
  BY EmptyIsSeq DEF ToSet
<1> QED BY <1>1, <1>2

\* The relocations that end the encoding of those that the module answers: of
\* the data, and of the code.
FailingData == Where(parts.intData, {r \in ToSet(parts.intData) : Lost(r)})

FailingCode == Where(parts.intCode, {r \in ToSet(parts.intCode) : Lost(r) \/ Unplaced(r)})

LEMMA FailingAre ==
    ASSUME PartsInv
    PROVE  /\ IsSeq(FailingData) /\ ToSet(FailingData) = {r \in ToSet(parts.intData) : Lost(r)}
           /\ IsSeq(FailingCode) /\ ToSet(FailingCode) = {r \in ToSet(parts.intCode) : Lost(r) \/ Unplaced(r)}
           /\ IsSeq(FailingData \o FailingCode)
           /\ ToSet(FailingData \o FailingCode) = ToSet(FailingData) \cup ToSet(FailingCode)
<1>1. IsSeq(parts.intData) /\ IsSeq(parts.intCode)
  BY DEF PartsInv
<1>2. IsSeq(FailingData) /\ ToSet(FailingData) = {r \in ToSet(parts.intData) : Lost(r)}
  BY <1>1, WhereIs DEF FailingData
<1>3. IsSeq(FailingCode) /\ ToSet(FailingCode) = {r \in ToSet(parts.intCode) : Lost(r) \/ Unplaced(r)}
  BY <1>1, WhereIs DEF FailingCode
<1> QED BY <1>2, <1>3, ConcatIsSeq, ConcatToSet

LEMMA NoneFailing ==
    ASSUME PartsInv, FailingData \o FailingCode = <<>>
    PROVE  NoLost /\ ~BadOffset(parts.intCode)
<1>1. ToSet(FailingData \o FailingCode) = {}
  BY EmptyIsSeq DEF ToSet
<1>2. /\ \A r \in ToSet(parts.intData) : ~Lost(r)
      /\ \A r \in ToSet(parts.intCode) : ~Lost(r) /\ ~Unplaced(r)
  BY <1>1, FailingAre
<1>3. \A k \in DOMAIN parts.intCode : ~Unplaced(parts.intCode[k])
  BY <1>2 DEF ToSet
<1> QED BY <1>2, <1>3 DEF NoLost, BadOffset

LEMMA InternalIs ==
    ASSUME EncodeInternal
    PROVE  IF FailingData \o FailingCode # <<>> THEN phase' = Failure((FailingData \o FailingCode)[1])
           ELSE IF BadIndex(parts.intData) THEN phase' = "INVALID_DST_IDX"
           ELSE /\ phase' = "written"
                /\ file' = [file EXCEPT !.data = Groups(parts.intData, DataKey, DataPair),
                                        !.code = Groups(parts.intCode, CodeKey, CodePair)]
BY DEF EncodeInternal, FailingData, FailingCode, Goto

LEMMA FileInternal ==
    ASSUME FileInv, PartsInv, GroupsInv, EncodeInternal
    PROVE  FileInv'
<1>1. UNCHANGED Settled /\ phase = "internal"
  BY DEF EncodeInternal, Settled, linkVars
<1>2. CASE phase' # "written"
  <2>1. phase' \notin {"internal", "written"}
    BY <1>2, InternalIs DEF Failure
  <2> QED BY <2>1 DEF FileInv
<1>3. CASE phase' = "written"
  <2>1. /\ FailingData \o FailingCode = <<>> /\ ~BadIndex(parts.intData)
        /\ file' = [file EXCEPT !.data = Groups(parts.intData, DataKey, DataPair),
                                !.code = Groups(parts.intCode, CodeKey, CodePair)]
    BY <1>3, InternalIs DEF Failure
  <2>2. IsSeq(parts.intData) /\ IsSeq(parts.intCode)
    BY DEF PartsInv
  <2>3. NoLost /\ ~BadOffset(parts.intCode)
    BY <2>1, NoneFailing
  <2>4. /\ file'.external = file.external
        /\ file'.data = Groups(parts.intData, DataKey, DataPair)
        /\ file'.code = Groups(parts.intCode, CodeKey, CodePair)
    BY <2>1 DEF GroupsInv
  <2>5. ExternalCodeFixes' = ExternalCodeFixes /\ ExternalDataFixes' = ExternalDataFixes
    BY <2>4 DEF ExternalCodeFixes, ExternalDataFixes, ExternalCode, ExternalData, ByName
  <2>6. /\ ~BadOffset(parts.extCode) /\ ~BadIndex(parts.extData)
        /\ Says(ExternalCodeFixes, ExternalCodePlaces, ExternalCodeMeans)
        /\ Says(ExternalDataFixes, ExternalDataPlaces, ExternalDataMeans)
    BY <1>1 DEF FileInv
  <2>7. /\ ~BadOffset(parts.extCode)' /\ ~BadOffset(parts.intCode)' /\ NoLost'
        /\ ~BadIndex(parts.extData)' /\ ~BadIndex(parts.intData)'
        /\ Says(ExternalCodeFixes', ExternalCodePlaces', ExternalCodeMeans')
        /\ Says(ExternalDataFixes', ExternalDataPlaces', ExternalDataMeans')
    BY <1>1, <2>1, <2>3, <2>5, <2>6, OffsetsStay, SectionsStay, LostStay, CodePlacesStay, DataPlacesStay,
       ExternalMeansStay
  <2>8. Says(InternalCodeFixes', InternalCodePlaces', InternalCodeMeans')
    <3>1. PICK groups : groups = Groups(parts.intCode, CodeKey, CodePair)
      OBVIOUS
    <3>2. file'.code = groups
      BY <2>4, <3>1
    <3>3. InternalCodeFixes' = CodeSaid(groups)
      BY <1>1, <3>2 DEF Settled, InternalCodeFixes, CodeSaid, InternalCode, ByPlace
    <3>4. Says(CodeSaid(groups), InternalCodePlaces, InternalCodeMeans)
      BY <2>2, <3>1, InternalCodeSays
    <3> QED BY <1>1, <3>3, <3>4, CodePlacesStay, InternalMeansStay
  <2>9. Says(InternalDataFixes', InternalDataPlaces', InternalDataMeans')
    <3>1. PICK groups : groups = Groups(parts.intData, DataKey, DataPair)
      OBVIOUS
    <3>2. file'.data = groups
      BY <2>4, <3>1
    <3>3. InternalDataFixes' = DataSaid(groups)
      BY <1>1, <3>2 DEF Settled, InternalDataFixes, DataSaid, InternalData, ByPlace
    <3>4. Says(DataSaid(groups), InternalDataPlaces, InternalDataMeans)
      BY <2>2, <3>1, InternalDataSays
    <3> QED BY <1>1, <3>3, <3>4, DataPlacesStay, InternalMeansStay
  <2> QED BY <2>7, <2>8, <2>9 DEF FileInv
<1> QED BY <1>2, <1>3

LEMMA FileStep == FileInv /\ PartsInv /\ PartsTyped /\ GroupsInv /\ [Next]_vars => FileInv'
<1> SUFFICES ASSUME FileInv, PartsInv, PartsTyped, GroupsInv, [Next]_vars PROVE FileInv'
  OBVIOUS
<1>1. CASE EncodeExternal
  BY <1>1, FileExternal
<1>2. CASE EncodeInternal
  BY <1>2, FileInternal
<1>3. CASE phase' \notin {"internal", "written"}
  BY <1>3 DEF FileInv
<1>4. CASE UNCHANGED vars
  <2>1. UNCHANGED Settled /\ phase' = phase /\ file' = file
    BY <1>4 DEF vars, linkVars, relocVars, Settled
  <2>2. /\ ExternalCodeFixes' = ExternalCodeFixes /\ ExternalDataFixes' = ExternalDataFixes
    BY <2>1 DEF ExternalCodeFixes, ExternalDataFixes, ExternalCode, ExternalData, ByName
  <2>3. /\ InternalCodeFixes' = InternalCodeFixes /\ InternalDataFixes' = InternalDataFixes
    BY <2>1 DEF Settled, InternalCodeFixes, InternalDataFixes, InternalCode, InternalData, ByPlace
  <2>4. CASE phase \in {"internal", "written"}
    BY <2>1, <2>2, <2>3, <2>4, OffsetsStay, SectionsStay, LostStay, CodePlacesStay, DataPlacesStay,
       ExternalMeansStay, InternalMeansStay DEF FileInv
  <2>5. CASE phase \notin {"internal", "written"}
    BY <2>1, <2>5 DEF FileInv
  <2> QED BY <2>4, <2>5
<1>5. ASSUME (LinkNext /\ UNCHANGED relocVars) \/ RelocNext, ~EncodeExternal, ~EncodeInternal
      PROVE  phase' \notin {"internal", "written"}
  BY <1>5 DEF LinkNext, Resolve, ResolveDone, ReplaceImport, RetargetImports, RemoveImport, RemoveImportDone,
     RetargetCall, RetargetCallDone, MergeStrings, RelocNext, CollectCode, CollectCodeDone, CollectData, CreateElements,
     Export, SetupCommonData, GenerateExports, CreateInitArray, PartitionMethods, CreateTableCtor, SetupModuleData,
     WriteHeader, Validate, Goto
<1>6. [Next]_vars => (LinkNext /\ UNCHANGED relocVars) \/ RelocNext \/ UNCHANGED vars
  BY DEF Next, Stopped
<1> QED BY <1>1, <1>2, <1>3, <1>4, <1>5, <1>6

\* What two sets of fixes say of a place that one of them names.
LEMMA SaidLeft ==
    ASSUME NEW f, NEW fat, NEW fmeans, Says(f, fat, fmeans), NEW g, NEW gat, NEW gmeans, Says(g, gat, gmeans),
           NEW k \in DOMAIN fat, \A j \in DOMAIN fat : fat[j] = fat[k] => j = k,
           \A j \in DOMAIN gat : gat[j] # fat[k]
    PROVE  At(f \o g, fat[k]) = <<[at |-> fat[k], means |-> fmeans[k]]>>
<1> DEFINE p == fat[k]
           e == [at |-> p, means |-> fmeans[k]]
           T == {x \in ToSet(f \o g) : x.at = p}
<1>1. IsSeq(f) /\ IsSeq(g) /\ IsSeq(f \o g) /\ ToSet(f \o g) = ToSet(f) \cup ToSet(g)
  BY ConcatIsSeq, ConcatToSet DEF Says
<1>2. PICK n \in DOMAIN f : f[n] = e /\ \A m \in DOMAIN f : f[m].at = p => m = n
  BY DEF Says
<1>3. e \in T
  <2>1. e \in ToSet(f) /\ e.at = p
    BY <1>2 DEF ToSet
  <2> QED BY <1>1, <2>1
<1>4. Sole(f, T, e)
  <2>1. \A x \in T : x.at = p
    OBVIOUS
  <2> HIDE DEF T, e
  <2> QED BY <1>2, <1>3, <2>1 DEF Sole
<1>5. NoneIn(g, T)
  <2>1. \A x \in T : x.at = p
    OBVIOUS
  <2>2. \A j \in DOMAIN g : g[j].at # p
    BY DEF Says
  <2> HIDE DEF T
  <2> QED BY <2>1, <2>2 DEF NoneIn
<1>6. Sole(f \o g, T, e)
  <2> HIDE DEF T, e
  <2> QED BY <1>1, <1>4, <1>5, ConcatOneLeft
<1>7. Where(f \o g, T) = <<e>>
  <2> HIDE DEF T, e
  <2> QED BY <1>1, <1>6, WhereSingle
<1> QED BY <1>7 DEF At

LEMMA SaidRight ==
    ASSUME NEW f, NEW fat, NEW fmeans, Says(f, fat, fmeans), NEW g, NEW gat, NEW gmeans, Says(g, gat, gmeans),
           NEW k \in DOMAIN gat, \A j \in DOMAIN gat : gat[j] = gat[k] => j = k,
           \A j \in DOMAIN fat : fat[j] # gat[k]
    PROVE  At(f \o g, gat[k]) = <<[at |-> gat[k], means |-> gmeans[k]]>>
<1> DEFINE p == gat[k]
           e == [at |-> p, means |-> gmeans[k]]
           T == {x \in ToSet(f \o g) : x.at = p}
<1>1. IsSeq(f) /\ IsSeq(g) /\ IsSeq(f \o g) /\ ToSet(f \o g) = ToSet(f) \cup ToSet(g)
  BY ConcatIsSeq, ConcatToSet DEF Says
<1>2. PICK n \in DOMAIN g : g[n] = e /\ \A m \in DOMAIN g : g[m].at = p => m = n
  BY DEF Says
<1>3. e \in T
  <2>1. e \in ToSet(g) /\ e.at = p
    BY <1>2 DEF ToSet
  <2> QED BY <1>1, <2>1
<1>4. Sole(g, T, e)
  <2>1. \A x \in T : x.at = p
    OBVIOUS
  <2> HIDE DEF T, e
  <2> QED BY <1>2, <1>3, <2>1 DEF Sole
<1>5. NoneIn(f, T)
  <2>1. \A x \in T : x.at = p
    OBVIOUS
  <2>2. \A j \in DOMAIN f : f[j].at # p
    BY DEF Says
  <2> HIDE DEF T
  <2> QED BY <2>1, <2>2 DEF NoneIn
<1>6. Sole(f \o g, T, e)
  <2> HIDE DEF T, e
  <2> QED BY <1>1, <1>4, <1>5, ConcatOneRight
<1>7. Where(f \o g, T) = <<e>>
  <2> HIDE DEF T, e
  <2> QED BY <1>1, <1>6, WhereSingle
<1> QED BY <1>7 DEF At

----------------------------------------------------------------------------
(* What a symbol stands for while the dylibs are looked at.                *)

\* Two sets of fixes name a place for one thing, however often.
LEMMA SaidAt ==
    ASSUME NEW f, NEW fat, NEW fmeans, Says(f, fat, fmeans), NEW g, NEW gat, NEW gmeans, Says(g, gat, gmeans),
           NEW p, NEW m, (\E k \in DOMAIN fat : fat[k] = p) \/ (\E k \in DOMAIN gat : gat[k] = p),
           \A k \in DOMAIN fat : fat[k] = p => fmeans[k] = m,
           \A k \in DOMAIN gat : gat[k] = p => gmeans[k] = m
    PROVE  Naming(At(f \o g, p), m)
<1> DEFINE fixes == f \o g
           T == {x \in ToSet(fixes) : x.at = p}
           s == At(fixes, p)
<1>1. IsSeq(fixes) /\ ToSet(fixes) = ToSet(f) \cup ToSet(g)
  BY ConcatIsSeq, ConcatToSet DEF Says
<1>2. IsSeq(s) /\ ToSet(s) = T
  <2>1. s = Where(fixes, T)
    BY DEF At
  <2> HIDE DEF s, fixes
  <2> QED BY <1>1, <2>1, WhereIs
<1>3. \E x \in ToSet(f) \cup ToSet(g) : x.at = p
  <2>1. CASE \E k \in DOMAIN fat : fat[k] = p
    BY <2>1 DEF Says, ToSet
  <2>2. CASE \E k \in DOMAIN gat : gat[k] = p
    BY <2>2 DEF Says, ToSet
  <2> QED BY <2>1, <2>2
<1>4. ASSUME NEW x \in ToSet(f), x.at = p PROVE x.means = m
  <2>1. PICK k \in DOMAIN fat : x = [at |-> fat[k], means |-> fmeans[k]]
    BY DEF Says, ToSet
  <2>2. fat[k] = p /\ x.means = fmeans[k]
    BY <1>4, <2>1
  <2> QED BY <2>2
<1>5. ASSUME NEW x \in ToSet(g), x.at = p PROVE x.means = m
  <2>1. PICK k \in DOMAIN gat : x = [at |-> gat[k], means |-> gmeans[k]]
    BY DEF Says, ToSet
  <2>2. gat[k] = p /\ x.means = gmeans[k]
    BY <1>5, <2>1
  <2> QED BY <2>2
<1>6. \A x \in T : x.means = m
  <2> HIDE DEF fixes
  <2> QED BY <1>1, <1>4, <1>5
<1>7. T # {}
  <2> HIDE DEF fixes
  <2> QED BY <1>1, <1>3
<1> HIDE DEF s, T
<1>8. s # <<>>
  <2>1. ToSet(<<>>) = {}
    BY EmptyIsSeq DEF ToSet
  <2> QED BY <1>2, <1>7, <2>1
<1>9. \A n \in DOMAIN s : s[n] \in T
  BY <1>2 DEF ToSet
<1> QED BY <1>6, <1>8, <1>9 DEF s, Naming

LEMMA FindFuncIs ==
    ASSUME NEW name, FindFunc(name) # Nothing
    PROVE  /\ FindFunc(name).is \in {"import", "runtime"} /\ FindFunc(name).name = name
           /\ FindFunc(name) = [is |-> FindFunc(name).is, module |-> FindFunc(name).module, name |-> name]
<1>1. \A l : ResolveFunc(l, name) =
                [is |-> ResolveFunc(l, name).is, module |-> ResolveFunc(l, name).module, name |-> name]
             /\ ResolveFunc(l, name).is \in {"import", "runtime"}
  BY DEF ResolveFunc, Import, Runtime
<1>2. PICK l : FindFunc(name) = ResolveFunc(l, name)
  BY DEF FindFunc
<1> QED BY <1>1, <1>2

LEMMA KeysPut ==
    ASSUME NEW map, IsSeq(map), NEW old, NEW new
    PROVE  /\ IsSeq(Put(map, old, new)) /\ Keys(Put(map, old, new)) = Keys(map) \cup {old}
           /\ \A k \in DOMAIN Put(map, old, new) :
                  \/ k \in DOMAIN map /\ Put(map, old, new)[k] = map[k]
                  \/ Put(map, old, new)[k] = <<old, new>>
<1>1. CASE old \in Keys(map)
  BY <1>1 DEF Put
<1>2. CASE old \notin Keys(map)
  <2> DEFINE e == <<old, new>>
             t == Append(map, e)
  <2>1. Put(map, old, new) = t /\ e[1] = old
    BY <1>2 DEF Put
  <2> HIDE DEF e
  <2>2. /\ IsSeq(t) /\ Len(t) = Len(map) + 1 /\ \A k \in 1 .. Len(map) : t[k] = map[k]
        /\ t[Len(map) + 1] = e
    BY AppendIsSeq
  <2>3. Len(map) \in Nat /\ DOMAIN map = 1 .. Len(map) /\ DOMAIN t = 1 .. Len(map) + 1
    BY <2>2, IsSeqLen
  <2> HIDE DEF t
  <2>4. \A k \in DOMAIN t : (k \in DOMAIN map /\ t[k] = map[k]) \/ t[k] = e
    BY <2>2, <2>3
  <2>5. Keys(t) \subseteq Keys(map) \cup {old}
    BY <2>1, <2>4 DEF Keys
  <2>6. Keys(map) \subseteq Keys(t) /\ old \in Keys(t)
    BY <2>1, <2>2, <2>3 DEF Keys
  <2> QED BY <2>1, <2>2, <2>4, <2>5, <2>6 DEF e
<1> QED BY <1>1, <1>2

LEMMA GetPair ==
    ASSUME NEW map, NEW old, old \in Keys(map)
    PROVE  \E k \in DOMAIN map : map[k][1] = old /\ Get(map, old) = map[k][2]
<1>1. \E p \in Range(map) : p[1] = old
  BY DEF Keys, Range
<1>2. \E p \in Range(map) : p[1] = old /\ Get(map, old) = p[2]
  BY <1>1 DEF Get
<1> QED BY <1>2 DEF Range

LEMMA ProgramSymbol ==
    ASSUME program \in Programs, NEW x \in DOMAIN program.symbols
    PROVE  LET s == program.symbols[x] IN
           /\ x[1] = "symbol" /\ DOMAIN s = SymbolFields /\ s.kind \in {0, 1}
           /\ s.kind = 0 => FunctionAssumed(s)
           /\ s.kind = 1 => DataAssumed(program, x)
           /\ Undefined(s) => "LOCAL" \notin s.flags
BY ProgramsAssumption, SymbolsAssumption DEF SymbolFields

LEMMA SegmentIs ==
    ASSUME NEW d
    PROVE  Segment(d).is = "segment" /\ Segment(d).name = d
BY DEF Segment

LEMMA DataSymbol ==
    ASSUME program \in Programs, NEW x \in DOMAIN program.symbols, program.symbols[x].kind = 1,
           NEW s, s = program.symbols[x]
    PROVE  /\ Undefined(s) => s.value = Nothing \/ s.value.is \in {"start", "end"}
           /\ ~Undefined(s) => s.value = Segment(s.value.name)
           /\ s.value.is \in {"nothing", "start", "end", "segment"}
<1>1. DataAssumed(program, x)
  BY ProgramSymbol
<1>2. CASE Undefined(s)
  <2>1. s.value = Nothing \/ s.value.is \in {"start", "end"}
    BY <1>1, <1>2 DEF DataAssumed
  <2>2. Nothing.is = "nothing"
    BY DEF Nothing
  <2> QED BY <1>2, <2>1, <2>2
<1>3. CASE ~Undefined(s)
  <2>1. PICK d : s.value = Segment(d)
    BY <1>1, <1>3 DEF DataAssumed
  <2>2. s.value.is = "segment" /\ s.value.name = d
    BY <2>1, SegmentIs
  <2> QED BY <1>3, <2>1, <2>2
<1> QED BY <1>2, <1>3

LEMMA ImportedIs ==
    ASSUME program \in Programs, NEW v, Imported(v)
    PROVE  v.is = "import" /\ v = Import(v.module, v.name)
<1>1. PICK x \in DOMAIN program.symbols :
          program.symbols[x].kind = 0 /\ Undefined(program.symbols[x]) /\ program.symbols[x].value = v
  BY DEF Imported
<1>2. FunctionAssumed(program.symbols[x])
  BY <1>1, ProgramSymbol
<1> QED BY <1>1, <1>2 DEF FunctionAssumed, Import

LEMMA SymbolsInit == InitRelocs => SymbolsInv
<1> SUFFICES ASSUME InitRelocs PROVE SymbolsInv
  OBVIOUS
<1>1. /\ program \in Programs /\ symbols = program.symbols /\ toImport = <<>> /\ toTable = <<>>
  BY DEF InitRelocs, Init
<1>2. \A x \in DOMAIN symbols : SymbolKept(symbols[x], program.symbols[x])
  BY <1>1, ProgramSymbol DEF SymbolKept
<1>3. \A is : MapInv(<<>>, is)
  BY EmptyIsSeq DEF MapInv
<1> QED BY <1>1, <1>2, <1>3 DEF SymbolsInv

LEMMA SymbolsKept ==
    ASSUME SymbolsInv, UNCHANGED <<program, symbols, toImport, toTable>>, phase' = "resolve" => phase = "resolve"
    PROVE  SymbolsInv'
BY DEF SymbolsInv, SymbolKept, FoundValue, MapInv, Imported

LEMMA SymbolsResolve ==
    ASSUME SymbolsInv, LinkInv, Resolve
    PROVE  SymbolsInv'
<1>0. PICK x, s, s0, new : x = symtable[i] /\ s = symbols[x] /\ s0 = program.symbols[x] /\ new = Answer(s)
  OBVIOUS
<1>1. /\ phase = "resolve" /\ phase' = phase /\ program' = program /\ i <= Len(symtable)
  BY DEF Resolve
<1>2. x \in DOMAIN symbols
  <2>1. symtable \in Seq(DOMAIN symbols) /\ i \in Nat \ {0}
    BY DEF LinkInv
  <2> QED BY <1>0, <1>1, <2>1, LenProperties, ElementOfSeq
<1>3. CASE ~IsFound(s)
  <2>1. UNCHANGED <<program, symbols, toImport, toTable>>
    BY <1>0, <1>3 DEF Resolve
  <2> QED BY <1>1, <2>1, SymbolsKept
<1>4. CASE IsFound(s)
  <2>0. PICK v : v = [s EXCEPT !.value = new, !.flags = (s.flags \ {"UNDEFINED"}) \cup FoundFlags(new)]
    OBVIOUS
  <2>1. /\ symbols' = [symbols EXCEPT ![x] = v]
        /\ toImport' = IF new.is = "import" THEN Put(toImport, s.value, new) ELSE toImport
        /\ toTable' = IF new.is = "runtime" THEN Put(toTable, s.value, new) ELSE toTable
    BY <1>0, <1>4, <2>0 DEF Resolve
  <2>2. Undefined(s) /\ s.value = s0.value /\ SymbolKept(s, s0) /\ s0.kind \in {0, 1}
    BY <1>0, <1>1, <1>2, <1>4, ProgramSymbol DEF IsFound, SymbolsInv
  <2>3. Undefined(s0)
    BY <2>2 DEF SymbolKept, Undefined
  <2>4. MapInv(toImport, "import") /\ MapInv(toTable, "runtime")
    BY DEF SymbolsInv
  <2>5. /\ MapInv(toImport', "import") /\ MapInv(toTable', "runtime") /\ Keys(toTable) \subseteq Keys(toTable')
        /\ new = s0.value
           \/ /\ s0.kind = 0 /\ Imported(s0.value) /\ new = FindFunc(s0.value.name) /\ new # Nothing
              /\ new.is = "runtime" => s0.value \in Keys(toTable')
    <3>1. CASE s.kind = 0
      <4>1. new = FindFunc(s0.value.name) /\ new # Nothing
        BY <1>0, <1>4, <2>2, <3>1, FindFuncIs DEF IsFound, Answer
      <4>2. s0.kind = 0 /\ Imported(s0.value)
        BY <1>0, <1>2, <2>2, <2>3, <3>1 DEF Imported, SymbolsInv, SymbolKept
      <4>3. new.is \in {"import", "runtime"}
        BY <4>1, FindFuncIs
      <4>4. \A map, is : MapInv(map, is) /\ new.is = is => MapInv(Put(map, s0.value, new), is)
        <5> DEFINE e == <<s0.value, new>>
        <5>1. e[1] = s0.value /\ e[2] = new
          OBVIOUS
        <5> QED BY <4>1, <4>2, <5>1, KeysPut DEF MapInv
      <4>5. IsSeq(toTable)
        BY <2>4 DEF MapInv
      <4> QED BY <2>1, <2>2, <2>4, <4>1, <4>2, <4>3, <4>4, <4>5, KeysPut
    <3>2. CASE s.kind # 0
      <4>1. new = Nothing /\ s.value = Nothing
        BY <1>0, <1>4, <3>2 DEF IsFound, Answer
      <4>2. toImport' = toImport /\ toTable' = toTable
        BY <2>1, <4>1 DEF Nothing
      <4> QED BY <2>2, <2>4, <4>1, <4>2
    <3> QED BY <3>1, <3>2
  <2>6. SymbolKept(v, s0)'
    <3>1. DOMAIN v = SymbolFields /\ v.kind = s0.kind /\ v.name = s0.name /\ v.offset = s0.offset
      BY <2>0, <2>2 DEF SymbolKept, SymbolFields
    <3>2. v.value = new /\ v.flags = (s.flags \ {"UNDEFINED"}) \cup FoundFlags(new)
      BY <2>0, <2>2 DEF SymbolKept, SymbolFields
    <3>3. ~Undefined(v) /\ "EXTERNAL" \in v.flags /\ \A flag \in {"LOCAL", "EXPORTED"} : flag \in v.flags => flag \in s0.flags
      BY <2>2, <3>2 DEF FoundFlags, Undefined, SymbolKept
    <3>4. program' = program
      BY <1>1
    <3> QED BY <2>3, <2>5, <3>1, <3>2, <3>3, <3>4 DEF SymbolKept, FoundValue, Imported
  <2>7. ASSUME NEW y \in DOMAIN symbols, y # x PROVE SymbolKept(symbols[y], program.symbols[y])'
    <3>1. SymbolKept(symbols[y], program.symbols[y])
      BY DEF SymbolsInv
    <3>2. symbols'[y] = symbols[y] /\ program' = program
      BY <1>1, <2>1, <2>7
    <3> QED BY <2>5, <3>1, <3>2 DEF SymbolKept, FoundValue, Imported
  <2>8. DOMAIN symbols' = DOMAIN symbols /\ symbols'[x] = v
    BY <1>2, <2>1
  <2>9. \A y \in DOMAIN symbols' : SymbolKept(symbols[y], program.symbols[y])'
    <3>1. SymbolKept(symbols[x], program.symbols[x])'
      <4> QED BY <1>0, <1>1, <2>6, <2>8
    <3> QED BY <2>7, <2>8, <3>1
  <2>10. \A y \in DOMAIN symbols' : Undefined(symbols'[y]) => symbols'[y].value = program'.symbols[y].value
    <3>1. ~Undefined(v)
      BY <2>0, <2>2 DEF SymbolKept, SymbolFields, FoundFlags, Undefined
    <3>2. \A y \in DOMAIN symbols : y # x => symbols'[y] = symbols[y]
      BY <2>1
    <3> QED BY <1>1, <2>8, <3>1, <3>2 DEF SymbolsInv
  <2>11. DOMAIN symbols' = DOMAIN program'.symbols
    BY <1>1, <2>8 DEF SymbolsInv
  <2>12. MapInv(toImport, "import")' /\ MapInv(toTable, "runtime")'
    BY <1>1, <2>5 DEF MapInv, Imported
  <2>13. (program \in Programs)'
    BY <1>1 DEF SymbolsInv
  <2> QED BY <2>9, <2>10, <2>11, <2>12, <2>13 DEF SymbolsInv
<1> QED BY <1>3, <1>4

\* A value that was looked up already stays what it is.
LEMMA SymbolsRevalued ==
    ASSUME SymbolsInv, NEW map, map = toImport \/ map = toTable, phase' # "resolve",
           symbols' = Revalued(map), UNCHANGED <<program, toImport, toTable>>
    PROVE  SymbolsInv'
<1>1. MapInv(map, "import") \/ (MapInv(map, "runtime") /\ map = toTable)
  BY DEF SymbolsInv
<1>2. ASSUME NEW y \in DOMAIN program.symbols, NEW s, NEW s0, s0 = program.symbols[y], SymbolKept(s, s0)
      PROVE  SymbolKept([s EXCEPT !.value = GetOr(map, s.value)], s0)
  <2> DEFINE v == GetOr(map, s.value)
             t == [s EXCEPT !.value = v]
  <2>1. DOMAIN t = SymbolFields /\ t.kind = s.kind /\ t.name = s.name /\ t.offset = s.offset /\ t.flags = s.flags
        /\ t.value = v
    BY <1>2 DEF SymbolKept, SymbolFields
  <2>2. CASE s.value \notin Keys(map)
    <3>1. v = s.value
      BY <2>2 DEF GetOr
    <3> QED BY <1>2, <2>1, <3>1 DEF SymbolKept, FoundValue, Undefined
  <2>3. CASE s.value \in Keys(map)
    <3>1. PICK k \in DOMAIN map : map[k][1] = s.value /\ v = map[k][2]
      BY <2>3, GetPair DEF GetOr
    <3>2. Imported(s.value) /\ v = FindFunc(s.value.name) /\ v # Nothing /\ (v.is = "runtime" => map = toTable)
      BY <1>1, <3>1 DEF MapInv
    <3>3. CASE s.value = s0.value
      <4>1. s0.kind = 0
        <5>1. s0.value.is = "import" /\ program \in Programs
          BY <3>2, <3>3, ImportedIs DEF SymbolsInv
        <5>2. s0.kind \in {0, 1} /\ (s0.kind = 1 => DataAssumed(program, y))
          BY <1>2, <5>1, ProgramSymbol
        <5>3. s0.kind # 1
          BY <1>2, <5>1, DataSymbol
        <5> QED BY <5>2, <5>3
      <4>2. FoundValue(v, s0)
        BY <2>3, <3>2, <3>3, <4>1 DEF FoundValue
      <4> QED BY <1>2, <2>1, <4>2 DEF SymbolKept, Undefined
    <3>4. CASE s.value # s0.value
      <4>1. FoundValue(s.value, s0)
        BY <1>2, <3>4 DEF SymbolKept
      <4>2. s.value.name = s0.value.name
        BY <4>1, FindFuncIs DEF FoundValue
      <4>3. v = s.value
        BY <3>2, <4>1, <4>2 DEF FoundValue
      <4> QED BY <1>2, <2>1, <4>3 DEF SymbolKept, FoundValue, Undefined
    <3> QED BY <3>3, <3>4
  <2> HIDE DEF t, v
  <2> QED BY <2>2, <2>3 DEF t, v
<1>3. \A s : [s EXCEPT !.value = GetOr(map, @)] = [s EXCEPT !.value = GetOr(map, s.value)]
  OBVIOUS
<1>4. DOMAIN symbols' = DOMAIN symbols
  BY DEF Revalued
<1>5. ASSUME NEW y \in DOMAIN symbols PROVE SymbolKept(symbols'[y], program.symbols[y])
  <2>1. SymbolKept(symbols[y], program.symbols[y]) /\ y \in DOMAIN program.symbols
    BY DEF SymbolsInv
  <2>2. symbols'[y] = symbols[y] \/ symbols'[y] = [symbols[y] EXCEPT !.value = GetOr(map, symbols[y].value)]
    BY DEF Revalued
  <2> QED BY <1>2, <2>1, <2>2
<1>6. ASSUME NEW y \in DOMAIN symbols PROVE SymbolKept(symbols[y], program.symbols[y])'
  BY <1>5 DEF SymbolKept, FoundValue, Imported
<1> QED BY <1>4, <1>6 DEF SymbolsInv, MapInv, Imported

LEMMA SymbolsStep == SymbolsInv /\ LinkInv /\ [Next]_vars => SymbolsInv'
<1> SUFFICES ASSUME SymbolsInv, LinkInv, [Next]_vars PROVE SymbolsInv'
  OBVIOUS
<1>1. CASE Resolve
  BY <1>1, SymbolsResolve
<1>2. CASE RetargetImports
  BY <1>2, SymbolsRevalued DEF RetargetImports, Goto
<1>3. CASE RetargetCallDone
  BY <1>3, SymbolsRevalued DEF RetargetCallDone, Goto
<1>4. ASSUME ResolveDone \/ ReplaceImport \/ RemoveImport \/ RemoveImportDone \/ RetargetCall \/ MergeStrings
      PROVE  UNCHANGED <<program, symbols, toImport, toTable>> /\ phase' # "resolve"
  BY <1>4 DEF ResolveDone, ReplaceImport, RemoveImport, RemoveImportDone, RetargetCall, MergeStrings, Goto, linkVars
<1>5. ASSUME RelocNext
      PROVE  UNCHANGED <<program, symbols, toImport, toTable>> /\ phase' # "resolve"
  BY <1>5 DEF RelocNext, CollectCode, CollectCodeDone, CollectData, CreateElements,
     Export, SetupCommonData, GenerateExports, CreateInitArray, PartitionMethods, CreateTableCtor, SetupModuleData,
     WriteHeader, Validate, EncodeExternal, EncodeInternal, Failure, Goto, linkVars, LinkedElsewhere
<1>6. ASSUME UNCHANGED vars PROVE UNCHANGED <<program, symbols, toImport, toTable, phase>>
  BY <1>6 DEF vars, linkVars
<1>7. [Next]_vars => LinkNext \/ RelocNext \/ UNCHANGED vars
  BY DEF Next, Stopped
<1> QED BY <1>1, <1>2, <1>3, <1>4, <1>5, <1>6, <1>7, SymbolsKept DEF LinkNext

----------------------------------------------------------------------------
(* Where a thing is found: the first in a sequence with its name.          *)

LEMMA FoundNames ==
    /\ \A d : Original(d) = program.segments[Named(program.segments, d)]
    /\ \A x : SegmentOf(x) = segments[Named(segments, symbols[x].value.name)]
    /\ \A d : SectionOf(d) = IF HasSegment(d) THEN segments[Named(segments, d)].section ELSE d
    /\ \A d : Rloc(d) = IF HasSegment(d) THEN 16 * (Named(Packed(SectionOf(d)), d) - 1) ELSE 0
<1>1. \A d : Original(d) = program.segments[Named(program.segments, d)]
  BY DEF Original, SelectInSeq, Named, FirstOf
<1>2. \A x : SegmentOf(x) = segments[Named(segments, symbols[x].value.name)]
  BY DEF SegmentOf, SelectInSeq, Named, FirstOf
<1>3. \A d : SectionOf(d) = IF HasSegment(d) THEN segments[Named(segments, d)].section ELSE d
  BY DEF SectionOf, SelectInSeq, Named, FirstOf
<1>4. \A d : Rloc(d) = IF HasSegment(d) THEN 16 * (Named(Packed(SectionOf(d)), d) - 1) ELSE 0
  BY DEF Rloc, SelectInSeq, Named, FirstOf
<1> QED BY <1>1, <1>2, <1>3, <1>4

\* The segments of a program have names of their own.
LEMMA ProgramSegments ==
    ASSUME program \in Programs
    PROVE  /\ IsSeq(program.segments) /\ Distinct(program.segments)
           /\ \A d, e \in ToSet(program.segments) : d.name = e.name => d = e
           /\ \A d \in ToSet(program.segments) : Original(d.name) = d
<1>1. IsSeq(program.segments) /\ \A k, j \in DOMAIN program.segments : program.segments[k].name = program.segments[j].name => k = j
  BY SymbolsAssumption DEF IsSeq
<1>2. Distinct(program.segments)
  BY <1>1 DEF Distinct
<1>3. \A d, e \in ToSet(program.segments) : d.name = e.name => d = e
  BY <1>1 DEF ToSet
<1>4. ASSUME NEW d \in ToSet(program.segments) PROVE Original(d.name) = d
  <2>1. \E k \in DOMAIN program.segments : program.segments[k].name = d.name
    BY DEF ToSet
  <2>2. Named(program.segments, d.name) \in DOMAIN program.segments /\ program.segments[Named(program.segments, d.name)].name = d.name
    BY <1>1, <2>1, NamedIs
  <2>3. program.segments[Named(program.segments, d.name)] \in ToSet(program.segments)
    BY <2>2 DEF ToSet
  <2> QED BY <1>3, <2>2, <2>3, FoundNames
<1> QED BY <1>1, <1>2, <1>3, <1>4

----------------------------------------------------------------------------
(* The segments and the sections while the program is linked.              *)

LEMMA SegmentsNamed ==
    ASSUME SegmentsInv, program \in Programs, NEW d \in ToSet(segments)
    PROVE  HasSegment(d.name) /\ segments[Named(segments, d.name)] = d /\ d \in ToSet(program.segments)
<1>1. HasSegment(d.name) /\ \E k \in DOMAIN segments : segments[k].name = d.name
  BY DEF HasSegment, ToSet
<1>2. Named(segments, d.name) \in DOMAIN segments /\ segments[Named(segments, d.name)].name = d.name
  BY <1>1, NamedIs DEF SegmentsInv
<1>3. segments[Named(segments, d.name)] \in ToSet(segments)
  BY <1>2 DEF ToSet
<1>4. segments[Named(segments, d.name)] \in ToSet(program.segments) /\ d \in ToSet(program.segments)
  BY <1>3 DEF SegmentsInv
<1> QED BY <1>1, <1>2, <1>4, ProgramSegments

LEMMA SegmentsInit == InitRelocs => SegmentsInv
<1> SUFFICES ASSUME InitRelocs PROVE SegmentsInv
  OBVIOUS
<1>1. /\ program \in Programs /\ symtable = program.symtable /\ segments = program.segments
      /\ sections = program.sections
  BY DEF InitRelocs, Init
<1>2. IsSeq(sections)
  BY <1>1, SectionsAssumption DEF IsSeq
<1> QED BY <1>1, <1>2, ProgramSegments DEF SegmentsInv

LEMMA ValueKinds ==
    ASSUME NEW m, NEW n
    PROVE  /\ Own(n).is = "function" /\ Own(n).name = n
           /\ Import(m, n).is = "import" /\ Import(m, n).module = m /\ Import(m, n).name = n
           /\ Runtime(m, n).is = "runtime" /\ Runtime(m, n).module = m /\ Runtime(m, n).name = n
           /\ Nothing.is = "nothing" /\ Nothing.name = ""
BY DEF Own, Import, Runtime, Nothing

LEMMA FunctionValue ==
    ASSUME NEW s, FunctionAssumed(s)
    PROVE  s.value.is \in {"import", "function"}
<1>1. PICK m, n : s.value = Import(m, n) \/ s.value = Own(n)
  BY DEF FunctionAssumed
<1>2. Import(m, n).is = "import" /\ Own(n).is = "function"
  BY DEF Own, Import
<1> QED BY <1>1, <1>2

\* What a symbol of the data stands for stays.
LEMMA DataValue ==
    ASSUME SymbolsInv, NEW x \in DOMAIN symbols, program.symbols[x].kind = 1
    PROVE  symbols[x].value = program.symbols[x].value /\ symbols[x].kind = 1
BY DEF SymbolsInv, SymbolKept, FoundValue

\* The segment of a symbol, and whose it is.
LEMMA ValueSegment ==
    ASSUME SymbolsInv, NEW x \in DOMAIN program.symbols, program.symbols[x].value.is = "segment",
           NEW d, d = Original(program.symbols[x].value.name)
    PROVE  /\ program.symbols[x].kind = 1 /\ program.symbols[x].value = Segment(d.name)
           /\ d \in ToSet(program.segments) /\ program.symbols[x].value.name = d.name
           /\ d.string => program.symbols[x].offset = 0
           /\ d.string => \A y \in DOMAIN symbols : symbols[y].value = Segment(d.name) => y = x
<1> DEFINE s == program.symbols[x]
<1>0. program \in Programs
  BY DEF SymbolsInv
<1>1. s.kind = 1
  <2>1. s.kind = 0 => s.value.is \in {"import", "function"}
    <3>1. s.kind = 0 => FunctionAssumed(s)
      BY <1>0, ProgramSymbol
    <3> QED BY <3>1, FunctionValue
  <2> QED BY <1>0, <2>1, ProgramSymbol
<1>2. DataAssumed(program, x)
  BY <1>0, <1>1, ProgramSymbol
<1>3. ~Undefined(s)
  <2>1. s.value # Nothing /\ s.value.is \notin {"start", "end"}
    BY ValueKinds
  <2> QED BY <1>2, <2>1 DEF DataAssumed
<1>4. PICK k \in DOMAIN program.segments :
          /\ s.value = Segment(program.segments[k].name)
          /\ program.segments[k].string =>
                s.offset = 0 /\ \A y \in DOMAIN program.symbols : program.symbols[y].value = s.value => y = x
  BY <1>2, <1>3 DEF DataAssumed
<1>5. program.segments[k] \in ToSet(program.segments) /\ s.value.name = program.segments[k].name
  BY <1>4, SegmentIs DEF ToSet
<1>6. d = program.segments[k]
  BY <1>0, <1>5, ProgramSegments
<1>7. ASSUME NEW y \in DOMAIN symbols, symbols[y].value = Segment(d.name)
      PROVE  y \in DOMAIN program.symbols /\ program.symbols[y].value = Segment(d.name)
  <2>1. y \in DOMAIN program.symbols /\ SymbolKept(symbols[y], program.symbols[y])
    BY DEF SymbolsInv
  <2>2. symbols[y].value.is = "segment"
    BY <1>7, SegmentIs
  <2>3. ~FoundValue(symbols[y].value, program.symbols[y])
    <3>1. symbols[y].value # Nothing /\ symbols[y].value = FindFunc(program.symbols[y].value.name) => symbols[y].value.is \in {"import", "runtime"}
      BY FindFuncIs
    <3> QED BY <2>2, <3>1 DEF FoundValue
  <2> QED BY <1>7, <2>1, <2>3 DEF SymbolKept
<1> QED BY <1>1, <1>4, <1>5, <1>6, <1>7

LEMMA StringIs ==
    ASSUME SymbolsInv, segments = program.segments, NEW x \in DOMAIN symbols
    PROVE  /\ IsString(x) => Text(x) /\ SegmentOf(x) = Original(program.symbols[x].value.name)
           /\ IsString(x) => program.symbols[x].value.is = "segment"
           /\ program.symbols[x].kind = 1 => SegmentOf(x) = Original(program.symbols[x].value.name)
<1> DEFINE s == program.symbols[x]
<1>0. program \in Programs /\ x \in DOMAIN program.symbols
  BY DEF SymbolsInv
<1>1. s.kind = 1 => SegmentOf(x) = Original(s.value.name)
  BY DataValue, FoundNames
<1>2. ASSUME IsString(x)
      PROVE  Text(x) /\ s.value.is = "segment" /\ s.kind = 1
  <2>1. SymbolKept(symbols[x], s)
    BY DEF SymbolsInv
  <2>2. s.kind = 1 /\ "LOCAL" \in s.flags
    BY <1>2, <2>1 DEF IsString, SymbolKept
  <2>3. ~Undefined(s)
    BY <1>0, <2>2, ProgramSymbol
  <2>4. s.value.is = "segment"
    <3>1. s.value = Segment(s.value.name)
      BY <1>0, <2>2, <2>3, DataSymbol
    <3> QED BY <3>1, SegmentIs
  <2>5. SegmentOf(x).string
    BY <1>2 DEF IsString
  <2> QED BY <1>0, <1>1, <2>2, <2>4, <2>5, ValueSegment DEF Text
<1> QED BY <1>1, <1>2

----------------------------------------------------------------------------
(* Strings of equal bytes.                                                 *)

LEMMA KeptString ==
    ASSUME SymbolsInv, LinkInv, SegmentsInv, phase = "strings", NEW x \in DOMAIN symbols, IsString(x)
    PROVE  /\ Kept(x) \in DOMAIN symbols /\ IsString(Kept(x)) /\ Kept(Kept(x)) = Kept(x)
           /\ Text(x) /\ Text(Kept(x)) /\ Bytes(Kept(x)) = Bytes(x)
<1> DEFINE I(y) == {k \in 1 .. Len(symtable) : IsString(symtable[k]) /\ Equal(y, symtable[k])}
<1>1. program \in Programs /\ segments = program.segments /\ symtable = program.symtable /\ DOMAIN symbols = DOMAIN program.symbols
  BY DEF SegmentsInv, SymbolsInv, Before
<1>2. Len(symtable) \in Nat /\ DOMAIN symtable = 1 .. Len(symtable) /\ ToSet(symtable) = DOMAIN symbols
  <2>1. symtable \in Seq(DOMAIN symbols)
    BY DEF LinkInv
  <2> QED BY <1>1, <2>1, SymbolsAssumption, LenProperties
<1>3. ASSUME NEW y, IsString(y) PROVE Kept(y) = symtable[FirstOf(I(y))]
  BY <1>3 DEF Kept, SelectInSeq, FirstOf
<1>4. \A y : I(y) \in SUBSET (1 .. Len(symtable))
  OBVIOUS
<1>5. PICK k \in 1 .. Len(symtable) : symtable[k] = x
  BY <1>2 DEF ToSet
<1>6. k \in I(x)
  BY <1>5 DEF Equal
<1>7. PICK m \in I(x) : Kept(x) = symtable[m] /\ m = FirstOf(I(x))
  <2>1. FirstOf(I(x)) \in I(x)
    <3> HIDE DEF I
    <3> QED BY <1>2, <1>4, <1>6, FirstOfIs
  <2> QED BY <1>3, <2>1
<1>8. PICK y : y = symtable[m]
  OBVIOUS
<1>9. y \in DOMAIN symbols /\ IsString(y) /\ Equal(x, y)
  BY <1>2, <1>7, <1>8 DEF ToSet
<1>10. I(y) = I(x)
  BY <1>9 DEF Equal
<1>11. Kept(y) = y
  BY <1>3, <1>7, <1>8, <1>9, <1>10
<1>12. /\ Text(x) /\ SegmentOf(x) = Original(program.symbols[x].value.name)
       /\ Text(y) /\ SegmentOf(y) = Original(program.symbols[y].value.name)
  BY <1>1, <1>9, StringIs
<1>13. Bytes(y) = Bytes(x)
  BY <1>9, <1>12 DEF Bytes, Equal
<1> HIDE DEF I
<1> QED BY <1>7, <1>8, <1>9, <1>11, <1>12, <1>13

\* The segments that stay.
LEMMA KeptSegments ==
    ASSUME SymbolsInv, LinkInv, SegmentsInv, phase = "strings", MergeStrings
    PROVE  /\ IsSeq(segments') /\ Distinct(segments')
           /\ ToSet(segments') = {d \in ToSet(program.segments) :
                  \A s \in DOMAIN symbols : symbols[s].value = Segment(d.name) => Kept(s) = s}
<1> DEFINE T == {d \in ToSet(segments) : \A s \in ToSet(symtable) : symbols[s].value = Segment(d.name) => Kept(s) = s}
<1>1. program \in Programs /\ segments = program.segments /\ symtable = program.symtable /\ DOMAIN symbols = DOMAIN program.symbols
  BY DEF SegmentsInv, SymbolsInv, Before
<1>2. ToSet(symtable) = DOMAIN symbols
  BY <1>1, SymbolsAssumption
<1>3. segments' = Where(segments, T)
  BY DEF MergeStrings
<1>4. IsSeq(segments) /\ Distinct(segments)
  BY DEF SegmentsInv
<1>5. IsSeq(segments') /\ Distinct(segments') /\ ToSet(segments') = ToSet(segments) \cap T
  <2> HIDE DEF T
  <2> QED BY <1>3, <1>4, WhereIs
<1> QED BY <1>1, <1>2, <1>5

\* The segment of a symbol stays, when the symbol does.
LEMMA KeptSegment ==
    ASSUME SymbolsInv, LinkInv, SegmentsInv, phase = "strings", MergeStrings,
           NEW x \in DOMAIN symbols, Kept(x) = x, program.symbols[x].value.is = "segment",
           NEW d, d = Original(program.symbols[x].value.name)
    PROVE  d \in ToSet(segments') /\ d.name = program.symbols[x].value.name
<1>1. program \in Programs /\ segments = program.segments /\ DOMAIN symbols = DOMAIN program.symbols
  BY DEF SegmentsInv, SymbolsInv, Before
<1>2. /\ program.symbols[x].value = Segment(d.name) /\ d \in ToSet(program.segments) /\ program.symbols[x].value.name = d.name
      /\ d.string => \A y \in DOMAIN symbols : symbols[y].value = Segment(d.name) => y = x
  BY <1>1, ValueSegment
<1>3. ASSUME NEW s \in DOMAIN symbols, symbols[s].value = Segment(d.name) PROVE Kept(s) = s
  <2>1. CASE d.string
    BY <1>2, <1>3, <2>1
  <2>2. CASE ~d.string
    <3>1. SegmentOf(s) = Original(d.name)
      <4>1. symbols[s].value.name = d.name
        BY <1>3, SegmentIs
      <4> QED BY <1>1, <4>1, FoundNames
    <3>2. Original(d.name) = d
      BY <1>1, <1>2, ProgramSegments
    <3>3. ~IsString(s)
      BY <2>2, <3>1, <3>2 DEF IsString
    <3> QED BY <3>3 DEF Kept
  <2> QED BY <2>1, <2>2
<1> QED BY <1>2, <1>3, KeptSegments

LEMMA SegmentsStrings ==
    ASSUME SymbolsInv, LinkInv, SegmentsInv, MergeStrings, UNCHANGED relocVars
    PROVE  SegmentsInv'
<1>1. phase = "strings" /\ phase' = "code" /\ program' = program /\ sections' = sections
  BY DEF MergeStrings, Goto, relocVars
<1>2. program \in Programs /\ segments = program.segments
  BY <1>1 DEF SegmentsInv, SymbolsInv, Before
<1>3. /\ IsSeq(segments') /\ Distinct(segments')
      /\ ToSet(segments') = {d \in ToSet(program.segments) :
             \A s \in DOMAIN symbols : symbols[s].value = Segment(d.name) => Kept(s) = s}
  BY <1>1, KeptSegments
<1>4. ASSUME NEW d \in ToSet(program.segments), ~d.string, NEW s \in DOMAIN symbols, symbols[s].value = Segment(d.name)
      PROVE  Kept(s) = s
  <2>1. SegmentOf(s) = Original(d.name)
    <3>1. symbols[s].value.name = d.name
      BY <1>4, SegmentIs
    <3> QED BY <1>2, <3>1, FoundNames
  <2>2. Original(d.name) = d
    BY <1>2, ProgramSegments
  <2>3. ~IsString(s)
    BY <1>4, <2>1, <2>2 DEF IsString
  <2> QED BY <2>3 DEF Kept
<1>5. \A d \in ToSet(program.segments) : ~d.string => d \in ToSet(segments')
  BY <1>3, <1>4
<1>6. phase' \notin Before
  BY <1>1 DEF Before
<1> QED BY <1>1, <1>3, <1>5, <1>6 DEF SegmentsInv

\* A step that adds sections, if any.
LEMMA SegmentsKept ==
    ASSUME SegmentsInv, UNCHANGED <<program, segments>>, phase' \in Before => phase \in Before /\ symtable' = symtable,
           IsSeq(sections'), ToSet(sections) \subseteq ToSet(sections')
    PROVE  SegmentsInv'
BY DEF SegmentsInv

LEMMA SegmentsStep == SegmentsInv /\ SymbolsInv /\ LinkInv /\ [Next]_vars => SegmentsInv'
<1> SUFFICES ASSUME SegmentsInv, SymbolsInv, LinkInv, [Next]_vars PROVE SegmentsInv'
  OBVIOUS
<1>0. IsSeq(sections)
  BY DEF SegmentsInv
<1>1. CASE MergeStrings /\ UNCHANGED relocVars
  BY <1>1, SegmentsStrings
<1>2. ASSUME LinkNext /\ UNCHANGED relocVars, ~MergeStrings
      PROVE  UNCHANGED <<program, segments, symtable, sections>> /\ phase \in Before
  BY <1>2 DEF LinkNext, Resolve, ResolveDone, ReplaceImport, RetargetImports, RemoveImport, RemoveImportDone,
     RetargetCall, RetargetCallDone, Goto, linkVars, relocVars, Before
<1>3. ASSUME RelocNext
      PROVE  UNCHANGED <<program, segments>> /\ phase' \notin Before
  BY <1>3 DEF RelocNext, CollectCode, CollectCodeDone, CollectData, CreateElements,
     Export, SetupCommonData, GenerateExports, CreateInitArray, PartitionMethods, CreateTableCtor, SetupModuleData,
     WriteHeader, Validate, EncodeExternal, EncodeInternal, Failure, Goto, linkVars, LinkedElsewhere, Before
<1>4. ASSUME RelocNext, ~CreateInitArray, ~SetupModuleData PROVE sections' = sections
  BY <1>4 DEF RelocNext, CollectCode, CollectCodeDone, CollectData, CreateElements,
     Export, SetupCommonData, GenerateExports, PartitionMethods, CreateTableCtor, relocVars,
     WriteHeader, Validate, EncodeExternal, EncodeInternal
<1>5. ASSUME CreateInitArray \/ SetupModuleData
      PROVE  IsSeq(sections') /\ ToSet(sections) \subseteq ToSet(sections')
  <2>1. \/ sections' = sections \/ sections' = Append(sections, ".init_array")
        \/ sections' = sections \o <<".dynstr", ".dynsym">>
    BY <1>5 DEF CreateInitArray, SetupModuleData
  <2>2. PICK w : w = <<".dynstr", ".dynsym">> /\ IsSeq(w)
    BY PairIsSeq
  <2>3. IsSeq(sections \o w) /\ ToSet(sections) \subseteq ToSet(sections \o w)
    BY <1>0, <2>2, ConcatIsSeq, ConcatToSet
  <2>4. IsSeq(Append(sections, ".init_array")) /\ ToSet(sections) \subseteq ToSet(Append(sections, ".init_array"))
    BY <1>0, AppendIsSeq, AppendToSet
  <2> QED BY <1>0, <2>1, <2>2, <2>3, <2>4
<1>6. ASSUME UNCHANGED vars PROVE UNCHANGED <<program, segments, symtable, sections, phase>>
  BY <1>6 DEF vars, linkVars, relocVars
<1>7. [Next]_vars => (LinkNext /\ UNCHANGED relocVars) \/ RelocNext \/ UNCHANGED vars
  BY DEF Next, Stopped
<1> QED BY <1>0, <1>1, <1>2, <1>3, <1>4, <1>5, <1>6, <1>7, SegmentsKept

----------------------------------------------------------------------------
(* Two relocations of one instruction are one, listed twice.               *)

LEMMA ReferredSelf ==
    ASSUME NEW relocs, relocs = [k \in DOMAIN relocs |-> relocs[k]]
    PROVE  Referred(relocs, relocs)
BY DEF Referred

\* The import is put into all of the relocations that are one.
LEMMA RecollectedRefers ==
    ASSUME NEW relocs
    PROVE  Referred(Recollected(relocs), relocs)
<1> DEFINE new == Recollected(relocs)
<1>1. DOMAIN new = DOMAIN relocs /\ new = [k \in DOMAIN relocs |-> new[k]]
  BY DEF Recollected
<1>2. ASSUME NEW k \in DOMAIN relocs
      PROVE  new[k] = IF relocs[k] = relocs[i] THEN [relocs[k] EXCEPT !.ref = CollectedRef(relocs[k].ref)] ELSE relocs[k]
  BY <1>2 DEF Recollected
<1> HIDE DEF new
<1>3. ASSUME NEW k \in DOMAIN relocs
      PROVE  \E ref : new[k] = relocs[k] \/ new[k] = [relocs[k] EXCEPT !.ref = ref]
  BY <1>2
<1>4. ASSUME NEW j \in DOMAIN relocs, NEW k \in DOMAIN relocs, relocs[j] = relocs[k]
      PROVE  new[j] = new[k]
  BY <1>2, <1>4
<1>5. Referred(new, relocs)
  BY <1>1, <1>3, <1>4 DEF Referred
<1> QED BY <1>5 DEF new

LEMMA CodeReferred ==
    ASSUME NEW relocs, NEW relocs0, CodeOK(relocs, relocs0), NEW new, Referred(new, relocs)
    PROVE  CodeOK(new, relocs0) /\ \A k \in DOMAIN relocs : new[k].inst = relocs[k].inst
<1>1. IsSeq(new)
  <2>1. Len(relocs) \in Nat /\ DOMAIN relocs = 1 .. Len(relocs)
    BY IsSeqLen DEF CodeOK
  <2>2. DOMAIN new = 1 .. Len(relocs) /\ new = [k \in 1 .. Len(relocs) |-> new[k]]
    BY <2>1 DEF Referred
  <2> QED BY <2>1, <2>2, FunctionIsSeq
<1>2. ASSUME NEW k \in DOMAIN relocs
      PROVE  /\ DOMAIN new[k] = CodeFields /\ new[k].type = relocs[k].type /\ new[k].inst = relocs[k].inst
             /\ new[k].addend = relocs[k].addend
  <2>1. PICK ref : new[k] = relocs[k] \/ new[k] = [relocs[k] EXCEPT !.ref = ref]
    BY DEF Referred
  <2>2. DOMAIN relocs[k] = CodeFields
    BY DEF CodeOK
  <2> QED BY <2>1, <2>2 DEF CodeFields
<1>3. DOMAIN new = DOMAIN relocs
  BY DEF Referred
<1>4. ASSUME NEW j \in DOMAIN new, NEW k \in DOMAIN new, new[j].inst = new[k].inst
      PROVE  new[j] = new[k] /\ (j = k \/ {j, k} \subseteq DOMAIN relocs0)
  <2>1. relocs[j].inst = relocs[k].inst
    BY <1>2, <1>3, <1>4
  <2>2. relocs[j] = relocs[k] /\ (j = k \/ {j, k} \subseteq DOMAIN relocs0)
    BY <1>3, <2>1 DEF CodeOK
  <2> QED BY <1>3, <2>2 DEF Referred
<1> QED BY <1>1, <1>2, <1>3, <1>4 DEF CodeOK

\* More of them.
LEMMA CodeConcat ==
    ASSUME NEW relocs, NEW relocs0, CodeOK(relocs, relocs0), NEW more, IsSeq(more),
           \A k \in DOMAIN more : DOMAIN more[k] = CodeFields /\ more[k].type \in CodeTypes /\ more[k].inst \in Int,
           \A j, k \in DOMAIN more : more[j].inst = more[k].inst => j = k,
           \A j \in DOMAIN relocs, k \in DOMAIN more : relocs[j].inst # more[k].inst
    PROVE  CodeOK(relocs \o more, relocs0)
<1> DEFINE new == relocs \o more
           S == ToSet(relocs) \cup ToSet(more)
<1>1. IsSeq(relocs)
  BY DEF CodeOK
<1>7. /\ IsSeq(new) /\ ToSet(new) = S
      /\ \A k \in DOMAIN relocs : k \in DOMAIN new /\ new[k] = relocs[k]
      /\ \A k \in DOMAIN new :
            \/ k \in DOMAIN relocs /\ new[k] = relocs[k]
            \/ k - Len(relocs) \in DOMAIN more /\ new[k] = more[k - Len(relocs)]
  BY <1>1, ConcatElements
<1>8. \A k \in DOMAIN new : new[k] \in S
  BY <1>7 DEF ToSet
<1>9. \A r \in S : DOMAIN r = CodeFields /\ r.type \in CodeTypes /\ r.inst \in Int
  BY DEF CodeOK, ToSet
<1>10. ASSUME NEW j \in DOMAIN new, NEW k \in DOMAIN new, new[j].inst = new[k].inst
       PROVE  new[j] = new[k] /\ (j = k \/ {j, k} \subseteq DOMAIN relocs0)
  <2>1. Len(relocs) \in Nat /\ j \in Int /\ k \in Int
    BY <1>1, <1>7, IsSeqLen
  <2> HIDE DEF new
  <2>2. CASE j \in DOMAIN relocs /\ new[j] = relocs[j] /\ k \in DOMAIN relocs /\ new[k] = relocs[k]
    BY <1>10, <2>2 DEF CodeOK
  <2>3. CASE /\ j - Len(relocs) \in DOMAIN more /\ new[j] = more[j - Len(relocs)]
             /\ k - Len(relocs) \in DOMAIN more /\ new[k] = more[k - Len(relocs)]
    <3>1. j - Len(relocs) = k - Len(relocs)
      BY <1>10, <2>3
    <3>2. j = k
      BY <2>1, <3>1
    <3> QED BY <3>2
  <2>4. CASE /\ j \in DOMAIN relocs /\ new[j] = relocs[j]
             /\ k - Len(relocs) \in DOMAIN more /\ new[k] = more[k - Len(relocs)]
    BY <1>10, <2>4
  <2>5. CASE /\ k \in DOMAIN relocs /\ new[k] = relocs[k]
             /\ j - Len(relocs) \in DOMAIN more /\ new[j] = more[j - Len(relocs)]
    BY <1>10, <2>5
  <2> QED BY <1>7, <2>2, <2>3, <2>4, <2>5
<1>11. /\ DOMAIN relocs0 \subseteq DOMAIN relocs
       /\ \A k \in DOMAIN relocs0 :
          /\ relocs[k].type = relocs0[k].type /\ relocs[k].inst = relocs0[k].inst
          /\ relocs[k].addend = relocs0[k].addend
  BY DEF CodeOK
<1>12. \A k \in DOMAIN relocs0 :
          /\ k \in DOMAIN new /\ new[k].type = relocs0[k].type /\ new[k].inst = relocs0[k].inst
          /\ new[k].addend = relocs0[k].addend
  BY <1>7, <1>11
<1>13. \A k \in DOMAIN new : DOMAIN new[k] = CodeFields /\ new[k].type \in CodeTypes /\ new[k].inst \in Int
  BY <1>8, <1>9
<1> HIDE DEF new
<1>14. CodeOK(new, relocs0)
  BY <1>7, <1>10, <1>12, <1>13 DEF CodeOK
<1> QED BY <1>14 DEF new

\* Instructions with other arguments.
LEMMA BodyArgued ==
    ASSUME NEW is, NEW relocs, BodyOK(is, relocs),
           NEW new, DOMAIN new = DOMAIN is, new = [k \in DOMAIN is |-> new[k]],
           \A k \in DOMAIN is : \E arg : new[k] = is[k] \/ new[k] = [is[k] EXCEPT !.arg = arg]
    PROVE  BodyOK(new, relocs)
<1>1. IsSeq(new)
  <2>1. Len(is) \in Nat /\ DOMAIN is = 1 .. Len(is)
    BY IsSeqLen DEF BodyOK
  <2> QED BY <2>1, FunctionIsSeq
<1>2. ASSUME NEW k \in DOMAIN is
      PROVE  DOMAIN new[k] = InstFields /\ new[k].op = is[k].op /\ new[k].id = is[k].id
  <2>1. PICK arg : new[k] = is[k] \/ new[k] = [is[k] EXCEPT !.arg = arg]
    OBVIOUS
  <2>2. DOMAIN is[k] = InstFields
    BY DEF BodyOK
  <2> QED BY <2>1, <2>2 DEF InstFields
<1>3. \A k \in DOMAIN is : IsCall(new[k]) <=> IsCall(is[k])
  BY <1>2 DEF IsCall
<1> QED BY <1>1, <1>2, <1>3 DEF BodyOK

LEMMA BodyGrown ==
    ASSUME NEW is, NEW relocs, BodyOK(is, relocs), NEW n \in DOMAIN is, IsCall(is[n]),
           NEW x, DOMAIN x = InstFields, ~IsCall(x), x.id = is[n].id,
           NEW y, DOMAIN y = InstFields, ~IsCall(y), y.id = 0,
           NEW more, \A j \in DOMAIN more : more[j].inst = is[n].id \/ \E k \in DOMAIN relocs : more[j].inst = relocs[k].inst
    PROVE  BodyOK(Called(is, n, x, y), more)
<1> DEFINE new == Called(is, n, x, y)
           Old(k) == IF k < n THEN k ELSE k - 1
<1>1. /\ IsSeq(new) /\ Len(new) = Len(is) + 1
      /\ \A k \in DOMAIN new : new[k] = IF k < n THEN is[k] ELSE IF k = n THEN x ELSE IF k = n + 1 THEN y ELSE is[k - 1]
  BY CalledIs DEF BodyOK
<1>2. /\ Len(is) \in Nat /\ DOMAIN is = 1 .. Len(is) /\ DOMAIN new = 1 .. Len(is) + 1
  BY <1>1, IsSeqLen DEF BodyOK
<1>3. \A k \in DOMAIN new :
          \/ k = n /\ new[k] = x
          \/ k = n + 1 /\ new[k] = y
          \/ k # n /\ k # n + 1 /\ Old(k) \in DOMAIN is /\ new[k] = is[Old(k)] /\ Old(k) # n
  <2> SUFFICES ASSUME NEW k \in DOMAIN new, k # n, k # n + 1
               PROVE  Old(k) \in DOMAIN is /\ new[k] = is[Old(k)] /\ Old(k) # n
    BY <1>1, <1>2
  <2> HIDE DEF new
  <2> QED BY <1>1, <1>2
<1>4. \A j, k \in DOMAIN new : j \notin {n, n + 1} /\ k \notin {n, n + 1} /\ Old(j) = Old(k) => j = k
  <2> HIDE DEF new
  <2> QED BY <1>2
<1>5. /\ DOMAIN x = InstFields /\ DOMAIN y = InstFields /\ x.id \in Nat /\ y.id \in Nat
  BY DEF BodyOK
<1> HIDE DEF Old, new
<1>6. ASSUME NEW k \in DOMAIN new PROVE DOMAIN new[k] = InstFields /\ new[k].id \in Nat
  BY <1>3, <1>5 DEF BodyOK
<1>7. ASSUME NEW k \in DOMAIN new, IsCall(new[k])
      PROVE  /\ new[k].id # 0
             /\ \A j \in DOMAIN new : new[j].id = new[k].id => j = k
             /\ \A j \in DOMAIN more : more[j].inst # new[k].id
  <2>1. k # n /\ k # n + 1 /\ Old(k) \in DOMAIN is /\ new[k] = is[Old(k)] /\ Old(k) # n
    BY <1>3, <1>7
  <2>2. /\ new[k].id # 0
        /\ \A j \in DOMAIN is : is[j].id = new[k].id => j = Old(k)
        /\ \A j \in DOMAIN relocs : relocs[j].inst # new[k].id
    BY <1>7, <2>1 DEF BodyOK
  <2>3. is[n].id # new[k].id
    BY <2>1, <2>2
  <2>4. \A j \in DOMAIN more : more[j].inst # new[k].id
    BY <2>2, <2>3
  <2>5. ASSUME NEW j \in DOMAIN new, new[j].id = new[k].id PROVE j = k
    <3>1. j # n /\ j # n + 1 /\ Old(j) \in DOMAIN is /\ new[j] = is[Old(j)]
      BY <1>3, <2>2, <2>3, <2>5
    <3>2. Old(j) = Old(k)
      BY <2>2, <2>5, <3>1
    <3> QED BY <1>4, <2>1, <3>1, <3>2
  <2> QED BY <2>2, <2>4, <2>5
<1>8. BodyOK(new, more)
  BY <1>1, <1>6, <1>7 DEF BodyOK
<1> QED BY <1>8 DEF new

LEMMA TablesStep == TablesInv /\ ElementsInv /\ [Next]_vars => TablesInv'
<1> SUFFICES ASSUME TablesInv, ElementsInv, [Next]_vars PROVE TablesInv'
  OBVIOUS
<1>1. CASE PartitionMethods
  <2>1. phase = "objc" /\ objcElem' = (AllMethods # <<>>)
    BY <1>1 DEF PartitionMethods
  <2>2. IsOne(elements)
    BY <2>1 DEF ElementsInv, Collecting, Growing, Whole, Parted, Placed
  <2>3. Tables(objcElem', elements')
    BY <1>1, <2>1, <2>2, PartitionedIs DEF Tables
  <2> QED BY <2>3 DEF TablesInv
<1>2. ASSUME (LinkNext /\ UNCHANGED relocVars) \/ RelocNext, ~PartitionMethods
      PROVE  phase' \notin Parted \/ (phase \in Parted /\ UNCHANGED <<elements, objcElem>>)
  BY <1>2 DEF LinkNext, Resolve, ResolveDone, ReplaceImport, RetargetImports, RemoveImport, RemoveImportDone,
     RetargetCall, RetargetCallDone, MergeStrings, RelocNext, CollectCode, CollectCodeDone, CollectData, CreateElements,
     Export, SetupCommonData, GenerateExports, CreateInitArray, CreateTableCtor, SetupModuleData,
     WriteHeader, Validate, EncodeExternal, EncodeInternal, Failure, Goto, linkVars, relocVars, Parted, Placed
<1>3. ASSUME UNCHANGED vars PROVE UNCHANGED <<phase, elements, objcElem>>
  BY <1>3 DEF vars, relocVars
<1>4. [Next]_vars => (LinkNext /\ UNCHANGED relocVars) \/ RelocNext \/ UNCHANGED vars
  BY DEF Next, Stopped
<1> QED BY <1>1, <1>2, <1>3, <1>4 DEF TablesInv

\* The segments that are copied to the table.
LEMMA InitialisedIs ==
    ASSUME Tables(objcElem, elements)
    PROVE  /\ IsSeq(Initialised) /\ Distinct(Initialised)
           /\ ToSet(Initialised) = (IF tableElem THEN {1} ELSE {}) \cup (IF objcElem THEN {2} ELSE {})
<1>1. objcElem => Len(elements) = 2
  <2>1. objcElem => IsTwo(elements)
    BY DEF Tables
  <2>2. IsTwo(elements) => DOMAIN elements = {1, 2} /\ IsSeq(elements)
    <3>1. ASSUME NEW es, IsTwo(es), NEW v, NEW w, v = es[1].vector, w = es[2].vector PROVE DOMAIN es = {1, 2} /\ IsSeq(es)
      <4>1. es = Two(v, w) /\ IsSeq(v) /\ Distinct(v) /\ IsSeq(w) /\ Distinct(w) /\ ToSet(v) \cap ToSet(w) = {}
        BY <3>1 DEF IsTwo
      <4> QED BY <4>1, TwoIs
    <3> QED BY <3>1
  <2>3. DOMAIN elements = {1, 2} /\ IsSeq(elements) => Len(elements) = 2
    <3> SUFFICES ASSUME DOMAIN elements = {1, 2}, IsSeq(elements) PROVE Len(elements) = 2
      OBVIOUS
    <3>1. Len(elements) \in Nat /\ 1 .. Len(elements) = {1, 2}
      BY IsSeqLen
    <3>2. \A k \in 1 .. Len(elements) : k <= 2
      BY <3>1
    <3> QED BY <3>1, <3>2
  <2> QED BY <2>1, <2>2, <2>3
<1>2. /\ IsSeq(<<>>) /\ Distinct(<<>>) /\ ToSet(<<>>) = {}
      /\ IsSeq(<<1>>) /\ Distinct(<<1>>) /\ ToSet(<<1>>) = {1}
      /\ IsSeq(<<2>>) /\ Distinct(<<2>>) /\ ToSet(<<2>>) = {2}
  BY EmptyIsSeq, SingletonIs DEF Distinct, ToSet
<1>3. /\ IsSeq(<<1, 2>>) /\ Distinct(<<1, 2>>) /\ ToSet(<<1, 2>>) = {1, 2}
  <2>1. IsSeq(<<1, 2>>)
    BY PairIsSeq
  <2> DEFINE p == <<1, 2>>
  <2>2. Len(p) = 2 /\ p[1] = 1 /\ p[2] = 2
    OBVIOUS
  <2> HIDE DEF p
  <2>3. DOMAIN p = {1, 2}
    <3>1. DOMAIN p = 1 .. 2
      BY <2>1, <2>2, IsSeqLen DEF p
    <3> QED BY <3>1
  <2>4. Distinct(p) /\ ToSet(p) = {1, 2}
    BY <2>2, <2>3 DEF Distinct, ToSet
  <2> QED BY <2>1, <2>4 DEF p
<1>4. /\ <<>> \o <<>> = <<>> /\ <<1>> \o <<>> = <<1>> /\ <<>> \o <<2>> = <<2>> /\ <<1>> \o <<2>> = <<1, 2>>
  <2>1. <<>> \in Seq({1, 2}) /\ <<1>> \in Seq({1, 2}) /\ <<2>> \in Seq({1, 2})
    OBVIOUS
  <2>2. <<>> \o <<>> = <<>> /\ <<1>> \o <<>> = <<1>> /\ <<>> \o <<2>> = <<2>>
    BY <2>1, ConcatEmptySeq
  <2>3. <<1>> \o <<2>> = <<1, 2>>
    <3> DEFINE p == <<1>>
               q == <<2>>
               t == <<1, 2>>
    <3>1. Len(p) = 1 /\ p[1] = 1 /\ Len(q) = 1 /\ q[1] = 2 /\ t \in Seq({1, 2}) /\ Len(t) = 2 /\ t[1] = 1 /\ t[2] = 2
      OBVIOUS
    <3>2. p \in Seq({1, 2}) /\ q \in Seq({1, 2})
      BY <2>1
    <3> HIDE DEF p, q, t
    <3>3. p \o q \in Seq({1, 2}) /\ Len(p \o q) = 2 /\ (p \o q)[1] = 1 /\ (p \o q)[2] = 2
      <4>0. p \o q \in Seq({1, 2}) /\ IsSeq(p) /\ IsSeq(q)
        BY <3>2, ConcatProperties, SeqIsSeq
      <4>1. /\ Len(p \o q) = 1 + 1
            /\ \A k \in 1 .. 1 + 1 : (p \o q)[k] = IF k <= 1 THEN p[k] ELSE q[k - 1]
        <5>1. /\ Len(p \o q) = Len(p) + Len(q)
              /\ \A k \in 1 .. Len(p) + Len(q) : (p \o q)[k] = IF k <= Len(p) THEN p[k] ELSE q[k - Len(p)]
          BY <4>0, ConcatIsSeq
        <5>2. Len(p) = 1 /\ Len(q) = 1
          BY <3>1
        <5> QED BY <5>1, <5>2
      <4>2. 1 \in 1 .. 1 + 1 /\ 2 \in 1 .. 1 + 1 /\ 2 - 1 = 1 /\ ~(2 <= 1) /\ 1 <= 1
        OBVIOUS
      <4> QED BY <3>1, <4>0, <4>1, <4>2
    <3>4. p \o q = t
      BY <3>1, <3>3, SeqEqual
    <3> QED BY <3>4 DEF p, q, t
  <2> QED BY <2>2, <2>3
<1>5. Initialised = (IF tableElem THEN <<1>> ELSE <<>>) \o (IF objcElem THEN <<2>> ELSE <<>>)
  BY <1>1 DEF Initialised
<1>6. CASE tableElem /\ objcElem
  BY <1>3, <1>4, <1>5, <1>6
<1>7. CASE tableElem /\ ~objcElem
  BY <1>2, <1>4, <1>5, <1>7
<1>8. CASE ~tableElem /\ objcElem
  BY <1>2, <1>4, <1>5, <1>8
<1>9. CASE ~tableElem /\ ~objcElem
  BY <1>2, <1>4, <1>5, <1>9
<1> QED BY <1>6, <1>7, <1>8, <1>9

LEMMA CodeInit == InitRelocs => CodeInv /\ BodyInv
<1> SUFFICES ASSUME InitRelocs PROVE CodeInv /\ BodyInv
  OBVIOUS
<1>1. PICK p \in Programs : program = p
  BY DEF InitRelocs, Init
<1>2. body = p.body /\ codeRelocs = p.codeRelocs
  BY <1>1 DEF InitRelocs, Init
<1>3. p.codeRelocs \in Seq([type : STRING, ref : DOMAIN p.symbols, inst : Nat, addend : Int])
  BY ProgramsAssumption
<1> DEFINE rs == p.codeRelocs
           is == p.body
<1>4. IsSeq(rs) /\ IsSeq(is)
  <2>1. IsSeq(rs)
    BY <1>3, SeqIsSeq
  <2>2. IsSeq(is)
    BY RelocsAssumption DEF IsSeq
  <2> QED BY <2>1, <2>2
<1>5. \A k \in DOMAIN rs : DOMAIN rs[k] = CodeFields /\ rs[k].inst \in Nat
  <2> SUFFICES ASSUME NEW k \in DOMAIN rs PROVE DOMAIN rs[k] = CodeFields /\ rs[k].inst \in Nat
    OBVIOUS
  <2>1. rs[k] \in [type : STRING, ref : DOMAIN p.symbols, inst : Nat, addend : Int]
    BY <1>3, <1>4, IsSeqLen, ElementOfSeq
  <2> QED BY <2>1 DEF CodeFields
<1>6. ASSUME NEW k \in DOMAIN rs
      PROVE  /\ rs[k].type \in CodeTypes
             /\ \A j \in DOMAIN is : is[j].id = rs[k].inst => ~IsCall(is[j])
             /\ \A j \in DOMAIN rs : rs[j].inst = rs[k].inst => rs[j] = rs[k]
  BY RelocsAssumption DEF CodeTypes
<1>7. CodeOK(rs, rs)
  BY <1>4, <1>5, <1>6 DEF CodeOK
<1>8. ASSUME NEW k \in DOMAIN is
      PROVE  /\ DOMAIN is[k] = InstFields /\ is[k].id \in Nat /\ is[k].id # 0
             /\ \A j \in DOMAIN is : is[j].id = is[k].id => j = k
  BY RelocsAssumption DEF InstFields
<1>9. BodyOK(is, rs)
  <2>1. ASSUME NEW k \in DOMAIN is, IsCall(is[k]), NEW j \in DOMAIN rs, rs[j].inst = is[k].id PROVE FALSE
    <3>1. is[k].id = rs[j].inst => ~IsCall(is[k])
      BY <1>6
    <3> QED BY <2>1, <3>1
  <2> QED BY <1>4, <1>8, <2>1 DEF BodyOK
<1> QED BY <1>1, <1>2, <1>4, <1>5, <1>7, <1>9 DEF CodeInv, BodyInv

LEMMA CodeKept ==
    ASSUME CodeInv, BodyInv, UNCHANGED <<program, codeRelocs, body>>,
           phase \in Tabled => phase' \in Tabled, phase' \in Before => phase \in Before
    PROVE  CodeInv' /\ BodyInv'
BY DEF CodeInv, BodyInv, CodeOK, BodyOK

LEMMA CodeCall ==
    ASSUME CodeInv, BodyInv, LinkInv, RetargetCall
    PROVE  CodeInv' /\ BodyInv'
<1>1. /\ phase = "calls" /\ phase' = phase /\ program' = program /\ i <= Len(body)
      /\ phase \in Before /\ phase \notin Tabled
  BY DEF RetargetCall, Before, Tabled, Parted, Placed
<1>2. PICK inst, new : inst = body[i] /\ new = Get(toTable, inst.arg)
  OBVIOUS
<1>3. i \in DOMAIN body /\ BodyOK(body, codeRelocs) /\ IsSeq(body)
  BY <1>1, IsSeqLen DEF LinkInv, BodyInv
<1>4. inst.id \in Nat
  BY <1>2, <1>3 DEF BodyOK
<1> DEFINE x == Inst("i32.const", Nothing, inst.id)
           y == Inst("call_indirect", Nothing, 0)
           r == [type |-> "TABLE_INDEX_SLEB", ref |-> RuntimeRef(new.module, new.name), inst |-> inst.id, addend |-> 0]
<1>5. \/ IsCall(inst) /\ body' = Called(body, i, x, y) /\ codeRelocs' = Append(codeRelocs, r)
      \/ body' = [body EXCEPT ![i].arg = new] /\ codeRelocs' = codeRelocs
      \/ body' = body /\ codeRelocs' = codeRelocs
  BY <1>2 DEF RetargetCall, Called
<1>6. CodeOK(codeRelocs, program.codeRelocs) /\ \A k \in DOMAIN codeRelocs : codeRelocs[k].inst \in Nat
  BY <1>1 DEF CodeInv
<1>7. CASE IsCall(inst) /\ body' = Called(body, i, x, y) /\ codeRelocs' = Append(codeRelocs, r)
  <2>1. /\ DOMAIN x = InstFields /\ ~IsCall(x) /\ x.id = inst.id
        /\ DOMAIN y = InstFields /\ ~IsCall(y) /\ y.id = 0
    BY DEF Inst, InstFields, IsCall
  <2>2. DOMAIN r = CodeFields /\ r.type \in CodeTypes /\ r.inst = inst.id
    BY DEF CodeFields, CodeTypes
  <2>3. \A k \in DOMAIN codeRelocs : codeRelocs[k].inst # inst.id
    BY <1>2, <1>3, <1>7 DEF BodyOK
  <2>4. IsSeq(codeRelocs)
    BY <1>6 DEF CodeOK
  <2> HIDE DEF r, x, y
  <2>5. codeRelocs' = codeRelocs \o <<r>>
    <3>1. codeRelocs \in Seq(ToSet(codeRelocs) \cup {r})
      <4>1. codeRelocs \in Seq(ToSet(codeRelocs))
        BY <2>4 DEF IsSeq
      <4> QED BY <4>1
    <3> QED BY <1>7, <3>1, AppendIsConcat
  <2>6. IsSeq(<<r>>) /\ DOMAIN <<r>> = {1} /\ <<r>>[1] = r
    BY SingletonIs
  <2>7. CodeOK(codeRelocs \o <<r>>, program.codeRelocs)
    <3> DEFINE more == <<r>>
    <3>1. /\ IsSeq(more)
          /\ \A k \in DOMAIN more : DOMAIN more[k] = CodeFields /\ more[k].type \in CodeTypes /\ more[k].inst \in Int
          /\ \A j, k \in DOMAIN more : more[j].inst = more[k].inst => j = k
          /\ \A j \in DOMAIN codeRelocs, k \in DOMAIN more : codeRelocs[j].inst # more[k].inst
      BY <1>4, <2>2, <2>3, <2>6
    <3> HIDE DEF more
    <3>2. CodeOK(codeRelocs \o more, program.codeRelocs)
      BY <1>6, <3>1, CodeConcat
    <3> QED BY <3>2 DEF more
  <2> DEFINE new1 == codeRelocs \o <<r>>
  <2>8. \A k \in DOMAIN new1 : \/ k \in DOMAIN codeRelocs /\ new1[k] = codeRelocs[k]
                              \/ new1[k] = r
    <3> DEFINE more == <<r>>
    <3>1. IsSeq(more) /\ DOMAIN more = {1} /\ more[1] = r
      BY <2>6
    <3> HIDE DEF more
    <3>2. \A k \in DOMAIN (codeRelocs \o more) :
             \/ k \in DOMAIN codeRelocs /\ (codeRelocs \o more)[k] = codeRelocs[k]
             \/ (codeRelocs \o more)[k] = r
      BY <2>4, <3>1, ConcatElements
    <3> QED BY <3>2 DEF more
  <2> HIDE DEF new1
  <2>9. BodyOK(body', codeRelocs')
    <3>1. \A j \in DOMAIN new1 : new1[j].inst = inst.id \/ \E k \in DOMAIN codeRelocs : new1[j].inst = codeRelocs[k].inst
      BY <2>2, <2>8
    <3>2. BodyOK(Called(body, i, x, y), new1)
      BY <1>2, <1>3, <1>7, <2>1, <3>1, BodyGrown
    <3> QED BY <1>7, <2>5, <3>2 DEF new1
  <2>10. \A k \in DOMAIN codeRelocs' : codeRelocs'[k].inst \in Nat
    <3>1. \A k \in DOMAIN new1 : new1[k].inst \in Nat
      BY <1>4, <1>6, <2>2, <2>8
    <3> QED BY <2>5, <3>1 DEF new1
  <2>11. IsSeq(body')
    BY <2>9 DEF BodyOK
  <2> QED BY <1>1, <2>5, <2>7, <2>9, <2>10, <2>11 DEF CodeInv, BodyInv
<1>8. CASE body' = [body EXCEPT ![i].arg = new] /\ codeRelocs' = codeRelocs
  <2>1. /\ DOMAIN body' = DOMAIN body /\ body' = [k \in DOMAIN body |-> body'[k]]
        /\ \A k \in DOMAIN body : \E arg : body'[k] = body[k] \/ body'[k] = [body[k] EXCEPT !.arg = arg]
    BY <1>3, <1>8
  <2>2. BodyOK(body', codeRelocs)
    BY <1>3, <2>1, BodyArgued
  <2>3. IsSeq(body')
    BY <2>2 DEF BodyOK
  <2> QED BY <1>1, <1>6, <1>8, <2>2, <2>3 DEF CodeInv, BodyInv
<1>9. CASE body' = body /\ codeRelocs' = codeRelocs
  BY <1>1, <1>9, CodeKept
<1> QED BY <1>5, <1>7, <1>8, <1>9

LEMMA CodeImports ==
    ASSUME CodeInv, BodyInv, RetargetImports
    PROVE  CodeInv' /\ BodyInv'
<1>1. phase = "imports" /\ phase' = "tables" /\ program' = program /\ codeRelocs' = codeRelocs
  BY DEF RetargetImports, Goto
<1>2. phase \in Before /\ phase' \in Before /\ phase \notin Tabled /\ phase' \notin Tabled
  BY <1>1 DEF Before, Tabled, Parted, Placed
<1>3. /\ DOMAIN body' = DOMAIN body /\ body' = [k \in DOMAIN body |-> body'[k]]
      /\ \A k \in DOMAIN body : \E arg : body'[k] = body[k] \/ body'[k] = [body[k] EXCEPT !.arg = arg]
  BY DEF RetargetImports
<1>4. BodyOK(body', codeRelocs)
  BY <1>2, <1>3, BodyArgued DEF BodyInv
<1>5. IsSeq(body')
  BY <1>4 DEF BodyOK
<1> QED BY <1>1, <1>2, <1>4, <1>5 DEF CodeInv, BodyInv

LEMMA CodeStrings ==
    ASSUME CodeInv, BodyInv, MergeStrings
    PROVE  CodeInv' /\ BodyInv'
<1>1. phase = "strings" /\ phase' = "code" /\ program' = program /\ body' = body
  BY DEF MergeStrings, Goto
<1>2. phase' \notin Before /\ phase \notin Tabled /\ phase' \notin Tabled
  BY <1>1 DEF Before, Tabled, Parted, Placed
<1>3. /\ DOMAIN codeRelocs' = DOMAIN codeRelocs /\ codeRelocs' = [k \in DOMAIN codeRelocs |-> codeRelocs'[k]]
      /\ \A k \in DOMAIN codeRelocs : codeRelocs'[k] = [codeRelocs[k] EXCEPT !.ref = KeptRef(codeRelocs[k].ref)]
  BY DEF MergeStrings
<1>4. CodeOK(codeRelocs', program.codeRelocs) /\ \A k \in DOMAIN codeRelocs : codeRelocs'[k].inst = codeRelocs[k].inst
  <2>1. PICK new : new = codeRelocs'
    OBVIOUS
  <2>2. Referred(new, codeRelocs)
    BY <1>3, <2>1, ZenonT(40) DEF Referred
  <2>3. CodeOK(codeRelocs, program.codeRelocs)
    BY DEF CodeInv
  <2>4. CodeOK(new, program.codeRelocs) /\ \A k \in DOMAIN codeRelocs : new[k].inst = codeRelocs[k].inst
    BY <2>2, <2>3, CodeReferred
  <2> QED BY <2>1, <2>4
<1> QED BY <1>1, <1>2, <1>3, <1>4 DEF CodeInv, BodyInv

LEMMA CodeCollect ==
    ASSUME CodeInv, BodyInv, CollectCode
    PROVE  CodeInv' /\ BodyInv'
<1>1. phase = "code" /\ phase' = "code" /\ program' = program /\ body' = body
  BY DEF CollectCode
<1>2. phase' \notin Before /\ phase \notin Tabled /\ phase' \notin Tabled
  BY <1>1 DEF Before, Tabled, Parted, Placed
<1>3. \/ codeRelocs' = codeRelocs
      \/ codeRelocs' = Recollected(codeRelocs)
  BY DEF CollectCode
<1>4. /\ CodeOK(codeRelocs', program.codeRelocs) /\ DOMAIN codeRelocs' = DOMAIN codeRelocs
      /\ \A k \in DOMAIN codeRelocs : codeRelocs'[k].inst = codeRelocs[k].inst
  <2>1. PICK new : new = codeRelocs'
    OBVIOUS
  <2>2. Referred(new, codeRelocs)
    <3>1. codeRelocs \in [1 .. Len(codeRelocs) -> ToSet(codeRelocs)]
      BY ElementOfSeq, LenProperties DEF CodeInv, CodeOK, IsSeq
    <3>2. codeRelocs = [k \in DOMAIN codeRelocs |-> codeRelocs[k]]
      BY <3>1
    <3>3. Referred(codeRelocs, codeRelocs)
      BY <3>2, ReferredSelf
    <3>4. Referred(Recollected(codeRelocs), codeRelocs)
      BY RecollectedRefers
    <3>5. new = codeRelocs \/ new = Recollected(codeRelocs)
      BY <1>3, <2>1
    <3> QED BY <3>3, <3>4, <3>5
  <2>3. CodeOK(codeRelocs, program.codeRelocs)
    BY DEF CodeInv
  <2>4. /\ CodeOK(new, program.codeRelocs) /\ DOMAIN new = DOMAIN codeRelocs
        /\ \A k \in DOMAIN codeRelocs : new[k].inst = codeRelocs[k].inst
    <3>1. DOMAIN new = DOMAIN codeRelocs
      BY <2>2 DEF Referred
    <3>2. CodeOK(new, program.codeRelocs) /\ \A k \in DOMAIN codeRelocs : new[k].inst = codeRelocs[k].inst
      BY <2>2, <2>3, CodeReferred
    <3> QED BY <3>1, <3>2
  <2> QED BY <2>1, <2>4
<1> QED BY <1>1, <1>2, <1>4 DEF CodeInv, BodyInv

LEMMA DestinationsAre ==
    ASSUME Tables(objcElem, elements)
    PROVE  /\ IsSeq(Destinations) /\ DOMAIN Destinations = DOMAIN Initialised
           /\ \A k \in DOMAIN Destinations :
                 /\ DOMAIN Destinations[k] = CodeFields /\ Destinations[k].type \in CodeTypes
                 /\ Destinations[k].inst = -Initialised[k] /\ Initialised[k] \in {1, 2}
           /\ \A j, k \in DOMAIN Destinations : Destinations[j].inst = Destinations[k].inst => j = k
<1>1. IsSeq(Initialised) /\ Distinct(Initialised) /\ ToSet(Initialised) \subseteq {1, 2}
  BY InitialisedIs
<1>2. \A k \in DOMAIN Initialised : Initialised[k] \in {1, 2}
  BY <1>1 DEF ToSet
<1>3. IsSeq(Destinations) /\ DOMAIN Destinations = DOMAIN Initialised
  <2>1. Len(Initialised) \in Nat /\ DOMAIN Initialised = 1 .. Len(Initialised)
    BY <1>1, IsSeqLen
  <2>2. DOMAIN Destinations = DOMAIN Initialised /\ Destinations = [k \in DOMAIN Initialised |-> Destinations[k]]
    BY DEF Destinations
  <2> QED BY <2>1, <2>2, FunctionIsSeq
<1>4. ASSUME NEW k \in DOMAIN Initialised
      PROVE  DOMAIN Destinations[k] = CodeFields /\ Destinations[k].type \in CodeTypes /\ Destinations[k].inst = -Initialised[k]
  BY DEF Destinations, DestinationReloc, DestinationId, CodeFields, CodeTypes
<1>5. ASSUME NEW j \in DOMAIN Initialised, NEW k \in DOMAIN Initialised, Destinations[j].inst = Destinations[k].inst
      PROVE  j = k
  <2>1. Initialised[j] = Initialised[k]
    BY <1>2, <1>4, <1>5
  <2> QED BY <1>1, <2>1 DEF Distinct
<1> QED BY <1>2, <1>3, <1>4, <1>5

LEMMA CodeTable ==
    ASSUME CodeInv, BodyInv, TablesInv, CreateTableCtor
    PROVE  CodeInv' /\ BodyInv'
<1>1. phase = "table" /\ phase' = "dynsym" /\ program' = program /\ body' = body
  BY DEF CreateTableCtor, Goto
<1>2. phase' \notin Before /\ phase \notin Tabled /\ phase' \in Tabled /\ phase \in Parted
  BY <1>1 DEF Before, Tabled, Parted, Placed
<1>3. codeRelocs' = codeRelocs \o Destinations
  BY DEF CreateTableCtor, Destinations
<1>4. \A j \in DOMAIN codeRelocs : codeRelocs[j].inst \in Nat
  BY <1>2 DEF CodeInv
<1>5. /\ IsSeq(Destinations)
      /\ \A k \in DOMAIN Destinations :
            DOMAIN Destinations[k] = CodeFields /\ Destinations[k].type \in CodeTypes /\ Destinations[k].inst \in {-1, -2}
      /\ \A j, k \in DOMAIN Destinations : Destinations[j].inst = Destinations[k].inst => j = k
  BY <1>2, DestinationsAre DEF TablesInv
<1>6. CodeOK(codeRelocs \o Destinations, program.codeRelocs)
  <2>1. \A j \in DOMAIN codeRelocs, k \in DOMAIN Destinations : codeRelocs[j].inst # Destinations[k].inst
    BY <1>4, <1>5
  <2>2. \A k \in DOMAIN Destinations : Destinations[k].inst \in Int
    BY <1>5
  <2> QED BY <1>5, <2>1, <2>2, CodeConcat DEF CodeInv
<1> QED BY <1>1, <1>2, <1>3, <1>6 DEF CodeInv, BodyInv

LEMMA CodeStep == CodeInv /\ BodyInv /\ LinkInv /\ TablesInv /\ [Next]_vars => CodeInv' /\ BodyInv'
<1> SUFFICES ASSUME CodeInv, BodyInv, LinkInv, TablesInv, [Next]_vars PROVE CodeInv' /\ BodyInv'
  OBVIOUS
<1>1. CASE RetargetCall \/ RetargetImports \/ MergeStrings \/ CollectCode \/ CreateTableCtor
  BY <1>1, CodeCall, CodeImports, CodeStrings, CodeCollect, CodeTable
<1>2. ASSUME (LinkNext /\ UNCHANGED relocVars) \/ RelocNext,
             ~RetargetCall, ~RetargetImports, ~MergeStrings, ~CollectCode, ~CreateTableCtor
      PROVE  /\ UNCHANGED <<program, codeRelocs, body>>
             /\ phase \in Tabled => phase' \in Tabled
             /\ phase' \in Before => phase \in Before
  BY <1>2 DEF LinkNext, Resolve, ResolveDone, ReplaceImport, RemoveImport, RemoveImportDone,
     RetargetCallDone, RelocNext, CollectCodeDone, CollectData, CreateElements, PartitionMethods,
     Export, SetupCommonData, GenerateExports, CreateInitArray, SetupModuleData, LinkedElsewhere,
     WriteHeader, Validate, EncodeExternal, EncodeInternal, Failure, Goto, linkVars, relocVars, Tabled, Parted, Placed, Before
<1>3. ASSUME UNCHANGED vars PROVE UNCHANGED <<phase, program, codeRelocs, body>>
  BY <1>3 DEF vars, linkVars
<1>4. [Next]_vars => (LinkNext /\ UNCHANGED relocVars) \/ RelocNext \/ UNCHANGED vars
  BY DEF Next, Stopped
<1>5. CASE UNCHANGED <<program, codeRelocs, body>> /\ (phase \in Tabled => phase' \in Tabled) /\ (phase' \in Before => phase \in Before)
  BY <1>5, CodeKept
<1> QED BY <1>1, <1>2, <1>3, <1>4, <1>5

----------------------------------------------------------------------------
(* Two relocations of one word are one, listed twice.                      *)

LEMMA DataReferred ==
    ASSUME NEW relocs, NEW relocs0, DataOK(relocs, relocs0), NEW new, Referred(new, relocs)
    PROVE  /\ DataOK(new, relocs0)
           /\ \A k \in DOMAIN relocs : new[k].segment = relocs[k].segment /\ new[k].off = relocs[k].off
<1>1. IsSeq(new)
  <2>1. Len(relocs) \in Nat /\ DOMAIN relocs = 1 .. Len(relocs)
    BY IsSeqLen DEF DataOK
  <2>2. DOMAIN new = 1 .. Len(relocs) /\ new = [k \in 1 .. Len(relocs) |-> new[k]]
    BY <2>1 DEF Referred
  <2> QED BY <2>1, <2>2, FunctionIsSeq
<1>2. ASSUME NEW k \in DOMAIN relocs
      PROVE  /\ DOMAIN new[k] = DataFields /\ new[k].type = relocs[k].type /\ new[k].segment = relocs[k].segment
             /\ new[k].off = relocs[k].off /\ new[k].addend = relocs[k].addend
  <2>1. PICK ref : new[k] = relocs[k] \/ new[k] = [relocs[k] EXCEPT !.ref = ref]
    BY DEF Referred
  <2>2. DOMAIN relocs[k] = DataFields
    BY DEF DataOK
  <2> QED BY <2>1, <2>2 DEF DataFields
<1>3. DOMAIN new = DOMAIN relocs
  BY DEF Referred
<1>4. ASSUME NEW j \in DOMAIN new, NEW k \in DOMAIN new, new[j].segment = new[k].segment, new[j].off = new[k].off
      PROVE  new[j] = new[k] /\ (j = k \/ {j, k} \subseteq DOMAIN relocs0)
  <2>1. relocs[j].segment = relocs[k].segment /\ relocs[j].off = relocs[k].off
    BY <1>2, <1>3, <1>4
  <2>2. relocs[j] = relocs[k] /\ (j = k \/ {j, k} \subseteq DOMAIN relocs0)
    BY <1>3, <2>1 DEF DataOK
  <2> QED BY <1>3, <2>2 DEF Referred
<1> QED BY <1>1, <1>2, <1>3, <1>4 DEF DataOK

\* More of them, in a segment of their own.
LEMMA DataConcat ==
    ASSUME NEW relocs, NEW relocs0, DataOK(relocs, relocs0), NEW more, IsSeq(more), NEW d,
           \A k \in DOMAIN more : DOMAIN more[k] = DataFields /\ more[k].type \in DataTypes /\ more[k].off \in Nat /\ more[k].segment = d,
           \A j, k \in DOMAIN more : more[j].off = more[k].off => j = k,
           \A j \in DOMAIN relocs : relocs[j].segment # d
    PROVE  DataOK(relocs \o more, relocs0)
<1> DEFINE new == relocs \o more
           S == ToSet(relocs) \cup ToSet(more)
<1>1. IsSeq(relocs)
  BY DEF DataOK
<1>7. /\ IsSeq(new) /\ ToSet(new) = S
      /\ \A k \in DOMAIN relocs : k \in DOMAIN new /\ new[k] = relocs[k]
      /\ \A k \in DOMAIN new :
            \/ k \in DOMAIN relocs /\ new[k] = relocs[k]
            \/ k - Len(relocs) \in DOMAIN more /\ new[k] = more[k - Len(relocs)]
  BY <1>1, ConcatElements
<1>8. \A k \in DOMAIN new : new[k] \in S
  BY <1>7 DEF ToSet
<1>9. \A r \in S : DOMAIN r = DataFields /\ r.type \in DataTypes /\ r.off \in Nat
  BY DEF DataOK, ToSet
<1>t. Len(relocs) \in Nat /\ \A k \in DOMAIN new : k \in Int
  BY <1>1, <1>7, IsSeqLen
<1> HIDE DEF new
<1>10. ASSUME NEW j \in DOMAIN new, NEW k \in DOMAIN new, new[j].segment = new[k].segment, new[j].off = new[k].off
       PROVE  new[j] = new[k] /\ (j = k \/ {j, k} \subseteq DOMAIN relocs0)
  <2>2. CASE j \in DOMAIN relocs /\ new[j] = relocs[j] /\ k \in DOMAIN relocs /\ new[k] = relocs[k]
    BY <1>10, <2>2 DEF DataOK
  <2>3. CASE /\ j - Len(relocs) \in DOMAIN more /\ new[j] = more[j - Len(relocs)]
             /\ k - Len(relocs) \in DOMAIN more /\ new[k] = more[k - Len(relocs)]
    <3>1. j - Len(relocs) = k - Len(relocs)
      BY <1>10, <2>3
    <3>2. j = k
      BY <1>t, <3>1
    <3> QED BY <3>2
  <2>4. CASE /\ j \in DOMAIN relocs /\ new[j] = relocs[j]
             /\ k - Len(relocs) \in DOMAIN more /\ new[k] = more[k - Len(relocs)]
    BY <1>10, <2>4
  <2>5. CASE /\ k \in DOMAIN relocs /\ new[k] = relocs[k]
             /\ j - Len(relocs) \in DOMAIN more /\ new[j] = more[j - Len(relocs)]
    BY <1>10, <2>5
  <2> QED BY <1>7, <2>2, <2>3, <2>4, <2>5
<1>11. /\ DOMAIN relocs0 \subseteq DOMAIN relocs
       /\ \A k \in DOMAIN relocs0 :
          /\ relocs[k].type = relocs0[k].type /\ relocs[k].segment = relocs0[k].segment
          /\ relocs[k].off = relocs0[k].off /\ relocs[k].addend = relocs0[k].addend
  BY DEF DataOK
<1>12. \A k \in DOMAIN relocs0 :
          /\ k \in DOMAIN new /\ new[k].type = relocs0[k].type /\ new[k].segment = relocs0[k].segment
          /\ new[k].off = relocs0[k].off /\ new[k].addend = relocs0[k].addend
  BY <1>7, <1>11
<1>13. \A k \in DOMAIN new : DOMAIN new[k] = DataFields /\ new[k].type \in DataTypes /\ new[k].off \in Nat
  BY <1>8, <1>9
<1>14. DataOK(new, relocs0)
  BY <1>7, <1>10, <1>12, <1>13 DEF DataOK
<1> QED BY <1>14 DEF new

LEMMA DataInit == InitRelocs => DataInv
<1> SUFFICES ASSUME InitRelocs PROVE DataInv
  OBVIOUS
<1>1. PICK p \in Programs : program = p
  BY DEF InitRelocs, Init
<1>2. dataRelocs = p.dataRelocs
  BY <1>1 DEF InitRelocs, Init
<1> DEFINE rs == p.dataRelocs
<1>3. rs \in Seq([type : STRING, ref : DOMAIN p.symbols, segment : STRING, off : Nat, addend : Int])
  BY ProgramsAssumption
<1>4. IsSeq(rs)
  BY <1>3, SeqIsSeq
<1>5. ASSUME NEW k \in DOMAIN rs
      PROVE  DOMAIN rs[k] = DataFields /\ rs[k].off \in Nat
  <2>1. rs[k] \in [type : STRING, ref : DOMAIN p.symbols, segment : STRING, off : Nat, addend : Int]
    BY <1>3, <1>4, IsSeqLen, ElementOfSeq
  <2> QED BY <2>1 DEF DataFields
<1>6. ASSUME NEW k \in DOMAIN rs
      PROVE  /\ rs[k].type \in DataTypes /\ rs[k].off < 16
             /\ \A j \in DOMAIN p.segments : p.segments[j].name = rs[k].segment => ~p.segments[j].string
             /\ \A j \in DOMAIN rs : rs[j].segment = rs[k].segment /\ rs[j].off = rs[k].off => rs[j] = rs[k]
  BY RelocsAssumption DEF DataTypes
<1>7. DataOK(rs, rs)
  BY <1>4, <1>5, <1>6 DEF DataOK
<1>8. ASSUME NEW k \in DOMAIN rs PROVE InSegment(rs[k]) \/ Gone(rs[k])
  <2>1. CASE \E d \in ToSet(p.segments) : d.name = rs[k].segment
    <3>1. PICK j \in DOMAIN p.segments : p.segments[j].name = rs[k].segment
      BY <2>1 DEF ToSet
    <3>2. p.segments[j] \in ToSet(p.segments) /\ ~p.segments[j].string
      BY <1>6, <3>1 DEF ToSet
    <3> QED BY <1>1, <1>6, <3>1, <3>2 DEF InSegment
  <2>2. CASE ~\E d \in ToSet(p.segments) : d.name = rs[k].segment
    <3>1. rs[k].segment \notin Added
      BY SectionsAssumption
    <3> QED BY <1>1, <1>6, <2>2, <3>1 DEF Gone, Worded
  <2> QED BY <2>1, <2>2
<1> QED BY <1>1, <1>2, <1>7, <1>8 DEF DataInv

LEMMA FilledIs ==
    /\ Filled \subseteq Added
    /\ ".init_array" \in Filled <=> phase \in Arrayed
    /\ ".dynsym" \in Filled <=> phase \in Symboled
BY DEF Filled, Added

LEMMA InSegmentIs ==
    ASSUME program \in Programs, NEW r, InSegment(r)
    PROVE  r.segment \notin Added
<1>1. PICK d \in ToSet(program.segments) : d.name = r.segment
  BY DEF InSegment
<1>2. PICK k \in DOMAIN program.segments : program.segments[k] = d
  BY DEF ToSet
<1> QED BY <1>1, <1>2, SectionsAssumption

LEMMA DataReplaced ==
    ASSUME DataInv, UNCHANGED program, NEW new, new = dataRelocs', Referred(new, dataRelocs),
           phase \in Arrayed => phase' \in Arrayed, phase \in Symboled => phase' \in Symboled
    PROVE  DataInv'
<1>1. DataOK(new, program.dataRelocs) /\ \A k \in DOMAIN dataRelocs : new[k].segment = dataRelocs[k].segment /\ new[k].off = dataRelocs[k].off
  BY DataReferred DEF DataInv
<1>2. DOMAIN new = DOMAIN dataRelocs
  BY DEF Referred
<1>3. Filled \subseteq Filled'
  BY DEF Filled
<1> QED BY <1>1, <1>2, <1>3 DEF DataInv, InSegment, Gone, Worded

LEMMA DataKept ==
    ASSUME DataInv, UNCHANGED <<program, dataRelocs>>,
           phase \in Arrayed => phase' \in Arrayed, phase \in Symboled => phase' \in Symboled
    PROVE  DataInv'
<1>1. Filled \subseteq Filled'
  BY DEF Filled
<1> QED BY <1>1 DEF DataInv, DataOK, InSegment, Gone, Worded

\* A section is filled.
LEMMA DataAdded ==
    ASSUME DataInv, UNCHANGED program, NEW more, IsSeq(more), dataRelocs' = dataRelocs \o more,
           NEW d, d \in Added, d \notin Filled, Filled' = Filled \cup {d},
           \A k \in DOMAIN more : DOMAIN more[k] = DataFields /\ more[k].type \in DataTypes /\ more[k].off \in Nat /\ more[k].segment = d,
           \A j, k \in DOMAIN more : more[j].off = more[k].off => j = k
    PROVE  DataInv'
<1>1. \A j \in DOMAIN dataRelocs : dataRelocs[j].segment # d
  BY InSegmentIs DEF DataInv, Gone
<1>2. DataOK(dataRelocs, program.dataRelocs) /\ IsSeq(dataRelocs)
  BY DEF DataInv, DataOK
<1>3. PICK new : new = dataRelocs \o more
  OBVIOUS
<1>4. DataOK(new, program.dataRelocs)
  BY <1>1, <1>2, <1>3, DataConcat
<1>5. \A k \in DOMAIN new : \/ k \in DOMAIN dataRelocs /\ new[k] = dataRelocs[k]
                            \/ k - Len(dataRelocs) \in DOMAIN more /\ new[k] = more[k - Len(dataRelocs)]
  BY <1>2, <1>3, ConcatElements
<1>6. \A k \in DOMAIN new : InSegment(new[k]) \/ Gone(new[k]) \/ new[k].segment \in Filled'
  BY <1>5 DEF DataInv
<1> QED BY <1>3, <1>4, <1>6 DEF DataInv, InSegment, Gone, Worded

LEMMA InitWordsAre ==
    ASSUME program \in Programs
    PROVE  /\ IsSeq(InitWords)
           /\ \A k \in DOMAIN InitWords :
                 /\ DOMAIN InitWords[k] = DataFields /\ InitWords[k].type = "TABLE_INDEX_I32"
                 /\ InitWords[k].off \in Nat /\ InitWords[k].segment = ".init_array"
           /\ \A j, k \in DOMAIN InitWords : InitWords[j].off = InitWords[k].off => j = k
<1> DEFINE n == Len(CtorFunctions)
<1>1. n \in Nat /\ DOMAIN CtorFunctions = 1 .. n
  BY CtorFunctionsIs, IsSeqLen
<1>2. DOMAIN InitWords = 1 .. n /\ InitWords = [k \in 1 .. n |-> InitWords[k]]
  BY <1>1 DEF InitWords
<1>3. IsSeq(InitWords)
  BY <1>1, <1>2, FunctionIsSeq
<1>4. ASSUME NEW k \in 1 .. n
      PROVE  /\ DOMAIN InitWords[k] = DataFields /\ InitWords[k].type = "TABLE_INDEX_I32"
             /\ InitWords[k].off = 4 * (k - 1) /\ InitWords[k].segment = ".init_array"
  BY <1>1 DEF InitWords, PointerTo, DataFields
<1>5. \A k \in 1 .. n : 4 * (k - 1) \in Nat
  BY <1>1
<1>6. \A j, k \in 1 .. n : 4 * (j - 1) = 4 * (k - 1) => j = k
  BY <1>1
<1> QED BY <1>2, <1>3, <1>4, <1>5, <1>6

LEMMA SymbolWordsAre ==
    ASSUME IsSeq(dynsym)
    PROVE  /\ IsSeq(SymbolWords)
           /\ \A m \in DOMAIN SymbolWords : \E j \in DOMAIN dynsym :
                 (m = 2 * j - 1 /\ SymbolWords[m] = NamePointer(j)) \/ (m = 2 * j /\ SymbolWords[m] = SymbolPointer(j))
           /\ \A j \in DOMAIN dynsym :
                 /\ 2 * j - 1 \in DOMAIN SymbolWords /\ SymbolWords[2 * j - 1] = NamePointer(j)
                 /\ 2 * j \in DOMAIN SymbolWords /\ SymbolWords[2 * j] = SymbolPointer(j)
<1> DEFINE n == Len(dynsym)
           a == [k \in 1 .. n |-> NamePointer(k)]
           b == [k \in 1 .. n |-> SymbolPointer(k)]
<1>1. n \in Nat /\ DOMAIN dynsym = 1 .. n
  BY IsSeqLen
<1> HIDE DEF n
<1>2. [k \in 1 .. n |-> <<NamePointer(k), SymbolPointer(k)>>] = [k \in 1 .. n |-> <<a[k], b[k]>>]
  OBVIOUS
<1>3. \A k \in 1 .. n : a[k] = NamePointer(k) /\ b[k] = SymbolPointer(k)
  OBVIOUS
<1>4. SymbolWords = FlattenSeq(PairsOf(n, a, b))
  BY <1>1, <1>2 DEF SymbolWords, PairsOf
<1> HIDE DEF a, b
<1>5. PICK s : s = FlattenSeq(PairsOf(n, a, b))
  OBVIOUS
<1>r. InRow(s, n, a, b)
  BY <1>1, <1>5, PairsInRow
<1>6. /\ IsSeq(s)
      /\ \A m \in DOMAIN s : \E j \in 1 .. n : (m = 2 * j - 1 /\ s[m] = a[j]) \/ (m = 2 * j /\ s[m] = b[j])
      /\ \A j \in 1 .. n : 2 * j - 1 \in DOMAIN s /\ s[2 * j - 1] = a[j] /\ 2 * j \in DOMAIN s /\ s[2 * j] = b[j]
  BY <1>r DEF InRow
<1>7. SymbolWords = s
  BY <1>4, <1>5
<1> HIDE DEF n
<1>8. /\ \A m \in DOMAIN s : \E j \in DOMAIN dynsym : (m = 2 * j - 1 /\ s[m] = NamePointer(j)) \/ (m = 2 * j /\ s[m] = SymbolPointer(j))
      /\ \A j \in DOMAIN dynsym : /\ 2 * j - 1 \in DOMAIN s /\ s[2 * j - 1] = NamePointer(j)
                                /\ 2 * j \in DOMAIN s /\ s[2 * j] = SymbolPointer(j)
  <2>1. ASSUME NEW m \in DOMAIN s
        PROVE  \E j \in DOMAIN dynsym : (m = 2 * j - 1 /\ s[m] = NamePointer(j)) \/ (m = 2 * j /\ s[m] = SymbolPointer(j))
    <3>1. PICK j \in 1 .. n : (m = 2 * j - 1 /\ s[m] = a[j]) \/ (m = 2 * j /\ s[m] = b[j])
      BY <1>6
    <3>2. j \in DOMAIN dynsym /\ a[j] = NamePointer(j) /\ b[j] = SymbolPointer(j)
      BY <1>1, <1>3
    <3> QED BY <3>1, <3>2
  <2>2. ASSUME NEW j \in DOMAIN dynsym
        PROVE  /\ 2 * j - 1 \in DOMAIN s /\ s[2 * j - 1] = NamePointer(j)
               /\ 2 * j \in DOMAIN s /\ s[2 * j] = SymbolPointer(j)
    <3>1. j \in 1 .. n
      BY <1>1
    <3> QED BY <3>1, <1>3, <1>6
  <2> QED BY <2>1, <2>2
<1> QED BY <1>6, <1>7, <1>8

LEMMA PointersAre ==
    ASSUME NEW k \in Nat \ {0}
    PROVE  /\ DOMAIN NamePointer(k) = DataFields /\ NamePointer(k).type \in DataTypes
           /\ NamePointer(k).off = 12 * (k - 1) /\ NamePointer(k).segment = ".dynsym"
           /\ DOMAIN SymbolPointer(k) = DataFields /\ SymbolPointer(k).type \in DataTypes
           /\ SymbolPointer(k).off = 12 * (k - 1) + 4 /\ SymbolPointer(k).segment = ".dynsym"
BY DEF NamePointer, SymbolPointer, PointerTo, DataFields, DataTypes

LEMMA SymbolWordsFit ==
    ASSUME IsSeq(dynsym)
    PROVE  /\ \A k \in DOMAIN SymbolWords :
                 /\ DOMAIN SymbolWords[k] = DataFields /\ SymbolWords[k].type \in DataTypes
                 /\ SymbolWords[k].off \in Nat /\ SymbolWords[k].segment = ".dynsym"
           /\ \A j, k \in DOMAIN SymbolWords : SymbolWords[j].off = SymbolWords[k].off => j = k
<1> DEFINE s == SymbolWords
<1>1. \A j \in DOMAIN dynsym : j \in Nat \ {0}
  BY IsSeqLen
<1>2. ASSUME NEW m \in DOMAIN s
      PROVE  \E j \in Nat \ {0} : (m = 2 * j - 1 /\ s[m] = NamePointer(j)) \/ (m = 2 * j /\ s[m] = SymbolPointer(j))
  BY <1>1, SymbolWordsAre
<1> HIDE DEF s
<1>3. ASSUME NEW m \in DOMAIN s
      PROVE  /\ DOMAIN s[m] = DataFields /\ s[m].type \in DataTypes /\ s[m].segment = ".dynsym"
             /\ \E j \in Nat \ {0} : (m = 2 * j - 1 /\ s[m].off = 12 * (j - 1)) \/ (m = 2 * j /\ s[m].off = 12 * (j - 1) + 4)
  <2>1. PICK j \in Nat \ {0} : (m = 2 * j - 1 /\ s[m] = NamePointer(j)) \/ (m = 2 * j /\ s[m] = SymbolPointer(j))
    BY <1>2
  <2> QED BY <2>1, PointersAre
<1>4. ASSUME NEW m \in DOMAIN s PROVE s[m].off \in Nat
  <2>1. PICK j \in Nat \ {0} : s[m].off = 12 * (j - 1) \/ s[m].off = 12 * (j - 1) + 4
    BY <1>3
  <2> QED BY <2>1
<1>5. ASSUME NEW k \in DOMAIN s, NEW m \in DOMAIN s, s[k].off = s[m].off PROVE k = m
  <2>1. PICK j \in Nat \ {0} : (m = 2 * j - 1 /\ s[m].off = 12 * (j - 1)) \/ (m = 2 * j /\ s[m].off = 12 * (j - 1) + 4)
    BY <1>3
  <2>2. PICK l \in Nat \ {0} : (k = 2 * l - 1 /\ s[k].off = 12 * (l - 1)) \/ (k = 2 * l /\ s[k].off = 12 * (l - 1) + 4)
    BY <1>3
  <2> QED BY <1>5, <2>1, <2>2
<1> QED BY <1>3, <1>4, <1>5 DEF s

LEMMA DataStep == DataInv /\ PartsInv /\ LinkInv /\ [Next]_vars => DataInv'
<1> SUFFICES ASSUME DataInv, PartsInv, LinkInv, [Next]_vars PROVE DataInv'
  OBVIOUS
<1>1. CASE CreateInitArray
  <2>1. dataRelocs' = dataRelocs \o InitWords /\ program' = program /\ phase = "init_array" /\ phase' = "objc"
    BY <1>1 DEF CreateInitArray, AddData, LinkedElsewhere, InitWords, Goto
  <2>2. Filled = {} /\ Filled' = {".init_array"}
    BY <2>1 DEF Filled, Arrayed, Symboled, Parted, Placed
  <2>3. PICK more : more = InitWords
    OBVIOUS
  <2>4. /\ IsSeq(more)
        /\ \A k \in DOMAIN more : DOMAIN more[k] = DataFields /\ more[k].type \in DataTypes /\ more[k].off \in Nat /\ more[k].segment = ".init_array"
        /\ \A j, k \in DOMAIN more : more[j].off = more[k].off => j = k
    BY <2>3, InitWordsAre DEF DataInv, DataTypes
  <2>5. ".init_array" \in Added
    BY DEF Added
  <2> QED BY <2>1, <2>2, <2>3, <2>4, <2>5, DataAdded
<1>2. CASE SetupModuleData
  <2>1. dataRelocs' = dataRelocs \o SymbolWords /\ program' = program /\ phase = "dynsym" /\ phase' = "header"
    BY <1>2 DEF SetupModuleData, AddData, LinkedElsewhere, SymbolWords, Goto
  <2>2. Filled = {".init_array"} /\ Filled' = {".init_array", ".dynsym"}
    BY <2>1 DEF Filled, Arrayed, Symboled, Parted, Placed
  <2>3. PICK more : more = SymbolWords
    OBVIOUS
  <2>4. /\ IsSeq(more)
        /\ \A k \in DOMAIN more : DOMAIN more[k] = DataFields /\ more[k].type \in DataTypes /\ more[k].off \in Nat /\ more[k].segment = ".dynsym"
        /\ \A j, k \in DOMAIN more : more[j].off = more[k].off => j = k
    BY <2>3, SymbolWordsAre, SymbolWordsFit DEF PartsInv
  <2>5. ".dynsym" \in Added /\ ".dynsym" \notin Filled
    BY <2>2 DEF Added
  <2> QED BY <2>1, <2>2, <2>3, <2>4, <2>5, DataAdded
<1>3. CASE MergeStrings \/ CollectData
  <2>1. /\ program' = program /\ phase \in {"strings", "data"}
        /\ \/ dataRelocs' = [k \in DOMAIN dataRelocs |-> [dataRelocs[k] EXCEPT !.ref = KeptRef(dataRelocs[k].ref)]]
           \/ dataRelocs' = Recollected(dataRelocs)
           \/ dataRelocs' = dataRelocs
    BY <1>3 DEF MergeStrings, CollectData
  <2>2. dataRelocs = [k \in DOMAIN dataRelocs |-> dataRelocs[k]]
    <3>1. dataRelocs \in [1 .. Len(dataRelocs) -> ToSet(dataRelocs)]
      BY ElementOfSeq, LenProperties DEF DataInv, DataOK, IsSeq
    <3> QED BY <3>1
  <2>3. PICK new : new = dataRelocs'
    OBVIOUS
  <2>4. Referred(new, dataRelocs)
    <3>1. Referred(dataRelocs, dataRelocs)
      BY <2>2, ReferredSelf
    <3>2. Referred(Recollected(dataRelocs), dataRelocs)
      BY RecollectedRefers
    <3>3. Referred([k \in DOMAIN dataRelocs |-> [dataRelocs[k] EXCEPT !.ref = KeptRef(dataRelocs[k].ref)]], dataRelocs)
      BY DEF Referred
    <3> QED BY <2>1, <2>3, <3>1, <3>2, <3>3
  <2>5. phase \notin Arrayed /\ phase \notin Symboled
    BY <2>1 DEF Arrayed, Symboled, Parted, Placed
  <2> QED BY <2>1, <2>3, <2>4, <2>5, DataReplaced
<1>4. ASSUME (LinkNext /\ UNCHANGED relocVars) \/ RelocNext,
             ~CreateInitArray, ~SetupModuleData, ~MergeStrings, ~CollectData
      PROVE  /\ UNCHANGED <<program, dataRelocs>>
             /\ phase \in Arrayed => phase' \in Arrayed
             /\ phase \in Symboled => phase' \in Symboled
  BY <1>4 DEF LinkNext, Resolve, ResolveDone, ReplaceImport, RetargetImports, RemoveImport, RemoveImportDone, RetargetCall,
     RetargetCallDone, RelocNext, CollectCode, CollectCodeDone, CreateElements, PartitionMethods,
     Export, SetupCommonData, GenerateExports, CreateTableCtor,
     WriteHeader, Validate, EncodeExternal, EncodeInternal, Failure, Goto, linkVars, relocVars, Arrayed, Symboled, Parted, Placed
<1>5. ASSUME UNCHANGED vars PROVE UNCHANGED <<phase, program, dataRelocs>>
  BY <1>5 DEF vars, linkVars
<1>6. [Next]_vars => (LinkNext /\ UNCHANGED relocVars) \/ RelocNext \/ UNCHANGED vars
  BY DEF Next, Stopped
<1>7. CASE UNCHANGED <<program, dataRelocs>> /\ (phase \in Arrayed => phase' \in Arrayed) /\ (phase \in Symboled => phase' \in Symboled)
  BY <1>7, DataKept
<1> QED BY <1>1, <1>2, <1>3, <1>4, <1>5, <1>6, <1>7

----------------------------------------------------------------------------
(* What the relocations of the program name.                               *)

LEMMA ProgramRelocs ==
    ASSUME program \in Programs
    PROVE  /\ IsSeq(program.codeRelocs) /\ IsSeq(program.dataRelocs)
           /\ \A k \in DOMAIN program.codeRelocs :
                 /\ program.codeRelocs[k].ref \in DOMAIN program.symbols
                 /\ program.codeRelocs[k].inst \in Nat
                 /\ program.codeRelocs[k].type \in CodeTypes
                 /\ program.codeRelocs[k].type = "TABLE_INDEX_SLEB" <=> program.symbols[program.codeRelocs[k].ref].kind = 0
           /\ \A k \in DOMAIN program.dataRelocs :
                 /\ program.dataRelocs[k].ref \in DOMAIN program.symbols
                 /\ program.dataRelocs[k].addend \in Int
                 /\ program.dataRelocs[k].type \in DataTypes
                 /\ program.dataRelocs[k].type = "TABLE_INDEX_I32" <=> program.symbols[program.dataRelocs[k].ref].kind = 0
                 /\ program.symbols[program.dataRelocs[k].ref].kind = 0 => program.dataRelocs[k].addend = 0
<1>1. PICK p \in Programs : p = program
  OBVIOUS
<1> DEFINE cs == p.codeRelocs
           ds == p.dataRelocs
<1>2. /\ cs \in Seq([type : STRING, ref : DOMAIN p.symbols, inst : Nat, addend : Int])
      /\ ds \in Seq([type : STRING, ref : DOMAIN p.symbols, segment : STRING, off : Nat, addend : Int])
  BY ProgramsAssumption
<1>3. IsSeq(cs) /\ IsSeq(ds)
  BY <1>2, SeqIsSeq
<1>4. ASSUME NEW k \in DOMAIN cs
      PROVE  cs[k].ref \in DOMAIN p.symbols /\ cs[k].inst \in Nat
  <2>1. cs[k] \in [type : STRING, ref : DOMAIN p.symbols, inst : Nat, addend : Int]
    BY <1>2, <1>3, IsSeqLen, ElementOfSeq
  <2> QED BY <2>1
<1>5. ASSUME NEW k \in DOMAIN ds
      PROVE  ds[k].ref \in DOMAIN p.symbols /\ ds[k].addend \in Int
  <2>1. ds[k] \in [type : STRING, ref : DOMAIN p.symbols, segment : STRING, off : Nat, addend : Int]
    BY <1>2, <1>3, IsSeqLen, ElementOfSeq
  <2> QED BY <2>1
<1>6. ASSUME NEW k \in DOMAIN cs
      PROVE  cs[k].type \in CodeTypes /\ (cs[k].type = "TABLE_INDEX_SLEB" <=> p.symbols[cs[k].ref].kind = 0)
  <2>1. cs[k].type \in IF p.symbols[cs[k].ref].kind = 0 THEN {"TABLE_INDEX_SLEB"} ELSE {"MEMORY_ADDR_LEB", "MEMORY_ADDR_SLEB"}
    BY RelocsAssumption
  <2> QED BY <2>1 DEF CodeTypes
<1>7. ASSUME NEW k \in DOMAIN ds
      PROVE  /\ ds[k].type \in DataTypes /\ (ds[k].type = "TABLE_INDEX_I32" <=> p.symbols[ds[k].ref].kind = 0)
             /\ p.symbols[ds[k].ref].kind = 0 => ds[k].addend = 0
  <2>1. /\ ds[k].type = IF p.symbols[ds[k].ref].kind = 0 THEN "TABLE_INDEX_I32" ELSE "MEMORY_ADDR_I32"
        /\ p.symbols[ds[k].ref].kind = 0 => ds[k].addend = 0
    BY RelocsAssumption
  <2> QED BY <2>1 DEF DataTypes
<1> QED BY <1>1, <1>3, <1>4, <1>5, <1>6, <1>7

LEMMA TextStays ==
    ASSUME UNCHANGED program, NEW x
    PROVE  (Text(x)' <=> Text(x)) /\ Bytes(x)' = Bytes(x) /\ Original(x)' = Original(x)
<1>1. \A d : Original(d)' = Original(d)
  BY DEF Original, SelectInSeq
<1>2. Original(program.symbols[x].value.name)' = Original(program.symbols[x].value.name)
  <2>1. PICK d : d = program.symbols[x].value.name
    OBVIOUS
  <2>2. Original(d)' = Original(d)
    BY <1>1
  <2> QED BY <2>1, <2>2 DEF Original, SelectInSeq
<1> QED BY <1>1, <1>2 DEF Text, Bytes

LEMMA RefsInit == InitRelocs => RefsInv
BY DEF InitRelocs, Init, RefsInv, Before

\* The symbol, or the string that is kept for it.
LEMMA RefMerged ==
    ASSUME SymbolsInv, LinkInv, SegmentsInv, MergeStrings, NEW x \in DOMAIN program.symbols, NEW ref, ref = KeptRef(x)
    PROVE  RefKept(ref, x)'
<1>1. phase = "strings" /\ program' = program /\ symbols' = symbols
  BY DEF MergeStrings
<1>2. program \in Programs /\ symtable = program.symtable /\ DOMAIN symbols = DOMAIN program.symbols
  BY <1>1 DEF SegmentsInv, SymbolsInv, Before
<1>3. x \in ToSet(symtable) /\ ref = Kept(x) /\ x \in DOMAIN symbols
  BY <1>2, SymbolsAssumption DEF KeptRef
<1>4. CASE IsString(x)
  <2>1. /\ ref \in DOMAIN symbols /\ Kept(ref) = ref
        /\ Text(x) /\ Text(ref) /\ Bytes(ref) = Bytes(x)
    BY <1>1, <1>3, <1>4, KeptString
  <2>2. There(ref)'
    <3>1. program.symbols[ref].value.is = "segment"
      BY <2>1, SegmentIs DEF Text
    <3>2. Original(program.symbols[ref].value.name) \in ToSet(segments')
      BY <1>1, <2>1, <3>1, KeptSegment
    <3> QED BY <1>1, <3>2 DEF There, Original, SelectInSeq
  <2>3. (Text(x) /\ Text(ref) /\ Bytes(ref) = Bytes(x))'
    BY <1>1, <2>1, TextStays
  <2> QED BY <2>2, <2>3 DEF RefKept
<1>5. CASE ~IsString(x)
  <2>1. Kept(x) = x
    BY <1>5 DEF Kept
  <2>2. There(x)'
    <3>1. program.symbols[x].value.is = "segment" => Original(program.symbols[x].value.name) \in ToSet(segments')
      BY <1>1, <1>3, <2>1, KeptSegment
    <3> QED BY <1>1, <3>1 DEF There, Original, SelectInSeq
  <2> QED BY <1>3, <2>1, <2>2 DEF RefKept
<1> QED BY <1>4, <1>5

LEMMA RefCollected ==
    ASSUME SymbolsInv, NEW x \in DOMAIN program.symbols, program.symbols[x].kind = 0, NEW ref, RefKept(ref, x),
           NEW new, new = CollectedRef(ref)
    PROVE  RefKept(new, x) /\ Collected(new)
<1>1. x[1] = "symbol"
  BY ProgramSymbol DEF SymbolsInv
<1>2. \A v : Referenced(Asked(v)).value = Nothing
  <2> SUFFICES ASSUME NEW v PROVE Referenced(Asked(v)).value = Nothing
    OBVIOUS
  <2>1. Asked(v)[1] = "runtime"
    BY DEF Asked, RuntimeRef
  <2> QED BY <2>1 DEF Referenced
<1>3. Nothing.is = "nothing"
  BY DEF Nothing
<1>4. CASE ref = x /\ There(x)
  <2>1. Referenced(ref) = symbols[x]
    BY <1>1, <1>4 DEF Referenced
  <2>2. CASE symbols[x].value.is = "import"
    <3>1. new = Asked(symbols[x].value)
      BY <2>1, <2>2 DEF CollectedRef
    <3> QED BY <1>2, <1>3, <2>2, <3>1 DEF RefKept, AsksFor, Collected
  <2>3. CASE symbols[x].value.is # "import"
    <3>1. new = ref
      BY <2>1, <2>3 DEF CollectedRef
    <3> QED BY <2>1, <2>3, <3>1 DEF Collected
  <2> QED BY <2>2, <2>3
<1>5. CASE AsksFor(ref, x)
  <2>1. Referenced(ref).value = Nothing
    BY <1>2, <1>5 DEF AsksFor
  <2>2. new = ref
    BY <1>3, <2>1 DEF CollectedRef
  <2> QED BY <1>3, <2>1, <2>2 DEF Collected
<1>6. ~Text(x)
  BY DEF Text
<1> QED BY <1>4, <1>5, <1>6 DEF RefKept

\* Nothing that is named changes.
LEMMA RefsKept ==
    ASSUME RefsInv, UNCHANGED <<program, symbols, segments>>,
           \A k \in DOMAIN program.codeRelocs : codeRelocs'[k] = codeRelocs[k],
           \A k \in DOMAIN program.dataRelocs : dataRelocs'[k] = dataRelocs[k],
           \/ phase \notin After /\ phase' \notin After
           \/ UNCHANGED <<phase, i>>
    PROVE  RefsInv'
<1>1. \A ref, x : RefKept(ref, x)' <=> RefKept(ref, x)
  BY DEF RefKept, There, AsksFor, Text, Bytes, Original, SelectInSeq
<1>2. \A ref : Collected(ref)' <=> Collected(ref)
  BY DEF Collected, Referenced
<1> QED BY <1>1, <1>2 DEF RefsInv, After

LEMMA RefsLink ==
    ASSUME RefsInv, CodeInv, LinkNext, UNCHANGED relocVars, ~MergeStrings
    PROVE  RefsInv'
<1>1. phase \in Before /\ phase' \in Before /\ program' = program /\ dataRelocs' = dataRelocs
  BY DEF LinkNext, Resolve, ResolveDone, ReplaceImport, RetargetImports, RemoveImport, RemoveImportDone,
     RetargetCall, RetargetCallDone, Goto, linkVars, Before
<1>2. PICK r : codeRelocs' = codeRelocs \/ codeRelocs' = Append(codeRelocs, r)
  BY DEF LinkNext, Resolve, ResolveDone, ReplaceImport, RetargetImports, RemoveImport, RemoveImportDone,
     RetargetCall, RetargetCallDone, Goto, linkVars
<1>3. IsSeq(codeRelocs) /\ DOMAIN program.codeRelocs \subseteq DOMAIN codeRelocs
  BY DEF CodeInv, CodeOK
<1>4. \A k \in DOMAIN program.codeRelocs : codeRelocs'[k] = codeRelocs[k]
  BY <1>2, <1>3, AppendIsSeq, IsSeqLen
<1>5. \A k \in DOMAIN program.codeRelocs : codeRelocs[k].ref = program.codeRelocs[k].ref
  BY <1>1 DEF RefsInv
<1>6. \A k \in DOMAIN program.dataRelocs : dataRelocs[k].ref = program.dataRelocs[k].ref
  BY <1>1 DEF RefsInv
<1>7. phase' # "code" /\ phase' # "data"
  BY <1>1 DEF Before
<1> QED BY <1>1, <1>4, <1>5, <1>6, <1>7 DEF RefsInv

LEMMA RefsStrings ==
    ASSUME RefsInv, CodeInv, DataInv, SymbolsInv, LinkInv, SegmentsInv, MergeStrings
    PROVE  RefsInv'
<1>1. phase = "strings" /\ phase' = "code" /\ i' = 1 /\ program' = program /\ phase \in Before /\ phase' \notin Before
  BY DEF MergeStrings, Goto, Before
<1>2. /\ codeRelocs' = [k \in DOMAIN codeRelocs |-> [codeRelocs[k] EXCEPT !.ref = KeptRef(codeRelocs[k].ref)]]
      /\ dataRelocs' = [k \in DOMAIN dataRelocs |-> [dataRelocs[k] EXCEPT !.ref = KeptRef(dataRelocs[k].ref)]]
  BY DEF MergeStrings
<1>3. program \in Programs
  BY DEF DataInv
<1>4. ASSUME NEW k \in DOMAIN program.codeRelocs
      PROVE  RefKept(codeRelocs[k].ref, program.codeRelocs[k].ref)' /\ k >= 1
  <2>1. k \in DOMAIN codeRelocs /\ DOMAIN codeRelocs[k] = CodeFields
    BY DEF CodeInv, CodeOK
  <2>2. codeRelocs'[k].ref = KeptRef(codeRelocs[k].ref)
    BY <1>2, <2>1 DEF CodeFields
  <2>3. PICK x, ref : x = program.codeRelocs[k].ref /\ ref = KeptRef(x)
    OBVIOUS
  <2>4. codeRelocs[k].ref = x
    BY <1>1, <2>3 DEF RefsInv
  <2>5. RefKept(ref, x)'
    BY <1>3, <2>3, RefMerged, ProgramRelocs
  <2>6. k >= 1
    BY <2>1, IsSeqLen DEF CodeInv, CodeOK
  <2> QED BY <1>1, <2>2, <2>3, <2>4, <2>5, <2>6
<1>5. ASSUME NEW k \in DOMAIN program.dataRelocs
      PROVE  RefKept(dataRelocs[k].ref, program.dataRelocs[k].ref)'
  <2>1. k \in DOMAIN dataRelocs /\ DOMAIN dataRelocs[k] = DataFields
    BY DEF DataInv, DataOK
  <2>2. dataRelocs'[k].ref = KeptRef(dataRelocs[k].ref)
    BY <1>2, <2>1 DEF DataFields
  <2>3. PICK x, ref : x = program.dataRelocs[k].ref /\ ref = KeptRef(x)
    OBVIOUS
  <2>4. dataRelocs[k].ref = x
    BY <1>1, <2>3 DEF RefsInv
  <2>5. RefKept(ref, x)'
    BY <1>3, <2>3, RefMerged, ProgramRelocs
  <2> QED BY <1>1, <2>2, <2>3, <2>4, <2>5
<1>6. \A k \in DOMAIN program.codeRelocs : ~(k < 1)
  <2>1. \A k \in DOMAIN program.codeRelocs : k \in Int
    BY <1>3, ProgramRelocs, IsSeqLen
  <2> QED BY <1>4, <2>1
<1> QED BY <1>1, <1>4, <1>5, <1>6 DEF RefsInv

LEMMA RefsCode ==
    ASSUME RefsInv, CodeInv, DataInv, SymbolsInv, LinkInv, CollectCode
    PROVE  RefsInv'
<1>1. /\ phase = "code" /\ phase' = "code" /\ i' = i + 1 /\ phase \notin Before
      /\ UNCHANGED <<program, symbols, segments, dataRelocs>>
  BY DEF CollectCode, Before
<1>2. /\ i \in Nat /\ program \in Programs /\ IsSeq(codeRelocs) /\ DOMAIN program.codeRelocs \subseteq DOMAIN codeRelocs
      /\ \A k \in DOMAIN codeRelocs : k \in Nat /\ DOMAIN codeRelocs[k] = CodeFields
  BY IsSeqLen DEF CodeInv, CodeOK, LinkInv, DataInv
<1>3. \A ref, x : RefKept(ref, x)' <=> RefKept(ref, x)
  BY <1>1 DEF RefKept, There, AsksFor, Text, Bytes, Original, SelectInSeq
<1>4. \A ref : Collected(ref)' <=> Collected(ref)
  BY <1>1 DEF Collected, Referenced
<1>5. ASSUME NEW k \in DOMAIN program.codeRelocs
      PROVE  /\ RefKept(codeRelocs'[k].ref, program.codeRelocs[k].ref)
             /\ program.codeRelocs[k].type = "TABLE_INDEX_SLEB" /\ k < i + 1 => Collected(codeRelocs'[k].ref)
  <2>1. RefKept(codeRelocs[k].ref, program.codeRelocs[k].ref)
    BY <1>1 DEF RefsInv
  <2>2. codeRelocs[k].type = program.codeRelocs[k].type
    BY DEF CodeInv, CodeOK
  <2>3. CASE codeRelocs[i].type # "TABLE_INDEX_SLEB"
    <3>1. codeRelocs' = codeRelocs
      BY <2>3 DEF CollectCode
    <3>2. k < i + 1 => k < i \/ k = i
      BY <1>2
    <3> QED BY <1>1, <2>1, <2>2, <2>3, <3>1, <3>2 DEF RefsInv
  <2>4. CASE codeRelocs[i].type = "TABLE_INDEX_SLEB" /\ codeRelocs[k] # codeRelocs[i]
    <3>1. codeRelocs' = Recollected(codeRelocs)
      BY <2>4 DEF CollectCode
    <3>2. codeRelocs'[k] = codeRelocs[k]
      BY <1>2, <2>4, <3>1 DEF Recollected
    <3>3. k # i
      BY <2>4
    <3>4. k < i + 1 => k < i
      BY <1>2, <3>3
    <3> QED BY <1>1, <2>1, <3>2, <3>4 DEF RefsInv
  <2>5. CASE codeRelocs[i].type = "TABLE_INDEX_SLEB" /\ codeRelocs[k] = codeRelocs[i]
    <3>1. codeRelocs' = Recollected(codeRelocs)
      BY <2>5 DEF CollectCode
    <3>2. codeRelocs'[k] = [codeRelocs[k] EXCEPT !.ref = CollectedRef(codeRelocs[k].ref)]
      BY <1>2, <2>5, <3>1 DEF Recollected
    <3>3. codeRelocs'[k].ref = CollectedRef(codeRelocs[k].ref)
      BY <1>2, <3>2 DEF CodeFields
    <3>4. PICK x, new : x = program.codeRelocs[k].ref /\ new = CollectedRef(codeRelocs[k].ref)
      OBVIOUS
    <3>5. program.codeRelocs[k].type = "TABLE_INDEX_SLEB"
      BY <2>2, <2>5
    <3>6. x \in DOMAIN program.symbols /\ program.symbols[x].kind = 0
      BY <1>2, <3>4, <3>5, ProgramRelocs
    <3>7. RefKept(new, x) /\ Collected(new)
      BY <2>1, <3>4, <3>6, RefCollected
    <3> QED BY <3>3, <3>4, <3>7
  <2> QED BY <2>3, <2>4, <2>5
<1>6. \A k \in DOMAIN program.dataRelocs : RefKept(dataRelocs[k].ref, program.dataRelocs[k].ref)
  BY <1>1 DEF RefsInv
<1> QED BY <1>1, <1>3, <1>4, <1>5, <1>6 DEF RefsInv, Before

LEMMA RefsData ==
    ASSUME RefsInv, CodeInv, DataInv, SymbolsInv, LinkInv, CollectData
    PROVE  RefsInv'
<1>1. /\ phase = "data" /\ phase' = "data" /\ i' = i + 1 /\ phase \notin Before
      /\ UNCHANGED <<program, symbols, segments, codeRelocs>>
  BY DEF CollectData, Before
<1>2. /\ i \in Nat /\ program \in Programs /\ IsSeq(dataRelocs) /\ DOMAIN program.dataRelocs \subseteq DOMAIN dataRelocs
      /\ \A k \in DOMAIN dataRelocs : k \in Nat /\ DOMAIN dataRelocs[k] = DataFields
  BY IsSeqLen DEF DataOK, LinkInv, DataInv
<1>3. \A ref, x : RefKept(ref, x)' <=> RefKept(ref, x)
  BY <1>1 DEF RefKept, There, AsksFor, Text, Bytes, Original, SelectInSeq
<1>4. \A ref : Collected(ref)' <=> Collected(ref)
  BY <1>1 DEF Collected, Referenced
<1>5. ASSUME NEW k \in DOMAIN program.dataRelocs
      PROVE  /\ RefKept(dataRelocs'[k].ref, program.dataRelocs[k].ref)
             /\ program.dataRelocs[k].type = "TABLE_INDEX_I32" /\ k < i + 1 => Collected(dataRelocs'[k].ref)
  <2>1. RefKept(dataRelocs[k].ref, program.dataRelocs[k].ref)
    BY <1>1 DEF RefsInv
  <2>2. dataRelocs[k].type = program.dataRelocs[k].type
    BY DEF DataInv, DataOK
  <2>3. CASE dataRelocs[i].type # "TABLE_INDEX_I32"
    <3>1. dataRelocs' = dataRelocs
      BY <2>3 DEF CollectData
    <3>2. k < i + 1 => k < i \/ k = i
      BY <1>2
    <3> QED BY <1>1, <2>1, <2>2, <2>3, <3>1, <3>2 DEF RefsInv
  <2>4. CASE dataRelocs[i].type = "TABLE_INDEX_I32" /\ dataRelocs[k] # dataRelocs[i]
    <3>1. dataRelocs' = Recollected(dataRelocs)
      BY <2>4 DEF CollectData
    <3>2. dataRelocs'[k] = dataRelocs[k]
      BY <1>2, <2>4, <3>1 DEF Recollected
    <3>3. k # i
      BY <2>4
    <3>4. k < i + 1 => k < i
      BY <1>2, <3>3
    <3> QED BY <1>1, <2>1, <3>2, <3>4 DEF RefsInv
  <2>5. CASE dataRelocs[i].type = "TABLE_INDEX_I32" /\ dataRelocs[k] = dataRelocs[i]
    <3>1. dataRelocs' = Recollected(dataRelocs)
      BY <2>5 DEF CollectData
    <3>2. dataRelocs'[k] = [dataRelocs[k] EXCEPT !.ref = CollectedRef(dataRelocs[k].ref)]
      BY <1>2, <2>5, <3>1 DEF Recollected
    <3>3. dataRelocs'[k].ref = CollectedRef(dataRelocs[k].ref)
      BY <1>2, <3>2 DEF DataFields
    <3>4. PICK x, new : x = program.dataRelocs[k].ref /\ new = CollectedRef(dataRelocs[k].ref)
      OBVIOUS
    <3>5. program.dataRelocs[k].type = "TABLE_INDEX_I32"
      BY <2>2, <2>5
    <3>6. x \in DOMAIN program.symbols /\ program.symbols[x].kind = 0
      BY <1>2, <3>4, <3>5, ProgramRelocs
    <3>7. RefKept(new, x) /\ Collected(new)
      BY <2>1, <3>4, <3>6, RefCollected
    <3> QED BY <3>3, <3>4, <3>7
  <2> QED BY <2>3, <2>4, <2>5
<1>6. \A k \in DOMAIN program.codeRelocs : RefKept(codeRelocs[k].ref, program.codeRelocs[k].ref)
  BY <1>1 DEF RefsInv
<1>7. \A k \in DOMAIN program.codeRelocs : program.codeRelocs[k].type = "TABLE_INDEX_SLEB" => Collected(codeRelocs[k].ref)
  BY <1>1 DEF RefsInv, Before
<1> QED BY <1>1, <1>3, <1>4, <1>5, <1>6, <1>7 DEF RefsInv, Before

\* The loops end.
LEMMA RefsDone ==
    ASSUME RefsInv, CodeInv, DataInv, LinkInv, CollectCodeDone \/ CreateElements
    PROVE  RefsInv'
<1>1. /\ UNCHANGED <<program, symbols, segments, codeRelocs, dataRelocs>> /\ i' = 1
      /\ \/ phase = "code" /\ phase' = "data" /\ i > Len(codeRelocs)
         \/ phase = "data" /\ phase' = "export" /\ i > Len(dataRelocs)
  BY DEF CollectCodeDone, CreateElements, Goto, linkVars
<1>2. phase \notin Before /\ phase' \notin Before
  BY <1>1 DEF Before
<1>3. \A ref, x : RefKept(ref, x)' <=> RefKept(ref, x)
  BY <1>1 DEF RefKept, There, AsksFor, Text, Bytes, Original, SelectInSeq
<1>4. \A ref : Collected(ref)' <=> Collected(ref)
  BY <1>1 DEF Collected, Referenced
<1>5. /\ i \in Nat
      /\ \A k \in DOMAIN program.codeRelocs : k \in 1 .. Len(codeRelocs) /\ Len(codeRelocs) \in Nat
      /\ \A k \in DOMAIN program.dataRelocs : k \in 1 .. Len(dataRelocs) /\ Len(dataRelocs) \in Nat
  BY IsSeqLen DEF CodeInv, CodeOK, DataInv, DataOK, LinkInv
<1>6. phase = "code" => /\ \A k \in DOMAIN program.codeRelocs : k < i
                        /\ \A k \in DOMAIN program.dataRelocs : ~(k < 1)
  BY <1>1, <1>5
<1>7. phase = "data" => \A k \in DOMAIN program.dataRelocs : k < i
  BY <1>1, <1>5
<1>8. \A k \in DOMAIN program.codeRelocs : program.codeRelocs[k].type = "TABLE_INDEX_SLEB" => Collected(codeRelocs[k].ref)
  BY <1>1, <1>2, <1>6 DEF RefsInv
<1>9. phase = "data" => \A k \in DOMAIN program.dataRelocs : program.dataRelocs[k].type = "TABLE_INDEX_I32" => Collected(dataRelocs[k].ref)
  BY <1>1, <1>2, <1>7 DEF RefsInv
<1>10. /\ \A k \in DOMAIN program.codeRelocs : RefKept(codeRelocs[k].ref, program.codeRelocs[k].ref)
       /\ \A k \in DOMAIN program.dataRelocs : RefKept(dataRelocs[k].ref, program.dataRelocs[k].ref)
  BY <1>2 DEF RefsInv
<1> QED BY <1>1, <1>2, <1>3, <1>4, <1>6, <1>8, <1>9, <1>10 DEF RefsInv

LEMMA RefsStep ==
    RefsInv /\ CodeInv /\ DataInv /\ SymbolsInv /\ LinkInv /\ SegmentsInv /\ TablesInv /\ PartsInv /\ [Next]_vars => RefsInv'
<1> SUFFICES ASSUME RefsInv, CodeInv, DataInv, SymbolsInv, LinkInv, SegmentsInv, TablesInv, PartsInv, [Next]_vars
             PROVE  RefsInv'
  OBVIOUS
<1>1. CASE LinkNext /\ UNCHANGED relocVars
  BY <1>1, RefsLink, RefsStrings
<1>2. CASE CollectCode \/ CollectData \/ CollectCodeDone \/ CreateElements
  BY <1>2, RefsCode, RefsData, RefsDone
<1>3. /\ IsSeq(codeRelocs) /\ DOMAIN program.codeRelocs \subseteq DOMAIN codeRelocs
      /\ IsSeq(dataRelocs) /\ DOMAIN program.dataRelocs \subseteq DOMAIN dataRelocs
      /\ program \in Programs /\ IsSeq(dynsym)
  BY DEF CodeInv, CodeOK, DataInv, DataOK, PartsInv
<1>4. ASSUME CreateTableCtor PROVE RefsInv'
  <2>1. /\ codeRelocs' = codeRelocs \o Destinations /\ UNCHANGED <<program, symbols, segments, dataRelocs>>
        /\ phase = "table" /\ phase' = "dynsym"
    BY <1>4 DEF CreateTableCtor, Destinations, Goto
  <2>2. IsSeq(Destinations)
    BY <2>1, DestinationsAre DEF TablesInv, Parted
  <2>3. \A k \in DOMAIN program.codeRelocs : codeRelocs'[k] = codeRelocs[k]
    BY <1>3, <2>1, <2>2, SameConcat DEF Same0
  <2> QED BY <2>1, <2>3, RefsKept DEF After, Before
<1>5. ASSUME CreateInitArray PROVE RefsInv'
  <2>1. /\ dataRelocs' = dataRelocs \o InitWords /\ UNCHANGED <<program, symbols, segments, codeRelocs>>
        /\ phase = "init_array" /\ phase' = "objc"
    BY <1>5 DEF CreateInitArray, AddData, LinkedElsewhere, InitWords, Goto
  <2>2. \A k \in DOMAIN program.dataRelocs : dataRelocs'[k] = dataRelocs[k]
    BY <1>3, <2>1, InitWordsAre, SameConcat DEF Same0
  <2> QED BY <2>1, <2>2, RefsKept DEF After, Before
<1>6. ASSUME SetupModuleData PROVE RefsInv'
  <2>1. /\ dataRelocs' = dataRelocs \o SymbolWords /\ UNCHANGED <<program, symbols, segments, codeRelocs>>
        /\ phase = "dynsym" /\ phase' = "header"
    BY <1>6 DEF SetupModuleData, AddData, LinkedElsewhere, SymbolWords, Goto
  <2>2. \A k \in DOMAIN program.dataRelocs : dataRelocs'[k] = dataRelocs[k]
    BY <1>3, <2>1, SymbolWordsAre, SameConcat DEF Same0
  <2> QED BY <2>1, <2>2, RefsKept DEF After, Before
<1>7. ASSUME RelocNext, ~CollectCode, ~CollectData, ~CollectCodeDone, ~CreateElements,
             ~CreateTableCtor, ~CreateInitArray, ~SetupModuleData
      PROVE  UNCHANGED <<program, symbols, segments, codeRelocs, dataRelocs>> /\ phase \notin After /\ phase' \notin After
  BY <1>7 DEF RelocNext, PartitionMethods, Export, SetupCommonData, GenerateExports, WriteHeader, Validate,
     EncodeExternal, EncodeInternal, Failure, Goto, linkVars, After, Before
<1>8. ASSUME UNCHANGED vars PROVE UNCHANGED <<phase, i, program, symbols, segments, codeRelocs, dataRelocs>>
  BY <1>8 DEF vars, linkVars
<1>9. [Next]_vars => (LinkNext /\ UNCHANGED relocVars) \/ RelocNext \/ UNCHANGED vars
  BY DEF Next, Stopped
<1>10. CASE UNCHANGED <<program, symbols, segments, codeRelocs, dataRelocs>> /\ phase \notin After /\ phase' \notin After
  BY <1>10, RefsKept
<1>11. CASE UNCHANGED <<phase, i, program, symbols, segments, codeRelocs, dataRelocs>>
  BY <1>11, RefsKept
<1> QED BY <1>1, <1>2, <1>4, <1>5, <1>6, <1>7, <1>8, <1>9, <1>10, <1>11

----------------------------------------------------------------------------
(* The relocations that the module answers, and those for other modules.   *)

LEMMA OnceAbsent ==
    ASSUME NEW s, NEW x, x \notin ToSet(s)
    PROVE  Once(s, x)
BY DEF Once, ToSet

LEMMA OnceDistinct ==
    ASSUME NEW s, NEW x, Distinct(s)
    PROVE  Once(s, x)
BY DEF Once, Distinct

LEMMA OnceLeft ==
    ASSUME NEW s, IsSeq(s), NEW t, IsSeq(t), NEW x, Once(s, x), x \notin ToSet(t)
    PROVE  Once(s \o t, x)
<1>1. \A k \in DOMAIN (s \o t) :
          \/ k \in DOMAIN s /\ (s \o t)[k] = s[k]
          \/ k - Len(s) \in DOMAIN t /\ (s \o t)[k] = t[k - Len(s)]
  BY ConcatElements
<1>2. \A k \in DOMAIN t : t[k] # x
  BY DEF ToSet
<1>3. \A k \in DOMAIN (s \o t) : (s \o t)[k] = x => k \in DOMAIN s /\ s[k] = x
  BY <1>1, <1>2
<1> QED BY <1>3 DEF Once

LEMMA OnceRight ==
    ASSUME NEW s, IsSeq(s), NEW t, IsSeq(t), NEW x, x \notin ToSet(s), Once(t, x)
    PROVE  Once(s \o t, x)
<1>1. \A k \in DOMAIN (s \o t) :
          \/ k \in DOMAIN s /\ (s \o t)[k] = s[k]
          \/ k - Len(s) \in DOMAIN t /\ (s \o t)[k] = t[k - Len(s)]
  BY ConcatElements
<1>2. \A k \in DOMAIN s : s[k] # x
  BY DEF ToSet
<1>3. \A k \in DOMAIN (s \o t) : (s \o t)[k] = x => k - Len(s) \in DOMAIN t /\ t[k - Len(s)] = x
  BY <1>1, <1>2
<1>4. Len(s) \in Int /\ \A k \in DOMAIN (s \o t) : k \in Int
  <2>1. IsSeq(s \o t)
    BY ConcatElements
  <2> QED BY <2>1, IsSeqLen
<1>5. ASSUME NEW j \in DOMAIN (s \o t), NEW k \in DOMAIN (s \o t), (s \o t)[j] = x, (s \o t)[k] = x
      PROVE  j = k
  <2>1. j - Len(s) = k - Len(s)
    BY <1>3, <1>5 DEF Once
  <2> QED BY <1>4, <2>1
<1> QED BY <1>5 DEF Once

LEMMA OnceOf ==
    ASSUME NEW s, IsSeq(s), NEW t, IsSeq(t), NEW x, Once(s \o t, x)
    PROVE  Once(s, x)
<1>1. \A k \in DOMAIN s : k \in DOMAIN (s \o t) /\ (s \o t)[k] = s[k]
  BY ConcatElements
<1> QED BY <1>1 DEF Once

LEMMA OnceWhere ==
    ASSUME NEW s, IsSeq(s), NEW x, Once(s, x), NEW T
    PROVE  Once(Where(s, T), x)
<1>1. IsSeq(Where(s, T)) /\ ToSet(Where(s, T)) = ToSet(s) \cap T
  BY WhereIs
<1>2. CASE x \in ToSet(s) \cap T
  <2>1. Sole(s, {x}, x)
    <3>1. PICK k \in DOMAIN s : s[k] = x
      BY <1>2 DEF ToSet
    <3> QED BY <3>1 DEF Sole, Once
  <2>2. Sole(Where(s, T), {x}, x)
    BY <1>2, <2>1, WhereOne
  <2> QED BY <2>2 DEF Sole, Once
<1>3. CASE x \notin ToSet(s) \cap T
  BY <1>1, <1>3, OnceAbsent
<1> QED BY <1>2, <1>3

LEMMA SplitGrown ==
    ASSUME NEW relocs, IsSeq(relocs), NEW in, IsSeq(in), NEW ex, Split(relocs, in, ex),
           NEW more, IsSeq(more), Distinct(more), ToSet(more) \cap ToSet(relocs) = {},
           NEW relocs0, DOMAIN relocs0 \subseteq DOMAIN relocs, Answered(relocs, in, relocs0)
    PROVE  Split(relocs \o more, in \o more, ex) /\ Answered(relocs \o more, in \o more, relocs0)
<1>1. ToSet(relocs \o more) = ToSet(relocs) \cup ToSet(more) /\ ToSet(in \o more) = ToSet(in) \cup ToSet(more)
  BY ConcatToSet
<1>2. ASSUME NEW x \in ToSet(relocs \o more), Once(relocs \o more, x)
      PROVE  Once(in \o more, x) /\ Once(ex, x)
  <2>1. CASE x \in ToSet(relocs)
    <3>1. Once(relocs, x)
      BY <1>2, OnceOf
    <3>2. Once(in, x) /\ Once(ex, x) /\ x \notin ToSet(more)
      BY <2>1, <3>1 DEF Split
    <3> QED BY <3>2, OnceLeft
  <2>2. CASE x \notin ToSet(relocs)
    <3>1. x \notin ToSet(in) /\ x \notin ToSet(ex)
      BY <2>2 DEF Split
    <3>2. Once(more, x)
      BY OnceDistinct
    <3> QED BY <3>1, <3>2, OnceRight, OnceAbsent
  <2> QED BY <2>1, <2>2
<1>3. \A k \in DOMAIN relocs0 : (relocs \o more)[k] = relocs[k] /\ relocs[k] \in ToSet(relocs)
  BY ConcatElements DEF ToSet
<1>4. Answered(relocs \o more, in \o more, relocs0)
  <2> SUFFICES ASSUME NEW k \in DOMAIN relocs0 PROVE (relocs \o more)[k] \in ToSet(in \o more) <=> Internal((relocs \o more)[k])
    BY DEF Answered
  <2>1. relocs[k] \in ToSet(in) <=> Internal(relocs[k])
    BY DEF Answered
  <2>2. relocs[k] \notin ToSet(more)
    BY <1>3
  <2> QED BY <1>1, <1>3, <2>1, <2>2
<1>5. /\ ToSet(in \o more) \cup ToSet(ex) = ToSet(relocs \o more)
      /\ ToSet(in \o more) \cap ToSet(ex) = {}
  BY <1>1 DEF Split
<1> QED BY <1>2, <1>4, <1>5 DEF Split

LEMMA SplitInit == InitRelocs => SplitInv
BY DEF InitRelocs, Init, SplitInv, Sorted, Whole, Parted, Placed

LEMMA SplitKept ==
    ASSUME SplitInv, UNCHANGED <<program, symbols, codeRelocs, dataRelocs, parts>>, phase \in Sorted <=> phase' \in Sorted
    PROVE  SplitInv'
<1>1. \A r : Internal(r)' <=> Internal(r)
  BY DEF Internal, Referenced
<1> QED BY <1>1 DEF SplitInv, Split, Answered

LEMMA SplitSorted ==
    ASSUME NEW relocs, IsSeq(relocs), NEW relocs0, DOMAIN relocs0 \subseteq DOMAIN relocs
    PROVE  Split(relocs, Internals(relocs), Externals(relocs)) /\ Answered(relocs, Internals(relocs), relocs0)
<1> DEFINE T == {r \in ToSet(relocs) : Internal(r)}
           U == {r \in ToSet(relocs) : ~Internal(r)}
<1>1. Internals(relocs) = Where(relocs, T) /\ Externals(relocs) = Where(relocs, U)
  BY DEF Internals, Externals
<1>2. T \cap ToSet(relocs) = T /\ U \cap ToSet(relocs) = U /\ T \cup U = ToSet(relocs) /\ T \cap U = {}
  OBVIOUS
<1>3. \A k \in DOMAIN relocs0 : relocs[k] \in T <=> Internal(relocs[k])
  BY DEF ToSet
<1> HIDE DEF T, U
<1>4. ToSet(Where(relocs, T)) = ToSet(relocs) \cap T /\ ToSet(Where(relocs, U)) = ToSet(relocs) \cap U
  BY WhereIs
<1>5. \A x \in ToSet(relocs) : Once(relocs, x) => Once(Where(relocs, T), x) /\ Once(Where(relocs, U), x)
  BY OnceWhere
<1> QED BY <1>1, <1>2, <1>3, <1>4, <1>5 DEF Split, Answered

LEMMA SplitCommon ==
    ASSUME SplitInv, CodeInv, DataInv, SetupCommonData
    PROVE  SplitInv'
<1>1. phase = "common" /\ UNCHANGED <<program, symbols, codeRelocs, dataRelocs>> /\ phase \notin Sorted
  BY DEF SetupCommonData, linkVars, Sorted, Whole, Parted, Placed
<1>2. CASE phase' = "data-segment missing data-section" /\ UNCHANGED parts
  <2>1. phase' \notin Sorted
    BY <1>2 DEF Sorted, Whole, Parted, Placed
  <2> QED BY <1>1, <1>2, <2>1, SplitKept
<1>3. CASE /\ parts' = [intCode |-> Internals(codeRelocs), extCode |-> Externals(codeRelocs),
                        intData |-> Internals(dataRelocs), extData |-> Externals(dataRelocs)]
           /\ phase' = "profile"
  <2>1. IsSeq(codeRelocs) /\ IsSeq(dataRelocs)
    BY DEF CodeInv, CodeOK, DataInv, DataOK
  <2>2. DOMAIN program.codeRelocs \subseteq DOMAIN codeRelocs /\ DOMAIN program.dataRelocs \subseteq DOMAIN dataRelocs
    BY DEF CodeInv, CodeOK, DataInv, DataOK
  <2>3. /\ Split(codeRelocs, Internals(codeRelocs), Externals(codeRelocs))
        /\ Split(dataRelocs, Internals(dataRelocs), Externals(dataRelocs))
        /\ Answered(codeRelocs, Internals(codeRelocs), program.codeRelocs)
        /\ Answered(dataRelocs, Internals(dataRelocs), program.dataRelocs)
    BY <2>1, <2>2, SplitSorted
  <2>4. \A r : Internal(r)' <=> Internal(r)
    BY <1>1 DEF Internal, Referenced
  <2>5. phase' \in Sorted
    BY <1>3 DEF Sorted, Whole
  <2>6. /\ parts'.intCode = Internals(codeRelocs) /\ parts'.extCode = Externals(codeRelocs)
        /\ parts'.intData = Internals(dataRelocs) /\ parts'.extData = Externals(dataRelocs)
    BY <1>3
  <2> QED BY <1>1, <2>3, <2>4, <2>5, <2>6 DEF SplitInv, Answered, Split
<1> QED BY <1>2, <1>3 DEF SetupCommonData, Goto

\* Pointers are added to the relocations and to those the module answers.
LEMMA SplitData ==
    ASSUME SplitInv, PartsInv, DataInv, UNCHANGED <<program, symbols, codeRelocs>>, phase \in Sorted, phase' \in Sorted,
           NEW more, IsSeq(more), dataRelocs' = dataRelocs \o more, parts' = [parts EXCEPT !.intData = @ \o more],
           NEW d, d \in Added, d \notin Filled, \A k \in DOMAIN more : more[k].segment = d,
           \A j, k \in DOMAIN more : more[j].off = more[k].off => j = k
    PROVE  SplitInv'
<1>1. Distinct(more)
  BY DEF Distinct
<1>2. \A k \in DOMAIN dataRelocs : dataRelocs[k].segment # d
  BY InSegmentIs DEF DataInv, Gone
<1>3. ToSet(more) \cap ToSet(dataRelocs) = {}
  BY <1>2 DEF ToSet
<1>4. /\ IsSeq(dataRelocs) /\ IsSeq(parts.intData) /\ DOMAIN program.dataRelocs \subseteq DOMAIN dataRelocs
      /\ Split(dataRelocs, parts.intData, parts.extData) /\ Answered(dataRelocs, parts.intData, program.dataRelocs)
  BY DEF DataInv, DataOK, PartsInv, SplitInv
<1>5. /\ Split(dataRelocs \o more, parts.intData \o more, parts.extData)
      /\ Answered(dataRelocs \o more, parts.intData \o more, program.dataRelocs)
  BY <1>1, <1>3, <1>4, SplitGrown
<1>6. /\ parts'.intData = parts.intData \o more /\ parts'.extData = parts.extData
      /\ parts'.intCode = parts.intCode /\ parts'.extCode = parts.extCode
  BY DEF PartsInv
<1>7. \A r : Internal(r)' <=> Internal(r)
  BY DEF Internal, Referenced
<1> QED BY <1>5, <1>6, <1>7 DEF SplitInv, Answered, Split

LEMMA SplitCode ==
    ASSUME SplitInv, PartsInv, CodeInv, TablesInv, CreateTableCtor
    PROVE  SplitInv'
<1>1. /\ phase = "table" /\ phase' = "dynsym" /\ UNCHANGED <<program, symbols, dataRelocs>>
      /\ codeRelocs' = codeRelocs \o Destinations /\ parts' = [parts EXCEPT !.intCode = @ \o Destinations]
  BY DEF CreateTableCtor, Goto, Destinations
<1>2. phase \in Sorted /\ phase' \in Sorted /\ phase \in Parted /\ phase \notin Tabled
  BY <1>1 DEF Sorted, Parted, Tabled, Placed
<1>3. /\ IsSeq(Destinations)
      /\ \A k \in DOMAIN Destinations : Destinations[k].inst \in {-1, -2}
      /\ \A j, k \in DOMAIN Destinations : Destinations[j].inst = Destinations[k].inst => j = k
  BY <1>2, DestinationsAre DEF TablesInv
<1>4. Distinct(Destinations)
  BY <1>3 DEF Distinct
<1>5. ToSet(Destinations) \cap ToSet(codeRelocs) = {}
  <2>1. \A k \in DOMAIN codeRelocs : codeRelocs[k].inst \in Nat
    BY <1>2 DEF CodeInv
  <2>2. \A j \in DOMAIN codeRelocs, k \in DOMAIN Destinations : codeRelocs[j].inst # Destinations[k].inst
    BY <1>3, <2>1
  <2> QED BY <2>2 DEF ToSet
<1>6. /\ IsSeq(codeRelocs) /\ IsSeq(parts.intCode) /\ DOMAIN program.codeRelocs \subseteq DOMAIN codeRelocs
      /\ Split(codeRelocs, parts.intCode, parts.extCode) /\ Answered(codeRelocs, parts.intCode, program.codeRelocs)
  BY <1>2 DEF CodeInv, CodeOK, PartsInv, SplitInv
<1>7. /\ Split(codeRelocs \o Destinations, parts.intCode \o Destinations, parts.extCode)
      /\ Answered(codeRelocs \o Destinations, parts.intCode \o Destinations, program.codeRelocs)
  BY <1>3, <1>4, <1>5, <1>6, SplitGrown
<1>8. /\ parts'.intCode = parts.intCode \o Destinations /\ parts'.extCode = parts.extCode
      /\ parts'.intData = parts.intData /\ parts'.extData = parts.extData
  BY <1>1 DEF PartsInv
<1>9. \A r : Internal(r)' <=> Internal(r)
  BY <1>1 DEF Internal, Referenced
<1> QED BY <1>1, <1>2, <1>7, <1>8, <1>9 DEF SplitInv, Answered, Split

LEMMA SplitStep == SplitInv /\ PartsInv /\ CodeInv /\ DataInv /\ TablesInv /\ [Next]_vars => SplitInv'
<1> SUFFICES ASSUME SplitInv, PartsInv, CodeInv, DataInv, TablesInv, [Next]_vars PROVE SplitInv'
  OBVIOUS
<1>1. CASE CreateInitArray
  <2>1. /\ phase = "init_array" /\ phase' = "objc" /\ UNCHANGED <<program, symbols, codeRelocs>>
        /\ dataRelocs' = dataRelocs \o InitWords /\ parts' = [parts EXCEPT !.intData = @ \o InitWords]
    BY <1>1 DEF CreateInitArray, AddData, LinkedElsewhere, Goto, InitWords
  <2>2. phase \in Sorted /\ phase' \in Sorted /\ ".init_array" \notin Filled
    BY <2>1, FilledIs DEF Sorted, Whole, Arrayed, Parted, Placed
  <2>3. /\ IsSeq(InitWords) /\ \A k \in DOMAIN InitWords : InitWords[k].segment = ".init_array"
        /\ \A j, k \in DOMAIN InitWords : InitWords[j].off = InitWords[k].off => j = k
    BY InitWordsAre DEF DataInv
  <2>4. ".init_array" \in Added
    BY DEF Added
  <2> QED BY <2>1, <2>2, <2>3, <2>4, SplitData
<1>2. CASE SetupModuleData
  <2>1. /\ phase = "dynsym" /\ phase' = "header" /\ UNCHANGED <<program, symbols, codeRelocs>>
        /\ dataRelocs' = dataRelocs \o SymbolWords /\ parts' = [parts EXCEPT !.intData = @ \o SymbolWords]
    BY <1>2 DEF SetupModuleData, AddData, LinkedElsewhere, Goto, SymbolWords
  <2>2. phase \in Sorted /\ phase' \in Sorted /\ ".dynsym" \notin Filled
    BY <2>1, FilledIs DEF Sorted, Symboled, Parted, Placed
  <2>3. /\ IsSeq(SymbolWords) /\ \A k \in DOMAIN SymbolWords : SymbolWords[k].segment = ".dynsym"
        /\ \A j, k \in DOMAIN SymbolWords : SymbolWords[j].off = SymbolWords[k].off => j = k
    BY SymbolWordsAre, SymbolWordsFit DEF PartsInv
  <2>4. ".dynsym" \in Added
    BY DEF Added
  <2> QED BY <2>1, <2>2, <2>3, <2>4, SplitData
<1>3. CASE CreateTableCtor \/ SetupCommonData
  BY <1>3, SplitCode, SplitCommon
<1>4. CASE LinkNext /\ UNCHANGED relocVars
  <2>1. phase \notin Sorted /\ phase' \notin Sorted /\ UNCHANGED parts
    BY <1>4 DEF LinkNext, Resolve, ResolveDone, ReplaceImport, RetargetImports, RemoveImport, RemoveImportDone,
       RetargetCall, RetargetCallDone, MergeStrings, Goto, relocVars, Sorted, Whole, Parted, Placed
  <2> QED BY <2>1 DEF SplitInv
<1>5. CASE CollectCode \/ CollectData \/ CollectCodeDone \/ CreateElements
  <2>1. phase \notin Sorted /\ phase' \notin Sorted /\ UNCHANGED parts
    BY <1>5 DEF CollectCode, CollectData, CollectCodeDone, CreateElements, Goto, relocVars, Sorted, Whole, Parted, Placed
  <2> QED BY <2>1 DEF SplitInv
<1>6. CASE \/ Export \/ GenerateExports \/ PartitionMethods \/ WriteHeader \/ Validate \/ EncodeExternal \/ EncodeInternal
           \/ UNCHANGED vars
  <2>1. UNCHANGED <<program, symbols, codeRelocs, dataRelocs, parts>> /\ (phase \in Sorted <=> phase' \in Sorted)
    BY <1>6 DEF Export, GenerateExports, PartitionMethods, WriteHeader, Validate, EncodeExternal, EncodeInternal, Failure,
       Goto, vars, linkVars, relocVars, Sorted, Whole, Parted, Placed
  <2> QED BY <2>1, SplitKept
<1> QED BY <1>1, <1>2, <1>3, <1>4, <1>5, <1>6 DEF Next, RelocNext, Stopped

LEMMA SplitTyped ==
    ASSUME SplitInv, CodeInv, DataInv
    PROVE  PartsTyped
<1>1. CASE phase \notin Sorted
  BY <1>1 DEF SplitInv, PartsTyped, Typed
<1>2. CASE phase \in Sorted
  <2>1. /\ \A r \in ToSet(codeRelocs) : r.type \in CodeTypes
        /\ \A r \in ToSet(dataRelocs) : r.type \in DataTypes
    BY DEF ToSet, CodeInv, CodeOK, DataInv, DataOK
  <2>2. /\ \A k \in DOMAIN parts.intCode : parts.intCode[k] \in ToSet(codeRelocs)
        /\ \A k \in DOMAIN parts.extCode : parts.extCode[k] \in ToSet(codeRelocs)
        /\ \A k \in DOMAIN parts.intData : parts.intData[k] \in ToSet(dataRelocs)
        /\ \A k \in DOMAIN parts.extData : parts.extData[k] \in ToSet(dataRelocs)
    <3>1. \A s : \A k \in DOMAIN s : s[k] \in ToSet(s)
      BY DEF ToSet
    <3> QED BY <1>2, <3>1 DEF SplitInv, Split
  <2> QED BY <2>1, <2>2 DEF PartsTyped, Typed
<1> QED BY <1>1, <1>2

----------------------------------------------------------------------------
(* What the file says of a place in the code: no two instructions have one *)
(* offset, and no two relocations one instruction.                         *)

LEMMA CodeOffsetIs ==
    ASSUME IsSeq(body), IsSeq(inits), NEW id
    PROVE  /\ CodeOffset(id) = IF InBody(id) # 0 THEN 60 * InBody(id)
                               ELSE IF InCtor(id) # 0 THEN 60 * (Len(body) + 4 * InCtor(id)) ELSE -1
           /\ InBody(id) # 0 => InBody(id) \in 1 .. Len(body) /\ body[InBody(id)].id = id
           /\ InCtor(id) # 0 => InCtor(id) \in 1 .. Len(inits) /\ inits[InCtor(id)].inst = id
<1>1. CodeOffset(id) = IF InBody(id) # 0 THEN 60 * InBody(id)
                       ELSE IF InCtor(id) # 0 THEN 60 * (Len(body) + 4 * InCtor(id)) ELSE -1
  BY DEF CodeOffset, InBody, InCtor, FirstOf, SelectInSeq
<1>2. Len(body) \in Nat /\ Len(inits) \in Nat
  BY IsSeqLen
<1>3. InBody(id) # 0 => InBody(id) \in 1 .. Len(body) /\ body[InBody(id)].id = id
  <2> DEFINE I == {k \in 1 .. Len(body) : body[k].id = id}
  <2>1. I \in SUBSET (1 .. Len(body)) /\ InBody(id) = FirstOf(I)
    BY DEF InBody
  <2>2. InBody(id) # 0 => InBody(id) \in I
    <3> HIDE DEF I
    <3> QED BY <1>2, <2>1, FirstOfIs
  <2> QED BY <2>2
<1>4. InCtor(id) # 0 => InCtor(id) \in 1 .. Len(inits) /\ inits[InCtor(id)].inst = id
  <2> DEFINE I == {k \in 1 .. Len(inits) : inits[k].inst = id}
  <2>1. I \in SUBSET (1 .. Len(inits)) /\ InCtor(id) = FirstOf(I)
    BY DEF InCtor
  <2>2. InCtor(id) # 0 => InCtor(id) \in I
    <3> HIDE DEF I
    <3> QED BY <1>2, <2>1, FirstOfIs
  <2> QED BY <2>2
<1> QED BY <1>1, <1>3, <1>4

LEMMA OffsetsApart ==
    ASSUME IsSeq(body), IsSeq(inits), NEW a, NEW b, CodeOffset(a) = CodeOffset(b), CodeOffset(a) # -1
    PROVE  a = b
<1> DEFINE p == InBody(a)
           q == InBody(b)
           x == InCtor(a)
           y == InCtor(b)
           n == Len(body)
           l == Len(inits)
<1>1. /\ CodeOffset(a) = IF p # 0 THEN 60 * p ELSE IF x # 0 THEN 60 * (n + 4 * x) ELSE -1
      /\ CodeOffset(b) = IF q # 0 THEN 60 * q ELSE IF y # 0 THEN 60 * (n + 4 * y) ELSE -1
  BY CodeOffsetIs
<1>2. /\ p # 0 => p \in 1 .. n /\ body[p].id = a
      /\ q # 0 => q \in 1 .. n /\ body[q].id = b
      /\ x # 0 => x \in 1 .. l /\ inits[x].inst = a
      /\ y # 0 => y \in 1 .. l /\ inits[y].inst = b
  BY CodeOffsetIs
<1>3. n \in Nat /\ l \in Nat
  BY IsSeqLen
<1>4. (IF p # 0 THEN 60 * p ELSE IF x # 0 THEN 60 * (n + 4 * x) ELSE -1)
      = (IF q # 0 THEN 60 * q ELSE IF y # 0 THEN 60 * (n + 4 * y) ELSE -1)
  BY <1>1
<1>5. p # 0 \/ x # 0
  BY <1>1
<1>6. /\ p = 0 \/ p \in 1 .. n
      /\ q = 0 \/ q \in 1 .. n
      /\ x = 0 \/ x \in 1 .. l
      /\ y = 0 \/ y \in 1 .. l
  BY <1>2
<1>7. (p # 0 /\ q = p) \/ (p = 0 /\ q = 0 /\ x # 0 /\ y = x)
  <2> HIDE DEF p, q, x, y, n, l
  <2>1. p \in Int /\ q \in Int /\ x \in Int /\ y \in Int
    BY <1>3, <1>6
  <2>2. CASE p # 0 /\ q # 0
    BY <1>4, <2>1, <2>2
  <2>3. CASE p # 0 /\ q = 0
    BY <1>3, <1>4, <1>6, <2>3
  <2>4. CASE p = 0 /\ q # 0
    BY <1>3, <1>4, <1>5, <1>6, <2>4
  <2>5. CASE p = 0 /\ q = 0
    BY <1>3, <1>4, <1>5, <1>6, <2>1, <2>5
  <2> QED BY <2>2, <2>3, <2>4, <2>5
<1> HIDE DEF p, q, x, y, n, l
<1> QED BY <1>2, <1>7

LEMMA CodePlaces ==
    ASSUME phase = "written", SplitInv, CodeInv, BodyInv, IsSeq(inits), FileInv
    PROVE  /\ \A n \in DOMAIN parts.intCode :
                 LET r == parts.intCode[n]
                     place == CodeOffset(r.inst)
                 IN  /\ Naming(At(CodeFixes, place), Means(r))
                     /\ Once(codeRelocs, r) => At(CodeFixes, place) = Said(place, Means(r))
           /\ \A n \in DOMAIN parts.extCode :
                 LET r == parts.extCode[n]
                     place == CodeOffset(r.inst)
                 IN  /\ Naming(At(CodeFixes, place), ByName(SymbolKey(r), 0))
                     /\ Once(codeRelocs, r) => At(CodeFixes, place) = Said(place, ByName(SymbolKey(r), 0))
<1> DEFINE int == parts.intCode
           ext == parts.extCode
           iat == InternalCodePlaces
           eat == ExternalCodePlaces
<1>1. /\ Says(ExternalCodeFixes, eat, ExternalCodeMeans) /\ Says(InternalCodeFixes, iat, InternalCodeMeans)
      /\ \A k \in DOMAIN int : CodeOffset(int[k].inst) # -1
      /\ \A k \in DOMAIN ext : CodeOffset(ext[k].inst) # -1
  BY DEF FileInv, BadOffset, Unplaced
<1>2. /\ DOMAIN iat = DOMAIN int /\ DOMAIN eat = DOMAIN ext
      /\ \A k \in DOMAIN int : iat[k] = CodeOffset(int[k].inst) /\ InternalCodeMeans[k] = Means(int[k])
      /\ \A k \in DOMAIN ext : eat[k] = CodeOffset(ext[k].inst) /\ ExternalCodeMeans[k] = ByName(SymbolKey(ext[k]), 0)
  BY DEF InternalCodePlaces, ExternalCodePlaces, InternalCodeMeans, ExternalCodeMeans
<1>3. Split(codeRelocs, int, ext)
  BY DEF SplitInv, Sorted, Parted, Placed
<1>4. \A r, t \in ToSet(codeRelocs) : r.inst = t.inst => r = t
  BY DEF CodeInv, CodeOK, ToSet
<1>5. /\ \A k \in DOMAIN int : int[k] \in ToSet(int) /\ int[k] \in ToSet(codeRelocs)
      /\ \A k \in DOMAIN ext : ext[k] \in ToSet(ext) /\ ext[k] \in ToSet(codeRelocs)
  <2>1. \A s : \A k \in DOMAIN s : s[k] \in ToSet(s)
    BY DEF ToSet
  <2> QED BY <1>3, <2>1 DEF Split
<1>6. \A r, t \in ToSet(codeRelocs) : CodeOffset(r.inst) = CodeOffset(t.inst) /\ CodeOffset(r.inst) # -1 => r = t
  BY <1>4, OffsetsApart DEF BodyInv
<1> HIDE DEF int, ext, iat, eat
<1>7. /\ \A n, m \in DOMAIN iat : iat[m] = iat[n] => int[m] = int[n]
      /\ \A n, m \in DOMAIN eat : eat[m] = eat[n] => ext[m] = ext[n]
      /\ \A n \in DOMAIN iat, m \in DOMAIN eat : eat[m] # iat[n]
  BY <1>1, <1>2, <1>3, <1>5, <1>6 DEF Split
<1>8. ASSUME NEW n \in DOMAIN iat
      PROVE  LET fixes == At(ExternalCodeFixes \o InternalCodeFixes, iat[n])
             IN  /\ Naming(fixes, InternalCodeMeans[n])
                 /\ Once(codeRelocs, int[n]) => fixes = <<[at |-> iat[n], means |-> InternalCodeMeans[n]]>>
  <2>1. Naming(At(ExternalCodeFixes \o InternalCodeFixes, iat[n]), InternalCodeMeans[n])
    <3>1. \A k \in DOMAIN iat : iat[k] = iat[n] => InternalCodeMeans[k] = InternalCodeMeans[n]
      BY <1>2, <1>7
    <3>2. \A k \in DOMAIN eat : eat[k] # iat[n]
      BY <1>7
    <3> QED BY <1>1, <3>1, <3>2, SaidAt
  <2>2. ASSUME Once(codeRelocs, int[n])
        PROVE  At(ExternalCodeFixes \o InternalCodeFixes, iat[n]) = <<[at |-> iat[n], means |-> InternalCodeMeans[n]]>>
    <3>1. Once(int, int[n])
      BY <1>2, <1>3, <1>5, <2>2 DEF Split
    <3>2. \A m \in DOMAIN iat : iat[m] = iat[n] => m = n
      BY <1>2, <1>7, <3>1 DEF Once
    <3> QED BY <1>1, <1>7, <3>2, SaidRight
  <2> QED BY <2>1, <2>2
<1>9. ASSUME NEW n \in DOMAIN eat
      PROVE  LET fixes == At(ExternalCodeFixes \o InternalCodeFixes, eat[n])
             IN  /\ Naming(fixes, ExternalCodeMeans[n])
                 /\ Once(codeRelocs, ext[n]) => fixes = <<[at |-> eat[n], means |-> ExternalCodeMeans[n]]>>
  <2>1. Naming(At(ExternalCodeFixes \o InternalCodeFixes, eat[n]), ExternalCodeMeans[n])
    <3>1. \A k \in DOMAIN eat : eat[k] = eat[n] => ExternalCodeMeans[k] = ExternalCodeMeans[n]
      BY <1>2, <1>7
    <3>2. \A k \in DOMAIN iat : iat[k] # eat[n]
      BY <1>7
    <3> QED BY <1>1, <3>1, <3>2, SaidAt
  <2>2. ASSUME Once(codeRelocs, ext[n])
        PROVE  At(ExternalCodeFixes \o InternalCodeFixes, eat[n]) = <<[at |-> eat[n], means |-> ExternalCodeMeans[n]]>>
    <3>1. Once(ext, ext[n])
      BY <1>2, <1>3, <1>5, <2>2 DEF Split
    <3>2. \A m \in DOMAIN eat : eat[m] = eat[n] => m = n
      BY <1>2, <1>7, <3>1 DEF Once
    <3> QED BY <1>1, <1>7, <3>2, SaidLeft
  <2> QED BY <2>1, <2>2
<1>10. \A n \in DOMAIN int :
           /\ Naming(At(CodeFixes, CodeOffset(int[n].inst)), Means(int[n]))
           /\ Once(codeRelocs, int[n]) => At(CodeFixes, CodeOffset(int[n].inst)) = Said(CodeOffset(int[n].inst), Means(int[n]))
  BY <1>2, <1>8 DEF CodeFixes, Said
<1>11. \A n \in DOMAIN ext :
           /\ Naming(At(CodeFixes, CodeOffset(ext[n].inst)), ByName(SymbolKey(ext[n]), 0))
           /\ Once(codeRelocs, ext[n])
              => At(CodeFixes, CodeOffset(ext[n].inst)) = Said(CodeOffset(ext[n].inst), ByName(SymbolKey(ext[n]), 0))
  BY <1>2, <1>9 DEF CodeFixes, Said
<1> QED BY <1>10, <1>11 DEF int, ext

\* A relocation of the linker, and one that the program lists once, is there once.
LEMMA CodeOnce ==
    ASSUME CodeInv, program \in Programs, NEW k \in DOMAIN codeRelocs,
           k \notin DOMAIN program.codeRelocs \/ Once(program.codeRelocs, program.codeRelocs[k])
    PROVE  Once(codeRelocs, codeRelocs[k])
<1> SUFFICES ASSUME NEW j \in DOMAIN codeRelocs, codeRelocs[j] = codeRelocs[k] PROVE j = k
  BY DEF Once
<1>1. j = k \/ {j, k} \subseteq DOMAIN program.codeRelocs
  BY DEF CodeInv, CodeOK
<1>2. CASE {j, k} \subseteq DOMAIN program.codeRelocs
  <2>1. program.codeRelocs[j].inst = program.codeRelocs[k].inst
    BY <1>2 DEF CodeInv, CodeOK
  <2>2. program.codeRelocs[j] = program.codeRelocs[k]
    BY <1>2, <2>1, RelocsAssumption
  <2> QED BY <1>2, <2>2 DEF Once
<1> QED BY <1>1, <1>2

----------------------------------------------------------------------------
(* The table is filled: each element segment that is copied has its        *)
(* table.init, and the relocation that says where to.                      *)

LEMMA TableInit == InitRelocs => TableInv
<1> SUFFICES ASSUME InitRelocs PROVE TableInv
  OBVIOUS
<1>1. inits = <<>> /\ phase = "resolve"
  BY DEF InitRelocs, Init
<1> QED BY <1>1, EmptyIsSeq DEF TableInv, Tabled, Parted, Placed

LEMMA InitialisedStays ==
    ASSUME UNCHANGED <<elements, tableElem, objcElem>>
    PROVE  Inits' = Inits /\ Destinations' = Destinations
BY DEF Inits, Destinations, Initialised, InitOf, DestinationReloc, DestinationId, First

LEMMA TableCreated ==
    ASSUME TableInv, PartsInv, TablesInv, CreateTableCtor
    PROVE  TableInv'
<1>1. /\ phase = "table" /\ UNCHANGED <<elements, tableElem, objcElem>> /\ inits' = Inits
      /\ parts' = [parts EXCEPT !.intCode = @ \o Destinations]
  BY DEF CreateTableCtor, Inits, Destinations
<1>2. IsSeq(Initialised) /\ IsSeq(Destinations)
  BY <1>1, InitialisedIs, DestinationsAre DEF TablesInv, Parted
<1>3. IsSeq(Inits)
  <2>1. Len(Initialised) \in Nat /\ DOMAIN Initialised = 1 .. Len(Initialised)
    BY <1>2, IsSeqLen
  <2>2. DOMAIN Inits = DOMAIN Initialised /\ Inits = [k \in DOMAIN Initialised |-> Inits[k]]
    BY DEF Inits
  <2> QED BY <2>1, <2>2, FunctionIsSeq
<1>4. parts'.intCode = parts.intCode \o Destinations
  BY <1>1 DEF PartsInv
<1>5. ToSet(Destinations) \subseteq ToSet(parts'.intCode)
  BY <1>2, <1>4, ConcatToSet DEF PartsInv
<1>6. \A k \in DOMAIN Destinations : Destinations[k] \in ToSet(parts'.intCode)
  BY <1>5 DEF ToSet
<1>7. Inits' = Inits /\ Destinations' = Destinations
  BY <1>1, InitialisedStays
<1> QED BY <1>1, <1>3, <1>6, <1>7 DEF TableInv

LEMMA TableStep == TableInv /\ PartsInv /\ TablesInv /\ [Next]_vars => TableInv'
<1> SUFFICES ASSUME TableInv, PartsInv, TablesInv, [Next]_vars PROVE TableInv'
  OBVIOUS
<1>1. CASE CreateTableCtor
  BY <1>1, TableCreated
<1>2. ASSUME UNCHANGED inits, phase' \notin Tabled PROVE TableInv'
  BY <1>2 DEF TableInv
<1>3. ASSUME UNCHANGED inits, phase' \in Tabled => phase \in Tabled, UNCHANGED <<elements, tableElem, objcElem>>,
             parts'.intCode = parts.intCode
      PROVE  TableInv'
  BY <1>3, InitialisedStays DEF TableInv
<1>4. CASE LinkNext /\ UNCHANGED relocVars
  BY <1>2, <1>4 DEF LinkNext, Resolve, ResolveDone, ReplaceImport, RetargetImports, RemoveImport, RemoveImportDone,
     RetargetCall, RetargetCallDone, MergeStrings, Goto, relocVars, Tabled, Parted, Placed
<1>5. CASE \/ CollectCode \/ CollectData \/ CollectCodeDone \/ CreateElements \/ Export \/ SetupCommonData
           \/ GenerateExports \/ CreateInitArray \/ PartitionMethods
  BY <1>2, <1>5 DEF CollectCode, CollectData, CollectCodeDone, CreateElements, Export, SetupCommonData, GenerateExports,
     CreateInitArray, PartitionMethods, Goto, relocVars, Tabled, Parted, Placed
<1>6. CASE SetupModuleData
  <2>1. /\ phase = "dynsym" /\ UNCHANGED <<inits, elements, tableElem, objcElem>>
        /\ \E more : parts' = [parts EXCEPT !.intData = @ \o more]
    BY <1>6 DEF SetupModuleData, AddData
  <2>2. parts'.intCode = parts.intCode
    BY <2>1 DEF PartsInv
  <2>3. phase \in Tabled
    BY <2>1 DEF Tabled, Parted
  <2> QED BY <1>3, <2>1, <2>2, <2>3
<1>7. CASE WriteHeader \/ Validate \/ EncodeExternal \/ EncodeInternal \/ UNCHANGED vars
  BY <1>3, <1>7 DEF WriteHeader, Validate, EncodeExternal, EncodeInternal, Failure, Goto, vars, relocVars, Tabled, Parted, Placed
<1> QED BY <1>1, <1>4, <1>5, <1>6, <1>7 DEF Next, RelocNext, Stopped

\* The place of the first function of a segment that has one.
LEMMA DestinationSource ==
    ASSUME NEW k \in {1, 2}, IsSeq(elements[k].vector), elements[k].vector # <<>>,
           NEW v, v = elements[k].vector, NEW o, o = IndexIn(v, v[1])
    PROVE  Source(DestinationReloc(k)) = <<2, k - 1, o>> /\ v[o + 1] = v[1] /\ o # -1
<1> DEFINE f == v[1]
           ref == <<"first", f, k>>
<1>1. DestinationReloc(k).ref = ref
  BY DEF DestinationReloc, First
<1>2. ref[1] = "first" /\ ref[2] = f /\ ref[3] = k
  OBVIOUS
<1>3. Referenced(ref).kind = 0 /\ Referenced(ref).value = f
  BY <1>2 DEF Referenced
<1>4. Source(DestinationReloc(k)) = <<2, k - 1, o>>
  BY <1>1, <1>2, <1>3 DEF Source
<1>5. Contains(v, f)
  <2>1. Len(v) \in Nat /\ DOMAIN v = 1 .. Len(v)
    BY IsSeqLen
  <2>2. Len(v) # 0
    BY EmptySeq
  <2> QED BY <2>1, <2>2 DEF Contains
<1> HIDE DEF f
<1>6. v[o + 1] = f /\ o + 1 \in 1 .. Len(v)
  BY <1>5, IndexInIs DEF f
<1>7. o # -1
  BY <1>6
<1> QED BY <1>4, <1>6, <1>7 DEF f

\* What is put where table.init copies to: the first function of the segment.
LEMMA DestinationMeans ==
    ASSUME NEW k \in {1, 2}, IsSeq(elements[k].vector), elements[k].vector # <<>>
    PROVE  Means(DestinationReloc(k)) = <<"function", elements[k].vector[1].name, 0>>
<1>1. PICK v, o, r : v = elements[k].vector /\ o = IndexIn(v, v[1]) /\ r = DestinationReloc(k)
  OBVIOUS
<1>2. Source(r) = <<2, k - 1, o>> /\ v[o + 1] = v[1]
  BY <1>1, DestinationSource
<1>3. Means(r) = ByPlace(2, k - 1, o)
  BY <1>2 DEF Means
<1>4. (k - 1) + 1 = k
  OBVIOUS
<1>5. ByPlace(2, k - 1, o) = <<"function", v[1].name, 0>>
  BY <1>1, <1>2, <1>4 DEF ByPlace
<1> QED BY <1>1, <1>3, <1>5

\* With what the file says of them the instructions copy every segment.
LEMMA TableFilled ==
    ASSUME program \in Programs, SplitInv, CodeInv, BodyInv, FileInv, TablesInv, TableInv
    PROVE  TableFilledButKnown
<1> SUFFICES ASSUME phase = "written", NEW k \in DOMAIN elements, elements[k].vector # <<>>, k > 1 \/ tableElem
             PROVE  LET init == Where(inits, {t \in ToSet(inits) : t.elem = k})
                    IN  /\ Len(init) = 1
                        /\ init[1].len = Len(elements[k].vector)
                        /\ [k2 \in DOMAIN At(CodeFixes, CodeOffset(init[1].inst)) |->
                                At(CodeFixes, CodeOffset(init[1].inst))[k2].means]
                           = <<<<"function", elements[k].vector[1].name, 0>>>>
  BY DEF TableFilledButKnown, Written
<1>1. phase \in Parted /\ phase \in Tabled
  BY DEF Parted, Tabled, Placed
<1>2. Tables(objcElem, elements)
  BY <1>1 DEF TablesInv
<1>3. IsSeq(elements[k].vector) /\ (k = 1 \/ (k = 2 /\ objcElem))
  <2>1. CASE IsOne(elements) /\ ~objcElem
    <3>1. DOMAIN elements = {1} /\ IsSeq(elements[1].vector)
      BY <2>1, OneIs DEF IsOne
    <3> QED BY <3>1
  <2>2. CASE IsTwo(elements) /\ objcElem
    <3>1. DOMAIN elements = {1, 2} /\ IsSeq(elements[1].vector) /\ IsSeq(elements[2].vector)
      BY <2>2, TwoIs DEF IsTwo
    <3> QED BY <2>2, <3>1
  <2> QED BY <1>2, <2>1, <2>2 DEF Tables
<1>4. /\ IsSeq(Initialised) /\ Distinct(Initialised) /\ k \in ToSet(Initialised)
  BY <1>2, <1>3, InitialisedIs
<1>5. PICK j \in DOMAIN Initialised : Initialised[j] = k
  BY <1>4 DEF ToSet
<1>6. inits = Inits /\ \A n \in DOMAIN Destinations : Destinations[n] \in ToSet(parts.intCode)
  BY <1>1 DEF TableInv
<1> DEFINE T == {t \in ToSet(inits) : t.elem = k}
<1>7. Where(inits, T) = <<InitOf(k)>>
  <2>1. /\ DOMAIN inits = DOMAIN Initialised /\ inits[j] = InitOf(k)
        /\ \A n \in DOMAIN inits : inits[n].elem = Initialised[n]
    BY <1>5, <1>6 DEF Inits, InitOf
  <2>2. InitOf(k) \in T
    BY <1>5, <2>1 DEF ToSet, InitOf
  <2>3. \A n \in DOMAIN inits : inits[n] \in T => n = j
    BY <1>4, <1>5, <2>1 DEF Distinct
  <2> HIDE DEF T
  <2>4. Sole(inits, T, InitOf(k))
    BY <1>5, <2>1, <2>2, <2>3 DEF Sole
  <2> QED BY <2>4, WhereSingle DEF TableInv
<1>8. InitOf(k).len = Len(elements[k].vector) /\ InitOf(k).inst = -k
  BY DEF InitOf, DestinationId
<1>9. PICK n \in DOMAIN parts.intCode : parts.intCode[n] = DestinationReloc(k)
  <2>1. DOMAIN Destinations = DOMAIN Initialised /\ Destinations[j] = DestinationReloc(k)
    BY <1>5 DEF Destinations
  <2> QED BY <1>5, <1>6, <2>1 DEF ToSet
<1>10. DestinationReloc(k).inst = -k
  BY DEF DestinationReloc, DestinationId
<1> DEFINE at == CodeOffset(-k)
           m == <<"function", elements[k].vector[1].name, 0>>
<1>11. At(CodeFixes, at) = Said(at, m)
  <2>1. Means(DestinationReloc(k)) = m
    BY <1>3, DestinationMeans
  <2>2. PICK p \in DOMAIN codeRelocs : codeRelocs[p] = parts.intCode[n]
    <3>1. phase \in Sorted
      BY <1>1 DEF Sorted
    <3>2. ToSet(parts.intCode) \subseteq ToSet(codeRelocs)
      BY <3>1 DEF SplitInv, Split
    <3>3. parts.intCode[n] \in ToSet(parts.intCode)
      BY DEF ToSet
    <3> QED BY <3>2, <3>3 DEF ToSet
  <2>3. p \notin DOMAIN program.codeRelocs
    <3> SUFFICES ASSUME p \in DOMAIN program.codeRelocs PROVE FALSE
      OBVIOUS
    <3>1. program.codeRelocs[p].inst \in Nat
      BY ProgramRelocs
    <3>2. program.codeRelocs[p].inst = -k
      BY <1>9, <1>10, <2>2 DEF CodeInv, CodeOK
    <3> QED BY <1>3, <3>1, <3>2
  <2>4. Once(codeRelocs, parts.intCode[n])
    BY <2>2, <2>3, CodeOnce
  <2>5. At(CodeFixes, CodeOffset(parts.intCode[n].inst)) = Said(CodeOffset(parts.intCode[n].inst), Means(parts.intCode[n]))
    BY <2>4, CodePlaces DEF TableInv
  <2> QED BY <1>9, <1>10, <2>1, <2>5
<1> HIDE DEF T
<1>12. Len(Where(inits, T)) = 1 /\ Where(inits, T)[1] = InitOf(k)
  <2>1. Len(<<InitOf(k)>>) = 1 /\ <<InitOf(k)>>[1] = InitOf(k)
    BY SingletonIs
  <2> QED BY <1>7, <2>1
<1>13. [k2 \in DOMAIN At(CodeFixes, at) |-> At(CodeFixes, at)[k2].means] = <<m>>
  <2> HIDE DEF at, m
  <2> QED BY <1>11 DEF Said
<1> QED BY <1>8, <1>12, <1>13 DEF T

----------------------------------------------------------------------------
(* What the file says of a place in the data.                              *)

\* The place of a section that the file numbers.
LEMMA SectionAt ==
    ASSUME IsSeq(sections), NEW d
    PROVE  /\ SectionIndex(d) # -1 => sections[SectionIndex(d) + 1] = d
           /\ d \in ToSet(sections) => SectionIndex(d) # -1
<1>1. SectionIndex(d) = IndexIn(sections, d)
  BY DEF SectionIndex, IndexIn
<1>2. d \in ToSet(sections) => Contains(sections, d)
  BY IsSeqLen DEF ToSet, Contains
<1>3. \/ Contains(sections, d) /\ IndexIn(sections, d) + 1 \in 1 .. Len(sections) /\ sections[IndexIn(sections, d) + 1] = d
      \/ ~Contains(sections, d) /\ IndexIn(sections, d) = -1
  BY IndexInIs
<1>4. Contains(sections, d) => IndexIn(sections, d) # -1
  <2>1. Len(sections) \in Nat
    BY IsSeqLen
  <2> QED BY <1>3, <2>1
<1> QED BY <1>1, <1>2, <1>3, <1>4

\* Where a segment of the program is, and one that is a section.
LEMMA SegmentPlace ==
    ASSUME SegmentsInv, program \in Programs, NEW e \in ToSet(segments)
    PROVE  /\ SectionOf(e.name) = e.section /\ e.section \in ToSet(sections) /\ e.section \notin Added
           /\ \E a \in Nat \ {0} : a \in DOMAIN Packed(e.section) /\ Packed(e.section)[a].name = e.name /\ Rloc(e.name) = 16 * (a - 1)
<1>1. HasSegment(e.name) /\ segments[Named(segments, e.name)] = e /\ e \in ToSet(program.segments)
  BY SegmentsNamed
<1>2. SectionOf(e.name) = e.section
  BY <1>1, FoundNames
<1>3. e.section \in ToSet(sections) /\ e.section \notin Added
  <2>1. PICK k \in DOMAIN program.segments : program.segments[k] = e
    BY <1>1 DEF ToSet
  <2>2. e.section \in ToSet(program.sections) /\ ToSet(program.sections) \cap Added = {}
    BY <2>1, SectionsAssumption
  <2> QED BY <2>2 DEF SegmentsInv
<1> DEFINE p == Packed(e.section)
           a == Named(p, e.name)
           T == {d \in ToSet(segments) : d.section = e.section}
<1>4. p = Where(segments, T) /\ e \in T \cap ToSet(segments)
  BY DEF Packed
<1>5. IsSeq(p) /\ e \in ToSet(p)
  <2> HIDE DEF p, T
  <2> QED BY <1>4, WhereIs DEF SegmentsInv
<1>6. a \in DOMAIN p /\ p[a].name = e.name
  <2>1. \E k \in DOMAIN p : p[k].name = e.name
    BY <1>5 DEF ToSet
  <2> HIDE DEF p
  <2> QED BY <1>5, <2>1, NamedIs
<1>7. Rloc(e.name) = 16 * (a - 1)
  BY <1>1, <1>2, FoundNames
<1>8. a \in Nat \ {0}
  BY <1>5, <1>6, IsSeqLen
<1> HIDE DEF a
<1> QED BY <1>2, <1>3, <1>6, <1>7, <1>8

LEMMA AddedPlace ==
    ASSUME SegmentsInv, program \in Programs, NEW d \in Added
    PROVE  SectionOf(d) = d /\ Rloc(d) = 0
<1>1. ~HasSegment(d)
  <2> SUFFICES ASSUME NEW k \in DOMAIN segments, segments[k].name = d PROVE FALSE
    BY DEF HasSegment
  <2>1. segments[k] \in ToSet(program.segments)
    BY DEF SegmentsInv, ToSet
  <2>2. PICK j \in DOMAIN program.segments : program.segments[j] = segments[k]
    BY <2>1 DEF ToSet
  <2> QED BY <2>2, SectionsAssumption
<1> QED BY <1>1, FoundNames

LEMMA WordPlace ==
    ASSUME SegmentsInv, program \in Programs, NEW r, Word(r)
    PROVE  \/ /\ r.segment \in Added /\ SectionOf(r.segment) = r.segment /\ DataOffset(r) = r.off
           \/ /\ SectionOf(r.segment) \in ToSet(sections) /\ SectionOf(r.segment) \notin Added
              /\ \E a \in Nat \ {0} :
                    /\ Packed(SectionOf(r.segment))[a].name = r.segment
                    /\ r.off < 16 /\ DataOffset(r) = 16 * (a - 1) + r.off
<1>1. CASE r.segment \in Added
  <2>1. Rloc(r.segment) = 0 /\ SectionOf(r.segment) = r.segment
    BY <1>1, AddedPlace
  <2>2. DataOffset(r) = r.off
    BY <2>1 DEF DataOffset, Word
  <2> QED BY <1>1, <2>1, <2>2
<1>2. CASE InSegment(r)
  <2>1. PICK e \in ToSet(program.segments) : ~e.string /\ e.name = r.segment
    BY <1>2 DEF InSegment
  <2>2. e \in ToSet(segments)
    BY <2>1 DEF SegmentsInv
  <2>3. /\ SectionOf(r.segment) = e.section /\ e.section \in ToSet(sections) /\ e.section \notin Added
        /\ \E a \in Nat \ {0} : Packed(e.section)[a].name = r.segment /\ Rloc(r.segment) = 16 * (a - 1)
    BY <2>1, <2>2, SegmentPlace
  <2> QED BY <1>2, <2>3 DEF DataOffset, InSegment
<1> QED BY <1>1, <1>2 DEF Word

\* Two words have two places.
LEMMA WordsApart ==
    ASSUME SegmentsInv, program \in Programs, NEW r, Word(r), NEW t, Word(t),
           DataPlace(t) = DataPlace(r), SectionOf(r.segment) \in ToSet(sections)
    PROVE  t.segment = r.segment /\ t.off = r.off
<1>1. SectionIndex(SectionOf(t.segment)) = SectionIndex(SectionOf(r.segment)) /\ DataOffset(t) = DataOffset(r)
  BY DEF DataPlace
<1>2. SectionOf(t.segment) = SectionOf(r.segment)
  BY <1>1, SectionAt DEF SegmentsInv
<1>3. CASE r.segment \in Added /\ SectionOf(r.segment) = r.segment /\ DataOffset(r) = r.off
  <2>1. SectionOf(t.segment) \in Added
    BY <1>2, <1>3
  <2>2. SectionOf(t.segment) = t.segment /\ DataOffset(t) = t.off
    BY <2>1, WordPlace
  <2> QED BY <1>1, <1>2, <1>3, <2>2
<1>4. ASSUME SectionOf(r.segment) \notin Added,
             NEW a \in Nat \ {0}, Packed(SectionOf(r.segment))[a].name = r.segment,
             r.off < 16, DataOffset(r) = 16 * (a - 1) + r.off
      PROVE  t.segment = r.segment /\ t.off = r.off
  <2>1. PICK b \in Nat \ {0} : Packed(SectionOf(t.segment))[b].name = t.segment /\ t.off < 16 /\ DataOffset(t) = 16 * (b - 1) + t.off
    BY <1>2, <1>4, WordPlace
  <2>2. 16 * (a - 1) + r.off = 16 * (b - 1) + t.off /\ r.off \in Nat /\ t.off \in Nat
    BY <1>1, <1>4, <2>1 DEF Word
  <2>3. a = b /\ r.off = t.off
    BY <1>4, <2>1, <2>2
  <2> QED BY <1>2, <1>4, <2>1, <2>3
<1> QED BY <1>3, <1>4, WordPlace

\* A relocation that is written has a word: its segment was not dropped.
LEMMA WrittenWord ==
    ASSUME phase = "written", SplitInv, DataInv, SegmentsInv, FileInv, NEW r \in ToSet(dataRelocs)
    PROVE  Word(r)
<1>1. PICK k \in DOMAIN dataRelocs : r = dataRelocs[k]
  BY DEF ToSet
<1>2. r.off \in Nat /\ (InSegment(r) \/ Gone(r) \/ r.segment \in Added)
  BY <1>1, FilledIs DEF DataInv, DataOK
<1>3. ~Unsectioned(r)
  <2>1. r \in ToSet(parts.intData) \cup ToSet(parts.extData)
    BY DEF SplitInv, Split, Sorted, Parted, Placed
  <2>2. ~BadIndex(parts.intData) /\ ~BadIndex(parts.extData)
    BY DEF FileInv
  <2> QED BY <2>1, <2>2 DEF BadIndex, ToSet
<1>4. ~Gone(r)
  <2> SUFFICES ASSUME Gone(r) PROVE FALSE
    OBVIOUS
  <2>1. r.segment \notin Added /\ \A d \in ToSet(program.segments) : d.name # r.segment
    BY DEF Gone
  <2>2. PICK j \in DOMAIN segments : segments[j].name = r.segment
    BY <1>3, <2>1 DEF Unsectioned, HasSegment
  <2>3. segments[j] \in ToSet(program.segments)
    BY DEF SegmentsInv, ToSet
  <2> QED BY <2>1, <2>2, <2>3
<1> QED BY <1>2, <1>4 DEF Word

LEMMA DataPlaces ==
    ASSUME phase = "written", SplitInv, DataInv, SegmentsInv, FileInv
    PROVE  /\ \A n \in DOMAIN parts.intData :
                 LET r == parts.intData[n]
                 IN  SectionOf(r.segment) \in ToSet(sections)
                     => /\ Naming(At(DataFixes, DataPlace(r)), Means(r))
                        /\ Once(dataRelocs, r) => At(DataFixes, DataPlace(r)) = Said(DataPlace(r), Means(r))
           /\ \A n \in DOMAIN parts.extData :
                 LET r == parts.extData[n]
                     means == ByName(SymbolKey(r), r.addend)
                 IN  SectionOf(r.segment) \in ToSet(sections)
                     => /\ Naming(At(DataFixes, DataPlace(r)), means)
                        /\ Once(dataRelocs, r) => At(DataFixes, DataPlace(r)) = Said(DataPlace(r), means)
<1> DEFINE int == parts.intData
           ext == parts.extData
           iat == InternalDataPlaces
           eat == ExternalDataPlaces
           Real(r) == SectionOf(r.segment) \in ToSet(sections)
<1>1. Says(ExternalDataFixes, eat, ExternalDataMeans) /\ Says(InternalDataFixes, iat, InternalDataMeans)
  BY DEF FileInv
<1>2. /\ DOMAIN iat = DOMAIN int /\ DOMAIN eat = DOMAIN ext
      /\ \A k \in DOMAIN int : iat[k] = DataPlace(int[k]) /\ InternalDataMeans[k] = Means(int[k])
      /\ \A k \in DOMAIN ext : eat[k] = DataPlace(ext[k]) /\ ExternalDataMeans[k] = ByName(SymbolKey(ext[k]), ext[k].addend)
  BY DEF InternalDataPlaces, ExternalDataPlaces, InternalDataMeans, ExternalDataMeans
<1>3. Split(dataRelocs, int, ext)
  BY DEF SplitInv, Sorted, Parted, Placed
<1>4. \A r, t \in ToSet(dataRelocs) : r.segment = t.segment /\ r.off = t.off => r = t
  BY DEF DataInv, DataOK, ToSet
<1>5. /\ \A k \in DOMAIN int : int[k] \in ToSet(int) /\ int[k] \in ToSet(dataRelocs)
      /\ \A k \in DOMAIN ext : ext[k] \in ToSet(ext) /\ ext[k] \in ToSet(dataRelocs)
  <2>1. \A s : \A k \in DOMAIN s : s[k] \in ToSet(s)
    BY DEF ToSet
  <2> QED BY <1>3, <2>1 DEF Split
<1>6. \A r, t \in ToSet(dataRelocs) : DataPlace(r) = DataPlace(t) /\ Real(r) => r = t
  <2> SUFFICES ASSUME NEW r \in ToSet(dataRelocs), NEW t \in ToSet(dataRelocs), DataPlace(r) = DataPlace(t), Real(r)
               PROVE  r = t
    OBVIOUS
  <2>1. Word(r) /\ Word(t)
    BY WrittenWord
  <2>2. t.segment = r.segment /\ t.off = r.off
    BY <2>1, WordsApart DEF DataInv
  <2> QED BY <1>4, <2>2
<1> HIDE DEF int, ext, iat, eat, Real
<1>7. /\ \A n, m \in DOMAIN iat : iat[m] = iat[n] /\ Real(int[n]) => int[m] = int[n]
      /\ \A n, m \in DOMAIN eat : eat[m] = eat[n] /\ Real(ext[n]) => ext[m] = ext[n]
      /\ \A n \in DOMAIN iat, m \in DOMAIN eat : Real(int[n]) => eat[m] # iat[n]
      /\ \A n \in DOMAIN eat, m \in DOMAIN iat : Real(ext[n]) => iat[m] # eat[n]
  BY <1>2, <1>3, <1>5, <1>6 DEF Split
<1>8. ASSUME NEW n \in DOMAIN iat, Real(int[n])
      PROVE  LET fixes == At(ExternalDataFixes \o InternalDataFixes, iat[n])
             IN  /\ Naming(fixes, InternalDataMeans[n])
                 /\ Once(dataRelocs, int[n]) => fixes = <<[at |-> iat[n], means |-> InternalDataMeans[n]]>>
  <2>1. \A m \in DOMAIN eat : eat[m] # iat[n]
    BY <1>7, <1>8
  <2>2. Naming(At(ExternalDataFixes \o InternalDataFixes, iat[n]), InternalDataMeans[n])
    <3>1. \A k \in DOMAIN iat : iat[k] = iat[n] => InternalDataMeans[k] = InternalDataMeans[n]
      BY <1>2, <1>7, <1>8
    <3> QED BY <1>1, <2>1, <3>1, SaidAt
  <2>3. ASSUME Once(dataRelocs, int[n])
        PROVE  At(ExternalDataFixes \o InternalDataFixes, iat[n]) = <<[at |-> iat[n], means |-> InternalDataMeans[n]]>>
    <3>1. Once(int, int[n])
      BY <1>2, <1>3, <1>5, <2>3 DEF Split
    <3>2. \A m \in DOMAIN iat : iat[m] = iat[n] => m = n
      BY <1>2, <1>7, <1>8, <3>1 DEF Once
    <3> QED BY <1>1, <2>1, <3>2, SaidRight
  <2> QED BY <2>2, <2>3
<1>9. ASSUME NEW n \in DOMAIN eat, Real(ext[n])
      PROVE  LET fixes == At(ExternalDataFixes \o InternalDataFixes, eat[n])
             IN  /\ Naming(fixes, ExternalDataMeans[n])
                 /\ Once(dataRelocs, ext[n]) => fixes = <<[at |-> eat[n], means |-> ExternalDataMeans[n]]>>
  <2>1. \A m \in DOMAIN iat : iat[m] # eat[n]
    BY <1>7, <1>9
  <2>2. Naming(At(ExternalDataFixes \o InternalDataFixes, eat[n]), ExternalDataMeans[n])
    <3>1. \A k \in DOMAIN eat : eat[k] = eat[n] => ExternalDataMeans[k] = ExternalDataMeans[n]
      BY <1>2, <1>7, <1>9
    <3> QED BY <1>1, <2>1, <3>1, SaidAt
  <2>3. ASSUME Once(dataRelocs, ext[n])
        PROVE  At(ExternalDataFixes \o InternalDataFixes, eat[n]) = <<[at |-> eat[n], means |-> ExternalDataMeans[n]]>>
    <3>1. Once(ext, ext[n])
      BY <1>2, <1>3, <1>5, <2>3 DEF Split
    <3>2. \A m \in DOMAIN eat : eat[m] = eat[n] => m = n
      BY <1>2, <1>7, <1>9, <3>1 DEF Once
    <3> QED BY <1>1, <2>1, <3>2, SaidLeft
  <2> QED BY <2>2, <2>3
<1>10. ASSUME NEW n \in DOMAIN int, Real(int[n])
       PROVE  /\ Naming(At(DataFixes, DataPlace(int[n])), Means(int[n]))
              /\ Once(dataRelocs, int[n]) => At(DataFixes, DataPlace(int[n])) = Said(DataPlace(int[n]), Means(int[n]))
  BY <1>2, <1>8, <1>10 DEF DataFixes, Said
<1>11. ASSUME NEW n \in DOMAIN ext, Real(ext[n])
       PROVE  /\ Naming(At(DataFixes, DataPlace(ext[n])), ByName(SymbolKey(ext[n]), ext[n].addend))
              /\ Once(dataRelocs, ext[n])
                 => At(DataFixes, DataPlace(ext[n])) = Said(DataPlace(ext[n]), ByName(SymbolKey(ext[n]), ext[n].addend))
  BY <1>2, <1>9, <1>11 DEF DataFixes, Said
<1> QED BY <1>10, <1>11 DEF int, ext, Real

\* A word of the linker, and one that the program lists once, is there once.
LEMMA DataOnce ==
    ASSUME DataInv, NEW k \in DOMAIN dataRelocs,
           dataRelocs[k].segment \in Added
           \/ (k \in DOMAIN program.dataRelocs /\ Once(program.dataRelocs, program.dataRelocs[k]))
    PROVE  Once(dataRelocs, dataRelocs[k])
<1> SUFFICES ASSUME NEW j \in DOMAIN dataRelocs, dataRelocs[j] = dataRelocs[k] PROVE j = k
  BY DEF Once
<1>1. j = k \/ {j, k} \subseteq DOMAIN program.dataRelocs
  BY DEF DataInv, DataOK
<1>2. CASE {j, k} \subseteq DOMAIN program.dataRelocs
  <2>1. /\ program.dataRelocs[j].segment = program.dataRelocs[k].segment
        /\ program.dataRelocs[j].off = program.dataRelocs[k].off
        /\ dataRelocs[k].segment = program.dataRelocs[k].segment
    BY <1>2 DEF DataInv, DataOK
  <2>2. program.dataRelocs[j] = program.dataRelocs[k]
    BY <1>2, <2>1, RelocsAssumption DEF DataInv
  <2>3. dataRelocs[k].segment \notin Added
    BY <1>2, <2>1, SectionsAssumption DEF DataInv
  <2> QED BY <1>2, <2>2, <2>3 DEF Once
<1> QED BY <1>1, <1>2

----------------------------------------------------------------------------
(* What is put in a place is what the program meant.                       *)

\* The reference of a symbol, and one that asks for a function by its name.
LEMMA SymbolReferenced ==
    ASSUME program \in Programs, NEW x \in DOMAIN program.symbols
    PROVE  Referenced(x) = symbols[x] /\ x[1] # "first"
BY ProgramSymbol DEF Referenced

LEMMA AskedReferenced ==
    ASSUME NEW v, NEW ref, ref = Asked(v)
    PROVE  Referenced(ref).kind = 0 /\ Referenced(ref).name = v.name /\ Referenced(ref).value.is = "nothing"
<1>1. ref[1] = "runtime" /\ ref[3] = v.name
  BY DEF Asked, RuntimeRef
<1> QED BY <1>1 DEF Referenced, Nothing

\* What the file says of a function: 2, and its place.
LEMMA FunctionSource ==
    ASSUME NEW r, Referenced(r.ref).kind = 0, r.ref[1] # "first", NEW f, Referenced(r.ref).value = f
    PROVE  Source(r)[1] = 2 /\ Source(r)[2] = PlaceOf(f)[1] /\ Source(r)[3] = PlaceOf(f)[2]
<1>1. PICK a, b : a = PlaceOf(f)[1] /\ b = PlaceOf(f)[2] /\ PlaceOf(f) = <<a, b>>
  BY DEF PlaceOf
<1>2. Source(r) = <<2>> \o <<a, b>>
  BY <1>1 DEF Source
<1> DEFINE p == <<2>>
           q == <<a, b>>
<1>3. IsSeq(p) /\ Len(p) = 1 /\ p[1] = 2 /\ IsSeq(q) /\ Len(q) = 2 /\ q[1] = a /\ q[2] = b
  BY SingletonIs, PairIsSeq
<1> HIDE DEF p, q
<1>4. (p \o q)[1] = p[1] /\ (p \o q)[2] = q[1] /\ (p \o q)[3] = q[2]
  BY <1>3, ThreeOf
<1> QED BY <1>1, <1>2, <1>3, <1>4 DEF p, q

\* A function: its place in the element segments.
LEMMA FunctionMeans ==
    ASSUME IsSeq(elements), \A k \in DOMAIN elements : IsSeq(elements[k].vector),
           NEW r, Referenced(r.ref).kind = 0, r.ref[1] # "first", NEW f, Referenced(r.ref).value = f,
           ~Lost(r)
    PROVE  Means(r) = <<"function", f.name, 0>>
<1>1. PICK place : place = PlaceOf(f)
  OBVIOUS
<1>2. Source(r)[1] = 2 /\ Source(r)[2] = place[1] /\ Source(r)[3] = place[2]
  BY <1>1, FunctionSource
<1>3. elements[place[1] + 1].vector[place[2] + 1] = f
  <2>1. IF -1 \in {PlaceOf(f)[1], PlaceOf(f)[2]} THEN ~InElements(f)
        ELSE elements[PlaceOf(f)[1] + 1].vector[PlaceOf(f)[2] + 1] = f
    BY PlaceOfIs
  <2> QED BY <1>1, <1>2, <2>1 DEF Lost
<1> QED BY <1>2, <1>3 DEF Means, ByPlace

\* What the file puts for a function is what the program meant by it.
LEMMA FunctionMeant ==
    ASSUME SymbolsInv, IsSeq(elements), \A k \in DOMAIN elements : IsSeq(elements[k].vector),
           NEW x \in DOMAIN program.symbols, NEW s0, s0 = program.symbols[x], s0.kind = 0,
           NEW r, Tabling(r), RefKept(r.ref, x), Collected(r.ref), Found(r),
           NEW addend
    PROVE  Placing(r, 0) \in Meanings(s0, addend) \cup IF s0.value \in Keys(toTable) THEN {<<"external function", s0.name, 0>>} ELSE {}
<1>1. program \in Programs /\ x \in DOMAIN symbols /\ SymbolKept(symbols[x], s0)
  BY DEF SymbolsInv
<1>2. FunctionAssumed(s0)
  BY <1>1, ProgramSymbol
<1>3. Internal(r) <=> Referenced(r.ref).value.is = "function"
  BY DEF Internal, Tabling
<1>4. symbols[x].kind = 0 /\ symbols[x].name = s0.name
  BY <1>1 DEF SymbolKept
<1>5. CASE r.ref = x
  <2>1. Referenced(r.ref) = symbols[x] /\ r.ref[1] # "first" /\ symbols[x].value.is # "import"
    BY <1>1, <1>5, SymbolReferenced DEF Collected
  <2>2. CASE symbols[x].value = s0.value
    <3>1. s0.value.is = "function"
      BY <1>2, <2>1, <2>2, FunctionValue
    <3>2. Means(r) = <<"function", s0.value.name, 0>>
      BY <1>3, <1>4, <2>1, <2>2, <3>1, FunctionMeans DEF Found
    <3>3. <<"function", s0.value.name, 0>> \in Meanings(s0, addend)
      BY <3>1 DEF Meanings
    <3> QED BY <1>3, <2>1, <2>2, <3>1, <3>2, <3>3 DEF Placing
  <2>3. CASE FoundValue(symbols[x].value, s0)
    <3>1. symbols[x].value.is = "runtime" /\ s0.value \in Keys(toTable)
      BY <2>1, <2>3, FindFuncIs DEF FoundValue
    <3>2. SymbolKey(r) = <<0, s0.name>>
      BY <1>4, <2>1 DEF SymbolKey
    <3>3. ByName(SymbolKey(r), 0) = <<"external function", s0.name, 0>>
      BY <3>2 DEF ByName
    <3> QED BY <1>3, <2>1, <3>1, <3>3 DEF Placing
  <2> QED BY <1>1, <2>2, <2>3 DEF SymbolKept
<1>6. CASE AsksFor(r.ref, x)
  <2> DEFINE v == symbols[x].value
  <2>1. v.is = "import" /\ r.ref = Asked(v)
    BY <1>6 DEF AsksFor
  <2>2. Referenced(r.ref).kind = 0 /\ Referenced(r.ref).name = v.name /\ Referenced(r.ref).value.is = "nothing"
    BY <2>1, AskedReferenced
  <2>3. ByName(SymbolKey(r), 0) = <<"external function", v.name, 0>>
    BY <2>2 DEF ByName, SymbolKey
  <2>4. v.name = s0.value.name /\ s0.value.is = "import"
    <3>1. CASE v = s0.value
      BY <2>1, <3>1
    <3>2. CASE FoundValue(v, s0)
      <4>1. v.name = s0.value.name /\ Imported(s0.value)
        BY <3>2, FindFuncIs DEF FoundValue
      <4> QED BY <1>1, <4>1, ImportedIs
    <3> QED BY <1>1, <3>1, <3>2 DEF SymbolKept
  <2>5. <<"external function", s0.value.name, 0>> \in Meanings(s0, addend)
    BY <2>4 DEF Meanings
  <2> QED BY <1>3, <2>2, <2>3, <2>4, <2>5 DEF Placing
<1>7. ~Text(x)
  BY DEF Text
<1> QED BY <1>5, <1>6, <1>7 DEF RefKept

\* A place in a segment that is there.
LEMMA SegmentMeant ==
    ASSUME SymbolsInv, SegmentsInv, NEW r, ~Tabling(r),
           NEW y \in DOMAIN program.symbols, r.ref = y, program.symbols[y].kind = 1, program.symbols[y].value.is = "segment",
           There(y), NEW d, d = program.symbols[y].value.name
    PROVE  /\ Internal(r) /\ Original(d) \in ToSet(segments) /\ Original(d).name = d
           /\ Means(r) = <<"memory", SectionOf(d), Rloc(d) + program.symbols[y].offset + r.addend>>
<1>1. program \in Programs /\ y \in DOMAIN symbols /\ SymbolKept(symbols[y], program.symbols[y])
  BY DEF SymbolsInv
<1>2. symbols[y].value = program.symbols[y].value /\ symbols[y].kind = 1 /\ symbols[y].offset = program.symbols[y].offset
  BY <1>1, DataValue DEF SymbolKept
<1>3. Referenced(r.ref) = symbols[y]
  BY <1>1, SymbolReferenced
<1>4. Internal(r)
  BY <1>2, <1>3 DEF Internal, Tabling
<1>5. Original(d) \in ToSet(segments) /\ Original(d).name = d
  <2>1. Original(d) \in ToSet(segments)
    BY DEF There
  <2> QED BY <2>1, ValueSegment
<1>6. Source(r) = <<1, SectionIndex(SectionOf(d)), Rloc(d) + program.symbols[y].offset + r.addend>>
  BY <1>2, <1>3 DEF Source
<1> DEFINE i1 == SectionIndex(SectionOf(d))
           off == Rloc(d) + program.symbols[y].offset + r.addend
<1>7. i1 # -1
  BY <1>1, <1>5, SegmentPlace, SectionAt DEF SegmentsInv
<1>8. sections[i1 + 1] = SectionOf(d)
  BY <1>7, SectionAt DEF SegmentsInv
<1> HIDE DEF i1, off
<1>9. Means(r) = ByPlace(1, i1, off)
  BY <1>6 DEF Means, i1, off
<1>10. Means(r) = <<"memory", SectionOf(d), off>>
  BY <1>8, <1>9 DEF ByPlace
<1> QED BY <1>4, <1>5, <1>10 DEF off

\* The section that a symbol starts or ends.
LEMMA BoundSection ==
    ASSUME program \in Programs, NEW x \in DOMAIN program.symbols, NEW s, s = program.symbols[x],
           s.kind = 1, s.value.is \in {"start", "end"}
    PROVE  s.value.name \in ToSet(program.sections)
<1>1. DataAssumed(program, x)
  BY ProgramSymbol
<1>2. Undefined(s)
  <2>1. ~Undefined(s) => s.value = Segment(s.value.name)
    BY DataSymbol
  <2>2. Segment(s.value.name).is = "segment"
    BY SegmentIs
  <2> QED BY <2>1, <2>2
<1>3. Nothing.is = "nothing"
  BY DEF Nothing
<1> QED BY <1>1, <1>2, <1>3 DEF DataAssumed

\* The start or the end of a section.
LEMMA BoundMeant ==
    ASSUME SymbolsInv, SegmentsInv, NEW r, ~Tabling(r),
           NEW x \in DOMAIN program.symbols, r.ref = x, NEW s0, s0 = program.symbols[x],
           s0.kind = 1, s0.value.is \in {"start", "end"}, NEW addend
    PROVE  Internal(r) /\ Means(r) \in Meanings(s0, addend)
<1>1. program \in Programs /\ x \in DOMAIN symbols
  BY DEF SymbolsInv
<1>2. symbols[x].value = s0.value /\ symbols[x].kind = 1
  BY <1>1, DataValue
<1>3. Referenced(r.ref) = symbols[x]
  BY <1>1, SymbolReferenced
<1>4. Internal(r)
  BY <1>2, <1>3 DEF Internal, Tabling
<1> DEFINE d == s0.value.name
           at == SectionIndex(d)
           off == IF s0.value.is = "start" THEN 0 ELSE 16 * Len(Packed(d))
<1>5. Source(r) = <<1, at, off>>
  BY <1>2, <1>3 DEF Source
<1>6. at # -1
  <2>1. d \in ToSet(program.sections)
    BY <1>1, BoundSection
  <2> QED BY <2>1, SectionAt DEF SegmentsInv
<1>7. sections[at + 1] = d
  BY <1>6, SectionAt DEF SegmentsInv
<1>8. <<"memory", d, off>> \in Meanings(s0, addend)
  BY DEF Meanings
<1> HIDE DEF d, at, off
<1>9. Means(r) = <<"memory", d, off>>
  BY <1>5, <1>7 DEF Means, ByPlace
<1> QED BY <1>4, <1>8, <1>9

\* What the file puts for an address is what the program meant by it.
LEMMA DataMeant ==
    ASSUME SymbolsInv, SegmentsInv, NEW x \in DOMAIN program.symbols, NEW s0, s0 = program.symbols[x], s0.kind = 1,
           NEW r, ~Tabling(r), RefKept(r.ref, x),
           NEW addend, s0.value # Nothing => addend = r.addend
    PROVE  Placing(r, addend) \in Meanings(s0, addend) /\ (s0.value # Nothing => Internal(r))
<1>1. program \in Programs /\ x \in DOMAIN symbols /\ SymbolKept(symbols[x], s0)
  BY DEF SymbolsInv
<1>2. symbols[x].value = s0.value /\ symbols[x].kind = 1 /\ symbols[x].name = s0.name
  BY <1>1, DataValue DEF SymbolKept
<1>3. /\ s0.value.is \in {"nothing", "start", "end", "segment"}
      /\ s0.value.is = "nothing" => s0.value = Nothing
  <2>1. /\ Undefined(s0) => s0.value = Nothing \/ s0.value.is \in {"start", "end"}
        /\ ~Undefined(s0) => s0.value = Segment(s0.value.name)
        /\ s0.value.is \in {"nothing", "start", "end", "segment"}
    BY <1>1, DataSymbol
  <2>2. s0.value = Segment(s0.value.name) => s0.value.is = "segment"
    BY SegmentIs
  <2> QED BY <2>1, <2>2
<1>4. Nothing.is = "nothing"
  BY DEF Nothing
<1>5. CASE r.ref = x /\ There(x)
  <2>1. Referenced(r.ref) = symbols[x]
    BY <1>1, <1>5, SymbolReferenced
  <2>2. CASE s0.value.is = "nothing"
    <3>1. ~Internal(r)
      BY <1>2, <2>1, <2>2 DEF Internal, Tabling
    <3>2. SymbolKey(r) = <<1, s0.name>>
      BY <1>2, <2>1 DEF SymbolKey
    <3>3. ByName(SymbolKey(r), addend) = <<"external data", s0.name, addend>>
      BY <3>2 DEF ByName
    <3>4. <<"external data", s0.name, addend>> \in Meanings(s0, addend)
      BY <2>2 DEF Meanings
    <3> QED BY <1>3, <2>2, <3>1, <3>3, <3>4 DEF Placing
  <2>3. CASE s0.value.is \in {"start", "end"}
    BY <1>5, <2>3, BoundMeant DEF Placing
  <2>4. CASE s0.value.is = "segment"
    <3> DEFINE d == s0.value.name
    <3>1. /\ Internal(r) /\ Original(d) \in ToSet(segments) /\ Original(d).name = d
          /\ Means(r) = <<"memory", SectionOf(d), Rloc(d) + s0.offset + r.addend>>
      BY <1>5, <2>4, SegmentMeant
    <3>2. PICK k \in DOMAIN segments : segments[k].name = d
      BY <3>1 DEF ToSet
    <3>3. addend = r.addend
      BY <1>4, <2>4
    <3>4. Same(d, segments[k].name)
      BY <3>2 DEF Same
    <3>5. <<"memory", SectionOf(d), Rloc(d) + s0.offset + addend>> \in Meanings(s0, addend)
      BY <2>4, <3>2, <3>4 DEF Meanings
    <3> QED BY <3>1, <3>3, <3>5 DEF Placing
  <2> QED BY <1>3, <2>2, <2>3, <2>4
<1>6. CASE Text(r.ref) /\ Text(x) /\ Bytes(r.ref) = Bytes(x) /\ There(r.ref)
  <2> DEFINE d == s0.value.name
  <2>1. PICK y : y = r.ref
    OBVIOUS
  <2> DEFINE e == program.symbols[y].value.name
  <2>2. /\ y \in DOMAIN program.symbols /\ program.symbols[y].kind = 1 /\ program.symbols[y].offset = 0
        /\ program.symbols[y].value.is = "segment" /\ Original(e).string
    BY <1>6, <2>1, SegmentIs DEF Text
  <2>3. s0.value.is = "segment" /\ s0.offset = 0 /\ Original(d).string /\ Original(e).bytes = Original(d).bytes
    BY <1>6, <2>1, SegmentIs DEF Text, Bytes
  <2>4. /\ Internal(r) /\ Original(e) \in ToSet(segments) /\ Original(e).name = e
        /\ Means(r) = <<"memory", SectionOf(e), Rloc(e) + program.symbols[y].offset + r.addend>>
    BY <1>6, <2>1, <2>2, SegmentMeant
  <2>5. PICK k \in DOMAIN segments : segments[k].name = e
    BY <2>4 DEF ToSet
  <2>6. addend = r.addend
    BY <1>4, <2>3
  <2>7. Same(d, segments[k].name)
    BY <2>2, <2>3, <2>5 DEF Same
  <2>8. <<"memory", SectionOf(e), Rloc(e) + s0.offset + addend>> \in Meanings(s0, addend)
    BY <2>3, <2>5, <2>7 DEF Meanings
  <2> QED BY <2>2, <2>3, <2>4, <2>6, <2>8 DEF Placing
<1>7. ~AsksFor(r.ref, x)
  BY DEF AsksFor
<1> QED BY <1>5, <1>6, <1>7 DEF RefKept

\* The element segments have sequences.
LEMMA VectorsAre ==
    ASSUME TablesInv, phase \in Parted
    PROVE  IsSeq(elements) /\ \A k \in DOMAIN elements : IsSeq(elements[k].vector)
<1>1. CASE IsOne(elements)
  <2>1. DOMAIN elements = {1} /\ IsSeq(elements) /\ IsSeq(elements[1].vector)
    BY <1>1, OneIs DEF IsOne
  <2> QED BY <2>1
<1>2. CASE IsTwo(elements)
  <2>1. DOMAIN elements = {1, 2} /\ IsSeq(elements) /\ IsSeq(elements[1].vector) /\ IsSeq(elements[2].vector)
    BY <1>2, TwoIs DEF IsTwo
  <2> QED BY <2>1
<1> QED BY <1>1, <1>2 DEF TablesInv, Tables

\* A relocation of the code: the file names its place as it was meant.
LEMMA CodeMeant ==
    ASSUME phase = "written", SymbolsInv, SegmentsInv, TablesInv, CodeInv, BodyInv, RefsInv, SplitInv, FileInv, TableInv,
           NEW k \in DOMAIN program.codeRelocs, NEW r0, r0 = program.codeRelocs[k]
    PROVE  \E means \in MeaningsButKnown(r0, TRUE) :
              /\ Naming(At(CodeFixes, CodeOffset(r0.inst)), means)
              /\ Once(program.codeRelocs, r0) => At(CodeFixes, CodeOffset(r0.inst)) = Said(CodeOffset(r0.inst), means)
<1>1. /\ phase \in Sorted /\ phase \in Parted /\ phase \notin Before /\ phase \notin Before \cup {"code"}
  BY DEF Sorted, Parted, Placed, Before
<1>2. program \in Programs
  BY DEF SymbolsInv
<1>3. PICK r : r = codeRelocs[k]
  OBVIOUS
<1>4. k \in DOMAIN codeRelocs /\ r.type = r0.type /\ r.inst = r0.inst /\ r.addend = r0.addend
  BY <1>3 DEF CodeInv, CodeOK
<1>5. PICK x, s0 : x = r0.ref /\ s0 = program.symbols[x]
  OBVIOUS
<1>6. x \in DOMAIN program.symbols /\ r0.type \in CodeTypes /\ (r0.type = "TABLE_INDEX_SLEB" <=> s0.kind = 0) /\ s0.kind \in {0, 1}
  BY <1>2, <1>5, ProgramRelocs, ProgramSymbol
<1>7. Tabling(r) <=> s0.kind = 0
  BY <1>4, <1>6 DEF Tabling, CodeTypes
<1>8. RefKept(r.ref, x) /\ (s0.kind = 0 => Collected(r.ref))
  BY <1>1, <1>3, <1>5, <1>6 DEF RefsInv
<1>9. r \in ToSet(parts.intCode) \cup ToSet(parts.extCode) /\ (r \in ToSet(parts.intCode) <=> Internal(r))
  <2>1. r \in ToSet(codeRelocs)
    BY <1>3, <1>4 DEF ToSet
  <2> QED BY <1>1, <1>3, <2>1 DEF SplitInv, Split, Answered
<1>10. Found(r)
  BY <1>9 DEF Found, FileInv, NoLost
<1>11. /\ Naming(At(CodeFixes, CodeOffset(r.inst)), Placing(r, 0))
       /\ Once(codeRelocs, r) => At(CodeFixes, CodeOffset(r.inst)) = Said(CodeOffset(r.inst), Placing(r, 0))
  <2>1. CASE Internal(r)
    <3>1. PICK n \in DOMAIN parts.intCode : parts.intCode[n] = r
      BY <1>9, <2>1 DEF ToSet
    <3>2. Placing(r, 0) = Means(r)
      BY <2>1 DEF Placing
    <3> QED BY <3>1, <3>2, CodePlaces DEF TableInv
  <2>2. CASE ~Internal(r)
    <3>1. PICK n \in DOMAIN parts.extCode : parts.extCode[n] = r
      BY <1>9, <2>2 DEF ToSet
    <3>2. Placing(r, 0) = ByName(SymbolKey(r), 0)
      BY <2>2 DEF Placing
    <3> QED BY <3>1, <3>2, CodePlaces DEF TableInv
  <2> QED BY <2>1, <2>2
<1>13. Once(program.codeRelocs, r0) => Once(codeRelocs, r)
  BY <1>2, <1>3, <1>4, CodeOnce
<1>12. Placing(r, 0) \in MeaningsButKnown(r0, TRUE)
  <2> DEFINE a == IF s0.value = Nothing THEN 0 ELSE r0.addend
  <2>1. MeaningsButKnown(r0, TRUE)
        = Meanings(s0, a) \cup IF s0.value \in Keys(toTable) THEN {<<"external function", s0.name, 0>>} ELSE {}
    BY <1>5 DEF MeaningsButKnown
  <2>2. CASE s0.kind = 0
    <3>1. IsSeq(elements) /\ \A e \in DOMAIN elements : IsSeq(elements[e].vector)
      BY <1>1, VectorsAre
    <3> HIDE DEF a
    <3> QED BY <1>5, <1>6, <1>7, <1>8, <1>10, <2>1, <2>2, <3>1, FunctionMeant
  <2>3. CASE s0.kind = 1
    <3>1. s0.value # Nothing => a = r.addend
      BY <1>4
    <3>2. s0.value = Nothing => a = 0
      OBVIOUS
    <3> HIDE DEF a
    <3>3. Placing(r, a) \in Meanings(s0, a) /\ (s0.value # Nothing => Internal(r))
      BY <1>5, <1>6, <1>7, <1>8, <1>10, <2>3, <3>1, DataMeant
    <3>4. Placing(r, 0) = Placing(r, a)
      BY <3>2, <3>3 DEF Placing
    <3> QED BY <2>1, <3>3, <3>4
  <2> QED BY <1>6, <2>2, <2>3
<1> QED BY <1>4, <1>11, <1>12, <1>13

\* A relocation of the data: the file names its place as it was meant.
LEMMA WordMeant ==
    ASSUME phase = "written", SymbolsInv, SegmentsInv, TablesInv, DataInv, RefsInv, SplitInv, FileInv,
           NEW k \in DOMAIN program.dataRelocs, NEW r0, r0 = program.dataRelocs[k]
    PROVE  \E means \in MeaningsButKnown(r0, FALSE) :
              /\ Naming(At(DataFixes, DataPlace(r0)), means)
              /\ Once(program.dataRelocs, r0) => At(DataFixes, DataPlace(r0)) = Said(DataPlace(r0), means)
<1>1. phase \in Sorted /\ phase \in Parted /\ phase \notin Before /\ phase \notin Before \cup {"code", "data"}
  BY DEF Sorted, Parted, Placed, Before
<1>2. program \in Programs
  BY DEF SymbolsInv
<1>3. PICK r : r = dataRelocs[k]
  OBVIOUS
<1>4. k \in DOMAIN dataRelocs /\ r.type = r0.type /\ r.segment = r0.segment /\ r.off = r0.off /\ r.addend = r0.addend
  BY <1>3 DEF DataInv, DataOK
<1>5. PICK x, s0 : x = r0.ref /\ s0 = program.symbols[x]
  OBVIOUS
<1>6. /\ x \in DOMAIN program.symbols /\ r0.type \in DataTypes /\ (r0.type = "TABLE_INDEX_I32" <=> s0.kind = 0) /\ s0.kind \in {0, 1}
      /\ s0.kind = 0 => r0.addend = 0
  BY <1>2, <1>5, ProgramRelocs, ProgramSymbol
<1>7. Tabling(r) <=> s0.kind = 0
  BY <1>4, <1>6 DEF Tabling, DataTypes
<1>8. RefKept(r.ref, x) /\ (s0.kind = 0 => Collected(r.ref))
  BY <1>1, <1>3, <1>5, <1>6 DEF RefsInv
<1>9. r \in ToSet(parts.intData) \cup ToSet(parts.extData) /\ (r \in ToSet(parts.intData) <=> Internal(r))
  <2>1. r \in ToSet(dataRelocs)
    BY <1>3, <1>4 DEF ToSet
  <2> QED BY <1>1, <1>3, <2>1 DEF SplitInv, Split, Answered
<1>10. Found(r)
  BY <1>9 DEF Found, FileInv, NoLost
<1>11. SectionOf(r.segment) \in ToSet(sections) /\ DataPlace(r) = DataPlace(r0)
  <2>1. InSegment(r)
    <3>1. r \in ToSet(dataRelocs)
      BY <1>3, <1>4 DEF ToSet
    <3>2. Word(r)
      BY <3>1, WrittenWord
    <3>3. r.segment \notin Added
      BY <1>2, <1>4, SectionsAssumption
    <3> QED BY <3>2, <3>3 DEF Word
  <2>2. PICK e \in ToSet(program.segments) : ~e.string /\ e.name = r.segment
    BY <1>4, <2>1 DEF InSegment
  <2>3. e \in ToSet(segments)
    BY <2>2 DEF SegmentsInv
  <2>4. SectionOf(r.segment) \in ToSet(sections)
    BY <1>2, <2>2, <2>3, SegmentPlace
  <2> QED BY <1>4, <2>4 DEF DataPlace, DataOffset
<1>12. /\ Naming(At(DataFixes, DataPlace(r)), Placing(r, r.addend))
       /\ Once(dataRelocs, r) => At(DataFixes, DataPlace(r)) = Said(DataPlace(r), Placing(r, r.addend))
  <2>1. CASE Internal(r)
    <3>1. PICK n \in DOMAIN parts.intData : parts.intData[n] = r
      BY <1>9, <2>1 DEF ToSet
    <3>2. Placing(r, r.addend) = Means(r)
      BY <2>1 DEF Placing
    <3> QED BY <1>11, <3>1, <3>2, DataPlaces
  <2>2. CASE ~Internal(r)
    <3>1. PICK n \in DOMAIN parts.extData : parts.extData[n] = r
      BY <1>9, <2>2 DEF ToSet
    <3>2. Placing(r, r.addend) = ByName(SymbolKey(r), r.addend)
      BY <2>2 DEF Placing
    <3> QED BY <1>11, <3>1, <3>2, DataPlaces
  <2> QED BY <2>1, <2>2
<1>14. Once(program.dataRelocs, r0) => Once(dataRelocs, r)
  BY <1>3, <1>4, DataOnce
<1>13. Placing(r, r.addend) \in MeaningsButKnown(r0, FALSE)
  <2>1. MeaningsButKnown(r0, FALSE)
        = Meanings(s0, r.addend) \cup IF s0.value \in Keys(toTable) THEN {<<"external function", s0.name, 0>>} ELSE {}
    BY <1>4, <1>5 DEF MeaningsButKnown
  <2>2. CASE s0.kind = 0
    <3>1. IsSeq(elements) /\ \A e \in DOMAIN elements : IsSeq(elements[e].vector)
      BY <1>1, VectorsAre
    <3>2. r.addend = 0
      BY <1>4, <1>6, <2>2
    <3> QED BY <1>5, <1>6, <1>7, <1>8, <1>10, <2>1, <2>2, <3>1, <3>2, FunctionMeant
  <2>3. CASE s0.kind = 1
    <3>1. PICK a : a = r.addend
      OBVIOUS
    <3>2. Placing(r, a) \in Meanings(s0, a)
      BY <1>5, <1>6, <1>7, <1>8, <1>10, <2>3, <3>1, DataMeant
    <3> QED BY <2>1, <3>1, <3>2
  <2> QED BY <1>6, <2>2, <2>3
<1> QED BY <1>11, <1>12, <1>13, <1>14

LEMMA TablesInit == InitRelocs => TablesInv
BY DEF InitRelocs, Init, TablesInv, Parted, Placed

LEMMA FixesInit == InitRelocs => FixesInv
BY ElementsInit, LinkInit, PartsInit, GroupsInit, SymbolsInit, SegmentsInit, TablesInit, CodeInit, DataInit,
   RefsInit, SplitInit, FileInit, TableInit DEF FixesInv

LEMMA FixesStep == FixesInv /\ [Next]_vars => FixesInv'
<1> SUFFICES ASSUME FixesInv, [Next]_vars PROVE FixesInv'
  OBVIOUS
<1>1. PartsTyped
  BY SplitTyped DEF FixesInv
<1>2. ElementsInv' /\ LinkInv' /\ PartsInv' /\ GroupsInv'
  BY ElementsStep, LinkStep, PartsStep, GroupsStep DEF FixesInv
<1>3. SymbolsInv' /\ SegmentsInv' /\ TablesInv' /\ CodeInv' /\ BodyInv' /\ DataInv'
  BY SymbolsStep, SegmentsStep, TablesStep, CodeStep, DataStep DEF FixesInv
<1>4. RefsInv' /\ SplitInv' /\ FileInv' /\ TableInv'
  BY <1>1, RefsStep, SplitStep, FileStep, TableStep DEF FixesInv
<1> QED BY <1>2, <1>3, <1>4 DEF FixesInv

LEMMA PutsIs ==
    ASSUME NEW fixes, NEW meanings, NEW m \in meanings, NEW at, NEW alone, Naming(fixes, m), alone => fixes = Said(at, m)
    PROVE  Puts(fixes, meanings, alone)
<1>1. Len(Said(at, m)) = 1
  BY SingletonIs DEF Said
<1> QED BY <1>1 DEF Puts, Naming

LEMMA PlacesMeant == FixesInv => PlacesMeantButKnown
<1> SUFFICES ASSUME FixesInv, phase = "written" PROVE PlacesMeantButKnown
  BY DEF PlacesMeantButKnown, Written
<1>1. ASSUME NEW k \in DOMAIN program.codeRelocs, NEW r, r = program.codeRelocs[k], NEW alone,
             alone => \A j \in DOMAIN program.codeRelocs : program.codeRelocs[j] = r => j = k
      PROVE  Puts(At(CodeFixes, CodeOffset(r.inst)), MeaningsButKnown(r, TRUE), alone)
  <2>1. PICK m \in MeaningsButKnown(r, TRUE) :
            /\ Naming(At(CodeFixes, CodeOffset(r.inst)), m)
            /\ Once(program.codeRelocs, r) => At(CodeFixes, CodeOffset(r.inst)) = Said(CodeOffset(r.inst), m)
    BY <1>1, CodeMeant DEF FixesInv
  <2>2. alone => Once(program.codeRelocs, r)
    BY <1>1 DEF Once
  <2> QED BY <2>1, <2>2, PutsIs
<1>2. ASSUME NEW k \in DOMAIN program.dataRelocs, NEW r, r = program.dataRelocs[k], NEW alone,
             alone => \A j \in DOMAIN program.dataRelocs : program.dataRelocs[j] = r => j = k
      PROVE  Puts(WordAt(SectionOf(r.segment), DataOffset(r)), MeaningsButKnown(r, FALSE), alone)
  <2>1. PICK m \in MeaningsButKnown(r, FALSE) :
            /\ Naming(At(DataFixes, DataPlace(r)), m)
            /\ Once(program.dataRelocs, r) => At(DataFixes, DataPlace(r)) = Said(DataPlace(r), m)
    BY <1>2, WordMeant DEF FixesInv
  <2>2. alone => Once(program.dataRelocs, r)
    BY <1>2 DEF Once
  <2>3. Puts(At(DataFixes, DataPlace(r)), MeaningsButKnown(r, FALSE), alone)
    BY <2>1, <2>2, PutsIs
  <2> QED BY <2>3 DEF WordAt, DataPlace
<1> QED BY <1>1, <1>2 DEF PlacesMeantButKnown

\* The loader is told of every place that a relocation of the program has, and
\* to put there what the program meant: the function or the address with its
\* addend, or the name of the symbol that another module has.  It is told once,
\* but of a relocation that the merges took over twice, where it is told the same.
\* The exceptions are those of MeaningsButKnown, the dropped addend of external
\* data in the code and the functions found with dlsym.
THEOREM PlacesMeantCorrect == Spec => []PlacesMeantButKnown
<1>1. InitRelocs => FixesInv
  BY FixesInit
<1>2. FixesInv /\ [Next]_vars => FixesInv'
  BY FixesStep
<1>3. FixesInv => PlacesMeantButKnown
  BY PlacesMeant
<1> QED BY <1>1, <1>2, <1>3, PTL DEF Spec

\* The constructor __wasm_ctor_dylib_tbl fills the table: it copies every
\* element segment that the program needs, whole, to the place that the loader
\* gives its first function; the exception is the segment made for visible
\* functions alone.
THEOREM TableFilledCorrect == Spec => []TableFilledButKnown
<1>1. InitRelocs => FixesInv
  BY FixesInit
<1>2. FixesInv /\ [Next]_vars => FixesInv'
  BY FixesStep
<1>3. FixesInv => TableFilledButKnown
  BY TableFilled DEF FixesInv, DataInv
<1> QED BY <1>1, <1>2, <1>3, PTL DEF Spec

----------------------------------------------------------------------------
(* The constructors in .init_array.                                        *)

LEMMA ProgramCtors ==
    ASSUME program \in Programs
    PROVE  /\ IsSeq(program.ctors)
           /\ \A k \in DOMAIN program.ctors :
                 program.ctors[k].symbol \in DOMAIN program.symbols /\ program.ctors[k].priority \in Int
<1>1. program.ctors \in Seq([symbol : DOMAIN program.symbols, priority : Int])
  BY CtorsAssumption
<1>2. IsSeq(program.ctors) /\ ToSet(program.ctors) \subseteq [symbol : DOMAIN program.symbols, priority : Int]
  BY <1>1, SeqIsSeq
<1>3. \A k \in DOMAIN program.ctors : program.ctors[k] \in [symbol : DOMAIN program.symbols, priority : Int]
  BY <1>2 DEF ToSet
<1> QED BY <1>2, <1>3

\* How many come before a constructor tells them apart.
LEMMA RanksApart ==
    ASSUME program \in Programs, NEW n, n = Len(program.ctors)
    PROVE  /\ n \in Nat /\ DOMAIN program.ctors = 1 .. n
           /\ \A a \in 1 .. n : Cardinality(Preceding(a)) \in 0 .. n - 1
           /\ \A a, b \in 1 .. n : Precedes(a, b) \/ Precedes(b, a) \/ a = b
           /\ \A a, b \in 1 .. n : Precedes(a, b) <=> Cardinality(Preceding(a)) < Cardinality(Preceding(b))
<1>1. n \in Nat /\ DOMAIN program.ctors = 1 .. n
  BY ProgramCtors, IsSeqLen
<1>2. \A a \in 1 .. n : program.ctors[a].priority \in Int
  BY <1>1, ProgramCtors
<1>3. \A a, b \in 1 .. n : Precedes(a, b) \/ Precedes(b, a) \/ a = b
  BY <1>1, <1>2 DEF Precedes
<1>4. \A a, b, c \in 1 .. n : Precedes(a, b) /\ Precedes(b, c) => Precedes(a, c)
  BY <1>1, <1>2 DEF Precedes
<1>5. \A a \in 1 .. n : ~Precedes(a, a)
  BY <1>1, <1>2 DEF Precedes
<1>6. \A a \in 1 .. n : Preceding(a) = {j \in 1 .. n : Precedes(j, a)}
  BY <1>1 DEF Preceding
<1>7. IsFiniteSet(1 .. n) /\ Cardinality(1 .. n) = n
  BY <1>1, FS_Interval
<1>8. ASSUME NEW a \in 1 .. n
      PROVE  IsFiniteSet(Preceding(a)) /\ Cardinality(Preceding(a)) \in 0 .. n - 1
  <2>1. Preceding(a) \in SUBSET (1 .. n) /\ a \notin Preceding(a)
    BY <1>5, <1>6
  <2>2. IsFiniteSet(Preceding(a)) /\ Cardinality(Preceding(a)) <= n /\ (Cardinality(Preceding(a)) = n => Preceding(a) = 1 .. n)
    BY <1>7, <2>1, FS_Subset
  <2>3. Cardinality(Preceding(a)) \in Nat /\ Cardinality(Preceding(a)) # n
    BY <2>1, <2>2, FS_CardinalityType
  <2> QED BY <1>1, <2>2, <2>3
<1>9. ASSUME NEW a \in 1 .. n, NEW b \in 1 .. n, Precedes(a, b)
      PROVE  Cardinality(Preceding(a)) < Cardinality(Preceding(b))
  <2>1. Preceding(a) \in SUBSET Preceding(b) /\ a \in Preceding(b) /\ a \notin Preceding(a)
    BY <1>4, <1>5, <1>6, <1>9
  <2>2. Cardinality(Preceding(a)) <= Cardinality(Preceding(b)) /\ Cardinality(Preceding(a)) # Cardinality(Preceding(b))
    BY <1>8, <2>1, FS_Subset
  <2> QED BY <1>1, <1>8, <2>2
<1>10. ASSUME NEW a \in 1 .. n, NEW b \in 1 .. n, ~Precedes(a, b)
       PROVE  ~(Cardinality(Preceding(a)) < Cardinality(Preceding(b)))
  <2>1. CASE a = b
    BY <1>1, <1>8, <2>1
  <2>2. CASE Precedes(b, a)
    BY <1>1, <1>8, <1>9, <2>2
  <2> QED BY <1>3, <1>10, <2>1, <2>2
<1> QED BY <1>1, <1>3, <1>8, <1>9, <1>10

LEMMA SortedIs ==
    ASSUME program \in Programs, NEW n, n = Len(program.ctors)
    PROVE  \E o : Sorting(o, n)
<1> DEFINE Rank(k) == Cardinality(Preceding(k))
           At1(m) == CHOOSE k \in DOMAIN program.ctors : Rank(k) = m - 1
           o == [m \in 1 .. n |-> At1(m)]
           rank == [k \in 1 .. n |-> Rank(k) + 1]
<1>1. /\ n \in Nat /\ DOMAIN program.ctors = 1 .. n
      /\ \A a \in 1 .. n : Rank(a) \in 0 .. n - 1
      /\ \A a, b \in 1 .. n : Precedes(a, b) \/ Precedes(b, a) \/ a = b
      /\ \A a, b \in 1 .. n : Precedes(a, b) <=> Rank(a) < Rank(b)
  BY RanksApart
<1>2. SortedCtors = [m \in 1 .. n |-> program.ctors[o[m]].symbol]
  BY <1>1 DEF SortedCtors
<1> HIDE DEF Rank
<1>3. rank \in Injection(1 .. n, 1 .. n)
  <2>1. rank \in [1 .. n -> 1 .. n]
    BY <1>1
  <2>2. \A a, b \in 1 .. n : rank[a] = rank[b] => a = b
    BY <1>1
  <2> QED BY <2>1, <2>2 DEF Injection, IsInjective
<1>4. IsFiniteSet(1 .. n)
  BY <1>1, FS_Interval
<1>5. rank \in Surjection(1 .. n, 1 .. n)
  <2> HIDE DEF rank
  <2> QED BY <1>3, <1>4, FS_Injection
<1>6. \A m \in 1 .. n : \E k \in 1 .. n : Rank(k) = m - 1
  <2>1. ASSUME NEW m \in 1 .. n PROVE \E k \in 1 .. n : rank[k] = m
    BY <1>5 DEF Surjection
  <2>2. ASSUME NEW m \in 1 .. n PROVE \E k \in 1 .. n : Rank(k) = m - 1
    <3>1. PICK k \in 1 .. n : rank[k] = m
      BY <2>1
    <3>2. Rank(k) + 1 = m /\ Rank(k) \in 0 .. n - 1
      BY <1>1, <3>1
    <3>3. Rank(k) = m - 1
      BY <1>1, <3>2
    <3> QED BY <3>3
  <2> QED BY <2>2
<1>7. \A m \in 1 .. n : At1(m) \in 1 .. n /\ Rank(At1(m)) = m - 1
  BY <1>1, <1>6
<1> HIDE DEF At1
<1>8. o \in [1 .. n -> 1 .. n] /\ \A m \in 1 .. n : Rank(o[m]) = m - 1
  BY <1>7
<1> HIDE DEF o
<1>9. ASSUME NEW k \in 1 .. n PROVE \E m \in 1 .. n : o[m] = k
  <2>1. Rank(k) + 1 \in 1 .. n
    BY <1>1
  <2>2. PICK m \in 1 .. n : m = Rank(k) + 1
    BY <2>1
  <2>3. Rank(o[m]) = Rank(k) /\ o[m] \in 1 .. n
    BY <1>1, <1>8, <2>2
  <2>4. o[m] = k
    BY <1>1, <2>3
  <2> QED BY <2>4
<1>10. ASSUME NEW a \in 1 .. n, NEW b \in 1 .. n PROVE Precedes(o[a], o[b]) <=> a < b
  <2>1. o[a] \in 1 .. n /\ o[b] \in 1 .. n /\ Rank(o[a]) = a - 1 /\ Rank(o[b]) = b - 1
    BY <1>8
  <2> QED BY <1>1, <2>1
<1>11. Sorting(o, n)
  BY <1>2, <1>8, <1>9, <1>10 DEF Sorting
<1> QED BY <1>11

\* Each function once, where its first constructor is.
LEMMA CtorOrder ==
    ASSUME program \in Programs
    PROVE  /\ Len(CtorFunctions) = Cardinality(FirstCtors)
           /\ \A k \in FirstCtors :
                 LET p == Cardinality({j \in FirstCtors : Precedes(j, k)}) + 1
                 IN  p \in 1 .. Len(CtorFunctions) /\ CtorFunctions[p] = CtorAt(k)
<1> DEFINE n == Len(program.ctors)
           v == Values(SortedCtors)
           T == {f \in ToSet(v) : f.is = "function"}
           I == FirstIn(v, T)
<1>1. PICK o : Sorting(o, n)
  BY SortedIs
<1>2. /\ n \in Nat /\ DOMAIN program.ctors = 1 .. n
      /\ \A a, b \in 1 .. n : Precedes(a, b) \/ Precedes(b, a) \/ a = b
      /\ \A a, b \in 1 .. n : Precedes(a, b) <=> Cardinality(Preceding(a)) < Cardinality(Preceding(b))
      /\ \A a \in 1 .. n : Cardinality(Preceding(a)) \in 0 .. n - 1
  BY RanksApart
<1>3. /\ \A m \in 1 .. n : o[m] \in 1 .. n
      /\ \A k \in 1 .. n : \E m \in 1 .. n : o[m] = k
      /\ \A a, b \in 1 .. n : Precedes(o[a], o[b]) <=> a < b
      /\ SortedCtors = [m \in 1 .. n |-> program.ctors[o[m]].symbol]
  BY <1>1 DEF Sorting
<1>4. \A a, b \in 1 .. n : o[a] = o[b] => a = b
  <2>1. \A a \in 1 .. n : ~Precedes(o[a], o[a])
    BY <1>2, <1>3
  <2> QED BY <1>2, <1>3, <2>1
<1> HIDE DEF n
<1>5. DOMAIN v = 1 .. n /\ v = [m \in 1 .. n |-> v[m]] /\ \A m \in 1 .. n : v[m] = CtorAt(o[m])
  BY <1>3 DEF Values, CtorAt
<1> HIDE DEF v
<1>6. IsSeq(v)
  BY <1>2, <1>5, FunctionIsSeq
<1>7. \A m \in 1 .. n : v[m] \in T <=> v[m].is = "function"
  BY <1>5 DEF ToSet
<1>8. CtorFunctions = Firsts(Where(v, T))
  BY DEF CtorFunctions, OwnOf, v
<1> HIDE DEF T
<1>9. I \subseteq 1 .. n /\ \A m \in 1 .. n : m \in I <=> o[m] \in FirstCtors
  <2>1. I \subseteq 1 .. n
    BY <1>5 DEF FirstIn
  <2>2. \A m \in 1 .. n : m \in I <=> v[m] \in T /\ \A j \in 1 .. m - 1 : v[j] # v[m]
    BY <1>5 DEF FirstIn
  <2>3. \A m \in 1 .. n : o[m] \in FirstCtors
            <=> CtorAt(o[m]).is = "function" /\ \A j \in 1 .. n : Precedes(j, o[m]) => CtorAt(j) # CtorAt(o[m])
    BY <1>2, <1>3 DEF FirstCtors
  <2>4. ASSUME NEW m \in 1 .. n
        PROVE  (\A j \in 1 .. m - 1 : v[j] # v[m]) <=> (\A j \in 1 .. n : Precedes(j, o[m]) => CtorAt(j) # CtorAt(o[m]))
    <3>1. ASSUME NEW j \in 1 .. n, Precedes(j, o[m]), CtorAt(j) = CtorAt(o[m]),
                 \A a \in 1 .. m - 1 : v[a] # v[m]
          PROVE  FALSE
      <4>1. PICK a \in 1 .. n : o[a] = j
        BY <1>3
      <4>2. a < m
        BY <1>3, <3>1, <4>1
      <4>3. a \in 1 .. m - 1 /\ v[a] = v[m]
        BY <1>2, <1>5, <3>1, <4>1, <4>2
      <4> QED BY <3>1, <4>3
    <3>2. ASSUME NEW a \in 1 .. m - 1, v[a] = v[m],
                 \A j \in 1 .. n : Precedes(j, o[m]) => CtorAt(j) # CtorAt(o[m])
          PROVE  FALSE
      <4>1. a \in 1 .. n /\ a < m
        BY <1>2
      <4>2. Precedes(o[a], o[m]) /\ o[a] \in 1 .. n
        BY <1>3, <4>1
      <4> QED BY <1>5, <3>2, <4>1, <4>2
    <3> QED BY <3>1, <3>2
  <2> QED BY <1>5, <1>7, <2>1, <2>2, <2>3, <2>4
<1>10. /\ Len(CtorFunctions) = Cardinality(I)
       /\ \A m \in I : PlaceAmong(I, m) \in 1 .. Len(CtorFunctions) /\ CtorFunctions[PlaceAmong(I, m)] = v[m]
  <2>1. PICK J : J = I
    OBVIOUS
  <2> HIDE DEF I
  <2>2. J = FirstIn(v, T)
    BY <2>1 DEF I
  <2>3. PICK F : F = CtorFunctions
    OBVIOUS
  <2>4. /\ Len(F) = Cardinality(J)
        /\ \A m \in J : PlaceAmong(J, m) \in 1 .. Len(F) /\ F[PlaceAmong(J, m)] = v[m]
    BY <1>6, <1>8, <2>2, <2>3, FirstsPlaces
  <2> QED BY <2>1, <2>3, <2>4
<1> HIDE DEF I
<1>11. IsFiniteSet(I) /\ \A m : IsFiniteSet({j \in I : j < m})
  <2>1. IsFiniteSet(1 .. n)
    <3>1. PICK N \in Int : N = n
      BY <1>2
    <3>2. IsFiniteSet(1 .. N)
      BY FS_Interval, 1 \in Int
    <3> QED BY <3>1, <3>2
  <2>2. ASSUME NEW m PROVE IsFiniteSet({j \in I : j < m})
    <3> DEFINE B == {j \in I : j < m}
    <3>1. B \in SUBSET (1 .. n)
      BY <1>9
    <3> HIDE DEF B
    <3>2. IsFiniteSet(B)
      BY <2>1, <3>1, FS_Subset
    <3> QED BY <3>2 DEF B
  <2>3. I \in SUBSET (1 .. n)
    BY <1>9
  <2>4. IsFiniteSet(I)
    BY <2>1, <2>3, FS_Subset
  <2> QED BY <2>2, <2>4
<1>12. FirstCtors \subseteq 1 .. n
  BY <1>2 DEF FirstCtors
<1>13. Cardinality(FirstCtors) = Cardinality(I)
  <2>1. \A b \in FirstCtors : \E a \in I : o[a] = b
    BY <1>3, <1>9, <1>12
  <2>2. \A a \in I : o[a] \in FirstCtors
    BY <1>9
  <2>3. \A a, c \in I : o[a] = o[c] => a = c
    BY <1>4, <1>9
  <2> QED BY <1>11, <2>1, <2>2, <2>3, SameSize
<1>14. ASSUME NEW k \in FirstCtors
       PROVE  LET p == Cardinality({j \in FirstCtors : Precedes(j, k)}) + 1
              IN  p \in 1 .. Len(CtorFunctions) /\ CtorFunctions[p] = CtorAt(k)
  <2>1. PICK m \in 1 .. n : o[m] = k
    BY <1>3, <1>12
  <2>2. m \in I /\ v[m] = CtorAt(k)
    BY <1>5, <1>9, <2>1
  <2> DEFINE A == {j \in I : j < m}
             B == {j \in FirstCtors : Precedes(j, k)}
  <2>3. \A a \in A : o[a] \in B
    BY <1>3, <1>9, <2>1
  <2>4. \A b \in B : \E a \in A : o[a] = b
    <3>1. ASSUME NEW b \in B PROVE \E a \in A : o[a] = b
      <4>1. PICK a \in 1 .. n : o[a] = b
        BY <1>3, <1>12
      <4>2. a \in I /\ a < m
        BY <1>3, <1>9, <2>1, <4>1
      <4> QED BY <4>1, <4>2
    <3> QED BY <3>1
  <2>5. \A a, c \in A : o[a] = o[c] => a = c
    BY <1>4, <1>9
  <2>6. IsFiniteSet(A)
    BY <1>11
  <2>7. Cardinality(B) = Cardinality(A)
    <3> HIDE DEF A, B
    <3> QED BY <2>3, <2>4, <2>5, <2>6, SameSize
  <2>8. PlaceAmong(I, m) = Cardinality(B) + 1
    BY <2>7 DEF PlaceAmong
  <2> QED BY <1>10, <2>2, <2>8
<1> QED BY <1>10, <1>13, <1>14

LEMMA WordsInit == InitRelocs => WordsInv
BY DEF InitRelocs, Init, WordsInv, Arrayed, Symboled, Parted, Placed, Thrown

LEMMA OnlyAdded ==
    ASSUME NEW data, IsSeq(data), NEW rel, IsSeq(rel), NEW words, IsSeq(words), NEW d,
           \A j \in DOMAIN rel : rel[j].segment # d
    PROVE  Only(words, d, data \o words, rel \o words)
<1>1. PICK new : new = rel \o words
  OBVIOUS
<1>2. \A k \in DOMAIN new : \/ k \in DOMAIN rel /\ new[k] = rel[k]
                            \/ k - Len(rel) \in DOMAIN words /\ new[k] = words[k - Len(rel)]
  BY <1>1, ConcatElements
<1>3. \A k \in DOMAIN words : words[k] \in ToSet(words)
  BY DEF ToSet
<1>4. ToSet(data \o words) = ToSet(data) \cup ToSet(words)
  BY ConcatToSet
<1> QED BY <1>1, <1>2, <1>3, <1>4 DEF Only

LEMMA OnlyMore ==
    ASSUME NEW data, IsSeq(data), NEW rel, IsSeq(rel), NEW words, IsSeq(words), NEW d,
           NEW own, Only(own, d, data, rel), \A k \in DOMAIN words : words[k].segment # d
    PROVE  Only(own, d, data \o words, rel \o words)
<1>1. PICK new : new = rel \o words
  OBVIOUS
<1>2. \A k \in DOMAIN new : \/ k \in DOMAIN rel /\ new[k] = rel[k]
                            \/ k - Len(rel) \in DOMAIN words /\ new[k] = words[k - Len(rel)]
  BY <1>1, ConcatElements
<1>4. ToSet(data \o words) = ToSet(data) \cup ToSet(words)
  BY ConcatToSet
<1> QED BY <1>1, <1>2, <1>4 DEF Only

LEMMA WordsStay ==
    ASSUME UNCHANGED <<program, symbols, dynsym>>
    PROVE  CtorFunctions' = CtorFunctions /\ InitWords' = InitWords /\ SymbolWords' = SymbolWords
<1>1. CtorFunctions' = CtorFunctions
  BY DEF CtorFunctions, SortedCtors, Preceding, Precedes, Values
<1>2. InitWords' = InitWords
  BY <1>1 DEF InitWords
<1>3. SymbolWords' = SymbolWords
  BY DEF SymbolWords, NamePointer, SymbolPointer, NameOffset
<1> QED BY <1>1, <1>2, <1>3

LEMMA WordsStep == WordsInv /\ DataInv /\ PartsInv /\ SegmentsInv /\ [Next]_vars => WordsInv'
<1> SUFFICES ASSUME WordsInv, DataInv, PartsInv, SegmentsInv, [Next]_vars PROVE WordsInv'
  OBVIOUS
<1>0. IsSeq(sections) /\ IsSeq(dataRelocs) /\ IsSeq(parts.intData) /\ program \in Programs
  BY DEF SegmentsInv, DataInv, DataOK, PartsInv
<1>1. CASE CreateInitArray
  <2>1. /\ dataRelocs' = dataRelocs \o InitWords /\ phase = "init_array" /\ phase' = "objc"
        /\ parts' = [parts EXCEPT !.intData = @ \o InitWords]
        /\ UNCHANGED <<program, symbols, dynsym>>
        /\ sections' = IF CtorFunctions = <<>> THEN sections ELSE Append(sections, ".init_array")
    BY <1>1 DEF CreateInitArray, AddData, LinkedElsewhere, InitWords, Goto
  <2>2. Filled = {} /\ phase' \notin Symboled /\ ".init_array" \in Added
    BY <2>1 DEF Filled, Arrayed, Symboled, Parted, Placed, Added
  <2>3. parts'.intData = parts.intData \o InitWords
    BY <2>1 DEF PartsInv
  <2>4. \A j \in DOMAIN dataRelocs : dataRelocs[j].segment # ".init_array"
    BY <2>2, InSegmentIs DEF DataInv, Gone
  <2>5. Only(InitWords, ".init_array", parts'.intData, dataRelocs')
    <3>1. IsSeq(InitWords)
      BY <1>0, InitWordsAre
    <3>2. PICK words : words = InitWords
      OBVIOUS
    <3>3. Only(words, ".init_array", parts.intData \o words, dataRelocs \o words)
      BY <1>0, <2>4, <3>1, <3>2, OnlyAdded
    <3> QED BY <2>1, <2>3, <3>2, <3>3
  <2>6. ToSet(sections') = IF CtorFunctions = <<>> THEN ToSet(sections) ELSE ToSet(sections) \cup {".init_array"}
    BY <1>0, <2>1, AppendToSet
  <2>7. ".init_array" \notin ToSet(sections)
    <3>1. sections = program.sections
      BY <2>1 DEF WordsInv, Thrown, Arrayed, Parted, Placed
    <3> QED BY <1>0, <2>2, <3>1, SectionsAssumption
  <2>8. CtorFunctions' = CtorFunctions /\ InitWords' = InitWords
    BY <2>1, WordsStay
  <2> QED BY <2>1, <2>2, <2>5, <2>6, <2>7, <2>8 DEF WordsInv, Arrayed
<1>2. CASE SetupModuleData
  <2>1. /\ dataRelocs' = dataRelocs \o SymbolWords /\ phase = "dynsym" /\ phase' = "header"
        /\ parts' = [parts EXCEPT !.intData = @ \o SymbolWords]
        /\ UNCHANGED <<program, symbols, dynsym>>
        /\ sections' = sections \o <<".dynstr", ".dynsym">>
    BY <1>2 DEF SetupModuleData, AddData, LinkedElsewhere, SymbolWords, Goto
  <2>2. Filled = {".init_array"} /\ phase \in Arrayed /\ ".dynsym" \in Added
    BY <2>1 DEF Filled, Arrayed, Symboled, Parted, Placed, Added
  <2>3. parts'.intData = parts.intData \o SymbolWords
    BY <2>1 DEF PartsInv
  <2>4. PICK words, own : words = SymbolWords /\ own = InitWords
    OBVIOUS
  <2>5. IsSeq(words) /\ \A k \in DOMAIN words : words[k].segment = ".dynsym"
    BY <2>4, SymbolWordsAre, SymbolWordsFit DEF PartsInv
  <2>6. \A j \in DOMAIN dataRelocs : dataRelocs[j].segment # ".dynsym"
    BY <2>2, InSegmentIs DEF DataInv, Gone
  <2>7. Only(words, ".dynsym", parts'.intData, dataRelocs')
    BY <1>0, <2>1, <2>3, <2>4, <2>5, <2>6, OnlyAdded
  <2>8. Only(own, ".init_array", parts'.intData, dataRelocs')
    <3>1. Only(own, ".init_array", parts.intData, dataRelocs)
      BY <2>2, <2>4 DEF WordsInv
    <3>2. Only(own, ".init_array", parts.intData \o words, dataRelocs \o words)
      BY <1>0, <2>5, <3>1, OnlyMore
    <3> QED BY <2>1, <2>3, <2>4, <3>2
  <2>9. ToSet(sections') = ToSet(sections) \cup {".dynstr", ".dynsym"}
    <3> DEFINE t == <<".dynstr", ".dynsym">>
    <3>1. IsSeq(t) /\ ToSet(t) = {".dynstr", ".dynsym"}
      BY PairIsSeq DEF ToSet
    <3> HIDE DEF t
    <3>2. ToSet(sections \o t) = ToSet(sections) \cup {".dynstr", ".dynsym"}
      BY <1>0, <3>1, ConcatToSet
    <3> QED BY <2>1, <3>2 DEF t
  <2>10. CtorFunctions' = CtorFunctions /\ InitWords' = own /\ SymbolWords' = words
    BY <2>1, <2>4, WordsStay
  <2>11. CtorFunctions = <<>> <=> ".init_array" \notin ToSet(sections)
    BY <2>2 DEF WordsInv
  <2> QED BY <2>1, <2>2, <2>7, <2>8, <2>9, <2>10, <2>11 DEF WordsInv, Arrayed, Parted, Placed
<1>3. ASSUME (LinkNext /\ UNCHANGED relocVars) \/ RelocNext, ~CreateInitArray, ~SetupModuleData
      PROVE  /\ phase' \in Arrayed => phase \in Arrayed
             /\ phase' \in Symboled => phase \in Symboled
             /\ phase' \in Arrayed \cup Thrown \/ phase \notin Arrayed \cup Thrown
             /\ UNCHANGED <<program, sections>>
             /\ phase \in Arrayed => UNCHANGED <<program, symbols, dynsym, dataRelocs, sections>> /\ parts'.intData = parts.intData
  BY <1>3 DEF LinkNext, Resolve, ResolveDone, ReplaceImport, RetargetImports, RemoveImport, RemoveImportDone, RetargetCall,
     RetargetCallDone, MergeStrings, RelocNext, CollectCode, CollectCodeDone, CollectData, CreateElements, PartitionMethods,
     Export, SetupCommonData, GenerateExports, CreateTableCtor, PartsInv,
     WriteHeader, Validate, EncodeExternal, EncodeInternal, Failure, Goto, linkVars, relocVars, Arrayed, Symboled, Parted, Placed, Thrown
<1>4. ASSUME UNCHANGED vars
      PROVE  UNCHANGED <<phase, program, symbols, dynsym, dataRelocs, sections>> /\ parts'.intData = parts.intData
  BY <1>4 DEF vars, linkVars, relocVars
<1>5. [Next]_vars => (LinkNext /\ UNCHANGED relocVars) \/ RelocNext \/ UNCHANGED vars
  BY DEF Next, Stopped
<1>6. CASE /\ phase' \in Arrayed => phase \in Arrayed
           /\ phase' \in Symboled => phase \in Symboled
           /\ phase' \in Arrayed \cup Thrown \/ phase \notin Arrayed \cup Thrown
           /\ UNCHANGED <<program, sections>>
           /\ phase \in Arrayed => UNCHANGED <<program, symbols, dynsym, dataRelocs, sections>> /\ parts'.intData = parts.intData
  <2>1. CASE phase \in Arrayed
    <3>1. CtorFunctions' = CtorFunctions /\ InitWords' = InitWords /\ SymbolWords' = SymbolWords
      BY <1>6, <2>1, WordsStay
    <3>2. UNCHANGED <<dataRelocs, sections>> /\ parts'.intData = parts.intData
      BY <1>6, <2>1
    <3> QED BY <1>6, <2>1, <3>1, <3>2 DEF WordsInv
  <2>2. CASE phase \notin Arrayed
    <3>1. phase' \notin Arrayed /\ phase' \notin Symboled
      BY <1>6, <2>2 DEF Arrayed, Symboled, Parted, Placed
    <3> QED BY <1>6, <3>1 DEF WordsInv
  <2> QED BY <2>1, <2>2
<1> QED BY <1>1, <1>2, <1>3, <1>4, <1>5, <1>6

LEMMA SplitLists ==
    ASSUME phase = "written", SplitInv
    PROVE  \A n \in DOMAIN parts.intData : parts.intData[n] \in ToSet(dataRelocs)
<1>1. Split(dataRelocs, parts.intData, parts.extData)
  BY DEF SplitInv, Sorted, Parted, Placed
<1> QED BY <1>1 DEF Split, ToSet

LEMMA SaysPlaces ==
    ASSUME NEW fixes, NEW at, NEW means, Says(fixes, at, means)
    PROVE  \A n \in DOMAIN fixes : \E k \in DOMAIN at : fixes[n].at = at[k]
<1> SUFFICES ASSUME NEW n \in DOMAIN fixes PROVE \E k \in DOMAIN at : fixes[n].at = at[k]
  OBVIOUS
<1>1. PICK k \in DOMAIN at : fixes[n] = [at |-> at[k], means |-> means[k]]
  BY DEF Says
<1> QED BY <1>1

\* A word of the array is filled with the address of its constructor.
LEMMA ArrayWord ==
    ASSUME phase = "written", WordsInv, SplitInv, DataInv, SegmentsInv, FileInv, TablesInv,
           NEW m \in DOMAIN CtorFunctions
    PROVE  WordAt(".init_array", 4 * (m - 1))
           = Said(<<SectionIndex(".init_array"), 4 * (m - 1)>>, <<"function", CtorFunctions[m].name, 0>>)
<1>1. /\ Only(InitWords, ".init_array", parts.intData, dataRelocs)
      /\ CtorFunctions = <<>> <=> ".init_array" \notin ToSet(sections)
  BY DEF WordsInv, Arrayed, Parted, Placed
<1>2. PICK r, f : r = InitWords[m] /\ f = CtorFunctions[m]
  OBVIOUS
<1>3. m \in DOMAIN InitWords /\ r.ref = FunctionRef(f) /\ r.segment = ".init_array" /\ r.off = 4 * (m - 1)
  BY <1>2 DEF InitWords, PointerTo
<1>4. PICK n \in DOMAIN parts.intData : parts.intData[n] = r
  <2>1. r \in ToSet(InitWords)
    BY <1>2, <1>3 DEF ToSet
  <2>2. r \in ToSet(parts.intData)
    BY <1>1, <2>1 DEF Only
  <2> QED BY <2>2 DEF ToSet
<1>5. SectionOf(r.segment) = ".init_array" /\ Rloc(r.segment) = 0
  BY <1>3, AddedPlace DEF Added, DataInv
<1>6. DataOffset(r) = 4 * (m - 1)
  <2>1. m \in Nat
    BY CtorFunctionsIs, IsSeqLen DEF DataInv
  <2> QED BY <1>3, <1>5, <2>1 DEF DataOffset
<1>7. DataPlace(r) = <<SectionIndex(".init_array"), 4 * (m - 1)>>
  BY <1>5, <1>6 DEF DataPlace
<1>8. ".init_array" \in ToSet(sections)
  BY <1>1, EmptyIsSeq
<1>9. At(DataFixes, DataPlace(r)) = Said(DataPlace(r), Means(r))
  <2>1. PICK k \in DOMAIN dataRelocs : dataRelocs[k] = r
    BY <1>4, SplitLists DEF ToSet
  <2>2. Once(dataRelocs, r)
    BY <1>3, <2>1, DataOnce DEF Added
  <2> QED BY <1>4, <1>5, <1>8, <2>2, DataPlaces
<1>10. Means(r) = <<"function", f.name, 0>>
  <2>1. Referenced(r.ref).kind = 0 /\ Referenced(r.ref).value = f /\ r.ref[1] # "first"
    <3>1. PICK ref : ref = r.ref
      OBVIOUS
    <3>2. ref[1] = "function" /\ ref[2] = f
      BY <1>3, <3>1 DEF FunctionRef
    <3>3. Referenced(ref).kind = 0 /\ Referenced(ref).value = f
      BY <3>2 DEF Referenced
    <3> QED BY <3>1, <3>2, <3>3
  <2>2. ~Lost(r)
    BY <1>4 DEF FileInv, NoLost, ToSet
  <2>3. IsSeq(elements) /\ \A e \in DOMAIN elements : IsSeq(elements[e].vector)
    BY VectorsAre DEF Parted, Placed
  <2> QED BY <2>1, <2>2, <2>3, FunctionMeans
<1> QED BY <1>2, <1>7, <1>9, <1>10 DEF WordAt

\* A place in the array is the place of one of its words.
LEMMA ArrayPlace ==
    ASSUME phase = "written", WordsInv, SplitInv, DataInv, SegmentsInv, FileInv, NEW r \in ToSet(dataRelocs),
           DataPlace(r)[1] = SectionIndex(".init_array")
    PROVE  \E m \in DOMAIN CtorFunctions : DataPlace(r) = <<SectionIndex(".init_array"), 4 * (m - 1)>>
<1>1. /\ Only(InitWords, ".init_array", parts.intData, dataRelocs)
      /\ CtorFunctions = <<>> <=> ".init_array" \notin ToSet(sections)
      /\ {".dynstr", ".dynsym"} \subseteq ToSet(sections)
  BY DEF WordsInv, Arrayed, Symboled, Parted, Placed
<1>2. PICK k \in DOMAIN dataRelocs : dataRelocs[k] = r
  BY DEF ToSet
<1>4. Word(r)
  BY WrittenWord
<1>3. (InSegment(r) \/ r.segment \in {".init_array", ".dynsym"}) /\ r.off \in Nat
  BY <1>2, <1>4 DEF DataInv, Filled, Gone, Word
<1>5. SectionIndex(SectionOf(r.segment)) = SectionIndex(".init_array")
  BY DEF DataPlace
<1>6. ASSUME r.segment = ".init_array"
      PROVE  \E m \in DOMAIN CtorFunctions : DataPlace(r) = <<SectionIndex(".init_array"), 4 * (m - 1)>>
  <2>1. r \in ToSet(InitWords)
    BY <1>1, <1>2, <1>6 DEF Only
  <2>2. PICK m \in DOMAIN InitWords : InitWords[m] = r
    BY <2>1 DEF ToSet
  <2>3. m \in DOMAIN CtorFunctions /\ r.off = 4 * (m - 1)
    BY <2>2 DEF InitWords, PointerTo
  <2>4. SectionOf(r.segment) = r.segment /\ Rloc(r.segment) = 0
    BY <1>6, AddedPlace DEF Added, DataInv
  <2>5. DataOffset(r) = r.off
    BY <1>3, <2>4 DEF DataOffset
  <2> QED BY <1>5, <2>3, <2>5 DEF DataPlace
<1>7. ASSUME r.segment # ".init_array" PROVE FALSE
  <2>1. SectionOf(r.segment) \in ToSet(sections) /\ SectionOf(r.segment) # ".init_array"
    <3>1. CASE InSegment(r)
      <4>1. r.segment \notin Added
        BY <3>1, InSegmentIs DEF DataInv
      <4>2. SectionOf(r.segment) \in ToSet(sections) /\ SectionOf(r.segment) \notin Added
        BY <1>4, <4>1, WordPlace DEF DataInv
      <4> QED BY <4>2 DEF Added
    <3>2. CASE r.segment = ".dynsym"
      <4>1. SectionOf(r.segment) = ".dynsym"
        BY <3>2, AddedPlace DEF Added, DataInv
      <4> QED BY <1>1, <4>1
    <3> QED BY <1>3, <1>7, <3>1, <3>2
  <2>2. IsSeq(sections)
    BY DEF SegmentsInv
  <2>3. SectionIndex(SectionOf(r.segment)) # -1 /\ sections[SectionIndex(SectionOf(r.segment)) + 1] = SectionOf(r.segment)
    BY <2>1, <2>2, SectionAt
  <2>4. sections[SectionIndex(".init_array") + 1] = ".init_array"
    BY <1>5, <2>2, <2>3, SectionAt
  <2> QED BY <1>5, <2>1, <2>3, <2>4
<1> QED BY <1>6, <1>7

\* The file fills as many words of the array as there are constructors.
LEMMA ArrayFull ==
    ASSUME phase = "written", WordsInv, SplitInv, DataInv, SegmentsInv, FileInv, TablesInv
    PROVE  Cardinality({k \in DOMAIN DataFixes : DataFixes[k].at[1] = SectionIndex(".init_array")}) = Len(CtorFunctions)
<1> DEFINE n == Len(CtorFunctions)
           B == {k \in DOMAIN DataFixes : DataFixes[k].at[1] = SectionIndex(".init_array")}
           place(m) == <<SectionIndex(".init_array"), 4 * (m - 1)>>
           Fix(m) == CHOOSE k \in DOMAIN DataFixes : \A j \in DOMAIN DataFixes : DataFixes[j].at = place(m) <=> j = k
           o == [m \in 1 .. n |-> Fix(m)]
<1>1. n \in Nat /\ DOMAIN CtorFunctions = 1 .. n
  BY CtorFunctionsIs, IsSeqLen DEF DataInv
<1>2. /\ IsSeq(DataFixes)
      /\ \A j \in DOMAIN DataFixes : \E r \in ToSet(dataRelocs) : DataFixes[j].at = DataPlace(r)
  <2>1. Says(ExternalDataFixes, ExternalDataPlaces, ExternalDataMeans) /\ Says(InternalDataFixes, InternalDataPlaces, InternalDataMeans)
    BY DEF FileInv
  <2>2. /\ \A j \in DOMAIN ExternalDataFixes : \E k \in DOMAIN parts.extData : ExternalDataFixes[j].at = DataPlace(parts.extData[k])
        /\ \A j \in DOMAIN InternalDataFixes : \E k \in DOMAIN parts.intData : InternalDataFixes[j].at = DataPlace(parts.intData[k])
    <3>1. /\ \A j \in DOMAIN ExternalDataFixes : \E k \in DOMAIN ExternalDataPlaces : ExternalDataFixes[j].at = ExternalDataPlaces[k]
          /\ \A j \in DOMAIN InternalDataFixes : \E k \in DOMAIN InternalDataPlaces : InternalDataFixes[j].at = InternalDataPlaces[k]
      BY <2>1, SaysPlaces
    <3> QED BY <3>1 DEF ExternalDataPlaces, InternalDataPlaces
  <2>3. /\ \A k \in DOMAIN parts.extData : parts.extData[k] \in ToSet(dataRelocs)
        /\ \A k \in DOMAIN parts.intData : parts.intData[k] \in ToSet(dataRelocs)
    <3>1. Split(dataRelocs, parts.intData, parts.extData)
      BY DEF SplitInv, Sorted, Parted, Placed
    <3>2. \A s : \A k \in DOMAIN s : s[k] \in ToSet(s)
      BY DEF ToSet
    <3> QED BY <3>1, <3>2 DEF Split
  <2>4. PICK fixes : fixes = ExternalDataFixes \o InternalDataFixes
    OBVIOUS
  <2>5. /\ IsSeq(fixes)
        /\ \A k \in DOMAIN fixes : \/ k \in DOMAIN ExternalDataFixes /\ fixes[k] = ExternalDataFixes[k]
                                   \/ /\ k - Len(ExternalDataFixes) \in DOMAIN InternalDataFixes
                                      /\ fixes[k] = InternalDataFixes[k - Len(ExternalDataFixes)]
    BY <2>1, <2>4, ConcatElements, ConcatIsSeq DEF Says
  <2> QED BY <2>2, <2>3, <2>4, <2>5 DEF DataFixes
<1>3. \A m \in 1 .. n : \E k \in DOMAIN DataFixes : \A j \in DOMAIN DataFixes : DataFixes[j].at = place(m) <=> j = k
  <2> SUFFICES ASSUME NEW m \in 1 .. n
               PROVE  \E k \in DOMAIN DataFixes : \A j \in DOMAIN DataFixes : DataFixes[j].at = place(m) <=> j = k
    OBVIOUS
  <2>1. PICK T : T = {f \in ToSet(DataFixes) : f.at = place(m)}
    OBVIOUS
  <2>2. PICK e : Where(DataFixes, T) = <<e>>
    BY <1>1, <2>1, ArrayWord DEF WordAt, At, Said
  <2>3. \E k \in DOMAIN DataFixes : \A j \in DOMAIN DataFixes : DataFixes[j] \in T <=> j = k
    BY <1>2, <2>2, WhereOnly
  <2>4. \A j \in DOMAIN DataFixes : DataFixes[j] \in T <=> DataFixes[j].at = place(m)
    BY <2>1 DEF ToSet
  <2> QED BY <2>3, <2>4
<1>4. \A m \in 1 .. n : Fix(m) \in DOMAIN DataFixes /\ \A j \in DOMAIN DataFixes : DataFixes[j].at = place(m) <=> j = Fix(m)
  BY <1>3
<1>5. \A j \in B : \E m \in 1 .. n : DataFixes[j].at = place(m)
  BY <1>1, <1>2, ArrayPlace
<1>6. \A m, l \in 1 .. n : place(m) = place(l) => m = l
  BY <1>1
<1>7. \A m \in 1 .. n : place(m)[1] = SectionIndex(".init_array")
  OBVIOUS
<1> HIDE DEF Fix, place
<1>8. /\ \A m \in 1 .. n : o[m] \in B
      /\ \A j \in B : \E m \in 1 .. n : o[m] = j
      /\ \A m, l \in 1 .. n : o[m] = o[l] => m = l
  BY <1>4, <1>5, <1>6, <1>7
<1>9. IsFiniteSet(1 .. n) /\ Cardinality(1 .. n) = n
  <2>1. PICK N \in Nat : N = n
    BY <1>1
  <2>2. IsFiniteSet(1 .. N) /\ Cardinality(1 .. N) = N
    BY FS_Interval
  <2> QED BY <2>1, <2>2
<1> HIDE DEF B, o
<1>10. Cardinality(B) = Cardinality(1 .. n)
  BY <1>8, <1>9, SameSize
<1> QED BY <1>9, <1>10 DEF B

LEMMA ArrayInOrder == FixesInv /\ WordsInv => InitArrayInOrder
<1> SUFFICES ASSUME FixesInv, WordsInv, phase = "written" PROVE InitArrayInOrder
  BY DEF InitArrayInOrder, Written
<1>1. SplitInv /\ DataInv /\ SegmentsInv /\ FileInv /\ TablesInv /\ program \in Programs
  BY DEF FixesInv, DataInv
<1>2. \A at, m : Len(Said(at, m)) = 1 /\ Said(at, m)[1].means = m
  BY SingletonIs DEF Said
<1> DEFINE Rank(k) == Cardinality({j \in FirstCtors : Precedes(j, k)})
<1>3. ASSUME NEW k \in FirstCtors
      PROVE  /\ Len(WordAt(".init_array", 4 * Rank(k))) = 1
             /\ WordAt(".init_array", 4 * Rank(k))[1].means = <<"function", CtorAt(k).name, 0>>
  <2>1. PICK p : p = Rank(k) + 1
    OBVIOUS
  <2>2. p \in DOMAIN CtorFunctions /\ p \in Nat /\ CtorFunctions[p] = CtorAt(k)
    <3>1. p \in 1 .. Len(CtorFunctions) /\ CtorFunctions[p] = CtorAt(k)
      BY <1>1, <2>1, CtorOrder
    <3> QED BY <1>1, <3>1, CtorFunctionsIs, IsSeqLen
  <2>3. Rank(k) = p - 1
    <3>1. IsFiniteSet(FirstCtors)
      <4>1. FirstCtors \in SUBSET (1 .. Len(program.ctors)) /\ Len(program.ctors) \in Nat
        BY <1>1, ProgramCtors, IsSeqLen DEF FirstCtors
      <4>2. IsFiniteSet(1 .. Len(program.ctors))
        BY <4>1, FS_Interval
      <4> QED BY <4>1, <4>2, FS_Subset
    <3>2. {j \in FirstCtors : Precedes(j, k)} \in SUBSET FirstCtors
      OBVIOUS
    <3>3. Rank(k) \in Nat
      BY <3>1, <3>2, FS_Subset, FS_CardinalityType
    <3> QED BY <2>1, <3>3
  <2>4. WordAt(".init_array", 4 * (p - 1))
        = Said(<<SectionIndex(".init_array"), 4 * (p - 1)>>, <<"function", CtorFunctions[p].name, 0>>)
    BY <1>1, <2>2, ArrayWord
  <2> HIDE DEF Rank
  <2> QED BY <1>2, <2>2, <2>3, <2>4
<1>4. Cardinality({k \in DOMAIN DataFixes : DataFixes[k].at[1] = SectionIndex(".init_array")}) = Cardinality(FirstCtors)
  BY <1>1, ArrayFull, CtorOrder
<1> QED BY <1>3, <1>4 DEF InitArrayInOrder, FirstCtors, CtorAt

\* The words of .init_array are the addresses of the constructors in the order
\* in which they run: by priority, those of one priority in the order of the
\* objects, each function once, and nothing else is put into the section.
THEOREM InitArrayInOrderCorrect == Spec => []InitArrayInOrder
<1>1. InitRelocs => FixesInv /\ WordsInv
  BY FixesInit, WordsInit
<1>2. FixesInv /\ WordsInv /\ [Next]_vars => FixesInv' /\ WordsInv'
  BY FixesStep, WordsStep DEF FixesInv
<1>3. FixesInv /\ WordsInv => InitArrayInOrder
  BY ArrayInOrder
<1> QED BY <1>1, <1>2, <1>3, PTL DEF Spec

----------------------------------------------------------------------------
(* The visible symbols in .dynsym.                                         *)

\* Each visible symbol is listed once, the data first.
LEMMA ListedAre ==
    ASSUME SymbolsInv, LinkInv, Distinct(symtable)
    PROVE  /\ IsSeq(VisibleData) /\ IsSeq(VisibleFunctions) /\ IsSeq(Listed) /\ Distinct(Listed)
           /\ ToSet(Listed) = VisibleSymbols
           /\ \A x \in ToSet(VisibleData) : symbols[x].kind = 1
           /\ \A x \in ToSet(VisibleFunctions) : symbols[x].kind = 0
<1>1. IsSeq(symtable) /\ ToSet(symtable) \subseteq DOMAIN symbols
  BY SeqIsSeq DEF LinkInv
<1>2. \A x \in ToSet(symtable) : symbols[x].kind \in {0, 1}
  BY <1>1, ProgramSymbol DEF SymbolsInv, SymbolKept
<1> DEFINE D == {s \in VisibleOf(1) : "EXTERNAL" \notin symbols[s].flags /\ ~Skipped(symbols[s])}
           F == {s \in VisibleOf(0) : ~Skipped(symbols[s])}
<1>3. VisibleData = Where(symtable, D) /\ VisibleFunctions = Where(symtable, F)
  BY DEF VisibleData, VisibleFunctions
<1>4. /\ D \cap F = {} /\ ToSet(symtable) \cap D = D /\ ToSet(symtable) \cap F = F /\ D \cup F = VisibleSymbols
      /\ \A x \in D : symbols[x].kind = 1
      /\ \A x \in F : symbols[x].kind = 0
  BY <1>2 DEF VisibleSymbols, VisibleOf
<1> HIDE DEF D, F
<1>5. /\ IsSeq(VisibleData) /\ Distinct(VisibleData) /\ ToSet(VisibleData) = D
      /\ IsSeq(VisibleFunctions) /\ Distinct(VisibleFunctions) /\ ToSet(VisibleFunctions) = F
  BY <1>1, <1>3, <1>4, WhereIs
<1>6. Distinct(Listed)
  BY <1>4, <1>5, ConcatDistinct DEF Listed
<1>7. IsSeq(Listed) /\ ToSet(Listed) = D \cup F
  BY <1>5, ConcatElements DEF Listed
<1> QED BY <1>4, <1>5, <1>6, <1>7

\* There is an entry for each symbol listed, in that order.
LEMMA EntriesAre ==
    ASSUME SymbolsInv, LinkInv, Distinct(symtable), dynsym = Entries(VisibleData, 2) \o Entries(VisibleFunctions, 1)
    PROVE  /\ IsSeq(dynsym) /\ Len(dynsym) = Len(Listed) /\ DOMAIN dynsym = DOMAIN Listed
           /\ \A k \in DOMAIN dynsym : Listed[k] \in VisibleSymbols /\ dynsym[k] = Entry(Listed[k])
           /\ Len(dynsym) = Cardinality(VisibleSymbols)
<1>1. PICK d, f : d = VisibleData /\ f = VisibleFunctions
  OBVIOUS
<1>2. /\ IsSeq(d) /\ IsSeq(f) /\ IsSeq(d \o f) /\ Listed = d \o f /\ Distinct(Listed)
      /\ \A x \in ToSet(d) : symbols[x].kind = 1
      /\ \A x \in ToSet(f) : symbols[x].kind = 0
      /\ ToSet(Listed) = VisibleSymbols
  BY <1>1, ListedAre DEF Listed
<1>3. PICK u, v : u = Entries(d, 2) /\ v = Entries(f, 1)
  OBVIOUS
<1>4. dynsym = u \o v /\ IsSeq(u) /\ IsSeq(v)
  BY <1>1, <1>2, <1>3, EntriesIs
<1>5. Len(d) \in Nat /\ DOMAIN d = 1 .. Len(d) /\ Len(f) \in Nat /\ DOMAIN f = 1 .. Len(f)
  BY <1>2, IsSeqLen
<1>6. /\ Len(u) = Len(d) /\ Len(v) = Len(f)
      /\ \A k \in DOMAIN d : u[k] = Entry(d[k])
      /\ \A k \in DOMAIN f : v[k] = Entry(f[k])
  <2>1. DOMAIN u = DOMAIN d /\ DOMAIN v = DOMAIN f
    BY <1>3 DEF Entries
  <2>2. ASSUME NEW k \in DOMAIN d PROVE u[k] = Entry(d[k])
    <3>1. symbols[d[k]].kind = 1
      BY <1>2 DEF ToSet
    <3> QED BY <1>3, <3>1 DEF Entries, Entry
  <2>3. ASSUME NEW k \in DOMAIN f PROVE v[k] = Entry(f[k])
    <3>1. symbols[f[k]].kind = 0
      BY <1>2 DEF ToSet
    <3> QED BY <1>3, <3>1 DEF Entries, Entry
  <2>4. Len(u) = Len(d) /\ Len(v) = Len(f)
    BY <1>4, <1>5, <2>1, IsSeqLen
  <2> QED BY <2>2, <2>3, <2>4
<1>7. /\ Len(d \o f) = Len(d) + Len(f)
      /\ \A k \in 1 .. Len(d) + Len(f) : (d \o f)[k] = IF k <= Len(d) THEN d[k] ELSE f[k - Len(d)]
  BY <1>2, ConcatIsSeq
<1>8. /\ IsSeq(u \o v) /\ Len(u \o v) = Len(u) + Len(v)
      /\ \A k \in 1 .. Len(u) + Len(v) : (u \o v)[k] = IF k <= Len(u) THEN u[k] ELSE v[k - Len(u)]
  BY <1>4, ConcatIsSeq
<1>9. PICK n \in Nat : n = Len(d) + Len(f)
  BY <1>5
<1>10. DOMAIN dynsym = 1 .. n /\ DOMAIN Listed = 1 .. n /\ IsSeq(dynsym) /\ IsSeq(Listed) /\ Len(dynsym) = n /\ Len(Listed) = n
  BY <1>2, <1>4, <1>6, <1>7, <1>8, <1>9, IsSeqLen
<1>11. ASSUME NEW k \in 1 .. n PROVE dynsym[k] = Entry(Listed[k])
  <2>1. CASE k <= Len(d)
    <3>1. k \in DOMAIN d /\ dynsym[k] = u[k] /\ Listed[k] = d[k]
      BY <1>2, <1>4, <1>5, <1>6, <1>7, <1>8, <1>9, <2>1
    <3> QED BY <1>6, <3>1
  <2>2. CASE ~(k <= Len(d))
    <3>1. k - Len(d) \in DOMAIN f /\ dynsym[k] = v[k - Len(d)] /\ Listed[k] = f[k - Len(d)]
      BY <1>2, <1>4, <1>5, <1>6, <1>7, <1>8, <1>9, <2>2
    <3> QED BY <1>6, <3>1
  <2> QED BY <2>1, <2>2
<1>12. Cardinality(VisibleSymbols) = n
  <2>1. PICK l, V, I : l = Listed /\ V = VisibleSymbols /\ I = 1 .. n
    OBVIOUS
  <2>2. IsFiniteSet(I) /\ Cardinality(I) = n
    <3>1. 1 \in Int /\ n \in Int
      OBVIOUS
    <3> QED BY <2>1, <3>1, FS_Interval
  <2>3. /\ \A a \in I : l[a] \in V
        /\ \A b \in V : \E a \in I : l[a] = b
        /\ \A a, c \in I : l[a] = l[c] => a = c
    BY <1>2, <1>10, <2>1 DEF ToSet, Distinct
  <2>4. Cardinality(V) = Cardinality(I)
    BY <2>2, <2>3, SameSize
  <2> QED BY <2>1, <2>2, <2>4
<1>13. \A k \in DOMAIN dynsym : Listed[k] \in VisibleSymbols
  BY <1>2, <1>10 DEF ToSet
<1> QED BY <1>10, <1>11, <1>12, <1>13

\* What the module has it keeps while the program is not linked on.
LEMMA ThereStays ==
    ASSUME UNCHANGED <<program, segments>>, NEW x
    PROVE  There(x)' <=> There(x)
<1>1. PICK d : d = program.symbols[x].value.name
  OBVIOUS
<1>2. Original(d)' = Original(d)
  BY TextStays
<1>3. Original(program.symbols[x].value.name)' = Original(program.symbols[x].value.name)
  BY <1>1, <1>2
<1> QED BY <1>3 DEF There

\* Nothing is listed at first.
LEMMA SymtableInit == InitRelocs => SymtableInv
<1> SUFFICES ASSUME InitRelocs PROVE SymtableInv
  OBVIOUS
<1>1. program \in Programs /\ symtable = program.symtable /\ phase = "resolve"
  BY DEF InitRelocs, Init
<1>2. Distinct(symtable)
  BY <1>1, SymbolsAssumption DEF Distinct
<1> QED BY <1>1, <1>2 DEF SymtableInv, Before, Common, Arrayed, Parted, Placed

\* Each step keeps what is listed.
LEMMA SymtableStep == SymtableInv /\ SymbolsInv /\ LinkInv /\ SegmentsInv /\ [Next]_vars => SymtableInv'
<1> SUFFICES ASSUME SymtableInv, SymbolsInv, LinkInv, SegmentsInv, [Next]_vars PROVE SymtableInv'
  OBVIOUS
<1>0. IsSeq(symtable) /\ ToSet(symtable) \subseteq DOMAIN symbols
  BY SeqIsSeq DEF LinkInv
<1>1. CASE MergeStrings /\ UNCHANGED relocVars
  <2>1. phase = "strings" /\ phase' = "code" /\ program' = program
        /\ symtable' = Where(symtable, {s \in ToSet(symtable) : Kept(s) = s})
    BY <1>1 DEF MergeStrings, Goto
  <2>2. Distinct(symtable') /\ ToSet(symtable') = ToSet(symtable) \cap {s \in ToSet(symtable) : Kept(s) = s}
    BY <1>0, <2>1, WhereIs DEF SymtableInv
  <2>3. ASSUME NEW x \in ToSet(symtable') PROVE There(x)'
    <3>1. x \in DOMAIN symbols /\ Kept(x) = x
      BY <1>0, <2>2
    <3>2. PICK d : d = Original(program.symbols[x].value.name)
      OBVIOUS
    <3>3. program.symbols[x].value.is = "segment" => d \in ToSet(segments')
      BY <1>1, <2>1, <3>1, <3>2, KeptSegment
    <3>4. Original(program.symbols[x].value.name)' = d
      <4>1. PICK n : n = program.symbols[x].value.name
        OBVIOUS
      <4>2. Original(n)' = Original(n)
        BY <2>1, TextStays
      <4> QED BY <2>1, <3>2, <4>1, <4>2
    <3> QED BY <2>1, <3>3, <3>4 DEF There
  <2> QED BY <2>1, <2>2, <2>3 DEF SymtableInv, Common, Arrayed, Parted, Placed
<1>2. CASE SetupCommonData
  <2>1. /\ UNCHANGED <<program, symbols, symtable, segments>> /\ phase = "common"
        /\ phase' \in Common => dynsym' = Entries(VisibleData, 2) \o Entries(VisibleFunctions, 1)
    BY <1>2 DEF SetupCommonData, Goto, linkVars, Common, Arrayed, Parted, Placed
  <2>2. VisibleData' = VisibleData /\ VisibleFunctions' = VisibleFunctions
    BY <2>1 DEF VisibleData, VisibleFunctions, VisibleOf, Skipped, Visible, Undefined
  <2>5. (Entries(VisibleData, 2) \o Entries(VisibleFunctions, 1))' = Entries(VisibleData, 2) \o Entries(VisibleFunctions, 1)
    BY <2>1, <2>2 DEF Entries
  <2>6. phase \notin Before
    BY <2>1 DEF Before
  <2> QED BY <2>1, <2>5, <2>6, ThereStays DEF SymtableInv
<1>3. ASSUME (LinkNext /\ UNCHANGED relocVars) \/ RelocNext, ~(MergeStrings /\ UNCHANGED relocVars), ~SetupCommonData
      PROVE  /\ UNCHANGED <<program, symtable, segments>>
             /\ phase' \notin Before => phase \notin Before
             /\ phase' \in Common => phase \in Common /\ UNCHANGED <<symbols, dynsym>>
  BY <1>3 DEF LinkNext, Resolve, ResolveDone, ReplaceImport, RetargetImports, RemoveImport, RemoveImportDone, RetargetCall,
     RetargetCallDone, RelocNext, CollectCode, CollectCodeDone, CollectData, CreateElements, PartitionMethods,
     Export, GenerateExports, CreateInitArray, AddData, CreateTableCtor, SetupModuleData, LinkedElsewhere,
     WriteHeader, Validate, EncodeExternal, EncodeInternal, Failure, Goto, linkVars, relocVars, Before, Common, Arrayed, Parted, Placed
<1>4. ASSUME UNCHANGED vars
      PROVE  UNCHANGED <<phase, program, symtable, segments, symbols, dynsym>>
  BY <1>4 DEF vars, linkVars, relocVars
<1>5. [Next]_vars => (LinkNext /\ UNCHANGED relocVars) \/ RelocNext \/ UNCHANGED vars
  BY DEF Next, Stopped
<1>6. CASE /\ UNCHANGED <<program, symtable, segments>>
           /\ phase' \notin Before => phase \notin Before
           /\ phase' \in Common => phase \in Common /\ UNCHANGED <<symbols, dynsym>>
  <2>1. phase' \notin Before => \A x \in ToSet(symtable') : There(x)'
    BY <1>6, ThereStays DEF SymtableInv
  <2>2. CASE phase' \in Common
    <3>1. VisibleData' = VisibleData /\ VisibleFunctions' = VisibleFunctions
      BY <1>6, <2>2 DEF VisibleData, VisibleFunctions, VisibleOf, Skipped, Visible, Undefined
    <3>2. (Entries(VisibleData, 2) \o Entries(VisibleFunctions, 1))' = Entries(VisibleData, 2) \o Entries(VisibleFunctions, 1)
      BY <1>6, <2>2, <3>1 DEF Entries
    <3> QED BY <1>6, <2>1, <2>2, <3>2 DEF SymtableInv
  <2>3. CASE phase' \notin Common
    BY <1>6, <2>1, <2>3 DEF SymtableInv
  <2> QED BY <2>2, <2>3
<1> QED BY <1>1, <1>2, <1>3, <1>4, <1>5, <1>6

\* A word that .dynsym was given is in the file, with what its relocation
\* means.
LEMMA DynsymWord ==
    ASSUME phase = "written", WordsInv, SplitInv, DataInv, SegmentsInv, FileInv, PartsInv,
           NEW r \in ToSet(SymbolWords), NEW off, off = r.off
    PROVE  /\ WordAt(".dynsym", off) = Said(<<SectionIndex(".dynsym"), off>>, Means(r))
           /\ ~Lost(r)
           /\ ".dynstr" \in ToSet(sections)
<1>1. Only(SymbolWords, ".dynsym", parts.intData, dataRelocs) /\ {".dynstr", ".dynsym"} \subseteq ToSet(sections)
  BY DEF WordsInv, Symboled, Parted, Placed
<1>2. r.segment = ".dynsym" /\ off \in Nat
  <2>1. PICK k \in DOMAIN SymbolWords : SymbolWords[k] = r
    BY DEF ToSet
  <2> QED BY <2>1, SymbolWordsFit DEF PartsInv
<1>3. PICK n \in DOMAIN parts.intData : parts.intData[n] = r
  <2>1. r \in ToSet(parts.intData)
    BY <1>1 DEF Only
  <2> QED BY <2>1 DEF ToSet
<1>4. SectionOf(r.segment) = ".dynsym" /\ Rloc(r.segment) = 0
  BY <1>2, AddedPlace DEF Added, DataInv
<1>5. DataPlace(r) = <<SectionIndex(".dynsym"), off>>
  BY <1>2, <1>4 DEF DataPlace, DataOffset
<1>6. At(DataFixes, DataPlace(r)) = Said(DataPlace(r), Means(r))
  <2>1. PICK k \in DOMAIN dataRelocs : dataRelocs[k] = r
    BY <1>3, SplitLists DEF ToSet
  <2>2. Once(dataRelocs, r)
    BY <1>2, <2>1, DataOnce DEF Added
  <2> QED BY <1>1, <1>3, <1>4, <2>2, DataPlaces
<1>7. ~Lost(r)
  BY <1>3 DEF FileInv, NoLost, ToSet
<1> QED BY <1>1, <1>5, <1>6, <1>7 DEF WordAt

\* The word of a name holds the address of a place in .dynstr.
LEMMA NameMeans ==
    ASSUME SegmentsInv, program \in Programs, ".dynstr" \in ToSet(sections),
           NEW k, NEW off \in Nat, off = NameOffset(k)
    PROVE  Means(NamePointer(k)) = <<"memory", ".dynstr", off>>
<1>1. PICK r, ref : r = NamePointer(k) /\ ref = NameRef(off)
  OBVIOUS
<1>2. r.ref = ref /\ r.addend = 0
  BY <1>1 DEF NamePointer, PointerTo
<1>3. ref[1] = "dynstr" /\ ref[2] = off
  BY <1>1 DEF NameRef
<1>4. PICK s : s = Referenced(ref)
  OBVIOUS
<1>5. s.kind = 1 /\ s.value = Segment(".dynstr") /\ s.offset = off
  BY <1>3, <1>4 DEF Referenced
<1>6. s.value.is = "segment" /\ s.value.name = ".dynstr"
  BY <1>5, SegmentIs
<1>7. SectionOf(".dynstr") = ".dynstr" /\ Rloc(".dynstr") = 0
  BY AddedPlace DEF Added
<1>8. PICK at : at = SectionIndex(".dynstr")
  OBVIOUS
<1>9. Source(r) = <<1, at, off>>
  <2>1. Source(r) = <<1, SectionIndex(SectionOf(".dynstr")), Rloc(".dynstr") + off + r.addend>>
    BY <1>2, <1>4, <1>5, <1>6 DEF Source
  <2>2. 0 + off + 0 = off
    OBVIOUS
  <2> QED BY <1>2, <1>7, <1>8, <2>1, <2>2
<1>10. sections[at + 1] = ".dynstr"
  BY <1>8, SectionAt DEF SegmentsInv
<1>11. Means(r) = ByPlace(1, at, off)
  BY <1>9 DEF Means
<1> QED BY <1>1, <1>10, <1>11 DEF ByPlace

\* The word of a symbol holds what the symbol means.
LEMMA SymbolMeans ==
    ASSUME SymbolsInv, LinkInv, SegmentsInv, SymtableInv, PartsInv, phase \notin Before,
           IsSeq(elements), \A e \in DOMAIN elements : IsSeq(elements[e].vector),
           NEW x \in VisibleSymbols, NEW k \in DOMAIN dynsym, dynsym[k] = Entry(x),
           NEW r, r = SymbolPointer(k), ~Lost(r)
    PROVE  Means(r) \in SeenAs(program.symbols[x])
<1>1. PICK s, s0 : s = symbols[x] /\ s0 = program.symbols[x]
  OBVIOUS
<1>2. /\ x \in DOMAIN symbols /\ x \in DOMAIN program.symbols /\ x \in ToSet(symtable) /\ There(x)
      /\ SymbolKept(s, s0) /\ program \in Programs
  <2>1. x \in ToSet(symtable)
    BY DEF VisibleSymbols
  <2>2. x \in DOMAIN symbols
    BY <2>1, SeqIsSeq DEF LinkInv
  <2> QED BY <1>1, <2>1, <2>2 DEF SymbolsInv, SymtableInv
<1>3. /\ s0.kind \in {0, 1} /\ s.kind = s0.kind
      /\ s0.kind = 0 => FunctionAssumed(s0)
  BY <1>1, <1>2, ProgramSymbol DEF SymbolKept
<1>4. Visible(s) /\ (s.kind = 1 => "EXTERNAL" \notin s.flags)
  BY <1>1 DEF VisibleSymbols
<1>5. r.ref = x /\ r.addend = 0 /\ r.type = IF s0.kind = 0 THEN "TABLE_INDEX_I32" ELSE "MEMORY_ADDR_I32"
  BY <1>1, <1>3 DEF SymbolPointer, PointerTo, Entry
<1>6. Referenced(x) = s /\ x[1] # "first"
  BY <1>1, <1>2, SymbolReferenced
<1>7. CASE s0.kind = 0
  <2>1. s.value.name = s0.value.name
    BY <1>2, FindFuncIs DEF SymbolKept, FoundValue
  <2>2. PICK f : f = s.value
    OBVIOUS
  <2>3. Means(r) = <<"function", f.name, 0>>
    BY <1>3, <1>5, <1>6, <1>7, <2>2, FunctionMeans
  <2>4. Undefined(s0) \/ s0.value.is = "function"
    <3>1. PICK n : n = s0.value.name
      OBVIOUS
    <3>2. Own(n).is = "function"
      BY ValueKinds
    <3>3. ~Undefined(s0) => s0.value = Own(n)
      BY <1>3, <1>7, <3>1 DEF FunctionAssumed
    <3> QED BY <3>2, <3>3
  <2>5. s0.value.is = "function" => <<"function", s0.value.name, 0>> \in Meanings(s0, 0)
    BY DEF Meanings
  <2> QED BY <1>1, <1>7, <2>1, <2>2, <2>3, <2>4, <2>5 DEF SeenAs
<1>8. CASE s0.kind = 1
  <2>1. ~Undefined(s0)
    <3>1. s.flags = s0.flags
      BY <1>2, <1>3, <1>4, <1>8 DEF SymbolKept
    <3> QED BY <1>4, <3>1 DEF Visible, Undefined
  <2>2. s0.value # Nothing
    <3>1. s0.value = Segment(s0.value.name)
      BY <1>1, <1>2, <1>8, <2>1, DataSymbol
    <3>2. Segment(s0.value.name).is = "segment" /\ Nothing.is = "nothing"
      BY SegmentIs DEF Nothing
    <3> QED BY <3>1, <3>2
  <2>3. ~Tabling(r) /\ RefKept(r.ref, x)
    BY <1>2, <1>5, <1>8 DEF Tabling, RefKept
  <2>4. PICK addend : addend = 0
    OBVIOUS
  <2>5. Placing(r, addend) \in Meanings(s0, addend) /\ Internal(r)
    BY <1>1, <1>2, <1>5, <1>8, <2>2, <2>3, <2>4, DataMeant
  <2> QED BY <1>1, <2>4, <2>5 DEF Placing, SeenAs
<1> QED BY <1>3, <1>7, <1>8

\* A name begins in .dynstr behind the names before its own.
LEMMA NameBegins ==
    ASSUME IsSeq(dynsym), \A j \in DOMAIN dynsym : Len(dynsym[j].name) \in Nat, NEW k \in DOMAIN dynsym
    PROVE  NameOffset(k) \in Nat /\ IndexIn(NameBytes, k) = NameOffset(k)
<1>1. PICK n \in Nat : n = Len(dynsym) /\ DOMAIN dynsym = 1 .. n
  BY IsSeqLen
<1>2. PICK len : len = [j \in 1 .. n |-> Len(dynsym[j].name)]
  OBVIOUS
<1>3. len \in [1 .. n -> Nat] /\ \A j \in 1 .. n : len[j] = Len(dynsym[j].name)
  BY <1>1, <1>2
<1>4. PICK ss : ss = Runs(n, len)
  OBVIOUS
<1>5. PICK d : d = RunsAhead(len, k)
  OBVIOUS
<1>6. k \in 1 .. n
  BY <1>1
<1>7. NameBytes = FlattenSeq(ss)
  <2>1. [j \in DOMAIN dynsym |-> [c \in 1 .. Len(dynsym[j].name) + 1 |-> j]] = ss
    BY <1>1, <1>3, <1>4 DEF Runs
  <2> QED BY <2>1 DEF NameBytes
<1>8. NameOffset(k) = SumOf(d)
  <2>1. [j \in 1 .. k - 1 |-> Len(dynsym[j].name) + 1] = d
    <3>1. \A j \in 1 .. k - 1 : j \in 1 .. n
      BY <1>6
    <3> QED BY <1>3, <1>5, <3>1 DEF RunsAhead
  <2> QED BY <2>1 DEF NameOffset
<1>9. PICK v, o : v = FlattenSeq(ss) /\ o = SumOf(d)
  OBVIOUS
<1>10. /\ IsSeq(v) /\ o \in Nat
       /\ o + 1 \in 1 .. Len(v) /\ v[o + 1] = k
       /\ \A a \in 1 .. o : v[a] # k
  <2>1. PICK m : m = k
    OBVIOUS
  <2>2. m \in 1 .. n /\ d = RunsAhead(len, m)
    BY <1>5, <1>6, <2>1
  <2>3. /\ IsSeq(FlattenSeq(ss)) /\ SumOf(d) \in Nat
        /\ SumOf(d) + 1 \in 1 .. Len(FlattenSeq(ss)) /\ FlattenSeq(ss)[SumOf(d) + 1] = m
        /\ \A a \in 1 .. SumOf(d) : FlattenSeq(ss)[a] # m
    BY <1>3, <1>4, <2>2, FlattenRuns
  <2> QED BY <1>9, <2>1, <2>3
<1>11. IndexIn(v, k) = o
  BY <1>10, FirstIndex
<1> QED BY <1>7, <1>8, <1>9, <1>10, <1>11

\* Each entry has a word for its name and one, behind it, for its symbol.
LEMMA WordsAre ==
    ASSUME IsSeq(dynsym), NEW k \in DOMAIN dynsym
    PROVE  /\ NamePointer(k) \in ToSet(SymbolWords) /\ NamePointer(k).off = 12 * (k - 1)
           /\ SymbolPointer(k) \in ToSet(SymbolWords) /\ SymbolPointer(k).off = 12 * (k - 1) + 4
<1>1. k \in Nat \ {0}
  BY IsSeqLen
<1>2. 2 * k - 1 \in DOMAIN SymbolWords /\ SymbolWords[2 * k - 1] = NamePointer(k)
      /\ 2 * k \in DOMAIN SymbolWords /\ SymbolWords[2 * k] = SymbolPointer(k)
  BY SymbolWordsAre
<1> QED BY <1>1, <1>2, PointersAre DEF ToSet

\* From the invariants, the entries are what another module needs.
LEMMA DynsymIsComplete == FixesInv /\ WordsInv /\ SymtableInv => DynsymComplete
<1> SUFFICES ASSUME FixesInv, WordsInv, SymtableInv, phase = "written" PROVE DynsymComplete
  BY DEF DynsymComplete, Written
<1>1. /\ SymbolsInv /\ LinkInv /\ PartsInv /\ SplitInv /\ DataInv /\ SegmentsInv /\ FileInv /\ TablesInv
      /\ program \in Programs
  BY DEF FixesInv, DataInv
<1>2. phase \in Common /\ phase \notin Before /\ phase \in Parted
  BY DEF Common, Arrayed, Parted, Placed, Before
<1>3. /\ IsSeq(dynsym) /\ DOMAIN dynsym = DOMAIN Listed
      /\ \A k \in DOMAIN dynsym : Listed[k] \in VisibleSymbols /\ dynsym[k] = Entry(Listed[k])
      /\ Len(dynsym) = Cardinality(VisibleSymbols)
  BY <1>1, <1>2, EntriesAre DEF SymtableInv
<1>4. IsSeq(elements) /\ \A e \in DOMAIN elements : IsSeq(elements[e].vector)
  BY <1>1, <1>2, VectorsAre
<1>5. \A at, m : Len(Said(at, m)) = 1 /\ Said(at, m)[1].means = m
  BY SingletonIs DEF Said
<1>6. VisibleSymbols \subseteq DOMAIN symbols
  BY <1>1, SeqIsSeq DEF LinkInv, VisibleSymbols
<1>7. \A k \in DOMAIN dynsym : Len(dynsym[k].name) \in Nat
  BY <1>1, <1>3, <1>6 DEF LinkInv, SymbolsOK, SymbolOK, NameOK, Entry
<1>8. ASSUME NEW k \in DOMAIN dynsym
      PROVE  /\ Len(WordAt(".dynsym", 12 * (k - 1))) = 1
             /\ WordAt(".dynsym", 12 * (k - 1))[1].means = <<"memory", ".dynstr", IndexIn(NameBytes, k)>>
  <2>1. PICK r, off : r = NamePointer(k) /\ off = 12 * (k - 1)
    OBVIOUS
  <2>2. r \in ToSet(SymbolWords) /\ off = r.off
    BY <1>3, <2>1, WordsAre
  <2>3. WordAt(".dynsym", off) = Said(<<SectionIndex(".dynsym"), off>>, Means(r)) /\ ".dynstr" \in ToSet(sections)
    BY <1>1, <2>2, DynsymWord
  <2>4. PICK o \in Nat : o = NameOffset(k) /\ IndexIn(NameBytes, k) = o
    BY <1>3, <1>7, NameBegins
  <2>5. Means(r) = <<"memory", ".dynstr", o>>
    BY <1>1, <2>1, <2>3, <2>4, NameMeans
  <2> QED BY <1>5, <2>1, <2>3, <2>4, <2>5
<1>9. ASSUME NEW s \in VisibleSymbols
      PROVE  \E k \in DOMAIN dynsym :
                 /\ dynsym[k].name = program.symbols[s].name
                 /\ Len(WordAt(".dynsym", 12 * (k - 1) + 4)) = 1
                 /\ WordAt(".dynsym", 12 * (k - 1) + 4)[1].means \in SeenAs(program.symbols[s])
  <2>1. PICK k \in DOMAIN dynsym : Listed[k] = s
    BY <1>1, <1>3, ListedAre DEF SymtableInv, ToSet
  <2>2. dynsym[k] = Entry(s)
    BY <1>3, <2>1
  <2>3. dynsym[k].name = program.symbols[s].name
    BY <1>1, <1>6, <2>2 DEF Entry, SymbolsInv, SymbolKept
  <2>4. PICK r, off : r = SymbolPointer(k) /\ off = 12 * (k - 1) + 4
    OBVIOUS
  <2>5. r \in ToSet(SymbolWords) /\ off = r.off
    BY <1>3, <2>4, WordsAre
  <2>6. /\ WordAt(".dynsym", off) = Said(<<SectionIndex(".dynsym"), off>>, Means(r))
        /\ ~Lost(r)
    BY <1>1, <2>5, DynsymWord
  <2>7. Means(r) \in SeenAs(program.symbols[s])
    BY <1>1, <1>2, <1>4, <2>2, <2>4, <2>6, SymbolMeans
  <2>8. Len(WordAt(".dynsym", off)) = 1 /\ WordAt(".dynsym", off)[1].means \in SeenAs(program.symbols[s])
    BY <1>5, <2>6, <2>7
  <2> QED BY <2>3, <2>4, <2>8
<1>10. DynsymComplete <=>
         /\ \A s \in VisibleSymbols : \E k \in DOMAIN dynsym :
                 /\ dynsym[k].name = program.symbols[s].name
                 /\ Len(WordAt(".dynsym", 12 * (k - 1) + 4)) = 1
                 /\ WordAt(".dynsym", 12 * (k - 1) + 4)[1].means \in SeenAs(program.symbols[s])
         /\ Len(dynsym) = Cardinality(VisibleSymbols)
         /\ \A k \in DOMAIN dynsym :
                 /\ Len(WordAt(".dynsym", 12 * (k - 1))) = 1
                 /\ WordAt(".dynsym", 12 * (k - 1))[1].means = <<"memory", ".dynstr", IndexIn(NameBytes, k)>>
  BY DEF DynsymComplete, Written, VisibleSymbols, NameBytes, IndexIn
<1> QED BY <1>3, <1>8, <1>9, <1>10

\* Another module finds every visible symbol in .dynsym, under its name, with
\* what it means, and nothing else is listed there.
THEOREM DynsymCompleteCorrect == Spec => []DynsymComplete
<1>1. InitRelocs => FixesInv /\ WordsInv /\ SymtableInv
  BY FixesInit, WordsInit, SymtableInit
<1>2. FixesInv /\ WordsInv /\ SymtableInv /\ [Next]_vars => (FixesInv /\ WordsInv /\ SymtableInv)'
  BY FixesStep, WordsStep, SymtableStep DEF FixesInv
<1>3. FixesInv /\ WordsInv /\ SymtableInv => DynsymComplete
  BY DynsymIsComplete
<1> QED BY <1>1, <1>2, <1>3, PTL DEF Spec
=============================================================================
