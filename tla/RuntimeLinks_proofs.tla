-------------------------- MODULE RuntimeLinks_proofs --------------------------
(***************************************************************************)
(* The body calls what it called, in the order it called it, and the       *)
(* linker links every program, but for the four that are known: whatever   *)
(* else stops it, on the way to a file, is proved not to happen.           *)
(*                                                                         *)
(* The calls are those of the program, by name (CallsInv), because a       *)
(* function is in the vector or something found for it is (VectorInv), so  *)
(* that the walk over the opcodes knows what each names (ArgsInv), and the *)
(* runtime symbols stay what relocations refer to (RuntimeInv).            *)
(*                                                                         *)
(* What stops the linker: a function to be replaced is in the vector       *)
(* (VectorInv); the exports are said once but for those of the profile     *)
(* (ExportsInv); every relocation has an instruction, or is in a function  *)
(* that was dropped (InstsInv), and every word a section, or is in a       *)
(* segment that was dropped (DataInv); and what a relocation that the      *)
(* module answers names has a place in an element segment when its place   *)
(* is looked up, because it got one when the relocation was looked at      *)
(* (GivenInv), or when the linker added it (HeldInv), and no later step    *)
(* loses one.  Only the first function of an empty segment has none, and   *)
(* the segment of the methods is not empty (MethodsInv).                   *)
(***************************************************************************)
EXTENDS RuntimeRelocs_proofs

----------------------------------------------------------------------------
(* The vector of functions while the dylibs are looked at.                 *)

\* What is known of the vector of a program.
LEMMA ProgramVector ==
    ASSUME program \in Programs
    PROVE  /\ IsSeq(program.functions) /\ Distinct(program.functions)
           /\ \A f \in ToSet(program.functions) : f = Own(f.name) \/ f = Import(f.module, f.name)
           /\ Own(Ctor) \notin ToSet(program.functions)
           /\ \A v : Imported(v) => v \in ToSet(program.functions)
<1>1. IsSeq(program.functions) /\ Distinct(program.functions)
  BY VectorAssumption DEF IsSeq, Distinct
<1>2. \A v : Imported(v) => v \in ToSet(program.functions)
  BY VectorAssumption DEF Imported
<1> QED BY <1>1, <1>2, VectorAssumption, SectionsAssumption

LEMMA KeysPutApart ==
    ASSUME NEW map, IsSeq(map), KeysApart(map), NEW old, NEW new
    PROVE  KeysApart(Put(map, old, new))
<1>1. CASE old \in Keys(map)
  BY <1>1 DEF Put
<1>2. CASE old \notin Keys(map)
  <2> DEFINE e == <<old, new>>
             t == Append(map, e)
  <2>1. Put(map, old, new) = t /\ e[1] = old
    BY <1>2 DEF Put
  <2> HIDE DEF e
  <2>2. /\ IsSeq(t) /\ Len(t) = Len(map) + 1 /\ \A k \in 1 .. Len(map) : t[k] = map[k]
        /\ t[Len(map) + 1] = e
    BY AppendIsSeq
  <2>3. Len(map) \in Nat /\ DOMAIN map = 1 .. Len(map) /\ DOMAIN t = 1 .. Len(map) + 1
    BY <2>2, IsSeqLen
  <2> HIDE DEF t
  <2>4. \A k \in DOMAIN t : k = Len(map) + 1 \/ (k \in DOMAIN map /\ t[k] = map[k] /\ t[k][1] # old)
    BY <1>2, <2>2, <2>3 DEF Keys
  <2>5. t[Len(map) + 1][1] = old
    BY <2>1, <2>2
  <2>6. KeysApart(t)
    BY <2>4, <2>5 DEF KeysApart
  <2> QED BY <2>1, <2>6
<1> QED BY <1>1, <1>2

LEMMA VectorInit == InitRelocs => VectorInv
<1> SUFFICES ASSUME InitRelocs PROVE VectorInv
  OBVIOUS
<1>1. program \in Programs /\ functions = program.functions /\ phase = "resolve" /\ toImport = <<>> /\ toTable = <<>>
  BY DEF InitRelocs, Init
<1>2. KeysApart(<<>>)
  BY EmptyIsSeq DEF KeysApart
<1>3. IsSeq(functions) /\ Distinct(functions)
  BY <1>1, ProgramVector
<1> QED BY <1>1, <1>2, <1>3 DEF VectorInv, Linking

LEMMA VectorResolve ==
    ASSUME VectorInv, SymbolsInv, Resolve
    PROVE  VectorInv'
<1>1. phase = "resolve" /\ phase' = phase /\ UNCHANGED <<program, functions>>
  BY DEF Resolve
<1>2. /\ toImport' = toImport \/ \E old, new : toImport' = Put(toImport, old, new)
      /\ toTable' = toTable \/ \E old, new : toTable' = Put(toTable, old, new)
  BY DEF Resolve
<1>3. IsSeq(toImport) /\ IsSeq(toTable)
  BY DEF SymbolsInv, MapInv
<1>4. KeysApart(toImport') /\ KeysApart(toTable')
  BY <1>2, <1>3, KeysPutApart DEF VectorInv
<1> QED BY <1>1, <1>4 DEF VectorInv, Linking

\* Two answers for one name are the same.
LEMMA AnswersAgree ==
    ASSUME NEW map, NEW is, MapInv(map, is), NEW k \in DOMAIN map, NEW other, NEW is2, MapInv(other, is2), NEW p \in DOMAIN other,
           other[p][2] = map[k][1]
    PROVE  map[k][2] = other[p][2]
<1>1. map[k][2] = FindFunc(map[k][1].name)
  BY DEF MapInv
<1>2. other[p][2] = FindFunc(other[p][1].name) /\ other[p][2] # Nothing
  BY DEF MapInv
<1>3. other[p][2].name = other[p][1].name
  BY <1>2, FindFuncIs
<1> QED BY <1>1, <1>2, <1>3

LEMMA VectorImport ==
    ASSUME VectorInv, SymbolsInv, LinkInv, ReplaceImport
    PROVE  VectorInv'
<1>1. phase = "imports" /\ i <= Len(toImport) /\ UNCHANGED <<program, toImport, toTable>>
  BY DEF ReplaceImport
<1>2. IsSeq(toImport) /\ MapInv(toImport, "import") /\ program \in Programs
  BY DEF SymbolsInv, MapInv
<1>3. i \in DOMAIN toImport /\ i \in Nat
  BY <1>1, <1>2, IsSeqLen DEF LinkInv
<1>4. PICK old, new : old = toImport[i][1] /\ new = toImport[i][2]
  OBVIOUS
<1>5. old \in ToSet(program.functions) /\ new.is = "import"
  BY <1>2, <1>3, <1>4, ProgramVector DEF MapInv
<1>6. old \in ToSet(functions)
  <2>1. ASSUME NEW p \in DOMAIN toImport, p < i, toImport[p][1] = old PROVE FALSE
    <3>1. p = i
      BY <1>3, <1>4, <2>1 DEF VectorInv, KeysApart
    <3> QED BY <1>3, <2>1, <3>1
  <2> QED BY <1>1, <1>5, <2>1 DEF VectorInv
<1>7. IsSeq(functions) /\ Distinct(functions) /\ DOMAIN functions = 1 .. Len(functions)
  BY IsSeqLen DEF VectorInv
<1>8. functions' = Replaced(functions, old, new) /\ phase' = phase /\ i' = i + 1
  <2>1. Contains(functions, old)
    BY <1>6, <1>7 DEF Contains, ToSet
  <2> QED BY <1>1, <1>4, <2>1 DEF ReplaceImport, Replaced
<1>9. /\ IsSeq(functions') /\ Distinct(functions')
      /\ \A x \in ToSet(functions) : x # old => x \in ToSet(functions')
      /\ new \in ToSet(functions')
      /\ \A x \in ToSet(functions') : x = new \/ x \in ToSet(functions)
  <2>1. PICK fs, t : fs = functions /\ t = functions'
    OBVIOUS
  <2>2. t = Replaced(fs, old, new) /\ IsSeq(fs) /\ Distinct(fs) /\ old \in ToSet(fs)
    BY <1>6, <1>7, <1>8, <2>1
  <2>3. /\ IsSeq(t) /\ Distinct(t)
        /\ \A x \in ToSet(fs) : x # old => x \in ToSet(t)
        /\ new \in ToSet(t)
        /\ \A x \in ToSet(t) : x = new \/ x \in ToSet(fs)
    BY <2>2, ReplacedIs
  <2> QED BY <2>1, <2>3
<1>10. ASSUME NEW f \in ToSet(program.functions)
       PROVE  f \in ToSet(functions') \/ \E p \in DOMAIN toImport : p < i + 1 /\ toImport[p][1] = f
  <2>1. CASE f = old
    BY <1>3, <1>4, <2>1
  <2>2. CASE f # old
    <3>1. f \in ToSet(functions) \/ \E p \in DOMAIN toImport : p < i /\ toImport[p][1] = f
      BY <1>1 DEF VectorInv
    <3>2. \A p \in DOMAIN toImport : p < i => p < i + 1
      BY <1>2, <1>3, IsSeqLen
    <3> QED BY <1>9, <2>2, <3>1, <3>2
  <2> QED BY <2>1, <2>2
<1>11. ASSUME NEW p \in DOMAIN toImport, p < i + 1
       PROVE  toImport[p][2] \in ToSet(functions')
  <2>1. CASE p = i
    BY <1>4, <1>9, <2>1
  <2>2. CASE p # i
    <3>1. p < i
      BY <1>2, <1>3, <1>11, <2>2, IsSeqLen
    <3>2. toImport[p][2] \in ToSet(functions)
      BY <1>1, <3>1 DEF VectorInv
    <3>3. toImport[p][2] = old => new = old
      BY <1>2, <1>3, <1>4, AnswersAgree
    <3> QED BY <1>9, <3>2, <3>3
  <2> QED BY <2>1, <2>2
<1>12. ASSUME NEW f \in ToSet(functions')
       PROVE  f \in ToSet(program.functions) \/ f.is = "import"
  BY <1>1, <1>5, <1>9 DEF VectorInv, Tabled, Parted, Placed
<1>13. KeysApart(toImport) /\ KeysApart(toTable)
  BY DEF VectorInv
<1> QED BY <1>1, <1>8, <1>9, <1>10, <1>11, <1>12, <1>13 DEF VectorInv, Linking

\* A dylib answers for a name with an import or with dlsym, not with both.
LEMMA KeyRenamed ==
    ASSUME SymbolsInv, NEW p \in DOMAIN toTable, NEW f, f = toTable[p][1]
    PROVE  Renamed(f) = f
<1>1. f \notin Keys(toImport)
  <2> SUFFICES ASSUME NEW k \in DOMAIN toImport, toImport[k][1] = f PROVE FALSE
    BY DEF Keys
  <2>1. toImport[k][2] = FindFunc(f.name) /\ toImport[k][2].is = "import"
    BY DEF SymbolsInv, MapInv
  <2>2. toTable[p][2] = FindFunc(f.name) /\ toTable[p][2].is = "runtime"
    BY DEF SymbolsInv, MapInv
  <2> QED BY <2>1, <2>2
<1> QED BY <1>1 DEF Renamed, GetOr

LEMMA VectorRetarget ==
    ASSUME VectorInv, SymbolsInv, LinkInv, RetargetImports
    PROVE  VectorInv'
<1>1. /\ phase = "imports" /\ i > Len(toImport) /\ UNCHANGED <<program, functions, toImport, toTable>>
      /\ phase' = "tables" /\ i' = 1
  BY DEF RetargetImports, Goto
<1>2. IsSeq(toImport)
  BY DEF SymbolsInv, MapInv
<1>3. \A p \in DOMAIN toImport : p < i
  BY <1>1, <1>2, IsSeqLen DEF LinkInv
<1>4. ASSUME NEW f \in ToSet(program.functions) PROVE Renamed(f) \in ToSet(functions)
  <2>1. CASE f \in Keys(toImport)
    <3>1. PICK k \in DOMAIN toImport : toImport[k][1] = f /\ Get(toImport, f) = toImport[k][2]
      BY <2>1, GetPair
    <3> QED BY <1>1, <1>3, <2>1, <3>1 DEF Renamed, GetOr, VectorInv
  <2>2. CASE f \notin Keys(toImport)
    <3>1. f \in ToSet(functions)
      BY <1>1, <2>2 DEF VectorInv, Keys
    <3> QED BY <2>2, <3>1 DEF Renamed, GetOr
  <2> QED BY <2>1, <2>2
<1>5. \A f \in ToSet(program.functions) : Renamed(f)' = Renamed(f)
  BY <1>1 DEF Renamed, GetOr, Keys, Get, Range
<1>6. \A f \in ToSet(functions) : f \in ToSet(program.functions) \/ f.is = "import"
  BY <1>1 DEF VectorInv, Tabled, Parted, Placed
<1>7. KeysApart(toImport) /\ KeysApart(toTable) /\ IsSeq(functions) /\ Distinct(functions)
  BY DEF VectorInv
<1> QED BY <1>1, <1>4, <1>5, <1>6, <1>7 DEF VectorInv, Linking

LEMMA VectorTable ==
    ASSUME VectorInv, SymbolsInv, LinkInv, RemoveImport
    PROVE  VectorInv'
<1>1. phase = "tables" /\ i <= Len(toTable) /\ UNCHANGED <<program, toImport, toTable>>
  BY DEF RemoveImport
<1>2. IsSeq(toTable) /\ MapInv(toTable, "runtime") /\ program \in Programs
  BY DEF SymbolsInv, MapInv
<1>3. i \in DOMAIN toTable /\ i \in Nat
  BY <1>1, <1>2, IsSeqLen DEF LinkInv
<1>4. PICK old : old = toTable[i][1]
  OBVIOUS
<1>5. old \in ToSet(program.functions) /\ Renamed(old) = old
  BY <1>2, <1>3, <1>4, ProgramVector, KeyRenamed DEF MapInv
<1>6. old \in ToSet(functions)
  <2>1. ASSUME NEW p \in DOMAIN toTable, p < i, toTable[p][1] = old PROVE FALSE
    <3>1. p = i
      BY <1>3, <1>4, <2>1 DEF VectorInv, KeysApart
    <3> QED BY <1>3, <2>1, <3>1
  <2> QED BY <1>1, <1>5, <2>1 DEF VectorInv, Linking
<1>7. IsSeq(functions) /\ Distinct(functions) /\ DOMAIN functions = 1 .. Len(functions)
  BY IsSeqLen DEF VectorInv
<1>8. functions' = RemoveFirst(functions, old) /\ phase' = phase /\ i' = i + 1
  <2>1. Contains(functions, old)
    BY <1>6, <1>7 DEF Contains, ToSet
  <2> QED BY <1>1, <1>4, <2>1 DEF RemoveImport
<1>9. /\ IsSeq(functions') /\ Distinct(functions')
      /\ \A x \in ToSet(functions) : x # old => x \in ToSet(functions')
      /\ \A x \in ToSet(functions') : x \in ToSet(functions)
  <2>1. PICK fs, t : fs = functions /\ t = functions'
    OBVIOUS
  <2>2. t = RemoveFirst(fs, old) /\ IsSeq(fs) /\ Distinct(fs)
    BY <1>7, <1>8, <2>1
  <2>3. IsSeq(t) /\ Distinct(t) /\ ToSet(t) \subseteq ToSet(fs) /\ \A x \in ToSet(fs) : x # old => x \in ToSet(t)
    BY <2>2, RemoveFirstIs
  <2> QED BY <2>1, <2>3
<1>10. ASSUME NEW f \in ToSet(program.functions)
       PROVE  Renamed(f) \in ToSet(functions') \/ \E p \in DOMAIN toTable : toTable[p][1] = Renamed(f) /\ p < i + 1
  <2>1. CASE Renamed(f) = old
    BY <1>3, <1>4, <2>1
  <2>2. CASE Renamed(f) # old
    <3>1. Renamed(f) \in ToSet(functions) \/ \E p \in DOMAIN toTable : toTable[p][1] = Renamed(f) /\ p < i
      BY <1>1 DEF VectorInv, Linking
    <3>2. \A p \in DOMAIN toTable : p < i => p < i + 1
      BY <1>2, <1>3, IsSeqLen
    <3> QED BY <1>9, <2>2, <3>1, <3>2
  <2> QED BY <2>1, <2>2
<1>11. \A f \in ToSet(program.functions) : Renamed(f)' = Renamed(f)
  BY <1>1 DEF Renamed, GetOr, Keys, Get, Range
<1>12. \A f \in ToSet(functions') : f \in ToSet(program.functions) \/ f.is = "import"
  BY <1>1, <1>9 DEF VectorInv, Tabled, Parted, Placed
<1>13. KeysApart(toImport) /\ KeysApart(toTable)
  BY DEF VectorInv
<1> QED BY <1>1, <1>8, <1>9, <1>10, <1>11, <1>12, <1>13 DEF VectorInv, Linking

LEMMA RenamedStays == toImport' = toImport => \A f : Renamed(f)' = Renamed(f)
BY DEF Renamed, GetOr, Keys, Get, Range

\* The vector as it was, in a later phase.
LEMMA VectorKept ==
    ASSUME VectorInv, program' = program, functions' = functions, toImport' = toImport, toTable' = toTable,
           phase' # "SCENARIO NOT HANDLED",
           phase' \in Linking => phase' = phase /\ i' = i,
           phase \in Linking => phase' = phase,
           phase' = "tables" => phase = "tables" /\ i' = i,
           phase \in Tabled => phase' \in Tabled
    PROVE  VectorInv'
<1>1. \A f \in ToSet(program.functions) : Renamed(f)' = Renamed(f)
  BY RenamedStays
<1>2. /\ KeysApart(toImport) /\ KeysApart(toTable) /\ IsSeq(functions) /\ Distinct(functions)
      /\ \A f \in ToSet(functions) :
          f \in ToSet(program.functions) \/ f.is = "import" \/ (f = Own(Ctor) /\ phase \in Tabled)
  BY DEF VectorInv
<1>3. phase' = "resolve" => functions = program.functions
  BY DEF VectorInv, Linking
<1>4. phase' = "imports" =>
          /\ \A f \in ToSet(program.functions) :
                f \in ToSet(functions) \/ \E p \in DOMAIN toImport : p < i' /\ toImport[p][1] = f
          /\ \A p \in DOMAIN toImport : p < i' => toImport[p][2] \in ToSet(functions)
  BY DEF VectorInv, Linking
<1>5. phase' \notin Linking =>
          \A f \in ToSet(program.functions) :
             \/ Renamed(f) \in ToSet(functions)
             \/ \E p \in DOMAIN toTable : toTable[p][1] = Renamed(f) /\ (phase' = "tables" => p < i')
  BY DEF VectorInv
<1> QED BY <1>1, <1>2, <1>3, <1>4, <1>5, ZenonT(40) DEF VectorInv, Linking

LEMMA VectorCtor ==
    ASSUME VectorInv, SymbolsInv, CreateTableCtor
    PROVE  VectorInv'
<1>1. phase = "table" /\ phase' = "dynsym" /\ UNCHANGED <<program, toImport, toTable>>
  BY DEF CreateTableCtor, Goto
<1>2. functions' = functions \/ functions' = Append(functions, Own(Ctor))
  BY DEF CreateTableCtor
<1>3. phase \notin Tabled /\ phase' \in Tabled
  BY <1>1 DEF Tabled, Parted, Placed
<1>4. Own(Ctor) \notin ToSet(functions)
  <2>1. program \in Programs
    BY DEF SymbolsInv
  <2>2. Own(Ctor).is = "function"
    BY DEF Own
  <2> QED BY <1>3, <2>1, <2>2, ProgramVector DEF VectorInv
<1>5. CASE functions' = functions
  BY <1>1, <1>3, <1>5, VectorKept DEF Linking
<1>6. CASE functions' = Append(functions, Own(Ctor))
  <2>1. PICK fs, t : fs = functions /\ t = functions'
    OBVIOUS
  <2>2. IsSeq(fs) /\ Distinct(fs) /\ t = Append(fs, Own(Ctor))
    BY <1>6, <2>1 DEF VectorInv
  <2>3. ~Contains(fs, Own(Ctor))
    <3>1. DOMAIN fs = 1 .. Len(fs)
      BY <2>2, IsSeqLen
    <3> QED BY <1>4, <2>1, <3>1 DEF Contains, ToSet
  <2>4. IsSeq(t) /\ Distinct(t) /\ ToSet(t) = ToSet(fs) \cup {Own(Ctor)}
    BY <2>2, <2>3, AppendIsSeq, AppendDistinct, AppendToSet
  <2>5. \A f \in ToSet(program.functions) : Renamed(f)' = Renamed(f)
    BY <1>1 DEF Renamed, GetOr, Keys, Get, Range
  <2>6. /\ KeysApart(toImport) /\ KeysApart(toTable)
        /\ \A f \in ToSet(functions) :
            f \in ToSet(program.functions) \/ f.is = "import" \/ (f = Own(Ctor) /\ phase \in Tabled)
    BY DEF VectorInv
  <2>7. \A f \in ToSet(functions') :
            f \in ToSet(program.functions) \/ f.is = "import" \/ (f = Own(Ctor) /\ phase' \in Tabled)
    BY <1>3, <2>1, <2>4, <2>6
  <2>8. \A f \in ToSet(program.functions) :
             \/ Renamed(f) \in ToSet(functions')
             \/ \E p \in DOMAIN toTable : toTable[p][1] = Renamed(f)
    BY <1>1, <2>1, <2>4 DEF VectorInv, Linking
  <2> QED BY <1>1, <2>1, <2>4, <2>5, <2>6, <2>7, <2>8 DEF VectorInv, Linking
<1> QED BY <1>2, <1>5, <1>6

LEMMA VectorStep == VectorInv /\ SymbolsInv /\ LinkInv /\ [Next]_vars => VectorInv'
<1> SUFFICES ASSUME VectorInv, SymbolsInv, LinkInv, [Next]_vars PROVE VectorInv'
  OBVIOUS
<1>1. CASE Resolve \/ ReplaceImport \/ RetargetImports \/ RemoveImport \/ CreateTableCtor
  BY <1>1, VectorResolve, VectorImport, VectorRetarget, VectorTable, VectorCtor
<1>2. CASE ResolveDone
  <2>1. phase = "resolve" /\ phase' = "imports" /\ i' = 1 /\ UNCHANGED <<program, functions, toImport, toTable>>
    BY <1>2 DEF ResolveDone, Goto, linkVars
  <2>2. /\ KeysApart(toImport) /\ KeysApart(toTable) /\ IsSeq(functions) /\ Distinct(functions)
        /\ functions = program.functions
    BY <2>1 DEF VectorInv
  <2>3. IsSeq(toImport)
    BY DEF SymbolsInv, MapInv
  <2>4. \A p \in DOMAIN toImport : ~(p < 1)
    BY <2>3, IsSeqLen
  <2> QED BY <2>1, <2>2, <2>4 DEF VectorInv, Linking
<1>3. ASSUME RemoveImportDone \/ RetargetCall \/ RetargetCallDone \/ MergeStrings
      PROVE  /\ UNCHANGED <<program, functions, toImport, toTable>> /\ phase' # "SCENARIO NOT HANDLED"
             /\ phase \notin Linking /\ phase' \notin Linking /\ phase' # "tables" /\ phase \notin Tabled
  BY <1>3 DEF RemoveImportDone, RetargetCall, RetargetCallDone, MergeStrings, Goto, linkVars, Linking, Tabled, Parted, Placed
<1>4. ASSUME RelocNext, ~CreateTableCtor
      PROVE  /\ UNCHANGED <<program, functions, toImport, toTable>> /\ phase' # "SCENARIO NOT HANDLED"
             /\ phase \notin Linking /\ phase' \notin Linking /\ phase' # "tables"
             /\ phase \in Tabled => phase' \in Tabled
  BY <1>4 DEF RelocNext, CollectCode, CollectCodeDone, CollectData, CreateElements, PartitionMethods,
     Export, SetupCommonData, GenerateExports, CreateInitArray, SetupModuleData, LinkedElsewhere,
     WriteHeader, Validate, EncodeExternal, EncodeInternal, Failure, Goto, linkVars, Linking, Tabled, Parted, Placed
<1>5. ASSUME UNCHANGED vars PROVE UNCHANGED <<phase, i, program, functions, toImport, toTable>>
  BY <1>5 DEF vars, linkVars
<1>6. CASE UNCHANGED vars
  BY <1>5, <1>6, VectorKept DEF VectorInv
<1>7. CASE RemoveImportDone \/ RetargetCall \/ RetargetCallDone \/ MergeStrings
  BY <1>3, <1>7, VectorKept
<1>8. CASE RelocNext /\ ~CreateTableCtor
  BY <1>4, <1>8, VectorKept
<1>9. [Next]_vars => LinkNext \/ RelocNext \/ UNCHANGED vars
  BY DEF Next, Stopped
<1> QED BY <1>1, <1>2, <1>6, <1>7, <1>8, <1>9 DEF LinkNext

----------------------------------------------------------------------------
(* The calls of the body, by name.                                         *)

\* What is known of the body of a program.
LEMMA ProgramBody ==
    ASSUME program \in Programs
    PROVE  /\ IsSeq(program.body)
           /\ \A k \in DOMAIN program.body :
                 /\ DOMAIN program.body[k] = InstFields
                 /\ program.body[k].arg # Nothing => IsCall(program.body[k]) /\ program.body[k].arg \in ToSet(program.functions)
                 /\ program.body[k].op = "call_indirect" => FALSE
                 /\ IsCall(program.body[k]) => program.body[k].arg # Nothing
<1>1. IsSeq(program.body)
  BY RelocsAssumption DEF IsSeq
<1>2. ASSUME NEW k \in DOMAIN program.body
      PROVE  /\ DOMAIN program.body[k] = InstFields
             /\ program.body[k].arg # Nothing => IsCall(program.body[k]) /\ program.body[k].arg \in ToSet(program.functions)
             /\ program.body[k].op = "call_indirect" => FALSE
             /\ IsCall(program.body[k]) => program.body[k].arg # Nothing
  <2>1. DOMAIN program.body[k] = InstFields
    BY RelocsAssumption DEF InstFields
  <2>2. IF IsCall(program.body[k]) THEN program.body[k].arg \in ToSet(program.functions)
        ELSE program.body[k].arg = Nothing /\ program.body[k].op # "call_indirect"
    BY VectorAssumption
  <2>3. IsCall(program.body[k]) => program.body[k].op # "call_indirect"
    BY DEF IsCall
  <2>4. Nothing \notin ToSet(program.functions)
    <3>1. \A f \in ToSet(program.functions) : f = Own(f.name) \/ f = Import(f.module, f.name)
      BY ProgramVector
    <3> QED BY <3>1 DEF Own, Import, Nothing
  <2> QED BY <2>1, <2>2, <2>3, <2>4
<1> QED BY <1>1, <1>2

LEMMA ArgsInit == InitRelocs => ArgsInv
<1> SUFFICES ASSUME InitRelocs PROVE ArgsInv
  OBVIOUS
<1>1. program \in Programs /\ body = program.body /\ phase = "resolve"
  BY DEF InitRelocs, Init
<1> QED BY <1>1, ProgramBody DEF ArgsInv, Linking

LEMMA ArgsRetarget ==
    ASSUME ArgsInv, SymbolsInv, RetargetImports
    PROVE  ArgsInv'
<1>1. phase = "imports" /\ phase' = "tables" /\ UNCHANGED <<program, toImport>>
  BY DEF RetargetImports, Goto
<1>2. program \in Programs /\ body = program.body
  BY <1>1 DEF SymbolsInv, ArgsInv, Linking
<1>3. body' = [k \in DOMAIN body |-> IF IsCall(body[k]) THEN [body[k] EXCEPT !.arg = GetOr(toImport, @)] ELSE body[k]]
  BY DEF RetargetImports
<1>4. ASSUME NEW k \in DOMAIN body', body'[k].arg # Nothing
      PROVE  IsCall(body'[k]) /\ \E f \in ToSet(program.functions) : body'[k].arg = Renamed(f)
  <2>1. k \in DOMAIN program.body /\ body[k] = program.body[k] /\ DOMAIN body[k] = InstFields
    BY <1>2, <1>3, <1>4, ProgramBody
  <2>2. IsCall(body[k]) /\ body[k].arg \in ToSet(program.functions)
    <3>1. CASE IsCall(body[k])
      BY <1>2, <2>1, <3>1, ProgramBody
    <3>2. CASE ~IsCall(body[k])
      BY <1>2, <1>3, <1>4, <2>1, <3>2, ProgramBody
    <3> QED BY <3>1, <3>2
  <2>3. body'[k] = [body[k] EXCEPT !.arg = GetOr(toImport, @)]
    BY <1>2, <1>3, <2>1, <2>2
  <2>4. body'[k].arg = Renamed(body[k].arg) /\ body'[k].op = body[k].op
    BY <2>1, <2>3 DEF InstFields, Renamed
  <2> QED BY <2>2, <2>4 DEF IsCall
<1>5. \A f : Renamed(f)' = Renamed(f)
  BY <1>1, RenamedStays
<1>6. (\A k \in DOMAIN body : body[k].arg # Nothing => FromProgram(body[k].arg))'
  BY <1>1, <1>4, <1>5 DEF FromProgram
<1>7. \A k \in DOMAIN body' : body'[k].arg # Nothing => IsCall(body'[k])
  BY <1>4
<1> QED BY <1>1, <1>6, <1>7 DEF ArgsInv, Linking

LEMMA ArgsDone ==
    ASSUME ArgsInv, VectorInv, BodyInv, RemoveImportDone
    PROVE  ArgsInv'
<1>1. /\ phase = "tables" /\ phase' = (IF toTable = <<>> THEN "strings" ELSE "calls") /\ i' = 1
      /\ UNCHANGED <<program, body, functions, toImport, toTable>>
  BY DEF RemoveImportDone, Goto, linkVars
<1>2. \A k \in DOMAIN body : body[k].arg # Nothing => IsCall(body[k]) /\ FromProgram(body[k].arg)
  BY <1>1 DEF ArgsInv
<1>3. \A arg : FromProgram(arg)' <=> FromProgram(arg)
  BY <1>1, RenamedStays DEF FromProgram
<1>4. \A inst : HasIndex(inst)' <=> HasIndex(inst)
  BY <1>1 DEF HasIndex
<1>5. CASE toTable = <<>>
  <2>1. \A arg : FromProgram(arg) => arg \in ToSet(functions)
    BY <1>1, <1>5, EmptyIsSeq DEF VectorInv, FromProgram, Linking
  <2>2. \A k \in DOMAIN body : body[k].arg # Nothing => HasIndex(body[k])
    BY <1>2, <2>1 DEF HasIndex
  <2>3. phase' = "strings"
    BY <1>1, <1>5
  <2> QED BY <1>1, <1>2, <1>4, <2>2, <2>3 DEF ArgsInv, Linking
<1>6. CASE toTable # <<>>
  <2>1. phase' = "calls"
    BY <1>1, <1>6
  <2>2. \A k \in DOMAIN body : ~(k < 1)
    BY IsSeqLen DEF BodyInv
  <2>3. (\A k \in DOMAIN body : body[k].arg # Nothing => FromProgram(body[k].arg))'
    BY <1>1, <1>2, <1>3
  <2> QED BY <1>1, <1>2, <2>1, <2>2, <2>3 DEF ArgsInv, Linking
<1> QED BY <1>5, <1>6

LEMMA HasIndexStays ==
    ASSUME functions' = functions, toImport' = toImport, program' = program
    PROVE  \A inst : (HasIndex(inst)' <=> HasIndex(inst)) /\ (FromProgram(inst.arg)' <=> FromProgram(inst.arg))
<1>1. \A f : Renamed(f)' = Renamed(f)
  BY RenamedStays
<1> QED BY <1>1 DEF HasIndex, FromProgram

LEMMA ArgsCall ==
    ASSUME ArgsInv, VectorInv, SymbolsInv, LinkInv, BodyInv, RetargetCall
    PROVE  ArgsInv'
<1>1. phase = "calls" /\ phase' = "calls" /\ functions' = functions /\ toImport' = toImport /\ program' = program
  BY DEF RetargetCall
<1>2. IsSeq(body) /\ BodyOK(body, codeRelocs) /\ DOMAIN body = 1 .. Len(body) /\ Len(body) \in Nat
  BY <1>1, IsSeqLen DEF BodyInv, Before
<1>3. i \in Nat /\ i \in DOMAIN body
  BY <1>2 DEF LinkInv, RetargetCall
<1>4. PICK is, new, n : is = body /\ new = body' /\ n = i
  OBVIOUS
<1>5. \A k \in DOMAIN is : is[k].arg # Nothing => IsCall(is[k]) /\ IF k < n THEN HasIndex(is[k]) ELSE FromProgram(is[k].arg)
  BY <1>1, <1>4 DEF ArgsInv
<1>6. SUFFICES \A k \in DOMAIN new : new[k].arg # Nothing => IsCall(new[k]) /\ IF k < i' THEN HasIndex(new[k]) ELSE FromProgram(new[k].arg)
  <2>1. (\A k \in DOMAIN body : body[k].arg # Nothing => IF k < i THEN HasIndex(body[k]) ELSE FromProgram(body[k].arg))'
    BY <1>1, <1>4, <1>6, HasIndexStays
  <2>2. (\A k \in DOMAIN body : body[k].arg # Nothing => IsCall(body[k]))'
    BY <1>4, <1>6
  <2> QED BY <1>1, <2>1, <2>2 DEF ArgsInv, Linking
<1>7. CASE IsCall(is[n]) /\ is[n].arg \in Keys(toTable) /\ is[n].op = "call"
  <2>1. PICK x, y : x = Inst("i32.const", Nothing, is[n].id) /\ y = Inst("call_indirect", Nothing, 0)
    OBVIOUS
  <2>2. new = Called(is, n, x, y) /\ i' = n + 2
    BY <1>4, <1>7, <2>1 DEF RetargetCall, Called
  <2>3. IsSeq(is) /\ n \in DOMAIN is
    BY <1>2, <1>3, <1>4
  <2>4. /\ IsSeq(new) /\ Len(new) = Len(is) + 1
        /\ \A k \in DOMAIN new : new[k] = IF k < n THEN is[k] ELSE IF k = n THEN x ELSE IF k = n + 1 THEN y ELSE is[k - 1]
    BY <2>2, <2>3, CalledIs
  <2>5. x.arg = Nothing /\ y.arg = Nothing
    BY <2>1 DEF Inst
  <2>6. DOMAIN new = 1 .. Len(is) + 1 /\ DOMAIN is = 1 .. Len(is) /\ Len(is) \in Nat /\ n \in Nat
    BY <1>2, <1>3, <1>4, <2>4, IsSeqLen
  <2>7. ASSUME NEW k \in DOMAIN new, new[k].arg # Nothing
        PROVE  IsCall(new[k]) /\ IF k < i' THEN HasIndex(new[k]) ELSE FromProgram(new[k].arg)
    <3>1. CASE k < n
      <4>1. k \in DOMAIN is /\ new[k] = is[k] /\ k < i'
        BY <2>2, <2>3, <2>4, <2>6, <3>1
      <4> QED BY <1>5, <2>7, <3>1, <4>1
    <3>2. CASE k > n + 1
      <4>1. k - 1 \in DOMAIN is /\ new[k] = is[k - 1] /\ ~(k < i') /\ ~(k - 1 < n)
        BY <2>2, <2>4, <2>6, <3>2
      <4> QED BY <1>5, <2>7, <4>1
    <3>3. k = n \/ k = n + 1 => FALSE
      BY <2>4, <2>5, <2>6, <2>7
    <3> QED BY <2>6, <3>1, <3>2, <3>3
  <2> QED BY <2>7
<1>8. ASSUME new = is \/ \E arg : new = [is EXCEPT ![n].arg = arg] /\ is[n].op = "ref.func" /\ arg.is = "runtime",
             i' = n + 1,
             new = is => (is[n].arg # Nothing => HasIndex(is[n]))
      PROVE  \A k \in DOMAIN new : new[k].arg # Nothing => IsCall(new[k]) /\ IF k < i' THEN HasIndex(new[k]) ELSE FromProgram(new[k].arg)
  <2> SUFFICES ASSUME NEW k \in DOMAIN new, new[k].arg # Nothing
               PROVE  IsCall(new[k]) /\ IF k < i' THEN HasIndex(new[k]) ELSE FromProgram(new[k].arg)
    OBVIOUS
  <2>1. k \in DOMAIN is /\ k \in Int /\ n \in Int /\ n \in DOMAIN is
    BY <1>2, <1>3, <1>4, <1>8
  <2>2. CASE k # n
    <3>1. new[k] = is[k] /\ (k < i' <=> k < n)
      BY <1>8, <2>1, <2>2
    <3> QED BY <1>5, <2>1, <3>1
  <2>3. CASE k = n /\ new = is
    <3>1. k < i'
      BY <1>8, <2>1, <2>3
    <3> QED BY <1>5, <1>8, <2>1, <2>3, <3>1
  <2>4. CASE k = n /\ new # is
    <3>1. PICK arg : new = [is EXCEPT ![n].arg = arg] /\ is[n].op = "ref.func" /\ arg.is = "runtime"
      BY <1>8, <2>4
    <3>2. DOMAIN is[n] = InstFields
      BY <1>2, <1>4, <2>1 DEF BodyOK
    <3>3. new[k] = [is[n] EXCEPT !.arg = arg]
      BY <2>1, <2>4, <3>1
    <3>4. new[k].arg = arg /\ new[k].op = is[n].op
      BY <3>2, <3>3 DEF InstFields
    <3>5. k < i'
      BY <1>8, <2>1, <2>4
    <3> QED BY <3>1, <3>4, <3>5 DEF IsCall, HasIndex
  <2> QED BY <2>2, <2>3, <2>4
<1>9. CASE IsCall(is[n]) /\ is[n].arg \in Keys(toTable) /\ is[n].op # "call"
  <2>1. is[n].op = "ref.func"
    BY <1>9 DEF IsCall
  <2>2. new = [is EXCEPT ![n].arg = Get(toTable, is[n].arg)] /\ i' = n + 1
    BY <1>4, <1>9, <2>1 DEF RetargetCall
  <2>3. Get(toTable, is[n].arg).is = "runtime"
    BY <1>9, GetPair DEF SymbolsInv, MapInv
  <2>4. new # is \/ HasIndex(is[n])
    <3>1. n \in DOMAIN is /\ DOMAIN is[n] = InstFields
      BY <1>2, <1>3, <1>4 DEF BodyOK
    <3>2. new[n] = [is[n] EXCEPT !.arg = Get(toTable, is[n].arg)]
      BY <2>2, <3>1
    <3>3. new[n].arg = Get(toTable, is[n].arg)
      BY <3>1, <3>2 DEF InstFields
    <3> QED BY <2>1, <2>3, <3>3 DEF HasIndex
  <2> QED BY <1>8, <2>1, <2>2, <2>3, <2>4
<1>10. CASE ~(IsCall(is[n]) /\ is[n].arg \in Keys(toTable))
  <2>1. new = is /\ i' = n + 1
    BY <1>4, <1>10 DEF RetargetCall
  <2>2. ASSUME is[n].arg # Nothing PROVE HasIndex(is[n])
    <3>1. IsCall(is[n]) /\ FromProgram(is[n].arg)
      BY <1>3, <1>4, <1>5, <2>2
    <3>2. PICK f \in ToSet(program.functions) : is[n].arg = Renamed(f)
      BY <3>1 DEF FromProgram
    <3>3. Renamed(f) \in ToSet(functions) \/ \E p \in DOMAIN toTable : toTable[p][1] = Renamed(f)
      BY <1>1 DEF VectorInv, Linking
    <3>4. is[n].arg \notin Keys(toTable)
      BY <1>10, <3>1
    <3> QED BY <3>2, <3>3, <3>4 DEF HasIndex, Keys
  <2> QED BY <1>8, <2>1, <2>2
<1> QED BY <1>7, <1>9, <1>10

LEMMA ArgsKept ==
    ASSUME ArgsInv, body' = body, program' = program, toImport' = toImport,
           ToSet(functions) \subseteq ToSet(functions') \/ phase \in Linking \cup {"tables"},
           \/ phase \in Linking /\ phase' \in Linking
           \/ phase = "tables" /\ phase' = "tables"
           \/ phase \notin Linking \cup {"tables", "calls"} /\ phase' \notin Linking \cup {"tables", "calls"}
    PROVE  ArgsInv'
<1>1. (\A k \in DOMAIN body : body[k].arg # Nothing => IsCall(body[k]))'
  BY DEF ArgsInv
<1>2. CASE phase \in Linking /\ phase' \in Linking
  BY <1>1, <1>2 DEF ArgsInv, Linking
<1>3. CASE phase = "tables" /\ phase' = "tables"
  <2>1. \A k \in DOMAIN body : body[k].arg # Nothing => FromProgram(body[k].arg)
    BY <1>3 DEF ArgsInv
  <2>2. \A arg : FromProgram(arg)' <=> FromProgram(arg)
    BY RenamedStays DEF FromProgram
  <2>3. (\A k \in DOMAIN body : body[k].arg # Nothing => FromProgram(body[k].arg))'
    BY <2>1, <2>2
  <2> QED BY <1>1, <1>3, <2>3 DEF ArgsInv, Linking
<1>4. CASE phase \notin Linking \cup {"tables", "calls"} /\ phase' \notin Linking \cup {"tables", "calls"}
  <2>1. \A k \in DOMAIN body : body[k].arg # Nothing => HasIndex(body[k])
    BY <1>4 DEF ArgsInv
  <2>2. \A inst : HasIndex(inst) => HasIndex(inst)'
    BY <1>4 DEF HasIndex
  <2>3. (\A k \in DOMAIN body : body[k].arg # Nothing => HasIndex(body[k]))'
    BY <2>1, <2>2
  <2> QED BY <1>1, <1>4, <2>3 DEF ArgsInv
<1> QED BY <1>2, <1>3, <1>4

LEMMA ArgsStep == ArgsInv /\ VectorInv /\ SymbolsInv /\ LinkInv /\ BodyInv /\ [Next]_vars => ArgsInv'
<1> SUFFICES ASSUME ArgsInv, VectorInv, SymbolsInv, LinkInv, BodyInv, [Next]_vars PROVE ArgsInv'
  OBVIOUS
<1> DEFINE Elsewhere == Linking \cup {"tables", "calls"}
<1>1. CASE RetargetImports \/ RemoveImportDone \/ RetargetCall
  BY <1>1, ArgsRetarget, ArgsDone, ArgsCall
<1>2. CASE Resolve \/ ResolveDone \/ ReplaceImport \/ RemoveImport
  <2>1. CASE Resolve
    <3>1. phase = "resolve" /\ phase' = "resolve"
      BY <2>1 DEF Resolve
    <3>2. body' = body /\ program' = program
      BY <2>1 DEF Resolve
    <3>3. (\A k \in DOMAIN body : body[k].arg # Nothing => IsCall(body[k]))'
      BY <3>2 DEF ArgsInv
    <3> QED BY <3>1, <3>2, <3>3 DEF ArgsInv, Linking
  <2>2. CASE ResolveDone
    <3>1. phase = "resolve" /\ phase' = "imports" /\ body' = body /\ program' = program /\ toImport' = toImport
      BY <2>2 DEF ResolveDone, Goto, linkVars
    <3> QED BY <3>1, ArgsKept DEF Linking
  <2>3. CASE ReplaceImport
    <3>1. phase = "imports" /\ body' = body /\ program' = program /\ toImport' = toImport
      BY <2>3 DEF ReplaceImport
    <3>2. phase' = "imports"
      <4>1. phase' \in {"imports", "SCENARIO NOT HANDLED"}
        BY <2>3, <3>1 DEF ReplaceImport
      <4>2. VectorInv'
        BY VectorStep
      <4> QED BY <4>1, <4>2 DEF VectorInv
    <3> QED BY <3>1, <3>2, ArgsKept DEF Linking
  <2>4. CASE RemoveImport
    <3>1. phase = "tables" /\ body' = body /\ program' = program /\ toImport' = toImport
      BY <2>4 DEF RemoveImport
    <3>2. phase' = "tables"
      <4>1. phase' \in {"tables", "SCENARIO NOT HANDLED"}
        BY <2>4, <3>1 DEF RemoveImport
      <4>2. VectorInv'
        BY VectorStep
      <4> QED BY <4>1, <4>2 DEF VectorInv
    <3> QED BY <3>1, <3>2, ArgsKept DEF Linking
  <2> QED BY <1>2, <2>1, <2>2, <2>3, <2>4
<1>3. CASE RetargetCallDone
  <2>1. /\ phase = "calls" /\ phase' = "strings" /\ i > Len(body)
        /\ body' = body /\ program' = program /\ toImport' = toImport /\ functions' = functions
    BY <1>3 DEF RetargetCallDone, Goto
  <2>2. \A k \in DOMAIN body : k < i
    BY <2>1, IsSeqLen DEF BodyInv, LinkInv
  <2>3. (\A k \in DOMAIN body : body[k].arg # Nothing => IsCall(body[k]) /\ HasIndex(body[k]))'
    BY <2>1, <2>2, HasIndexStays DEF ArgsInv
  <2> QED BY <2>1, <2>3 DEF ArgsInv, Linking
<1>4. ASSUME MergeStrings PROVE /\ body' = body /\ program' = program /\ toImport' = toImport /\ functions' = functions
                                /\ phase \notin Elsewhere /\ phase' \notin Elsewhere
  BY <1>4 DEF MergeStrings, Goto, Linking
<1>5. ASSUME RelocNext PROVE /\ body' = body /\ program' = program /\ toImport' = toImport
                             /\ phase \notin Elsewhere /\ phase' \notin Elsewhere
  BY <1>5 DEF RelocNext, CollectCode, CollectCodeDone, CollectData, CreateElements, PartitionMethods,
     Export, SetupCommonData, GenerateExports, CreateInitArray, SetupModuleData, LinkedElsewhere, CreateTableCtor,
     WriteHeader, Validate, EncodeExternal, EncodeInternal, Failure, Goto, linkVars, Linking
<1>6. ASSUME RelocNext PROVE functions' = functions \/ functions' = Append(functions, Own(Ctor))
  BY <1>6 DEF RelocNext, CollectCode, CollectCodeDone, CollectData, CreateElements, PartitionMethods,
     Export, SetupCommonData, GenerateExports, CreateInitArray, SetupModuleData, LinkedElsewhere, CreateTableCtor,
     WriteHeader, Validate, EncodeExternal, EncodeInternal, linkVars
<1>7. CASE MergeStrings
  BY <1>4, <1>7, ArgsKept
<1>8. CASE RelocNext
  <2>1. ToSet(functions) \subseteq ToSet(functions')
    <3>1. PICK fs, t : fs = functions /\ t = functions'
      OBVIOUS
    <3>2. IsSeq(fs) /\ (t = fs \/ t = Append(fs, Own(Ctor)))
      BY <1>6, <1>8, <3>1 DEF VectorInv
    <3>3. ToSet(fs) \subseteq ToSet(t)
      <4>1. CASE t = fs
        BY <4>1
      <4>2. ToSet(Append(fs, Own(Ctor))) = ToSet(fs) \cup {Own(Ctor)}
        BY <3>2, AppendToSet
      <4>3. CASE t = Append(fs, Own(Ctor))
        BY <4>2, <4>3
      <4> QED BY <3>2, <4>1, <4>3
    <3> QED BY <3>1, <3>3
  <2> QED BY <1>5, <1>8, <2>1, ArgsKept
<1>9. CASE UNCHANGED vars
  <2>1. body' = body /\ program' = program /\ toImport' = toImport /\ functions' = functions /\ phase' = phase /\ i' = i
    BY <1>9 DEF vars, linkVars
  <2>2. phase # "calls" => ArgsInv'
    BY <2>1, ArgsKept DEF Linking
  <2>3. phase = "calls" => (\A k \in DOMAIN body : body[k].arg # Nothing => IsCall(body[k]) /\ IF k < i THEN HasIndex(body[k]) ELSE FromProgram(body[k].arg))'
    BY <2>1, HasIndexStays DEF ArgsInv
  <2> QED BY <2>1, <2>2, <2>3 DEF ArgsInv, Linking
<1>10. [Next]_vars => LinkNext \/ RelocNext \/ UNCHANGED vars
  BY DEF Next, Stopped
<1> QED BY <1>1, <1>2, <1>3, <1>7, <1>8, <1>9, <1>10 DEF LinkNext

LEMMA CallsInit == InitRelocs => CallsInv
<1> SUFFICES ASSUME InitRelocs PROVE CallsInv
  OBVIOUS
<1>1. program \in Programs /\ body = program.body
  BY DEF InitRelocs, Init
<1>2. PICK w, is : w = ProgramNames /\ is = program.body
  OBVIOUS
<1>3. IsSeq(is) /\ \A k \in DOMAIN is : is[k].op # "call_indirect"
  BY <1>1, <1>2, ProgramBody
<1>4. DOMAIN w = DOMAIN is /\ w = [k \in DOMAIN is |-> w[k]]
      /\ \A k \in DOMAIN is : w[k] = IF is[k].arg = Nothing THEN <<>> ELSE <<is[k].arg.name>>
  BY <1>2 DEF ProgramNames
<1>5. IsSeq(w)
  <2>1. DOMAIN is = 1 .. Len(is) /\ Len(is) \in Nat
    BY <1>3, IsSeqLen
  <2> QED BY <1>4, <2>1, FunctionIsSeq
<1>6. CallsAre(body, codeRelocs, w)
  BY <1>1, <1>2, <1>3, <1>4, <1>5 DEF CallsAre, NamesAt
<1> QED BY <1>2, <1>6 DEF CallsInv

LEMMA AsksMore ==
    ASSUME NEW relocs, NEW more, Asking(relocs, more), NEW id, NEW name, AsksByName(relocs, id, name)
    PROVE  AsksByName(more, id, name)
BY DEF Asking, AsksByName

LEMMA CallsMore ==
    ASSUME NEW is, NEW relocs, NEW w, CallsAre(is, relocs, w), NEW more, Asking(relocs, more)
    PROVE  CallsAre(is, more, w)
<1> SUFFICES ASSUME NEW k \in DOMAIN is PROVE NamesAt(is, more, k, w[k])
  BY DEF CallsAre
<1>1. NamesAt(is, relocs, k, w[k])
  BY DEF CallsAre
<1>2. Through(is, relocs, k, w[k]) => Through(is, more, k, w[k])
  BY AsksMore DEF Through
<1> QED BY <1>1, <1>2 DEF NamesAt

\* Instructions that are renamed call what they called.
LEMMA CallsArgued ==
    ASSUME NEW is, NEW relocs, NEW w, CallsAre(is, relocs, w), NEW new, DOMAIN new = DOMAIN is,
           \A k \in DOMAIN is : /\ new[k].op = is[k].op /\ new[k].id = is[k].id
                                /\ new[k].arg = Nothing <=> is[k].arg = Nothing
                                /\ new[k].arg # Nothing => new[k].arg.name = is[k].arg.name
    PROVE  CallsAre(new, relocs, w)
<1> SUFFICES ASSUME NEW k \in DOMAIN is PROVE NamesAt(new, relocs, k, w[k])
  BY DEF CallsAre
<1>1. NamesAt(is, relocs, k, w[k])
  BY DEF CallsAre
<1>2. ASSUME Through(is, relocs, k, w[k]) PROVE Through(new, relocs, k, w[k])
  <2>1. k - 1 \in DOMAIN is /\ ~IsCall(is[k - 1]) /\ is[k - 1].id # 0
    BY <1>2 DEF Through
  <2>2. \A j \in DOMAIN is : is[j].id = is[k - 1].id => j = k - 1
    BY <1>2 DEF Through
  <2>3. \E name : w[k] = <<name>> /\ AsksByName(relocs, is[k - 1].id, name)
    BY <1>2 DEF Through
  <2>4. new[k - 1].op = is[k - 1].op /\ new[k - 1].id = is[k - 1].id
    BY <2>1
  <2>5. ~IsCall(new[k - 1])
    BY <2>1, <2>4 DEF IsCall
  <2> QED BY <2>1, <2>2, <2>3, <2>4, <2>5 DEF Through
<1>3. /\ new[k].op = is[k].op
      /\ new[k].arg = Nothing <=> is[k].arg = Nothing
      /\ new[k].arg # Nothing => new[k].arg.name = is[k].arg.name
  OBVIOUS
<1> QED BY <1>1, <1>2, <1>3 DEF NamesAt

\* A call that goes through the table: its name is asked for by the constant.
LEMMA CallsGrown ==
    ASSUME NEW is, NEW relocs, BodyOK(is, relocs), NEW w, CallsAre(is, relocs, w),
           NEW n \in DOMAIN is, IsCall(is[n]), is[n].arg # Nothing,
           NEW x, ~IsCall(x), x.op # "call_indirect", x.arg = Nothing, x.id = is[n].id,
           NEW y, y.op = "call_indirect", y.arg = Nothing, y.id = 0,
           NEW more, Asking(relocs, more), AsksByName(more, is[n].id, is[n].arg.name)
    PROVE  \E v : CallsAre(Called(is, n, x, y), more, v) /\ FlattenSeq(v) = FlattenSeq(w)
<1>1. /\ IsSeq(is) /\ Len(is) \in Nat /\ DOMAIN is = 1 .. Len(is) /\ n \in Nat
      /\ IsSeq(w) /\ DOMAIN w = 1 .. Len(is) /\ Len(w) = Len(is)
  <2>1. IsSeq(is) /\ IsSeq(w) /\ DOMAIN w = DOMAIN is
    BY DEF CallsAre, BodyOK
  <2>2. DOMAIN is = 1 .. Len(is) /\ Len(is) \in Nat /\ DOMAIN w = 1 .. Len(w) /\ Len(w) \in Nat
    BY <2>1, IsSeqLen
  <2>3. Len(w) = Len(is)
    BY <2>1, <2>2
  <2> QED BY <2>1, <2>2, <2>3
<1>2. CallsAre(is, more, w)
  BY CallsMore
<1>3. PICK new, v : new = Called(is, n, x, y) /\ v = Called(w, n, <<>>, w[n])
  OBVIOUS
<1>4. /\ IsSeq(new) /\ Len(new) = Len(is) + 1 /\ DOMAIN new = 1 .. Len(is) + 1
      /\ \A k \in DOMAIN new : new[k] = IF k < n THEN is[k] ELSE IF k = n THEN x ELSE IF k = n + 1 THEN y ELSE is[k - 1]
  <2>1. IsSeq(is)
    BY <1>1
  <2> QED BY <1>3, <2>1, CalledAs
<1>5. /\ IsSeq(v) /\ Len(v) = Len(is) + 1 /\ DOMAIN v = 1 .. Len(is) + 1
      /\ \A k \in DOMAIN v : v[k] = IF k < n THEN w[k] ELSE IF k = n THEN <<>> ELSE IF k = n + 1 THEN w[n] ELSE w[k - 1]
  <2>1. IsSeq(w) /\ n \in DOMAIN w /\ Len(w) = Len(is)
    BY <1>1
  <2>2. PICK e, f : e = <<>> /\ f = w[n]
    OBVIOUS
  <2>3. v = Called(w, n, e, f)
    BY <1>3, <2>2
  <2>4. /\ IsSeq(v) /\ Len(v) = Len(w) + 1 /\ DOMAIN v = 1 .. Len(w) + 1
        /\ \A k \in DOMAIN v : v[k] = IF k < n THEN w[k] ELSE IF k = n THEN e ELSE IF k = n + 1 THEN f ELSE w[k - 1]
    BY <2>1, <2>3, CalledAs
  <2> QED BY <2>1, <2>2, <2>4
<1>6. FlattenSeq(v) = FlattenSeq(w)
  <2>1. \A k \in DOMAIN w : IsSeq(w[k])
    <3>1. \A e : IsSeq(<<e>>)
      BY SingletonIs
    <3>2. IsSeq(<<>>)
      BY EmptyIsSeq
    <3>3. \A k \in DOMAIN is : NamesAt(is, relocs, k, w[k])
      BY DEF CallsAre
    <3>4. \A k \in DOMAIN is : w[k] = <<>> \/ \E e : w[k] = <<e>>
      BY <3>3 DEF NamesAt, Through
    <3> QED BY <1>1, <3>1, <3>2, <3>4
  <2>2. \A k \in DOMAIN v : v[k] = IF k < n THEN w[k] ELSE IF k = n THEN <<>> ELSE w[k - 1]
    BY <1>1, <1>5
  <2>3. n \in DOMAIN w /\ Len(v) = Len(w) + 1
    BY <1>1, <1>5
  <2>4. IsSeq(w) /\ IsSeq(v)
    BY <1>1, <1>5
  <2> QED BY <2>1, <2>2, <2>3, <2>4, FlattenInsert
<1>7. is[n].id # 0 /\ \A j \in DOMAIN is : is[j].id = is[n].id => j = n
  BY DEF BodyOK
<1>8. w[n] = <<is[n].arg.name>>
  <2>1. is[n].op # "call_indirect"
    BY DEF IsCall
  <2> QED BY <2>1 DEF CallsAre, NamesAt
<1>9. ASSUME NEW k \in DOMAIN new PROVE NamesAt(new, more, k, v[k])
  <2>1. CASE k = n
    <3>1. new[k] = x /\ v[k] = <<>>
      BY <1>1, <1>4, <1>5, <2>1
    <3> QED BY <3>1 DEF NamesAt
  <2>2. CASE k = n + 1
    <3>1. new[k] = y /\ v[k] = <<is[n].arg.name>>
      BY <1>1, <1>4, <1>5, <1>8, <2>2
    <3>2. k - 1 \in DOMAIN new /\ new[k - 1] = x
      BY <1>1, <1>4, <2>2
    <3>3. ASSUME NEW j \in DOMAIN new, new[j].id = is[n].id PROVE j = k - 1
      <4>1. j < n => j \in DOMAIN is /\ new[j] = is[j]
        BY <1>1, <1>4, <3>3
      <4>2. j > n + 1 => j - 1 \in DOMAIN is /\ new[j] = is[j - 1] /\ j - 1 # n
        BY <1>1, <1>4, <3>3
      <4>3. j = n + 1 => new[j] = y
        BY <1>1, <1>4
      <4>4. j \in Int
        BY <1>4
      <4> QED BY <1>1, <1>7, <2>2, <3>3, <4>1, <4>2, <4>3, <4>4
    <3> QED BY <1>7, <3>1, <3>2, <3>3 DEF NamesAt, Through
  <2>3. ASSUME NEW o \in DOMAIN is, o # n, new[k] = is[o], v[k] = w[o], k = IF o < n THEN o ELSE o + 1
        PROVE  NamesAt(new, more, k, v[k])
    <3>1. NamesAt(is, more, o, w[o])
      BY <1>2 DEF CallsAre
    <3>2. ASSUME Through(is, more, o, w[o]) PROVE Through(new, more, k, v[k])
      <4>1. o - 1 \in DOMAIN is /\ ~IsCall(is[o - 1]) /\ is[o - 1].id # 0
        BY <3>2 DEF Through
      <4>2. \A j \in DOMAIN is : is[j].id = is[o - 1].id => j = o - 1
        BY <3>2 DEF Through
      <4>3. \E name : w[o] = <<name>> /\ AsksByName(more, is[o - 1].id, name)
        BY <3>2 DEF Through
      <4>4. o - 1 # n
        BY <4>1
      <4>5. k - 1 \in DOMAIN new /\ new[k - 1] = is[o - 1]
        BY <1>1, <1>4, <2>3, <4>1, <4>4
      <4>6. ASSUME NEW j \in DOMAIN new, new[j].id = is[o - 1].id PROVE j = k - 1
        <5>1. j \in Int /\ o \in Int
          BY <1>1, <1>4
        <5>2. CASE j < n
          <6>1. j \in DOMAIN is /\ new[j] = is[j]
            BY <1>1, <1>4, <5>1, <5>2
          <6>2. j = o - 1
            BY <4>2, <4>6, <6>1
          <6> QED BY <1>1, <2>3, <5>1, <5>2, <6>2
        <5>3. CASE j = n
          <6>1. new[j] = x
            BY <1>1, <1>4, <5>3
          <6> QED BY <4>2, <4>4, <4>6, <6>1
        <5>4. CASE j = n + 1
          <6>1. new[j] = y
            BY <1>1, <1>4, <5>4
          <6> QED BY <4>1, <4>6, <6>1
        <5>5. CASE j > n + 1
          <6>1. j - 1 \in DOMAIN is /\ new[j] = is[j - 1]
            BY <1>1, <1>4, <5>1, <5>5
          <6>2. j - 1 = o - 1
            BY <4>2, <4>6, <6>1
          <6> QED BY <1>1, <2>3, <5>1, <5>5, <6>2
        <5> QED BY <1>1, <5>1, <5>2, <5>3, <5>4, <5>5
      <4> QED BY <2>3, <4>1, <4>3, <4>5, <4>6 DEF Through
    <3> QED BY <2>3, <3>1, <3>2 DEF NamesAt
  <2>4. CASE k < n
    <3>1. k \in DOMAIN is /\ k # n /\ new[k] = is[k] /\ v[k] = w[k]
      BY <1>1, <1>4, <1>5, <2>4
    <3> QED BY <2>3, <2>4, <3>1
  <2>5. CASE k > n + 1
    <3>1. k - 1 \in DOMAIN is /\ k - 1 # n /\ new[k] = is[k - 1] /\ v[k] = w[k - 1] /\ k = IF k - 1 < n THEN k - 1 ELSE (k - 1) + 1
      BY <1>1, <1>4, <1>5, <2>5
    <3> QED BY <2>3, <3>1
  <2> QED BY <1>1, <1>4, <2>1, <2>2, <2>4, <2>5
<1>10. CallsAre(new, more, v)
  BY <1>4, <1>5, <1>9 DEF CallsAre
<1> QED BY <1>3, <1>6, <1>10

\* What stands in a map has a name, and what takes its place has the same.
LEMMA MapNames ==
    ASSUME program \in Programs, NEW map, NEW is, MapInv(map, is), NEW v, v \in Keys(map), NEW new, new = Get(map, v)
    PROVE  v.is = "import" /\ v # Nothing /\ new # Nothing /\ new.name = v.name /\ new.is = is
<1>1. PICK k \in DOMAIN map : map[k][1] = v /\ Get(map, v) = map[k][2]
  BY GetPair
<1>2. Imported(v) /\ new = FindFunc(v.name) /\ new # Nothing /\ new.is = is
  BY <1>1 DEF MapInv
<1>3. v.is = "import"
  BY <1>2, ImportedIs
<1>4. v # Nothing
  <2>1. Nothing.is = "nothing"
    BY DEF Nothing
  <2> QED BY <1>3, <2>1
<1>5. new.name = v.name
  BY <1>2, FindFuncIs
<1> QED BY <1>2, <1>3, <1>4, <1>5

LEMMA CallsImports ==
    ASSUME CallsInv, SymbolsInv, BodyInv, RetargetImports
    PROVE  CallsInv'
<1>1. /\ phase = "imports" /\ UNCHANGED <<program, toImport, codeRelocs>>
      /\ body' = [k \in DOMAIN body |-> IF IsCall(body[k]) THEN [body[k] EXCEPT !.arg = GetOr(toImport, @)] ELSE body[k]]
  BY DEF RetargetImports
<1>2. PICK w : CallsAre(body, codeRelocs, w) /\ FlattenSeq(w) = FlattenSeq(ProgramNames)
  BY DEF CallsInv
<1>3. PICK is, new, relocs : is = body /\ new = body' /\ relocs = codeRelocs
  OBVIOUS
<1>4. BodyOK(is, relocs)
  BY <1>1, <1>3 DEF BodyInv, Before
<1>5. program \in Programs /\ MapInv(toImport, "import")
  BY DEF SymbolsInv
<1>6. ASSUME NEW k \in DOMAIN is
      PROVE  /\ new[k].op = is[k].op /\ new[k].id = is[k].id
             /\ new[k].arg = Nothing <=> is[k].arg = Nothing
             /\ new[k].arg # Nothing => new[k].arg.name = is[k].arg.name
  <2>1. CASE ~IsCall(is[k])
    <3>1. new[k] = is[k]
      BY <1>1, <1>3, <2>1
    <3> QED BY <3>1
  <2>2. CASE IsCall(is[k])
    <3>1. new[k] = [is[k] EXCEPT !.arg = GetOr(toImport, @)] /\ DOMAIN is[k] = InstFields
      BY <1>1, <1>3, <1>4, <2>2 DEF BodyOK
    <3>2. new[k].arg = GetOr(toImport, is[k].arg) /\ new[k].op = is[k].op /\ new[k].id = is[k].id
      BY <3>1 DEF InstFields
    <3>3. CASE is[k].arg \in Keys(toImport)
      <4>1. PICK a : a = Get(toImport, is[k].arg)
        OBVIOUS
      <4>2. is[k].arg # Nothing /\ a # Nothing /\ a.name = is[k].arg.name
        BY <1>5, <3>3, <4>1, MapNames
      <4>3. new[k].arg = a
        BY <3>2, <3>3, <4>1 DEF GetOr
      <4> QED BY <3>2, <4>2, <4>3
    <3>4. CASE is[k].arg \notin Keys(toImport)
      BY <3>2, <3>4 DEF GetOr
    <3> QED BY <3>3, <3>4
  <2> QED BY <2>1, <2>2
<1>7. DOMAIN new = DOMAIN is
  BY <1>1, <1>3
<1>8. CallsAre(new, relocs, w)
  BY <1>2, <1>3, <1>6, <1>7, CallsArgued
<1>9. ProgramNames' = ProgramNames
  BY <1>1 DEF ProgramNames
<1> QED BY <1>1, <1>2, <1>3, <1>8, <1>9 DEF CallsInv

LEMMA CallsCall ==
    ASSUME CallsInv, ArgsInv, SymbolsInv, LinkInv, BodyInv, CodeInv, RetargetCall
    PROVE  CallsInv'
<1>1. phase = "calls" /\ program' = program
  BY DEF RetargetCall
<1>2. PICK w : CallsAre(body, codeRelocs, w) /\ FlattenSeq(w) = FlattenSeq(ProgramNames)
  BY DEF CallsInv
<1>3. PICK is, new, relocs, more, n, to : is = body /\ new = body' /\ relocs = codeRelocs /\ more = codeRelocs' /\ n = i /\ to = toTable
  OBVIOUS
<1>4. BodyOK(is, relocs) /\ IsSeq(relocs) /\ CallsAre(is, relocs, w)
  BY <1>1, <1>2, <1>3 DEF BodyInv, Before, CodeInv, CodeOK
<1>5. IsSeq(is) /\ DOMAIN is = 1 .. Len(is)
  BY <1>4, IsSeqLen DEF BodyOK
<1>6. n \in DOMAIN is
  BY <1>3, <1>5 DEF LinkInv, RetargetCall
<1>7. program \in Programs /\ MapInv(to, "runtime")
  BY <1>3 DEF SymbolsInv
<1>8. PICK a : a = Get(to, is[n].arg)
  OBVIOUS
<1>9. is[n].arg \in Keys(to) => is[n].arg # Nothing /\ a # Nothing /\ a.name = is[n].arg.name
  BY <1>7, <1>8, MapNames
<1>10. ProgramNames' = ProgramNames
  BY <1>1 DEF ProgramNames
<1>11. SUFFICES \E v : CallsAre(new, more, v) /\ FlattenSeq(v) = FlattenSeq(w)
  BY <1>2, <1>3, <1>10 DEF CallsInv
<1>12. CASE IsCall(is[n]) /\ is[n].arg \in Keys(to) /\ is[n].op = "call"
  <2>1. PICK x, y, r : /\ x = Inst("i32.const", Nothing, is[n].id) /\ y = Inst("call_indirect", Nothing, 0)
                       /\ r = [type |-> "TABLE_INDEX_SLEB", ref |-> RuntimeRef(a.module, a.name), inst |-> is[n].id, addend |-> 0]
    OBVIOUS
  <2>2. new = Called(is, n, x, y) /\ more = Append(relocs, r)
    BY <1>3, <1>8, <1>12, <2>1 DEF RetargetCall, Called
  <2>3. /\ ~IsCall(x) /\ x.op # "call_indirect" /\ x.arg = Nothing /\ x.id = is[n].id
        /\ y.op = "call_indirect" /\ y.arg = Nothing /\ y.id = 0
    BY <2>1 DEF Inst, IsCall
  <2>4. r.inst = is[n].id /\ r.ref[1] = "runtime" /\ r.ref[3] = is[n].arg.name
    <3>1. r.ref = <<"runtime", a.module, a.name>> /\ r.inst = is[n].id
      BY <2>1 DEF RuntimeRef
    <3> QED BY <1>9, <1>12, <3>1
  <2>5. /\ \A k \in DOMAIN relocs : k \in DOMAIN more /\ more[k] = relocs[k]
        /\ Len(relocs) + 1 \in DOMAIN more /\ more[Len(relocs) + 1] = r
    <3>1. /\ IsSeq(more) /\ Len(more) = Len(relocs) + 1 /\ \A k \in 1 .. Len(relocs) : more[k] = relocs[k]
          /\ more[Len(relocs) + 1] = r
      BY <1>4, <2>2, AppendIsSeq
    <3>2. DOMAIN relocs = 1 .. Len(relocs) /\ Len(relocs) \in Nat /\ DOMAIN more = 1 .. Len(relocs) + 1
      BY <1>4, <3>1, IsSeqLen
    <3> QED BY <3>1, <3>2
  <2>6. Asking(relocs, more)
    BY <2>5 DEF Asking
  <2>7. AsksByName(more, is[n].id, is[n].arg.name)
    BY <2>4, <2>5 DEF AsksByName
  <2> QED BY <1>4, <1>6, <1>9, <1>12, <2>2, <2>3, <2>6, <2>7, CallsGrown
<1>13. CASE IsCall(is[n]) /\ is[n].arg \in Keys(to) /\ is[n].op # "call"
  <2>1. is[n].op = "ref.func"
    BY <1>13 DEF IsCall
  <2>2. new = [is EXCEPT ![n].arg = a] /\ more = relocs
    BY <1>3, <1>8, <1>13, <2>1 DEF RetargetCall
  <2>3. DOMAIN is[n] = InstFields /\ DOMAIN new = DOMAIN is
    BY <1>4, <1>6, <2>2 DEF BodyOK
  <2>4. ASSUME NEW k \in DOMAIN is
        PROVE  /\ new[k].op = is[k].op /\ new[k].id = is[k].id
               /\ new[k].arg = Nothing <=> is[k].arg = Nothing
               /\ new[k].arg # Nothing => new[k].arg.name = is[k].arg.name
    <3>1. CASE k = n
      <4>1. new[k] = [is[n] EXCEPT !.arg = a]
        BY <1>6, <2>2, <3>1
      <4>2. new[k].arg = a /\ new[k].op = is[n].op /\ new[k].id = is[n].id
        BY <2>3, <4>1 DEF InstFields
      <4> QED BY <1>9, <1>13, <3>1, <4>2
    <3>2. CASE k # n
      <4>1. new[k] = is[k]
        BY <2>2, <3>2
      <4> QED BY <4>1
    <3> QED BY <3>1, <3>2
  <2>5. CallsAre(new, relocs, w)
    BY <1>4, <2>3, <2>4, CallsArgued
  <2> QED BY <2>2, <2>5
<1>14. CASE ~(IsCall(is[n]) /\ is[n].arg \in Keys(to))
  <2>1. new = is /\ more = relocs
    BY <1>3, <1>14 DEF RetargetCall
  <2> QED BY <1>4, <2>1
<1> QED BY <1>12, <1>13, <1>14

\* A relocation may get another reference, but not for a runtime symbol.
LEMMA CallsReferred ==
    ASSUME CallsInv, program' = program, body' = body, NEW relocs, relocs = codeRelocs, NEW more, more = codeRelocs', Asking(relocs, more)
    PROVE  CallsInv'
<1>1. PICK w : CallsAre(body, codeRelocs, w) /\ FlattenSeq(w) = FlattenSeq(ProgramNames)
  BY DEF CallsInv
<1>2. PICK is : is = body
  OBVIOUS
<1>3. CallsAre(is, more, w)
  BY <1>1, <1>2, CallsMore
<1>4. ProgramNames' = ProgramNames
  BY DEF ProgramNames
<1> QED BY <1>1, <1>2, <1>3, <1>4 DEF CallsInv

LEMMA RuntimeValue ==
    ASSUME NEW ref, ref[1] = "runtime"
    PROVE  Referenced(ref).value = Nothing
BY DEF Referenced

LEMMA CallsStep ==
    CallsInv /\ ArgsInv /\ SymbolsInv /\ LinkInv /\ BodyInv /\ CodeInv /\ TablesInv /\ [Next]_vars => CallsInv'
<1> SUFFICES ASSUME CallsInv, ArgsInv, SymbolsInv, LinkInv, BodyInv, CodeInv, TablesInv, [Next]_vars PROVE CallsInv'
  OBVIOUS
<1>1. CASE RetargetImports \/ RetargetCall
  BY <1>1, CallsImports, CallsCall
<1>2. PICK relocs, more : relocs = codeRelocs /\ more = codeRelocs'
  OBVIOUS
<1>3. IsSeq(relocs) /\ \A k \in DOMAIN relocs : DOMAIN relocs[k] = CodeFields
  BY <1>2 DEF CodeInv, CodeOK
<1>4. ASSUME Referred(more, relocs), \A k \in DOMAIN relocs : relocs[k].ref[1] = "runtime" => more[k].ref = relocs[k].ref,
             body' = body, program' = program
      PROVE  CallsInv'
  <2>1. ASSUME NEW k \in DOMAIN relocs PROVE k \in DOMAIN more /\ more[k].inst = relocs[k].inst
    <3>1. PICK ref : more[k] = relocs[k] \/ more[k] = [relocs[k] EXCEPT !.ref = ref]
      BY <1>4 DEF Referred
    <3>2. DOMAIN relocs[k] = CodeFields
      BY <1>3
    <3>3. k \in DOMAIN more
      BY <1>4 DEF Referred
    <3> QED BY <3>1, <3>2, <3>3 DEF CodeFields
  <2>2. Asking(relocs, more)
    BY <1>4, <2>1 DEF Asking
  <2> QED BY <1>2, <1>4, <2>2, CallsReferred
<1>5. CASE MergeStrings
  <2>1. more = [k \in DOMAIN relocs |-> [relocs[k] EXCEPT !.ref = KeptRef(@)]] /\ body' = body /\ program' = program
    BY <1>2, <1>5 DEF MergeStrings
  <2>2. Referred(more, relocs)
    BY <2>1 DEF Referred
  <2>3. ASSUME NEW k \in DOMAIN relocs, relocs[k].ref[1] = "runtime" PROVE more[k].ref = relocs[k].ref
    <3>1. relocs[k].ref \notin ToSet(symtable)
      <4>1. \A x \in ToSet(symtable) : x \in DOMAIN symbols
        BY SeqIsSeq DEF LinkInv
      <4> QED BY <2>3, <4>1 DEF LinkInv, SymbolsOK
    <3>2. KeptRef(relocs[k].ref) = relocs[k].ref
      BY <3>1 DEF KeptRef
    <3>3. more[k] = [relocs[k] EXCEPT !.ref = KeptRef(@)] /\ DOMAIN relocs[k] = CodeFields
      BY <1>3, <2>1
    <3> QED BY <3>2, <3>3 DEF CodeFields
  <2> QED BY <1>4, <2>1, <2>2, <2>3
<1>6. CASE CollectCode
  <2>1. body' = body /\ program' = program
    BY <1>6 DEF CollectCode
  <2>2. more = relocs \/ more = Recollected(relocs)
    BY <1>2, <1>6 DEF CollectCode
  <2>3. Referred(more, relocs)
    <3>1. relocs = [k \in DOMAIN relocs |-> relocs[k]]
      BY <1>3 DEF IsSeq
    <3>2. Referred(relocs, relocs)
      BY <3>1, ReferredSelf
    <3> QED BY <2>2, <3>2, RecollectedRefers
  <2>4. ASSUME NEW k \in DOMAIN relocs, relocs[k].ref[1] = "runtime" PROVE more[k].ref = relocs[k].ref
    <3>1. CollectedRef(relocs[k].ref) = relocs[k].ref
      <4>1. Nothing.is = "nothing"
        BY DEF Nothing
      <4>2. Referenced(relocs[k].ref).value = Nothing
        BY <2>4, RuntimeValue
      <4>3. Referenced(relocs[k].ref).value.is # "import"
        BY <4>1, <4>2
      <4> QED BY <4>3 DEF CollectedRef
    <3>2. DOMAIN relocs[k] = CodeFields
      BY <1>3
    <3>3. Recollected(relocs)[k] = IF relocs[k] = relocs[i] THEN [relocs[k] EXCEPT !.ref = CollectedRef(relocs[k].ref)] ELSE relocs[k]
      BY DEF Recollected
    <3> QED BY <2>2, <3>1, <3>2, <3>3 DEF CodeFields
  <2> QED BY <1>4, <2>1, <2>3, <2>4
<1>7. CASE CreateTableCtor
  <2>1. body' = body /\ program' = program /\ more = relocs \o Destinations
    BY <1>2, <1>7 DEF CreateTableCtor, Destinations
  <2>2. IsSeq(Destinations)
    BY <1>7, DestinationsAre DEF TablesInv, CreateTableCtor, Parted
  <2>3. \A k \in DOMAIN relocs : k \in DOMAIN more /\ more[k] = relocs[k]
    BY <1>3, <2>1, <2>2, ConcatElements
  <2>4. Asking(relocs, more)
    BY <2>3 DEF Asking
  <2> QED BY <1>2, <2>1, <2>4, CallsReferred
<1>8. ASSUME RelocNext, ~CollectCode, ~CreateTableCtor PROVE body' = body /\ program' = program /\ codeRelocs' = codeRelocs
  BY <1>8 DEF RelocNext, CollectCodeDone, CollectData, CreateElements, PartitionMethods,
     Export, SetupCommonData, GenerateExports, CreateInitArray, SetupModuleData, LinkedElsewhere,
     WriteHeader, Validate, EncodeExternal, EncodeInternal, linkVars
<1>9. ASSUME Resolve \/ ResolveDone \/ ReplaceImport \/ RemoveImport \/ RemoveImportDone \/ RetargetCallDone \/ UNCHANGED vars
      PROVE  body' = body /\ program' = program /\ codeRelocs' = codeRelocs
  BY <1>9 DEF Resolve, ResolveDone, ReplaceImport, RemoveImport, RemoveImportDone, RetargetCallDone, vars, linkVars
<1>10. ASSUME body' = body, program' = program, codeRelocs' = codeRelocs PROVE CallsInv'
  <2>1. Asking(relocs, more)
    BY <1>2, <1>10 DEF Asking
  <2> QED BY <1>2, <1>10, <2>1, CallsReferred
<1>11. [Next]_vars => LinkNext \/ RelocNext \/ UNCHANGED vars
  BY DEF Next, Stopped
<1> QED BY <1>1, <1>5, <1>6, <1>7, <1>8, <1>9, <1>10, <1>11 DEF LinkNext

LEMMA RuntimeInit == InitRelocs => RuntimeInv
BY EmptyIsSeq DEF InitRelocs, RuntimeInv

LEMMA RuntimeStep == RuntimeInv /\ PartsInv /\ CodeInv /\ TablesInv /\ [Next]_vars => RuntimeInv'
<1> SUFFICES ASSUME RuntimeInv, PartsInv, CodeInv, TablesInv, [Next]_vars PROVE RuntimeInv'
  OBVIOUS
<1>1. CASE SetupCommonData
  <2>1. parts' = parts \/ parts'.intCode = Internals(codeRelocs)
    <3>1. \/ parts' = parts
          \/ parts' = [intCode |-> Internals(codeRelocs), extCode |-> Externals(codeRelocs),
                       intData |-> Internals(dataRelocs), extData |-> Externals(dataRelocs)]
      BY <1>1 DEF SetupCommonData
    <3> QED BY <3>1
  <2>2. CASE parts' = parts
    BY <2>2 DEF RuntimeInv
  <2>3. CASE parts'.intCode = Internals(codeRelocs)
    <3>1. IsSeq(codeRelocs)
      BY DEF CodeInv, CodeOK
    <3>2. \A r \in ToSet(Internals(codeRelocs)) : Internal(r)
      BY <3>1, WhereIs DEF Internals
    <3>3. Nothing.is = "nothing"
      BY DEF Nothing
    <3>4. \A r : Internal(r) => Referenced(r.ref).value.is # "nothing"
      BY DEF Internal
    <3>5. \A r : Internal(r) => r.ref[1] # "runtime"
      BY <3>3, <3>4, RuntimeValue
    <3>6. \A k \in DOMAIN Internals(codeRelocs) : Internals(codeRelocs)[k] \in ToSet(Internals(codeRelocs))
      BY DEF ToSet
    <3>7. \A k \in DOMAIN Internals(codeRelocs) : Internals(codeRelocs)[k].ref[1] # "runtime"
      BY <3>2, <3>5, <3>6
    <3> QED BY <2>3, <3>7 DEF RuntimeInv
  <2> QED BY <2>1, <2>2, <2>3
<1>2. CASE CreateTableCtor
  <2>1. parts'.intCode = parts.intCode \o Destinations
    BY <1>2 DEF CreateTableCtor, Destinations, PartsInv
  <2>2. IsSeq(Destinations) /\ IsSeq(parts.intCode)
    BY <1>2, DestinationsAre DEF TablesInv, CreateTableCtor, Parted, PartsInv
  <2>3. \A k \in DOMAIN Destinations : Destinations[k].ref[1] # "runtime"
    <3>1. \A k : DestinationReloc(k).ref[1] = "first"
      BY DEF DestinationReloc
    <3> QED BY <3>1 DEF Destinations
  <2>4. PICK t, u, v : t = parts.intCode /\ u = Destinations /\ v = parts'.intCode
    OBVIOUS
  <2>5. \A k \in DOMAIN v : v[k].ref[1] # "runtime"
    <3>1. v = t \o u /\ IsSeq(t) /\ IsSeq(u)
      BY <2>1, <2>2, <2>4
    <3>2. \A k \in DOMAIN v : \/ k \in DOMAIN t /\ v[k] = t[k]
                              \/ k - Len(t) \in DOMAIN u /\ v[k] = u[k - Len(t)]
      BY <3>1, ConcatElements
    <3>3. /\ \A k \in DOMAIN t : t[k].ref[1] # "runtime"
          /\ \A k \in DOMAIN u : u[k].ref[1] # "runtime"
      BY <2>3, <2>4 DEF RuntimeInv
    <3> QED BY <3>2, <3>3
  <2> QED BY <2>4, <2>5 DEF RuntimeInv
<1>3. ASSUME RelocNext, ~SetupCommonData, ~CreateTableCtor
      PROVE  parts' = parts \/ \E more : parts' = [parts EXCEPT !.intData = @ \o more]
  BY <1>3 DEF RelocNext, CollectCode, CollectCodeDone, CollectData, CreateElements, PartitionMethods,
     Export, GenerateExports, CreateInitArray, SetupModuleData, AddData,
     WriteHeader, Validate, EncodeExternal, EncodeInternal, relocVars
<1>4. ASSUME parts' = parts \/ \E more : parts' = [parts EXCEPT !.intData = @ \o more] PROVE RuntimeInv'
  <2>1. parts'.intCode = parts.intCode
    BY <1>4 DEF PartsInv
  <2> QED BY <2>1 DEF RuntimeInv
<1>5. [Next]_vars => (LinkNext /\ UNCHANGED relocVars) \/ RelocNext \/ UNCHANGED vars
  BY DEF Next, Stopped
<1>6. (LinkNext /\ UNCHANGED relocVars) \/ UNCHANGED vars => parts' = parts
  BY DEF relocVars, vars
<1> QED BY <1>1, <1>2, <1>3, <1>4, <1>5, <1>6

\* What is called, when it is known instruction by instruction.
LEMMA CalleesAre ==
    ASSUME NEW is, NEW w, IsSeq(w), DOMAIN w = DOMAIN is,
           \A k \in DOMAIN is :
              /\ is[k].arg # Nothing => w[k] = <<is[k].arg.name>> /\ is[k].op # "call_indirect"
              /\ is[k].op = "call_indirect" =>
                    At(CodeFixes, 60 * (k - 1)) # <<>> /\ w[k] = <<At(CodeFixes, 60 * (k - 1))[1].means[2]>>
              /\ is[k].arg = Nothing /\ is[k].op # "call_indirect" => w[k] = <<>>
    PROVE  Callees(is) = FlattenSeq(w)
<1> DEFINE Fixed(k) == At(CodeFixes, 60 * (k - 1))
           Name(k) == CASE is[k].arg # Nothing -> <<is[k].arg.name>>
                        [] is[k].op = "call_indirect" -> IF Fixed(k) = <<>> THEN <<"">> ELSE <<Fixed(k)[1].means[2]>>
                        [] OTHER -> <<>>
<1>1. Callees(is) = FlattenSeq([k \in DOMAIN is |-> Name(k)])
  BY DEF Callees
<1> HIDE DEF Fixed
<1>2. ASSUME NEW k \in DOMAIN is PROVE Name(k) = w[k]
  <2>1. /\ is[k].arg # Nothing => w[k] = <<is[k].arg.name>> /\ is[k].op # "call_indirect"
        /\ is[k].op = "call_indirect" => Fixed(k) # <<>> /\ w[k] = <<Fixed(k)[1].means[2]>>
        /\ is[k].arg = Nothing /\ is[k].op # "call_indirect" => w[k] = <<>>
    BY DEF Fixed
  <2> QED BY <2>1
<1> HIDE DEF Name
<1>3. w = [k \in DOMAIN is |-> w[k]]
  BY DEF IsSeq
<1>4. [k \in DOMAIN is |-> Name(k)] = [k \in DOMAIN is |-> w[k]]
  BY <1>2
<1> QED BY <1>1, <1>3, <1>4

LEMMA IndirectCalled ==
    ASSUME phase = "written", FixesInv, RuntimeInv,
           NEW k \in DOMAIN body, NEW names, Through(body, codeRelocs, k, names)
    PROVE  At(CodeFixes, 60 * (k - 1)) # <<>> /\ names = <<At(CodeFixes, 60 * (k - 1))[1].means[2]>>
<1>1. IsSeq(body) /\ IsSeq(inits) /\ SplitInv /\ CodeInv /\ BodyInv /\ FileInv
  BY DEF FixesInv, BodyInv, TableInv
<1>2. PICK id : id = body[k - 1].id
  OBVIOUS
<1>3. k - 1 \in DOMAIN body /\ \A j \in DOMAIN body : body[j].id = id => j = k - 1
  BY <1>2 DEF Through
<1>4. PICK name, j :
          /\ j \in DOMAIN codeRelocs /\ names = <<name>>
          /\ codeRelocs[j].inst = id /\ codeRelocs[j].ref[1] = "runtime" /\ codeRelocs[j].ref[3] = name
  <2>1. PICK name : names = <<name>> /\ AsksByName(codeRelocs, id, name)
    BY <1>2 DEF Through
  <2> QED BY <2>1 DEF AsksByName
<1>5. CodeOffset(id) = 60 * (k - 1)
  <2>1. DOMAIN body = 1 .. Len(body)
    BY <1>1, IsSeqLen
  <2>2. InBody(id) \in {m \in 1 .. Len(body) : body[m].id = id}
    <3>1. PICK n, I : n = Len(body) /\ I = {m \in 1 .. Len(body) : body[m].id = id}
      OBVIOUS
    <3>2. n \in Nat /\ I \in SUBSET (1 .. n)
      BY <1>1, <3>1, IsSeqLen
    <3>3. k - 1 \in I
      BY <1>2, <1>3, <2>1, <3>1
    <3>4. FirstOf(I) \in I
      BY <3>2, <3>3, FirstOfIs
    <3> QED BY <3>1, <3>4 DEF InBody
  <2>3. InBody(id) = k - 1 /\ InBody(id) # 0
    BY <1>3, <2>1, <2>2
  <2> QED BY <1>1, <2>3, CodeOffsetIs
<1>6. PICK r : r = codeRelocs[j]
  OBVIOUS
<1>7. \E n \in DOMAIN parts.extCode : parts.extCode[n] = r
  <2>1. r \in ToSet(codeRelocs)
    BY <1>4, <1>6 DEF ToSet
  <2>2. ToSet(parts.intCode) \cup ToSet(parts.extCode) = ToSet(codeRelocs)
    BY <1>1 DEF SplitInv, Split, Sorted, Whole, Parted, Placed
  <2>3. r \notin ToSet(parts.intCode)
    BY <1>4, <1>6 DEF RuntimeInv, ToSet
  <2> QED BY <2>1, <2>2, <2>3 DEF ToSet
<1>8. PICK n \in DOMAIN parts.extCode : parts.extCode[n] = r
  BY <1>7
<1>9. Naming(At(CodeFixes, CodeOffset(r.inst)), ByName(SymbolKey(r), 0))
  BY <1>1, <1>8, CodePlaces
<1>10. SymbolKey(r) = <<0, name>>
  <2>1. r.ref[1] = "runtime" /\ r.ref[3] = name
    BY <1>4, <1>6
  <2>2. Referenced(r.ref).kind = 0 /\ Referenced(r.ref).name = r.ref[3]
    BY <2>1 DEF Referenced
  <2> QED BY <2>1, <2>2 DEF SymbolKey
<1>11. ByName(SymbolKey(r), 0)[2] = name
  <2>1. PICK key : key = <<0, name>>
    OBVIOUS
  <2>2. key[2] = name
    BY <2>1
  <2>3. ByName(key, 0)[2] = name
    BY <2>2 DEF ByName
  <2> QED BY <1>10, <2>1, <2>3
<1>12. r.inst = id
  BY <1>4, <1>6
<1>13. PICK at, means : at = CodeOffset(r.inst) /\ means = ByName(SymbolKey(r), 0)
  OBVIOUS
<1>14. /\ At(CodeFixes, CodeOffset(r.inst)) # <<>>
       /\ At(CodeFixes, CodeOffset(r.inst))[1].means = means
  <2>1. IsSeq(At(CodeFixes, at))
    <3>1. IsSeq(CodeFixes)
      BY <1>1, ConcatIsSeq DEF CodeFixes, FileInv, Says
    <3> QED BY <3>1, WhereIs DEF At
  <2>2. 1 \in DOMAIN At(CodeFixes, at)
    BY <1>9, <1>13, <2>1, HasFirst DEF Naming
  <2> QED BY <1>9, <1>13, <2>2 DEF Naming
<1> QED BY <1>4, <1>5, <1>11, <1>12, <1>13, <1>14

LEMMA CallsAreKept == FixesInv /\ ArgsInv /\ CallsInv /\ RuntimeInv => CallsKeptButKnown
<1> SUFFICES ASSUME FixesInv, ArgsInv, CallsInv, RuntimeInv, phase = "written" PROVE CallsKeptButKnown
  BY DEF CallsKeptButKnown, Written
<1>1. PICK w : CallsAre(body, codeRelocs, w) /\ FlattenSeq(w) = FlattenSeq(ProgramNames)
  BY DEF CallsInv
<1>2. IsSeq(w) /\ DOMAIN w = DOMAIN body
  BY <1>1 DEF CallsAre
<1>3. ASSUME NEW k \in DOMAIN body
      PROVE  /\ body[k].arg # Nothing => w[k] = <<body[k].arg.name>> /\ body[k].op # "call_indirect"
             /\ body[k].op = "call_indirect" =>
                   At(CodeFixes, 60 * (k - 1)) # <<>> /\ w[k] = <<At(CodeFixes, 60 * (k - 1))[1].means[2]>>
             /\ body[k].arg = Nothing /\ body[k].op # "call_indirect" => w[k] = <<>>
  <2>1. NamesAt(body, codeRelocs, k, w[k])
    BY <1>1 DEF CallsAre
  <2>2. body[k].op = "call_indirect" => Through(body, codeRelocs, k, w[k]) /\ body[k].arg = Nothing
    BY <2>1 DEF NamesAt
  <2>3. Through(body, codeRelocs, k, w[k]) =>
            At(CodeFixes, 60 * (k - 1)) # <<>> /\ w[k] = <<At(CodeFixes, 60 * (k - 1))[1].means[2]>>
    BY IndirectCalled
  <2>4. body[k].op # "call_indirect" => w[k] = IF body[k].arg = Nothing THEN <<>> ELSE <<body[k].arg.name>>
    BY <2>1 DEF NamesAt
  <2> QED BY <2>2, <2>3, <2>4
<1>4. Callees(body) = FlattenSeq(w)
  BY <1>2, <1>3, CalleesAre
<1>5. Callees(program.body) = FlattenSeq(ProgramNames)
  <2>1. program \in Programs
    BY DEF FixesInv, SymbolsInv
  <2>2. PICK is, v : is = program.body /\ v = ProgramNames
    OBVIOUS
  <2>3. IsSeq(is) /\ \A k \in DOMAIN is : is[k].op # "call_indirect"
    BY <2>1, <2>2, ProgramBody
  <2>4. /\ DOMAIN v = DOMAIN is /\ v = [k \in DOMAIN is |-> v[k]]
        /\ \A k \in DOMAIN is : v[k] = IF is[k].arg = Nothing THEN <<>> ELSE <<is[k].arg.name>>
    BY <2>2 DEF ProgramNames
  <2>5. IsSeq(v)
    <3>1. DOMAIN is = 1 .. Len(is) /\ Len(is) \in Nat
      BY <2>3, IsSeqLen
    <3> QED BY <2>4, <3>1, FunctionIsSeq
  <2>6. Callees(is) = FlattenSeq(v)
    BY <2>3, <2>4, <2>5, CalleesAre
  <2> QED BY <2>2, <2>6
<1>6. ASSUME NEW k \in DOMAIN body, body[k].arg # Nothing
      PROVE  Contains(functions, body[k].arg) \/ (body[k].op = "ref.func" /\ body[k].arg.is = "runtime")
  <2>1. HasIndex(body[k])
    BY <1>6 DEF ArgsInv, Linking
  <2> QED BY <2>1 DEF HasIndex, ToSet, Contains
<1> QED BY <1>1, <1>4, <1>5, <1>6 DEF CallsKeptButKnown

\* The calls of the program are made, in their order, by name: those of a
\* function that a dylib answers for with dlsym through the table, where the
\* constant before is given that name, the others by an index in the vector.
THEOREM CallsKeptCorrect == Spec => []CallsKeptButKnown
<1> DEFINE CInv == FixesInv /\ VectorInv /\ ArgsInv /\ CallsInv /\ RuntimeInv
<1>1. InitRelocs => CInv
  BY FixesInit, VectorInit, ArgsInit, CallsInit, RuntimeInit
<1>2. CInv /\ [Next]_vars => CInv'
  BY FixesStep, VectorStep, ArgsStep, CallsStep, RuntimeStep DEF FixesInv
<1>3. CInv => CallsKeptButKnown
  BY CallsAreKept
<1> QED BY <1>1, <1>2, <1>3, PTL DEF Spec

-----------------------------------------------------------------------------
(* The exports are said once, but for the profile (ExportsInv) *)

\* A function of the module is named once in the list, and the linker's own is not.
LEMMA ExportListIs ==
    ASSUME SymbolsInv, LinkInv
    PROVE  IsSeq(ExportList) /\ Distinct(ExportList) /\ Ctor \notin ToSet(ExportList)
<1>1. IsSeq(symtable) /\ ToSet(symtable) \subseteq DOMAIN symbols
  BY SeqIsSeq DEF LinkInv
<1>2. PICK refs : refs = Where(symtable, VisibleOf(0))
  OBVIOUS
<1>3. IsSeq(refs) /\ \A x \in ToSet(refs) : x \in DOMAIN symbols /\ symbols[x].kind = 0
  <2>1. \A x \in VisibleOf(0) : x \in DOMAIN symbols /\ symbols[x].kind = 0
    BY <1>1 DEF VisibleOf
  <2> QED BY <1>1, <1>2, <2>1, WhereIs
<1>4. PICK values : values = Values(refs)
  OBVIOUS
<1>5. IsSeq(values) /\ Len(values) = Len(refs)
  BY <1>3, <1>4, ValuesIs
<1>6. ASSUME NEW f \in ToSet(values), f.is = "function"
      PROVE  f = Own(f.name) /\ f.name # Ctor
  <2>1. PICK k \in DOMAIN refs : f = symbols[refs[k]].value
    BY <1>4 DEF Values, ToSet
  <2> DEFINE x == refs[k]
             s0 == program.symbols[x]
  <2>2. x \in DOMAIN symbols /\ symbols[x].kind = 0 /\ SymbolKept(symbols[x], s0) /\ x \in DOMAIN program.symbols
    BY <1>3, <2>1 DEF ToSet, SymbolsInv
  <2>3. s0.kind = 0 /\ f = symbols[x].value
    BY <2>1, <2>2 DEF SymbolKept
  <2>4. f = s0.value
    <3>1. ~FoundValue(f, s0)
      BY <1>6, FindFuncIs DEF FoundValue
    <3> QED BY <2>2, <2>3, <3>1 DEF SymbolKept
  <2>5. s0.value \in ToSet(program.functions)
    BY <2>2, <2>3, VectorAssumption DEF SymbolsInv
  <2>6. \A g \in ToSet(program.functions) : g = Own(g.name) \/ g = Import(g.module, g.name)
    BY ProgramVector DEF SymbolsInv
  <2>7. Own(Ctor) \notin ToSet(program.functions)
    BY ProgramVector DEF SymbolsInv
  <2>8. f # Import(f.module, f.name)
    <3>1. Import(f.module, f.name).is = "import"
      BY DEF Import
    <3> QED BY <1>6, <3>1
  <2> QED BY <2>4, <2>5, <2>6, <2>7, <2>8
<1>7. PICK fs : fs = Firsts(Exported)
  OBVIOUS
<1>8. /\ IsSeq(fs) /\ Distinct(fs)
      /\ \A f \in ToSet(fs) : f = Own(f.name) /\ f.name # Ctor
  <2> DEFINE T == {f \in ToSet(values) : Exportable(f)}
  <2>1. Exported = Where(values, T)
    BY <1>2, <1>4 DEF Exported
  <2>2. \A f \in T : f = Own(f.name) /\ f.name # Ctor
    BY <1>6 DEF Exportable
  <2> HIDE DEF T
  <2>3. IsSeq(Where(values, T)) /\ ToSet(Where(values, T)) \subseteq T
    BY <1>5, WhereIs
  <2> QED BY <1>7, <2>1, <2>2, <2>3, FirstsIs
<1>9. ExportList = Names(fs)
  BY <1>7 DEF ExportList
<1>10. PICK ns : ns = Names(fs)
  OBVIOUS
<1>11. DOMAIN ns = DOMAIN fs /\ \A k \in DOMAIN fs : ns[k] = fs[k].name /\ fs[k] \in ToSet(fs)
  BY <1>10 DEF Names, ToSet
<1>12. IsSeq(ns)
  <2>1. Len(fs) \in Nat /\ DOMAIN fs = 1 .. Len(fs)
    BY <1>8, IsSeqLen
  <2>2. ns = [k \in 1 .. Len(fs) |-> ns[k]]
    BY <1>10, <2>1 DEF Names
  <2> QED BY <1>11, <2>1, <2>2, FunctionIsSeq
<1>13. Distinct(ns)
  <2>1. ASSUME NEW a \in DOMAIN fs, NEW b \in DOMAIN fs, ns[a] = ns[b] PROVE a = b
    <3>1. fs[a] = fs[b]
      BY <1>8, <1>11, <2>1
    <3> QED BY <1>8, <3>1 DEF Distinct
  <2> QED BY <1>11, <2>1 DEF Distinct
<1>14. Ctor \notin ToSet(ns)
  BY <1>8, <1>11 DEF ToSet
<1> QED BY <1>9, <1>10, <1>12, <1>13, <1>14

LEMMA ExportListStays ==
    ASSUME UNCHANGED <<program, symbols, symtable>>
    PROVE  ExportList' = ExportList /\ Again' = Again
<1>1. ExportList' = ExportList
  <2>1. VisibleOf(0)' = VisibleOf(0)
    BY DEF VisibleOf, Visible, Undefined
  <2>2. \A f : Exportable(f)' = Exportable(f)
    BY DEF Exportable
  <2>3. Values(Where(symtable, VisibleOf(0)))' = Values(Where(symtable, VisibleOf(0)))
    BY <2>1 DEF Values
  <2>4. Exported' = Exported
    BY <2>2, <2>3 DEF Exported
  <2> QED BY <2>4 DEF ExportList
<1> QED BY <1>1 DEF Again

LEMMA ExportsInit == InitRelocs => ExportsInv
<1>1. InitRelocs => exports = <<>> /\ phase = "resolve"
  BY DEF InitRelocs, Init
<1>2. ToSet(<<>>) = {}
  BY EmptyIsSeq DEF ToSet
<1> QED BY <1>1, <1>2, EmptyIsSeq DEF ExportsInv

\* What the profile adds.
LEMMA ExportsProfile ==
    ASSUME ExportsInv, SymbolsInv, LinkInv, VectorInv, GenerateExports
    PROVE  ExportsInv'
<1>1. phase = "profile" /\ phase' = "init_array" /\ UNCHANGED <<program, symbols, symtable>>
  BY DEF GenerateExports, Goto, linkVars
<1>2. /\ Distinct(exports) /\ IsSeq(exports) /\ ToSet(exports) \subseteq ToSet(ExportList)
      /\ program.noexport => exports = <<>>
      /\ Ctor \notin ToSet(exports)
  BY <1>1 DEF ExportsInv, Silent, Tabled, Parted, Placed
<1>3. phase' \notin Collecting \cup {"export", "common", "profile"} /\ phase' \notin Tabled
  BY <1>1 DEF Collecting, Tabled, Parted, Placed
<1>4. Again' = Again
  BY <1>1, ExportListStays
<1>5. CASE exports' = exports
  BY <1>2, <1>3, <1>4, <1>5 DEF ExportsInv
<1>6. ASSUME NEW more, IsSeq(more), Distinct(more), Ctor \notin ToSet(more), exports' = exports \o more,
             Again \/ ToSet(exports) \cap ToSet(more) = {}
      PROVE  ExportsInv'
  <2>1. IsSeq(exports') /\ ToSet(exports') = ToSet(exports) \cup ToSet(more)
    BY <1>2, <1>6, ConcatElements
  <2>2. Again \/ Distinct(exports')
    BY <1>2, <1>6, ConcatDistinct
  <2> QED BY <1>2, <1>3, <1>4, <1>6, <2>1, <2>2 DEF ExportsInv
<1>7. exports = <<>> => ToSet(exports) = {}
  BY EmptyIsSeq DEF ToSet
<1>8. CASE exports' = exports \o ExportList /\ program.profile[1] = "export-all"
  <2>1. IsSeq(ExportList) /\ Distinct(ExportList) /\ Ctor \notin ToSet(ExportList)
    BY ExportListIs
  <2>2. Again \/ ToSet(exports) \cap ToSet(ExportList) = {}
    BY <1>2, <1>7, <1>8 DEF Again
  <2> QED BY <1>6, <1>8, <2>1, <2>2
<1>9. CASE exports' # exports /\ program.profile[1] # "export-all"
  <2> DEFINE asked == Tail(program.profile)
             T == {n \in ToSet(asked) : Contains(functions, Own(n))}
             more == Where(Firsts(asked), T)
  <2>1. exports' = exports \o more
    BY <1>9 DEF GenerateExports
  <2>2. IsSeq(asked)
    <3>1. program.profile \in Seq(ToSet(program.profile)) /\ program.profile # <<>>
      BY SectionsAssumption DEF SymbolsInv
    <3>2. PICK p, S : p = program.profile /\ S = ToSet(program.profile)
      OBVIOUS
    <3>3. Tail(p) \in Seq(S)
      BY <3>1, <3>2, HeadTailProperties
    <3> QED BY <3>2, <3>3, SeqIsSeq
  <2>3. Ctor \notin T
    <3>1. Own(Ctor) \notin ToSet(functions)
      <4>1. Own(Ctor) \notin ToSet(program.functions)
        BY ProgramVector DEF SymbolsInv
      <4>2. Own(Ctor).is = "function" /\ phase \notin Tabled
        BY <1>1, ValueKinds DEF Tabled, Parted, Placed
      <4> QED BY <4>1, <4>2 DEF VectorInv
    <3> QED BY <3>1 DEF Contains, ToSet
  <2>4. T \subseteq ToSet(asked)
    OBVIOUS
  <2> HIDE DEF asked, T
  <2>5. IsSeq(more) /\ Distinct(more) /\ ToSet(more) \subseteq T
    BY <2>2, WhereIs, FirstsIs
  <2>6. Again \/ ToSet(exports) \cap ToSet(more) = {}
    BY <1>2, <1>7, <1>9, <2>4, <2>5 DEF Again, asked
  <2> HIDE DEF more
  <2> QED BY <1>6, <2>1, <2>3, <2>5, <2>6
<1> QED BY <1>5, <1>8, <1>9 DEF GenerateExports

LEMMA ExportsStep == ExportsInv /\ SymbolsInv /\ LinkInv /\ VectorInv /\ [Next]_vars => ExportsInv'
<1> SUFFICES ASSUME ExportsInv, SymbolsInv, LinkInv, VectorInv, [Next]_vars PROVE ExportsInv'
  OBVIOUS
<1>1. CASE GenerateExports
  BY <1>1, ExportsProfile
<1>2. CASE Export
  <2>1. phase = "export" /\ phase' = "common" /\ UNCHANGED <<program, symbols, symtable>>
    BY <1>2 DEF Export, Goto, linkVars
  <2>2. exports = <<>> /\ ToSet(exports) = {} /\ ToSet(<<>>) = {}
    BY <2>1, EmptyIsSeq DEF ExportsInv, ToSet
  <2>3. /\ IsSeq(exports') /\ Distinct(exports') /\ ToSet(exports') \subseteq ToSet(ExportList)
        /\ Ctor \notin ToSet(exports')
    <3>1. CASE exports' = exports
      BY <2>2, <3>1, EmptyIsSeq
    <3>2. CASE exports' = exports \o ExportList
      <4>1. IsSeq(ExportList) /\ Distinct(ExportList) /\ Ctor \notin ToSet(ExportList)
        BY ExportListIs
      <4>2. IsSeq(exports') /\ ToSet(exports') = ToSet(ExportList)
        BY <2>2, <3>2, <4>1, EmptyIsSeq, ConcatElements
      <4>3. Distinct(exports')
        BY <2>2, <3>2, <4>1, EmptyIsSeq, ConcatDistinct
      <4> QED BY <4>1, <4>2, <4>3
    <3> QED BY <1>2, <3>1, <3>2 DEF Export
  <2>4. ExportList' = ExportList
    BY <2>1, ExportListStays
  <2>5. phase' \notin Collecting \cup {"export"} /\ phase' \notin Tabled
    BY <2>1 DEF Collecting, Tabled, Parted, Placed
  <2>6. Silent'
    <3>1. program.noexport => exports' = <<>>
      BY <1>2, <2>2 DEF Export
    <3> QED BY <2>1, <3>1 DEF Silent
  <2>7. ToSet(exports') \subseteq ToSet(ExportList')
    BY <2>3, <2>4
  <2> QED BY <2>3, <2>5, <2>6, <2>7 DEF ExportsInv
<1>3. CASE CreateTableCtor
  <2>1. phase = "table" /\ phase' = "dynsym" /\ UNCHANGED <<program, symbols, symtable>>
    BY <1>3 DEF CreateTableCtor, Goto
  <2>2. IsSeq(exports) /\ Ctor \notin ToSet(exports) /\ (Again \/ Distinct(exports))
    BY <2>1 DEF ExportsInv, Tabled, Parted, Placed
  <2>3. ~Contains(exports, Ctor)
    BY <2>2 DEF Contains, ToSet
  <2>4. exports' = exports \/ exports' = Append(exports, Ctor)
    BY <1>3 DEF CreateTableCtor
  <2>5. IsSeq(exports') /\ (Again \/ Distinct(exports'))
    <3>1. CASE exports' = exports
      BY <2>2, <3>1
    <3>2. CASE exports' = Append(exports, Ctor)
      BY <2>2, <2>3, <3>2, AppendIsSeq, AppendDistinct
    <3> QED BY <2>4, <3>1, <3>2
  <2>6. Again' = Again
    BY <2>1, ExportListStays
  <2>7. phase' \notin Collecting \cup {"export", "common", "profile"} /\ phase' \in Tabled
    BY <2>1 DEF Collecting, Tabled, Parted, Placed
  <2> QED BY <2>5, <2>6, <2>7 DEF ExportsInv
<1>4. ASSUME RelocNext, ~GenerateExports, ~Export, ~CreateTableCtor
      PROVE  /\ UNCHANGED <<program, symbols, symtable, exports>>
             /\ phase' \in Collecting \cup {"export"} => phase \in Collecting \cup {"export"}
             /\ phase' \in {"common", "profile"} => phase \in {"common", "profile"}
             /\ phase \in Tabled => phase' \in Tabled
  BY <1>4 DEF RelocNext, CollectCode, CollectCodeDone, CollectData, CreateElements, PartitionMethods,
     SetupCommonData, CreateInitArray, SetupModuleData, LinkedElsewhere, WriteHeader, Validate,
     EncodeExternal, EncodeInternal, Failure, Goto, linkVars, relocVars, Collecting, Tabled, Parted, Placed
<1>5. ASSUME UNCHANGED <<program, symbols, symtable, exports>>,
             phase' \in Collecting \cup {"export"} => phase \in Collecting \cup {"export"},
             phase' \in {"common", "profile"} => phase \in {"common", "profile"},
             phase \in Tabled => phase' \in Tabled
      PROVE  ExportsInv'
  <2>1. ExportList' = ExportList /\ Again' = Again
    BY <1>5, ExportListStays
  <2>2. Silent' = Silent
    BY <1>5 DEF Silent
  <2> QED BY <1>5, <2>1, <2>2 DEF ExportsInv
<1>6. ASSUME LinkNext, UNCHANGED relocVars PROVE ExportsInv'
  <2>1. phase \in Collecting /\ phase' \in Collecting /\ exports' = exports
    BY <1>6 DEF LinkNext, Resolve, ResolveDone, ReplaceImport, RetargetImports, RemoveImport, RemoveImportDone,
       RetargetCall, RetargetCallDone, MergeStrings, Goto, relocVars, Collecting
  <2>2. exports = <<>> /\ ToSet(exports) = {}
    BY <2>1, EmptyIsSeq DEF ExportsInv, ToSet
  <2>3. phase' \notin {"common", "profile"}
    BY <2>1 DEF Collecting
  <2> QED BY <2>1, <2>2, <2>3, EmptyIsSeq DEF ExportsInv
<1>7. UNCHANGED vars => UNCHANGED <<phase, program, symbols, symtable, exports>>
  BY DEF vars, linkVars, relocVars
<1>8. [Next]_vars => (LinkNext /\ UNCHANGED relocVars) \/ RelocNext \/ UNCHANGED vars
  BY DEF Next, Stopped
<1> QED BY <1>1, <1>2, <1>3, <1>4, <1>5, <1>6, <1>7, <1>8

-----------------------------------------------------------------------------
(* What has an address keeps it *)

\* Segments hold what is in their vectors.
LEMMA HoldsIs ==
    /\ \A v, f : IsSeq(v) => (Holds(One(v), f) <=> f \in ToSet(v))
    /\ \A v, w, f : IsSeq(v) /\ Distinct(v) /\ IsSeq(w) /\ Distinct(w) /\ ToSet(v) \cap ToSet(w) = {}
                    => (Holds(Two(v, w), f) <=> f \in ToSet(v) \cup ToSet(w))
<1>1. \A v, f : IsSeq(v) => (Contains(v, f) <=> f \in ToSet(v))
  BY IsSeqLen DEF Contains, ToSet
<1>2. ASSUME NEW v, NEW f, IsSeq(v) PROVE Holds(One(v), f) <=> f \in ToSet(v)
  <2>1. PICK es : es = One(v)
    OBVIOUS
  <2>2. DOMAIN es = {1} /\ es[1] = ElementSegment("", v)
    BY <2>1, SingletonIs DEF One
  <2>3. es[1].vector = v
    BY <2>2, SegmentFields
  <2> QED BY <1>1, <1>2, <2>1, <2>2, <2>3 DEF Holds
<1>3. ASSUME NEW v, NEW w, NEW f, IsSeq(v), Distinct(v), IsSeq(w), Distinct(w), ToSet(v) \cap ToSet(w) = {}
      PROVE  Holds(Two(v, w), f) <=> f \in ToSet(v) \cup ToSet(w)
  <2>1. PICK es : es = Two(v, w)
    OBVIOUS
  <2>2. DOMAIN es = {1, 2} /\ es[1].vector = v /\ es[2].vector = w
    BY <1>3, <2>1, TwoIs
  <2> QED BY <1>1, <1>3, <2>1, <2>2 DEF Holds
<1> QED BY <1>2, <1>3

\* Functions that are pushed are held as well.
LEMMA PushHolds ==
    ASSUME NEW v, IsSeq(v), NEW fs, IsSeq(fs), NEW f
    PROVE  Holds(Push(One(v), fs), f) <=> Holds(One(v), f) \/ f \in ToSet(fs)
<1>1. IsSeq(v \o fs) /\ ToSet(v \o fs) = ToSet(v) \cup ToSet(fs)
  BY ConcatElements
<1>2. IsSeq(Firsts(v \o fs)) /\ ToSet(Firsts(v \o fs)) = ToSet(v \o fs)
  BY <1>1, FirstsIs
<1> QED BY <1>1, <1>2, PushIs, HoldsIs

\* The functions of visible symbols get an address.
LEMMA CommonHolds ==
    ASSUME ElementsInv, SetupCommonData, phase' = "profile", NEW f,
           Holds(elements, f) \/ f \in ToSet(Values(VisibleFunctions))
    PROVE  Holds(elements', f)
<1>1. phase = "common"
  BY DEF SetupCommonData
<1>2. elements = <<>> \/ IsOne(elements)
  BY <1>1 DEF ElementsInv, Collecting, Growing, Whole, Parted, Placed
<1>3. PICK fs : fs = Values(VisibleFunctions) /\ IsSeq(fs)
  BY WhereIs, ValuesIs DEF ElementsInv, VisibleFunctions
<1>4. elements' = Push(IF elements = <<>> THEN One(<<>>) ELSE elements, fs)
  BY <1>3 DEF SetupCommonData, One, ElementSegment
<1>5. ~Holds(<<>>, f)
  BY EmptyIsSeq DEF Holds
<1>6. PICK v : IsSeq(v) /\ (elements = <<>> \/ elements = One(v)) /\ elements' = Push(One(v), fs)
  <2>1. CASE elements = <<>>
    BY <1>4, <2>1, EmptyIsSeq
  <2>2. CASE elements # <<>>
    BY <1>2, <1>4, <2>2 DEF IsOne
  <2> QED BY <2>1, <2>2
<1> QED BY <1>3, <1>5, <1>6, PushHolds

\* And so do the constructors.
LEMMA ArrayHolds ==
    ASSUME ElementsInv, CreateInitArray, NEW f, Holds(elements, f) \/ f \in ToSet(CtorFunctions)
    PROVE  Holds(elements', f)
<1>1. phase = "init_array"
  BY DEF CreateInitArray
<1>2. IsOne(elements)
  BY <1>1 DEF ElementsInv, Collecting, Growing, Whole, Parted, Placed
<1> DEFINE T == {g \in ToSet(CtorFunctions) : ~InElements(g)}
           missing == Where(CtorFunctions, T)
<1>3. elements' = IF missing = <<>> THEN elements ELSE Push(elements, missing)
  BY DEF CreateInitArray
<1>4. f \in T \/ Holds(elements, f)
  BY DEF InElements, Holds
<1> HIDE DEF T
<1>5. IsSeq(missing) /\ ToSet(missing) = ToSet(CtorFunctions) \cap T
  BY CtorFunctionsIs, WhereIs DEF ElementsInv
<1>6. T \subseteq ToSet(CtorFunctions) /\ ToSet(<<>>) = {}
  BY EmptyIsSeq DEF T, ToSet
<1> HIDE DEF missing
<1>7. PICK v : v = elements[1].vector
  OBVIOUS
<1>8. IsSeq(v) /\ elements = One(v)
  BY <1>2, <1>7 DEF IsOne
<1> QED BY <1>3, <1>4, <1>5, <1>6, <1>8, PushHolds

\* A function keeps its address, or is moved to another.
LEMMA AddressesGrow ==
    ASSUME ElementsInv, [Next]_vars, NEW f, HasAddress(f)
    PROVE  HasAddress(f)'
<1>1. CASE CollectCode \/ CollectData
  <2>1. phase \in Collecting /\ phase' \in Collecting
    BY <1>1 DEF CollectCode, CollectData, Collecting
  <2>2. vec' = vec \/ \E g : vec' = Append(vec, g)
    BY <1>1 DEF CollectCode, CollectData, CollectedVec
  <2>3. f \in ToSet(vec) /\ IsSeq(vec)
    BY <2>1, IsSeqLen DEF HasAddress, ElementsInv, Contains, ToSet
  <2>4. IsSeq(vec') /\ f \in ToSet(vec')
    <3>1. PICK v, w : v = vec /\ w = vec'
      OBVIOUS
    <3>2. IsSeq(v) /\ f \in ToSet(v) /\ (w = v \/ \E g : w = Append(v, g))
      BY <2>2, <2>3, <3>1
    <3>3. IsSeq(w) /\ f \in ToSet(w)
      <4>1. \A g : IsSeq(Append(v, g)) /\ ToSet(Append(v, g)) = ToSet(v) \cup {g}
        BY <3>2, AppendIsSeq, AppendToSet
      <4> QED BY <3>2, <4>1
    <3> QED BY <3>1, <3>3
  <2>5. Contains(vec', f)
    BY <2>4, IsSeqLen DEF Contains, ToSet
  <2> QED BY <2>1, <2>5 DEF HasAddress
<1>2. CASE CreateElements
  <2>1. phase \in Collecting /\ phase' \notin Collecting
    BY <1>2 DEF CreateElements, Goto, Collecting
  <2>2. f \in ToSet(vec) /\ IsSeq(vec) /\ ToSet(<<>>) = {}
    BY <2>1, EmptyIsSeq, IsSeqLen DEF HasAddress, ElementsInv, Contains, ToSet
  <2>3. elements' = One(vec)
    BY <1>2, <2>2 DEF CreateElements, One, ElementSegment
  <2> QED BY <2>1, <2>2, <2>3, HoldsIs DEF HasAddress
<1>3. CASE SetupCommonData
  <2>1. phase \notin Collecting /\ phase' \notin Collecting /\ (phase' = "profile" \/ elements' = elements)
    BY <1>3 DEF SetupCommonData, Goto, Collecting
  <2> QED BY <1>3, <2>1, CommonHolds DEF HasAddress
<1>4. CASE CreateInitArray
  <2>1. phase \notin Collecting /\ phase' \notin Collecting
    BY <1>4 DEF CreateInitArray, Goto, Collecting
  <2> QED BY <1>4, <2>1, ArrayHolds DEF HasAddress
<1>5. CASE PartitionMethods
  <2>1. phase = "objc" /\ phase \notin Collecting /\ phase' \notin Collecting
    BY <1>5 DEF PartitionMethods, Goto, Collecting
  <2>2. IsOne(elements)
    BY <2>1 DEF ElementsInv, Collecting, Growing, Whole, Parted, Placed
  <2>3. PICK v, w : v = Others(1) /\ w = AllMethods
    OBVIOUS
  <2>4. /\ elements' = IF w = <<>> THEN One(v) ELSE Two(v, w)
        /\ \A g \in ToSet(elements[1].vector) : g \in ToSet(v) \cup ToSet(w)
        /\ IsSeq(v) /\ Distinct(v) /\ IsSeq(w) /\ Distinct(w) /\ ToSet(v) \cap ToSet(w) = {}
    BY <1>5, <2>2, <2>3, PartitionedIs
  <2>5. f \in ToSet(v) \cup ToSet(w)
    <3>1. PICK u : u = elements[1].vector /\ IsSeq(u) /\ elements = One(u)
      BY <2>2 DEF IsOne
    <3> QED BY <2>1, <2>4, <3>1, HoldsIs DEF HasAddress
  <2>6. w = <<>> => ToSet(w) = {}
    BY EmptyIsSeq DEF ToSet
  <2>7. Holds(elements', f)
    BY <2>4, <2>5, <2>6, HoldsIs
  <2> QED BY <2>1, <2>7 DEF HasAddress
<1>6. ASSUME (LinkNext /\ UNCHANGED relocVars) \/ RelocNext, ~CollectCode, ~CollectData, ~CreateElements, ~SetupCommonData,
             ~CreateInitArray, ~PartitionMethods
      PROVE  UNCHANGED <<vec, elements>> /\ (phase \in Collecting <=> phase' \in Collecting)
  BY <1>6 DEF LinkNext, Resolve, ResolveDone, ReplaceImport, RetargetImports, RemoveImport, RemoveImportDone,
     RetargetCall, RetargetCallDone, MergeStrings, RelocNext, CollectCodeDone, Export, GenerateExports, CreateTableCtor,
     SetupModuleData, WriteHeader, Validate, EncodeExternal, EncodeInternal, Failure, Goto, relocVars, Collecting
<1>7. UNCHANGED vars => UNCHANGED <<phase, vec, elements>>
  BY DEF vars, relocVars
<1>8. CASE UNCHANGED <<vec, elements>> /\ (phase \in Collecting <=> phase' \in Collecting)
  BY <1>8 DEF HasAddress, Holds
<1> QED BY <1>1, <1>2, <1>3, <1>4, <1>5, <1>6, <1>7, <1>8 DEF Next, Stopped

-----------------------------------------------------------------------------
(* Every relocation has an instruction (InstsInv) *)

\* The ids stay when a call becomes two instructions, the first with its id.
LEMMA CalledIds ==
    ASSUME NEW is, IsSeq(is), NEW n \in DOMAIN is, NEW x, x.id = is[n].id, NEW y
    PROVE  Ids(is) \subseteq Ids(Called(is, n, x, y)) /\ Ids(Called(is, n, x, y)) \subseteq Ids(is) \cup {y.id}
<1>1. PICK new : new = Called(is, n, x, y)
  OBVIOUS
<1>2. /\ IsSeq(new) /\ Len(new) = Len(is) + 1
      /\ \A k \in DOMAIN new : new[k] = IF k < n THEN is[k] ELSE IF k = n THEN x ELSE IF k = n + 1 THEN y ELSE is[k - 1]
  BY <1>1, CalledIs
<1>3. Len(is) \in Nat /\ DOMAIN is = 1 .. Len(is) /\ DOMAIN new = 1 .. Len(is) + 1
  BY <1>2, IsSeqLen
<1>4. ASSUME NEW k \in DOMAIN is PROVE \E j \in DOMAIN new : new[j].id = is[k].id
  <2>1. CASE k <= n
    <3>1. k \in DOMAIN new /\ new[k].id = is[k].id
      BY <1>2, <1>3, <2>1
    <3> QED BY <3>1
  <2>2. CASE k > n
    <3>1. k + 1 \in DOMAIN new /\ ~(k + 1 < n) /\ k + 1 # n /\ k + 1 # n + 1 /\ (k + 1) - 1 = k
      BY <1>3, <2>2
    <3>2. new[k + 1] = is[k]
      BY <1>2, <3>1
    <3> QED BY <3>1, <3>2
  <2> QED BY <1>3, <2>1, <2>2
<1>5. ASSUME NEW k \in DOMAIN new PROVE new[k].id \in Ids(is) \cup {y.id}
  <2>1. CASE k <= n + 1
    BY <1>2, <1>3, <2>1 DEF Ids
  <2>2. CASE k > n + 1
    <3>1. k - 1 \in DOMAIN is /\ new[k] = is[k - 1]
      BY <1>2, <1>3, <2>2
    <3> QED BY <3>1 DEF Ids
  <2> QED BY <1>3, <2>1, <2>2
<1> QED BY <1>1, <1>4, <1>5 DEF Ids

LEMMA InstsInit == InitRelocs => InstsInv
<1> SUFFICES ASSUME InitRelocs PROVE InstsInv
  OBVIOUS
<1>1. codeRelocs = program.codeRelocs /\ body = program.body
  BY DEF InitRelocs, Init
<1> QED BY <1>1 DEF InstsInv

\* The relocations there were keep their instructions, and others have some.
LEMMA InstsKept ==
    ASSUME InstsInv, program' = program, NEW is, is = body', Ids(body) \subseteq Ids(is), Ids(is) \subseteq Ids(body) \cup {0},
           NEW new, new = codeRelocs',
           \A k \in DOMAIN new : new[k].inst \in Ids(is) \/ (k \in DOMAIN codeRelocs /\ new[k].inst = codeRelocs[k].inst),
           phase \in Tabled => phase' \in Tabled /\ inits' = inits
    PROVE  InstsInv'
<1>1. Ids(body)' = Ids(is)
  BY DEF Ids
<1>2. Ids(program.body)' = Ids(program.body)
  OBVIOUS
<1>3. Ids(is) \subseteq Ids(program.body) \cup {0}
  BY DEF InstsInv
<1>4. ASSUME NEW k \in DOMAIN new
      PROVE  \/ new[k].inst \in Ids(is)
             \/ phase \in Tabled /\ \E j \in DOMAIN inits : inits[j].inst = new[k].inst
             \/ k \in DOMAIN program.codeRelocs /\ program.codeRelocs[k].inst \notin Ids(program.body)
  BY <1>4 DEF InstsInv
<1> QED BY <1>1, <1>2, <1>3, <1>4 DEF InstsInv

LEMMA InstsCall ==
    ASSUME InstsInv, CodeInv, BodyInv, LinkInv, RetargetCall
    PROVE  InstsInv'
<1>1. phase = "calls" /\ i <= Len(body) /\ phase \notin Tabled /\ IsSeq(body) /\ program' = program
  BY DEF RetargetCall, Tabled, Parted, Placed, BodyInv
<1>2. PICK is, relocs, inst, new, n, more :
        /\ is = body /\ relocs = codeRelocs /\ inst = body[i] /\ new = Get(toTable, inst.arg) /\ n = i /\ more = codeRelocs'
  OBVIOUS
<1>3. IsSeq(is) /\ n \in DOMAIN is /\ is[n] = inst /\ IsSeq(relocs)
  BY <1>1, <1>2, IsSeqLen DEF LinkInv, CodeInv, CodeOK
<1>4. \A k \in DOMAIN is : DOMAIN is[k] = InstFields
  BY <1>1, <1>2 DEF BodyInv, BodyOK, Before
<1> DEFINE x == Inst("i32.const", Nothing, inst.id)
           y == Inst("call_indirect", Nothing, 0)
           r == [type |-> "TABLE_INDEX_SLEB", ref |-> RuntimeRef(new.module, new.name), inst |-> inst.id, addend |-> 0]
<1>5. \/ body' = Called(is, n, x, y) /\ more = Append(relocs, r)
      \/ body' = [is EXCEPT ![n].arg = new] /\ more = relocs
      \/ body' = is /\ more = relocs
  BY <1>2 DEF RetargetCall, Called
<1>6. x.id = inst.id /\ y.id = 0 /\ r.inst = inst.id /\ inst.id \in Ids(is)
  BY <1>3 DEF Inst, Ids
<1> HIDE DEF x, y, r
<1>7. PICK js : js = body'
  OBVIOUS
<1>8. Ids(is) \subseteq Ids(js) /\ Ids(js) \subseteq Ids(is) \cup {0}
  <2>1. CASE js = Called(is, n, x, y)
    BY <1>3, <1>6, <2>1, CalledIds
  <2>2. CASE js = [is EXCEPT ![n].arg = new]
    BY <1>3, <1>4, <2>2 DEF Ids, InstFields
  <2> QED BY <1>2, <1>5, <1>7, <2>1, <2>2
<1>9. \A k \in DOMAIN more : more[k].inst = inst.id \/ (k \in DOMAIN relocs /\ more[k].inst = relocs[k].inst)
  <2>1. CASE more = Append(relocs, r)
    <3>1. /\ IsSeq(more) /\ Len(more) = Len(relocs) + 1
          /\ \A k \in 1 .. Len(relocs) : more[k] = relocs[k]
          /\ more[Len(relocs) + 1] = r
      BY <1>3, <2>1, AppendIsSeq
    <3>2. Len(relocs) \in Nat /\ DOMAIN relocs = 1 .. Len(relocs) /\ DOMAIN more = 1 .. Len(relocs) + 1
      BY <1>3, <3>1, IsSeqLen
    <3> QED BY <1>6, <3>1, <3>2
  <2> QED BY <1>2, <1>5, <2>1
<1> QED BY <1>1, <1>2, <1>6, <1>7, <1>8, <1>9, InstsKept

LEMMA InstsTable ==
    ASSUME InstsInv, CodeInv, TablesInv, CreateTableCtor
    PROVE  InstsInv'
<1>1. /\ phase = "table" /\ phase' = "dynsym" /\ body' = body /\ program' = program
      /\ codeRelocs' = codeRelocs \o Destinations /\ inits' = Inits
  BY DEF CreateTableCtor, Goto, Destinations, Inits
<1>2. phase \notin Tabled /\ phase' \in Tabled /\ phase \in Parted
  BY <1>1 DEF Tabled, Parted, Placed
<1>3. /\ IsSeq(Destinations) /\ DOMAIN Destinations = DOMAIN Initialised
      /\ \A k \in DOMAIN Destinations : Destinations[k].inst = -Initialised[k]
  BY <1>2, DestinationsAre DEF TablesInv
<1>4. DOMAIN Inits = DOMAIN Initialised /\ \A k \in DOMAIN Inits : Inits[k].inst = -Initialised[k]
  BY DEF Inits, InitOf, DestinationId
<1>5. PICK s, t, u, v : s = codeRelocs /\ t = Destinations /\ u = codeRelocs' /\ v = Inits
  OBVIOUS
<1>6. \A k \in DOMAIN u : (k \in DOMAIN s /\ u[k] = s[k]) \/ \E j \in DOMAIN t : u[k] = t[j]
  BY <1>1, <1>3, <1>5, ConcatElements DEF CodeInv, CodeOK
<1>7. \A j \in DOMAIN t : \E m \in DOMAIN v : v[m].inst = t[j].inst
  BY <1>3, <1>4, <1>5
<1> DEFINE Dropped(k) == k \in DOMAIN program.codeRelocs /\ program.codeRelocs[k].inst \notin Ids(program.body)
<1>8. \A k \in DOMAIN s : s[k].inst \in Ids(body) \/ Dropped(k)
  BY <1>2, <1>5 DEF InstsInv
<1>9. \A k \in DOMAIN u : u[k].inst \in Ids(body) \/ (\E m \in DOMAIN v : v[m].inst = u[k].inst) \/ Dropped(k)
  <2> HIDE DEF Dropped
  <2> QED BY <1>6, <1>7, <1>8
<1>10. Ids(body)' = Ids(body) /\ Ids(program.body)' = Ids(program.body) /\ \A k : Dropped(k)' = Dropped(k)
  BY <1>1 DEF Ids
<1>11. Ids(body) \subseteq Ids(program.body) \cup {0}
  BY DEF InstsInv
<1> QED BY <1>1, <1>2, <1>5, <1>9, <1>10, <1>11 DEF InstsInv

LEMMA InstsStep == InstsInv /\ CodeInv /\ BodyInv /\ LinkInv /\ TablesInv /\ [Next]_vars => InstsInv'
<1> SUFFICES ASSUME InstsInv, CodeInv, BodyInv, LinkInv, TablesInv, [Next]_vars PROVE InstsInv'
  OBVIOUS
<1>1. CASE RetargetCall \/ CreateTableCtor
  BY <1>1, InstsCall, InstsTable
<1>2. CASE RetargetImports
  <2>1. phase \notin Tabled /\ UNCHANGED <<program, codeRelocs>>
    BY <1>2 DEF RetargetImports, Tabled, Parted, Placed
  <2>2. \A k \in DOMAIN body : DOMAIN body[k] = InstFields
    BY <1>2 DEF RetargetImports, BodyInv, BodyOK, Before
  <2>3. PICK is, js : is = body /\ js = body'
    OBVIOUS
  <2>4. DOMAIN js = DOMAIN is /\ \A k \in DOMAIN is : js[k].id = is[k].id
    BY <1>2, <2>2, <2>3 DEF RetargetImports, InstFields
  <2>5. Ids(is) = Ids(js)
    BY <2>4 DEF Ids
  <2> QED BY <2>1, <2>3, <2>5, InstsKept
<1>3. CASE MergeStrings \/ CollectCode
  <2>1. phase \notin Tabled /\ UNCHANGED <<program, body>>
    BY <1>3 DEF MergeStrings, CollectCode, Tabled, Parted, Placed
  <2>2. PICK relocs, new : relocs = codeRelocs /\ new = codeRelocs'
    OBVIOUS
  <2>3. \A k \in DOMAIN relocs : DOMAIN relocs[k] = CodeFields
    BY <2>2 DEF CodeInv, CodeOK
  <2>4. \/ new = [k \in DOMAIN relocs |-> [relocs[k] EXCEPT !.ref = KeptRef(relocs[k].ref)]]
        \/ new = Recollected(relocs)
        \/ new = relocs
    BY <1>3, <2>2 DEF MergeStrings, CollectCode
  <2>5. DOMAIN new = DOMAIN relocs /\ \A k \in DOMAIN relocs : new[k].inst = relocs[k].inst
    BY <2>3, <2>4 DEF CodeFields, Recollected
  <2> QED BY <2>1, <2>2, <2>5, InstsKept
<1>4. ASSUME (LinkNext /\ UNCHANGED relocVars) \/ RelocNext,
             ~RetargetCall, ~RetargetImports, ~MergeStrings, ~CollectCode, ~CreateTableCtor
      PROVE  UNCHANGED <<program, codeRelocs, body>> /\ (phase \in Tabled => phase' \in Tabled /\ inits' = inits)
  BY <1>4 DEF LinkNext, Resolve, ResolveDone, ReplaceImport, RemoveImport, RemoveImportDone,
     RetargetCallDone, RelocNext, CollectCodeDone, CollectData, CreateElements, PartitionMethods,
     Export, SetupCommonData, GenerateExports, CreateInitArray, SetupModuleData, LinkedElsewhere,
     WriteHeader, Validate, EncodeExternal, EncodeInternal, Failure, Goto, linkVars, relocVars, Tabled, Parted, Placed
<1>5. UNCHANGED vars => UNCHANGED <<phase, program, codeRelocs, body, inits>>
  BY DEF vars, linkVars, relocVars
<1>6. CASE UNCHANGED <<program, codeRelocs, body>> /\ (phase \in Tabled => phase' \in Tabled /\ inits' = inits)
  BY <1>6, InstsKept
<1> QED BY <1>1, <1>2, <1>3, <1>4, <1>5, <1>6 DEF Next, Stopped

\* A relocation without an offset is in a function that was dropped.
LEMMA OffsetsKnown ==
    ASSUME InstsInv, CodeInv, BodyInv, IsSeq(inits), NEW r \in ToSet(codeRelocs), Unplaced(r)
    PROVE  DroppedCode
<1>1. PICK k \in DOMAIN codeRelocs : codeRelocs[k] = r
  BY DEF ToSet
<1>2. PICK id : id = r.inst
  OBVIOUS
<1>3. /\ IsSeq(body) /\ Len(body) \in Nat /\ DOMAIN body = 1 .. Len(body)
      /\ Len(inits) \in Nat /\ DOMAIN inits = 1 .. Len(inits)
  BY IsSeqLen DEF BodyInv
<1>4. ASSUME (\E j \in DOMAIN body : body[j].id = id) \/ (\E j \in DOMAIN inits : inits[j].inst = id) PROVE FALSE
  <2> DEFINE I == {j \in 1 .. Len(body) : body[j].id = id}
             J == {j \in 1 .. Len(inits) : inits[j].inst = id}
  <2>1. InBody(id) = FirstOf(I) /\ InCtor(id) = FirstOf(J) /\ (I # {} \/ J # {})
    BY <1>3, <1>4 DEF InBody, InCtor
  <2>2. I \in SUBSET (1 .. Len(body)) /\ J \in SUBSET (1 .. Len(inits))
    OBVIOUS
  <2>3. 0 \notin I /\ 0 \notin J
    BY <1>3
  <2> HIDE DEF I, J
  <2>4. InBody(id) # 0 \/ InCtor(id) # 0
    BY <1>3, <2>1, <2>2, <2>3, FirstOfIs
  <2>5. InBody(id) # 0 => InBody(id) \in 1 .. Len(body) /\ CodeOffset(id) = 60 * InBody(id)
    BY <1>3, CodeOffsetIs
  <2>6. InBody(id) = 0 => InCtor(id) \in 1 .. Len(inits) /\ CodeOffset(id) = 60 * (Len(body) + 4 * InCtor(id))
    BY <1>3, <2>4, CodeOffsetIs
  <2>7. CodeOffset(id) \in Nat /\ CodeOffset(id) # 0
    BY <1>3, <2>5, <2>6
  <2> QED BY <1>2, <2>7 DEF Unplaced
<1>5. k \in DOMAIN program.codeRelocs /\ program.codeRelocs[k].inst \notin Ids(program.body)
  BY <1>1, <1>2, <1>4 DEF InstsInv, Ids
<1> QED BY <1>5 DEF DroppedCode, Ids

\* A word without a section is in a segment that was dropped.
LEMMA SectionsKnown ==
    ASSUME DataInv, SegmentsInv, NEW r \in ToSet(dataRelocs), Unsectioned(r)
    PROVE  DroppedData
<1>1. PICK k \in DOMAIN dataRelocs : dataRelocs[k] = r
  BY DEF ToSet
<1>2. ~InSegment(r)
  <2>1. SUFFICES ASSUME NEW d \in ToSet(program.segments), ~d.string, d.name = r.segment PROVE FALSE
    BY DEF InSegment
  <2>2. d \in ToSet(segments)
    BY <2>1 DEF SegmentsInv
  <2> QED BY <2>1, <2>2 DEF Unsectioned, HasSegment, ToSet
<1>3. r.segment \notin Filled
  BY DEF Unsectioned, Filled, Added
<1>4. Gone(r)
  BY <1>1, <1>2, <1>3 DEF DataInv
<1> QED BY <1>4 DEF Gone, Worded, DroppedData, ToSet

\* What is written was given an offset and a section.
LEMMA WrittenNotDropped ==
    ASSUME FixesInv, InstsInv, phase = "written"
    PROVE  ~DroppedCode /\ ~DroppedData
<1>1. /\ program \in Programs /\ IsSeq(body) /\ IsSeq(inits) /\ SplitInv /\ CodeInv /\ DataInv /\ SegmentsInv /\ FileInv
      /\ phase \in Tabled /\ phase \in Sorted /\ phase \in Parted
  BY DEF FixesInv, DataInv, BodyInv, TableInv, Tabled, Sorted, Parted, Placed
<1>2. ASSUME NEW k \in DOMAIN program.codeRelocs, \A j \in DOMAIN program.body : program.body[j].id # program.codeRelocs[k].inst
      PROVE  FALSE
  <2>1. PICK r, id : r = codeRelocs[k] /\ id = r.inst
    OBVIOUS
  <2>2. k \in DOMAIN codeRelocs /\ id = program.codeRelocs[k].inst /\ id \in Nat /\ id # 0
    BY <1>1, <1>2, <2>1, ProgramRelocs, RelocsAssumption DEF CodeInv, CodeOK
  <2>3. r \in ToSet(parts.intCode) \cup ToSet(parts.extCode)
    BY <1>1, <2>1, <2>2 DEF SplitInv, Split, ToSet
  <2>4. ~Unplaced(r)
    BY <1>1, <2>3 DEF FileInv, BadOffset, ToSet
  <2>5. \/ InBody(id) \in DOMAIN body /\ body[InBody(id)].id = id
        \/ InCtor(id) \in DOMAIN inits /\ inits[InCtor(id)].inst = id
    <3>1. /\ InBody(id) # 0 => InBody(id) \in 1 .. Len(body) /\ body[InBody(id)].id = id
          /\ InCtor(id) # 0 => InCtor(id) \in 1 .. Len(inits) /\ inits[InCtor(id)].inst = id
          /\ InBody(id) # 0 \/ InCtor(id) # 0
      BY <1>1, <2>1, <2>4, CodeOffsetIs DEF Unplaced
    <3>2. DOMAIN body = 1 .. Len(body) /\ DOMAIN inits = 1 .. Len(inits)
      BY <1>1, IsSeqLen
    <3> QED BY <3>1, <3>2
  <2>6. id \notin Ids(body)
    BY <1>2, <2>2 DEF InstsInv, Ids
  <2>7. \A j \in DOMAIN inits : inits[j].inst # id
    <3>1. inits = Inits /\ Tables(objcElem, elements)
      BY <1>1 DEF FixesInv, TableInv, TablesInv
    <3>2. \A j \in DOMAIN Initialised : Initialised[j] \in {1, 2}
      BY <3>1, InitialisedIs DEF ToSet
    <3>3. \A j \in DOMAIN Inits : Inits[j].inst = -Initialised[j] /\ j \in DOMAIN Initialised
      BY DEF Inits, InitOf, DestinationId
    <3> QED BY <2>2, <3>1, <3>2, <3>3
  <2> QED BY <2>5, <2>6, <2>7 DEF Ids
<1>3. ASSUME NEW k \in DOMAIN program.dataRelocs, \A j \in DOMAIN program.segments : program.segments[j].name # program.dataRelocs[k].segment
      PROVE  FALSE
  <2>1. PICK r : r = dataRelocs[k]
    OBVIOUS
  <2>2. r \in ToSet(dataRelocs) /\ r.segment = program.dataRelocs[k].segment
    BY <1>1, <2>1 DEF DataInv, DataOK, ToSet
  <2>3. Word(r)
    BY <1>1, <2>2, WrittenWord
  <2>4. r.segment \notin Added
    BY <1>1, <2>2, SectionsAssumption
  <2>5. InSegment(r)
    BY <2>3, <2>4 DEF Word
  <2> QED BY <1>3, <2>2, <2>5 DEF InSegment, ToSet
<1> QED BY <1>2, <1>3 DEF DroppedCode, DroppedData

-----------------------------------------------------------------------------
(* What was looked at has an address (GivenInv) *)

LEMMA MethodsStep == MethodsInv /\ ElementsInv /\ [Next]_vars => MethodsInv'
<1> SUFFICES ASSUME MethodsInv, ElementsInv, [Next]_vars PROVE MethodsInv'
  OBVIOUS
<1>1. CASE PartitionMethods
  <2>1. IsOne(elements) /\ objcElem' = (AllMethods # <<>>)
    BY <1>1 DEF PartitionMethods, ElementsInv, Collecting, Growing, Whole, Parted, Placed
  <2>2. PICK v, w : v = Others(1) /\ w = AllMethods
    OBVIOUS
  <2>3. /\ elements' = IF w = <<>> THEN One(v) ELSE Two(v, w)
        /\ IsSeq(v) /\ Distinct(v) /\ IsSeq(w) /\ Distinct(w) /\ ToSet(v) \cap ToSet(w) = {}
    BY <1>1, <2>1, <2>2, PartitionedIs
  <2>4. w # <<>> => elements'[2].vector = w
    BY <2>3, TwoIs
  <2> QED BY <2>1, <2>2, <2>4 DEF MethodsInv
<1>2. ASSUME (LinkNext /\ UNCHANGED relocVars) \/ RelocNext \/ UNCHANGED vars, ~PartitionMethods
      PROVE  phase' \in Parted => phase \in Parted /\ elements' = elements /\ objcElem' = objcElem
  BY <1>2 DEF LinkNext, Resolve, ResolveDone, ReplaceImport, RetargetImports, RemoveImport, RemoveImportDone,
     RetargetCall, RetargetCallDone, MergeStrings, RelocNext, CollectCode, CollectCodeDone, CollectData, CreateElements,
     Export, SetupCommonData, GenerateExports, CreateInitArray, CreateTableCtor, SetupModuleData,
     WriteHeader, Validate, EncodeExternal, EncodeInternal, Failure, Goto, vars, relocVars, Parted, Placed
<1>3. CASE phase' \in Parted => phase \in Parted /\ elements' = elements /\ objcElem' = objcElem
  BY <1>3 DEF MethodsInv
<1> QED BY <1>1, <1>2, <1>3 DEF Next, Stopped

\* Addresses stay given.
LEMMA GivenStays ==
    ASSUME ElementsInv, [Next]_vars, symbols' = symbols
    PROVE  /\ \A r : Given(r) => Given(r)'
           /\ \A ref : Addressing(ref) => Addressing(ref)'
<1>1. \A ref : Referenced(ref)' = Referenced(ref)
  BY DEF Referenced
<1>2. ASSUME NEW r, Given(r) PROVE Given(r)'
  <2>1. PICK v : v = Referenced(r.ref).value
    OBVIOUS
  <2>2. Referenced(r.ref).value' = v
    BY <1>1, <2>1
  <2>3. Tabling(r) /\ v.is = "function" => HasAddress(v)'
    BY <1>2, <2>1, AddressesGrow DEF Given
  <2> QED BY <2>2, <2>3 DEF Given, Tabling
<1>3. ASSUME NEW ref, Addressing(ref) PROVE Addressing(ref)'
  <2>1. PICK s : s = Referenced(ref)
    OBVIOUS
  <2>2. Referenced(ref)' = s
    BY <1>1, <2>1
  <2>3. s.kind = 0 => HasAddress(s.value)'
    BY <1>3, <2>1, AddressesGrow DEF Addressing
  <2> QED BY <1>3, <2>2, <2>3 DEF Addressing
<1> QED BY <1>2, <1>3

\* What a turn of the loops gives.
LEMMA GivenTurn ==
    ASSUME IsSeq(vec), symbols' = symbols, phase' \in Collecting, NEW ref, vec' = CollectedVec(ref),
           NEW r, r.ref = CollectedRef(ref)
    PROVE  Given(r)'
<1>1. PICK v : v = Referenced(ref).value
  OBVIOUS
<1>2. \A x : Referenced(x)' = Referenced(x)
  BY DEF Referenced
<1>3. CASE v.is = "import"
  <2>1. r.ref = Asked(v)
    BY <1>1, <1>3 DEF CollectedRef
  <2>2. Referenced(r.ref).value.is # "function"
    BY <2>1, AskedReferenced
  <2> QED BY <1>2, <2>2 DEF Given
<1>4. CASE v.is = "function"
  <2>1. r.ref = ref
    BY <1>1, <1>4 DEF CollectedRef
  <2>2. vec' = IF ~Contains(vec, v) THEN Append(vec, v) ELSE vec
    BY <1>1, <1>4 DEF CollectedVec
  <2>3. Contains(vec', v)
    <3>1. PICK s : s = vec
      OBVIOUS
    <3>2. IsSeq(Append(s, v)) /\ v \in ToSet(Append(s, v))
      BY <3>1, AppendIsSeq, AppendToSet
    <3>3. Contains(Append(s, v), v)
      BY <3>2, IsSeqLen DEF Contains, ToSet
    <3> QED BY <2>2, <3>1, <3>3
  <2>4. HasAddress(v)'
    BY <2>3 DEF HasAddress
  <2>5. Referenced(r.ref)' = Referenced(ref)
    BY <1>2, <2>1
  <2>6. Referenced(r.ref).value' = v
    BY <1>1, <2>5
  <2> QED BY <2>4, <2>6 DEF Given
<1>5. CASE v.is # "import" /\ v.is # "function"
  <2>1. Referenced(r.ref).value = v
    BY <1>1, <1>5 DEF CollectedRef
  <2> QED BY <1>2, <1>5, <2>1 DEF Given
<1> QED BY <1>3, <1>4, <1>5

LEMMA GivenCode ==
    ASSUME GivenInv, ElementsInv, CodeInv, LinkInv, CollectCode
    PROVE  GivenInv'
<1>1. /\ phase = "code" /\ phase' = "code" /\ i' = i + 1 /\ i \in Nat \ {0} /\ symbols' = symbols /\ [Next]_vars
  BY DEF CollectCode, LinkInv, Next, RelocNext
<1>2. PICK relocs, new : relocs = codeRelocs /\ new = codeRelocs'
  OBVIOUS
<1>3. /\ IsSeq(relocs) /\ DOMAIN new = DOMAIN relocs
      /\ \A k \in DOMAIN relocs : k \in Nat /\ DOMAIN relocs[k] = CodeFields /\ relocs[k].type \in CodeTypes
      /\ i \in DOMAIN relocs
      /\ IF relocs[i].type = "TABLE_INDEX_SLEB"
         THEN /\ vec' = CollectedVec(relocs[i].ref)
              /\ \A k \in DOMAIN relocs :
                    new[k] = IF relocs[k] = relocs[i] THEN [relocs[k] EXCEPT !.ref = CollectedRef(@)] ELSE relocs[k]
         ELSE new = relocs
  <2>1. IsSeq(relocs) /\ i <= Len(relocs) /\ \A k \in DOMAIN relocs : DOMAIN relocs[k] = CodeFields /\ relocs[k].type \in CodeTypes
    BY <1>2 DEF CodeInv, CodeOK, CollectCode
  <2>2. DOMAIN relocs = 1 .. Len(relocs) /\ Len(relocs) \in Nat
    BY <2>1, IsSeqLen
  <2>3. i \in DOMAIN relocs
    BY <1>1, <2>1, <2>2
  <2>4. CASE relocs[i].type = "TABLE_INDEX_SLEB"
    <3>1. new = Recollected(relocs) /\ vec' = CollectedVec(relocs[i].ref)
      BY <1>2, <2>4 DEF CollectCode
    <3> QED BY <2>1, <2>2, <2>3, <2>4, <3>1 DEF Recollected
  <2>5. CASE relocs[i].type # "TABLE_INDEX_SLEB"
    <3>1. new = relocs
      BY <1>2, <2>5 DEF CollectCode
    <3> QED BY <2>1, <2>2, <2>3, <2>5, <3>1
  <2> QED BY <2>4, <2>5
<1>4. ASSUME NEW k \in DOMAIN new, k < i + 1 PROVE Given(new[k])'
  <2>1. CASE relocs[k] = relocs[i] /\ relocs[k].type = "TABLE_INDEX_SLEB"
    <3>1. new[k].ref = CollectedRef(relocs[i].ref) /\ vec' = CollectedVec(relocs[i].ref)
      BY <1>3, <1>4, <2>1 DEF CodeFields
    <3>2. IsSeq(vec) /\ phase' \in Collecting
      BY <1>1 DEF ElementsInv, Collecting
    <3> QED BY <1>1, <3>1, <3>2, GivenTurn
  <2>2. CASE relocs[k] = relocs[i] /\ relocs[k].type # "TABLE_INDEX_SLEB"
    <3>1. new[k] = relocs[k]
      BY <1>3, <1>4, <2>2
    <3>2. ~Tabling(new[k])
      BY <1>3, <1>4, <2>2, <3>1 DEF Tabling, CodeTypes
    <3> QED BY <3>2 DEF Given, Tabling
  <2>3. CASE relocs[k] # relocs[i]
    <3>1. k \in DOMAIN relocs /\ k < i /\ new[k] = relocs[k]
      BY <1>1, <1>3, <1>4, <2>3
    <3>2. Given(relocs[k])
      BY <1>1, <1>2, <3>1 DEF GivenInv
    <3> QED BY <1>1, <3>1, <3>2, GivenStays
  <2> QED BY <2>1, <2>2, <2>3
<1> QED BY <1>1, <1>2, <1>4 DEF GivenInv

LEMMA GivenData ==
    ASSUME GivenInv, ElementsInv, DataInv, LinkInv, CollectData
    PROVE  GivenInv'
<1>1. /\ phase = "data" /\ phase' = "data" /\ i' = i + 1 /\ i \in Nat \ {0} /\ symbols' = symbols /\ [Next]_vars
      /\ codeRelocs' = codeRelocs
  BY DEF CollectData, LinkInv, Next, RelocNext
<1>2. PICK relocs, new, code : relocs = dataRelocs /\ new = dataRelocs' /\ code = codeRelocs
  OBVIOUS
<1>3. /\ IsSeq(relocs) /\ DOMAIN new = DOMAIN relocs
      /\ \A k \in DOMAIN relocs : k \in Nat /\ DOMAIN relocs[k] = DataFields /\ relocs[k].type \in DataTypes
      /\ i \in DOMAIN relocs
      /\ IF relocs[i].type = "TABLE_INDEX_I32"
         THEN /\ vec' = CollectedVec(relocs[i].ref)
              /\ \A k \in DOMAIN relocs :
                    new[k] = IF relocs[k] = relocs[i] THEN [relocs[k] EXCEPT !.ref = CollectedRef(@)] ELSE relocs[k]
         ELSE new = relocs
  <2>1. IsSeq(relocs) /\ i <= Len(relocs) /\ \A k \in DOMAIN relocs : DOMAIN relocs[k] = DataFields /\ relocs[k].type \in DataTypes
    BY <1>2 DEF DataInv, DataOK, CollectData
  <2>2. DOMAIN relocs = 1 .. Len(relocs) /\ Len(relocs) \in Nat
    BY <2>1, IsSeqLen
  <2>3. i \in DOMAIN relocs
    BY <1>1, <2>1, <2>2
  <2>4. CASE relocs[i].type = "TABLE_INDEX_I32"
    <3>1. new = Recollected(relocs) /\ vec' = CollectedVec(relocs[i].ref)
      BY <1>2, <2>4 DEF CollectData
    <3> QED BY <2>1, <2>2, <2>3, <2>4, <3>1 DEF Recollected
  <2>5. CASE relocs[i].type # "TABLE_INDEX_I32"
    <3>1. new = relocs
      BY <1>2, <2>5 DEF CollectData
    <3> QED BY <2>1, <2>2, <2>3, <2>5, <3>1
  <2> QED BY <2>4, <2>5
<1>4. ASSUME NEW k \in DOMAIN new, k < i + 1 PROVE Given(new[k])'
  <2>1. CASE relocs[k] = relocs[i] /\ relocs[k].type = "TABLE_INDEX_I32"
    <3>1. new[k].ref = CollectedRef(relocs[i].ref) /\ vec' = CollectedVec(relocs[i].ref)
      BY <1>3, <1>4, <2>1 DEF DataFields
    <3>2. IsSeq(vec) /\ phase' \in Collecting
      BY <1>1 DEF ElementsInv, Collecting
    <3> QED BY <1>1, <3>1, <3>2, GivenTurn
  <2>2. CASE relocs[k] = relocs[i] /\ relocs[k].type # "TABLE_INDEX_I32"
    <3>1. new[k] = relocs[k]
      BY <1>3, <1>4, <2>2
    <3>2. ~Tabling(new[k])
      BY <1>3, <1>4, <2>2, <3>1 DEF Tabling, DataTypes
    <3> QED BY <3>2 DEF Given, Tabling
  <2>3. CASE relocs[k] # relocs[i]
    <3>1. k \in DOMAIN relocs /\ k < i /\ new[k] = relocs[k]
      BY <1>1, <1>3, <1>4, <2>3
    <3>2. Given(relocs[k])
      BY <1>1, <1>2, <3>1 DEF GivenInv
    <3> QED BY <1>1, <3>1, <3>2, GivenStays
  <2> QED BY <2>1, <2>2, <2>3
<1>5. ASSUME NEW k \in DOMAIN code PROVE Given(code[k])'
  BY <1>1, <1>2, GivenStays DEF GivenInv
<1> QED BY <1>1, <1>2, <1>4, <1>5 DEF GivenInv

\* The loops give every reference what it needs.
LEMMA GivenStep ==
    GivenInv /\ ElementsInv /\ CodeInv /\ DataInv /\ LinkInv /\ [Next]_vars /\ CodeInv' /\ DataInv' => GivenInv'
<1> SUFFICES ASSUME GivenInv, ElementsInv, CodeInv, DataInv, LinkInv, [Next]_vars, CodeInv', DataInv' PROVE GivenInv'
  OBVIOUS
<1>1. CASE CollectCode \/ CollectData
  BY <1>1, GivenCode, GivenData
<1>2. PICK code, data : code = codeRelocs /\ data = dataRelocs
  OBVIOUS
<1>3. /\ i \in Nat /\ IsSeq(code) /\ IsSeq(data)
      /\ \A k \in DOMAIN code : k \in 1 .. Len(code) /\ Len(code) \in Nat
      /\ \A k \in DOMAIN data : k \in 1 .. Len(data) /\ Len(data) \in Nat
  BY <1>2, IsSeqLen DEF CodeInv, CodeOK, DataInv, DataOK, LinkInv
<1>4. CASE CollectCodeDone \/ CreateElements \/ Export
  <2>1. /\ UNCHANGED <<symbols, codeRelocs, dataRelocs>> /\ i' = 1
        /\ \/ phase = "code" /\ phase' = "data" /\ i > Len(code)
           \/ phase = "data" /\ phase' = "export" /\ i > Len(data)
           \/ phase = "export" /\ phase' = "common"
    BY <1>2, <1>4 DEF CollectCodeDone, CreateElements, Export, Goto, linkVars
  <2>2. ASSUME NEW k \in DOMAIN code PROVE Given(code[k])'
    <3>1. Given(code[k])
      BY <1>2, <1>3, <2>1 DEF GivenInv
    <3> QED BY <2>1, <3>1, GivenStays
  <2>3. ASSUME NEW k \in DOMAIN data, phase # "code" PROVE Given(data[k])'
    <3>1. Given(data[k])
      BY <1>2, <1>3, <2>1, <2>3 DEF GivenInv
    <3> QED BY <2>1, <3>1, GivenStays
  <2>4. phase = "code" => \A k \in DOMAIN data : ~(k < 1)
    BY <1>3
  <2> QED BY <1>2, <2>1, <2>2, <2>3, <2>4 DEF GivenInv
<1>5. CASE MergeStrings
  <2>1. phase' = "code" /\ i' = 1
    BY <1>5 DEF MergeStrings, Goto
  <2>2. PICK new : new = codeRelocs'
    OBVIOUS
  <2>3. \A k \in DOMAIN new : ~(k < 1)
    BY <2>2, IsSeqLen DEF CodeInv, CodeOK
  <2> QED BY <2>1, <2>2, <2>3 DEF GivenInv
<1>6. ASSUME (LinkNext /\ UNCHANGED relocVars) \/ RelocNext, ~CollectCode, ~CollectData, ~CollectCodeDone, ~CreateElements,
             ~Export, ~MergeStrings
      PROVE  phase' \notin {"code", "data", "export", "common"}
  BY <1>6 DEF LinkNext, Resolve, ResolveDone, ReplaceImport, RetargetImports, RemoveImport, RemoveImportDone,
     RetargetCall, RetargetCallDone, RelocNext, PartitionMethods, SetupCommonData, GenerateExports, CreateInitArray,
     CreateTableCtor, SetupModuleData, WriteHeader, Validate, EncodeExternal, EncodeInternal, Failure, Goto
<1>7. CASE phase' \notin {"code", "data", "export", "common"}
  BY <1>7 DEF GivenInv
<1>8. CASE UNCHANGED vars
  <2>1. UNCHANGED <<symbols, phase, i, codeRelocs, dataRelocs>>
    BY <1>8 DEF vars, linkVars
  <2>2. ASSUME NEW r, Given(r) PROVE Given(r)'
    BY <2>1, <2>2, GivenStays
  <2>3. /\ \A k \in DOMAIN code : phase \in {"data", "export", "common"} \/ (phase = "code" /\ k < i) => Given(code[k])'
        /\ \A k \in DOMAIN data : phase \in {"export", "common"} \/ (phase = "data" /\ k < i) => Given(data[k])'
    BY <1>2, <2>2 DEF GivenInv
  <2> QED BY <1>2, <2>1, <2>3 DEF GivenInv
<1> QED BY <1>1, <1>4, <1>5, <1>6, <1>7, <1>8 DEF Next, Stopped

-----------------------------------------------------------------------------
(* What the module answers has an address (HeldInv) *)

LEMMA HeldMore ==
    ASSUME HeldInv, ElementsInv, [Next]_vars, phase \in Sorted, symbols' = symbols, dynsym' = dynsym,
           NEW rs, rs = ToSet(parts.intCode) \cup ToSet(parts.intData),
           NEW new, new = ToSet(parts'.intCode) \cup ToSet(parts'.intData),
           \A r \in new : r \in rs \/ Addressing(r.ref)' \/ Filling(r)',
           \A r : Filling(r) => Filling(r)'
    PROVE  HeldInv'
<1>1. PICK ds : ds = dynsym
  OBVIOUS
<1>2. ASSUME NEW k \in DOMAIN ds PROVE Addressing(ds[k].ref)'
  BY <1>1, GivenStays DEF HeldInv
<1>3. ASSUME NEW r \in new PROVE Addressing(r.ref)' \/ Filling(r)'
  BY GivenStays DEF HeldInv
<1> QED BY <1>1, <1>2, <1>3 DEF HeldInv

\* What the module answers, when the relocations are sorted.
LEMMA InternalHeld ==
    ASSUME SymbolsInv, LinkInv, NEW r, RefOK(r.ref, DOMAIN symbols), Internal(r), Given(r)
    PROVE  Addressing(r.ref)
<1>1. PICK x : x = r.ref
  OBVIOUS
<1>2. x[1] # "first"
  BY <1>1 DEF RefOK, LinkInv, SymbolsOK
<1>3. CASE Tabling(r)
  BY <1>1, <1>2, <1>3 DEF Addressing, Internal, Given, Tabling
<1>4. CASE ~Tabling(r)
  <2>1. Referenced(x).value.is \in {"segment", "start", "end"}
    BY <1>1, <1>4 DEF Internal, Tabling
  <2>2. x[1] # "runtime"
    <3>1. Nothing.is = "nothing"
      BY DEF Nothing
    <3> QED BY <2>1, <3>1, RuntimeValue
  <2>3. x \in DOMAIN symbols /\ Referenced(x) = symbols[x]
    <3>1. x \in DOMAIN symbols
      BY <1>1, <2>2 DEF RefOK
    <3> QED BY <3>1, SymbolReferenced DEF SymbolsInv
  <2>4. PICK s, s0 : s = symbols[x] /\ s0 = program.symbols[x] /\ SymbolKept(s, s0) /\ program \in Programs /\ x \in DOMAIN program.symbols
    BY <2>3 DEF SymbolsInv
  <2>5. s.kind # 0
    <3>1. s0.kind = 0 => FunctionAssumed(s0)
      BY <2>4, ProgramSymbol
    <3>2. s0.kind = 0 => s0.value.is \in {"import", "function"}
      BY <3>1, FunctionValue
    <3>3. FoundValue(s.value, s0) => s.value.is \in {"import", "runtime"}
      BY FindFuncIs DEF FoundValue
    <3> QED BY <2>1, <2>3, <2>4, <3>2, <3>3 DEF SymbolKept
  <2> QED BY <1>1, <1>2, <2>3, <2>4, <2>5 DEF Addressing
<1> QED BY <1>3, <1>4

LEMMA HeldCommon ==
    ASSUME GivenInv, ElementsInv, SymbolsInv, LinkInv, CodeInv, DataInv, SetupCommonData
    PROVE  HeldInv'
<1>1. phase = "common" /\ symbols' = symbols /\ [Next]_vars
  BY DEF SetupCommonData, linkVars, Next, RelocNext
<1>2. CASE phase' # "profile"
  <2>1. phase' \notin Sorted
    BY <1>2 DEF SetupCommonData, Goto, Sorted, Whole, Parted, Placed
  <2> QED BY <2>1 DEF HeldInv
<1>3. CASE phase' = "profile"
  <2>1. PICK code, data : code = codeRelocs /\ data = dataRelocs
    OBVIOUS
  <2>2. PICK ds, es : ds = dynsym' /\ es = elements'
    OBVIOUS
  <2>3. PICK vd, vf : vd = VisibleData /\ vf = VisibleFunctions
    OBVIOUS
  <2>4. /\ parts'.intCode = Internals(code) /\ parts'.intData = Internals(data)
        /\ ds = Entries(vd, 2) \o Entries(vf, 1)
    <3>1. /\ parts' = [intCode |-> Internals(codeRelocs), extCode |-> Externals(codeRelocs),
                      intData |-> Internals(dataRelocs), extData |-> Externals(dataRelocs)]
          /\ dynsym' = Entries(VisibleData, 2) \o Entries(VisibleFunctions, 1)
      BY <1>3 DEF SetupCommonData
    <3> QED BY <2>1, <2>2, <2>3, <3>1
  <2>5. \A relocs, r : IsSeq(relocs) /\ r \in ToSet(Internals(relocs)) => r \in ToSet(relocs) /\ Internal(r)
    BY WhereIs DEF Internals
  <2>6. /\ IsSeq(code) /\ IsSeq(data)
        /\ \A r \in ToSet(code) \cup ToSet(data) : RefOK(r.ref, DOMAIN symbols) /\ Given(r)
    BY <1>1, <2>1 DEF CodeInv, CodeOK, DataInv, DataOK, LinkInv, RelocsOK, RelocOK, Referring, GivenInv, ToSet
  <2>7. ASSUME NEW r \in ToSet(Internals(code)) \cup ToSet(Internals(data)) PROVE Addressing(r.ref)'
    BY <1>1, <2>5, <2>6, InternalHeld, GivenStays
  <2>8. /\ IsSeq(vd) /\ \A x \in ToSet(vd) : x \in DOMAIN symbols /\ symbols[x].kind = 1
        /\ IsSeq(vf) /\ \A x \in ToSet(vf) : x \in DOMAIN symbols
    <3>1. IsSeq(symtable) /\ ToSet(symtable) \subseteq DOMAIN symbols
      BY SeqIsSeq DEF LinkInv
    <3> DEFINE F == {s \in VisibleOf(0) : ~Skipped(symbols[s])}
               D == {s \in VisibleOf(1) : "EXTERNAL" \notin symbols[s].flags /\ ~Skipped(symbols[s])}
    <3>2. vf = Where(symtable, F) /\ vd = Where(symtable, D)
      BY <2>3 DEF VisibleFunctions, VisibleData
    <3>3. (\A x \in F : x \in DOMAIN symbols) /\ (\A x \in D : x \in DOMAIN symbols /\ symbols[x].kind = 1)
      BY <3>1 DEF VisibleOf
    <3> HIDE DEF F, D
    <3> QED BY <3>1, <3>2, <3>3, WhereIs
  <2>9. ASSUME NEW x \in ToSet(vd) \cup ToSet(vf) PROVE Addressing(x)'
    <3>1. PICK s : s = symbols[x]
      OBVIOUS
    <3>2. Referenced(x) = s /\ x[1] # "first"
      BY <2>8, <3>1, SymbolReferenced DEF SymbolsInv
    <3>3. Referenced(x)' = s
      BY <1>1, <3>2 DEF Referenced
    <3>4. CASE s.kind = 1
      BY <3>2, <3>3, <3>4 DEF Addressing
    <3>5. CASE s.kind # 1
      <4>1. PICK k \in DOMAIN vf : x = vf[k]
        BY <2>8, <3>1, <3>5 DEF ToSet
      <4>2. s.value \in ToSet(Values(VisibleFunctions))
        BY <2>3, <3>1, <4>1 DEF Values, ToSet
      <4>3. Holds(elements', s.value)
        BY <1>3, <4>2, CommonHolds
      <4>4. HasAddress(s.value)'
        BY <1>3, <4>3 DEF HasAddress, Collecting
      <4> QED BY <3>2, <3>3, <4>4 DEF Addressing
    <3> QED BY <3>4, <3>5
  <2>10. ASSUME NEW k \in DOMAIN ds PROVE Addressing(ds[k].ref)'
    <3>1. PICK u, v : u = Entries(vd, 2) /\ v = Entries(vf, 1)
      OBVIOUS
    <3>2. IsSeq(u) /\ IsSeq(v) /\ ds = u \o v
      BY <2>4, <2>8, <3>1, EntriesIs
    <3>3. (\E j \in DOMAIN u : ds[k] = u[j]) \/ (\E j \in DOMAIN v : ds[k] = v[j])
      BY <3>2, ConcatElements, SMTT(30)
    <3>4. /\ \A j \in DOMAIN u : u[j].ref \in ToSet(vd)
          /\ \A j \in DOMAIN v : v[j].ref \in ToSet(vf)
      BY <3>1 DEF Entries, ToSet
    <3> QED BY <2>9, <3>3, <3>4
  <2> QED BY <2>2, <2>4, <2>7, <2>10 DEF HeldInv
<1> QED BY <1>2, <1>3

LEMMA HeldArray ==
    ASSUME HeldInv, ElementsInv, PartsInv, CreateInitArray
    PROVE  HeldInv'
<1>1. /\ phase = "init_array" /\ phase' = "objc" /\ symbols' = symbols /\ dynsym' = dynsym /\ [Next]_vars
      /\ parts' = [parts EXCEPT !.intData = @ \o InitWords]
  BY DEF CreateInitArray, Goto, LinkedElsewhere, AddData, InitWords, Next, RelocNext
<1>2. phase \in Sorted /\ phase \notin Tabled /\ phase' \notin Collecting
  BY <1>1 DEF Sorted, Whole, Tabled, Parted, Placed, Collecting
<1>3. PICK fs, ws : fs = CtorFunctions /\ ws = InitWords
  OBVIOUS
<1>4. IsSeq(ws) /\ IsSeq(parts.intData) /\ parts'.intCode = parts.intCode /\ parts'.intData = parts.intData \o ws
  BY <1>1, <1>3, InitWordsAre DEF PartsInv, ElementsInv
<1>5. ASSUME NEW r \in ToSet(ws) PROVE Addressing(r.ref)'
  <2>1. PICK k \in DOMAIN fs : r.ref = FunctionRef(fs[k])
    BY <1>3 DEF InitWords, PointerTo, ToSet
  <2>2. PICK f, ref : f = fs[k] /\ ref = <<"function", f>>
    OBVIOUS
  <2>3. ref[1] = "function" /\ ref[2] = f /\ r.ref = ref
    BY <2>1, <2>2 DEF FunctionRef
  <2>4. Referenced(ref)'.value = f
    BY <2>3 DEF Referenced
  <2>5. HasAddress(f)'
    BY <1>2, <1>3, <2>2, ArrayHolds DEF HasAddress, ToSet
  <2> QED BY <2>3, <2>4, <2>5 DEF Addressing
<1>6. PICK rs, new : rs = ToSet(parts.intCode) \cup ToSet(parts.intData) /\ new = ToSet(parts'.intCode) \cup ToSet(parts'.intData)
  OBVIOUS
<1>7. new = rs \cup ToSet(ws)
  BY <1>4, <1>6, ConcatElements
<1>8. \A r : ~Filling(r)
  BY <1>2 DEF Filling
<1> QED BY <1>1, <1>2, <1>5, <1>6, <1>7, <1>8, HeldMore

LEMMA FillingStays ==
    ASSUME UNCHANGED <<elements, tableElem, objcElem>>, phase \in Tabled => phase' \in Tabled
    PROVE  \A r : Filling(r) => Filling(r)'
<1>1. PICK ds : ds = Destinations
  OBVIOUS
<1>2. ds = Destinations'
  BY <1>1, InitialisedStays
<1> QED BY <1>1, <1>2 DEF Filling

LEMMA HeldDynsym ==
    ASSUME HeldInv, ElementsInv, PartsInv, SetupModuleData
    PROVE  HeldInv'
<1>1. /\ phase = "dynsym" /\ phase' = "header" /\ symbols' = symbols /\ dynsym' = dynsym /\ [Next]_vars
      /\ parts' = [parts EXCEPT !.intData = @ \o SymbolWords] /\ UNCHANGED <<elements, tableElem, objcElem>>
  BY DEF SetupModuleData, Goto, LinkedElsewhere, AddData, SymbolWords, Next, RelocNext
<1>2. phase \in Sorted /\ phase' \in Tabled
  BY <1>1 DEF Sorted, Whole, Tabled, Parted, Placed
<1>3. PICK ds, ws : ds = dynsym /\ ws = SymbolWords
  OBVIOUS
<1>4. IsSeq(ws) /\ IsSeq(parts.intData) /\ parts'.intCode = parts.intCode /\ parts'.intData = parts.intData \o ws
  BY <1>1, <1>3, SymbolWordsAre DEF PartsInv
<1>5. ASSUME NEW r \in ToSet(ws) PROVE Addressing(r.ref)'
  <2>1. PICK j \in DOMAIN ds : r = NamePointer(j) \/ r = SymbolPointer(j)
    BY <1>3, SymbolWordsAre DEF ToSet, PartsInv
  <2>2. CASE r = NamePointer(j)
    <3>1. r.ref[1] = "dynstr"
      BY <2>2 DEF NamePointer, PointerTo, NameRef
    <3>2. Referenced(r.ref).kind = 1
      BY <3>1 DEF Referenced
    <3>3. Addressing(r.ref)
      BY <3>1, <3>2 DEF Addressing
    <3> QED BY <1>1, <3>3, GivenStays
  <2>3. CASE r = SymbolPointer(j)
    <3>1. r.ref = ds[j].ref
      BY <1>3, <2>3 DEF SymbolPointer, PointerTo
    <3>2. Addressing(r.ref)
      BY <1>2, <1>3, <3>1 DEF HeldInv
    <3> QED BY <1>1, <3>2, GivenStays
  <2> QED BY <2>1, <2>2, <2>3
<1>6. PICK rs, new : rs = ToSet(parts.intCode) \cup ToSet(parts.intData) /\ new = ToSet(parts'.intCode) \cup ToSet(parts'.intData)
  OBVIOUS
<1>7. new = rs \cup ToSet(ws)
  BY <1>4, <1>6, ConcatElements
<1> QED BY <1>1, <1>2, <1>5, <1>6, <1>7, FillingStays, HeldMore

LEMMA HeldTable ==
    ASSUME HeldInv, ElementsInv, PartsInv, TablesInv, CreateTableCtor
    PROVE  HeldInv'
<1>1. /\ phase = "table" /\ phase' = "dynsym" /\ symbols' = symbols /\ dynsym' = dynsym /\ [Next]_vars
      /\ parts' = [parts EXCEPT !.intCode = @ \o Destinations] /\ UNCHANGED <<elements, tableElem, objcElem>>
  BY DEF CreateTableCtor, Goto, Destinations, Next, RelocNext
<1>2. phase \in Sorted /\ phase' \in Tabled /\ phase \in Parted
  BY <1>1 DEF Sorted, Whole, Tabled, Parted, Placed
<1>3. PICK ws : ws = Destinations
  OBVIOUS
<1>4. IsSeq(ws) /\ IsSeq(parts.intCode) /\ parts'.intData = parts.intData /\ parts'.intCode = parts.intCode \o ws
  BY <1>1, <1>2, <1>3, DestinationsAre DEF PartsInv, TablesInv
<1>5. ASSUME NEW r \in ToSet(ws) PROVE Filling(r)'
  <2>1. ws = Destinations'
    BY <1>1, <1>3, InitialisedStays
  <2> QED BY <1>2, <2>1 DEF Filling, ToSet
<1>6. PICK rs, new : rs = ToSet(parts.intCode) \cup ToSet(parts.intData) /\ new = ToSet(parts'.intCode) \cup ToSet(parts'.intData)
  OBVIOUS
<1>7. new = rs \cup ToSet(ws)
  BY <1>4, <1>6, ConcatElements
<1> QED BY <1>1, <1>2, <1>5, <1>6, <1>7, FillingStays, HeldMore

\* Whatever the module answers has an address, or is where a segment begins.
LEMMA HeldStep ==
    HeldInv /\ GivenInv /\ ElementsInv /\ SymbolsInv /\ LinkInv /\ CodeInv /\ DataInv /\ PartsInv /\ TablesInv
    /\ [Next]_vars => HeldInv'
<1> SUFFICES ASSUME HeldInv, GivenInv, ElementsInv, SymbolsInv, LinkInv, CodeInv, DataInv, PartsInv, TablesInv, [Next]_vars
             PROVE  HeldInv'
  OBVIOUS
<1>1. CASE SetupCommonData \/ CreateInitArray \/ SetupModuleData \/ CreateTableCtor
  BY <1>1, HeldCommon, HeldArray, HeldDynsym, HeldTable
<1>2. CASE GenerateExports \/ PartitionMethods \/ WriteHeader \/ Validate \/ EncodeExternal \/ EncodeInternal \/ UNCHANGED vars
  <2>1. /\ UNCHANGED <<symbols, dynsym, parts>> /\ (phase' \in Sorted => phase \in Sorted)
        /\ phase \in Tabled => phase' \in Tabled /\ UNCHANGED <<elements, tableElem, objcElem>>
    BY <1>2 DEF GenerateExports, PartitionMethods, WriteHeader, Validate, EncodeExternal, EncodeInternal,
       Failure, Goto, vars, linkVars, relocVars, Sorted, Whole, Tabled, Parted, Placed
  <2>2. \A r : Filling(r) => Filling(r)'
    <3>1. phase \notin Tabled => \A r : ~Filling(r)
      BY DEF Filling
    <3> QED BY <2>1, <3>1, FillingStays
  <2>3. PICK rs : rs = ToSet(parts.intCode) \cup ToSet(parts.intData)
    OBVIOUS
  <2>4. rs = ToSet(parts'.intCode) \cup ToSet(parts'.intData)
    BY <2>1, <2>3
  <2>5. CASE phase \in Sorted
    BY <2>1, <2>2, <2>3, <2>4, <2>5, HeldMore
  <2>6. CASE phase' \notin Sorted
    BY <2>6 DEF HeldInv
  <2> QED BY <2>1, <2>5, <2>6
<1>3. ASSUME (LinkNext /\ UNCHANGED relocVars) \/ CollectCode \/ CollectCodeDone \/ CollectData \/ CreateElements \/ Export
      PROVE  phase' \notin Sorted
  BY <1>3 DEF LinkNext, Resolve, ResolveDone, ReplaceImport, RetargetImports, RemoveImport, RemoveImportDone,
     RetargetCall, RetargetCallDone, MergeStrings, CollectCode, CollectCodeDone, CollectData, CreateElements,
     Export, Goto, Sorted, Whole, Parted, Placed
<1>4. CASE phase' \notin Sorted
  BY <1>4 DEF HeldInv
<1> QED BY <1>1, <1>2, <1>3, <1>4 DEF Next, RelocNext, Stopped

-----------------------------------------------------------------------------
(* Every program is linked *)

\* A function that has an address is not lost.
LEMMA AddressFound ==
    ASSUME IsSeq(elements), \A k \in DOMAIN elements : IsSeq(elements[k].vector), phase \notin Collecting,
           NEW r, Addressing(r.ref)
    PROVE  ~Lost(r)
<1> SUFFICES ASSUME Referenced(r.ref).kind = 0 PROVE -1 \notin {Source(r)[2], Source(r)[3]}
  BY DEF Lost
<1>1. PICK f : f = Referenced(r.ref).value
  OBVIOUS
<1>2. Source(r)[2] = PlaceOf(f)[1] /\ Source(r)[3] = PlaceOf(f)[2]
  BY <1>1, FunctionSource DEF Addressing
<1>3. InElements(f)
  BY <1>1 DEF Addressing, HasAddress, Holds, InElements
<1>4. -1 \notin {PlaceOf(f)[1], PlaceOf(f)[2]}
  BY <1>3, PlaceOfIs
<1> QED BY <1>2, <1>4

\* What is lost is where the table's segment begins.
LEMMA LostFirst ==
    ASSUME HeldInv, MethodsInv, TablesInv, phase \in Tabled,
           NEW r \in ToSet(parts.intCode) \cup ToSet(parts.intData), Lost(r)
    PROVE  r.ref[1] = "first" /\ tableElem /\ elements[1].vector = <<>>
<1>1. phase \in Sorted /\ phase \in Parted /\ phase \notin Collecting
  BY DEF Sorted, Tabled, Parted, Placed, Collecting
<1>2. IsSeq(elements) /\ \A k \in DOMAIN elements : IsSeq(elements[k].vector)
  BY <1>1, VectorsAre
<1>3. Tables(objcElem, elements)
  BY <1>1 DEF TablesInv
<1>4. PICK j \in DOMAIN Destinations : r = Destinations[j]
  BY <1>1, <1>2, AddressFound DEF HeldInv, Filling
<1>5. PICK n : n \in ToSet(Initialised) /\ r = DestinationReloc(n)
  BY <1>4 DEF Destinations, ToSet
<1>6. n \in {1, 2} /\ (n = 1 => tableElem) /\ (n = 2 => objcElem)
  BY <1>3, <1>5, InitialisedIs
<1>7. n \in DOMAIN elements
  <2>1. IsTwo(elements) => DOMAIN elements = {1, 2}
    BY TwoIs DEF IsTwo
  <2>2. IsOne(elements) => DOMAIN elements = {1}
    BY OneIs DEF IsOne
  <2> QED BY <1>3, <1>6, <2>1, <2>2 DEF Tables
<1>8. elements[n].vector = <<>>
  <2>1. PICK v, o : v = elements[n].vector /\ o = IndexIn(v, v[1])
    OBVIOUS
  <2>2. ASSUME v # <<>> PROVE FALSE
    <3>1. Source(r) = <<2, n - 1, o>> /\ o # -1
      BY <1>2, <1>5, <1>6, <1>7, <2>1, <2>2, DestinationSource
    <3>2. n - 1 # -1
      BY <1>6
    <3> QED BY <3>1, <3>2 DEF Lost
  <2> QED BY <2>1, <2>2
<1>9. r.ref[1] = "first"
  BY <1>5 DEF DestinationReloc
<1> QED BY <1>1, <1>6, <1>8, <1>9 DEF MethodsInv

\* A visible symbol of data has a segment.
LEMMA VisiblePlaced ==
    ASSUME SymbolsInv, LinkInv, NEW x \in ToSet(VisibleData)
    PROVE  symbols[x].value.is = "segment"
<1> DEFINE D == {s \in VisibleOf(1) : "EXTERNAL" \notin symbols[s].flags /\ ~Skipped(symbols[s])}
<1>1. IsSeq(symtable) /\ ToSet(symtable) \subseteq DOMAIN symbols /\ VisibleData = Where(symtable, D)
  BY SeqIsSeq DEF LinkInv, VisibleData
<1>2. x \in D
  <2> HIDE DEF D
  <2> QED BY <1>1, WhereIs
<1>3. x \in DOMAIN symbols /\ symbols[x].kind = 1 /\ ~Undefined(symbols[x]) /\ "EXTERNAL" \notin symbols[x].flags
  BY <1>1, <1>2 DEF VisibleOf, Visible
<1>4. PICK s, s0 : s = symbols[x] /\ s0 = program.symbols[x] /\ SymbolKept(s, s0) /\ program \in Programs /\ x \in DOMAIN program.symbols
  BY <1>3 DEF SymbolsInv
<1>5. s0.kind = 1 /\ ~Undefined(s0)
  BY <1>3, <1>4 DEF SymbolKept, Undefined
<1>6. s0.value = Segment(s0.value.name) /\ s.value = s0.value
  BY <1>3, <1>4, <1>5, DataSymbol, DataValue
<1> QED BY <1>4, <1>6, SegmentIs

LEMMA LinksIs ==
    ASSUME FixesInv, InstsInv, Fails
    PROVE  LinksButKnown
BY WrittenNotDropped DEF LinksButKnown, Fails, Again, Written

\* The last steps: what they end in.
LEMMA LinksEncode ==
    ASSUME HeldInv, MethodsInv, TablesInv, PartsInv, InstsInv, BodyInv, TableInv, SplitInv, CodeInv, DataInv, SegmentsInv,
           EncodeExternal \/ EncodeInternal
    PROVE  phase' \in Thrown =>
              \/ phase' = "INVALID_DST_OFF" /\ DroppedCode
              \/ phase' = "INVALID_DST_IDX" /\ DroppedData
              \/ phase' = "INVALID_SRC_OFF" /\ tableElem /\ elements[1].vector = <<>>
<1>1. phase \in {"external", "internal"}
  BY DEF EncodeExternal, EncodeInternal
<1>2. phase \in Sorted /\ phase \in Tabled
  BY <1>1 DEF Sorted, Tabled, Parted, Placed
<1>3. /\ ToSet(parts.intCode) \cup ToSet(parts.extCode) = ToSet(codeRelocs)
      /\ ToSet(parts.intData) \cup ToSet(parts.extData) = ToSet(dataRelocs)
  BY <1>2 DEF SplitInv, Split
<1>4. ASSUME NEW r \in ToSet(parts.intCode) \cup ToSet(parts.extCode), Unplaced(r)
      PROVE  DroppedCode
  BY <1>3, <1>4, OffsetsKnown DEF TableInv
<1>5. ASSUME NEW r \in ToSet(parts.intData) \cup ToSet(parts.extData), Unsectioned(r)
      PROVE  DroppedData
  BY <1>3, <1>5, SectionsKnown
<1>6. CASE EncodeExternal
  <2>1. BadOffset(parts.extCode) => DroppedCode
    BY <1>4 DEF BadOffset, ToSet
  <2>2. BadIndex(parts.extData) => DroppedData
    BY <1>5 DEF BadIndex, ToSet
  <2> QED BY <1>6, <2>1, <2>2 DEF EncodeExternal, Goto, Thrown
<1>7. CASE EncodeInternal
  <2>1. BadIndex(parts.intData) => DroppedData
    BY <1>5 DEF BadIndex, ToSet
  <2>2. CASE FailingData \o FailingCode = <<>>
    BY <1>7, <2>1, <2>2, InternalIs DEF Thrown
  <2>3. CASE FailingData \o FailingCode # <<>>
    <3>1. PICK r : r = (FailingData \o FailingCode)[1]
      OBVIOUS
    <3>2. r \in ToSet(FailingData \o FailingCode)
      BY <2>3, <3>1, FailingAre, HasFirst
    <3>3. \/ r \in ToSet(parts.intData) \cup ToSet(parts.intCode) /\ Lost(r)
          \/ r \in ToSet(parts.intCode) /\ Unplaced(r)
      BY <3>2, FailingAre
    <3>4. phase' = Failure(r)
      BY <1>7, <2>3, <3>1, InternalIs
    <3>5. CASE Lost(r)
      <4>1. r \in ToSet(parts.intCode) \cup ToSet(parts.intData)
        BY <3>3
      <4>2. r.ref[1] = "first" /\ tableElem /\ elements[1].vector = <<>>
        BY <1>2, <3>5, <4>1, LostFirst
      <4> QED BY <3>4, <3>5, <4>2 DEF Failure
    <3>6. CASE ~Lost(r)
      BY <1>4, <3>3, <3>4, <3>6 DEF Failure
    <3> QED BY <3>5, <3>6
  <2> QED BY <2>2, <2>3
<1> QED BY <1>6, <1>7

LEMMA LinksStep ==
    FixesInv /\ VectorInv' /\ ExportsInv /\ InstsInv /\ HeldInv /\ MethodsInv /\ VectorInv /\ Fails /\ [Next]_vars
    => Fails'
<1> SUFFICES ASSUME FixesInv, VectorInv', ExportsInv, InstsInv, HeldInv, MethodsInv, VectorInv, Fails, [Next]_vars
             PROVE  Fails'
  OBVIOUS
<1>1. Fails' <=>
        (phase' \in Thrown =>
            \/ phase' = "INVALID_DST_OFF" /\ DroppedCode'
            \/ phase' = "INVALID_DST_IDX" /\ DroppedData'
            \/ phase' = "INVALID_SRC_OFF" /\ tableElem' /\ elements'[1].vector = <<>>
            \/ phase' = "WASM_VALIDATION_ERROR" /\ Again')
  BY DEF Fails, Again, Thrown
<1>2. CASE phase' \notin Thrown
  BY <1>1, <1>2
<1>3. CASE UNCHANGED vars
  <2>1. UNCHANGED <<phase, tableElem, elements, program, symbols, symtable>>
    BY <1>3 DEF vars, linkVars, relocVars
  <2>2. Again' = Again
    BY <2>1, ExportListStays
  <2>3. DroppedCode' = DroppedCode /\ DroppedData' = DroppedData
    BY <2>1 DEF DroppedCode, DroppedData
  <2> QED BY <1>1, <2>1, <2>2, <2>3 DEF Fails, Thrown
<1>4. CASE Validate
  <2>1. /\ UNCHANGED <<program, symbols, symtable>>
        /\ phase' = "external" \/ (phase' = "WASM_VALIDATION_ERROR" /\ ~(Firsts(functions) = functions /\ Firsts(exports) = exports))
    BY <1>4 DEF Validate, Goto, linkVars
  <2>2. Firsts(functions) = functions
    BY FirstsSame DEF VectorInv
  <2>3. Again \/ Firsts(exports) = exports
    BY FirstsSame DEF ExportsInv
  <2>4. Again' = Again
    BY <2>1, ExportListStays
  <2> QED BY <1>1, <2>1, <2>2, <2>3, <2>4 DEF Thrown
<1>5. CASE EncodeExternal \/ EncodeInternal
  <2>1. UNCHANGED <<tableElem, elements, program>>
    BY <1>5 DEF EncodeExternal, EncodeInternal, linkVars
  <2>2. DroppedCode' = DroppedCode /\ DroppedData' = DroppedData
    BY <2>1 DEF DroppedCode, DroppedData
  <2> QED BY <1>1, <1>5, <2>1, <2>2, LinksEncode DEF FixesInv
<1>6. CASE SetupCommonData
  <2>1. ~\E s \in ToSet(VisibleData) : symbols[s].value.is # "segment"
    BY VisiblePlaced DEF FixesInv
  <2> QED BY <1>2, <1>6, <2>1 DEF SetupCommonData, Goto, Thrown
<1>7. ASSUME (LinkNext /\ UNCHANGED relocVars) \/ RelocNext, ~Validate, ~EncodeExternal, ~EncodeInternal, ~SetupCommonData
      PROVE  phase' \notin Thrown
  <2>1. phase' # "SCENARIO NOT HANDLED"
    BY DEF VectorInv
  <2>2. phase' = "SCENARIO NOT HANDLED" \/ phase' \notin Thrown
    BY <1>7 DEF LinkNext, Resolve, ResolveDone, ReplaceImport, RetargetImports, RemoveImport, RemoveImportDone,
       RetargetCall, RetargetCallDone, MergeStrings, RelocNext, CollectCode, CollectCodeDone, CollectData, CreateElements,
       PartitionMethods, Export, GenerateExports, CreateInitArray, CreateTableCtor, SetupModuleData, WriteHeader, Goto, Thrown
  <2> QED BY <2>1, <2>2
<1> QED BY <1>2, <1>3, <1>4, <1>5, <1>6, <1>7 DEF Next, Stopped

\* Every program is linked, but for the four that are known: the merges brought a
\* relocation of a function or of a segment that they dropped, the profile asks
\* for a name that is exported already, or the functions of the table's segment
\* are all methods.  dl_setup_common_data and encode find what else they look up,
\* and validateWasmModule nothing else twice; and a program with a relocation of
\* what was dropped is never written.
THEOREM LinksCorrect == Spec => []LinksButKnown
<1> DEFINE Inv == /\ FixesInv /\ VectorInv /\ ExportsInv /\ InstsInv
                  /\ GivenInv /\ HeldInv /\ MethodsInv /\ Fails
<1>1. InitRelocs => Inv
  <2>1. InitRelocs => GivenInv /\ HeldInv /\ MethodsInv /\ Fails
    BY DEF InitRelocs, Init, GivenInv, HeldInv, MethodsInv, Fails, Thrown, Sorted, Whole, Parted, Placed
  <2> QED BY <2>1, FixesInit, VectorInit, ExportsInit, InstsInit
<1>2. Inv /\ [Next]_vars => Inv'
  <2> SUFFICES ASSUME Inv, [Next]_vars PROVE Inv'
    OBVIOUS
  <2>1. FixesInv' /\ VectorInv'
    BY FixesStep, VectorStep DEF FixesInv
  <2>2. ExportsInv' /\ InstsInv'
    BY ExportsStep, InstsStep DEF FixesInv
  <2>3. GivenInv' /\ HeldInv' /\ MethodsInv'
    BY <2>1, GivenStep, HeldStep, MethodsStep DEF FixesInv
  <2>4. Fails'
    BY <2>1, LinksStep
  <2> QED BY <2>1, <2>2, <2>3, <2>4
<1>3. Inv => LinksButKnown
  BY LinksIs
<1> QED BY <1>1, <1>2, <1>3, PTL DEF Spec
=============================================================================
