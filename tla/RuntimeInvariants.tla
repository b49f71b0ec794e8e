--------------------------- MODULE RuntimeInvariants ---------------------------
(***************************************************************************)
(* The inductive invariants of RuntimeRelocs, in named parts, and the      *)
(* names its proofs use for what they are about: the phases by what is     *)
(* known in them, what the program had where the linker has something      *)
(* else, and what the file ought to say.                                   *)
(*                                                                         *)
(* ElementsInv, VectorInv, ArgsInv and CallsInv are about functions;       *)
(* FixesInv, with the rest of the parts, is about relocations; WordsInv    *)
(* and SymtableInv are about what the linker adds to the data; ExportsInv, *)
(* InstsInv, GivenInv and HeldInv are about what could stop the linker.    *)
(***************************************************************************)
EXTENDS RuntimeRelocs, Induction

----------------------------------------------------------------------------
(* A function has one address: the inductive invariant.  The vector and    *)
(* the element segments have each function once; while functions are added *)
(* there is at most one segment, which is split in two afterwards.         *)

Collecting == {"resolve", "imports", "tables", "calls", "strings", "code", "data", "SCENARIO NOT HANDLED"}

Growing == {"export", "common", "data-segment missing data-section"}

Whole == {"profile", "init_array", "objc"}

Placed == {"validate", "external", "internal", "written"}

Parted == {"table", "dynsym", "header", "WASM_VALIDATION_ERROR", "INVALID_DST_OFF", "INVALID_DST_IDX",
           "INVALID_SRC_OFF", "NOT_ELEM_FUNC"} \cup Placed

\* One segment with the vector v; two with v and w.
ElementSegment(name, v) == [name |-> name, vector |-> v]

One(v) == <<ElementSegment("", v)>>

Two(v, w) == One(v) \o <<ElementSegment(Objc, w)>>

IsOne(es) == es = One(es[1].vector) /\ IsSeq(es[1].vector) /\ Distinct(es[1].vector)

IsTwo(es) ==
    /\ es = Two(es[1].vector, es[2].vector)
    /\ IsSeq(es[1].vector) /\ Distinct(es[1].vector)
    /\ IsSeq(es[2].vector) /\ Distinct(es[2].vector)
    /\ ToSet(es[1].vector) \cap ToSet(es[2].vector) = {}

ElementsInv ==
    /\ program \in Programs
    /\ IsSeq(symtable)
    /\ IsSeq(vec) /\ Distinct(vec)
    /\ \/ phase \in Collecting /\ elements = <<>>
       \/ phase \in Growing /\ (elements = <<>> \/ IsOne(elements))
       \/ phase \in Whole /\ IsOne(elements)
       \/ phase \in Parted /\ (IsOne(elements) \/ IsTwo(elements))
    /\ (phase \in Placed /\ start # <<>>) => start = PlaceOf(symbols[StartSymbols[1]].value)

\* The place of the start function, which the header holds.
StartPlace == PlaceOf(symbols[StartSymbols[1]].value)

----------------------------------------------------------------------------
(* The sizes of a group and of a subsection: counted as written.           *)

GroupsOK(groups) == IsSeq(groups) /\ \A k \in DOMAIN groups : PairsOK(groups[k].pairs)

ExternalOK(groups) ==
    /\ IsSeq(groups)
    /\ \A k \in DOMAIN groups :
          /\ PairsOK(groups[k].uleb) /\ PairsOK(groups[k].sleb) /\ PairsOK(groups[k].data)
          /\ Len(groups[k].key[2]) \in Nat

Lengths(pair) == [j \in DOMAIN pair |-> lengthULEB(pair[j])]

----------------------------------------------------------------------------
(* What the sizes are counted from: every name that may reach the file has *)
(* a length, and the relocations stay sequences.                           *)

Referring == Collecting \cup {"export", "common"}

NameOK(n) == Len(n) \in Nat

SymbolOK(s) == {"name", "value"} \subseteq DOMAIN s /\ NameOK(s.name) /\ NameOK(s.value.name)

RefOK(ref, names) == ref \in names \/ (ref[1] = "runtime" /\ NameOK(ref[3]))

RelocOK(r, names) == "ref" \in DOMAIN r /\ RefOK(r.ref, names)

RelocsOK(relocs, names) == IsSeq(relocs) /\ \A k \in DOMAIN relocs : RelocOK(relocs[k], names)

MapOK(map) == IsSeq(map) /\ \A k \in DOMAIN map : NameOK(map[k][2].name)

SymbolsOK(table) == \A s \in DOMAIN table : s[1] = "symbol" /\ SymbolOK(table[s])

LinkInv ==
    /\ i \in Nat \ {0}
    /\ SymbolsOK(symbols)
    /\ symtable \in Seq(DOMAIN symbols)
    /\ MapOK(toImport) /\ MapOK(toTable)
    /\ phase \in Referring => RelocsOK(codeRelocs, DOMAIN symbols) /\ RelocsOK(dataRelocs, DOMAIN symbols)

----------------------------------------------------------------------------
(* The relocations by kind, and the groups written.                        *)

PartsInv ==
    /\ DOMAIN parts = {"intCode", "extCode", "intData", "extData"}
    /\ RelocsOK(parts.extCode, DOMAIN symbols) /\ RelocsOK(parts.extData, DOMAIN symbols)
    /\ IsSeq(parts.intCode) /\ IsSeq(parts.intData)
    /\ IsSeq(dynsym)

GroupsInv ==
    /\ DOMAIN file = {"external", "data", "code"}
    /\ ExternalOK(file.external) /\ GroupsOK(file.data) /\ GroupsOK(file.code)

----------------------------------------------------------------------------
(* What the groups of the file say of the relocations they were made of.   *)

DataPlace(r) == <<SectionIndex(SectionOf(r.segment)), DataOffset(r)>>

Means(r) == ByPlace(Source(r)[1], Source(r)[2], Source(r)[3])

ExternalCodePlaces == [k \in DOMAIN parts.extCode |-> CodeOffset(parts.extCode[k].inst)]

ExternalCodeMeans == [k \in DOMAIN parts.extCode |-> ByName(SymbolKey(parts.extCode[k]), 0)]

ExternalDataPlaces == [k \in DOMAIN parts.extData |-> DataPlace(parts.extData[k])]

ExternalDataMeans == [k \in DOMAIN parts.extData |-> ByName(SymbolKey(parts.extData[k]), parts.extData[k].addend)]

InternalCodePlaces == [k \in DOMAIN parts.intCode |-> CodeOffset(parts.intCode[k].inst)]

InternalCodeMeans == [k \in DOMAIN parts.intCode |-> Means(parts.intCode[k])]

InternalDataPlaces == [k \in DOMAIN parts.intData |-> DataPlace(parts.intData[k])]

InternalDataMeans == [k \in DOMAIN parts.intData |-> Means(parts.intData[k])]

CodeTypes == {"MEMORY_ADDR_LEB", "MEMORY_ADDR_SLEB", "TABLE_INDEX_SLEB"}

DataTypes == {"MEMORY_ADDR_I32", "TABLE_INDEX_I32"}

Typed(relocs, types) == \A k \in DOMAIN relocs : relocs[k].type \in types

\* sortRelocs has sorted out the relocations of other types.
PartsTyped ==
    /\ Typed(parts.extCode, CodeTypes) /\ Typed(parts.extData, DataTypes)
    /\ Typed(parts.intCode, CodeTypes) /\ Typed(parts.intData, DataTypes)

\* The relocations for other modules, their keys, and those of a group in a list.
Relocs == parts.extCode \o parts.extData

RelocKeys == [k \in DOMAIN Relocs |-> SymbolKey(Relocs[k])]

ListOf(g, list) == Where(Relocs, {r \in ToSet(Relocs) : SymbolKey(r) = Firsts(RelocKeys)[g] /\ IsList(r, list)})

CodeWalk == [g \in DOMAIN ExternalGroups |-> ListOf(g, "uleb") \o ListOf(g, "sleb")]

CodeFixed == [r \in ToSet(Relocs) |-> [at |-> CodeOffset(r.inst), means |-> ByName(SymbolKey(r), 0)]]

KeyOf == [r \in ToSet(Relocs) |-> SymbolKey(r)]

DataWalk == [g \in DOMAIN ExternalGroups |-> ListOf(g, "data")]

DataFixed == [r \in ToSet(Relocs) |-> [at |-> DataPlace(r), means |-> ByName(SymbolKey(r), r.addend)]]

CodeSaid(groups) == [k \in DOMAIN AllGroups(groups) |-> InternalCode(AllGroups(groups)[k])]

DataSaid(groups) == [k \in DOMAIN AllGroups(groups) |-> InternalData(AllGroups(groups)[k])]

\* What the groups are made of does not change while they are written.
Settled == <<symbols, parts, body, inits, segments, sections, elements>>

\* Every function the module answers for has a place: one without ends the
\* linking.
NoLost == \A r \in ToSet(parts.intData) \cup ToSet(parts.intCode) : ~Lost(r)

\* What is written so far names the relocations it was made of.
FileInv ==
    /\ phase \in {"internal", "written"} =>
          /\ ~BadOffset(parts.extCode) /\ ~BadIndex(parts.extData)
          /\ Says(ExternalCodeFixes, ExternalCodePlaces, ExternalCodeMeans)
          /\ Says(ExternalDataFixes, ExternalDataPlaces, ExternalDataMeans)
    /\ phase = "written" =>
          /\ NoLost /\ ~BadOffset(parts.intCode) /\ ~BadIndex(parts.intData)
          /\ Says(InternalCodeFixes, InternalCodePlaces, InternalCodeMeans)
          /\ Says(InternalDataFixes, InternalDataPlaces, InternalDataMeans)

----------------------------------------------------------------------------
(* What a symbol stands for while the dylibs are looked at.                *)

\* What is known of the symbols of a program.
SymbolFields == {"kind", "name", "flags", "value", "offset"}

\* An import that the program has a symbol for.
Imported(v) == \E x \in DOMAIN program.symbols :
    program.symbols[x].kind = 0 /\ Undefined(program.symbols[x]) /\ program.symbols[x].value = v

\* The values looked up are for imports that the program has a symbol for.
MapInv(map, is) ==
    /\ IsSeq(map)
    /\ \A k \in DOMAIN map :
          /\ Imported(map[k][1]) /\ map[k][2] = FindFunc(map[k][1].name)
          /\ map[k][2] # Nothing /\ map[k][2].is = is

\* The symbol s is s0 of the program, or a function that a dylib answers for.
FoundValue(v, s0) ==
    /\ s0.kind = 0 /\ Imported(s0.value)
    /\ v = FindFunc(s0.value.name) /\ v # Nothing
    /\ v.is = "runtime" => s0.value \in Keys(toTable)

\* s has the name, the offset and the kind that s0 has in the program, and
\* stands for the same, but for functions that are found elsewhere.
SymbolKept(s, s0) ==
    /\ DOMAIN s = SymbolFields
    /\ s.kind = s0.kind /\ s.name = s0.name /\ s.offset = s0.offset
    /\ s.flags = s0.flags
       \/ /\ Undefined(s0) /\ ~Undefined(s) /\ "EXTERNAL" \in s.flags
          /\ \A flag \in {"LOCAL", "EXPORTED"} : flag \in s.flags => flag \in s0.flags
    /\ s.value = s0.value \/ FoundValue(s.value, s0)

\* Symbols stay what they stand for.
SymbolsInv ==
    /\ program \in Programs
    /\ DOMAIN symbols = DOMAIN program.symbols
    /\ \A x \in DOMAIN symbols : SymbolKept(symbols[x], program.symbols[x])
    /\ phase = "resolve" =>
          \A x \in DOMAIN symbols : Undefined(symbols[x]) => symbols[x].value = program.symbols[x].value
    /\ MapInv(toImport, "import") /\ MapInv(toTable, "runtime")

----------------------------------------------------------------------------
(* The segments and the sections while the program is linked.              *)

\* The phases before the references of the relocations change.
Before == {"resolve", "imports", "tables", "calls", "strings", "SCENARIO NOT HANDLED"}

\* Segments stay until strings are merged, and those of no string after that.
SegmentsInv ==
    /\ phase \in Before => symtable = program.symtable /\ segments = program.segments
    /\ IsSeq(segments) /\ Distinct(segments) /\ ToSet(segments) \subseteq ToSet(program.segments)
    /\ \A d \in ToSet(program.segments) : ~d.string => d \in ToSet(segments)
    /\ IsSeq(sections) /\ ToSet(program.sections) \subseteq ToSet(sections)

\* A symbol of a string: at the start of a segment of its own.
Text(x) ==
    /\ x \in DOMAIN program.symbols
    /\ program.symbols[x].kind = 1 /\ program.symbols[x].offset = 0
    /\ program.symbols[x].value = Segment(program.symbols[x].value.name)
    /\ Original(program.symbols[x].value.name) \in ToSet(program.segments)
    /\ Original(program.symbols[x].value.name).name = program.symbols[x].value.name
    /\ Original(program.symbols[x].value.name).string

Bytes(x) == Original(program.symbols[x].value.name).bytes

----------------------------------------------------------------------------
(* Two relocations of one instruction are one, which the program lists     *)
(* twice.                                                                  *)

CodeFields == {"type", "ref", "inst", "addend"}

\* The relocations of the program come first and stay at their instructions;
\* those of one instruction are equal, and no other has an instruction of theirs.
CodeOK(relocs, relocs0) ==
    /\ IsSeq(relocs) /\ DOMAIN relocs0 \subseteq DOMAIN relocs
    /\ \A k \in DOMAIN relocs : DOMAIN relocs[k] = CodeFields /\ relocs[k].type \in CodeTypes /\ relocs[k].inst \in Int
    /\ \A k \in DOMAIN relocs0 :
          /\ relocs[k].type = relocs0[k].type /\ relocs[k].inst = relocs0[k].inst
          /\ relocs[k].addend = relocs0[k].addend
    /\ \A j, k \in DOMAIN relocs : relocs[j].inst = relocs[k].inst =>
          relocs[j] = relocs[k] /\ (j = k \/ {j, k} \subseteq DOMAIN relocs0)

\* Other references, the same in equal relocations.
Referred(new, relocs) ==
    /\ DOMAIN new = DOMAIN relocs /\ new = [k \in DOMAIN relocs |-> new[k]]
    /\ \A j, k \in DOMAIN relocs : relocs[j] = relocs[k] => new[j] = new[k]
    /\ \A k \in DOMAIN relocs : \E ref : new[k] = relocs[k] \/ new[k] = [relocs[k] EXCEPT !.ref = ref]

InstFields == {"op", "arg", "id"}

\* A call has an id of its own, and no relocation yet.
BodyOK(is, relocs) ==
    /\ IsSeq(is)
    /\ \A k \in DOMAIN is :
          /\ DOMAIN is[k] = InstFields /\ is[k].id \in Nat
          /\ IsCall(is[k]) =>
                /\ is[k].id # 0
                /\ \A j \in DOMAIN is : is[j].id = is[k].id => j = k
                /\ \A j \in DOMAIN relocs : relocs[j].inst # is[k].id

Tabled == Parted \ {"table"}

Tables(o, es) == IF o THEN IsTwo(es) ELSE IsOne(es)

\* How many element segments there are once the methods are parted.
TablesInv == phase \in Parted => Tables(objcElem, elements)

\* The relocations of the code.
CodeInv ==
    /\ CodeOK(codeRelocs, program.codeRelocs)
    /\ phase \notin Tabled => \A k \in DOMAIN codeRelocs : codeRelocs[k].inst \in Nat

\* Calls can be given relocations while the body is looked at.
BodyInv ==
    /\ IsSeq(body)
    /\ phase \in Before => BodyOK(body, codeRelocs)

Destinations == [k \in DOMAIN Initialised |-> DestinationReloc(Initialised[k])]

----------------------------------------------------------------------------
(* Two relocations of one word are one, which the program lists twice.     *)

DataFields == {"type", "ref", "segment", "off", "addend"}

\* The relocations of the program come first and stay at their words; those of
\* one word are equal, and no other has a word of theirs.
DataOK(relocs, relocs0) ==
    /\ IsSeq(relocs) /\ DOMAIN relocs0 \subseteq DOMAIN relocs
    /\ \A k \in DOMAIN relocs : DOMAIN relocs[k] = DataFields /\ relocs[k].type \in DataTypes /\ relocs[k].off \in Nat
    /\ \A k \in DOMAIN relocs0 :
          /\ relocs[k].type = relocs0[k].type /\ relocs[k].segment = relocs0[k].segment
          /\ relocs[k].off = relocs0[k].off /\ relocs[k].addend = relocs0[k].addend
    /\ \A j, k \in DOMAIN relocs : relocs[j].segment = relocs[k].segment /\ relocs[j].off = relocs[k].off =>
          relocs[j] = relocs[k] /\ (j = k \/ {j, k} \subseteq DOMAIN relocs0)

Arrayed == {"objc"} \cup Parted

Symboled == Parted \ {"table", "dynsym"}

\* The sections that the linker has filled.
Filled == (IF phase \in Arrayed THEN {".init_array"} ELSE {}) \cup (IF phase \in Symboled THEN {".dynsym"} ELSE {})

InSegment(r) == r.off < 16 /\ \E d \in ToSet(program.segments) : ~d.string /\ d.name = r.segment

\* The segments that the relocations of the program have words in.
Worded == {program.dataRelocs[k].segment : k \in DOMAIN program.dataRelocs}

\* The merges dropped the segment that the word is in.
Gone(r) ==
    /\ r.off < 16 /\ r.segment \in Worded /\ r.segment \notin Added
    /\ \A d \in ToSet(program.segments) : d.name # r.segment

\* Every relocation of the data has a word, of a segment of the program, of one
\* that was dropped or of a section that the linker has filled.
DataInv ==
    /\ program \in Programs
    /\ DataOK(dataRelocs, program.dataRelocs)
    /\ \A k \in DOMAIN dataRelocs :
          InSegment(dataRelocs[k]) \/ Gone(dataRelocs[k]) \/ dataRelocs[k].segment \in Filled
    /\ \A k \in DOMAIN program.dataRelocs : InSegment(program.dataRelocs[k]) \/ Gone(program.dataRelocs[k])

InitWords ==
    [k \in DOMAIN CtorFunctions |->
        PointerTo(FunctionRef(CtorFunctions[k]), "TABLE_INDEX_I32", ".init_array", 4 * (k - 1))]

SymbolWords == FlattenSeq([k \in DOMAIN dynsym |-> <<NamePointer(k), SymbolPointer(k)>>])

----------------------------------------------------------------------------
(* What the relocations of the program name.                               *)

\* The segment that the symbol x is in, if it is in one, is there.
There(x) == program.symbols[x].value.is = "segment" => Original(program.symbols[x].value.name) \in ToSet(segments)

\* An import, asked for by its name when the program runs.
AsksFor(ref, x) ==
    /\ program.symbols[x].kind = 0
    /\ symbols[x].value.is = "import" /\ ref = Asked(symbols[x].value)

\* ref stands for the symbol x of the program: x, a string of the same bytes,
\* or what asks for the function.
RefKept(ref, x) ==
    \/ ref = x /\ There(x)
    \/ Text(ref) /\ Text(x) /\ Bytes(ref) = Bytes(x) /\ There(ref)
    \/ AsksFor(ref, x)

\* Not an import any more.
Collected(ref) == Referenced(ref).value.is # "import"

\* A relocation of the program refers to what it did until the strings are
\* merged, and to what stands for that afterwards; those of the table do not
\* name an import when they have been looked at.
RefsInv ==
    /\ phase \in Before =>
          /\ \A k \in DOMAIN program.codeRelocs : codeRelocs[k].ref = program.codeRelocs[k].ref
          /\ \A k \in DOMAIN program.dataRelocs : dataRelocs[k].ref = program.dataRelocs[k].ref
    /\ phase \notin Before =>
          /\ \A k \in DOMAIN program.codeRelocs : RefKept(codeRelocs[k].ref, program.codeRelocs[k].ref)
          /\ \A k \in DOMAIN program.dataRelocs : RefKept(dataRelocs[k].ref, program.dataRelocs[k].ref)
    /\ \A k \in DOMAIN program.codeRelocs :
          /\ program.codeRelocs[k].type = "TABLE_INDEX_SLEB"
          /\ phase \notin Before \cup {"code"} \/ (phase = "code" /\ k < i)
          => Collected(codeRelocs[k].ref)
    /\ \A k \in DOMAIN program.dataRelocs :
          /\ program.dataRelocs[k].type = "TABLE_INDEX_I32"
          /\ phase \notin Before \cup {"code", "data"} \/ (phase = "data" /\ k < i)
          => Collected(dataRelocs[k].ref)

After == Before \cup {"code", "data"}

----------------------------------------------------------------------------
(* The relocations that the module answers, and those for other modules.   *)

Sorted == Whole \cup Parted

Once(s, x) == \A j, k \in DOMAIN s : s[j] = x /\ s[k] = x => j = k

\* in and ex divide the relocations; what is there once is there once.
Split(relocs, in, ex) ==
    /\ \A x \in ToSet(relocs) : Once(relocs, x) => Once(in, x) /\ Once(ex, x)
    /\ ToSet(in) \cup ToSet(ex) = ToSet(relocs)
    /\ ToSet(in) \cap ToSet(ex) = {}

\* Those of the program that are internal, and no others of it, are in in.
Answered(relocs, in, relocs0) == \A k \in DOMAIN relocs0 : relocs[k] \in ToSet(in) <=> Internal(relocs[k])

\* The relocations are divided once they are sorted, and stay divided when
\* pointers are added.
SplitInv ==
    /\ phase \notin Sorted =>
          parts.intCode = <<>> /\ parts.extCode = <<>> /\ parts.intData = <<>> /\ parts.extData = <<>>
    /\ phase \in Sorted =>
          /\ Split(codeRelocs, parts.intCode, parts.extCode)
          /\ Split(dataRelocs, parts.intData, parts.extData)
          /\ Answered(codeRelocs, parts.intCode, program.codeRelocs)
          /\ Answered(dataRelocs, parts.intData, program.dataRelocs)

----------------------------------------------------------------------------
(* What the file says of a place in the code: no two instructions have one *)
(* offset, and relocations of one instruction are equal.                   *)

\* The place of an instruction in the body, and in the constructor.
InBody(id) == FirstOf({k \in 1 .. Len(body) : body[k].id = id})

InCtor(id) == FirstOf({k \in 1 .. Len(inits) : inits[k].inst = id})

Said(at, means) == <<[at |-> at, means |-> means]>>

\* A place is named, for this alone.
Naming(fixes, means) == fixes # <<>> /\ \A n \in DOMAIN fixes : fixes[n].means = means

----------------------------------------------------------------------------
(* The table is filled: each element segment that is copied has its        *)
(* table.init, and the relocation that says where to.                      *)

Inits == [k \in DOMAIN Initialised |-> InitOf(Initialised[k])]

\* The instructions that copy the segments, with their relocations.
TableInv ==
    /\ IsSeq(inits)
    /\ phase \in Tabled => inits = Inits /\ \A k \in DOMAIN Destinations : Destinations[k] \in ToSet(parts.intCode)

----------------------------------------------------------------------------
(* What the file says of a place in the data.                              *)

\* A place in the data belongs to one segment and one offset.
Word(r) == r.off \in Nat /\ (InSegment(r) \/ r.segment \in Added)

----------------------------------------------------------------------------
(* What is put in a place is what the program meant.                       *)

\* What the file may put where a relocation of the program is: what its part
\* says.
Placing(r, addend) == IF Internal(r) THEN Means(r) ELSE ByName(SymbolKey(r), addend)

Found(r) == Internal(r) => ~Lost(r)

Tabling(r) == r.type \in {"TABLE_INDEX_SLEB", "TABLE_INDEX_I32"}

\* The inductive invariant: all of the parts.
FixesInv ==
    /\ ElementsInv /\ LinkInv /\ PartsInv /\ GroupsInv
    /\ SymbolsInv /\ SegmentsInv /\ TablesInv /\ CodeInv /\ BodyInv /\ DataInv
    /\ RefsInv /\ SplitInv /\ FileInv /\ TableInv

----------------------------------------------------------------------------
(* The constructors in .init_array.                                        *)

\* A constructor, and the ones that stay: each function where it comes first.
CtorAt(k) == symbols[program.ctors[k].symbol].value

FirstCtors ==
    {k \in DOMAIN program.ctors :
        CtorAt(k).is = "function" /\ \A j \in DOMAIN program.ctors : Precedes(j, k) => CtorAt(j) # CtorAt(k)}

\* ctors.sort: the constructors in their order.
Sorting(o, n) ==
    /\ o \in [1 .. n -> 1 .. n]
    /\ \A k \in 1 .. n : \E m \in 1 .. n : o[m] = k
    /\ \A a, b \in 1 .. n : Precedes(o[a], o[b]) <=> a < b
    /\ SortedCtors = [m \in 1 .. n |-> program.ctors[o[m]].symbol]

\* The sections of the linker have its own words and no others.
Only(words, d, data, rel) ==
    /\ ToSet(words) \subseteq ToSet(data)
    /\ \A k \in DOMAIN rel : rel[k].segment = d => rel[k] \in ToSet(words)

WordsInv ==
    /\ phase \notin Arrayed \cup Thrown => sections = program.sections
    /\ phase \in Arrayed => /\ Only(InitWords, ".init_array", parts.intData, dataRelocs)
                            /\ CtorFunctions = <<>> <=> ".init_array" \notin ToSet(sections)
    /\ phase \in Symboled => /\ Only(SymbolWords, ".dynsym", parts.intData, dataRelocs)
                             /\ {".dynstr", ".dynsym"} \subseteq ToSet(sections)

----------------------------------------------------------------------------
(* The visible symbols in .dynsym.                                         *)

\* The symbols that other modules may use, in the order of .dynsym.
Listed == VisibleData \o VisibleFunctions
VisibleSymbols ==
    {s \in ToSet(symtable) : Visible(symbols[s]) /\ ~Skipped(symbols[s])
                              /\ (symbols[s].kind = 1 => "EXTERNAL" \notin symbols[s].flags)}
\* What .dynsym says of a symbol: its name, itself and its type.
Entry(x) == [name |-> symbols[x].name, ref |-> x, type |-> IF symbols[x].kind = 0 THEN 1 ELSE 2]

\* Once strings are merged, a symbol of the table whose place is in a segment
\* has that segment; and .dynsym has the visible symbols as they are since it
\* was listed.
Common == {"profile", "init_array"} \cup Arrayed
SymtableInv ==
    /\ Distinct(symtable)
    /\ phase \notin Before => \A x \in ToSet(symtable) : There(x)
    /\ phase \in Common => dynsym = Entries(VisibleData, 2) \o Entries(VisibleFunctions, 1)

\* Where the name of a symbol begins in .dynstr: at the first byte of it.
NameBytes == FlattenSeq([k \in DOMAIN dynsym |-> [c \in 1 .. Len(dynsym[k].name) + 1 |-> k]])

----------------------------------------------------------------------------
(* The vector of functions while the dylibs are looked at.                 *)

\* A function of the program is in the vector until its turn comes, and then
\* what takes its place is; what a dylib answers for with dlsym goes.
Renamed(f) == GetOr(toImport, f)
Linking == {"resolve", "imports"}
VectorInv ==
    /\ phase # "SCENARIO NOT HANDLED"
    /\ KeysApart(toImport) /\ KeysApart(toTable)
    /\ IsSeq(functions) /\ Distinct(functions)
    /\ \A f \in ToSet(functions) :
          f \in ToSet(program.functions) \/ f.is = "import" \/ (f = Own(Ctor) /\ phase \in Tabled)
    /\ phase = "resolve" => functions = program.functions
    /\ phase = "imports" =>
          /\ \A f \in ToSet(program.functions) :
                f \in ToSet(functions) \/ \E p \in DOMAIN toImport : p < i /\ toImport[p][1] = f
          /\ \A p \in DOMAIN toImport : p < i => toImport[p][2] \in ToSet(functions)
    /\ phase \notin Linking =>
          \A f \in ToSet(program.functions) :
             \/ Renamed(f) \in ToSet(functions)
             \/ \E p \in DOMAIN toTable : toTable[p][1] = Renamed(f) /\ (phase = "tables" => p < i)

----------------------------------------------------------------------------
(* The calls of the body, by name.                                         *)

\* What an instruction names: a function of the program by the name that took
\* its place, until the walk over the opcodes comes to it; then something with
\* an index, or the runtime symbol of ref.func.
FromProgram(arg) == \E f \in ToSet(program.functions) : arg = Renamed(f)
HasIndex(inst) == inst.arg \in ToSet(functions) \/ (inst.op = "ref.func" /\ inst.arg.is = "runtime")
ArgsInv ==
    /\ \A k \in DOMAIN body : body[k].arg # Nothing => IsCall(body[k])
    /\ phase \in Linking => body = program.body
    /\ phase = "tables" => \A k \in DOMAIN body : body[k].arg # Nothing => FromProgram(body[k].arg)
    /\ phase = "calls" => \A k \in DOMAIN body : body[k].arg # Nothing =>
          IF k < i THEN HasIndex(body[k]) ELSE FromProgram(body[k].arg)
    /\ phase \notin Linking \cup {"tables", "calls"} =>
          \A k \in DOMAIN body : body[k].arg # Nothing => HasIndex(body[k])

\* What the body calls, instruction by instruction: the name of what it names,
\* and for call_indirect the name that the constant before it is patched for.
AsksByName(relocs, id, name) ==
    \E j \in DOMAIN relocs : relocs[j].inst = id /\ relocs[j].ref[1] = "runtime" /\ relocs[j].ref[3] = name
Through(is, relocs, k, names) ==
    /\ k - 1 \in DOMAIN is /\ ~IsCall(is[k - 1]) /\ is[k - 1].id # 0
    /\ \A j \in DOMAIN is : is[j].id = is[k - 1].id => j = k - 1
    /\ \E name : names = <<name>> /\ AsksByName(relocs, is[k - 1].id, name)
NamesAt(is, relocs, k, names) ==
    IF is[k].op = "call_indirect" THEN is[k].arg = Nothing /\ Through(is, relocs, k, names)
    ELSE names = IF is[k].arg = Nothing THEN <<>> ELSE <<is[k].arg.name>>
CallsAre(is, relocs, w) ==
    IsSeq(w) /\ DOMAIN w = DOMAIN is /\ \A k \in DOMAIN is : NamesAt(is, relocs, k, w[k])
ProgramNames ==
    [k \in DOMAIN program.body |-> IF program.body[k].arg = Nothing THEN <<>> ELSE <<program.body[k].arg.name>>]
CallsInv == \E w : CallsAre(body, codeRelocs, w) /\ FlattenSeq(w) = FlattenSeq(ProgramNames)

\* The runtime symbols stay what relocations refer to.
Asking(relocs, more) ==
    \A j \in DOMAIN relocs : relocs[j].ref[1] = "runtime" =>
        \E k \in DOMAIN more : more[k].inst = relocs[j].inst /\ more[k].ref = relocs[j].ref

\* Where a runtime symbol is asked for is no relocation that the module answers.
RuntimeInv == \A k \in DOMAIN parts.intCode : parts.intCode[k].ref[1] # "runtime"

----------------------------------------------------------------------------
(* What stops the linker.                                                  *)

\* The profile exports what is exported already.
Again ==
    /\ ~program.noexport
    /\ ToSet(ExportList) \cap (IF program.profile[1] = "export-all" THEN ToSet(ExportList)
                               ELSE ToSet(Tail(program.profile))) # {}

\* What the linker may end in without a file.
Fails ==
    phase \in Thrown =>
        \/ phase = "INVALID_DST_OFF" /\ DroppedCode
        \/ phase = "INVALID_DST_IDX" /\ DroppedData
        \/ phase = "INVALID_SRC_OFF" /\ tableElem /\ elements[1].vector = <<>>
        \/ phase = "WASM_VALIDATION_ERROR" /\ Again

\* The program is linked without exports, but for the profile's.
Silent == program.noexport => exports = <<>>

\* The names exported: none at first, then those of the visible functions, then
\* those of the profile; and the constructor of the table is new at the end.
ExportsInv ==
    /\ phase \in Collecting \cup {"export"} => exports = <<>>
    /\ phase \in {"common", "profile"} =>
          /\ Distinct(exports) /\ ToSet(exports) \subseteq ToSet(ExportList)
          /\ Silent
    /\ IsSeq(exports)
    /\ Again \/ Distinct(exports)
    /\ phase \notin Tabled => Ctor \notin ToSet(exports)

\* A function that has an address: in the vector while that is collected, and
\* in an element segment then.
Holds(es, f) == \E k \in DOMAIN es : Contains(es[k].vector, f)
HasAddress(f) == IF phase \in Collecting THEN Contains(vec, f) ELSE Holds(elements, f)

\* The names of the instructions.
Ids(is) == {is[k].id : k \in DOMAIN is}

\* Every relocation of the code has an instruction in the body, or in the
\* constructor of the table, or is one of the program in a function that the
\* merges dropped.  The body has no instruction of the program anew.
InstsInv ==
    /\ Ids(body) \subseteq Ids(program.body) \cup {0}
    /\ \A k \in DOMAIN codeRelocs :
          \/ codeRelocs[k].inst \in Ids(body)
          \/ phase \in Tabled /\ \E j \in DOMAIN inits : inits[j].inst = codeRelocs[k].inst
          \/ k \in DOMAIN program.codeRelocs /\ program.codeRelocs[k].inst \notin Ids(program.body)

\* The reference of a relocation that was looked at, and one that the module
\* answers: a function that it names has an address.
Given(r) == Tabling(r) /\ Referenced(r.ref).value.is = "function" => HasAddress(Referenced(r.ref).value)
Addressing(ref) == ref[1] # "first" /\ (Referenced(ref).kind = 0 => HasAddress(Referenced(ref).value))
Filling(r) == phase \in Tabled /\ \E k \in DOMAIN Destinations : r = Destinations[k]

\* Functions have addresses as soon as a relocation that names them was looked
\* at; the methods' segment is not empty.
GivenInv ==
    /\ \A k \in DOMAIN codeRelocs :
          phase \in {"data", "export", "common"} \/ (phase = "code" /\ k < i) => Given(codeRelocs[k])
    /\ \A k \in DOMAIN dataRelocs :
          phase \in {"export", "common"} \/ (phase = "data" /\ k < i) => Given(dataRelocs[k])
HeldInv ==
    phase \in Sorted =>
    /\ \A k \in DOMAIN dynsym : Addressing(dynsym[k].ref)
    /\ \A r \in ToSet(parts.intCode) \cup ToSet(parts.intData) : Addressing(r.ref) \/ Filling(r)
MethodsInv == (phase \in Parted /\ objcElem) => elements[2].vector # <<>>

=============================================================================
