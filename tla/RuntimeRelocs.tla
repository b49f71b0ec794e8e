---------------------------- MODULE RuntimeRelocs ----------------------------
(***************************************************************************)
(* From the linked module to its section rtld.dylink.0: what the runtime   *)
(* linker needs to place the module.                                       *)
(*                                                                         *)
(* performLinking gives every function whose address is used a place in an *)
(* element segment; dl_setup_common_data sorts the relocations into those  *)
(* that the module can answer and those for other modules, and lists the   *)
(* visible symbols; dl_create_init_array adds the constructors; Objective-C *)
(* methods move to an element segment of their own; a function that copies *)
(* the element segments to the table is generated; dl_setup_module_data    *)
(* writes .dynsym and .dynstr; the section's encode turns each relocation  *)
(* into two offsets.  Every one of these steps moves or adds what another  *)
(* one refers to by its place.                                             *)
(*                                                                         *)
(* Abstracted: a data segment is 16 bytes and lies in its section in the   *)
(* order of the vector (SegmentLayout models the packing); an instruction  *)
(* takes 60 bytes, so that offsets have one and two byte fields; every     *)
(* place is padded (ByteCode); names are ASCII.                            *)
(***************************************************************************)
EXTENDS DynamicLinking

VARIABLES
    vec,        \* indirect_tbl_vec
    elements,   \* elementSegments: [name, vector]
    tableElem,  \* indirect_tbl_elem was created
    objcElem,   \* indirect_tbl_objc_elem was created
    exports,    \* the names of the exported functions
    parts,      \* the relocations by kind: intCode, extCode, intData, extData
    dynsym,     \* exp_data_symbols and exp_func_symbols: [name, ref, type]
    sections,   \* _dataSections: names
    inits,      \* the table.init of __wasm_ctor_dylib_tbl: [elem, len, inst]
    start,      \* exec_start_elemidx, exec_start_funcidx
    file        \* the groups written: external, data, code

relocVars == <<vec, elements, tableElem, objcElem, exports, parts, dynsym, sections, inits, start, file>>
vars == <<phase, i, linkVars, relocVars>>

ASSUME CtorsAssumption ==
    \A p \in Programs : p.ctors \in Seq([symbol : DOMAIN p.symbols, priority : Int])

Objc == "objc_indirect_functions"
Ctor == "__wasm_ctor_dylib_tbl"

\* The sections, segments and functions that the linker adds are its own.  A
\* profile begins with its kind.
Added == {".init_array", ".dynstr", ".dynsym"}
ASSUME SectionsAssumption ==
    \A p \in Programs :
        /\ p.sections \in Seq(ToSet(p.sections)) /\ ToSet(p.sections) \cap Added = {}
        /\ \A k \in DOMAIN p.segments : p.segments[k].section \in ToSet(p.sections) /\ p.segments[k].name \notin Added
        /\ \A k \in DOMAIN p.dataRelocs : p.dataRelocs[k].segment \notin Added
        /\ Own(Ctor) \notin ToSet(p.functions)
        /\ p.profile \in Seq(ToSet(p.profile)) /\ p.profile # <<>>

Values(refs) == [k \in DOMAIN refs |-> symbols[refs[k]].value]

----------------------------------------------------------------------------
InitRelocs ==
    /\ Init
    /\ vec = <<>> /\ elements = <<>> /\ tableElem = FALSE /\ objcElem = FALSE
    /\ exports = <<>> /\ dynsym = <<>> /\ inits = <<>> /\ start = <<>>
    /\ parts = [intCode |-> <<>>, extCode |-> <<>>, intData |-> <<>>, extData |-> <<>>]
    /\ sections = program.sections
    /\ file = [external |-> <<>>, data |-> <<>>, code |-> <<>>]

----------------------------------------------------------------------------
(* The functions whose address is used.                                    *)

\* getDLSymbol: an import is asked for by name when the program runs.
Asked(value) == RuntimeRef(IF value.module = "env" THEN "" ELSE value.module, value.name)

\* What one turn of either loop does to the reference and to the vector.  Equal
\* relocations are one object, listed twice: what is put into one is in the other.
CollectedRef(ref) ==
    IF Referenced(ref).value.is = "import" THEN Asked(Referenced(ref).value) ELSE ref

Recollected(relocs) ==
    [k \in DOMAIN relocs |->
        IF relocs[k] = relocs[i] THEN [relocs[k] EXCEPT !.ref = CollectedRef(@)] ELSE relocs[k]]

CollectedVec(ref) ==
    LET f == Referenced(ref).value
    IN  IF f.is = "function" /\ ~Contains(vec, f) THEN Append(vec, f) ELSE vec

CollectCode ==
    /\ phase = "code" /\ i <= Len(codeRelocs)
    /\ IF codeRelocs[i].type = "TABLE_INDEX_SLEB"
       THEN /\ codeRelocs' = Recollected(codeRelocs)
            /\ vec' = CollectedVec(codeRelocs[i].ref)
       ELSE UNCHANGED <<codeRelocs, vec>>
    /\ i' = i + 1
    /\ UNCHANGED <<phase, program, symbols, symtable, functions, body, dataRelocs, segments, toImport, toTable,
                   elements, tableElem, objcElem, exports, parts, dynsym, sections, inits, start, file>>

CollectCodeDone ==
    /\ phase = "code" /\ i > Len(codeRelocs)
    /\ Goto("data") /\ UNCHANGED <<linkVars, relocVars>>

CollectData ==
    /\ phase = "data" /\ i <= Len(dataRelocs)
    /\ IF dataRelocs[i].type = "TABLE_INDEX_I32"
       THEN /\ dataRelocs' = Recollected(dataRelocs)
            /\ vec' = CollectedVec(dataRelocs[i].ref)
       ELSE UNCHANGED <<dataRelocs, vec>>
    /\ i' = i + 1
    /\ UNCHANGED <<phase, program, symbols, symtable, functions, body, codeRelocs, segments, toImport, toTable,
                   elements, tableElem, objcElem, exports, parts, dynsym, sections, inits, start, file>>

\* The element segment is created when some address is used.
CreateElements ==
    /\ phase = "data" /\ i > Len(dataRelocs)
    /\ elements' = IF vec = <<>> THEN <<>> ELSE <<[name |-> "", vector |-> vec]>>
    /\ tableElem' = (vec # <<>>)
    /\ Goto("export")
    /\ UNCHANGED <<linkVars, vec, objcElem, exports, parts, dynsym, sections, inits, start, file>>

----------------------------------------------------------------------------
(* What other modules may see.                                             *)

Visible(s) ==
    /\ "LOCAL" \notin s.flags /\ ~Undefined(s)
    /\ "EXTERNAL" \in s.flags => "EXPORTED" \in s.flags
\* objc_skip_export_of_func_symbol and objc_skip_export_of_data_symbol: a symbol
\* named objc_msgSend_*, .objc_selector_*, .objc_sel_name_* or .objc_sel_types_* is
\* for Objective-C alone.
Skipped(s) == s.name \in IF s.kind = 0 THEN program.messages ELSE program.selectors

VisibleOf(kind) == {s \in ToSet(symtable) : symbols[s].kind = kind /\ Visible(symbols[s])}
VisibleFunctions == Where(symtable, {s \in VisibleOf(0) : ~Skipped(symbols[s])})
VisibleData == Where(symtable, {s \in VisibleOf(1) : "EXTERNAL" \notin symbols[s].flags /\ ~Skipped(symbols[s])})

\* The functions of the module, of what symbols stand for.
OwnOf(values) == Where(values, {f \in ToSet(values) : f.is = "function"})
Names(fs) == [k \in DOMAIN fs |-> fs[k].name]

\* "do not export the objc_msgSend_vii functions", by the name of the function.
Exportable(f) == f.is = "function" /\ f.name \notin program.messages
Exported ==
    LET values == Values(Where(symtable, VisibleOf(0)))
    IN  Where(values, {f \in ToSet(values) : Exportable(f)})

\* Mutant: a function is exported for each of its symbols.
ExportListEvery == Names(Exported)

\* Each function once, under its own name.
ExportList == Names(Firsts(Exported))
Export ==
    /\ phase = "export"
    /\ exports' = IF program.noexport THEN exports ELSE exports \o ExportList
    /\ Goto("common")
    /\ UNCHANGED <<linkVars, vec, elements, tableElem, objcElem, parts, dynsym, sections, inits, start, file>>

\* dl_setup_common_data.
Internal(r) ==
    IF r.type \in {"TABLE_INDEX_SLEB", "TABLE_INDEX_I32"}
    THEN Referenced(r.ref).value.is = "function"
    ELSE Referenced(r.ref).value.is \in {"segment", "start", "end"}
Internals(relocs) == Where(relocs, {r \in ToSet(relocs) : Internal(r)})
Externals(relocs) == Where(relocs, {r \in ToSet(relocs) : ~Internal(r)})

Entries(refs, type) ==
    [k \in DOMAIN refs |-> [name |-> symbols[refs[k]].name, ref |-> refs[k], type |-> type]]

\* Mutant: without indexOf.
PushAlways(es, fs) == [es EXCEPT ![1].vector = @ \o fs]

Push(es, fs) == [es EXCEPT ![1].vector = Firsts(@ \o fs)]
SetupCommonData ==
    /\ phase = "common"
    /\ IF \E s \in ToSet(VisibleData) : symbols[s].value.is # "segment"
       THEN /\ phase' = "data-segment missing data-section"
            /\ UNCHANGED <<i, elements, parts, dynsym>>
       ELSE /\ parts' = [intCode |-> Internals(codeRelocs), extCode |-> Externals(codeRelocs),
                         intData |-> Internals(dataRelocs), extData |-> Externals(dataRelocs)]
            /\ dynsym' = Entries(VisibleData, 2) \o Entries(VisibleFunctions, 1)
            /\ elements' = Push(IF elements = <<>> THEN <<[name |-> "", vector |-> <<>>]>> ELSE elements,
                                Values(VisibleFunctions))
            /\ Goto("profile")
    /\ UNCHANGED <<linkVars, vec, tableElem, objcElem, exports, sections, inits, start, file>>

\* dl_generate_exports: the profile lists names, or says export-all.
GenerateExports ==
    /\ phase = "profile"
    /\ exports' = CASE program.profile[1] = "none" -> exports
                    [] program.profile[1] = "export-all" -> exports \o ExportList
                    [] OTHER -> exports \o Where(Firsts(Tail(program.profile)), {n \in ToSet(Tail(program.profile)) : Contains(functions, Own(n))})
    /\ Goto("init_array")
    /\ UNCHANGED <<linkVars, vec, elements, tableElem, objcElem, parts, dynsym, sections, inits, start, file>>

----------------------------------------------------------------------------
(* Constructors.                                                           *)

\* ctors.sort is stable: by priority, equals in the order of the objects.
Precedes(a, b) ==
    LET c == program.ctors
    IN  c[a].priority < c[b].priority \/ (c[a].priority = c[b].priority /\ a < b)
Preceding(k) == {j \in DOMAIN program.ctors : Precedes(j, k)}

\* Mutant: the last first among equals.
SortedCtorsReversed ==
    LET c == program.ctors
        Before(k) == {j \in DOMAIN c : c[j].priority < c[k].priority \/ (c[j].priority = c[k].priority /\ j > k)}
    IN  [m \in DOMAIN c |-> c[CHOOSE k \in DOMAIN c : Cardinality(Before(k)) = m - 1].symbol]

SortedCtors ==
    LET c == program.ctors
    IN  [m \in DOMAIN c |-> c[CHOOSE k \in DOMAIN c : Cardinality(Preceding(k)) = m - 1].symbol]

CtorFunctions == Firsts(OwnOf(Values(SortedCtors)))
InElements(f) == \E k \in DOMAIN elements : Contains(elements[k].vector, f)

\* A pointer to function f, at off in a section the linker makes.
PointerTo(ref, type, section, off) ==
    [type |-> type, ref |-> ref, segment |-> section, off |-> off, addend |-> 0]
AddData(relocs) ==
    /\ dataRelocs' = dataRelocs \o relocs
    /\ parts' = [parts EXCEPT !.intData = @ \o relocs]
LinkedElsewhere == <<program, symbols, symtable, functions, body, codeRelocs, segments, toImport, toTable>>

CreateInitArray ==
    /\ phase = "init_array"
    /\ LET fs == CtorFunctions
           missing == Where(fs, {f \in ToSet(fs) : ~InElements(f)})
       IN  /\ elements' = IF missing = <<>> THEN elements ELSE Push(elements, missing)
           /\ AddData([k \in DOMAIN fs |->
                          PointerTo(FunctionRef(fs[k]), "TABLE_INDEX_I32", ".init_array", 4 * (k - 1))])
           /\ sections' = IF fs = <<>> THEN sections ELSE Append(sections, ".init_array")
    /\ Goto("objc")
    /\ UNCHANGED <<LinkedElsewhere, vec, tableElem, objcElem, exports, dynsym, inits, start, file>>

----------------------------------------------------------------------------
(* Element segments and their constructor.                                 *)

\* Functions named _i_ or _c_.
IsMethod(f) == f.name \in program.methods
Methods(k) == Where(elements[k].vector, {f \in ToSet(elements[k].vector) : IsMethod(f)})
Others(k) == Where(elements[k].vector, {f \in ToSet(elements[k].vector) : ~IsMethod(f)})
AllMethods == FlattenSeq([k \in DOMAIN elements |-> Methods(k)])

PartitionMethods ==
    /\ phase = "objc"
    /\ elements' = [k \in DOMAIN elements |-> [elements[k] EXCEPT !.vector = Others(k)]]
                   \o IF AllMethods = <<>> THEN <<>> ELSE <<[name |-> Objc, vector |-> AllMethods]>>
    /\ objcElem' = (AllMethods # <<>>)
    /\ Goto("table")
    /\ UNCHANGED <<linkVars, vec, tableElem, exports, parts, dynsym, sections, inits, start, file>>

\* The first function of segment k, if it has one, and the place it is
\* patched to: the destination of table.init.
First(k) == IF elements[k].vector = <<>> THEN Nothing ELSE elements[k].vector[1]
DestinationId(k) == -k

\* Mutant: the length the segment was created with.
InitOfCreated(k) == [elem |-> k, len |-> Len(vec), inst |-> DestinationId(k)]

InitOf(k) == [elem |-> k, len |-> Len(elements[k].vector), inst |-> DestinationId(k)]
DestinationReloc(k) ==
    [type |-> "TABLE_INDEX_SLEB", ref |-> <<"first", First(k), k>>, inst |-> DestinationId(k), addend |-> 0]
Initialised ==
    (IF tableElem THEN <<1>> ELSE <<>>) \o (IF objcElem THEN <<Len(elements)>> ELSE <<>>)

CreateTableCtor ==
    /\ phase = "table"
    /\ LET ks == Initialised
           relocs == [k \in DOMAIN ks |-> DestinationReloc(ks[k])]
       IN  /\ inits' = [k \in DOMAIN ks |-> InitOf(ks[k])]
           /\ codeRelocs' = codeRelocs \o relocs
           /\ parts' = [parts EXCEPT !.intCode = @ \o relocs]
           /\ functions' = IF ks = <<>> THEN functions ELSE Append(functions, Own(Ctor))
           /\ exports' = IF ks = <<>> THEN exports ELSE Append(exports, Ctor)
    /\ Goto("dynsym")
    /\ UNCHANGED <<program, symbols, symtable, body, dataRelocs, segments, toImport, toTable,
                   vec, elements, tableElem, objcElem, dynsym, sections, start, file>>

----------------------------------------------------------------------------
(* .dynsym: twelve bytes a symbol, the name's and the symbol's address.    *)

\* Mutant: names without their terminating zero.
NameOffsetNoZero(k) == SumOf([j \in 1 .. k - 1 |-> Len(dynsym[j].name)])

NameOffset(k) == SumOf([j \in 1 .. k - 1 |-> Len(dynsym[j].name) + 1])
NamePointer(k) == PointerTo(NameRef(NameOffset(k)), "MEMORY_ADDR_I32", ".dynsym", 12 * (k - 1))
SymbolPointer(k) ==
    PointerTo(dynsym[k].ref, IF dynsym[k].type = 1 THEN "TABLE_INDEX_I32" ELSE "MEMORY_ADDR_I32",
              ".dynsym", 12 * (k - 1) + 4)
SetupModuleData ==
    /\ phase = "dynsym"
    /\ AddData(FlattenSeq([k \in DOMAIN dynsym |-> <<NamePointer(k), SymbolPointer(k)>>]))
    /\ sections' = sections \o <<".dynstr", ".dynsym">>
    /\ Goto("header")
    /\ UNCHANGED <<LinkedElsewhere, vec, elements, tableElem, objcElem, exports, dynsym, inits, start, file>>

\* Where a function is: the first segment that has it, and its index there,
\* from 0; -1 where indexOf finds nothing.
ElementOf(f) == SelectInSeq(elements, LAMBDA e : Contains(e.vector, f)) - 1
IndexIn(v, f) == SelectInSeq(v, LAMBDA g : g = f) - 1
PlaceOf(f) ==
    LET k == ElementOf(f)
    IN  <<k, IF k = -1 THEN -1 ELSE IndexIn(elements[k + 1].vector, f)>>

\* The start function goes to the header of the executable.
StartSymbols == Where(symtable, {s \in ToSet(symtable) : symbols[s].kind = 0 /\ symbols[s].name = "__start"})

WriteHeader ==
    /\ phase = "header"
    /\ start' = IF StartSymbols # <<>> /\ symbols[StartSymbols[1]].value.is = "function"
                THEN PlaceOf(symbols[StartSymbols[1]].value) ELSE <<>>
    /\ Goto("validate")
    /\ UNCHANGED <<linkVars, vec, elements, tableElem, objcElem, exports, parts, dynsym, sections, inits, file>>

\* validateWasmModule: no function twice, no export name twice.
Validate ==
    /\ phase = "validate"
    /\ IF Firsts(functions) = functions /\ Firsts(exports) = exports
       THEN Goto("external")
       ELSE phase' = "WASM_VALIDATION_ERROR" /\ UNCHANGED i
    /\ UNCHANGED <<linkVars, relocVars>>

----------------------------------------------------------------------------
(* encode.                                                                 *)

\* The offset of an instruction in the code section: the body, then the
\* constructor's four instructions a segment.
CodeOffset(id) ==
    LET inBody == SelectInSeq(body, LAMBDA inst : inst.id = id)
        inCtor == SelectInSeq(inits, LAMBDA t : t.inst = id)
    IN  IF inBody # 0 THEN 60 * inBody
        ELSE IF inCtor # 0 THEN 60 * (Len(body) + 4 * inCtor) ELSE -1

HasSegment(d) == \E k \in DOMAIN segments : segments[k].name = d
SectionOf(d) == IF HasSegment(d) THEN segments[SelectInSeq(segments, LAMBDA e : e.name = d)].section ELSE d
Packed(section) == Where(segments, {d \in ToSet(segments) : d.section = section})
Rloc(d) == IF HasSegment(d) THEN 16 * (SelectInSeq(Packed(SectionOf(d)), LAMBDA e : e.name = d) - 1) ELSE 0
SectionIndex(section) == SelectInSeq(sections, LAMBDA x : x = section) - 1

lengthULEB(n) == IF n < 128 THEN 1 ELSE IF n < 16384 THEN 2 ELSE 3

\* Relocations with the same key share a group, in the order of the first.
Groups(relocs, Key(_), Pair(_)) ==
    LET keys == Firsts([k \in DOMAIN relocs |-> Key(relocs[k])])
        Of(key) == Where(relocs, {r \in ToSet(relocs) : Key(r) = key})
    IN  [g \in DOMAIN keys |->
            [key |-> keys[g], pairs |-> [k \in DOMAIN Of(keys[g]) |-> Pair(Of(keys[g])[k])]]]

\* The instruction was not written, as its function was dropped; the segment is
\* in no section, as it was dropped.
Unplaced(r) == CodeOffset(r.inst) \in {-1, 0}
BadOffset(relocs) == \E k \in DOMAIN relocs : Unplaced(relocs[k])
Unsectioned(r) == ~HasSegment(r.segment) /\ r.segment \notin Added
BadIndex(relocs) == \E k \in DOMAIN relocs : Unsectioned(relocs[k])
DataOffset(r) == Rloc(r.segment) + r.off

\* External: by kind and name of the reference, in three lists.  The addend
\* of a relocation in the code is not read.
IsList(r, list) ==
    CASE list = "uleb" -> r.type = "MEMORY_ADDR_LEB"
      [] list = "sleb" -> r.type \in {"MEMORY_ADDR_SLEB", "TABLE_INDEX_SLEB"}
      [] OTHER -> r.type \in {"MEMORY_ADDR_I32", "TABLE_INDEX_I32"}
SymbolKey(r) == <<Referenced(r.ref).kind, Referenced(r.ref).name>>

\* Mutant: no addend for data either.
ExternalPairNoAddend(r) ==
    IF IsList(r, "data")
    THEN <<SectionIndex(SectionOf(r.segment)), DataOffset(r), 0>>
    ELSE <<CodeOffset(r.inst), 0>>

ExternalPair(r) ==
    IF IsList(r, "data")
    THEN <<SectionIndex(SectionOf(r.segment)), DataOffset(r), r.addend>>
    ELSE <<CodeOffset(r.inst), 0>>
ExternalGroups ==
    LET relocs == parts.extCode \o parts.extData
        List(key, list) ==
            LET rs == Where(relocs, {r \in ToSet(relocs) : SymbolKey(r) = key /\ IsList(r, list)})
            IN  [k \in DOMAIN rs |-> ExternalPair(rs[k])]
        keys == Firsts([k \in DOMAIN relocs |-> SymbolKey(relocs[k])])
    IN  [g \in DOMAIN keys |->
            [key |-> keys[g], uleb |-> List(keys[g], "uleb"), sleb |-> List(keys[g], "sleb"),
             data |-> List(keys[g], "data")]]

\* Without a section the loop over the data ends when the section's size is read,
\* before the test that throws INVALID_DST_IDX.
EncodeExternal ==
    /\ phase = "external"
    /\ IF BadOffset(parts.extCode)
       THEN phase' = "INVALID_DST_OFF" /\ UNCHANGED <<i, file>>
       ELSE IF BadIndex(parts.extData)
       THEN phase' = "INVALID_DST_IDX" /\ UNCHANGED <<i, file>>
       ELSE file' = [file EXCEPT !.external = ExternalGroups] /\ Goto("internal")
    /\ UNCHANGED <<linkVars, vec, elements, tableElem, objcElem, exports, parts, dynsym, sections, inits, start>>

\* Internal: where what a relocation names is, <<2, element segment, index>>
\* or <<1, section, offset>>.
Source(r) ==
    LET s == Referenced(r.ref)
        d == s.value.name
    IN  CASE s.kind = 0 /\ r.ref[1] = "first" ->
                 <<2, r.ref[3] - 1, IndexIn(elements[r.ref[3]].vector, s.value)>>
          [] s.kind = 0 /\ r.ref[1] # "first" -> <<2>> \o PlaceOf(s.value)
          [] s.kind = 1 /\ s.value.is = "start" -> <<1, SectionIndex(d), 0>>
          [] s.kind = 1 /\ s.value.is = "end" -> <<1, SectionIndex(d), 16 * Len(Packed(d))>>
          [] OTHER -> <<1, SectionIndex(SectionOf(d)), Rloc(d) + s.offset + r.addend>>

DataKey(r) == <<SectionIndex(SectionOf(r.segment)), Source(r)[1], Source(r)[2]>>
DataPair(r) == <<DataOffset(r), Source(r)[3]>>
CodeKey(r) == <<r.type, Source(r)[1], Source(r)[2]>>
CodePair(r) == <<CodeOffset(r.inst), Source(r)[3]>>

\* A function without an address.
Lost(r) == Referenced(r.ref).kind = 0 /\ -1 \in {Source(r)[2], Source(r)[3]}
Failure(r) ==
    IF ~Lost(r) THEN "INVALID_DST_OFF" ELSE IF r.ref[1] = "first" THEN "INVALID_SRC_OFF" ELSE "NOT_ELEM_FUNC"

\* The first relocation that fails, of the data and then of the code, ends it; that
\* a word has no section is seen when the groups are numbered.
EncodeInternal ==
    /\ phase = "internal"
    /\ LET failing == Where(parts.intData, {r \in ToSet(parts.intData) : Lost(r)})
                      \o Where(parts.intCode, {r \in ToSet(parts.intCode) : Lost(r) \/ Unplaced(r)})
       IN  IF failing # <<>>
           THEN phase' = Failure(failing[1]) /\ UNCHANGED <<i, file>>
           ELSE IF BadIndex(parts.intData)
           THEN phase' = "INVALID_DST_IDX" /\ UNCHANGED <<i, file>>
           ELSE /\ file' = [file EXCEPT !.data = Groups(parts.intData, DataKey, DataPair),
                                        !.code = Groups(parts.intCode, CodeKey, CodePair)]
                /\ Goto("written")
    /\ UNCHANGED <<linkVars, vec, elements, tableElem, objcElem, exports, parts, dynsym, sections, inits, start>>

----------------------------------------------------------------------------
(* The bytes of a group, as they are counted and as they are written after *)
(* its type and its size.                                                  *)

PairLengths(pairs) == SumOf([k \in DOMAIN pairs |-> SumOf([j \in DOMAIN pairs[k] |-> lengthULEB(pairs[k][j])])])
CountedExternal(g) ==
    LET n == Len(g.key[2])
    IN  n + lengthULEB(n) + PairLengths(g.uleb) + PairLengths(g.sleb) + PairLengths(g.data)
        + lengthULEB(Len(g.uleb)) + lengthULEB(Len(g.sleb)) + lengthULEB(Len(g.data))

\* Mutant: the number of pairs is not counted.
CountedDataNoCount(g) == 1 + lengthULEB(g.key[1]) + lengthULEB(g.key[3]) + PairLengths(g.pairs)

CountedData(g) == 1 + lengthULEB(g.key[1]) + lengthULEB(g.key[3]) + PairLengths(g.pairs) + lengthULEB(Len(g.pairs))
CountedCode(g) == 1 + lengthULEB(g.key[3]) + PairLengths(g.pairs) + lengthULEB(Len(g.pairs))

\* The subsection: type, size and data of each group, and how many.
CountedSubsection(sizes) ==
    SumOf([k \in DOMAIN sizes |-> lengthULEB(sizes[k]) + 1 + sizes[k]]) + lengthULEB(Len(sizes))

WrittenPairs(pairs) ==
    <<lengthULEB(Len(pairs))>> \o FlattenSeq([k \in DOMAIN pairs |-> [j \in DOMAIN pairs[k] |-> lengthULEB(pairs[k][j])]])
WrittenExternal(g) ==
    <<lengthULEB(Len(g.key[2])), Len(g.key[2])>> \o WrittenPairs(g.uleb) \o WrittenPairs(g.sleb) \o WrittenPairs(g.data)
WrittenData(g) == <<lengthULEB(g.key[1]), 1, lengthULEB(g.key[3])>> \o WrittenPairs(g.pairs)
WrittenCode(g) == <<1, lengthULEB(g.key[3])>> \o WrittenPairs(g.pairs)
WrittenSubsection(groups, size) ==
    <<lengthULEB(Len(groups))>> \o FlattenSeq([k \in DOMAIN groups |-> <<1, lengthULEB(size[k])>> \o groups[k]])

----------------------------------------------------------------------------
RelocNext ==
    \/ CollectCode \/ CollectCodeDone \/ CollectData \/ CreateElements
    \/ Export \/ SetupCommonData \/ GenerateExports
    \/ CreateInitArray \/ PartitionMethods \/ CreateTableCtor
    \/ SetupModuleData \/ WriteHeader \/ Validate
    \/ EncodeExternal \/ EncodeInternal

Thrown == {"SCENARIO NOT HANDLED", "data-segment missing data-section", "WASM_VALIDATION_ERROR",
           "INVALID_DST_OFF", "INVALID_DST_IDX", "INVALID_SRC_OFF", "NOT_ELEM_FUNC"}
Stopped == phase \in Thrown \cup {"written"} /\ UNCHANGED vars

Next == (LinkNext /\ UNCHANGED relocVars) \/ RelocNext \/ Stopped
Spec == InitRelocs /\ [][Next]_vars

----------------------------------------------------------------------------
(* What the file says, in the words of the program.                        *)

Written == phase = "written"
AllGroups(groups) == FlattenSeq([g \in DOMAIN groups |->
    [k \in DOMAIN groups[g].pairs |-> [key |-> groups[g].key, pair |-> groups[g].pairs[k]]]])

\* What the runtime linker puts in a place: the address of a name it looks
\* up, of a function of this module, or an offset in a section.
ByName(key, addend) == <<IF key[1] = 0 THEN "external function" ELSE "external data", key[2], addend>>
ByPlace(type, idx, off) ==
    IF type = 2 THEN <<"function", elements[idx + 1].vector[off + 1].name, 0>> ELSE <<"memory", sections[idx + 1], off>>

\* Every place the file names in the code and in the data, with what is put
\* there: what a group for a name, and what a pair for a place says.
ExternalCode(g) ==
    LET pairs == g.uleb \o g.sleb
    IN  [k \in DOMAIN pairs |-> [at |-> pairs[k][1], means |-> ByName(g.key, pairs[k][2])]]
ExternalData(g) ==
    [k \in DOMAIN g.data |-> [at |-> <<g.data[k][1], g.data[k][2]>>, means |-> ByName(g.key, g.data[k][3])]]
InternalCode(r) == [at |-> r.pair[1], means |-> ByPlace(r.key[2], r.key[3], r.pair[2])]
InternalData(r) == [at |-> <<r.key[1], r.pair[1]>>, means |-> ByPlace(r.key[2], r.key[3], r.pair[2])]

ExternalCodeFixes == FlattenSeq([g \in DOMAIN file.external |-> ExternalCode(file.external[g])])
ExternalDataFixes == FlattenSeq([g \in DOMAIN file.external |-> ExternalData(file.external[g])])
InternalCodeFixes == [k \in DOMAIN AllGroups(file.code) |-> InternalCode(AllGroups(file.code)[k])]
InternalDataFixes == [k \in DOMAIN AllGroups(file.data) |-> InternalData(AllGroups(file.data)[k])]
CodeFixes == ExternalCodeFixes \o InternalCodeFixes
DataFixes == ExternalDataFixes \o InternalDataFixes
At(fixes, place) == Where(fixes, {f \in ToSet(fixes) : f.at = place})
WordAt(section, off) == At(DataFixes, <<SectionIndex(section), off>>)

\* What a symbol of the program means.  A string may be any string of its
\* bytes.
Original(d) == program.segments[SelectInSeq(program.segments, LAMBDA e : e.name = d)]
Same(d, e) == d = e \/ (Original(d).string /\ Original(e).string /\ Original(d).bytes = Original(e).bytes)
Meanings(s, addend) ==
    CASE s.value.is = "function" -> {<<"function", s.value.name, 0>>}
      [] s.value.is = "import" -> {<<"external function", s.value.name, 0>>}
      [] s.value.is = "start" -> {<<"memory", s.value.name, 0>>}
      [] s.value.is = "end" -> {<<"memory", s.value.name, 16 * Len(Packed(s.value.name))>>}
      [] s.value.is = "segment" ->
            {<<"memory", SectionOf(segments[k].name), Rloc(segments[k].name) + s.offset + addend>> :
                k \in {j \in DOMAIN segments : Same(s.value.name, segments[j].name)}}
      [] OTHER -> {<<"external data", s.name, addend>>}

\* Two places where the code says something else: the addend of external
\* data in the code is dropped, and a function that a dylib answers for with
\* dlsym is asked for by the name of the symbol, not of the import.
MeaningsButKnown(r, inCode) ==
    LET s == program.symbols[r.ref]
    IN  Meanings(s, IF inCode /\ s.value = Nothing THEN 0 ELSE r.addend)
        \cup IF s.value \in Keys(toTable) THEN {<<"external function", s.name, 0>>} ELSE {}

\* A place is named, for one thing that is meant, and once if one relocation is
\* for it.
Puts(fixes, meanings, alone) ==
    /\ fixes # <<>> /\ \E means \in meanings : \A n \in DOMAIN fixes : fixes[n].means = means
    /\ alone => Len(fixes) = 1

\* The file names the place of every relocation, and what is put there is what
\* the program meant, whatever the relocation went through: renamed functions,
\* merged strings, grown bodies, moved methods.  A relocation that was taken over
\* twice may be named twice, with the same meaning.
PlacesMeantButKnown ==
    Written =>
    /\ \A k \in DOMAIN program.codeRelocs :
          LET r == program.codeRelocs[k]
          IN  Puts(At(CodeFixes, CodeOffset(r.inst)), MeaningsButKnown(r, TRUE),
                   \A j \in DOMAIN program.codeRelocs : program.codeRelocs[j] = r => j = k)
    /\ \A k \in DOMAIN program.dataRelocs :
          LET r == program.dataRelocs[k]
          IN  Puts(WordAt(SectionOf(r.segment), DataOffset(r)), MeaningsButKnown(r, FALSE),
                   \A j \in DOMAIN program.dataRelocs : program.dataRelocs[j] = r => j = k)

\* The functions called or referenced by the body, in order, by name; a
\* call_indirect calls what is put into the i32.const before it.
Callees(is) ==
    LET Before(k) == At(CodeFixes, 60 * (k - 1))
        Name(k) == CASE is[k].arg # Nothing -> <<is[k].arg.name>>
                     [] is[k].op = "call_indirect" -> IF Before(k) = <<>> THEN <<"">> ELSE <<Before(k)[1].means[2]>>
                     [] OTHER -> <<>>
    IN  FlattenSeq([k \in DOMAIN is |-> Name(k)])

\* Calls of imports are calls of the same functions afterwards, in the same
\* order, directly or through the table; and what an instruction still names
\* has an index.  ref.func of a function that a dylib answers for with dlsym
\* has none: it is given the runtime symbol.
CallsKeptButKnown ==
    Written =>
    /\ Callees(body) = Callees(program.body)
    /\ \A k \in DOMAIN body : body[k].arg # Nothing =>
        \/ Contains(functions, body[k].arg)
        \/ body[k].op = "ref.func" /\ body[k].arg.is = "runtime"

\* A function has one address: it is in the element segments at most once,
\* whoever put it there; and the header's place of the start function is still
\* its place in the file.
OneAddress ==
    /\ \A k, l \in DOMAIN elements : \A a \in DOMAIN elements[k].vector, b \in DOMAIN elements[l].vector :
        elements[k].vector[a] = elements[l].vector[b] => k = l /\ a = b
    /\ (Written /\ start # <<>>) =>
        LET f == symbols[StartSymbols[1]].value
        IN  IF -1 \in {start[1], start[2]} THEN ~InElements(f)
            ELSE elements[start[1] + 1].vector[start[2] + 1] = f

\* Every address the file gives out is filled when the module is loaded: the
\* constructor copies the whole segment to where its first function is put.
\* A segment made for visible functions alone is not copied.
TableFilledButKnown ==
    Written =>
    \A k \in DOMAIN elements :
        (elements[k].vector # <<>> /\ (k > 1 \/ tableElem)) =>
            LET init == Where(inits, {t \in ToSet(inits) : t.elem = k})
            IN  /\ Len(init) = 1
                /\ init[1].len = Len(elements[k].vector)
                /\ [k2 \in DOMAIN At(CodeFixes, CodeOffset(init[1].inst)) |->
                        At(CodeFixes, CodeOffset(init[1].inst))[k2].means]
                   = <<<<"function", elements[k].vector[1].name, 0>>>>

\* The words of .init_array are the constructors, by priority and then in
\* the order of the objects, each once.
InitArrayInOrder ==
    LET ctors == program.ctors
        Fn(k) == symbols[ctors[k].symbol].value
        fns == {k \in DOMAIN ctors : Fn(k).is = "function" /\ \A j \in DOMAIN ctors : Precedes(j, k) => Fn(j) # Fn(k)}
    IN  Written =>
        /\ \A k \in fns :
              LET fixes == WordAt(".init_array", 4 * Cardinality({j \in fns : Precedes(j, k)}))
              IN  Len(fixes) = 1 /\ fixes[1].means = <<"function", Fn(k).name, 0>>
        /\ Cardinality({k \in DOMAIN DataFixes : DataFixes[k].at[1] = SectionIndex(".init_array")}) = Cardinality(fns)

\* What another module gets for a symbol: what it means, or, of a function that
\* a dylib has and this module exports again, its place in this module's table.
SeenAs(s) ==
    Meanings(s, 0)
    \cup IF s.kind = 0 /\ Undefined(s) THEN {<<"function", s.value.name, 0>>} ELSE {}

\* A module linked to this one finds in .dynsym every symbol that it may use,
\* and the runtime linker finds there what it stands for and its name.  Those of
\* Objective-C that the generators skip are not for others.
DynsymComplete ==
    LET visible == {s \in ToSet(symtable) : Visible(symbols[s]) /\ ~Skipped(symbols[s])
                        /\ (symbols[s].kind = 1 => "EXTERNAL" \notin symbols[s].flags)}
        names == FlattenSeq([k \in DOMAIN dynsym |-> [c \in 1 .. Len(dynsym[k].name) + 1 |-> k]])
    IN  Written =>
        /\ \A s \in visible : \E k \in DOMAIN dynsym :
              LET word == WordAt(".dynsym", 12 * (k - 1) + 4)
              IN  /\ dynsym[k].name = program.symbols[s].name
                  /\ Len(word) = 1 /\ word[1].means \in SeenAs(program.symbols[s])
        /\ Len(dynsym) = Cardinality(visible)
        /\ \A k \in DOMAIN dynsym :
              LET word == WordAt(".dynsym", 12 * (k - 1))
              IN  /\ Len(word) = 1
                  /\ word[1].means = <<"memory", ".dynstr", SelectInSeq(names, LAMBDA j : j = k) - 1>>

\* The sizes written in front of the groups and of the subsections, and with
\* which the buffers are allocated, are what is written.
SizesPredicted ==
    LET internal == [k \in DOMAIN file.data |-> WrittenData(file.data[k])]
                    \o [k \in DOMAIN file.code |-> WrittenCode(file.code[k])]
        counted == [k \in DOMAIN file.data |-> CountedData(file.data[k])]
                   \o [k \in DOMAIN file.code |-> CountedCode(file.code[k])]
        external == [k \in DOMAIN file.external |-> WrittenExternal(file.external[k])]
        externalCounted == [k \in DOMAIN file.external |-> CountedExternal(file.external[k])]
    IN  Written =>
        /\ \A k \in DOMAIN external : SumOf(external[k]) = externalCounted[k]
        /\ \A k \in DOMAIN internal : SumOf(internal[k]) = counted[k]
        /\ SumOf(WrittenSubsection(external, externalCounted)) = CountedSubsection(externalCounted)
        /\ SumOf(WrittenSubsection(internal, counted)) = CountedSubsection(counted)

\* A relocation in a function or in a segment that the merges dropped.
DroppedCode == \E k \in DOMAIN program.codeRelocs :
    \A j \in DOMAIN program.body : program.body[j].id # program.codeRelocs[k].inst
DroppedData == \E k \in DOMAIN program.dataRelocs :
    \A j \in DOMAIN program.segments : program.segments[j].name # program.dataRelocs[k].segment

\* A program is linked, but for four that are lost at the end: the functions of the
\* first element segment are all methods and move away, the profile exports what
\* is exported already, or the merges brought a relocation without the function
\* or without the segment that it is in; and no such relocation is ever written.
LinksButKnown ==
    /\ phase \in Thrown =>
        \/ phase = "INVALID_DST_OFF" /\ DroppedCode
        \/ phase = "INVALID_DST_IDX" /\ DroppedData
        \/ phase = "INVALID_SRC_OFF" /\ tableElem /\ elements[1].vector = <<>>
        \/ /\ phase = "WASM_VALIDATION_ERROR" /\ ~program.noexport
           /\ ToSet(ExportList) \cap (IF program.profile[1] = "export-all" THEN ToSet(ExportList)
                                     ELSE ToSet(Tail(program.profile))) # {}
    /\ Written => ~DroppedCode /\ ~DroppedData

=============================================================================
