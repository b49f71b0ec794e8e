--------------------------- MODULE DynamicLinking ---------------------------
(***************************************************************************)
(* The last look-ups of performLinking: the symbols that are still         *)
(* undefined are looked for in the dylibs the module is linked to.         *)
(*                                                                         *)
(* A dylib answers for a function with an import (libobjc2, whose linking  *)
(* method is "both"), or with a RuntimeLinkingSymbol that dlsym finds when *)
(* the program runs: then there is nothing to import, and a call becomes   *)
(* i32.const (patched by the runtime linker) and call_indirect.  After the *)
(* look-ups, local strings of equal bytes are merged.                      *)
(*                                                                         *)
(* The relocations are those of the code and of the data after the objects *)
(* and archives were merged; the code is the body of one function.  A      *)
(* function is told from another by its name, an import by module and      *)
(* name; types are left out, and so is _usage, which nothing reads after   *)
(* these steps.                                                            *)
(***************************************************************************)
EXTENDS Integers, SequencesExt, Loops

CONSTANTS
    Programs,   \* the programs linked, before the look-ups
    Loaders     \* the loaders in the order of the command line:
                \* [linkage, linkMethod, module, exports, functions, data]

VARIABLES
    phase,      \* the loop of performLinking that runs
    i,          \* its index
    program,    \* what the objects said; never changed
    symbols,    \* symbol -> [kind, name, flags, value, offset]
    symtable,   \* _symtable: symbols, in order
    functions,  \* _functions
    body,       \* the opcodes of the function with the relocations
    codeRelocs, \* _code_relocs: [type, ref, inst, addend]
    dataRelocs, \* _data_relocs: [type, ref, segment, off, addend]
    segments,   \* _dataSegments: [name, section, bytes]
    toImport,   \* dst_funcmap: import -> import of a dylib
    toTable     \* dst_tblfuncmap: import -> RuntimeLinkingSymbol

\* A name is a string, and a string has a length.
ASSUME ProgramsAssumption ==
    \A p \in Programs :
        /\ p.symtable \in Seq(DOMAIN p.symbols)
        /\ \A s \in DOMAIN p.symbols :
              /\ s[1] = "symbol"
              /\ DOMAIN p.symbols[s] = {"kind", "name", "flags", "value", "offset"}
              /\ Len(p.symbols[s].name) \in Nat /\ Len(p.symbols[s].value.name) \in Nat
        /\ p.codeRelocs \in Seq([type : STRING, ref : DOMAIN p.symbols, inst : Nat, addend : Int])
        /\ p.dataRelocs \in Seq([type : STRING, ref : DOMAIN p.symbols, segment : STRING, off : Nat, addend : Int])

linkVars == <<program, symbols, symtable, functions, body, codeRelocs, dataRelocs,
              segments, toImport, toTable>>

----------------------------------------------------------------------------
\* What a symbol stands for.
Own(f) == [is |-> "function", module |-> "", name |-> f]
Import(m, n) == [is |-> "import", module |-> m, name |-> n]
Runtime(m, n) == [is |-> "runtime", module |-> m, name |-> n]
Segment(d) == [is |-> "segment", module |-> "", name |-> d]
Nothing == [is |-> "nothing", module |-> "", name |-> ""]

\* The reference of a relocation is a symbol of the symbol table or an object
\* made for this one purpose: a RuntimeLinkingSymbol, {kind, offset, value} for
\* a function (the first of an element segment), or a name in .dynstr.
SymbolRef(name) == <<"symbol", "", name>>
RuntimeRef(m, n) == <<"runtime", m, n>>
FunctionRef(f) == <<"function", f>>
NameRef(off) == <<"dynstr", off>>
Referenced(ref) ==
    CASE ref[1] = "symbol" -> symbols[ref]
      [] ref[1] = "runtime" -> [kind |-> 0, name |-> ref[3], flags |-> {}, value |-> Nothing, offset |-> 0]
      [] ref[1] \in {"function", "first"} -> [kind |-> 0, name |-> "", flags |-> {}, value |-> ref[2], offset |-> 0]
      [] OTHER -> [kind |-> 1, name |-> "", flags |-> {}, value |-> Segment(".dynstr"), offset |-> ref[2]]

Inst(op, arg, id) == [op |-> op, arg |-> arg, id |-> id]
IsCall(inst) == inst.op \in {"call", "ref.func"}
Undefined(s) == "UNDEFINED" \in s.flags

\* A function symbol stands for a function of the module or is an import; a
\* data symbol has a place in a segment or is undefined, and then it may be the
\* start or the end of a section.  The compiler gives each string a segment of
\* its own and one symbol, at its start.
FunctionAssumed(s) ==
    s.value = IF Undefined(s) THEN Import(s.value.module, s.value.name) ELSE Own(s.value.name)
DataAssumed(p, x) ==
    LET s == p.symbols[x]
    IN  IF Undefined(s)
        THEN \/ s.value = Nothing
             \/ s.value.is \in {"start", "end"} /\ s.value.name \in ToSet(p.sections)
        ELSE \E k \in DOMAIN p.segments :
                /\ s.value = Segment(p.segments[k].name)
                /\ p.segments[k].string =>
                      s.offset = 0 /\ \A y \in DOMAIN p.symbols : p.symbols[y].value = s.value => y = x
ASSUME SymbolsAssumption ==
    \A p \in Programs :
        /\ ToSet(p.symtable) = DOMAIN p.symbols
        /\ \A k, j \in DOMAIN p.symtable : p.symtable[k] = p.symtable[j] => k = j
        /\ p.segments \in Seq(ToSet(p.segments))
        /\ \A k, j \in DOMAIN p.segments : p.segments[k].name = p.segments[j].name => k = j
        /\ \A x \in DOMAIN p.symbols :
              LET s == p.symbols[x]
              IN  /\ s.kind \in {0, 1}
                  /\ s.kind = 0 => FunctionAssumed(s)
                  /\ s.kind = 1 => DataAssumed(p, x)
                  /\ Undefined(s) => "LOCAL" \notin s.flags

\* Two relocations of one place are one, which mergeWithModule took over twice.
\* It also takes over those in functions and segments that it drops: of these,
\* no instruction has the id and no segment the name.  What an instruction calls
\* is an index of the module and no relocation: only addresses are.  An index of
\* the table has no addend.
ASSUME RelocsAssumption ==
    \A p \in Programs :
        /\ p.body \in Seq(ToSet(p.body))
        /\ \A k \in DOMAIN p.body :
              /\ DOMAIN p.body[k] = {"op", "arg", "id"} /\ p.body[k].id \in Nat \ {0}
              /\ \A j \in DOMAIN p.body : p.body[j].id = p.body[k].id => j = k
        /\ \A k \in DOMAIN p.codeRelocs :
              LET r == p.codeRelocs[k]
              IN  /\ r.type \in IF p.symbols[r.ref].kind = 0 THEN {"TABLE_INDEX_SLEB"}
                                 ELSE {"MEMORY_ADDR_LEB", "MEMORY_ADDR_SLEB"}
                  /\ r.inst # 0 /\ \A j \in DOMAIN p.body : p.body[j].id = r.inst => ~IsCall(p.body[j])
                  /\ \A j \in DOMAIN p.codeRelocs : p.codeRelocs[j].inst = r.inst => p.codeRelocs[j] = r
        /\ \A k \in DOMAIN p.dataRelocs :
              LET r == p.dataRelocs[k]
              IN  /\ r.type = IF p.symbols[r.ref].kind = 0 THEN "TABLE_INDEX_I32" ELSE "MEMORY_ADDR_I32"
                  /\ p.symbols[r.ref].kind = 0 => r.addend = 0
                  /\ r.off < 16
                  /\ \A j \in DOMAIN p.segments : p.segments[j].name = r.segment => ~p.segments[j].string
                  /\ \A j \in DOMAIN p.dataRelocs :
                        p.dataRelocs[j].segment = r.segment /\ p.dataRelocs[j].off = r.off => p.dataRelocs[j] = r

\* The vector has each function once, and whatever an instruction or a symbol
\* names.  Only calls that the linker makes are told apart as indirect: those
\* of the program are instructions like others.
ASSUME VectorAssumption ==
    \A p \in Programs :
        /\ p.functions \in Seq(ToSet(p.functions))
        /\ \A k, j \in DOMAIN p.functions : p.functions[k] = p.functions[j] => k = j
        /\ \A f \in ToSet(p.functions) : f = Own(f.name) \/ f = Import(f.module, f.name)
        /\ \A x \in DOMAIN p.symbols : p.symbols[x].kind = 0 => p.symbols[x].value \in ToSet(p.functions)
        /\ \A k \in DOMAIN p.body :
              IF IsCall(p.body[k]) THEN p.body[k].arg \in ToSet(p.functions)
              ELSE p.body[k].arg = Nothing /\ p.body[k].op # "call_indirect"

----------------------------------------------------------------------------
(* The dylibs.                                                             *)

\* DylibSymbolLinker.resolveFuncSymbol, for a name it has.
ResolveFunc(l, name) ==
    IF l.linkMethod = "both" /\ name \in l.exports
    THEN Import(IF l.module = "" THEN "env" ELSE l.module, name)
    ELSE Runtime(l.module, name)
HasFunc(l, name) == name \in l.functions \/ (l.linkMethod = "both" /\ name \in l.exports)

Dylibs == SelectSeq(Loaders, LAMBDA l : l.linkage = "dylink")
FindFunc(name) ==
    LET has == SelectSeq(Dylibs, LAMBDA l : HasFunc(l, name))
    IN  IF has = <<>> THEN Nothing ELSE ResolveFunc(has[1], name)
FindData(name) == \E k \in DOMAIN Dylibs : name \in Dylibs[k].data

----------------------------------------------------------------------------
\* dst_funcmap and dst_tblfuncmap are Maps: pairs in the order they were set.
Keys(map) == {map[k][1] : k \in DOMAIN map}
Get(map, old) == (CHOOSE p \in Range(map) : p[1] = old)[2]
Put(map, old, new) == IF old \in Keys(map) THEN map ELSE Append(map, <<old, new>>)
GetOr(map, x) == IF x \in Keys(map) THEN Get(map, x) ELSE x

Init ==
    /\ program \in Programs
    /\ symbols = program.symbols
    /\ symtable = program.symtable
    /\ functions = program.functions
    /\ body = program.body
    /\ codeRelocs = program.codeRelocs
    /\ dataRelocs = program.dataRelocs
    /\ segments = program.segments
    /\ toImport = <<>> /\ toTable = <<>>
    /\ phase = "resolve" /\ i = 1

Goto(next) == phase' = next /\ i' = 1

\* The answer for a symbol: a function that the module env should provide, or
\* data that has no value and no section it starts or stops.
Answer(s) ==
    IF s.kind = 0 /\ s.value.module = "env" THEN FindFunc(s.value.name) ELSE Nothing
IsFound(s) ==
    /\ Undefined(s)
    /\ IF s.kind = 0 THEN Answer(s) # Nothing ELSE s.value = Nothing /\ FindData(s.name)
FoundFlags(new) ==
    IF new.is = "runtime" THEN {"EXTERNAL", "EXTERNAL_DLSYM"} ELSE {"EXTERNAL"}

\* One turn of the loop over the symbol table.
Resolve ==
    /\ phase = "resolve" /\ i <= Len(symtable)
    /\ LET s == symbols[symtable[i]]
           new == Answer(s)
       IN  /\ symbols' = IF IsFound(s)
                         THEN [symbols EXCEPT ![symtable[i]].value = new,
                                              ![symtable[i]].flags = (@ \ {"UNDEFINED"}) \cup FoundFlags(new)]
                         ELSE symbols
           /\ toImport' = IF IsFound(s) /\ new.is = "import" THEN Put(toImport, s.value, new) ELSE toImport
           /\ toTable' = IF IsFound(s) /\ new.is = "runtime" THEN Put(toTable, s.value, new) ELSE toTable
    /\ i' = i + 1
    /\ UNCHANGED <<phase, program, symtable, functions, body, codeRelocs, dataRelocs, segments>>

ResolveDone ==
    /\ phase = "resolve" /\ i > Len(symtable)
    /\ Goto("imports") /\ UNCHANGED linkVars

----------------------------------------------------------------------------
(* dst_funcmap: one import takes the place of another, which may be its    *)
(* equal: a dylib without a module name answers with an import from env.   *)

\* The symbols that data relocations name get the new value as well.
Revalued(map) ==
    [s \in DOMAIN symbols |->
        IF \E k \in DOMAIN dataRelocs : dataRelocs[k].type = "TABLE_INDEX_I32" /\ dataRelocs[k].ref = s
        THEN [symbols[s] EXCEPT !.value = GetOr(map, @)]
        ELSE symbols[s]]

ReplaceImport ==
    /\ phase = "imports" /\ i <= Len(toImport)
    /\ LET old == toImport[i][1]
           new == toImport[i][2]
       IN  IF ~Contains(functions, old)
           THEN phase' = "SCENARIO NOT HANDLED" /\ UNCHANGED <<i, functions>>
           ELSE /\ functions' = IF new # old /\ Contains(functions, new) THEN RemoveFirst(functions, old)
                                ELSE ReplaceAll(functions, old, new)
                /\ i' = i + 1 /\ UNCHANGED phase
    /\ UNCHANGED <<program, symbols, symtable, body, codeRelocs, dataRelocs, segments, toImport, toTable>>

RetargetImports ==
    /\ phase = "imports" /\ i > Len(toImport)
    /\ body' = [k \in DOMAIN body |->
                    IF IsCall(body[k]) THEN [body[k] EXCEPT !.arg = GetOr(toImport, @)] ELSE body[k]]
    /\ symbols' = Revalued(toImport)
    /\ Goto("tables")
    /\ UNCHANGED <<program, symtable, functions, codeRelocs, dataRelocs, segments, toImport, toTable>>

----------------------------------------------------------------------------
(* dst_tblfuncmap: the import goes, and a call goes through the table.     *)

RemoveImport ==
    /\ phase = "tables" /\ i <= Len(toTable)
    /\ IF ~Contains(functions, toTable[i][1])
       THEN phase' = "SCENARIO NOT HANDLED" /\ UNCHANGED <<i, functions>>
       ELSE /\ functions' = RemoveFirst(functions, toTable[i][1])
            /\ i' = i + 1 /\ UNCHANGED phase
    /\ UNCHANGED <<program, symbols, symtable, body, codeRelocs, dataRelocs, segments, toImport, toTable>>

RemoveImportDone ==
    /\ phase = "tables" /\ i > Len(toTable)
    /\ Goto(IF toTable = <<>> THEN "strings" ELSE "calls") /\ UNCHANGED linkVars

\* Mutant: the constant behind the call.
RetargetCallReversed ==
    /\ phase = "calls" /\ i <= Len(body)
    /\ LET inst == body[i]
           new == Get(toTable, inst.arg)
           mapped == IsCall(inst) /\ inst.arg \in Keys(toTable)
           ref == RuntimeRef(new.module, new.name)
       IN  CASE mapped /\ inst.op = "call" ->
                /\ body' = SubSeq(body, 1, i - 1)
                           \o <<Inst("call_indirect", Nothing, 0), Inst("i32.const", Nothing, inst.id)>>
                           \o SubSeq(body, i + 1, Len(body))
                /\ codeRelocs' = Append(codeRelocs,
                        [type |-> "TABLE_INDEX_SLEB", ref |-> ref, inst |-> inst.id, addend |-> 0])
                /\ i' = i + 2
             [] mapped /\ inst.op = "ref.func" ->
                /\ body' = [body EXCEPT ![i].arg = new]
                /\ i' = i + 1 /\ UNCHANGED codeRelocs
             [] OTHER -> i' = i + 1 /\ UNCHANGED <<body, codeRelocs>>
    /\ UNCHANGED <<phase, program, symbols, symtable, functions, dataRelocs, segments, toImport, toTable>>

\* The walk over the opcodes grows the vector it walks: i32.const takes the
\* place of the call and call_indirect follows it.
RetargetCall ==
    /\ phase = "calls" /\ i <= Len(body)
    /\ LET inst == body[i]
           new == Get(toTable, inst.arg)
           mapped == IsCall(inst) /\ inst.arg \in Keys(toTable)
           ref == RuntimeRef(new.module, new.name)
       IN  CASE mapped /\ inst.op = "call" ->
                /\ body' = SubSeq(body, 1, i - 1)
                           \o <<Inst("i32.const", Nothing, inst.id), Inst("call_indirect", Nothing, 0)>>
                           \o SubSeq(body, i + 1, Len(body))
                /\ codeRelocs' = Append(codeRelocs,
                        [type |-> "TABLE_INDEX_SLEB", ref |-> ref, inst |-> inst.id, addend |-> 0])
                /\ i' = i + 2
             [] mapped /\ inst.op = "ref.func" ->
                /\ body' = [body EXCEPT ![i].arg = new]
                /\ i' = i + 1 /\ UNCHANGED codeRelocs
             [] OTHER -> i' = i + 1 /\ UNCHANGED <<body, codeRelocs>>
    /\ UNCHANGED <<phase, program, symbols, symtable, functions, dataRelocs, segments, toImport, toTable>>

RetargetCallDone ==
    /\ phase = "calls" /\ i > Len(body)
    /\ symbols' = Revalued(toTable)
    /\ Goto("strings")
    /\ UNCHANGED <<program, symtable, functions, body, codeRelocs, dataRelocs, segments, toImport, toTable>>

----------------------------------------------------------------------------
(* Strings of equal bytes: the first symbol stays.                         *)

SegmentOf(s) == segments[SelectInSeq(segments, LAMBDA d : d.name = symbols[s].value.name)]
IsString(s) ==
    /\ symbols[s].kind = 1 /\ "LOCAL" \in symbols[s].flags
    /\ SegmentOf(s).string
Equal(s, t) == SegmentOf(s).bytes = SegmentOf(t).bytes

\* The symbol that replaces a string.
Kept(s) ==
    IF IsString(s)
    THEN symtable[SelectInSeq(symtable, LAMBDA t : IsString(t) /\ Equal(s, t))]
    ELSE s

\* _replaceRelocByRef
KeptRef(ref) == IF ref \in ToSet(symtable) THEN Kept(ref) ELSE ref
MergeStrings ==
    /\ phase = "strings"
    /\ codeRelocs' = [k \in DOMAIN codeRelocs |-> [codeRelocs[k] EXCEPT !.ref = KeptRef(@)]]
    /\ dataRelocs' = [k \in DOMAIN dataRelocs |-> [dataRelocs[k] EXCEPT !.ref = KeptRef(@)]]
    /\ symtable' = Where(symtable, {s \in ToSet(symtable) : Kept(s) = s})
    /\ segments' = Where(segments, {d \in ToSet(segments) :
            \A s \in ToSet(symtable) : symbols[s].value = Segment(d.name) => Kept(s) = s})
    /\ Goto("code")
    /\ UNCHANGED <<program, symbols, functions, body, toImport, toTable>>

LinkNext ==
    \/ Resolve \/ ResolveDone
    \/ ReplaceImport \/ RetargetImports
    \/ RemoveImport \/ RemoveImportDone \/ RetargetCall \/ RetargetCallDone
    \/ MergeStrings
=============================================================================
