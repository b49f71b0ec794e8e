--------------------------- MODULE MCRuntimeRelocs ---------------------------
(***************************************************************************)
(* Programs: a module with functions, methods, data and strings of its own *)
(* and one or two uses of what it or a dylib defines:                      *)
(*   call, ref.func    an instruction that names the function;             *)
(*   code, data        its address in an i32.const or in a word of data;   *)
(* linked to an archive (not asked any more), a dylib, libobjc2, and a     *)
(* dylib without a module name.                                            *)
(***************************************************************************)
EXTENDS RuntimeRelocs

S(name, kind, flags, value, offset) ==
    [name |-> name, kind |-> kind, flags |-> flags, value |-> value, offset |-> offset]
At0(is, name) == [is |-> is, module |-> "", name |-> name]

\* With and without visible functions: main is also called __start, and a method
\* for messages send.
Defined(main) == <<
    S("__start", 0, main, Own("main"), 0), S("main", 0, main, Own("main"), 0),
    S("help", 0, {"LOCAL"}, Own("help"), 0), S("_i_", 0, {"LOCAL"}, Own("_i_"), 0),
    S("objc_msgSend_v", 0, main, Own("objc_msgSend_v"), 0), S("objc_msgSend_main", 0, main, Own("main"), 0),
    S("send", 0, main, Own("objc_msgSend_v"), 0), S(".objc_selector_x", 1, main, Segment("h"), 0),
    S("g", 1, {}, Segment("g"), 8), S("h", 1, {"LOCAL"}, Segment("h"), 0),
    S(".L.str", 1, {"LOCAL"}, Segment("str"), 0), S(".L.str.1", 1, {"LOCAL"}, Segment("str1"), 0),
    S(".L.str.2", 1, {"LOCAL"}, Segment("str2"), 0)>>

\* What it uses of others; out is another name for the import write.
Used == <<
    S("puts", 0, {"UNDEFINED"}, Import("env", "puts"), 0),
    S("out", 0, {"UNDEFINED"}, Import("env", "write"), 0),
    S("msg", 0, {"UNDEFINED", "EXPORTED"}, Import("env", "msg"), 0),
    S("anon", 0, {"UNDEFINED"}, Import("env", "anon"), 0),
    S("lost", 0, {"UNDEFINED"}, Import("env", "lost"), 0),
    S("foo", 0, {"UNDEFINED"}, Import("other", "foo"), 0),
    S("environ", 1, {"UNDEFINED"}, Nothing, 0), S("nodata", 1, {"UNDEFINED"}, Nothing, 0),
    S("__start_set", 1, {"UNDEFINED"}, At0("start", "set"), 0),
    S("__stop_set", 1, {"UNDEFINED"}, At0("end", "set"), 0)>>

D(name, section, string, bytes) == [name |-> name, section |-> section, string |-> string, bytes |-> bytes]
Segments == <<
    D("str", ".rodata", TRUE, "hello"), D("str1", ".rodata", TRUE, "bye"), D("str2", ".rodata", TRUE, "hello"),
    D("h", ".data", FALSE, "hello"), D("words", ".data", FALSE, ""), D("g", ".data", FALSE, ""),
    D("set", "set", FALSE, "")>>

MCLoaders == <<
    [linkage |-> "static", linkMethod |-> "", module |-> "", exports |-> {"lost"}, functions |-> {"lost"}, data |-> {"nodata"}],
    [linkage |-> "dylink", linkMethod |-> "dlsym", module |-> "libc", exports |-> {"puts"},
     functions |-> {"puts", "write"}, data |-> {"environ"}],
    [linkage |-> "dylink", linkMethod |-> "both", module |-> "libobjc2", exports |-> {"msg"},
     functions |-> {"msg", "write"}, data |-> {"environ"}],
    [linkage |-> "dylink", linkMethod |-> "both", module |-> "", exports |-> {"anon"}, functions |-> {}, data |-> {}]>>

\* A use: op, the symbol, the addend.
Messages == {"objc_msgSend_v", "objc_msgSend_main"}
Selectors == {".objc_selector_x"}
Used1 == {s \in ToSet(Defined({}) \o Used) : s.name \notin Messages \cup Selectors \cup {"main", "send"}}
Functions == {s \in Used1 : s.kind = 0}
Datas == {s \in Used1 : s.kind = 1}
Use(op, s, addend) == [op |-> op, s |-> s, addend |-> addend]
Uses ==
    {Use(op, s, 0) : op \in {"call", "ref.func", "code", "data"}, s \in Functions}
    \cup {Use(op, s, 4) : op \in {"code", "data", "offset"}, s \in Datas}

\* Uses in a function and in a segment that the merges dropped: they are in no
\* instruction of the body, and in no segment.
Dropped ==
    {Use(op, s, 0) : op \in {"dropped code", "dropped data"},
                     s \in {x \in Used1 : x.name \in {"help", "_i_", "puts", "foo", "g", "environ"}}}

Op(u) == IF u.op \in {"code", "offset"} THEN "i32.const" ELSE u.op
IsFn(u) == u.s.kind = 0
Symbol(s) == SymbolRef(s.name)
InCode(us) == SelectSeq([k \in DOMAIN us |-> k], LAMBDA k : us[k].op \in {"code", "offset", "dropped code"})
InData(us) == SelectSeq([k \in DOMAIN us |-> k], LAMBDA k : us[k].op \in {"data", "dropped data"})
Program(us, main, ctors, noexport, profile) ==
    LET asked == SelectSeq(Used, LAMBDA s : \E k \in DOMAIN us : us[k].s = s)
        syms == Defined(main) \o asked
        imports == SelectSeq([k \in DOMAIN asked |-> asked[k].value], LAMBDA v : v.is = "import")
        instructions == SelectSeq([k \in DOMAIN us |-> k],
                                  LAMBDA k : us[k].op \in {"call", "ref.func", "code", "offset"})
    IN  [symbols |-> [x \in {Symbol(syms[k]) : k \in DOMAIN syms} |->
                        syms[SelectInSeq(syms, LAMBDA s : Symbol(s) = x)]],
         symtable |-> [k \in DOMAIN syms |-> Symbol(syms[k])],
         functions |-> imports \o <<Own("main"), Own("help"), Own("_i_"), Own("objc_msgSend_v")>>,
         body |-> [k \in DOMAIN instructions |->
                    LET u == us[instructions[k]]
                    IN  Inst(Op(u), IF Op(u) = "i32.const" THEN Nothing ELSE u.s.value, instructions[k])],
         codeRelocs |-> [k \in DOMAIN InCode(us) |->
                    LET u == us[InCode(us)[k]]
                    IN  [type |-> CASE u.op = "offset" -> "MEMORY_ADDR_LEB"
                                    [] IsFn(u) -> "TABLE_INDEX_SLEB"
                                    [] OTHER -> "MEMORY_ADDR_SLEB",
                         ref |-> Symbol(u.s), inst |-> InCode(us)[k], addend |-> u.addend]],
         dataRelocs |-> [k \in DOMAIN InData(us) |->
                    LET u == us[InData(us)[k]]
                    IN  [type |-> IF IsFn(u) THEN "TABLE_INDEX_I32" ELSE "MEMORY_ADDR_I32",
                         ref |-> Symbol(u.s),
                         segment |-> IF u.op = "data" THEN "words" ELSE "gone", off |-> 4 * InData(us)[k], addend |-> u.addend]],
         segments |-> Segments, sections |-> <<".rodata", ".data", "set">>,
         ctors |-> ctors, methods |-> {"_i_"}, messages |-> Messages, selectors |-> Selectors, noexport |-> noexport, profile |-> profile]

C(name, priority) == [symbol |-> SymbolRef(name), priority |-> priority]
NoCtors == <<>>
Ctors == {<<C("help", 65535)>>, <<C("help", 2), C("_i_", 1)>>,
          <<C("help", 2), C("main", 1), C("_i_", 1), C("help", 1)>>}
Profiles == {<<"none">>, <<"export-all">>, <<"names", "help", "gone">>, <<"names", "main">>}

\* The relocations taken over once, or twice.
Taken(p, times) == IF times = 1 THEN p ELSE [p EXCEPT !.codeRelocs = @ \o @, !.dataRelocs = @ \o @]

\* The arguments of Program, and how often relocations are taken over: two uses, or
\* one with what else a program has.
Cases ==
    {<<<<u, v>>, {}, NoCtors, FALSE, <<"none">>, 1>> : u \in Uses \cup Dropped, v \in Uses}
    \cup {<<<<u, v>>, {}, NoCtors, FALSE, <<"none">>, 1>> : u \in Dropped, v \in Dropped}
    \cup {<<<<u, v>>, {}, NoCtors, FALSE, <<"none">>, 2>> : u \in {w \in Uses : w.op \in {"code", "offset", "data"}},
            v \in {w \in Uses : w.op = "data"}}
    \cup {<<<<u>>, main, ctors, noexport, profile, 1>> :
            u \in Uses, main \in {{}, {"LOCAL"}}, ctors \in Ctors \cup {NoCtors},
            noexport \in BOOLEAN, profile \in Profiles}
MCPrograms == {Taken(Program(x[1], x[2], x[3], x[4], x[5]), x[6]) : x \in Cases}
=============================================================================
