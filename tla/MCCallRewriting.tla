--------------------------- MODULE MCCallRewriting ---------------------------
(***************************************************************************)
(* The functions tried, by kind.                                           *)
(*   argument: a call of memcpy, one argument of which is computed by an   *)
(*     instruction under test with its own operands (or by none, with a    *)
(*     statement between): every instruction decodeByteCode knows that     *)
(*     does not branch or open a block;                                    *)
(*   nested: memcpy and memset with arguments that read locals or copy     *)
(*     themselves, two in a row, and what is done with the result;         *)
(*   frame: alloca with and without a frame, and a branch that returns,    *)
(*     and another global that is treated like the stack pointer;          *)
(*   table: table_grow;  builtin: one call of each handler;                *)
(*   float: isnan and isinf of every class of float.                       *)
(***************************************************************************)
EXTENDS CallRewriting

CONSTANT Kinds

End == Op(\h0B)
Drop == Op(\h1A)
I32Const(v) == Constant(\h41, v)
Const == I32Const("c")
Consts(n) == [k \in 1 .. n |-> Const]
Fn(map, is) == [map |-> map, code |-> Append(is, End)]
MemCall(name) == Call(name, <<I32, I32, I32>>, <<I32>>)

Afters == {<<Drop>>, <<Set("a")>>, <<Tee("a"), Drop>>, <<Op(\h45), Drop>>, <<>>}

AllOps ==
    {\h01, \h1A, \h1B, \h1C} \cup \h28 .. \h44 \cup \h45 .. \hC4
    \cup {\hD0, \hD1, \hD2} \cup Bulk(0 .. 17)
    \cup Simd(0 .. 255 \ {154, 162, 165, 166, 175, 176, 178, 179, 180, 187, 194, 197, 198,
                          207, 208, 210, 211, 212, 226, 238})
    \cup Atomic(0 .. 3 \cup \h10 .. \h4E)
Tested ==
    {Op(op) : op \in AllOps} \cup {Set("b"), Tee("b"), Get("b"), GetSP, SetSP}
    \cup {Inst(op, FUNC_REF, "") : op \in {\h25, \h26}}
    \cup {Call("other", params, results) : params \in {<<>>, <<I32>>, <<I32, I64>>}, results \in {<<>>, <<I32>>, <<F64>>}}

\* n constants, the instruction with its operands, and constants until there
\* are three values.
Around(inst, n) ==
    Consts(n) \o Consts(Takes(inst)) \o <<inst>> \o Consts(3 - n - Leaves(inst))
Argument ==
    UNION {{Fn("memory_op_replace_map", Around(inst, n) \o <<MemCall("memcpy")>> \o after) :
                n \in 0 .. 3 - Leaves(inst), after \in Afters \ {<<Op(\h45), Drop>>}} : inst \in Tested}

Copied == Consts(3) \o <<MemCall("memset")>>
Args == {<<Const>>, <<Get("a")>>, <<Const, Tee("b")>>, Copied}
Nested ==
    {Fn("memory_op_replace_map", a \o b \o c \o <<MemCall(name)>> \o after) :
        a \in Args, b \in Args, c \in Args, name \in MemoryOps, after \in Afters}
    \cup {Fn("memory_op_replace_map",
             Consts(3) \o Consts(2) \o <<Get("b"), MemCall(n1), Drop, MemCall(n2)>> \o after) :
            n1 \in MemoryOps, n2 \in MemoryOps, after \in Afters}

N == I32Const("N")
Prologue == <<GetSP, N, Op(\h6B), Tee("fp"), SetSP>>
Epilogue == <<Get("fp"), N, Op(\h6A), SetSP>>
Alloca(n) == <<I32Const(n), Call("alloca", <<I32>>, <<I32>>)>>
Store(local) == <<Get(local), Const, Op(\h36)>>
\* The same steps on a global that is not the stack pointer.
OtherGlobal == <<Inst(\h23, I32, "g"), N, Op(\h6B), Set("q"), Get("q"), N, Op(\h6A), Inst(\h24, I32, "g")>>
Statements ==
    {Alloca("n") \o <<Set("p")>> \o Store("p"), Alloca("n") \o <<Drop>>, Store("q")}
    \cup {Alloca("n") \o Alloca("m") \o <<Op(\h36)>>, OtherGlobal}
Returns(epilogue) == <<Get("q"), Op(\h04)>> \o epilogue \o <<Op(\h0F), End>>
Frame ==
    UNION {{Fn("builtin_op_replace_map", Prologue \o s1 \o early \o s2 \o Epilogue) :
              early \in {<<>>, Returns(Epilogue)}} : <<s1, s2>> \in Statements \X Statements}
    \cup UNION {{Fn("builtin_op_replace_map", s1 \o early \o s2) : early \in {<<>>, Returns(<<>>)}} :
              <<s1, s2>> \in Statements \X Statements}

Grow == <<Call("table_grow", <<I32>>, <<I32>>)>>
Table ==
    {Fn("builtin_op_replace_map", a \o Grow \o <<Drop>> \o b \o Grow) :
        a \in {<<Const>>, <<Get("a")>>, <<Const, Const, Op(\h6A)>>}, b \in {<<Const>>, <<Get("a")>>}}

ConstOf(type) ==
    CASE type = I32 -> Const [] type = I64 -> Constant(\h42, "c")
      [] type = F32 -> Constant(\h43, "c") [] type = F64 -> Constant(\h44, "c")
ArgsOf(h) == [k \in DOMAIN h.params |-> ConstOf(h.params[k])]
Builtin ==
    {Fn(map, ArgsOf(h) \o <<Call(h.name, h.params, h.results)>>) :
        <<map, h>> \in UNION {{m} \X HandlersOf(m) : m \in {"builtin_op_replace_map", "atomic_op_replace_map"}}}
    \cup {Fn("builtin_op_replace_map", Consts(2) \o <<Call("table_zerofill", <<I32, I32>>, <<I32>>)>>)}

FloatOf(type, v) == IF type = F64 THEN Constant(\h44, v) ELSE Constant(\h43, v)
Float ==
    {Fn("builtin_op_replace_map", <<FloatOf(h.params[1], v), Call(h.name, h.params, h.results)>>) :
        h \in {b \in BuiltinHandlers : b.name \in IsNaN \cup IsInf},
        v \in {"NaN", "Infinity", "-Infinity", "finite"}}

MCFunctions ==
    UNION {CASE k = "argument" -> Argument [] k = "nested" -> Nested [] k = "frame" -> Frame
             [] k = "table" -> Table [] k = "builtin" -> Builtin [] k = "float" -> Float : k \in Kinds}
==============================================================================
