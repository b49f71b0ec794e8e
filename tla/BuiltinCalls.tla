---------------------------- MODULE BuiltinCalls ----------------------------
(***************************************************************************)
(* The handlers that turn a call of a function imported from __builtin     *)
(* into the instructions it stands for: builtin_op_replace_map of          *)
(* fixup-builtin.js, which the linker applies, and atomic_op_replace_map   *)
(* of core-flow.js, an older copy which the workflow action                *)
(* postOptimizeAtomicInst applies.                                         *)
(*                                                                         *)
(* A handler declares the type of the function and puts a sequence of      *)
(* instructions in the place of the call; nothing compares the two.        *)
(* CallRewriting applies the handlers; those that look at the code around  *)
(* the call (alloca, table_grow, table_zerofill) are there.                *)
(***************************************************************************)
EXTENDS InstTable

\* An instruction: "type" and "sig" as InstTable reads them, "arg" a local, a
\* function or a value, "align" the exponent of a memory access.
NoAlign == -1
NoSig == [argv |-> <<>>, retv |-> <<>>]
Inst(op, type, arg) == [op |-> op, type |-> type, arg |-> arg, sig |-> NoSig, align |-> NoAlign]
Op(op) == Inst(op, VOID, "")
Constant(op, value) == Inst(op, VOID, value)
Access(op, align) == <<[Op(op) EXCEPT !.align = align]>>        \* new AtomicInst(op, align, 0)

H(name, params, results, code) ==
    [name |-> name, params |-> params, results |-> results, code |-> code]

\* The read-modify-write operations in the order of their opcodes, 7 apart.
NoSuffix == ""
RmwNames == <<"add", "sub", "and", "or", "xor", "xchg">>
\* Mutant: the result of the first copy, an i32, is left in every copy.
RmwFirstCopy(prefix, suffix, type, first, align) ==
    {H(prefix \o "_" \o RmwNames[k] \o suffix, <<I32, type>>, <<I32>>, Access(first + 7 * (k - 1), align)) :
        k \in DOMAIN RmwNames}
Rmw(prefix, suffix, type, first, align) ==
    {H(prefix \o "_" \o RmwNames[k] \o suffix, <<I32, type>>, <<type>>, Access(first + 7 * (k - 1), align)) :
        k \in DOMAIN RmwNames}

Waits == {
    H("memory_atomic_notify", <<I32, I32>>, <<I32>>, Access(\hFE00, 2)),
    H("memory_atomic_wait32", <<I32, I32, I64>>, <<I32>>, Access(\hFE01, 2)),
    H("atomic_fence", <<>>, <<>>, <<Op(\hFE03)>>)}

Access8 ==
    Rmw("i32_atomic_rmw8", "_u", I32, \hFE20, 0) \cup {
    H("i32_atomic_load8_u", <<I32>>, <<I32>>, Access(\hFE12, 0)),
    H("i32_atomic_store8", <<I32, I32>>, <<>>, Access(\hFE19, 0)),
    H("i32_atomic_rmw8_cmpxchg_u", <<I32, I32, I32>>, <<I32>>, Access(\hFE4A, 0))}

Access16(cmpxchg) ==
    Rmw("i32_atomic_rmw16", "_u", I32, \hFE21, 1) \cup {
    H("i32_atomic_load16_u", <<I32>>, <<I32>>, Access(\hFE13, 1)),
    H("i32_atomic_store16", <<I32, I32>>, <<>>, Access(\hFE1A, 1)),
    H("i32_atomic_rmw16_cmpxchg_u", <<I32, I32, I32>>, <<I32>>, Access(\hFE4B, cmpxchg))}

Access32(load) ==
    Rmw("i32_atomic_rmw", NoSuffix, I32, \hFE1E, 2) \cup {
    H("i32_atomic_load", <<I32>>, <<I32>>, Access(\hFE10, load)),
    H("i32_atomic_store", <<I32, I32>>, <<>>, Access(\hFE17, 2)),
    H("i32_atomic_rmw_cmpxchg", <<I32, I32, I32>>, <<I32>>, Access(\hFE48, 2))}

Access64 ==
    Rmw("i64_atomic_rmw", NoSuffix, I64, \hFE1F, 3) \cup {
    H("memory_atomic_wait64", <<I32, I64, I64>>, <<I32>>, Access(\hFE02, 3)),
    H("i64_atomic_load", <<I32>>, <<I64>>, Access(\hFE11, 3)),
    H("i64_atomic_store", <<I32, I64>>, <<>>, Access(\hFE18, 3)),
    H("i64_atomic_rmw_cmpxchg", <<I32, I64, I64>>, <<I64>>, Access(\hFE49, 3))}

\* The parts of builtin_op_replace_map.
BuiltinAtomic8 == Waits \cup Access8
BuiltinAtomic16 == Access16(0)
BuiltinAtomic32 == Access32(1)
BuiltinAtomic64 == Access64

Unary(name, type, op) == H(name, <<type>>, <<type>>, <<Op(op)>>)

BuiltinF64 == {
    Unary("f64_ceil", F64, \h9B), Unary("f64_floor", F64, \h9C), Unary("f64_abs", F64, \h99),
    Unary("f64_nearest", F64, \h9E), Unary("f64_trunc", F64, \h9D),
    H("f64_isinf", <<F64>>, <<I32>>, <<Constant(\h44, "Infinity"), Op(\h61)>>),
    H("f64_isnan", <<F64>>, <<I32>>, <<Constant(\h44, "NaN"), Op(\h61)>>),
    H("f64_copysign", <<F64, F64>>, <<F64>>, <<Op(\hA6)>>)}

BuiltinF32 == {
    Unary("f32_ceil", F32, \h8D), Unary("f32_floor", F32, \h8E), Unary("f32_nearest", F32, \h90),
    Unary("f32_abs", F32, \h8B), Unary("f32_trunc", F32, \h8F), Unary("f32_sqrt", F32, \h91),
    H("f32_isinf", <<F32>>, <<I32>>, <<Constant(\h43, "Infinity"), Op(\h5B)>>),
    H("f32_isnan", <<F32>>, <<I32>>, <<Constant(\h43, "NaN"), Op(\h5B)>>),
    H("f32_copysign", <<F32, F32>>, <<F32>>, <<Op(\h98)>>)}

MemoryHandlers == {
    H("memory_copy", <<>>, <<I32>>, <<Op(\hFC0A)>>),
    H("memory_size", <<>>, <<I32>>, <<Op(\h3F)>>),
    H("memory_grow", <<I32>>, <<I32>>, <<Op(\h40)>>),
    H("memory_fill", <<I32, I32, I32>>, <<>>, <<Op(\hFC0B)>>)}

BuiltinMemory == MemoryHandlers \cup {H("table_size", <<>>, <<I32>>, <<Op(\hFC10)>>)}

\* The parts of atomic_op_replace_map: the copies have drifted apart.
CoreAtomic8 == Waits \cup Access8
CoreAtomic16 == Access16(1)
CoreAtomic32 == Access32(2)
CoreAtomic64 == Access64
CoreOther ==
    MemoryHandlers \cup {Unary("f64_ceil", F64, \h9B), Unary("f64_floor", F64, \h9C),
                         Unary("f64_abs", F64, \h8B)}

BuiltinHandlers ==
    BuiltinAtomic8 \cup BuiltinAtomic16 \cup BuiltinAtomic32 \cup BuiltinAtomic64
    \cup BuiltinF64 \cup BuiltinF32 \cup BuiltinMemory
CoreHandlers == CoreAtomic8 \cup CoreAtomic16 \cup CoreAtomic32 \cup CoreAtomic64 \cup CoreOther

HandlersOf(map) ==
    CASE map = "builtin_op_replace_map" -> BuiltinHandlers
      [] map = "atomic_op_replace_map" -> CoreHandlers
      [] OTHER -> {}
=============================================================================
