----------------------------- MODULE InstTable -----------------------------
(***************************************************************************)
(* The instruction table of inst.js (opcode_info, from which opclsmap is   *)
(* filled): for every opcode what the instruction takes off the operand    *)
(* stack ("pull"), what it leaves there ("push") and the natural alignment *)
(* of its memory access.  The rewriting of calls counts stack slots with   *)
(* this table and with nothing else.                                       *)
(*                                                                         *)
(* An opcode with a prefix byte is prefix * 256 + sub-opcode, as in the    *)
(* code.  A row is [pull, push, align]: pull a sequence of types, push one *)
(* type or VOID, align the width in bits that the flags of the entry name, *)
(* 0 for NAT_ALIGN_NONE.  An entry whose pull and push are functions of    *)
(* the instruction is in OperandDependent.                                 *)
(***************************************************************************)
EXTENDS Integers, Sequences, FiniteSets, TLC

I32 == "i32"
I64 == "i64"
F32 == "f32"
F64 == "f64"
V128 == "v128"
VOID == "void"
ADDR == I32                 \* WA_TYPE_ADDR = WA_TYPE_I32
ANY == "@any"
NUMRIC == "@type-numric"
T == "@type"                \* the symbol __t__
FUNC_REF == "funcref"
UNDEFINED == "undefined"    \* the constant ______ and a field that is absent

Mem(ops, align, pull, push) ==
    [op \in ops |-> [pull |-> pull, push |-> push, align |-> align]]
Row(ops, pull, push) == Mem(ops, 0, pull, push)
None(ops) == Row(ops, <<>>, UNDEFINED)

Bulk(subs) == {\hFC00 + s : s \in subs}
Simd(subs) == {\hFD00 + s : s \in subs}
Atomic(subs) == {\hFE00 + s : s \in subs}

\* The entries whose pull or push is computed from the instruction.
OperandDependent == {\h02, \h03, \h04, \h10, \h11} \cup \h20 .. \h26

\* Control and constants; the entries of None have neither pull nor push.
ControlRows ==
    Row({\h00, \h01}, <<>>, VOID) @@ None(\h05 .. \h09 \cup \h0B .. \h0F \cup {\h18, \h19})
ConstRows ==
    Row({\h41}, <<>>, I32) @@ Row({\h42}, <<>>, I64) @@ Row({\h43}, <<>>, F32)
    @@ Row({\h44}, <<>>, F64)

ParametricRows ==
    Row({\h1A}, <<ANY>>, VOID) @@ Row({\h1B}, <<NUMRIC, NUMRIC, I32>>, NUMRIC) @@ None({\h1C})

MemoryRows ==
    Mem({\h28}, 32, <<ADDR>>, I32) @@ Mem({\h29}, 64, <<ADDR>>, I64)
    @@ Mem({\h2A}, 32, <<ADDR>>, F32) @@ Mem({\h2B}, 64, <<ADDR>>, F64)
    @@ Mem({\h2C, \h2D}, 8, <<ADDR>>, I32) @@ Mem({\h2E, \h2F}, 16, <<ADDR>>, I32)
    @@ Mem(\h30 .. \h32, 8, <<ADDR>>, I64) @@ Mem({\h33}, 16, <<ADDR>>, I64)
    @@ Mem({\h34, \h35}, 32, <<ADDR>>, I64)
    @@ Mem({\h36}, 32, <<ADDR, I32>>, VOID) @@ Mem({\h37, \h3E}, 32, <<ADDR, I64>>, VOID)
    @@ Mem({\h38}, 32, <<ADDR, F32>>, VOID) @@ Mem({\h39}, 64, <<ADDR, F64>>, VOID)
    @@ Mem({\h3A}, 8, <<ADDR, I32>>, VOID) @@ Mem({\h3B}, 16, <<ADDR, I32>>, VOID)
    @@ Mem({\h3C}, 8, <<ADDR, I64>>, VOID) @@ Mem({\h3D}, 16, <<ADDR, I64>>, VOID)
    @@ Row({\h3F}, <<>>, I32) @@ Row({\h40}, <<I32>>, I32)

CompareRows ==
    Row({\h45}, <<I32>>, I32) @@ Row(\h46 .. \h4F, <<I32, I32>>, I32)
    @@ Row({\h50}, <<I64>>, I32) @@ Row(\h51 .. \h5A, <<I64, I64>>, I32)
    @@ Row(\h5B .. \h60, <<F32, F32>>, I32)

I32Rows ==
    Row(\h61 .. \h66, <<F64, F64>>, I32)
    @@ Row(\h67 .. \h69, <<I32>>, I32) @@ Row(\h6A .. \h78, <<I32, I32>>, I32)

I64Rows ==
    Row(\h79 .. \h7B, <<I64>>, I64) @@ Row(\h7C .. \h8A, <<I64, I64>>, I64)
    @@ Row(\h8B .. \h91, <<F32>>, F32)

FloatRows ==
    Row(\h92 .. \h98, <<F32, F32>>, F32)
    @@ Row(\h99 .. \h9F, <<F64>>, F64) @@ Row(\hA0 .. \hA6, <<F64, F64>>, F64)

ConversionRows ==
    Row({\hA7}, <<I64>>, I32) @@ Row({\hA8, \hA9, \hBC}, <<F32>>, I32)
    @@ Row({\hAA, \hAB}, <<F64>>, I32) @@ Row({\hAC, \hAD}, <<I32>>, I64)
    @@ Row({\hAE, \hAF}, <<F32>>, I64) @@ Row({\hB0, \hB1, \hBD}, <<F64>>, I64)
    @@ Row({\hB2, \hB3}, <<I32>>, F32) @@ Row({\hB4, \hB5}, <<I64>>, F32)
    @@ Row({\hB6}, <<F64>>, F32) @@ Row({\hB7, \hB8}, <<I32>>, F64)
    @@ Row({\hB9, \hBA, \hBF}, <<I64>>, F64) @@ Row({\hBB}, <<F32>>, F64)
    @@ Row({\hBE}, <<F32>>, F32)
    @@ Row({\hC0, \hC1}, <<I32>>, I32) @@ Row(\hC2 .. \hC4, <<I64>>, I64)

BulkRows ==
    Row({\hD0}, <<>>, T) @@ Row({\hD1}, <<T>>, I32) @@ Row({\hD2}, <<>>, FUNC_REF)
    @@ Row(Bulk({0, 1}), <<F32>>, I32) @@ Row(Bulk({2, 3}), <<F64>>, I32)
    @@ Row(Bulk({4, 5}), <<F32>>, I64) @@ Row(Bulk({6, 7}), <<F64>>, I64)
    @@ Row(Bulk({8, 12, 14}), <<I32, I32, I32>>, VOID) @@ Row(Bulk({9, 13}), <<>>, VOID)
    @@ Row(Bulk({10, 11}), <<ADDR, ADDR, I32>>, VOID)
    @@ Row(Bulk({15}), <<T, I32>>, I32) @@ Row(Bulk({16}), <<>>, I32)
    @@ Row(Bulk({17}), <<I32, T, I32>>, VOID)

SimdMemoryRows ==
    Mem(Simd(0 .. 10 \cup {92, 93}), 128, <<ADDR>>, V128)
    @@ Mem(Simd(88 .. 91 \cup {11}), 128, <<ADDR, V128>>, VOID)
    @@ Mem(Simd(84 .. 87), 128, <<ADDR, V128>>, V128)

SimdLaneRows ==
    Row(Simd({21, 22, 24, 25, 27}), <<V128>>, I32)
    @@ Row(Simd({23, 26, 28}), <<V128, I32>>, V128)
    @@ Row(Simd({29}), <<V128>>, I64) @@ Row(Simd({30}), <<V128, I64>>, V128)
    @@ Row(Simd({31}), <<V128>>, F32) @@ Row(Simd({32}), <<V128, F32>>, V128)
    @@ Row(Simd({33}), <<V128>>, F64) @@ Row(Simd({34}), <<V128, F64>>, V128)
    @@ Row(Simd(14 .. 20), <<UNDEFINED, UNDEFINED>>, UNDEFINED)

SimdCompareRows == Row(Simd(35 .. 62), <<V128, V128>>, V128)

SimdLogicRows ==
    Row(Simd(63 .. 76 \cup 78 .. 81 \cup 214 .. 219), <<V128, V128>>, V128)
    @@ Row(Simd({77, 96, 97, 98}), <<V128>>, V128)
    @@ Row(Simd({82}), <<V128, V128, V128>>, V128) @@ Row(Simd({83}), <<V128>>, I32)

SimdI8x16Rows ==
    Row(Simd({99, 100}), <<V128>>, I32)
    @@ Row(Simd(110 .. 115 \cup 118 .. 121 \cup {101, 102, 123}), <<V128, V128>>, V128)
    @@ Row(Simd(107 .. 109), <<V128, I32>>, V128)
    @@ Row(Simd({124, 125, 128, 129}), <<V128>>, V128)

SimdI16x8Rows ==
    Row(Simd(142 .. 147 \cup 149 .. 153 \cup {130, 133, 134, 155}), <<V128, V128>>, V128)
    @@ Row(Simd({131, 132}), <<V128>>, I32) @@ Row(Simd(135 .. 138), <<V128>>, V128)
    @@ Row(Simd(139 .. 141), <<V128, I32>>, V128)

SimdI32x4Rows ==
    Row(Simd({126, 127} \cup 156 .. 161), <<V128>>, V128)
    @@ Row(Simd({163, 164}), <<V128>>, I32)
    @@ Row(Simd(167 .. 170 \cup 181 .. 186 \cup 188 .. 191 \cup {174, 177}), <<V128, V128>>, V128)
    @@ Row(Simd(171 .. 173), <<V128, I32>>, V128)

SimdI64x2Rows ==
    Row(Simd(103 .. 106 \cup 199 .. 202 \cup {192, 193, 224, 225, 227}), <<V128>>, V128)
    @@ Row(Simd({195, 196}), <<V128>>, I32) @@ Row(Simd(203 .. 205), <<V128, I32>>, V128)
    @@ Row(Simd({206, 209, 213} \cup 220 .. 223), <<V128, V128>>, V128)

SimdFloatRows ==
    Row(Simd(228 .. 235 \cup 240 .. 247), <<V128, V128>>, V128)
    @@ Row(Simd({116, 117, 122, 148, 236, 237, 239}), <<V128>>, V128)
SimdConversionRows == Row(Simd({94, 95} \cup 248 .. 255), <<V128>>, V128)

AtomicAccessRows ==
    Row(Atomic({\h00}), <<ADDR, I32>>, I32)
    @@ Mem(Atomic({\h01}), 32, <<ADDR, I32, I64>>, I32)
    @@ Mem(Atomic({\h02}), 64, <<ADDR, I64, I64>>, I32) @@ Row(Atomic({\h03}), <<>>, VOID)
    @@ Mem(Atomic({\h10}), 32, <<ADDR>>, I32) @@ Mem(Atomic({\h11}), 64, <<ADDR>>, I32)
    @@ Mem(Atomic({\h12}), 8, <<ADDR>>, I32) @@ Mem(Atomic({\h13}), 16, <<ADDR>>, I32)
    @@ Mem(Atomic({\h14}), 8, <<ADDR>>, I64) @@ Mem(Atomic({\h15}), 16, <<ADDR>>, I64)
    @@ Mem(Atomic({\h16}), 32, <<ADDR>>, I64)
    @@ Mem(Atomic({\h17}), 32, <<ADDR, I32>>, VOID) @@ Mem(Atomic({\h18}), 64, <<ADDR, I64>>, VOID)
    @@ Mem(Atomic({\h19}), 8, <<ADDR, I32>>, VOID) @@ Mem(Atomic({\h1A}), 16, <<ADDR, I32>>, VOID)
    @@ Mem(Atomic({\h1B}), 8, <<ADDR, I64>>, VOID) @@ Mem(Atomic({\h1C}), 16, <<ADDR, I64>>, VOID)
    @@ Mem(Atomic({\h1D}), 32, <<ADDR, I64>>, VOID)

\* Two families of seven entries, one per width, with the first opcode of each.
RmwRows(first) ==
    LET Width(k, align, type) == Mem(Atomic({first + k, first + k + 7}), align, <<ADDR, type>>, type)
    IN  Width(0, 32, I32) @@ Width(1, 64, I64) @@ Width(2, 8, I32) @@ Width(3, 16, I32)
        @@ Width(4, 8, I64) @@ Width(5, 16, I64) @@ Width(6, 32, I64)

\* i64.atomic.rmw.add has no alignment flag.
RmwAddSubRows == Mem({\hFE1F}, 0, <<ADDR, I64>>, I64) @@ RmwRows(\h1E)
RmwAndOrRows == RmwRows(\h2C)
RmwXorXchgRows == RmwRows(\h3A)
CmpxchgRows ==
    Mem(Atomic({\h48}), 32, <<ADDR, I32, I32>>, I32) @@ Mem(Atomic({\h49}), 64, <<ADDR, I64, I64>>, I64)
    @@ Mem(Atomic({\h4A}), 8, <<ADDR, I32, I32>>, I32) @@ Mem(Atomic({\h4B}), 16, <<ADDR, I32, I32>>, I32)
    @@ Mem(Atomic({\h4C}), 8, <<ADDR, I64, I64>>, I64) @@ Mem(Atomic({\h4D}), 16, <<ADDR, I64, I64>>, I64)
    @@ Mem(Atomic({\h4E}), 32, <<ADDR, I64, I64>>, I64)

SimdRows ==
    SimdMemoryRows @@ SimdLaneRows @@ SimdCompareRows @@ SimdLogicRows @@ SimdI8x16Rows
    @@ SimdI16x8Rows @@ SimdI32x4Rows @@ SimdI64x2Rows @@ SimdFloatRows @@ SimdConversionRows
AtomicRows == AtomicAccessRows @@ RmwAddSubRows @@ RmwAndOrRows @@ RmwXorXchgRows @@ CmpxchgRows

\* opclsmap: the rows by opcode.
opclsmap ==
    ControlRows @@ ConstRows @@ ParametricRows @@ MemoryRows @@ CompareRows @@ I32Rows @@ I64Rows
    @@ FloatRows @@ ConversionRows @@ BulkRows @@ SimdRows @@ AtomicRows

----------------------------------------------------------------------------
(***************************************************************************)
(* What the functions of an entry compute.  An instruction is a record     *)
(* with "op" and, where a function looks at it, "sig", the signature       *)
(* [argv, retv] of a call or a block, and "type": the type of a local or a *)
(* global, the element type of a table, or the value type that stands in   *)
(* the place of a block's signature (VOID when it is 0x40 or an index).    *)
(***************************************************************************)
Blocks == {\h02, \h03, \h04}

SignaturePush(sig) ==
    CASE Len(sig.retv) = 0 -> VOID [] Len(sig.retv) = 1 -> sig.retv[1] [] OTHER -> "array"

\* A value type given for a block is returned by its pull as well as by its push.
PullOf(inst) ==
    CASE inst.op \in Blocks -> IF inst.type = VOID THEN inst.sig.argv ELSE <<inst.type>>
      [] inst.op = \h10 -> inst.sig.argv
      [] inst.op = \h11 -> Append(inst.sig.argv, I32)
      [] inst.op \in {\h20, \h23} -> <<>>
      [] inst.op \in {\h21, \h22, \h24} -> <<inst.type>>
      [] inst.op = \h25 -> <<I32>>
      [] inst.op = \h26 -> <<inst.type, I32>>
      [] OTHER -> opclsmap[inst.op].pull

PushOf(inst) ==
    CASE inst.op \in Blocks \cup {\h10, \h11} -> SignaturePush(inst.sig)
      [] inst.op \in {\h20, \h22, \h23, \h25} -> inst.type
      [] inst.op \in {\h21, \h24, \h26} -> VOID
      [] OTHER -> opclsmap[inst.op].push

HasEntry(op) == op \in OperandDependent \cup DOMAIN opclsmap

----------------------------------------------------------------------------
(***************************************************************************)
(* traverseStack (WebAssembly.js): backwards from an instruction, counting *)
(* what each one pushes and pulls, to the one that pushes the value which  *)
(* lies "relative" values below the top.  Undefined when the code ends     *)
(* first, Throws when an opcode on the way has no entry.                   *)
(***************************************************************************)
Undefined == 0
Throws == -1

\* Only these results are counted: no reference, no array of results.
Counted == {I32, I64, F32, F64, V128, NUMRIC, ANY}
Pushed(inst) == IF HasEntry(inst.op) /\ PushOf(inst) \in Counted THEN 1 ELSE 0

\* Mutant: an entry with several operands counts as one.
PulledOnce(inst) == IF HasEntry(inst.op) /\ PullOf(inst) # <<>> THEN 1 ELSE 0
Pulled(inst) == IF HasEntry(inst.op) THEN Len(PullOf(inst)) ELSE 0

traverseStack(instructions, from, relative) ==
    LET count[k \in 0 .. from] ==
            IF k = from THEN -1
            ELSE count[k + 1] + Pushed(instructions[k + 1]) - Pulled(instructions[k + 1])
        Stops(k) == ~HasEntry(instructions[k].op) \/ count[k] + Pushed(instructions[k]) = relative
        stops == {k \in 1 .. from : Stops(k)}
        last == CHOOSE k \in stops : \A j \in stops : j <= k
    IN  CASE stops = {} -> Undefined
          [] stops # {} /\ HasEntry(instructions[last].op) -> last
          [] OTHER -> Throws
============================================================================
