------------------------------ MODULE ByteCode -------------------------------
(***************************************************************************)
(* The three walks of bytecode.js over the instructions of a body.         *)
(* byteCodeComputeByteLength predicts the bytes they take, from which      *)
(* Module.encode allocates the buffer; encodeByteCode writes them, and     *)
(* notes where an operand lies that the dynamic linker patches (_roff);    *)
(* decodeByteCode reads them back, notes where an operand lies that a      *)
(* relocation of the object file may name, and counts the uses of          *)
(* functions and locals.  Each has a switch over all opcodes of its own,   *)
(* and an operand of one is an index, of the other an object: the vectors  *)
(* of the module translate.                                                *)
(*                                                                         *)
(* An opcode of two bytes is 256 * prefix + number, as in the code.  An    *)
(* instruction is [op, arg, reloc]: arg maps the names of its operands to  *)
(* numbers and objects, reloc says that the operand is to be padded.       *)
(***************************************************************************)
EXTENDS Integers, Sequences, FiniteSets, Functions, SequencesExt, Loops

CONSTANTS
    Vector,      \* vector -> its objects: functions, globals, tables, types, ...
    Locals,      \* the locals of the body
    Bodies,      \* the bodies that are written, sequences of instructions
    Files,       \* code of other tools: [insts, code], the bytes of each field of each instruction
    RELOC_PAD    \* the width of a padded operand

Spaces == {"functions", "globals", "tables", "types", "tags", "memory",
           "dataSegments", "elementSegments", "locals"}

ASSUME VectorAssumption ==
    /\ DOMAIN Vector = Spaces \ {"locals"}
    /\ \A s \in DOMAIN Vector : Vector[s] \in Seq(Range(Vector[s])) /\ IsInjective(Vector[s])
    /\ Locals \in Seq(Range(Locals)) /\ IsInjective(Locals)
    /\ \A s \in DOMAIN Vector : "undefined" \notin Range(Vector[s])
    /\ "undefined" \notin Range(Locals)
    /\ RELOC_PAD \in 4 .. 7

Codes == Bodies \cup {file.insts : file \in Files}

\* An opcode is one byte or, behind a prefix, two; a floating-point constant has
\* its four or eight bytes.
ASSUME BodiesAssumption ==
    \A is \in Codes :
        /\ is \in Seq(Range(is)) /\ is # <<>>
        /\ \A k \in DOMAIN is :
              LET op == is[k].op
                  arg == is[k].arg
              IN  /\ op \in 0 .. \hFB \cup \hFC00 .. \hFEFF
                  /\ op \in {\h02, \h03, \h04, \h06} => arg.type[1] \in {"number", "typeidx", "object"}
                  /\ op = \h0E => arg.labels \in Seq(Range(arg.labels))
                  /\ op \in {\h43, \h44} => arg.value \in Seq(Range(arg.value))
                  /\ op = \h43 => Len(arg.value) = 4
                  /\ op = \h44 => Len(arg.value) = 8

VARIABLES
    body,        \* what is written or, from a file, what was written
    relocatable, \* the option: pad operands, note where they are
    phase,       \* length, encode, decode; done, or threw in one of the three
    i,           \* the place of the walk
    predicted,   \* sz
    data,        \* the bytes
    roff,        \* instruction -> _roff, where encode padded it
    decoded,     \* opcodes: what was read, each with its _roff
    offset,      \* of the next byte to read, from 0
    blkstack,    \* the opcodes of the open blocks, the body's at the bottom
    usage        \* function or local -> uses that decode has counted

vars == <<body, relocatable, phase, i, predicted, data, roff, decoded, offset, blkstack, usage>>

-----------------------------------------------------------------------------
(* LEB128 with 7 bits a byte; Leb128 looks at its loops *)

\* Operands have at most four groups: a bound, 28 bits of the 32 or 64.
LengthULEB(v) == IF v < 128 THEN 1 ELSE IF v < 128 ^ 2 THEN 2 ELSE IF v < 128 ^ 3 THEN 3 ELSE 4
FitsSLEB(v, n) == -64 * 128 ^ (n - 1) <= v /\ v < 64 * 128 ^ (n - 1)
LengthSLEB(v) == IF FitsSLEB(v, 1) THEN 1 ELSE IF FitsSLEB(v, 2) THEN 2 ELSE IF FitsSLEB(v, 3) THEN 3 ELSE 4
PaddedTo(n, padTo) == IF n < padTo THEN padTo ELSE n

Groups(v, n) ==
    [k \in 1 .. n |->
        (IF k > 4 THEN (IF v < 0 THEN 127 ELSE 0) ELSE (v \div 128 ^ (k - 1)) % 128)
            + (IF k < n THEN 128 ELSE 0)]
ULEB(v, padTo) == Groups(v, PaddedTo(LengthULEB(v), padTo))
SLEB(v, padTo) == Groups(v, PaddedTo(LengthSLEB(v), padTo))

-----------------------------------------------------------------------------
(* Opcodes *)

B1(op) == IF op > \hFF THEN op \div 256 ELSE op
B2(op) == IF op > \hFF THEN op % 256 ELSE 0

ValueTypes == {\h7F, \h7E, \h7D, \h7C, \h7B, \h70, \h6F}
Blocks == {\h02, \h03, \h04}
Loads == \h28 .. \h35
MemoryOps == \h28 .. \h3E
Numerics == \h45 .. \hC4
SimdMemory == {0, 1, 2, 3, 4, 5, 6, 7, 8, 9, 10, 11, 92, 93}
SimdLanes == 84 .. 91

\* indexOf, from 0, or -1
Index(space, obj) ==
    LET v == IF space = "locals" THEN Locals ELSE Vector[space]
    IN  IF Contains(v, obj) THEN (CHOOSE n \in DOMAIN v : v[n] = obj) - 1 ELSE -1

\* The objects that an operand may name, and the vector each is in.
SpaceOf ==
    [func |-> "functions", global |-> "globals", table |-> "tables", table1 |-> "tables",
     table2 |-> "tables", type |-> "types", tag |-> "tags", memory |-> "memory",
     dataSegment |-> "dataSegments", elem |-> "elementSegments", local |-> "locals"]
IndexOfArg(inst, name) == Index(SpaceOf[name], inst.arg[name])

\* inst.type of a block: <<"number", v>>, <<"typeidx", n>> or <<"object", t>>
IsBlock(inst) == inst.op \in Blocks \cup {\h06}
BlockTypeInvalid(inst) ==
    CASE inst.arg.type[1] = "number" -> inst.arg.type[2] \notin ValueTypes \cup {\h40}
      [] inst.arg.type[1] = "typeidx" -> FALSE
      [] inst.arg.type[1] = "object" -> Index("types", inst.arg.type[2]) = -1

\* One of the objects is in none of the vectors of the module.
Missing(inst) ==
    IF IsBlock(inst) THEN BlockTypeInvalid(inst)
    ELSE \E name \in DOMAIN inst.arg \cap DOMAIN SpaceOf : IndexOfArg(inst, name) = -1

-----------------------------------------------------------------------------
(* byteCodeComputeByteLength: the bytes of an instruction, or Throws *)

Throws == -1

LengthIndex(inst, name) == LengthULEB(Max({IndexOfArg(inst, name), 0}))
PadOf(inst) == IF inst.reloc /\ relocatable THEN RELOC_PAD ELSE 0

LengthBlockType(t) ==
    CASE t[1] = "number" -> 1
      [] t[1] = "typeidx" -> LengthSLEB(t[2])
      [] t[1] = "object" -> LengthSLEB(Index("types", t[2]))

LengthControl(inst) ==
    CASE inst.op \in {\h00, \h01, \h05, \h0F, \h19} -> 1
      [] IsBlock(inst) -> 1 + LengthBlockType(inst.arg.type)
      [] inst.op \in {\h07, \h08} -> 1 + LengthIndex(inst, "tag")
      [] inst.op \in {\h09, \h18} -> 1 + LengthULEB(inst.arg.relative_depth)
      [] inst.op \in {\h0C, \h0D} -> 1 + LengthULEB(inst.arg.labelidx)
      [] inst.op = \h0E ->
            1 + LengthULEB(Len(inst.arg.labels)) + LengthULEB(inst.arg.default_br)
              + SumOf([k \in DOMAIN inst.arg.labels |-> LengthULEB(inst.arg.labels[k])])
      [] inst.op = \h10 -> 1 + LengthIndex(inst, "func")
      [] inst.op = \h11 -> 1 + LengthIndex(inst, "type") + LengthIndex(inst, "table")

\* An unknown local is not noticed: the length of index -1 is 1.
LengthVariable(inst) ==
    CASE inst.op \in {\h0B, \h1A, \h1B, \h1C} -> 1
      [] inst.op \in {\h41, \h42} -> 1 + PaddedTo(LengthSLEB(inst.arg.value), PadOf(inst))
      [] inst.op = \h43 -> 5
      [] inst.op = \h44 -> 9
      [] inst.op \in \h20 .. \h22 -> 1 + LengthIndex(inst, "local")
      [] inst.op \in {\h23, \h24} -> 1 + LengthIndex(inst, "global")
      [] inst.op \in {\h25, \h26} -> 1 + LengthIndex(inst, "table")

LengthMemArg(inst, padTo) ==
    LengthULEB(inst.arg.align) + PaddedTo(LengthULEB(inst.arg.offset), padTo)

\* Mutant: the padding of a relocatable offset is forgotten.
LengthMemoryUnpadded(inst) ==
    CASE inst.op \in MemoryOps -> 1 + LengthMemArg(inst, 0)
      [] inst.op \in {\h3F, \h40} -> IF inst.arg.memidx # 0 THEN Throws ELSE 2

LengthMemory(inst) ==
    CASE inst.op \in MemoryOps -> 1 + LengthMemArg(inst, PadOf(inst))
      [] inst.op \in {\h3F, \h40} -> IF inst.arg.memidx # 0 THEN Throws ELSE 2

LengthNumeric(inst) == 1

LengthReference(inst) ==
    CASE inst.op = \hD0 -> 1 + LengthULEB(inst.arg.reftype)
      [] inst.op = \hD1 -> 1
      [] inst.op = \hD2 -> 1 + LengthIndex(inst, "func")

LengthBulk(inst) ==
    LET sub == B2(inst.op)
        operands ==
            CASE sub <= 7 -> 0
              [] sub = 8 -> 1 + LengthIndex(inst, "dataSegment")
              [] sub = 9 -> LengthIndex(inst, "dataSegment")
              [] sub = 10 -> 2
              [] sub = 11 -> 1
              [] sub = 12 -> 1 + LengthIndex(inst, "elem")
              [] sub = 13 -> LengthIndex(inst, "elem")
              [] sub = 14 -> LengthIndex(inst, "table1") + LengthIndex(inst, "table2")
              [] sub \in 15 .. 17 -> LengthIndex(inst, "table")
    IN  IF sub > 17 THEN 0 ELSE 1 + LengthULEB(sub) + operands

LengthAtomic(inst) ==
    LET sub == B2(inst.op) IN
        CASE sub \in 0 .. 2 -> 1 + LengthULEB(sub) + LengthMemArg(inst, 0)
          [] sub = 3 -> IF "memidx" \notin DOMAIN inst.arg \/ inst.arg.memidx # 0 THEN Throws
                        ELSE 2 + LengthULEB(sub)
          [] sub \in \h10 .. \h4E -> 1 + LengthULEB(sub) + LengthMemArg(inst, PadOf(inst))
          [] OTHER -> Throws

\* Numbers between 94 and 255 that no vector instruction has.
Unassigned == {154, 162, 165, 166, 175, 176, 178, 179, 180, 187, 194, 197, 198, 207, 208,
               210, 211, 212, 226, 238}
LengthSimdTodo == (12 .. 83 \cup 94 .. 255) \ Unassigned

\* Instructions on lanes, constants and vectors are still to be implemented.  The
\* ones with a lane and an address are let through, and the case has no break: the
\* number is looked up once more among the atomic instructions.
LengthSimd(inst) ==
    LET sub == B2(inst.op)
        simd == IF sub \in SimdMemory THEN 1 + LengthULEB(sub) + LengthMemArg(inst, 0) ELSE 0
    IN  IF sub \in LengthSimdTodo \/ LengthAtomic(inst) = Throws THEN Throws
        ELSE simd + LengthAtomic(inst)

ControlOps == {\h00, \h01, \h02, \h03, \h04, \h05, \h06, \h07, \h08, \h09,
               \h0C, \h0D, \h0E, \h0F, \h10, \h11, \h18, \h19}
VariableOps == {\h0B, \h1A, \h1B, \h1C, \h20, \h21, \h22, \h23, \h24, \h25, \h26,
                \h41, \h42, \h43, \h44}

LengthOf(inst) ==
    IF Missing(inst) /\ "local" \notin DOMAIN inst.arg THEN Throws
    ELSE CASE B1(inst.op) \in ControlOps -> LengthControl(inst)
           [] B1(inst.op) \in VariableOps -> LengthVariable(inst)
           [] B1(inst.op) \in \h28 .. \h40 -> LengthMemory(inst)
           [] B1(inst.op) \in Numerics -> LengthNumeric(inst)
           [] B1(inst.op) \in \hD0 .. \hD2 -> LengthReference(inst)
           [] B1(inst.op) = \hFC -> LengthBulk(inst)
           [] B1(inst.op) = \hFD -> LengthSimd(inst)
           [] B1(inst.op) = \hFE -> LengthAtomic(inst)
           [] OTHER -> Throws

-----------------------------------------------------------------------------
(* encodeByteCode: the fields that are written after the opcode *)

U8(v) == [form |-> "u8", value |-> v]
U(v) == [form |-> "uleb", value |-> v]
S(v) == [form |-> "sleb", value |-> v]
RelocU(v) == [form |-> "relocU", value |-> v]
RelocS(v) == [form |-> "relocS", value |-> v]
Raw(bytes) == [form |-> "raw", value |-> bytes]
IndexField(inst, name) == U(IndexOfArg(inst, name))

BlockTypeField(t) ==
    CASE t[1] = "number" -> U8(t[2])
      [] t[1] = "typeidx" -> S(t[2])
      [] t[1] = "object" -> S(Index("types", t[2]))

EncodeControl(inst) ==
    CASE inst.op \in {\h00, \h01, \h05, \h0F, \h19} -> <<>>
      [] IsBlock(inst) -> <<BlockTypeField(inst.arg.type)>>
      [] inst.op \in {\h07, \h08} -> <<IndexField(inst, "tag")>>
      [] inst.op \in {\h09, \h18} -> <<U(inst.arg.relative_depth)>>
      [] inst.op \in {\h0C, \h0D} -> <<U(inst.arg.labelidx)>>
      [] inst.op = \h0E ->
            <<U(Len(inst.arg.labels))>> \o [k \in DOMAIN inst.arg.labels |-> U(inst.arg.labels[k])]
                \o <<U(inst.arg.default_br)>>
      [] inst.op = \h10 -> <<IndexField(inst, "func")>>
      [] inst.op = \h11 -> <<IndexField(inst, "type"), IndexField(inst, "table")>>

EncodeVariable(inst) ==
    CASE inst.op \in {\h0B, \h1A, \h1B, \h1C} -> <<>>
      [] inst.op \in {\h41, \h42} -> <<RelocS(inst.arg.value)>>
      [] inst.op \in {\h43, \h44} -> <<Raw(inst.arg.value)>>
      [] inst.op \in \h20 .. \h22 -> <<IndexField(inst, "local")>>
      [] inst.op \in {\h23, \h24} -> <<IndexField(inst, "global")>>
      [] inst.op \in {\h25, \h26} -> <<IndexField(inst, "table")>>

EncodeMemory(inst) ==
    CASE inst.op \in MemoryOps -> <<U(inst.arg.align), RelocU(inst.arg.offset)>>
      [] inst.op \in {\h3F, \h40} -> <<U8(inst.arg.memidx)>>

EncodeNumeric(inst) == <<>>

EncodeReference(inst) ==
    CASE inst.op = \hD0 -> <<U(inst.arg.reftype)>>
      [] inst.op = \hD1 -> <<>>
      [] inst.op = \hD2 -> <<IndexField(inst, "func")>>

\* Mutant: table.copy with its tables the other way round.
EncodeBulkCopySwapped(inst) ==
    CASE B2(inst.op) <= 7 -> <<>>
      [] B2(inst.op) = 8 -> <<IndexField(inst, "dataSegment"), U8(IndexOfArg(inst, "memory"))>>
      [] B2(inst.op) = 9 -> <<IndexField(inst, "dataSegment")>>
      [] B2(inst.op) = 10 -> <<U8(inst.arg.memidx1), U8(inst.arg.memidx2)>>
      [] B2(inst.op) = 11 -> <<U8(inst.arg.memidx)>>
      [] B2(inst.op) = 12 -> <<IndexField(inst, "elem"), U8(IndexOfArg(inst, "table"))>>
      [] B2(inst.op) = 13 -> <<IndexField(inst, "elem")>>
      [] B2(inst.op) = 14 -> <<IndexField(inst, "table2"), IndexField(inst, "table1")>>
      [] B2(inst.op) \in 15 .. 17 -> <<IndexField(inst, "table")>>

EncodeBulk(inst) ==
    CASE B2(inst.op) <= 7 -> <<>>
      [] B2(inst.op) = 8 -> <<IndexField(inst, "dataSegment"), U8(IndexOfArg(inst, "memory"))>>
      [] B2(inst.op) = 9 -> <<IndexField(inst, "dataSegment")>>
      [] B2(inst.op) = 10 -> <<U8(inst.arg.memidx1), U8(inst.arg.memidx2)>>
      [] B2(inst.op) = 11 -> <<U8(inst.arg.memidx)>>
      [] B2(inst.op) = 12 -> <<IndexField(inst, "elem"), U8(IndexOfArg(inst, "table"))>>
      [] B2(inst.op) = 13 -> <<IndexField(inst, "elem")>>
      [] B2(inst.op) = 14 -> <<IndexField(inst, "table1"), IndexField(inst, "table2")>>
      [] B2(inst.op) \in 15 .. 17 -> <<IndexField(inst, "table")>>

EncodeSimd(inst) == <<U(inst.arg.align), U(inst.arg.offset)>>

EncodeAtomic(inst) ==
    CASE B2(inst.op) \in 0 .. 2 -> <<U(inst.arg.align), U(inst.arg.offset)>>
      [] B2(inst.op) = 3 -> <<U8(inst.arg.memidx)>>
      [] B2(inst.op) \in \h10 .. \h4E -> <<U(inst.arg.align), RelocU(inst.arg.offset)>>

EncodeSimdTodo == (12 .. 83 \cup 94 .. 255) \ Unassigned

EncodeThrows(inst) ==
    \/ Missing(inst)
    \/ inst.op \in {\h3F, \h40, \hFE03} /\ inst.arg.memidx # 0
    \/ B1(inst.op) = \hFD /\ B2(inst.op) \in EncodeSimdTodo
    \/ B1(inst.op) = \hFE /\ B2(inst.op) \notin 0 .. 3 \cup \h10 .. \h4E

Opcode(op) == <<U8(B1(op))>> \o (IF op > \hFF THEN <<U(B2(op))>> ELSE <<>>)

\* Of a load or store of a lane nothing is written, not even the opcode.
Written(inst) ==
    CASE B1(inst.op) \in ControlOps -> Opcode(inst.op) \o EncodeControl(inst)
      [] B1(inst.op) \in VariableOps -> Opcode(inst.op) \o EncodeVariable(inst)
      [] B1(inst.op) \in \h28 .. \h40 -> Opcode(inst.op) \o EncodeMemory(inst)
      [] B1(inst.op) \in Numerics -> Opcode(inst.op) \o EncodeNumeric(inst)
      [] B1(inst.op) \in \hD0 .. \hD2 -> Opcode(inst.op) \o EncodeReference(inst)
      [] B1(inst.op) = \hFC -> IF B2(inst.op) > 17 THEN <<>> ELSE Opcode(inst.op) \o EncodeBulk(inst)
      [] B1(inst.op) = \hFD -> IF B2(inst.op) \in SimdMemory THEN Opcode(inst.op) \o EncodeSimd(inst) ELSE <<>>
      [] B1(inst.op) = \hFE -> Opcode(inst.op) \o EncodeAtomic(inst)

LowByte(v) == v % 256
Bytes(inst, f) ==
    CASE f.form = "u8" -> <<LowByte(f.value)>>
      [] f.form = "uleb" -> ULEB(f.value, 0)
      [] f.form = "sleb" -> SLEB(f.value, 0)
      [] f.form = "raw" -> f.value
      [] f.form = "relocU" -> ULEB(f.value, PadOf(inst))
      [] f.form = "relocS" -> SLEB(f.value, PadOf(inst))

BytesOf(inst) == FlattenSeq([k \in DOMAIN Written(inst) |-> Bytes(inst, Written(inst)[k])])

\* Mutant: the operand is taken to follow the opcode.
BeforeOperandAfterOpcode(inst) == 1

\* The bytes before the padded operand, which is the last of its instruction.
BeforeOperand(inst) ==
    Len(BytesOf(inst)) - Len(Bytes(inst, Written(inst)[Len(Written(inst))]))
IsPadded(inst) ==
    PadOf(inst) > 0 /\ \E k \in DOMAIN Written(inst) : Written(inst)[k].form \in {"relocU", "relocS"}

-----------------------------------------------------------------------------
(* decodeByteCode: the fields of an opcode, each read into an operand *)

\* align and offset of a load, a store or an atomic access
MemArg == <<<<"uleb", "align">>, <<"uleb", "offset">>>>

\* The vector that select t* has after its opcode is not read.
FormatControl(op) ==
    CASE op \in {\h00, \h01, \h05, \h0B, \h0F, \h19, \h1A, \h1B, \h1C} -> <<>>
      [] op \in Blocks \cup {\h06} -> <<<<"blocktype", "type">>>>
      [] op \in {\h07, \h08} -> <<<<"uleb", "tag">>>>
      [] op \in {\h09, \h18} -> <<<<"uleb", "relative_depth">>>>
      [] op \in {\h0C, \h0D} -> <<<<"uleb", "labelidx">>>>
      [] op = \h0E -> <<<<"labels", "labels">>, <<"uleb", "default_br">>>>
      [] op = \h10 -> <<<<"uleb", "func">>>>
      [] op = \h11 -> <<<<"uleb", "type">>, <<"uleb", "table">>>>
      [] op \in {\h41, \h42} -> <<<<"sleb", "value">>>>
      [] op = \h43 -> <<<<"bytes4", "value">>>>
      [] op = \h44 -> <<<<"bytes8", "value">>>>

FormatVariable(op) ==
    CASE op \in \h20 .. \h22 -> <<<<"uleb", "local">>>>
      [] op \in {\h23, \h24} -> <<<<"uleb", "global">>>>
      [] op \in {\h25, \h26} -> <<<<"uleb", "table">>>>

\* Mutant: the offset first.
FormatMemoryOffsetFirst(op) ==
    IF op \in MemoryOps THEN Reverse(MemArg) ELSE <<<<"u8", "memidx">>>>

FormatMemory(op) ==
    IF op \in MemoryOps THEN MemArg ELSE <<<<"u8", "memidx">>>>

FormatNumeric(op) == <<>>

FormatReference(op) ==
    CASE op = \hD0 -> <<<<"uleb", "reftype">>>>
      [] op = \hD1 -> <<>>
      [] op = \hD2 -> <<<<"uleb", "func">>>>

FormatBulk(sub) ==
    CASE sub <= 7 -> <<>>
      [] sub = 8 -> <<<<"uleb", "dataSegment">>, <<"u8", "memory">>>>
      [] sub = 9 -> <<<<"uleb", "dataSegment">>>>
      [] sub = 10 -> <<<<"u8", "memidx1">>, <<"u8", "memidx2">>>>
      [] sub = 11 -> <<<<"u8", "memidx">>>>
      [] sub = 12 -> <<<<"uleb", "elem">>, <<"u8", "table">>>>
      [] sub = 13 -> <<<<"uleb", "elem">>>>
      [] sub = 14 -> <<<<"uleb", "table1">>, <<"uleb", "table2">>>>
      [] sub \in 15 .. 17 -> <<<<"uleb", "table">>>>

FormatSimd(sub) ==
    CASE sub \in SimdMemory -> MemArg
      [] sub \in SimdLanes -> MemArg \o <<<<"u8", "laneidx">>>>
      [] sub = 12 -> <<<<"bytes16", "value">>>>
      [] sub = 13 -> <<<<"bytes16", "lanes">>>>
      [] sub \in 21 .. 34 -> <<<<"u8", "laneidx">>>>
      [] OTHER -> <<>>

\* The vector instructions without an operand: splats and comparisons, ...
SimdCompare == 14 .. 20 \cup 35 .. 76 \cup 77 .. 83 \cup 214 .. 219
\* ... arithmetic on integers, ...
SimdInteger ==
    96 .. 102 \cup 107 .. 115 \cup 118 .. 121 \cup 123 .. 147 \cup 149 .. 153 \cup 155 .. 161
        \cup {163, 164} \cup 167 .. 174 \cup {177} \cup 181 .. 186 \cup 188 .. 193 \cup {195, 196}
        \cup 199 .. 206 \cup {209, 213} \cup 220 .. 223
\* ... arithmetic on floating point numbers, and conversions.
SimdFloat ==
    103 .. 106 \cup {116, 117, 122, 148, 224, 225} \cup 227 .. 237 \cup 239 .. 255 \cup {94, 95}
SimdPlain == SimdCompare \cup SimdInteger \cup SimdFloat

\* The three lists of vector instructions, each written out in its switch, agree.
ASSUME SwitchesAgree ==
    /\ LengthSimdTodo = EncodeSimdTodo
    /\ LengthSimdTodo = SimdPlain \cup {12, 13} \cup 21 .. 34

FormatAtomic(sub) == IF sub = 3 THEN <<<<"uleb", "memidx">>>> ELSE MemArg

Supported(b1, sub) ==
    CASE b1 = \hFD -> sub \in SimdMemory \cup SimdLanes \cup {12, 13} \cup 21 .. 34 \cup SimdPlain
      [] b1 = \hFE -> sub \in 0 .. 3 \cup \h10 .. \h4E
      [] OTHER -> b1 \in ControlOps \cup VariableOps \cup \h28 .. \hC4 \cup \hD0 .. \hD2 \cup {\hFC}

FormatOf(b1, sub) ==
    CASE b1 \in ControlOps \cup {\h0B, \h1A, \h1B, \h1C, \h41, \h42, \h43, \h44} -> FormatControl(b1)
      [] b1 \in \h20 .. \h26 -> FormatVariable(b1)
      [] b1 \in \h28 .. \h40 -> FormatMemory(b1)
      [] b1 \in Numerics -> FormatNumeric(b1)
      [] b1 \in \hD0 .. \hD2 -> FormatReference(b1)
      [] b1 = \hFC -> FormatBulk(sub)
      [] b1 = \hFD -> FormatSimd(sub)
      [] b1 = \hFE -> FormatAtomic(sub)

\* Past the end of the buffer readUint8 throws, and a LEB128 reads 0.
PastEnd(p) == p >= Len(data)
ByteAt(p) == IF PastEnd(p) THEN 0 ELSE data[p + 1]

LEBEnd(p) == CHOOSE q \in p .. p + 6 : ByteAt(q) < 128 /\ \A r \in p .. q - 1 : ByteAt(r) >= 128
LEBSum(p, n) == SumOf([k \in 1 .. n |-> (ByteAt(p + k - 1) % 128) * 128 ^ (k - 1)])
Significant(p) == Min({4, LEBEnd(p) + 1 - p})
ReadULEB(p) == [value |-> LEBSum(p, Significant(p)), next |-> LEBEnd(p) + 1]
ReadSLEB(p) ==
    [value |-> LEBSum(p, Significant(p))
                 - (IF ByteAt(LEBEnd(p)) % 128 >= 64 THEN 128 ^ Significant(p) ELSE 0),
     next |-> LEBEnd(p) + 1]

ReadBytes(p, n) == [value |-> [k \in 1 .. n |-> ByteAt(p + k - 1)], next |-> p + n]

\* An index becomes the object at it, undefined if there is none.
ObjectAt(space, idx) ==
    LET v == IF space = "locals" THEN Locals ELSE Vector[space]
    IN  IF idx < Len(v) THEN v[idx + 1] ELSE "undefined"

\* A type index must be positive, although 0 is a type.
ReadBlockType(p) ==
    IF ByteAt(p) \in ValueTypes \cup {\h40} THEN [value |-> <<"number", ByteAt(p)>>, next |-> p + 1]
    ELSE LET idx == ReadSLEB(p) IN
        [value |-> IF idx.value > 0 THEN <<"object", ObjectAt("types", idx.value)>> ELSE <<"invalid">>,
         next |-> idx.next]

ReadLabels(p) ==
    LET cnt == ReadULEB(p)
        begin[k \in 1 .. cnt.value + 1] == IF k = 1 THEN cnt.next ELSE ReadULEB(begin[k - 1]).next
    IN  [value |-> [k \in 1 .. cnt.value |-> ReadULEB(begin[k]).value], next |-> begin[cnt.value + 1]]

Read(form, p) ==
    CASE form = "uleb" -> ReadULEB(p)
      [] form = "sleb" -> ReadSLEB(p)
      [] form = "u8" -> [value |-> ByteAt(p), next |-> p + 1]
      [] form = "bytes4" -> ReadBytes(p, 4)
      [] form = "bytes8" -> ReadBytes(p, 8)
      [] form = "bytes16" -> ReadBytes(p, 16)
      [] form = "blocktype" -> ReadBlockType(p)
      [] form = "labels" -> ReadLabels(p)

Resolved(form, name, value) ==
    IF name \in DOMAIN SpaceOf /\ form # "blocktype" THEN ObjectAt(SpaceOf[name], value) ELSE value

\* The operands of a format from p on: their values, and where each begins.
Operands(format, p) ==
    LET begin[k \in 1 .. Len(format) + 1] ==
            IF k = 1 THEN p ELSE Read(format[k - 1][1], begin[k - 1]).next
        operand(name) ==
            LET k == CHOOSE n \in DOMAIN format : format[n][2] = name
            IN  Resolved(format[k][1], name, Read(format[k][1], begin[k]).value)
    IN  [arg |-> [name \in {format[k][2] : k \in DOMAIN format} |-> operand(name)],
         begins |-> begin, next |-> begin[Len(format) + 1]]

\* The place that a relocation is taken to mean is the byte after the opcode, or
\* the offset of a memory access.
Decoded(op, known, p, read) ==
    [op |-> op, arg |-> read.arg, known |-> known, next |-> read.next,
     rloc |-> IF op \in MemoryOps \cup \hFE10 .. \hFE4E THEN read.begins[2] ELSE p + 1]

\* The instruction at p.
Instruction(p) ==
    LET b1 == ByteAt(p)
        prefixed == b1 \in {\hFC, \hFD, \hFE}
        sub == IF prefixed THEN ReadULEB(p + 1) ELSE [value |-> 0, next |-> p + 1]
        known == Supported(b1, sub.value) /\ ~(b1 = \hFC /\ sub.value > 17)
    IN  Decoded(IF prefixed THEN 256 * b1 + sub.value ELSE b1, known, p,
                Operands(IF known THEN FormatOf(b1, sub.value) ELSE <<>>, sub.next))

\* Only these are compared with the length of their vector.
RangeChecked(op) == op \in \h20 .. \h22 \cup {\hD2} \cup \hFC08 .. \hFC11
DecodeThrows(inst) ==
    \/ PastEnd(offset) \/ inst.next > Len(data)
    \/ B1(inst.op) \in {\hFD, \hFE} /\ ~inst.known
    \/ IsBlock(inst) /\ inst.arg.type = <<"invalid">>
    \/ inst.op = \h05 /\ blkstack[Len(blkstack)] # \h04
    \/ inst.op \in {\h3F, \h40} /\ inst.arg.memidx # 0
    \/ inst.op = \h10 /\ inst.arg.func = "undefined"
    \/ RangeChecked(inst.op) /\ \E name \in DOMAIN inst.arg \cap DOMAIN SpaceOf : inst.arg[name] = "undefined"

\* try does not open a block, so the end of a try closes the block around it.
BlocksAfter(op, stack) ==
    CASE op \in Blocks -> Append(stack, op)
      [] op = \h05 -> Append(Front(stack), op)
      [] op = \h0B -> Front(stack)
      [] OTHER -> stack

Uses(inst) ==
    CASE inst.op = \h10 -> SetToBag({inst.arg.func})
      [] inst.op \in \h20 .. \h22 -> SetToBag({inst.arg.local})
      [] OTHER -> EmptyBag

\* The segment of memory.init is looked up, but not kept in the instruction.
Kept(inst) == IF inst.op = \hFC08 THEN Restrict(inst.arg, {"memory"}) ELSE inst.arg
Pushed(inst) == Append(decoded, [op |-> inst.op, arg |-> Kept(inst), roff |-> -1])

-----------------------------------------------------------------------------
(* The code that is written and read *)

\* What an operand may be that is no object, by the form it is read in.
InBound(form, v) ==
    CASE form = "uleb" -> v \in 0 .. 128 ^ 4 - 1
      [] form = "sleb" -> v \in Int /\ FitsSLEB(v, 4)
      [] form = "u8" -> v \in 0 .. 255
      [] form = "labels" -> Len(v) < 128 ^ 4 /\ \A k \in DOMAIN v : v[k] \in 0 .. 128 ^ 4 - 1
      [] form = "blocktype" -> /\ v = <<v[1], v[2]>>
                               /\ v[1] = "typeidx" => v[2] \in 0 .. Len(Vector["types"]) - 1
      [] OTHER -> TRUE

\* An instruction has the operands of its opcode.
HasOperands(inst) ==
    LET format == FormatOf(B1(inst.op), B2(inst.op))
    IN  /\ DOMAIN inst.arg = {format[k][2] : k \in DOMAIN format}
        /\ \A k \in DOMAIN format :
              format[k][2] \notin DOMAIN SpaceOf \/ format[k][1] = "blocktype" =>
                  InBound(format[k][1], inst.arg[format[k][2]])

\* Numbers of the prefix \hFC that no instruction has are written as nothing, and
\* skipped when they are read.
IsKnown(op) == Supported(B1(op), B2(op)) /\ op \notin \hFC12 .. \hFCFF

\* The blocks that are open behind each instruction; here try is one.
Opened(is) ==
    LET open[k \in 0 .. Len(is)] ==
            IF k = 0 THEN <<"body">>
            ELSE IF is[k].op = \h06 THEN Append(open[k - 1], \h06) ELSE BlocksAfter(is[k].op, open[k - 1])
    IN  open
Nested(is) ==
    \A k \in DOMAIN is :
        /\ Opened(is)[k] = <<>> <=> k = Len(is)
        /\ is[k].op = \h05 => Last(Opened(is)[k - 1]) = \h04

\* The blocks of a body are closed, the body itself at its end.
ASSUME CodesAssumption ==
    /\ \A s \in DOMAIN Vector : Len(Vector[s]) < 64 * 128 ^ 3
    /\ Len(Locals) < 64 * 128 ^ 3
    /\ \A is \in Codes :
          /\ Nested(is)
          /\ \A k \in DOMAIN is : IsKnown(is[k].op) => HasOperands(is[k])

\* Instructions that are known not to survive being written and read: the end of a
\* try closes the block around it, memory.init loses its segment, and block type 0
\* is refused; nothing is written of an access to a lane or a number that no
\* instruction has; the table of table.init is written in one byte.
Survives(inst) ==
    /\ inst.op \notin {\h06, \hFC08} \cup \hFC12 .. \hFCFF \cup \hFD54 .. \hFD5B
    /\ IsBlock(inst) => BlockTypeField(inst.arg.type) # S(0)
    /\ inst.op = \hFC0C => IndexOfArg(inst, "table") < 256

\* s is the field f; another tool may pad any number.
Holds(s, f) ==
    /\ f.form = "u8" => s = <<LowByte(f.value)>>
    /\ f.form = "raw" => s = f.value
    /\ f.form \in {"uleb", "relocU"} => \E n \in LengthULEB(f.value) .. 7 : s = Groups(f.value, n)
    /\ f.form \in {"sleb", "relocS"} => \E n \in LengthSLEB(f.value) .. 7 : s = Groups(f.value, n)
IsCode(ss, inst) ==
    /\ DOMAIN ss = DOMAIN Written(inst)
    /\ ss \in Seq(Range(ss)) /\ \A k \in DOMAIN ss : Holds(ss[k], Written(inst)[k])

\* The code of another tool has the fields in the order in which encode writes them.
ASSUME FilesAssumption ==
    \A file \in Files :
        /\ DOMAIN file.code = DOMAIN file.insts
        /\ file.code \in Seq(Range(file.code))
        /\ \A k \in DOMAIN file.insts :
              /\ IsKnown(file.insts[k].op) /\ ~EncodeThrows(file.insts[k]) /\ Survives(file.insts[k])
              /\ IsCode(file.code[k], file.insts[k])

BytesIn(file) == FlattenSeq([k \in DOMAIN file.code |-> FlattenSeq(file.code[k])])

-----------------------------------------------------------------------------
(* The walks *)

\* Code of our own is measured and written before it is read.
Init ==
    /\ \/ /\ body \in Bodies /\ relocatable \in BOOLEAN
          /\ phase = "length" /\ data = <<>>
       \/ \E file \in Files : /\ body = file.insts /\ relocatable = TRUE
                              /\ phase = "decode" /\ data = BytesIn(file)
    /\ i = 1 /\ predicted = 0
    /\ roff = [k \in {} |-> 0]
    /\ decoded = <<>> /\ offset = 0
    /\ blkstack = <<"body">> /\ usage = EmptyBag

\* The walk goes on to the next instruction, or the next walk begins.
Advance(next) ==
    IF i = Len(body) THEN phase' = next /\ i' = 1
    ELSE i' = i + 1 /\ UNCHANGED phase

Measure ==
    /\ phase = "length"
    /\ LET n == LengthOf(body[i]) IN
        IF n = Throws THEN phase' = "length threw" /\ UNCHANGED <<i, predicted>>
        ELSE predicted' = predicted + n /\ Advance("encode")
    /\ UNCHANGED <<body, relocatable, data, roff, decoded, offset, blkstack, usage>>

Encode ==
    /\ phase = "encode"
    /\ IF EncodeThrows(body[i]) THEN phase' = "encode threw" /\ UNCHANGED <<i, data, roff>>
       ELSE /\ data' = data \o BytesOf(body[i])
            /\ roff' = IF ~IsPadded(body[i]) THEN roff
                       ELSE [k \in {i} \cup DOMAIN roff |->
                                IF k = i THEN Len(data) + BeforeOperand(body[i]) ELSE roff[k]]
            /\ Advance("decode")
    /\ UNCHANGED <<body, relocatable, predicted, decoded, offset, blkstack, usage>>

Throw ==
    /\ phase = "decode"
    /\ DecodeThrows(Instruction(offset))
    /\ phase' = "decode threw"
    /\ UNCHANGED <<body, relocatable, i, predicted, data, roff, decoded, offset, blkstack, usage>>

\* With relocations the last instruction is marked in every turn of the loop.
Marked(opcodes, inst) ==
    IF relocatable /\ opcodes # <<>> THEN [opcodes EXCEPT ![Len(opcodes)].roff = inst.rloc] ELSE opcodes

DecodeInst(inst) ==
    /\ ~DecodeThrows(inst)
    /\ decoded' = Marked(IF inst.known THEN Pushed(inst) ELSE decoded, inst)
    /\ offset' = inst.next
    /\ blkstack' = BlocksAfter(inst.op, blkstack)
    /\ usage' = usage (+) Uses(inst)
    /\ phase' = IF blkstack' = <<>> \/ ~Supported(B1(inst.op), B2(inst.op)) THEN "done" ELSE "decode"

Decode ==
    /\ phase = "decode"
    /\ DecodeInst(Instruction(offset))
    /\ UNCHANGED <<body, relocatable, i, predicted, data, roff>>

Finished == phase \notin {"length", "encode", "decode"} /\ UNCHANGED vars

Next == Measure \/ Encode \/ Decode \/ Throw \/ Finished

Spec == Init /\ [][Next]_vars

-----------------------------------------------------------------------------
(* Properties *)

Objects == UNION {Range(Vector[space]) : space \in DOMAIN Vector} \cup Range(Locals)

\* Code of our own was measured before, and is never empty.
IsRead == phase \in {"decode", "done", "decode threw"}
IsWritten == IsRead /\ predicted > 0
IsSimd(inst) == B1(inst.op) = \hFD

\* The predicted length is what is written: generated opcodes, real vs. computed.
LengthIsReal == IsWritten => Len(data) = predicted

\* What the walk that computes the length lets pass, encode writes, in as many
\* bytes (bodies without vector instructions): it validates that a referenced
\* object exists in its vector, so that encode does not stop half way.  But it
\* measures a local that is gone.
WrittenAsMeasuredButLocals ==
    /\ IsWritten /\ (\A k \in DOMAIN body : ~IsSimd(body[k])) => Len(data) = predicted
    /\ phase = "encode threw" => "local" \in DOMAIN body[i].arg

\* A block type that was given as an index is read as the type at it.
Operand(inst, name) ==
    IF IsBlock(inst) /\ inst.arg.type[1] = "typeidx"
    THEN <<"object", Vector["types"][inst.arg.type[2] + 1]>> ELSE inst.arg[name]
SameInst(read, inst) ==
    /\ read.op = inst.op
    /\ DOMAIN read.arg = DOMAIN inst.arg
    /\ \A name \in DOMAIN inst.arg : read.arg[name] = Operand(inst, name)
SameBody == /\ Len(decoded) = Len(body)
            /\ \A k \in DOMAIN body : SameInst(decoded[k], body[k])

AllSurvive == \A k \in DOMAIN body : Survives(body[k])

\* What encode writes, decode reads: the same instructions with the same objects,
\* to the last byte; also where blocks are nested and operands are padded.
DecodeRestores ==
    IsWritten /\ AllSurvive =>
        /\ phase # "decode threw"
        /\ phase = "done" => SameBody /\ offset = Len(data)

\* encode and decode agree on where a padded operand lies, and nothing else lies
\* there: the dynamic linker patches RELOC_PAD bytes at this place.
OperandsPlaced ==
    IsWritten /\ phase = "done" /\ AllSurvive =>
        \A k \in DOMAIN roff :
            /\ decoded[k].roff = roff[k]
            /\ \A m \in roff[k] + 1 .. roff[k] + RELOC_PAD : data[m] >= 128 <=> m < roff[k] + RELOC_PAD
            /\ \A m \in DOMAIN roff : m # k => roff[m] \notin roff[k] - RELOC_PAD .. roff[k] + RELOC_PAD

\* Code that another tool wrote is read as the instructions it is.
FilesDecoded ==
    IsRead /\ predicted = 0 => phase # "decode threw" /\ (phase = "done" => SameBody)
=============================================================================
