---------------------------- MODULE CallRewriting ----------------------------
(***************************************************************************)
(* replaceCallInstructions (fixup-builtin.js, and core-flow.js): one walk  *)
(* over the instructions of a function, in which each call of a function   *)
(* of the map is handed to a handler that edits the instructions around    *)
(* it; afterwards the functions that nothing uses are removed.             *)
(*                                                                         *)
(* The handlers of BuiltinCalls put a fixed sequence in the place of the   *)
(* call.  memcpy and memset become memory.copy and memory.fill, which      *)
(* leave no result: a local.tee goes behind the first argument, found with *)
(* traverseStack, and a local.get behind the copy.  alloca rewrites every  *)
(* alloca of the function and the frame around it.                         *)
(*                                                                         *)
(* The walk, the look-ups of indexOf and the splices are those of the      *)
(* code, with indices from 1; x is the index of the loop.                  *)
(***************************************************************************)
EXTENDS BuiltinCalls, SequencesExt

CONSTANT Functions      \* the functions tried: [map, code], the code ends with end

ASSUME FunctionsAssumption ==
    \A f \in Functions :
        /\ f.map \in {"memory_op_replace_map", "builtin_op_replace_map", "atomic_op_replace_map"}
        /\ f.code \in Seq([op : Nat, type : STRING, arg : STRING, align : Int,
                           sig : [argv : Seq(STRING), retv : Seq(STRING)]])

VARIABLES
    func,       \* the function as it was decoded
    code,       \* its opcodes now
    x,          \* the index of the loop
    element,    \* the callees that an element segment lists
    usage,      \* callee -> _usage
    phase,      \* replace, collect, done; threw
    removed     \* the callees spliced from mod.functions

vars == <<func, code, x, element, usage, phase, removed>>

----------------------------------------------------------------------------
Call(name, params, results) ==
    [Inst(\h10, VOID, name) EXCEPT !.sig = [argv |-> params, retv |-> results]]
Get(local) == Inst(\h20, I32, local)
Set(local) == Inst(\h21, I32, local)
Tee(local) == Inst(\h22, I32, local)
SP == "__stack_pointer"
GetSP == Inst(\h23, I32, SP)
SetSP == Inst(\h24, I32, SP)
Copy == Op(\hFC0A)
Fill == Op(\hFC0B)
RefNull == Op(\hD0)
TableGrow == Op(\hFC0F)

IsCall(inst, names) == inst.op = \h10 /\ inst.arg \in names
CalleesIn(is) == {is[k].arg : k \in {j \in DOMAIN is : is[j].op = \h10}}

\* The names that funcmap has a handler for.
MemoryOps == {"memcpy", "memset"}
BuiltinNames == {h.name : h \in BuiltinHandlers} \cup {"alloca", "table_grow", "table_zerofill"}
CoreNames == {h.name : h \in CoreHandlers}
Handled(map) ==
    CASE map = "memory_op_replace_map" -> MemoryOps
      [] map = "builtin_op_replace_map" -> BuiltinNames
      [] OTHER -> CoreNames

\* The names are put together from parts, which is evaluated and not proved.
ASSUME NamesAssumption == MemoryOps \cap (BuiltinNames \cup CoreNames) = {}

\* bytecode.js and the element section count a use for every call and every
\* element, and none for ref.func.
Uses(is, elems, name) ==
    Cardinality({k \in DOMAIN is : IsCall(is[k], {name})}) + IF name \in elems THEN 1 ELSE 0

Init ==
    /\ func \in Functions
    /\ code = func.code
    /\ x = 1
    /\ element \in SUBSET (CalleesIn(code) \cap Handled(func.map))
    /\ usage = [n \in CalleesIn(code) |-> Uses(code, element, n)]
    /\ phase = "replace"
    /\ removed = {}

Scanning == phase = "replace" /\ x <= Len(code)
CallOf(names) == Scanning /\ IsCall(code[x], names \cap Handled(func.map))

\* An instruction that is left alone.
Pass ==
    /\ Scanning
    /\ ~IsCall(code[x], Handled(func.map))
    /\ x' = x + 1
    /\ UNCHANGED <<func, code, element, usage, phase, removed>>

\* arr.splice(x, 1, ...new) with the loop continuing after the last of them.
Splice(new, name) ==
    /\ code' = SubSeq(code, 1, x - 1) \o new \o SubSeq(code, x + 1, Len(code))
    /\ x' = x + Len(new)
    /\ usage' = [usage EXCEPT ![name] = @ - 1]
    /\ UNCHANGED <<func, element, phase, removed>>

\* The handlers of BuiltinCalls.
ReplaceBuiltin ==
    /\ Scanning /\ code[x].op = \h10
    /\ \E h \in HandlersOf(func.map) : h.name = code[x].arg /\ Splice(h.code, h.name)

----------------------------------------------------------------------------
(***************************************************************************)
(* memcpyReplaceHandler and memset_to_inst_handler (core-flow.js), which   *)
(* differ in the instruction they leave.  They do not count uses.          *)
(***************************************************************************)
After == code[x + 1]
Opcode == IF code[x].arg = "memcpy" THEN Copy ELSE Fill
Destination == traverseStack(code, x - 1, 2)
memoplocal == "$memop"      \* func.__memoplocal, one for all calls of the function

\* Mutant: the local is taken to be free.
LocalIsFree(is, local, start, end) == FALSE
localUsedInRange(is, local, start, end) ==
    \E k \in start .. end : is[k].op \in \h20 .. \h22 /\ is[k].arg = local

\* The call may be the last instruction only where the code does not end with
\* end: then nothing is done.
MemoryCall == CallOf(MemoryOps) /\ x < Len(code)
Walked == MemoryCall /\ After.op # \h1A

Edit(new, next) ==
    /\ code' = new
    /\ x' = next
    /\ UNCHANGED <<func, element, usage, phase, removed>>

\* drop: the result was not wanted.  The instruction behind it is not looked at.
ReplaceDropped ==
    /\ MemoryCall
    /\ After.op = \h1A
    /\ Edit(RemoveAt(ReplaceAt(code, x, Opcode), x + 1), IF x + 1 < Len(code) THEN x + 2 ELSE x + 1)

\* local.tee: it becomes a local.get, and the tee goes behind the first
\* argument (in front of everything when the walk finds none).
ReplaceTeed ==
    /\ Walked
    /\ After.op = \h22
    /\ Destination # Throws
    /\ LET new == ReplaceAt(ReplaceAt(code, x, Opcode), x + 1, Get(After.arg))
       IN  Edit(InsertAt(new, Destination + 1, Tee(After.arg)), x + 3)

\* local.set: it goes away.
ReplaceSet ==
    /\ Walked
    /\ After.op = \h21
    /\ Destination # Throws
    /\ LET new == RemoveAt(ReplaceAt(code, x, Opcode), x + 1)
       IN  Edit(InsertAt(new, Destination + 1, Tee(After.arg)), x + 3)

\* Any other use of the result goes through a local of the handlers' own.
Used ==
    /\ Walked
    /\ After.op \notin {\h21, \h22}
    /\ Destination \notin {Undefined, Throws}

ReplaceUsed ==
    /\ Used
    /\ ~localUsedInRange(code, memoplocal, Destination, x - 1)
    /\ LET new == InsertAt(ReplaceAt(code, x, Opcode), x + 1, Get(memoplocal))
       IN  Edit(InsertAt(new, Destination + 1, Tee(memoplocal)), x + 3)

\* Mutant: the walk starts again at the first argument.
LocalInUseGoesBack ==
    /\ Used
    /\ localUsedInRange(code, memoplocal, Destination, x - 1)
    /\ Edit(code, Destination)
LocalInUse ==
    /\ Used
    /\ localUsedInRange(code, memoplocal, Destination, x - 1)
    /\ Edit(code, x + 1)

\* opclsmap has no entry; or instructions[-1] is read by localUsedInRange.
Throw ==
    /\ Walked
    /\ Destination = Throws \/ (Destination = Undefined /\ After.op \notin {\h21, \h22})
    /\ phase' = "threw"
    /\ UNCHANGED <<func, code, x, element, usage, removed>>

----------------------------------------------------------------------------
(***************************************************************************)
(* alloca (fixup-builtin.js): one pass over the whole function, with three *)
(* locals of its own.  The stack pointer is kept in $sp_enter where the    *)
(* prologue reads it, and restored from there by every epilogue; without a *)
(* prologue so far it is kept by two instructions put in front of the      *)
(* function, once for each call.                                           *)
(***************************************************************************)
Ops(is) == [k \in DOMAIN is |-> is[k].op]
EndsWith(is, ops) == Len(is) >= Len(ops) /\ Ops(SubSeq(is, Len(is) - Len(ops) + 1, Len(is))) = ops
Starts(is, k, ops) == Len(is) >= k + Len(ops) - 1 /\ Ops(SubSeq(is, k, k + Len(ops) - 1)) = ops

Allocate == <<Set("$alloca_sz"), GetSP, Get("$alloca_sz"), Op(\h6B),
              Tee("$alloca_ret"), SetSP, Get("$alloca_ret")>>
KeepSP == <<GetSP, Set("$sp_enter")>>

\* One instruction of the pass: out is what is before it now, exit where the
\* first call's result is.
AllocaStep(is, k, p) ==
    CASE is[k].op = \h24 /\ is[k].arg = SP /\ EndsWith(p.out, <<\h20, \h41, \h6A>>) ->
            [p EXCEPT !.out = SubSeq(@, 1, Len(@) - 3) \o <<Get("$sp_enter"), SetSP>>, !.use = TRUE]
      [] is[k].op = \h23 /\ is[k].arg = SP /\ ~p.enter /\ Starts(is, k + 1, <<\h41, \h6B>>) ->
            [p EXCEPT !.out = @ \o <<GetSP, Tee("$sp_enter")>>, !.enter = TRUE, !.use = TRUE]
      [] IsCall(is[k], {"alloca"}) ->
            LET front == IF p.use THEN <<>> ELSE KeepSP
                new == front \o p.out \o Allocate
            IN  [p EXCEPT !.out = new, !.exit = IF @ = 0 THEN Len(new) ELSE @ + Len(front)]
      [] OTHER -> [p EXCEPT !.out = Append(@, is[k])]

AllocaPass(is) ==
    LET pass[k \in 0 .. Len(is)] ==
            IF k = 0 THEN [out |-> <<>>, enter |-> FALSE, use |-> FALSE, exit |-> 0]
            ELSE AllocaStep(is, k, pass[k - 1])
    IN  pass[Len(is)]

\* Mutant: one use is given up, for the call the handler was asked for.
ReplaceAllocaOneUse ==
    /\ CallOf({"alloca"})
    /\ code' = AllocaPass(code).out
    /\ x' = AllocaPass(code).exit + 1
    /\ usage' = [usage EXCEPT !["alloca"] = @ - 1]
    /\ UNCHANGED <<func, element, phase, removed>>
ReplaceAlloca ==
    /\ CallOf({"alloca"})
    /\ code' = AllocaPass(code).out
    /\ x' = AllocaPass(code).exit + 1
    /\ usage' = [usage EXCEPT !["alloca"] = @ - Uses(code, {}, "alloca")]
    /\ UNCHANGED <<func, element, phase, removed>>

\* table_grow and table_zerofill: a null goes in front of the instruction before
\* the call, which is taken for the whole argument.
ReplaceTable ==
    /\ CallOf({"table_grow", "table_zerofill"})
    /\ x > 1
    /\ code' = SubSeq(code, 1, x - 2) \o <<RefNull, code[x - 1], TableGrow>> \o SubSeq(code, x + 1, Len(code))
    /\ x' = x + 2
    /\ usage' = [usage EXCEPT ![code[x].arg] = @ - 1]
    /\ UNCHANGED <<func, element, phase, removed>>

----------------------------------------------------------------------------
\* The functions of funcmap that have no use left are spliced from the module.
Collect ==
    /\ phase = "replace" /\ x > Len(code)
    /\ phase' = "done"
    /\ removed' = {n \in DOMAIN usage \cap Handled(func.map) : usage[n] = 0}
    /\ UNCHANGED <<func, code, x, element, usage>>

ReplaceMemory == ReplaceDropped \/ ReplaceTeed \/ ReplaceSet \/ ReplaceUsed \/ LocalInUse \/ Throw
Next == Pass \/ ReplaceBuiltin \/ ReplaceMemory \/ ReplaceAlloca \/ ReplaceTable \/ Collect
Spec == Init /\ [][Next]_vars

----------------------------------------------------------------------------
(***************************************************************************)
(* What the instructions do (the WebAssembly specification), the reference *)
(* for the properties: values are terms, and memory, tables and calls are  *)
(* a trace of what was asked of them.                                      *)
(***************************************************************************)
NoOperand == {\h01, \h20, \h23, \h3F} \cup \h41 .. \h44 \cup {\hD0, \hD2}
             \cup Bulk({9, 13, 16}) \cup Simd({12}) \cup Atomic({3})
ThreeOperands == {\h1B, \h1C} \cup Bulk({8, 10, 11, 12, 14, 17}) \cup Simd({82})
                 \cup Atomic({1, 2} \cup \h48 .. \h4E)
TwoOperands ==
    {\h26} \cup \h36 .. \h3E \cup (\h46 .. \h66 \ {\h50}) \cup \h6A .. \h78 \cup \h7C .. \h8A
    \cup \h92 .. \h98 \cup \hA0 .. \hA6 \cup Bulk({15})
    \cup Simd({11, 13, 14, 23, 26, 28, 30, 32, 34} \cup 35 .. 76 \cup 78 .. 81 \cup 84 .. 91
              \cup {101, 102} \cup 107 .. 115 \cup 118 .. 121 \cup {123, 130, 133, 134}
              \cup 139 .. 147 \cup 149 .. 153 \cup 155 .. 159 \cup 171 .. 174 \cup {177}
              \cup 181 .. 186 \cup 188 .. 191 \cup 203 .. 206 \cup {209} \cup 213 .. 223
              \cup 228 .. 235 \cup 240 .. 247)
    \cup Atomic({0} \cup \h17 .. \h47)
NoResult ==
    {\h01, \h04, \h1A, \h21, \h24, \h26} \cup \h36 .. \h3E \cup Bulk(8 .. 14 \cup {17})
    \cup Simd({11} \cup 88 .. 91) \cup Atomic({3} \cup \h17 .. \h1D)

Takes(inst) ==
    CASE inst.op = \h10 -> Len(inst.sig.argv)
      [] inst.op = \h11 -> Len(inst.sig.argv) + 1
      [] inst.op \in NoOperand -> 0
      [] inst.op \in TwoOperands -> 2
      [] inst.op \in ThreeOperands -> 3
      [] OTHER -> 1
Leaves(inst) ==
    CASE inst.op \in {\h10, \h11} -> Len(inst.sig.retv)
      [] inst.op \in NoResult -> 0
      [] OTHER -> 1

Term(op, arg, args) == [op |-> op, arg |-> arg, args |-> args]
Null == Term(\hD0, "", <<>>)
Answer(b) == Term(\h41, IF b THEN "1" ELSE "0", <<>>)
Plus(a, b) == IF a.op = \h6B /\ a.args[2] = b THEN a.args[1] ELSE Term(\h6A, "", <<a, b>>)
FloatEq(a, b) == a = b /\ a.arg # "NaN"

IsNaN == {"f64_isnan", "f32_isnan"}
IsInf == {"f64_isinf", "f32_isinf"}

\* s: the operand stack, the locals, the globals and the trace; skip
\* while the end of an if is looked for.
Push(s, rest, v) == [s EXCEPT !.stack = Append(rest, v)]
Traced(s, rest, v) == [s EXCEPT !.stack = rest, !.trace = Append(@, v)]
Invoke(s, inst, args, rest) ==
    CASE inst.arg = "memcpy" -> Push(Traced(s, rest, Term(\hFC0A, "", args)), rest, args[1])
      [] inst.arg = "memset" -> Push(Traced(s, rest, Term(\hFC0B, "", args)), rest, args[1])
      [] inst.arg = "alloca" ->
            LET new == Term(\h6B, "", <<s.globals[SP], args[1]>>) IN [Push(s, rest, new) EXCEPT !.globals[SP] = new]
      [] inst.arg = "table_grow" ->
            LET grow == Term(\hFC0F, "", <<Null, args[1]>>) IN Push(Traced(s, rest, grow), rest, grow)
      [] inst.arg \in IsNaN -> Push(s, rest, Answer(args[1].arg = "NaN"))
      [] inst.arg \in IsInf -> Push(s, rest, Answer(args[1].arg \in {"Infinity", "-Infinity"}))
      [] OTHER ->
            LET result == Term(\h10, inst.arg, args)
            IN  IF Leaves(inst) = 1 THEN Push(Traced(s, rest, result), rest, result)
                ELSE Traced(s, rest, result)

Step(s, inst, taken) ==
    LET size == Len(s.stack)
        args == SubSeq(s.stack, size - Takes(inst) + 1, size)
        rest == SubSeq(s.stack, 1, size - Takes(inst))
        term == Term(inst.op, inst.arg, args)
    IN  CASE s.done -> s
          [] ~s.done /\ s.skip -> [s EXCEPT !.skip = inst.op # \h0B]
          [] OTHER ->
             CASE inst.op = \h0B -> s
               [] inst.op = \h0F -> [s EXCEPT !.done = TRUE]
               [] inst.op = \h1A /\ size > 0 -> [s EXCEPT !.stack = rest]
               [] inst.op = \h01 -> s
               [] size < Takes(inst) -> [Traced(s, <<>>, Term(-1, "", <<>>)) EXCEPT !.done = TRUE]
               [] inst.op = \h04 -> [s EXCEPT !.stack = rest, !.skip = ~taken]
               [] inst.op = \h20 -> Push(s, rest, s.locals[inst.arg])
               [] inst.op = \h21 -> [s EXCEPT !.stack = rest, !.locals[inst.arg] = args[1]]
               [] inst.op = \h22 -> [s EXCEPT !.locals[inst.arg] = args[1]]
               [] inst.op = \h23 -> Push(s, rest, s.globals[inst.arg])
               [] inst.op = \h24 -> [s EXCEPT !.stack = rest, !.globals[inst.arg] = args[1]]
               [] inst.op = \h10 -> Invoke(s, inst, args, rest)
               [] inst.op = \h6A -> Push(s, rest, Plus(args[1], args[2]))
               [] inst.op \in {\h5B, \h61} -> Push(s, rest, Answer(FloatEq(args[1], args[2])))
               [] inst.op = \hFC0F -> Push(Traced(s, rest, term), rest, term)
               [] OTHER -> IF Leaves(inst) = 0 THEN Traced(s, rest, term) ELSE Push(s, rest, term)

LocalsOf(is) == {is[k].arg : k \in {j \in DOMAIN is : is[j].op \in \h20 .. \h22}}
GlobalsOf(is) == {SP} \cup {is[k].arg : k \in {j \in DOMAIN is : is[j].op \in {\h23, \h24}}}

Run(is, taken) ==
    LET run[k \in 0 .. Len(is)] ==
            IF k = 0
            THEN [stack |-> <<>>, trace |-> <<>>, globals |-> [g \in GlobalsOf(is) |-> Term(\h23, g, <<>>)],
                  locals |-> [l \in LocalsOf(is) |-> Term(0, l, <<>>)], skip |-> FALSE, done |-> FALSE]
            ELSE Step(run[k - 1], is[k], taken)
    IN  run[Len(is)]

\* The locals the handlers add are not looked at.
Observed(is, locals, taken) ==
    LET s == Run(is, taken)
    IN  [stack |-> s.stack, trace |-> s.trace, globals |-> s.globals,
         locals |-> [l \in locals |-> s.locals[l]]]

----------------------------------------------------------------------------
Finished == phase \in {"done", "threw"}
OpsIn(is) == {is[k].op : k \in DOMAIN is}

\* A rewritten function does what it did: the same requests of memory and
\* tables, in the same order, the same results, locals and globals,
\* whichever way its branch goes.
Meant == MemoryOps \cup {"alloca", "table_grow"} \cup IsNaN \cup IsInf
Locals == LocalsOf(func.code)
MeaningKept ==
    Finished /\ CalleesIn(func.code) \cap Handled(func.map) \subseteq Meant
    => /\ phase = "done"
       /\ LocalsOf(func.code) \subseteq LocalsOf(code)
       /\ \A taken \in BOOLEAN : Observed(code, Locals, taken) = Observed(func.code, Locals, taken)

\* For each stack slot after the first p instructions the index of the one that
\* filled it.
Fillers(is, p) ==
    LET after[k \in 0 .. p] ==
            IF k = 0 THEN <<>>
            ELSE SubSeq(after[k - 1], 1, Len(after[k - 1]) - Takes(is[k]))
                 \o [n \in 1 .. Leaves(is[k]) |-> k]
    IN  after[p]
Producer(is, p) == LET fillers == Fillers(is, p) IN fillers[Len(fillers) - 2]

\* The instructions whose row is missing or does not say what they do to the
\* stack: select t*, v128.const and shuffle; the results of table.get,
\* ref.null and ref.func; swizzle and the splats; extmul and extend.
Misdescribed ==
    {\h1C, \h25, \hD0, \hD2} \cup Simd(12 .. 20 \cup 156 .. 159 \cup 167 .. 170)

\* The local that takes the result is read or written between the first
\* argument and the call: the tee that now stands before is seen there.
LocalReadBetween(is) ==
    \E k \in DOMAIN is :
        /\ IsCall(is[k], MemoryOps) /\ is[k + 1].op \in {\h21, \h22}
        /\ localUsedInRange(is, is[k + 1].arg, Producer(is, k - 1) + 1, k - 1)

\* The argument of table_grow is more than one instruction.
LongArgument(is) == \E k \in DOMAIN is : IsCall(is[k], {"table_grow"}) /\ Takes(is[k - 1]) > 0

\* One constant stands for the class: isnan compares with NaN, which equals
\* nothing, isinf with Infinity, which is not -Infinity.
FloatMissed(is) ==
    \E k \in DOMAIN is :
        \/ IsCall(is[k], IsNaN) /\ is[k - 1].arg = "NaN"
        \/ IsCall(is[k], IsInf) /\ is[k - 1].arg = "-Infinity"

\* MeaningKept but for these.
MeaningKeptButKnown ==
    \/ ~Finished
    \/ OpsIn(func.code) \cap Misdescribed # {}
    \/ FloatMissed(func.code)
    \/ CalleesIn(func.code) \cap MemoryOps # {} /\ LocalReadBetween(func.code)
    \/ LongArgument(func.code)
    \/ MeaningKept

\* The walk ends at the instruction that computes the first argument, unless
\* an instruction on the way is misdescribed.
FindsProducer ==
    MemoryCall /\ OpsIn(code) \cap Misdescribed = {} => Destination = Producer(code, x - 1)

\* What the code leaves on a stack of types, by the table.
TypesLeft(is) ==
    LET Fits(pull, types) == \A k \in DOMAIN pull : pull[k] \in {types[k], ANY, NUMRIC, T}
        run[k \in 0 .. Len(is)] ==
            IF k = 0 THEN <<>>
            ELSE LET before == run[k - 1]
                     pull == PullOf(is[k])
                     base == Len(before) - Len(pull)
                     push == PushOf(is[k])
                 IN  CASE base < 0 \/ before = <<"misfit">> -> <<"misfit">>
                       [] base >= 0 /\ ~Fits(pull, SubSeq(before, base + 1, Len(before))) -> <<"misfit">>
                       [] OTHER -> SubSeq(before, 1, base) \o
                                   IF push \in {VOID, UNDEFINED} THEN <<>> ELSE <<push>>
    IN  run[Len(is)]

\* The instructions in the place of a call take its parameters and leave its
\* results, for every function but these: memory_copy is declared without
\* parameters, the table says that i64.atomic.load leaves an i32, f64_abs of
\* core-flow.js is f32.abs, and table_zerofill grows the table.
Misfits == {"memory_copy", "i64_atomic_load", "table_zerofill"}
F64AbsOfCore == func.map = "atomic_op_replace_map" /\ "f64_abs" \in CalleesIn(func.code)
TypesKept ==
    phase = "done" /\ CalleesIn(func.code) \cap (MemoryOps \cup Misfits) = {}
    /\ ~F64AbsOfCore /\ ~LongArgument(func.code)
    => TypesLeft(code) = TypesLeft(func.code)

\* An atomic access has to state exactly its natural alignment; the table holds
\* it.  i32_atomic_load and i32_atomic_rmw16_cmpxchg_u of fixup-builtin.js do not.
Misaligned == {"i32_atomic_load", "i32_atomic_rmw16_cmpxchg_u"}
AlignedNaturally ==
    \A k \in DOMAIN code :
        code[k].align # NoAlign /\ opclsmap[code[k].op].align # 0
        => \/ 8 * 2 ^ code[k].align = opclsmap[code[k].op].align
           \/ func.map = "builtin_op_replace_map" /\ CalleesIn(func.code) \cap Misaligned # {}

\* A function with its calls replaced is still valid, but for these.
ValidButKnown == TypesKept /\ AlignedNaturally

\* A built-in function is removed when nothing uses it any more, and only then:
\* neither a call that is left nor an element segment.  The count of uses that
\* decides it is kept by the decoder, the handlers and the loop.  The handlers of
\* memcpy and memset do not count, so these two stay.
RemovedWhenUnused ==
    phase = "done" =>
        \A n \in CalleesIn(func.code) \cap Handled(func.map) :
            n \in removed <=> Uses(code, element, n) = 0 /\ n \notin MemoryOps

\* The loop ends, although the handlers edit the instructions it walks over:
\* every round leaves fewer calls for the handlers, or as many and fewer
\* instructions to look at.
CallsAhead(is, from) == Cardinality({k \in from .. Len(is) : IsCall(is[k], Handled(func.map))})
Ahead == Len(code) - x
Advances ==
    [][\/ phase' # "replace"
       \/ CallsAhead(code', x') < CallsAhead(code, x)
       \/ CallsAhead(code', x') = CallsAhead(code, x) /\ Ahead' < Ahead]_vars
==============================================================================
