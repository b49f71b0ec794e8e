# wasm-ylinker in TLA+

wasm-ylinker is a static linker for WebAssembly: it reads relocatable object
files and archives, merges them into one module, lays out its memory image, and
writes the module with a section of runtime relocations (`rtld.dylink.0`) that a
loader applies.  It is one JavaScript thread; nothing in it waits or is called
back while it links.  What makes it hard is not interleaving but order: the
objects of a command line, the symbols of an object, the members of an archive and
the segments of a section can come in any order, every step rewrites references
that earlier steps left, and the same table is kept in several forms that must
agree.  That order is the nondeterminism of the modules about linking.  The modules
about instructions, LEB128 fields and the runtime section have no order to choose:
their nondeterminism is the program that is linked.

Paths below are relative to the repository (`src/` is its source directory,
`tools/` its programs), and `bclinker.js` is `src/bclinker.js`.

## The system

| Component | State | Operations |
|---|---|---|
| Object merging: `ByteCodeLinker.mergeWithModule` (bclinker.js:473-1468), called by `tools/wasm-ylinker.js:287-332` for each object | `_symtable` and its look-ups `_funcsym`, `_datasym`, `_globsym`; `functions`, `globals`, `tags`, `tables`, `_dataSegments`; `_code_relocs`, `_data_relocs`; `_ctors`, `_dtors` | merge one object: keep, add or replace each symbol, re-target operands and relocations, insert what is new |
| Static archives: `ARLinker` (ar-loader.js), the loading loops of `performLinking` (bclinker.js:2948-3045), `_fixupARLinking` (1667), `mergeWithLinker` (1722) | per archive: `_symtable`, `_hdrmap` with `_isloaded`, `_bclinker`; the local lists of names asked for | load the member that defines a name, complete an archive, merge its linker |
| Index spaces: insertion of imports before definitions (`mergeWithModule` bclinker.js:1201-1390, `mergeWithLinker` 2423-2531, `appendImport` core/WebAssembly.js:3338, `performLinking` 3048-3396) | the order of `functions`, `globals`, `tags`, `tables`, `memory` | insert an import, replace one by its definition |
| Memory image: `packDataSegments` (144-236) and the layout of `performLinking` (3534-3728) | `_rloc`, `_packedSize`, `_size`, `_paddingTotal`, `_reloc_start`, `_reloc` | pack a section, lay the sections out, merge each into one segment |
| Duplicate strings (3453-3521) | the string segments, `_symtable`, the relocations | drop a string segment that another one repeats |
| Dynamic libraries: `performLinking` (3205-3451) with `dylib-loader.js`; `so-loader.js` | `_symtable`, `functions`, the body, `dst_funcmap`, `dst_tblfuncmap` | look a symbol up, import it or leave it to dlsym, re-target the calls |
| Runtime relocations: `rtld.dylink0.js`, the element segments and generators of `bclinker.js` (3742-4206, 5499-6196) | `indirect_tbl_vec`, the element segments, internal and external relocations, `.dynsym`, `.dynstr`, `.init_array` | collect addresses, classify, move methods, generate the table's constructor, size, write |
| Executable header: `rtld.exechdr.js` | a record of offsets, written in two passes | size, write |
| Constructors: `dl_create_init_array` (5499-5584) | `_ctors` in order | sort, drop duplicates, write `.init_array` |
| Types: merge and `garbageCollectType` (4466-4534) | `types`, references to them | canonicalise, drop unused |
| Built-ins: `builtin.js`, `fixup-builtin.js`, `core-flow.js` (memcpy, memset) | the opcodes of the function walked, `_usage` of the functions | generate functions, rewrite calls to intrinsic ones, remove what nothing calls |
| Instruction table: `core/inst.js` | `opclsmap` | what an instruction takes off the stack, leaves there, and its alignment; `traverseStack` |
| Reading and writing: `core/*.js` | a cursor in a `ByteArray` | parse, measure and encode sections, instructions, names, relocations |
| Workflows: `core-flow.js`, `wasm-info.js` | a module and a list of steps | post-process a module |
| Web application | view state | display |

How they interact.  The driver parses each object and calls `prepareLinking` (which
turns relocation entries into objects that point at instructions, segments and
symbols) and `mergeWithModule` on one linker.  `performLinking` then resolves env
imports against dynamic libraries, loads archives (an archive has a linker of its
own, filled by the same `prepareLinking` and `mergeWithModule`, and merged by
`mergeWithLinker`), creates the symbols the linker itself provides, drops duplicate
strings, packs and lays out the segments, builds element segments and runtime
relocations, and encodes.  Everything is shared by reference: an instruction, a
relocation, a constructor and the symbol table all point at the same symbol or
function object, so a replacement must find and rewrite each of them.

### What is hard, and what makes each part correct

- *Merging.*  A use may be merged objects before or after its definition.  Correct
  when the two forms of the table agree, the vectors hold exactly the values of the
  symbols, every operand and relocation means what its name means now, nothing that
  enters the image leaves its relocations behind, and a constructor is run once and
  only if its function is there.
- *Archives.*  What is loaded decides what is asked for next.  Correct when the
  result is closed, minimal, independent of the detours by which a member was
  reached, and the loop ends before its watchdog.
- *Memory image.*  Greedy packing, padding charged to the section before, and a
  merged segment allocated from sizes that are updated late.  Correct when segments
  are disjoint and aligned, copies fit, and the sections tile the image.
- *Index spaces.*  WebAssembly requires imports first.
- *Dynamic libraries.*  A function found by dlsym has no index any more, so whatever
  named it must be found and changed.  Correct when the calls of the program are
  the same calls afterwards and no operand names what is gone.
- *Runtime relocations.*  Seven generators add to the element segments, relocations
  and data of one another, by place.  Correct when each place of the file
  means what the program meant, every address given out is filled, and the sizes
  counted in one pass are those written in the other.
- *Instructions.*  Three switches over all opcodes, and a table by hand of what each
  does to the stack.  Correct when the three agree, and when the table says what
  the instructions do.
- *Rewritten calls.*  The handlers edit the vector that is being walked, and insert
  locals that the program may be using.  Correct when the function does what it did.

The hazards found, each with its line and the properties that watch it, are
listed in `PROJECT.json`.

## The modules

| Module | What it is |
|---|---|
| `SymbolResolution` | abstract specification: what linking promises about a global name |
| `SymbolMerge` | `mergeWithModule`: implements `SymbolResolution` |
| `MCSymbolMerge` | its small instances |
| `ArchiveLinking` | the loading of archives; the main linker's table implements `SymbolResolution` too |
| `MCArchiveLinking`, `ArchiveLinking_proofs` | its instance and its proofs |
| `SegmentLayout` | `packDataSegments` and the memory layout |
| `MCSegmentLayout` | its instance |
| `ImportOrder` | the vectors of functions, globals, tags and tables: imports in front |
| `MCImportOrder` | its instance |
| `Merging_proofs` | of `SymbolMerge`: typing, the symbol table, refinement, the image, operands, relocations, constructors; of `ImportOrder`, the other view of the same merges; and of `SegmentLayout`, where data segments are merged |
| `Leb128`, `Leb128_proofs` | the loops that measure, write and read a LEB128 field; all proved |
| `ByteCode`, `MCByteCode` | the three walks over the instructions of a body: length, encoder, decoder |
| `ByteCode_proofs` | that a body is written in as many bytes as were counted and read as it was, and so is code of another tool; that padded operands lie where both note them |
| `InstTable` | `opcode_info` and `traverseStack`: what each instruction does to the stack |
| `BuiltinCalls` | the handlers of built-in functions, both copies; extends `InstTable` |
| `CallRewriting`, `MCCallRewriting` | `replaceCallInstructions` with the handlers that look around; extends `BuiltinCalls` |
| `CallRewriting_proofs` | the count of uses, what is removed, and that the loop ends |
| `DynamicLinking` | the look-ups in dylibs and the removal of duplicate strings |
| `RuntimeRelocs`, `MCRuntimeRelocs` | from there to the section `rtld.dylink.0`; extends `DynamicLinking`, whose actions are its first phases |
| `RuntimeInvariants` | the inductive invariants of `RuntimeRelocs`, in named parts |
| `RuntimeRelocs_proofs` | addresses, sizes, places, the table, constructors and `.dynsym` |
| `RuntimeLinks_proofs` | the calls, and what stops the linker; extends `RuntimeRelocs_proofs` |
| `Loops` | three loops that the models of bodies and relocations share: filtering, dropping repetitions, adding up |
| `Induction` | lemmas for the proofs about LEB128 fields, bodies, rewritten calls and relocations: induction up to a bound, recursive functions, sequences, the loops |

Operators whose comment calls them a *mutant* are variants of the operator
that follows them, each one a plausible slip in the code.  Nothing uses them but the
mutants of `PROJECT.json`, which put one in the place of the original and show that
the named property notices.

### SymbolMerge

An object file is a function from names to a status: absent, undefined, weak,
strong or local.  Its symbol for a name is `<<object, name>>`, and so is the
function, import or segment that is the symbol's value; an undefined data symbol has
none.  Names are split into functions, data, and globals and tags.  A global or a tag is imported
or local: `mergeWithModule` throws at any other definition of one, and of a local one it takes the
symbol and leaves the value behind (793-796, 826-829), which `LeftBehind` names.  Tables are left
out: their values come in by a loop of their own (968-990), next to the branch for their symbols.

| TLA+ | Code |
|---|---|
| `table` | `_symtable` |
| `bound` | `_funcsym`, `_datasym`, `_globsym` |
| `values` | `functions`, `_dataSegments`, `globals`, ... as a set |
| `callee` | for each operand of each function, the value it points at |
| `ref` | for each relocation, `reloc.ref` |
| `relocs` | `_code_relocs` and `_data_relocs`: how often each relocation is in them |
| `newVals`, `srcmap`, `dstmap` | `new_func`/`new_data`/`new_globals`, `src_funcmap`/`src_globmap`, `dst_funcmap` |
| `BeginMerge` | entry of `mergeWithModule` |
| `MergeLocal`, `AddSymbol`, `ReplaceFunction`, `ReplaceData`, `KeepSymbol` | the branches of the symbol loop (682-893) |
| `FinishMerge` | everything after the loop: re-targeting of operands (1003-1199), the splices (1201-1399), the relocations of what is new (1402-1432; those of code are not looked for before they are pushed), the constructors (1434-1465) |
| `Linked` | the driver's loop is over |

The symbol loop is one action per symbol, because relocations are re-targeted while
it runs and a later symbol sees what an earlier one did.  What follows the loop is
one action: it reads the maps of the loop and nothing observes its middle.  Any
order of symbols in an object is allowed.

Objects are well formed the way a compiler writes them: a definition has a symbol in
its object for whatever it uses.  Left out: aliases (two symbols with one value),
tables, types, memories, producers, and the order of the vectors.

### ArchiveLinking

| TLA+ | Code |
|---|---|
| `Lists(m, n)` | `_symtable` of the archive maps n to m; when several members define n the last `symtable.set` stays (ar-loader.js:162) |
| `loaded` | members with `_isloaded` |
| `table[0]`, `table[a]` | `_symtable` of the main linker and of the archive's `_bclinker` |
| `SearchForObjects`, `SearchForArchive`, `SearchOwn` | one iteration of the loops at bclinker.js:2964, 3003 and 1709 |
| `tried`, `rounds` | `prevfunc` with `prevdata`, and `loopcnt` |
| `MergeSymbol`, `EndMerge` | one symbol of `mergeWithLinker`, and its end |
| `EndObjects`, `EndCross`, `StartRound`, `StartMerge` | where a loop ends and the next begins |

`Load` is a whole `mergeWithModule` of the member into the archive's linker, at the
level of `SymbolResolution`; its detail is SymbolMerge.  The names of a loop may be
taken in any order.  A definition is known by the member that gives it; `Program`
stands for whichever object of the command line does.  `mergeWithLinker` is modelled for the
symbol table only: its operands, relocations, segments and constructors are the
next module of the plan.  `_wholeArchive` is not modelled: `loadFullArchive` is a
stub in the code.

### SegmentLayout

Segments are numbered in the linker's order, sections in output order (`.rodata`,
`.data`, the custom sections, `.bss`), and a segment has an alignment, a size and a
section, all arbitrary.  `PackFitting`, `PackPadded` and `PackUnaligned` are the three
places where `packDataSegments` gives a segment an offset; `LaySection` is an
iteration of the layout loop, with the padding it charges to the section before;
`SkipSection` is a section left out of `outputSegments`.  `Reloc(i)` is the address
written to `_reloc`, and `SectionStart`, `SectionStop` are what the runtime symbols
`__start_` and `__stop_` resolve to.

### ImportOrder

SymbolMerge has the vectors as sets; here they are sequences, and which values a call
brings is left open (any values that are not in their vector yet), since the names are
SymbolMerge's concern.

| TLA+ | Code |
|---|---|
| `vec` | `functions`, `globals`, `tags`, `tables`, shared by the linker and its `_wasmModule` |
| `replaced` | `dst_funcmap`, after the symbol loop |
| `new` | `new_func`, `new_globals`, `new_tags`, `new_tables` |
| `impidx` | the insertion point, a JavaScript index; -1 is the front |
| `Replace`, `NextVector`, `Insert` | one entry of `dst_funcmap`; the search for the insertion point of the next vector; one new value |
| `AppendImport`, `PushFunction`, `RemoveFunction`, `ImportFromLibrary`, `PushTable` | the splices of `performLinking` |

Three details of the code are in the model as they are.  `mergeWithLinker` does not
reset `impidx` before tags and tables (`Start`).  When no definition is found the
insertion point is the front and moves on from there, so imports of one call precede
older ones.  The `appendImport` that runs is the one of `WebAssemblyModule`, whose
search loop has a length of 0 and always inserts in front; the one of
`ByteCodeLinker` is never called.  A `splice` behind the end appends.  The code throws
INVALID_STATE when a replaced import is not in `functions`; in the model nothing could
be done then, so the absence of deadlock says that it never happens.

Left out: the memory vector, into which no merge splices, and the loop over env
imports at the start of `performLinking` (2851-2945), whose map SymbolMerge shows to be
empty.

### Leb128

One iteration of a loop is one step: `Measure` (`lengthULEB128`, `lengthSLEB128`),
`Write` (`writeULEB128`, `writeSLEB128`; `Pad` is their padding at once), `ReadUnsigned` and
`ReadSigned` (`readULEB128`, `readSLEB128`), each for Number and for BigInt.  The
width of a group, of a Number and of a BigInt are constants, so that a small instance
has every value of every width.  A field that another tool wrote is only read, and its
bytes may be anything.

A Number is cut to `NumberBits` by its shifts as JavaScript does, and the reader's
test of the bits past the width is the one of the code.  Claimed of foreign fields
is what the code gets right: a signed field of 64 bits is read as what it stands
for or refused.

### ByteCode

| TLA+ | Code |
|---|---|
| `Measure`, `LengthOf`, `predicted` | `byteCodeComputeByteLength`, `sz` |
| `Encode`, `Written`, `data`, `roff` | `encodeByteCode`, the `ByteArray`, `_roff` |
| `Decode`, `Throw`, `Instruction`, `FormatOf`, `decoded`, `blkstack`, `usage` | `decodeByteCode`, its opcodes, its stack of blocks, `_usage` |
| `Vector`, `Locals` | the vectors of the module and the locals of the body |

A step is one instruction.  Each of the three has its own switch, written as one
operator for each range of opcodes (`Control`, `Variable`, `Memory`, `Numeric`,
`Reference`, `Bulk`, `Simd`, `Atomic`), since what can go wrong is that the switches
differ.  A constant of f32 or f64 is its bytes: the code reads it into a JavaScript number
and writes that (bytecode.js:1221, 1224), so that the payload of a NaN, which a number
need not keep, is not in the model.  That the lists of vector instructions, which each switch spells out,
are equal is an assumption that TLC evaluates.  Bytes are bytes: padded operands, the
end of a block and multi-byte indices are found where the decoder finds them.

### InstTable, BuiltinCalls, CallRewriting

`InstTable` has a row [pull, push, align] for each opcode, as the table of the code has
(not as WebAssembly does), and `traverseStack` walks back over them.  `BuiltinCalls` has
a record for each handler: its name, the type it declares, the instructions it
inserts.  The two copies of the handlers (`builtin_op_replace_map`,
`atomic_op_replace_map`) are two sets.

| TLA+ | Code |
|---|---|
| `code`, `x` | the opcodes of the function, the index of the loop |
| `usage`, `element` | `_usage`, and what element segments list |
| `Pass`, `ReplaceBuiltin` | a turn of the loop at `fixup-builtin.js:972` without and with a call |
| `ReplaceMemory`: `ReplaceDropped`, `ReplaceTeed`, `ReplaceSet`, `ReplaceUsed` | `memcpyReplaceHandler` by what is done with the result |
| `LocalInUse` | the handlers' own local is in use: the call is left alone |
| `Throw` | `traverseStack` meets an opcode without a row, or finds no first argument |
| `ReplaceAlloca`, `ReplaceTable` | the handlers of alloca, table_grow and table_zerofill |
| `Collect` | the removal of functions that nothing uses |

What a function does is `Observed`: the requests of memory and tables it makes,
its results, its locals and the globals, by an evaluator of the few instructions
the functions tried are made of, for either way the branch goes.  The handler of alloca
touches the stack pointer alone, which is one global among others here.

### DynamicLinking and RuntimeRelocs

They begin where the merges end: a program is a symbol table, the code of a function, the
relocations, the data segments and the constructors.

| TLA+ | Code |
|---|---|
| `Resolve`, `ResolveDone` | a turn of the loop over undefined symbols (3213), and what follows it |
| `toImport`, `toTable` | `dst_funcmap`, `dst_tblfuncmap` |
| `ReplaceImport`, `RemoveImport`, `RetargetCall` | the loops over these maps (3283-3451) |
| `MergeStrings` | 3453-3521 |
| `CollectCode`, `CollectData`, `vec`, `CreateElements` | 3781-3925, `indirect_tbl_vec` |
| `Export`, `GenerateExports` | 3927-3967, `dl_generate_exports` |
| `Skipped`, `Exportable` | `objc_skip_export_of_func_symbol`, `objc_skip_export_of_data_symbol` (5591-5610); the test for `objc_msgSend_` by the name of the function (3950, 4734) |
| `SetupCommonData`, `parts`, `dynsym` | `dl_setup_common_data`, the relocations by kind, the two vectors of exported symbols |
| `CreateInitArray` | `dl_create_init_array` |
| `PartitionMethods`, `CreateTableCtor` | 4025-4133: Objective-C methods to a segment of their own; `__wasm_ctor_dylib_tbl` |
| `SetupModuleData` | `dl_setup_module_data`: `.dynsym`, `.dynstr` |
| `WriteHeader`, `start` | 4136-4192, the element segment and place of the start function |
| `Validate` | `validateWasmModule` |
| `EncodeExternal`, `EncodeInternal`, `file` | `encode` of `rtld.dylink0.js`, its groups |

The relocations of a program are lists, as the merges leave them: one can be listed
twice, which then is one object, so that what `Recollected` changes in the one is changed in
the other; and one can be in a function or a segment that is not in the program
(`DroppedCode`, `DroppedData`).

`CodeFixes` and `DataFixes` are what a loader reads from the file: the places and what each
one is to hold.  The properties compare them with the program, which no
action changes.  Abstracted: a data segment has 16 bytes and lies in its section in the
order of the vector (SegmentLayout has the packing); an instruction takes 60 bytes,
so that some offsets need a field of two bytes; one function has all relocations; types
and `_usage` are left out; external relocations keep the order in which they are found,
where the code sorts them; each string has its own symbol, and all strings the same
alignment; of names only what the filters of Objective-C tell apart is kept
(`messages`: those that begin with `objc_msgSend_`; `selectors`: those of the three kinds of data that are
skipped); the subsection that lists modules is not written; a symbol marked EXPORTED that only dlsym
answers for is left out, as the loop over exports throws a TypeError on its missing name.  `SOLinker` is never
constructed by the driver.

## What is checked

| Run | Instance | Shows | Properties |
|---|---|---|---|
| `symbol_merge` | two objects; functions f (calls w, reads g) and w (reads d), datum d (holds the address of f), global or tag g, imported or local; f is a constructor | seven invariants and the refinement | `TableAgrees`, `UndefinedIsUnresolved`, `ImageIsTableButKnown`, `OperandsBoundButKnown`, `RelocsBound`, `RelocsOnceButKnown`, `CtorsExact`, `ImplementsResolution` |
| `strong_overrides_weak` | two objects, weak and strong | *violated*: the first definition stays, weak or not | `StrongOverridesWeak` |
| `code_relocs_placed` | two objects | *violated*: a relocation of a dropped function enters the linker | `CodeRelocsPlaced` |
| `archive_linking` | an archive of three members and one of one, three names | three invariants, the refinement, and termination | `OwnNamesClosed`, `FirstArchiveResolves`, `LoadedIsAskedFor`, `FirstDefinitionStays`, `EventuallyLinked` |
| `archives_resolve_each_other` | the same | *violated*: a name stays undefined that another archive defines | `ArchivesResolveEachOther` |
| `segment_layout` | three segments, alignments none, 2, 4, sizes 1, 4, four sections: every input | four invariants, and that every segment is laid | `ImageDisjoint`, `ImageAligned`, `SectionsTile`, `ClassOrderKept`, `EverythingLaid` |
| `import_order` | three functions to import and two to define, two globals, a tag, a table of each kind; two new values of a vector in a call | two invariants, and no deadlock | `ImportsFirst`, `OneIndexEach` |
| `leb128` | groups of 3 bits, Numbers of 8 and BigInts of 10; every value, padded and not; foreign fields of up to five bytes | predicted widths, the one width of padded fields, round trips | `LengthPredicted`, `RoundTrip`, `BigAcceptedIsDenoted` |
| `byte_code` | an instruction for every arm of the switches, alone, in pairs, in nested blocks; the code of other tools | length, encoder and decoder agree, operands are where they are said to be | `WrittenAsMeasuredButLocals`, `DecodeRestores`, `OperandsPlaced`, `FilesDecoded` |
| `length_is_real` | loads of vectors | *violated*: the predicted length counts some twice | `LengthIsReal` |
| `call_rewriting` | every instruction in an argument of memcpy; calls in calls; frames with and without alloca; each handler; every class of float | the function does what it did, types and alignment fit, uses are counted, the loop advances | `MeaningKeptButKnown`, `FindsProducer`, `ValidButKnown`, `RemovedWhenUnused`, `Advances` |
| `runtime_linking` | two uses, or one with constructors and profiles, of own, imported, dlsym'ed, lost and section symbols; a dylib may have no module name; relocations listed twice, or of a function or a segment that was dropped; symbols that the filters of Objective-C skip | each place means what the program meant; seven more | `PlacesMeantButKnown`, `CallsKeptButKnown`, `OneAddress`, `TableFilledButKnown`, `InitArrayInOrder`, `DynsymComplete`, `SizesPredicted`, `LinksButKnown` |

**Bounds.**  The names of `symbol_merge` form a cycle through every kind of use
(code to code, code to data, data to code, code to global) and each object says
anything of each name, so any pair of statuses meets in either order; `symbol_merge`
omits `weak`, because the merge treats `weak` and `strong` alike (only
`StrongOverridesWeak` tells them apart, and its run has both).  Two objects let a use
be merged before and after its definition; that a third changes nothing is what the
theorems say, which hold for any number of them.  In
`archive_linking` three members give a chain (a member loaded for a member loaded
for a name) beside a member that competes with one of them, and the second archive
competes with the first; a member says something of at most two names, and defines
one, since one that defines none is in no symbol table.  `Watchdog` is 3, one round
per name, where the code has 10000: the loading ends within that bound, with no slack.
In `segment_layout` the sizes 1 and 4 reach every residue of the largest
alignment, three segments let one be packed ahead of two others, and four sections
have an empty built-in one, an empty custom one and padding before either kind of
neighbour.

In `import_order` two definitions and three imports give every pattern an insertion
point distinguishes (empty, imports only, definitions only, both, with one or more on
either side), two new values let one import follow a definition of the same call, one
definition can replace two imports and be new under a third name, and calls go on
until all values have come and gone.  A stale `impidx` behind the end of the next
vector is reached: without `InSourceOrder`, which says that tables come imports
first, `ImportsFirst` fails.

In `leb128` the widths keep what matters of 7, 32 and 64: a Number ends inside a group,
and one bit of a BigInt is left for its last group.  Foreign groups are 0, 3, 4 and 7:
all bits clear or set, the sign bit alone, and all but the sign bit.  `byte_code` has 130
functions, so that an index takes one or two bytes, and two objects of other vectors, so
that two operands in the wrong order are seen; the vectors of `Bodies` that lack
an object reach each `throw`.  In `call_rewriting` an argument can be one instruction
with its operands at every place of the three, which is all that `traverseStack`
tells apart; nesting goes one deep twice over.  In `runtime_linking` a pair of uses
reaches what one does to the other (the same function by call and by address, two
names of an import, equal strings), and each single use is combined with up
to four constructors, among them one of a function that is visible, one that is
a method and one listed twice, and with profiles that export everything, one
function, a function that does not exist and one that is exported already.  A use that was
dropped is one of a function of the module, a method, two imports or data of either side, alone with
each other use and before it; the programs that list their relocations twice have a use of
each kind and one in the data.  A message function is also a function under another name, and
another function has the name of a message, so the filter of symbols and the filter of
functions differ.

**Fairness.**  `FairSpec` of ArchiveLinking and SegmentLayout is weak fairness of the
next-state relation.  The linker is a single thread in a loop, so it takes a next
step whenever there is one; nothing else is assumed.  It is used only by
`EventuallyLinked` and `EverythingLaid`.  That the loop of CallRewriting ends is
the action property `Advances`, a measure that every turn lowers, and needs none.

### What the properties leave out

A property whose name ends in *ButKnown* or *ButLocals*, or whose comment names an
operator, excludes cases in which the code does something else.  They are:

- `Survives` (ByteCode): the end of a `try` closes the block around it, `memory.init`
  loses its segment, block type 0 is refused, each when it is read; of a load or store of a lane,
  and of a number behind the prefix 0xFC that no instruction has, nothing is written; the table of
  `table.init` is written in one byte, whatever its index.  `WrittenAsMeasuredButLocals`: a local that
  is not in the body is measured as index 0 and met only by the encoder.  Vector
  instructions are left to `LengthIsReal`.
- `Misdescribed` (CallRewriting): the rows of `select t*`, `v128.const` and
  `shuffle`, the results of `table.get`, `ref.null` and `ref.func`, swizzle and the
  splats, extmul and extend are missing or wrong.
- `LocalReadBetween`: the local that takes memcpy's result is used between the first
  argument and the call; the handler puts a tee of it before that use.
- `LongArgument`: `table_grow` takes the one instruction before the call for the argument.
- `FloatMissed`: isnan of a NaN (the comparison is with NaN), isinf of -Infinity.
- `Misfits`, `F64AbsOfCore`: `memory_copy` is declared without parameters,
  `i64.atomic.load` is an i32 in the table, `table_zerofill` grows the table, and f64_abs
  of `core-flow.js` is `f32.abs`.  `Misaligned`: `i32_atomic_load` and
  `i32_atomic_rmw16_cmpxchg_u` state another alignment than the natural one.
- `ImageIsTableButKnown`, `OperandsBoundButKnown` (SymbolMerge): a global or a tag of LOCAL binding is
  pushed onto the symbol table and its value onto no vector (792-796, 826-829), so an operand
  that names it has no index in the image.
- `RelocsOnceButKnown`: a relocation is taken over twice when it came with what it refers to and with
  what it is in (`CameTwice`).  In the code: its datum took the place of an undefined symbol (668-669), and
  its function is in the image (645 or 1411-1412).  In the data: function and
  segment both took such a place (655 and 676); the loop over new segments looks for a
  repetition (1429), those two do not.
- `PlacesMeantButKnown` (RuntimeRelocs): a relocation that was taken over twice may be named
  twice, with the same meaning; the addend of a code relocation to a symbol of
  another module is dropped (`rtld.dylink0.js:579`); a function that dlsym finds is asked
  for by the name of the symbol or of the import (`bclinker.js:3240`, 3796).
- `CallsKeptButKnown`: `ref.func` of such a function names the
  `RuntimeLinkingSymbol`, which has no index (3424-3429).
- `TableFilledButKnown`: an element segment made for visible functions alone (6182) is not
  copied to the table.
- `DynsymComplete`: symbols named `objc_msgSend_*`, and data named `.objc_selector_*`,
  `.objc_sel_name_*` or `.objc_sel_types_*`, are not for other modules (`Skipped`).
- `LinksButKnown`: INVALID_DST_OFF and INVALID_DST_IDX when the merges brought a relocation of a function
  or of a segment that they dropped (for external data the code fails one step before
  that throw, when it reads `size` of the section that is undefined, `rtld.dylink0.js:622`);
  INVALID_SRC_OFF when the functions of the first element segment are all
  methods (4103), and WASM_VALIDATION_ERROR when a profile exports a name a second
  time (4667).

## What is proved

All theorems hold for every value of the constants that the named assumptions
allow: any number of objects, names, archives, members, segments and sections, any
width of groups and integers, any function body and any program.

- `MergeAssumption`: the kinds of names are disjoint and the sentinels are not
  symbols.  Nothing is assumed about who uses what.
- `ArchiveAssumption`: finitely many names, no more than `Watchdog`; members are
  numbered in their archive.
- `LayoutAssumption`: of two alignments the smaller divides the larger (they are
  powers of two), there are at least the three built-in sections.
- `ImportAssumption`: nothing is both import and definition, and globals and tags are
  imports, as the code insists.
- `WidthAssumption`, `PaddingAssumption`, `BigAssumption` (Leb128): groups have bits, a
  padded field is just wide enough for a Number, and all groups of a BigInt but the
  last are full with one bit left for it, as for 7, 32 and 64.
- `VectorAssumption`, `BodiesAssumption` (ByteCode): a vector of the module has each object once, and
  never `undefined`; a padded operand has from four to seven bytes (the code uses 5); an
  opcode is one byte, or two behind a prefix; a block type is a number, an index or an object;
  a floating-point constant has four bytes or eight.
- `CodesAssumption` (ByteCode): the blocks of a body are closed, the body at its end, and `else`
  stands in an `if`; an instruction has the operands of its opcode, numbers below 2^28 (what four
  groups of seven bits hold) and objects, which may be in no vector of the module.
- `FilesAssumption` (ByteCode): code of another tool has the fields in the order in which
  `encodeByteCode` writes them, each padded at will, and no instruction that `encodeByteCode`
  refuses or that does not survive.
- `FunctionsAssumption`, `NamesAssumption` (CallRewriting): a function is a sequence
  of instructions, of any kind and in any order, with one of the three maps; memcpy
  and memset are in one of them only.
- `ProgramsAssumption`, `CtorsAssumption` (DynamicLinking, RuntimeRelocs): a program's
  table, relocations and constructors name symbols of the program, and a name
  has a length.
- `SymbolsAssumption` (DynamicLinking): the table lists each symbol once (`TableAgrees` of
  SymbolMerge); no two segments have one name; a function symbol stands for a
  function of the module or is an import, and a data symbol has a place in a segment, is
  undefined, or is a start or an end of a section; a compiler gives
  a string a segment and a symbol of its own.
- `RelocsAssumption` (DynamicLinking): a compiler writes one relocation for each place it
  leaves open, so two of one place are equal, listed twice by `mergeWithModule` (`RelocsOnceButKnown`). A
  relocation may be in a function or a segment that is not there, as the run `code_relocs_placed`
  shows; one that is in the program patches an instruction that is no call, or a word of a segment
  that is no string.  An index of the table has no addend.
- `VectorAssumption` (DynamicLinking): the vector of functions has each function once, and every
  function that an instruction or a symbol names (`OneIndexEach` of ImportOrder,
  `OperandsBoundButKnown` of SymbolMerge); a `call_indirect` of the program is an instruction like others,
  which the linker leaves alone.
- `SectionsAssumption` (RuntimeRelocs): the sections are listed once all segments
  are in one; no segment is called `.init_array`, `.dynsym` or `.dynstr`, which the linker makes,
  and no relocation of the program is in one of these;
  no function is called `__wasm_ctor_dylib_tbl`, and a profile begins with its kind.

**SymbolMerge.**  `TypeCorrect` first, then `TableCorrect`: the two forms of the table
agree, which is inductive with typing alone because each action changes both or
neither; a shared lemma `TableStep` says how each action changes them.
`MergeImplementsResolution` follows: each step is `Mention` or `Define` of one name, or
a stutter (one undefined symbol giving way to another never happens, and locals are
invisible).  `UndefinedCorrect` needs `SeenIsBound`: a symbol already looked at has its
name bound, and to a definition if it is one.  `ImageCorrect` and
`NoInvalidStateCorrect` need `ImageInv`, which holds in the middle of a merge: the
vectors have the values of the table as it was before the call, a symbol that was
replaced is old and in them, a symbol that is new is in `newVals` or is the image of
a replaced one.  `OperandsCorrect` needs the four cases of `OperandInv`: operands of
objects not yet merged are untouched, operands of merged ones mean the binding
before the call, and `dstmap` takes that to the binding now.  `RelocsCorrect` has the
same shape, but re-targeting happens during the loop, so `RefInv` speaks of
symbols looked at and not yet looked at.  `CtorsCorrect` rests on `ImageInv`.  `RelocsOnceCorrect` needs `CountInv`: while the symbols of an object are looked at, each of
its relocations was pushed once for what it is in, if that took the place of an undefined symbol,
and once for what it refers to, if that did and is of the other kind; functions that did are not
among what is new, segments are.

**ArchiveLinking.**  `TablesMatchCorrect` says that an archive's linker is a
function of its loaded members; the others use it.  `WatchdogCorrect`: each
round adds to `tried` a name that was not in it, so `rounds` is at most the size of
`tried`, at most the number of names.  `OwnNamesCorrect`: a name in `tried` and not in `todo`
is defined in the linker or listed nowhere in the archive, and later phases load
nothing into archives already fixed up (`TriedInv`).  `FirstArchiveCorrect`: a name of
the objects that has been asked for has its first lister loaded (`FirstLoaded`), that
archive's linker then has a definition, no earlier archive can have one, and the merges
go in order (`FirstBound`).  That a name somebody defines has a lister needs a
greatest member number, obtained from the well-foundedness of the naturals rather
than from induction.  `LoadedCorrect`: whatever is undefined in a linker is mentioned by
the objects or a loaded member (`AskedInv`), so each load is a step inside any closed
set (`LoadedInv`).  `FirstDefinitionCorrect` and `NothingLostCorrect` are about
`MergeSymbol`, the only action that changes `table[0]`.

**SegmentLayout.**  `PackInv`: in each section the packed segments are disjoint, end before
`_packedSize`, are aligned, and precede those still waiting in their class.
`LayInv`: `off` is the end of the last section laid, each section starts where the one
before it ends once padded, at a multiple of its largest alignment.  The theorems
follow by arithmetic on sums of multiples (`MultipleDivides`, `SumDivides`,
`PadToAligns`): a segment is aligned because its alignment divides its section's.

**ImportOrder.**  Lemmas say what removing, appending and splicing do to a sequence
(`Removes`, `Inserts`), element by element, and that such a change keeps imports in
front (`InsertKeepsFront`, `RemoveKeepsFront`) and values distinct
(`InsertKeepsDistinct`, `RemoveKeepsDistinct`).  `ImportsFirst` alone is not inductive:
`PointInv` adds that up to the insertion point there are imports only, as long as
imports are still to come, and that in `functions` it lies inside the vector, so that a
function pushed in between cannot get in front of it.  For tables the second part
fails, and `InSourceOrder` of what is left takes its place.  `OneIndexEachCorrect` needs that
what is still to come is distinct and, except for functions, not in its vector
(`IndexInv`).

**Induction.**  The next four models compute with recursive functions over sequences.  The
library's induction theorems have operator parameters, which the provers cannot
instantiate, so `Induction` states the principle for sets instead: a set of
numbers that has 0 and, with each number below a bound, the next one, has all up to the
bound (`UpToInduction`), because a missing one would be least
(`NatLessThanWellFounded`).  `RecursionExists` and `RecursionUnique` give, from a step kept as
a function, the function that a recursive definition denotes.  The rest are facts
about sequences that keep the set of their elements out of the way (`IsSeq`).

**Leb128.**  `Left(k)` is what remains of a value after k groups, a quotient by a power of 2.
`LoopInvariant`: while measuring, `value` is `Left` of the
groups counted and none of the earlier ones ended the loop; while writing, there is one group
at which it ended, `predicted` is its number or the padding, and the bytes so far are the groups of
`Left` up to it.
`LengthPredictedCorrect` is its end, with the fact that a field that was measured
needs no more groups than its padding has.  `RoundTripCorrect` adds `ReadInv`: after `count` bytes the
reader holds the value modulo the groups read.  Its one hypothesis, `NumbersFit`, says that
unsigned Numbers are below 2^31: the writer shifts with `>>`, which takes larger ones for negative
numbers (`Wraps`); no index is that large, nor an address in the first 2 GiB.  The instance of the run
satisfies it.  `LengthPredictedCorrect` does not need it.  `BigAcceptedCorrect` is about bytes that
another tool wrote: `BigInv` says that the reader holds the sum of the groups read, and the
last group either completes it, with its sign, or is refused.

**ByteCode.**  `WrittenAsMeasuredCorrect` compares two switches of about a hundred arms.  `Takes` says
of the fields of an instruction how many bytes they are written in, and has a lemma for
each form of a field and one for two sequences of fields.  With these, one lemma for each group
of opcodes (`ControlTakes` to `AtomicTakes`) says that what the first switch counts is what the
fields of the second take, and `InstTakes` that what the first lets pass the second does
not refuse, but for a local.  The invariant `MeasuredInv` adds up: what is predicted is the total of
the lengths, and what has been written is the total up to the index.  Bodies with vector
instructions are excepted, as the fourth disagreement below is about them.

`DecodeRestoresCorrect` and `FilesDecodedCorrect` compare a third switch with the second, byte by byte.
`At(p, s)` says that the bytes of `s` are in the file from `p` on.  From below: a
number of up to seven groups is read as what it stands for, however it is padded (by
induction over the groups left); a field is read by the form that its opcode has for it
(`Restores`); the fields of an instruction lie behind one another, and each is read where the one
before it ended (`FieldsFound`, `Located`); a `br_table` has as many as its first field says, and is
an induction of its own (`TableLabels`).  With these, one lemma for each group of opcodes
(`ControlAgrees` to `AtomicAgrees`) pairs what is written with the format that is read, and
`FitReads` says it of any instruction: one that encode did not refuse and that survives
is read as itself, and the next one is looked for where it ends.

The invariant `Reading` names the pieces that each instruction is written in: those of encode, or
for code of another tool those that `FilesAssumption` gives it.  While writing, the pieces of the
first n are laid out.  While reading, all of them are, d instructions have been read and are
the first d of the body, `offset` is the total of their lengths, and the stack is the one that the
blocks of the body have after them (`Opened`), which is empty after the last one only: that
is why the reader stops where the body ends and not before.

`OperandsPlacedCorrect` adds `Placed`.  Only the last field of an instruction is ever padded
(`Ended`, with one lemma for each group of opcodes again), so its place is the end of the
instruction less `RELOC_PAD`, which is what encode notes and what decode notes from the other
side, from where the field began.  Two such operands are apart as each has an opcode before
it (`PlacesApart`).

**CallRewriting.**  `UsageInv`: the count of uses of a function that a map handles is the
number of its calls left in the body, plus one if the element section lists it,
and behind the index of the loop no such call is left.  It is needed because a handler
edits the vector the loop walks and counts by itself: each splice removes one call, the
one at hand, and what it puts in calls nothing that is counted.  So at the end a count of zero
means that nothing uses the function (`RemovedWhenUnusedCorrect`).  The handlers of
memcpy and memset do not count, and nothing is collected for them by that
count; for them the invariant says that the count is still that of the body as
it was.  The lemmas count calls in spliced sequences, and follow the pass that
moves the frame for `alloca`.  `AdvancesCorrect` takes for its measure the handled calls at or ahead of the
index, then the instructions ahead: a handler lowers the first, `Pass` the second.  It holds for every
body, well typed or not: what `traverseStack` finds is a place before the call or nothing.

**RuntimeRelocs.**  `OneAddressCorrect` needs `ElementsInv`: the vector of functions whose address is taken
has no function twice, and the element segments are none, one with that vector's
functions, or two that share nothing, depending on the phase; `PlaceOf` is then
the one place of a function, and moving methods out keeps it so.  The start function's place
is looked up once they have moved and nothing changes them afterwards.

`SizesPredictedCorrect`: the sizes come from one pass over relocations and names, the bytes from another.
Each entry must have a length for the sums to be sums of numbers, so the three
invariants follow relocations from the program to the file: they name symbols of
the table whatever imports were replaced or strings dropped (`LinkInv`), also when sorted by kind and
added to by the generators (`PartsInv`), and so do the groups written (`GroupsInv`).

`PlacesMeantCorrect` says that the whole way from a relocation of the program to the bytes keeps its
meaning.  Its inductive invariant `FixesInv` has a part for each thing on that way:

- `SymbolsInv`, `SegmentsInv`: a symbol stands for what it stood for, or for what a dylib
  answered; segments stay until strings are merged, and afterwards one of each class of
  equal strings is left, in the order in which they were.
- `RefsInv`: a relocation refers to what it did, to an equal string, or to the name that
  the runtime linker asks for; it keeps its place and its addend.
- `CodeInv`, `BodyInv`: two relocations of the code patch one instruction only if they are
  equal and of the program, which stays so while the loops change both at once; and no two
  instructions have one offset, also after the body has grown under the loop that walks it
  and relocations were added for what it grew by.  `DataInv`: the same for words, which are in a
  segment of the program, in one that was dropped (`Gone`), or in a section that the linker
  fills at the end.
- `SplitInv`: the relocations by kind are those of the program, each in the one
  list that fits it, and as often as it is listed if that is once (`Once`).  `TablesInv`, `TableInv`: the element segments that are copied, and the
  instructions and relocations of the constructor that copies them.
- `FileInv`: the groups written name each relocation they were made of, and nothing else.  `Says`
  is the common form: whatever the key of the groups, what they list is what was grouped.

At the end equal relocations are alone at their place, the file says what their reference
means then, as often as they are listed, and that is what it meant.  For the place to exist it is used
that nothing is written otherwise: a relocation without an offset or a section ends the encoder, so
that `FileInv` excludes them once there is a file.  `TableFilledCorrect` follows from the same invariant.
`InitArrayInOrderCorrect` needs `WordsInv` besides: the words of `.init_array` are in the data
relocations, each at its index, and nobody else writes to that section; that the order
chosen by counting predecessors is the order of priorities is `CtorOrder`.
`DynsymCompleteCorrect` needs `SymtableInv`: the table still has each symbol once, with its
segment if it has one, and `.dynsym` lists the visible ones as they are since then; that a
name begins in `.dynstr` behind the names before it is an induction over runs (`FlattenRuns`).
The first form of this property was false for a function of a dylib that the module
exports again, for which `.dynsym` has this module's table; the instance has that case now
(`msg`), and `SeenAs` names it.

Which symbols are visible depends on their names (`Skipped`); as symbols keep theirs and the
list is made by one filter over the table, the proof is about any filter.

`CallsKeptCorrect` follows the body while the linker rewrites it: the walk over the opcodes puts
two instructions in the place of a call to a function that dlsym finds, and goes on behind them.
`CallsInv` gives each instruction of the body as it is the names it calls; a call through
the table has the name that the relocation of the constant before it asks for, and that constant
has none, so the flattened names stay those of the program (`FlattenInsert`).  Three facts
keep it going: a function of the program is in the vector until its turn comes, and what a dylib
answered with is afterwards (`VectorInv`), so that no name is unknown where the walk
is (`ArgsInv`); and the relocations made for such calls stay what they are when strings
are merged and functions collected, as a runtime symbol is never internal (`RuntimeInv`).

`LinksCorrect` goes through the places where the code gives up.  A function that is to be replaced is in
the vector (`VectorInv`), and the vector has no function twice.  The export list has no name twice
unless the profile asks for one that is there already (`ExportsInv`): that is the first known cause.
Every relocation of the code has an instruction, also when a call became two or when
the relocation belongs to the constructor of the table, or had none in the program (`InstsInv`); and every word
has a segment or a section, or had none in the program (`DataInv`).  Those that had none are the second and the third
cause; and as no step gives them one, a program with such a relocation is never written
(`WrittenNotDropped`).  The encoder looks up the place of
every function that a relocation of the module names: it has one, because
the function was collected when its relocation was looked at (`GivenInv`), or is held by an
element segment when the linker adds a relocation for it (`HeldInv`), and neither partitioning nor
growing the segments loses one.  What is left is the first function of an empty segment: not
that of the methods (`MethodsInv`), so that of the table, which is the fourth cause.

Of the theorems, the type invariants (`TypeCorrect`, `LayoutTypeCorrect`,
`ArchiveTypeCorrect`, `ImportTypeCorrect`) and `NoInvalidStateCorrect`, `CopyFitsCorrect`,
`WatchdogCorrect`, `TablesMatchCorrect`, `NothingLostCorrect`, `LoopInvariant` and `UsageInvariant` are about
properties that no run checks: they are proved for every instance, and the runs are kept to
properties that say something of their own.

Left to TLC:

- the liveness properties (`EventuallyLinked`, `EverythingLaid`), which need fairness and
  ENABLED, and the four runs that end in a violation;
- `MeaningKeptButKnown`, `FindsProducer` and `ValidButKnown` of CallRewriting: they say that two
  long evaluations agree, of a function before and after it is rewritten, and only for
  bodies that are valid WebAssembly and that the evaluator knows, which `MCCallRewriting` enumerates and
  no assumption states.

## Disagreements with the repository's own words

1. A strong definition does not override a weak one (`strong_overrides_weak`): the
   branch that keeps the old symbol says *if both symbols are weak*, and
   `replacesOldSymbol`, which states the usual rule, is never called.
2. Relocations are selected by what they point at, so those of functions that were
   dropped come along (`code_relocs_placed`), and so do those of dropped segments
   (`bclinker.js:655`); the encoder throws on them.
3. Archives do not resolve all they could against each other
   (`archives_resolve_each_other`): the pass between archives runs once, before
   `_fixupARLinking` loads more.
4. The predicted length of code with vector loads is not the length written
   (`length_is_real`): `case 0xFD` has no `break`, and the number is looked up once more
   among the atomic instructions; `WebAssembly.js:1738` reports the difference.

## Not modelled, and why

The parsers and encoders of sections, names, producers and target features are conversions
without state between calls.  The collection of types (`garbageCollectType`) follows
references that the models do not have, as they tell functions apart by name.
The memory vector, `__start_` and `__stop_` names in archives and whole archives are
out (the last is a stub in the code).  The runner of workflows is a loop over actions, each of
which is a step of the tool's own; only those that rewrite instructions are modelled.  `SOLinker` is
never constructed.  The printing of instructions and the web application are user
interface.  `dist/` and `build/` are generated.

## Plan

Done: `SymbolMerge` with `SymbolResolution`, `SegmentLayout`, `ArchiveLinking`, `ImportOrder`,
`Leb128`, `ByteCode`, `DynamicLinking` and `RuntimeRelocs`, model-checked, and every safety property that a
passing run checks proved; `InstTable`, `BuiltinCalls` and `CallRewriting`, model-checked and proved in
part.  Next:

1. `LinkerMerge`: `mergeWithLinker` in full, on two linkers that SymbolMerge filled:
   operands, relocations, segments, constructors, aliases, memories; with the
   duplicate-segment check of `validate.js`.
2. The composition of `ArchiveLinking` with `SymbolMerge`: `Load` as a whole merge, and the
   refinement of `SymbolResolution` by the two together.
3. `TypeCollection`: canonical types over merged modules, and what may be dropped.
4. More theorems: that a rewritten call means what it meant, for bodies that a typing assumption calls valid.
5. The runner of `core-flow.js`, which logs a rejected promise and goes on.
