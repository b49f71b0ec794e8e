---------------------------- MODULE SymbolMerge ----------------------------
(***************************************************************************)
(* ByteCodeLinker.mergeWithModule: the object files of the command line    *)
(* are merged one after the other into the linker's symbol table and its   *)
(* functions, data segments, globals and relocations.                      *)
(*                                                                         *)
(* An object file gives every name a status.  Its symbol for the name, and *)
(* the function, import or data segment that is the symbol's value, are    *)
(* both <<object, name>>: one symbol for one value.  An undefined function *)
(* is an ImportedFunction; an undefined data symbol has no value.  Tables  *)
(* are left out: mergeWithModule looks at them twice, as symbols and in a  *)
(* loop over the object's tables.                                          *)
(*                                                                         *)
(* A use of a name in a body is an instruction operand (call, ref.func,    *)
(* global.get) that points at the value, or a relocation that points at    *)
(* the symbol; merging re-targets both.  The sites are numbered by         *)
(* <<object, holder, name>>, where the holder is the function or segment   *)
(* the use is in.                                                          *)
(***************************************************************************)
EXTENDS Integers, FiniteSets

CONSTANTS
    FuncNames,     \* names of function symbols (kind 0)
    DataNames,     \* names of data symbols (kind 1)
    ImportNames,   \* names of globals and tags (kinds 2, 4): module.name of imported ones
    NumObjects,    \* how many object files are linked
    Statuses,      \* what an object file may say of a name
    Operands,      \* function -> names its instructions have as operand
    Relocs,        \* function or data -> names it has a relocation for
    CtorNames,     \* functions listed in WASM_INIT_FUNCS where they are defined
    None,          \* no symbol
    Undefined      \* any undefined symbol, in the abstract symbol table

Holders == FuncNames \cup DataNames
Names == Holders \cup ImportNames
Objects == 1..NumObjects
Ids == Objects \X Names

ASSUME MergeAssumption ==
    /\ FuncNames \cap DataNames = {}
    /\ Holders \cap ImportNames = {}
    /\ NumObjects \in Nat
    /\ Statuses \subseteq {"absent", "undef", "weak", "strong", "local"}
    /\ Operands \in [FuncNames -> SUBSET (FuncNames \cup ImportNames)]
    /\ Relocs \in [Holders -> SUBSET Holders]
    /\ CtorNames \subseteq FuncNames
    /\ None \notin Ids /\ Undefined \notin Ids /\ None # Undefined

OperandSites == {c \in Objects \X FuncNames \X Names : c[3] \in Operands[c[2]]}
RelocSites == {r \in Objects \X Holders \X Names : r[3] \in Relocs[r[2]]}

Holder(site) == <<site[1], site[2]>>
Target(site) == <<site[1], site[3]>>

VARIABLES
    status,    \* object -> name -> status (input)
    merged,    \* how many objects mergeWithModule was called for
    busy,      \* the call for object number "merged" has not returned
    todo,      \* names whose symbol in src_symtable is still to be looked at
    table,     \* _symtable
    bound,     \* _funcsym, _datasym, _globsym: name -> its symbol
    values,    \* functions, dataSegments and globals of the linker
    callee,    \* operand site -> the value it points at
    ref,       \* relocation -> the symbol it points at (reloc.ref)
    relocs,    \* relocation -> how often _code_relocs or _data_relocs has it
    ctors,     \* _ctors
    newVals,   \* new_func, new_data, new_globals of the call
    srcmap,    \* src_funcmap, src_globmap of the call; the identity where unset
    dstmap     \* dst_funcmap of the call; the identity where unset

result == <<table, bound, values, callee, ref, relocs, ctors>>
scratch == <<newVals, srcmap, dstmap>>
vars == <<status, merged, busy, todo, result, scratch>>

Defined(id) == status[id[1]][id[2]] \in {"weak", "strong", "local"}
Local(id) == status[id[1]][id[2]] = "local"
Undef(id) == status[id[1]][id[2]] = "undef"
HasValue(id) == Defined(id) \/ (Undef(id) /\ id[2] \notin DataNames)

\* A compiler emits a symbol for whatever a definition of the object uses.  A
\* global or a tag is imported or local to the object (the code throws otherwise).
WellFormed(file) ==
    /\ \A n \in ImportNames : file[n] \in {"absent", "undef", "local"}
    /\ \A h \in Holders : file[h] \in {"weak", "strong", "local"} =>
          /\ \A n \in Relocs[h] : file[n] # "absent"
          /\ h \in FuncNames => \A n \in Operands[h] : file[n] # "absent"

ObjectFiles == {file \in [Names -> Statuses] : WellFormed(file)}

NoMap == [id \in Ids |-> id]

Init ==
    /\ status \in [Objects -> ObjectFiles]
    /\ merged = 0
    /\ busy = FALSE
    /\ todo = {}
    /\ table = {}
    /\ bound = [n \in Names |-> None]
    /\ values = {}
    /\ callee = [c \in OperandSites |-> Target(c)]
    /\ ref = [r \in RelocSites |-> Target(r)]
    /\ relocs = [r \in RelocSites |-> 0]
    /\ ctors = {}
    /\ newVals = {}
    /\ srcmap = NoMap
    /\ dstmap = NoMap

-----------------------------------------------------------------------------
(* mergeWithModule *)

\* The relocations of the object being merged: one per use in a definition.
SourceRelocs == {r \in RelocSites : r[1] = merged /\ Defined(Holder(r))}
CodeReloc(r) == r[2] \in FuncNames
DataReloc(r) == r[2] \in DataNames

\* The linker's relocations, each as often as it was pushed.
Held(r) == relocs[r] > 0
Pushing(rs) == [r \in RelocSites |-> IF r \in rs THEN relocs[r] + 1 ELSE relocs[r]]

BeginMerge ==
    /\ ~busy
    /\ merged < NumObjects
    /\ busy' = TRUE
    /\ merged' = merged + 1
    /\ todo' = {n \in Names : status[merged + 1][n] # "absent"}
    /\ newVals' = {}
    /\ srcmap' = NoMap
    /\ dstmap' = NoMap
    /\ UNCHANGED <<status, result>>

Sym(n) == <<merged, n>>

NewValue(n) == IF HasValue(Sym(n)) THEN {Sym(n)} ELSE {}

\* The symbol of n is the next one of src_symtable; the table may be in any order.
Take(n) ==
    /\ busy
    /\ n \in todo
    /\ todo' = todo \ {n}
    /\ UNCHANGED <<status, merged, busy, values, callee, ctors>>

\* "just merge local symbols": a local symbol is kept beside any of its name.  The
\* value of a local global or tag is left behind.
MergeLocal(n) ==
    /\ Take(n)
    /\ Local(Sym(n))
    /\ table' = table \cup {Sym(n)}
    /\ newVals' = IF n \in Holders THEN newVals \cup NewValue(n) ELSE newVals
    /\ UNCHANGED <<bound, ref, relocs, srcmap, dstmap>>

\* The name is new to the linker.
AddSymbol(n) ==
    /\ Take(n)
    /\ ~Local(Sym(n))
    /\ bound[n] = None
    /\ table' = table \cup {Sym(n)}
    /\ bound' = [bound EXCEPT ![n] = Sym(n)]
    /\ newVals' = newVals \cup NewValue(n)
    /\ UNCHANGED <<ref, relocs, srcmap, dstmap>>

\* Mutants: an undefined symbol is never replaced; the last definition wins.
ReplacesNever(n) == FALSE
ReplacesAlways(n) == ~Local(Sym(n)) /\ bound[n] # None /\ Defined(Sym(n))

Replaces(n) ==
    /\ ~Local(Sym(n))
    /\ bound[n] # None
    /\ Undef(bound[n])
    /\ Defined(Sym(n))

\* Mutant: the new symbol is pushed instead of stored at the old one's index.
SupersedeByPush(n) ==
    /\ table' = table \cup {Sym(n)}
    /\ bound' = [bound EXCEPT ![n] = Sym(n)]
    /\ ref' = [r \in RelocSites |->
                 IF Held(r) /\ ref[r] = bound[n] THEN Sym(n) ELSE ref[r]]

\* Common to functions and data: the definition takes the place of the undefined
\* symbol in the symbol table and in the linker's relocations.
Supersede(n) ==
    /\ table' = (table \ {bound[n]}) \cup {Sym(n)}
    /\ bound' = [bound EXCEPT ![n] = Sym(n)]
    /\ ref' = [r \in RelocSites |->
                 IF Held(r) /\ ref[r] = bound[n] THEN Sym(n) ELSE ref[r]]

\* mergeWithRelocForFunc: the relocations in the function, and the ones in the
\* object's data that point at it.
RelocsForFunc(n) ==
    {r \in SourceRelocs : \/ CodeReloc(r) /\ Holder(r) = Sym(n)
                          \/ DataReloc(r) /\ ref[r] = Sym(n)}

ReplaceFunction(n) ==
    /\ Take(n)
    /\ n \in FuncNames
    /\ Replaces(n)
    /\ Supersede(n)
    /\ dstmap' = [dstmap EXCEPT ![bound[n]] = Sym(n)]
    /\ relocs' = Pushing(RelocsForFunc(n))
    /\ UNCHANGED <<newVals, srcmap>>

\* mergeWithRelocForData: the relocations in the segment, and the ones in the
\* object's code that point at it.
RelocsForData(n) ==
    {r \in SourceRelocs : \/ DataReloc(r) /\ Holder(r) = Sym(n)
                          \/ CodeReloc(r) /\ ref[r] = Sym(n)}

ReplaceData(n) ==
    /\ Take(n)
    /\ n \in DataNames
    /\ Replaces(n)
    /\ Supersede(n)
    /\ newVals' = newVals \cup NewValue(n)
    /\ relocs' = Pushing(RelocsForData(n))
    /\ UNCHANGED <<srcmap, dstmap>>

\* Mutant: the object's relocations keep the dropped symbol.
RefsAfterKeepingUnchanged(n) == ref

\* "keep the one in self": the object's operands and relocations move over to it.
RefsAfterKeeping(n) ==
    [r \in RelocSites |->
        IF r \in SourceRelocs /\ ref[r] = Sym(n) THEN bound[n] ELSE ref[r]]

KeepSymbol(n) ==
    /\ Take(n)
    /\ ~Local(Sym(n))
    /\ bound[n] # None
    /\ ~Replaces(n)
    /\ srcmap' = [srcmap EXCEPT ![Sym(n)] = bound[n]]
    /\ ref' = RefsAfterKeeping(n)
    /\ UNCHANGED <<table, bound, relocs, newVals, dstmap>>

Replaced == {id \in Ids : dstmap[id] # id}

\* Mutant: the linker's own functions are not searched.
RetargetSourceOnly(c) == IF c[1] = merged THEN srcmap[callee[c]] ELSE callee[c]

\* The operands of the object's functions follow src_funcmap and src_globmap, the
\* ones of the linker's functions dst_funcmap.
Retarget(c) ==
    IF c[1] = merged THEN srcmap[callee[c]]
    ELSE IF Holder(c) \in values THEN dstmap[callee[c]]
    ELSE callee[c]

\* Mutant: the replaced import is not spliced out.
ValuesAfterNoSplice == values \cup {dstmap[id] : id \in Replaced} \cup newVals

\* Definitions take the place of the imports they replace; what is new comes in.
ValuesAfter == (values \ Replaced) \cup {dstmap[id] : id \in Replaced} \cup newVals

\* Mutant: dst_symtable.indexOf(ctor.symbol) is not tested.
NewCtorsAll == {Sym(n) : n \in {m \in CtorNames : Defined(Sym(m))}}

\* A constructor of the object comes in if its symbol did.
NewCtors == {Sym(n) : n \in {m \in CtorNames : Defined(Sym(m)) /\ Sym(m) \in table}}

\* Mutant: no relocation is looked for before it is pushed.
RelocsOfNewAlways == {r \in SourceRelocs : Holder(r) \in newVals}

\* The relocations in what is new.  Only the ones in data are looked for among
\* the linker's before they are pushed.
RelocsOfNew == {r \in SourceRelocs : Holder(r) \in newVals /\ (DataReloc(r) => ~Held(r))}

\* The code throws INVALID_STATE when a replaced import is not in functions.
FinishMerge ==
    /\ busy
    /\ todo = {}
    /\ Replaced \subseteq values
    /\ callee' = [c \in OperandSites |-> Retarget(c)]
    /\ values' = ValuesAfter
    /\ relocs' = Pushing(RelocsOfNew)
    /\ ctors' = ctors \cup NewCtors
    /\ busy' = FALSE
    /\ UNCHANGED <<status, merged, todo, table, bound, ref, scratch>>

MergeSymbol ==
    \E n \in Names :
        \/ MergeLocal(n)
        \/ AddSymbol(n)
        \/ ReplaceFunction(n)
        \/ ReplaceData(n)
        \/ KeepSymbol(n)

\* Every object of the command line is merged.
Linked ==
    /\ ~busy
    /\ merged = NumObjects
    /\ UNCHANGED vars

Next == BeginMerge \/ MergeSymbol \/ FinishMerge \/ Linked

Spec == Init /\ [][Next]_vars

-----------------------------------------------------------------------------
(* Properties *)

Idle == ~busy
InImage(site) == Holder(site) \in values /\ Defined(Holder(site))

\* What a use of name n in object o means once o is merged.
Meaning(o, n) == IF status[o][n] = "local" THEN <<o, n>> ELSE bound[n]

TypeOK ==
    /\ status \in [Objects -> ObjectFiles]
    /\ merged \in 0..NumObjects
    /\ busy \in BOOLEAN
    /\ busy => merged > 0
    /\ todo \subseteq Names
    /\ table \subseteq Ids
    /\ bound \in [Names -> Ids \cup {None}]
    /\ values \subseteq Ids
    /\ callee \in [OperandSites -> Ids]
    /\ ref \in [RelocSites -> Ids]
    /\ relocs \in [RelocSites -> Nat]
    /\ ctors \subseteq Ids
    /\ newVals \subseteq Ids
    /\ srcmap \in [Ids -> Ids]
    /\ dstmap \in [Ids -> Ids]

\* The two views of the symbol table never part, not even between two symbols of
\* one merge: a name is bound to the only global symbol of that name in
\* _symtable (ReferenceError "symbol not in table" is never thrown).
TableAgrees ==
    /\ \A n \in Names : bound[n] # None =>
          bound[n] \in table /\ bound[n][2] = n /\ ~Local(bound[n])
    /\ \A id \in table : ~Local(id) => bound[id[2]] = id

\* A name is left undefined only while no object merged so far defines it.
UndefinedIsUnresolved ==
    Idle => \A n \in Names : bound[n] # None /\ Undef(bound[n]) =>
        \A o \in 1..merged : Defined(<<o, n>>) => Local(<<o, n>>)

\* The import that dst_funcmap replaces is still among the linker's functions:
\* the INVALID_STATE throws of mergeWithModule are unreachable.
NoInvalidState == busy /\ todo = {} => Replaced \subseteq values

\* A local global or tag: in the symbol table without its value.
LeftBehind(id) == Local(id) /\ id[2] \in ImportNames

\* Between two merges the linker holds exactly the values of its symbols: no
\* import outlives its definition, no dropped definition slips in, and nothing is
\* missing but local globals and tags.
ImageIsTableButKnown == Idle => values = {id \in table : HasValue(id) /\ ~LeftBehind(id)}

\* Every operand of a function of the image points at the value its name means
\* now, in whichever order the objects that use and define the name were merged;
\* and that value is in the image, but for a local global or tag.
OperandsBoundButKnown ==
    Idle => \A c \in OperandSites : InImage(c) =>
        /\ callee[c] = Meaning(c[1], c[3])
        /\ callee[c] \in values \/ LeftBehind(callee[c])

\* Every relocation of the linker points at a symbol of the symbol table, the one
\* its name means now.
RelocsBound ==
    Idle => \A r \in RelocSites : Held(r) =>
        ref[r] = Meaning(r[1], r[3]) /\ ref[r] \in table

\* The definition was merged in place of a symbol that was undefined until then.
TookPlace(id) == Defined(id) /\ bound[id[2]] = id /\ \E o \in 1..id[1] - 1 : Undef(<<o, id[2]>>)

\* A relocation that came with what it refers to, and again with the function or
\* segment it is in: a use in the code of data that took the place of an undefined
\* symbol, or a use of such a function in data that took the place of one.
CameTwice(r) ==
    /\ TookPlace(Target(r))
    /\ IF CodeReloc(r) THEN r[3] \in DataNames
       ELSE r[3] \in FuncNames /\ TookPlace(Holder(r))

\* A relocation of the image is never lost and is in the linker's list once,
\* whatever brought its function or segment, but for one that came with what it is
\* in and with what it refers to.
RelocsOnceButKnown ==
    Idle => \A r \in RelocSites : InImage(r) =>
        relocs[r] = IF CameTwice(r) THEN 2 ELSE 1

\* A constructor is run exactly when its function is in the image.
CtorsExact ==
    Idle => ctors = {id \in values : id[2] \in CtorNames /\ Defined(id)}

\* The abstract symbol table is the linker's, with the undefined symbols of a
\* name made one.
Resolution == INSTANCE SymbolResolution WITH
    Definers <- Ids,
    Unbound <- None,
    binding <- [n \in Names |->
        IF bound[n] # None /\ Undef(bound[n]) THEN Undefined ELSE bound[n]]

\* Merging resolves names the way SymbolResolution promises.
ImplementsResolution == Resolution!Spec

-----------------------------------------------------------------------------
(* What comments and assertions of the code expect, and the code does not do *)

\* "if both symbols are weak, keep the one in self", and replacesOldSymbol: a
\* strong definition takes the place of a weak one.
StrongOverridesWeak ==
    Idle => \A n \in Names : bound[n] # None /\ status[bound[n][1]][n] = "weak" =>
        \A o \in 1..merged : status[o][n] # "strong"

\* The encoder throws INVALID_DST_OFF for a code relocation whose instruction was
\* not written: its function must be in the image.
CodeRelocsPlaced == Idle => \A r \in RelocSites : Held(r) /\ CodeReloc(r) => InImage(r)
=============================================================================
