----------------------------- MODULE ImportOrder -----------------------------
(***************************************************************************)
(* The vectors a module is written from: functions, globals, tags and      *)
(* tables.  An index of WebAssembly is a place in such a vector, and all   *)
(* imports must come before all definitions.  mergeWithModule and          *)
(* mergeWithLinker splice imports in at an insertion point (impidx) that   *)
(* they find once for each vector and advance themselves; performLinking   *)
(* adds, replaces and removes functions with splices of its own.           *)
(*                                                                         *)
(* A value is an import or a definition.  Which names they have, and so    *)
(* what replaces what, is SymbolMerge's concern: here a call brings any    *)
(* values that the symbol loop could have chosen.  Its definitions are     *)
(* named apart from those of SymbolMerge (OrderInit, OrderNext), as the    *)
(* proofs extend both.                                                     *)
(***************************************************************************)
EXTENDS Integers, Sequences, SequencesExt

CONSTANTS
    Imports,        \* ImportedFunction, ImportedGlobal, ImportedTag, ImportedTable
    Definitions,    \* WasmFunction, WasmTable
    ValuesOf,       \* space -> the values that are meant for it
    MaxNew          \* bound: new values of a vector in one call

\* The order in which a call goes through the vectors.
Vectors == <<"functions", "globals", "tags", "tables">>
Spaces == {"functions", "globals", "tags", "tables"}

\* Globals and tags are only ever imported (the code throws otherwise).
ASSUME ImportAssumption ==
    /\ Imports \cap Definitions = {}
    /\ ValuesOf \in [Spaces -> SUBSET (Imports \cup Definitions)]
    /\ ValuesOf["globals"] \cup ValuesOf["tags"] \subseteq Imports
    /\ MaxNew \in Nat

ImportsOf(s) == ValuesOf[s] \cap Imports
DefinitionsOf(s) == ValuesOf[s] \cap Definitions

VARIABLES
    vec,       \* space -> the vector
    stage,     \* objects are merged, then archives, then performLinking goes on
    call,      \* the merge that runs: mergeWithModule, mergeWithLinker or none
    place,     \* its place in Vectors, 0 while it replaces functions
    replaced,  \* entries <<old, new>> of dst_funcmap still to be looked at
    new,       \* space -> what is left of new_func, new_globals, ...
    impidx     \* the insertion point: a JavaScript index, from 0

idle == <<call, place, replaced, new, impidx>>
orderVars == <<vec, stage, idle>>

OrderInit ==
    /\ vec = [s \in Spaces |-> <<>>]
    /\ stage = "objects"
    /\ call = "none"
    /\ place = 0
    /\ replaced = {}
    /\ new = [s \in Spaces |-> <<>>]
    /\ impidx = -1

In(v, s) == v \in ToSet(vec[s])

-----------------------------------------------------------------------------
(* What the symbol loop may have chosen *)

Distinct(q) == \A i, j \in DOMAIN q : q[i] = q[j] => i = j
Lists(S) == {q \in BoundedSeq(S, MaxNew) : Distinct(q)}

NewFor(s) == Lists({v \in ValuesOf[s] : ~In(v, s)})

\* Functions come in the order of the symbols.  Tables come from symbols, which
\* are imports, and then from the tables of the source in their order.
InSourceOrder(q) ==
    \A i, j \in DOMAIN q : i < j /\ q[j] \in Imports => q[i] \in Imports

\* dst_funcmap: imports of the linker and the definitions they give way to.  One
\* definition may replace two imports, and may have another, new name as well.
Replacements ==
    UNION {{{<<i, f[i]>> : i \in I} :
              f \in [I -> {d \in DefinitionsOf("functions") : ~In(d, "functions")}]} :
           I \in SUBSET {i \in Imports : In(i, "functions")}}

\* mergeWithModule is called for objects, then mergeWithLinker for archives.
BeginCall(c) ==
    /\ call = "none"
    /\ \/ c = "module" /\ stage = "objects" /\ stage' = stage
       \/ c = "linker" /\ stage \in {"objects", "archives"} /\ stage' = "archives"
    /\ call' = c
    /\ place' = 0
    /\ replaced' \in Replacements
    /\ \E f \in NewFor("functions"), g \in NewFor("globals"),
          a \in NewFor("tags"), t \in NewFor("tables") :
         /\ InSourceOrder(t)
         /\ new' = [s \in Spaces |->
                     CASE s = "functions" -> f [] s = "globals" -> g
                       [] s = "tags" -> a [] s = "tables" -> t]
    /\ UNCHANGED <<vec, impidx>>

-----------------------------------------------------------------------------
(* mergeWithModule and mergeWithLinker *)

\* p is s.indexOf(v), counted from 1.
IndexOf(s, v, p) ==
    /\ p \in DOMAIN s
    /\ s[p] = v
    /\ \A k \in 1..p-1 : s[k] # v

\* Mutant: what came in under another name is pushed again.
ReplaceByPush(old, def) ==
    /\ call # "none"
    /\ <<old, def>> \in replaced
    /\ replaced' = replaced \ {<<old, def>>}
    /\ \E p \in DOMAIN vec["functions"] :
         /\ IndexOf(vec["functions"], old, p)
         /\ vec' = [vec EXCEPT !["functions"] = Append(RemoveAt(@, p), def)]
    /\ UNCHANGED <<stage, call, place, new, impidx>>

\* An entry of dst_funcmap: the import goes, its definition comes last.  The code
\* throws INVALID_STATE when the import is not there.
Replace(old, def) ==
    /\ call # "none"
    /\ <<old, def>> \in replaced
    /\ replaced' = replaced \ {<<old, def>>}
    /\ \E p \in DOMAIN vec["functions"] :
         /\ IndexOf(vec["functions"], old, p)
         /\ vec' = [vec EXCEPT !["functions"] =
                      IF In(def, "functions") THEN RemoveAt(@, p)
                      ELSE Append(RemoveAt(@, p), def)]
    /\ UNCHANGED <<stage, call, place, new, impidx>>

\* impidx = i - 1 for the first definition at i; start when there is none.
InsertionPoint(s, start, i) ==
    \/ /\ \A p \in DOMAIN s : s[p] \in Imports
       /\ i = start
    \/ \E p \in DOMAIN s :
          /\ s[p] \in Definitions
          /\ \A k \in 1..p-1 : s[k] \in Imports
          /\ i = p - 2

\* mergeWithLinker leaves impidx as it is before tags and tables: there it may lie
\* behind the end of the vector.
Start(p) == IF call = "linker" /\ p > 2 THEN impidx ELSE -1

\* The next vector's turn.
NextVector ==
    /\ call # "none"
    /\ replaced = {}
    /\ place < Len(Vectors)
    /\ place > 0 => new[Vectors[place]] = <<>>
    /\ place' = place + 1
    /\ InsertionPoint(vec[Vectors[place + 1]], Start(place + 1), impidx')
    /\ UNCHANGED <<vec, stage, call, replaced, new>>

\* splice(i, 0, v): behind the end it appends.
SpliceIn(s, i, v) == IF i >= Len(s) THEN Append(s, v) ELSE InsertAt(s, i + 1, v)

\* Mutant: without an insertion point an import is pushed.
WithImportPushed(s, i, v) == IF i = -1 THEN Append(s, v) ELSE SpliceIn(s, i, v)

\* unshift, or splice at the insertion point
WithImport(s, i, v) == IF i = -1 THEN <<v>> \o s ELSE SpliceIn(s, i, v)

\* One new value of the vector: only functions are looked up before.
Insert ==
    /\ call # "none"
    /\ place > 0
    /\ new[Vectors[place]] # <<>>
    /\ LET s == Vectors[place]
           v == Head(new[s])
       IN  /\ new' = [new EXCEPT ![s] = Tail(@)]
           /\ \/ s = "functions" /\ In(v, s) /\ UNCHANGED <<vec, impidx>>
              \/ /\ ~(s = "functions" /\ In(v, s))
                 /\ v \in Imports
                 /\ vec' = [vec EXCEPT ![s] = WithImport(@, impidx, v)]
                 /\ impidx' = impidx + 1
              \/ /\ ~(s = "functions" /\ In(v, s))
                 /\ v \in Definitions
                 /\ vec' = [vec EXCEPT ![s] = Append(@, v)]
                 /\ UNCHANGED impidx
    /\ UNCHANGED <<stage, call, place, replaced>>

EndCall ==
    /\ call # "none"
    /\ place = Len(Vectors)
    /\ new[Vectors[place]] = <<>>
    /\ call' = "none"
    /\ place' = 0
    /\ impidx' = -1
    /\ UNCHANGED <<vec, stage, replaced, new>>

-----------------------------------------------------------------------------
(* performLinking *)

\* After the archives nothing is merged any more.
Late(s, q) ==
    /\ call = "none"
    /\ stage' = "linking"
    /\ vec' = [vec EXCEPT ![s] = q]
    /\ UNCHANGED idle

\* appendImport of the module, for what the generated functions need: its search
\* for the first definition looks at no value, so the import always comes first.
AppendImport(s, imp) ==
    /\ ~In(imp, s)
    /\ Late(s, <<imp>> \o vec[s])

\* Generated functions are pushed: the dlfcn wrappers, init functions.
PushFunction(def) ==
    /\ ~In(def, "functions")
    /\ Late("functions", Append(vec["functions"], def))

\* A generated function takes the place of the one it replaces, and a table-based
\* symbol that of an import: the old function goes.
RemoveFunction(old) ==
    \E p \in DOMAIN vec["functions"] :
        /\ IndexOf(vec["functions"], old, p)
        /\ Late("functions", RemoveAt(vec["functions"], p))

\* A library resolves an import: two names of one function share an import.
ImportFromLibrary(old, imp) ==
    /\ old # imp
    /\ \E p \in DOMAIN vec["functions"] :
         /\ IndexOf(vec["functions"], old, p)
         /\ Late("functions", IF In(imp, "functions") THEN RemoveAt(vec["functions"], p)
                              ELSE ReplaceAt(vec["functions"], p, imp))

\* __indirect_function_table, when there is no table
PushTable(imp) ==
    /\ vec["tables"] = <<>>
    /\ Late("tables", <<imp>>)

Merge ==
    \/ \E c \in {"module", "linker"} : BeginCall(c)
    \/ \E old \in ImportsOf("functions"), def \in DefinitionsOf("functions") :
          Replace(old, def)
    \/ NextVector
    \/ Insert
    \/ EndCall

Link ==
    \/ \E s \in {"functions", "globals"} : \E imp \in ImportsOf(s) : AppendImport(s, imp)
    \/ \E def \in DefinitionsOf("functions") : PushFunction(def)
    \/ \E old \in ValuesOf["functions"] : RemoveFunction(old)
    \/ \E old, imp \in ImportsOf("functions") : ImportFromLibrary(old, imp)
    \/ \E imp \in ImportsOf("tables") : PushTable(imp)

OrderNext == Merge \/ Link

OrderSpec == OrderInit /\ [][OrderNext]_orderVars

-----------------------------------------------------------------------------
(* Properties *)

OrderTypeOK ==
    /\ DOMAIN vec = Spaces
    /\ \A s \in Spaces : vec[s] \in Seq(ValuesOf[s])
    /\ stage \in {"objects", "archives", "linking"}
    /\ call \in {"none", "module", "linker"}
    /\ place \in 0..Len(Vectors)
    /\ replaced \subseteq ImportsOf("functions") \X DefinitionsOf("functions")
    /\ DOMAIN new = Spaces
    /\ \A s \in Spaces : new[s] \in Seq(ValuesOf[s])
    /\ impidx \in Int
    /\ impidx >= -1

\* In every vector all imports come before all definitions, after every splice of
\* a merge and of performLinking: the order the sections of a module are written
\* in gives each value the index that instructions are encoded with.
ImportsFirst ==
    \A s \in Spaces : \A i, j \in DOMAIN vec[s] :
        vec[s][i] \in Definitions /\ vec[s][j] \in Imports => j < i

\* No value has two indices, even when one definition replaces several imports
\* and is new under another name, or one import serves several names.
OneIndexEach == \A s \in Spaces : Distinct(vec[s])
=============================================================================
