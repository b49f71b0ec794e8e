---------------------------- MODULE Merging_proofs ----------------------------
(***************************************************************************)
(* Proofs about the models of what is merged: SymbolMerge, for any number  *)
(* of objects, names and uses; ImportOrder, for any imports, definitions   *)
(* and bound; and SegmentLayout, for any number of segments and sections   *)
(* and any sizes.                                                          *)
(*                                                                         *)
(* The memory image is well typed, disjoint, tiled by its sections,        *)
(* aligned and in link order by two invariants: PackInv says how far the   *)
(* packing of a section has come, LayInv how the sections laid so far      *)
(* adjoin.                                                                 *)
(***************************************************************************)
EXTENDS SymbolMerge, ImportOrder, SegmentLayout, SequenceTheorems, TLAPS

-----------------------------------------------------------------------------
(* SymbolMerge *)

\* The symbol and the value of a name of the object being merged.
LEMMA SymInIds ==
    ASSUME TypeOK, busy, NEW n \in Names
    PROVE  /\ Sym(n) \in Ids
           /\ Sym(n)[1] = merged
           /\ Sym(n)[2] = n
           /\ NewValue(n) \subseteq Ids
  BY MergeAssumption DEF TypeOK, Sym, Ids, Objects, NewValue

\* What is pushed is held.
HeldRelocs == {r \in RelocSites : Held(r)}

LEMMA PushHolds ==
    ASSUME TypeOK, NEW rs, relocs' = Pushing(rs)
    PROVE  /\ relocs' \in [RelocSites -> Nat]
           /\ HeldRelocs' = HeldRelocs \cup {r \in RelocSites : r \in rs}
<1>1. relocs \in [RelocSites -> Nat]
  BY DEF TypeOK
<1>2. \A r \in RelocSites : relocs'[r] = IF r \in rs THEN relocs[r] + 1 ELSE relocs[r]
  BY DEF Pushing
<1>3. \A r \in RelocSites : relocs'[r] \in Nat /\ (relocs'[r] > 0 <=> relocs[r] > 0 \/ r \in rs)
  BY <1>1, <1>2
<1> QED
  BY <1>3 DEF HeldRelocs, Held, Pushing

\* The state is well typed whatever is merged (TypeOK).
THEOREM TypeCorrect == Spec => []TypeOK
<1>1. Init => TypeOK
  <2>1. \A c \in OperandSites : Target(c) \in Ids
    BY DEF OperandSites, Target, Ids
  <2>2. \A r \in RelocSites : Target(r) \in Ids
    BY DEF RelocSites, Target, Ids
  <2>3. NoMap \in [Ids -> Ids] /\ (Init => relocs \in [RelocSites -> Nat])
    BY DEF NoMap, Init
  <2>4. Init => callee \in [OperandSites -> Ids] /\ ref \in [RelocSites -> Ids]
    BY <2>1, <2>2 DEF Init
  <2>5. Init => bound \in [Names -> Ids \cup {None}]
    BY DEF Init
  <2>6. Init => merged \in 0..NumObjects /\ busy = FALSE
    BY MergeAssumption DEF Init
  <2> QED
    BY <2>3, <2>4, <2>5, <2>6 DEF Init, TypeOK
<1>2. TypeOK /\ [Next]_vars => TypeOK'
  <2> SUFFICES ASSUME TypeOK, [Next]_vars PROVE TypeOK'
    OBVIOUS
  <2>1. CASE BeginMerge
    BY <2>1, MergeAssumption DEF BeginMerge, TypeOK, result, NoMap
  <2>2. ASSUME NEW n \in Names, MergeLocal(n) PROVE TypeOK'
    BY <2>2, SymInIds DEF MergeLocal, Take, TypeOK
  <2>3. ASSUME NEW n \in Names, AddSymbol(n) PROVE TypeOK'
    BY <2>3, SymInIds DEF AddSymbol, Take, TypeOK
  <2>4. ASSUME NEW n \in Names, ReplaceFunction(n) PROVE TypeOK'
    <3>1. bound[n] \in Ids
      BY <2>4 DEF ReplaceFunction, Replaces, TypeOK
    <3>2. Sym(n) \in Ids
      BY <2>4, SymInIds DEF ReplaceFunction, Take
    <3> QED
      BY <2>4, <3>1, <3>2, PushHolds DEF ReplaceFunction, Supersede, Take, TypeOK
  <2>5. ASSUME NEW n \in Names, ReplaceData(n) PROVE TypeOK'
    <3>1. bound[n] \in Ids
      BY <2>5 DEF ReplaceData, Replaces, TypeOK
    <3>2. Sym(n) \in Ids /\ NewValue(n) \subseteq Ids
      BY <2>5, SymInIds DEF ReplaceData, Take
    <3> QED
      BY <2>5, <3>1, <3>2, PushHolds DEF ReplaceData, Supersede, Take, TypeOK
  <2>6. ASSUME NEW n \in Names, KeepSymbol(n) PROVE TypeOK'
    BY <2>6, SymInIds DEF KeepSymbol, RefsAfterKeeping, Take, TypeOK
  <2>7. CASE FinishMerge
    <3>1. callee' \in [OperandSites -> Ids]
      BY <2>7 DEF FinishMerge, Retarget, TypeOK
    <3>2. values' \subseteq Ids
      BY <2>7 DEF FinishMerge, ValuesAfter, TypeOK, Replaced
    <3>3. ctors' \subseteq Ids
      BY <2>7 DEF FinishMerge, NewCtors, TypeOK
    <3>4. relocs' \in [RelocSites -> Nat]
      BY <2>7, PushHolds DEF FinishMerge
    <3> QED
      BY <2>7, <3>1, <3>2, <3>3, <3>4 DEF FinishMerge, TypeOK, scratch
  <2>8. CASE Linked \/ UNCHANGED vars
    BY <2>8 DEF Linked, vars, result, scratch, TypeOK
  <2> QED
    BY <2>1, <2>2, <2>3, <2>4, <2>5, <2>6, <2>7, <2>8 DEF Next, MergeSymbol
<1> QED
  BY <1>1, <1>2, PTL DEF Spec

-----------------------------------------------------------------------------
(* The symbol table *)

\* What a step of mergeWithModule does to the symbol table: nothing, one more
\* local symbol, a symbol for an unbound name, or a definition in the place of an
\* undefined symbol.
TableKept == UNCHANGED <<table, bound>>
TableGainsLocal(n) ==
    table' = table \cup {Sym(n)} /\ Local(Sym(n)) /\ bound' = bound
TableGains(n) ==
    /\ bound[n] = None
    /\ ~Local(Sym(n))
    /\ table' = table \cup {Sym(n)}
    /\ bound' = [bound EXCEPT ![n] = Sym(n)]
TableReplaces(n) ==
    /\ bound[n] # None
    /\ Undef(bound[n])
    /\ ~Local(Sym(n))
    /\ Defined(Sym(n))
    /\ table' = (table \ {bound[n]}) \cup {Sym(n)}
    /\ bound' = [bound EXCEPT ![n] = Sym(n)]

LEMMA TableStep ==
    ASSUME [Next]_vars
    PROVE  /\ status' = status
           /\ \/ TableKept
              \/ \E n \in todo \cap Names :
                    busy /\ (TableGainsLocal(n) \/ TableGains(n) \/ TableReplaces(n))
<1>1. CASE BeginMerge
  BY <1>1 DEF BeginMerge, TableKept, result
<1>2. ASSUME NEW n \in Names, MergeLocal(n)
      PROVE n \in todo /\ busy /\ TableGainsLocal(n) /\ status' = status
  BY <1>2 DEF MergeLocal, Take, TableGainsLocal
<1>3. ASSUME NEW n \in Names, AddSymbol(n)
      PROVE n \in todo /\ busy /\ TableGains(n) /\ status' = status
  BY <1>3 DEF AddSymbol, Take, TableGains
<1>4. ASSUME NEW n \in Names, ReplaceFunction(n) \/ ReplaceData(n)
      PROVE n \in todo /\ busy /\ TableReplaces(n) /\ status' = status
  BY <1>4 DEF ReplaceFunction, ReplaceData, Replaces, Supersede, Take, TableReplaces
<1>5. ASSUME NEW n \in Names, KeepSymbol(n)
      PROVE TableKept /\ status' = status
  BY <1>5 DEF KeepSymbol, Take, TableKept
<1>6. CASE FinishMerge
  BY <1>6 DEF FinishMerge, TableKept
<1>7. CASE Linked \/ UNCHANGED vars
  BY <1>7 DEF Linked, vars, result, TableKept
<1> QED
  BY <1>1, <1>2, <1>3, <1>4, <1>5, <1>6, <1>7 DEF Next, MergeSymbol

LEMMA TableAgreesStep == TypeOK /\ TableAgrees /\ [Next]_vars => TableAgrees'
<1> SUFFICES ASSUME TypeOK, TableAgrees, [Next]_vars PROVE TableAgrees'
  OBVIOUS
<1>1. status' = status
  BY TableStep
<1>2. \A id : Local(id)' <=> Local(id)
  BY <1>1 DEF Local
<1>3. CASE TableKept
  BY <1>1, <1>3 DEF TableKept, TableAgrees, Local
<1>4. ASSUME NEW n \in Names, busy, TableGainsLocal(n) PROVE TableAgrees'
  BY <1>1, <1>4, SymInIds DEF TableGainsLocal, TableAgrees, Local
<1>5. ASSUME NEW n \in Names, busy, TableGains(n) \/ TableReplaces(n)
      PROVE TableAgrees'
  <2>1. bound' = [bound EXCEPT ![n] = Sym(n)] /\ bound \in [Names -> Ids \cup {None}]
    BY <1>5 DEF TableGains, TableReplaces, TypeOK
  <2>2. Sym(n) \in Ids /\ Sym(n)[2] = n /\ ~Local(Sym(n)) /\ Sym(n) \in table'
    BY <1>5, SymInIds DEF TableGains, TableReplaces
  <2>3. ASSUME NEW m \in Names, bound'[m] # None
        PROVE bound'[m] \in table' /\ bound'[m][2] = m /\ ~Local(bound'[m])
    <3>1. CASE m = n
      BY <2>1, <2>2, <3>1
    <3>2. CASE m # n
      <4>1. bound'[m] = bound[m] /\ bound[m] \in table /\ bound[m][2] = m /\ ~Local(bound[m])
        BY <2>1, <2>3, <3>2 DEF TableAgrees
      <4>2. bound[m] # bound[n]
        BY <4>1, <2>1, <3>2, <2>3, <1>5 DEF TableAgrees, TableGains, TableReplaces
      <4> QED
        BY <1>5, <4>1, <4>2 DEF TableGains, TableReplaces
    <3> QED
      BY <3>1, <3>2
  <2>4. ASSUME NEW id \in table', ~Local(id) PROVE bound'[id[2]] = id
    <3>1. CASE id = Sym(n)
      BY <2>1, <2>2, <3>1
    <3>2. CASE id # Sym(n)
      <4>1. id \in table /\ bound[id[2]] = id /\ id[2] \in Names /\ id # None
        BY <1>5, <2>4, <3>2, MergeAssumption DEF TableGains, TableReplaces, TableAgrees, TypeOK, Ids
      <4>2. id[2] # n
        BY <1>5, <2>4, <3>2, <4>1 DEF TableGains, TableReplaces
      <4> QED
        BY <2>1, <4>1, <4>2
    <3> QED
      BY <3>1, <3>2
  <2> QED
    BY <1>2, <2>3, <2>4 DEF TableAgrees
<1> QED
  BY <1>3, <1>4, <1>5, TableStep

\* The symbol table and the name maps of mergeWithModule never part (TableAgrees).
THEOREM TableCorrect == Spec => []TableAgrees
<1>1. Init => TableAgrees
  BY DEF Init, TableAgrees
<1> QED
  BY <1>1, TypeCorrect, TableAgreesStep, PTL DEF Spec

-----------------------------------------------------------------------------
(* Refinement *)

\* Merging implements the abstract symbol table: a name is mentioned, then stays
\* with its first definition (ImplementsResolution).
THEOREM MergeImplementsResolution == Spec => ImplementsResolution
<1>1. Init => Resolution!Init
  BY DEF Init, Resolution!Init
<1>2. TypeOK /\ TableAgrees /\ [Next]_vars
        => [Resolution!Next]_([n \in Names |->
             IF bound[n] # None /\ Undef(bound[n]) THEN Undefined ELSE bound[n]])
  <2> DEFINE Abs(n) == IF bound[n] # None /\ Undef(bound[n]) THEN Undefined ELSE bound[n]
             binding == [n \in Names |-> Abs(n)]
  <2> SUFFICES ASSUME TypeOK, TableAgrees, [Next]_vars
               PROVE  Resolution!Next \/ binding' = binding
    BY DEF Resolution!Next
  <2>1. status' = status
    BY TableStep
  <2>2. \A id : Undef(id)' <=> Undef(id)
    BY <2>1 DEF Undef
  <2>3. CASE bound' = bound
    BY <2>1, <2>3 DEF Undef
  <2>4. ASSUME NEW n \in Names, busy, TableGains(n) \/ TableReplaces(n)
        PROVE  Resolution!Next
    <3>1. bound' = [bound EXCEPT ![n] = Sym(n)] /\ bound \in [Names -> Ids \cup {None}]
      BY <2>4 DEF TableGains, TableReplaces, TypeOK
    <3>2. Sym(n) \in Ids /\ Sym(n) # None
      BY <2>4, SymInIds, MergeAssumption
    <3>3. binding' = [binding EXCEPT ![n] = IF Undef(Sym(n)) THEN Undefined ELSE Sym(n)]
      BY <2>2, <3>1, <3>2
    <3>4. binding[n] \in {None, Undefined}
      BY <2>4 DEF TableGains, TableReplaces
    <3>5. CASE ~Undef(Sym(n))
      BY <3>2, <3>3, <3>4, <3>5 DEF Resolution!Next, Resolution!Define
    <3>6. CASE Undef(Sym(n))
      <4>1. ~Defined(Sym(n))
        BY <3>6 DEF Undef, Defined
      <4>2. binding[n] = None
        BY <2>4, <4>1 DEF TableGains, TableReplaces
      <4> QED
        BY <3>3, <3>6, <4>2 DEF Resolution!Next, Resolution!Mention
    <3> QED
      BY <3>5, <3>6
  <2> QED
    BY <2>3, <2>4, TableStep DEF TableKept, TableGainsLocal
<1> QED
  BY <1>1, <1>2, TypeCorrect, TableCorrect, PTL DEF Spec, ImplementsResolution, Resolution!Spec

-----------------------------------------------------------------------------
(* No name is left undefined while a merged object defines it *)

\* The symbol of n in object o has been looked at.
Seen(o, n) == o < merged \/ (o = merged /\ (busy => n \notin todo))

\* A symbol that was looked at left its name bound, and defined if it defines it.
SeenIsBound ==
    \A n \in Names : \A o \in Objects :
        Seen(o, n) /\ status[o][n] # "absent" /\ ~Local(<<o, n>>)
            => bound[n] # None /\ (Defined(<<o, n>>) => ~Undef(bound[n]))

\* The scheduling of mergeWithModule: which symbol a step looks at.
Begins ==
    /\ ~busy /\ busy' = TRUE
    /\ merged < NumObjects /\ merged' = merged + 1
    /\ todo' = {n \in Names : status[merged + 1][n] # "absent"}
    /\ TableKept
LooksAt(n) ==
    /\ busy /\ busy' = busy /\ merged' = merged
    /\ n \in todo /\ todo' = todo \ {n}
    /\ \/ TableGainsLocal(n)
       \/ TableGains(n)
       \/ TableReplaces(n)
       \/ TableKept /\ bound[n] # None /\ ~Local(Sym(n)) /\ ~Replaces(n)
Finishes ==
    /\ busy /\ busy' = FALSE /\ todo = {}
    /\ UNCHANGED <<merged, todo>> /\ TableKept
Waits == UNCHANGED <<busy, merged, todo>> /\ TableKept

LEMMA MergeStep ==
    ASSUME [Next]_vars
    PROVE  /\ status' = status
           /\ Begins \/ (\E n \in Names : LooksAt(n)) \/ Finishes \/ Waits
<1>1. CASE BeginMerge
  BY <1>1 DEF BeginMerge, Begins, TableKept, result
<1>2. ASSUME NEW n \in Names, MergeLocal(n) PROVE LooksAt(n) /\ status' = status
  BY <1>2 DEF MergeLocal, Take, TableGainsLocal, LooksAt
<1>3. ASSUME NEW n \in Names, AddSymbol(n) PROVE LooksAt(n) /\ status' = status
  BY <1>3 DEF AddSymbol, Take, TableGains, LooksAt
<1>4. ASSUME NEW n \in Names, ReplaceFunction(n) \/ ReplaceData(n)
      PROVE LooksAt(n) /\ status' = status
  BY <1>4 DEF ReplaceFunction, ReplaceData, Replaces, Supersede, Take, TableReplaces, LooksAt
<1>5. ASSUME NEW n \in Names, KeepSymbol(n) PROVE LooksAt(n) /\ status' = status
  BY <1>5 DEF KeepSymbol, Take, TableKept, LooksAt
<1>6. CASE FinishMerge
  BY <1>6 DEF FinishMerge, Finishes, TableKept
<1>7. CASE Linked \/ UNCHANGED vars
  BY <1>7 DEF Linked, vars, result, Waits, TableKept
<1> QED
  BY <1>1, <1>2, <1>3, <1>4, <1>5, <1>6, <1>7 DEF Next, MergeSymbol

LEMMA SeenIsBoundStep == TypeOK /\ SeenIsBound /\ [Next]_vars => SeenIsBound'
<1> SUFFICES ASSUME TypeOK, SeenIsBound, [Next]_vars,
                    NEW n \in Names, NEW o \in Objects,
                    Seen(o, n)', status[o][n] # "absent", ~Local(<<o, n>>)
             PROVE  bound'[n] # None /\ (Defined(<<o, n>>) => ~Undef(bound'[n]))
  BY MergeStep DEF SeenIsBound, Local, Defined, Undef
<1>0. merged \in Nat /\ o \in Nat
  BY MergeAssumption DEF TypeOK, Objects
<1>1. CASE Begins
  <2>1. Seen(o, n)
    BY <1>0, <1>1 DEF Begins, Seen
  <2> QED
    BY <1>1, <2>1 DEF SeenIsBound, Begins, TableKept
<1>2. ASSUME NEW k \in Names, LooksAt(k)
      PROVE  bound'[n] # None /\ (Defined(<<o, n>>) => ~Undef(bound'[n]))
  <2>1. Sym(k) \in Ids /\ Sym(k) # None /\ Sym(k) = <<merged, k>> /\ bound \in [Names -> Ids \cup {None}]
    BY <1>2, SymInIds, MergeAssumption DEF LooksAt, TypeOK, Sym
  <2>2. Seen(o, n) \/ (o = merged /\ n = k)
    BY <1>0, <1>2 DEF LooksAt, Seen
  <2>3. CASE o = merged /\ n = k
    <3>1. ~TableGainsLocal(k)
      BY <2>1, <2>3 DEF TableGainsLocal
    <3>2. CASE TableGains(k) \/ TableReplaces(k)
      BY <2>1, <2>3, <3>2 DEF TableGains, TableReplaces, Defined, Undef
    <3>3. CASE TableKept /\ bound[k] # None /\ ~Local(Sym(k)) /\ ~Replaces(k)
      BY <2>1, <2>3, <3>3 DEF TableKept, Replaces
    <3> QED
      BY <1>2, <3>1, <3>2, <3>3 DEF LooksAt
  <2>4. CASE Seen(o, n) /\ ~(o = merged /\ n = k)
    <3>1. bound[n] # None /\ (Defined(<<o, n>>) => ~Undef(bound[n]))
      BY <2>4 DEF SeenIsBound
    <3>2. CASE bound' = bound
      BY <3>1, <3>2
    <3>3. CASE TableGains(k) \/ TableReplaces(k)
      <4>1. CASE n # k
        BY <2>1, <3>1, <3>3, <4>1 DEF TableGains, TableReplaces
      <4>2. CASE n = k
        BY <2>1, <3>1, <3>3, <4>2 DEF TableGains, TableReplaces, Undef, Defined
      <4> QED
        BY <4>1, <4>2
    <3> QED
      BY <1>2, <3>2, <3>3 DEF LooksAt, TableGainsLocal, TableKept
  <2> QED
    BY <2>2, <2>3, <2>4
<1>3. CASE Finishes
  BY <1>3 DEF Finishes, Seen, SeenIsBound, TableKept
<1>4. CASE Waits
  BY <1>4 DEF Waits, Seen, SeenIsBound, TableKept
<1> QED
  BY <1>1, <1>2, <1>3, <1>4, MergeStep

LEMMA SeenIsBoundAlways == Spec => []SeenIsBound
<1>1. Init => SeenIsBound
  BY MergeAssumption DEF Init, SeenIsBound, Seen, Objects
<1> QED
  BY <1>1, SeenIsBoundStep, TypeCorrect, PTL DEF Spec

\* Between two merges, a name is undefined only if no object merged so far has a
\* global definition of it (UndefinedIsUnresolved).
THEOREM UndefinedCorrect == Spec => []UndefinedIsUnresolved
<1>1. TypeOK /\ SeenIsBound => UndefinedIsUnresolved
  <2> SUFFICES ASSUME TypeOK, SeenIsBound, Idle, NEW n \in Names,
                      bound[n] # None, Undef(bound[n]),
                      NEW o \in 1..merged, Defined(<<o, n>>), ~Local(<<o, n>>)
               PROVE  FALSE
    BY DEF UndefinedIsUnresolved
  <2>1. o \in Objects /\ Seen(o, n)
    BY MergeAssumption DEF TypeOK, Objects, Seen, Idle
  <2>2. status[o][n] # "absent"
    BY DEF Defined
  <2> QED
    BY <2>1, <2>2 DEF SeenIsBound
<1> QED
  BY <1>1, TypeCorrect, SeenIsBoundAlways, PTL

-----------------------------------------------------------------------------
(* The values of the linker are those of its symbols *)

\* While a call runs, the values still are those of the table the call began
\* with; what the call owes them is in dstmap (imports that got a definition) and
\* in newVals.
Comes(id) == HasValue(id) /\ ~LeftBehind(id)
TableIsMerged ==
    \A id \in table : id[1] <= merged /\ (busy /\ id[1] = merged => id[2] \notin todo)
ValuesAreOld ==
    busy => \A id \in values :
        id[1] < merged /\ Comes(id) /\ (id \in table \/ id \in Replaced)
OldHasValue ==
    busy => \A id \in table : id[1] < merged /\ Comes(id) => id \in values
NewHasValue ==
    busy => \A id \in table : id[1] = merged /\ Comes(id) =>
        id \in newVals \/ \E old \in Replaced : dstmap[old] = id
NewValsAreNew ==
    busy => \A id \in newVals : id \in table /\ Comes(id) /\ id[1] = merged
ReplacedAreOld ==
    busy => \A id \in Replaced :
        /\ id \in values /\ id \notin table /\ Undef(id) /\ id[2] \in FuncNames
        /\ dstmap[id] = <<merged, id[2]>>
        /\ dstmap[id] \in table /\ Defined(dstmap[id])

ImageInv ==
    /\ TableIsMerged
    /\ ValuesAreOld
    /\ OldHasValue
    /\ NewHasValue
    /\ NewValsAreNew
    /\ ReplacedAreOld
    /\ ImageIsTableButKnown

LEMMA ImageStep == TypeOK /\ TableAgrees /\ ImageInv /\ [Next]_vars => ImageInv'
<1> SUFFICES ASSUME TypeOK, TableAgrees, ImageInv, [Next]_vars PROVE ImageInv'
  OBVIOUS
<1>0. status' = status
  BY MergeStep
<1>1. /\ \A id : Comes(id)' <=> Comes(id)
      /\ \A id : Undef(id)' <=> Undef(id)
      /\ \A id : Defined(id)' <=> Defined(id)
  BY <1>0 DEF Comes, LeftBehind, Local, HasValue, Undef, Defined
<1>d. /\ ImageIsTableButKnown <=> (~busy => values = {id \in table : Comes(id)})
      /\ ImageIsTableButKnown' <=> (~busy' => values' = {id \in table' : Comes(id)'})
  BY DEF ImageIsTableButKnown, Idle, Comes
<1>a. /\ merged \in Nat
      /\ \A id \in Ids : id[1] \in Nat /\ id[2] \in Names /\ id = <<id[1], id[2]>>
      /\ table \subseteq Ids /\ values \subseteq Ids /\ newVals \subseteq Ids
      /\ dstmap \in [Ids -> Ids]
  BY MergeAssumption DEF TypeOK, Ids, Objects
<1>b. /\ \A id : Defined(id) => ~Undef(id)
      /\ \A id : id[2] \in FuncNames /\ (Defined(id) \/ Undef(id)) => Comes(id)
  BY MergeAssumption DEF Comes, LeftBehind, Holders, Defined, HasValue, Undef
<1>2. CASE BeginMerge
  <2>1. Replaced' = {}
    BY <1>2 DEF BeginMerge, Replaced, NoMap
  <2>2. ~busy /\ busy' /\ merged' = merged + 1 /\ UNCHANGED <<table, values>> /\ newVals' = {}
    BY <1>2 DEF BeginMerge, result
  <2>3. values = {id \in table : Comes(id)}
    BY <1>d, <2>2 DEF ImageInv
  <2> QED
    BY <1>1, <1>a, <1>d, <2>1, <2>2, <2>3 DEF ImageInv, TableIsMerged, ValuesAreOld, OldHasValue,
       NewHasValue, NewValsAreNew, ReplacedAreOld
<1>3. CASE FinishMerge
  <2>1. busy /\ todo = {} /\ ~busy' /\ UNCHANGED <<table, merged, todo>>
    BY <1>3 DEF FinishMerge
  <2>2. values' = (values \ Replaced) \cup {dstmap[id] : id \in Replaced} \cup newVals
    BY <1>3 DEF FinishMerge, ValuesAfter
  <2>3. values' = {id \in table : Comes(id)}
    <3>1. ASSUME NEW id \in values' PROVE id \in table /\ Comes(id)
      BY <1>b, <2>1, <2>2 DEF ImageInv, ValuesAreOld, ReplacedAreOld, NewValsAreNew
    <3>2. ASSUME NEW id \in table, Comes(id) PROVE id \in values'
      <4>1. CASE id[1] < merged
        BY <2>1, <2>2, <3>2, <4>1 DEF ImageInv, OldHasValue, ReplacedAreOld
      <4>2. CASE id[1] = merged
        BY <2>1, <2>2, <3>2, <4>2 DEF ImageInv, NewHasValue
      <4> QED
        BY <1>a, <4>1, <4>2 DEF ImageInv, TableIsMerged
    <3> QED
      BY <3>1, <3>2
  <2> QED
    BY <1>1, <1>d, <2>1, <2>3 DEF ImageInv, TableIsMerged, ValuesAreOld, OldHasValue,
       NewHasValue, NewValsAreNew, ReplacedAreOld
<1>4. CASE Linked \/ UNCHANGED vars
  <2>1. UNCHANGED <<merged, busy, todo, table, values, newVals, dstmap>>
    BY <1>4 DEF Linked, vars, result, scratch
  <2>2. Replaced' = Replaced
    BY <2>1 DEF Replaced
  <2> QED
    BY <1>1, <1>d, <2>1, <2>2 DEF ImageInv, TableIsMerged, ValuesAreOld, OldHasValue,
       NewHasValue, NewValsAreNew, ReplacedAreOld
<1>5. ASSUME NEW n \in Names, Take(n),
             \/ TableGainsLocal(n) \/ TableGains(n)
             \/ n \in DataNames /\ TableReplaces(n),
             newVals' = newVals \cup {id \in {Sym(n)} : Comes(id)}, dstmap' = dstmap
      PROVE  ImageInv'
  <2>1. busy /\ busy' /\ n \in todo /\ todo' = todo \ {n} /\ UNCHANGED <<merged, values>>
    BY <1>5 DEF Take
  <2>2. Replaced' = Replaced
    BY <1>5 DEF Replaced
  <2>3. Sym(n) \in Ids /\ Sym(n)[1] = merged /\ Sym(n)[2] = n
    BY <2>1, SymInIds
  <2>5. Comes(Sym(n)) => Sym(n) \in newVals'
    BY <1>5
  <2>6. /\ Sym(n) \in table' /\ table' \subseteq table \cup {Sym(n)}
        /\ \A id \in table : Comes(id) => id \in table'
    <3>1. CASE TableGainsLocal(n) \/ TableGains(n)
      BY <3>1 DEF TableGainsLocal, TableGains
    <3>2. CASE n \in DataNames /\ TableReplaces(n)
      <4>1. bound[n][2] = n /\ Undef(bound[n])
        BY <3>2 DEF TableReplaces, TableAgrees
      <4>2. ~Comes(bound[n])
        BY <3>2, <4>1 DEF Comes, HasValue, Undef, Defined
      <4> QED
        BY <3>2, <4>2 DEF TableReplaces
    <3> QED
      BY <1>5, <3>1, <3>2
  <2>7. \A id \in Replaced : dstmap[id] # Sym(n)
    BY <1>a, <2>1, <2>3 DEF ImageInv, ReplacedAreOld, TableIsMerged
  <2>8. \A id \in table : Comes(id) => id # Sym(n)
    BY <2>1, <2>3 DEF ImageInv, TableIsMerged
  <2>9. Sym(n) \notin values /\ Sym(n) \notin Replaced
    BY <1>a, <2>1, <2>3 DEF ImageInv, ValuesAreOld, ReplacedAreOld
  <2>10. TableIsMerged'
    BY <1>a, <2>1, <2>3, <2>6 DEF ImageInv, TableIsMerged
  <2>11. ValuesAreOld' /\ OldHasValue'
    BY <1>1, <1>a, <2>1, <2>2, <2>3, <2>6 DEF ImageInv, ValuesAreOld, OldHasValue
  <2>12. NewHasValue'
    BY <1>1, <1>5, <2>1, <2>2, <2>5, <2>6 DEF ImageInv, NewHasValue
  <2>13. NewValsAreNew'
    BY <1>1, <1>5, <2>1, <2>3, <2>6 DEF ImageInv, NewValsAreNew
  <2>14. ReplacedAreOld'
    BY <1>1, <1>5, <1>b, <2>1, <2>2, <2>6, <2>9 DEF ImageInv, ReplacedAreOld
  <2> QED
    BY <2>1, <2>10, <2>11, <2>12, <2>13, <2>14 DEF ImageInv, ImageIsTableButKnown, Idle
<1>6. ASSUME NEW n \in Names, ReplaceFunction(n) PROVE ImageInv'
  <2> DEFINE old == bound[n]
  <2>1. /\ busy /\ busy' /\ n \in todo /\ todo' = todo \ {n} /\ UNCHANGED <<merged, values, newVals>>
        /\ n \in FuncNames
        /\ old # None /\ Undef(old) /\ Defined(Sym(n)) /\ ~Local(Sym(n))
        /\ table' = (table \ {old}) \cup {Sym(n)}
        /\ dstmap' = [dstmap EXCEPT ![old] = Sym(n)]
    BY <1>6 DEF ReplaceFunction, Take, Replaces, Supersede
  <2>2. Sym(n) \in Ids /\ Sym(n) = <<merged, n>>
    BY <2>1, SymInIds DEF Sym
  <2>3. old \in table /\ old[2] = n /\ old \in Ids /\ Comes(old)
    BY <2>1, <1>a, <1>b DEF TableAgrees
  <2>4. old[1] < merged /\ old \in values
    BY <1>a, <2>1, <2>3 DEF ImageInv, TableIsMerged, OldHasValue
  <2>5. old \notin Replaced /\ old # Sym(n)
    BY <2>1, <2>2, <2>3, <2>4, <1>b DEF ImageInv, ReplacedAreOld
  <2>6. Replaced' = Replaced \cup {old}
    BY <1>a, <2>1, <2>2, <2>3, <2>5 DEF Replaced
  <2>7. \A id \in Replaced : dstmap'[id] = dstmap[id] /\ dstmap[id] # old
    BY <1>a, <1>b, <2>1, <2>5 DEF ImageInv, ReplacedAreOld, Replaced
  <2>8. dstmap'[old] = Sym(n)
    BY <1>a, <2>1, <2>3
  <2>9. TableIsMerged'
    BY <1>a, <2>1, <2>2 DEF ImageInv, TableIsMerged
  <2>10. ValuesAreOld'
    BY <1>1, <2>1, <2>6 DEF ImageInv, ValuesAreOld
  <2>11. OldHasValue'
    BY <1>1, <1>a, <2>1, <2>2, <2>4 DEF ImageInv, OldHasValue
  <2>12. NewHasValue'
    BY <1>1, <2>1, <2>6, <2>7, <2>8 DEF ImageInv, NewHasValue
  <2>13. NewValsAreNew'
    BY <1>1, <1>a, <2>1, <2>4 DEF ImageInv, NewValsAreNew
  <2>14. ReplacedAreOld'
    <3>1. ASSUME NEW id \in Replaced
          PROVE  id # Sym(n)
      BY <2>1, <2>2, <1>b, <3>1 DEF ImageInv, ReplacedAreOld
    <3> QED
      BY <1>1, <2>1, <2>2, <2>3, <2>4, <2>5, <2>6, <2>7, <2>8, <3>1 DEF ImageInv, ReplacedAreOld
  <2> QED
    BY <2>1, <2>9, <2>10, <2>11, <2>12, <2>13, <2>14 DEF ImageInv, ImageIsTableButKnown, Idle
<1>7. ASSUME NEW n \in Names, KeepSymbol(n) PROVE ImageInv'
  <2>1. /\ busy /\ busy' /\ todo' = todo \ {n}
        /\ UNCHANGED <<merged, values, newVals, table, dstmap>>
    BY <1>7 DEF KeepSymbol, Take
  <2>2. Replaced' = Replaced
    BY <2>1 DEF Replaced
  <2> QED
    BY <1>1, <1>d, <2>1, <2>2 DEF ImageInv, TableIsMerged, ValuesAreOld, OldHasValue,
       NewHasValue, NewValsAreNew, ReplacedAreOld
<1>c. ASSUME NEW n \in Names
      PROVE  /\ Sym(n)[2] = n
             /\ n \in Holders \/ ~Local(Sym(n)) => NewValue(n) = {id \in {Sym(n)} : Comes(id)}
             /\ n \notin Holders /\ Local(Sym(n)) => {id \in {Sym(n)} : Comes(id)} = {}
  BY <1>c, MergeAssumption DEF NewValue, Comes, LeftBehind, Names, Sym
<1>8. ASSUME NEW n \in Names, MergeLocal(n) PROVE ImageInv'
  <2>1. newVals' = newVals \cup {id \in {Sym(n)} : Comes(id)}
    BY <1>c, <1>8 DEF MergeLocal
  <2> QED
    BY <1>5, <1>8, <2>1 DEF MergeLocal, TableGainsLocal, Take
<1>9. ASSUME NEW n \in Names, AddSymbol(n) PROVE ImageInv'
  BY <1>c, <1>5, <1>9 DEF AddSymbol, TableGains
<1>10. ASSUME NEW n \in Names, ReplaceData(n) PROVE ImageInv'
  BY <1>c, <1>5, <1>10 DEF ReplaceData, Replaces, Supersede, TableReplaces
<1> QED
  BY <1>2, <1>3, <1>4, <1>6, <1>7, <1>8, <1>9, <1>10 DEF Next, MergeSymbol

LEMMA ImageAlways == Spec => []ImageInv
<1>1. Init => ImageInv
  BY DEF Init, ImageInv, TableIsMerged, ValuesAreOld, OldHasValue, NewHasValue,
     NewValsAreNew, ReplacedAreOld, ImageIsTableButKnown
<1> QED
  BY <1>1, ImageStep, TypeCorrect, TableCorrect, PTL DEF Spec

\* Between two merges the linker's functions, data segments, globals and tags are
\* the values of its symbols, but for those of local globals and tags (ImageIsTableButKnown).
THEOREM ImageCorrect == Spec => []ImageIsTableButKnown
<1>1. ImageInv => ImageIsTableButKnown
  BY DEF ImageInv
<1> QED
  BY <1>1, ImageAlways, PTL

\* mergeWithModule never throws INVALID_STATE (NoInvalidState).
THEOREM NoInvalidStateCorrect == Spec => []NoInvalidState
<1>1. ImageInv => NoInvalidState
  BY DEF ImageInv, ReplacedAreOld, NoInvalidState
<1> QED
  BY <1>1, ImageAlways, PTL

----------------------------------------------------------------------------
(* Merging leaves every use of a symbol, an operand or a relocation,       *)
(* pointing at what its name means.                                        *)

\* Every symbol of an object that was looked at is in the table or gave way.
LocalsInTable ==
    \A n \in Names : \A o \in Objects :
        Seen(o, n) /\ Local(<<o, n>>) => <<o, n>> \in table

\* Only symbols that objects have are in the table.
TableIsMentioned ==
    /\ \A id \in table : status[id[1]][id[2]] # "absent"
    /\ busy => \A n \in todo : status[merged][n] # "absent"

LEMMA TableContentStep ==
    TypeOK /\ LocalsInTable /\ TableIsMentioned /\ TableAgrees /\ [Next]_vars
        => LocalsInTable' /\ TableIsMentioned'
<1> SUFFICES ASSUME TypeOK, LocalsInTable, TableIsMentioned, TableAgrees, [Next]_vars
             PROVE  LocalsInTable' /\ TableIsMentioned'
  OBVIOUS
<1>0. status' = status /\ \A id : Local(id)' <=> Local(id)
  BY MergeStep DEF Local
<1>a. merged \in Nat /\ Objects \subseteq Nat
  BY MergeAssumption DEF TypeOK, Objects
<1>1. CASE Begins
  <2>1. \A n \in Names : \A o \in Objects :
          Seen(o, n)' /\ status[o][n] # "absent" => Seen(o, n)
    <3> SUFFICES ASSUME NEW n \in Names, NEW o \in Objects, Seen(o, n)', status[o][n] # "absent"
                 PROVE  Seen(o, n)
      OBVIOUS
    <3>1. o # merged + 1
      <4>1. o = merged + 1 => n \in todo' /\ o = merged' /\ busy'
        BY <1>1 DEF Begins
      <4> QED
        BY <1>a, <4>1 DEF Seen
    <3>2. o < merged + 1
      BY <1>1, <1>a, <3>1 DEF Begins, Seen
    <3> QED
      BY <1>1, <1>a, <3>1, <3>2 DEF Begins, Seen
  <2>2. LocalsInTable'
    BY <1>0, <1>1, <2>1 DEF LocalsInTable, Begins, TableKept, Local
  <2> QED
    BY <1>0, <1>1, <2>2 DEF TableIsMentioned, Begins, TableKept
<1>2. ASSUME NEW k \in Names, LooksAt(k) PROVE LocalsInTable' /\ TableIsMentioned'
  <2>1. Sym(k) = <<merged, k>> /\ busy /\ busy' /\ merged' = merged /\ todo' = todo \ {k} /\ k \in todo
    BY <1>2 DEF LooksAt, Sym
  <2>2. Local(Sym(k)) => Sym(k) \in table'
    BY <1>2 DEF LooksAt, TableGainsLocal, TableGains, TableReplaces, Replaces, TableKept, TableAgrees
  <2>3. \A id \in table : Local(id) => id \in table'
    BY <1>2 DEF LooksAt, TableGainsLocal, TableGains, TableReplaces, TableKept, Undef, Local
  <2>4. table' \subseteq table \cup {Sym(k)}
    BY <1>2 DEF LooksAt, TableGainsLocal, TableGains, TableReplaces, TableKept
  <2>5. LocalsInTable'
    BY <1>0, <1>a, <2>1, <2>2, <2>3 DEF LocalsInTable, Seen
  <2> QED
    BY <1>0, <2>1, <2>4, <2>5 DEF TableIsMentioned
<1>3. CASE Finishes \/ Waits
  BY <1>0, <1>3 DEF Finishes, Waits, Seen, LocalsInTable, TableIsMentioned, TableKept
<1> QED
  BY <1>1, <1>2, <1>3, MergeStep

LEMMA TableContentAlways == Spec => [](LocalsInTable /\ TableIsMentioned)
<1>1. Init => LocalsInTable /\ TableIsMentioned
  BY MergeAssumption DEF Init, LocalsInTable, TableIsMentioned, Seen, Objects
<1> QED
  BY <1>1, TableContentStep, TypeCorrect, TableCorrect, PTL DEF Spec

-----------------------------------------------------------------------------
(* Operands *)

\* Before and while its object is merged, an operand points at its own object;
\* an operand of an earlier object means what dstmap makes of it, an operand of
\* the current one what srcmap makes of it.
OperandsFresh ==
    \A c \in OperandSites :
        c[1] > merged \/ (busy /\ c[1] = merged) => callee[c] = Target(c)
OperandsOld ==
    busy => \A c \in OperandSites : c[1] < merged /\ InImage(c) =>
        dstmap[callee[c]] = Meaning(c[1], c[3])
OperandsOurs ==
    busy => \A c \in OperandSites : c[1] = merged /\ Defined(Holder(c)) =>
        srcmap[Target(c)] = IF c[3] \in todo THEN Target(c) ELSE Meaning(c[1], c[3])
OperandsDone ==
    Idle => \A c \in OperandSites : InImage(c) => callee[c] = Meaning(c[1], c[3])

OperandInv == OperandsFresh /\ OperandsOld /\ OperandsOurs /\ OperandsDone

LEMMA SiteTypes ==
    ASSUME NEW c \in OperandSites
    PROVE  /\ c[1] \in Objects /\ c[2] \in FuncNames /\ c[3] \in Names
           /\ c[3] \in FuncNames \cup ImportNames /\ c[3] \notin DataNames
           /\ c[3] \in Operands[c[2]]
           /\ Target(c) = <<c[1], c[3]>> /\ Target(c) \in Ids
           /\ Holder(c) = <<c[1], c[2]>> /\ Holder(c)[1] = c[1] /\ Holder(c) \in Ids
  BY MergeAssumption DEF OperandSites, Target, Holder, Ids, Holders, Names

\* Looking at a symbol changes what its own name means and no other.
LEMMA LookMeaning ==
    ASSUME TypeOK, [Next]_vars, NEW n \in Names, LooksAt(n)
    PROVE  /\ \A o, m : m \in Names /\ m # n => Meaning(o, m)' = Meaning(o, m)
           /\ \A o, m : m \in Names /\ bound'[m] = bound[m] => Meaning(o, m)' = Meaning(o, m)
           /\ \A o, m : status[o][m] = "local" =>
                 Meaning(o, m)' = Meaning(o, m) /\ Meaning(o, m) = <<o, m>>
           /\ \A o, m : status[o][m] # "local" =>
                 Meaning(o, m) = bound[m] /\ Meaning(o, m)' = bound'[m]
<1>1. status' = status
  BY MergeStep
<1>2. \A m \in Names : m # n => bound'[m] = bound[m]
  BY DEF LooksAt, TableGainsLocal, TableGains, TableReplaces, TableKept, TypeOK
<1> QED
  BY <1>1, <1>2 DEF Meaning

LEMMA OperandStep ==
    TypeOK /\ TableAgrees /\ ImageInv /\ OperandInv /\ [Next]_vars => OperandInv'
<1> SUFFICES ASSUME TypeOK, TableAgrees, ImageInv, OperandInv, [Next]_vars PROVE OperandInv'
  OBVIOUS
<1>0. status' = status /\ \A id : Defined(id)' <=> Defined(id)
  BY MergeStep DEF Defined
<1>a. /\ merged \in Nat /\ Objects \subseteq Nat
      /\ table \subseteq Ids /\ values \subseteq Ids
      /\ dstmap \in [Ids -> Ids] /\ srcmap \in [Ids -> Ids]
      /\ callee \in [OperandSites -> Ids]
      /\ bound \in [Names -> Ids \cup {None}] /\ None \notin Ids
  BY MergeAssumption DEF TypeOK, Objects
<1>2. CASE BeginMerge
  <2>1. /\ ~busy /\ busy' /\ merged' = merged + 1 /\ merged + 1 \in Objects
        /\ todo' = {n \in Names : status[merged + 1][n] # "absent"}
        /\ UNCHANGED <<bound, values, callee>> /\ srcmap' = NoMap /\ dstmap' = NoMap
    BY <1>2, <1>a, MergeAssumption DEF BeginMerge, result, Objects
  <2>2. \A o, m : Meaning(o, m)' = Meaning(o, m)
    BY <1>0, <2>1 DEF Meaning
  <2>3. OperandsFresh'
    <3> SUFFICES ASSUME NEW c \in OperandSites, c[1] > merged + 1 \/ c[1] = merged + 1
                 PROVE  callee[c] = Target(c)
      BY <2>1 DEF OperandsFresh
    <3>1. c[1] \in Nat
      BY <1>a, SiteTypes
    <3>2. c[1] > merged
      BY <1>a, <3>1
    <3> QED
      BY <3>2 DEF OperandInv, OperandsFresh
  <2>4. OperandsOld'
    <3> SUFFICES ASSUME NEW c \in OperandSites, InImage(c)
                 PROVE  NoMap[callee[c]] = Meaning(c[1], c[3])
      BY <1>0, <2>1, <2>2 DEF OperandsOld, InImage
    <3>1. callee[c] = Meaning(c[1], c[3])
      BY <2>1 DEF OperandInv, OperandsDone, Idle
    <3> QED
      BY <1>a, <3>1 DEF NoMap
  <2>5. OperandsOurs'
    <3> SUFFICES ASSUME NEW c \in OperandSites, c[1] = merged + 1, Defined(Holder(c))
                 PROVE  NoMap[Target(c)] = Target(c) /\ c[3] \in todo'
      BY <1>0, <2>1, <2>2 DEF OperandsOurs
    <3>1. status[c[1]] \in ObjectFiles /\ status[c[1]][c[2]] \in {"weak", "strong", "local"}
      BY SiteTypes DEF TypeOK, Defined, Holder
    <3>2. status[c[1]][c[3]] # "absent"
      BY <3>1, SiteTypes DEF ObjectFiles, WellFormed, Holders
    <3> QED
      BY <2>1, <3>2, SiteTypes DEF NoMap
  <2> QED
    BY <2>1, <2>3, <2>4, <2>5 DEF OperandInv, OperandsDone, Idle
<1>3. CASE FinishMerge
  <2>1. /\ busy /\ ~busy' /\ todo = {} /\ UNCHANGED <<merged, bound>>
        /\ callee' = [c \in OperandSites |->
                       IF c[1] = merged THEN srcmap[callee[c]]
                       ELSE IF Holder(c) \in values THEN dstmap[callee[c]]
                       ELSE callee[c]]
        /\ values' = (values \ Replaced) \cup {dstmap[id] : id \in Replaced} \cup newVals
    BY <1>3 DEF FinishMerge, Retarget, ValuesAfter
  <2>2. \A o, m : Meaning(o, m)' = Meaning(o, m)
    BY <1>0, <2>1 DEF Meaning
  <2>3. \A id \in values' : id[1] <= merged /\ (id[1] < merged => id \in values)
    <3>1. \A id \in values : id[1] < merged
      BY <2>1 DEF ImageInv, ValuesAreOld
    <3>2. \A id \in newVals : id[1] = merged
      BY <2>1 DEF ImageInv, NewValsAreNew
    <3>3. \A id \in Replaced : dstmap[id][1] = merged
      BY <2>1 DEF ImageInv, ReplacedAreOld
    <3>4. values \subseteq Ids /\ \A id \in Ids : id[1] \in Nat
      BY <1>a DEF Ids
    <3> QED
      BY <1>a, <2>1, <3>1, <3>2, <3>3, <3>4
  <2>4. OperandsFresh'
    <3> SUFFICES ASSUME NEW c \in OperandSites, c[1] > merged
                 PROVE  callee'[c] = Target(c)
      BY <2>1 DEF OperandsFresh
    <3>1. Holder(c) \notin values
      BY <1>a, <2>1, SiteTypes DEF ImageInv, ValuesAreOld
    <3> QED
      BY <1>a, <2>1, <3>1, SiteTypes DEF OperandInv, OperandsFresh
  <2>5. OperandsDone'
    <3> SUFFICES ASSUME NEW c \in OperandSites, Holder(c) \in values', Defined(Holder(c))
                 PROVE  callee'[c] = Meaning(c[1], c[3])
      BY <1>0, <2>2 DEF OperandsDone, InImage
    <3>1. CASE c[1] = merged
      BY <2>1, <3>1 DEF OperandInv, OperandsFresh, OperandsOurs
    <3>2. CASE c[1] # merged
      <4>1. c[1] \in Nat /\ Holder(c)[1] = c[1]
        BY <1>a, SiteTypes
      <4>2. c[1] < merged /\ Holder(c) \in values
        BY <1>a, <2>3, <3>2, <4>1
      <4> QED
        BY <2>1, <3>2, <4>2 DEF OperandInv, OperandsOld, InImage
    <3> QED
      BY <3>1, <3>2
  <2> QED
    BY <2>1, <2>4, <2>5 DEF OperandInv, OperandsOld, OperandsOurs
<1>4. CASE Linked \/ UNCHANGED vars
  BY <1>0, <1>4 DEF Linked, vars, result, scratch, OperandInv, OperandsFresh, OperandsOld,
     OperandsOurs, OperandsDone, InImage, Meaning, Idle
\* Looking at a symbol: what has to be shown of the two maps.
<1>5. ASSUME NEW n \in Names, LooksAt(n), UNCHANGED <<callee, values>>,
             \A c \in OperandSites : c[1] < merged /\ InImage(c) =>
                 dstmap'[callee[c]] = Meaning(c[1], c[3])',
             \A c \in OperandSites : c[1] = merged /\ Defined(Holder(c)) =>
                 srcmap'[Target(c)] = IF c[3] \in todo \ {n} THEN Target(c) ELSE Meaning(c[1], c[3])'
      PROVE  OperandInv'
  BY <1>0, <1>5 DEF LooksAt, OperandInv, OperandsFresh, OperandsOld, OperandsOurs,
     OperandsDone, InImage, Idle
\* The name of an operand that means something is bound.
<1>6. ASSUME NEW c \in OperandSites, busy, c[1] < merged, InImage(c)
      PROVE  /\ dstmap[callee[c]] = Meaning(c[1], c[3])
             /\ Meaning(c[1], c[3]) # None
             /\ Meaning(c[1], c[3])[2] = c[3]
  <2>1. dstmap[callee[c]] = Meaning(c[1], c[3])
    BY <1>6 DEF OperandInv, OperandsOld
  <2>2. Meaning(c[1], c[3]) # None
    BY <1>a, <2>1
  <2> QED
    BY <2>1, <2>2, SiteTypes DEF Meaning, TableAgrees
<1>7. ASSUME NEW n \in Names, LooksAt(n), UNCHANGED <<callee, values, srcmap, dstmap>>,
             TableGainsLocal(n) \/ TableGains(n) \/ (n \in DataNames /\ TableReplaces(n))
      PROVE  OperandInv'
  <2>1. /\ busy /\ n \in todo /\ Sym(n) = <<merged, n>>
        /\ TableGainsLocal(n) => status[merged][n] = "local" /\ bound' = bound
        /\ ~TableGainsLocal(n) => bound'[n] = Sym(n)
    BY <1>7, <1>a DEF LooksAt, Sym, TableGainsLocal, TableGains, TableReplaces, Local
  <2>2. ASSUME NEW c \in OperandSites, c[1] < merged, InImage(c)
        PROVE  dstmap[callee[c]] = Meaning(c[1], c[3])'
    <3>1. CASE c[3] # n
      BY <1>6, <1>7, <2>1, <2>2, <3>1, LookMeaning, SiteTypes
    <3>2. CASE c[3] = n
      <4>1. TableGainsLocal(n) \/ TableGains(n)
        BY <1>7, <3>2, SiteTypes
      <4>2. status[c[1]][n] = "local" \/ ~TableGains(n)
        BY <1>6, <2>1, <2>2, <3>2 DEF TableGains, Meaning
      <4>3. Meaning(c[1], n)' = Meaning(c[1], n)
        BY <1>7, <2>1, <4>1, <4>2, LookMeaning
      <4> QED
        BY <1>6, <2>1, <2>2, <3>2, <4>3
    <3> QED
      BY <3>1, <3>2
  <2>3. ASSUME NEW c \in OperandSites, c[1] = merged, Defined(Holder(c))
        PROVE  srcmap[Target(c)] =
                 IF c[3] \in todo \ {n} THEN Target(c) ELSE Meaning(c[1], c[3])'
    <3>1. srcmap[Target(c)] = IF c[3] \in todo THEN Target(c) ELSE Meaning(c[1], c[3])
      BY <2>1, <2>3 DEF OperandInv, OperandsOurs
    <3>2. CASE c[3] # n
      BY <1>7, <3>1, <3>2, LookMeaning, SiteTypes
    <3>3. CASE c[3] = n
      <4>1. Target(c) = Sym(n) /\ srcmap[Target(c)] = Sym(n)
        BY <2>1, <2>3, <3>1, <3>3, SiteTypes
      <4>2. Meaning(c[1], n)' = Sym(n)
        <5>1. CASE TableGainsLocal(n)
          <6>1. status[c[1]][n] = "local"
            BY <2>1, <2>3, <5>1
          <6> QED
            BY <1>7, <2>1, <2>3, <6>1, LookMeaning
        <5>2. CASE ~TableGainsLocal(n)
          <6>1. status[c[1]][n] # "local"
            BY <1>7, <2>1, <2>3, <5>2 DEF TableGains, TableReplaces, Local
          <6> QED
            BY <1>7, <2>1, <5>2, <6>1, LookMeaning
        <5> QED
          BY <5>1, <5>2
      <4> QED
        BY <2>3, <3>3, <4>1, <4>2
    <3> QED
      BY <3>2, <3>3
  <2> QED
    BY <1>5, <1>7, <2>2, <2>3
<1>8. ASSUME NEW n \in Names, ReplaceFunction(n) PROVE OperandInv'
  <2> DEFINE old == bound[n]
  <2>1. /\ busy /\ n \in todo /\ Sym(n) = <<merged, n>> /\ LooksAt(n) /\ n \in FuncNames
        /\ UNCHANGED <<callee, values, srcmap>>
        /\ old # None /\ old \in Ids /\ Undef(old) /\ ~Local(Sym(n))
        /\ dstmap' = [dstmap EXCEPT ![old] = Sym(n)]
        /\ bound'[n] = Sym(n)
    BY <1>8, <1>a DEF ReplaceFunction, Take, Replaces, Supersede, Sym, LooksAt, TableReplaces
  <2>2. old[2] = n /\ ~Defined(old)
    BY <2>1 DEF TableAgrees, Undef, Defined
  <2>3. ASSUME NEW c \in OperandSites, c[1] < merged, InImage(c)
        PROVE  dstmap'[callee[c]] = Meaning(c[1], c[3])'
    <3>1. callee[c] \in Ids /\ dstmap[callee[c]] = Meaning(c[1], c[3]) /\ Meaning(c[1], c[3])[2] = c[3]
      BY <1>a, <1>6, <2>1, <2>3
    <3>2. dstmap[old] = old
      <4>1. old \in table
        BY <2>1 DEF TableAgrees
      <4> QED
        BY <2>1, <4>1 DEF ImageInv, ReplacedAreOld, Replaced
    <3>3. dstmap[callee[c]] = old => callee[c] = old
      BY <2>1, <2>2, <3>1 DEF ImageInv, ReplacedAreOld, Replaced
    <3>4. CASE Meaning(c[1], c[3]) = old
      <4>1. callee[c] = old /\ c[3] = n
        BY <2>2, <3>1, <3>3, <3>4
      <4>2. status[c[1]][c[3]] # "local"
        <5> SUFFICES ASSUME status[c[1]][c[3]] = "local" PROVE FALSE
          OBVIOUS
        <5>1. old = <<c[1], c[3]>>
          BY <3>4 DEF Meaning
        <5> QED
          BY <2>2, <5>1 DEF Defined
      <4> QED
        BY <1>a, <2>1, <3>1, <4>1, <4>2, LookMeaning
    <3>5. CASE Meaning(c[1], c[3]) # old
      <4>1. callee[c] # old
        BY <3>1, <3>2, <3>5
      <4>2. Meaning(c[1], c[3])' = Meaning(c[1], c[3])
        <5>1. c[3] # n \/ status[c[1]][c[3]] = "local"
          BY <2>1, <3>5 DEF Meaning
        <5> QED
          BY <2>1, <5>1, LookMeaning, SiteTypes
      <4> QED
        BY <1>a, <2>1, <3>1, <4>1, <4>2
    <3> QED
      BY <3>4, <3>5
  <2>4. ASSUME NEW c \in OperandSites, c[1] = merged, Defined(Holder(c))
        PROVE  srcmap'[Target(c)] =
                 IF c[3] \in todo \ {n} THEN Target(c) ELSE Meaning(c[1], c[3])'
    <3>1. srcmap[Target(c)] = IF c[3] \in todo THEN Target(c) ELSE Meaning(c[1], c[3])
      BY <2>1, <2>4 DEF OperandInv, OperandsOurs
    <3>2. CASE c[3] # n
      BY <2>1, <3>1, <3>2, LookMeaning, SiteTypes
    <3>3. CASE c[3] = n
      BY <2>1, <2>4, <3>1, <3>3, SiteTypes, LookMeaning DEF Local
    <3> QED
      BY <3>2, <3>3
  <2> QED
    BY <1>5, <2>1, <2>3, <2>4
<1>9. ASSUME NEW n \in Names, KeepSymbol(n) PROVE OperandInv'
  <2>1. /\ busy /\ n \in todo /\ Sym(n) = <<merged, n>> /\ Sym(n) \in Ids /\ LooksAt(n)
        /\ UNCHANGED <<callee, values, dstmap, bound>> /\ bound[n] # None /\ ~Local(Sym(n))
        /\ srcmap' = [srcmap EXCEPT ![Sym(n)] = bound[n]]
    BY <1>9, SymInIds DEF KeepSymbol, RefsAfterKeeping, Take, Sym, LooksAt, TableKept
  <2>2. \A o, m : m \in Names => Meaning(o, m)' = Meaning(o, m)
    BY <2>1, LookMeaning
  <2>3. ASSUME NEW c \in OperandSites, c[1] < merged, InImage(c)
        PROVE  dstmap'[callee[c]] = Meaning(c[1], c[3])'
    BY <1>6, <2>1, <2>2, <2>3, SiteTypes
  <2>4. ASSUME NEW c \in OperandSites, c[1] = merged, Defined(Holder(c))
        PROVE  srcmap'[Target(c)] =
                 IF c[3] \in todo \ {n} THEN Target(c) ELSE Meaning(c[1], c[3])'
    <3>1. srcmap[Target(c)] = IF c[3] \in todo THEN Target(c) ELSE Meaning(c[1], c[3])
      BY <2>1, <2>4 DEF OperandInv, OperandsOurs
    <3>2. CASE c[3] # n
      <4>1. Target(c) # Sym(n)
        BY <2>1, <3>2, SiteTypes
      <4> QED
        BY <1>a, <2>1, <2>2, <3>1, <3>2, <4>1, SiteTypes
    <3>3. CASE c[3] = n
      <4>1. Target(c) = Sym(n)
        BY <2>1, <2>4, <3>3, SiteTypes
      <4>2. Meaning(merged, n) = bound[n]
        BY <2>1 DEF Meaning, Local
      <4> QED
        BY <1>a, <2>1, <2>2, <2>4, <3>3, <4>1, <4>2
    <3> QED
      BY <3>2, <3>3
  <2> QED
    BY <1>5, <2>1, <2>3, <2>4
<1>10. ASSUME NEW n \in Names, MergeLocal(n) \/ AddSymbol(n) \/ ReplaceData(n) PROVE OperandInv'
  <2>1. /\ LooksAt(n) /\ UNCHANGED <<callee, values, srcmap, dstmap>>
        /\ TableGainsLocal(n) \/ TableGains(n) \/ (n \in DataNames /\ TableReplaces(n))
    BY <1>10 DEF MergeLocal, AddSymbol, ReplaceData, Take, LooksAt, TableGainsLocal, TableGains,
       TableReplaces, Replaces, Supersede
  <2> QED
    BY <2>1, <1>7
<1> QED
  BY <1>2, <1>3, <1>4, <1>8, <1>9, <1>10 DEF Next, MergeSymbol

LEMMA OperandAlways == Spec => []OperandInv
<1>1. Init => OperandInv
  <2> SUFFICES ASSUME Init PROVE OperandInv
    OBVIOUS
  <2>1. ~busy /\ values = {} /\ \A c \in OperandSites : callee[c] = Target(c)
    BY DEF Init
  <2> QED
    BY <2>1 DEF OperandInv, OperandsFresh, OperandsOld, OperandsOurs, OperandsDone, InImage
<1> QED
  BY <1>1, OperandStep, TypeCorrect, TableCorrect, ImageAlways, PTL DEF Spec

\* A use in a merged definition means a symbol of the table.
LEMMA MeaningInTable ==
    ASSUME TypeOK, TableAgrees, SeenIsBound, LocalsInTable, Idle,
           NEW o \in Objects, o <= merged, NEW n \in Names, status[o][n] # "absent"
    PROVE  Meaning(o, n) \in table /\ Meaning(o, n)[2] = n
<1>1. Seen(o, n)
  BY MergeAssumption DEF Seen, Idle, TypeOK, Objects
<1>2. CASE status[o][n] = "local"
  BY <1>1, <1>2 DEF Meaning, LocalsInTable, Local
<1>3. CASE status[o][n] # "local"
  <2>1. bound[n] # None
    BY <1>1, <1>3 DEF SeenIsBound, Local
  <2> QED
    BY <1>3, <2>1 DEF Meaning, TableAgrees
<1> QED
  BY <1>2, <1>3

\* Between two merges every operand of the image points at the value that its
\* name means, and that value is in the image, but for a local global or tag
\* (OperandsBoundButKnown).
THEOREM OperandsCorrect == Spec => []OperandsBoundButKnown
<1>1. TypeOK /\ TableAgrees /\ SeenIsBound /\ LocalsInTable /\ TableIsMentioned
        /\ ImageInv /\ OperandInv => OperandsBoundButKnown
  <2> SUFFICES ASSUME TypeOK, TableAgrees, SeenIsBound, LocalsInTable, TableIsMentioned,
                      ImageInv, OperandInv
               PROVE  OperandsBoundButKnown
    OBVIOUS
  <2> SUFFICES ASSUME Idle, NEW c \in OperandSites, InImage(c)
               PROVE  /\ callee[c] = Meaning(c[1], c[3])
                      /\ callee[c] \in values \/ LeftBehind(callee[c])
    BY DEF OperandsBoundButKnown
  <2>1. callee[c] = Meaning(c[1], c[3])
    BY DEF OperandInv, OperandsDone
  <2>2. values = {id \in table : HasValue(id) /\ ~LeftBehind(id)}
    BY DEF ImageInv, ImageIsTableButKnown
  <2>3. c[1] <= merged
    <3>1. Holder(c) \in table
      BY <2>2 DEF InImage
    <3> QED
      BY <3>1, SiteTypes DEF ImageInv, TableIsMerged
  <2>4. status[c[1]][c[3]] # "absent"
    <3>1. status[c[1]] \in ObjectFiles /\ status[c[1]][c[2]] \in {"weak", "strong", "local"}
      BY SiteTypes DEF TypeOK, Defined, Holder, InImage
    <3> QED
      BY <3>1, SiteTypes DEF ObjectFiles, WellFormed, Holders
  <2> DEFINE v == Meaning(c[1], c[3])
  <2>5. v \in table /\ v[2] = c[3]
    BY <2>3, <2>4, MeaningInTable, SiteTypes
  <2>6. HasValue(v)
    <3>1. v \in Ids
      BY <2>5 DEF TypeOK
    <3>2. v[1] \in Objects /\ v[2] \in Names /\ v[2] \notin DataNames
      BY <3>1, <2>5, SiteTypes DEF Ids
    <3>3. status[v[1]][v[2]] \in Statuses /\ status[v[1]][v[2]] # "absent"
      BY <3>2, <2>5 DEF TableIsMentioned, TypeOK, ObjectFiles
    <3>4. status[v[1]][v[2]] \in {"undef", "weak", "strong", "local"}
      BY <3>3, MergeAssumption
    <3> QED
      BY <3>2, <3>4 DEF HasValue, Defined, Undef
  <2> QED
    BY <2>1, <2>2, <2>5, <2>6
<1> QED
  BY <1>1, TypeCorrect, TableCorrect, SeenIsBoundAlways, TableContentAlways, ImageAlways,
     OperandAlways, PTL

-----------------------------------------------------------------------------
(* Relocations *)

\* A relocation the linker has comes from a definition that was merged.
RelocsAreSeen ==
    \A r \in HeldRelocs : r[1] <= merged /\ Defined(Holder(r))
\* Until its object is merged a relocation points at its own object.
RefsFresh ==
    \A r \in RelocSites : r[1] > merged => ref[r] = Target(r)
\* The relocations of earlier objects point at what their names mean.
RefsOld ==
    \A r \in HeldRelocs : r[1] < merged \/ ~busy => ref[r] = Meaning(r[1], r[3])
\* So do those of the current object whose symbol was looked at.
RefsOurs ==
    busy => \A r \in SourceRelocs :
        ref[r] = IF r[3] \in todo THEN Target(r) ELSE Meaning(r[1], r[3])

RefInv == RelocsAreSeen /\ RefsFresh /\ RefsOld /\ RefsOurs

LEMMA RelocTypes ==
    ASSUME NEW r \in RelocSites
    PROVE  /\ r[1] \in Objects /\ r[2] \in Holders /\ r[3] \in Names
           /\ r[3] \in Relocs[r[2]]
           /\ Target(r) = <<r[1], r[3]>> /\ Target(r) \in Ids /\ Target(r)[2] = r[3]
           /\ Holder(r) = <<r[1], r[2]>> /\ Holder(r)[1] = r[1] /\ Holder(r) \in Ids
  BY MergeAssumption DEF RelocSites, Target, Holder, Ids, Holders, Names

\* A use in a definition is of a name its object mentions.
LEMMA RelocMentioned ==
    ASSUME TypeOK, NEW r \in RelocSites, Defined(Holder(r))
    PROVE  status[r[1]][r[3]] # "absent"
<1>1. status[r[1]] \in ObjectFiles /\ status[r[1]][r[2]] \in {"weak", "strong", "local"}
  BY RelocTypes DEF TypeOK, Defined, Holder
<1> QED
  BY <1>1, RelocTypes DEF ObjectFiles, WellFormed

LEMMA RefStep == TypeOK /\ TableAgrees /\ RefInv /\ [Next]_vars => RefInv'
<1> SUFFICES ASSUME TypeOK, TableAgrees, RefInv, [Next]_vars PROVE RefInv'
  OBVIOUS
<1>0. status' = status /\ \A id : Defined(id)' <=> Defined(id)
  BY MergeStep DEF Defined
<1>a. /\ merged \in Nat /\ Objects \subseteq Nat
      /\ HeldRelocs \subseteq RelocSites
      /\ ref \in [RelocSites -> Ids]
      /\ bound \in [Names -> Ids \cup {None}] /\ None \notin Ids
  BY MergeAssumption DEF TypeOK, Objects, HeldRelocs
<1>b. \A r \in SourceRelocs : r \in RelocSites /\ r[1] = merged /\ Defined(Holder(r))
  BY DEF SourceRelocs
<1>2. CASE BeginMerge
  <2>1. /\ ~busy /\ busy' /\ merged' = merged + 1 /\ merged + 1 \in Objects
        /\ todo' = {n \in Names : status[merged + 1][n] # "absent"}
        /\ UNCHANGED <<bound, ref>> /\ HeldRelocs' = HeldRelocs
    BY <1>2, <1>a, MergeAssumption DEF BeginMerge, result, Objects, HeldRelocs, Held
  <2>2. \A o, m : Meaning(o, m)' = Meaning(o, m)
    BY <1>0, <2>1 DEF Meaning
  <2>3. \A r \in RelocSites : r[1] \in Nat
    BY <1>a, RelocTypes
  <2>4. RelocsAreSeen' /\ RefsFresh' /\ RefsOld'
    BY <1>0, <1>a, <2>1, <2>2, <2>3 DEF RefInv, RelocsAreSeen, RefsFresh, RefsOld
  <2>5. RefsOurs'
    <3> SUFFICES ASSUME NEW r \in RelocSites, r[1] = merged + 1, Defined(Holder(r))
                 PROVE  ref[r] = Target(r) /\ r[3] \in todo'
      BY <1>0, <2>1, <2>2 DEF RefsOurs, SourceRelocs
    <3> QED
      BY <1>a, <2>1, RelocMentioned, RelocTypes DEF RefInv, RefsFresh
  <2> QED
    BY <2>4, <2>5 DEF RefInv
<1>3. CASE FinishMerge
  <2>1. /\ busy /\ ~busy' /\ todo = {} /\ UNCHANGED <<merged, bound, ref>>
        /\ HeldRelocs' \subseteq HeldRelocs \cup SourceRelocs
    BY <1>3, PushHolds DEF FinishMerge, RelocsOfNew
  <2>2. \A o, m : Meaning(o, m)' = Meaning(o, m)
    BY <1>0, <2>1 DEF Meaning
  <2>3. RelocsAreSeen' /\ RefsFresh'
    BY <1>0, <1>a, <1>b, <2>1 DEF RefInv, RelocsAreSeen, RefsFresh
  <2>4. ASSUME NEW r \in HeldRelocs' PROVE ref[r] = Meaning(r[1], r[3])
    <3>1. CASE r \in SourceRelocs
      BY <2>1, <3>1 DEF RefInv, RefsOurs
    <3>2. CASE r \in HeldRelocs /\ r \notin SourceRelocs
      <4>1. r \in RelocSites /\ r[1] \in Nat /\ r[1] <= merged /\ Defined(Holder(r))
        BY <1>a, <3>2, RelocTypes DEF RefInv, RelocsAreSeen
      <4>2. r[1] < merged
        BY <1>a, <3>2, <4>1 DEF SourceRelocs
      <4> QED
        BY <3>2, <4>2 DEF RefInv, RefsOld
    <3> QED
      BY <2>1, <3>1, <3>2
  <2> QED
    BY <2>1, <2>2, <2>3, <2>4 DEF RefInv, RefsOld, RefsOurs
<1>4. CASE Linked \/ UNCHANGED vars
  BY <1>0, <1>4 DEF Linked, vars, result, scratch, RefInv, RelocsAreSeen, RefsFresh, RefsOld,
     RefsOurs, SourceRelocs, Meaning, HeldRelocs, Held
\* Looking at a symbol: what has to be shown of the two kinds of relocations.
<1>5. ASSUME NEW n \in Names, LooksAt(n),
             HeldRelocs' \subseteq HeldRelocs \cup SourceRelocs,
             \A r \in RelocSites : r[1] > merged => ref'[r] = ref[r],
             \A r \in HeldRelocs : r[1] < merged => ref'[r] = Meaning(r[1], r[3])',
             \A r \in SourceRelocs :
                 ref'[r] = IF r[3] \in todo \ {n} THEN Target(r) ELSE Meaning(r[1], r[3])'
      PROVE  RefInv'
  <2>1. busy /\ busy' /\ merged' = merged /\ todo' = todo \ {n} /\ SourceRelocs' = SourceRelocs
    BY <1>0, <1>5 DEF LooksAt, SourceRelocs
  <2>2. RelocsAreSeen' /\ RefsFresh'
    BY <1>0, <1>a, <1>b, <1>5, <2>1 DEF RefInv, RelocsAreSeen, RefsFresh
  <2>3. RefsOld'
    BY <1>a, <1>b, <1>5, <2>1 DEF RefsOld
  <2> QED
    BY <1>5, <2>1, <2>2, <2>3 DEF RefInv, RefsOurs
<1>6. ASSUME NEW r \in HeldRelocs, r[1] < merged
      PROVE  /\ ref[r] = Meaning(r[1], r[3]) /\ ref[r] # None /\ ref[r] \in Ids
             /\ ref[r][2] = r[3]
             /\ Local(ref[r]) <=> status[r[1]][r[3]] = "local"
  <2>1. r \in RelocSites /\ ref[r] = Meaning(r[1], r[3]) /\ ref[r] \in Ids
    BY <1>a, <1>6 DEF RefInv, RefsOld
  <2>2. ref[r] # None
    BY <1>a, <2>1
  <2> QED
    BY <2>1, <2>2, RelocTypes DEF Meaning, TableAgrees, Local
<1>7. ASSUME busy, NEW r \in SourceRelocs
      PROVE  /\ r \in RelocSites /\ r[1] = merged
             /\ Target(r) = Sym(r[3]) /\ r[3] \in Names
             /\ ref[r] = IF r[3] \in todo THEN Target(r) ELSE Meaning(r[1], r[3])
  BY <1>b, <1>7, RelocTypes DEF RefInv, RefsOurs, Sym
<1>8. ASSUME NEW n \in Names, MergeLocal(n) \/ AddSymbol(n) PROVE RefInv'
  <2>1. /\ busy /\ n \in todo /\ LooksAt(n) /\ ref' = ref /\ HeldRelocs' = HeldRelocs
        /\ TableGainsLocal(n) \/ TableGains(n)
    BY <1>8 DEF MergeLocal, AddSymbol, Take, LooksAt, TableGainsLocal, TableGains, HeldRelocs, Held
  <2>2. ASSUME NEW r \in HeldRelocs, r[1] < merged
        PROVE  ref[r] = Meaning(r[1], r[3])'
    <3>1. r[3] = n => status[r[1]][r[3]] = "local" \/ bound' = bound
      <4>1. bound' = bound \/ bound[n] = None
        BY <2>1 DEF TableGainsLocal, TableGains
      <4>2. ref[r] # None /\ ref[r] = Meaning(r[1], r[3])
        BY <1>6, <2>2
      <4>3. status[r[1]][r[3]] # "local" => ref[r] = bound[r[3]]
        BY <4>2 DEF Meaning
      <4> QED BY <4>1, <4>2, <4>3
    <3>2. r[3] \in Names /\ ref[r] = Meaning(r[1], r[3])
      BY <1>a, <1>6, <2>2, RelocTypes
    <3>3. /\ \A o, m : m \in Names /\ m # n => Meaning(o, m)' = Meaning(o, m)
          /\ \A o, m : m \in Names /\ bound'[m] = bound[m] => Meaning(o, m)' = Meaning(o, m)
          /\ \A o, m : status[o][m] = "local" => Meaning(o, m)' = Meaning(o, m)
      BY <1>a, <2>1, LookMeaning
    <3> QED
      BY <3>1, <3>2, <3>3
  <2>3. ASSUME NEW r \in SourceRelocs
        PROVE  ref[r] = IF r[3] \in todo \ {n} THEN Target(r) ELSE Meaning(r[1], r[3])'
    <3>1. CASE r[3] # n
      BY <1>7, <2>1, <3>1, LookMeaning
    <3>2. CASE r[3] = n
      <4>1. Meaning(r[1], n)' = Sym(n)
        BY <1>7, <1>a, <2>1, <3>2, LookMeaning DEF TableGainsLocal, TableGains, Local, Sym
      <4> QED
        BY <1>7, <2>1, <3>2, <4>1
    <3> QED
      BY <3>1, <3>2
  <2> QED
    BY <1>5, <2>1, <2>2, <2>3
<1>9. ASSUME NEW n \in Names, ReplaceFunction(n) \/ ReplaceData(n) PROVE RefInv'
  <2> DEFINE old == bound[n]
  <2>1. /\ busy /\ n \in todo /\ LooksAt(n) /\ ~Local(Sym(n)) /\ old # None
        /\ HeldRelocs' \subseteq HeldRelocs \cup SourceRelocs
        /\ bound'[n] = Sym(n)
        /\ ref' = [r \in RelocSites |->
                     IF r \in HeldRelocs /\ ref[r] = old THEN Sym(n) ELSE ref[r]]
    <3>1. HeldRelocs' \subseteq HeldRelocs \cup SourceRelocs
      BY <1>9, PushHolds DEF ReplaceFunction, RelocsForFunc, ReplaceData, RelocsForData
    <3>2. ref' = [r \in RelocSites |->
                     IF r \in HeldRelocs /\ ref[r] = old THEN Sym(n) ELSE ref[r]]
      BY <1>9 DEF ReplaceFunction, ReplaceData, Supersede, HeldRelocs
    <3> QED
      BY <1>9, <1>a, <3>1, <3>2 DEF ReplaceFunction, ReplaceData, Take, Replaces, Supersede, LooksAt, TableReplaces
  <2>2. old[2] = n /\ ~Local(old)
    BY <2>1 DEF TableAgrees
  <2>3. ASSUME NEW r \in HeldRelocs, r[1] < merged
        PROVE  ref'[r] = Meaning(r[1], r[3])'
    <3>1. CASE ref[r] = old
      <4>1. r[3] = n /\ status[r[1]][n] # "local"
        BY <1>6, <2>2, <2>3, <3>1
      <4>2. Meaning(r[1], n)' = Sym(n)
        BY <2>1, <4>1, LookMeaning
      <4> QED
        BY <1>a, <2>1, <3>1, <4>1, <4>2
    <3>2. CASE ref[r] # old
      <4>1. r[3] # n \/ status[r[1]][r[3]] = "local"
        BY <1>6, <2>3, <3>2 DEF Meaning
      <4>2. Meaning(r[1], r[3])' = Meaning(r[1], r[3])
        BY <1>a, <2>1, <4>1, LookMeaning, RelocTypes
      <4> QED
        BY <1>a, <1>6, <2>1, <2>3, <3>2, <4>2
    <3> QED
      BY <3>1, <3>2
  <2>4. ASSUME NEW r \in SourceRelocs
        PROVE  ref'[r] = IF r[3] \in todo \ {n} THEN Target(r) ELSE Meaning(r[1], r[3])'
    <3>1. CASE r[3] # n
      <4>1. ref[r] # old
        <5>1. CASE r[3] \in todo
          BY <1>7, <2>1, <2>2, <3>1, <5>1, RelocTypes
        <5>2. CASE r[3] \notin todo
          <6>1. ref[r] = Meaning(r[1], r[3]) /\ r[3] \in Names
            BY <1>7, <2>1, <5>2
          <6>2. ref[r] = <<r[1], r[3]>> \/ ref[r] = bound[r[3]]
            BY <6>1 DEF Meaning
          <6>3. bound[r[3]] # old
            BY <2>1, <2>2, <3>1, <6>1 DEF TableAgrees
          <6> QED
            BY <2>2, <3>1, <6>2, <6>3
        <5> QED
          BY <5>1, <5>2
      <4> QED
        BY <1>7, <2>1, <3>1, <4>1, LookMeaning
    <3>2. CASE r[3] = n
      <4>1. status[r[1]][n] # "local"
        BY <1>7, <2>1, <3>2 DEF Local, Sym
      <4>2. Meaning(r[1], n)' = Sym(n)
        BY <2>1, <4>1, LookMeaning
      <4>3. ref[r] = Sym(n)
        BY <1>7, <2>1, <3>2
      <4> QED
        BY <1>7, <2>1, <3>2, <4>2, <4>3
    <3> QED
      BY <3>1, <3>2
  <2>5. \A r \in RelocSites : r[1] > merged => ref'[r] = ref[r]
    <3> SUFFICES ASSUME NEW r \in RelocSites, r[1] > merged PROVE r \notin HeldRelocs
      BY <2>1
    <3>1. r[1] \in Nat
      BY <1>a, RelocTypes
    <3> QED
      BY <1>a, <3>1 DEF RefInv, RelocsAreSeen
  <2> QED
    BY <1>5, <2>1, <2>3, <2>4, <2>5
<1>10. ASSUME NEW n \in Names, KeepSymbol(n) PROVE RefInv'
  <2>1. /\ busy /\ n \in todo /\ LooksAt(n) /\ ~Local(Sym(n)) /\ bound[n] # None
        /\ bound' = bound /\ HeldRelocs' = HeldRelocs
        /\ ref' = [r \in RelocSites |->
                     IF r \in SourceRelocs /\ ref[r] = Sym(n) THEN bound[n] ELSE ref[r]]
    BY <1>10 DEF KeepSymbol, RefsAfterKeeping, Take, LooksAt, TableKept, HeldRelocs, Held
  <2>2. \A o, m : m \in Names => Meaning(o, m)' = Meaning(o, m)
    BY <2>1, LookMeaning
  <2>3. ASSUME NEW r \in HeldRelocs, r[1] < merged
        PROVE  ref'[r] = Meaning(r[1], r[3])'
    <3>1. r \in RelocSites /\ r \notin SourceRelocs
      BY <1>a, <1>b, <2>3
    <3> QED
      BY <1>6, <2>1, <2>2, <2>3, <3>1, RelocTypes
  <2>4. ASSUME NEW r \in SourceRelocs
        PROVE  ref'[r] = IF r[3] \in todo \ {n} THEN Target(r) ELSE Meaning(r[1], r[3])'
    <3>1. CASE r[3] # n
      <4>1. r[3] \in todo => ref[r] # Sym(n)
        BY <1>7, <2>1, <3>1 DEF Sym
      <4>2. r[3] \notin todo => ref[r] # Sym(n)
        <5> SUFFICES ASSUME r[3] \notin todo PROVE Meaning(r[1], r[3]) # Sym(n)
          BY <1>7, <2>1
        <5>1. CASE status[r[1]][r[3]] = "local"
          BY <1>7, <3>1, <5>1 DEF Meaning, Sym
        <5>2. CASE status[r[1]][r[3]] # "local"
          <6>1. Meaning(r[1], r[3]) = bound[r[3]] /\ r[3] \in Names
            BY <1>7, <2>1, <5>2 DEF Meaning
          <6>2. Sym(n) # None /\ Sym(n)[2] = n
            BY <1>a, <2>1, SymInIds
          <6> QED
            BY <3>1, <6>1, <6>2 DEF TableAgrees
        <5> QED
          BY <5>1, <5>2
      <4> QED
        BY <1>7, <2>1, <2>2, <3>1, <4>1, <4>2
    <3>2. CASE r[3] = n
      <4>1. Meaning(r[1], n) = bound[n]
        BY <1>7, <2>1, <3>2 DEF Meaning, Local, Sym
      <4> QED
        BY <1>7, <2>1, <2>2, <3>2, <4>1
    <3> QED
      BY <3>1, <3>2
  <2>5. \A r \in RelocSites : r[1] > merged => ref'[r] = ref[r]
    BY <1>a, <1>b, <2>1
  <2> QED
    BY <1>5, <2>1, <2>3, <2>4, <2>5
<1> QED
  BY <1>2, <1>3, <1>4, <1>8, <1>9, <1>10 DEF Next, MergeSymbol

LEMMA RefAlways == Spec => []RefInv
<1>1. Init => RefInv
  <2> SUFFICES ASSUME Init PROVE RefInv
    OBVIOUS
  <2>1. ~busy /\ HeldRelocs = {} /\ \A r \in RelocSites : ref[r] = Target(r)
    BY DEF Init, HeldRelocs, Held
  <2> QED
    BY <2>1 DEF RefInv, RelocsAreSeen, RefsFresh, RefsOld, RefsOurs
<1> QED
  BY <1>1, RefStep, TypeCorrect, TableCorrect, PTL DEF Spec

\* Between two merges every relocation of the linker points at the symbol of the
\* table that its name means (RelocsBound).
THEOREM RelocsCorrect == Spec => []RelocsBound
<1>1. TypeOK /\ TableAgrees /\ SeenIsBound /\ LocalsInTable /\ RefInv => RelocsBound
  <2> SUFFICES ASSUME TypeOK, TableAgrees, SeenIsBound, LocalsInTable, RefInv
               PROVE  RelocsBound
    OBVIOUS
  <2> SUFFICES ASSUME Idle, NEW r \in HeldRelocs
               PROVE  ref[r] = Meaning(r[1], r[3]) /\ ref[r] \in table
    BY DEF RelocsBound, HeldRelocs
  <2>1. ref[r] = Meaning(r[1], r[3])
    BY DEF RefInv, RefsOld, Idle
  <2>2. r \in RelocSites /\ r[1] <= merged /\ Defined(Holder(r))
    BY DEF RefInv, RelocsAreSeen, HeldRelocs
  <2>3. status[r[1]][r[3]] # "absent"
    BY <2>2, RelocMentioned
  <2>4. Meaning(r[1], r[3]) \in table
    BY <2>2, <2>3, RelocTypes, MeaningInTable
  <2> QED
    BY <2>1, <2>4
<1> QED
  BY <1>1, TypeCorrect, TableCorrect, SeenIsBoundAlways, TableContentAlways, RefAlways, PTL

-----------------------------------------------------------------------------
(* How often a relocation is taken *)

\* The relocation is from code to data, or from data to code.
Crossing(r) == (CodeReloc(r) /\ r[3] \in DataNames) \/ (DataReloc(r) /\ r[3] \in FuncNames)

\* How often a relocation of the object was pushed while its symbols are looked at:
\* with what it is in, and with what it refers to.
PushedWithHolder(r) == IF TookPlace(Holder(r)) THEN 1 ELSE 0
PushedWithTarget(r) == IF TookPlace(Target(r)) /\ Crossing(r) THEN 1 ELSE 0

\* A replaced function is new_func's no more than its import is.
CountInv ==
    /\ \A r \in RelocSites : r[1] > merged => relocs[r] = 0
    /\ busy => \A r \in SourceRelocs : relocs[r] = PushedWithHolder(r) + PushedWithTarget(r)
    /\ busy => \A id \in newVals : id[2] \in FuncNames => ~TookPlace(id)
    /\ busy => \A id \in Replaced : TookPlace(dstmap[id])
    /\ \A r \in RelocSites : (r[1] < merged \/ ~busy) /\ InImage(r) =>
          relocs[r] = IF CameTwice(r) THEN 2 ELSE 1

\* A relocation of the object refers to the symbol looked at if it is named so.
LEMMA SourceRefs ==
    ASSUME TypeOK, TableAgrees, RefInv, busy, NEW n \in todo, NEW r \in SourceRelocs
    PROVE  ref[r] = Sym(n) <=> r[3] = n
<1>1. /\ r \in RelocSites /\ r[1] = merged /\ r[3] \in Names /\ Target(r) = Sym(r[3])
      /\ ref[r] = IF r[3] \in todo THEN Target(r) ELSE Meaning(r[1], r[3])
  BY RelocTypes DEF SourceRelocs, RefInv, RefsOurs, Sym
<1>2. n \in Names /\ Sym(n) = <<merged, n>> /\ Sym(n) # None
  <2>1. n \in Names
    BY DEF TypeOK
  <2> QED
    BY <2>1, SymInIds, MergeAssumption DEF Sym
<1>3. CASE r[3] \in todo
  BY <1>1, <1>2, <1>3 DEF Sym
<1>4. CASE r[3] \notin todo
  <2>1. ref[r] = <<merged, r[3]>> \/ ref[r] = bound[r[3]]
    BY <1>1, <1>4 DEF Meaning
  <2>2. bound[r[3]] = Sym(n) => Sym(n)[2] = r[3]
    BY <1>1, <1>2 DEF TableAgrees
  <2> QED
    BY <1>2, <1>4, <2>1, <2>2
<1> QED
  BY <1>3, <1>4

\* Looking at a symbol leaves what took its place there; and the symbol does if
\* it replaces one.
LEMMA LookTook ==
    ASSUME TypeOK, TableAgrees, SeenIsBound, ImageInv, [Next]_vars, NEW n \in Names, LooksAt(n)
    PROVE  /\ \A id \in Ids : id # Sym(n) => (TookPlace(id)' <=> TookPlace(id))
           /\ \A id \in Ids : id = Sym(n) => ~TookPlace(id) /\ (TookPlace(id)' <=> TableReplaces(n))
<1>1. /\ status' = status
      /\ \A id : (Defined(id)' <=> Defined(id)) /\ (Undef(id)' <=> Undef(id))
      /\ \A id : ~(Defined(id) /\ Undef(id))
  BY MergeStep DEF Defined, Undef
<1>2. /\ busy /\ n \in todo /\ Sym(n) = <<merged, n>> /\ Sym(n) \in Ids /\ Sym(n)[2] = n /\ merged \in Objects
      /\ Objects \subseteq Nat /\ merged \in Nat
  BY SymInIds, MergeAssumption DEF LooksAt, Sym, TypeOK, Ids, Objects
<1>3. \A id \in Ids : id[1] \in Objects /\ id[2] \in Names /\ id = <<id[1], id[2]>>
  BY DEF Ids
<1>4. /\ \A m \in Names : m # n => bound'[m] = bound[m]
      /\ bound'[n] \in {bound[n], Sym(n)} /\ (bound'[n] # bound[n] => ~Defined(bound[n]) \/ bound[n] = None)
  BY <1>1 DEF LooksAt, TableGainsLocal, TableGains, TableReplaces, TableKept, TypeOK
<1>5. bound[n] # Sym(n)
  <2>1. Sym(n) \notin table
    BY <1>2 DEF ImageInv, TableIsMerged
  <2>2. Sym(n) # None
    BY <1>2, MergeAssumption
  <2> QED
    BY <2>1, <2>2 DEF TableAgrees
<1>6. \A id \in Ids : id # Sym(n) => (TookPlace(id)' <=> TookPlace(id))
  <2> SUFFICES ASSUME NEW id \in Ids, id # Sym(n), Defined(id)
               PROVE  bound'[id[2]] = id <=> bound[id[2]] = id
    BY <1>1 DEF TookPlace
  <2>1. id # None /\ id[2] \in Names
    BY <1>3, MergeAssumption
  <2>2. CASE id[2] # n
    BY <1>4, <2>1, <2>2
  <2>3. CASE id[2] = n
    BY <1>1, <1>4, <2>1, <2>3
  <2> QED
    BY <2>2, <2>3
<1>7. ~TookPlace(Sym(n))
  BY <1>2, <1>5 DEF TookPlace
<1>8. TableReplaces(n) => TookPlace(Sym(n))'
  <2> SUFFICES ASSUME TableReplaces(n) PROVE TookPlace(Sym(n))'
    OBVIOUS
  <2>1. bound[n] \in table /\ bound[n][2] = n /\ bound[n] \in Ids
    BY DEF TableReplaces, TableAgrees, TypeOK
  <2>2. bound[n][1] < merged /\ bound[n] = <<bound[n][1], n>> /\ bound[n][1] \in Objects
    BY <1>2, <1>3, <2>1 DEF ImageInv, TableIsMerged
  <2>3. \E o \in 1 .. merged - 1 : Undef(<<o, n>>)
    BY <1>2, <2>2 DEF TableReplaces, Objects
  <2>4. bound'[n] = Sym(n) /\ Defined(Sym(n))
    <3>1. bound \in [Names -> Ids \cup {None}]
      BY DEF TypeOK
    <3> QED
      BY <3>1 DEF TableReplaces
  <2>5. merged' = merged
    BY DEF LooksAt
  <2> QED
    BY <1>1, <1>2, <2>3, <2>4, <2>5 DEF TookPlace, Sym
<1>9. TookPlace(Sym(n))' => TableReplaces(n)
  <2> SUFFICES ASSUME bound'[n] = Sym(n), NEW o \in 1 .. merged - 1, Undef(<<o, n>>), ~TableReplaces(n)
               PROVE  FALSE
    <3>1. merged' = merged
      BY DEF LooksAt
    <3> QED
      BY <1>1, <1>2, <3>1 DEF TookPlace, Sym
  <2>1. TableGains(n)
    BY <1>5 DEF LooksAt, TableGainsLocal, TableKept
  <2>2. o \in Objects /\ Seen(o, n) /\ status[o][n] = "undef"
    BY <1>2, MergeAssumption DEF Seen, Undef, Objects, TypeOK
  <2> QED
    BY <2>1, <2>2 DEF TableGains, SeenIsBound, Local
<1>10. \A id \in Ids : id = Sym(n) => ~TookPlace(id) /\ (TookPlace(id)' <=> TableReplaces(n))
  BY <1>2, <1>7, <1>8, <1>9 DEF TookPlace, LooksAt, Sym
<1> QED
  BY <1>6, <1>10

\* A symbol that is looked at pushes, with the definition that takes a place, its
\* relocations and those that cross over to it.
LEMMA LookPushes ==
    ASSUME TypeOK, TableAgrees, RefInv, NEW n \in Names,
           ReplaceFunction(n) \/ ReplaceData(n)
    PROVE  /\ TableReplaces(n)
           /\ \A r \in RelocSites : relocs'[r] =
                 relocs[r] + (IF r \in SourceRelocs /\ Holder(r) = Sym(n) THEN 1 ELSE 0)
                           + (IF r \in SourceRelocs /\ Target(r) = Sym(n) /\ Crossing(r) THEN 1 ELSE 0)
<1>1. TableReplaces(n) /\ busy /\ n \in todo
  BY DEF ReplaceFunction, ReplaceData, Replaces, Supersede, Take, TableReplaces
<1>2. FuncNames \cap DataNames = {} /\ Holders = FuncNames \cup DataNames
  BY MergeAssumption DEF Holders
<1>3. ASSUME NEW r \in RelocSites
      PROVE  relocs'[r] = relocs[r] + (IF r \in SourceRelocs /\ Holder(r) = Sym(n) THEN 1 ELSE 0)
                  + (IF r \in SourceRelocs /\ Target(r) = Sym(n) /\ Crossing(r) THEN 1 ELSE 0)
  <2>1. relocs[r] \in Nat
    BY DEF TypeOK
  <2>2. /\ r[2] \in FuncNames \/ r[2] \in DataNames
        /\ Holder(r) = <<r[1], r[2]>> /\ Target(r) = <<r[1], r[3]>> /\ Sym(n) = <<merged, n>>
    BY <1>2, RelocTypes DEF Sym
  <2>3. r \in SourceRelocs => r[1] = merged /\ (ref[r] = Sym(n) <=> r[3] = n)
    BY <1>1, SourceRefs DEF SourceRelocs
  <2>4. CASE ReplaceFunction(n)
    <3>1. n \in FuncNames /\ relocs'[r] = IF r \in RelocsForFunc(n) THEN relocs[r] + 1 ELSE relocs[r]
      BY <2>4 DEF ReplaceFunction, Pushing
    <3>2. r \in RelocsForFunc(n) <=>
             r \in SourceRelocs /\ (r[2] = n \/ (r[2] \in DataNames /\ r[3] = n))
      BY <1>2, <2>2, <2>3, <3>1 DEF RelocsForFunc, CodeReloc, DataReloc
    <3>3. r \in SourceRelocs => (Holder(r) = Sym(n) <=> r[2] = n) /\ (Target(r) = Sym(n) <=> r[3] = n)
      BY <2>2, <2>3
    <3>4. r[3] = n => (Crossing(r) <=> r[2] \in DataNames)
      BY <1>2, <2>2, <3>1 DEF Crossing, CodeReloc, DataReloc
    <3> QED
      BY <1>2, <2>1, <3>1, <3>2, <3>3, <3>4
  <2>5. CASE ReplaceData(n)
    <3>1. n \in DataNames /\ relocs'[r] = IF r \in RelocsForData(n) THEN relocs[r] + 1 ELSE relocs[r]
      BY <2>5 DEF ReplaceData, Pushing
    <3>2. r \in RelocsForData(n) <=>
             r \in SourceRelocs /\ (r[2] = n \/ (r[2] \in FuncNames /\ r[3] = n))
      BY <1>2, <2>2, <2>3, <3>1 DEF RelocsForData, CodeReloc, DataReloc
    <3>3. r \in SourceRelocs => (Holder(r) = Sym(n) <=> r[2] = n) /\ (Target(r) = Sym(n) <=> r[3] = n)
      BY <2>2, <2>3
    <3>4. r[3] = n => (Crossing(r) <=> r[2] \in FuncNames)
      BY <1>2, <2>2, <3>1 DEF Crossing, CodeReloc, DataReloc
    <3> QED
      BY <1>2, <2>1, <3>1, <3>2, <3>3, <3>4
  <2> QED
    BY <2>4, <2>5
<1> QED
  BY <1>1, <1>3

LEMMA CountStep ==
    TypeOK /\ TableAgrees /\ SeenIsBound /\ RefInv /\ ImageInv /\ CountInv /\ [Next]_vars => CountInv'
<1> SUFFICES ASSUME TypeOK, TableAgrees, SeenIsBound, RefInv, ImageInv, CountInv, [Next]_vars
             PROVE  CountInv'
  OBVIOUS
<1>1. /\ status' = status
      /\ \A id : (Defined(id)' <=> Defined(id)) /\ (Undef(id)' <=> Undef(id))
  BY MergeStep DEF Defined, Undef
<1>2. \A r \in RelocSites :
        /\ Holder(r) \in Ids /\ Target(r) \in Ids
        /\ Holder(r)[1] = r[1] /\ Target(r)[1] = r[1]
        /\ r[1] \in Nat /\ relocs[r] \in Nat
  BY RelocTypes, MergeAssumption DEF Objects, TypeOK
<1>3. merged \in Nat
  BY MergeAssumption DEF TypeOK
<1>4. CASE BeginMerge
  <2>1. /\ ~busy /\ merged' = merged + 1
        /\ UNCHANGED <<table, bound, values, ref, relocs>>
        /\ newVals' = {} /\ Replaced' = {}
    BY <1>4 DEF BeginMerge, result, Replaced, NoMap
  <2>2. \A id \in Ids : (TookPlace(id)' <=> TookPlace(id)) /\ (id[1] > merged => ~TookPlace(id))
    <3>1. \A id \in Ids : TookPlace(id)' <=> TookPlace(id)
      BY <1>1, <2>1 DEF TookPlace
    <3>2. ASSUME NEW id \in Ids, TookPlace(id) PROVE id[1] <= merged
      <4>1. id \in table
        BY <3>2, MergeAssumption DEF TookPlace, TableAgrees, Ids
      <4> QED
        BY <4>1 DEF ImageInv, TableIsMerged
    <3>3. \A id \in Ids : id[1] \in Nat
      BY MergeAssumption DEF Ids, Objects
    <3> QED
      BY <1>3, <3>1, <3>2, <3>3
  <2>3. \A r \in RelocSites : (CameTwice(r)' <=> CameTwice(r)) /\ (InImage(r)' <=> InImage(r))
    BY <1>1, <1>2, <2>1, <2>2 DEF CameTwice, InImage
  <2>4. \A r \in RelocSites : r[1] > merged' => relocs'[r] = 0
    BY <1>2, <1>3, <2>1 DEF CountInv
  <2>5. ASSUME NEW r \in SourceRelocs'
        PROVE  relocs'[r] = PushedWithHolder(r)' + PushedWithTarget(r)'
    <3>1. r \in RelocSites /\ r[1] = merged + 1
      BY <2>1, <2>5 DEF SourceRelocs
    <3>2. ~TookPlace(Holder(r))' /\ ~TookPlace(Target(r))' /\ relocs'[r] = 0
      BY <1>2, <1>3, <2>1, <2>2, <3>1 DEF CountInv
    <3> QED
      BY <3>2 DEF PushedWithHolder, PushedWithTarget
  <2>6. \A r \in RelocSites : (r[1] < merged' \/ ~busy') /\ InImage(r)' =>
           relocs'[r] = IF CameTwice(r)' THEN 2 ELSE 1
    BY <2>1, <2>3 DEF CountInv
  <2> QED
    BY <2>1, <2>4, <2>5, <2>6 DEF CountInv
<1>5. CASE FinishMerge
  <2>1. /\ busy /\ ~busy' /\ merged' = merged /\ UNCHANGED <<table, bound, ref>>
        /\ values' = (values \ Replaced) \cup {dstmap[id] : id \in Replaced} \cup newVals
        /\ \A r \in RelocSites : relocs'[r] = IF r \in RelocsOfNew THEN relocs[r] + 1 ELSE relocs[r]
    BY <1>5 DEF FinishMerge, ValuesAfter, Pushing
  <2>2. \A id \in Ids : TookPlace(id)' <=> TookPlace(id)
    BY <1>1, <2>1 DEF TookPlace
  <2>3. \A r \in RelocSites : CameTwice(r)' <=> CameTwice(r)
    BY <1>2, <2>2 DEF CameTwice
  <2>4. RelocsOfNew \subseteq SourceRelocs /\ \A r \in SourceRelocs : r \in RelocSites /\ r[1] = merged
    BY DEF RelocsOfNew, SourceRelocs
  <2>5. ASSUME NEW r \in RelocSites, InImage(r)'
        PROVE  relocs'[r] = IF CameTwice(r)' THEN 2 ELSE 1
    <3>1. Defined(Holder(r)) /\ Holder(r) \in values'
      BY <1>1, <2>5 DEF InImage
    <3>2. CASE Holder(r) \in values
      <4>1. r[1] < merged /\ InImage(r)
        BY <1>2, <2>1, <3>1, <3>2 DEF ImageInv, ValuesAreOld, InImage
      <4> QED
        BY <1>2, <1>3, <2>1, <2>3, <2>4, <4>1 DEF CountInv
    <3>3. CASE Holder(r) \notin values
      <4>1. /\ Holder(r) \in newVals \/ \E id \in Replaced : Holder(r) = dstmap[id]
            /\ r[1] = merged
        <5>1. Holder(r) \in newVals \/ \E id \in Replaced : Holder(r) = dstmap[id]
          BY <2>1, <3>1, <3>3
        <5> QED
          BY <1>2, <2>1, <5>1 DEF ImageInv, NewValsAreNew, ReplacedAreOld
      <4>2. r \in SourceRelocs /\ relocs[r] = PushedWithHolder(r) + PushedWithTarget(r)
        BY <2>1, <3>1, <4>1 DEF SourceRelocs, CountInv
      <4>3. FuncNames \cap DataNames = {} /\ (r[2] \in FuncNames \/ r[2] \in DataNames)
            /\ Holder(r)[2] = r[2]
        BY MergeAssumption, RelocTypes DEF Holders
      <4>4. CASE r[2] \in FuncNames
        <5>1. CodeReloc(r) /\ ~DataReloc(r)
          BY <4>3, <4>4 DEF CodeReloc, DataReloc
        <5>2. r \in RelocsOfNew <=> Holder(r) \in newVals
          BY <4>2, <5>1 DEF RelocsOfNew
        <5>3. Holder(r) \in newVals <=> ~TookPlace(Holder(r))
          BY <2>1, <4>1, <4>3, <4>4 DEF CountInv
        <5>4. CameTwice(r) <=> TookPlace(Target(r)) /\ Crossing(r)
          BY <5>1 DEF CameTwice, Crossing
        <5> QED
          BY <2>1, <2>3, <4>2, <5>2, <5>3, <5>4 DEF PushedWithHolder, PushedWithTarget
      <4>5. CASE r[2] \in DataNames
        <5>1. DataReloc(r) /\ ~CodeReloc(r)
          BY <4>3, <4>5 DEF CodeReloc, DataReloc
        <5>2. Holder(r) \in newVals
          BY <2>1, <4>1, <4>3, <4>5, RelocTypes DEF ImageInv, ReplacedAreOld
        <5>3. r \in RelocsOfNew <=> relocs[r] = 0
          BY <1>2, <4>2, <5>1, <5>2 DEF RelocsOfNew, Held
        <5>4. CameTwice(r) <=> TookPlace(Target(r)) /\ TookPlace(Holder(r)) /\ Crossing(r)
          BY <5>1 DEF CameTwice, Crossing
        <5> QED
          BY <2>1, <2>3, <4>2, <5>3, <5>4 DEF PushedWithHolder, PushedWithTarget
      <4> QED
        BY <4>3, <4>4, <4>5
    <3> QED
      BY <3>2, <3>3
  <2>6. \A r \in RelocSites : r[1] > merged' => relocs'[r] = 0
    BY <1>2, <1>3, <2>1, <2>4 DEF CountInv
  <2> QED
    BY <2>1, <2>5, <2>6 DEF CountInv
<1>6. CASE Linked \/ UNCHANGED vars
  <2>1. UNCHANGED vars
    BY <1>6 DEF Linked
  <2> QED
    BY <2>1 DEF vars, result, scratch, CountInv, SourceRelocs, PushedWithHolder, PushedWithTarget,
                CameTwice, InImage, Replaced, TookPlace, Defined, Undef
<1>7. ASSUME NEW n \in Names,
             MergeLocal(n) \/ AddSymbol(n) \/ ReplaceFunction(n) \/ ReplaceData(n) \/ KeepSymbol(n)
      PROVE  CountInv'
  <2>1. /\ busy /\ busy' /\ merged' = merged /\ values' = values /\ n \in todo /\ LooksAt(n)
        /\ SourceRelocs' = SourceRelocs
    <3>1. LooksAt(n)
      BY <1>7 DEF MergeLocal, AddSymbol, ReplaceFunction, ReplaceData, KeepSymbol, Replaces, Supersede,
                  Take, LooksAt, TableGainsLocal, TableGains, TableReplaces, TableKept
    <3>2. busy /\ busy' /\ merged' = merged /\ values' = values /\ n \in todo
      BY <1>7 DEF MergeLocal, AddSymbol, ReplaceFunction, ReplaceData, KeepSymbol, Take
    <3> QED
      BY <1>1, <3>1, <3>2 DEF SourceRelocs
  <2>2. /\ \A id \in Ids : id # Sym(n) => (TookPlace(id)' <=> TookPlace(id))
        /\ \A id \in Ids : id = Sym(n) => ~TookPlace(id) /\ (TookPlace(id)' <=> TableReplaces(n))
        /\ Sym(n) \in Ids /\ Sym(n)[1] = merged /\ Sym(n)[2] = n
    BY <2>1, LookTook, SymInIds
  <2>3. /\ ~TableReplaces(n) => relocs' = relocs /\ dstmap' = dstmap
        /\ TableReplaces(n) => ReplaceFunction(n) \/ ReplaceData(n)
    <3>1. ReplaceFunction(n) \/ ReplaceData(n) => TableReplaces(n)
      BY LookPushes
    <3>2. MergeLocal(n) \/ AddSymbol(n) \/ KeepSymbol(n) =>
             relocs' = relocs /\ dstmap' = dstmap /\ ~TableReplaces(n)
      BY DEF MergeLocal, AddSymbol, KeepSymbol, TableReplaces, Replaces
    <3> QED
      BY <1>7, <3>1, <3>2
  <2>4. \A r \in RelocSites : relocs'[r] =
           relocs[r]
             + (IF TableReplaces(n) /\ r \in SourceRelocs /\ Holder(r) = Sym(n) THEN 1 ELSE 0)
             + (IF TableReplaces(n) /\ r \in SourceRelocs /\ Target(r) = Sym(n) /\ Crossing(r) THEN 1 ELSE 0)
    <3>1. CASE TableReplaces(n)
      BY <2>3, <3>1, LookPushes
    <3>2. CASE ~TableReplaces(n)
      BY <1>2, <2>3, <3>2
    <3> QED
      BY <3>1, <3>2
  <2>5. \A r \in RelocSites : r[1] # merged =>
           /\ relocs'[r] = relocs[r] /\ (CameTwice(r)' <=> CameTwice(r)) /\ (InImage(r)' <=> InImage(r))
    <3> SUFFICES ASSUME NEW r \in RelocSites, r[1] # merged
                 PROVE  /\ relocs'[r] = relocs[r]
                        /\ CameTwice(r)' <=> CameTwice(r)
                        /\ InImage(r)' <=> InImage(r)
      OBVIOUS
    <3>1. Holder(r) # Sym(n) /\ Target(r) # Sym(n)
      BY <1>2, <2>2
    <3>2. (TookPlace(Holder(r))' <=> TookPlace(Holder(r))) /\ (TookPlace(Target(r))' <=> TookPlace(Target(r)))
      BY <1>2, <2>2, <3>1
    <3>3. relocs'[r] = relocs[r]
      BY <1>2, <2>4, <3>1
    <3>4. InImage(r)' <=> InImage(r)
      BY <1>1, <2>1 DEF InImage
    <3> QED
      BY <3>2, <3>3, <3>4 DEF CameTwice, CodeReloc
  <2>6. ASSUME NEW r \in SourceRelocs
        PROVE  relocs'[r] = PushedWithHolder(r)' + PushedWithTarget(r)'
    <3>1. r \in RelocSites /\ relocs[r] = PushedWithHolder(r) + PushedWithTarget(r)
      BY <2>1 DEF CountInv, SourceRelocs
    <3>2. \A id \in Ids : TookPlace(id)' <=> TookPlace(id) \/ (TableReplaces(n) /\ id = Sym(n))
      BY <2>2
    <3>3. \A id \in Ids : id = Sym(n) => ~TookPlace(id)
      BY <2>2
    <3>4. Holder(r) \in Ids /\ Target(r) \in Ids
      BY <1>2, <3>1
    <3>5. PushedWithHolder(r)' = PushedWithHolder(r)
             + (IF TableReplaces(n) /\ Holder(r) = Sym(n) THEN 1 ELSE 0)
      <4>1. TookPlace(Holder(r))' <=> TookPlace(Holder(r)) \/ (TableReplaces(n) /\ Holder(r) = Sym(n))
        BY <3>2, <3>4
      <4>2. Holder(r) = Sym(n) => ~TookPlace(Holder(r))
        BY <3>3, <3>4
      <4> QED
        BY <4>1, <4>2 DEF PushedWithHolder
    <3>6. PushedWithTarget(r)' = PushedWithTarget(r)
             + (IF TableReplaces(n) /\ Target(r) = Sym(n) /\ Crossing(r) THEN 1 ELSE 0)
      <4>1. TookPlace(Target(r))' <=> TookPlace(Target(r)) \/ (TableReplaces(n) /\ Target(r) = Sym(n))
        BY <3>2, <3>4
      <4>2. Target(r) = Sym(n) => ~TookPlace(Target(r))
        BY <3>3, <3>4
      <4> QED
        BY <4>1, <4>2 DEF PushedWithTarget, Crossing, CodeReloc, DataReloc
    <3>7. PushedWithHolder(r) \in Nat /\ PushedWithTarget(r) \in Nat
      BY DEF PushedWithHolder, PushedWithTarget
    <3> QED
      BY <2>4, <3>1, <3>5, <3>6, <3>7
  <2>7. \A id \in newVals' : id[2] \in FuncNames => ~TookPlace(id)'
    <3>1. CASE TableReplaces(n)
      <4>1. /\ newVals' \subseteq newVals \cup NewValue(n)
            /\ n \in FuncNames => newVals' = newVals
        BY <2>3, <3>1, MergeAssumption DEF ReplaceFunction, ReplaceData
      <4>2. Sym(n) \notin newVals
        BY <2>1, <2>2 DEF ImageInv, NewValsAreNew, TableIsMerged
      <4>3. \A id \in newVals' : id[2] \in FuncNames => id \in newVals /\ id # Sym(n) /\ id \in Ids
        BY <2>2, <4>1, <4>2 DEF NewValue, TypeOK
      <4> QED
        BY <2>1, <2>2, <4>3 DEF CountInv
    <3>2. CASE ~TableReplaces(n)
      <4>1. newVals' \subseteq newVals \cup {Sym(n)} /\ newVals \subseteq Ids
        <5>1. MergeLocal(n) \/ AddSymbol(n) \/ KeepSymbol(n)
          BY <1>7, <3>2, LookPushes
        <5> QED
          BY <5>1 DEF MergeLocal, AddSymbol, KeepSymbol, NewValue, TypeOK
      <4> QED
        BY <2>1, <2>2, <3>2, <4>1 DEF CountInv
    <3> QED
      BY <3>1, <3>2
  <2>8. (\A id \in Replaced : TookPlace(dstmap[id]))'
    <3> SUFFICES ASSUME NEW id \in Replaced' PROVE TookPlace(dstmap[id])'
      OBVIOUS
    <3>1. dstmap \in [Ids -> Ids] /\ id \in Ids
      BY DEF TypeOK, Replaced
    <3>2. CASE dstmap'[id] = dstmap[id]
      <4>1. id \in Replaced
        BY <3>2 DEF Replaced
      <4>2. TookPlace(dstmap[id]) /\ dstmap[id] \in Ids
        BY <2>1, <3>1, <4>1 DEF CountInv
      <4>3. PICK now \in Ids : now = dstmap[id]
        BY <4>2
      <4> QED
        BY <2>2, <3>2, <4>2, <4>3 DEF TookPlace
    <3>3. CASE dstmap'[id] # dstmap[id]
      <4>1. TableReplaces(n)
        BY <2>3, <3>3
      <4>2. dstmap'[id] = Sym(n)
        BY <2>3, <3>1, <3>3, <4>1 DEF ReplaceFunction, ReplaceData
      <4>3. PICK now \in Ids : now = Sym(n)
        BY <2>2
      <4>4. TookPlace(now)' /\ now = dstmap'[id]
        BY <2>2, <4>1, <4>2, <4>3
      <4> QED
        BY <4>4 DEF TookPlace
    <3> QED
      BY <3>2, <3>3
  <2>9. \A r \in RelocSites : r[1] > merged' => relocs'[r] = 0
    BY <1>2, <1>3, <2>1, <2>5 DEF CountInv
  <2>10. \A r \in RelocSites : (r[1] < merged' \/ ~busy') /\ InImage(r)' =>
           relocs'[r] = IF CameTwice(r)' THEN 2 ELSE 1
    BY <1>2, <1>3, <2>1, <2>5 DEF CountInv
  <2> QED
    BY <2>1, <2>6, <2>7, <2>8, <2>9, <2>10 DEF CountInv
<1> QED
  BY <1>4, <1>5, <1>6, <1>7 DEF Next, MergeSymbol

\* Between two merges a relocation of the image is in the linker's list once, or
\* twice if it came with what it refers to as well (RelocsOnceButKnown).
THEOREM RelocsOnceCorrect == Spec => []RelocsOnceButKnown
<1>1. Init => CountInv
  BY DEF Init, CountInv, InImage
<1>2. CountInv => RelocsOnceButKnown
  BY DEF CountInv, RelocsOnceButKnown, Idle
<1> QED
  BY <1>1, <1>2, CountStep, TypeCorrect, TableCorrect, SeenIsBoundAlways, RefAlways, ImageAlways, PTL
     DEF Spec

-----------------------------------------------------------------------------
(* Constructors *)

\* CtorsExact without the restriction to the time between two merges: _ctors and
\* the values change together.
CtorInv == ctors = {id \in values : id[2] \in CtorNames /\ Defined(id)}

LEMMA CtorStep == TypeOK /\ ImageInv /\ CtorInv /\ [Next]_vars => CtorInv'
<1> SUFFICES ASSUME TypeOK, ImageInv, CtorInv, [Next]_vars PROVE CtorInv'
  OBVIOUS
<1>0. status' = status /\ \A id : Defined(id)' <=> Defined(id)
  BY MergeStep DEF Defined
<1>1. CASE FinishMerge
  <2>1. /\ busy
        /\ values' = (values \ Replaced) \cup {dstmap[id] : id \in Replaced} \cup newVals
        /\ ctors' = ctors \cup {Sym(n) : n \in {m \in CtorNames :
                              Defined(Sym(m)) /\ Sym(m) \in table}}
    BY <1>1 DEF FinishMerge, ValuesAfter, NewCtors
  <2>2. ASSUME NEW id \in ctors'
        PROVE  id \in values' /\ id[2] \in CtorNames /\ Defined(id)
    <3>1. CASE id \in ctors
      <4>1. id \in values /\ id[2] \in CtorNames /\ Defined(id)
        BY <3>1 DEF CtorInv
      <4>2. id \notin Replaced
        BY <2>1, <4>1 DEF ImageInv, ReplacedAreOld, Undef, Defined
      <4> QED
        BY <2>1, <4>1, <4>2
    <3>2. ASSUME NEW n \in CtorNames, id = Sym(n), Defined(Sym(n)), Sym(n) \in table
          PROVE  id \in values' /\ id[2] \in CtorNames /\ Defined(id)
      <4>1. id[1] = merged /\ id[2] = n /\ Comes(id)
        BY <3>2, MergeAssumption DEF Sym, HasValue, Comes, LeftBehind, Holders
      <4> QED
        BY <2>1, <3>2, <4>1 DEF ImageInv, NewHasValue
    <3> QED
      BY <2>1, <2>2, <3>1, <3>2
  <2>3. ASSUME NEW id \in values', id[2] \in CtorNames, Defined(id)
        PROVE  id \in ctors'
    <3>1. CASE id \in values
      BY <2>1, <2>3, <3>1 DEF CtorInv
    <3>2. CASE id \notin values
      <4>1. id \in table /\ id[1] = merged
        BY <2>1, <2>3, <3>2 DEF ImageInv, ReplacedAreOld, NewValsAreNew
      <4>2. id = Sym(id[2])
        BY <4>1 DEF Sym, TypeOK, Ids
      <4> QED
        BY <2>1, <2>3, <4>1, <4>2
    <3> QED
      BY <3>1, <3>2
  <2> QED
    BY <1>0, <2>2, <2>3 DEF CtorInv
<1>2. CASE UNCHANGED <<values, ctors>>
  BY <1>0, <1>2 DEF CtorInv
<1>3. BeginMerge \/ MergeSymbol \/ Linked \/ UNCHANGED vars => UNCHANGED <<values, ctors>>
  BY DEF BeginMerge, MergeSymbol, MergeLocal, AddSymbol, ReplaceFunction, ReplaceData, RelocsForData,
     KeepSymbol, Take, Linked, vars, result
<1> QED
  BY <1>1, <1>2, <1>3 DEF Next

\* Constructors are run exactly when their function is in the image (CtorsExact).
THEOREM CtorsCorrect == Spec => []CtorsExact
<1>1. Init => CtorInv
  BY DEF Init, CtorInv
<1>2. CtorInv => CtorsExact
  BY DEF CtorInv, CtorsExact
<1> QED
  BY <1>1, <1>2, CtorStep, TypeCorrect, ImageAlways, PTL DEF Spec

-----------------------------------------------------------------------------
(* ImportOrder *)

-----------------------------------------------------------------------------
(* Sequences *)

\* r is q without its place p.
Removes(q, r, p) ==
    /\ p \in 1..Len(q)
    /\ Len(r) = Len(q) - 1
    /\ \A i \in 1..Len(r) : r[i] = IF i < p THEN q[i] ELSE q[i + 1]

\* r is q with v before the place k.
Inserts(q, r, k, v) ==
    /\ k \in 1..Len(q) + 1
    /\ Len(r) = Len(q) + 1
    /\ \A i \in 1..Len(r) :
         r[i] = IF i < k THEN q[i] ELSE IF i = k THEN v ELSE q[i - 1]

LEMMA RemoveAtRemoves ==
    ASSUME NEW S, NEW q \in Seq(S), NEW p \in DOMAIN q
    PROVE  RemoveAt(q, p) \in Seq(S) /\ Removes(q, RemoveAt(q, p), p)
<1> DEFINE a == SubSeq(q, 1, p - 1)
           b == SubSeq(q, p + 1, Len(q))
<1>1. Len(q) \in Nat /\ DOMAIN q = 1..Len(q) /\ p \in 1..Len(q)
  BY LenProperties
<1>2. \A i \in 1..Len(q) : q[i] \in S
  BY ElementOfSeq
<1>3. a \in Seq(S) /\ Len(a) = p - 1 /\ \A i \in 1..p-1 : a[i] = q[i]
  <2>1. \A i \in 1..p-1 : q[i] \in S
    BY <1>1, <1>2
  <2>2. /\ a \in Seq(S)
        /\ Len(a) = IF 1 <= p - 1 THEN (p - 1) - 1 + 1 ELSE 0
        /\ \A i \in 1..(p - 1) - 1 + 1 : a[i] = q[1 + i - 1]
    BY <1>1, <2>1, SubSeqProperties
  <2> HIDE DEF a
  <2> QED
    BY <1>1, <2>2
<1>4. b \in Seq(S) /\ Len(b) = Len(q) - p /\ \A i \in 1..Len(q) - p : b[i] = q[p + i]
  <2>1. \A i \in p+1..Len(q) : q[i] \in S
    BY <1>1, <1>2
  <2>2. /\ b \in Seq(S)
        /\ Len(b) = IF p + 1 <= Len(q) THEN Len(q) - (p + 1) + 1 ELSE 0
        /\ \A i \in 1..Len(q) - (p + 1) + 1 : b[i] = q[(p + 1) + i - 1]
    BY <1>1, <2>1, SubSeqProperties
  <2> HIDE DEF b
  <2>3. Len(b) = Len(q) - p
    BY <1>1, <2>2
  <2>4. ASSUME NEW i \in 1..Len(q) - p
        PROVE  b[i] = q[p + i]
    <3>1. i \in 1..Len(q) - (p + 1) + 1 /\ (p + 1) + i - 1 = p + i
      BY <1>1
    <3>2. b[i] = q[(p + 1) + i - 1]
      BY <2>2, <3>1
    <3> QED
      BY <3>1, <3>2
  <2> QED
    BY <2>2, <2>3, <2>4
<1>5. RemoveAt(q, p) = a \o b
  BY DEF RemoveAt
<1> HIDE DEF a, b
<1>6. /\ a \o b \in Seq(S)
      /\ Len(a \o b) = Len(a) + Len(b)
      /\ \A i \in 1..Len(a) + Len(b) :
            (a \o b)[i] = IF i <= Len(a) THEN a[i] ELSE b[i - Len(a)]
  BY <1>3, <1>4, ConcatProperties
<1> DEFINE r == a \o b
<1>7. r \in Seq(S) /\ Len(r) = Len(q) - 1
  BY <1>1, <1>3, <1>4, <1>6
<1>8. \A i \in 1..Len(r) : r[i] = IF i < p THEN q[i] ELSE q[i + 1]
  <2> HIDE DEF r
  <2>1. \A i \in 1..Len(q)-1 : r[i] = IF i <= Len(a) THEN a[i] ELSE b[i - Len(a)]
    BY <1>1, <1>3, <1>4, <1>6 DEF r
  <2>2. ASSUME NEW i \in 1..Len(r)
        PROVE  r[i] = IF i < p THEN q[i] ELSE q[i + 1]
    <3>1. i \in 1..Len(q)-1
      BY <1>1, <1>7
    <3>2. CASE i < p
      BY <1>1, <1>3, <2>1, <3>1, <3>2
    <3>3. CASE ~(i < p)
      <4>1. r[i] = b[i - (p - 1)]
        BY <1>1, <1>3, <2>1, <3>1, <3>3
      <4>2. i - (p - 1) \in 1..Len(q) - p /\ p + (i - (p - 1)) = i + 1
        BY <1>1, <3>1, <3>3
      <4>3. b[i - (p - 1)] = q[p + (i - (p - 1))]
        BY <1>4, <4>2
      <4> QED
        BY <3>3, <4>1, <4>2, <4>3
    <3> QED
      BY <3>2, <3>3
  <2> QED
    BY <2>2
<1> HIDE DEF r
<1>9. RemoveAt(q, p) = r
  BY <1>5 DEF r
<1> QED
  BY <1>1, <1>7, <1>8, <1>9 DEF Removes

LEMMA AppendInserts ==
    ASSUME NEW S, NEW q \in Seq(S), NEW v \in S
    PROVE  Append(q, v) \in Seq(S) /\ Inserts(q, Append(q, v), Len(q) + 1, v)
<1> DEFINE r == Append(q, v)
<1>1. /\ r \in Seq(S) /\ Len(r) = Len(q) + 1
      /\ \A i \in 1..Len(q) : r[i] = q[i]
      /\ r[Len(q) + 1] = v
  BY AppendProperties
<1>2. Len(q) \in Nat
  BY LenProperties
<1> HIDE DEF r
<1>3. Inserts(q, r, Len(q) + 1, v)
  BY <1>1, <1>2 DEF Inserts
<1> QED
  BY <1>1, <1>3 DEF r

LEMMA OneIsSeq ==
    ASSUME NEW S, NEW v \in S
    PROVE  <<v>> \in Seq(S)
  OBVIOUS

LEMMA ConcatOneInserts ==
    ASSUME NEW S, NEW q \in Seq(S), NEW v \in S
    PROVE  <<v>> \o q \in Seq(S) /\ Inserts(q, <<v>> \o q, 1, v)
<1> DEFINE o == <<v>>
           r == o \o q
<1>1. o \in Seq(S) /\ Len(o) = 1 /\ o[1] = v
  OBVIOUS
<1>2. Len(q) \in Nat
  BY LenProperties
<1> HIDE DEF o
<1>3. /\ r \in Seq(S)
      /\ Len(r) = Len(o) + Len(q)
      /\ \A i \in 1..Len(o) + Len(q) : r[i] = IF i <= Len(o) THEN o[i] ELSE q[i - Len(o)]
  BY <1>1, ConcatProperties
<1> HIDE DEF r
<1>4. Inserts(q, r, 1, v)
  BY <1>1, <1>2, <1>3 DEF Inserts
<1> QED
  BY <1>3, <1>4 DEF r, o

LEMMA InsertAtInserts ==
    ASSUME NEW S, NEW q \in Seq(S), NEW v \in S, NEW k \in 1..Len(q)
    PROVE  InsertAt(q, k, v) \in Seq(S) /\ Inserts(q, InsertAt(q, k, v), k, v)
<1> DEFINE o == <<v>>
           a == SubSeq(q, 1, k - 1)
           b == SubSeq(q, k, Len(q))
           ao == a \o o
           r == ao \o b
<1>1. Len(q) \in Nat /\ \A i \in 1..Len(q) : q[i] \in S
  BY LenProperties, ElementOfSeq
<1>2. o \in Seq(S) /\ Len(o) = 1 /\ o[1] = v
  OBVIOUS
<1>3. a \in Seq(S) /\ Len(a) = k - 1 /\ \A i \in 1..k-1 : a[i] = q[i]
  <2>1. /\ a \in Seq(S)
        /\ Len(a) = IF 1 <= k - 1 THEN (k - 1) - 1 + 1 ELSE 0
        /\ \A i \in 1..(k - 1) - 1 + 1 : a[i] = q[1 + i - 1]
    BY <1>1, SubSeqProperties
  <2> HIDE DEF a
  <2> QED
    BY <1>1, <2>1
<1>4. b \in Seq(S) /\ Len(b) = Len(q) - k + 1 /\ \A i \in 1..Len(q)-k+1 : b[i] = q[k + i - 1]
  <2>1. /\ b \in Seq(S)
        /\ Len(b) = IF k <= Len(q) THEN Len(q) - k + 1 ELSE 0
        /\ \A i \in 1..Len(q) - k + 1 : b[i] = q[k + i - 1]
    BY <1>1, SubSeqProperties
  <2> HIDE DEF b
  <2> QED
    BY <1>1, <2>1
<1> HIDE DEF o, a, b
<1>5. /\ ao \in Seq(S)
      /\ Len(ao) = Len(a) + Len(o)
      /\ \A i \in 1..Len(a) + Len(o) : ao[i] = IF i <= Len(a) THEN a[i] ELSE o[i - Len(a)]
  BY <1>2, <1>3, ConcatProperties
<1> HIDE DEF ao
<1>6. Len(ao) = k /\ ao[k] = v /\ \A i \in 1..k-1 : ao[i] = q[i]
  BY <1>1, <1>2, <1>3, <1>5
<1>7. /\ r \in Seq(S)
      /\ Len(r) = Len(ao) + Len(b)
      /\ \A i \in 1..Len(ao) + Len(b) : r[i] = IF i <= Len(ao) THEN ao[i] ELSE b[i - Len(ao)]
  <2>1. ao \in Seq(S) /\ b \in Seq(S)
    BY <1>4, <1>5
  <2> QED
    BY <2>1, ConcatProperties
<1> HIDE DEF r
<1>8. Inserts(q, r, k, v)
  <2>1. Len(r) = Len(q) + 1
    BY <1>1, <1>4, <1>6, <1>7
  <2>2. ASSUME NEW i \in 1..Len(r)
        PROVE  r[i] = IF i < k THEN q[i] ELSE IF i = k THEN v ELSE q[i - 1]
    <3>1. i \in Int /\ r[i] = IF i <= k THEN ao[i] ELSE b[i - k]
      BY <1>1, <1>6, <1>7
    <3>2. CASE i < k
      <4>1. i \in 1..k-1 /\ i <= k /\ i < k
        BY <1>1, <3>1, <3>2
      <4> QED
        BY <1>6, <3>1, <4>1
    <3>3. CASE i = k
      BY <1>6, <3>1, <3>3
    <3>4. CASE i > k
      <4>0. i - k \in 1..Len(q)-k+1
        <5>1. i <= Len(q) + 1
          BY <1>1, <2>1
        <5> QED
          BY <1>1, <3>1, <3>4, <5>1
      <4>1. k + (i - k) - 1 = i - 1 /\ ~(i <= k) /\ i # k /\ ~(i < k)
        BY <1>1, <3>1, <3>4
      <4>2. b[i - k] = q[k + (i - k) - 1]
        BY <1>4, <4>0
      <4>3. r[i] = q[i - 1]
        BY <3>1, <4>1, <4>2
      <4> QED
        BY <4>1, <4>3
    <3> QED
      BY <1>1, <3>1, <3>2, <3>3, <3>4
  <2> QED
    BY <1>1, <2>1, <2>2 DEF Inserts
<1>9. InsertAt(q, k, v) = r
  BY DEF InsertAt, r, ao, a, b, o
<1> QED
  BY <1>7, <1>8, <1>9

\* What an insertion does to a list in which imports come first, and to a list
\* of distinct values.
ImportsInFront(q) ==
    \A i, j \in DOMAIN q : q[i] \in Definitions /\ q[j] \in Imports => j < i

LEMMA InsertKeepsFront ==
    ASSUME NEW S, NEW q \in Seq(S), NEW r \in Seq(S), NEW v, NEW k,
           ImportsInFront(q), Inserts(q, r, k, v),
           \/ v \notin Definitions /\ \A j \in 1..k-1 : q[j] \notin Definitions
           \/ v \notin Imports /\ k = Len(q) + 1
    PROVE  ImportsInFront(r)
<1>1. Len(q) \in Nat /\ DOMAIN q = 1..Len(q) /\ DOMAIN r = 1..Len(q) + 1 /\ k \in 1..Len(q) + 1
  BY LenProperties DEF Inserts
<1>2. \A i \in 1..Len(q) + 1 :
         r[i] = IF i < k THEN q[i] ELSE IF i = k THEN v ELSE q[i - 1]
  BY <1>1 DEF Inserts
<1>3. \A i, j \in 1..Len(q) : q[i] \in Definitions /\ q[j] \in Imports => j < i
  BY <1>1 DEF ImportsInFront
<1> SUFFICES ASSUME NEW i \in 1..Len(q) + 1, NEW j \in 1..Len(q) + 1,
                    r[i] \in Definitions, r[j] \in Imports
             PROVE  j < i
  BY <1>1 DEF ImportsInFront
<1>4. i \in Int /\ j \in Int /\ k \in Int
  BY <1>1
<1>5. CASE v \notin Definitions /\ \A n \in 1..k-1 : q[n] \notin Definitions
  <2>1. i # k
    BY <1>2, <1>5
  <2>2. ~(i < k)
    BY <1>1, <1>2, <1>4, <1>5
  <2>3. i > k /\ r[i] = q[i - 1] /\ i - 1 \in 1..Len(q)
    BY <1>1, <1>2, <1>4, <2>1, <2>2
  <2>4. CASE j <= k
    BY <1>4, <2>3, <2>4
  <2>5. CASE j > k
    <3>1. r[j] = q[j - 1] /\ j - 1 \in 1..Len(q)
      BY <1>1, <1>2, <1>4, <2>5
    <3>2. j - 1 < i - 1
      BY <1>3, <2>3, <3>1
    <3> QED
      BY <1>4, <3>2
  <2> QED
    BY <1>4, <2>4, <2>5
<1>6. CASE v \notin Imports /\ k = Len(q) + 1
  <2>1. j # k
    BY <1>2, <1>6
  <2>2. j \in 1..Len(q) /\ r[j] = q[j] /\ j < k
    BY <1>1, <1>2, <1>4, <1>6, <2>1
  <2>3. CASE i = k
    BY <2>2, <2>3
  <2>4. CASE i # k
    <3>1. i \in 1..Len(q) /\ r[i] = q[i]
      BY <1>1, <1>2, <1>4, <1>6, <2>4
    <3> QED
      BY <1>3, <2>2, <3>1
  <2> QED
    BY <2>3, <2>4
<1> QED
  BY <1>5, <1>6

LEMMA RemoveKeepsFront ==
    ASSUME NEW S, NEW q \in Seq(S), NEW r \in Seq(S), NEW p,
           ImportsInFront(q), Removes(q, r, p)
    PROVE  ImportsInFront(r)
<1>1. Len(q) \in Nat /\ DOMAIN q = 1..Len(q) /\ DOMAIN r = 1..Len(q) - 1 /\ p \in 1..Len(q)
  BY LenProperties DEF Removes
<1>2. \A i \in 1..Len(q) - 1 : r[i] = IF i < p THEN q[i] ELSE q[i + 1]
  BY <1>1 DEF Removes
<1>3. \A i, j \in 1..Len(q) : q[i] \in Definitions /\ q[j] \in Imports => j < i
  BY <1>1 DEF ImportsInFront
<1> SUFFICES ASSUME NEW i \in 1..Len(q) - 1, NEW j \in 1..Len(q) - 1,
                    r[i] \in Definitions, r[j] \in Imports
             PROVE  j < i
  BY <1>1 DEF ImportsInFront
<1> DEFINE at(n) == IF n < p THEN n ELSE n + 1
<1>4. at(i) \in 1..Len(q) /\ at(j) \in 1..Len(q)
  BY <1>1
<1>5. r[i] = q[at(i)] /\ r[j] = q[at(j)]
  BY <1>2
<1>6. at(j) < at(i)
  <2> HIDE DEF at
  <2> QED
    BY <1>3, <1>4, <1>5
<1> QED
  BY <1>1, <1>6

LEMMA InsertKeepsDistinct ==
    ASSUME NEW S, NEW q \in Seq(S), NEW r \in Seq(S), NEW v, NEW k,
           Distinct(q), Inserts(q, r, k, v), \A i \in DOMAIN q : q[i] # v
    PROVE  /\ Distinct(r)
           /\ \A i \in DOMAIN r : r[i] = v \/ \E j \in DOMAIN q : r[i] = q[j]
<1>1. Len(q) \in Nat /\ DOMAIN q = 1..Len(q) /\ DOMAIN r = 1..Len(q) + 1 /\ k \in 1..Len(q) + 1
  BY LenProperties DEF Inserts
<1>2. \A i \in 1..Len(q) + 1 :
         r[i] = IF i < k THEN q[i] ELSE IF i = k THEN v ELSE q[i - 1]
  BY <1>1 DEF Inserts
<1>3. \A i, j \in 1..Len(q) : q[i] = q[j] => i = j
  BY <1>1 DEF Distinct
<1> DEFINE at(n) == IF n < k THEN n ELSE n - 1
<1>4. ASSUME NEW i \in 1..Len(q) + 1, i # k
      PROVE  at(i) \in 1..Len(q) /\ r[i] = q[at(i)]
  BY <1>1, <1>2, <1>4
<1>5. ASSUME NEW i \in 1..Len(q) + 1, NEW j \in 1..Len(q) + 1, r[i] = r[j]
      PROVE  i = j
  <2>1. r[k] = v
    BY <1>1, <1>2
  <2>2. i = k <=> j = k
    <3> HIDE DEF at
    <3> QED
      BY <1>1, <1>4, <1>5, <2>1
  <2>3. CASE i # k /\ j # k
    <3>1. at(i) = at(j)
      <4> HIDE DEF at
      <4> QED
        BY <1>3, <1>4, <1>5, <2>3
    <3> QED
      BY <1>1, <2>3, <3>1
  <2> QED
    BY <2>2, <2>3
<1>6. \A i \in 1..Len(q) + 1 : r[i] = v \/ \E j \in 1..Len(q) : r[i] = q[j]
  <2> HIDE DEF at
  <2> QED
    BY <1>1, <1>2, <1>4
<1> QED
  BY <1>1, <1>5, <1>6 DEF Distinct

LEMMA RemoveKeepsDistinct ==
    ASSUME NEW S, NEW q \in Seq(S), NEW r \in Seq(S), NEW p,
           Distinct(q), Removes(q, r, p)
    PROVE  /\ Distinct(r)
           /\ \A i \in DOMAIN r : \E j \in DOMAIN q : r[i] = q[j]
<1>1. Len(q) \in Nat /\ DOMAIN q = 1..Len(q) /\ DOMAIN r = 1..Len(q) - 1 /\ p \in 1..Len(q)
  BY LenProperties DEF Removes
<1>2. \A i \in 1..Len(q) - 1 : r[i] = IF i < p THEN q[i] ELSE q[i + 1]
  BY <1>1 DEF Removes
<1>3. \A i, j \in 1..Len(q) : q[i] = q[j] => i = j
  BY <1>1 DEF Distinct
<1> DEFINE at(n) == IF n < p THEN n ELSE n + 1
<1>4. ASSUME NEW i \in 1..Len(q) - 1
      PROVE  at(i) \in 1..Len(q) /\ r[i] = q[at(i)]
  BY <1>1, <1>2
<1>5. ASSUME NEW i \in 1..Len(q) - 1, NEW j \in 1..Len(q) - 1, r[i] = r[j]
      PROVE  i = j
  <2>1. at(i) = at(j)
    <3> HIDE DEF at
    <3> QED
      BY <1>3, <1>4, <1>5
  <2> QED
    BY <1>1, <2>1
<1> HIDE DEF at
<1>6. \A i \in 1..Len(q) - 1 : \E j \in 1..Len(q) : r[i] = q[j]
  BY <1>4
<1> QED
  BY <1>1, <1>5, <1>6 DEF Distinct

-----------------------------------------------------------------------------
(* Actions *)

LEMMA Kinds ==
    /\ \A v : ~(v \in Imports /\ v \in Definitions)
    /\ \A s \in Spaces : \A v \in ValuesOf[s] : v \in Imports \/ v \in Definitions
    /\ \A v \in ValuesOf["globals"] \cup ValuesOf["tags"] : v \notin Definitions
  BY ImportAssumption

LEMMA VectorsInSpaces ==
    /\ Len(Vectors) = 4
    /\ Vectors[1] = "functions" /\ Vectors[2] = "globals"
    /\ Vectors[3] = "tags" /\ Vectors[4] = "tables"
    /\ \A p \in 1..4 : Vectors[p] \in Spaces
  BY DEF Vectors, Spaces

\* Where an import goes: in front, at the insertion point, or at the end.
InsertsAtPoint(q, r, i, v) ==
    \E k \in Int :
        /\ Inserts(q, r, k, v)
        /\ i = -1 => k = 1
        /\ i # -1 /\ i < Len(q) => k = i + 1
        /\ i # -1 /\ i >= Len(q) => k = Len(q) + 1

LEMMA WithImportInserts ==
    ASSUME NEW S, NEW q \in Seq(S), NEW v \in S, NEW i \in Int, i >= -1
    PROVE  /\ WithImport(q, i, v) \in Seq(S)
           /\ InsertsAtPoint(q, WithImport(q, i, v), i, v)
<1> DEFINE r == WithImport(q, i, v)
           at(k) == /\ Inserts(q, r, k, v)
                    /\ i = -1 => k = 1
                    /\ i # -1 /\ i < Len(q) => k = i + 1
                    /\ i # -1 /\ i >= Len(q) => k = Len(q) + 1
<1> SUFFICES r \in Seq(S) /\ \E k \in Int : at(k)
  BY DEF InsertsAtPoint
<1>1. Len(q) \in Nat
  BY LenProperties
<1>2. CASE i = -1
  <2>1. r = <<v>> \o q
    BY <1>2 DEF WithImport
  <2>2. r \in Seq(S) /\ Inserts(q, r, 1, v)
    BY <2>1, ConcatOneInserts
  <2>3. at(1)
    BY <1>2, <2>2
  <2> QED
    BY <2>2, <2>3
<1>3. CASE i # -1 /\ i < Len(q)
  <2>1. i + 1 \in 1..Len(q) /\ ~(i >= Len(q))
    BY <1>1, <1>3
  <2>2. r = InsertAt(q, i + 1, v)
    BY <1>3, <2>1 DEF WithImport, SpliceIn
  <2>3. r \in Seq(S) /\ Inserts(q, r, i + 1, v)
    BY <2>1, <2>2, InsertAtInserts
  <2>4. at(i + 1) /\ i + 1 \in Int
    BY <1>1, <1>3, <2>1, <2>3
  <2> QED
    BY <2>3, <2>4
<1>4. CASE i # -1 /\ i >= Len(q)
  <2>1. r = Append(q, v)
    BY <1>4 DEF WithImport, SpliceIn
  <2>2. r \in Seq(S) /\ Inserts(q, r, Len(q) + 1, v)
    BY <2>1, AppendInserts
  <2>3. at(Len(q) + 1) /\ Len(q) + 1 \in Int
    BY <1>1, <1>4, <2>2
  <2> QED
    BY <2>2, <2>3
<1> QED
  BY <1>1, <1>2, <1>3, <1>4

\* Up to an insertion point there are imports only.
LEMMA InsertionPointAmongImports ==
    ASSUME NEW s \in Spaces, NEW q \in Seq(ValuesOf[s]), NEW start \in Int, start >= -1,
           NEW i, InsertionPoint(q, start, i)
    PROVE  /\ i \in Int /\ i >= -1
           /\ \A p \in DOMAIN q : p <= i => q[p] \in Imports
           /\ start = -1 => i <= Len(q)
<1>1. Len(q) \in Nat /\ DOMAIN q = 1..Len(q)
  BY LenProperties
<1>2. CASE i = start /\ \A p \in DOMAIN q : q[p] \in Imports
  BY <1>1, <1>2
<1>3. ASSUME NEW p \in DOMAIN q, \A k \in 1..p-1 : q[k] \in Imports, i = p - 2
      PROVE  /\ i \in Int /\ i >= -1
             /\ \A k \in DOMAIN q : k <= i => q[k] \in Imports
             /\ i <= Len(q)
  BY <1>1, <1>3
<1> QED
  BY <1>2, <1>3 DEF InsertionPoint

LEMMA ReplaceStep ==
    ASSUME OrderTypeOK, NEW old, NEW def, Replace(old, def)
    PROVE  /\ DOMAIN vec' = Spaces
           /\ \A s \in Spaces : s # "functions" => vec'[s] = vec[s]
           /\ def \in DefinitionsOf("functions")
           /\ \E m \in Seq(ValuesOf["functions"]) :
                /\ \E p : Removes(vec["functions"], m, p)
                /\ \/ vec'["functions"] = m
                   \/ /\ ~In(def, "functions")
                      /\ vec'["functions"] \in Seq(ValuesOf["functions"])
                      /\ Inserts(m, vec'["functions"], Len(m) + 1, def)
<1> DEFINE q == vec["functions"]
<1>1. q \in Seq(ValuesOf["functions"]) /\ DOMAIN vec = Spaces /\ "functions" \in Spaces
  BY DEF OrderTypeOK, Spaces
<1>2. def \in DefinitionsOf("functions") /\ def \in ValuesOf["functions"]
  BY DEF OrderTypeOK, Replace, DefinitionsOf
<1>3. PICK p \in DOMAIN q :
         vec' = [vec EXCEPT !["functions"] =
                   IF In(def, "functions") THEN RemoveAt(@, p)
                   ELSE Append(RemoveAt(@, p), def)]
  BY DEF Replace, IndexOf
<1>4. RemoveAt(q, p) \in Seq(ValuesOf["functions"]) /\ Removes(q, RemoveAt(q, p), p)
  BY <1>1, RemoveAtRemoves
<1> DEFINE m == RemoveAt(q, p)
<1>5. Append(m, def) \in Seq(ValuesOf["functions"]) /\ Inserts(m, Append(m, def), Len(m) + 1, def)
  BY <1>2, <1>4, AppendInserts
<1>6. vec'["functions"] = IF In(def, "functions") THEN m ELSE Append(m, def)
  BY <1>1, <1>3
<1>7. DOMAIN vec' = Spaces /\ \A s \in Spaces : s # "functions" => vec'[s] = vec[s]
  BY <1>1, <1>3
<1> HIDE DEF m
<1>8. m \in Seq(ValuesOf["functions"]) /\ Removes(q, m, p)
  BY <1>4 DEF m
<1> QED
  BY <1>2, <1>5, <1>6, <1>7, <1>8

\* The next value of the vector whose turn it is.
LEMMA InsertStep ==
    ASSUME OrderTypeOK, Insert
    PROVE  \E s \in Spaces : \E v \in ValuesOf[s] :
             /\ place > 0 /\ s = Vectors[place]
             /\ call # "none" /\ call' = call /\ place' = place
             /\ replaced' = replaced /\ stage' = stage
             /\ new[s] # <<>> /\ v = Head(new[s])
             /\ DOMAIN new' = Spaces /\ new'[s] = Tail(new[s])
             /\ \A t \in Spaces : t # s => new'[t] = new[t]
             /\ DOMAIN vec' = Spaces
             /\ \A t \in Spaces : t # s => vec'[t] = vec[t]
             /\ \/ s = "functions" /\ In(v, s) /\ vec' = vec /\ impidx' = impidx
                \/ /\ s = "functions" => ~In(v, s)
                   /\ v \in Imports
                   /\ vec'[s] = WithImport(vec[s], impidx, v)
                   /\ impidx' = impidx + 1
                \/ /\ s = "functions" => ~In(v, s)
                   /\ v \in Definitions
                   /\ vec'[s] = Append(vec[s], v)
                   /\ impidx' = impidx
<1> DEFINE s == Vectors[place]
           v == Head(new[s])
<1>1. place \in 1..4 /\ DOMAIN vec = Spaces /\ DOMAIN new = Spaces
  <2>1. place \in 0..4 /\ place > 0
    BY VectorsInSpaces DEF OrderTypeOK, Insert
  <2> QED
    BY <2>1 DEF OrderTypeOK
<1>2. s \in Spaces /\ new[s] # <<>> /\ new[s] \in Seq(ValuesOf[s])
  BY <1>1, VectorsInSpaces DEF OrderTypeOK, Insert
<1>3. v \in ValuesOf[s]
  BY <1>2, HeadTailProperties
<1>4. new' = [new EXCEPT ![s] = Tail(@)]
  BY DEF Insert
<1>5. /\ place > 0 /\ call # "none"
      /\ call' = call /\ place' = place /\ replaced' = replaced /\ stage' = stage
      /\ \/ s = "functions" /\ In(v, s) /\ UNCHANGED <<vec, impidx>>
         \/ /\ ~(s = "functions" /\ In(v, s))
            /\ v \in Imports
            /\ vec' = [vec EXCEPT ![s] = WithImport(@, impidx, v)]
            /\ impidx' = impidx + 1
         \/ /\ ~(s = "functions" /\ In(v, s))
            /\ v \in Definitions
            /\ vec' = [vec EXCEPT ![s] = Append(@, v)]
            /\ UNCHANGED impidx
  BY DEF Insert
<1> HIDE DEF s, v
<1>6. /\ DOMAIN new' = Spaces /\ new'[s] = Tail(new[s])
      /\ \A t \in Spaces : t # s => new'[t] = new[t]
  BY <1>1, <1>2, <1>4
<1>7. /\ DOMAIN vec' = Spaces
      /\ \A t \in Spaces : t # s => vec'[t] = vec[t]
  BY <1>1, <1>2, <1>5
<1>8. \/ s = "functions" /\ In(v, s) /\ vec' = vec /\ impidx' = impidx
      \/ /\ s = "functions" => ~In(v, s)
         /\ v \in Imports
         /\ vec'[s] = WithImport(vec[s], impidx, v)
         /\ impidx' = impidx + 1
      \/ /\ s = "functions" => ~In(v, s)
         /\ v \in Definitions
         /\ vec'[s] = Append(vec[s], v)
         /\ impidx' = impidx
  BY <1>1, <1>2, <1>5
<1>9. s = Vectors[place] /\ v = Head(new[s])
  BY DEF s, v
<1> QED
  BY <1>2, <1>3, <1>5, <1>6, <1>7, <1>8, <1>9

\* What performLinking does to one of the vectors.
LinkChange(s) ==
    \/ \E p : Removes(vec[s], vec'[s], p)
    \/ \E v \in ImportsOf(s) : \E k :
          /\ ~In(v, s)
          /\ Inserts(vec[s], vec'[s], k, v)
          /\ \A j \in 1..k-1 : vec[s][j] \notin Definitions
    \/ \E v \in DefinitionsOf(s) :
          /\ ~In(v, s)
          /\ Inserts(vec[s], vec'[s], Len(vec[s]) + 1, v)
    \/ \E v \in ImportsOf(s) : \E p \in DOMAIN vec[s] :
          /\ ~In(v, s)
          /\ vec[s][p] \in Imports
          /\ vec'[s] = [vec[s] EXCEPT ![p] = v]

LEMMA LateStep ==
    ASSUME OrderTypeOK, NEW s \in Spaces, NEW q, Late(s, q)
    PROVE  /\ call = "none" /\ UNCHANGED idle /\ stage' = "linking"
           /\ DOMAIN vec' = Spaces /\ vec'[s] = q
           /\ \A t \in Spaces : t # s => vec'[t] = vec[t]
  BY DEF Late, OrderTypeOK

LEMMA LinkStep ==
    ASSUME OrderTypeOK, Link
    PROVE  \E s \in Spaces :
             /\ call = "none" /\ UNCHANGED idle /\ stage' = "linking"
             /\ DOMAIN vec' = Spaces
             /\ \A t \in Spaces : t # s => vec'[t] = vec[t]
             /\ vec'[s] \in Seq(ValuesOf[s])
             /\ LinkChange(s)
<1> DEFINE F == "functions"
           T == "tables"
<1>1. F \in Spaces /\ T \in Spaces /\ \A s \in Spaces : vec[s] \in Seq(ValuesOf[s])
  BY DEF OrderTypeOK, Spaces
<1>2. {"functions", "globals"} \subseteq Spaces
  BY DEF Spaces
<1>3. ASSUME NEW s \in {"functions", "globals"}, NEW imp \in ImportsOf(s), AppendImport(s, imp)
      PROVE  \E q : Late(s, q) /\ q \in Seq(ValuesOf[s]) /\ (vec'[s] = q => LinkChange(s))
  <2> DEFINE q == <<imp>> \o vec[s]
  <2>1. s \in Spaces /\ vec[s] \in Seq(ValuesOf[s]) /\ imp \in ValuesOf[s]
    BY <1>1 DEF Spaces, ImportsOf
  <2>2. q \in Seq(ValuesOf[s]) /\ Inserts(vec[s], q, 1, imp)
    BY <2>1, ConcatOneInserts
  <2>3. Late(s, q) /\ ~In(imp, s)
    BY <1>3 DEF AppendImport
  <2>4. \A j \in 1..1-1 : vec[s][j] \notin Definitions
    OBVIOUS
  <2> HIDE DEF q
  <2>5. ASSUME vec'[s] = q
        PROVE  LinkChange(s)
    BY <2>2, <2>3, <2>4, <2>5 DEF LinkChange
  <2> QED
    BY <2>2, <2>3, <2>5
<1>4. ASSUME NEW def \in DefinitionsOf(F), PushFunction(def)
      PROVE  \E q : Late(F, q) /\ q \in Seq(ValuesOf[F]) /\ (vec'[F] = q => LinkChange(F))
  <2> DEFINE q == Append(vec[F], def)
  <2>1. q \in Seq(ValuesOf[F]) /\ Inserts(vec[F], q, Len(vec[F]) + 1, def)
    BY <1>1, AppendInserts DEF DefinitionsOf
  <2>2. Late(F, q) /\ ~In(def, F)
    BY <1>4 DEF PushFunction
  <2> HIDE DEF q
  <2> QED
    BY <2>1, <2>2 DEF LinkChange
<1>5. ASSUME NEW old, RemoveFunction(old)
      PROVE  \E q : Late(F, q) /\ q \in Seq(ValuesOf[F]) /\ (vec'[F] = q => LinkChange(F))
  <2>1. PICK p \in DOMAIN vec[F] : Late(F, RemoveAt(vec[F], p))
    BY <1>5 DEF RemoveFunction
  <2> DEFINE q == RemoveAt(vec[F], p)
  <2>2. q \in Seq(ValuesOf[F]) /\ Removes(vec[F], q, p)
    BY <1>1, RemoveAtRemoves
  <2>3. Late(F, q)
    BY <2>1
  <2> HIDE DEF q
  <2> QED
    BY <2>2, <2>3 DEF LinkChange
<1>6. ASSUME NEW old \in ImportsOf(F), NEW imp \in ImportsOf(F), ImportFromLibrary(old, imp)
      PROVE  \E q : Late(F, q) /\ q \in Seq(ValuesOf[F]) /\ (vec'[F] = q => LinkChange(F))
  <2>1. PICK p \in DOMAIN vec[F] :
          /\ vec[F][p] = old
          /\ Late(F, IF In(imp, F) THEN RemoveAt(vec[F], p) ELSE ReplaceAt(vec[F], p, imp))
    BY <1>6 DEF ImportFromLibrary, IndexOf
  <2>2. CASE In(imp, F)
    <3> DEFINE q == RemoveAt(vec[F], p)
    <3>1. q \in Seq(ValuesOf[F]) /\ Removes(vec[F], q, p)
      BY <1>1, RemoveAtRemoves
    <3>2. Late(F, q)
      BY <2>1, <2>2
    <3> HIDE DEF q
    <3>3. ASSUME vec'[F] = q
          PROVE  LinkChange(F)
      <4>1. Removes(vec[F], vec'[F], p)
        BY <3>1, <3>3
      <4> QED
        BY <4>1 DEF LinkChange
    <3> QED
      BY <3>1, <3>2, <3>3
  <2>3. CASE ~In(imp, F)
    <3> DEFINE q == [vec[F] EXCEPT ![p] = imp]
    <3>1. p \in 1..Len(vec[F]) /\ imp \in ValuesOf[F]
      BY <1>1, LenProperties DEF ImportsOf
    <3>2. q \in Seq(ValuesOf[F])
      BY <1>1, <3>1, ExceptSeq
    <3>3. Late(F, q)
      BY <2>1, <2>3 DEF ReplaceAt
    <3>4. vec[F][p] \in Imports
      BY <2>1 DEF ImportsOf
    <3>5. ASSUME vec'[F] = q
          PROVE  LinkChange(F)
      <4>1. /\ ~In(imp, F) /\ vec[F][p] \in Imports
            /\ vec'[F] = [vec[F] EXCEPT ![p] = imp]
        BY <2>3, <3>4, <3>5
      <4> HIDE DEF q
      <4> QED
        BY <4>1 DEF LinkChange
    <3> HIDE DEF q
    <3> QED
      BY <3>2, <3>3, <3>5
  <2> QED
    BY <2>2, <2>3
<1>7. ASSUME NEW imp \in ImportsOf(T), PushTable(imp)
      PROVE  \E q : Late(T, q) /\ q \in Seq(ValuesOf[T]) /\ (vec'[T] = q => LinkChange(T))
  <2> DEFINE q == <<imp>>
  <2>1. vec[T] = <<>> /\ Late(T, q)
    BY <1>7 DEF PushTable
  <2>2. q \in Seq(ValuesOf[T])
    <3>1. imp \in ValuesOf[T]
      BY DEF ImportsOf
    <3> QED
      BY <3>1, OneIsSeq
  <2>3. Inserts(vec[T], q, 1, imp) /\ ~In(imp, T)
    BY <2>1 DEF Inserts, In, ToSet
  <2>4. \A j \in 1..1-1 : vec[T][j] \notin Definitions
    OBVIOUS
  <2> HIDE DEF q
  <2> QED
    BY <2>1, <2>2, <2>3, <2>4 DEF LinkChange
<1>8. ASSUME NEW s \in Spaces,
             \E q : Late(s, q) /\ q \in Seq(ValuesOf[s]) /\ (vec'[s] = q => LinkChange(s))
      PROVE  /\ call = "none" /\ UNCHANGED idle /\ stage' = "linking"
             /\ DOMAIN vec' = Spaces
             /\ \A t \in Spaces : t # s => vec'[t] = vec[t]
             /\ vec'[s] \in Seq(ValuesOf[s])
             /\ LinkChange(s)
  BY <1>8, LateStep
<1>9. CASE \E s \in {"functions", "globals"} : \E imp \in ImportsOf(s) : AppendImport(s, imp)
  BY <1>2, <1>3, <1>8, <1>9
<1> QED
  BY <1>1, <1>4, <1>5, <1>6, <1>7, <1>8, <1>9 DEF Link

\* What a call may bring.
LEMMA NewForTyped ==
    ASSUME NEW s \in Spaces, NEW q \in NewFor(s)
    PROVE  /\ q \in Seq(ValuesOf[s]) /\ Distinct(q)
           /\ \A i \in DOMAIN q : ~In(q[i], s)
<1> DEFINE S == {v \in ValuesOf[s] : ~In(v, s)}
<1>1. q \in BoundedSeq(S, MaxNew) /\ Distinct(q)
  BY DEF NewFor, Lists
<1>2. PICK n \in 0..MaxNew : q \in [1..n -> S]
  BY <1>1 DEF BoundedSeq, SeqOf
<1>3. n \in Nat /\ \A i \in 1..n : q[i] \in S
  BY <1>2, ImportAssumption
<1>4. \A i \in 1..n : q[i] \in ValuesOf[s]
  BY <1>3
<1>5. q \in Seq(ValuesOf[s])
  BY <1>2, <1>3, <1>4
<1>6. \A i \in DOMAIN q : ~In(q[i], s)
  BY <1>2, <1>3
<1> QED
  BY <1>1, <1>5, <1>6

LEMMA BeginStep ==
    ASSUME OrderTypeOK, NEW c, BeginCall(c)
    PROVE  /\ call' = c /\ place' = 0 /\ vec' = vec /\ impidx' = impidx
           /\ stage' \in {"objects", "archives"}
           /\ replaced' \subseteq ImportsOf("functions") \X DefinitionsOf("functions")
           /\ DOMAIN new' = Spaces
           /\ \A s \in Spaces : new'[s] \in NewFor(s)
           /\ InSourceOrder(new'["tables"])
<1>1. /\ call' = c /\ place' = 0 /\ vec' = vec /\ impidx' = impidx
      /\ stage' \in {"objects", "archives"}
  BY DEF BeginCall
<1>2. replaced' \in Replacements
  BY DEF BeginCall
<1>3. PICK f \in NewFor("functions"), g \in NewFor("globals"),
           a \in NewFor("tags"), t \in NewFor("tables") :
         /\ InSourceOrder(t)
         /\ new' = [s \in Spaces |->
                     CASE s = "functions" -> f [] s = "globals" -> g
                       [] s = "tags" -> a [] s = "tables" -> t]
  BY DEF BeginCall
<1>4. /\ DOMAIN new' = Spaces /\ new'["functions"] = f /\ new'["globals"] = g
      /\ new'["tags"] = a /\ new'["tables"] = t
  BY <1>3 DEF Spaces
<1>5. \A s \in Spaces : new'[s] \in NewFor(s)
  BY <1>4 DEF Spaces
<1>6. ASSUME NEW e \in replaced'
      PROVE  e \in ImportsOf("functions") \X DefinitionsOf("functions")
  <2> DEFINE J == {i \in Imports : In(i, "functions")}
             D == {d \in DefinitionsOf("functions") : ~In(d, "functions")}
  <2>0. PICK I \in SUBSET J : replaced' \in {{<<i, h[i]>> : i \in I} : h \in [I -> D]}
    BY <1>2 DEF Replacements
  <2>1. PICK h \in [I -> D] : replaced' = {<<i, h[i]>> : i \in I}
    BY <2>0
  <2>2. PICK i \in I : e = <<i, h[i]>>
    BY <1>6, <2>1
  <2>3. i \in Imports /\ In(i, "functions") /\ h[i] \in DefinitionsOf("functions")
    BY <2>0, <2>1, <2>2
  <2>4. vec["functions"] \in Seq(ValuesOf["functions"])
    BY DEF OrderTypeOK, Spaces
  <2>5. i \in ValuesOf["functions"]
    BY <2>3, <2>4, LenProperties, ElementOfSeq DEF In, ToSet
  <2> QED
    BY <2>2, <2>3, <2>5 DEF ImportsOf
<1> QED
  BY <1>1, <1>3, <1>4, <1>5, <1>6

LEMMA NextVectorStep ==
    ASSUME OrderTypeOK, NextVector
    PROVE  /\ call # "none" /\ replaced = {} /\ place \in 0..3 /\ place' = place + 1
           /\ UNCHANGED <<vec, stage, call, replaced, new>>
           /\ impidx' \in Int /\ impidx' >= -1
           /\ \A p \in DOMAIN vec[Vectors[place']] :
                p <= impidx' => vec[Vectors[place']][p] \in Imports
           /\ place' = 1 => impidx' <= Len(vec[Vectors[place']])
<1>1. /\ call # "none" /\ replaced = {} /\ place' = place + 1
      /\ UNCHANGED <<vec, stage, call, replaced, new>>
      /\ InsertionPoint(vec[Vectors[place + 1]], Start(place + 1), impidx')
  BY DEF NextVector
<1>2. place \in 0..3
  BY VectorsInSpaces DEF NextVector, OrderTypeOK
<1>3. Vectors[place + 1] \in Spaces /\ vec[Vectors[place + 1]] \in Seq(ValuesOf[Vectors[place + 1]])
  BY <1>2, VectorsInSpaces DEF OrderTypeOK
<1>4. Start(place + 1) \in Int /\ Start(place + 1) >= -1 /\ (place + 1 = 1 => Start(place + 1) = -1)
  BY <1>2 DEF Start, OrderTypeOK
<1>5. /\ impidx' \in Int /\ impidx' >= -1
      /\ \A p \in DOMAIN vec[Vectors[place + 1]] :
           p <= impidx' => vec[Vectors[place + 1]][p] \in Imports
      /\ Start(place + 1) = -1 => impidx' <= Len(vec[Vectors[place + 1]])
  BY <1>1, <1>3, <1>4, InsertionPointAmongImports
<1> QED
  BY <1>1, <1>2, <1>4, <1>5

\* The vectors hold what is meant for them, and the locals of a call are in range,
\* after every splice.
THEOREM ImportTypeCorrect == OrderSpec => []OrderTypeOK
<1>1. OrderInit => OrderTypeOK
  BY EmptySeq, VectorsInSpaces DEF OrderInit, OrderTypeOK
<1>2. OrderTypeOK /\ [OrderNext]_orderVars => OrderTypeOK'
  <2> SUFFICES ASSUME OrderTypeOK, [OrderNext]_orderVars
               PROVE  OrderTypeOK'
    OBVIOUS
  <2>1. ASSUME NEW c \in {"module", "linker"}, BeginCall(c)
        PROVE  OrderTypeOK'
    <3>1. \A s \in Spaces : new'[s] \in Seq(ValuesOf[s])
      BY <2>1, BeginStep, NewForTyped
    <3> QED
      BY <2>1, <3>1, BeginStep, VectorsInSpaces DEF OrderTypeOK
  <2>2. ASSUME NEW old, NEW def, Replace(old, def)
        PROVE  OrderTypeOK'
    <3>1. DOMAIN vec' = Spaces /\ \A s \in Spaces : vec'[s] \in Seq(ValuesOf[s])
      <4>1. DOMAIN vec' = Spaces /\ \A s \in Spaces : s # "functions" => vec'[s] = vec[s]
        BY <2>2, ReplaceStep
      <4>2. vec'["functions"] \in Seq(ValuesOf["functions"])
        BY <2>2, ReplaceStep
      <4>3. \A s \in Spaces : vec[s] \in Seq(ValuesOf[s])
        BY DEF OrderTypeOK
      <4> QED
        BY <4>1, <4>2, <4>3
    <3>2. replaced' \subseteq replaced /\ UNCHANGED <<stage, call, place, new, impidx>>
      BY <2>2 DEF Replace
    <3> QED
      BY <3>1, <3>2 DEF OrderTypeOK
  <2>3. CASE NextVector
    <3>1. place' \in 0..4
      BY <2>3, NextVectorStep
    <3> QED
      BY <2>3, <3>1, NextVectorStep, VectorsInSpaces DEF OrderTypeOK
  <2>4. CASE Insert
    <3>1. PICK s \in Spaces : \E v \in ValuesOf[s] :
             /\ call' = call /\ place' = place
             /\ replaced' = replaced /\ stage' = stage
             /\ new[s] # <<>>
             /\ DOMAIN new' = Spaces /\ new'[s] = Tail(new[s])
             /\ \A t \in Spaces : t # s => new'[t] = new[t]
             /\ DOMAIN vec' = Spaces
             /\ \A t \in Spaces : t # s => vec'[t] = vec[t]
             /\ \/ vec' = vec /\ impidx' = impidx
                \/ vec'[s] = WithImport(vec[s], impidx, v) /\ impidx' = impidx + 1
                \/ vec'[s] = Append(vec[s], v) /\ impidx' = impidx
      BY <2>4, InsertStep
    <3>2. PICK v \in ValuesOf[s] :
             \/ vec' = vec /\ impidx' = impidx
             \/ vec'[s] = WithImport(vec[s], impidx, v) /\ impidx' = impidx + 1
             \/ vec'[s] = Append(vec[s], v) /\ impidx' = impidx
      BY <3>1
    <3>3. impidx \in Int /\ impidx >= -1 /\ vec[s] \in Seq(ValuesOf[s]) /\ new[s] \in Seq(ValuesOf[s])
      BY DEF OrderTypeOK
    <3>4. impidx' \in Int /\ impidx' >= -1
      BY <3>2, <3>3
    <3>5. vec'[s] \in Seq(ValuesOf[s])
      <4>1. WithImport(vec[s], impidx, v) \in Seq(ValuesOf[s])
        BY <3>3, WithImportInserts
      <4>2. Append(vec[s], v) \in Seq(ValuesOf[s])
        BY <3>3, AppendInserts
      <4> QED
        BY <3>2, <3>3, <4>1, <4>2
    <3>6. new'[s] \in Seq(ValuesOf[s])
      BY <3>1, <3>3, HeadTailProperties
    <3>7. \A t \in Spaces : vec'[t] \in Seq(ValuesOf[t]) /\ new'[t] \in Seq(ValuesOf[t])
      BY <3>1, <3>5, <3>6 DEF OrderTypeOK
    <3> QED
      BY <3>1, <3>4, <3>7 DEF OrderTypeOK
  <2>5. CASE EndCall
    BY <2>5, VectorsInSpaces DEF EndCall, OrderTypeOK
  <2>6. CASE Link
    <3>1. /\ UNCHANGED idle /\ stage' = "linking" /\ DOMAIN vec' = Spaces
          /\ \A s \in Spaces : vec'[s] \in Seq(ValuesOf[s])
      BY <2>6, LinkStep DEF OrderTypeOK
    <3> QED
      BY <3>1 DEF OrderTypeOK, idle
  <2>7. CASE UNCHANGED orderVars
    BY <2>7 DEF orderVars, idle, OrderTypeOK
  <2> QED
    BY <2>1, <2>2, <2>3, <2>4, <2>5, <2>6, <2>7 DEF OrderNext, Merge
<1> QED
  BY <1>1, <1>2, PTL DEF OrderSpec

-----------------------------------------------------------------------------
(* Imports first *)

\* While imports are still to come, there are imports only up to the insertion
\* point; in functions it stays inside the vector, so that a function pushed in
\* between lies behind it.
PointInv ==
    call # "none" /\ place > 0 =>
        /\ replaced = {}
        /\ place = 1 => impidx <= Len(vec["functions"])
        /\ (\E j \in DOMAIN new[Vectors[place]] : new[Vectors[place]][j] \in Imports) =>
              \A p \in DOMAIN vec[Vectors[place]] :
                 p <= impidx => vec[Vectors[place]][p] \in Imports

OrderInv ==
    /\ \A s \in Spaces : ImportsInFront(vec[s])
    /\ call # "none" => InSourceOrder(new["tables"])
    /\ PointInv

\* An import goes in among imports, and the insertion point may move past it.
LEMMA ImportGoesInFront ==
    ASSUME NEW s \in Spaces, NEW q \in Seq(ValuesOf[s]), NEW r \in Seq(ValuesOf[s]),
           NEW v \in Imports, NEW i \in Int, i >= -1, InsertsAtPoint(q, r, i, v),
           ImportsInFront(q), \A p \in DOMAIN q : p <= i => q[p] \in Imports
    PROVE  /\ ImportsInFront(r)
           /\ \A p \in DOMAIN r : p <= i + 1 => r[p] \in Imports
           /\ i <= Len(q) => i + 1 <= Len(r)
<1>1. PICK k \in Int :
        /\ Inserts(q, r, k, v)
        /\ i = -1 => k = 1
        /\ i # -1 /\ i < Len(q) => k = i + 1
        /\ i # -1 /\ i >= Len(q) => k = Len(q) + 1
  BY DEF InsertsAtPoint
<1>2. /\ Len(q) \in Nat /\ DOMAIN q = 1..Len(q) /\ DOMAIN r = 1..Len(r)
      /\ Len(r) = Len(q) + 1
  BY <1>1, LenProperties DEF Inserts
<1>3. \A j \in 1..k-1 : q[j] \in Imports
  <2>1. \A j \in 1..k-1 : j \in 1..Len(q) /\ j <= i
    BY <1>1, <1>2
  <2> QED
    BY <1>2, <2>1
<1>4. ImportsInFront(r)
  <2>1. v \notin Definitions /\ \A j \in 1..k-1 : q[j] \notin Definitions
    BY <1>3, Kinds
  <2> QED
    BY <1>1, <2>1, InsertKeepsFront
<1>5. ASSUME NEW p \in DOMAIN r, p <= i + 1
      PROVE  r[p] \in Imports
  <2>1. p \in 1..Len(q) + 1 /\ p <= k
    BY <1>1, <1>2, <1>5
  <2>2. r[p] = IF p < k THEN q[p] ELSE IF p = k THEN v ELSE q[p - 1]
    BY <1>1, <1>2, <2>1 DEF Inserts
  <2>3. CASE p = k
    BY <2>2, <2>3
  <2>4. CASE p < k
    BY <1>1, <1>3, <2>1, <2>2, <2>4
  <2> QED
    BY <1>1, <2>1, <2>3, <2>4
<1> QED
  BY <1>2, <1>4, <1>5

\* One value less to come.
LEMMA TailFacts ==
    ASSUME NEW S, NEW q \in Seq(S), q # <<>>
    PROVE  /\ 1 \in DOMAIN q /\ q[1] = Head(q)
           /\ Tail(q) \in Seq(S)
           /\ \A j \in DOMAIN Tail(q) :
                j + 1 \in DOMAIN q /\ j + 1 > 1 /\ Tail(q)[j] = q[j + 1]
<1>1. Len(q) \in Nat \ {0} /\ DOMAIN q = 1..Len(q)
  BY EmptySeq, LenProperties
<1>2. /\ Tail(q) \in Seq(S) /\ Len(Tail(q)) = Len(q) - 1
      /\ \A i \in 1..Len(Tail(q)) : Tail(q)[i] = q[i + 1]
  BY HeadTailProperties
<1>3. DOMAIN Tail(q) = 1..Len(q) - 1
  BY <1>2, LenProperties
<1>4. Head(q) = q[1]
  OBVIOUS
<1> QED
  BY <1>1, <1>2, <1>3, <1>4

LEMMA TailInOrder ==
    ASSUME NEW S, NEW q \in Seq(S), q # <<>>, InSourceOrder(q)
    PROVE  /\ InSourceOrder(Tail(q))
           /\ (\E j \in DOMAIN Tail(q) : Tail(q)[j] \in Imports) => Head(q) \in Imports
<1>1. /\ 1 \in DOMAIN q /\ q[1] = Head(q)
      /\ \A j \in DOMAIN Tail(q) :
                j + 1 \in DOMAIN q /\ j + 1 > 1 /\ Tail(q)[j] = q[j + 1]
  BY TailFacts
<1>2. \A i, j \in DOMAIN q : i < j /\ q[j] \in Imports => q[i] \in Imports
  BY DEF InSourceOrder
<1>3. ASSUME NEW i \in DOMAIN Tail(q), NEW j \in DOMAIN Tail(q), i < j, Tail(q)[j] \in Imports
      PROVE  Tail(q)[i] \in Imports
  <2>1. i + 1 < j + 1
    <3>1. Tail(q) \in Seq(S)
      BY TailFacts
    <3>2. i \in 1..Len(Tail(q)) /\ j \in 1..Len(Tail(q))
      BY <3>1, LenProperties
    <3> QED
      BY <1>3, <3>2
  <2> QED
    BY <1>1, <1>2, <1>3, <2>1
<1>4. ASSUME NEW j \in DOMAIN Tail(q), Tail(q)[j] \in Imports
      PROVE  Head(q) \in Imports
  <2>1. 1 < j + 1
    BY <1>1
  <2> QED
    BY <1>1, <1>2, <1>4, <2>1
<1> QED
  BY <1>3, <1>4 DEF InSourceOrder

LEMMA OrderBegin ==
    ASSUME OrderTypeOK, OrderInv, NEW c, BeginCall(c)
    PROVE  OrderInv'
<1>1. vec' = vec /\ place' = 0 /\ InSourceOrder(new'["tables"])
  BY BeginStep
<1>2. PointInv'
  BY <1>1 DEF PointInv
<1> QED
  BY <1>1, <1>2 DEF OrderInv

LEMMA OrderReplace ==
    ASSUME OrderTypeOK, OrderInv, NEW old, NEW def, Replace(old, def)
    PROVE  OrderInv'
<1> DEFINE q == vec["functions"]
           r == vec'["functions"]
<1>1. /\ def \in DefinitionsOf("functions")
      /\ \A s \in Spaces : s # "functions" => vec'[s] = vec[s]
  BY ReplaceStep
<1>2. PICK m \in Seq(ValuesOf["functions"]) :
         /\ \E p : Removes(q, m, p)
         /\ \/ r = m
            \/ r \in Seq(ValuesOf["functions"]) /\ Inserts(m, r, Len(m) + 1, def)
  BY ReplaceStep
<1>3. q \in Seq(ValuesOf["functions"]) /\ ImportsInFront(q)
  BY DEF OrderTypeOK, OrderInv, Spaces
<1> HIDE DEF q, r
<1>4. ImportsInFront(m)
  BY <1>2, <1>3, RemoveKeepsFront
<1>5. ImportsInFront(r)
  <2>1. CASE r = m
    BY <1>4, <2>1
  <2>2. CASE r \in Seq(ValuesOf["functions"]) /\ Inserts(m, r, Len(m) + 1, def)
    <3>1. def \notin Imports
      BY <1>1, Kinds DEF DefinitionsOf
    <3> QED
      BY <1>4, <2>2, <3>1, InsertKeepsFront
  <2> QED
    BY <1>2, <2>1, <2>2
<1>6. \A s \in Spaces : ImportsInFront(vec'[s])
  BY <1>1, <1>5 DEF r, OrderInv
<1>7. replaced # {} /\ call # "none" /\ UNCHANGED <<call, place, new, impidx>>
  BY DEF Replace
<1>8. ~(place > 0)
  BY <1>7 DEF OrderInv, PointInv
<1>9. PointInv'
  BY <1>7, <1>8 DEF PointInv
<1> QED
  BY <1>6, <1>7, <1>9 DEF OrderInv

LEMMA OrderNextVector ==
    ASSUME OrderTypeOK, OrderInv, NextVector
    PROVE  OrderInv'
<1>1. /\ replaced = {} /\ place' = place + 1
      /\ UNCHANGED <<vec, stage, call, replaced, new>>
      /\ \A p \in DOMAIN vec[Vectors[place']] :
                p <= impidx' => vec[Vectors[place']][p] \in Imports
      /\ place' = 1 => impidx' <= Len(vec[Vectors[place']])
  BY NextVectorStep
<1>2. PointInv'
  BY <1>1, VectorsInSpaces DEF PointInv
<1> QED
  BY <1>1, <1>2 DEF OrderInv

LEMMA OrderInsert ==
    ASSUME OrderTypeOK, OrderInv, Insert
    PROVE  OrderInv'
<1> DEFINE Left(q) == \E j \in DOMAIN q : q[j] \in Imports
           Upto(q, i) == \A p \in DOMAIN q : p <= i => q[p] \in Imports
<1>1. PICK s \in Spaces : \E v \in ValuesOf[s] :
             /\ place > 0 /\ s = Vectors[place]
             /\ call # "none" /\ call' = call /\ place' = place
             /\ replaced' = replaced
             /\ new[s] # <<>> /\ v = Head(new[s])
             /\ new'[s] = Tail(new[s])
             /\ \A t \in Spaces : t # s => new'[t] = new[t]
             /\ \A t \in Spaces : t # s => vec'[t] = vec[t]
             /\ \/ vec' = vec /\ impidx' = impidx
                \/ /\ v \in Imports
                   /\ vec'[s] = WithImport(vec[s], impidx, v)
                   /\ impidx' = impidx + 1
                \/ /\ v \in Definitions
                   /\ vec'[s] = Append(vec[s], v)
                   /\ impidx' = impidx
  BY InsertStep
<1> DEFINE v == Head(new[s])
           q == vec[s]
           r == vec'[s]
           n == new[s]
<1>2. /\ place > 0 /\ s = Vectors[place] /\ call # "none" /\ call' = call /\ place' = place
      /\ replaced' = replaced /\ n # <<>> /\ v \in ValuesOf[s] /\ new'[s] = Tail(n)
      /\ \A t \in Spaces : t # s => new'[t] = new[t] /\ vec'[t] = vec[t]
  BY <1>1
<1>3. \/ vec' = vec /\ impidx' = impidx
      \/ v \in Imports /\ r = WithImport(q, impidx, v) /\ impidx' = impidx + 1
      \/ v \in Definitions /\ r = Append(q, v) /\ impidx' = impidx
  BY <1>1
<1>4. /\ q \in Seq(ValuesOf[s]) /\ n \in Seq(ValuesOf[s])
      /\ impidx \in Int /\ impidx >= -1 /\ place \in 0..4
  BY VectorsInSpaces DEF OrderTypeOK
<1>5. /\ ImportsInFront(q) /\ replaced = {}
      /\ place = 1 => impidx <= Len(vec["functions"])
      /\ Left(n) => Upto(q, impidx)
  BY <1>2 DEF OrderInv, PointInv
<1>6. place = 1 <=> s = "functions"
  BY <1>2, <1>4, VectorsInSpaces
<1> HIDE DEF v, q, r, n
<1>7. Left(Tail(n)) => Left(n)
  BY <1>2, <1>4, TailFacts
<1>8. \A t \in Spaces : t # s => ImportsInFront(vec'[t])
  BY <1>2 DEF OrderInv
<1>9. /\ ImportsInFront(r)
      /\ s = "functions" => impidx' <= Len(r)
      /\ Left(Tail(n)) => Upto(r, impidx')
  <2>1. CASE vec' = vec /\ impidx' = impidx
    <3>1. r = q /\ (s = "functions" => q = vec["functions"])
      BY <2>1 DEF r, q
    <3> QED
      BY <2>1, <3>1, <1>5, <1>6, <1>7
  <2>2. CASE v \in Imports /\ r = WithImport(q, impidx, v) /\ impidx' = impidx + 1
    <3>1. Left(n)
      BY <1>2, <1>4, <2>2, TailFacts DEF v, n
    <3>2. Upto(q, impidx)
      BY <1>5, <3>1
    <3>3. r \in Seq(ValuesOf[s]) /\ InsertsAtPoint(q, r, impidx, v)
      BY <1>2, <1>4, <2>2, WithImportInserts
    <3>4. /\ ImportsInFront(r)
          /\ \A p \in DOMAIN r : p <= impidx + 1 => r[p] \in Imports
          /\ impidx <= Len(q) => impidx + 1 <= Len(r)
      BY <1>4, <1>5, <2>2, <3>2, <3>3, ImportGoesInFront
    <3>5. s = "functions" => impidx <= Len(q)
      BY <1>5, <1>6 DEF q
    <3> QED
      BY <2>2, <3>4, <3>5
  <2>3. CASE v \in Definitions /\ r = Append(q, v) /\ impidx' = impidx
    <3>1. r \in Seq(ValuesOf[s]) /\ Inserts(q, r, Len(q) + 1, v) /\ v \notin Imports
      BY <1>2, <1>4, <2>3, AppendInserts, Kinds
    <3>2. ImportsInFront(r)
      BY <1>4, <1>5, <3>1, InsertKeepsFront
    <3>3. /\ Len(q) \in Nat /\ DOMAIN q = 1..Len(q) /\ DOMAIN r = 1..Len(q) + 1
          /\ Len(r) = Len(q) + 1 /\ \A p \in 1..Len(q) : r[p] = q[p]
      BY <1>4, <3>1, LenProperties DEF Inserts
    <3>4. s = "functions" => impidx <= Len(q)
      BY <1>5, <1>6 DEF q
    <3>5. ASSUME Left(Tail(n))
          PROVE  Upto(r, impidx)
      <4>1. s # "tables"
        <5>1. ASSUME s = "tables"
              PROVE  FALSE
          <6>1. InSourceOrder(n)
            BY <1>2, <5>1 DEF OrderInv, n
          <6>2. v \in Imports
            BY <1>2, <1>4, <6>1, <3>5, TailInOrder DEF v, n
          <6> QED
            BY <3>1, <6>2
        <5> QED
          BY <5>1
      <4>2. s = "functions"
        BY <1>2, <2>3, <4>1, Kinds DEF Spaces
      <4>3. Upto(q, impidx) /\ impidx <= Len(q)
        BY <1>5, <1>7, <3>4, <3>5, <4>2
      <4>4. \A p \in 1..Len(q) + 1 : p <= impidx => p \in 1..Len(q)
        BY <1>4, <3>3, <4>3
      <4> QED
        BY <3>3, <4>3, <4>4
    <3> QED
      BY <1>4, <2>3, <3>2, <3>3, <3>4, <3>5
  <2> QED
    BY <1>3, <2>1, <2>2, <2>3
<1>10. InSourceOrder(new'["tables"])
  <2>1. InSourceOrder(new["tables"])
    BY <1>2 DEF OrderInv
  <2>2. CASE s = "tables"
    BY <1>2, <1>4, <2>1, <2>2, TailInOrder DEF n
  <2>3. CASE s # "tables"
    BY <1>2, <2>1, <2>3 DEF Spaces
  <2> QED
    BY <2>2, <2>3
<1>11. PointInv'
  <2>1. /\ place' = 1 => impidx' <= Len(vec'["functions"])
        /\ Left(new'[s]) => Upto(vec'[s], impidx')
    BY <1>2, <1>6, <1>9 DEF r
  <2> QED
    BY <1>2, <1>5, <2>1 DEF PointInv
<1>12. \A t \in Spaces : ImportsInFront(vec'[t])
  BY <1>8, <1>9 DEF r
<1> QED
  BY <1>10, <1>11, <1>12 DEF OrderInv

LEMMA OrderLink ==
    ASSUME OrderTypeOK, OrderInv, Link
    PROVE  OrderInv'
<1>1. PICK s \in Spaces :
             /\ call = "none" /\ UNCHANGED idle
             /\ \A t \in Spaces : t # s => vec'[t] = vec[t]
             /\ vec'[s] \in Seq(ValuesOf[s])
             /\ LinkChange(s)
  BY LinkStep
<1> DEFINE q == vec[s]
           r == vec'[s]
<1>2. q \in Seq(ValuesOf[s]) /\ r \in Seq(ValuesOf[s]) /\ ImportsInFront(q)
  BY <1>1 DEF OrderTypeOK, OrderInv
<1>3. \/ \E p : Removes(q, r, p)
      \/ \E v \in ImportsOf(s) : \E k :
            Inserts(q, r, k, v) /\ \A j \in 1..k-1 : q[j] \notin Definitions
      \/ \E v \in DefinitionsOf(s) : Inserts(q, r, Len(q) + 1, v)
      \/ \E v \in ImportsOf(s) : \E p \in DOMAIN q :
            q[p] \in Imports /\ r = [q EXCEPT ![p] = v]
  BY <1>1 DEF LinkChange
<1> HIDE DEF q, r
<1>4. ImportsInFront(r)
  <2>1. CASE \E p : Removes(q, r, p)
    BY <1>2, <2>1, RemoveKeepsFront
  <2>2. ASSUME NEW v \in ImportsOf(s), NEW k,
               Inserts(q, r, k, v), \A j \in 1..k-1 : q[j] \notin Definitions
        PROVE  ImportsInFront(r)
    <3>1. v \notin Definitions
      BY Kinds DEF ImportsOf
    <3> QED
      BY <1>2, <2>2, <3>1, InsertKeepsFront
  <2>3. ASSUME NEW v \in DefinitionsOf(s), Inserts(q, r, Len(q) + 1, v)
        PROVE  ImportsInFront(r)
    <3>1. v \notin Imports
      BY Kinds DEF DefinitionsOf
    <3> QED
      BY <1>2, <2>3, <3>1, InsertKeepsFront
  <2>4. ASSUME NEW v \in ImportsOf(s), NEW p \in DOMAIN q,
               q[p] \in Imports, r = [q EXCEPT ![p] = v]
        PROVE  ImportsInFront(r)
    <3>1. v \in Imports /\ v \notin Definitions
      BY Kinds DEF ImportsOf
    <3>2. DOMAIN r = DOMAIN q /\ \A j \in DOMAIN q : r[j] = IF j = p THEN v ELSE q[j]
      BY <1>2, <2>4
    <3>3. \A j \in DOMAIN q : (r[j] \in Definitions => q[j] \in Definitions)
                             /\ (r[j] \in Imports => q[j] \in Imports)
      BY <2>4, <3>1, <3>2
    <3> QED
      BY <1>2, <3>2, <3>3 DEF ImportsInFront
  <2> QED
    BY <1>3, <2>1, <2>2, <2>3, <2>4
<1>5. \A t \in Spaces : ImportsInFront(vec'[t])
  BY <1>1, <1>4 DEF r, OrderInv
<1>6. call' = "none"
  BY <1>1 DEF idle
<1> QED
  BY <1>5, <1>6 DEF OrderInv, PointInv

\* In every vector all imports come before all definitions, after every splice.
THEOREM ImportsFirstCorrect == OrderSpec => []ImportsFirst
<1>1. OrderInit => OrderInv
  <2> SUFFICES ASSUME OrderInit
               PROVE  OrderInv
    OBVIOUS
  <2>1. \A s \in Spaces : vec[s] = <<>>
    BY DEF OrderInit
  <2>2. ImportsInFront(<<>>)
    BY DEF ImportsInFront
  <2>3. call = "none"
    BY DEF OrderInit
  <2> QED
    BY <2>1, <2>2, <2>3 DEF OrderInv, PointInv
<1>2. OrderTypeOK /\ OrderInv /\ [OrderNext]_orderVars => OrderInv'
  <2> SUFFICES ASSUME OrderTypeOK, OrderInv, [OrderNext]_orderVars
               PROVE  OrderInv'
    OBVIOUS
  <2>1. CASE EndCall
    <3>1. vec' = vec /\ call' = "none"
      BY <2>1 DEF EndCall
    <3> QED
      BY <3>1 DEF OrderInv, PointInv
  <2>2. CASE UNCHANGED orderVars
    BY <2>2 DEF orderVars, idle, OrderInv, PointInv
  <2> QED
    BY <2>1, <2>2, OrderBegin, OrderReplace, OrderNextVector, OrderInsert, OrderLink
       DEF OrderNext, Merge
<1>3. OrderInv => ImportsFirst
  BY DEF OrderInv, ImportsInFront, ImportsFirst
<1> QED
  BY <1>1, <1>2, <1>3, ImportTypeCorrect, PTL DEF OrderSpec

-----------------------------------------------------------------------------
(* One index each *)

Lacks(q, v) == \A i \in DOMAIN q : q[i] # v

\* What is still to come in a call is distinct, and not in its vector; functions
\* are looked up when they come.
IndexInv ==
    /\ \A s \in Spaces : Distinct(vec[s])
    /\ call # "none" => \A s \in Spaces :
          /\ Distinct(new[s])
          /\ s # "functions" => \A j \in DOMAIN new[s] : Lacks(vec[s], new[s][j])

LEMMA InIsNotLacks ==
    ASSUME NEW v, NEW s, ~In(v, s)
    PROVE  Lacks(vec[s], v)
  BY DEF In, ToSet, Lacks

LEMMA TailDistinct ==
    ASSUME NEW S, NEW q \in Seq(S), q # <<>>, Distinct(q)
    PROVE  /\ Distinct(Tail(q)) /\ Lacks(Tail(q), Head(q))
           /\ \A j \in DOMAIN Tail(q) : \E i \in DOMAIN q : Tail(q)[j] = q[i]
<1>1. /\ 1 \in DOMAIN q /\ q[1] = Head(q)
      /\ \A j \in DOMAIN Tail(q) : j + 1 \in DOMAIN q /\ j + 1 > 1 /\ Tail(q)[j] = q[j + 1]
  BY TailFacts
<1>2. \A i, j \in DOMAIN q : q[i] = q[j] => i = j
  BY DEF Distinct
<1>3. ASSUME NEW i \in DOMAIN Tail(q), NEW j \in DOMAIN Tail(q), Tail(q)[i] = Tail(q)[j]
      PROVE  i = j
  <2>1. i + 1 = j + 1
    BY <1>1, <1>2, <1>3
  <2>2. Tail(q) \in Seq(S)
    BY TailFacts
  <2>3. i \in 1..Len(Tail(q)) /\ j \in 1..Len(Tail(q))
    BY <2>2, LenProperties
  <2> QED
    BY <2>1, <2>3
<1>4. ASSUME NEW j \in DOMAIN Tail(q)
      PROVE  Tail(q)[j] # Head(q)
  <2>1. j + 1 # 1
    BY <1>1
  <2> QED
    BY <1>1, <1>2, <2>1
<1> QED
  BY <1>1, <1>3, <1>4 DEF Distinct, Lacks

LEMMA IndexBegin ==
    ASSUME OrderTypeOK, IndexInv, NEW c, BeginCall(c)
    PROVE  IndexInv'
<1>1. vec' = vec /\ \A s \in Spaces : new'[s] \in NewFor(s)
  BY BeginStep
<1>2. ASSUME NEW s \in Spaces
      PROVE  Distinct(new'[s]) /\ \A j \in DOMAIN new'[s] : Lacks(vec[s], new'[s][j])
  <2>1. Distinct(new'[s]) /\ \A j \in DOMAIN new'[s] : ~In(new'[s][j], s)
    BY <1>1, NewForTyped
  <2> QED
    BY <2>1, InIsNotLacks
<1> QED
  BY <1>1, <1>2 DEF IndexInv

LEMMA IndexReplace ==
    ASSUME OrderTypeOK, IndexInv, NEW old, NEW def, Replace(old, def)
    PROVE  IndexInv'
<1> DEFINE q == vec["functions"]
           r == vec'["functions"]
<1>1. \A s \in Spaces : s # "functions" => vec'[s] = vec[s]
  BY ReplaceStep
<1>2. PICK m \in Seq(ValuesOf["functions"]) :
         /\ \E p : Removes(q, m, p)
         /\ \/ r = m
            \/ /\ ~In(def, "functions")
               /\ r \in Seq(ValuesOf["functions"]) /\ Inserts(m, r, Len(m) + 1, def)
  BY ReplaceStep
<1>3. /\ q \in Seq(ValuesOf["functions"]) /\ Distinct(q)
      /\ ~In(def, "functions") => Lacks(q, def)
  BY InIsNotLacks DEF OrderTypeOK, IndexInv, Spaces
<1> HIDE DEF q, r
<1>4. Distinct(m) /\ \A i \in DOMAIN m : \E j \in DOMAIN q : m[i] = q[j]
  BY <1>2, <1>3, RemoveKeepsDistinct
<1>5. Distinct(r)
  <2>1. CASE r = m
    BY <1>4, <2>1
  <2>2. CASE /\ ~In(def, "functions")
             /\ r \in Seq(ValuesOf["functions"]) /\ Inserts(m, r, Len(m) + 1, def)
    <3>1. \A i \in DOMAIN m : m[i] # def
      BY <1>3, <1>4, <2>2 DEF Lacks
    <3> QED
      BY <1>4, <2>2, <3>1, InsertKeepsDistinct
  <2> QED
    BY <1>2, <2>1, <2>2
<1>6. new' = new /\ call' = call
  BY DEF Replace
<1> QED
  BY <1>1, <1>5, <1>6 DEF r, IndexInv

LEMMA IndexInsert ==
    ASSUME OrderTypeOK, IndexInv, Insert
    PROVE  IndexInv'
<1>1. PICK s \in Spaces : \E v \in ValuesOf[s] :
             /\ call # "none" /\ call' = call
             /\ new[s] # <<>> /\ v = Head(new[s])
             /\ new'[s] = Tail(new[s])
             /\ \A t \in Spaces : t # s => new'[t] = new[t]
             /\ \A t \in Spaces : t # s => vec'[t] = vec[t]
             /\ \/ s = "functions" /\ vec' = vec
                \/ /\ s = "functions" => ~In(v, s)
                   /\ vec'[s] \in {WithImport(vec[s], impidx, v), Append(vec[s], v)}
  BY InsertStep
<1> DEFINE v == Head(new[s])
           q == vec[s]
           r == vec'[s]
           n == new[s]
<1>2. /\ call # "none" /\ call' = call
      /\ n # <<>> /\ v \in ValuesOf[s] /\ new'[s] = Tail(n)
      /\ \A t \in Spaces : t # s => new'[t] = new[t] /\ vec'[t] = vec[t]
      /\ \/ s = "functions" /\ r = q
         \/ /\ s = "functions" => ~In(v, s)
            /\ r \in {WithImport(q, impidx, v), Append(q, v)}
  BY <1>1
<1>3. q \in Seq(ValuesOf[s]) /\ n \in Seq(ValuesOf[s]) /\ impidx \in Int /\ impidx >= -1
  BY DEF OrderTypeOK
<1>4. /\ Distinct(q) /\ Distinct(n)
      /\ s # "functions" => \A j \in DOMAIN n : Lacks(q, n[j])
      /\ ~In(v, s) => Lacks(q, v)
  BY <1>2, InIsNotLacks DEF IndexInv
<1>5. \A t \in Spaces : t # s =>
         /\ Distinct(vec'[t]) /\ Distinct(new'[t])
         /\ t # "functions" => \A j \in DOMAIN new'[t] : Lacks(vec'[t], new'[t][j])
  BY <1>2 DEF IndexInv
<1>6. 1 \in DOMAIN n /\ n[1] = v
  BY <1>2, <1>3, TailFacts
<1> HIDE DEF v, q, r, n
<1>7. /\ Distinct(Tail(n)) /\ Lacks(Tail(n), v)
      /\ \A j \in DOMAIN Tail(n) : \E i \in DOMAIN n : Tail(n)[j] = n[i]
  BY <1>2, <1>3, <1>4, TailDistinct DEF v, n
<1>8. /\ Distinct(r)
      /\ s # "functions" => \A j \in DOMAIN Tail(n) : Lacks(r, Tail(n)[j])
  <2>1. CASE s = "functions" /\ r = q
    BY <1>4, <2>1
  <2>2. CASE /\ s = "functions" => ~In(v, s)
             /\ r \in {WithImport(q, impidx, v), Append(q, v)}
    <3>1. Lacks(q, v)
      BY <1>4, <1>6, <2>2
    <3>2. r \in Seq(ValuesOf[s]) /\ \E k : Inserts(q, r, k, v)
      <4>1. CASE r = WithImport(q, impidx, v)
        <5>1. r \in Seq(ValuesOf[s]) /\ InsertsAtPoint(q, r, impidx, v)
          BY <1>2, <1>3, <4>1, WithImportInserts
        <5> QED
          BY <5>1 DEF InsertsAtPoint
      <4>2. CASE r = Append(q, v)
        BY <1>2, <1>3, <4>2, AppendInserts
      <4> QED
        BY <2>2, <4>1, <4>2
    <3>3. Distinct(r) /\ \A i \in DOMAIN r : r[i] = v \/ \E j \in DOMAIN q : r[i] = q[j]
      BY <1>3, <1>4, <3>1, <3>2, InsertKeepsDistinct DEF Lacks
    <3>4. ASSUME s # "functions", NEW j \in DOMAIN Tail(n)
          PROVE  Lacks(r, Tail(n)[j])
      <4>1. Lacks(q, Tail(n)[j]) /\ Tail(n)[j] # v
        BY <1>4, <1>7, <3>4 DEF Lacks
      <4> QED
        BY <3>3, <4>1 DEF Lacks
    <3> QED
      BY <3>3, <3>4
  <2> QED
    BY <1>2, <2>1, <2>2
<1>9. \A t \in Spaces :
         /\ Distinct(vec'[t]) /\ Distinct(new'[t])
         /\ t # "functions" => \A j \in DOMAIN new'[t] : Lacks(vec'[t], new'[t][j])
  BY <1>2, <1>5, <1>7, <1>8 DEF r
<1> QED
  BY <1>9 DEF IndexInv

LEMMA IndexLink ==
    ASSUME OrderTypeOK, IndexInv, Link
    PROVE  IndexInv'
<1>1. PICK s \in Spaces :
             /\ call = "none" /\ UNCHANGED idle
             /\ \A t \in Spaces : t # s => vec'[t] = vec[t]
             /\ vec'[s] \in Seq(ValuesOf[s])
             /\ LinkChange(s)
  BY LinkStep
<1> DEFINE q == vec[s]
           r == vec'[s]
<1>2. q \in Seq(ValuesOf[s]) /\ r \in Seq(ValuesOf[s]) /\ Distinct(q)
  BY <1>1 DEF OrderTypeOK, IndexInv
<1>3. \/ \E p : Removes(q, r, p)
      \/ \E v, k : Lacks(q, v) /\ Inserts(q, r, k, v)
      \/ \E v : \E p \in DOMAIN q : Lacks(q, v) /\ r = [q EXCEPT ![p] = v]
  BY <1>1, InIsNotLacks DEF LinkChange
<1> HIDE DEF q, r
<1>4. Distinct(r)
  <2>1. CASE \E p : Removes(q, r, p)
    BY <1>2, <2>1, RemoveKeepsDistinct
  <2>2. CASE \E v, k : Lacks(q, v) /\ Inserts(q, r, k, v)
    BY <1>2, <2>2, InsertKeepsDistinct DEF Lacks
  <2>3. ASSUME NEW v, NEW p \in DOMAIN q, Lacks(q, v), r = [q EXCEPT ![p] = v]
        PROVE  Distinct(r)
    <3>1. DOMAIN r = DOMAIN q /\ \A j \in DOMAIN q : r[j] = IF j = p THEN v ELSE q[j]
      BY <1>2, <2>3
    <3> QED
      BY <1>2, <2>3, <3>1 DEF Distinct, Lacks
  <2> QED
    BY <1>3, <2>1, <2>2, <2>3
<1>5. \A t \in Spaces : Distinct(vec'[t])
  BY <1>1, <1>4 DEF r, IndexInv
<1>6. call' = "none"
  BY <1>1 DEF idle
<1> QED
  BY <1>5, <1>6 DEF IndexInv

\* No value has two indices.
THEOREM OneIndexEachCorrect == OrderSpec => []OneIndexEach
<1>1. OrderInit => IndexInv
  <2> SUFFICES ASSUME OrderInit
               PROVE  IndexInv
    OBVIOUS
  <2>1. (\A s \in Spaces : vec[s] = <<>>) /\ call = "none"
    BY DEF OrderInit
  <2>2. Distinct(<<>>)
    BY DEF Distinct
  <2> QED
    BY <2>1, <2>2 DEF IndexInv
<1>2. OrderTypeOK /\ IndexInv /\ [OrderNext]_orderVars => IndexInv'
  <2> SUFFICES ASSUME OrderTypeOK, IndexInv, [OrderNext]_orderVars
               PROVE  IndexInv'
    OBVIOUS
  <2>1. CASE EndCall
    <3>1. vec' = vec /\ call' = "none"
      BY <2>1 DEF EndCall
    <3> QED
      BY <3>1 DEF IndexInv
  <2>2. CASE NextVector
    BY <2>2 DEF NextVector, IndexInv
  <2>3. CASE UNCHANGED orderVars
    BY <2>3 DEF orderVars, idle, IndexInv
  <2> QED
    BY <2>1, <2>2, <2>3, IndexBegin, IndexReplace, IndexInsert, IndexLink DEF OrderNext, Merge
<1>3. IndexInv => OneIndexEach
  BY DEF IndexInv, OneIndexEach
<1> QED
  BY <1>1, <1>2, <1>3, ImportTypeCorrect, PTL DEF OrderSpec

-----------------------------------------------------------------------------
(* SegmentLayout *)

-----------------------------------------------------------------------------
(* Arithmetic of alignments *)

LEMMA Division ==
  ASSUME NEW x \in Nat, NEW a \in Nat \ {0}
  PROVE  x = a * (x \div a) + (x % a) /\ x % a \in 0..(a - 1) /\ x \div a \in Nat
  OBVIOUS

LEMMA MultipleDivides ==
  ASSUME NEW a \in Nat \ {0}, NEW k \in Nat
  PROVE  (a * k) % a = 0
<1> DEFINE q == (a * k) \div a
<1> DEFINE r == (a * k) % a
<1>1. a * k \in Nat
  OBVIOUS
<1>2. a * k = a * q + r /\ r \in 0..(a - 1) /\ q \in Nat
  BY <1>1, Division
<1> HIDE DEF q, r
<1>3. a * (k - q) = r
  BY <1>2
<1>4. CASE k - q >= 1
  <2>1. a * (k - q) >= a
    BY <1>2, <1>4
  <2> QED
    BY <1>2, <1>3, <2>1
<1>5. CASE k - q <= -1
  <2>1. a * (k - q) <= -a
    BY <1>2, <1>5
  <2> QED
    BY <1>2, <1>3, <2>1
<1>6. CASE k = q
  BY <1>2, <1>3, <1>6 DEF r
<1> QED
  BY <1>2, <1>4, <1>5, <1>6

LEMMA SumDivides ==
  ASSUME NEW x \in Nat, NEW y \in Nat, NEW a \in Nat \ {0}, x % a = 0, y % a = 0
  PROVE  (x + y) % a = 0
<1>1. /\ x = a * (x \div a) /\ x \div a \in Nat
      /\ y = a * (y \div a) /\ y \div a \in Nat
  BY Division
<1>2. x + y = a * ((x \div a) + (y \div a)) /\ (x \div a) + (y \div a) \in Nat
  BY <1>1
<1> QED
  BY <1>2, MultipleDivides

LEMMA DividesTransitive ==
  ASSUME NEW x \in Nat, NEW m \in Nat \ {0}, NEW a \in Nat \ {0}, x % m = 0, m % a = 0
  PROVE  x % a = 0
<1>1. /\ x = m * (x \div m) /\ x \div m \in Nat
      /\ m = a * (m \div a) /\ m \div a \in Nat
  BY Division
<1>2. x = a * ((m \div a) * (x \div m)) /\ (m \div a) * (x \div m) \in Nat
  BY <1>1
<1> QED
  BY <1>2, MultipleDivides

\* Padding is a number of bytes and brings the offset to a multiple.
LEMMA PadToAligns ==
  ASSUME NEW x \in Nat, NEW a \in Nat
  PROVE  PadTo(x, a) \in Nat /\ (a # 0 => (x + PadTo(x, a)) % a = 0)
<1>1. CASE a = 0
  BY <1>1 DEF PadTo
<1>2. CASE a # 0 /\ x % a = 0
  BY <1>2 DEF PadTo
<1>3. CASE a # 0 /\ x % a # 0
  <2>1. x = a * (x \div a) + (x % a) /\ x % a \in 0..(a - 1) /\ x \div a \in Nat
    BY <1>3, Division
  <2>2. x + (a - (x % a)) = a * ((x \div a) + 1) /\ (x \div a) + 1 \in Nat
    BY <2>1
  <2>3. (x + (a - (x % a))) % a = 0
    BY <1>3, <2>2, MultipleDivides
  <2>4. PadTo(x, a) = a - (x % a)
    BY <1>3 DEF PadTo
  <2> QED
    BY <1>3, <2>1, <2>3, <2>4
<1> QED
  BY <1>1, <1>2, <1>3

-----------------------------------------------------------------------------
(* Type correctness *)

LEMMA ConstantsTyped ==
  /\ NumSegments \in Nat
  /\ NumSections \in Nat /\ NumSections >= 3
  /\ Alignments \subseteq Nat /\ Sizes \subseteq Nat
  BY LayoutAssumption

\* LayoutTypeOK, value by value.
LEMMA ValuesTyped ==
  ASSUME LayoutTypeOK
  PROVE  /\ \A i \in Segments : /\ i \in Nat
                                /\ align[i] \in Nat
                                /\ size[i] \in Nat
                                /\ rloc[i] \in Nat
                                /\ section[i] \in Sections
         /\ \A s \in Sections : /\ s \in Nat /\ s >= 1
                                /\ packedSize[s] \in Nat
                                /\ secSize[s] \in Nat
                                /\ padding[s] \in Nat
                                /\ relocStart[s] \in Nat
         /\ cur \in Sections /\ off \in Nat
<1>1. ASSUME NEW i \in Segments
      PROVE  /\ i \in Nat /\ align[i] \in Nat /\ size[i] \in Nat
             /\ rloc[i] \in Nat /\ section[i] \in Sections
  <2>1. align[i] \in Alignments \cup {0}
    BY DEF LayoutTypeOK
  <2>2. size[i] \in Sizes
    BY DEF LayoutTypeOK
  <2>3. rloc[i] \in Nat
    BY DEF LayoutTypeOK
  <2>4. section[i] \in Sections
    BY DEF LayoutTypeOK
  <2>5. i \in Nat
    BY ConstantsTyped DEF Segments
  <2>6. align[i] \in Nat
    <3>1. \A a \in Alignments : a \in Nat
      BY ConstantsTyped
    <3> QED
      BY <2>1, <3>1
  <2>7. size[i] \in Nat
    BY <2>2, ConstantsTyped
  <2> QED
    BY <2>3, <2>4, <2>5, <2>6, <2>7
<1>2. ASSUME NEW s \in Sections
      PROVE  /\ s \in Nat /\ s >= 1 /\ packedSize[s] \in Nat
             /\ secSize[s] \in Nat /\ padding[s] \in Nat /\ relocStart[s] \in Nat
  BY ConstantsTyped DEF LayoutTypeOK, Sections
<1> QED
  BY <1>1, <1>2 DEF LayoutTypeOK

LEMMA PlaceAfterTyped ==
  ASSUME LayoutTypeOK, NEW i \in Segments, NEW pad \in Nat, PlaceAfter(i, pad)
  PROVE  LayoutTypeOK'
<1>1. size[i] \in Nat /\ packedSize[cur] \in Nat /\ padding[cur] \in Nat
  BY ConstantsTyped DEF LayoutTypeOK
<1>2. UNCHANGED <<align, size, section, phase, cur, secSize, off, laid, last, relocStart>>
  BY DEF PlaceAfter, input, layVars
<1> QED
  BY <1>1, <1>2 DEF LayoutTypeOK, PlaceAfter

LEMMA PackStep ==
  ASSUME LayoutTypeOK, NEW i \in Segments, PackFitting(i) \/ PackPadded(i) \/ PackUnaligned(i)
  PROVE  /\ phase = "pack"
         /\ i \in Waiting
         /\ \A j \in Waiting : align[j] = align[i] => i <= j
         /\ \E pad \in Nat :
              /\ PlaceAfter(i, pad)
              /\ align[i] # 0 => (packedSize[cur] + pad) % align[i] = 0
<1>1. packedSize[cur] \in Nat /\ align[i] \in Nat
  BY ValuesTyped
<1>2. CASE PackFitting(i)
  BY <1>1, <1>2 DEF PackFitting, AlignedWaiting, HeadOfClass, Fits
<1>3. CASE PackPadded(i)
  <2>1. PadTo(packedSize[cur], align[i]) \in Nat
    BY <1>1, PadToAligns
  <2>2. align[i] # 0 => (packedSize[cur] + PadTo(packedSize[cur], align[i])) % align[i] = 0
    BY <1>1, PadToAligns
  <2> QED
    BY <1>3, <2>1, <2>2 DEF PackPadded, AlignedWaiting, HeadOfClass
<1>4. CASE PackUnaligned(i)
  BY <1>1, <1>4 DEF PackUnaligned, AlignedWaiting
<1> QED
  BY <1>2, <1>3, <1>4

\* What LaySection does, with the padding named.
LEMMA LayStep ==
  ASSUME LayoutTypeOK, LaySection
  PROVE  \E m \in Alignments \cup {0}, pad \in Nat :
           /\ IsMaxAlign(cur, m)
           /\ last # 0 /\ m # 0 => (off + pad) % m = 0
           /\ last = 0 => pad = 0
           /\ secSize' = IF last = 0 THEN secSize
                         ELSE [secSize EXCEPT ![last] = @ + pad]
           /\ padding' = IF last = 0 THEN padding
                         ELSE [padding EXCEPT ![last] = @ + pad]
           /\ relocStart' = [relocStart EXCEPT ![cur] = off + pad]
           /\ off' = off + pad + packedSize[cur]
<1>1. PICK m \in Alignments \cup {0} :
        /\ IsMaxAlign(cur, m)
        /\ LET pad == IF last = 0 THEN 0 ELSE PadTo(off, m)
           IN  /\ PadLast(pad)
               /\ relocStart' = [relocStart EXCEPT ![cur] = off + pad]
               /\ off' = off + pad + packedSize[cur]
  BY DEF LaySection
<1> DEFINE pad == IF last = 0 THEN 0 ELSE PadTo(off, m)
<1>2. m \in Nat /\ off \in Nat
  BY ConstantsTyped DEF LayoutTypeOK
<1>3. pad \in Nat /\ (last # 0 /\ m # 0 => (off + pad) % m = 0) /\ (last = 0 => pad = 0)
  BY <1>2, PadToAligns
<1> QED
  BY <1>1, <1>3 DEF PadLast

\* Every state of the layout is well typed.
THEOREM LayoutTypeCorrect == LayoutSpec => []LayoutTypeOK
<1>1. LayoutInit => LayoutTypeOK
  BY ConstantsTyped DEF LayoutInit, LayoutTypeOK, Sections
<1>2. LayoutTypeOK /\ [LayoutNext]_layoutVars => LayoutTypeOK'
  <2> SUFFICES ASSUME LayoutTypeOK, [LayoutNext]_layoutVars PROVE LayoutTypeOK'
    OBVIOUS
  <2>1. CASE PackSegment
    BY <2>1, PackStep, PlaceAfterTyped DEF PackSegment
  <2>2. CASE FinishSection
    <3>1. cur' \in Sections /\ phase' \in {"pack", "lay", "done"}
      <4>1. cur \in 1..NumSections /\ phase \in {"pack", "lay", "done"}
        BY DEF LayoutTypeOK, Sections
      <4>2. \/ cur = NumSections /\ phase' \in {"lay", "done"} /\ cur' \in {1, cur}
            \/ cur # NumSections /\ phase' = phase /\ cur' = cur + 1
        BY <2>2 DEF FinishSection
      <4> QED
        BY <4>1, <4>2, ConstantsTyped DEF Sections
    <3> QED
      BY <2>2, <3>1 DEF FinishSection, LayoutTypeOK, input, packVars, layVars
  <2>3. CASE LaySection
    <3>1. PICK m \in Alignments \cup {0}, pad \in Nat :
            /\ secSize' = IF last = 0 THEN secSize
                          ELSE [secSize EXCEPT ![last] = @ + pad]
            /\ padding' = IF last = 0 THEN padding
                          ELSE [padding EXCEPT ![last] = @ + pad]
            /\ relocStart' = [relocStart EXCEPT ![cur] = off + pad]
            /\ off' = off + pad + packedSize[cur]
      BY <2>3, LayStep
    <3>2. laid' = laid \cup {cur} /\ last' = cur /\ UNCHANGED <<input, packVars>>
      BY <2>3 DEF LaySection
    <3>3. cur' \in Sections /\ phase' \in {"pack", "lay", "done"}
      <4>1. cur \in 1..NumSections /\ phase \in {"pack", "lay", "done"}
        BY DEF LayoutTypeOK, Sections
      <4>2. \/ cur = NumSections /\ phase' = "done" /\ cur' = cur
            \/ cur # NumSections /\ phase' = phase /\ cur' = cur + 1
        BY <2>3 DEF LaySection, NextSection
      <4> QED
        BY <4>1, <4>2, ConstantsTyped DEF Sections
    <3>4. secSize' \in [Sections -> Nat] /\ padding' \in [Sections -> Nat]
      BY <3>1 DEF LayoutTypeOK
    <3>5. relocStart' \in [Sections -> Nat] /\ off' \in Nat
      BY <3>1 DEF LayoutTypeOK
    <3> QED
      BY <3>2, <3>3, <3>4, <3>5 DEF LayoutTypeOK, input, packVars
  <2>4. CASE SkipSection
    <3>1. cur' \in Sections /\ phase' \in {"pack", "lay", "done"}
      <4>1. cur \in 1..NumSections /\ phase \in {"pack", "lay", "done"}
        BY DEF LayoutTypeOK, Sections
      <4>2. \/ cur = NumSections /\ phase' \in {"lay", "done"} /\ cur' \in {1, cur}
            \/ cur # NumSections /\ phase' = phase /\ cur' = cur + 1
        BY <2>4 DEF SkipSection, NextSection
      <4> QED
        BY <4>1, <4>2, ConstantsTyped DEF Sections
    <3> QED
      BY <2>4, <3>1 DEF SkipSection, LayoutTypeOK, input, packVars, layVars
  <2>5. CASE Done \/ UNCHANGED layoutVars
    BY <2>5 DEF Done, layoutVars, LayoutTypeOK, input, packVars, layVars
  <2> QED
    BY <2>1, <2>2, <2>3, <2>4, <2>5 DEF LayoutNext
<1> QED
  BY <1>1, <1>2, PTL DEF LayoutSpec

-----------------------------------------------------------------------------
(* Packing *)

\* Sections before the current one are packed and have their size; packed
\* segments lie within their section's packed size, apart from each other, at
\* multiples of their alignment and in the order of their class.
SectionPacked(s) == phase = "pack" => s < cur

PackInv ==
    /\ \A i \in Segments : SectionPacked(section[i]) => i \in packed
    /\ \A s \in Sections : SectionPacked(s) => packedSize[s] <= secSize[s]
    /\ \A s \in Sections : SectionPacked(s) /\ s \notin laid => secSize[s] = packedSize[s]
    /\ \A i \in packed : rloc[i] + size[i] <= packedSize[section[i]]
    /\ \A i, j \in packed : i # j /\ section[i] = section[j]
                              => Apart(rloc[i], size[i], rloc[j], size[j])
    /\ \A i \in packed : align[i] # 0 => rloc[i] % align[i] = 0
    /\ \A i \in Segments, j \in packed :
          i < j /\ section[i] = section[j] /\ align[i] = align[j]
              => i \in packed /\ rloc[i] + size[i] <= rloc[j]

\* Sections are laid in their order, each one ends where the next one starts, and
\* the last one ends at the offset reached.
LayInv ==
    /\ phase = "pack" => last = 0
    /\ phase = "lay" => last < cur
    /\ last = 0 => laid = {} /\ off = 0
    /\ last # 0 => SectionStop(last) = off
    /\ \A s \in laid : s <= last
    /\ \A s, t \in laid : s < t => SectionStop(s) <= SectionStart(t)
    /\ \A s, t \in laid : s < t /\ (~\E u \in laid : s < u /\ u < t)
                             => SectionStop(s) = SectionStart(t)
    /\ \A s \in laid : \A i \in SegmentsOf(s) :
          align[i] # 0 => relocStart[s] % align[i] = 0

LEMMA PackInvStep ==
  ASSUME LayoutTypeOK, LayInv, PackInv, [LayoutNext]_layoutVars
  PROVE  PackInv'
<1>1. CASE PackSegment
  <2>1. PICK i \in Segments : PackFitting(i) \/ PackPadded(i) \/ PackUnaligned(i)
    BY <1>1 DEF PackSegment
  <2>2. /\ phase = "pack" /\ i \in Waiting
        /\ \A j \in Waiting : align[j] = align[i] => i <= j
    BY <2>1, PackStep
  <2>3. PICK pad \in Nat : /\ PlaceAfter(i, pad)
                           /\ align[i] # 0 => (packedSize[cur] + pad) % align[i] = 0
    BY <2>1, PackStep
  <2>4. /\ packed' = packed \cup {i}
        /\ rloc' = [rloc EXCEPT ![i] = packedSize[cur] + pad]
        /\ packedSize' = [packedSize EXCEPT ![cur] = @ + pad + size[i]]
        /\ UNCHANGED <<align, size, section, phase, cur, secSize, laid>>
    BY <2>3 DEF PlaceAfter, input, layVars
  <2>5. section[i] = cur /\ i \notin packed /\ cur \in Sections
    BY <2>2 DEF Waiting, SegmentsOf, LayoutTypeOK
  <2>6. \A j \in Segments : /\ section[j] \in Sections /\ size[j] \in Nat
                              /\ rloc[j] \in Nat /\ j \in Nat
    BY ValuesTyped
  <2>7. \A s \in Sections : packedSize[s] \in Nat /\ s \in Nat
    BY ValuesTyped
  <2>8. /\ rloc'[i] = packedSize[cur] + pad
        /\ \A j \in packed : rloc'[j] = rloc[j] /\ j \in Segments /\ j # i
        /\ packedSize'[cur] = packedSize[cur] + pad + size[i]
        /\ \A s \in Sections : s # cur => packedSize'[s] = packedSize[s]
    BY <2>4, <2>5 DEF LayoutTypeOK
  <2>9. \A j \in packed : section[j] = cur => rloc[j] + size[j] <= packedSize[cur]
    BY DEF PackInv
  <2>10. \A j \in Segments : SectionPacked(section[j])' => j \in packed'
    BY <2>4 DEF PackInv, SectionPacked
  <2>11. \A s \in Sections : SectionPacked(s)' =>
            /\ packedSize'[s] <= secSize'[s]
            /\ s \notin laid' => secSize'[s] = packedSize'[s]
    BY <2>2, <2>4, <2>5, <2>7, <2>8 DEF PackInv, SectionPacked
  <2>12. \A j \in packed' : rloc'[j] + size'[j] <= packedSize'[section'[j]]
    <3> SUFFICES ASSUME NEW j \in packed' PROVE rloc'[j] + size[j] <= packedSize'[section[j]]
      BY <2>4
    <3>1. CASE j = i
      BY <2>5, <2>6, <2>7, <2>8, <3>1
    <3>2. CASE j \in packed /\ section[j] = cur
      BY <2>5, <2>6, <2>7, <2>8, <2>9, <3>2
    <3>3. CASE j \in packed /\ section[j] # cur
      <4>1. rloc[j] + size[j] <= packedSize[section[j]]
        BY <3>3 DEF PackInv
      <4> QED
        BY <2>6, <2>8, <3>3, <4>1
    <3> QED
      BY <2>4, <3>1, <3>2, <3>3
  <2>13. \A j, k \in packed' : j # k /\ section'[j] = section'[k]
                                => Apart(rloc'[j], size'[j], rloc'[k], size'[k])
    <3> SUFFICES ASSUME NEW j \in packed', NEW k \in packed', j # k, section[j] = section[k]
                 PROVE  Apart(rloc'[j], size[j], rloc'[k], size[k])
      BY <2>4
    <3>1. CASE j \in packed /\ k \in packed
      <4>1. Apart(rloc[j], size[j], rloc[k], size[k])
        BY <3>1 DEF PackInv
      <4> QED
        BY <2>8, <3>1, <4>1
    <3>2. CASE j = i /\ k \in packed
      BY <2>5, <2>6, <2>7, <2>8, <2>9, <3>2 DEF Apart
    <3>3. CASE j \in packed /\ k = i
      BY <2>5, <2>6, <2>7, <2>8, <2>9, <3>3 DEF Apart
    <3> QED
      BY <2>4, <3>1, <3>2, <3>3
  <2>14. \A j \in packed' : align'[j] # 0 => rloc'[j] % align'[j] = 0
    <3> SUFFICES ASSUME NEW j \in packed', align[j] # 0 PROVE rloc'[j] % align[j] = 0
      BY <2>4
    <3>1. CASE j = i
      BY <2>3, <2>8, <3>1
    <3>2. CASE j \in packed
      <4>1. rloc[j] % align[j] = 0
        BY <3>2 DEF PackInv
      <4> QED
        BY <2>8, <3>2, <4>1
    <3> QED
      BY <2>4, <3>1, <3>2
  <2>15. \A j \in Segments, k \in packed' :
            j < k /\ section'[j] = section'[k] /\ align'[j] = align'[k]
                => j \in packed' /\ rloc'[j] + size'[j] <= rloc'[k]
    <3> SUFFICES ASSUME NEW j \in Segments, NEW k \in packed',
                        j < k, section[j] = section[k], align[j] = align[k]
                 PROVE  j \in packed' /\ rloc'[j] + size[j] <= rloc'[k]
      BY <2>4
    <3>1. CASE k \in packed
      <4>1. j \in packed /\ rloc[j] + size[j] <= rloc[k]
        BY <3>1 DEF PackInv
      <4> QED
        BY <2>4, <2>8, <3>1, <4>1
    <3>2. CASE k = i
      <4>1. j \in packed
        <5>1. SUFFICES ASSUME j \notin packed PROVE FALSE
          OBVIOUS
        <5>2. j \in Waiting
          BY <2>5, <3>2, <5>1 DEF Waiting, SegmentsOf
        <5> QED
          BY <2>2, <2>6, <3>2, <5>2
      <4>2. rloc[j] + size[j] <= packedSize[cur]
        BY <2>5, <2>9, <3>2, <4>1
      <4> QED
        BY <2>4, <2>5, <2>6, <2>7, <2>8, <3>2, <4>1, <4>2
    <3> QED
      BY <2>4, <3>1, <3>2
  <2> QED
    BY <2>2, <2>4, <2>10, <2>11, <2>12, <2>13, <2>14, <2>15 DEF PackInv, Segments, Sections
<1>2. CASE FinishSection
  <2>1. /\ phase = "pack" /\ Waiting = {}
        /\ secSize' = [secSize EXCEPT ![cur] = packedSize[cur]]
        /\ IF cur = NumSections THEN phase' = "lay" /\ cur' = 1
                                ELSE phase' = phase /\ cur' = cur + 1
        /\ UNCHANGED <<align, size, section, packed, rloc, packedSize, laid>>
    BY <1>2 DEF FinishSection, input, packVars, layVars
  <2>2. \A i \in Segments : section[i] \in Sections /\ (section[i] = cur => i \in packed)
    BY <2>1 DEF Waiting, SegmentsOf, LayoutTypeOK
  <2>3. cur \in Sections /\ \A s \in Sections : s \in Nat /\ s <= NumSections
    BY ConstantsTyped DEF LayoutTypeOK, Sections
  <2>4. \A s \in Sections : SectionPacked(s)' => s = cur \/ SectionPacked(s)
    BY <2>1, <2>3 DEF SectionPacked
  <2>5. \A s \in Sections : packedSize[s] \in Nat /\ secSize[s] \in Nat
    BY DEF LayoutTypeOK
  <2>6. /\ secSize'[cur] = packedSize[cur]
        /\ \A s \in Sections : s # cur => secSize'[s] = secSize[s]
    BY <2>1, <2>3 DEF LayoutTypeOK
  <2>7. \A i \in Segments : SectionPacked(section[i])' => i \in packed'
    BY <2>1, <2>2, <2>4 DEF PackInv
  <2>8. \A s \in Sections : SectionPacked(s)' =>
            /\ packedSize'[s] <= secSize'[s]
            /\ s \notin laid' => secSize'[s] = packedSize'[s]
    BY <2>1, <2>4, <2>5, <2>6 DEF PackInv
  <2> QED
    BY <2>1, <2>7, <2>8 DEF PackInv, Segments, Sections
<1>3. CASE LaySection
  <2>1. /\ phase = "lay" /\ phase' \in {"lay", "done"} /\ laid' = laid \cup {cur}
        /\ UNCHANGED <<align, size, section, packed, rloc, packedSize>>
    BY <1>3 DEF LaySection, NextSection, input, packVars
  <2>2. PICK pad \in Nat : secSize' = IF last = 0 THEN secSize
                                    ELSE [secSize EXCEPT ![last] = @ + pad]
    BY <1>3, LayStep
  <2>3. last \in laid \cup {0} /\ laid \subseteq Sections /\ 0 \notin Sections
    BY ValuesTyped DEF LayoutTypeOK
  <2>4. \A s \in Sections : /\ secSize'[s] \in Nat /\ secSize'[s] >= secSize[s]
                            /\ s \notin laid => secSize'[s] = secSize[s]
    BY <2>2, <2>3 DEF LayoutTypeOK
  <2>5. \A s \in Sections : SectionPacked(s)
    BY <2>1 DEF SectionPacked
  <2>6. \A s \in Sections : packedSize'[s] <= secSize'[s]
    BY <2>1, <2>4, <2>5, ValuesTyped DEF PackInv
  <2>7. \A s \in Sections : s \notin laid' => secSize'[s] = packedSize'[s]
    BY <2>1, <2>4, <2>5 DEF PackInv
  <2>8. \A i \in Segments : i \in packed
    BY <2>5, ValuesTyped DEF PackInv
  <2> QED
    BY <2>1, <2>6, <2>7, <2>8 DEF PackInv, Segments, Sections
<1>4. CASE SkipSection \/ Done \/ UNCHANGED layoutVars
  <2>1. /\ UNCHANGED <<align, size, section, packed, rloc, packedSize, secSize, laid>>
        /\ phase = "pack" => phase' = phase /\ cur' = cur
        /\ phase # "pack" => phase' # "pack"
    BY <1>4 DEF SkipSection, NextSection, Done, layoutVars, input, packVars, layVars
  <2>2. \A s : SectionPacked(s)' <=> SectionPacked(s)
    BY <2>1 DEF SectionPacked
  <2> QED
    BY <2>1, <2>2 DEF PackInv, Segments, Sections
<1> QED
  BY <1>1, <1>2, <1>3, <1>4 DEF LayoutNext

-----------------------------------------------------------------------------
(* Laying out *)

LEMMA LayInvStep ==
  ASSUME LayoutTypeOK, PackInv, LayInv, [LayoutNext]_layoutVars
  PROVE  LayInv'
<1>1. CASE PackSegment
  <2>1. PICK i \in Segments : PackFitting(i) \/ PackPadded(i) \/ PackUnaligned(i)
    BY <1>1 DEF PackSegment
  <2>2. phase = "pack"
    BY <2>1, PackStep
  <2>3. PICK pad \in Nat : PlaceAfter(i, pad)
    BY <2>1, PackStep
  <2>4. UNCHANGED <<phase, cur, off, laid, last>>
    BY <2>3 DEF PlaceAfter, layVars
  <2> QED
    BY <2>2, <2>4 DEF LayInv
<1>2. CASE FinishSection
  <2>1. phase = "pack" /\ UNCHANGED <<off, laid, last>>
    BY <1>2 DEF FinishSection, layVars
  <2>2. phase' = "lay" => cur' = 1
    BY <1>2, <2>1 DEF FinishSection
  <2> QED
    BY <2>1, <2>2 DEF LayInv
<1>3. CASE LaySection
  <2>1. /\ phase = "lay" /\ laid' = laid \cup {cur} /\ last' = cur
        /\ UNCHANGED <<align, section, packedSize>>
    BY <1>3 DEF LaySection, input, packVars
  <2>2. phase' # "pack" /\ (phase' = "lay" => cur' = cur + 1)
    BY <1>3, <2>1 DEF LaySection, NextSection
  <2>3. PICK m \in Alignments \cup {0}, pad \in Nat :
          /\ IsMaxAlign(cur, m)
          /\ last # 0 /\ m # 0 => (off + pad) % m = 0
          /\ last = 0 => pad = 0
          /\ secSize' = IF last = 0 THEN secSize
                        ELSE [secSize EXCEPT ![last] = @ + pad]
          /\ relocStart' = [relocStart EXCEPT ![cur] = off + pad]
          /\ off' = off + pad + packedSize[cur]
    BY <1>3, LayStep
  <2>4. /\ cur \in Sections /\ cur >= 1 /\ last < cur /\ last \in Nat /\ laid \subseteq Sections
        /\ last \in laid \cup {0} /\ cur \notin laid
    BY <2>1, ValuesTyped DEF LayInv, LayoutTypeOK, Sections
  <2>5. secSize[cur] = packedSize[cur]
    BY <2>1, <2>4 DEF PackInv, SectionPacked
  <2>6. /\ relocStart'[cur] = off + pad /\ secSize'[cur] = packedSize[cur]
        /\ \A s \in laid : relocStart'[s] = relocStart[s]
        /\ \A s \in laid : s # last => secSize'[s] = secSize[s]
        /\ last # 0 => secSize'[last] = secSize[last] + pad
    BY <2>3, <2>4, <2>5 DEF LayoutTypeOK
  <2>7. \A s \in laid : relocStart[s] \in Nat /\ secSize[s] \in Nat /\ s \in Nat /\ s >= 1
    BY <2>4, ValuesTyped
  <2>8. off \in Nat /\ packedSize[cur] \in Nat /\ cur \in Nat
    BY ValuesTyped
  <2>9. relocStart'[cur] + secSize'[cur] = off'
    BY <2>3, <2>6, <2>8
  <2>10. last # 0 => /\ last \in laid
                     /\ relocStart[last] + secSize[last] = off
                     /\ relocStart'[last] + secSize'[last] = off + pad
    <3> SUFFICES ASSUME last # 0
                 PROVE  /\ last \in laid
                        /\ relocStart[last] + secSize[last] = off
                        /\ relocStart'[last] + secSize'[last] = off + pad
      OBVIOUS
    <3>1. last \in laid /\ relocStart[last] + secSize[last] = off
      BY <2>4 DEF LayInv, SectionStop
    <3>2. relocStart[last] \in Nat /\ secSize[last] \in Nat
      BY <2>7, <3>1
    <3> QED
      BY <2>6, <2>8, <3>1, <3>2
  <2>11. \A s \in laid : s <= last
    BY DEF LayInv
  <2>12. last = 0 => laid = {} /\ off = 0
    BY DEF LayInv
  <2>13. ASSUME NEW s \in laid', NEW t \in laid', s < t
         PROVE  /\ relocStart'[s] + secSize'[s] <= relocStart'[t]
                /\ (~\E u \in laid' : s < u /\ u < t)
                      => relocStart'[s] + secSize'[s] = relocStart'[t]
    <3>1. s \in laid /\ s \in Nat
      BY <2>1, <2>4, <2>7, <2>8, <2>11, <2>13
    <3>2. CASE t = cur /\ s = last
      BY <2>6, <2>7, <2>10, <3>1, <3>2
    <3>3. CASE t = cur /\ s # last
      <4>1. s < last /\ last \in laid
        BY <2>4, <2>10, <2>11, <2>12, <3>1, <3>3
      <4>2. relocStart[s] + secSize[s] <= relocStart[last]
        BY <3>1, <4>1 DEF LayInv, SectionStop, SectionStart
      <4>3. relocStart[last] <= off
        BY <2>4, <2>7, <2>8, <2>10, <4>1
      <4>4. relocStart'[s] + secSize'[s] <= relocStart'[t]
        BY <2>6, <2>7, <2>8, <3>1, <3>3, <4>1, <4>2, <4>3
      <4> QED
        BY <2>1, <2>4, <3>3, <4>1, <4>4
    <3>4. CASE t \in laid
      <4>1. s < last /\ t <= last
        BY <2>4, <2>7, <2>11, <2>13, <3>1, <3>4
      <4>2. /\ relocStart[s] + secSize[s] <= relocStart[t]
            /\ (~\E u \in laid : s < u /\ u < t)
                  => relocStart[s] + secSize[s] = relocStart[t]
        BY <2>13, <3>1, <3>4 DEF LayInv, SectionStop, SectionStart
      <4>3. relocStart'[s] = relocStart[s] /\ secSize'[s] = secSize[s] /\ relocStart'[t] = relocStart[t]
        BY <2>4, <2>6, <3>1, <3>4, <4>1
      <4> QED
        BY <2>1, <4>2, <4>3
    <3> QED
      BY <2>1, <3>2, <3>3, <3>4
  <2>14. ASSUME NEW s \in laid', NEW i \in Segments, section[i] = s, align[i] # 0
         PROVE  relocStart'[s] % align[i] = 0
    <3>1. CASE s \in laid
      BY <2>6, <2>14, <3>1 DEF LayInv, SegmentsOf
    <3>2. CASE s = cur
      <4>1. align[i] \in Alignments /\ align[i] \in Nat \ {0} /\ align[i] <= m /\ m \in Nat
        <5>1. align[i] \in Alignments \cup {0}
          BY DEF LayoutTypeOK
        <5>2. align[i] <= m
          BY <2>3, <2>14, <3>2 DEF IsMaxAlign, SegmentsOf
        <5>3. m = 0 \/ m \in Nat
          BY ConstantsTyped
        <5> QED
          BY <2>14, <5>1, <5>2, <5>3, ValuesTyped
      <4>2. m \in Alignments /\ m \in Nat \ {0}
        BY <2>3, <4>1
      <4>3. m % align[i] = 0
        BY <4>1, <4>2, LayoutAssumption
      <4>4. CASE last = 0
        <5>1. relocStart'[s] = align[i] * 0
          BY <2>3, <2>6, <2>12, <3>2, <4>1, <4>4
        <5> QED
          BY <4>1, <5>1, MultipleDivides
      <4>5. CASE last # 0
        <5>1. (off + pad) % m = 0 /\ off + pad \in Nat
          BY <2>3, <2>8, <4>2, <4>5
        <5>2. (off + pad) % align[i] = 0
          BY <4>1, <4>2, <4>3, <5>1, DividesTransitive
        <5> QED
          BY <2>6, <3>2, <5>2
      <4> QED
        BY <4>4, <4>5
    <3> QED
      BY <2>1, <3>1, <3>2
  <2>15. last' # 0 /\ \A s \in laid' : s <= last'
    BY <2>1, <2>4, <2>7, <2>8, <2>11
  <2>16. phase' = "lay" => last' < cur'
    BY <2>1, <2>2, <2>8
  <2> QED
    BY <2>1, <2>2, <2>9, <2>13, <2>14, <2>15, <2>16
    DEF LayInv, SectionStop, SectionStart, SegmentsOf, Segments
<1>4. CASE SkipSection \/ Done \/ UNCHANGED layoutVars
  <2>1. /\ UNCHANGED <<align, section, packedSize, secSize, off, laid, last, relocStart>>
        /\ phase' = "pack" => phase = "pack"
        /\ phase' = "lay" => phase = "lay" /\ cur' \in {cur, cur + 1}
    BY <1>4 DEF SkipSection, NextSection, Done, layoutVars, input, packVars, layVars
  <2>2. cur \in Nat /\ last \in Nat
    BY ValuesTyped DEF LayoutTypeOK
  <2>3. phase' = "lay" => last' < cur'
    BY <2>1, <2>2 DEF LayInv
  <2> QED
    BY <2>1, <2>3 DEF LayInv, SectionStop, SectionStart, SegmentsOf
<1> QED
  BY <1>1, <1>2, <1>3, <1>4 DEF LayoutNext

LEMMA LayoutAlways == LayoutSpec => [](LayoutTypeOK /\ PackInv /\ LayInv)
<1>1. LayoutInit => PackInv /\ LayInv
  <2> SUFFICES ASSUME LayoutInit PROVE PackInv /\ LayInv
    OBVIOUS
  <2>1. \A s \in Sections : ~(s < cur)
    BY ConstantsTyped DEF LayoutInit, Sections
  <2>2. \A i \in Segments : section[i] \in Sections
    BY DEF LayoutInit
  <2> QED
    BY <2>1, <2>2 DEF LayoutInit, PackInv, LayInv, SectionPacked
<1>2. LayoutTypeOK /\ PackInv /\ LayInv /\ [LayoutNext]_layoutVars => PackInv' /\ LayInv'
  BY PackInvStep, LayInvStep
<1> QED
  BY <1>1, <1>2, LayoutTypeCorrect, PTL DEF LayoutSpec

-----------------------------------------------------------------------------
(* The properties of the memory image *)

\* The block of a segment lies in the packed part of its section.
LEMMA SegmentInSection ==
  ASSUME LayoutTypeOK, PackInv, LayInv, NEW i \in LaidSegments
  PROVE  /\ i \in packed
         /\ section[i] \in Sections /\ section[i] \in laid
         /\ relocStart[section[i]] \in Nat /\ secSize[section[i]] \in Nat
         /\ rloc[i] \in Nat /\ size[i] \in Nat
         /\ rloc[i] + size[i] <= secSize[section[i]]
<1>1. i \in Segments /\ section[i] \in laid
  BY DEF LaidSegments
<1>2. phase # "pack"
  BY <1>1 DEF LayInv
<1>3. section[i] \in Sections /\ SectionPacked(section[i])
  BY <1>1, <1>2, ValuesTyped DEF SectionPacked
<1>4. /\ i \in packed
      /\ rloc[i] + size[i] <= packedSize[section[i]]
      /\ packedSize[section[i]] <= secSize[section[i]]
  BY <1>1, <1>3 DEF PackInv
<1> QED
  BY <1>1, <1>3, <1>4, ValuesTyped

\* packDataSegments and the layout loop: no two segments share a byte.
THEOREM ImageDisjointCorrect == LayoutSpec => []ImageDisjoint
<1>1. LayoutTypeOK /\ PackInv /\ LayInv => ImageDisjoint
  <2> SUFFICES ASSUME LayoutTypeOK, PackInv, LayInv,
                      NEW i \in LaidSegments, NEW j \in LaidSegments, i # j
               PROVE  Apart(Reloc(i), size[i], Reloc(j), size[j])
    BY DEF ImageDisjoint
  <2>1. /\ i \in packed /\ section[i] \in Sections /\ section[i] \in laid
        /\ relocStart[section[i]] \in Nat /\ secSize[section[i]] \in Nat
        /\ rloc[i] \in Nat /\ size[i] \in Nat
        /\ rloc[i] + size[i] <= secSize[section[i]]
    BY SegmentInSection
  <2>2. /\ j \in packed /\ section[j] \in Sections /\ section[j] \in laid
        /\ relocStart[section[j]] \in Nat /\ secSize[section[j]] \in Nat
        /\ rloc[j] \in Nat /\ size[j] \in Nat
        /\ rloc[j] + size[j] <= secSize[section[j]]
    BY SegmentInSection
  <2>3. CASE section[i] = section[j]
    <3>1. Apart(rloc[i], size[i], rloc[j], size[j])
      BY <2>1, <2>2, <2>3 DEF PackInv
    <3> QED
      BY <2>1, <2>2, <2>3, <3>1 DEF Apart, Reloc
  <2>4. CASE section[i] < section[j]
    <3>1. relocStart[section[i]] + secSize[section[i]] <= relocStart[section[j]]
      BY <2>1, <2>2, <2>4 DEF LayInv, SectionStop, SectionStart
    <3> QED
      BY <2>1, <2>2, <3>1 DEF Apart, Reloc
  <2>5. CASE section[j] < section[i]
    <3>1. relocStart[section[j]] + secSize[section[j]] <= relocStart[section[i]]
      BY <2>1, <2>2, <2>5 DEF LayInv, SectionStop, SectionStart
    <3> QED
      BY <2>1, <2>2, <3>1 DEF Apart, Reloc
  <2>6. section[i] \in Nat /\ section[j] \in Nat
    BY <2>1, <2>2, ValuesTyped
  <2> QED
    BY <2>3, <2>4, <2>5, <2>6
<1> QED
  BY <1>1, LayoutAlways, PTL

\* Every segment lies at a multiple of its alignment.
THEOREM ImageAlignedCorrect == LayoutSpec => []ImageAligned
<1>1. LayoutTypeOK /\ PackInv /\ LayInv => ImageAligned
  <2> SUFFICES ASSUME LayoutTypeOK, PackInv, LayInv, NEW i \in LaidSegments, align[i] # 0
               PROVE  Reloc(i) % align[i] = 0
    BY DEF ImageAligned
  <2>1. /\ i \in packed /\ section[i] \in laid
        /\ relocStart[section[i]] \in Nat /\ rloc[i] \in Nat
    BY SegmentInSection
  <2>2. i \in Segments /\ align[i] \in Nat \ {0}
    BY ValuesTyped DEF LaidSegments
  <2>3. rloc[i] % align[i] = 0
    BY <2>1 DEF PackInv
  <2>4. relocStart[section[i]] % align[i] = 0
    BY <2>1, <2>2 DEF LayInv, SegmentsOf
  <2> QED
    BY <2>1, <2>2, <2>3, <2>4, SumDivides DEF Reloc
<1> QED
  BY <1>1, LayoutAlways, PTL

\* The merged segment holds every segment copied into it.
THEOREM CopyFitsCorrect == LayoutSpec => []CopyFits
<1>1. LayoutTypeOK /\ PackInv /\ LayInv => CopyFits
  BY SegmentInSection DEF CopyFits
<1> QED
  BY <1>1, LayoutAlways, PTL

\* Sections enclose their segments and adjoin each other.
THEOREM SectionsTileCorrect == LayoutSpec => []SectionsTile
<1>1. LayoutTypeOK /\ PackInv /\ LayInv => SectionsTile
  <2> SUFFICES ASSUME LayoutTypeOK, PackInv, LayInv, NEW s \in laid
               PROVE  /\ \A i \in SegmentsOf(s) :
                            /\ SectionStart(s) <= Reloc(i)
                            /\ Reloc(i) + size[i] <= SectionStop(s)
                      /\ \A t \in laid :
                            /\ s < t => SectionStop(s) <= SectionStart(t)
                            /\ (s < t /\ ~\E u \in laid : s < u /\ u < t)
                                  => SectionStop(s) = SectionStart(t)
    BY DEF SectionsTile
  <2>1. ASSUME NEW i \in SegmentsOf(s)
        PROVE  SectionStart(s) <= Reloc(i) /\ Reloc(i) + size[i] <= SectionStop(s)
    <3>1. i \in LaidSegments /\ section[i] = s
      BY DEF SegmentsOf, LaidSegments
    <3>2. /\ relocStart[s] \in Nat /\ secSize[s] \in Nat
          /\ rloc[i] \in Nat /\ size[i] \in Nat
          /\ rloc[i] + size[i] <= secSize[s]
      BY <3>1, SegmentInSection
    <3> QED
      BY <3>1, <3>2 DEF SectionStart, SectionStop, Reloc
  <2> QED
    BY <2>1 DEF LayInv
<1> QED
  BY <1>1, LayoutAlways, PTL

\* Segments of one section and alignment keep their link order.
THEOREM ClassOrderKeptCorrect == LayoutSpec => []ClassOrderKept
<1>1. LayoutTypeOK /\ PackInv => ClassOrderKept
  BY DEF LayoutTypeOK, PackInv, ClassOrderKept
<1> QED
  BY <1>1, LayoutAlways, PTL
=============================================================================
