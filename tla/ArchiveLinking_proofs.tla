----------------------- MODULE ArchiveLinking_proofs -----------------------
(***************************************************************************)
(* Proofs about ArchiveLinking, for any archives, members and names.       *)
(***************************************************************************)
EXTENDS ArchiveLinking, FiniteSetTheorems, WellFoundedInduction, TLAPS

-----------------------------------------------------------------------------
(* Types *)

LEMMA SymbolTyped ==
    ASSUME NEW status \in {"absent", "undef", "def"}, NEW d \in Members \cup {Program}
    PROVE  Symbol(status, d) \in Bindings
  BY DEF Symbol, Bindings

LEMMA ResolveTyped ==
    ASSUME NEW old \in Bindings, NEW new \in Bindings
    PROVE  Resolve(old, new) \in Bindings
  BY DEF Resolve

LEMMA FileTyped ==
    ASSUME TypeOK, NEW n \in Names
    PROVE  /\ objects[n] \in {"absent", "undef", "def"}
           /\ \A m \in Members : file[m][n] \in {"absent", "undef", "def"}
  BY ArchiveAssumption DEF TypeOK

LEMMA MemberTyped ==
    ASSUME NEW m \in Members
    PROVE  m[1] \in Archives /\ m[1] \in Linkers /\ m[1] # 0 /\ m[2] \in Nat
           /\ m = <<m[1], m[2]>>
  BY ArchiveAssumption DEF Archives, Linkers

\* What loading a member does to the tables of the linkers.
LEMMA LoadStep ==
    ASSUME TypeOK, NEW m \in Members, Load(m)
    PROVE  /\ loaded' = loaded \cup {m}
           /\ table' \in [Linkers -> [Names -> Bindings]]
           /\ \A l \in Linkers : l # m[1] => table'[l] = table[l]
           /\ m \in loaded => table' = table
           /\ m \notin loaded => \A n \in Names :
                table'[m[1]][n] = Resolve(table[m[1]][n], Symbol(file[m][n], m))
<1> DEFINE new == [n \in Names |-> Resolve(table[m[1]][n], Symbol(file[m][n], m))]
<1>1. table \in [Linkers -> [Names -> Bindings]] /\ m[1] \in Linkers
  BY MemberTyped DEF TypeOK
<1>2. new \in [Names -> Bindings]
  <2>1. ASSUME NEW n \in Names
        PROVE  Resolve(table[m[1]][n], Symbol(file[m][n], m)) \in Bindings
    <3>1. table[m[1]][n] \in Bindings
      BY <1>1
    <3> QED
      BY <3>1, FileTyped, SymbolTyped, ResolveTyped
  <2> QED
    BY <2>1
<1>3. table' = IF m \in loaded THEN table ELSE [table EXCEPT ![m[1]] = new]
  BY DEF Load
<1>4. loaded' = loaded \cup {m}
  BY DEF Load
<1>5. \A n \in Names : new[n] = Resolve(table[m[1]][n], Symbol(file[m][n], m))
  OBVIOUS
<1> HIDE DEF new
<1> QED
  BY <1>1, <1>2, <1>3, <1>4, <1>5

\* Every step of the link is a search, a step of a loop or one symbol of a merge.
LEMMA SearchStep ==
    ASSUME TypeOK, NEW as, NEW n \in Names, Search(as, n)
    PROVE  /\ loaded' \subseteq Members
           /\ table' \in [Linkers -> [Names -> Bindings]]
           /\ todo' = todo \ {n}
           /\ UNCHANGED <<input, phase, cur, call>>
  BY LoadStep DEF Search, TypeOK, tables

\* Every state of the link is well typed (TypeOK).
THEOREM ArchiveTypeCorrect == Spec => []TypeOK
<1>1. Init => TypeOK
  <2> SUFFICES ASSUME Init PROVE TypeOK
    OBVIOUS
  <2>1. \A n \in Names : Symbol(objects[n], Program) \in Bindings
    BY SymbolTyped, ArchiveAssumption DEF Init
  <2>2. table \in [Linkers -> [Names -> Bindings]]
    BY <2>1 DEF Init, Bindings
  <2> QED
    BY <2>2, ArchiveAssumption DEF Init, TypeOK, Archives
<1>2. TypeOK /\ [Next]_vars => TypeOK'
  <2> SUFFICES ASSUME TypeOK, [Next]_vars PROVE TypeOK'
    OBVIOUS
  <2>1. ASSUME NEW as, NEW n \in Names, Search(as, n) PROVE TypeOK'
    BY <2>1, SearchStep DEF TypeOK, input, call
  <2>2. CASE \E n \in Names : SearchForObjects(n) \/ SearchForArchive(n) \/ SearchOwn(n)
    BY <2>1, <2>2 DEF SearchForObjects, SearchForArchive, SearchOwn
  <2>3. ASSUME NEW n \in Names, MergeSymbol(n) PROVE TypeOK'
    <3>1. table[0] \in [Names -> Bindings] /\ table[cur][n] \in Bindings
          /\ table[0][n] \in Bindings /\ 0 \in Linkers
      BY ArchiveAssumption DEF TypeOK, Archives, Linkers
    <3>2. Resolve(table[0][n], table[cur][n]) \in Bindings
      BY <3>1, ResolveTyped
    <3>3. table' \in [Linkers -> [Names -> Bindings]]
      BY <2>3, <3>1, <3>2 DEF MergeSymbol, TypeOK
    <3> QED
      BY <2>3, <3>3 DEF MergeSymbol, TypeOK, input, call
  <2>4. CASE EndObjects
    BY <2>4 DEF EndObjects, TypeOK, input, tables, call, UndefinedIn
  <2>5. CASE EndCross
    <3>1. cur' \in Archives /\ todo' \subseteq Names
      BY <2>5, ArchiveAssumption DEF EndCross, TypeOK, Archives, UndefinedIn
    <3> QED
      BY <2>5, <3>1 DEF EndCross, TypeOK, input, tables, call
  <2>6. CASE StartRound
    <3>1. rounds' \in 0..Watchdog + 1
      BY <2>6, ArchiveAssumption DEF StartRound, TypeOK
    <3> QED
      BY <2>6, <3>1 DEF StartRound, TypeOK, input, tables, NewSymbols, UndefinedIn
  <2>7. CASE StartMerge
    BY <2>7 DEF StartMerge, TypeOK, input, tables, call
  <2>8. CASE EndMerge
    <3>1. cur' \in Archives /\ rounds' \in 0..Watchdog + 1
      BY <2>8, ArchiveAssumption DEF EndMerge, TypeOK, Archives
    <3> QED
      BY <2>8, <3>1 DEF EndMerge, TypeOK, input, tables
  <2>9. CASE Done \/ UNCHANGED vars
    BY <2>9 DEF Done, vars, TypeOK, input, tables, call
  <2> QED
    BY <2>2, <2>3, <2>4, <2>5, <2>6, <2>7, <2>8, <2>9 DEF Next
<1> QED
  BY <1>1, <1>2, PTL DEF Spec

-----------------------------------------------------------------------------
(* Loading *)

\* TablesMatchFiles of one symbol of an archive's linker.
Matches(a, n, t, L) ==
    /\ t # Program
    /\ t \in Members => t \in L /\ t[1] = a /\ file[t][n] = "def"
    /\ t = Undefined =>
          /\ \E m \in L : m[1] = a /\ file[m][n] = "undef"
          /\ \A m \in L : m[1] = a => file[m][n] # "def"
    /\ t = Unbound => \A m \in L : m[1] = a => file[m][n] = "absent"

LEMMA MatchesAll ==
    TablesMatchFiles <=> \A a \in Archives, n \in Names : Matches(a, n, table[a][n], loaded)
  BY DEF TablesMatchFiles, Matches

LEMMA LoadMatches ==
    ASSUME TypeOK, NEW m \in Members, NEW n \in Names, NEW t \in Bindings,
           Matches(m[1], n, t, loaded)
    PROVE  Matches(m[1], n, Resolve(t, Symbol(file[m][n], m)), loaded \cup {m})
<1>1. file[m][n] \in {"absent", "undef", "def"}
  BY FileTyped
<1>2. /\ m # Unbound /\ m # Undefined /\ m # Program /\ Unbound # Undefined
      /\ Program # Undefined /\ Unbound # Program
      /\ Unbound \notin Members /\ Undefined \notin Members /\ Program \notin Members
  BY ArchiveAssumption
<1>3. t \in Members \/ t = Unbound \/ t = Undefined
  BY DEF Matches, Bindings
<1>4. CASE file[m][n] = "absent"
  <2>1. Resolve(t, Symbol(file[m][n], m)) = t
    BY <1>4 DEF Resolve, Symbol
  <2> QED
    BY <1>2, <1>4, <2>1 DEF Matches
<1>5. CASE file[m][n] = "undef"
  <2>1. Resolve(t, Symbol(file[m][n], m)) = IF t = Unbound THEN Undefined ELSE t
    BY <1>5 DEF Resolve, Symbol
  <2> QED
    BY <1>2, <1>3, <1>5, <2>1 DEF Matches
<1>6. CASE file[m][n] = "def"
  <2>1. Resolve(t, Symbol(file[m][n], m)) = IF t \in {Unbound, Undefined} THEN m ELSE t
    BY <1>2, <1>6 DEF Resolve, Symbol
  <2> QED
    BY <1>2, <1>3, <1>6, <2>1 DEF Matches
<1> QED
  BY <1>1, <1>4, <1>5, <1>6

LEMMA LoadKeepsMatch ==
    ASSUME TypeOK, TablesMatchFiles, NEW m \in Members, Load(m), UNCHANGED input
    PROVE  TablesMatchFiles'
<1>1. /\ loaded' = loaded \cup {m}
      /\ \A l \in Linkers : l # m[1] => table'[l] = table[l]
      /\ m \in loaded => table' = table
      /\ m \notin loaded => \A n \in Names :
           table'[m[1]][n] = Resolve(table[m[1]][n], Symbol(file[m][n], m))
      /\ file' = file
  BY LoadStep DEF input
<1>2. CASE m \in loaded
  BY <1>1, <1>2 DEF TablesMatchFiles
<1>3. CASE m \notin loaded
  <2>1. ASSUME NEW a \in Archives, NEW n \in Names
        PROVE  Matches(a, n, table'[a][n], loaded')
    <3>1. Matches(a, n, table[a][n], loaded)
      BY MatchesAll
    <3>2. a \in Linkers /\ table[a][n] \in Bindings
      BY DEF Archives, Linkers, TypeOK
    <3>3. CASE a # m[1]
      <4>1. table'[a] = table[a] /\ loaded' = loaded \cup {m}
        BY <1>1, <3>2, <3>3
      <4> QED
        BY <3>1, <3>3, <4>1 DEF Matches
    <3>4. CASE a = m[1]
      BY <1>1, <1>3, <3>1, <3>2, <3>4, LoadMatches
    <3> QED
      BY <3>3, <3>4
  <2> QED
    BY <1>1, <2>1 DEF TablesMatchFiles, Matches
<1> QED
  BY <1>2, <1>3

LEMMA MergeKeepsArchives ==
    ASSUME TypeOK, NEW n \in Names, MergeSymbol(n)
    PROVE  /\ UNCHANGED <<input, phase, cur, loaded, call>>
           /\ \A a \in Archives : table'[a] = table[a]
           /\ \A k \in Names : table'[0][k] =
                IF k = n THEN Resolve(table[0][n], table[cur][n]) ELSE table[0][k]
<1> DEFINE new == Resolve(table[0][n], table[cur][n])
<1>1. /\ table' = [table EXCEPT ![0][n] = new]
      /\ UNCHANGED <<input, phase, cur, loaded, call>>
  BY DEF MergeSymbol
<1>2. table \in [Linkers -> [Names -> Bindings]] /\ 0 \in Linkers
      /\ table[0] \in [Names -> Bindings]
  BY ArchiveAssumption DEF TypeOK, Linkers
<1> HIDE DEF new
<1>3. \A l \in Linkers : l # 0 => table'[l] = table[l]
  BY <1>1, <1>2
<1>4. \A k \in Names : table'[0][k] = IF k = n THEN new ELSE table[0][k]
  BY <1>1, <1>2
<1>5. \A a \in Archives : a \in Linkers /\ a # 0
  BY ArchiveAssumption DEF Archives, Linkers
<1> QED
  BY <1>1, <1>3, <1>4, <1>5 DEF new

\* The steps that neither load nor merge.
LoopStep ==
    \/ EndObjects \/ EndCross \/ StartRound \/ StartMerge \/ EndMerge
    \/ Done \/ UNCHANGED vars

LEMMA LoopKeepsTables ==
    ASSUME LoopStep PROVE UNCHANGED <<input, tables>>
  BY DEF LoopStep, EndObjects, EndCross, StartRound, StartMerge, EndMerge, Done, vars

LEMMA MatchStep == TypeOK /\ TablesMatchFiles /\ [Next]_vars => TablesMatchFiles'
<1> SUFFICES ASSUME TypeOK, TablesMatchFiles, [Next]_vars PROVE TablesMatchFiles'
  OBVIOUS
<1>1. ASSUME NEW as, NEW n \in Names, Search(as, n) PROVE TablesMatchFiles'
  <2>1. UNCHANGED input
    BY <1>1, SearchStep
  <2>2. CASE \E m \in Members : Load(m)
    BY <2>1, <2>2, LoadKeepsMatch
  <2>3. CASE UNCHANGED tables
    BY <2>1, <2>3 DEF TablesMatchFiles, tables, input
  <2> QED
    BY <1>1, <2>2, <2>3 DEF Search
<1>2. ASSUME NEW n \in Names, MergeSymbol(n) PROVE TablesMatchFiles'
  BY <1>2, MergeKeepsArchives DEF TablesMatchFiles, input
<1>3. CASE LoopStep
  BY <1>3, LoopKeepsTables DEF TablesMatchFiles, tables, input
<1> QED
  BY <1>1, <1>2, <1>3 DEF Next, LoopStep, SearchForObjects, SearchForArchive, SearchOwn

\* Every archive's linker has what its loaded members say, and no more
\* (TablesMatchFiles).
THEOREM TablesMatchCorrect == Spec => []TablesMatchFiles
<1>1. Init => TablesMatchFiles
  <2> SUFFICES ASSUME Init, NEW a \in Archives, NEW n \in Names
               PROVE  table[a][n] = Unbound /\ loaded = {}
    BY ArchiveAssumption DEF TablesMatchFiles
  <2>1. a \in Linkers /\ a # 0
    BY DEF Archives, Linkers
  <2> QED
    BY <2>1 DEF Init
<1> QED
  BY <1>1, MatchStep, ArchiveTypeCorrect, PTL DEF Spec

-----------------------------------------------------------------------------
(* _fixupARLinking *)

\* Two entries of an archive's symbol table for one name are one entry.
LEMMA ListsUnique ==
    ASSUME NEW m \in Members, NEW k \in Members, NEW n \in Names,
           m[1] = k[1], Lists(m, n), Lists(k, n)
    PROVE  m = k
<1>1. m[2] <= k[2] /\ k[2] <= m[2]
  BY DEF Lists
<1>2. m[2] = k[2]
  BY <1>1, MemberTyped
<1> QED
  BY <1>2, MemberTyped

\* A round asks for at least one name that no round before it asked for.
RoundsInv == rounds <= Cardinality(tried)

LEMMA RoundsStep == TypeOK /\ RoundsInv /\ [Next]_vars => RoundsInv'
<1> SUFFICES ASSUME TypeOK, RoundsInv, [Next]_vars PROVE RoundsInv'
  OBVIOUS
<1>1. CASE UNCHANGED call
  BY <1>1 DEF RoundsInv, call
<1>2. CASE StartRound
  <2>1. PICK n \in Names : n \in NewSymbols /\ n \notin tried
    BY <1>2 DEF StartRound, NewSymbols, UndefinedIn
  <2>2. IsFiniteSet(tried) /\ tried' \subseteq Names /\ tried \cup {n} \subseteq tried'
    <3>1. IsFiniteSet(tried)
      BY FS_Subset, ArchiveAssumption DEF TypeOK
    <3>2. tried' = tried \cup NewSymbols
      BY <1>2 DEF StartRound
    <3> QED
      BY <2>1, <3>1, <3>2 DEF TypeOK, NewSymbols, UndefinedIn
  <2>3. /\ Cardinality(tried \cup {n}) = Cardinality(tried) + 1
        /\ Cardinality(tried) \in Nat
    BY <2>1, <2>2, FS_AddElement, FS_CardinalityType
  <2>4. /\ Cardinality(tried \cup {n}) <= Cardinality(tried')
        /\ Cardinality(tried') \in Nat
    <3>1. IsFiniteSet(tried')
      BY <2>2, FS_Subset, ArchiveAssumption
    <3> QED
      BY <2>2, <3>1, FS_Subset, FS_CardinalityType
  <2>5. rounds' = rounds + 1 /\ rounds \in Nat
    BY <1>2 DEF StartRound, TypeOK
  <2> QED
    BY <2>3, <2>4, <2>5 DEF RoundsInv
<1>3. CASE EndMerge
  BY <1>3, FS_EmptySet DEF EndMerge, RoundsInv
<1>4. ASSUME NEW as, NEW n \in Names, Search(as, n) PROVE UNCHANGED call
  BY <1>4 DEF Search
<1>5. ASSUME NEW n \in Names, MergeSymbol(n) PROVE UNCHANGED call
  BY <1>5 DEF MergeSymbol
<1>6. CASE EndObjects \/ EndCross \/ StartMerge \/ Done \/ UNCHANGED vars
  BY <1>1, <1>6 DEF EndObjects, EndCross, StartMerge, Done, vars
<1> QED
  BY <1>1, <1>2, <1>3, <1>4, <1>5, <1>6
     DEF Next, SearchForObjects, SearchForArchive, SearchOwn

\* _fixupARLinking never throws LOOP_WATCHDOG while there are no more names than
\* rounds it allows (WatchdogSilent).
THEOREM WatchdogCorrect == Spec => []WatchdogSilent
<1>1. Init => RoundsInv
  BY FS_EmptySet DEF Init, RoundsInv
<1>2. TypeOK /\ RoundsInv => WatchdogSilent
  <2> SUFFICES ASSUME TypeOK, RoundsInv PROVE rounds <= Watchdog
    BY DEF WatchdogSilent
  <2>1. /\ Cardinality(tried) <= Cardinality(Names)
        /\ Cardinality(tried) \in Nat /\ Cardinality(Names) \in Nat
    BY FS_Subset, FS_CardinalityType, ArchiveAssumption DEF TypeOK
  <2> QED
    BY <2>1, ArchiveAssumption DEF RoundsInv, TypeOK
<1> QED
  BY <1>1, <1>2, RoundsStep, ArchiveTypeCorrect, PTL DEF Spec

\* Where a step may load: nowhere but in the archive that is being fixed up, once
\* the loops over all archives are over.
LEMMA OnlyCurLoads ==
    ASSUME TypeOK, [Next]_vars, phase \notin {"objects", "cross"},
           NEW a \in Archives, a # cur
    PROVE  table'[a] = table[a] /\ loaded \subseteq loaded'
<1>1. ASSUME NEW n \in Names, SearchOwn(n) PROVE table'[a] = table[a] /\ loaded \subseteq loaded'
  <2>1. CASE \E m \in Members : FirstListing(m, {cur}, n) /\ Load(m)
    <3>1. a \in Linkers
      BY DEF Archives, Linkers
    <3> QED
      BY <2>1, <3>1, LoadStep DEF FirstListing
  <2>2. CASE UNCHANGED tables
    BY <2>2 DEF tables
  <2> QED
    BY <1>1, <2>1, <2>2 DEF SearchOwn, Search
<1>2. ASSUME NEW n \in Names, MergeSymbol(n) PROVE table'[a] = table[a] /\ loaded \subseteq loaded'
  BY <1>2, MergeKeepsArchives
<1>3. CASE LoopStep
  BY <1>3, LoopKeepsTables DEF tables
<1> QED
  BY <1>1, <1>2, <1>3 DEF Next, LoopStep, SearchForObjects, SearchForArchive

\* What _fixupARLinking tried is loaded, and every archive it returned from is
\* closed.
TriedInv ==
    /\ phase \in {"objects", "cross"} => tried = {}
    /\ phase = "own" =>
          /\ todo \subseteq tried
          /\ \A n \in tried \ todo, m \in Members :
                m[1] = cur /\ Lists(m, n) => m \in loaded

LEMMA TriedStep == TypeOK /\ TriedInv /\ [Next]_vars => TriedInv'
<1> SUFFICES ASSUME TypeOK, TriedInv, [Next]_vars PROVE TriedInv'
  OBVIOUS
<1>1. ASSUME NEW n \in Names, SearchForObjects(n) \/ SearchForArchive(n)
      PROVE  TriedInv'
  BY <1>1 DEF SearchForObjects, SearchForArchive, Search, TriedInv, call
<1>2. ASSUME NEW n \in Names, SearchOwn(n) PROVE TriedInv'
  <2>1. /\ phase = "own" /\ n \in todo /\ todo' = todo \ {n}
        /\ UNCHANGED <<input, phase, cur, tried>>
    BY <1>2 DEF SearchOwn, Search, call
  <2>2. loaded \subseteq loaded'
    BY <1>2, LoadStep DEF SearchOwn, Search, tables
  <2>3. ASSUME NEW m \in Members, m[1] = cur, Lists(m, n) PROVE m \in loaded'
    <3>1. PICK k \in Members : FirstListing(k, {cur}, n) /\ Load(k)
      BY <1>2, <2>3 DEF SearchOwn, Search
    <3>2. k = m
      BY <2>3, <3>1, ListsUnique DEF FirstListing
    <3> QED
      BY <3>1, <3>2, LoadStep
  <2>4. \A k \in Members, i \in Names : Lists(k, i)' <=> Lists(k, i)
    BY <2>1 DEF Lists, input
  <2> QED
    BY <2>1, <2>2, <2>3, <2>4 DEF TriedInv, TypeOK
<1>3. ASSUME NEW n \in Names, MergeSymbol(n) PROVE TriedInv'
  BY <1>3 DEF MergeSymbol, TriedInv
<1>4. CASE StartRound
  BY <1>4 DEF StartRound, TriedInv, NewSymbols, Lists, input, tables
<1>5. CASE EndObjects \/ StartMerge
  BY <1>5 DEF EndObjects, StartMerge, TriedInv, call
<1>6. CASE EndCross
  BY <1>6 DEF EndCross, TriedInv, call
<1>7. CASE EndMerge
  BY <1>7 DEF EndMerge, TriedInv
<1>8. CASE Done \/ UNCHANGED vars
  BY <1>8 DEF Done, vars, TriedInv, input, call, tables, Lists
<1> QED
  BY <1>1, <1>2, <1>3, <1>4, <1>5, <1>6, <1>7, <1>8 DEF Next

LEMMA ClosedStep ==
    TypeOK /\ TablesMatchFiles /\ TriedInv /\ OwnNamesClosed /\ [Next]_vars
        => OwnNamesClosed'
<1> SUFFICES ASSUME TypeOK, TablesMatchFiles, TriedInv, OwnNamesClosed, [Next]_vars,
                    NEW a \in Archives, FixedUp(a)',
                    NEW n \in Names, table'[a][n] = Undefined,
                    NEW m \in Members, m[1] = a, Lists(m, n)'
             PROVE  FALSE
  BY DEF OwnNamesClosed, UndefinedIn
<1>1. file' = file
  BY DEF Next, SearchForObjects, SearchForArchive, SearchOwn, Search, MergeSymbol,
     EndObjects, EndCross, StartRound, StartMerge, EndMerge, Done, vars, input
<1>2. Lists(m, n)
  BY <1>1 DEF Lists
<1>3. CASE FixedUp(a) /\ table'[a] = table[a]
  BY <1>2, <1>3 DEF OwnNamesClosed, UndefinedIn
<1>4. ASSUME NEW k \in Names,
             SearchForObjects(k) \/ SearchForArchive(k) \/ SearchOwn(k) \/ MergeSymbol(k)
      PROVE  FALSE
  <2>1. UNCHANGED <<phase, cur>>
    BY <1>4 DEF SearchForObjects, SearchForArchive, SearchOwn, Search, MergeSymbol
  <2>2. FixedUp(a)
    BY <2>1 DEF FixedUp
  <2>3. CASE MergeSymbol(k)
    BY <1>3, <2>2, <2>3, MergeKeepsArchives
  <2>4. CASE SearchOwn(k)
    <3>1. a # cur /\ phase = "own"
      BY <2>2, <2>4 DEF FixedUp, SearchOwn, TypeOK, Archives
    <3> QED
      BY <1>3, <2>2, <3>1, OnlyCurLoads
  <2>5. CASE SearchForObjects(k) \/ SearchForArchive(k)
    BY <2>2, <2>5 DEF FixedUp, SearchForObjects, SearchForArchive
  <2> QED
    BY <1>4, <2>3, <2>4, <2>5
<1>5. CASE LoopStep
  <2>1. UNCHANGED tables
    BY <1>5, LoopKeepsTables
  <2>2. table'[a] = table[a]
    BY <2>1 DEF tables
  <2>3. CASE StartMerge /\ a = cur
    <3>1. n \in tried /\ todo = {} /\ phase = "own"
      BY <2>2, <2>3 DEF StartMerge, NewSymbols, UndefinedIn
    <3>2. m \in loaded
      BY <1>2, <2>3, <3>1 DEF TriedInv
    <3>3. file[m][n] = "def"
      BY <1>2 DEF Lists
    <3> QED
      BY <2>2, <3>2, <3>3 DEF TablesMatchFiles
  <2>4. CASE StartMerge /\ a # cur
    BY <1>3, <2>2, <2>4 DEF StartMerge, FixedUp, TypeOK, Archives
  <2>5. CASE EndMerge
    <3>1. FixedUp(a)
      BY <2>5, ArchiveAssumption DEF EndMerge, FixedUp, TypeOK, Archives
    <3> QED
      BY <1>3, <2>2, <3>1
  <2>6. CASE StartRound \/ Done \/ UNCHANGED vars
    BY <1>3, <2>2, <2>6 DEF StartRound, Done, vars, FixedUp
  <2>7. CASE EndObjects
    BY <2>7 DEF EndObjects, FixedUp
  <2>8. CASE EndCross
    BY <2>8, ArchiveAssumption DEF EndCross, FixedUp, TypeOK, Archives
  <2> QED
    BY <1>5, <2>3, <2>4, <2>5, <2>6, <2>7, <2>8 DEF LoopStep
<1> QED
  BY <1>4, <1>5 DEF Next, LoopStep

LEMMA TriedAlways == Spec => []TriedInv
<1>1. Init => TriedInv
  BY DEF Init, TriedInv
<1> QED
  BY <1>1, TriedStep, ArchiveTypeCorrect, PTL DEF Spec

\* After _fixupARLinking an archive lacks nothing that it has itself
\* (OwnNamesClosed).
THEOREM OwnNamesCorrect == Spec => []OwnNamesClosed
<1>1. Init => OwnNamesClosed
  BY DEF Init, OwnNamesClosed, FixedUp
<1> QED
  BY <1>1, ClosedStep, TriedAlways, TablesMatchCorrect, ArchiveTypeCorrect, PTL DEF Spec

-----------------------------------------------------------------------------
(* The main linker *)

\* Only mergeWithLinker changes the symbol table of the main linker.
LEMMA OnlyMergeBinds ==
    ASSUME TypeOK, [Next]_vars, table'[0] # table[0]
    PROVE  \E n \in Names : MergeSymbol(n)
<1>1. ASSUME NEW as, NEW n \in Names, Search(as, n) PROVE table'[0] = table[0]
  <2>1. CASE \E m \in Members : Load(m)
    <3>1. PICK m \in Members : Load(m)
      BY <2>1
    <3>2. m[1] # 0 /\ 0 \in Linkers
      BY MemberTyped, ArchiveAssumption DEF Linkers
    <3> QED
      BY <3>1, <3>2, LoadStep
  <2>2. CASE UNCHANGED tables
    BY <2>2 DEF tables
  <2> QED
    BY <1>1, <2>1, <2>2 DEF Search
<1>2. CASE LoopStep
  BY <1>2, LoopKeepsTables DEF tables
<1> QED
  BY <1>1, <1>2 DEF Next, LoopStep, SearchForObjects, SearchForArchive, SearchOwn

\* A name of the main linker is mentioned, then stays with its first definition
\* (FirstDefinitionStays).
THEOREM FirstDefinitionCorrect == Spec => FirstDefinitionStays
<1>1. TypeOK /\ [Next]_vars => [Resolution!Next]_(table[0])
  <2> SUFFICES ASSUME TypeOK, [Next]_vars, table'[0] # table[0]
               PROVE  Resolution!Next
    OBVIOUS
  <2>1. PICK n \in Names : MergeSymbol(n)
    BY OnlyMergeBinds
  <2> DEFINE new == Resolve(table[0][n], table[cur][n])
  <2>2. /\ table[0] \in [Names -> Bindings] /\ table[cur][n] \in Bindings
        /\ table \in [Linkers -> [Names -> Bindings]] /\ 0 \in Linkers
    BY ArchiveAssumption DEF TypeOK, Archives, Linkers
  <2>3. table'[0] = [table[0] EXCEPT ![n] = new]
    BY <2>1, <2>2 DEF MergeSymbol
  <2>4. new # table[0][n]
    BY <2>2, <2>3
  <2>5. /\ table[0][n] \in {Unbound, Undefined}
        /\ \/ table[0][n] = Unbound /\ new = Undefined
           \/ new \in Members \cup {Program}
    BY <2>2, <2>4 DEF Resolve, Bindings
  <2> HIDE DEF new
  <2> QED
    BY <2>3, <2>5 DEF Resolution!Next, Resolution!Mention, Resolution!Define
<1> QED
  BY <1>1, ArchiveTypeCorrect, PTL DEF Spec, FirstDefinitionStays

\* mergeWithLinker has come to name n of archive a.
Passed(a, n) == ArchiveMerged(a) \/ (phase = "merge" /\ a = cur /\ n \notin todo)

LEMMA ResolveKeeps ==
    ASSUME NEW old \in Bindings, NEW new \in Bindings
    PROVE  /\ old # Unbound \/ new # Unbound => Resolve(old, new) # Unbound
           /\ old \in Members \cup {Program} => Resolve(old, new) = old
           /\ new \in Members \cup {Program} =>
                Resolve(old, new) \in Members \cup {Program}
           /\ old = Undefined /\ new \in Members => Resolve(old, new) = new
           /\ old = Undefined /\ new \in {Undefined, Unbound} => Resolve(old, new) = old
  BY ArchiveAssumption DEF Resolve, Bindings

\* What a step does to a name of an archive that is merged already, and when a
\* name becomes one.
LEMMA PassedStep ==
    ASSUME TypeOK, [Next]_vars, NEW a \in Archives, NEW n \in Names, Passed(a, n)'
    PROVE  /\ table'[a] = table[a]
           /\ \/ Passed(a, n)
              \/ a = cur /\ MergeSymbol(n)
              \/ table[a][n] = Unbound /\ table'[0] = table[0] /\ a = cur /\ StartMerge
<1>1. ASSUME NEW k \in Names, SearchForObjects(k) \/ SearchForArchive(k) PROVE FALSE
  BY <1>1 DEF SearchForObjects, SearchForArchive, Search, Passed, ArchiveMerged
<1>2. ASSUME NEW k \in Names, SearchOwn(k)
      PROVE  table'[a] = table[a] /\ Passed(a, n)
  <2>1. phase = "own" /\ a < cur /\ Passed(a, n)
    BY <1>2 DEF SearchOwn, Search, Passed, ArchiveMerged
  <2> QED
    BY <2>1, OnlyCurLoads DEF TypeOK, Archives
<1>3. ASSUME NEW k \in Names, MergeSymbol(k)
      PROVE  table'[a] = table[a] /\ (Passed(a, n) \/ (a = cur /\ MergeSymbol(n)))
  <2>1. table'[a] = table[a]
    BY <1>3, MergeKeepsArchives
  <2>2. Passed(a, n) \/ (a = cur /\ k = n)
    BY <1>3 DEF MergeSymbol, Passed, ArchiveMerged
  <2> QED
    BY <1>3, <2>1, <2>2
<1>4. CASE LoopStep
  <2>1. table' = table
    BY <1>4, LoopKeepsTables DEF tables
  <2>2. CASE StartMerge
    BY <2>1, <2>2 DEF StartMerge, Passed, ArchiveMerged
  <2>3. CASE EndMerge
    BY <2>1, <2>3, ArchiveAssumption
       DEF EndMerge, Passed, ArchiveMerged, TypeOK, Archives
  <2>4. CASE EndObjects
    BY <2>4 DEF EndObjects, Passed, ArchiveMerged
  <2>5. CASE EndCross
    BY <2>5, ArchiveAssumption DEF EndCross, Passed, ArchiveMerged, TypeOK, Archives
  <2>6. CASE StartRound \/ Done \/ UNCHANGED vars
    BY <2>1, <2>6 DEF StartRound, Done, vars, Passed, ArchiveMerged
  <2> QED
    BY <1>4, <2>1, <2>2, <2>3, <2>4, <2>5, <2>6 DEF LoopStep
<1> QED
  BY <1>1, <1>2, <1>3, <1>4 DEF Next, LoopStep

\* What the main linker owes a name of an archive that it has come to.
NotLost(a, n) ==
    /\ table[a][n] # Unbound => table[0][n] # Unbound
    /\ table[a][n] \in Members => table[0][n] \in Members \cup {Program}
LostInv == \A a \in Archives, n \in Names : Passed(a, n) => NotLost(a, n)

LEMMA LostStep == TypeOK /\ LostInv /\ [Next]_vars => LostInv'
<1> SUFFICES ASSUME TypeOK, LostInv, [Next]_vars,
                    NEW a \in Archives, NEW n \in Names, Passed(a, n)'
             PROVE  NotLost(a, n)'
  BY DEF LostInv
<1>1. table'[a] = table[a]
  BY PassedStep
<1>2. table[a][n] \in Bindings /\ table[0][n] \in Bindings /\ table[cur][n] \in Bindings
  BY ArchiveAssumption DEF TypeOK, Archives, Linkers
<1>3. CASE Passed(a, n) /\ table'[0] = table[0]
  BY <1>1, <1>3 DEF LostInv, NotLost
<1>4. CASE Passed(a, n) /\ table'[0] # table[0]
  <2>1. PICK k \in Names : MergeSymbol(k)
    BY <1>4, OnlyMergeBinds
  <2>2. table'[0][n] = IF k = n THEN Resolve(table[0][n], table[cur][n]) ELSE table[0][n]
    BY <2>1, MergeKeepsArchives
  <2>3. NotLost(a, n)
    BY <1>4 DEF LostInv
  <2> QED
    BY <1>1, <1>2, <2>2, <2>3, ResolveKeeps DEF NotLost
<1>5. CASE a = cur /\ MergeSymbol(n)
  <2>1. table'[0][n] = Resolve(table[0][n], table[a][n])
    BY <1>5, MergeKeepsArchives
  <2> QED
    BY <1>1, <1>2, <2>1, ResolveKeeps DEF NotLost
<1>6. CASE table[a][n] = Unbound
  BY <1>1, <1>6, ArchiveAssumption DEF NotLost
<1> QED
  BY <1>3, <1>4, <1>5, <1>6, PassedStep

\* What an archive's linker has, the main linker has after the merge
\* (NothingLost).
THEOREM NothingLostCorrect == Spec => []NothingLost
<1>1. Init => LostInv
  BY DEF Init, LostInv, Passed, ArchiveMerged
<1>2. LostInv => NothingLost
  BY DEF LostInv, NothingLost, NotLost, Passed
<1> QED
  BY <1>1, <1>2, LostStep, ArchiveTypeCorrect, PTL DEF Spec

-----------------------------------------------------------------------------
(* Which archive resolves a name *)

\* A set of natural numbers has a least element.
LEMMA HasLeast ==
    ASSUME NEW T \in SUBSET Nat, T # {}
    PROVE  \E x \in T : \A y \in T : x <= y
<1> DEFINE R == {p \in Nat \X Nat : p[1] < p[2]}
<1>1. IsWellFoundedOn(R, Nat)
  BY NatLessThanWellFounded DEF OpToRel
<1>2. PICK x \in T : \A y \in T : ~(<<y, x>> \in R)
  <2> HIDE DEF R
  <2> QED
    BY <1>1, WFMin
<1>3. \A y \in T : ~(y < x)
  BY <1>2
<1> QED
  BY <1>3

\* A bounded one has a greatest.
LEMMA HasGreatest ==
    ASSUME NEW size \in Nat, NEW T \in SUBSET Nat, T # {}, \A y \in T : y <= size
    PROVE  \E x \in T : \A y \in T : y <= x
<1> DEFINE U == {size - y : y \in T}
<1>1. U \in SUBSET Nat /\ U # {}
  <2>1. \A y \in T : size - y \in Nat
    OBVIOUS
  <2> QED
    BY <2>1
<1>2. PICK u \in U : \A v \in U : u <= v
  <2> HIDE DEF U
  <2> QED
    BY <1>1, HasLeast
<1>3. PICK x \in T : u = size - x
  BY <1>2
<1>4. ASSUME NEW y \in T PROVE y <= x
  <2>1. u <= size - y
    BY <1>2
  <2> QED
    BY <1>3, <2>1
<1> QED
  BY <1>4

\* What a member of an archive defines is in the archive's symbol table.
LEMMA DefinedIsListed ==
    ASSUME NEW m \in Members, NEW n \in Names, file[m][n] = "def"
    PROVE  \E k \in Members : k[1] = m[1] /\ Lists(k, n)
<1> DEFINE D == {k \in Members : k[1] = m[1] /\ file[k][n] = "def"}
           T == {k[2] : k \in D}
<1>1. ArchiveSize \in Nat /\ \A k \in Members : k[2] <= ArchiveSize
  BY ArchiveAssumption
<1>2. T \in SUBSET Nat /\ T # {} /\ \A y \in T : y <= ArchiveSize
  BY <1>1, MemberTyped
<1>3. PICK x \in T : \A y \in T : y <= x
  <2> HIDE DEF T
  <2> QED
    BY <1>1, <1>2, HasGreatest
<1>4. PICK k \in D : x = k[2]
  BY <1>3
<1>5. \A i \in D : i[2] <= k[2]
  BY <1>3, <1>4
<1> QED
  BY <1>4, <1>5 DEF Lists

LEMMA FirstListingUnique ==
    ASSUME NEW m \in Members, NEW k \in Members, NEW n \in Names, NEW as,
           FirstListing(m, as, n), FirstListing(k, as, n)
    PROVE  m = k
<1>1. m[1] <= k[1] /\ k[1] <= m[1]
  BY DEF FirstListing
<1>2. m[1] = k[1]
  BY <1>1, MemberTyped DEF Archives
<1> QED
  BY <1>2, ListsUnique DEF FirstListing

LEMMA InputKept == ASSUME [Next]_vars PROVE UNCHANGED input
  BY DEF Next, SearchForObjects, SearchForArchive, SearchOwn, Search, MergeSymbol,
     EndObjects, EndCross, StartRound, StartMerge, EndMerge, Done, vars

LEMMA LoadedKept == ASSUME TypeOK, [Next]_vars PROVE loaded \subseteq loaded'
<1>1. ASSUME NEW as, NEW n \in Names, Search(as, n) PROVE loaded \subseteq loaded'
  BY <1>1, LoadStep DEF Search, tables
<1>2. ASSUME NEW n \in Names, MergeSymbol(n) PROVE loaded \subseteq loaded'
  BY <1>2 DEF MergeSymbol
<1>3. CASE LoopStep
  BY <1>3, LoopKeepsTables DEF tables
<1> QED
  BY <1>1, <1>2, <1>3 DEF Next, LoopStep, SearchForObjects, SearchForArchive, SearchOwn

\* m is what the first loop loads for name n.
Resolves(m, n) == objects[n] = "undef" /\ FirstListing(m, Archives, n)

\* The first loop has loaded it, or has still to look at the name.
FirstLoaded ==
    \A n \in Names, m \in Members : Resolves(m, n) =>
        m \in loaded \/ (phase = "objects" /\ n \in todo)

LEMMA FirstLoadedStep == TypeOK /\ FirstLoaded /\ [Next]_vars => FirstLoaded'
<1> SUFFICES ASSUME TypeOK, FirstLoaded, [Next]_vars,
                    NEW n \in Names, NEW m \in Members, Resolves(m, n)'
             PROVE  m \in loaded' \/ (phase' = "objects" /\ n \in todo')
  BY DEF FirstLoaded
<1>1. Resolves(m, n)
  BY InputKept DEF Resolves, FirstListing, Lists, input
<1>2. CASE m \in loaded
  BY <1>2, LoadedKept
<1>3. CASE phase = "objects" /\ n \in todo
  <2>1. ASSUME NEW k \in Names, SearchForObjects(k) PROVE m \in loaded' \/ n \in todo'
    <3>1. CASE k = n
      <4>1. \E i \in Members : i[1] \in Archives /\ Lists(i, n)
        BY <1>1 DEF Resolves, FirstListing
      <4>2. PICK i \in Members : FirstListing(i, Archives, n) /\ Load(i)
        BY <2>1, <3>1, <4>1 DEF SearchForObjects, Search
      <4>3. i = m
        BY <1>1, <4>2, FirstListingUnique DEF Resolves
      <4> QED
        BY <4>2, <4>3, LoadStep
    <3>2. CASE k # n
      BY <1>3, <2>1, <3>2 DEF SearchForObjects, Search
    <3> QED
      BY <3>1, <3>2
  <2>2. ASSUME NEW k \in Names, SearchForObjects(k) PROVE phase' = "objects"
    BY <1>3, <2>2 DEF SearchForObjects, Search
  <2>3. \/ \E k \in Names : SearchForObjects(k)
        \/ UNCHANGED vars
    BY <1>3 DEF Next, SearchForArchive, SearchOwn, MergeSymbol, EndObjects, EndCross,
       StartRound, StartMerge, EndMerge, Done
  <2> QED
    BY <1>3, <2>1, <2>2, <2>3 DEF vars
<1> QED
  BY <1>1, <1>2, <1>3 DEF FirstLoaded

\* Until its archive is merged the name is undefined, and from then on the main
\* linker has the archive's definition.
FirstBound ==
    \A n \in Names, m \in Members : Resolves(m, n) =>
        /\ Passed(m[1], n) => table[0][n] \in Members /\ table[0][n] = table[m[1]][n]
        /\ ~Passed(m[1], n) => table[0][n] = Undefined

LEMMA PassedStays ==
    ASSUME TypeOK, [Next]_vars, NEW a \in Archives, NEW n \in Names, Passed(a, n)
    PROVE  Passed(a, n)'
<1>1. ASSUME NEW k \in Names,
             SearchForObjects(k) \/ SearchForArchive(k) \/ SearchOwn(k) \/ MergeSymbol(k)
      PROVE  Passed(a, n)'
  BY <1>1 DEF SearchForObjects, SearchForArchive, SearchOwn, Search, MergeSymbol,
     Passed, ArchiveMerged
<1>2. CASE EndMerge
  BY <1>2, ArchiveAssumption DEF EndMerge, Passed, ArchiveMerged, TypeOK, Archives
<1>3. CASE EndObjects \/ EndCross
  BY <1>3 DEF EndObjects, EndCross, Passed, ArchiveMerged
<1>4. CASE StartRound \/ StartMerge \/ Done \/ UNCHANGED vars
  BY <1>4 DEF StartRound, StartMerge, Done, vars, Passed, ArchiveMerged
<1> QED
  BY <1>1, <1>2, <1>3, <1>4 DEF Next

LEMMA FirstBoundStep ==
    TypeOK /\ TablesMatchFiles /\ FirstLoaded /\ FirstBound /\ [Next]_vars => FirstBound'
<1> SUFFICES ASSUME TypeOK, TablesMatchFiles, FirstLoaded, FirstBound, [Next]_vars,
                    NEW n \in Names, NEW m \in Members, Resolves(m, n)'
             PROVE  /\ Passed(m[1], n)' =>
                         table'[0][n] \in Members /\ table'[0][n] = table'[m[1]][n]
                    /\ ~Passed(m[1], n)' => table'[0][n] = Undefined
  BY DEF FirstBound
<1>1. Resolves(m, n)
  BY InputKept DEF Resolves, FirstListing, Lists, input
<1>2. m[1] \in Archives
  BY MemberTyped
<1>3. table[m[1]][n] \in Bindings /\ table[0][n] \in Bindings
      /\ table[cur][n] \in Bindings /\ cur \in Archives
  BY <1>2, ArchiveAssumption DEF TypeOK, Archives, Linkers
<1>4. phase # "objects" => table[m[1]][n] \in Members
  <2> SUFFICES ASSUME phase # "objects" PROVE table[m[1]][n] \in Members
    OBVIOUS
  <2>1. m \in loaded /\ file[m][n] = "def"
    BY <1>1 DEF FirstLoaded, Resolves, FirstListing, Lists
  <2> QED
    BY <1>2, <1>3, <2>1 DEF TablesMatchFiles, Bindings
<1>5. \/ table'[0][n] = table[0][n]
      \/ MergeSymbol(n) /\ table'[0][n] = Resolve(table[0][n], table[cur][n])
  BY OnlyMergeBinds, MergeKeepsArchives
<1>6. CASE Passed(m[1], n)
  <2>1. Passed(m[1], n)' /\ table'[m[1]] = table[m[1]]
    BY <1>2, <1>6, PassedStays, PassedStep
  <2>2. table[0][n] \in Members /\ table[0][n] = table[m[1]][n]
    BY <1>1, <1>6 DEF FirstBound
  <2> QED
    BY <1>3, <1>5, <2>1, <2>2, ResolveKeeps
<1>7. CASE ~Passed(m[1], n) /\ Passed(m[1], n)'
  <2>1. table'[m[1]] = table[m[1]]
        /\ ((m[1] = cur /\ MergeSymbol(n)) \/ (table[m[1]][n] = Unbound /\ StartMerge))
    BY <1>2, <1>7, PassedStep
  <2>2. table[0][n] = Undefined
    BY <1>1, <1>7 DEF FirstBound
  <2>3. table[m[1]][n] \in Members /\ table[m[1]][n] # Unbound
    BY <1>4, <2>1, ArchiveAssumption DEF MergeSymbol, StartMerge
  <2>4. m[1] = cur /\ table'[0][n] = Resolve(table[0][n], table[cur][n])
    BY <2>1, <2>3, MergeKeepsArchives
  <2>5. table[cur][n] = table[m[1]][n] /\ table'[m[1]][n] = table[m[1]][n]
    BY <2>1, <2>4
  <2>6. table'[0][n] = table[cur][n]
    BY <1>3, <2>2, <2>3, <2>4, <2>5, ResolveKeeps
  <2> QED
    BY <1>7, <2>3, <2>5, <2>6
<1>8. CASE ~Passed(m[1], n) /\ ~Passed(m[1], n)'
  <2>1. table[0][n] = Undefined
    BY <1>1, <1>8 DEF FirstBound
  <2>2. ASSUME MergeSymbol(n) PROVE table[cur][n] \in {Undefined, Unbound}
    <3>1. cur < m[1]
      BY <1>2, <1>3, <1>8, <2>2 DEF MergeSymbol, Passed, ArchiveMerged, Archives
    <3>2. ASSUME table[cur][n] \in Members PROVE FALSE
      <4>1. PICK k \in Members : k[1] = cur /\ file[k][n] = "def"
        BY <1>3, <3>2 DEF TablesMatchFiles
      <4>2. PICK i \in Members : i[1] = cur /\ Lists(i, n)
        BY <4>1, DefinedIsListed
      <4>3. m[1] <= cur
        BY <1>1, <1>3, <4>2 DEF Resolves, FirstListing
      <4> QED
        BY <1>2, <1>3, <3>1, <4>3 DEF Archives
    <3>3. table[cur][n] # Program
      BY <1>3 DEF TablesMatchFiles
    <3> QED
      BY <1>3, <3>2, <3>3 DEF Bindings
  <2> QED
    BY <1>3, <1>5, <1>8, <2>1, <2>2, ResolveKeeps
<1> QED
  BY <1>6, <1>7, <1>8

\* A name that the objects leave undefined is defined by the first archive of the
\* command line that has it (FirstArchiveResolves).
THEOREM FirstArchiveCorrect == Spec => []FirstArchiveResolves
<1>1. Init => FirstLoaded
  BY DEF Init, FirstLoaded, Resolves
<1>2. Init => FirstBound
  <2> SUFFICES ASSUME Init, NEW n \in Names, NEW m \in Members, Resolves(m, n)
               PROVE  ~Passed(m[1], n) /\ table[0][n] = Undefined
    BY DEF FirstBound
  <2>1. 0 \in Linkers /\ objects[n] = "undef"
    BY ArchiveAssumption DEF Linkers, Resolves
  <2> QED
    BY <2>1 DEF Init, Passed, ArchiveMerged, Symbol
<1>3. TypeOK /\ TablesMatchFiles /\ FirstBound => FirstArchiveResolves
  <2> SUFFICES ASSUME TypeOK, TablesMatchFiles, FirstBound, phase = "done",
                      NEW n \in Names, NEW m \in Members, Resolves(m, n)
               PROVE  /\ table[0][n] \in loaded
                      /\ table[0][n][1] = m[1]
                      /\ file[table[0][n]][n] = "def"
    BY DEF FirstArchiveResolves, Resolves
  <2>1. table[0][n] \in Members /\ table[0][n] = table[m[1]][n]
    BY DEF FirstBound, Passed, ArchiveMerged
  <2> QED
    BY <2>1, MemberTyped DEF TablesMatchFiles
<1> QED
  BY <1>1, <1>2, <1>3, FirstLoadedStep, FirstBoundStep, TablesMatchCorrect,
     ArchiveTypeCorrect, PTL DEF Spec

-----------------------------------------------------------------------------
(* What is loaded *)

\* A name that a loop still has to look at is one that the objects, or a loaded
\* member of the loop's archive, leave undefined.
Mentioned(n) == \E k \in loaded : k[1] = cur /\ file[k][n] = "undef"
AskedInv ==
    /\ phase = "objects" => cur = 1 /\ \A n \in todo : objects[n] = "undef"
    /\ phase \in {"cross", "own"} => \A n \in todo : Mentioned(n)

LEMMA UndefinedMentioned ==
    ASSUME TypeOK, TablesMatchFiles, NEW a \in Archives, NEW n \in UndefinedIn(a)
    PROVE  \E k \in loaded : k[1] = a /\ file[k][n] = "undef"
  BY DEF TablesMatchFiles, UndefinedIn

LEMMA AskedStep == TypeOK /\ TablesMatchFiles /\ AskedInv /\ [Next]_vars => AskedInv'
<1> SUFFICES ASSUME TypeOK, TablesMatchFiles, AskedInv, [Next]_vars PROVE AskedInv'
  OBVIOUS
<1>1. UNCHANGED <<objects, file>> /\ loaded \subseteq loaded'
  BY InputKept, LoadedKept DEF input
<1>2. ASSUME NEW n \in Names,
             SearchForObjects(n) \/ SearchForArchive(n) \/ SearchOwn(n)
      PROVE  AskedInv'
  <2>1. todo' = todo \ {n} /\ UNCHANGED <<phase, cur>>
    BY <1>2 DEF SearchForObjects, SearchForArchive, SearchOwn, Search
  <2> QED
    BY <1>1, <2>1 DEF AskedInv, Mentioned
<1>3. ASSUME NEW n \in Names, MergeSymbol(n) PROVE AskedInv'
  BY <1>3 DEF MergeSymbol, AskedInv
<1>4. CASE EndObjects
  <2>1. cur \in Archives /\ cur' = cur /\ todo' = UndefinedIn(cur) /\ phase' = "cross"
    BY <1>4 DEF EndObjects, TypeOK, AskedInv
  <2> QED
    BY <1>1, <2>1, UndefinedMentioned DEF AskedInv, Mentioned
<1>5. CASE EndCross
  <2>1. CASE cur < NumArchives
    <3>1. cur' \in Archives /\ todo' = UndefinedIn(cur') /\ phase' = "cross"
      BY <1>5, <2>1, ArchiveAssumption DEF EndCross, TypeOK, Archives
    <3> QED
      BY <1>1, <3>1, UndefinedMentioned DEF AskedInv, Mentioned
  <2>2. CASE ~(cur < NumArchives)
    BY <1>5, <2>2 DEF EndCross, AskedInv
  <2> QED
    BY <2>1, <2>2
<1>6. CASE StartRound
  <2>1. cur' = cur /\ cur \in Archives /\ todo' \subseteq UndefinedIn(cur) /\ phase' = "own"
    BY <1>6 DEF StartRound, NewSymbols, TypeOK
  <2> QED
    BY <1>1, <2>1, UndefinedMentioned DEF AskedInv, Mentioned
<1>7. CASE StartMerge \/ EndMerge
  BY <1>7 DEF StartMerge, EndMerge, AskedInv
<1>8. CASE Done \/ UNCHANGED vars
  BY <1>8 DEF Done, vars, input, tables, AskedInv, Mentioned
<1> QED
  BY <1>2, <1>3, <1>4, <1>5, <1>6, <1>7, <1>8 DEF Next

LoadedInv == \A S \in SUBSET Members : Closed(S) => loaded \subseteq S

LEMMA LoadedStep == TypeOK /\ AskedInv /\ LoadedInv /\ [Next]_vars => LoadedInv'
<1> SUFFICES ASSUME TypeOK, AskedInv, LoadedInv, [Next]_vars,
                    NEW S \in SUBSET Members, Closed(S)'
             PROVE  loaded' \subseteq S
  BY DEF LoadedInv
<1>1. Closed(S)
  BY InputKept DEF Closed, Asks, FirstListing, Lists, input
<1>2. loaded \subseteq S
  BY <1>1 DEF LoadedInv
<1>3. ASSUME NEW as, NEW n \in Names, Search(as, n),
             \A m \in Members : FirstListing(m, as, n) => m \in S
      PROVE  loaded' \subseteq S
  BY <1>2, <1>3, LoadStep DEF Search, tables
<1>4. ASSUME NEW n \in Names, SearchForObjects(n) PROVE loaded' \subseteq S
  <2>1. objects[n] = "undef" /\ Search(Archives, n)
    BY <1>4 DEF SearchForObjects, Search, AskedInv
  <2> QED
    BY <1>1, <1>3, <2>1 DEF Closed
<1>5. ASSUME NEW n \in Names, SearchForArchive(n) PROVE loaded' \subseteq S
  <2>1. Mentioned(n) /\ Search(Archives \ {cur}, n)
    BY <1>5 DEF SearchForArchive, Search, AskedInv
  <2>2. PICK k \in loaded : k[1] = cur /\ file[k][n] = "undef"
    BY <2>1 DEF Mentioned
  <2>3. \A m \in Members : FirstListing(m, Archives \ {cur}, n) => Asks(k, n, m)
    BY <2>2 DEF Asks
  <2> QED
    BY <1>1, <1>2, <1>3, <2>1, <2>2, <2>3 DEF Closed
<1>6. ASSUME NEW n \in Names, SearchOwn(n) PROVE loaded' \subseteq S
  <2>1. Mentioned(n) /\ Search({cur}, n)
    BY <1>6 DEF SearchOwn, Search, AskedInv
  <2>2. PICK k \in loaded : k[1] = cur /\ file[k][n] = "undef"
    BY <2>1 DEF Mentioned
  <2>3. \A m \in Members : FirstListing(m, {cur}, n) => Asks(k, n, m)
    BY <2>2 DEF Asks
  <2> QED
    BY <1>1, <1>2, <1>3, <2>1, <2>2, <2>3 DEF Closed
<1>7. ASSUME NEW n \in Names, MergeSymbol(n) PROVE loaded' \subseteq S
  BY <1>2, <1>7 DEF MergeSymbol
<1>8. CASE LoopStep
  BY <1>2, <1>8, LoopKeepsTables DEF tables
<1> QED
  BY <1>4, <1>5, <1>6, <1>7, <1>8 DEF Next, LoopStep

\* Nothing is loaded that the program does not lead to (LoadedIsAskedFor).
THEOREM LoadedCorrect == Spec => []LoadedIsAskedFor
<1>1. Init => AskedInv /\ LoadedInv
  BY DEF Init, AskedInv, LoadedInv
<1>2. LoadedInv => LoadedIsAskedFor
  BY DEF LoadedInv, LoadedIsAskedFor
<1> QED
  BY <1>1, <1>2, AskedStep, LoadedStep, TablesMatchCorrect, ArchiveTypeCorrect, PTL
     DEF Spec
=============================================================================
