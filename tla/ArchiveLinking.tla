--------------------------- MODULE ArchiveLinking ---------------------------
(***************************************************************************)
(* How performLinking brings in static archives.  An ARLinker knows, from  *)
(* the archive's symbol table, which member defines a name, and parses and *)
(* merges a member into a linker of the archive's own when a name of it is *)
(* first asked for.  performLinking asks, in three loops,                  *)
(*   - all archives for what the objects leave undefined ("objects"),      *)
(*   - the other archives for what an archive leaves undefined ("cross"),  *)
(*   - each archive for its own undefined names (_fixupARLinking, "own"),  *)
(*     after which its linker is merged into the main one ("merge").       *)
(*                                                                         *)
(* What a merge does to the table of names is what SymbolMerge shows of    *)
(* mergeWithModule; mergeWithLinker repeats its rules.  Names are the ones *)
(* of global functions and data.  __start_ and __stop_ names, which no     *)
(* member defines, and imports from modules other than env are left out.   *)
(***************************************************************************)
EXTENDS Integers, FiniteSets

CONSTANTS
    Names,           \* names of functions and data
    NumArchives,     \* the static archives, in the order of the command line
    ArchiveSize,     \* how many members an archive has at most
    Members,         \* <<archive, number>>, numbered as they lie in the file
    ObjectFiles,     \* what the objects together may say of the names
    MemberFiles,     \* what a member of an archive may say of the names
    Watchdog,        \* rounds before LOOP_WATCHDOG: 10000 in the code
    Program,         \* definer of the names the objects define
    Unbound,         \* no symbol of the name
    Undefined        \* a symbol with WASM_SYM_UNDEFINED

Archives == 1..NumArchives
Linkers == 0..NumArchives    \* the main linker and the ones of the archives
Bindings == Members \cup {Program, Unbound, Undefined}

ASSUME ArchiveAssumption ==
    /\ IsFiniteSet(Names)
    /\ NumArchives \in Nat \ {0}
    /\ ArchiveSize \in Nat
    /\ Members \subseteq Archives \X (1..ArchiveSize)
    /\ ObjectFiles \subseteq [Names -> {"absent", "undef", "def"}]
    /\ MemberFiles \subseteq [Names -> {"absent", "undef", "def"}]
    /\ Watchdog \in Nat /\ Cardinality(Names) <= Watchdog
    /\ {Program, Unbound, Undefined} \cap Members = {}
    /\ Program # Unbound /\ Program # Undefined /\ Unbound # Undefined

VARIABLES
    objects,   \* name -> what the objects say of it (input)
    file,      \* member -> name -> what the member says of it (input)
    phase,     \* the loop of performLinking
    cur,       \* its archive
    todo,      \* names the loop has still to look at
    loaded,    \* the members with _isloaded set
    table,     \* linker -> name -> its symbol in _symtable
    tried,     \* prevfunc and prevdata of _fixupARLinking
    rounds     \* its loopcnt

input == <<objects, file>>
tables == <<loaded, table>>
call == <<tried, rounds>>
vars == <<input, phase, cur, todo, tables, call>>

\* The symbol a file of this status brings for a name it may define as d.
Symbol(status, d) ==
    CASE status = "absent" -> Unbound
      [] status = "undef"  -> Undefined
      [] status = "def"    -> d

UndefinedIn(l) == {n \in Names : table[l][n] = Undefined}

Init ==
    /\ objects \in ObjectFiles
    /\ file \in [Members -> MemberFiles]
    /\ phase = "objects"
    /\ cur = 1
    /\ todo = {n \in Names : objects[n] = "undef"}
    /\ loaded = {}
    /\ table = [l \in Linkers |-> [n \in Names |->
                  IF l = 0 THEN Symbol(objects[n], Program) ELSE Unbound]]
    /\ tried = {}
    /\ rounds = 0

-----------------------------------------------------------------------------
(* ARLinker *)

\* symtable.set: of the members that define a name, the last one is listed.
Lists(m, n) ==
    /\ file[m][n] = "def"
    /\ \A k \in Members : k[1] = m[1] /\ file[k][n] = "def" => k[2] <= m[2]

\* Mutant: the last definition wins.
ResolveLast(old, new) == IF new \in {Unbound, Undefined} /\ old # Unbound THEN old ELSE new

\* A symbol new to a linker is added, and one that is undefined gives way to a
\* definition: the common rule of mergeWithModule and mergeWithLinker.
Resolve(old, new) ==
    IF old = Unbound \/ (old = Undefined /\ new # Unbound) THEN new ELSE old

\* loadFuncSymbol, loadDataSymbol: the member is read when it is not yet loaded.
Load(m) ==
    /\ loaded' = loaded \cup {m}
    /\ table' = IF m \in loaded THEN table
                ELSE [table EXCEPT ![m[1]] =
                        [n \in Names |-> Resolve(@[n], Symbol(file[m][n], m))]]

-----------------------------------------------------------------------------
(* performLinking *)

\* Of the archives as, the member's is the first whose symbol table has the name.
FirstListing(m, as, n) ==
    /\ m[1] \in as
    /\ Lists(m, n)
    /\ \A k \in Members : k[1] \in as /\ Lists(k, n) => m[1] <= k[1]

\* One name of a loop, asked of the archives as.
Search(as, n) ==
    /\ n \in todo
    /\ todo' = todo \ {n}
    /\ \/ \E m \in Members : FirstListing(m, as, n) /\ Load(m)
       \/ /\ ~\E m \in Members : m[1] \in as /\ Lists(m, n)
          /\ UNCHANGED tables
    /\ UNCHANGED <<input, phase, cur, call>>

\* Mutants: the loop over the archives starts one late; it asks for members
\* that only mention the name.
SearchForObjectsLate(n) == phase = "objects" /\ Search(Archives \ {1}, n)
SearchForObjectsMentioned(n) ==
    /\ phase = "objects"
    /\ n \in todo
    /\ todo' = todo \ {n}
    /\ IF \E m \in Members : file[m][n] # "absent"
       THEN \E m \in Members : file[m][n] # "absent" /\ Load(m)
       ELSE UNCHANGED tables
    /\ UNCHANGED <<input, phase, cur, call>>

SearchForObjects(n) == phase = "objects" /\ Search(Archives, n)

SearchForArchive(n) == phase = "cross" /\ Search(Archives \ {cur}, n)

\* The objects are served: the loop over the archives starts with the first.
EndObjects ==
    /\ phase = "objects"
    /\ todo = {}
    /\ phase' = "cross"
    /\ todo' = UndefinedIn(1)
    /\ UNCHANGED <<input, cur, tables, call>>

\* An archive that nothing is loaded from has no linker, and no undefined names.
EndCross ==
    /\ phase = "cross"
    /\ todo = {}
    /\ IF cur < NumArchives
       THEN phase' = phase /\ cur' = cur + 1 /\ todo' = UndefinedIn(cur + 1)
       ELSE phase' = "own" /\ cur' = 1 /\ todo' = {}
    /\ UNCHANGED <<input, tables, call>>

\* Mutant: only the names of the first round are asked for.
NewSymbolsOnce == IF rounds = 0 THEN UndefinedIn(cur) ELSE {}

\* newsym of a round: undefined names not in prevfunc or prevdata
NewSymbols == UndefinedIn(cur) \ tried

\* With more rounds than the watchdog allows the code throws LOOP_WATCHDOG.
StartRound ==
    /\ phase = "own"
    /\ todo = {}
    /\ rounds <= Watchdog
    /\ NewSymbols # {}
    /\ todo' = NewSymbols
    /\ tried' = tried \cup NewSymbols
    /\ rounds' = rounds + 1
    /\ UNCHANGED <<input, phase, cur, tables>>

SearchOwn(n) == phase = "own" /\ Search({cur}, n)

\* A round finds no new name: the archive's linker is merged next.
StartMerge ==
    /\ phase = "own"
    /\ todo = {}
    /\ rounds <= Watchdog
    /\ NewSymbols = {}
    /\ phase' = "merge"
    /\ todo' = {n \in Names : table[cur][n] # Unbound}
    /\ UNCHANGED <<input, cur, tables, call>>

\* One symbol of mergeWithLinker.
MergeSymbol(n) ==
    /\ phase = "merge"
    /\ n \in todo
    /\ todo' = todo \ {n}
    /\ table' = [table EXCEPT ![0][n] = Resolve(@, table[cur][n])]
    /\ UNCHANGED <<input, phase, cur, loaded, call>>

\* Mutant: the counter is not advanced.
EndMergeStays ==
    /\ phase = "merge"
    /\ todo = {}
    /\ phase' = IF cur < NumArchives THEN "own" ELSE "done"
    /\ tried' = {}
    /\ rounds' = 0
    /\ UNCHANGED <<input, cur, todo, tables>>

EndMerge ==
    /\ phase = "merge"
    /\ todo = {}
    /\ IF cur < NumArchives
       THEN phase' = "own" /\ cur' = cur + 1
       ELSE phase' = "done" /\ cur' = cur
    /\ tried' = {}
    /\ rounds' = 0
    /\ UNCHANGED <<input, todo, tables>>

Done == phase = "done" /\ UNCHANGED vars

Next ==
    \/ \E n \in Names :
          \/ SearchForObjects(n)
          \/ SearchForArchive(n)
          \/ SearchOwn(n)
          \/ MergeSymbol(n)
    \/ EndObjects
    \/ EndCross
    \/ StartRound
    \/ StartMerge
    \/ EndMerge
    \/ Done

Spec == Init /\ [][Next]_vars

\* The loops run to their end: nothing else holds the thread.
FairSpec == Spec /\ WF_vars(Next)

-----------------------------------------------------------------------------
(* Properties *)

TypeOK ==
    /\ objects \in ObjectFiles
    /\ file \in [Members -> MemberFiles]
    /\ phase \in {"objects", "cross", "own", "merge", "done"}
    /\ cur \in Archives
    /\ todo \subseteq Names
    /\ loaded \subseteq Members
    /\ table \in [Linkers -> [Names -> Bindings]]
    /\ tried \subseteq Names
    /\ rounds \in 0..Watchdog + 1

FixedUp(a) ==
    \/ phase = "own" /\ a < cur
    \/ phase = "merge" /\ a <= cur
    \/ phase = "done"

\* Once _fixupARLinking has returned for an archive, no name its linker leaves
\* undefined is in its own symbol table, however long the chain of members was
\* and whatever other archives loaded from it before.
OwnNamesClosed ==
    \A a \in Archives : FixedUp(a) =>
        \A n \in UndefinedIn(a), m \in Members : m[1] = a => ~Lists(m, n)

\* _fixupARLinking never throws LOOP_WATCHDOG: its loop needs no more rounds than
\* there are names, whatever was loaded before it and however members chain.
WatchdogSilent == phase = "own" /\ todo = {} => rounds <= Watchdog

\* A name that the objects leave undefined ends up defined by the first archive
\* of the command line that has it, even when a later archive, or another member
\* of the same one, was loaded earlier and defines it too.
FirstArchiveResolves ==
    phase = "done" =>
        \A n \in Names, m \in Members :
            (objects[n] = "undef" /\ FirstListing(m, Archives, n)) =>
                /\ table[0][n] \in loaded
                /\ table[0][n][1] = m[1]
                /\ file[table[0][n]][n] = "def"

\* Members a loop may ask for on behalf of member m: of its own archive, and the
\* first of the other ones.
Asks(m, n, k) ==
    /\ file[m][n] = "undef"
    /\ FirstListing(k, {m[1]}, n) \/ FirstListing(k, Archives \ {m[1]}, n)

\* Closed under what the objects and the members of S leave undefined.
Closed(S) ==
    \A n \in Names, k \in Members :
        (\/ objects[n] = "undef" /\ FirstListing(k, Archives, n)
         \/ \E m \in S : Asks(m, n, k)) => k \in S

\* No member is loaded that the program does not lead to: loaded is part of every
\* set of members that has what the objects and its own members ask for.
LoadedIsAskedFor ==
    phase = "done" => \A S \in SUBSET Members : Closed(S) => loaded \subseteq S

\* A symbol of an archive's linker comes from a loaded member of the archive that
\* defines the name, or mentions it while none defines it; and a name is not in
\* the linker only if none of its loaded members has it.
TablesMatchFiles ==
    \A a \in Archives, n \in Names :
        /\ table[a][n] # Program
        /\ table[a][n] \in Members =>
              /\ table[a][n] \in loaded /\ table[a][n][1] = a
              /\ file[table[a][n]][n] = "def"
        /\ table[a][n] = Undefined =>
              /\ \E m \in loaded : m[1] = a /\ file[m][n] = "undef"
              /\ \A m \in loaded : m[1] = a => file[m][n] # "def"
        /\ table[a][n] = Unbound =>
              \A m \in loaded : m[1] = a => file[m][n] = "absent"

\* When an archive was merged, the main linker has each of its names, defined if
\* the archive defines it.
ArchiveMerged(a) == (phase \in {"own", "merge"} /\ a < cur) \/ phase = "done"
NothingLost ==
    \A a \in Archives, n \in Names : ArchiveMerged(a) =>
        /\ table[a][n] # Unbound => table[0][n] # Unbound
        /\ table[a][n] \in Members => table[0][n] \in Members \cup {Program}

\* Every name of the main linker stays with its first definition through all the
\* merges of archives: the promise of SymbolResolution.
Resolution == INSTANCE SymbolResolution WITH
    Definers <- Members \cup {Program},
    binding <- table[0]
FirstDefinitionStays == [][Resolution!Next]_(table[0])

\* All archives are merged (FairSpec: the loops terminate).
EventuallyLinked == <>(phase = "done")

-----------------------------------------------------------------------------
(* What a comment of the code expects, and the code does not do *)

\* "letting AR loaders try to load undefined symbols against other AR loaders":
\* no name is left undefined that an archive of the command line defines.
ArchivesResolveEachOther ==
    phase = "done" =>
        \A n \in UndefinedIn(0), m \in Members : ~Lists(m, n)
=============================================================================
