-------------------------- MODULE SymbolResolution --------------------------
(***************************************************************************)
(* What merging object files promises about a global symbol: a name that   *)
(* nobody mentioned is unbound, a name that is mentioned is at least       *)
(* undefined, and a name that is defined stays with its first definition.  *)
(***************************************************************************)
CONSTANTS
    Names,       \* the global names
    Definers,    \* who may define a name
    Unbound,     \* the name is not in the symbol table
    Undefined    \* the name is in the symbol table with WASM_SYM_UNDEFINED

VARIABLE binding    \* name -> Unbound, Undefined or its definer

Init == binding = [n \in Names |-> Unbound]

Mention(n) ==
    /\ binding[n] = Unbound
    /\ binding' = [binding EXCEPT ![n] = Undefined]

Define(n, o) ==
    /\ binding[n] \in {Unbound, Undefined}
    /\ binding' = [binding EXCEPT ![n] = o]

Next == \E n \in Names : Mention(n) \/ \E o \in Definers : Define(n, o)

Spec == Init /\ [][Next]_binding
=============================================================================
