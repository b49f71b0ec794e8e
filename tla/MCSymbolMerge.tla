--------------------------- MODULE MCSymbolMerge ---------------------------
(***************************************************************************)
(* A function f that calls w and reads the global or tag g, a function w   *)
(* that reads the datum d, and d, a table that holds the address of f: the *)
(* operands and relocations of an object form a cycle through every kind.  *)
(***************************************************************************)
EXTENDS SymbolMerge

MCOperands == [n \in FuncNames |-> IF n = "f" THEN {"w"} \cup ImportNames ELSE {}]
MCRelocs == [n \in Holders |-> CASE n = "d" -> {"f"} [] n = "w" -> {"d"} [] OTHER -> {}]
=============================================================================
