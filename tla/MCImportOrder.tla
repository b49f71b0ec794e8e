---------------------------- MODULE MCImportOrder ----------------------------
(***************************************************************************)
(* ImportOrder with three functions to import and two to define, two       *)
(* globals, a tag, and a table of either kind, that come and go.           *)
(***************************************************************************)
EXTENDS ImportOrder

MCValuesOf ==
    [s \in Spaces |->
        CASE s = "functions" -> {"i1", "i2", "i3", "d1", "d2"}
          [] s = "globals" -> {"i1", "i2"}
          [] s = "tags" -> {"i1"}
          [] s = "tables" -> {"i1", "d1"}]
=============================================================================
