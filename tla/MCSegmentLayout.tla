------------------------- MODULE MCSegmentLayout -------------------------
(***************************************************************************)
(* SegmentLayout on every input of a few segments.                         *)
(***************************************************************************)
EXTENDS SegmentLayout

MCAlignments == {2, 4}
MCSizes == {1, 4}
=============================================================================
