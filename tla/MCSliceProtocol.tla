--------------------------- MODULE MCSliceProtocol ---------------------------
(* Slices of no length, of one tick and of a few, for TLC.                  *)
EXTENDS SliceProtocol

SliceLengths == {0, 1, 3}
=============================================================================
