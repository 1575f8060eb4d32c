--------------------------- MODULE MCDocumentPages ---------------------------
(* Instances of DocumentPages for TLC.                                     *)
EXTENDS DocumentPages, TLC

CONSTANTS p1, c1, c2, c3

Symmetry == Permutations(Calls)
=============================================================================
