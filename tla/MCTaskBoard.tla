---------------------------- MODULE MCTaskBoard ----------------------------
(* Instances of TaskBoard for TLC.                                         *)
EXTENDS TaskBoard, TLC

Symmetry == Permutations(Requests)
=============================================================================
