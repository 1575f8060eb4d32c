-------------------------- MODULE MCOrganizations --------------------------
(* Instances of Organizations for TLC.                                     *)
EXTENDS Organizations, TLC

Symmetry == Permutations(Requests) \cup Permutations(Users)
=============================================================================
