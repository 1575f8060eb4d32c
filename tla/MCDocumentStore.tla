-------------------------- MODULE MCDocumentStore --------------------------
(* Instances of DocumentStore for TLC: one or two members and a viewer     *)
(* have the document open.                                                 *)
EXTENDS DocumentStore, TLC

CONSTANTS alice, bob, viewer

MemberAndViewer == {alice, viewer}
Member == {alice}
MCEditors == {alice, bob, viewer}
MCWriters == {alice, bob}
AnySteps == {0,1}
DistinctSteps == {1}
Symmetry == Permutations(Requests) \cup Permutations(MCWriters)
SymmetricCalls == Permutations(Requests)
=============================================================================
