--------------------------- MODULE MCDocumentLock ---------------------------
(* Instances of DocumentLock for TLC: ann and ben may edit, vic may only   *)
(* read; each has one tab, and ann's may have two calls in flight.         *)
EXTENDS DocumentLock, TLC

CONSTANTS ann, ben, vic, a1, b1, v1

MCUsers == {ann, ben, vic}
MCWriters == {ann, ben}
MCTabs == {a1, b1, v1}
MCHandlers == {<<a1, 1>>, <<a1, 2>>, <<b1, 1>>, <<v1, 1>>}
MCOwner == (a1 :> ann) @@ (b1 :> ben) @@ (v1 :> vic)
=============================================================================
