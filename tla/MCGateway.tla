----------------------------- MODULE MCGateway -----------------------------
(* Instances of Gateway for TLC: tabs of one user, who may see the room    *)
(* or not.                                                                 *)
EXTENDS Gateway

CONSTANTS ann, c1, c2, room

OneUser == [c \in Conns |-> ann]
=============================================================================
