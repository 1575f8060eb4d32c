-------------------------- MODULE MCRealtimeClient --------------------------
(* Instances of RealtimeClient for TLC.                                    *)
EXTENDS RealtimeClient

CONSTANTS board
=============================================================================
