----------------------------- MODULE MCHttpServer -----------------------------
(* Instances of HttpServer for TLC.                                        *)
EXTENDS HttpServer

CONSTANTS i1, i2
=============================================================================
