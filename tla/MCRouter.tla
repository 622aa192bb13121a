------------------------------ MODULE MCRouter ------------------------------
(* Small instances of Router for TLC.                                      *)
EXTENDS Router

CONSTANTS h1, h2

MCOrder == <<h1, h2>>
=============================================================================
