--------------------------- MODULE MCDelayPromoter ---------------------------
(* A small instance of DelayPromoter for TLC.                              *)
EXTENDS DelayPromoter

CONSTANTS m1, m2, r1, r2
=============================================================================
