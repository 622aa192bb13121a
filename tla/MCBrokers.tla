----------------------------- MODULE MCBrokers -----------------------------
(* A small instance of Brokers for TLC.                                    *)
EXTENDS Brokers

CONSTANTS s1, s2
=============================================================================
