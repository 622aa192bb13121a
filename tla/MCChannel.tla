----------------------------- MODULE MCChannel -----------------------------
(* Small instances of Channel for TLC.                                     *)
EXTENDS Channel

CONSTANTS s1, s2, p1, p2, m1, m2, m3

\* A call with two messages beside a call with one.
MCBatch == [p \in Pubs |-> IF p = p1 THEN <<m1, m2>> ELSE <<m3>>]

\* One stream and both calls, or both streams and one call: in the first case
\* s2 is a stream that has come and gone, in the second p2 has returned.
MCInit == InitWith({s2}, {}) \/ InitWith({}, {p2})

MCSpec == MCInit /\ [][Next]_vars /\ Fairness
=============================================================================
