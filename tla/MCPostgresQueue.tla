-------------------------- MODULE MCPostgresQueue --------------------------
(* Small instances of PostgresQueue for TLC.                               *)
EXTENDS PostgresQueue

CONSTANTS g1, g2, s1, s2, s3, p1, p2

\* s1 and s2 share a group, s3 has one of its own.
MCGroupOf == [s \in Subs |-> IF s = s3 THEN g2 ELSE g1]

\* Two subscribers of one group, messages published meanwhile and faults of every
\* kind, or one subscriber of each of two groups, a backlog and no more faults.
MCInit == InitWith({s3}, 0, 0) \/ InitWith({s2}, MaxFaults, MaxId)

MCSpec == MCInit /\ [][Next]_vars /\ Fairness
=============================================================================
