--------------------------- MODULE MCRedisStream ---------------------------
(* Small instances of RedisStream for TLC.                                 *)
EXTENDS RedisStream

CONSTANTS g1, s1, s2, m1, m2, m3

\* Two subscriptions that compete for the messages of one group.
MCGroupOf == [s \in Subs |-> g1]
=============================================================================
