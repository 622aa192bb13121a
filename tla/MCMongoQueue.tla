--------------------------- MODULE MCMongoQueue ---------------------------
(* Small instances of MongoQueue for TLC.                                  *)
EXTENDS MongoQueue

CONSTANTS g1, g2, s1, s2, s3, p1

\* s1 and s2 share a group, s3 has one of its own.
MCGroupOf == [s \in Subs |-> IF s = s3 THEN g2 ELSE g1]
=============================================================================
