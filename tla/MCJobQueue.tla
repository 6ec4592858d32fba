----------------------------- MODULE MCJobQueue -----------------------------
(* An instance of JobQueue for TLC: a is in shard 0, c in shard 1. *)
EXTENDS JobQueue

CONSTANTS a, c, p1, p2, k1, k2, w1, w2

MCShardOf == [s \in Subjects |-> IF s = c THEN 1 ELSE 0]

=============================================================================
