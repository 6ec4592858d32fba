----------------------------- MODULE MCServing ------------------------------
(* Serving for TLC: shard 0 holds s1 and s2 in slice 0, shard 1 holds s3 in  *)
(* slice 0 and s4 in a later one.                                            *)
EXTENDS Serving, TLC

CONSTANTS s1, s2, s3, s4, t1, t2, r1

MCShardOf == [s \in Subjects |-> IF s \in {s1, s2} THEN 0 ELSE 1]

\* Threads are interchangeable.
MCSymmetry == Permutations(Threads)

=============================================================================
