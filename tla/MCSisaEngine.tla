---------------------------- MODULE MCSisaEngine ----------------------------
(* Instances of SisaEngine for TLC: shard 0 holds s1 to s3 in slice 0 and s4 *)
(* in slice 1; shard 1 holds s5 alone, in slice 0.                           *)
EXTENDS SisaEngine, TLC

CONSTANTS s1, s2, s3, s4, s5, w1, w2

MCShardOf == [s \in Subjects |-> IF s = s5 THEN 1 ELSE 0]
MCSliceOf == [s \in Subjects |-> IF s = s4 THEN 1 ELSE 0]

\* Subjects of one shard and one slice are interchangeable.
MCSymmetry == Permutations({s1, s2, s3})

=============================================================================
