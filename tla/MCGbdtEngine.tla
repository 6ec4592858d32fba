---------------------------- MODULE MCGbdtEngine ----------------------------
(* Instances of GbdtEngine for TLC: shard 0 holds s1 and s2 in slice 0 and   *)
(* s3 in slice 1; shard 1 holds s4 alone.                                    *)
EXTENDS GbdtEngine

CONSTANTS s1, s2, s3, s4, w1

MCShardOf == [s \in Subjects |-> IF s = s4 THEN 1 ELSE 0]
MCSliceOf == [s \in Subjects |-> IF s = s3 THEN 1 ELSE 0]

=============================================================================
