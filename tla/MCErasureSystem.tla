-------------------------- MODULE MCErasureSystem ---------------------------
(* Instances of ErasureSystem for TLC: shard 0 holds a, b and e, so that it  *)
(* can be rebuilt twice, and shard 1 holds c and d.                          *)
EXTENDS ErasureSystem, TLC

CONSTANTS a, b, c, d, e, p1, p2, k1, k2, w1, w2

MCShardOf == [s \in Subjects |-> IF s \in {a, b, e} THEN 0 ELSE 1]

\* Keys are only ever compared for equality, and so are the subjects of a shard.
MCSymmetry == Permutations(Keys) \cup Permutations({a, b, e}) \cup Permutations({c, d})

=============================================================================
