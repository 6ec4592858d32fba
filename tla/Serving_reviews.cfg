CONSTANTS
  s1 = s1  s2 = s2  s3 = s3  s4 = s4  t1 = t1  t2 = t2  r1 = r1
  Subjects = {s1, s2, s3, s4}
  Shards = {0, 1}
  ShardOf <- MCShardOf
  SliceZero = {s1, s2, s3}
  Threads = {t1, t2}
  Reviewers = {r1}
  PoolSize = 1
  IS_GBDT = FALSE
  MaxErrors = 1
SPECIFICATION Spec
INVARIANT PredictionsUnharmed
SYMMETRY MCSymmetry
