CONSTANTS
  s1 = s1  s2 = s2  s3 = s3  s4 = s4  s5 = s5
  w1 = w1  w2 = w2
  Subjects = {s1, s2, s3, s4, s5}
  Shards = {0, 1}
  NUM_SLICES = 2
  ShardOf <- MCShardOf
  SliceOf <- MCSliceOf
  Workers = {w1}
  SigningKeySet = TRUE
  MaxCrashes = 1
  MaxFaults = 0
SPECIFICATION Spec
INVARIANT RootIsTrainingSet
