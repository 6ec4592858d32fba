CONSTANTS
  s1 = s1  s2 = s2  s3 = s3  s4 = s4  w1 = w1
  Subjects = {s1, s2, s3, s4}
  Shards = {0, 1}
  NUM_SLICES = 3
  ShardOf <- MCShardOf
  SliceOf <- MCSliceOf
  Workers = {w1}
  SigningKeySet = TRUE
  MaxCrashes = 1
  MaxFaults = 1
SPECIFICATION Spec
INVARIANTS TypeOK RootMatchesTraining FunctionOfRetainedData Forgotten
PROPERTY KeepsContract
