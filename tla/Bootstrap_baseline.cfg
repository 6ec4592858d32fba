CONSTANTS
  Subjects = {1, 2, 3, 4, 5}
  NUM_SHARDS = 3
  HOT_SHARDS = 1
  HOT_THRESHOLD = 2
  NUM_SLICES = 3
  stable_hash <- MCHash
  Scores = {0, 1, 2}
  Counts = {1, 4}
  MaxCrashes = 2
SPECIFICATION BootSpec
INVARIANTS AssignmentTypeOK ChurnAscends NearItsShare BaselineIsWhole
