CONSTANTS
  DEPTH = 11
  Refs <- MCRefs
  MaxBatch = 2
SPECIFICATION Spec
CHECK_DEADLOCK FALSE
INVARIANT FetchedVerifies
