CONSTANTS
  DEPTH = 11
  Refs <- MCRefs
  MaxBatch = 2
SPECIFICATION Spec
CHECK_DEADLOCK FALSE
INVARIANTS RemovalIsRebuild AbsentProved PresentUnprovable LegacyUnprovable IssuedVerifies AcceptedIsIssued
