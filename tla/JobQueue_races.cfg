CONSTANTS
  a = a  c = c  p1 = p1  p2 = p2  k1 = k1  k2 = k2
  w1 = w1  w2 = w2  NoWorker = NoWorker
  Subjects = {a, c}
  Principals = {p1, p2}
  Keys = {k1, k2}
  Shards = {0, 1}
  ShardOf <- MCShardOf
  Workers = {w1, w2}
  MaxJobs = 2
  POLL_BATCH_SIZE = 1
  MaxCrashes = 1
  MaxOverruns = 1
SPECIFICATION FairQueueSpec
INVARIANTS QueueTypeOK AckNamesOwnJob OneHolder CertifiedIsDone DoneHasManifest
PROPERTIES EarliestDeadlineFirst EveryJobSettles
