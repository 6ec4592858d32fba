CONSTANTS
  a = a  b = b  c = c  d = d  e = e  p1 = p1  p2 = p2  k1 = k1  k2 = k2
  w1 = w1  w2 = w2  NoWorker = NoWorker
  Subjects = {a, b, c, d}
  Principals = {p1}
  Keys = {k1, k2}
  Shards = {0, 1}
  ShardOf <- MCShardOf
  Workers = {w1}
  MaxJobs = 2
  POLL_BATCH_SIZE = 2
  MaxCrashes = 0
  MaxOverruns = 0
  MaxKills = 0
  MaxFaults = 0
  MaxSqlFaults = 0
SPECIFICATION SystemSpec
INVARIANT ServedForgets
