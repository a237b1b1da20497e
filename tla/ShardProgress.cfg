SPECIFICATION FairSpec
CONSTANTS
  k1 = k1
  k2 = k2
  ta = ta
  tb = tb
  Keys = {k1, k2}
  Names = {ta}
  Hash <- DistinctHash
  Granularity = 1
  U64Max = 100
  CasBlock = 4
  MaxTags = 2
  MaxLen = 3
  MaxTtlSecs = 2
  AlreadyExpired = 9
  Clients = {c1}
  MaxBatch = 2
  QueueDepth = 2
  SweepBatch = 1
  ReclaimBatch = 1
  EvictBatch = 1
  Lazy = FALSE
  Levels = {"normal", "critical"}
  Faults = {"begin", "apply", "maintenance", "commit", "full", "sync", "crash", "power"}
  MaxCalls = 2
  MaxFaults = 1
  MaxNow = 2
  Ops <- ProgressOps
PROPERTIES
  EveryCallReturns
  MaintenanceCatchesUp
