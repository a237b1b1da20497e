SPECIFICATION ScenarioSpec
CONSTANTS
  k1 = k1
  k2 = k2
  ta = ta
  tb = tb
  Keys = {k1, k2}
  Names = {ta, tb}
  Hash <- CollidingHash
  Granularity = 1
  U64Max = 100
  CasBlock = 4
  MaxTags = 2
  MaxLen = 3
  MaxTtlSecs = 2
  AlreadyExpired = 9
  Clients = {c1, c2}
  MaxBatch = 2
  QueueDepth = 1
  SweepBatch = 2
  ReclaimBatch = 1
  EvictBatch = 1
  Lazy = TRUE
  Levels = {"normal"}
  Faults = {"apply", "commit", "sync", "power"}
  MaxCalls = 3
  MaxFaults = 1
  MaxNow = 2
  Ops <- BatchCalls
  Scenarios <- BatchScenarios
SYMMETRY Symmetric
INVARIANTS
  BatchIsAtomic
  RamMatchesDisk
PROPERTIES
  MaintenanceSparesTheLiving
