SPECIFICATION ComponentsSpec
CONSTANTS
  ShardCount = 2
  CasBlock = 2
  Fails = {"in_block"}
  Restarts = TRUE
  MaxCounter = 5
  None = None
  Error = Error
  t1 = t1
  t2 = t2
  t3 = t3
  peer1 = peer1
  Threads = {t1, t2, t3}
  LANES = 2
  Outcomes <- MCOutcomes
  MaxCommands = 2
  MaxThreads = 4
  Peers = {peer1}
  Sources <- MCSources
  Configs <- MCConfigs
  Presented <- MCPresented
  Certificates <- MCCertificates
  Commands <- MCCommands
  MaxEdits = 1
  MaxTries = 2
  WarmShards = 2
  MaxPages = 3
  MaxPasses = 2
  ReadThreads = {t1, t2, t3}
  ReadShards = {1, 2}
  SLOTS = 2
  MaxTime = 2
INVARIANTS
  UniqueTokens
  OneWriterPerLane
  CountersAreExact
  IntrospectionIsExact
  CredentialsHold
  StandInAgrees
  InlineCoversTheLastLook
  OldestReadIsReported
  EveryItemIsAnswered
CHECK_DEADLOCK FALSE
