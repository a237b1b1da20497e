SPECIFICATION Spec
CONSTANTS
  ShardCount = 2
  CasBlock = 2
  Fails = {"in_block", "reserving"}
  Restarts = TRUE
  MaxCounter = 6
INVARIANTS
  UniqueTokens
