SPECIFICATION FairSpec
CONSTANTS
  n1 = n1
  n2 = n2
  c1 = c1
  c2 = c2
  Nodes = {n1, n2}
  Clients = {c1, c2}
  None = None
  Worlds <- MCWorlds
  QueueDepth = 1
INVARIANTS
  NodeInvalidationIsStrong
  MergedPeerServesNothingOlder
PROPERTIES
  EventuallyConverged
  ImplementsMaxMerge
CHECK_DEADLOCK FALSE
