SPECIFICATION ServingSpec
CONSTANTS
  None = None
  Error = Error
  k1 = k1
  k2 = k2
  s1 = s1
  s2 = s2
  Conns = {s1, s2}
  Servers <- MCServers
  MaxAccepts = 2
  MaxWarmSteps = 1
INVARIANTS
  BlocksAreSequential
  GateBeforeEffect
  AdmissionIsBalanced
  ClosedOnlyWhenDrained
  ListingIsComplete
PROPERTIES
  RequestsEnd
  ConnectionsEnd
CHECK_DEADLOCK FALSE
