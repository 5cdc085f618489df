CONSTANTS
  n1 = n1
  n2 = n2
  t1 = t1
  t2 = t2
  t3 = t3
  Node = {n1, n2}
  Settings <- MCSettings
  PortGroups <- MCPortGroups
  BeaconBuf = 20
  kMaxBeaconTopics = 128
  MayStop = {n1}
SPECIFICATION FairSpec
INVARIANTS
  Isolation
  ListedOnce
  SocketsOutliveThreads
PROPERTIES
  Discovery
  StopReturns
CHECK_DEADLOCK FALSE
