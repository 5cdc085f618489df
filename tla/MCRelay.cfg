CONSTANTS
  n1 = n1
  n2 = n2
  Node = {n1, n2}
  Loopback = {n2}
  Servers = {"relay", "xdp", "rlcore"}
  Ttl = 6
  Period = 2
  NumFrames = 2
  Batch = 2
  RingSize = 2
  MaxLate = 1
  MaxDelay = 0
  MaxRestarts = 1
  Faulty = {"relay", "rlcore"}
SPECIFICATION FairSpec
INVARIANTS
  KeptAlive
  FramesConserved
PROPERTIES
  GoneAreForgotten
  Joins
  Leaves
