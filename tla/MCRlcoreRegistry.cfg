SPECIFICATION FairSpec
CONSTANTS
  n1 = n1
  n2 = n2
  t1 = t1
  Node = {n1, n2}
  Topic = {t1}
  Declares <- AllTopics
  Interval = 2
  SweepEvery = 3
  Ttl = 6
  InitTimeout = 2
  BaseTimeout = 1
  MaxRetries = 2
  QueueCap = 2
  MaxAckPeers = 4
  MaxLate = 0
  MaxDelay = 1
  Announcers = {n1}
  AllowLoss = FALSE
  AllowCrash = TRUE
PROPERTIES SearchingStaysListed RolesStayListed Discovery DeadNotHandedOut
