SPECIFICATION DirectorySpec
CONSTANTS
  n1 = n1
  t1 = t1
  t2 = t2
  k1 = k1
  Node = {n1}
  Topic = {t1, t2}
  Declares <- All
  Publishes <- All
  Subscribes <- First
  TopicOrder <- ByNumber
  NameLen <- BothNamed
  kTopicDirMaxEntries = 2
  kTopicDirMaxPacket = 20
  kTopicDirMaxNameLen = 3
  kRoleMaxEntries = 2
  kRoleMaxPacket = 20
  Settings <- RelayAt35
  NoKey = NoKey
  Interval = 1
  SweepEvery = 1
  Ttl = 2
  InitTimeout = 1
  BaseTimeout = 1
  MaxRetries = 1
  QueueCap = 1
  MaxAckPeers = 1
  MaxLate = 0
  MaxDelay = 0
  Announcers = {n1}
  AllowLoss = FALSE
  AllowCrash = TRUE
PROPERTY RequestsAreHandled
