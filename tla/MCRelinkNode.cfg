SPECIFICATION FairSpec
CONSTANTS
  t1 = t1
  t2 = t2
  t3 = t3
  p1 = p1
  NoPair = NoPair
  Topic = {t1, t2, t3}
  Image = {t3}
  PairId = {p1}
  Configs <- NodeConfigs
  MaxCalls = 2
  Batches = {"punch_threads_1"}
INVARIANTS
  AnnouncedWhereHandled
  DedupArmedFirst
  JoinedThreadsAreSafe
PROPERTY DestructorReturns
CHECK_DEADLOCK FALSE
