SPECIFICATION FairSpec
CONSTANTS
  p1 = p1
  direct = direct
  Publisher = {p1}
  Address = {direct}
  \* Empty, one chunk not full, one full, two, three, and too long by a byte.
  Lengths = {0, 1, 2, 3, 6, 7}
  kChunkDataBytes = 2
  MaxChunks = 3
  MaxImages = 3
  MaxSkip = 3
  AllowLoss = TRUE
CHECK_DEADLOCK FALSE
INVARIANT DeliveredWhole
PROPERTY EveryImageDelivered
