SPECIFICATION ToolSpec
CONSTANTS
  p1 = p1
  p2 = p2
  Proc = {p1, p2}
  CommandLines <- Terminals
  Remembered <- AtFirst
  NotGiven = NotGiven
  NoFile = NoFile
  Empty = Empty
  Multicast = Multicast
  BadAddress = BadAddress
  TypeSize <- SomeTypes
  Sizes = {4, 5, 8}
  Window = 2
  ReportEvery = 2
  Timeout = 2
  MaxMessages = 4
INVARIANTS NotForgotten EveryArrivalCounted
PROPERTY CommandsEnd
CHECK_DEADLOCK FALSE
