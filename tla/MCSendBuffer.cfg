SPECIFICATION BufferSpec
CONSTANTS
  Sender = {"app", "repunch"}
  TopicOf <- MCTopicOf
  PunchTopic = "punch"
  Size <- MCSize
  SeqRange = 4
  MaxSends = 2
INVARIANT NeverMisinterpret
CHECK_DEADLOCK FALSE
