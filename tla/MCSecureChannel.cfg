CONSTANTS
  Sender = {s1, s2}
  ChunkThreshold = 2
  MaxPlaintext = 5
  MaxSize = 6
  MaxCounter = 7
  MaxMessages = 3
SPECIFICATION FairSpec
INVARIANTS ErrorsAreEarned DeliversInOrder
PROPERTIES EverythingArrives
CHECK_DEADLOCK FALSE
