CONSTANTS
  MaxConn = 2
  MaxPackets = 2
  MaxFrames = 2
  MaxTickets = 5
  MaxOutstanding = 2
  AcceptPolicy = "drained"
  Faults = {"initiate", "throw", "app_close", "accept", "filter", "loss"}
SPECIFICATION Spec
CHECK_DEADLOCK FALSE
INVARIANTS TypeOK QueueIsDriven NoStaleOperation FramesInOrder SentWhereWritten
PROPERTIES StallIsPermanent
