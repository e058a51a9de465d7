CONSTANTS
  MaxConn = 2
  MaxPackets = 1
  MaxFrames = 1
  MaxTickets = 5
  MaxOutstanding = 0
  AcceptPolicy = "callback"
  Faults = {"grow", "throw", "app_close", "loss"}
SPECIFICATION Spec
CHECK_DEADLOCK FALSE
INVARIANTS ServingOrAccepting OpenIsRead
