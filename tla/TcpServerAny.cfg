CONSTANTS
  MaxConn = 2
  MaxPackets = 2
  MaxFrames = 0
  MaxTickets = 5
  MaxOutstanding = 2
  AcceptPolicy = "any"
  Faults = {"alloc", "initiate", "app_close", "accept", "filter", "loss"}
SPECIFICATION Spec
CHECK_DEADLOCK FALSE
INVARIANTS WriteFifo OneWriteFromFront DisconnectedOnce
PROPERTIES ImplementsChannel
