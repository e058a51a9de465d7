CONSTANTS
  MaxConn = 1
  MaxPackets = 2
  MaxFrames = 2
  MaxTickets = 5
  AcceptPolicy = "never"
  Faults = {"throw", "app_close", "idle_write", "loss", "initiate"}
SPECIFICATION FairSpec
CHECK_DEADLOCK FALSE
PROPERTIES DisconnectIsCaused ConnectIsAnswered LossIsReported FramesArrive
