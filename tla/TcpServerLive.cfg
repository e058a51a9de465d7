CONSTANTS
  MaxConn = 2
  MaxPackets = 2
  MaxFrames = 0
  MaxTickets = 5
  MaxOutstanding = 0
  AcceptPolicy = "drained"
  Faults = {"loss", "stuck", "app_close"}
  Stored <- MCStored
  Width = 4
  MaxOption = 3
  LoadFaults = {"get"}
  Unsupported = {1}
SPECIFICATION SystemSpec
CHECK_DEADLOCK FALSE
INVARIANTS LoadedWasThere
PROPERTIES LossIsNoticed PacketsAreSent VanishedIsNoticed
