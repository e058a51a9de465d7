SPECIFICATION FairSpec
CONSTANTS
  c1 = c1
  c2 = c2
  Clients = {c1, c2}
  BufferSize = 1
  MaxSize = 2
  MaxDatagrams = 2
  MaxDuplicates = 1
  QueueSize = 2
  Faults = {"send", "lose", "duplicate", "receive", "oversize"}
INVARIANTS
  ReceivedAsTaken
PROPERTIES
  SocketIsDrained
\* All datagrams may have been dealt with.
CHECK_DEADLOCK FALSE
