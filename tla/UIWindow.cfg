SPECIFICATION FairSpec
CONSTANTS
  MaxTextures = 3
  MaxBuffers = 2
  MaxGeometries = 1
  MaxCommands = 2
  MaxLists = 2
INVARIANTS
  NoLeak
  DrawsLiveObjects
  WindowShowsView
  EachCommandOnce
PROPERTIES
  CommandsAreDrawn
\* The window may be closed.
CHECK_DEADLOCK FALSE
