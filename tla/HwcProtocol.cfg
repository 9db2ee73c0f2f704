SPECIFICATION FairSpec
CONSTANTS
  Clients = {"camera", "renderer"}
  MaxFrames = 3
  MaxSets = 2
  MaxTimeouts = 2
  FenceFails = TRUE
INVARIANTS
  FenceLag
  SlotReleased
PROPERTIES
  RendererCalls
  WaitEnds
  ThreadEnds
CHECK_DEADLOCK FALSE
