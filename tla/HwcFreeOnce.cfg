SPECIFICATION Spec
CONSTANTS
  Clients = {"camera", "renderer"}
  MaxFrames = 1
  MaxSets = 1
  MaxTimeouts = 0
  FenceFails = FALSE
INVARIANTS
  FreeOnce
CHECK_DEADLOCK FALSE
