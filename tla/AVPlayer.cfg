SPECIFICATION FairSpec
CONSTANTS
  Worker = {"videoRender", "videoDec"}
  StreamCap = 2
  YuvCap = 2
  MaxRead = 4
  MaxSeek = 1
  MayClose = TRUE
INVARIANTS
  NoOverflow
  NoLostWakeup
  PipelineOrder
  SeekLeavesOne
  ClosedClean
PROPERTIES
  StreamDrains
  ThreadStops
CHECK_DEADLOCK FALSE
