SPECIFICATION FairSpec
CONSTANTS
  Worker = {"videoRender", "videoDec"}
  StreamCap = 2
  YuvCap = 2
  MaxRead = 2
  MaxSeek = 0
  MayClose = TRUE
PROPERTIES
  CloseReturns
CHECK_DEADLOCK FALSE
