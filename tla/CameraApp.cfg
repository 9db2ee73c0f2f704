SPECIFICATION FairSpec
CONSTANTS
  Options <- MCOptions
  MaxSignals = 2
INVARIANTS NoOtherDeadlock CaptureExact SetUpFirst OnlyStopEnds
PROPERTIES NoFrameAfterStop WedgedForever OvertakenForever CapturesEnd StopEnds
CHECK_DEADLOCK FALSE
