SPECIFICATION Spec
CONSTANTS
  BufferSize = 6
  FrameTicks = 2
  MaxCatchUpFrames = 2
  FirstFrames = 3
  LaterFrames = 2
  BroadcastInterval = 4
  MaxGap = 7
  Horizon = 16
INVARIANTS
  RingHoldsNewest
  TruePace
  SteadyPlaybackLosesNothing
CHECK_DEADLOCK FALSE
