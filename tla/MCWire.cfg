SPECIFICATION Spec
CONSTANTS
  Nibble = 3
  Glyphs = 2
  Space = 1
  FrameSize = 2
  FramesPerBatch = 2
  Numbers <- MCNumbers
  Corruptions = {"None", "WrongSize", "Truncated", "Oversized", "Garbage", "UnassignedID"}
INVARIANTS
  AcceptsExactlyWholeBatches
  TaskSurvivesTheWire
  FramesSurviveTheWire
CHECK_DEADLOCK FALSE
