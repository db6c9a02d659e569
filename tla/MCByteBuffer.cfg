SPECIFICATION Spec
CONSTANTS
  FrameSize = 2
  FramesPerBatch = 4
  MaxBatches = 3
  Word = 128
  Word32 = 64
  DefaultConfig <- MCDefaultConfig
  Settings <- MCSettings
  MaxDispatched = 5
INVARIANTS
  StreamBytesContiguous
  FullnessReported
  StallsWhenInvalid
PROPERTIES
  ImplementsFrameBuffer
  FlowsWhenValid
CHECK_DEADLOCK FALSE
