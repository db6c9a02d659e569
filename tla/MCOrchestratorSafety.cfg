SPECIFICATION Spec
CONSTANTS
  MaxBatches = 2
  ClientIDs = {c1, c2}
  NoClient = NoClient
  maxClients = 0
  FirstSecondsToBroadcast = 1
  SecondsToBroadcast = 2
  Responsive = {}
  Answering = {}
  MaxDispatched = 4
  MaxTasks = 3
SYMMETRY ClientSymmetry
INVARIANTS
  TypeOK
  TimelineContiguous
  ReadyBatchesStored
  NoTaskOnReadySlot
  NoPanic
  TasksTracked
  NoLostWakeup
  LoopsNeverBothParked
PROPERTIES
  ImplementsFrameStream
CHECK_DEADLOCK FALSE
