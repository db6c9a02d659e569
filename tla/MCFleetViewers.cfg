SPECIFICATION FleetSpec
CONSTANTS
  MaxBatches = 2
  ClientIDs = {c1, c2}
  NoClient = NoClient
  maxClients = 0
  FirstSecondsToBroadcast = 1
  SecondsToBroadcast = 1
  Responsive = {}
  Answering = {}
  MaxDispatched = 2
  MaxTasks = 2
  Pages = {p1}
  Reconnects = TRUE
  clientSendQueueSize = 2
  MaxJobs = 2
  MaxTelemetry = 1
SYMMETRY FleetSymmetry
INVARIANTS
  NothingUnrendered
  NoPanic
PROPERTIES
  NeverPlaysBackwards
  KeepsTheRhythm
CHECK_DEADLOCK FALSE
