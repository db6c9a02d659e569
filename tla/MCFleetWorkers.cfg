SPECIFICATION FleetSpec
CONSTANTS
  MaxBatches = 2
  ClientIDs = {c1, c2}
  NoClient = NoClient
  maxClients = 0
  FirstSecondsToBroadcast = 1
  SecondsToBroadcast = 1
  Responsive = {}
  Answering = {}
  MaxDispatched = 2
  MaxTasks = 2
  Pages = {p1, p2}
  Reconnects = FALSE
  clientSendQueueSize = 1
  MaxJobs = 2
  MaxTelemetry = 0
SYMMETRY FleetSymmetry
PROPERTIES
  ImplementsOrchestrator
CHECK_DEADLOCK FALSE
