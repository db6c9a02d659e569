SPECIFICATION FleetSpec
CONSTANTS
  MaxBatches = 2
  ClientIDs = {c1, c2}
  NoClient = NoClient
  maxClients = 0
  FirstSecondsToBroadcast = 2
  SecondsToBroadcast = 1
  Responsive = {}
  Answering = {}
  MaxDispatched = 3
  MaxTasks = 2
  Pages = {p1}
  Reconnects = TRUE
  clientSendQueueSize = 2
  MaxJobs = 2
  MaxTelemetry = 0
CHECK_DEADLOCK FALSE
INVARIANTS
  TimelineContiguous
