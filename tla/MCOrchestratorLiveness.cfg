SPECIFICATION FairSpec
CONSTANTS
  MaxBatches = 1
  ClientIDs = {c1, c2, c3}
  NoClient = NoClient
  maxClients = 2
  FirstSecondsToBroadcast = 1
  SecondsToBroadcast = 1
  Responsive = {c1}
  Answering = {c1, c2}
  MaxDispatched = 2
  MaxTasks = 4
PROPERTIES
  StreamFlows
  SlowWorkerSuffices
CHECK_DEADLOCK FALSE
