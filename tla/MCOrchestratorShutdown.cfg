SPECIFICATION FairSpec
CONSTANTS
  MaxBatches = 1
  ClientIDs = {c1}
  NoClient = NoClient
  maxClients = 0
  FirstSecondsToBroadcast = 1
  SecondsToBroadcast = 1
  Responsive = {c1}
  Answering = {c1}
  MaxDispatched = 2
  MaxTasks = 2
PROPERTIES
  StopsOnCancel
CHECK_DEADLOCK FALSE
