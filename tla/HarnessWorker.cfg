SPECIFICATION Spec
CONSTANTS
  MaxMessages = 4
  MaxPayload = 2
  MaxWanted = 3
  MaxDisconnect = 2
INVARIANTS
  ClosedMeansShort
  TasksAccounted
  StopsBeforeNth
PROPERTIES
  WaitEnds
  CloseEnds
CHECK_DEADLOCK FALSE
