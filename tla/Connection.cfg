SPECIFICATION Spec
CONSTANTS
  pongWait = 4
  pingPeriod = 3
  writeTimeout = 2
  clientSendQueueSize = 2
  MaxPerTick = 2
INVARIANTS
  HealthyClientSurvives
  PoolIsServed
PROPERTIES
  TornDown
  SilentClientReaped
CHECK_DEADLOCK FALSE
