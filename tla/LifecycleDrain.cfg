SPECIFICATION Spec
CONSTANTS
  MaxInFlight = 3
  shutdownTimeout = 3
INVARIANTS
  DrainsBeforeExit
CHECK_DEADLOCK FALSE
