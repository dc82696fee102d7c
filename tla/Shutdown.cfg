CONSTANTS
  MAX = 2
  MaxEvents = 4
  DbFails = TRUE
  Caller = {"nest", "first", "second"}
  Client = {a, b}
SPECIFICATION FairDrainSpec
INVARIANTS EachEventOnce KeepsTheNewest GracefulExit
PROPERTIES ShutdownEnds
CHECK_DEADLOCK FALSE
