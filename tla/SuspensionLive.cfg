CONSTANTS
  Replica = {r1}
  Call = {c1}
  NoCall = NoCall
  Ops = {"decide", "suspend", "unsuspend", "update", "create"}
  FirstRows = {"active", "warmup"}
  Faults = {"redis", "db"}
  MayPromote = FALSE
  MayDisable = TRUE
  MaxAdmin = 2
SPECIFICATION FairSpec
PROPERTIES RecordedSuspensionTakesEffect
CHECK_DEADLOCK FALSE
