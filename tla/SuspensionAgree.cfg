CONSTANTS
  Replica = {r1, r2}
  Call = {c1, c2}
  NoCall = NoCall
  Ops = {"decide", "top", "suspend"}
  FirstRows = {"absent", "active", "warmup"}
  Faults = {}
  MayPromote = FALSE
  MayDisable = FALSE
  MaxAdmin = 1
SPECIFICATION Spec
SYMMETRY Symmetry
INVARIANTS AgreeWhenQuiet BlockedBeforeRecorded
CHECK_DEADLOCK FALSE
