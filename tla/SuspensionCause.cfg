CONSTANTS
  Replica = {r1}
  Call = {c1, c2}
  NoCall = NoCall
  Ops = {"decide", "suspend", "update", "remove"}
  FirstRows = {"warmup"}
  Faults = {"redis", "crash"}
  MayPromote = TRUE
  MayDisable = FALSE
  MaxAdmin = 2
SPECIFICATION Spec
SYMMETRY Symmetry
INVARIANTS BlocksAreJustified
CHECK_DEADLOCK FALSE
