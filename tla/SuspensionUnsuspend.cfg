CONSTANTS
  Replica = {r1}
  Call = {c1, c2}
  NoCall = NoCall
  Ops = {"decide", "suspend", "unsuspend"}
  FirstRows = {"active"}
  Faults = {}
  MayPromote = FALSE
  MayDisable = FALSE
  MaxAdmin = 3
SPECIFICATION Spec
SYMMETRY Symmetry
INVARIANTS BlocksAreJustified
CHECK_DEADLOCK FALSE
