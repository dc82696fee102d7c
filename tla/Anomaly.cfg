CONSTANTS
  Call = {c1, c2}
  Idle = Idle
  Minute = 2
  CounterTtl = 3
  Rcpts = {1, 3}
  OffHours = {2}
  BurstPerMin = 2
  OffhoursPerMin = 1
  FanoutRcpt = 2
  BurstMessages = 2
  FlagsToSuspend = 2
  WindowTicks = 2
  Mode = "enforce"
  MaxLag = 1
  MaxCalls = 3
  MaxFaults = 1
  Horizon = 3
SPECIFICATION Spec
SYMMETRY CallSymmetry
CHECK_DEADLOCK FALSE
INVARIANTS QuietTrafficBounded FlaggedTrafficBounded FlagsAreRecent
