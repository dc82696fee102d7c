CONSTANTS
  Call = {c1, c2}
  Idle = Idle
  Batches <- MCBatches
  Rcpts = {2}
  Skews = {0, 1}
  MaxLag = 1
  Bucket = 2
  Slack = 2
  MinSample = 2
  ThresholdPct = 50
  Interval = 2
  MaxCalls = 3
  MaxFaults = 1
  Horizon = 3
SPECIFICATION Spec
SYMMETRY Symmetry
INVARIANTS NothingForgotten EachReportCounted NoticesBadSenders
PROPERTIES AlertsSpaced NobodySilenced
CHECK_DEADLOCK FALSE
