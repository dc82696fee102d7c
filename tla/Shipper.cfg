CONSTANTS
  Qid = {q1, q2}
  Sender = {s1, s2}
  Null = Null
  Dsn = {d2}
  None = None
  DsnNextToTo = FALSE
  BATCH_MAX = 2
  QID_MAX = 1
  QidReuse = TRUE
  PostFails = TRUE
  Truncates = TRUE
  MaxLines = 3
  MaxRotations = 1
  MaxKills = 1
CHECK_DEADLOCK FALSE
SPECIFICATION ShipperFairSpec
INVARIANTS ShipperTypeOK AcceptedOnce ChargedToItsSender NothingDropped
PROPERTIES FollowsThePath
