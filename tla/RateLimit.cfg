CONSTANTS
  corp = corp
  Sender = {alice}
  Domain = {corp}
  DomainOf <- MCDomainOf
  Conn = {c1, c2}
  EmailWindow = {"m1"}
  DomainWindow = {"h1"}
  Len <- MCLen
  Grace <- MCGrace
  Rcpts = {2}
  CountMode = "recipients"
  Profiles <- MCProfiles
  MaxAhead = 1
  MaxLag = 1
  MaxResends = 1
  Faults = {"down", "lostReply", "evict"}
  Horizon = 3
  NoMessage = NoMessage
SPECIFICATION Spec
INVARIANTS CountersExpire
PROPERTIES QuotaRespected ImplementsQuota
SYMMETRY ConnSymmetry
CHECK_DEADLOCK FALSE
