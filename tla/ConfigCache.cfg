CONSTANTS
  TierId = {1, 2, 3, 4}
  TierName = {"warmup", "default", "vip", "gold"}
  WarmupTier = "warmup"
  DefaultTier = "default"
  Cap = 4
  Limit = {0, 1, 2, 3}
  Null = Null
  NoRow = NoRow
  TIERS <- MCTiers
  FirstRows <- MCFirstRows
  TierEdits <- MCTierEdits
  DomainEdits <- MCDomainEdits
  SenderEdits <- MCSenderEdits
  Faults = {"db", "crash"}
  KeepsDefault = TRUE
  MaxCalls = 1
  MaxReloads = 2
  MaxTasks = 1
  MaxEdits = 1
  MaxFailures = 1
SPECIFICATION FairSpec
INVARIANTS PrecedenceRespected DefaultStillLimits
PROPERTIES EditsTakeEffect WarmupEnds
CHECK_DEADLOCK FALSE
