CONSTANTS
  d1 = d1
  d2 = d2
  x = x
  NoDoc = NoDoc
  Doc <- MCDoc
  Other <- MCOther
  Batch <- MCBatch
  EarlierStamp <- MCEarlierStamp
  PageSize = 2
  MaxRuns = 2
  MaxMoves = 1
  MaxPresses = 1
SPECIFICATION ApproveSpec
INVARIANTS BatchIsBounded AuditAgreesWithSite KillSwitchHolds
PROPERTIES RunEnds
CHECK_DEADLOCK FALSE
