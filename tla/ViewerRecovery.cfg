CONSTANTS
  Slots = {s1, s2}
  NoStream = NoStream
  MaxDirect = 1
  HasTurn = TRUE
  MaxStartup = 1
  MaxAuto = 1
SPECIFICATION FairRecoverySpec
INVARIANTS OneLiveStream AutoReconnectBudget
PROPERTIES ReconnectEnds StartResolves
CHECK_DEADLOCK FALSE
