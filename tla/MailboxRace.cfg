CONSTANTS
  Requesters = {r1, r2}
  Daemons = {d1}
  NoPid = NoPid
  Ops <- Shutdown
  ClockSteps <- MayCoincide
  TaskPolicy = "StopExisting"
  DirectSpawn = FALSE
  Hasty = TRUE
  MaxId = 2
  MaxDeaths = 1
SPECIFICATION MailboxSpec
SYMMETRY Symmetry
INVARIANTS
  ReplaysNeedDeaths
PROPERTIES
  ImplementsRpc
