CONSTANTS
  Requesters = {r1}
  Daemons = {d1, d2}
  NoPid = NoPid
  Ops <- Shutdown
  ClockSteps <- DistinctIds
  TaskPolicy = "IgnoreNew"
  DirectSpawn = TRUE
  Hasty = TRUE
  MaxId = 2
  MaxDeaths = 1
SPECIFICATION MailboxSpec
INVARIANTS
  AnswersAreTrue
  CommandKept
