SPECIFICATION FairSpec
CONSTANTS
  MaxSessions = 1
  TokenOf <- OwnTokens
  WatchStarts = {TRUE, FALSE}
  Overlap = TRUE
  MaxFaults = 0
PROPERTY DeadStreamerClosesSocket
CHECK_DEADLOCK FALSE
