SPECIFICATION Spec
CONSTANTS
  MaxSessions = 2
  TokenOf <- OwnTokens
  WatchStarts = {TRUE, FALSE}
  Overlap = TRUE
  MaxFaults = 0
INVARIANT DesktopComesBack
CHECK_DEADLOCK FALSE
