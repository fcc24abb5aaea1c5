SPECIFICATION SuiteSpec
CONSTANTS
  Focus = {"sessions", "native"}
  MaxSessions = 3
  TokenOf <- SharedTokens
  WatchStarts = {TRUE, FALSE}
  Overlap = FALSE
  MaxFaults = 1
  Requests = {q1, q2}
  NativeIds = {n1, n2}
  AppOf <- OneApp
INVARIANTS
  ServerTypeOK
  DesktopComesBack
  EndedStaysEnded
PROPERTY NativeRequestsEnd
CHECK_DEADLOCK FALSE
