SPECIFICATION SuiteSpec
CONSTANTS
  Focus = {"sessions"}
  MaxSessions = 2
  TokenOf <- OwnTokens
  WatchStarts = {TRUE}
  Overlap = TRUE
  MaxFaults = 0
  Requests = {q1}
  NativeIds = {n1}
  AppOf <- OneApp
INVARIANTS NoOrphans OneStreamer
PROPERTIES SessionEnds OneSurvives
CHECK_DEADLOCK FALSE
