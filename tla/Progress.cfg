SPECIFICATION SuiteSpec
CONSTANTS
  Requesters = {r1}
  Daemons = {d1, d2}
  NoPid = NoPid
  Ops <- Shutdown
  ClockSteps <- DistinctIds
  TaskPolicy = "StopExisting"
  DirectSpawn = FALSE
  Hasty = FALSE
  MaxId = 2
  MaxDeaths = 1
  Bitrates = {4000, 20000}
  FrameRates = {30}
  MaxStreams = 2
  MaxTicks = 1
  Hands = {h1}
  MaxActs = 2
  AtOnce = 2
  AppTries = 2
  Candidates = {"p6", "m4"}
  KindOf <- CandidateKinds
  PreferIpv4 = TRUE
  MaxExtensions = 1
  MaxDrops = 1
  UserIds = {u1}
  HostIds = {o1}
  Names = {n1}
  Clients = {c1}
  Nobody = Nobody
  None = None
  MaxChanges = 2
INVARIANTS
  ProgressTypeOK
  FileInStep
  InputLockInStep
  HeldCandidatesHaveTimer
PROPERTIES
  CommandExecuted
  RequestEnds
  BitrateRestored
  LocksEnd
  PageSettles
  FailedPathIsReported
  EventuallySaved
CHECK_DEADLOCK FALSE
