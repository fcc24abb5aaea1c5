CONSTANTS
  MaxRuntime = 1
  MaxBundle = 1
  MaxAttempts = 2
  OperatorOps <- RepairOps
  Activations = {"activated", "revoked"}
  WebFaults = {"refuses"}
  LowVram = TRUE
  SunshineInJob = FALSE
  MaxFaults = 2
  MaxRequests = 2
  MaxChanges = 1
SPECIFICATION FairSpec
INVARIANTS ParsecRestored BudgetKept
PROPERTIES HealthRestored LockedStops ServiceStops
CHECK_DEADLOCK FALSE
