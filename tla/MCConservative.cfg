SPECIFICATION Spec
CONSTANTS
  r1 = r1
  r2 = r2
  MaxNodes = 2
  Requests = {r1, r2}
  Endpoints = {"a", "b"}
  FailureThreshold = 1
  SuccessThreshold = 1
  CircuitOpenTime = 1
  EWMAAlpha = 30
  Latencies = {1000}
  Weights = {1}
  Limits = {1}
  InitialConfigs <- OneNode
  UpdateLists <- SomeLists
  MaxAdmin = 1
  SilentFailures = FALSE
  MaxRetries = 1
  WaitOnThrottle = TRUE
  RateLimited = FALSE
SYMMETRY Symmetry
INVARIANTS SlotsMatchHolders NoIdleSlotWhileQueued QuotaBound
CHECK_DEADLOCK FALSE
