SPECIFICATION Spec
CONSTANTS
  r1 = r1
  r2 = r2
  MaxNodes = 2
  Requests = {r1}
  Endpoints = {"a", "b"}
  FailureThreshold = 1
  SuccessThreshold = 1
  CircuitOpenTime = 1
  EWMAAlpha = 30
  Latencies = {1000}
  Weights = {1}
  Limits = {1}
  InitialConfigs <- TwoNodes
  UpdateLists <- NoLists
  MaxAdmin = 0
  Concurrency = 0
  WaitOnThrottle = FALSE
  RateLimited = FALSE
  Faulty = {}
INVARIANTS HealthyStaysClosed
CHECK_DEADLOCK FALSE
