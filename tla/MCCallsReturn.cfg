SPECIFICATION ReturnsSpec
CONSTANTS
  r1 = r1
  r2 = r2
  p1 = p1
  p2 = p2
  g1 = g1
  q1 = q1
  k1 = k1
  MaxNodes = 2
  Requests = {r1, r2}
  Endpoints = {"a", "b"}
  FailureThreshold = 1
  SuccessThreshold = 1
  CircuitOpenTime = 1
  EWMAAlpha = 30
  Latencies = {1000}
  Weights = {1}
  Limits = {1}
  InitialConfigs <- OneOrTwoNodes
  UpdateLists <- NoLists
  MaxAdmin = 0
  Concurrency = 1
  WaitOnThrottle = TRUE
  RateLimited = TRUE
  Faulty = {1}
  MaxRetries = 1
  SilentFailures = TRUE
  Patience = 2
  Points = {p1, p2}
  InitialPoints = {p1}
  Groups = {g1}
  Calls <- MCCalls
  RetryNum <- MCRetryNum
  MaxConcurrency = 1
  WorkerIds = {k1}
  DefaultConcurrency = 1
  MaxRetryAttempts = 1
  MaxFailureCount = 3
  PoolBuffer = 2
  PointBuffer = 2
INVARIANTS TypesOK 
PROPERTY AllCallsReturn
CHECK_DEADLOCK FALSE
