SPECIFICATION RaceSpec
CONSTANTS
  r1 = r1
  r2 = r2
  MaxNodes = 2
  Requests = {r1, r2}
  Endpoints = {"a", "b"}
  FailureThreshold = 1
  SuccessThreshold = 1
  CircuitOpenTime = 1
  EWMAAlpha = 30
  Latencies = {1000}
  Weights = {1}
  Limits = {1}
  InitialConfigs <- OneOrTwo
  UpdateLists <- SomeLists
  MaxAdmin = 1
  Concurrency = 0
  WaitOnThrottle = FALSE
  RateLimited = TRUE
  Faulty = {1}
SYMMETRY Symmetry
INVARIANTS SlotsMatchHolders FailMeansAllFailed
CHECK_DEADLOCK FALSE
