SPECIFICATION PoolQueueSpec
CONSTANTS
  MaxNodes = 2
  Requests = {}
  Endpoints = {"a", "b"}
  FailureThreshold = 2
  SuccessThreshold = 2
  CircuitOpenTime = 1
  EWMAAlpha = 30
  Latencies = {1000}
  Weights = {1}
  Limits = {1}
  InitialConfigs <- OneEndpoint
  UpdateLists <- MCUpdateLists
  MaxAdmin = 2
  MaxCalls = 4
  m1 = m1
  m2 = m2
  Batch <- MCBatch
  Consumers = {k1}
  UseTransaction = {TRUE, FALSE}
  DelayEnabled = {TRUE, FALSE}
  Prefetch = 2
  HandlerCalls = {"none", "Ack", "Nack", "RetryLater"}
  MaxRetry = 1
  MaxFaults = 2
INVARIANTS IndexAgrees BreakerConsistent
PROPERTIES CircuitMoves 
CHECK_DEADLOCK FALSE
