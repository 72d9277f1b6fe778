SPECIFICATION Spec
CONSTANTS
  p1 = p1
  p2 = p2
  g1 = g1
  r1 = r1
  r2 = r2
  k1 = k1
  k2 = k2
  Points = {p1, p2}
  InitialPoints = {p1}
  Groups = {g1}
  Requests <- MCRequests
  RetryNum <- MCRetryNum
  MaxConcurrency = 2
  WorkerIds = {k1, k2}
  DefaultConcurrency = 1
  MaxRetryAttempts = 1
  MaxFailureCount = 3
  SuccessThreshold = 1
  FailureThreshold = 1
  PoolBuffer = 1
  PointBuffer = 2
INVARIANTS  ResultsAreFinal PointKeepsWorker
SYMMETRY Symmetry
CHECK_DEADLOCK FALSE
