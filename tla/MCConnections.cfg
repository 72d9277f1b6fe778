SPECIFICATION ConnectionsSpec
CONSTANTS
  c1 = c1
  Clients = {c1, c2, c3}
  None = None
  Tries = 2
  MaxDrops = 3
  MaxAttempt = 60
  m1 = m1
  m2 = m2
  Batch <- MCBatch
  Consumers = {k1}
  UseTransaction = {TRUE, FALSE}
  DelayEnabled = {TRUE}
  Prefetch = 2
  HandlerCalls = {"none"}
  MaxRetry = 1
  MaxFaults = 1
  Users = {u1, u2}
  Runs = {n1, n2}
  MaxConns = 2
  Conns = {c1, c2}
  Callers = {u1}
  MaxCalls = 1
INVARIANTS
  TypesOK WaitIsLimited ConnectionsClose
PROPERTIES LeaseHolds  NothingHangs
CHECK_DEADLOCK FALSE
