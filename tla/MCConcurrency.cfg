SPECIFICATION SharedSpec
CONSTANTS
  s1 = s1
  s2 = s2
  s3 = s3
  s4 = s4
  Senders = {s1, s2, s3, s4}
  Closers = {c1, c2}
  Buffer = 1
  Mode <- MCMode
  g1 = g1
  g2 = g2
  g3 = g3
  j1 = j1
  j2 = j2
  Goroutines = {g1, g2, g3}
  Keys = {j1, j2}
  Waits <- MCWaits
  Inside <- Ordered
  Detached = TRUE
  MaxCalls <- Quota
  MaxDepth = 3
  Workers = {w1, w2}
  Items = 4
  Calls = {a1, a2, a3}
  a1 = a1
  a2 = a2
  a3 = a3
  Alert = Alert
  Content <- MCContent
  Null = Null
  Names = {n1, n2}
  MaxJobs = 3
  None = None
  Keys_ = {k1, k2}
  Values_ = {x, y}
  Walkers = {w1}
  MaxElements = 3
  Shards = {s1, s2, s3}
  Pages = 2
  Slots = 2
  Instances = {i1}
  Pids = {1, 2}
  MaxEnds = 3
INVARIANTS
  TypesOK ChannelHolds OneRunPerKey ResultsComplete AlertsGoOutOnce MapIsRegistered ListIsMap
PROPERTY NothingHangs
CHECK_DEADLOCK FALSE
