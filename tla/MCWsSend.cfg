SPECIFICATION FairSpec
CONSTANTS
  Conns = {c1, c2}
  Users = {u1}
  MaxCalls = 1
PROPERTY OnCloseCalled
CHECK_DEADLOCK FALSE
