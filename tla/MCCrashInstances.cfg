SPECIFICATION Spec
CONSTANTS
  Instances = {i1, i2}
  Pids = {1, 2}
  MaxEnds = 1
INVARIANTS NoDumpArchivedUnreported
CHECK_DEADLOCK FALSE
