CONSTANTS
  k1 = k1
  k2 = k2
  k3 = k3
  small = small
  large = large
  huge = huge
  Clients = {c1, c2}
  Worker = worker
  NoThread = nobody
  Keys = {k1, k2, k3}
  Values = {small, large, huge}
  NoValue = none
  Size <- MCSize
  MaxMemory = 1
  MaxDisk = 2
  HasPopFunctor = FALSE
  DiskMayFail = FALSE
  Requests <- TooLarge
  ReuseKeys = FALSE
  MaxCalls = 1
SPECIFICATION Spec
CHECK_DEADLOCK FALSE
INVARIANTS
  NoWaitingForEachOther
