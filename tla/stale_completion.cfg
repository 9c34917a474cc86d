CONSTANTS
  k1 = k1
  k2 = k2
  k3 = k3
  small = small
  large = large
  huge = huge
  Clients = {c1}
  Worker = worker
  NoThread = nobody
  Keys = {k1, k2, k3}
  Values = {small, large, huge}
  NoValue = none
  Size <- MCSize
  MaxMemory = 1
  MaxDisk = 2
  HasPopFunctor = TRUE
  DiskMayFail = FALSE
  Requests <- Restoring
  ReuseKeys = TRUE
  MaxCalls = 3
SPECIFICATION Spec
CHECK_DEADLOCK FALSE
INVARIANTS
  CompletedIsOnDisk
