CONSTANTS
  k1 = k1
  k2 = k2
  k3 = k3
  small = small
  large = large
  huge = huge
  Clients = {c1, c2}
  Worker = worker
  NoThread = nobody
  Keys = {k1, k2, k3}
  Values = {small, large, huge}
  NoValue = none
  Size <- MCSize
  MaxMemory = 1
  MaxDisk = 2
  HasPopFunctor = FALSE
  DiskMayFail = TRUE
  Requests <- Blocking
  ReuseKeys = FALSE
  MaxCalls = 2
SPECIFICATION FairSpec
CHECK_DEADLOCK FALSE
PROPERTIES
  WaitsEnd
  DeadWorkerIsReported
