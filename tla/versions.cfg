CONSTANTS
  Names <- MCNames
  NoVersion = none
  Dangling = dangling
  Limits <- MCLimits
  Requests <- MCRequests
  Others <- MCOthers
SPECIFICATION Spec
CHECK_DEADLOCK FALSE
INVARIANTS
  WellFormed
  RoundTrip
  ArrivalOrderIsIrrelevant
PROPERTIES
  Forest
