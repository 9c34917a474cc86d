CONSTANTS
  Names <- MCNames
  NoVersion = none
  Dangling = dangling
  Limits <- WideLimit
  Requests <- InOrder
  Others <- MCOthers
SPECIFICATION Spec
CHECK_DEADLOCK FALSE
INVARIANTS
  OrphansEndHere
