CONSTANTS
  Names <- MCNames
  NoVersion = none
  Dangling = dangling
  Limits <- OneLimit
  Requests <- InOrder
  Others <- NoOthers
SPECIFICATION Spec
CHECK_DEADLOCK FALSE
INVARIANTS
  EveryCallIsDefined
