CONSTANTS
  Names <- MCNames
  NoVersion = none
  Dangling = dangling
  Limits <- WideLimit
  Requests <- AnyParent
  Others <- NoOthers
SPECIFICATION Spec
CHECK_DEADLOCK FALSE
INVARIANTS
  EveryVersionIsServed
