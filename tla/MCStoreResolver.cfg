SPECIFICATION Spec
CONSTANTS
  c1 = c1
  c2 = c2
  c3 = c3
  Chain <- Every
  PathSet = FALSE
  Caller <- ThreeCallers
INVARIANTS NothingLeaks AccountIsComplete OnlyAdmittedOpened UseIsSafe NoLateStart
PROPERTY EverybodyReturns
CHECK_DEADLOCK FALSE
