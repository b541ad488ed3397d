SPECIFICATION Spec
CHECK_DEADLOCK FALSE

CONSTANTS
  d1 = d1  d2 = d2
  e1 = e1  e2 = e2
  Dispatcher <- MCDispatcher
  Editor <- MCEditor
  Caller <- RoutesTools
  MaxEdits = 1
  MaxFaults = 0

INVARIANT
  CancelHolds
