SPECIFICATION FairSpec
CHECK_DEADLOCK FALSE

CONSTANTS
  d1 = d1  d2 = d2
  e1 = e1  e2 = e2
  Dispatcher <- MCDispatcher
  Editor <- MCEditor
  Caller <- Routes
  MaxEdits = 2
  MaxFaults = 2

INVARIANTS
  CancelHolds
  AckIsDelivered
  Acknowledgeable

PROPERTIES
  ImplementsAlarm
  Rings
