SPECIFICATION Spec
CONSTANTS
  r1 = r1
  r2 = r2
  r3 = r3
  Replica = {r1, r2}
  NoHolder = NoHolder
  LeaseTicks = 1
  MaxVersion = 5
  MaxFaults = 0
PROPERTY
  CancelledStartsNoWorker
CHECK_DEADLOCK FALSE
