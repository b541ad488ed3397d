SPECIFICATION FairSpec
CONSTANTS
  r1 = r1
  r2 = r2
  r3 = r3
  Replica = {r1, r2}
  NoHolder = NoHolder
  LeaseTicks = 1
  MaxVersion = 3
  MaxFaults = 1
INVARIANTS
  FencesDistinct
  HandoverAfterWorkerStops
  CleanExitFreesLease
PROPERTIES
  ImplementsFencedLease
  StaleWorkerStops
  TakeoverAfterCrash
CHECK_DEADLOCK FALSE
