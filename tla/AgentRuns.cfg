SPECIFICATION FairSpec
CHECK_DEADLOCK FALSE

CONSTANTS
  c1 = c1  c2 = c2
  Client <- Two
  MaxRuns = 2
  MaxEvents = 1

INVARIANTS
  Faithful
  OneWriter
  LastIsReachable

PROPERTIES
  ImplementsBroadcast
  StreamsEnd
  Evicted
