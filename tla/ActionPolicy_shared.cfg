SPECIFICATION FairSpec
CONSTANTS
  create = create
  cancel = cancel
  device = device
  q1 = q1
  q2 = q2
  Action = {device}
  KindOf <- DeviceKind
  LevelOf <- DeviceLevel
  Request = {q1, q2}
  ProcessOf <- Replicas
  Cap = {4, 5}
  MaxVersion = 5
  MaxPolicies = 3
INVARIANTS
  EffectOnce
PROPERTIES
  ImplementsSerialActions
  AgentsNeverLoosen
  ExecutingResolves
CHECK_DEADLOCK FALSE
