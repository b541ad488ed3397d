SPECIFICATION Spec
CONSTANTS
  create = create
  cancel = cancel
  device = device
  q1 = q1
  q2 = q2
  Action = {create, cancel}
  KindOf <- CalendarKind
  LevelOf <- CalendarLevel
  Request = {q1, q2}
  ProcessOf <- OneProcess
  Cap = {4, 5}
  MaxVersion = 7
  MaxPolicies = 3
SYMMETRY Symmetry
INVARIANTS
  ConsentedExecution
PROPERTIES
  ExecutionRespectsPolicy
CHECK_DEADLOCK FALSE
