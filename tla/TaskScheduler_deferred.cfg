SPECIFICATION Spec
CHECK_DEADLOCK FALSE

CONSTANTS
  e1 = e1  e2 = e2
  Execution <- Two
  NoExecution = NoExecution
  MaxActs = 3

PROPERTY
  BackgroundIsDeferred
