SPECIFICATION FairSpec
CONSTANTS
  w1 = w1
  w2 = w2
  w3 = w3
  Worker = {w1, w2}
  MaxAttempts = 2
  LeaseTicks = 1
  PromptCommit = TRUE
  MaxVersion = 4
  MaxClaims = 4
  MaxDrops = 1
INVARIANTS
  StatesAgree
  OnlyApprovedIsClaimed
  OneRecorder
PROPERTIES
  SettledIsFinal
  ImplementsApprovedDelivery
  NeverForgotten
CHECK_DEADLOCK FALSE
