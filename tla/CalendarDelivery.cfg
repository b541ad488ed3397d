SPECIFICATION FairSpec
CHECK_DEADLOCK FALSE

CONSTANTS
  w1 = w1  w2 = w2  a = a  b = b  x = x
  Worker <- MCWorker
  Text <- MCText
  Cancelling <- MCCancelling
  NoText = NoText
  PromptRecord = TRUE
  MaxAttempts = 2
  MaxVersion = 3
  MaxRows = 2
  MaxFaults = 2

INVARIANTS
  InOrder
  TrustedEtag
  GenerationsCovered

PROPERTIES
  ImplementsTwoCopies
  ForeignKept
  EditsStand
  HeadSettles
