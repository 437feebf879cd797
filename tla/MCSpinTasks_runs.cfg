SPECIFICATION FairSpec
CONSTANTS
  ThreadN = 2
  Calls <- TwoCalls
  WakeEvery = 1
  MaxIdx = 2
PROPERTIES
  ImplementsTaskRun
  RunEnds
CONSTRAINT Known
CHECK_DEADLOCK FALSE
