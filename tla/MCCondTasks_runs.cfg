SPECIFICATION FairSpec
CONSTANTS
  ThreadN = 2
  Calls <- TwoCalls
  Wakes = {"timeout", "ok"}
  MaxRash = 1
INVARIANTS
  DestroyIsSafe
PROPERTIES
  ImplementsTaskRun
  RunEnds
CHECK_DEADLOCK FALSE
