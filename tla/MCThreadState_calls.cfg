SPECIFICATION FairSpec
CONSTANTS
  PauseMicros = 10000
  CycleCnts = {0, 2}
  FuncEnds = TRUE
  SelfPause = TRUE
  MaxOps = 4
  MaxCycle = 3
INVARIANTS
  PausedIsQuiet
  CycleExact
PROPERTIES
  NoGhostRun
  RequestAnswered
CHECK_DEADLOCK FALSE
