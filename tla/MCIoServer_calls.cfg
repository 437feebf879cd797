SPECIFICATION FairSpec
CONSTANTS
  Main = main
  Threads = {}
  Timers = {t1, t2}
  SlotN = 2
  MaxCalls = 5
  Drivers = {midi}
  Jobs = {job}
  Async = {midi}
INVARIANTS
  OneAtATime
  QuietWhenPaused
  LateOnce
PROPERTIES
  CallsEnd
CHECK_DEADLOCK FALSE
