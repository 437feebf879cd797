SPECIFICATION Spec
CONSTANTS
  ChN = 2
  Dsp = 2
  BufCnt = 2
  FramesPerCycle = 4
  PrimeCycles = 1
  InFrames = {3, 4}
  MaxPkt = 3
INVARIANTS
  FullExact
  ClientWindow
  DriverWindow
  FaultFirst
PROPERTIES
  ImplementsFifo
CHECK_DEADLOCK FALSE
