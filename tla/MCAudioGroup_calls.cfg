CONSTANTS
  hw = hw
  file = file
  CfgL <- MCCfgL
  FileDevs <- MCFileDevs
  Internal <- MCInternal
  Packets <- MCPackets
  ClockL <- MCClockL
  Cap = 2
  MaxUntold = 1
SPECIFICATION GroupFairSpec
INVARIANTS OnePerTick
PROPERTIES GroupRuns
