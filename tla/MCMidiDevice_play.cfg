SPECIFICATION FairSpec
CONSTANTS
  x = x
  NoMsg = NoMsg
  Ports = {0, 1}
  Songs <- MCSongs
  Live <- MCLive
  BufN = 3
  Ahead = 0
  MaxSleep = 1
  Top = 1
  MaxSets <- MCMaxSets
INVARIANTS
  RingExact
  PlaysInOrder
PROPERTIES
  AllPlayed
\* A failed assertion aborts the program, and a full ring ends the model.
CHECK_DEADLOCK FALSE
