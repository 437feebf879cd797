CONSTANTS
  Producers = {p1, p2}
  BlkN = 2
  BlkBytes = 2
  NodeBytes = {1, 2}
  MaxPush = 2
SPECIFICATION QuietFairSpec
INVARIANTS
  NoOverlap
  Fifo
  CleanAccounting
  PeekInOrder
PROPERTIES
  DeliversAll
  FullIsTemporary
CHECK_DEADLOCK FALSE
