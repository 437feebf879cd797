CONSTANTS
  Producers = {p1, p2}
  BlkN = 2
  BlkBytes = 1
  NodeBytes = {1}
  MaxPush = 2
CHECK_DEADLOCK FALSE
SPECIFICATION Spec
INVARIANT ResetIsSafe
