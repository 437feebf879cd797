CONSTANTS
  Data = {x, y}
  BufN = 10
  MsgN = 3
  MaxStale = 2
SPECIFICATION Spec
INVARIANTS InStreamOrder NoAssertFails
\* A failed assertion aborts the program.
CHECK_DEADLOCK FALSE
