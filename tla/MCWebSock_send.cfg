SPECIFICATION WsFairSpec
CONSTANTS
  ProtocolN = 1
  MaxSend = 3
  MaxOpen = 2
INVARIANTS
  NoDangling
  NoneLost
PROPERTIES
  InOrder
  AllSent
CHECK_DEADLOCK FALSE
