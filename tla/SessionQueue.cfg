SPECIFICATION FairSpec
CONSTANTS
  NULL = NULL
  UserEvents = {u1, u2, u3, u4}
  PushEvents = {p1}
  MaxDepth = 1
  MaxPending = 2
INVARIANTS
  
  NoSecondTurn
  OverflowInOrder

  
  
CHECK_DEADLOCK FALSE
