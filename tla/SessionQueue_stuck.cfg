SPECIFICATION FairSpec
CONSTANTS
  NULL = NULL
  UserEvents = {u1, u2, u3}
  PushEvents = {}
  MaxDepth = 3
  MaxPending = 32
PROPERTY
  OverflowServed
CHECK_DEADLOCK FALSE
