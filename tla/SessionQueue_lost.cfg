SPECIFICATION Spec
CONSTANTS
  NULL = NULL
  UserEvents = {u1, u2, u3, u4, u5, u6}
  PushEvents = {}
  MaxDepth = 3
  MaxPending = 32
SYMMETRY Interchange
INVARIANT
  NothingLost
CHECK_DEADLOCK FALSE
