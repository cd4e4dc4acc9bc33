SPECIFICATION Spec
CONSTANTS
  NULL = NULL
  Tasks = {t1, t2}
  FailureLimit = 2
  DispatchLimit = 2
  ViolationLimit = 2
  SystemicCount = 2
  BlockLimit = 2
  MaxRuns = 2
  MaxMoves = 0
  MaxFaults = 0
  MaxHappenings = 3
CONSTRAINT FewHappenings
SYMMETRY Interchange
PROPERTY
  NeverDisagree
CHECK_DEADLOCK FALSE
