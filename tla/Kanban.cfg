SPECIFICATION Spec
CONSTANTS
  NULL = NULL
  Tasks = {t1, t2}
  FailureLimit = 2
  DispatchLimit = 2
  ViolationLimit = 2
  SystemicCount = 2
  BlockLimit = 2
  MaxRuns = 3
  MaxMoves = 2
  MaxFaults = 1
  MaxHappenings = 3
CONSTRAINT FewHappenings
SYMMETRY Interchange
INVARIANTS
  OpenRunIsCurrent
  RetryBudget
PROPERTIES
  KeepsHistory
  ReleaseMeansDead
  RunEndedByItsWorker
  ChildAfterParents
CHECK_DEADLOCK FALSE
