SPECIFICATION Spec
CONSTANTS
  NULL = NULL
  Reviewers = {r1, r2}
  Facts = {f1}
  TriggerMessages = 2
  MinTailMessages = 1
  MaxBatchMessages = 3
  MaxAttempts = 2
  MaxDailyRuns = 3
  MaxOperations = 1
  MaxKept = 0
  Cooldown = 1
  Day = 2
  MaxRows = 4
  MaxSessions = 2
  MaxTime = 2
  MaxFaults = 1
SYMMETRY Interchange
CONSTRAINT OneSession
INVARIANTS
  CursorCovered
  OneReviewPerWindow
  OpenRunHasReview
  MemoriesHaveChapter
  CallsBounded
PROPERTIES
  ForegroundKept
CHECK_DEADLOCK FALSE
