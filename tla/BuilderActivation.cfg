SPECIFICATION FairSpec
CONSTANTS
  NULL = NULL
  Down = Down
  Changes = {c1, c2}
  Workers = {w1, w2, w3}
  c1 = c1
  c2 = c2
  w1 = w1
  w2 = w2
  w3 = w3
CONSTRAINT InOrder
INVARIANTS
  PointsToConfirmed
  NoOrphans
  SwitchIsJournalled
  FailedIsNotCurrent
  HealthyRan
PROPERTIES
  OnlyTransitions
  SwitchIsAtomic
  SwitchSettles
CHECK_DEADLOCK FALSE
