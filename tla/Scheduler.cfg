SPECIFICATION FairSpec
CONSTANTS
  NULL = NULL
  Jobs = {j1}
  Processes = {p1, p2}
  OnceTimes = {1}
  RecurringTimes = {0, 2}
  MaxTimes = 2
  MaxSlots = 2
  MaxAttempts = 2
  MaxMoves = 1
  MaxFaults = 1
INVARIANTS
  
  OccurrenceFiredOnce
  
  RowsTellTheTruth
PROPERTIES
  
  OneShotSettles
CHECK_DEADLOCK FALSE
