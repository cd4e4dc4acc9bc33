SPECIFICATION Spec
CONSTANTS
  NULL = NULL
  t1 = t1
  t2 = t2
  t3 = t3
  Topics = {t1, t2, t3}
  Deliveries = {d1, d2, d3}
  Platforms = {feishu}
  Claimants = {pulse}
  TopicUrl <- MCUrl
  TopicKey <- MCKey
  TopicRank <- MCRank
  TopicExpiry <- MCExpiry
  PrefSettings <- MCPrefs
  FirstPrefs <- MCFirstPrefs
  Hour = 1
  Day = 4
  ClaimTimeout = 1
  MaxTime = 4
INVARIANTS
  OpenIsUnclaimed
  HolderAgrees
  SourceSentOnce
PROPERTIES
  ImplementsClaims
  RetiredIsFinal
  ClaimNotStolen
CHECK_DEADLOCK FALSE
