SPECIFICATION DeliverySpec
CONSTANTS
  NULL = NULL
  Chat = chat
  Page = page
  Pulse = pulse
  Browser = browser
  Platforms = {chat}
  Claimants = {pulse}
  Topics = {t1}
  Deliveries = {d1, d2}
  UserEvents = {u1, u2}
  Streaming = FALSE
  TopicUrl <- MCUrl
  TopicKey <- MCKey
  TopicRank <- MCRank
  TopicExpiry <- MCExpiry
  PrefSettings <- MCPrefs
  FirstPrefs <- MCPref
  Hour = 1
  Day = 4
  ClaimTimeout = 1
  MaxDepth = 3
  MaxPending = 3
  MaxTime = 2
SYMMETRY Interchange
INVARIANT
  TopicSpokenOnce
CHECK_DEADLOCK FALSE
