SPECIFICATION FairSpec
CONSTANTS
  Tokens = {1, 2, 3, 4}
  p1 = p1
  p2 = p2
  Points <- MCPoints
  FixedWing = TRUE
  ReachedCacheSize = 2
  MaximumRecoveryAttempts = 2
  MaxDistance = 3
  MaxQueue = 3
  NoProgress = NoProgress
  NoNotice = NoNotice
INVARIANTS
  QueuedOnce
PROPERTIES
  FailuresAreEarned
  HeadIsResolved
