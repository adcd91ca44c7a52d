SPECIFICATION FairSpec
CONSTANTS
  Rover = 1
  p1 = p1
  p2 = p2
  Points <- MCPoints
  NoPoint = NoPoint
  Same <- MCSame
  Supersedes = FALSE
  CacheSize = 2
  Versions <- MCOneVersion
  MaxToken = 2
  ReachedCacheSize = 1
  MaximumRecoveryAttempts = 1
  MaxDistance = 1
  NoProgress = NoProgress
  NoNotice = NoNotice
  Depth = 1
  Faults = {"waypoint", "restart"}
  MaxFaults = 1
PROPERTIES
  CommandIsResolved
  StoppedTrialDrains
