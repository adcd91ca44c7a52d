SPECIFICATION Spec
CONSTANTS
  Rover = 1
  p1 = p1
  p2 = p2
  Points <- MCPoints
  NoPoint = NoPoint
  Same <- MCSame
  Supersedes = TRUE
  CacheSize = 2
  Versions <- MCReactiveVersions
  MaxToken = 3
  ReachedCacheSize = 1
  MaximumRecoveryAttempts = 1
  MaxDistance = 1
  NoProgress = NoProgress
  NoNotice = NoNotice
  Depth = 2
  Faults = {"waypoint", "notice"}
  MaxFaults = 1
SYMMETRY MCSymmetry
INVARIANTS
  AcknowledgedNotRequeued
  OnlyAbandonedCommandsLinger
PROPERTIES
  ImplementsCommandLife
