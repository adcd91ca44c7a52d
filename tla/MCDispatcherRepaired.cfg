SPECIFICATION Spec
CONSTANTS
  Robots = {1, 2}
  p1 = p1
  p2 = p2
  p3 = p3
  Points <- MCPoints
  NoPoint = NoPoint
  TooClose <- MCTooClose
  Repeated <- MCSame
  Deadband <- MCSame
  CacheSize = 2
  Versions <- MCStaticVersions
  MaxToken = 4
SYMMETRY MCSymmetry
PROPERTY ReachedDestinationNotReissued
