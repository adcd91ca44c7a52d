SPECIFICATION FairSpec
CONSTANTS
  Robots = {1, 2}
  p1 = p1
  p2 = p2
  Points <- MCPoints
  NoPoint = NoPoint
  TooClose <- MCSame
  Repeated <- MCSame
  Deadband <- MCSame
  CacheSize = 2
  MaxToken = 4
  Schedules = {"final_destination"}
  MaxObjectives = 2
  SteadySchedules = {}
  MaxComputes = 0
  MaxTroubles = 1
PROPERTY ActiveCommandsRefreshed
