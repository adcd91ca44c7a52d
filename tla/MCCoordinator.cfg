SPECIFICATION FairSpec
CONSTANTS
  Robots = {1, 2}
  p1 = p1
  p2 = p2
  Points <- MCPoints
  NoPoint = NoPoint
  TooClose <- MCSame
  Repeated <- MCSame
  Deadband <- MCSame
  CacheSize = 1
  MaxToken = 4
  Schedules = {"final_destination", "receding_horizon", "reactive_periodic"}
  MaxObjectives = 2
  SteadySchedules = {"receding_horizon"}
  MaxComputes = 2
  MaxTroubles = 1
CHECK_DEADLOCK FALSE
PROPERTIES
  ImplementsDispatcher
  ActivationUsesNewestResult
  RecedingHorizonRefreshes
  PendingNotForgotten
