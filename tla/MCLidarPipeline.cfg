SPECIFICATION PipelineSpec
CONSTANTS
  PacketLength = 4
  PointsPerPacket = 3
  PointsPerTurn = 4
  Seam = 1
  Scenes <- MCScenes
  Ticks <- MCTicks
  MaxPackets = 7
  MaxDamage = 1
  MaxTfFailures = 1
  MaxLosses = 1
CHECK_DEADLOCK FALSE
INVARIANTS
  Resynchronises
  ScanIsOneTurn
  TakenAtMostThrice
  PoseExplained
  SpeedOverItsTime
PROPERTIES
  StoredScanIsTaken
