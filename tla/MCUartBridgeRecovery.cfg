SPECIFICATION FairSpec
CONSTANTS
  ControlModes = {"twist", "fixed_wing", "manual_lr"}
  EnableImuStream = TRUE
  MaximumReopenAttempts = 3
  FailureOutcomes = {"error", "timeout"}
  Reopenable = TRUE
  NoVelocity = NoVelocity
  MaxCommands = 2
  MaxEvents = 2
  MaxTroubles = 2
INVARIANTS
  OpenPortGetsConfigured
PROPERTIES
  VelocityNeverGoesBack
  NewestVelocityIsWritten
  ClosedPortEndsBridge
