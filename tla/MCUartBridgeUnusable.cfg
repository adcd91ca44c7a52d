SPECIFICATION FairSpec
CONSTANTS
  ControlModes = {"twist"}
  EnableImuStream = FALSE
  MaximumReopenAttempts = 3
  FailureOutcomes = {"timeout"}
  Reopenable = TRUE
  NoVelocity = NoVelocity
  MaxCommands = 2
  MaxEvents = 2
  MaxTroubles = 1
PROPERTY UnusablePortEndsBridge
