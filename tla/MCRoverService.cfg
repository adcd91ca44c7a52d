SPECIFICATION RoverSpec
CONSTANTS
  Commits <- MCCommits
  Ancestors <- MCAncestors
  Runs = {"service", "hand"}
  Clones <- MCClones
  Modes <- MCModes
  MaxMishaps = 2
  StartupGrace = 2
  Threshold = 2
  RequiredFailures = 2
  RestartSec = 1
  StartDelay = 1
  StartInterval = 10
  StartBurst = 2
CHECK_DEADLOCK FALSE
INVARIANTS
  InstallIsBranch
  LocalCommitKept
  BuildsTheBranch
  WatchdogNeverAbandons
PROPERTIES
  PauseForgiven
  LossIsNoticed
