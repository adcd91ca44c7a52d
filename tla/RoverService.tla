---------------------------- MODULE RoverService ----------------------------
(***************************************************************************)
(* waverover.service on the rover: every start of it first runs the        *)
(* updater (Wants and After, so it starts whatever the updater says), then *)
(* launches the stack.  Launch ends the stack when the bridge, the         *)
(* controller or the health monitor exits, and systemd starts it again     *)
(* after RestartSec, until it has done so too often in too short a time.   *)
(*                                                                         *)
(* One step of Second is a second.  Time passes only while the stack runs  *)
(* or waits; the updater and the launch take no time, which makes starts   *)
(* denser than they are, except for StartDelay.                            *)
(***************************************************************************)
EXTENDS Updater, HealthMonitor

CONSTANTS
  RestartSec,
  StartDelay,         \* least time from a start until the monitor runs
  StartInterval,      \* StartLimitIntervalSec
  StartBurst          \* StartLimitBurst

ASSUME ServiceAssumption ==
  /\ RestartSec \in Nat /\ StartDelay \in Nat
  /\ StartInterval \in Nat /\ StartBurst \in Nat \ {0}
  /\ "service" \in Runs

VARIABLES
  phase,        \* the service: "starting", "updating", "booting", "running",
                \* "waiting", "abandoned"
  clock,        \* seconds left of StartDelay or RestartSec
  starts,       \* starts counted in the window of the start limit
  windowAge,    \* age of the window, capped
  exits         \* history: a process exited by itself since power came

startLimit == <<starts, windowAge>>
serviceVars == <<phase, clock, startLimit, exits>>
roverVars == <<updaterVars, monitorConfig, monitorVars, serviceVars>>

RoverInit ==
  /\ UpdaterInit
  /\ MonitorInit
  /\ phase = "starting"
  /\ clock = 0
  /\ starts = 0
  /\ windowAge = 0
  /\ exits = FALSE

-----------------------------------------------------------------------------
\* The start job runs the updater first.
StartUpdater ==
  /\ phase = "starting"
  /\ Begin("service")
  /\ phase' = "updating"
  /\ UNCHANGED <<monitorConfig, monitorVars, clock, startLimit, exits>>

UpdaterRuns(r) ==
  /\ UpdaterStep(r) \/ Kill(r)
  /\ UNCHANGED <<monitorConfig, monitorVars, serviceVars>>

\* Somebody else runs the updater before the stack is up.
StartByHand(r) ==
  /\ r # "service" /\ phase \in {"starting", "updating"}
  /\ Begin(r)
  /\ UNCHANGED <<monitorConfig, monitorVars, serviceVars>>

\* systemd counts the starts from the first one on, and begins again with the
\* first one after the interval.
CountStart ==
  IF starts = 0 \/ windowAge = StartInterval THEN starts' = 1 /\ windowAge' = 0
  ELSE starts' = starts + 1 /\ UNCHANGED windowAge

TooManyStarts == starts = StartBurst /\ windowAge < StartInterval

\* However the updater ended, the stack is launched, unless it was too often.
StartStack ==
  /\ phase = "updating" /\ at["service"] = "idle"
  /\ IF TooManyStarts THEN phase' = "abandoned" /\ UNCHANGED <<clock, startLimit>>
     ELSE phase' = "booting" /\ clock' = StartDelay /\ CountStart
  /\ UNCHANGED <<updaterVars, monitorConfig, monitorVars, exits>>

Older == windowAge' = Cap(windowAge + 1, StartInterval) /\ UNCHANGED starts

Pass ==
  /\ phase \in {"booting", "waiting"} /\ clock > 0
  /\ clock' = clock - 1
  /\ Older
  /\ UNCHANGED <<updaterVars, monitorConfig, monitorVars, phase, exits>>

MonitorStarts ==
  /\ phase = "booting" /\ clock = 0
  /\ phase' = "running"
  /\ UNCHANGED <<updaterVars, monitorConfig, monitorVars, clock, startLimit, exits>>

\* The next start has a monitor of its own.
RestartDue ==
  /\ phase = "waiting" /\ clock = 0
  /\ phase' = "starting"
  /\ Restarted
  /\ UNCHANGED <<updaterVars, monitorConfig, clock, startLimit, exits>>

\* Slip: the service is started again at once.
ShutdownAtOnce == phase' = "waiting" /\ clock' = 0

\* Launch shuts everything down; Restart=always.
Shutdown == phase' = "waiting" /\ clock' = RestartSec

\* A run of the updater and the monitor share no variable: seconds are counted
\* only between runs.
Followed == phase = "running" /\ ~Locked                              \* bound

CheckSecond ==
  /\ Followed
  /\ \E cmd, imu \in BOOLEAN, state \in {navigation, "safe", "driving"} :
       Second(cmd, imu, state)
  /\ Older
  /\ IF Exhausted THEN Shutdown ELSE UNCHANGED <<phase, clock>>
  /\ UNCHANGED <<updaterVars, monitorConfig, exits>>

Fault ==
  /\ phase = "booting" \/ Followed
  /\ Mishap
  /\ \/ phase = "running" /\ HangController /\ UNCHANGED <<phase, clock, exits>>
     \/ phase = "running" /\ EndImu /\ UNCHANGED <<phase, clock, exits>>
     \/ Shutdown /\ exits' = TRUE /\ UNCHANGED monitorVars
  /\ UNCHANGED <<clone, at, old, target, local, broken, monitorConfig,
                 startLimit>>

\* The power goes and comes back: every process and every lock is gone.
PowerLoss ==
  /\ Mishap
  /\ IF Locked THEN \E r \in Runs : at[r] # "idle" /\ KillEffect(r)
     ELSE UNCHANGED <<clone, at, old, target, local, broken>>
  /\ phase' = "starting"
  /\ clock' = 0
  /\ starts' = 0
  /\ windowAge' = 0
  /\ exits' = FALSE
  /\ Restarted
  /\ UNCHANGED monitorConfig

RoverNext ==
  \/ StartUpdater \/ StartStack \/ Pass \/ MonitorStarts \/ RestartDue
  \/ CheckSecond \/ Fault \/ PowerLoss
  \/ \E r \in Runs : UpdaterRuns(r) \/ StartByHand(r)

\* The monitor's timer goes on, and the script does what it has begun.
RoverFairness ==
  /\ WF_roverVars(CheckSecond)
  /\ \A r \in Runs : WF_roverVars(UpdaterRuns(r))

RoverSpec == RoverInit /\ [][RoverNext]_roverVars /\ RoverFairness

-----------------------------------------------------------------------------
\* The watchdog never exhausts the start limit by itself: a stack that is up
\* long enough to be found wanting is always started again.
WatchdogNeverAbandons == phase = "abandoned" => exits

\* The watchdog ends the stack only after the streams have together been
\* incomplete at as many checks in a row as the threshold and the required
\* failures ask: no shorter pause, and no row of separate ones, does.
PauseForgiven ==
  [][(phase = "running" /\ phase' = "waiting" /\ exits' = exits /\ failures' # failures)
       => quiet' = Patience]_roverVars

\* A controller that hangs while it drives, or an IMU stream that ends, makes
\* the stack start again.
LossIsNoticed ==
  (phase = "running" /\ ((controllerHung /\ navigation # "safe")
                         \/ (imuEnded /\ imuEnabled)))
    ~> phase # "running"

=============================================================================
