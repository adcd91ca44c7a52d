---------------------------- MODULE HealthMonitor ----------------------------
(***************************************************************************)
(* waverover/health_monitor.py: once a second the monitor looks at the age *)
(* of the last cmd_vel and IMU messages and at the last navigation state,  *)
(* and ends its process when it has been unsatisfied often enough in a row *)
(* (launch then shuts the whole stack down).                               *)
(*                                                                         *)
(* A step is one check period, of a second.  An age counts the checks that *)
(* found no newer message; it is capped where it is too old, and a stream  *)
(* never seen is too old.  A controller that hangs keeps its process but   *)
(* publishes nothing; the IMU stream ends when the base stops sending it.  *)
(***************************************************************************)
EXTENDS Naturals

CONSTANTS
  Modes,              \* values of <<manual, imuEnabled>>
  StartupGrace,       \* startup_grace_sec
  Threshold,          \* cmd_vel_timeout_sec and imu_timeout_sec
  RequiredFailures    \* consecutive_failure_checks

ASSUME WatchdogAssumption ==
  /\ Modes \subseteq BOOLEAN \X BOOLEAN
  /\ StartupGrace \in Nat \ {0} /\ Threshold \in Nat \ {0}
  /\ RequiredFailures \in Nat \ {0}

VARIABLES
  manual,           \* control_mode is manual_lr: there is no controller
  imuEnabled,       \* enable_imu_stream
  uptime,           \* seconds since startup_at, capped
  failures,         \* consecutive_failures
  cmdAge,           \* age of the last cmd_vel
  imuAge,           \* age of the last IMU message
  navigation,       \* "safe" or "driving", "none" before any state
  controllerHung,   \* the controller publishes nothing any more
  imuEnded,         \* nor does the bridge
  quiet             \* history: checks in a row without both streams, capped

monitorConfig == <<manual, imuEnabled>>
monitorVars ==
  <<uptime, failures, cmdAge, imuAge, navigation, controllerHung, imuEnded,
    quiet>>

\* A message comes some time before the check that first counts it, so at the
\* Threshold-th check after that one its age already exceeds the threshold.
TooOld == Threshold

\* The checks in a row without both streams that it takes to make the monitor
\* exit: of these, the last RequiredFailures find one stale.
Patience == Threshold + RequiredFailures - 1

Cap(n, limit) == IF n < limit THEN n ELSE limit

\* The monitor, and the streams, of a stack that starts.
Fresh ==
  /\ uptime = 0
  /\ failures = 0
  /\ cmdAge = TooOld
  /\ imuAge = TooOld
  /\ navigation = "none"
  /\ controllerHung = FALSE
  /\ imuEnded = FALSE
  /\ quiet = 0

MonitorInit == (\E mode \in Modes : manual = mode[1] /\ imuEnabled = mode[2]) /\ Fresh

Restarted ==
  /\ uptime' = 0
  /\ failures' = 0
  /\ cmdAge' = TooOld
  /\ imuAge' = TooOld
  /\ navigation' = "none"
  /\ controllerHung' = FALSE
  /\ imuEnded' = FALSE
  /\ quiet' = 0

HangController ==
  /\ ~manual /\ ~controllerHung
  /\ controllerHung' = TRUE
  /\ UNCHANGED <<uptime, failures, cmdAge, imuAge, navigation, imuEnded, quiet>>

EndImu ==
  /\ ~imuEnded
  /\ imuEnded' = TRUE
  /\ UNCHANGED <<uptime, failures, cmdAge, imuAge, navigation, controllerHung,
                 quiet>>

\* Slip: a controller that was never heard is taken to wait.
CmdVelStaleOnceDriving ==
  ~manual /\ navigation' = "driving" /\ cmdAge' = TooOld

\* A controller is excused while it last said that it waits or loiters.
CmdVelStale == ~manual /\ navigation' # "safe" /\ cmdAge' = TooOld

ImuStale == imuEnabled /\ imuAge' = TooOld

Unsatisfied == CmdVelStale \/ ImuStale

\* Slip: a satisfied check leaves the count.
EvaluateKeeping ==
  failures' = IF uptime' < StartupGrace THEN 0
              ELSE IF Unsatisfied THEN failures + 1 ELSE failures

\* WatchdogState.evaluate
Evaluate ==
  failures' = IF uptime' < StartupGrace \/ ~Unsatisfied THEN 0 ELSE failures + 1

\* _seen, of either stream.
Hear(cmd, imu) ==
  /\ cmdAge' = IF cmd THEN 0 ELSE Cap(cmdAge + 1, TooOld)
  /\ imuAge' = IF imu THEN 0 ELSE Cap(imuAge + 1, TooOld)

\* What arrived in the last second, then the check.
Second(cmd, imu, state) ==
  /\ cmd => ~controllerHung /\ ~manual
  /\ imu => ~imuEnded /\ imuEnabled
  /\ state # navigation => ~controllerHung /\ ~manual
  /\ uptime' = Cap(uptime + 1, StartupGrace)
  /\ Hear(cmd, imu)
  /\ navigation' = state
  /\ Evaluate
  /\ quiet' = IF (cmd \/ manual) /\ (imu \/ ~imuEnabled) THEN 0
              ELSE Cap(quiet + 1, Patience)
  /\ UNCHANGED <<controllerHung, imuEnded>>

\* The check that makes the monitor exit.
Exhausted == failures' >= RequiredFailures

MonitorTypeOK ==
  /\ manual \in BOOLEAN /\ imuEnabled \in BOOLEAN
  /\ controllerHung \in BOOLEAN /\ imuEnded \in BOOLEAN
  /\ uptime \in 0..StartupGrace
  /\ failures \in 0..RequiredFailures
  /\ cmdAge \in 0..TooOld /\ imuAge \in 0..TooOld
  /\ navigation \in {"none", "safe", "driving"}
  /\ quiet \in 0..Patience
=============================================================================
