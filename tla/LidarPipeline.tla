---------------------------- MODULE LidarPipeline ----------------------------
(***************************************************************************)
(* The LiDAR driver and the odometry node, two processes joined by the     *)
(* scan topic.  The driver publishes reliably, the odometry subscribes     *)
(* best effort and keeps one scan: a scan may get lost on the way, and one *)
(* not yet looked at gives way to the next.                                *)
(***************************************************************************)
EXTENDS LidarDriver, LidarOdometry

CONSTANT MaxLosses                       \* bound on the scans lost on the way
ASSUME LossAssumption == MaxLosses \in Nat

VARIABLE losses                          \* history: scans lost on the way

pipelineVars == <<vars, odometryVars, losses>>

PipelineInit == Init /\ OdometryInit /\ losses = 0

\* The rover moves one place a turn.
AsScan(message) ==
  [place |-> Turn(LastPoint(message.scan)), stamp |-> message.stamp]

Arrives == inbox' = AsScan(published') /\ UNCHANGED losses
GetsLost ==
  /\ losses < MaxLosses                                               \* bound
  /\ losses' = losses + 1
  /\ UNCHANGED inbox

Publishes == main = "copy" /\ main' = "poll" /\ ~firstScan

DriverStep ==
  /\ Next
  /\ IF Publishes THEN Arrives \/ GetsLost ELSE UNCHANGED <<inbox, losses>>
  /\ UNCHANGED <<lastScan, available, initialized, tfFailures, estimate>>

PipelineNext ==
  \/ DriverStep
  \/ OdometryStep /\ UNCHANGED <<vars, losses>>

\* Both threads of the driver are scheduled.
PipelineFairness ==
  /\ WF_pipelineVars(DriverStep /\ RxThreadProc)
  /\ WF_pipelineVars(DriverStep /\ MainThread)

PipelineSpec == PipelineInit /\ [][PipelineNext]_pipelineVars /\ PipelineFairness

-----------------------------------------------------------------------------
\* A speed is the motion between two scans over the time between these two, or
\* over a longer one if the estimate before was unfound; and that time has
\* passed, unless the clock was set.  Only the first estimate, which has no
\* motion, may be over no time: it is one of the scan that initialised if
\* new_scan_available happened to be set.
SpeedOverItsTime ==
  speed.from # NoScan =>
    /\ speed.time > 0 \/ setBack
    /\ speed.late \/ speed.time = speed.to.stamp - speed.from.stamp

=============================================================================
