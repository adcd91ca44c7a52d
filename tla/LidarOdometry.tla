---------------------------- MODULE LidarOdometry ----------------------------
(***************************************************************************)
(* The laser odometry node (rf2o_laser_odometry).  One thread: process()   *)
(* estimates the motion between the last scan and the scan before, adds it *)
(* to the pose and publishes; spin_some then runs the callback of a newer  *)
(* scan.  The subscription is best effort and keeps one scan.              *)
(*                                                                         *)
(* A scan is [place, stamp]: where the rover was, on a line, and the       *)
(* header's time.  An estimate has one of three outcomes.  It is "found",  *)
(* and then taken to be right, if only some of its levels could be solved  *)
(* too; or every level has too few valid ranges and is "skipped", which    *)
(* leaves the identity; or the filter of a level fails, and it is          *)
(* "unfound".  No parameter names a topic for the initial pose, so the     *)
(* pose starts at 0.                                                       *)
(***************************************************************************)
EXTENDS Integers

CONSTANT MaxTfFailures      \* bound on the lookups of the laser's pose that fail

ASSUME FailureAssumption == MaxTfFailures \in Nat

NoScan == [place |-> -1, stamp |-> 0]

VARIABLES
  inbox,          \* the scan the subscription keeps, or NoScan
  lastScan,       \* last_scan, and current_scan_time, its stamp
  available,      \* new_scan_available
  initialized,    \* module_initialized, and first_laser_scan its negation
  reference,      \* the scan in range, the one before in the next estimate
  pose,           \* robot_pose_
  lastOdomTime,   \* last_odom_time
  speed,          \* lin_speed: the motion and the time it is divided by, and as
                  \* history the scans it was measured from and to, and whether
                  \* the estimate before was unfound
  origin,         \* history: the scan the pose starts from
  missed,         \* history: motion between scans that was skipped or unfound
  unfound,        \* history: the last estimate was
  tfFailures      \* history: failed lookups

estimate == <<reference, pose, lastOdomTime, speed, origin, missed, unfound>>
odometryVars == <<inbox, lastScan, available, initialized, tfFailures, estimate>>

\* The constructor does not set new_scan_available.
OdometryInit ==
  /\ inbox = NoScan
  /\ lastScan = NoScan
  /\ available \in BOOLEAN
  /\ initialized = FALSE
  /\ reference = NoScan
  /\ pose = 0
  /\ lastOdomTime = 0
  /\ speed = [motion |-> 0, time |-> 0, from |-> NoScan, to |-> NoScan, late |-> FALSE]
  /\ origin = NoScan
  /\ missed = 0
  /\ unfound = FALSE
  /\ tfFailures = 0

\* process() runs before every spin_some, so an initialised node has no scan
\* still available when the callback runs.
Spins == inbox # NoScan /\ ~(initialized /\ available)

\* The callback's first scan only initialises, if the laser's pose is known; its
\* ranges are not kept.
LaserCallBackInit(found) ==
  /\ Spins /\ ~initialized
  /\ found \/ tfFailures < MaxTfFailures                              \* bound
  /\ inbox' = NoScan
  /\ lastScan' = inbox
  /\ initialized' = found
  /\ lastOdomTime' = IF found THEN inbox.stamp ELSE lastOdomTime
  /\ tfFailures' = IF found THEN tfFailures ELSE tfFailures + 1
  /\ UNCHANGED <<available, reference, pose, speed, origin, missed, unfound>>

LaserCallBack ==
  /\ Spins /\ initialized
  /\ inbox' = NoScan
  /\ lastScan' = inbox
  /\ available' = TRUE
  /\ UNCHANGED <<initialized, tfFailures, estimate>>

\* The motion from the reference to the last scan.
Motion == IF reference = NoScan THEN 0 ELSE lastScan.place - reference.place

\* Slip: the frames are not swapped, and the first stays the reference.
PushFirstFrame == reference' = IF reference = NoScan THEN lastScan ELSE reference

\* createImagePyramid pushes the frames back before anything can fail.
PushFrame == reference' = lastScan

\* The pose and its time go on, by whatever the levels came to.
PoseUpdate(motion) ==
  /\ pose' = pose + motion
  /\ speed' = [motion |-> motion, time |-> lastScan.stamp - lastOdomTime,
               from |-> reference, to |-> lastScan, late |-> unfound]
  /\ lastOdomTime' = lastScan.stamp

\* The pose and its time stay, and are published again.
KeepPose == UNCHANGED <<pose, speed, lastOdomTime>>

\* odometryCalculation; the first estimate has no reference, so it skips.
OdometryCalculation(outcome) ==
  /\ initialized /\ available
  /\ reference = NoScan => outcome = "skipped"
  /\ PushFrame
  /\ \/ outcome = "found" /\ PoseUpdate(Motion)
     \/ outcome = "skipped" /\ PoseUpdate(0)
     \/ outcome = "unfound" /\ KeepPose
  /\ missed' = IF outcome = "found" THEN missed ELSE missed + Motion
  /\ unfound' = (outcome = "unfound")
  /\ origin' = IF reference = NoScan THEN lastScan ELSE origin
  /\ UNCHANGED <<inbox, lastScan, initialized, tfFailures>>

\* Slip: the scan stays available until the next one comes.
ProcessLeavingScan(outcome) == OdometryCalculation(outcome) /\ UNCHANGED available

Process(outcome) == OdometryCalculation(outcome) /\ available' = FALSE

OdometryStep ==
  \/ \E found \in BOOLEAN : LaserCallBackInit(found)
  \/ LaserCallBack
  \/ \E outcome \in {"found", "skipped", "unfound"} : Process(outcome)

\* The pose is where the reference scan was seen from, seen from the origin,
\* except for the motion of estimates that were skipped or unfound, which is lost
\* for good; nothing else is lost, or counted twice, when scans come twice, get
\* lost or give way to newer ones.  The pose bears the reference's time unless the
\* last estimate was unfound: of one that was skipped it does not show.
PoseExplained ==
  reference # NoScan =>
    /\ pose + missed = reference.place - origin.place
    /\ unfound \/ lastOdomTime = reference.stamp
=============================================================================
