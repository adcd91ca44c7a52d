# A TLA+ model of the Waverover swarm stack

This directory models the Waverover system from the PC-side coordinator down to the
serial port of a rover: the waypoint dispatcher, the control cycle that drives it and
what that cycle decides from, the ROS topics to a rover, the onboard waypoint
controller, the bridge that writes wheel speeds, the LiDAR driver with the laser
odometry behind it, and the service that updates, starts and watches the whole.

TLC checks every module on small instances. TLAPS proves every invariant and every
action property that the passing runs check, and both refinements, for all values of the
constants. `PROJECT.json` maps every definition to the lines it models.

## 1. Inventory of the system

Paths are relative to the repository root; `PC/` stands for
`waverover_swarm_controller/waverover_swarm_controller/`.

| Component | State | Operations | Correct when | Module |
|---|---|---|---|---|
| **Dispatcher** `PC/waypoint_dispatcher.py`, `PC/waypoint_repair.py` | per rover one active command, one replaceable pending request, last reached and failed destination, superseded tokens; process-wide last token, memo of a rejected batch, fault latch | `update_pending`, `tick`, `acknowledge`, `fail`, `mark_fault`, `stop` | active endpoints never conflict; one token names one command; newest request wins; nothing after a stop; a point that failed is not tried again on request | `Dispatcher` |
| **Coordinator** `PC/coordinator_node.py` | last objective, objective revision, compute count, last execution outcome | control timer, acknowledgement and failure callbacks, cleanup | each activation uses the newest valid result; active commands keep being refreshed; trouble is transient | `Coordinator`, `MissionSnapshot` |
| **Pose aggregation, safety** `PC/pose_aggregation.py`, `PC/safety.py` | last pose per rover, arrival times | `receive`, `snapshot` | a decision rests on poses that are recent and belong together | `MissionSnapshot` |
| **Target dynamics** `PC/target_dynamics.py` | priority target, epoch, published state | `advance`, `snapshot` | no switch is missed or put off; listeners learn of it | `MissionSnapshot` |
| **Controllers** `PC/controllers/*.py` | warm starts, rounds | `compute` with recovery stages | a result is validated before it is dispatched | – (any result) |
| **Onboard controller** `waverover_controller/.../waypoint_controller.py` | FIFO with tokens, cache of reached tokens, loiter and end-of-trial latches, progress record | waypoint and `end_trial` callbacks, control timer | a refresh is queued once; the head is reached or fails; a failure was earned; an ended trial is silent | `WaypointController` |
| **Link** between the two | four ROS topics | publish, deliver, lose, restart | every command ends; an acknowledged one was reached | `WaypointLink` |
| **Bridge** `ros2waverover/src/source/*.cpp` | mailbox, flush flag, port, failure count, manual timeout | velocity and configuration slots, reopen, timeout timer, destructor | newest velocity written, none overtaken; port configured; a closed port ends the process | `UartBridge` |
| **LiDAR driver** `ldlidar_stl_ros2/` | byte buffer, points of the unfinished turn, scan slot and flag, power-on flag | parse, assemble, store, announce, poll, publish | the stream is found again after damage; a scan is one turn; none is lost or taken for ever | `LidarDriver` |
| **Laser odometry** `rf2o_laser_odometry/` | last scan, reference frame, pose, time of the last estimate | scan callback, `process` | the pose loses the motion of estimates without a result, and no other; a speed is over its own time | `LidarOdometry` |
| **Health monitor, launch** `waverover/waverover/health_monitor.py`, `waverover/launch/robot.launch.py`, `deployment/waverover.service.d/` | ages of the streams, consecutive failures, start limit | checks, shutdown, restart | a lasting loss restarts the stack, a pause does not, and the rover is not abandoned | `HealthMonitor`, `RoverService` |
| **Updater** `deployment/update_and_build.sh` | lock, branch, working tree, install tree | fetch, fast-forward, build, roll back | what is installed was built from the branch; no commit is lost | `Updater`, `RoverService` |
| **Waypoint UI** `waverover_waypoint_ui/` | latest targets, refresh timer | publish, refresh, end trial | – | – |
| **Run supervision** `PC/run_experiment.py`, recording | child processes | start, watch, stop | – | – |
| **Simulators** `PC/synthetic_motion.py`, `PC/synthetic_mcs.py` | simulated rovers | step, publish | – | – |
| Teleoperation, analysis, replay, plots, configuration | – | – | no behaviour over time of interest here | – |

How they interact. The coordinator's timer, acknowledgement and failure callbacks
share one executor thread, so each is atomic; while one of them computes, poses wait
in the subscriptions. It publishes the active command to `waypoints`, and again on
every refresh; the rover answers on `waypoint_reached` or `waypoint_failed` with the
exact token, frame and point. All are reliable KEEP_LAST topics with no order between
them. `end_trial` ends the trial on the rover. The onboard controller publishes
`cmd_vel`; the bridge receives it on a ROS executor thread and posts it to the Qt
thread that owns the port. The LiDAR driver's receiving thread hands scans to its main
thread under two mutexes; the odometry gets them through a best-effort topic of depth
one. The health monitor watches `cmd_vel`, the IMU stream and the navigation state; its
exit shuts the launch down, and systemd runs the updater and starts again.

What is hard here: callbacks that activate commands between two cycles; a stored
outcome or memo that is stale when used; poses dated when their callback runs; lost,
delayed and repeated commands and notices over unordered topics; a bounded cache that
stands between a delayed refresh and a rover driving back; restarts on either side; two
threads and a mailbox in the bridge; a failing port and everything meant to happen only
once after it; a byte stream cut anywhere and a scan guarded by two mutexes; a script
that may be killed between any two of its commands; a watchdog whose restarts count
towards a limit. The list with lines is `hazards` in `PROJECT.json`.

## 2. The modules

A definition whose comment begins with `Slip` is a plausible mistake in the definition
that follows it; it is used only to show that a property notices it.

### Dispatcher
One action per public operation of `WaypointDispatcher`. `ActivatePending` is the
shared tail of all of them (`_activate_pending` with `_publish_pending`): it
takes the slots an operation has already updated, so every action is a whole
handler. `UpdateAndTick` is `update_pending` with the `tick` the coordinator
always calls after it.

Abstractions: points are a finite set; the comparisons of distances are the
relations `TooClose`, `Repeated` and `Deadband`. `Repairs` is the contract of
`repair_outgoing_endpoints`: any point map for the batch that is separated from
itself and the fixed endpoints, or none; the unrepaired proposal is kept when it is
separated already. A token is its position in the order of `_last_token_ns`.
`newest` is a history variable.

### Coordinator
The control cycle is split by the outcome of the cycle: no snapshot
(`PoseUnavailableCycle`), a dispatchable result (`ComputeAndDispatch`), a fault
latched (`ComputeWhileFaulted`), a controller error, a safe hold, and reuse of the
stored outcome (`ReuseResult`). `MustCompute`, `RevisionNow` and `CommandRevision`
are the recomputation schedule. It instantiates Dispatcher (`D`), and the
property `ImplementsDispatcher == D!Spec` is the refinement: the coordinator
drives the dispatcher by its operations only.

### MissionSnapshot
The same cycle in time: what it decides from. `Pass` is time going by (a computation
lasts at most `LongestCompute`), `Round` and `TakePose` are a round of the executor,
which runs the timer if due and then takes one message from each subscription that had
any. A pose is the time it was sent and the time its callback ran: the code knows only
the latter. `Usable` is `PoseAggregator.snapshot` (complete, fresh, within the skew),
`Advance` the target switches, `Over` the end of the observation.

### WaypointController
The callbacks, and the control step split by what it finds: an ended trial, an
empty FIFO, no pose, or a pose, in which case the distance to the head is an input
(`StepReached`, `StepRecovering`, `StepFailed`, `StepNavigating`). `Verdict` and
`Updated` are `WaypointProgress.update`. Distances are multiples of
`minimum_progress_m`; `TimePasses` raises the two clock conditions.

### WaypointLink
One Dispatcher and one WaypointController, composed by INSTANCE, with four topics
as sequences. `Pushed` is KEEP_LAST: a full topic loses its oldest message.
`LoseWaypoint`, `LoseNotice` and `RestartRover` are the faults, bounded by
`MaxFaults`. `acknowledged` and `abandoned` are history. The module assumes of its
constants what its two parts assume of theirs.

### CommandLife
The abstract specification of the link: what becomes of a command, without points,
topics, refreshes or caches. The coordinator issues commands (`Issue`), one at a time under
way, and ends one as reached only after an arrival, as failed only after a failure. The
rover accepts a command only if it is newer than all it has, has been at or that was
acknowledged, and only if it is under way or given up (until the trial is stopped);
it drives to the oldest, and drops what it has only after a stop. Reports may be lost, or
come too late. `WaypointLink` implements it under the mapping in its `L`
(`ImplementsCommandLife`), as long as the onboard process lives.

### UartBridge
The ROS executor thread issues velocities; the Qt thread takes queued slot calls
in order (`events`), while the zero timer of the mailbox flush may fire at any
point between them. `WriteNow` is the set of results `writeNow` may have: whether
the bytes went out, the port, the failure count, whether the process was told to
exit, and whether the port was reopened. `TerminationSignal` and `Kill` are
external: `rclcpp::init` installs the signal handlers, and nothing in `main.cpp`
connects them to the Qt event loop. `controlMode` is read once at start, so a run
chooses it in `Init`. `configured` is the history of configuration commands
tried since the port was opened: the code never looks at their outcome.

### LidarDriver, LidarOdometry, LidarPipeline
`LidarDriver`: the line delivers, loses or changes bytes; a byte matters only where
`AnalysisOne` looks at it. The receiving thread parses a read of any length, then
assembles turns (`AssemblePacket`) and hands each over in two critical sections
(`StoreScan`, then the announcement); the main thread waits for the first packet, then
polls, resets the flag and copies in two sections of its own. Time and angle are a
count of points. `LidarOdometry`: the callback (the first scan only initialises, if the
laser's pose is known) and `Process`, which swaps the reference frame whatever becomes of
the estimate, as `CLaserOdometry2D` does. An estimate is found; or skipped, when every
level has too few valid ranges, and then pose and time go on with the identity; or
unfound, when the filter of a level fails, and then both stay. `new_scan_available` is
not initialised by the code, so it starts with either value. `LidarPipeline` joins the
two processes by the topic: a scan arrives, replaces one not yet looked at, or is lost.
Scans are stamped with the system's clock, which moves by one of `Ticks` between two
messages and may be set back.

### Updater, HealthMonitor, RoverService
`Updater`: each command of the script that changes the clone, the install tree or its
exit is a step of a run (`at`); `Kill` may come between any two, and the lock dies with
the run. A commit is a value with its ancestors; the remote branch is any commit at
each fetch. `HealthMonitor`: `Second` is a check of `WatchdogState` with the ages of
the two streams the default stack requires. An age counts the checks since the one that
first counted the message. The message came some time before that check, so its age
exceeds a threshold of n seconds at the n-th check after it (`TooOld`). Thresholds are
whole numbers, as in the repository's configuration, and the timer does not jitter. `RoverService` composes both as systemd
does: start, updater (started first, and the stack starts whatever it says), launch,
shutdown on a critical exit, restart after `RestartSec`, start limit.

### MC modules
`MC*.tla` give small values to the constants; `*Proofs.tla` hold the theorems of the
module they extend (`LidarProofs` and `RoverProofs` those of `LidarPipeline` and
`RoverService`, with the parts these are made of).

## 3. The runs

Passing runs (distinct states in parentheses).

| Run | Shows | Instance |
|---|---|---|
| `dispatcher` | separation, distinct tokens, sound memo, newest request, revisions, a failed point not tried again on request, silence after stop | with and without supersession; 2 rovers, 3 points, the middle one in conflict with both ends; 4 tokens and a superseded cache of 1, so that eviction happens (25206) |
| `coordinator` | refinement of Dispatcher, newest result, refreshes and waiting requests go on | all three schedules, 2 objectives, 2 reactive computations, 1 trouble, under fairness (31879) |
| `mission_snapshot` | age of poses and their spread, target on time, result fits the target, published target current | 2 rovers, 3 targets, timeout 4, queues of 2, computations of up to 2, control period 2, 14 units of time (3357095) |
| `controller_bounded` | single queueing, earned failures, the head is resolved | fixed wing, whose steering must turn first; 4 tokens, cache of 2, distances 0..3, under fairness (22767) |
| `link_delivery` | refinement of CommandLife, no requeueing, only abandoned commands linger | supersession, 3 tokens, depth 2, one lost message; the points are interchangeable (392396) |
| `link_resolved` | every command ends; a stopped trial drains | depth 1, one lost waypoint or onboard restart, under fairness (25020) |
| `bridge_recovery` | configuration after any reopening, no velocity goes back, no lost wakeup, closed port ends the process | all three control modes, writes time out or fail at once, 2 failures or reopenings, under fairness (255114) |
| `lidar_pipeline` | resynchronisation, one turn per scan, hand-over, pose, speed | 7 packets of 4 bytes and 3 points, turns of 4 points, one byte lost or changed, one unknown laser pose, estimates found, skipped or unfound, one scan lost, a clock that may be set back, under fairness (724800) |
| `rover_service` | install and branch, no lost commit, start limit, pauses forgiven, losses noticed | a service run and one by hand, 2 mishaps, a threshold, a grace period and a number of checks of 2, a start limit of 2 in 10 seconds, under fairness (421165) |

Runs that exhibit a disagreement between the code and what the repository says
(each is a finding in `PROJECT.json` with the quotation):

| Run | What happens |
|---|---|
| `dispatcher_repaired` | A request is repaired, reached and requested again. The repeated request is compared unrepaired with the repaired acknowledgement, and goes out again. |
| `coordinator_static_pose_loss` | One cycle without poses stores `pose_unavailable`; the static schedule reuses that outcome for ever and never refreshes again. |
| `bridge_unusable` | A port that opens but accepts no bytes is reopened for ever, since reopening resets the failure count. |

What the models show besides, for which no run is kept because it can be read off the
definitions:

* A rejected batch stops the refreshes of unrelated commands as well once an
  acknowledgement has cleared the activation failure, in the static schedule
  (`ReuseResult`; the comment at `coordinator_node.py:677-678` says it must not).
  For the same reason `PendingNotForgotten` and `RecedingHorizonRefreshes` speak of
  the receding-horizon schedule, which computes in every cycle.
* Recoveries that made progress count towards the failure of a waypoint
  (`Updated`; `README.md:665-666` speaks of three unsuccessful attempts).
* The one zero command after manual silence is lost with a failed write
  (`CheckManualCommandTimeout`, `FlushLatestVelocity`; `ros2waverover/README.md:62`).
* After a termination signal the process is killed in its Qt loop, and the
  destructor's emergency stop is not written (`TerminationSignal`, `Kill`;
  `ros2waverover/README.md:34`).
* A configuration write that fails is dropped, and the IMU stream stays
  unconfigured until the next reopening (`EnqueueOrdered`).
* The age limit of a pose is one of receipts: `PosesAreRecent` and `PosesBelongTogether`
  hold only with the longest wait in a queue added (`README.md:515` does not mention it).
* An updater killed while it builds leaves a stale or mixed install under a new branch,
  and the next run finds the branch current and does not build. `InstallIsBranch` is
  therefore stated up to such a run, until the next build that succeeds.
* A safe navigation state excuses the silence of a controller that hung while it waited:
  `LossIsNoticed` is stated for one that was driving.
* A request that the repair had moved is not recognised after a failure: the failed point
  is the moved one (`waypoint_dispatcher.py:367`), the comparison is with the request
  (281). The next identical result goes out again under a new token in the same epoch. No
  document promises otherwise; `OnlyRepairRetriesFailure` says what is left, that
  a request for the failed point itself is not tried again.
* An estimate of the laser odometry whose levels all have too few valid ranges
  (`CLaserOdometry2D.cpp:261-275`) counts as no motion over the time it took: the motion is
  lost and the pose does not show it. One whose filter fails keeps pose and time: its
  motion is lost too, and the next speed is its own motion over a time that includes it.
* `new_scan_available` (`CLaserOdometry2DNode.h:23`) is not initialised. If it happens to be
  set, the scan that initialises is processed at once, and its speed divides 0 by 0
  (`CLaserOdometry2D.cpp:983`).
* A scan may be published three times: once early on the announcement of the scan before
  it, once for an announcement between reset and copy, once on its own. The driver's
  `DATA_TIME_OUT` is only logged.
* A turn whose points are all near and form one closed ring is emptied by the filter
  (`tofbf.cpp:124-130`) and not handed over; the filters themselves are not modelled.

Why the bounds are enough. Two rovers are needed for a batch, a fixed endpoint and
a conflict; three points on a line give a repair that must move one of two
endpoints. Two objectives (or two revisions) give a stale and a fresh result. In
the link, three tokens give a command, its replacement and the next one, and a
depth of 2 lets a refresh overtake an answer and a full topic drop one. The reached
cache is smaller than the number of tokens, so that eviction happens. Two
recoveries distinguish the last attempt from the others. In the bridge two
distinct velocities and a queue of two let one be in the queue, one in the
mailbox and one on the wheels; the queue bound holds for the commands, and the
two configuration writes come on top of it. In `mission_snapshot` the horizon exceeds
the largest pose age claimed (12) and a queue of 2 lets a pose wait behind another and
be dropped. In `lidar_pipeline` seven packets are five turns, enough for a turn lost, one
taken late and one after them; packets and turns have no common divisor, so the seam
falls at each place in a packet. In `rover_service` two mishaps are a killed run and a
fault after it; with a threshold of 2 one check without a message is forgiven, and two
required failures distinguish a check that fails once from checks that fail in a row. In
`lidar_pipeline` ticks of 1 and -1 are a clock that goes on and one that is set back,
which together also bring a stamp back to an earlier one's value. The proofs remove these bounds for the safety properties.

Symmetry is used in runs of invariants and of action properties: for the two ends of
the line in the dispatcher, the two points of the link, and rovers and targets in
`mission_snapshot`. No definition chooses among them, and no liveness property is
checked with it.

Bounds, by name: `MaxToken` (with `TokenBudget`), `Versions`, `MaxObjectives`,
`SteadySchedules`, `MaxComputes`, `MaxTroubles`, `MaxDistance`, `MaxQueue`, `MaxFaults`,
`MaxCommands`, `MaxEvents`, `Horizon`, `LongestCompute`, `MaxPackets`, `MaxDamage`,
`MaxTfFailures`, `MaxLosses`, `MaxMishaps`. The depths, caches,
limits, periods and clock steps (`Ticks`) are parameters of the code with small values. Where a run says
`CHECK_DEADLOCK FALSE` the system may stop: once computations and tokens are used up
and the trial is over, once the driver has stopped, or once systemd has given up.

### Fairness
`WF_beat` in Coordinator and `WF(Cycle)` in the link: the control timer is periodic, and
the bounded troubles end. `WF(LocatedStep)`, `WF(RoverStep)`: the onboard timer is
periodic and finds a pose again. `WF(TimePasses)`, `WF(RoverClock)`: clocks run.
`WF` on the callbacks: the executor runs what has arrived. `SF(TakeWaypoint)`: a
command refreshed for ever is delivered at last; strong, because each refresh may
push an undelivered one out of a full topic. In the bridge: the Qt event loop and
its zero timer turn, and the onboard controller keeps sending velocities, as its
control step does in every period. In the LiDAR driver: each of the two threads is
scheduled. In RoverService: the monitor's one-second timer goes on (`CheckSecond`) and a
run of the script takes its next step or is killed (`UpdaterRuns`). Nothing is assumed
of links, faults, signals, pushes or the measured distance. `StoppedTrialDrains` and
`CommandIsResolved` hold although the rover may be restarted, but not after a lost
notice: the code does not send one again (see the hazards).

## 4. What is proved

TLAPS proves the following for every value of the constants that satisfies the named
assumptions of the modules: any finite set of rovers, any points and relations (`TooClose`
symmetric), any cache, depth, limit and bound.

**`DispatcherProofs`.** Since every operation ends in `ActivatePending`, the lemmas say
what that operator keeps for arbitrary updated slots, and the theorems show that
the updates before it are harmless.

* `TypeCorrect`: the type invariant, inductive as it stands.
* `SeparationCorrect`: active endpoints never conflict. The batch is separated by
  the contract of the repair, the other slots by the invariant, and the two from
  each other because the repair is given the others as fixed.
* `MemoCorrect`: the invariant alone is not inductive, since it speaks of the
  pending slots as they are. The strengthening `MemoUnsafe` says that every
  signature on record conflicts in itself; a signature holds all endpoints that
  decide the conflict (`SignatureDecides`).
* `NewestActivated`, `RevisionsAdvance`: from `Fresh`, which relates each pending
  request to the history variable, and its revision to that of the active command.
* `TokensDistinct`: from `TokensSound`, which adds that all tokens ever used are at
  most `lastToken`; distinctness inside a batch is `BatchTokensDistinct`.
* `StopIsFinal`: from `Silenced`, that a stopped dispatcher has empty slots.
* `FailureRetriedByRepairOnly`: from `Waits`, that without supersession nothing pending may
  replace an active command, so that a request is filtered before it goes out.

**`CoordinatorProofs`.** The dispatcher's lemmas are used through an instance of
`DispatcherProofs`; the first lemmas show that its operators are those of Coordinator's
own instance. `StepKinds` sorts the steps into those that rest, go on with the requests
there are, or hand a result over.

* `CoordinatorRefines`: each step is one operation of the dispatcher, or none. Needed
  are `RecordTyped`, which keeps the revisions within those the dispatcher's
  specification allows, and the dispatcher's own invariants, by which the token a
  callback answers is one that was issued.
* `CoordinatorSeparates`: what was proved of the dispatcher holds in the coordinator.
* `NewestResultActivated`: from `ResultsFresh`. Every waiting request carries the
  newest result's revision; that a new result reaches every rover, so that none keeps
  an older one, follows because no slot holds a revision beyond the record.

**`MissionSnapshotProofs`.** `RecentPoses` and `TogetherPoses` rest on an account of the
queues: a message i places from the head has `Depth - i` places less to have come, and each
place costs at most one computation, whence `LongestWait == (Depth + 1) * LongestCompute`.
`FittingResult`, `TimelyTarget` and `CurrentTargetState` relate the stored outcome, the
epoch and the published state to the snapshot under computation and the time.

**`WaypointControllerProofs`.** `ControllerTypeCorrect` and `EndedTrialStaysSilent` are
inductive with the types; `FailuresEarned` follows from `AttemptsBounded`, that the
recoveries on record never exceed the maximum; `RefreshedOnce` from the fact that
removing the head and pushing its token into the bounded cache keep both disjoint
(`TailQueue`, `RememberElements`).

**`UartBridgeProofs`.** `NeverBack` from `Rising`: the ids of velocities do not fall from
the wheels to the mailbox, along the queue, and to the last one issued. `PortConfigured`
is inductive with the types: whatever reopens the port appends the call that configures
it (`AfterWriteConfigured`), and a call leaves the queue only by trying its command.

**`WaypointLinkProofs`.** The proofs of the two parts are instantiated, and the first lemmas
show that they speak of the link's own dispatcher and rover. `PCSound` is what the
dispatcher's operations keep when there is one rover (nothing is ever too close, so
nothing is rejected). Every step is then one of `PCStep`, which only ever publishes the
newest command and accounts for each token it clears, or one of `RoverSide`.

* `ControllerImplemented`: what the rover does in the link is a behaviour of
  `WaypointController`, so `RefreshedOnce` and the others hold of it there.
* `DrivenInOrder`: the FIFO holds commands in the order they were issued. Inductive only
  with the topic and the reached cache: what is remembered is not newer than what is
  queued, nor that than what is in transit, nor that than the last token.
* `AcknowledgedStaysOut`, with `Recalled`: whatever was acknowledged, or is being
  reported as reached, is remembered, or a newer command is; what is queued is newer than
  either. The size of the cache does not matter: an entry is only evicted by a newer one.
* `OnlyAbandonedLinger`, from that and `Accounted`: until the trial is stopped, every token
  issued is acknowledged, abandoned or active.
* `LinkImplementsCommandLife`: each step of the link is one step of CommandLife, or none.
  The hard step is `Accept` (`AcceptedIsNew`): that an accepted waypoint is newer
  than every arrival, and under way or given up, takes `InOrder`, `Recalled` and `Accounted`
  together. That an `end_trial` is in transit only after a stop is `EndMeansStopped`.
* `CommandLifeKeepsPromise`: the steps of CommandLife alone imply `Promise`, that is, what
  `AcknowledgedNotRequeued` and `OnlyAbandonedCommandsLinger` say of the link.

All but the first two and the last assume that the onboard process is not restarted
(`"restart" \notin Faults`), as the properties do. TLC finds them violated otherwise: the
rover reaches a command and restarts while its notice is in transit, the next refresh queues
the command again, and then the PC takes the notice.

**`LidarProofs`.** `ParserFindsPackets` (`Resynchronises`): in a packet that is not damaged,
and in a scene that does not look like a header, the parser is in step with the packet,
has an empty buffer, or still holds bytes from before the packet. The latter two, which
damage leaves behind, end with this packet: if the one before it was whole too, the parser
is in step. Without damage it always is. `TurnsAreCutAtSeam` (`ScanIsOneTurn`): along the unfinished turn, the assembled one
and the stored one, positions rise at least as fast as indices (`Spread`), and the last
two hold no seam; so as many points as their positions span lie in one turn. As long as
nothing was damaged the unfinished turn is unbroken up to the packet being received and,
after the first one, begins at a seam, so that it is whole at the next.
`ThriceAtMost` from `Takings <= 3`: takings so far and those still on
their way (an announcement, the flag, a copy that has begun) are never more than three.
`PoseAccounts` from an account of motion between origin, reference and pose, in which the
motion of skipped and unfound estimates is set apart. `SpeedTimed` from the order of the
stamps along the pipeline, which holds as long as the clock was not set back, and from
the time of the pose being the reference's unless the last estimate was unfound.

**`RoverProofs`.** `InstallOfBranch`, `CommitKept` and `BranchBuilt` from `Finds`: what a run
finds at each of its places, that is, where the branch, its files and the install are,
and what the way back needs. Of the watchdog, two theorems keep an account of time. `ForgivesPauses`, if
`StartupGrace >= Threshold`: every failed check was paid for with checks that found a
stream missing, the first one with `Threshold` of them. With the repository's values (2 s and
3 checks) that is 4 such checks in a row, and the fourth may end the stack.
`NeverAbandons`, if `StartBurst` watchdog cycles (delay, grace, checks, `RestartSec`) take
at least `StartInterval`: every counted start was paid for with seconds of the window.
With the values of the repository that is 5 cycles of 15 + 2 + 5 seconds and a start
against 120, so it holds when a start takes two seconds or more, as one with an update
and a launch of the stack does.

The type invariants are proved too, on the way or as theorems of their own
(`TypeCorrect`, `ControllerTypeCorrect`); no run needs to check them.

Assumptions: the named ones of the modules; the contract of the repair (`Repairs`) and,
for the pose, an estimator that is right, is skipped or finds nothing. They are part of what is
claimed about the code.

Only model-checked: the liveness properties `RecedingHorizonRefreshes`,
`PendingNotForgotten`, `HeadIsResolved`, `CommandIsResolved`, `StoppedTrialDrains`,
`NewestVelocityIsWritten`, `ClosedPortEndsBridge`, `StoredScanIsTaken` and `LossIsNoticed`.
Liveness under fairness is out of the prover's reach, as are ENABLED, induction over data
and RECURSIVE operators; no module declares one.

## 5. What is not modelled

* Numeric code: the controllers, the search of the repair, pursuit geometry, wheel
  mixing, the estimator of `CLaserOdometry2D.cpp`, the filters of the LiDAR driver. Each
  enters by its outcome: any setpoints, a repair or none, any distance, an estimate,
  a skipped one or none. The rounds of the decentralized heuristic run inside one computation.
* Parsing and validation of malformed messages, telemetry, recording, `dry_run`, IMU lines,
  logging, the network sockets of the LiDAR driver (the launch files use the serial port).
* `json.hpp` is a third-party header. It has 24766 of the repository's 30365 lines of C and
  C++, and the program uses it to read a handful of fields; most of the
  program's own logic is in Python and shell. The share of the C++ lines that the
  map covers says little for that reason.
* Waypoint UI: `WaypointController` admits tokens and `end_trial` from any sender, so what
  is said of it holds with the UI too. The properties of the link are stated for the
  coordinator alone; nothing in the code arbitrates between two senders, and every
  refresh of the UI has a token of its own.
* Run supervision, simulators, teleoperation, analysis and configuration: no behaviour
  over time that takes part in a deployed system. `install.sh` is run once by hand.
* A `git status` that itself fails (`update_and_build.sh:78` takes its empty output as a clean
  tree): it needs a damaged index, which is none of the faults modelled.
* A restart of the PC process. Tokens come from its clock, so that a new process must
  only find the clock ahead of the last token.
* `OpenPortGetsConfigured` speaks of configuration commands tried, not of commands the
  device received. Every reopening of a failed link posts two more writes, each of which
  may time out and reopen it again; `MaxTroubles` bounds this, since the queue of the
  code has no bound of its own.

The documentation of the coordinator lists conditions that stop a trial; in the
code `_stop_trial` is called from the cleanup only, and that is what `Shutdown`
models.

## 6. Plan

Done: all modules of section 2 and the proofs of section 4. What would come next:

1. MissionSnapshot in place of the coordinator's free choice of a usable snapshot.
2. The UI as a second sender in WaypointLink.
3. A restart of the onboard process in CommandLife: what is still true of a command then.
