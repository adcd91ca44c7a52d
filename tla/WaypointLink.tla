---------------------------- MODULE WaypointLink ----------------------------
(***************************************************************************)
(* One rover end to end: the PC dispatcher (Dispatcher, with one robot),   *)
(* the onboard controller (WaypointController) and the ROS topics between  *)
(* them.  `waypoints`, `waypoint_reached` and `waypoint_failed` are        *)
(* reliable KEEP_LAST topics: each delivers in order, and drops its oldest *)
(* message when full; there is no order between topics.  The end_trial     *)
(* topic has depth 1.  A refresh publishes the active command again.       *)
(***************************************************************************)
EXTENDS Naturals, Sequences

CONSTANTS
  Rover, Points, NoPoint, Same, Supersedes, CacheSize, Versions, MaxToken,
  ReachedCacheSize, MaximumRecoveryAttempts, MaxDistance, NoProgress, NoNotice,
  Depth,        \* queue depth of the three reliable topics
  Faults,       \* the faults that may strike: "waypoint" and "notice" lose a
                \* message in transit, "restart" restarts the onboard process
  MaxFaults     \* bound on their number

ASSUME LinkAssumption ==
  /\ Supersedes \in BOOLEAN
  /\ Faults \subseteq {"waypoint", "notice", "restart"}
  /\ {Depth, MaxFaults} \subseteq Nat

\* What the dispatcher assumes of the same constants.
ASSUME DispatcherAssumption ==
  /\ Rover \in Nat
  /\ NoPoint \notin Points
  /\ {CacheSize, MaxToken} \subseteq Nat
  /\ Versions \subseteq [epoch : Nat, rev : Nat \X Nat]

VARIABLES
  active, pending, lastAck, lastFail, superseded, lastToken, failedBatch,
  faulted, commanded, newest,                          \* the dispatcher
  queue, reachedOrder, receivedAny, loitering, trialEnded, progress, command,
  notice,                                              \* the rover
  waypoints, reached, failed,   \* messages in transit, oldest first
  endTrial,                     \* an end_trial message is in transit
  acknowledged, abandoned,      \* history: tokens the PC cleared as reached,
                                \* and as failed or superseded
  faults                        \* bound counter

dispatcher == <<active, pending, lastAck, lastFail, superseded, lastToken,
                failedBatch, faulted, commanded, newest>>
rover == <<queue, reachedOrder, receivedAny, loitering, trialEnded, progress,
           command, notice>>
history == <<acknowledged, abandoned>>
vars == <<dispatcher, rover, waypoints, reached, failed, endTrial, history, faults>>

D == INSTANCE Dispatcher WITH
       Robots <- {Rover}, reactive <- Supersedes, TooClose <- {}, Repeated <- Same, Deadband <- Same

C == INSTANCE WaypointController WITH
       Tokens <- 1..MaxToken, FixedWing <- FALSE, MaxQueue <- MaxToken

\* And what the onboard controller assumes.
ASSUME ControllerAssumption ==
  /\ {ReachedCacheSize, MaximumRecoveryAttempts} \subseteq Nat \ {0}
  /\ MaxDistance \in Nat
  /\ NoProgress \notin C!Progress /\ NoNotice \notin C!Notice

TokensIn(topic) == {topic[i].token : i \in 1..Len(topic)}

\* The life of the rover's commands, apart from points, topics and caches.
L == INSTANCE CommandLife WITH
       issued <- lastToken, current <- active[Rover].token, stopped <- faulted,
       fifo <- TokensIn(queue), arrived <- TokensIn(reached), givenUp <- TokensIn(failed)

Init ==
  /\ D!Init
  /\ C!Init
  /\ waypoints = <<>>
  /\ reached = <<>>
  /\ failed = <<>>
  /\ endTrial = FALSE
  /\ acknowledged = {}
  /\ abandoned = {}
  /\ faults = 0

-----------------------------------------------------------------------------
\* KEEP_LAST publication of one message.
Pushed(topic, message) ==
  LET all == Append(topic, message)
  IN  IF Len(all) > Depth THEN Tail(all) ELSE all

Message(slot) == [token |-> slot.token, point |-> slot.point]

\* What _publish_dispatch_action sends after a dispatcher operation: a command
\* just activated, or the unchanged active command when its refresh is due.
Publications(refresh) ==
  waypoints' = IF D!Activated(Rover) THEN Pushed(waypoints, Message(active'[Rover]))
               ELSE IF refresh THEN Pushed(waypoints, Message(active[Rover]))
               ELSE waypoints

\* A cycle of the coordinator: with a new controller result, or a plain tick.
PlanCycle(point, version, near) ==
  /\ D!UpdateAndTick([r \in {Rover} |-> point], version.epoch, version.rev, near)
  /\ Publications(FALSE)
  /\ abandoned' = IF D!Activated(Rover) /\ active[Rover].token # D!NoToken
                  THEN abandoned \cup {active[Rover].token} ELSE abandoned
  /\ UNCHANGED <<rover, reached, failed, endTrial, acknowledged, faults>>

TickCycle(near) ==
  /\ D!Tick(near)
  /\ Publications(Rover \in D!Refreshable(pending))
  /\ UNCHANGED <<rover, reached, failed, endTrial, history, faults>>

\* The PC takes the next notification; one that does not match is dropped.
TakeReached(measured) ==
  /\ reached # <<>>
  /\ reached' = Tail(reached)
  /\ LET message == Head(reached) IN
       IF D!Matches(Rover, message.token, message.point)
       THEN /\ D!Acknowledge(Rover, message.token, message.point, measured)
            /\ Publications(FALSE)
            /\ acknowledged' = acknowledged \cup {active[Rover].token}
       ELSE UNCHANGED <<dispatcher, waypoints, acknowledged>>
  /\ UNCHANGED <<rover, failed, endTrial, abandoned, faults>>

TakeFailed ==
  /\ failed # <<>>
  /\ failed' = Tail(failed)
  /\ LET message == Head(failed) IN
       IF D!Matches(Rover, message.token, message.point)
       THEN /\ D!Fail(Rover, message.token, message.point)
            /\ abandoned' = abandoned \cup {active[Rover].token}
       ELSE UNCHANGED <<dispatcher, abandoned>>
  /\ UNCHANGED <<rover, waypoints, reached, endTrial, acknowledged, faults>>

\* Coordinator shutdown: one Empty to every rover this process commanded.
Shutdown ==
  /\ ~faulted
  /\ D!StopTrial
  /\ endTrial' = (endTrial \/ Rover \in commanded)
  /\ UNCHANGED <<rover, waypoints, reached, failed, history, faults>>

-----------------------------------------------------------------------------
TakeWaypoint ==
  /\ waypoints # <<>>
  /\ waypoints' = Tail(waypoints)
  /\ C!WaypointCallback(Head(waypoints).token, Head(waypoints).point)
  /\ UNCHANGED <<dispatcher, reached, failed, endTrial, history, faults>>

TakeEndTrial ==
  /\ endTrial
  /\ endTrial' = FALSE
  /\ C!EndTrialCallback
  /\ UNCHANGED <<dispatcher, waypoints, reached, failed, history, faults>>

\* A control step that finds a pose: what it resolves it also publishes.
RoverStep ==
  /\ C!LocatedStep
  /\ LET told == notice' # NoNotice
         message == [token |-> notice'.token, point |-> notice'.point]
     IN  /\ reached' = IF told /\ notice'.kind = "reached"
                       THEN Pushed(reached, message) ELSE reached
         /\ failed' = IF told /\ notice'.kind = "failed"
                      THEN Pushed(failed, message) ELSE failed
  /\ UNCHANGED <<dispatcher, waypoints, endTrial, history, faults>>

\* Steps that resolve nothing.
RoverIdleStep ==
  /\ C!StepTrialEnded \/ C!StepEmptyQueue(TRUE) \/ C!StepWithoutPose
  /\ UNCHANGED <<dispatcher, waypoints, reached, failed, endTrial, history, faults>>

RoverClock ==
  /\ C!TimePasses
  /\ UNCHANGED <<dispatcher, waypoints, reached, failed, endTrial, history, faults>>

-----------------------------------------------------------------------------
Strike(fault) ==
  /\ fault \in Faults
  /\ faults < MaxFaults                                       \* bound
  /\ faults' = faults + 1

LoseWaypoint ==
  /\ Strike("waypoint")
  /\ waypoints # <<>>
  /\ waypoints' = Tail(waypoints)
  /\ UNCHANGED <<dispatcher, rover, reached, failed, endTrial, history>>

LoseNotice ==
  /\ Strike("notice")
  /\ \/ reached # <<>> /\ reached' = Tail(reached) /\ UNCHANGED failed
     \/ failed # <<>> /\ failed' = Tail(failed) /\ UNCHANGED reached
  /\ UNCHANGED <<dispatcher, rover, waypoints, endTrial, history>>

\* The subscriptions of the old process, and what they held, are gone.
RestartRover ==
  /\ Strike("restart")
  /\ C!Restart
  /\ waypoints' = <<>>
  /\ endTrial' = FALSE
  /\ UNCHANGED <<dispatcher, reached, failed, history>>

-----------------------------------------------------------------------------
Cycle == \E near \in SUBSET D!Reached : TickCycle(near)
Plan ==
  /\ lastToken < MaxToken                                    \* bound
  /\ \E near \in SUBSET D!Reached, point \in Points, version \in Versions :
       PlanCycle(point, version, near)
Acknowledgement == \E measured \in {"unknown", "near", "away"} : TakeReached(measured)

Next ==
  \/ Cycle \/ Plan \/ Acknowledgement \/ TakeFailed \/ Shutdown
  \/ TakeWaypoint \/ TakeEndTrial \/ RoverStep \/ RoverIdleStep \/ RoverClock
  \/ LoseWaypoint \/ LoseNotice \/ RestartRover

Spec == Init /\ [][Next]_vars

\* Both timers fire for ever, topics deliver, the rover finds its pose again.
FairSpec ==
  /\ Spec
  /\ WF_vars(Cycle)
  /\ WF_vars(Acknowledgement)
  /\ WF_vars(TakeFailed)
  /\ SF_vars(TakeWaypoint)
  /\ WF_vars(TakeEndTrial)
  /\ WF_vars(RoverStep)
  /\ WF_vars(RoverClock)

-----------------------------------------------------------------------------
\* Swarm README: the reached-token cache keeps a delayed refresh from requeueing
\* an acknowledged command (while the onboard process lives).
AcknowledgedNotRequeued == acknowledged \cap C!QueuedTokens = {}

\* Only a command that failed or was superseded can stand in the FIFO beside the
\* active one: the rover never drives to anything else while the PC waits.
OnlyAbandonedCommandsLinger ==
  active[Rover].point # NoPoint =>
    C!QueuedTokens \subseteq {active[Rover].token} \cup abandoned

\* Whatever the topics lose, delay or repeat, the coordinator and the rover keep
\* what CommandLife promises (while the onboard process lives).
ImplementsCommandLife == L!Spec

\* Every command is resolved: reached, failed, replaced or stopped, although
\* waypoints may be lost and the rover restarted while it is under way.
CommandIsResolved ==
  \A t \in 1..MaxToken : (active[Rover].token = t) ~> (active[Rover].token # t)

\* After the coordinator has stopped, the rover ends up with an empty FIFO for
\* good, also when a late waypoint overtakes end_trial and starts a new trial.
StoppedTrialDrains == faulted ~> [](queue = <<>>)
=============================================================================
