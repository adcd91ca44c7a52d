------------------------- MODULE WaypointController -------------------------
(***************************************************************************)
(* The onboard waypoint controller (waypoint_controller.py): a FIFO of     *)
(* token-stamped waypoints, a bounded cache of reached tokens, the latched *)
(* end of trial, and a control loop with bounded straight-escape recovery. *)
(* Callbacks and the control timer share one executor thread.              *)
(*                                                                         *)
(* Distances are whole multiples of minimum_progress_m; 0 is within        *)
(* goal_tolerance_m.  The measured distance is an input of every step, and *)
(* clocks are two flags that time raises: `stalled` (progress_timeout_sec  *)
(* since the last improvement) and `escaped` (recovery_straight_duration).  *)
(* The direction of a turn, bank or loiter is left out, as is telemetry.   *)
(***************************************************************************)
EXTENDS Naturals, Sequences

CONSTANTS
  Tokens,               \* stamps of the waypoint messages
  Points,               \* their coordinates
  FixedWing,            \* control_mode = fixed_wing
  ReachedCacheSize,     \* maxlen of _reached_token_order
  MaximumRecoveryAttempts,
  MaxDistance,          \* bound on the distance to a waypoint
  MaxQueue,             \* bound on the FIFO (the code's deque has none)
  NoProgress, NoNotice  \* Python's None; no message published in this step

ASSUME ControllerAssumption ==
  /\ FixedWing \in BOOLEAN
  /\ {ReachedCacheSize, MaximumRecoveryAttempts} \subseteq Nat \ {0}
  /\ {MaxDistance, MaxQueue} \subseteq Nat

Waypoint == [token : Tokens, point : Points]
Distance == 0..MaxDistance
Progress == [token : Tokens, reference : Distance, state : {"normal", "straight_escape"},
             attempts : Nat, stalled : BOOLEAN, escaped : BOOLEAN]
Notice == [kind : {"reached", "failed"}, token : Tokens, point : Points]

ASSUME AbsenceAssumption == NoProgress \notin Progress /\ NoNotice \notin Notice

VARIABLES
  queue,          \* waypoint_queue and waypoint_tokens, kept in step
  reachedOrder,   \* _reached_token_order (and the set _reached_tokens)
  receivedAny,    \* received_any_waypoint
  loitering,
  trialEnded,     \* trial_ended
  progress,       \* _waypoint_progress
  command,        \* the last cmd_vel published
  notice          \* the waypoint_reached or waypoint_failed just published

vars == <<queue, reachedOrder, receivedAny, loitering, trialEnded, progress,
          command, notice>>

Commands == {"none", "stop", "forward", "turn", "loiter"}
Moving == {"forward", "turn", "loiter"}

QueuedTokens == {queue[i].token : i \in DOMAIN queue}
ReachedTokens == {reachedOrder[i] : i \in DOMAIN reachedOrder}

Init ==
  /\ queue = <<>>
  /\ reachedOrder = <<>>
  /\ receivedAny = FALSE
  /\ loitering = FALSE
  /\ trialEnded = FALSE
  /\ progress = NoProgress
  /\ command = "none"
  /\ notice = NoNotice

-----------------------------------------------------------------------------
\* Slips: the FIFO, or the reached cache, is not searched for the token.
SuppressedUnlessQueued(token, point) ==
  token \in ReachedTokens \/ (queue # <<>> /\ queue[Len(queue)].point = point)
SuppressedUnlessReached(token, point) ==
  token \in QueuedTokens \/ (queue # <<>> /\ queue[Len(queue)].point = point)

\* What _waypoint_callback suppresses: a refresh of a reached or queued token,
\* and a coordinate copy of the last waypoint of the FIFO.
SuppressedWaypoint(token, point) ==
  \/ token \in ReachedTokens
  \/ token \in QueuedTokens
  \/ queue # <<>> /\ queue[Len(queue)].point = point

AcceptWaypoint(token, point) ==
  /\ Len(queue) < MaxQueue                                    \* bound
  /\ ~SuppressedWaypoint(token, point)
  /\ queue' = Append(queue, [token |-> token, point |-> point])
  /\ receivedAny' = TRUE
  /\ loitering' = FALSE
  /\ trialEnded' = FALSE
  /\ notice' = NoNotice
  /\ UNCHANGED <<reachedOrder, progress, command>>

SuppressWaypoint(token, point) ==
  /\ SuppressedWaypoint(token, point)
  /\ notice' = NoNotice
  /\ UNCHANGED <<queue, reachedOrder, receivedAny, loitering, trialEnded,
                 progress, command>>

WaypointCallback(token, point) ==
  AcceptWaypoint(token, point) \/ SuppressWaypoint(token, point)

\* Slip: the end of a trial leaves the FIFO alone.
EndTrialKeepingQueue ==
  /\ loitering' = FALSE
  /\ progress' = NoProgress
  /\ trialEnded' = TRUE
  /\ command' = "stop"
  /\ notice' = NoNotice
  /\ UNCHANGED <<queue, reachedOrder, receivedAny>>

EndTrialCallback ==
  /\ queue' = <<>>
  /\ loitering' = FALSE
  /\ progress' = NoProgress
  /\ trialEnded' = TRUE
  /\ command' = "stop"
  /\ notice' = NoNotice
  /\ UNCHANGED <<reachedOrder, receivedAny>>

-----------------------------------------------------------------------------
\* A step that only publishes a velocity command.
Publish(velocity) ==
  /\ command' = velocity
  /\ notice' = NoNotice
  /\ UNCHANGED <<queue, reachedOrder, receivedAny, loitering, trialEnded,
                 progress>>

StepTrialEnded == trialEnded /\ Publish("stop")

\* _control_empty_queue; `located` says whether a pose is available.
StepEmptyQueue(located) ==
  /\ ~trialEnded
  /\ queue = <<>>
  /\ IF receivedAny /\ FixedWing /\ located
     THEN /\ loitering' = TRUE
          /\ command' = "loiter"
          /\ notice' = NoNotice
          /\ UNCHANGED <<queue, reachedOrder, receivedAny, trialEnded,
                         progress>>
     ELSE Publish("stop")

Pursuing == ~trialEnded /\ queue # <<>>

StepWithoutPose == Pursuing /\ Publish("stop")

\* The progress record of the active token when its distance is d.
ProgressAt(d) ==
  IF progress # NoProgress /\ progress.token = Head(queue).token
  THEN progress
  ELSE [token |-> Head(queue).token, reference |-> d, state |-> "normal",
        attempts |-> 0, stalled |-> FALSE, escaped |-> FALSE]

\* Slip: one recovery too few.
VerdictOneShort(p, d) ==
  CASE d < p.reference -> "improved"
    [] d >= p.reference /\ p.state = "straight_escape" ->
         IF p.escaped THEN "resume_navigation" ELSE "straight_escape"
    [] d >= p.reference /\ p.state = "normal" ->
         IF ~p.stalled THEN "normal"
         ELSE IF p.attempts + 1 >= MaximumRecoveryAttempts THEN "failed"
         ELSE "start_recovery"

\* Slip: the escape lasts until the distance improves.
VerdictWithoutEscapeEnd(p, d) ==
  CASE d < p.reference -> "improved"
    [] d >= p.reference /\ p.state = "straight_escape" -> "straight_escape"
    [] d >= p.reference /\ p.state = "normal" ->
         IF ~p.stalled THEN "normal"
         ELSE IF p.attempts >= MaximumRecoveryAttempts THEN "failed"
         ELSE "start_recovery"

\* WaypointProgress.update: what it answers, and the record it leaves.
Verdict(p, d) ==
  CASE d < p.reference -> "improved"
    [] d >= p.reference /\ p.state = "straight_escape" ->
         IF p.escaped THEN "resume_navigation" ELSE "straight_escape"
    [] d >= p.reference /\ p.state = "normal" ->
         IF ~p.stalled THEN "normal"
         ELSE IF p.attempts >= MaximumRecoveryAttempts THEN "failed"
         ELSE "start_recovery"

Updated(p, d) ==
  CASE Verdict(p, d) = "improved" ->
         [p EXCEPT !.reference = d, !.state = "normal", !.stalled = FALSE,
                   !.escaped = FALSE]
    [] Verdict(p, d) = "resume_navigation" ->
         [p EXCEPT !.state = "normal", !.escaped = FALSE]
    [] Verdict(p, d) = "start_recovery" ->
         [p EXCEPT !.state = "straight_escape", !.escaped = FALSE,
                   !.attempts = @ + 1]
    [] OTHER -> p

\* The head of the FIFO is dropped and reported.
Resolve(kind) ==
  /\ queue' = Tail(queue)
  /\ notice' = [kind |-> kind, token |-> Head(queue).token, point |-> Head(queue).point]
  /\ progress' = NoProgress

Remember(token) ==
  IF token \in ReachedTokens THEN reachedOrder
  ELSE IF Len(reachedOrder) = ReachedCacheSize THEN Append(Tail(reachedOrder), token)
  ELSE Append(reachedOrder, token)

StepReached ==
  /\ Pursuing
  /\ Resolve("reached")
  /\ reachedOrder' = Remember(Head(queue).token)
  /\ LET enterLoiter == FixedWing /\ Len(queue) = 1 IN
       /\ loitering' = (loitering \/ enterLoiter)
       /\ command' = IF enterLoiter THEN "loiter"
                     ELSE IF FixedWing THEN "forward" ELSE "stop"
  /\ UNCHANGED <<receivedAny, trialEnded>>

StepRecovering(d) ==
  /\ Pursuing
  /\ Verdict(ProgressAt(d), d) \in {"start_recovery", "straight_escape"}
  /\ progress' = Updated(ProgressAt(d), d)
  /\ command' = "forward"
  /\ notice' = NoNotice
  /\ UNCHANGED <<queue, reachedOrder, receivedAny, loitering, trialEnded>>

StepFailed(d) ==
  /\ Pursuing
  /\ Verdict(ProgressAt(d), d) = "failed"
  /\ Resolve("failed")
  /\ command' = "stop"
  /\ UNCHANGED <<reachedOrder, receivedAny, loitering, trialEnded>>

StepNavigating(d) ==
  /\ Pursuing
  /\ Verdict(ProgressAt(d), d) \in {"improved", "resume_navigation", "normal"}
  /\ progress' = Updated(ProgressAt(d), d)
  /\ command' \in {"forward", "turn"}
  /\ notice' = NoNotice
  /\ UNCHANGED <<queue, reachedOrder, receivedAny, loitering, trialEnded>>

\* A control step that measures distance d to the head of the FIFO.
StepWithPose(d) ==
  \/ d = 0 /\ StepReached
  \/ d > 0 /\ (StepRecovering(d) \/ StepFailed(d) \/ StepNavigating(d))

\* Time passes, also while the pose is unavailable and no step looks.
TimePasses ==
  /\ progress # NoProgress
  /\ \/ ~progress.stalled /\ progress' = [progress EXCEPT !.stalled = TRUE]
     \/ /\ progress.state = "straight_escape" /\ ~progress.escaped
        /\ progress' = [progress EXCEPT !.escaped = TRUE]
  /\ notice' = NoNotice
  /\ UNCHANGED <<queue, reachedOrder, receivedAny, loitering, trialEnded,
                 command>>

\* The process is restarted; nothing is persisted.
Restart ==
  /\ queue' = <<>>
  /\ reachedOrder' = <<>>
  /\ receivedAny' = FALSE
  /\ loitering' = FALSE
  /\ trialEnded' = FALSE
  /\ progress' = NoProgress
  /\ command' = "none"
  /\ notice' = NoNotice

LocatedStep == \E d \in Distance : StepWithPose(d)

Next ==
  \/ \E token \in Tokens, point \in Points : WaypointCallback(token, point)
  \/ EndTrialCallback
  \/ StepTrialEnded
  \/ \E located \in BOOLEAN : StepEmptyQueue(located)
  \/ StepWithoutPose
  \/ LocatedStep
  \/ TimePasses
  \/ Restart

Spec == Init /\ [][Next]_vars

\* The control timer finds a pose again and again, and clocks run.
FairSpec == Spec /\ WF_vars(LocatedStep) /\ WF_vars(TimePasses)

-----------------------------------------------------------------------------
TypeOK ==
  /\ queue \in Seq(Waypoint)
  /\ reachedOrder \in Seq(Tokens)
  /\ receivedAny \in BOOLEAN /\ loitering \in BOOLEAN /\ trialEnded \in BOOLEAN
  /\ progress \in Progress \cup {NoProgress}
  /\ command \in Commands
  /\ notice \in Notice \cup {NoNotice}

\* A refreshed command is queued once: tokens in the FIFO are distinct and none
\* is remembered as reached, whatever refreshes, failures and ends of trial came
\* in between (_waypoint_callback against the control step).
QueuedOnce ==
  /\ \A i, j \in 1..Len(queue) : queue[i].token = queue[j].token => i = j
  /\ \A i \in 1..Len(queue), k \in 1..Len(reachedOrder) :
       queue[i].token # reachedOrder[k]

\* An ended trial is silent: no waypoint, loiter or progress survives it, and no
\* control step moves the rover before a new waypoint is accepted.
EndedTrialIsSilent ==
  trialEnded => /\ queue = <<>>
                /\ ~loitering
                /\ progress = NoProgress
                /\ command = "stop"

\* A failure is earned by the token it reports: every attempt allowed was spent
\* on that very token and its progress has timed out, so a stall of an earlier
\* waypoint, or a restart or end of trial, never fails the next one.
FailuresAreEarned ==
  [][(notice' # NoNotice /\ notice'.kind = "failed") =>
       /\ progress # NoProgress
       /\ progress.token = notice'.token
       /\ progress.stalled
       /\ progress.attempts = MaximumRecoveryAttempts]_vars

\* A waypoint never stays at the head of the FIFO for ever: it is reached, or
\* fails after its bounded recoveries, or is cleared.
HeadIsResolved ==
  \A t \in Tokens :
    (queue # <<>> /\ Head(queue).token = t)
      ~> (queue = <<>> \/ Head(queue).token # t)
=============================================================================
