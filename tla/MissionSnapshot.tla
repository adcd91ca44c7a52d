-------------------------- MODULE MissionSnapshot --------------------------
(***************************************************************************)
(* What the coordinator's control cycle decides from: the MCS poses it has *)
(* received (pose_aggregation.py), the target that has priority            *)
(* (target_dynamics.py) and the result it may keep (coordinator_node.py,   *)
(* safety.py), in time.                                                    *)
(*                                                                         *)
(* One executor thread runs all callbacks.  While it computes, poses wait  *)
(* in the KEEP_LAST queues of the subscriptions; a pose is dated when its  *)
(* callback runs, not when it came.  A round of the executor runs the      *)
(* timer if it is due and then takes one message from each subscription    *)
(* that had any when the round began.  The trial is not stopped, and the   *)
(* static objective is the target that has priority.                       *)
(***************************************************************************)
EXTENDS Integers, Sequences, FiniteSets

CONSTANTS
  Robots, Targets, NoPose, NoSnapshot, NoTarget, NoResult,
  Timeout,          \* pose.timeout_sec
  MaximumSkew,      \* pose.maximum_snapshot_skew_sec
  Depth,            \* depth of a pose subscription
  ControlPeriod,    \* control_period_sec
  LongestCompute,   \* bound: no computation takes longer
  SwitchPeriod,     \* target_dynamics.switch_period_sec
  Horizon           \* bound: the time observed

ASSUME SnapshotAssumption ==
  /\ {Timeout, MaximumSkew, LongestCompute, Horizon} \subseteq Nat
  /\ {Depth, ControlPeriod, SwitchPeriod} \subseteq Nat \ {0}
  /\ Robots # {} /\ Targets # {} /\ IsFiniteSet(Robots)

VARIABLES
  now,         \* time.monotonic()
  queue,       \* per rover: the poses that wait, oldest first
  latest,      \* PoseAggregator.latest
  epoch,       \* TargetManager.epoch
  priority,    \* TargetManager.priority_target_id
  published,   \* the target state last published: its epoch and target
  stage,       \* "wait" for work, "compute" or "take" messages
  ready,       \* subscriptions the current round still has to take from
  due,         \* when the control timer fires next
  snapshot,    \* the snapshot a computation works on
  periodic,    \* the schedule computes in every cycle
  seen,        \* priority target in _last_objective_signature
  outcome,     \* the target of latest_execution_outcome when it may be
               \* dispatched, NoResult otherwise
  dispatched   \* history: what the current step dispatched from

poseVars == <<queue, latest>>
targetVars == <<epoch, priority, published>>
cycleVars == <<snapshot, seen, outcome>>
vars == <<now, poseVars, targetVars, stage, ready, due, cycleVars, periodic,
          dispatched>>

Init ==
  /\ now = 0
  /\ queue = [r \in Robots |-> <<>>]
  /\ latest = [r \in Robots |-> NoPose]
  /\ epoch = 0
  /\ priority \in Targets
  /\ published = [epoch |-> 0, priority |-> priority]
  /\ stage = "wait"
  /\ ready = {}
  /\ due = ControlPeriod
  /\ snapshot = NoSnapshot
  /\ periodic \in BOOLEAN
  /\ seen = NoTarget
  /\ outcome = NoResult
  /\ dispatched = NoSnapshot

-----------------------------------------------------------------------------
\* What the MCS sends of a rover in one unit of time: a pose, a message that
\* receive() rejects (wrong frame, not finite, no orientation), or nothing.
Arrivals == {"pose", "rejected", "nothing"}

\* KEEP_LAST: a full queue loses its oldest message.
Enqueue(q, kind) ==
  LET kept == IF Len(q) = Depth THEN Tail(q) ELSE q
  IN IF kind = "nothing" THEN q
     ELSE Append(kept, [valid |-> kind = "pose", at |-> now + 1])

Waiting == {r \in Robots : queue[r] # <<>>}

\* Time passes while the executor has nothing to do, or computes.
Pass ==
  /\ now < Horizon                                            \* bound
  /\ \/ stage = "wait" /\ now < due /\ Waiting = {}
     \/ stage = "compute" /\ now - snapshot.at < LongestCompute  \* bound
  /\ now' = now + 1
  /\ \E arrived \in [Robots -> Arrivals] :
       queue' = [r \in Robots |-> Enqueue(queue[r], arrived[r])]
  /\ dispatched' = NoSnapshot
  /\ UNCHANGED <<latest, targetVars, stage, ready, due, cycleVars, periodic>>

\* PoseAggregator.receive: an accepted pose replaces the rover's last one.
Receive(r) ==
  LET message == Head(queue[r])
  IN latest' = IF message.valid
               THEN [latest EXCEPT ![r] = [at |-> message.at, receipt |-> now]]
               ELSE latest

TakePose(r) ==
  /\ stage = "take" /\ r \in ready
  /\ Receive(r)
  /\ queue' = [queue EXCEPT ![r] = Tail(@)]
  /\ ready' = ready \ {r}
  /\ stage' = IF ready' = {} THEN "wait" ELSE "take"
  /\ dispatched' = NoSnapshot
  /\ UNCHANGED <<now, targetVars, due, cycleVars, periodic>>

\* A round in which the timer is not due.
Round ==
  /\ stage = "wait" /\ now < due /\ Waiting # {}
  /\ ready' = Waiting
  /\ stage' = "take"
  /\ dispatched' = NoSnapshot
  /\ UNCHANGED <<now, poseVars, targetVars, due, cycleVars, periodic>>

-----------------------------------------------------------------------------
\* The priority targets that n switches may lead to: each picks another one.
SwitchedTo(n) ==
  {path[n] : path \in {p \in [0..n -> Targets] :
     /\ p[0] = priority
     /\ \A i \in 1..n : p[i] # p[i - 1] \/ Cardinality(Targets) = 1}}

\* Slip: one switch, however many periods went by.
AdvanceOnce ==
  LET required == now \div SwitchPeriod
      n == IF required > epoch THEN 1 ELSE 0
  IN epoch' = epoch + n /\ priority' \in SwitchedTo(n)

\* TargetManager.advance: one switch for each period boundary passed.
Advance ==
  LET required == now \div SwitchPeriod
  IN epoch' = required /\ priority' \in SwitchedTo(required - epoch)

Fresh(r) == now - latest[r].receipt <= Timeout

\* Slip: the ages are not looked at.
UsableAtAnyAge ==
  /\ \A r \in Robots : latest[r] # NoPose
  /\ \A r, s \in Robots : latest[r].receipt - latest[s].receipt <= MaximumSkew

\* Slip: the poses only have to be there.
UsableApart == \A r \in Robots : latest[r] # NoPose

\* PoseAggregator.snapshot raises unless every pose is there, recent, and close
\* in time to the others.
Usable ==
  /\ \A r \in Robots : latest[r] # NoPose /\ Fresh(r)
  /\ \A r, s \in Robots : latest[r].receipt - latest[s].receipt <= MaximumSkew

\* Slip: the target state is published with the snapshot it belongs to.
PublishWithSnapshot ==
  published' = IF Usable THEN [epoch |-> epoch', priority |-> priority'] ELSE published

\* _snapshot publishes a new epoch before the poses are looked at, and the end
\* of the cycle publishes the same state again.
PublishTargets == published' = [epoch |-> epoch', priority |-> priority']

Taken == [poses |-> latest, epoch |-> epoch', priority |-> priority', at |-> now]

\* _computation_reason: the static schedule computes when the objective is not
\* the one it saw last, whatever became of that computation.
MustCompute == seen # priority' \/ periodic

\* The dispatcher is ticked for a result computed for the target `result`, or,
\* with NoResult, for the commands it already has.
DispatchFrom(from, result) ==
  dispatched' = [from |-> from, result |-> result, at |-> now]

\* A cycle without a result to dispatch ticks only after a rejected batch (see
\* Coordinator), lest the active commands miss their refresh.
RefreshOnly(from) == dispatched' = NoSnapshot \/ DispatchFrom(from, NoResult)

\* The dispatcher may reject the batch: the outcome is replaced.
AfterDispatch(result) == outcome' \in {result, NoResult}

\* The timer's next call: missed periods are skipped.
NextCall == due + ControlPeriod * ((now - due) \div ControlPeriod + 1)

AfterCycle == IF Waiting = {} THEN "wait" ELSE "take"

\* SnapshotUnavailableError: the outcome is replaced, nothing is refreshed.
PoseUnavailable ==
  /\ ~Usable
  /\ outcome' = NoResult
  /\ stage' = AfterCycle
  /\ dispatched' = NoSnapshot
  /\ UNCHANGED <<snapshot, seen>>

StartComputation ==
  /\ Usable /\ MustCompute
  /\ seen' = priority'
  /\ snapshot' = Taken
  /\ stage' = "compute"
  /\ dispatched' = NoSnapshot
  /\ UNCHANGED outcome

\* compute_reason is None: the cached outcome says whether to tick.
ReuseResult ==
  /\ Usable /\ ~MustCompute
  /\ stage' = AfterCycle
  /\ IF outcome = NoResult THEN RefreshOnly(Taken) ELSE DispatchFrom(Taken, outcome)
  /\ AfterDispatch(outcome)
  /\ UNCHANGED <<snapshot, seen>>

\* The timer callback up to the computation.  `now` is read once, before.
ControlCycle ==
  /\ stage = "wait" /\ now >= due
  /\ due' = NextCall
  /\ ready' = Waiting
  /\ Advance
  /\ PublishTargets
  /\ PoseUnavailable \/ StartComputation \/ ReuseResult
  /\ UNCHANGED <<now, poseVars, periodic>>

FinishComputation ==
  /\ stage = "compute"
  /\ snapshot' = NoSnapshot
  /\ stage' = IF ready = {} THEN "wait" ELSE "take"
  /\ UNCHANGED <<now, poseVars, targetVars, ready, due, seen, periodic>>

\* A valid result replaces the outcome and is dispatched.  Its created_at is
\* read after the computation: the age that validation looks at is nothing.
ResultDispatched ==
  /\ FinishComputation
  /\ DispatchFrom(snapshot, snapshot.priority)
  /\ AfterDispatch(snapshot.priority)

\* Slip: the failed computation leaves the last outcome in place.
ComputationFailedQuietly ==
  /\ FinishComputation
  /\ dispatched' = NoSnapshot
  /\ UNCHANGED outcome

\* controller_error, or a hold that may not be dispatched.
ComputationFailed ==
  /\ FinishComputation
  /\ outcome' = NoResult
  /\ RefreshOnly(snapshot)

\* The observation ends.
Over == now = Horizon /\ UNCHANGED vars

Next ==
  \/ Pass
  \/ \E r \in Robots : TakePose(r)
  \/ Round
  \/ ControlCycle
  \/ ResultDispatched
  \/ ComputationFailed
  \/ Over

Spec == Init /\ [][Next]_vars

-----------------------------------------------------------------------------
Pose == [at : 0..Horizon, receipt : 0..Horizon]
Snapshot == [poses : [Robots -> Pose], epoch : 0..Horizon, priority : Targets,
             at : 0..Horizon]

TypeOK ==
  /\ now \in 0..Horizon
  /\ queue \in [Robots -> Seq([valid : BOOLEAN, at : 0..now])]
  /\ \A r \in Robots : Len(queue[r]) <= Depth
  /\ latest \in [Robots -> Pose \cup {NoPose}]
  /\ epoch \in 0..Horizon
  /\ priority \in Targets
  /\ published \in [epoch : 0..Horizon, priority : Targets]
  /\ stage \in {"wait", "compute", "take"}
  /\ ready \subseteq Waiting
  /\ due \in 1..(now + ControlPeriod)
  /\ snapshot \in Snapshot \cup {NoSnapshot}
  /\ stage = "compute" => snapshot \in Snapshot
  /\ periodic \in BOOLEAN
  /\ seen \in Targets \cup {NoTarget}
  /\ outcome \in Targets \cup {NoResult}
  /\ dispatched \in [from : Snapshot, result : Targets \cup {NoResult},
                    at : 0..Horizon] \cup {NoSnapshot}

Dispatched == dispatched # NoSnapshot

\* How long a pose can wait for its callback.  It has at most Depth messages
\* before it, each of them takes a round, and every round a computation; it came
\* during another one.
LongestWait == (Depth + 1) * LongestCompute

\* How old a dispatched pose can be, counted from its arrival: freshness is
\* checked against the receipt, and before the computation.
PosesAreRecent ==
  Dispatched => \A r \in Robots :
    dispatched.at - dispatched.from.poses[r].at
      <= LongestWait + Timeout + LongestCompute

\* How far apart in time the poses of one decision can be: the skew is one of
\* receipts too.
PosesBelongTogether ==
  Dispatched => \A r, s \in Robots :
    dispatched.from.poses[r].at - dispatched.from.poses[s].at
      <= MaximumSkew + LongestWait

\* What is dispatched was computed for the target that has priority in the
\* snapshot it is dispatched with, a reused result included, whatever failed or
\* was missed since it was computed.
ResultFitsTheTarget ==
  Dispatched => dispatched.result \in {dispatched.from.priority, NoResult}

\* The target had priority at most one computation ago: no switch is missed or
\* put off, however long the executor was busy.
TargetIsOnTime ==
  Dispatched =>
    dispatched.from.epoch >= (dispatched.at - LongestCompute) \div SwitchPeriod

\* Who listens to target_state learns of a switch within a control period and a
\* computation, poses or no poses.
TargetStateIsCurrent ==
  published.epoch >= (now - ControlPeriod - LongestCompute) \div SwitchPeriod
=============================================================================
