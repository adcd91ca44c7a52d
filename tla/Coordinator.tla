---------------------------- MODULE Coordinator ----------------------------
(***************************************************************************)
(* The swarm coordinator's control cycle (coordinator_node.py) around the  *)
(* dispatcher: one timer callback takes a pose snapshot, decides whether   *)
(* the controller must compute, computes, and lets the dispatcher publish; *)
(* acknowledgement and failure callbacks come in between.  All callbacks   *)
(* run on one executor thread, so each is one atomic action.               *)
(*                                                                         *)
(* A controller result is any setpoint map; a computation either yields a  *)
(* result that passes validation (at whichever recovery stage) or ends in  *)
(* an outcome that may not be dispatched.                                  *)
(***************************************************************************)
EXTENDS Naturals, FiniteSets

CONSTANTS
  Robots, Points, NoPoint, TooClose, Repeated, Deadband, CacheSize,
  MaxToken,
  Schedules,        \* schedules of the algorithms that may be configured
  MaxObjectives,    \* bound on mission objectives seen in one trial
  SteadySchedules,  \* bound: schedules under which the objective never changes
  MaxComputes,      \* bound on reactive computations in one trial
  MaxTroubles       \* bound on cycles without a usable snapshot and on
                    \* computations without a dispatchable result

ASSUME ScheduleAssumption ==
  Schedules \subseteq {"final_destination", "receding_horizon", "reactive_periodic"}
ASSUME LimitsAssumption ==
  MaxObjectives \in Nat \ {0} /\ MaxComputes \in Nat /\ MaxTroubles \in Nat

\* What the dispatcher assumes of the same constants.
ASSUME DispatcherAssumption ==
  /\ Robots \subseteq Nat /\ IsFiniteSet(Robots)
  /\ NoPoint \notin Points
  /\ \A p, q \in Points : <<p, q>> \in TooClose => <<q, p>> \in TooClose
  /\ {CacheSize, MaxToken} \subseteq Nat

VARIABLES
  active, pending, lastAck, lastFail, superseded, lastToken, failedBatch,
  faulted, commanded, newest,   \* the dispatcher
  objective,     \* the target manager's current objective
  seenObjective, \* _last_objective_signature (0 is None)
  revision,      \* _objective_revision
  computes,      \* _controller_compute_count
  outcome,       \* latest_execution_outcome: "none", "dispatchable" or a mode
                 \* with dispatch_allowed = False
  resultRevision,\* history: revision of the newest dispatchable result
  refreshed,     \* history: rovers whose command this cycle's tick may refresh
  schedule,      \* ControllerSchedule of the configured algorithm, never changed
  beat,          \* history: parity of the control cycles
  troubles       \* bound counter of pose losses and failed computations

dispatcher == <<active, pending, lastAck, lastFail, superseded, lastToken,
                failedBatch, faulted, commanded, newest>>
vars == <<dispatcher, objective, seenObjective, revision, computes, outcome,
          resultRevision, refreshed, schedule, beat, troubles>>

Static == schedule = "final_destination"
Reactive == schedule = "reactive_periodic"

AllVersions == [epoch : 1..MaxObjectives,
                rev : (1..MaxObjectives) \X (1..(MaxObjectives + MaxComputes))]

D == INSTANCE Dispatcher WITH Versions <- AllVersions, reactive <- Reactive

Undispatchable == {"pose_unavailable", "controller_error", "non_dispatching_safe_hold"}

Init ==
  /\ schedule \in Schedules
  /\ D!Init
  /\ objective = 1
  /\ seenObjective = 0
  /\ revision = 0
  /\ computes = 0
  /\ outcome = "none"
  /\ resultRevision = <<0, 0>>
  /\ refreshed = {}
  /\ beat = FALSE
  /\ troubles = 0

-----------------------------------------------------------------------------
\* TargetManager switches the priority target; a later snapshot observes it.
SwitchObjective ==
  /\ objective < MaxObjectives /\ schedule \notin SteadySchedules    \* bound
  /\ objective' = objective + 1
  /\ refreshed' = {}
  /\ UNCHANGED <<dispatcher, seenObjective, revision, computes, outcome,
                 resultRevision, schedule, beat, troubles>>

NoteTrouble ==
  /\ troubles < MaxTroubles                                  \* bound
  /\ troubles' = troubles + 1

\* Slip: a cycle without poses gives the active commands up.
PoseUnavailableCycleClearing ==
  /\ NoteTrouble
  /\ outcome' = "pose_unavailable"
  /\ active' = [r \in Robots |-> D!Idle(active[r])]
  /\ refreshed' = {}
  /\ UNCHANGED <<pending, lastAck, lastFail, superseded, lastToken, failedBatch,
                 faulted, commanded, newest, objective, seenObjective, revision,
                 computes, resultRevision, schedule, beat>>

\* SnapshotUnavailableError: the outcome is replaced and the cycle returns.
PoseUnavailableCycle ==
  /\ NoteTrouble
  /\ outcome' = "pose_unavailable"
  /\ refreshed' = {}
  /\ UNCHANGED <<dispatcher, objective, seenObjective, revision, computes,
                 resultRevision, schedule, beat>>

\* Slip: periodic schedules compute only for a new objective, too.
MustComputeOnChange == seenObjective # objective

\* _computation_reason: startup, a changed objective, or a periodic schedule.
MustCompute == seenObjective # objective \/ ~Static

RevisionNow == IF seenObjective # objective THEN revision + 1 ELSE revision

CommandRevision ==
  <<RevisionNow, IF Reactive THEN computes + 1 ELSE RevisionNow>>

\* What a computing cycle records before it calls the controller.
NoteComputation ==
  /\ MustCompute
  /\ seenObjective' = objective
  /\ revision' = RevisionNow
  /\ IF Reactive
     THEN computes < MaxComputes /\ computes' = computes + 1 \* bound
     ELSE UNCHANGED computes    \* the count is read by reactive cycles only

\* dispatch_allowed, complete and validated: hand over the setpoints and tick;
\* a failed activation turns the outcome into a non-dispatching hold.
ComputeAndDispatch(setpoints, near) ==
  /\ NoteComputation
  /\ Reactive => D!TokenBudget                                \* bound
  /\ UNCHANGED troubles
  /\ resultRevision' = CommandRevision
  /\ refreshed' = D!Refreshable(D!PendingAfter(setpoints, objective, CommandRevision))
  /\ D!UpdateAndTick(setpoints, objective, CommandRevision, near)
  /\ outcome' = IF failedBatch' # {} THEN "non_dispatching_safe_hold"
                                          ELSE "dispatchable"

\* The same computation while the fault is latched: nothing is handed over.
ComputeWhileFaulted ==
  /\ faulted
  /\ NoteComputation
  /\ outcome' = "dispatchable"
  /\ refreshed' = {}
  /\ UNCHANGED <<dispatcher, resultRevision, troubles>>

\* The heuristics raise: the cycle reports and returns without a tick.
ComputeError ==
  /\ NoteComputation
  /\ NoteTrouble
  /\ outcome' = "controller_error"
  /\ refreshed' = {}
  /\ UNCHANGED <<dispatcher, resultRevision>>

\* Every stage of an optimiser failed: only a pending activation failure still
\* gets its tick.
ComputeHold(near) ==
  /\ NoteComputation
  /\ NoteTrouble
  /\ outcome' = "non_dispatching_safe_hold"
  /\ IF failedBatch # {} /\ ~faulted
     THEN D!Tick(near) /\ refreshed' = D!Refreshable(pending)
     ELSE UNCHANGED dispatcher /\ refreshed' = {}
  /\ UNCHANGED resultRevision

\* compute_reason is None: the cached outcome decides whether to dispatch.
ReuseResult(near) ==
  /\ ~MustCompute
  /\ \/ /\ outcome = "dispatchable" /\ ~faulted
        /\ D!Tick(near)
        /\ refreshed' = D!Refreshable(pending)
        /\ outcome' = IF failedBatch' # {} THEN "non_dispatching_safe_hold"
                                                ELSE outcome
     \/ /\ outcome # "dispatchable" /\ ~faulted /\ failedBatch # {}
        /\ D!Tick(near)
        /\ refreshed' = D!Refreshable(pending)
        /\ UNCHANGED outcome
     \/ /\ faulted \/ (outcome # "dispatchable" /\ failedBatch = {})
        /\ refreshed' = {}
        /\ UNCHANGED <<dispatcher, outcome>>
  /\ UNCHANGED <<seenObjective, revision, computes, resultRevision, troubles>>

\* One _control_cycle with a usable snapshot: it leaves to the callbacks what
\* they record.
ControlCycle ==
  /\ beat' = ~beat
  /\ UNCHANGED <<objective, schedule, faulted, lastAck, lastFail>>
  /\ \/ ComputeError
     \/ ComputeWhileFaulted
     \/ \E near \in SUBSET D!Reached :
          \/ ComputeHold(near)
          \/ ReuseResult(near)
          \/ \E setpoints \in [Robots -> Points] : ComputeAndDispatch(setpoints, near)

-----------------------------------------------------------------------------
\* _acknowledgement of the active command: the outcome is replaced whenever an activation failure is
\* on record, whether or not this acknowledgement caused it.
AcknowledgementCallback(r, measured) ==
  /\ D!TokenBudget                                            \* bound
  /\ D!Acknowledge(r, active[r].token, active[r].point, measured)
  /\ outcome' = IF failedBatch' # {} THEN "non_dispatching_safe_hold"
                                          ELSE outcome
  /\ refreshed' = {}
  /\ UNCHANGED <<objective, seenObjective, revision, computes, resultRevision,
                 schedule, beat, troubles>>

\* A late or duplicated acknowledgement matches nothing, and still replaces the
\* outcome while an activation failure is on record.
UnmatchedAcknowledgement ==
  /\ failedBatch # {}
  /\ outcome' = "non_dispatching_safe_hold"
  /\ refreshed' = {}
  /\ UNCHANGED <<dispatcher, objective, seenObjective, revision, computes,
                 resultRevision, schedule, beat, troubles>>

\* _waypoint_failed
FailureCallback(r) ==
  /\ D!TokenBudget                                            \* bound
  /\ D!Fail(r, active[r].token, active[r].point)
  /\ refreshed' = {}
  /\ UNCHANGED <<objective, seenObjective, revision, computes, outcome,
                 resultRevision, schedule, beat, troubles>>

\* cleanup: the only caller of _stop_trial.
Shutdown ==
  /\ ~faulted
  /\ D!StopTrial
  /\ refreshed' = {}
  /\ UNCHANGED <<objective, seenObjective, revision, computes, outcome,
                 resultRevision, schedule, beat, troubles>>

Next ==
  \/ SwitchObjective
  \/ PoseUnavailableCycle
  \/ ControlCycle
  \/ \E r \in Robots :
       \/ \E measured \in {"unknown", "near", "away"} :
            AcknowledgementCallback(r, measured)
       \/ FailureCallback(r)
  \/ UnmatchedAcknowledgement
  \/ Shutdown

Spec == Init /\ [][Next]_vars

\* The control timer keeps firing; pose losses and computation failures are
\* bounded, so cycles with a usable snapshot go on for ever: beat flips in every
\* ControlCycle and nowhere else, and one is always enabled (the number of
\* reactive computations is bounded, so no fairness is assumed for them).
FairSpec == Spec /\ WF_beat(~Reactive /\ beat' = ~beat)

-----------------------------------------------------------------------------
\* The coordinator drives the dispatcher only through its operations: every
\* cycle and callback is a step, or a stutter, of the Dispatcher specification.
ImplementsDispatcher == D!Spec

\* A command that goes out carries the revision of the newest dispatchable
\* result, also when an acknowledgement or failure callback, a pose loss or a
\* failed computation came between the result and its activation.
ActivationUsesNewestResult ==
  [][\A r \in Robots : D!Activated(r) => active'[r].rev = resultRevision']_vars

\* A command in execution keeps being refreshed (waypoint_dispatcher.tick) until
\* it ends, whatever transient trouble came before.
ActiveCommandsRefreshed ==
  \A r \in Robots :
    (active[r].point # NoPoint) ~> (r \in refreshed \/ active[r].point = NoPoint)

\* The receding-horizon schedule computes in every cycle, so that a cycle without
\* poses or without a dispatchable result does not end the refreshing.
RecedingHorizonRefreshes == schedule = "receding_horizon" => ActiveCommandsRefreshed

\* Under the receding-horizon schedule a pending request of an idle rover does
\* not wait for ever: it is activated, dropped, or its batch is on record as
\* rejected.
PendingNotForgotten ==
  \A r \in Robots :
    (/\ schedule = "receding_horizon"
     /\ pending[r].point # NoPoint
     /\ active[r].point = NoPoint)
      ~> (\/ pending[r].point = NoPoint
          \/ active[r].point # NoPoint
          \/ failedBatch # {}
          \/ faulted)
=============================================================================
