----------------------------- MODULE Dispatcher -----------------------------
(***************************************************************************)
(* The PC-side waypoint dispatcher (waypoint_dispatcher.py).  It owns, for *)
(* every rover, one active command and one replaceable pending request.    *)
(* A pending request becomes active (and is published under a new token)   *)
(* when the rover is idle or when the request may supersede the active     *)
(* command; the endpoints of the whole outgoing batch are first repaired   *)
(* against the endpoints that stay active.                                 *)
(*                                                                         *)
(* Each public method of WaypointDispatcher is one action.  Coordinates    *)
(* are points of a finite set: the comparisons the code makes on distances *)
(* are the relations TooClose, Repeated and Deadband.  Floats, counters    *)
(* used only for telemetry and the wall-clock value of a token are left    *)
(* out: a token is its position in the process-wide strictly increasing    *)
(* order the code maintains in _last_token_ns.                             *)
(***************************************************************************)
EXTENDS Naturals, FiniteSets

CONSTANTS
  Robots,         \* configured rover ids (iterated in sorted order)
  Points,         \* waypoint coordinates
  NoPoint,        \* Python's None for a coordinate
  TooClose,       \* pairs nearer than minimum_separation_m
  Repeated,       \* pairs within repeated_destination_epsilon_m
  Deadband,       \* pairs within the reactive waypoint_deadband_m
  CacheSize,      \* SUPERSEDED_TOKEN_CACHE_SIZE
  Versions,       \* bound: target epochs and <<objective, command>> revisions
                  \* with which update_pending may be called
  MaxToken        \* bound on tokens: see TokenBudget

ASSUME RobotsAssumption == Robots \subseteq Nat /\ IsFiniteSet(Robots)
ASSUME PointsAssumption == NoPoint \notin Points
ASSUME SeparationAssumption ==
  \A p, q \in Points : <<p, q>> \in TooClose => <<q, p>> \in TooClose
ASSUME BoundsAssumption ==
  /\ {CacheSize, MaxToken} \subseteq Nat
  /\ Versions \subseteq [epoch : Nat, rev : Nat \X Nat]

-----------------------------------------------------------------------------
VARIABLES
  active,       \* per rover: the command the PC considers in execution
  pending,      \* per rover: the newest request not yet published
  lastAck,      \* per rover: destination and epoch of the last reached command
  lastFail,     \* per rover: destination and epoch of the last failed command
  superseded,   \* per rover: bounded cache of replaced tokens
  lastToken,    \* _last_token_ns: the newest token issued by this process
  failedBatch,  \* _failed_activation_signature: the rejected batch, {} for None
  faulted,      \* latched by mark_fault
  commanded,    \* rovers with ever_commanded
  newest,       \* history: the last request accepted for each rover
  reactive      \* allow_supersession of the configured schedule, never changed

vars == <<active, pending, lastAck, lastFail, superseded, lastToken,
          failedBatch, faulted, commanded, newest, reactive>>

NoToken == 0
Revision == Nat \X Nat
Maybe(S) == S \cup {NoPoint}

Command == [point : Maybe(Points), requested : Maybe(Points), token : Nat,
            epoch : Nat, rev : Revision]
Request == [point : Maybe(Points), epoch : Nat, rev : Revision,
            supersede : BOOLEAN]
Outcome == [point : Maybe(Points), epoch : Nat]

\* Python's tuple order on (objective_revision, command_revision).
Older(a, b) == a[1] < b[1] \/ (a[1] = b[1] /\ a[2] < b[2])

Busy(act) == {r \in Robots : act[r].point # NoPoint}

Idle(slot) == [slot EXCEPT !.point = NoPoint, !.requested = NoPoint,
                           !.token = NoToken]

-----------------------------------------------------------------------------
(***************************************************************************)
(* Activation.  Endpoints(act, batch, chosen) is the prospective endpoint  *)
(* map: the batch moves to the chosen points, every other busy rover keeps *)
(* its active point.                                                       *)
(***************************************************************************)
Endpoints(act, batch, chosen) ==
  [r \in batch \cup Busy(act) |-> IF r \in batch THEN chosen[r] ELSE act[r].point]

Separated(endpoints) ==
  \A r, s \in DOMAIN endpoints :
    r # s => <<endpoints[r], endpoints[s]>> \notin TooClose

Proposed(pend, batch) == [r \in batch |-> pend[r].point]

\* Slip: the batch is repaired in itself, not against the active endpoints.
RepairsOfBatchAlone(act, batch, proposed) ==
  IF Separated(proposed) THEN {proposed}
  ELSE {chosen \in [batch -> Points] : Separated(chosen)}

\* The corrections repair_outgoing_endpoints may return without a residual.  A
\* batch that is already separated comes back unchanged; otherwise the bounded
\* relaxation yields some separated placement, or none (a residual violation).
Repairs(act, batch, proposed) ==
  IF Separated(Endpoints(act, batch, proposed))
  THEN {proposed}
  ELSE {chosen \in [batch -> Points] : Separated(Endpoints(act, batch, chosen))}

Eligible(act, pend, ids) ==
  {r \in ids : /\ pend[r].point # NoPoint
               /\ act[r].point = NoPoint \/ pend[r].supersede}

\* Slip: the memo does not tell which active endpoints blocked the batch.
SignatureOfBatch(act, pend, batch) ==
  [proposed |-> [r \in batch |-> [point |-> pend[r].point, rev |-> pend[r].rev,
                                  supersede |-> pend[r].supersede]],
   fixed |-> <<>>]

Signature(act, pend, batch) ==
  [proposed |-> [r \in batch |-> [point |-> pend[r].point, rev |-> pend[r].rev,
                                  supersede |-> pend[r].supersede]],
   fixed |-> [s \in Busy(act) \ batch |-> act[s].point]]

\* Slip: the clock is read once for a batch.
TokenOfBatch(batch, r) == lastToken + 1

\* The batch is published in id order, one fresh token each.
TokenOf(batch, r) == lastToken + Cardinality({s \in batch : s <= r})

NewestTokens(tokens) ==
  {t \in tokens : Cardinality({u \in tokens : u > t}) < CacheSize}

\* _publish_pending for every member of the batch.
Publish(act, pend, batch, chosen) ==
  /\ active' = [r \in Robots |->
       IF r \in batch
       THEN [point |-> chosen[r], requested |-> pend[r].point,
             token |-> TokenOf(batch, r), epoch |-> pend[r].epoch,
             rev |-> pend[r].rev]
       ELSE act[r]]
  /\ pending' = [r \in Robots |->
       IF r \in batch
       THEN [pend[r] EXCEPT !.point = NoPoint, !.supersede = FALSE]
       ELSE pend[r]]
  /\ superseded' = [r \in Robots |->
       IF r \in batch /\ pend[r].supersede /\ act[r].token # NoToken
       THEN NewestTokens(superseded[r] \cup {act[r].token})
       ELSE superseded[r]]
  /\ lastToken' = lastToken + Cardinality(batch)
  /\ commanded' = commanded \cup batch

\* _activate_pending, from the slots a method has already updated.
ActivatePending(act, pend, memo, ids) ==
  LET batch == Eligible(act, pend, ids)
      signature == Signature(act, pend, batch)
      proposed == Proposed(pend, batch)
      Withhold == /\ active' = act
                  /\ pending' = pend
                  /\ UNCHANGED <<superseded, lastToken, commanded>>
  IN  \/ /\ batch = {} \/ signature \in memo
         /\ Withhold
         /\ failedBatch' = memo
      \/ /\ batch # {} /\ signature \notin memo
         /\ ~Separated(Endpoints(act, batch, proposed))
         /\ Withhold
         /\ failedBatch' = {signature}
      \/ /\ batch # {} /\ signature \notin memo
         /\ \E chosen \in Repairs(act, batch, proposed) :
              Publish(act, pend, batch, chosen)
         /\ failedBatch' = {}

-----------------------------------------------------------------------------
(***************************************************************************)
(* Repeated destinations.  `measured` is how far the rover is from its     *)
(* last reached destination: "near" (within                                *)
(* completed_destination_reissue_distance_m), "away", or "unknown".        *)
(***************************************************************************)
Suppressed(request, reached, failed, measured) ==
  \/ /\ failed.point # NoPoint
     /\ request.epoch = failed.epoch
     /\ <<request.point, failed.point>> \in Repeated
  \/ /\ reached.point # NoPoint
     /\ request.epoch = reached.epoch
     /\ <<request.point, reached.point>> \in Repeated
     /\ measured \in {"unknown", "near"}

\* _drop_suppressed_pending leaves pending_supersede as it was.
DropIf(condition, request) ==
  IF request.point # NoPoint /\ condition
  THEN [request EXCEPT !.point = NoPoint]
  ELSE request

-----------------------------------------------------------------------------
Init ==
  /\ active = [r \in Robots |-> [point |-> NoPoint, requested |-> NoPoint,
                                 token |-> NoToken, epoch |-> 0,
                                 rev |-> <<0, 0>>]]
  /\ pending = [r \in Robots |-> [point |-> NoPoint, epoch |-> 0,
                                  rev |-> <<0, 0>>, supersede |-> FALSE]]
  /\ lastAck = [r \in Robots |-> [point |-> NoPoint, epoch |-> 0]]
  /\ lastFail = [r \in Robots |-> [point |-> NoPoint, epoch |-> 0]]
  /\ superseded = [r \in Robots |-> {}]
  /\ lastToken = 0
  /\ failedBatch = {}
  /\ faulted = FALSE
  /\ commanded = {}
  /\ newest = [r \in Robots |-> NoPoint]
  /\ reactive \in BOOLEAN

(***************************************************************************)
(* update_pending(setpoints, epoch, rev), which the program always follows *)
(* with a tick in the same timer callback (UpdateAndTick).  A setpoint     *)
(* older than anything pending or active is skipped; a reactive setpoint   *)
(* within the deadband of the requested active destination retains the     *)
(* active command.                                                         *)
(***************************************************************************)
\* Slip: only the objective revision is compared.
AcceptsObjective(r, rev) == rev[1] >= pending[r].rev[1] /\ rev[1] >= active[r].rev[1]

Accepts(r, rev) == ~Older(rev, pending[r].rev) /\ ~Older(rev, active[r].rev)

Retains(r, point) ==
  /\ reactive
  /\ active[r].requested # NoPoint
  /\ <<point, active[r].requested>> \in Deadband

\* Slip: retaining the active command leaves the older request pending.
PendingKeptInDeadband(setpoints, epoch, rev) ==
  [r \in Robots |->
     IF ~Accepts(r, rev) \/ Retains(r, setpoints[r])
     THEN pending[r]
     ELSE [point |-> setpoints[r], epoch |-> epoch, rev |-> rev,
           supersede |-> reactive /\ active[r].point # NoPoint]]

\* Slip: a waiting request is not replaced by a newer one.
PendingNotReplaced(setpoints, epoch, rev) ==
  [r \in Robots |->
     IF ~Accepts(r, rev) \/ pending[r].point # NoPoint
     THEN pending[r]
     ELSE LET retained == Retains(r, setpoints[r])
          IN  [point |-> IF retained THEN NoPoint ELSE setpoints[r],
               epoch |-> epoch, rev |-> rev,
               supersede |-> reactive /\ ~retained /\ active[r].point # NoPoint]]

PendingAfter(setpoints, epoch, rev) ==
  [r \in Robots |->
     IF ~Accepts(r, rev)
     THEN pending[r]
     ELSE LET retained == Retains(r, setpoints[r])
          IN  [point |-> IF retained THEN NoPoint ELSE setpoints[r],
               epoch |-> epoch, rev |-> rev,
               supersede |-> reactive /\ ~retained /\ active[r].point # NoPoint]]

Accepted(rev) == {r \in Robots : Accepts(r, rev)}

MemoAfter(rev) == IF Accepted(rev) # {} THEN {} ELSE failedBatch

NewestAfter(setpoints, rev) ==
  [r \in Robots |-> IF Accepts(r, rev) THEN setpoints[r] ELSE newest[r]]

(***************************************************************************)
(* tick(snapshot).  `near` holds the rovers measured near their last       *)
(* reached destination.  Refreshing re-publishes an active command as it   *)
(* is and changes no modelled state; Refreshable says whose turn may come. *)
(***************************************************************************)
\* Slip: a tick does not look at finished destinations.
TickPendingUnfiltered(pend, near) == pend

TickPending(pend, near) ==
  [r \in Robots |->
     DropIf(/\ ~pend[r].supersede
            /\ active[r].point = NoPoint
            /\ Suppressed(pend[r], lastAck[r], lastFail[r],
                          IF r \in near THEN "near" ELSE "away"),
            pend[r])]

\* Slip: a waiting request silences the active command.
RefreshableWhenAlone(pend) ==
  {r \in Robots : ~faulted /\ active[r].point # NoPoint /\ pend[r].point = NoPoint}

Refreshable(pend) ==
  {r \in Robots : /\ ~faulted
                 /\ active[r].point # NoPoint
                 /\ ~(pend[r].point # NoPoint /\ pend[r].supersede)}

\* Slip: a tick only refreshes, activation is left to acknowledgements.
TickFromRefreshOnly(pend, memo, near) ==
  /\ pending' = IF faulted THEN pend ELSE TickPending(pend, near)
  /\ failedBatch' = memo
  /\ UNCHANGED <<active, superseded, lastToken, commanded>>

TickFrom(pend, memo, near) ==
  IF faulted
  THEN /\ pending' = pend
       /\ failedBatch' = memo
       /\ UNCHANGED <<active, superseded, lastToken, commanded>>
  ELSE ActivatePending(active, TickPending(pend, near), memo, Robots)

Tick(near) ==
  /\ UNCHANGED <<lastAck, lastFail, faulted, newest>>
  /\ TickFrom(pending, failedBatch, near)

\* The coordinator's cycle: update_pending and tick in one timer callback.
UpdateAndTick(setpoints, epoch, rev, near) ==
  /\ ~faulted
  /\ UNCHANGED <<lastAck, lastFail, faulted>>
  /\ newest' = NewestAfter(setpoints, rev)
  /\ TickFrom(PendingAfter(setpoints, epoch, rev), MemoAfter(rev), near)

(***************************************************************************)
(* acknowledge and fail.  Only the exact token and point of the active     *)
(* command match; any other notification only bumps a counter, which is a  *)
(* stuttering step.                                                        *)
(***************************************************************************)
\* Slip: the point decides, whichever command it was reached for.
MatchesPoint(r, token, point) ==
  /\ active[r].point # NoPoint
  /\ point = active[r].point

Matches(r, token, point) ==
  /\ active[r].point # NoPoint
  /\ token = active[r].token
  /\ point = active[r].point

Acknowledge(r, token, point, measured) ==
  /\ Matches(r, token, point)
  /\ UNCHANGED <<lastFail, faulted, newest>>
  /\ LET reached == [point |-> active[r].point, epoch |-> active[r].epoch]
         act == [active EXCEPT ![r] = Idle(@)]
         pend == [pending EXCEPT ![r] =
                    DropIf(Suppressed(@, reached, lastFail[r], measured), @)]
     IN  /\ lastAck' = [lastAck EXCEPT ![r] = reached]
         /\ ActivatePending(act, pend, failedBatch, {r})

Fail(r, token, point) ==
  /\ Matches(r, token, point)
  /\ LET failed == [point |-> active[r].point, epoch |-> active[r].epoch]
     IN  /\ lastFail' = [lastFail EXCEPT ![r] = failed]
         /\ pending' = [pending EXCEPT ![r] =
              DropIf(Suppressed(@, lastAck[r], failed, "unknown"), @)]
  /\ active' = [active EXCEPT ![r] = Idle(@)]
  /\ UNCHANGED <<lastAck, superseded, lastToken, failedBatch, faulted,
                 commanded, newest>>

\* Slip: mark_fault without stop.
StopTrialByFaultOnly ==
  /\ faulted' = TRUE
  /\ UNCHANGED <<active, pending, lastAck, lastFail, superseded, lastToken,
                 failedBatch, commanded, newest>>

\* mark_fault followed by stop: every slot is emptied and the fault latched.
StopTrial ==
  /\ faulted' = TRUE
  /\ active' = [r \in Robots |-> Idle(active[r])]
  /\ pending' = [r \in Robots |->
       [pending[r] EXCEPT !.point = NoPoint, !.supersede = FALSE]]
  /\ superseded' = [r \in Robots |-> {}]
  /\ UNCHANGED <<lastAck, lastFail, lastToken, failedBatch, commanded, newest>>

Reached == {r \in Robots : lastAck[r].point # NoPoint}

\* Bound: notifications and superseding requests stop while another batch of
\* tokens would pass MaxToken.
TokenBudget == lastToken + Cardinality(Robots) <= MaxToken

Next ==
  /\ UNCHANGED reactive
  /\ \/ \E near \in SUBSET Reached :
          \/ Tick(near)
          \/ /\ reactive => TokenBudget
             /\ \E setpoints \in [Robots -> Points], version \in Versions :
                  UpdateAndTick(setpoints, version.epoch, version.rev, near)
     \/ /\ TokenBudget
        /\ \E r \in Robots, token \in 0..lastToken, point \in Points :
             \/ \E measured \in {"unknown", "near", "away"} :
                  Acknowledge(r, token, point, measured)
             \/ Fail(r, token, point)
     \/ StopTrial

Spec == Init /\ [][Next]_vars

-----------------------------------------------------------------------------
(***************************************************************************)
(* Properties.                                                             *)
(***************************************************************************)
\* Every slot, cache and counter has its type.
TypeOK ==
  /\ active \in [Robots -> Command]
  /\ pending \in [Robots -> Request]
  /\ lastAck \in [Robots -> Outcome]
  /\ lastFail \in [Robots -> Outcome]
  /\ superseded \in [Robots -> SUBSET Nat]
  /\ lastToken \in Nat
  /\ faulted \in BOOLEAN
  /\ commanded \subseteq Robots
  /\ newest \in [Robots -> Maybe(Points)]
  /\ reactive \in BOOLEAN

\* The endpoints of the commands in execution are pairwise separated, whichever
\* mixture of batch activation, acknowledgement callback and supersession put
\* them there (_activate_pending repairs the outgoing batch against the rest).
ActiveEndpointsSeparated ==
  \A r, s \in Robots :
    (r # s /\ active[r].point # NoPoint /\ active[s].point # NoPoint)
      => <<active[r].point, active[s].point>> \notin TooClose

\* A token names one command: no two rovers share one, and the token of a
\* command in execution is in no rover's superseded cache, so a late
\* acknowledgement of a replaced command can never clear its replacement.
OutstandingTokensDistinct ==
  \A r, s \in Robots :
    active[r].point # NoPoint =>
      /\ active[r].token # NoToken
      /\ active[r].token \notin superseded[s]
      /\ (r # s => active[r].token # active[s].token)

\* The memo of a rejected batch never withholds a batch whose endpoints need no
\* repair: it goes stale as soon as a blocking command ends or moves.
MemoNeverHidesSafeBatch ==
  \A ids \in {Robots} \cup {{r} : r \in Robots} :
    LET batch == Eligible(active, pending, ids) IN
      (batch # {} /\ Signature(active, pending, batch) \in failedBatch)
        => ~Separated(Endpoints(active, batch, Proposed(pending, batch)))

Activated(r) == active'[r].token \notin {active[r].token, NoToken}

\* What is activated is the newest request accepted for that rover: neither a
\* request replaced while pending nor one cancelled by the deadband comes back.
ActivationIsNewestRequest ==
  [][\A r \in Robots : Activated(r) => active'[r].requested = newest'[r]]_vars

\* A rover's command revision never goes back, and tokens only grow: a stale
\* result cannot promote over a newer one, even after that one has completed.
RevisionsNeverRegress ==
  [][\A r \in Robots :
       /\ ~Older(active'[r].rev, active[r].rev)
       /\ Activated(r) => active'[r].token > lastToken]_vars

\* Without supersession, only the repair sends a rover back to where it failed:
\* a request for the very point of the failure is not activated again in the same
\* target epoch, through any of the three activation paths.  A command fails at
\* its repaired point, so a request that the repair had moved is not recognised
\* when it comes again, and nothing is claimed of it.
OnlyRepairRetriesFailure ==
  [][reactive \/
     \A r \in Robots : Activated(r) =>
       ~(/\ lastFail[r].point # NoPoint
         /\ active'[r].epoch = lastFail[r].epoch
         /\ <<active'[r].requested, lastFail[r].point>> \in Repeated)]_vars

\* A stopped trial stays silent: whatever callback arrives after _stop_trial,
\* no further command is ever issued.
NoCommandAfterStop == [][faulted => lastToken' = lastToken]_vars

\* README (Reliability behavior): after an acknowledgement a same-epoch
\* destination within the repetition distance continues loiter without a new
\* token while the rover stays near it.
ReachedDestinationNotReissued ==
  [][(/\ ~reactive
      /\ \E setpoints \in [Robots -> Points], version \in Versions :
           UpdateAndTick(setpoints, version.epoch, version.rev, Reached)) =>
     \A r \in Robots : Activated(r) =>
       ~(/\ lastAck[r].point # NoPoint
         /\ active'[r].epoch = lastAck[r].epoch
         /\ <<active'[r].point, lastAck[r].point>> \in Repeated)]_vars
=============================================================================
