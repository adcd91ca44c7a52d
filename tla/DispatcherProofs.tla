-------------------------- MODULE DispatcherProofs --------------------------
(***************************************************************************)
(* Safety of the dispatcher for every set of robots and points and every   *)
(* value of its bounds.                                                    *)
(*                                                                         *)
(* Every action ends in ActivatePending applied to slots it has already    *)
(* updated (acknowledge, tick, update_pending) or only empties slots       *)
(* (fail, stop).  The lemmas therefore state what ActivatePending keeps    *)
(* for any updated slots `act` and `pend`; the theorems then show that the *)
(* updates themselves are harmless.                                        *)
(***************************************************************************)
EXTENDS Dispatcher, FiniteSetTheorems, TLAPS

Commands(act) == act \in [Robots -> Command]
Requests(pend) == pend \in [Robots -> Request]

-----------------------------------------------------------------------------
(***************************************************************************)
(* Types.                                                                  *)
(***************************************************************************)

\* A batch is a finite set of robots, so its size is a natural number.
LEMMA BatchSize ==
  ASSUME NEW batch \in SUBSET Robots
  PROVE  /\ IsFiniteSet(batch)
         /\ Cardinality(batch) \in Nat
         /\ \A r \in batch : Cardinality({s \in batch : s <= r}) \in Nat
<1>1. IsFiniteSet(batch)
  BY RobotsAssumption, FS_Subset
<1>2. ASSUME NEW r \in batch
      PROVE  IsFiniteSet({s \in batch : s <= r})
  BY <1>1, FS_Subset
<1>. QED
  BY <1>1, <1>2, FS_CardinalityType

\* Repair returns a point for every member of the batch.
LEMMA RepairsTyped ==
  ASSUME NEW act, NEW pend, Requests(pend), NEW ids \in SUBSET Robots,
         NEW chosen \in Repairs(act, Eligible(act, pend, ids),
                                Proposed(pend, Eligible(act, pend, ids)))
  PROVE  chosen \in [Eligible(act, pend, ids) -> Points]
BY DEF Requests, Request, Maybe, Repairs, Eligible, Proposed

LEMMA ActivationTyped ==
  ASSUME NEW act, NEW pend, NEW memo, NEW ids \in SUBSET Robots,
         Commands(act), Requests(pend), lastToken \in Nat,
         superseded \in [Robots -> SUBSET Nat], commanded \subseteq Robots,
         ActivatePending(act, pend, memo, ids)
  PROVE  /\ Commands(active')
         /\ Requests(pending')
         /\ lastToken' \in Nat
         /\ superseded' \in [Robots -> SUBSET Nat]
         /\ commanded' \subseteq Robots
<1> DEFINE batch == Eligible(act, pend, ids)
<1>0. batch \subseteq Robots
  BY DEF Eligible
<1>1. CASE active' = act /\ pending' = pend /\ UNCHANGED <<superseded, lastToken, commanded>>
  BY <1>1
<1>2. ASSUME NEW chosen \in Repairs(act, batch, Proposed(pend, batch)),
             Publish(act, pend, batch, chosen)
      PROVE  /\ Commands(active')
             /\ Requests(pending')
             /\ lastToken' \in Nat
             /\ superseded' \in [Robots -> SUBSET Nat]
             /\ commanded' \subseteq Robots
  <2> HIDE DEF batch
  <2>1. chosen \in [batch -> Points]
    BY <1>2, RepairsTyped DEF batch
  <2>2. \A r \in batch : TokenOf(batch, r) \in Nat
    BY <1>0, BatchSize DEF TokenOf
  <2>3. Commands(active')
    BY <1>0, <1>2, <2>1, <2>2 DEF Publish, Commands, Command, Requests, Request, Maybe
  <2>4. Requests(pending')
    BY <1>2 DEF Publish, Requests, Request, Maybe
  <2>5. lastToken' \in Nat
    <3>1. Cardinality(batch) \in Nat
      BY <1>0, BatchSize
    <3>2. lastToken' = lastToken + Cardinality(batch)
      BY <1>2 DEF Publish
    <3>. QED
      BY <3>1, <3>2
  <2>6. \A r \in Robots : NewestTokens(superseded[r] \cup {act[r].token}) \subseteq Nat
    BY DEF NewestTokens, Commands, Command
  <2>7. superseded' \in [Robots -> SUBSET Nat]
    BY <1>2, <2>6 DEF Publish
  <2>. QED
    BY <1>0, <1>2, <2>3, <2>4, <2>5, <2>7 DEF Publish
<1>. QED
  BY <1>1, <1>2 DEF ActivatePending

\* Dropping a suppressed request, and taking over setpoints, keep the types.
LEMMA DropIfTyped ==
  ASSUME NEW request \in Request, NEW condition
  PROVE  DropIf(condition, request) \in Request
BY DEF DropIf, Request, Maybe

LEMMA TickPendingTyped ==
  ASSUME NEW pend, Requests(pend), NEW near
  PROVE  Requests(TickPending(pend, near))
BY DropIfTyped DEF TickPending, Requests

LEMMA PendingAfterTyped ==
  ASSUME NEW setpoints \in [Robots -> Points], NEW epoch \in Nat,
         NEW rev \in Nat \X Nat, Requests(pending)
  PROVE  Requests(PendingAfter(setpoints, epoch, rev))
BY BoundsAssumption DEF PendingAfter, Requests, Request, Retains, Maybe, Revision

LEMMA IdleTyped ==
  ASSUME NEW slot \in Command
  PROVE  Idle(slot) \in Command
BY DEF Idle, Command, Maybe, NoToken

LEMMA TypeInit == Init => TypeOK
<1> SUFFICES ASSUME Init PROVE TypeOK
  OBVIOUS
<1> USE DEF Init, Maybe, Revision, NoToken
<1>1. active \in [Robots -> Command]
  BY DEF Command
<1>2. pending \in [Robots -> Request]
  BY DEF Request
<1>3. lastAck \in [Robots -> Outcome] /\ lastFail \in [Robots -> Outcome]
  BY DEF Outcome
<1>4. superseded \in [Robots -> SUBSET Nat] /\ newest \in [Robots -> Maybe(Points)]
  OBVIOUS
<1>5. /\ lastToken \in Nat /\ faulted \in BOOLEAN /\ commanded \subseteq Robots
      /\ reactive \in BOOLEAN
  OBVIOUS
<1>. QED
  BY <1>1, <1>2, <1>3, <1>4, <1>5 DEF TypeOK

LEMMA TickTyped ==
  ASSUME TypeOK, NEW pend, Requests(pend), NEW memo, NEW near,
         TickFrom(pend, memo, near)
  PROVE  /\ Commands(active')
         /\ Requests(pending')
         /\ lastToken' \in Nat
         /\ superseded' \in [Robots -> SUBSET Nat]
         /\ commanded' \subseteq Robots
<1>1. CASE faulted
  BY <1>1 DEF TickFrom, TypeOK, Commands
<1>2. CASE ~faulted
  BY <1>2, TickPendingTyped, ActivationTyped DEF TickFrom, TypeOK, Commands
<1>. QED
  BY <1>1, <1>2

\* An update of one slot by a member of its type keeps the type.
LEMMA AcknowledgedSlotsTyped ==
  ASSUME TypeOK, NEW r \in Robots, NEW condition
  PROVE  /\ Commands([active EXCEPT ![r] = Idle(@)])
         /\ Requests([pending EXCEPT ![r] = DropIf(condition, @)])
<1>1. active[r] \in Command /\ pending[r] \in Request
  BY DEF TypeOK
<1>2. Idle(active[r]) \in Command /\ DropIf(condition, pending[r]) \in Request
  BY <1>1, IdleTyped, DropIfTyped
<1>. QED
  BY <1>2 DEF TypeOK, Commands, Requests

\* A matching notification is recorded with the point and epoch it answers.
LEMMA OutcomeTyped ==
  ASSUME TypeOK, NEW r \in Robots
  PROVE  [point |-> active[r].point, epoch |-> active[r].epoch] \in Outcome
BY DEF TypeOK, Command, Outcome

LEMMA TypeTick ==
  ASSUME TypeOK, UNCHANGED reactive, NEW near, Tick(near)
  PROVE  TypeOK'
<1>1. Requests(pending)
  BY DEF TypeOK, Requests
<1>2. TickFrom(pending, failedBatch, near)
  BY DEF Tick
<1>. QED
  BY <1>1, <1>2, TickTyped DEF TypeOK, Tick, Commands, Requests

LEMMA TypeUpdateAndTick ==
  ASSUME TypeOK, UNCHANGED reactive, NEW setpoints \in [Robots -> Points], NEW version \in Versions,
         NEW near, UpdateAndTick(setpoints, version.epoch, version.rev, near)
  PROVE  TypeOK'
<1>1. version.epoch \in Nat /\ version.rev \in Nat \X Nat
  BY BoundsAssumption
<1>2. Requests(PendingAfter(setpoints, version.epoch, version.rev))
  BY <1>1, PendingAfterTyped DEF TypeOK, Requests
<1>3. newest' \in [Robots -> Maybe(Points)]
  BY DEF UpdateAndTick, NewestAfter, TypeOK, Maybe
<1>4. TickFrom(PendingAfter(setpoints, version.epoch, version.rev),
               MemoAfter(version.rev), near)
  BY DEF UpdateAndTick
<1>5. UNCHANGED <<lastAck, lastFail, faulted>>
  BY DEF UpdateAndTick
<1>. QED
  BY <1>2, <1>3, <1>4, <1>5, TickTyped DEF TypeOK, Commands, Requests

LEMMA TypeAcknowledge ==
  ASSUME TypeOK, UNCHANGED reactive, NEW r \in Robots, NEW token, NEW point, NEW measured,
         Acknowledge(r, token, point, measured)
  PROVE  TypeOK'
<1> DEFINE reached == [point |-> active[r].point, epoch |-> active[r].epoch]
           act == [active EXCEPT ![r] = Idle(@)]
           pend == [pending EXCEPT ![r] =
                      DropIf(Suppressed(@, reached, lastFail[r], measured), @)]
<1>1. Commands(act) /\ Requests(pend)
  BY AcknowledgedSlotsTyped
<1>2. /\ ActivatePending(act, pend, failedBatch, {r})
      /\ lastAck' = [lastAck EXCEPT ![r] = reached]
      /\ UNCHANGED <<lastFail, faulted, newest>>
  BY DEF Acknowledge
<1>3. reached \in Outcome
  BY OutcomeTyped
<1>4. lastAck' \in [Robots -> Outcome]
  BY <1>2, <1>3 DEF TypeOK
<1> HIDE DEF act, pend, reached
<1>5. /\ Commands(active') /\ Requests(pending') /\ lastToken' \in Nat
      /\ superseded' \in [Robots -> SUBSET Nat] /\ commanded' \subseteq Robots
  BY <1>1, <1>2, ActivationTyped DEF TypeOK
<1>. QED
  BY <1>2, <1>4, <1>5 DEF TypeOK, Commands, Requests

LEMMA TypeFail ==
  ASSUME TypeOK, UNCHANGED reactive, NEW r \in Robots, NEW token, NEW point,
         Fail(r, token, point)
  PROVE  TypeOK'
<1> DEFINE failure == [point |-> active[r].point, epoch |-> active[r].epoch]
<1>1. /\ active' = [active EXCEPT ![r] = Idle(@)]
      /\ pending' = [pending EXCEPT ![r] =
                       DropIf(Suppressed(@, lastAck[r], failure, "unknown"), @)]
      /\ lastFail' = [lastFail EXCEPT ![r] = failure]
      /\ UNCHANGED <<lastAck, superseded, lastToken, faulted, commanded, newest>>
  BY DEF Fail
<1>2. Commands(active') /\ Requests(pending')
  BY <1>1, AcknowledgedSlotsTyped
<1>3. failure \in Outcome
  BY OutcomeTyped
<1>4. lastFail' \in [Robots -> Outcome]
  BY <1>1, <1>3 DEF TypeOK
<1>. QED
  BY <1>1, <1>2, <1>4 DEF TypeOK, Commands, Requests

LEMMA TypeStop ==
  ASSUME TypeOK, UNCHANGED reactive, StopTrial
  PROVE  TypeOK'
<1>1. active' \in [Robots -> Command]
  BY IdleTyped DEF TypeOK, StopTrial
<1>2. pending' \in [Robots -> Request]
  BY DEF TypeOK, StopTrial, Request, Maybe
<1>3. /\ faulted' \in BOOLEAN
      /\ superseded' \in [Robots -> SUBSET Nat]
      /\ UNCHANGED <<lastAck, lastFail, lastToken, commanded, newest>>
  BY DEF StopTrial
<1>. QED
  BY <1>1, <1>2, <1>3 DEF TypeOK

\* What Next is made of, for the proofs that go by action.
LEMMA NextByAction ==
  ASSUME Next
  PROVE  /\ UNCHANGED reactive
         /\ \/ \E near \in SUBSET Robots : Tick(near)
            \/ \E near \in SUBSET Robots, setpoints \in [Robots -> Points],
                  version \in Versions :
                 UpdateAndTick(setpoints, version.epoch, version.rev, near)
            \/ \E r \in Robots : \E token, point, measured :
                 Acknowledge(r, token, point, measured)
            \/ \E r \in Robots : \E token, point : Fail(r, token, point)
            \/ StopTrial
<1>1. Reached \subseteq Robots
  BY DEF Reached
<1>. QED
  BY <1>1 DEF Next

LEMMA TypeNext ==
  ASSUME TypeOK, [Next]_vars
  PROVE  TypeOK'
<1>1. CASE Next
  BY <1>1, NextByAction, TypeTick, TypeUpdateAndTick, TypeAcknowledge, TypeFail, TypeStop
<1>2. CASE UNCHANGED vars
  BY <1>2 DEF TypeOK, vars
<1>. QED
  BY <1>1, <1>2

\* The slots, caches and counters keep their types in every behaviour.
THEOREM TypeCorrect == Spec => []TypeOK
BY TypeInit, TypeNext, PTL DEF Spec

-----------------------------------------------------------------------------
(***************************************************************************)
(* Separation of the commands in execution.                                *)
(***************************************************************************)
SeparatedCommands(act) ==
  \A r, s \in Robots :
    (r # s /\ act[r].point # NoPoint /\ act[s].point # NoPoint)
      => <<act[r].point, act[s].point>> \notin TooClose

\* Whatever repair accepts leaves the whole endpoint map separated.
LEMMA RepairsSeparate ==
  ASSUME NEW act, NEW batch, NEW proposed, NEW chosen \in Repairs(act, batch, proposed)
  PROVE  Separated(Endpoints(act, batch, chosen))
BY DEF Repairs

\* Emptying slots never brings two commands together.
LEMMA FewerCommandsSeparated ==
  ASSUME NEW act, NEW act2, SeparatedCommands(act),
         \A r \in Robots : act2[r].point \in {act[r].point, NoPoint}
  PROVE  SeparatedCommands(act2)
BY DEF SeparatedCommands

LEMMA ActivationSeparates ==
  ASSUME NEW act, NEW pend, NEW memo, NEW ids \in SUBSET Robots,
         Commands(act), Requests(pend), SeparatedCommands(act),
         ActivatePending(act, pend, memo, ids)
  PROVE  SeparatedCommands(active')
<1> DEFINE batch == Eligible(act, pend, ids)
<1>1. CASE active' = act
  BY <1>1
<1>2. ASSUME NEW chosen \in Repairs(act, batch, Proposed(pend, batch)),
             Publish(act, pend, batch, chosen)
      PROVE  SeparatedCommands(active')
  <2> DEFINE endpoints == Endpoints(act, batch, chosen)
  <2>1. Separated(endpoints)
    BY <1>2, RepairsSeparate
  <2>2. ASSUME NEW r \in Robots, active'[r].point # NoPoint
        PROVE  r \in DOMAIN endpoints /\ endpoints[r] = active'[r].point
    <3>1. active'[r].point = IF r \in batch THEN chosen[r] ELSE act[r].point
      BY <1>2 DEF Publish
    <3>2. r \in batch \cup Busy(act)
      BY <2>2, <3>1 DEF Busy
    <3>. QED
      BY <3>1, <3>2 DEF Endpoints
  <2>3. ASSUME NEW r \in Robots, NEW s \in Robots, r # s,
               active'[r].point # NoPoint, active'[s].point # NoPoint
        PROVE  <<active'[r].point, active'[s].point>> \notin TooClose
    <3> HIDE DEF endpoints
    <3>1. /\ r \in DOMAIN endpoints /\ endpoints[r] = active'[r].point
          /\ s \in DOMAIN endpoints /\ endpoints[s] = active'[s].point
      BY <2>2, <2>3
    <3>. QED
      BY <2>1, <2>3, <3>1 DEF Separated
  <2>. QED
    BY <2>3 DEF SeparatedCommands
<1>. QED
  BY <1>1, <1>2 DEF ActivatePending

LEMMA TickSeparates ==
  ASSUME TypeOK, ActiveEndpointsSeparated, NEW pend, Requests(pend), NEW memo,
         NEW near, TickFrom(pend, memo, near)
  PROVE  ActiveEndpointsSeparated'
<1>1. SeparatedCommands(active) /\ Commands(active)
  BY DEF SeparatedCommands, ActiveEndpointsSeparated, TypeOK, Commands
<1>2. SeparatedCommands(active')
  <2>1. CASE faulted
    BY <1>1, <2>1 DEF TickFrom
  <2>2. CASE ~faulted
    BY <1>1, <2>2, TickPendingTyped, ActivationSeparates DEF TickFrom
  <2>. QED
    BY <2>1, <2>2
<1>. QED
  BY <1>2 DEF SeparatedCommands, ActiveEndpointsSeparated

LEMMA SeparationNext ==
  ASSUME TypeOK, ActiveEndpointsSeparated, [Next]_vars
  PROVE  ActiveEndpointsSeparated'
<1>0. SeparatedCommands(active)
  BY DEF SeparatedCommands, ActiveEndpointsSeparated
<1>1. ASSUME NEW near, Tick(near)
      PROVE  ActiveEndpointsSeparated'
  BY <1>1, TickSeparates DEF Tick, TypeOK, Requests
<1>2. ASSUME NEW near, NEW setpoints \in [Robots -> Points], NEW version \in Versions,
             UpdateAndTick(setpoints, version.epoch, version.rev, near)
      PROVE  ActiveEndpointsSeparated'
  <2>1. version.epoch \in Nat /\ version.rev \in Nat \X Nat
    BY BoundsAssumption
  <2>2. Requests(PendingAfter(setpoints, version.epoch, version.rev))
    BY <2>1, PendingAfterTyped DEF TypeOK, Requests
  <2>. QED
    BY <1>2, <2>2, TickSeparates DEF UpdateAndTick
<1>3. ASSUME NEW r \in Robots, NEW token, NEW point, NEW measured,
             Acknowledge(r, token, point, measured)
      PROVE  ActiveEndpointsSeparated'
  <2> DEFINE reached == [point |-> active[r].point, epoch |-> active[r].epoch]
             act == [active EXCEPT ![r] = Idle(@)]
             pend == [pending EXCEPT ![r] =
                        DropIf(Suppressed(@, reached, lastFail[r], measured), @)]
  <2>1. Commands(act) /\ Requests(pend)
    BY AcknowledgedSlotsTyped
  <2>2. ActivatePending(act, pend, failedBatch, {r})
    BY <1>3 DEF Acknowledge
  <2>3. \A s \in Robots : act[s].point \in {active[s].point, NoPoint}
    BY DEF Idle, TypeOK, Command
  <2> HIDE DEF act, pend
  <2>4. SeparatedCommands(act)
    BY <1>0, <2>3, FewerCommandsSeparated
  <2>5. SeparatedCommands(active')
    BY <2>1, <2>2, <2>4, ActivationSeparates
  <2>. QED
    BY <2>5 DEF SeparatedCommands, ActiveEndpointsSeparated
<1>4. ASSUME NEW r \in Robots, NEW token, NEW point, Fail(r, token, point)
      PROVE  ActiveEndpointsSeparated'
  <2>1. \A s \in Robots : active'[s].point \in {active[s].point, NoPoint}
    BY <1>4 DEF Fail, Idle, TypeOK, Command
  <2>2. SeparatedCommands(active')
    BY <1>0, <2>1, FewerCommandsSeparated
  <2>. QED
    BY <2>2 DEF SeparatedCommands, ActiveEndpointsSeparated
<1>5. CASE StopTrial
  BY <1>5 DEF StopTrial, Idle, TypeOK, Command, ActiveEndpointsSeparated
<1>6. CASE UNCHANGED vars
  BY <1>6 DEF ActiveEndpointsSeparated, vars
<1>. QED
  BY <1>1, <1>2, <1>3, <1>4, <1>5, <1>6, NextByAction

\* The commands in execution are pairwise separated in every behaviour, for any
\* number of rovers: no mixture of batch activation, acknowledgement callback
\* and supersession gets past the repair in _activate_pending.
THEOREM SeparationCorrect == Spec => []ActiveEndpointsSeparated
<1>1. Init => ActiveEndpointsSeparated
  BY DEF Init, ActiveEndpointsSeparated
<1>2. TypeOK /\ ActiveEndpointsSeparated /\ [Next]_vars => ActiveEndpointsSeparated'
  BY SeparationNext
<1>. QED
  BY <1>1, <1>2, TypeCorrect, PTL DEF Spec

-----------------------------------------------------------------------------
(***************************************************************************)
(* The memo of a rejected batch.  It is compared with the signature of the *)
(* current batch, which holds everything the verdict depended on.          *)
(***************************************************************************)
Unsafe(signature) ==
  ~Separated([r \in DOMAIN signature.proposed \cup DOMAIN signature.fixed |->
                IF r \in DOMAIN signature.proposed
                THEN signature.proposed[r].point ELSE signature.fixed[r]])

MemoUnsafe(memo) == \A signature \in memo : Unsafe(signature)

\* A signature determines the endpoint map of its batch.
LEMMA SignatureDecides ==
  ASSUME NEW act, NEW pend, NEW batch \in SUBSET Robots
  PROVE  Unsafe(Signature(act, pend, batch))
           <=> ~Separated(Endpoints(act, batch, Proposed(pend, batch)))
<1> DEFINE sig == Signature(act, pend, batch)
           decided == [r \in DOMAIN sig.proposed \cup DOMAIN sig.fixed |->
                         IF r \in DOMAIN sig.proposed
                         THEN sig.proposed[r].point ELSE sig.fixed[r]]
<1>1. DOMAIN sig.proposed = batch /\ DOMAIN sig.fixed = Busy(act) \ batch
  BY DEF Signature
<1>2. \A r \in batch : sig.proposed[r].point = pend[r].point
  BY DEF Signature
<1>3. \A r \in Busy(act) \ batch : sig.fixed[r] = act[r].point
  BY DEF Signature
<1> HIDE DEF sig
<1>4. decided = Endpoints(act, batch, Proposed(pend, batch))
  BY <1>1, <1>2, <1>3 DEF Endpoints, Proposed
<1>. QED
  BY <1>4 DEF Unsafe, sig

LEMMA ActivationMemo ==
  ASSUME NEW act, NEW pend, NEW memo, NEW ids \in SUBSET Robots,
         MemoUnsafe(memo), ActivatePending(act, pend, memo, ids)
  PROVE  MemoUnsafe(failedBatch')
<1> DEFINE batch == Eligible(act, pend, ids)
<1>1. batch \in SUBSET Robots
  BY DEF Eligible
<1>2. CASE failedBatch' = memo
  BY <1>2
<1>3. CASE failedBatch' = {}
  BY <1>3 DEF MemoUnsafe
<1>4. CASE /\ ~Separated(Endpoints(act, batch, Proposed(pend, batch)))
           /\ failedBatch' = {Signature(act, pend, batch)}
  <2> HIDE DEF batch
  <2>1. Unsafe(Signature(act, pend, batch))
    BY <1>1, <1>4, SignatureDecides
  <2>. QED
    BY <1>4, <2>1 DEF MemoUnsafe
<1>. QED
  BY <1>2, <1>3, <1>4 DEF ActivatePending

LEMMA MemoNext ==
  ASSUME MemoUnsafe(failedBatch), [Next]_vars
  PROVE  MemoUnsafe(failedBatch')
<1>1. ASSUME NEW near, Tick(near)
      PROVE  MemoUnsafe(failedBatch')
  BY <1>1, ActivationMemo DEF Tick, TickFrom
<1>2. ASSUME NEW near, NEW setpoints, NEW epoch, NEW rev,
             UpdateAndTick(setpoints, epoch, rev, near)
      PROVE  MemoUnsafe(failedBatch')
  <2>1. MemoUnsafe(MemoAfter(rev))
    BY DEF MemoAfter, MemoUnsafe
  <2>. QED
    BY <1>2, <2>1, ActivationMemo DEF UpdateAndTick, TickFrom
<1>3. ASSUME NEW r \in Robots, NEW token, NEW point, NEW measured,
             Acknowledge(r, token, point, measured)
      PROVE  MemoUnsafe(failedBatch')
  BY <1>3, ActivationMemo DEF Acknowledge
<1>4. ASSUME NEW r \in Robots, NEW token, NEW point, Fail(r, token, point)
      PROVE  MemoUnsafe(failedBatch')
  BY <1>4 DEF Fail
<1>5. CASE StopTrial
  BY <1>5 DEF StopTrial
<1>6. CASE UNCHANGED vars
  BY <1>6 DEF vars
<1>. QED
  BY <1>1, <1>2, <1>3, <1>4, <1>5, <1>6, NextByAction

\* A batch that needs no repair is never withheld because an earlier batch was
\* rejected (last_activation_failure against _activation_signature).
THEOREM MemoCorrect == Spec => []MemoNeverHidesSafeBatch
<1>1. Init => MemoUnsafe(failedBatch)
  BY DEF Init, MemoUnsafe
<1>2. MemoUnsafe(failedBatch) /\ [Next]_vars => MemoUnsafe(failedBatch)'
  BY MemoNext
<1>3. MemoUnsafe(failedBatch) => MemoNeverHidesSafeBatch
  <2> SUFFICES ASSUME MemoUnsafe(failedBatch),
                      NEW ids \in {Robots} \cup {{r} : r \in Robots},
                      Signature(active, pending, Eligible(active, pending, ids)) \in failedBatch
               PROVE  ~Separated(Endpoints(active, Eligible(active, pending, ids),
                                   Proposed(pending, Eligible(active, pending, ids))))
    BY DEF MemoNeverHidesSafeBatch
  <2>1. Eligible(active, pending, ids) \in SUBSET Robots
    BY DEF Eligible
  <2>2. Unsafe(Signature(active, pending, Eligible(active, pending, ids)))
    BY DEF MemoUnsafe
  <2>. QED
    BY <2>1, <2>2, SignatureDecides
<1>. QED
  BY <1>1, <1>2, <1>3, PTL DEF Spec

-----------------------------------------------------------------------------
(***************************************************************************)
(* Freshness of what is activated.  A waiting request is the newest one    *)
(* accepted for its rover and is not older than the active command.        *)
(***************************************************************************)
Fresh(act, pend, newer) ==
  \A r \in Robots : pend[r].point # NoPoint =>
    pend[r].point = newer[r] /\ ~Older(pend[r].rev, act[r].rev)

LEMMA OlderIrreflexive ==
  ASSUME NEW rev \in Revision
  PROVE  ~Older(rev, rev)
BY DEF Revision, Older

\* What one activation does to the slot of a rover.
LEMMA ActivationOfRover ==
  ASSUME NEW act, NEW pend, NEW memo, NEW ids \in SUBSET Robots,
         Commands(act), Requests(pend), lastToken \in Nat,
         ActivatePending(act, pend, memo, ids),
         NEW r \in Robots
  PROVE  \/ active'[r] = act[r] /\ pending'[r] = pend[r]
         \/ /\ r \in ids
            /\ pend[r].point # NoPoint
            /\ act[r].point = NoPoint \/ pend[r].supersede
            /\ active'[r].point # NoPoint
            /\ active'[r].requested = pend[r].point
            /\ active'[r].epoch = pend[r].epoch
            /\ active'[r].rev = pend[r].rev
            /\ active'[r].token \in Nat /\ active'[r].token > lastToken
            /\ active'[r].token <= lastToken'
            /\ pending'[r].point = NoPoint
            /\ pending'[r].rev = pend[r].rev
            /\ lastToken' \in Nat
<1> DEFINE batch == Eligible(act, pend, ids)
<1>1. CASE active' = act /\ pending' = pend
  BY <1>1
<1>2. ASSUME NEW chosen \in Repairs(act, batch, Proposed(pend, batch)),
             Publish(act, pend, batch, chosen), r \in batch
      PROVE  /\ r \in ids
             /\ pend[r].point # NoPoint
             /\ act[r].point = NoPoint \/ pend[r].supersede
             /\ active'[r].point # NoPoint
             /\ active'[r].requested = pend[r].point
             /\ active'[r].epoch = pend[r].epoch
             /\ active'[r].rev = pend[r].rev
             /\ active'[r].token \in Nat /\ active'[r].token > lastToken
             /\ active'[r].token <= lastToken'
             /\ pending'[r].point = NoPoint
             /\ pending'[r].rev = pend[r].rev
             /\ lastToken' \in Nat
  <2>1. batch \in SUBSET Robots
    BY DEF Eligible
  <2>2. r \in ids /\ pend[r].point # NoPoint /\ (act[r].point = NoPoint \/ pend[r].supersede)
    BY <1>2 DEF Eligible
  <2>3. chosen \in [batch -> Points]
    BY <1>2, RepairsTyped
  <2> HIDE DEF batch
  <2>4. /\ active'[r] = [point |-> chosen[r], requested |-> pend[r].point,
                         token |-> TokenOf(batch, r), epoch |-> pend[r].epoch,
                         rev |-> pend[r].rev]
        /\ pending'[r] = [pend[r] EXCEPT !.point = NoPoint, !.supersede = FALSE]
        /\ lastToken' = lastToken + Cardinality(batch)
    BY <1>2 DEF Publish
  <2>5. pending'[r].point = NoPoint /\ pending'[r].rev = pend[r].rev
    BY <2>4 DEF Requests, Request
  <2>6. active'[r].point # NoPoint
    BY <1>2, <2>3, <2>4, PointsAssumption
  <2> DEFINE rank == {s \in batch : s <= r}
  <2>7. /\ Cardinality(rank) \in Nat /\ Cardinality(batch) \in Nat
        /\ IsFiniteSet(batch) /\ IsFiniteSet(rank)
    <3>1. IsFiniteSet(batch)
      BY <2>1, BatchSize
    <3>2. IsFiniteSet(rank)
      BY <3>1, FS_Subset
    <3>. QED
      BY <3>1, <3>2, FS_CardinalityType
  <2>8. Cardinality(rank) <= Cardinality(batch)
    BY <2>7, FS_Subset
  <2>9. Cardinality(rank) > 0
    <3>1. r \in rank
      BY <1>2, RobotsAssumption
    <3>2. Cardinality(rank) # 0
      BY <2>7, <3>1, FS_EmptySet
    <3>. QED
      BY <2>7, <3>2
  <2>10. active'[r].token = lastToken + Cardinality(rank)
    BY <2>4 DEF TokenOf
  <2> HIDE DEF rank
  <2>11. /\ active'[r].token \in Nat /\ active'[r].token > lastToken
         /\ active'[r].token <= lastToken' /\ lastToken' \in Nat
    BY <2>4, <2>7, <2>8, <2>9, <2>10
  <2>. QED
    BY <2>2, <2>4, <2>5, <2>6, <2>11
<1>3. ASSUME NEW chosen, Publish(act, pend, batch, chosen), r \notin batch
      PROVE  active'[r] = act[r] /\ pending'[r] = pend[r]
  BY <1>3 DEF Publish
<1>. QED
  BY <1>1, <1>2, <1>3 DEF ActivatePending

FreshStep ==
  \A r \in Robots :
    /\ Activated(r) => /\ active'[r].requested = newest'[r]
                       /\ active'[r].token > lastToken
    /\ ~Older(active'[r].rev, active[r].rev)

\* The slots of `act` still hold the active commands, or none.
SlotsKept(act) ==
  \A r \in Robots : /\ act[r].token \in {active[r].token, NoToken}
                    /\ act[r].rev = active[r].rev

LEMMA FreshActivation ==
  ASSUME TypeOK, NEW act, NEW pend, NEW memo, NEW ids \in SUBSET Robots,
         Commands(act), Requests(pend), SlotsKept(act), Fresh(act, pend, newest'),
         ActivatePending(act, pend, memo, ids)
  PROVE  Fresh(active', pending', newest') /\ FreshStep
<1> SUFFICES ASSUME NEW r \in Robots
             PROVE  /\ pending'[r].point # NoPoint =>
                         /\ pending'[r].point = newest'[r]
                         /\ ~Older(pending'[r].rev, active'[r].rev)
                    /\ Activated(r) => /\ active'[r].requested = newest'[r]
                                       /\ active'[r].token > lastToken
                    /\ ~Older(active'[r].rev, active[r].rev)
  BY DEF Fresh, FreshStep
<1>1. CASE active'[r] = act[r] /\ pending'[r] = pend[r]
  <2>1. ~Activated(r)
    BY <1>1 DEF Activated, SlotsKept
  <2>2. ~Older(active'[r].rev, active[r].rev)
    BY <1>1, OlderIrreflexive DEF SlotsKept, TypeOK, Command
  <2>. QED
    BY <1>1, <2>1, <2>2 DEF Fresh
<1>2. CASE /\ pend[r].point # NoPoint
           /\ active'[r].requested = pend[r].point
           /\ active'[r].rev = pend[r].rev
           /\ active'[r].token > lastToken
           /\ pending'[r].point = NoPoint
  BY <1>2 DEF Fresh, SlotsKept
<1>3. lastToken \in Nat
  BY DEF TypeOK
<1>. QED
  BY <1>1, <1>2, <1>3, ActivationOfRover

\* Requests that were only dropped are as fresh as before.
LEMMA DroppedStayFresh ==
  ASSUME NEW act, NEW pend, NEW pend2, NEW newer, Fresh(act, pend, newer),
         \A r \in Robots : /\ pend2[r].point \in {pend[r].point, NoPoint}
                           /\ pend2[r].rev = pend[r].rev
  PROVE  Fresh(act, pend2, newer)
BY DEF Fresh

LEMMA DropIfKeeps ==
  ASSUME NEW request \in Request, NEW condition
  PROVE  /\ DropIf(condition, request).point \in {request.point, NoPoint}
         /\ DropIf(condition, request).rev = request.rev
         /\ DropIf(condition, request).epoch = request.epoch
         /\ DropIf(condition, request).supersede = request.supersede
BY DEF DropIf, Request

LEMMA TickPendingKeeps ==
  ASSUME NEW pend, Requests(pend), NEW near
  PROVE  \A r \in Robots : /\ TickPending(pend, near)[r].point \in {pend[r].point, NoPoint}
                           /\ TickPending(pend, near)[r].rev = pend[r].rev
BY DropIfKeeps DEF TickPending, Requests

LEMMA TickFresh ==
  ASSUME TypeOK, NEW pend, Requests(pend), NEW memo, NEW near,
         Fresh(active, pend, newest'), TickFrom(pend, memo, near)
  PROVE  Fresh(active', pending', newest') /\ FreshStep
<1>1. CASE faulted
  <2>1. active' = active /\ pending' = pend
    BY <1>1 DEF TickFrom
  <2>2. FreshStep
    BY <2>1, OlderIrreflexive DEF FreshStep, Activated, TypeOK, Command
  <2>. QED
    BY <2>1, <2>2
<1>2. CASE ~faulted
  <2> DEFINE after == TickPending(pend, near)
  <2>1. Requests(after)
    BY TickPendingTyped
  <2>2. Fresh(active, after, newest')
    <3>1. \A r \in Robots : after[r].point \in {pend[r].point, NoPoint} /\ after[r].rev = pend[r].rev
      BY TickPendingKeeps
    <3> HIDE DEF after
    <3>. QED
      BY <3>1, DroppedStayFresh
  <2>3. Commands(active) /\ SlotsKept(active)
    BY DEF TypeOK, Commands, SlotsKept
  <2>4. ActivatePending(active, after, memo, Robots)
    BY <1>2 DEF TickFrom
  <2> HIDE DEF after
  <2>. QED
    BY <2>1, <2>2, <2>3, <2>4, FreshActivation
<1>. QED
  BY <1>1, <1>2

\* Taking over setpoints: an accepted request is the newest by definition, and
\* Accepts has compared its revision with the active one.
LEMMA UpdateFresh ==
  ASSUME TypeOK, Fresh(active, pending, newest), NEW setpoints \in [Robots -> Points],
         NEW epoch, NEW rev
  PROVE  Fresh(active, PendingAfter(setpoints, epoch, rev), NewestAfter(setpoints, rev))
<1> DEFINE pend == PendingAfter(setpoints, epoch, rev)
           newer == NewestAfter(setpoints, rev)
<1> SUFFICES ASSUME NEW r \in Robots, pend[r].point # NoPoint
             PROVE  pend[r].point = newer[r] /\ ~Older(pend[r].rev, active[r].rev)
  BY DEF Fresh
<1>1. CASE ~Accepts(r, rev)
  <2>1. pend[r] = pending[r] /\ newer[r] = newest[r]
    BY <1>1 DEF PendingAfter, NewestAfter
  <2>. QED
    BY <2>1 DEF Fresh
<1>2. CASE Accepts(r, rev)
  <2>1. /\ pend[r].rev = rev
        /\ pend[r].point \in {setpoints[r], NoPoint}
        /\ newer[r] = setpoints[r]
    BY <1>2 DEF PendingAfter, NewestAfter
  <2>2. ~Older(rev, active[r].rev)
    BY <1>2 DEF Accepts
  <2>. QED
    BY <2>1, <2>2
<1>. QED
  BY <1>1, <1>2

LEMMA FreshNext ==
  ASSUME TypeOK, Fresh(active, pending, newest), Next
  PROVE  Fresh(active', pending', newest') /\ FreshStep
<1>0. Requests(pending)
  BY DEF TypeOK, Requests
<1>1. ASSUME NEW near, Tick(near)
      PROVE  Fresh(active', pending', newest') /\ FreshStep
  <2>1. newest' = newest /\ TickFrom(pending, failedBatch, near)
    BY <1>1 DEF Tick
  <2>. QED
    BY <1>0, <2>1, TickFresh
<1>2. ASSUME NEW near, NEW setpoints \in [Robots -> Points], NEW version \in Versions,
             UpdateAndTick(setpoints, version.epoch, version.rev, near)
      PROVE  Fresh(active', pending', newest') /\ FreshStep
  <2> DEFINE pend == PendingAfter(setpoints, version.epoch, version.rev)
  <2>1. version.epoch \in Nat /\ version.rev \in Nat \X Nat
    BY BoundsAssumption
  <2>2. Requests(pend)
    BY <1>0, <2>1, PendingAfterTyped
  <2>3. /\ newest' = NewestAfter(setpoints, version.rev)
        /\ TickFrom(pend, MemoAfter(version.rev), near)
    BY <1>2 DEF UpdateAndTick
  <2>4. Fresh(active, pend, newest')
    BY <2>3, UpdateFresh
  <2> HIDE DEF pend
  <2>. QED
    BY <2>2, <2>3, <2>4, TickFresh
<1>3. ASSUME NEW r \in Robots, NEW token, NEW point, NEW measured,
             Acknowledge(r, token, point, measured)
      PROVE  Fresh(active', pending', newest') /\ FreshStep
  <2> DEFINE reached == [point |-> active[r].point, epoch |-> active[r].epoch]
             act == [active EXCEPT ![r] = Idle(@)]
             pend == [pending EXCEPT ![r] =
                        DropIf(Suppressed(@, reached, lastFail[r], measured), @)]
  <2>1. Commands(act) /\ Requests(pend)
    BY AcknowledgedSlotsTyped
  <2>2. ActivatePending(act, pend, failedBatch, {r}) /\ newest' = newest
    BY <1>3 DEF Acknowledge
  <2>3. SlotsKept(act)
    BY DEF Idle, TypeOK, Command, SlotsKept
  <2>4. \A s \in Robots : /\ pend[s].point \in {pending[s].point, NoPoint}
                          /\ pend[s].rev = pending[s].rev
    BY <1>0, DropIfKeeps DEF Requests
  <2>5. Fresh(act, pending, newest)
    BY <2>3 DEF Fresh, SlotsKept
  <2> HIDE DEF act, pend
  <2>6. Fresh(act, pend, newest')
    BY <2>2, <2>4, <2>5, DroppedStayFresh
  <2>. QED
    BY <2>1, <2>2, <2>3, <2>6, FreshActivation
<1>4. ASSUME NEW r \in Robots, NEW token, NEW point, Fail(r, token, point)
      PROVE  Fresh(active', pending', newest') /\ FreshStep
  <2>1. \A s \in Robots : /\ active'[s].token \in {active[s].token, NoToken}
                          /\ active'[s].rev = active[s].rev
    BY <1>4 DEF Fail, Idle, TypeOK, Command
  <2>2. \A s \in Robots : /\ pending'[s].point \in {pending[s].point, NoPoint}
                          /\ pending'[s].rev = pending[s].rev
    BY <1>0, <1>4, DropIfKeeps DEF Fail, Requests
  <2>3. newest' = newest
    BY <1>4 DEF Fail
  <2>4. Fresh(active', pending', newest')
    BY <2>1, <2>2, <2>3 DEF Fresh
  <2>. QED
    BY <2>1, <2>4, OlderIrreflexive DEF FreshStep, Activated, TypeOK, Command
<1>5. CASE StopTrial
  <2>1. \A s \in Robots : /\ active'[s].token = NoToken
                          /\ active'[s].rev = active[s].rev
                          /\ pending'[s].point = NoPoint
    BY <1>5 DEF StopTrial, Idle, TypeOK, Command, Request
  <2>. QED
    BY <2>1, OlderIrreflexive DEF Fresh, FreshStep, Activated, TypeOK, Command
<1>. QED
  BY <1>1, <1>2, <1>3, <1>4, <1>5, NextByAction

LEMMA FreshAlways == Spec => [](TypeOK /\ Fresh(active, pending, newest))
<1>1. Init => Fresh(active, pending, newest)
  BY DEF Init, Fresh
<1>2. TypeOK /\ Fresh(active, pending, newest) /\ [Next]_vars
        => Fresh(active, pending, newest)'
  <2>1. CASE UNCHANGED vars
    BY <2>1 DEF vars, Fresh
  <2>. QED
    BY <2>1, FreshNext
<1>. QED
  BY <1>1, <1>2, TypeCorrect, PTL DEF Spec

\* What goes out is the newest request accepted for that rover; a replaced or
\* retained request never comes back.
THEOREM NewestActivated == Spec => ActivationIsNewestRequest
<1>1. TypeOK /\ Fresh(active, pending, newest) /\ [Next]_vars
        => [\A r \in Robots : Activated(r) => active'[r].requested = newest'[r]]_vars
  BY FreshNext DEF FreshStep
<1>. QED
  BY <1>1, FreshAlways, PTL DEF Spec, ActivationIsNewestRequest

\* A stale result never replaces a newer command, and each command goes out
\* under a token larger than every token before it.
THEOREM RevisionsAdvance == Spec => RevisionsNeverRegress
<1>1. TypeOK /\ Fresh(active, pending, newest) /\ [Next]_vars
        => [\A r \in Robots :
              /\ ~Older(active'[r].rev, active[r].rev)
              /\ Activated(r) => active'[r].token > lastToken]_vars
  BY FreshNext DEF FreshStep
<1>. QED
  BY <1>1, FreshAlways, PTL DEF Spec, RevisionsNeverRegress

\* What an operation makes of the requests `pend` that wait when it comes to the
\* activation: it activates them with their revision, or leaves or drops them.
CarriesOut(pend) ==
  \A r \in Robots :
    /\ pending'[r].rev = pend[r].rev
    /\ pending'[r].point # NoPoint => pend[r].point # NoPoint
    /\ active'[r].rev \in {active[r].rev, pend[r].rev}
    /\ Activated(r) => pend[r].point # NoPoint /\ active'[r].rev = pend[r].rev

LEMMA ActivationCarriesOut ==
  ASSUME TypeOK, NEW act, NEW pend, NEW memo, NEW ids \in SUBSET Robots,
         Commands(act), Requests(pend), SlotsKept(act),
         ActivatePending(act, pend, memo, ids)
  PROVE  CarriesOut(pend)
<1> SUFFICES ASSUME NEW r \in Robots
             PROVE  /\ pending'[r].rev = pend[r].rev
                    /\ pending'[r].point # NoPoint => pend[r].point # NoPoint
                    /\ active'[r].rev \in {active[r].rev, pend[r].rev}
                    /\ Activated(r) => pend[r].point # NoPoint /\ active'[r].rev = pend[r].rev
  BY DEF CarriesOut
<1>1. CASE active'[r] = act[r] /\ pending'[r] = pend[r]
  BY <1>1 DEF Activated, SlotsKept
<1>2. CASE /\ pend[r].point # NoPoint
           /\ active'[r].rev = pend[r].rev
           /\ pending'[r].point = NoPoint
           /\ pending'[r].rev = pend[r].rev
  BY <1>2
<1>3. lastToken \in Nat
  BY DEF TypeOK
<1>. QED
  BY <1>1, <1>2, <1>3, ActivationOfRover

LEMMA TickCarriesOut ==
  ASSUME TypeOK, NEW pend, Requests(pend), NEW memo, NEW near,
         TickFrom(pend, memo, near)
  PROVE  CarriesOut(pend)
<1>1. CASE faulted
  BY <1>1 DEF TickFrom, CarriesOut, Activated
<1>2. CASE ~faulted
  <2> DEFINE filtered == TickPending(pend, near)
  <2>1. Requests(filtered) /\ ActivatePending(active, filtered, memo, Robots)
    BY <1>2, TickPendingTyped DEF TickFrom
  <2>2. Commands(active) /\ SlotsKept(active)
    BY DEF TypeOK, Commands, SlotsKept
  <2>3. \A r \in Robots : /\ filtered[r].point \in {pend[r].point, NoPoint}
                          /\ filtered[r].rev = pend[r].rev
    BY TickPendingKeeps
  <2> HIDE DEF filtered
  <2>4. CarriesOut(filtered)
    BY <2>1, <2>2, ActivationCarriesOut
  <2>. QED
    BY <2>3, <2>4 DEF CarriesOut
<1>. QED
  BY <1>1, <1>2

LEMMA AcknowledgeCarriesOut ==
  ASSUME TypeOK, NEW r \in Robots, NEW token, NEW point, NEW measured,
         Acknowledge(r, token, point, measured)
  PROVE  CarriesOut(pending)
<1> DEFINE reached == [point |-> active[r].point, epoch |-> active[r].epoch]
           act == [active EXCEPT ![r] = Idle(@)]
           pend == [pending EXCEPT ![r] =
                      DropIf(Suppressed(@, reached, lastFail[r], measured), @)]
<1>1. Commands(act) /\ Requests(pend)
  BY AcknowledgedSlotsTyped
<1>2. ActivatePending(act, pend, failedBatch, {r})
  BY DEF Acknowledge
<1>3. SlotsKept(act)
  BY DEF Idle, TypeOK, Command, SlotsKept
<1>4. \A s \in Robots : /\ pend[s].point \in {pending[s].point, NoPoint}
                        /\ pend[s].rev = pending[s].rev
  BY DropIfKeeps DEF TypeOK
<1> HIDE DEF act, pend
<1>5. CarriesOut(pend)
  BY <1>1, <1>2, <1>3, ActivationCarriesOut
<1>. QED
  BY <1>4, <1>5 DEF CarriesOut

LEMMA FailCarriesOut ==
  ASSUME TypeOK, NEW r \in Robots, NEW token, NEW point, Fail(r, token, point)
  PROVE  CarriesOut(pending)
<1>1. \A s \in Robots : /\ active'[s].token \in {active[s].token, NoToken}
                        /\ active'[s].rev = active[s].rev
  BY DEF Fail, Idle, TypeOK, Command
<1>2. \A s \in Robots : /\ pending'[s].point \in {pending[s].point, NoPoint}
                        /\ pending'[s].rev = pending[s].rev
  BY DropIfKeeps DEF Fail, TypeOK
<1>. QED
  BY <1>1, <1>2 DEF CarriesOut, Activated

LEMMA StopCarriesOut ==
  ASSUME TypeOK, StopTrial
  PROVE  CarriesOut(pending)
<1>1. \A s \in Robots : /\ active'[s].token = NoToken
                        /\ active'[s].rev = active[s].rev
                        /\ pending'[s].point = NoPoint
                        /\ pending'[s].rev = pending[s].rev
  BY DEF StopTrial, Idle, TypeOK, Command, Request
<1>. QED
  BY <1>1 DEF CarriesOut, Activated

-----------------------------------------------------------------------------
(***************************************************************************)
(* Tokens.  OutstandingTokensDistinct is not inductive: a replacement puts *)
(* the old token into the cache, so every outstanding token must be known  *)
(* to be at most lastToken and a busy slot to hold one.                    *)
(***************************************************************************)
TokensSound(act, old, last) ==
  /\ \A r \in Robots : /\ act[r].token <= last
                       /\ act[r].point = NoPoint <=> act[r].token = NoToken
  /\ \A r, s \in Robots : (r # s /\ act[r].token # NoToken) => act[r].token # act[s].token
  /\ \A r, s \in Robots : act[r].token # NoToken => act[r].token \notin old[s]
  /\ \A s \in Robots : \A t \in old[s] : t <= last

\* The tokens of one batch differ.
LEMMA BatchTokensDistinct ==
  ASSUME NEW batch \in SUBSET Robots, NEW r \in batch, NEW s \in batch, r # s,
         lastToken \in Nat
  PROVE  TokenOf(batch, r) # TokenOf(batch, s)
<1>1. ASSUME NEW low \in batch, NEW high \in batch, low < high
      PROVE  TokenOf(batch, low) # TokenOf(batch, high)
  <2> DEFINE below == {t \in batch : t <= low}
             upto == {t \in batch : t <= high}
  <2>1. low \in Nat /\ high \in Nat /\ batch \subseteq Nat
    BY RobotsAssumption
  <2>2. below \subseteq upto
    <3>1. \A t \in Nat : t <= low => t <= high
      BY <1>1, <2>1
    <3>2. \A t \in batch : t <= low => t <= high
      BY <2>1, <3>1
    <3>. QED
      BY <3>2
  <2>3. high \in upto /\ high \notin below
    BY <1>1, <2>1
  <2>4. IsFiniteSet(upto)
    BY BatchSize, FS_Subset
  <2> HIDE DEF below, upto
  <2>5. Cardinality(below) # Cardinality(upto)
    BY <2>2, <2>3, <2>4, FS_Subset
  <2>6. Cardinality(below) \in Nat /\ Cardinality(upto) \in Nat
    BY BatchSize DEF below, upto
  <2>7. /\ TokenOf(batch, low) = lastToken + Cardinality(below)
        /\ TokenOf(batch, high) = lastToken + Cardinality(upto)
    BY DEF TokenOf, below, upto
  <2>. QED
    BY <2>5, <2>6, <2>7
<1>2. r < s \/ s < r
  BY RobotsAssumption
<1>. QED
  BY <1>1, <1>2

LEMMA ActivationTokens ==
  ASSUME NEW act, NEW pend, NEW memo, NEW ids \in SUBSET Robots,
         Commands(act), Requests(pend), lastToken \in Nat,
         superseded \in [Robots -> SUBSET Nat],
         TokensSound(act, superseded, lastToken),
         ActivatePending(act, pend, memo, ids)
  PROVE  TokensSound(active', superseded', lastToken')
<1> DEFINE batch == Eligible(act, pend, ids)
<1>1. CASE active' = act /\ UNCHANGED <<superseded, lastToken>>
  BY <1>1
<1>2. ASSUME NEW chosen \in Repairs(act, batch, Proposed(pend, batch)),
             Publish(act, pend, batch, chosen)
      PROVE  TokensSound(active', superseded', lastToken')
  <2>1. batch \in SUBSET Robots
    BY DEF Eligible
  <2>2. chosen \in [batch -> Points]
    BY <1>2, RepairsTyped
  <2> HIDE DEF batch
  <2>3. /\ lastToken' = lastToken + Cardinality(batch)
        /\ Cardinality(batch) \in Nat
        /\ lastToken' \in Nat
        /\ lastToken' >= lastToken
    <3>1. lastToken' = lastToken + Cardinality(batch)
      BY <1>2 DEF Publish
    <3>2. Cardinality(batch) \in Nat
      BY <2>1, BatchSize
    <3>. QED
      BY <3>1, <3>2
  <2>4. ASSUME NEW r \in batch
        PROVE  /\ active'[r].token = TokenOf(batch, r)
               /\ active'[r].token \in Nat
               /\ active'[r].token > lastToken
               /\ active'[r].token <= lastToken'
               /\ active'[r].point # NoPoint
    <3> DEFINE rank == {s \in batch : s <= r}
    <3>1. r \in Robots /\ active'[r].token = TokenOf(batch, r)
      BY <1>2, <2>1 DEF Publish
    <3>2. active'[r].point # NoPoint
      BY <1>2, <2>1, <2>2, PointsAssumption DEF Publish
    <3>3. IsFiniteSet(batch)
      BY <2>1, BatchSize
    <3>4. IsFiniteSet(rank) /\ Cardinality(rank) <= Cardinality(batch)
      BY <3>3, FS_Subset
    <3>5. r \in rank
      BY <3>1, RobotsAssumption
    <3>6. Cardinality(rank) \in Nat /\ Cardinality(rank) # 0
      BY <3>4, <3>5, FS_CardinalityType, FS_EmptySet
    <3>7. TokenOf(batch, r) = lastToken + Cardinality(rank)
      BY DEF TokenOf
    <3> HIDE DEF rank
    <3>. QED
      BY <2>3, <3>1, <3>2, <3>4, <3>6, <3>7
  <2>5. \A r \in Robots \ batch : active'[r] = act[r]
    BY <1>2 DEF Publish
  <2>6. \A s \in Robots : superseded'[s] \subseteq superseded[s] \cup {act[s].token}
    BY <1>2 DEF Publish, NewestTokens
  <2>7. \A s \in Robots \ batch : superseded'[s] = superseded[s]
    BY <1>2 DEF Publish
  <2>8. \A s \in Robots : \A t \in superseded'[s] : t \in Nat /\ t <= lastToken
    BY <2>6 DEF TokensSound, Commands, Command
  <2>9. ASSUME NEW r \in Robots
        PROVE  /\ active'[r].token <= lastToken'
               /\ active'[r].point = NoPoint <=> active'[r].token = NoToken
    <3>1. CASE r \in batch
      BY <2>4, <3>1 DEF NoToken
    <3>2. CASE r \notin batch
      BY <2>3, <2>5, <3>2 DEF TokensSound, Commands, Command
    <3>. QED
      BY <3>1, <3>2
  <2>10. ASSUME NEW r \in Robots, NEW s \in Robots, r # s, active'[r].token # NoToken
         PROVE  active'[r].token # active'[s].token
    <3>1. CASE r \in batch /\ s \in batch
      BY <2>1, <2>4, <2>10, <3>1, BatchTokensDistinct
    <3>2. CASE r \in batch /\ s \notin batch
      BY <2>4, <2>5, <3>2 DEF TokensSound, Commands, Command
    <3>3. CASE r \notin batch /\ s \in batch
      BY <2>4, <2>5, <3>3 DEF TokensSound, Commands, Command
    <3>4. CASE r \notin batch /\ s \notin batch
      BY <2>5, <2>10, <3>4 DEF TokensSound
    <3>. QED
      BY <3>1, <3>2, <3>3, <3>4
  <2>11. ASSUME NEW r \in Robots, NEW s \in Robots, active'[r].token # NoToken
         PROVE  active'[r].token \notin superseded'[s]
    <3>1. CASE r \in batch
      BY <2>4, <2>8, <3>1
    <3>2. CASE r \notin batch
      <4>1. active'[r] = act[r] /\ act[r].token # NoToken
        BY <2>5, <2>11, <3>2
      <4>2. act[r].token \notin superseded[s]
        BY <4>1 DEF TokensSound
      <4>3. CASE s = r
        BY <2>7, <3>2, <4>1, <4>2, <4>3
      <4>4. CASE s # r
        BY <2>6, <4>1, <4>2, <4>4 DEF TokensSound
      <4>. QED
        BY <4>3, <4>4
    <3>. QED
      BY <3>1, <3>2
  <2>12. \A s \in Robots : \A t \in superseded'[s] : t <= lastToken'
    BY <2>3, <2>8
  <2>. QED
    BY <2>9, <2>10, <2>11, <2>12 DEF TokensSound
<1>. QED
  BY <1>1, <1>2 DEF ActivatePending

\* Emptying slots keeps tokens sound.
LEMMA FewerTokensSound ==
  ASSUME NEW act, NEW act2, NEW old, NEW last, TokensSound(act, old, last),
         last \in Nat,
         \A r \in Robots : act2[r] = act[r] \/ (act2[r].point = NoPoint /\ act2[r].token = NoToken)
  PROVE  TokensSound(act2, old, last)
BY DEF TokensSound, NoToken

LEMMA IdleIsEmpty ==
  ASSUME NEW slot \in Command
  PROVE  Idle(slot).point = NoPoint /\ Idle(slot).token = NoToken
BY DEF Idle, Command

LEMMA TokensInit == Init => TokensSound(active, superseded, lastToken)
BY DEF Init, TokensSound, NoToken

LEMMA TokensNext ==
  ASSUME TypeOK, TokensSound(active, superseded, lastToken), [Next]_vars
  PROVE  TokensSound(active', superseded', lastToken')
<1>0. Requests(pending) /\ Commands(active)
  BY DEF TypeOK, Requests, Commands
<1>00. lastToken \in Nat /\ superseded \in [Robots -> SUBSET Nat]
  BY DEF TypeOK
<1>1. ASSUME NEW pend, Requests(pend), NEW memo, NEW near, TickFrom(pend, memo, near)
      PROVE  TokensSound(active', superseded', lastToken')
  <2>1. CASE faulted
    BY <1>1, <2>1 DEF TickFrom
  <2>2. CASE ~faulted
    BY <1>0, <1>00, <1>1, <2>2, TickPendingTyped, ActivationTokens DEF TickFrom
  <2>. QED
    BY <2>1, <2>2
<1>2. ASSUME NEW near, Tick(near)
      PROVE  TokensSound(active', superseded', lastToken')
  BY <1>0, <1>1, <1>2 DEF Tick
<1>3. ASSUME NEW near, NEW setpoints \in [Robots -> Points], NEW version \in Versions,
             UpdateAndTick(setpoints, version.epoch, version.rev, near)
      PROVE  TokensSound(active', superseded', lastToken')
  <2>1. version.epoch \in Nat /\ version.rev \in Nat \X Nat
    BY BoundsAssumption
  <2>2. Requests(PendingAfter(setpoints, version.epoch, version.rev))
    BY <1>0, <2>1, PendingAfterTyped
  <2>. QED
    BY <1>1, <1>3, <2>2 DEF UpdateAndTick
<1>4. ASSUME NEW r \in Robots, NEW token, NEW point, NEW measured,
             Acknowledge(r, token, point, measured)
      PROVE  TokensSound(active', superseded', lastToken')
  <2> DEFINE reached == [point |-> active[r].point, epoch |-> active[r].epoch]
             act == [active EXCEPT ![r] = Idle(@)]
             pend == [pending EXCEPT ![r] =
                        DropIf(Suppressed(@, reached, lastFail[r], measured), @)]
  <2>1. Commands(act) /\ Requests(pend)
    BY AcknowledgedSlotsTyped
  <2>2. ActivatePending(act, pend, failedBatch, {r})
    BY <1>4 DEF Acknowledge
  <2>3. \A s \in Robots : act[s] = active[s] \/ (act[s].point = NoPoint /\ act[s].token = NoToken)
    BY <1>0, IdleIsEmpty DEF Commands
  <2> HIDE DEF act, pend
  <2>4. TokensSound(act, superseded, lastToken)
    BY <1>00, <2>3, FewerTokensSound
  <2>. QED
    BY <1>00, <2>1, <2>2, <2>4, ActivationTokens
<1>5. ASSUME NEW r \in Robots, NEW token, NEW point, Fail(r, token, point)
      PROVE  TokensSound(active', superseded', lastToken')
  <2>1. \A s \in Robots : active'[s] = active[s] \/ (active'[s].point = NoPoint /\ active'[s].token = NoToken)
    BY <1>0, <1>5, IdleIsEmpty DEF Commands, Fail
  <2>2. UNCHANGED <<superseded, lastToken>>
    BY <1>5 DEF Fail
  <2>. QED
    BY <1>00, <2>1, <2>2, FewerTokensSound
<1>6. CASE StopTrial
  <2>1. \A s \in Robots : active'[s].point = NoPoint /\ active'[s].token = NoToken
    BY <1>0, <1>6, IdleIsEmpty DEF StopTrial, Commands
  <2>2. lastToken' = lastToken /\ superseded' = [r \in Robots |-> {}]
    BY <1>6 DEF StopTrial
  <2>. QED
    BY <1>00, <2>1, <2>2 DEF TokensSound, NoToken
<1>7. CASE UNCHANGED vars
  BY <1>7 DEF vars
<1>. QED
  BY <1>2, <1>3, <1>4, <1>5, <1>6, <1>7, NextByAction

\* A late acknowledgement can never clear another rover's command, nor the
\* replacement of the command it answers.
THEOREM TokensDistinct == Spec => []OutstandingTokensDistinct
<1>1. TypeOK /\ TokensSound(active, superseded, lastToken) /\ [Next]_vars
        => TokensSound(active, superseded, lastToken)'
  BY TokensNext
<1>2. TokensSound(active, superseded, lastToken) => OutstandingTokensDistinct
  BY DEF TokensSound, OutstandingTokensDistinct
<1>. QED
  BY <1>1, <1>2, TokensInit, TypeCorrect, PTL DEF Spec

-----------------------------------------------------------------------------
(***************************************************************************)
(* The end of a trial, and failed destinations.                            *)
(***************************************************************************)
Silenced == faulted => \A r \in Robots : active[r].point = NoPoint

LEMMA SilencedNext ==
  ASSUME TypeOK, Silenced, Next
  PROVE  Silenced' /\ (faulted => lastToken' = lastToken)
<1>1. ASSUME NEW near, Tick(near)
      PROVE  Silenced' /\ (faulted => lastToken' = lastToken)
  BY <1>1 DEF Tick, TickFrom, Silenced
<1>2. ASSUME NEW near, NEW setpoints, NEW epoch, NEW rev,
             UpdateAndTick(setpoints, epoch, rev, near)
      PROVE  Silenced' /\ (faulted => lastToken' = lastToken)
  BY <1>2 DEF UpdateAndTick, Silenced
<1>3. ASSUME NEW r \in Robots, NEW token, NEW point, NEW measured,
             Acknowledge(r, token, point, measured)
      PROVE  Silenced' /\ (faulted => lastToken' = lastToken)
  BY <1>3 DEF Acknowledge, Matches, Silenced
<1>4. ASSUME NEW r \in Robots, NEW token, NEW point, Fail(r, token, point)
      PROVE  Silenced' /\ (faulted => lastToken' = lastToken)
  BY <1>4 DEF Fail, Matches, Silenced
<1>5. CASE StopTrial
  <2>1. \A r \in Robots : active'[r].point = NoPoint
    BY <1>5, IdleIsEmpty DEF StopTrial, TypeOK
  <2>. QED
    BY <1>5, <2>1 DEF StopTrial, Silenced
<1>. QED
  BY <1>1, <1>2, <1>3, <1>4, <1>5, NextByAction

\* Whatever acknowledgement, failure or timer fires after _stop_trial, nothing
\* is published any more.
THEOREM StopIsFinal == Spec => NoCommandAfterStop
<1>1. Init => Silenced
  BY DEF Init, Silenced
<1>2. TypeOK /\ Silenced /\ [Next]_vars => Silenced'
  <2>1. CASE UNCHANGED vars
    BY <2>1 DEF vars, Silenced
  <2>. QED
    BY <2>1, SilencedNext
<1>3. TypeOK /\ Silenced /\ [Next]_vars => [faulted => lastToken' = lastToken]_vars
  BY SilencedNext
<1>. QED
  BY <1>1, <1>2, <1>3, TypeCorrect, PTL DEF Spec, NoCommandAfterStop

\* Without allow_supersession no request is marked as superseding.
Waits(pend) == reactive \/ \A r \in Robots : pend[r].supersede = FALSE

Retries(r) ==
  /\ Activated(r)
  /\ lastFail[r].point # NoPoint
  /\ active'[r].epoch = lastFail[r].epoch
  /\ <<active'[r].requested, lastFail[r].point>> \in Repeated

\* Activation of requests that were checked against the failed destination.
LEMMA ActivationWaits ==
  ASSUME NEW act, NEW pend, NEW memo, NEW ids \in SUBSET Robots, Waits(pend),
         Requests(pend), ActivatePending(act, pend, memo, ids)
  PROVE  Waits(pending')
BY DEF ActivatePending, Publish, Waits, Requests, Request

LEMMA ActivationAvoidsFailed ==
  ASSUME TypeOK, ~reactive, NEW act, NEW pend, NEW memo, NEW ids \in SUBSET Robots,
         Commands(act), Requests(pend), Waits(pend), SlotsKept(act),
         \A r \in ids : (pend[r].point # NoPoint /\ act[r].point = NoPoint) =>
            ~(/\ lastFail[r].point # NoPoint
              /\ pend[r].epoch = lastFail[r].epoch
              /\ <<pend[r].point, lastFail[r].point>> \in Repeated),
         ActivatePending(act, pend, memo, ids),
         NEW r \in Robots
  PROVE  ~Retries(r)
<1>1. CASE active'[r] = act[r]
  BY <1>1 DEF Retries, Activated, SlotsKept
<1>2. CASE /\ r \in ids
           /\ pend[r].point # NoPoint
           /\ act[r].point = NoPoint \/ pend[r].supersede
           /\ active'[r].requested = pend[r].point
           /\ active'[r].epoch = pend[r].epoch
  BY <1>2 DEF Retries, Waits
<1>3. lastToken \in Nat
  BY DEF TypeOK
<1>. QED
  BY <1>1, <1>2, <1>3, ActivationOfRover

LEMMA TickAvoidsFailed ==
  ASSUME TypeOK, ~reactive, NEW pend, Requests(pend), Waits(pend), NEW memo,
         NEW near, TickFrom(pend, memo, near)
  PROVE  Waits(pending') /\ \A r \in Robots : ~Retries(r)
<1>1. CASE faulted
  BY <1>1 DEF TickFrom, Retries, Activated
<1>2. CASE ~faulted
  <2> DEFINE after == TickPending(pend, near)
  <2>1. Requests(after)
    BY TickPendingTyped
  <2>2. \A r \in Robots : /\ after[r].epoch = pend[r].epoch
                          /\ after[r].supersede = pend[r].supersede
                          /\ after[r].point \in {pend[r].point, NoPoint}
    BY DropIfKeeps DEF TickPending, Requests
  <2>3. Waits(after)
    BY <2>2 DEF Waits
  <2>4. ASSUME NEW r \in Robots, after[r].point # NoPoint, active[r].point = NoPoint
        PROVE  ~(/\ lastFail[r].point # NoPoint
                 /\ after[r].epoch = lastFail[r].epoch
                 /\ <<after[r].point, lastFail[r].point>> \in Repeated)
    <3>1. pend[r] \in Request /\ pend[r].supersede = FALSE
      BY DEF Requests, Waits
    <3>2. after[r].point = pend[r].point /\ pend[r].point # NoPoint
      BY <2>2, <2>4
    <3>3. ~Suppressed(pend[r], lastAck[r], lastFail[r],
                      IF r \in near THEN "near" ELSE "away")
      BY <2>4, <3>1, <3>2 DEF TickPending, DropIf, Request
    <3>. QED
      BY <2>2, <3>2, <3>3 DEF Suppressed
  <2>5. ActivatePending(active, after, memo, Robots)
    BY <1>2 DEF TickFrom
  <2>6. Commands(active) /\ SlotsKept(active)
    BY DEF TypeOK, Commands, SlotsKept
  <2> HIDE DEF after
  <2>7. Waits(pending')
    BY <2>1, <2>3, <2>5, ActivationWaits
  <2>8. \A r \in Robots : ~Retries(r)
    BY <2>1, <2>3, <2>4, <2>5, <2>6, ActivationAvoidsFailed
  <2>. QED
    BY <2>7, <2>8
<1>. QED
  BY <1>1, <1>2

LEMMA WaitsNext ==
  ASSUME TypeOK, ~reactive, Waits(pending), Next
  PROVE  /\ UNCHANGED reactive /\ Waits(pending')
         /\ \A r \in Robots : ~Retries(r)
<1>0. Requests(pending) /\ Commands(active)
  BY DEF TypeOK, Requests, Commands
<1>1. ASSUME NEW near, Tick(near)
      PROVE  Waits(pending') /\ \A r \in Robots : ~Retries(r)
  BY <1>0, <1>1, TickAvoidsFailed DEF Tick
<1>2. ASSUME NEW near, NEW setpoints \in [Robots -> Points], NEW version \in Versions,
             UpdateAndTick(setpoints, version.epoch, version.rev, near)
      PROVE  Waits(pending') /\ \A r \in Robots : ~Retries(r)
  <2> DEFINE pend == PendingAfter(setpoints, version.epoch, version.rev)
  <2>1. version.epoch \in Nat /\ version.rev \in Nat \X Nat
    BY BoundsAssumption
  <2>2. Requests(pend)
    BY <1>0, <2>1, PendingAfterTyped
  <2>3. Waits(pend)
    BY DEF Waits, PendingAfter
  <2>4. TickFrom(pend, MemoAfter(version.rev), near)
    BY <1>2 DEF UpdateAndTick
  <2> HIDE DEF pend
  <2>. QED
    BY <2>2, <2>3, <2>4, TickAvoidsFailed
<1>3. ASSUME NEW r \in Robots, NEW token, NEW point, NEW measured,
             Acknowledge(r, token, point, measured)
      PROVE  Waits(pending') /\ \A s \in Robots : ~Retries(s)
  <2> DEFINE reached == [point |-> active[r].point, epoch |-> active[r].epoch]
             act == [active EXCEPT ![r] = Idle(@)]
             pend == [pending EXCEPT ![r] =
                        DropIf(Suppressed(@, reached, lastFail[r], measured), @)]
  <2>1. Commands(act) /\ Requests(pend)
    BY AcknowledgedSlotsTyped
  <2>2. ActivatePending(act, pend, failedBatch, {r})
    BY <1>3 DEF Acknowledge
  <2>3. SlotsKept(act)
    BY DEF Idle, TypeOK, Command, SlotsKept
  <2>4. Waits(pend)
    BY <1>0, DropIfKeeps DEF Waits, Requests
  <2>5. pend[r].point # NoPoint =>
          ~(/\ lastFail[r].point # NoPoint
            /\ pend[r].epoch = lastFail[r].epoch
            /\ <<pend[r].point, lastFail[r].point>> \in Repeated)
    BY <1>0 DEF DropIf, Suppressed, Requests, Request
  <2> HIDE DEF act, pend
  <2>6. Waits(pending')
    BY <2>1, <2>2, <2>4, ActivationWaits
  <2>7. \A s \in Robots : ~Retries(s)
    BY <2>1, <2>2, <2>3, <2>4, <2>5, ActivationAvoidsFailed
  <2>. QED
    BY <2>6, <2>7
<1>4. ASSUME NEW r \in Robots, NEW token, NEW point, Fail(r, token, point)
      PROVE  Waits(pending') /\ \A s \in Robots : ~Retries(s)
  <2>1. \A s \in Robots : active'[s].token \in {active[s].token, NoToken}
    BY <1>4 DEF Fail, Idle, TypeOK, Command
  <2>2. Waits(pending')
    BY <1>0, <1>4, DropIfKeeps DEF Fail, Waits, Requests
  <2>. QED
    BY <2>1, <2>2 DEF Retries, Activated
<1>5. ASSUME StopTrial
      PROVE  Waits(pending') /\ \A s \in Robots : ~Retries(s)
  <2>1. \A s \in Robots : active'[s].token = NoToken /\ pending'[s].supersede = FALSE
    BY <1>0, <1>5, IdleIsEmpty DEF StopTrial, Commands, Requests, Request
  <2>. QED
    BY <2>1 DEF Retries, Activated, Waits
<1>6. UNCHANGED reactive
  BY NextByAction
<1>7. Waits(pending') /\ \A r \in Robots : ~Retries(r)
  BY <1>1, <1>2, <1>3, <1>4, <1>5, NextByAction
<1>. QED
  BY <1>6, <1>7

\* Without supersession a request for the point of a failure is not activated again
\* in the same target epoch, whether by a tick, a new result or an acknowledgement:
\* only the repair of another request leads back there.
THEOREM FailureRetriedByRepairOnly == Spec => OnlyRepairRetriesFailure
<1>1. Init => Waits(pending)
  BY DEF Init, Waits
<1>2. TypeOK /\ Waits(pending) /\ [Next]_vars => Waits(pending)'
  <2>1. CASE UNCHANGED vars
    BY <2>1 DEF vars, Waits
  <2>2. CASE reactive /\ Next
    BY <2>2, NextByAction DEF Waits
  <2>3. CASE ~reactive /\ Next
    BY <2>3, WaitsNext DEF Waits
  <2>. QED
    BY <2>1, <2>2, <2>3
<1>3. TypeOK /\ Waits(pending) /\ [Next]_vars
        => [reactive \/
            \A r \in Robots : Activated(r) =>
              ~(/\ lastFail[r].point # NoPoint
                /\ active'[r].epoch = lastFail[r].epoch
                /\ <<active'[r].requested, lastFail[r].point>> \in Repeated)]_vars
  BY WaitsNext DEF Retries
<1>. QED
  BY <1>1, <1>2, <1>3, TypeCorrect, PTL DEF Spec, OnlyRepairRetriesFailure
=============================================================================
