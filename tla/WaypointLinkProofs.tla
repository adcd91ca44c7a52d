-------------------------- MODULE WaypointLinkProofs --------------------------
(***************************************************************************)
(* The PC and the rover over their topics, for every topic depth, every    *)
(* size of the reached-token cache and any number of faults.               *)
(*                                                                         *)
(* The lemmas of the two parts are instantiated as DP and CP.              *)
(* WaypointLink's own instances are D and C, so the first lemmas say that  *)
(* they name the same operations; the rest of the module speaks of DP and  *)
(* CP.                                                                     *)
(***************************************************************************)
EXTENDS WaypointLink, SequenceTheorems, FiniteSetTheorems, TLAPS

DP == INSTANCE DispatcherProofs WITH
        Robots <- {Rover}, reactive <- Supersedes, TooClose <- {}, Repeated <- Same, Deadband <- Same

CP == INSTANCE WaypointControllerProofs WITH
        Tokens <- 1..MaxToken, FixedWing <- FALSE, MaxQueue <- MaxToken

-----------------------------------------------------------------------------
(***************************************************************************)
(* The instances.                                                          *)
(***************************************************************************)
LEMMA SameActivation ==
  ASSUME NEW act, NEW pend, NEW memo, NEW ids
  PROVE  D!ActivatePending(act, pend, memo, ids) = DP!ActivatePending(act, pend, memo, ids)
BY Zenon DEF D!ActivatePending, DP!ActivatePending, D!Publish, DP!Publish,
   D!Signature, DP!Signature, D!Eligible, DP!Eligible, D!Repairs, DP!Repairs,
   D!Proposed, DP!Proposed, D!Separated, DP!Separated, D!Endpoints, DP!Endpoints,
   D!Busy, DP!Busy, D!NoToken, DP!NoToken, D!TokenOf, DP!TokenOf,
   D!NewestTokens, DP!NewestTokens, D!Cardinality, DP!Cardinality

LEMMA SameTickFrom ==
  ASSUME NEW pend, NEW memo, NEW near
  PROVE  D!TickFrom(pend, memo, near) = DP!TickFrom(pend, memo, near)
BY Zenon, SameActivation DEF D!TickFrom, DP!TickFrom, D!TickPending, DP!TickPending,
   D!Suppressed, DP!Suppressed, D!DropIf, DP!DropIf

LEMMA SameTick ==
  ASSUME NEW near
  PROVE  D!Tick(near) = DP!Tick(near)
BY Zenon, SameTickFrom DEF D!Tick, DP!Tick

LEMMA SameUpdate ==
  ASSUME NEW setpoints, NEW epoch, NEW rev, NEW near
  PROVE  D!UpdateAndTick(setpoints, epoch, rev, near)
           = DP!UpdateAndTick(setpoints, epoch, rev, near)
BY Zenon, SameTickFrom DEF D!UpdateAndTick, DP!UpdateAndTick, D!PendingAfter,
   DP!PendingAfter, D!MemoAfter, DP!MemoAfter, D!NewestAfter, DP!NewestAfter,
   D!Accepted, DP!Accepted, D!Accepts, DP!Accepts, D!Retains, DP!Retains,
   D!Older, DP!Older

LEMMA SameAcknowledge ==
  ASSUME NEW r, NEW token, NEW point, NEW measured
  PROVE  D!Acknowledge(r, token, point, measured)
           = DP!Acknowledge(r, token, point, measured)
BY Zenon, SameActivation DEF D!Acknowledge, DP!Acknowledge, D!Matches, DP!Matches,
   D!Idle, DP!Idle, D!NoToken, DP!NoToken, D!Suppressed, DP!Suppressed,
   D!DropIf, DP!DropIf

LEMMA SameFail ==
  ASSUME NEW r, NEW token, NEW point
  PROVE  D!Fail(r, token, point) = DP!Fail(r, token, point)
BY Zenon DEF D!Fail, DP!Fail, D!Matches, DP!Matches, D!Idle, DP!Idle,
   D!NoToken, DP!NoToken, D!Suppressed, DP!Suppressed, D!DropIf, DP!DropIf

LEMMA SameStop == D!StopTrial = DP!StopTrial
BY Zenon DEF D!StopTrial, DP!StopTrial, D!Idle, DP!Idle, D!NoToken, DP!NoToken

LEMMA SameInit == D!Init = DP!Init
BY Zenon DEF D!Init, DP!Init, D!NoToken, DP!NoToken

\* The onboard controller.
LEMMA SameTokenSets ==
  C!QueuedTokens = CP!QueuedTokens /\ C!ReachedTokens = CP!ReachedTokens
BY Zenon DEF C!QueuedTokens, CP!QueuedTokens, C!ReachedTokens, CP!ReachedTokens

LEMMA SameCallback ==
  ASSUME NEW token, NEW point
  PROVE  C!WaypointCallback(token, point) = CP!WaypointCallback(token, point)
BY Zenon, SameTokenSets DEF C!WaypointCallback, CP!WaypointCallback,
   C!AcceptWaypoint, CP!AcceptWaypoint, C!SuppressWaypoint, CP!SuppressWaypoint,
   C!SuppressedWaypoint, CP!SuppressedWaypoint

LEMMA SameEndTrial == C!EndTrialCallback = CP!EndTrialCallback
BY Zenon DEF C!EndTrialCallback, CP!EndTrialCallback

LEMMA SameIdleSteps ==
  /\ C!StepTrialEnded = CP!StepTrialEnded
  /\ C!StepEmptyQueue(TRUE) = CP!StepEmptyQueue(TRUE)
  /\ C!StepWithoutPose = CP!StepWithoutPose
  /\ C!TimePasses = CP!TimePasses
  /\ C!Restart = CP!Restart
BY Zenon DEF C!StepTrialEnded, CP!StepTrialEnded, C!StepEmptyQueue, CP!StepEmptyQueue,
   C!StepWithoutPose, CP!StepWithoutPose, C!Pursuing, CP!Pursuing, C!Publish, CP!Publish,
   C!TimePasses, CP!TimePasses, C!Restart, CP!Restart

LEMMA SameProgress ==
  ASSUME NEW d
  PROVE  /\ C!ProgressAt(d) = CP!ProgressAt(d)
         /\ \A p : C!Verdict(p, d) = CP!Verdict(p, d)
         /\ \A p : C!Updated(p, d) = CP!Updated(p, d)
<1>1. C!ProgressAt(d) = CP!ProgressAt(d)
  BY Zenon DEF C!ProgressAt, CP!ProgressAt
<1>2. \A p : C!Verdict(p, d) = CP!Verdict(p, d)
  BY Zenon DEF C!Verdict, CP!Verdict
<1>3. \A p : C!Updated(p, d) = CP!Updated(p, d)
  BY Zenon, <1>2 DEF C!Updated, CP!Updated
<1>. QED
  BY <1>1, <1>2, <1>3

LEMMA SameStep == C!LocatedStep = CP!LocatedStep
BY Zenon, SameProgress, SameTokenSets DEF C!LocatedStep, CP!LocatedStep, C!StepWithPose,
   CP!StepWithPose, C!StepReached, CP!StepReached, C!StepRecovering, CP!StepRecovering,
   C!StepFailed, CP!StepFailed, C!StepNavigating, CP!StepNavigating,
   C!Pursuing, CP!Pursuing, C!Resolve, CP!Resolve, C!Remember, CP!Remember,
   C!Distance, CP!Distance

LEMMA SameController == C!Init = CP!Init
BY Zenon DEF C!Init, CP!Init

-----------------------------------------------------------------------------
(***************************************************************************)
(* The PC.  With one rover nothing is ever too close, so no batch is       *)
(* rejected, and whatever may be activated is activated at once.           *)
(***************************************************************************)
Busy == active[Rover].point # NoPoint

\* The operations of the dispatcher leave its slots in this state.
PCSound ==
  /\ DP!TypeOK
  /\ failedBatch = {}
  /\ Busy => active[Rover].token = lastToken /\ lastToken > 0 /\ active[Rover].point \in Points
  /\ ~Busy => active[Rover].token = 0
  /\ (Busy /\ pending[Rover].point # NoPoint) => pending[Rover].supersede = FALSE
  /\ faulted => ~Busy
  /\ lastToken <= MaxToken
  /\ pending[Rover].point # NoPoint => lastToken < MaxToken

\* What an operation does to the command in execution.
Keeps == active' = active /\ lastToken' = lastToken
Drops == active'[Rover].token = 0 /\ active'[Rover].point = NoPoint /\ lastToken' = lastToken
Issues ==
  /\ ~faulted
  /\ lastToken' = lastToken + 1
  /\ active'[Rover].token = lastToken'
  /\ active'[Rover].point \in Points

LEMMA OneRover ==
  /\ DP!IsFiniteSet({Rover})
  /\ {Rover} \subseteq Nat
  /\ DP!Cardinality({Rover}) = 1
  /\ DP!Cardinality({s \in {Rover} : s <= Rover}) = 1
<1>1. {s \in {Rover} : s <= Rover} = {Rover}
  BY DispatcherAssumption
<1>2. IsFiniteSet({Rover}) /\ Cardinality({Rover}) = 1
  BY FS_Singleton
<1>3. DP!IsFiniteSet({Rover})
  BY <1>2 DEF DP!IsFiniteSet, IsFiniteSet
<1>4. DP!Cardinality({Rover}) = 1
  BY <1>2, Zenon DEF DP!Cardinality, Cardinality
<1>. QED
  BY <1>1, <1>3, <1>4, DispatcherAssumption

\* From its two slots, an activation publishes what is eligible, or nothing.
LEMMA Activation ==
  ASSUME NEW act \in [{Rover} -> DP!Command], NEW pend \in [{Rover} -> DP!Request],
         lastToken \in Nat, DP!ActivatePending(act, pend, {}, {Rover})
  PROVE  /\ failedBatch' = {}
         /\ \/ /\ \/ pend[Rover].point = NoPoint
                  \/ act[Rover].point # NoPoint /\ ~pend[Rover].supersede
               /\ active' = act /\ pending' = pend /\ lastToken' = lastToken
            \/ /\ pend[Rover].point # NoPoint
               /\ act[Rover].point = NoPoint \/ pend[Rover].supersede
               /\ active'[Rover].point = pend[Rover].point
               /\ active'[Rover].token = lastToken'
               /\ lastToken' = lastToken + 1
               /\ pending'[Rover].point = NoPoint
<1> DEFINE batch == DP!Eligible(act, pend, {Rover})
           signature == DP!Signature(act, pend, batch)
           proposed == DP!Proposed(pend, batch)
<1>1. signature \notin {}
  OBVIOUS
<1>2. DP!Separated(DP!Endpoints(act, batch, proposed))
  BY DEF DP!Separated
<1>3. DP!Repairs(act, batch, proposed) = {proposed}
  BY <1>2 DEF DP!Repairs
<1>4. CASE batch = {}
  <2>1. active' = act /\ pending' = pend /\ failedBatch' = {} /\ lastToken' = lastToken
    BY <1>4, <1>1 DEF DP!ActivatePending
  <2>2. Rover \notin batch
    BY <1>4
  <2>3. pend[Rover].point = NoPoint \/ (act[Rover].point # NoPoint /\ ~pend[Rover].supersede)
    BY <2>2 DEF DP!Eligible
  <2>. QED
    BY <2>1, <2>3
<1>5. CASE batch = {Rover}
  <2>1. DP!Publish(act, pend, batch, proposed) /\ failedBatch' = {}
    <3> HIDE DEF batch, signature, proposed
    <3>1. batch # {}
      BY <1>5
    <3>. QED
      BY <1>1, <1>2, <1>3, <3>1 DEF DP!ActivatePending, batch, signature, proposed
  <2>2. /\ pend[Rover].point # NoPoint
        /\ act[Rover].point = NoPoint \/ pend[Rover].supersede
    BY <1>5 DEF DP!Eligible
  <2>3. proposed[Rover] = pend[Rover].point
    BY <1>5 DEF DP!Proposed
  <2>4. DP!TokenOf(batch, Rover) = lastToken + 1
    BY <1>5, OneRover DEF DP!TokenOf
  <2>5. lastToken' = lastToken + 1
    BY <1>5, <2>1, OneRover DEF DP!Publish
  <2> HIDE DEF proposed
  <2>6. /\ active'[Rover] = [point |-> proposed[Rover], requested |-> pend[Rover].point,
                             token |-> DP!TokenOf(batch, Rover), epoch |-> pend[Rover].epoch,
                             rev |-> pend[Rover].rev]
        /\ pending'[Rover] = [pend[Rover] EXCEPT !.point = NoPoint, !.supersede = FALSE]
    BY <1>5, <2>1 DEF DP!Publish
  <2>7. pending'[Rover].point = NoPoint
    BY <2>6 DEF DP!Request
  <2>. QED
    BY <2>1, <2>2, <2>3, <2>4, <2>5, <2>6, <2>7
<1>. QED
  BY <1>4, <1>5 DEF DP!Eligible

\* A tick from the given request: an idle rover gets it, a busy one only when it
\* supersedes.
LEMMA TickKinds ==
  ASSUME PCSound, NEW pend \in [{Rover} -> DP!Request], NEW near,
         DP!TickFrom(pend, {}, near), faulted' = faulted, DP!TypeOK',
         pend[Rover].point # NoPoint => lastToken < MaxToken
  PROVE  /\ PCSound'
         /\ Keeps \/ Issues
         /\ (Issues /\ Busy) => pend[Rover].supersede
<1>1. lastToken \in Nat /\ active \in [{Rover} -> DP!Command] /\ pend[Rover] \in DP!Request
  BY DEF PCSound, DP!TypeOK
<1>2. CASE faulted
  BY <1>1, <1>2 DEF DP!TickFrom, PCSound, Keeps, Issues, Busy
<1>3. CASE ~faulted
  <2> DEFINE filtered == DP!TickPending(pend, near)
  <2>1. filtered \in [{Rover} -> DP!Request]
    BY DEF DP!TickPending, DP!DropIf, DP!Request, DP!Maybe
  <2>2. /\ filtered[Rover].point \in {pend[Rover].point, NoPoint}
        /\ filtered[Rover].supersede = pend[Rover].supersede
    BY <1>1 DEF DP!TickPending, DP!DropIf, DP!Request
  <2>3. DP!ActivatePending(active, filtered, {}, {Rover})
    BY <1>3 DEF DP!TickFrom
  <2>4. filtered[Rover].point \in Points \cup {NoPoint}
    BY <2>1 DEF DP!Request, DP!Maybe
  <2>5. filtered[Rover].supersede \in BOOLEAN
    BY <2>1 DEF DP!Request
  <2> HIDE DEF filtered
  <2>6. CASE /\ filtered[Rover].point = NoPoint \/ (Busy /\ ~filtered[Rover].supersede)
             /\ active' = active /\ pending' = filtered /\ lastToken' = lastToken
             /\ failedBatch' = {}
    <3>1. Keeps /\ ~Issues
      BY <1>1, <2>6 DEF Keeps, Issues
    <3>2. (Busy /\ pending'[Rover].point # NoPoint) => pending'[Rover].supersede = FALSE
      BY <2>5, <2>6
    <3>3. pending'[Rover].point # NoPoint => lastToken < MaxToken
      BY <2>2, <2>6
    <3>. QED
      BY <2>6, <3>1, <3>2, <3>3 DEF PCSound, Busy
  <2>7. CASE /\ filtered[Rover].point # NoPoint
             /\ ~Busy \/ filtered[Rover].supersede
             /\ active'[Rover].point = filtered[Rover].point
             /\ active'[Rover].token = lastToken'
             /\ lastToken' = lastToken + 1
             /\ pending'[Rover].point = NoPoint
             /\ failedBatch' = {}
    <3>1. Issues
      BY <1>3, <2>4, <2>7 DEF Issues
    <3>2. lastToken < MaxToken
      BY <2>2, <2>7
    <3>3. lastToken' <= MaxToken /\ lastToken' > 0 /\ MaxToken \in Nat
      BY <1>1, <2>7, <3>2, DispatcherAssumption
    <3>4. Busy'
      BY <2>7 DEF Busy
    <3>5. PCSound'
      BY <1>3, <2>4, <2>7, <3>3, <3>4 DEF PCSound, Busy
    <3>. QED
      BY <2>2, <2>7, <3>1, <3>5
  <2>. QED
    BY <1>1, <2>1, <2>3, <2>6, <2>7, Activation DEF Busy
<1>. QED
  BY <1>2, <1>3

\* The dispatcher's operations as the link's actions call them.
LEMMA Typed ==
  ASSUME DP!TypeOK
  PROVE  /\ \A near : DP!Tick(near) => DP!TypeOK'
         /\ \A point \in Points, version \in Versions : \A near :
              DP!UpdateAndTick([r \in {Rover} |-> point], version.epoch, version.rev, near)
                => DP!TypeOK'
         /\ \A token, point, measured :
              DP!Acknowledge(Rover, token, point, measured) => DP!TypeOK'
         /\ \A token, point : DP!Fail(Rover, token, point) => DP!TypeOK'
         /\ DP!StopTrial => DP!TypeOK'
<1>1. ASSUME NEW near, DP!Tick(near) PROVE DP!TypeOK'
  BY <1>1, DP!TypeTick, OneRover, DispatcherAssumption
<1>2. ASSUME NEW point \in Points, NEW version \in Versions, NEW near,
             DP!UpdateAndTick([r \in {Rover} |-> point], version.epoch, version.rev, near)
      PROVE  DP!TypeOK'
  <2>1. [r \in {Rover} |-> point] \in [{Rover} -> Points]
    OBVIOUS
  <2>. QED
    BY <1>2, <2>1, DP!TypeUpdateAndTick, OneRover, DispatcherAssumption
<1>3. ASSUME NEW token, NEW point, NEW measured, DP!Acknowledge(Rover, token, point, measured)
      PROVE  DP!TypeOK'
  BY <1>3, DP!TypeAcknowledge, OneRover, DispatcherAssumption
<1>4. ASSUME NEW token, NEW point, DP!Fail(Rover, token, point) PROVE DP!TypeOK'
  BY <1>4, DP!TypeFail, OneRover, DispatcherAssumption
<1>5. ASSUME DP!StopTrial PROVE DP!TypeOK'
  BY <1>5, DP!TypeStop, OneRover, DispatcherAssumption
<1>. QED
  BY <1>1, <1>2, <1>3, <1>4, <1>5

LEMMA PCTick ==
  ASSUME PCSound, NEW near, DP!Tick(near)
  PROVE  PCSound' /\ (Keeps \/ Issues) /\ (Issues => ~Busy)
<1>1. /\ DP!TickFrom(pending, {}, near) /\ faulted' = faulted
      /\ DP!TypeOK' /\ pending \in [{Rover} -> DP!Request]
  BY Typed DEF DP!Tick, PCSound, DP!TypeOK
<1>2. pending[Rover].point # NoPoint => lastToken < MaxToken
  BY DEF PCSound
<1>3. /\ PCSound'
      /\ Keeps \/ Issues
      /\ (Issues /\ Busy) => pending[Rover].supersede
  BY <1>1, <1>2, TickKinds
<1>4. Issues /\ Busy => pending[Rover].point # NoPoint
  <2>1. SUFFICES ASSUME ~faulted, Busy, pending[Rover].point = NoPoint PROVE ~Issues
    BY DEF Issues
  <2> DEFINE filtered == DP!TickPending(pending, near)
  <2>2. filtered \in [{Rover} -> DP!Request] /\ filtered[Rover].point = NoPoint
    BY <1>1, <2>1 DEF DP!TickPending, DP!DropIf, DP!Request, DP!Maybe
  <2>3. DP!ActivatePending(active, filtered, {}, {Rover})
    BY <1>1, <2>1 DEF DP!TickFrom
  <2>4. lastToken \in Nat /\ active \in [{Rover} -> DP!Command]
    BY DEF PCSound, DP!TypeOK
  <2> HIDE DEF filtered
  <2>5. lastToken' = lastToken
    BY <2>2, <2>3, <2>4, Activation
  <2>. QED
    BY <2>4, <2>5 DEF Issues
<1>. QED
  BY <1>3, <1>4 DEF PCSound

LEMMA PCPlan ==
  ASSUME PCSound, lastToken < MaxToken, NEW point \in Points, NEW version \in Versions, NEW near,
         DP!UpdateAndTick([r \in {Rover} |-> point], version.epoch, version.rev, near)
  PROVE  PCSound' /\ (Keeps \/ Issues)
<1> DEFINE setpoints == [r \in {Rover} |-> point]
           pend == DP!PendingAfter(setpoints, version.epoch, version.rev)
<1>1. DP!MemoAfter(version.rev) = {}
  BY DEF DP!MemoAfter, PCSound
<1>2. DP!TickFrom(pend, {}, near) /\ faulted' = faulted /\ DP!TypeOK'
  BY <1>1, Typed DEF DP!UpdateAndTick, PCSound
<1>3. setpoints \in [{Rover} -> Points]
  OBVIOUS
<1>4. version.epoch \in Nat /\ version.rev \in Nat \X Nat
  BY DispatcherAssumption
<1>5. DP!Requests(pending)
  BY DEF PCSound, DP!TypeOK, DP!Requests
<1>6. pend \in [{Rover} -> DP!Request]
  BY <1>3, <1>4, <1>5, DP!PendingAfterTyped, OneRover, DispatcherAssumption DEF DP!Requests
<1> HIDE DEF pend
<1>. QED
  BY <1>2, <1>6, TickKinds

LEMMA PCAcknowledge ==
  ASSUME PCSound, NEW token, NEW point, NEW measured,
         DP!Acknowledge(Rover, token, point, measured)
  PROVE  PCSound' /\ Busy /\ (Drops \/ Issues)
<1> DEFINE ended == [point |-> active[Rover].point, epoch |-> active[Rover].epoch]
           act == [active EXCEPT ![Rover] = DP!Idle(@)]
           pend == [pending EXCEPT ![Rover] =
                      DP!DropIf(DP!Suppressed(@, ended, lastFail[Rover], measured), @)]
<1>1. /\ DP!ActivatePending(act, pend, {}, {Rover}) /\ faulted' = faulted /\ Busy
      /\ DP!TypeOK'
  BY Typed DEF DP!Acknowledge, DP!Matches, PCSound, Busy
<1>2. DP!Commands(act) /\ DP!Requests(pend)
  BY DP!AcknowledgedSlotsTyped, OneRover, DispatcherAssumption DEF PCSound
<1>3. act[Rover].point = NoPoint /\ act[Rover].token = 0
  BY DEF PCSound, DP!TypeOK, DP!Command, DP!Idle, DP!NoToken
<1>4. pend[Rover].point \in {pending[Rover].point, NoPoint}
  BY DEF PCSound, DP!TypeOK, DP!Request, DP!DropIf
<1>5. pend[Rover].point \in Points \cup {NoPoint} /\ lastToken \in Nat
  BY <1>2 DEF PCSound, DP!TypeOK, DP!Requests, DP!Request, DP!Maybe
<1>6. pend[Rover].point # NoPoint => lastToken < MaxToken
  BY <1>4 DEF PCSound
<1>7. ~faulted
  BY <1>1 DEF PCSound
<1> HIDE DEF act, pend
<1>8. CASE /\ pend[Rover].point = NoPoint
           /\ active' = act /\ pending' = pend /\ lastToken' = lastToken /\ failedBatch' = {}
  BY <1>1, <1>3, <1>8 DEF PCSound, Busy, Drops
<1>9. CASE /\ pend[Rover].point # NoPoint
           /\ active'[Rover].point = pend[Rover].point
           /\ active'[Rover].token = lastToken'
           /\ lastToken' = lastToken + 1
           /\ pending'[Rover].point = NoPoint
           /\ failedBatch' = {}
  <2>1. Issues
    BY <1>5, <1>7, <1>9 DEF Issues
  <2>2. lastToken' <= MaxToken /\ lastToken' > 0
    BY <1>5, <1>6, <1>9, DispatcherAssumption
  <2>3. PCSound'
    BY <1>1, <1>5, <1>7, <1>9, <2>2 DEF PCSound, Busy
  <2>. QED
    BY <1>1, <2>1, <2>3
<1>. QED
  BY <1>1, <1>2, <1>3, <1>5, <1>8, <1>9, Activation DEF DP!Commands, DP!Requests

LEMMA PCFail ==
  ASSUME PCSound, NEW token, NEW point, DP!Fail(Rover, token, point)
  PROVE  PCSound' /\ Busy /\ Drops
<1>1. /\ active' = [active EXCEPT ![Rover] = DP!Idle(@)]
      /\ pending'[Rover].point \in {pending[Rover].point, NoPoint}
      /\ lastToken' = lastToken /\ failedBatch' = failedBatch /\ faulted' = faulted
      /\ Busy /\ DP!TypeOK'
  BY Typed DEF DP!Fail, DP!Matches, DP!DropIf, PCSound, DP!TypeOK, DP!Request, Busy
<1>2. active'[Rover].point = NoPoint /\ active'[Rover].token = 0
  BY <1>1 DEF PCSound, DP!TypeOK, DP!Command, DP!Idle, DP!NoToken
<1>. QED
  BY <1>1, <1>2 DEF PCSound, Busy, Drops

LEMMA PCStop ==
  ASSUME PCSound, DP!StopTrial
  PROVE  PCSound' /\ Drops /\ faulted'
<1>1. /\ active' = [r \in {Rover} |-> DP!Idle(active[r])]
      /\ pending'[Rover].point = NoPoint
      /\ lastToken' = lastToken /\ failedBatch' = failedBatch /\ faulted'
      /\ DP!TypeOK'
  BY Typed DEF DP!StopTrial, PCSound, DP!TypeOK, DP!Request
<1>2. active'[Rover].point = NoPoint /\ active'[Rover].token = 0
  BY <1>1 DEF PCSound, DP!TypeOK, DP!Command, DP!Idle, DP!NoToken
<1>. QED
  BY <1>1, <1>2 DEF PCSound, Busy, Drops

-----------------------------------------------------------------------------
(***************************************************************************)
(* Topics.                                                                 *)
(***************************************************************************)
Sent == [token : 1..MaxToken, point : Points]
Ascending(topic) ==
  \A i, j \in 1..Len(topic) : i <= j => topic[i].token <= topic[j].token

LEMMA TailOfTopic ==
  ASSUME NEW topic \in Seq(Sent), topic # <<>>
  PROVE  /\ Tail(topic) \in Seq(Sent) /\ Head(topic) \in Sent
         /\ Head(topic).token \in TokensIn(topic)
         /\ TokensIn(Tail(topic)) \subseteq TokensIn(topic)
         /\ Ascending(topic) =>
              /\ Ascending(Tail(topic))
              /\ \A t \in TokensIn(topic) : Head(topic).token <= t
<1> DEFINE rest == Tail(topic)
<1>1. /\ rest \in Seq(Sent) /\ Len(rest) = Len(topic) - 1 /\ Len(topic) \in Nat \ {0}
      /\ \A i \in 1..Len(rest) : rest[i] = topic[i + 1]
      /\ Head(topic) = topic[1] /\ topic[1] \in Sent
  OBVIOUS
<1> HIDE DEF rest
<1>2. \A i \in 1..Len(rest) : i + 1 \in 1..Len(topic)
  BY <1>1
<1>3. 1 \in 1..Len(topic)
  BY <1>1
<1>4. TokensIn(rest) \subseteq TokensIn(topic) /\ Head(topic).token \in TokensIn(topic)
  BY <1>1, <1>2, <1>3 DEF TokensIn
<1>5. ASSUME Ascending(topic)
      PROVE  Ascending(rest) /\ \A t \in TokensIn(topic) : Head(topic).token <= t
  <2>1. Ascending(rest)
    <3>1. ASSUME NEW i \in 1..Len(rest), NEW j \in 1..Len(rest), i <= j
          PROVE  rest[i].token <= rest[j].token
      <4>1. i + 1 <= j + 1
        BY <3>1
      <4>. QED
        BY <1>1, <1>2, <1>5, <4>1 DEF Ascending
    <3>. QED
      BY <3>1 DEF Ascending
  <2>2. ASSUME NEW i \in 1..Len(topic) PROVE Head(topic).token <= topic[i].token
    BY <1>1, <1>3, <1>5 DEF Ascending
  <2>. QED
    BY <2>1, <2>2 DEF TokensIn
<1>. QED
  BY <1>1, <1>4, <1>5 DEF rest

\* A message that is not older than those before it, at the end.
LEMMA AppendedMessage ==
  ASSUME NEW topic \in Seq(Sent), NEW message \in Sent
  PROVE  /\ Append(topic, message) \in Seq(Sent)
         /\ TokensIn(Append(topic, message)) \subseteq TokensIn(topic) \cup {message.token}
         /\ (Ascending(topic) /\ \A t \in TokensIn(topic) : t <= message.token)
              => Ascending(Append(topic, message))
<1> DEFINE all == Append(topic, message)
<1>1. /\ all \in Seq(Sent) /\ Len(all) = Len(topic) + 1 /\ Len(topic) \in Nat
      /\ \A i \in 1..Len(topic) : all[i] = topic[i]
      /\ all[Len(topic) + 1] = message
  OBVIOUS
<1> HIDE DEF all
<1>2. \A i \in 1..Len(all) : i \in 1..Len(topic) \/ i = Len(topic) + 1
  BY <1>1
<1>3. TokensIn(all) \subseteq TokensIn(topic) \cup {message.token}
  BY <1>1, <1>2 DEF TokensIn
<1>4. ASSUME Ascending(topic), \A t \in TokensIn(topic) : t <= message.token
      PROVE  Ascending(all)
  <2>1. message.token \in Nat
    BY DEF Sent
  <2>2. \A i \in 1..Len(topic) : topic[i].token <= message.token
    BY <1>4 DEF TokensIn
  <2>3. \A i, j \in 1..Len(all) : (i <= j /\ i = Len(topic) + 1) => j = Len(topic) + 1
    BY <1>1
  <2>4. \A i, j \in 1..Len(all) : i <= j => all[i].token <= all[j].token
    BY <1>1, <1>2, <1>4, <2>1, <2>2, <2>3 DEF Ascending
  <2>. QED
    BY <2>4 DEF Ascending
<1>. QED
  BY <1>1, <1>3, <1>4 DEF all

\* Publishing such a message may drop the oldest one.
LEMMA PushedTopic ==
  ASSUME NEW topic \in Seq(Sent), NEW message \in Sent
  PROVE  /\ Pushed(topic, message) \in Seq(Sent)
         /\ TokensIn(Pushed(topic, message)) \subseteq TokensIn(topic) \cup {message.token}
         /\ (Ascending(topic) /\ \A t \in TokensIn(topic) : t <= message.token)
              => Ascending(Pushed(topic, message))
<1> DEFINE all == Append(topic, message)
<1>0. all # <<>>
  <2>1. Len(all) = Len(topic) + 1 /\ Len(topic) \in Nat
    OBVIOUS
  <2>. QED
    BY <2>1
<1>1. Pushed(topic, message) \in {all, Tail(all)}
  BY DEF Pushed
<1>2. /\ all \in Seq(Sent)
      /\ TokensIn(all) \subseteq TokensIn(topic) \cup {message.token}
      /\ (Ascending(topic) /\ \A t \in TokensIn(topic) : t <= message.token) => Ascending(all)
  BY AppendedMessage
<1> HIDE DEF all
<1>. QED
  BY <1>0, <1>1, <1>2, TailOfTopic

\* What the PC publishes carries its newest token.
Publishes ==
  \/ waypoints' = waypoints
  \/ \E message \in Sent : /\ message.token = lastToken'
                           /\ waypoints' = Pushed(waypoints, message)

LEMMA PublicationsAreNew ==
  ASSUME PCSound, PCSound', Keeps \/ Drops \/ Issues,
         NEW refresh \in BOOLEAN, refresh => Busy, Publications(refresh)
  PROVE  Publishes
<1>1. /\ lastToken \in Nat /\ lastToken' \in Nat /\ MaxToken \in Nat
      /\ lastToken <= MaxToken /\ lastToken' <= MaxToken
  BY DispatcherAssumption DEF PCSound, DP!TypeOK
<1>2. active[Rover].token <= lastToken
  BY <1>1 DEF PCSound
<1>3. CASE Issues
  <2>1. D!Activated(Rover)
    BY <1>1, <1>2, <1>3 DEF Issues, D!Activated, D!NoToken
  <2>2. Message(active'[Rover]) \in Sent /\ Message(active'[Rover]).token = lastToken'
    BY <1>1, <1>3 DEF Issues, Message, Sent
  <2>. QED
    BY <2>1, <2>2 DEF Publications, Publishes
<1>4. CASE (Keeps \/ Drops) /\ refresh
  <2>1. ~D!Activated(Rover) /\ lastToken' = lastToken
    BY <1>4 DEF Keeps, Drops, D!Activated, D!NoToken
  <2>2. Message(active[Rover]) \in Sent /\ Message(active[Rover]).token = lastToken'
    BY <1>1, <1>4, <2>1 DEF PCSound, Busy, Message, Sent
  <2>. QED
    BY <1>4, <2>1, <2>2 DEF Publications, Publishes
<1>5. CASE (Keeps \/ Drops) /\ ~refresh
  <2>1. ~D!Activated(Rover)
    BY <1>5 DEF Keeps, Drops, D!Activated, D!NoToken
  <2>. QED
    BY <1>5, <2>1 DEF Publications, Publishes
<1>. QED
  BY <1>3, <1>4, <1>5

-----------------------------------------------------------------------------
(***************************************************************************)
(* The steps of the link.  Each changes the PC or the rover, not both.     *)
(***************************************************************************)
LinkTyped ==
  /\ PCSound
  /\ CP!TypeOK
  /\ waypoints \in Seq(Sent) /\ reached \in Seq(Sent) /\ failed \in Seq(Sent)

\* A step of the PC: its slots change, it may publish, and the tokens it clears
\* are accounted for.
Clears(t) == t \in acknowledged' \cup abandoned'
PCStep ==
  /\ UNCHANGED rover
  /\ PCSound'
  /\ Publishes
  /\ acknowledged \subseteq acknowledged' /\ abandoned \subseteq abandoned'
  /\ acknowledged' \subseteq acknowledged \cup TokensIn(reached)
  /\ reached' = reached \/ (reached # <<>> /\ reached' = Tail(reached))
  /\ failed' = failed \/ (failed # <<>> /\ failed' = Tail(failed))
  /\ faulted => faulted'
  /\ \/ Keeps
     \/ Issues /\ (Busy => Clears(active[Rover].token))
     \/ Drops /\ (Busy => faulted' \/ Clears(active[Rover].token))

LEMMA CycleIsPCStep ==
  ASSUME LinkTyped, Cycle
  PROVE  PCStep
<1>1. PICK near : D!Tick(near) /\ Publications(Rover \in D!Refreshable(pending))
                  /\ UNCHANGED <<rover, reached, failed, endTrial, history, faults>>
  BY DEF Cycle, TickCycle
<1>2. DP!Tick(near)
  BY <1>1, SameTick
<1>3. PCSound' /\ (Keeps \/ Issues) /\ (Issues => ~Busy)
  BY <1>2, PCTick DEF LinkTyped
<1>4. Rover \in D!Refreshable(pending) => Busy
  BY DEF D!Refreshable, Busy
<1>5. Publishes
  <2>1. CASE Rover \in D!Refreshable(pending)
    <3>1. Publications(TRUE) /\ Busy
      BY <1>1, <1>4, <2>1 DEF Publications
    <3>. QED
      BY <1>3, <3>1, PublicationsAreNew DEF LinkTyped
  <2>2. CASE Rover \notin D!Refreshable(pending)
    <3>1. Publications(FALSE)
      BY <1>1, <2>2 DEF Publications
    <3>. QED
      BY <1>3, <3>1, PublicationsAreNew DEF LinkTyped
  <2>. QED
    BY <2>1, <2>2
<1>6. faulted' = faulted
  BY <1>2 DEF DP!Tick
<1>. QED
  BY <1>1, <1>3, <1>5, <1>6 DEF PCStep, history

LEMMA PlanIsPCStep ==
  ASSUME LinkTyped, Plan
  PROVE  PCStep
<1>1. PICK near \in SUBSET D!Reached, point \in Points, version \in Versions :
         PlanCycle(point, version, near)
  BY DEF Plan
<1>2. /\ DP!UpdateAndTick([r \in {Rover} |-> point], version.epoch, version.rev, near)
      /\ lastToken < MaxToken
  BY <1>1, SameUpdate DEF PlanCycle, Plan
<1>3. PCSound' /\ (Keeps \/ Issues)
  BY <1>2, PCPlan DEF LinkTyped
<1>4. Publishes
  BY <1>1, <1>3, PublicationsAreNew DEF LinkTyped, PlanCycle
<1>5. faulted' = faulted
  BY <1>2 DEF DP!UpdateAndTick
<1>6. ASSUME Issues, Busy PROVE Clears(active[Rover].token)
  <2>1. active[Rover].token # D!NoToken /\ D!Activated(Rover)
    <3>1. lastToken \in Nat /\ active[Rover].token = lastToken /\ lastToken > 0
      BY <1>6 DEF LinkTyped, PCSound, DP!TypeOK
    <3>. QED
      BY <1>6, <3>1 DEF Issues, D!Activated, D!NoToken
  <2>. QED
    BY <1>1, <2>1 DEF PlanCycle, Clears
<1>7. abandoned \subseteq abandoned' /\ acknowledged' = acknowledged
  BY <1>1 DEF PlanCycle
<1>8. UNCHANGED <<rover, reached, failed>>
  BY <1>1 DEF PlanCycle
<1>. QED
  BY <1>3, <1>4, <1>5, <1>6, <1>7, <1>8 DEF PCStep

LEMMA AcknowledgementIsPCStep ==
  ASSUME LinkTyped, Acknowledgement
  PROVE  PCStep
<1>1. PICK measured : TakeReached(measured)
  BY DEF Acknowledgement
<1> DEFINE message == Head(reached)
<1>2. /\ reached # <<>> /\ reached' = Tail(reached)
      /\ UNCHANGED <<rover, failed, abandoned>>
  BY <1>1 DEF TakeReached
<1>3. CASE D!Matches(Rover, message.token, message.point)
  <2>1. /\ DP!Acknowledge(Rover, message.token, message.point, measured)
        /\ Publications(FALSE)
        /\ acknowledged' = acknowledged \cup {active[Rover].token}
    BY <1>1, <1>3, SameAcknowledge DEF TakeReached
  <2>2. PCSound' /\ Busy /\ (Drops \/ Issues)
    BY <2>1, PCAcknowledge DEF LinkTyped
  <2>3. Publishes
    BY <2>1, <2>2, PublicationsAreNew DEF LinkTyped
  <2>4. active[Rover].token \in TokensIn(reached)
    BY <1>2, <1>3, TailOfTopic DEF D!Matches, LinkTyped
  <2>5. Clears(active[Rover].token)
    BY <2>1 DEF Clears
  <2>6. ~faulted
    BY <2>2 DEF LinkTyped, PCSound
  <2>. QED
    BY <1>2, <2>1, <2>2, <2>3, <2>4, <2>5, <2>6 DEF PCStep
<1>4. CASE ~D!Matches(Rover, message.token, message.point)
  <2>1. UNCHANGED <<dispatcher, waypoints, acknowledged>>
    BY <1>1, <1>4 DEF TakeReached
  <2>2. PCSound' /\ Keeps /\ faulted' = faulted
    BY <2>1 DEF dispatcher, LinkTyped, PCSound, DP!TypeOK, Busy, Keeps
  <2>. QED
    BY <1>2, <2>1, <2>2 DEF PCStep, Publishes
<1>. QED
  BY <1>3, <1>4

LEMMA FailureIsPCStep ==
  ASSUME LinkTyped, TakeFailed
  PROVE  PCStep
<1> DEFINE message == Head(failed)
<1>1. /\ failed # <<>> /\ failed' = Tail(failed)
      /\ UNCHANGED <<rover, waypoints, reached, acknowledged>>
  BY DEF TakeFailed
<1>2. CASE D!Matches(Rover, message.token, message.point)
  <2>1. /\ DP!Fail(Rover, message.token, message.point)
        /\ abandoned' = abandoned \cup {active[Rover].token}
    BY <1>2, SameFail DEF TakeFailed
  <2>2. PCSound' /\ Busy /\ Drops
    BY <2>1, PCFail DEF LinkTyped
  <2>3. Clears(active[Rover].token) /\ ~faulted
    BY <2>1, <2>2 DEF Clears, LinkTyped, PCSound
  <2>. QED
    BY <1>1, <2>1, <2>2, <2>3 DEF PCStep, Publishes
<1>3. CASE ~D!Matches(Rover, message.token, message.point)
  <2>1. UNCHANGED <<dispatcher, abandoned>>
    BY <1>3 DEF TakeFailed
  <2>2. PCSound' /\ Keeps /\ faulted' = faulted
    BY <2>1 DEF dispatcher, LinkTyped, PCSound, DP!TypeOK, Busy, Keeps
  <2>. QED
    BY <1>1, <2>1, <2>2 DEF PCStep, Publishes
<1>. QED
  BY <1>2, <1>3

LEMMA ShutdownIsPCStep ==
  ASSUME LinkTyped, Shutdown
  PROVE  PCStep
<1>1. DP!StopTrial /\ UNCHANGED <<rover, waypoints, reached, failed, history>>
  BY SameStop DEF Shutdown
<1>2. PCSound' /\ Drops /\ faulted'
  BY <1>1, PCStop DEF LinkTyped
<1>. QED
  BY <1>1, <1>2 DEF PCStep, Publishes, history

-----------------------------------------------------------------------------
\* What the rover's side of the link may do.
Accepts ==
  /\ waypoints # <<>> /\ waypoints' = Tail(waypoints)
  /\ queue' = Append(queue, [token |-> Head(waypoints).token, point |-> Head(waypoints).point])
  /\ UNCHANGED <<reachedOrder, reached>>
Arrives ==
  /\ queue # <<>> /\ queue' = Tail(queue)
  /\ reachedOrder' = CP!Remember(Head(queue).token)
  /\ \/ reached' = reached
     \/ \E message \in Sent : /\ message.token = Head(queue).token
                              /\ reached' = Pushed(reached, message)
  /\ UNCHANGED waypoints
GivesUp ==
  /\ queue # <<>> /\ queue' = Tail(queue)
  /\ UNCHANGED <<reachedOrder, waypoints, reached>>
Empties ==
  /\ queue' = <<>>
  /\ UNCHANGED <<reachedOrder, waypoints, reached>>
Forgets ==
  /\ "restart" \in Faults
  /\ queue' = <<>> /\ reachedOrder' = <<>> /\ waypoints' = <<>>
  /\ UNCHANGED reached
Loses ==
  /\ waypoints' = waypoints \/ (waypoints # <<>> /\ waypoints' = Tail(waypoints))
  /\ reached' = reached \/ (reached # <<>> /\ reached' = Tail(reached))
  /\ UNCHANGED <<queue, reachedOrder>>

RoverSide ==
  /\ UNCHANGED <<dispatcher, history>>
  /\ Accepts \/ Arrives \/ GivesUp \/ Empties \/ Forgets \/ Loses
  /\ \/ failed' = failed \/ (failed # <<>> /\ failed' = Tail(failed))
     \/ \E message \in Sent : failed' = Pushed(failed, message)

LEMMA TakenWaypoint ==
  ASSUME LinkTyped, TakeWaypoint
  PROVE  RoverSide /\ CP!Next
<1> DEFINE message == Head(waypoints)
<1>1. /\ waypoints # <<>> /\ waypoints' = Tail(waypoints)
      /\ CP!WaypointCallback(message.token, message.point)
      /\ UNCHANGED <<dispatcher, reached, failed, history>>
  BY SameCallback DEF TakeWaypoint
<1>2. message \in Sent
  BY <1>1 DEF LinkTyped
<1>3. message.token \in 1..MaxToken /\ message.point \in Points
  BY <1>2 DEF Sent
<1> HIDE DEF message
<1>4. CP!Next
  BY <1>1, <1>3 DEF CP!Next
<1>5. CASE CP!AcceptWaypoint(message.token, message.point)
  BY <1>1, <1>4, <1>5 DEF CP!AcceptWaypoint, RoverSide, Accepts, message
<1>6. CASE CP!SuppressWaypoint(message.token, message.point)
  BY <1>1, <1>4, <1>6 DEF CP!SuppressWaypoint, RoverSide, Loses
<1>. QED
  BY <1>1, <1>4, <1>5, <1>6 DEF CP!WaypointCallback

LEMMA SteppedRover ==
  ASSUME LinkTyped, RoverStep
  PROVE  RoverSide /\ CP!Next
<1> DEFINE message == [token |-> notice'.token, point |-> notice'.point]
<1>1. /\ CP!LocatedStep
      /\ UNCHANGED <<dispatcher, waypoints, history>>
      /\ reached' = IF notice' # NoNotice /\ notice'.kind = "reached"
                    THEN Pushed(reached, message) ELSE reached
      /\ failed' = IF notice' # NoNotice /\ notice'.kind = "failed"
                   THEN Pushed(failed, message) ELSE failed
  BY SameStep DEF RoverStep
<1>2. PICK d \in CP!Distance : CP!StepWithPose(d)
  BY <1>1 DEF CP!LocatedStep
<1>3. CP!Next
  BY <1>1 DEF CP!Next
<1>4. ASSUME queue # <<>>
      PROVE  /\ Head(queue).token \in 1..MaxToken /\ Head(queue).point \in Points
             /\ [token |-> Head(queue).token, point |-> Head(queue).point] \in Sent
  <2>1. Head(queue) \in CP!Waypoint
    BY <1>4 DEF LinkTyped, CP!TypeOK
  <2>. QED
    BY <2>1 DEF CP!Waypoint, Sent
<1>5. CASE CP!StepReached
  <2>1. /\ queue # <<>> /\ queue' = Tail(queue)
        /\ reachedOrder' = CP!Remember(Head(queue).token)
        /\ notice' = [kind |-> "reached", token |-> Head(queue).token,
                      point |-> Head(queue).point]
    BY <1>5 DEF CP!StepReached, CP!Pursuing, CP!Resolve
  <2>2. message \in Sent /\ message.token = Head(queue).token /\ notice'.kind # "failed"
    BY <1>4, <2>1
  <2> HIDE DEF message
  <2>. QED
    BY <1>1, <1>3, <2>1, <2>2 DEF RoverSide, Arrives
<1>6. CASE CP!StepFailed(d)
  <2>1. /\ queue # <<>> /\ queue' = Tail(queue) /\ reachedOrder' = reachedOrder
        /\ notice' = [kind |-> "failed", token |-> Head(queue).token,
                      point |-> Head(queue).point]
    BY <1>6 DEF CP!StepFailed, CP!Pursuing, CP!Resolve
  <2>2. message \in Sent /\ notice'.kind # "reached"
    BY <1>4, <2>1
  <2> HIDE DEF message
  <2>. QED
    BY <1>1, <1>3, <2>1, <2>2 DEF RoverSide, GivesUp
<1>7. CASE CP!StepRecovering(d) \/ CP!StepNavigating(d)
  <2>1. notice' = NoNotice /\ UNCHANGED <<queue, reachedOrder>>
    BY <1>7 DEF CP!StepRecovering, CP!StepNavigating
  <2>. QED
    BY <1>1, <1>3, <2>1 DEF RoverSide, Loses
<1>. QED
  BY <1>2, <1>5, <1>6, <1>7 DEF CP!StepWithPose

LEMMA RestingRover ==
  ASSUME LinkTyped,
         TakeEndTrial \/ RoverIdleStep \/ RoverClock \/ RestartRover
  PROVE  RoverSide /\ CP!Next
<1>1. CASE TakeEndTrial
  <2>1. CP!EndTrialCallback /\ UNCHANGED <<dispatcher, waypoints, reached, failed, history>>
    BY <1>1, SameEndTrial DEF TakeEndTrial
  <2>. QED
    BY <2>1 DEF CP!EndTrialCallback, CP!Next, RoverSide, Empties
<1>2. CASE RoverIdleStep
  <2>1. /\ CP!StepTrialEnded \/ CP!StepEmptyQueue(TRUE) \/ CP!StepWithoutPose
        /\ UNCHANGED <<dispatcher, waypoints, reached, failed, history>>
    BY <1>2, SameIdleSteps DEF RoverIdleStep
  <2>2. UNCHANGED <<queue, reachedOrder>>
    BY <2>1 DEF CP!StepTrialEnded, CP!StepEmptyQueue, CP!StepWithoutPose, CP!Publish
  <2>3. CP!Next
    BY <2>1 DEF CP!Next
  <2>. QED
    BY <2>1, <2>2, <2>3 DEF RoverSide, Loses
<1>3. CASE RoverClock
  <2>1. CP!TimePasses /\ UNCHANGED <<dispatcher, waypoints, reached, failed, history>>
    BY <1>3, SameIdleSteps DEF RoverClock
  <2>. QED
    BY <2>1 DEF CP!TimePasses, CP!Next, RoverSide, Loses
<1>4. CASE RestartRover
  <2>1. /\ CP!Restart /\ "restart" \in Faults /\ waypoints' = <<>>
        /\ UNCHANGED <<dispatcher, reached, failed, history>>
    BY <1>4, SameIdleSteps DEF RestartRover, Strike
  <2>. QED
    BY <2>1 DEF CP!Restart, CP!Next, RoverSide, Forgets
<1>. QED
  BY <1>1, <1>2, <1>3, <1>4

LEMMA LostMessage ==
  ASSUME LoseWaypoint \/ LoseNotice \/ UNCHANGED vars
  PROVE  RoverSide /\ UNCHANGED rover
BY DEF LoseWaypoint, LoseNotice, vars, history, rover, RoverSide, Loses

\* Every step of the link is a step of the PC or of the rover's side; to the
\* onboard controller it is one of its own operations or none.
LEMMA LinkStep ==
  ASSUME LinkTyped, [Next]_vars
  PROVE  (PCStep \/ RoverSide) /\ [CP!Next]_(CP!vars)
<1>1. CASE Cycle \/ Plan \/ Acknowledgement \/ TakeFailed \/ Shutdown
  <2>1. PCStep
    BY <1>1, CycleIsPCStep, PlanIsPCStep, AcknowledgementIsPCStep, FailureIsPCStep,
       ShutdownIsPCStep
  <2>2. UNCHANGED CP!vars
    BY <2>1 DEF PCStep, rover, CP!vars
  <2>. QED
    BY <2>1, <2>2
<1>2. CASE TakeWaypoint \/ RoverStep
  BY <1>2, TakenWaypoint, SteppedRover
<1>3. CASE TakeEndTrial \/ RoverIdleStep \/ RoverClock \/ RestartRover
  BY <1>3, RestingRover
<1>4. CASE LoseWaypoint \/ LoseNotice \/ UNCHANGED vars
  BY <1>4, LostMessage DEF rover, CP!vars
<1>. QED
  BY <1>1, <1>2, <1>3, <1>4 DEF Next

LEMMA ControllerTyped ==
  /\ CP!TypeOK /\ [CP!Next]_(CP!vars) => CP!TypeOK'
  /\ (CP!TypeOK /\ CP!QueuedOnce /\ [CP!Next]_(CP!vars)) => CP!QueuedOnce'
  /\ CP!Init => CP!TypeOK /\ CP!QueuedOnce
<1>1. /\ FALSE \in BOOLEAN
      /\ {ReachedCacheSize, MaximumRecoveryAttempts} \subseteq Nat \ {0}
      /\ {MaxDistance, MaxToken} \subseteq Nat
  BY ControllerAssumption, DispatcherAssumption
<1>2. NoProgress \notin CP!Progress /\ NoNotice \notin CP!Notice
  <2>1. C!Progress = CP!Progress /\ C!Notice = CP!Notice
    BY Zenon DEF C!Progress, CP!Progress, C!Notice, CP!Notice, C!Distance, CP!Distance
  <2>. QED
    BY <2>1, ControllerAssumption
<1>3. CP!Init => CP!TypeOK /\ CP!QueuedOnce
  <2> SUFFICES ASSUME CP!Init PROVE CP!TypeOK /\ CP!QueuedOnce
    OBVIOUS
  <2>1. <<>> \in Seq(CP!Waypoint) /\ <<>> \in Seq(1..MaxToken) /\ 1..Len(<<>>) = {}
    OBVIOUS
  <2>2. CP!TypeOK
    BY <2>1 DEF CP!Init, CP!TypeOK, CP!Commands
  <2>3. CP!QueuedOnce
    BY <2>1 DEF CP!Init, CP!QueuedOnce
  <2>. QED
    BY <2>2, <2>3
<1>4. CP!TypeOK /\ [CP!Next]_(CP!vars) => CP!TypeOK'
  BY <1>1, <1>2, CP!TypeNext
<1>5. (CP!TypeOK /\ CP!QueuedOnce /\ [CP!Next]_(CP!vars)) => CP!QueuedOnce'
  BY <1>1, <1>2, CP!QueuedNext
<1>. QED
  BY <1>3, <1>4, <1>5

\* Types of the whole link.
LEMMA LinkTypedNext ==
  ASSUME LinkTyped, [Next]_vars
  PROVE  LinkTyped'
<1>1. CP!TypeOK'
  BY LinkStep, ControllerTyped DEF LinkTyped
<1>2. CASE PCStep
  <2>1. waypoints' \in Seq(Sent)
    BY <1>2, PushedTopic DEF PCStep, Publishes, LinkTyped
  <2>2. reached' \in Seq(Sent) /\ failed' \in Seq(Sent)
    BY <1>2, TailOfTopic DEF PCStep, LinkTyped
  <2>. QED
    BY <1>1, <1>2, <2>1, <2>2 DEF LinkTyped, PCStep
<1>3. CASE RoverSide
  <2>1. PCSound'
    BY <1>3 DEF RoverSide, dispatcher, LinkTyped, PCSound, DP!TypeOK, Busy
  <2>2. waypoints' \in Seq(Sent)
    <3>1. \/ waypoints' = waypoints
          \/ waypoints' = <<>>
          \/ waypoints # <<>> /\ waypoints' = Tail(waypoints)
      BY <1>3 DEF RoverSide, Accepts, Arrives, GivesUp, Empties, Forgets, Loses
    <3>2. <<>> \in Seq(Sent) /\ waypoints \in Seq(Sent)
      BY DEF LinkTyped
    <3>. QED
      BY <3>1, <3>2, TailOfTopic
  <2>3. reached' \in Seq(Sent)
    <3>1. \/ reached' = reached
          \/ reached # <<>> /\ reached' = Tail(reached)
          \/ \E message \in Sent : reached' = Pushed(reached, message)
      BY <1>3 DEF RoverSide, Accepts, Arrives, GivesUp, Empties, Forgets, Loses
    <3>2. reached \in Seq(Sent)
      BY DEF LinkTyped
    <3>3. ASSUME NEW message \in Sent, reached' = Pushed(reached, message)
          PROVE  reached' \in Seq(Sent)
      BY <3>2, <3>3, PushedTopic
    <3>. QED
      BY <3>1, <3>2, <3>3, TailOfTopic
  <2>4. failed' \in Seq(Sent)
    <3>1. \/ failed' = failed
          \/ failed # <<>> /\ failed' = Tail(failed)
          \/ \E message \in Sent : failed' = Pushed(failed, message)
      BY <1>3 DEF RoverSide
    <3>2. failed \in Seq(Sent)
      BY DEF LinkTyped
    <3>3. ASSUME NEW message \in Sent, failed' = Pushed(failed, message)
          PROVE  failed' \in Seq(Sent)
      BY <3>2, <3>3, PushedTopic
    <3>. QED
      BY <3>1, <3>2, <3>3, TailOfTopic
  <2>. QED
    BY <1>1, <2>1, <2>2, <2>3, <2>4 DEF LinkTyped
<1>. QED
  BY <1>2, <1>3, LinkStep

LEMMA LinkTypedInit == Init => LinkTyped
<1> SUFFICES ASSUME Init PROVE LinkTyped
  OBVIOUS
<1>1. DP!Init /\ CP!Init
  BY SameInit, SameController DEF Init
<1>2. DP!TypeOK
  BY <1>1, DP!TypeInit, OneRover, DispatcherAssumption
<1>3. PCSound
  BY <1>1, <1>2, DispatcherAssumption DEF DP!Init, PCSound, Busy, DP!NoToken
<1>4. <<>> \in Seq(Sent)
  OBVIOUS
<1>. QED
  BY <1>1, <1>3, <1>4, ControllerTyped DEF Init, LinkTyped

\* The onboard controller in the link is the onboard controller: messages that
\* are lost, repeated by refreshes or overtaken are to it only the waypoints and
\* the ends of trial its specification already allows.
THEOREM ControllerImplemented == Spec => C!Spec
<1>1. Init => C!Init
  BY DEF Init
<1>2. C!Next = CP!Next
  <2>1. /\ \A token, point : C!WaypointCallback(token, point) = CP!WaypointCallback(token, point)
        /\ \A located : C!StepEmptyQueue(located) = CP!StepEmptyQueue(located)
    BY Zenon, SameCallback DEF C!StepEmptyQueue, CP!StepEmptyQueue, C!Publish, CP!Publish
  <2>. QED
    BY Zenon, <2>1, SameEndTrial, SameIdleSteps, SameStep DEF C!Next, CP!Next
<1>3. LinkTyped /\ [Next]_vars => [C!Next]_(C!vars)
  BY LinkStep, <1>2 DEF C!vars, CP!vars
<1>4. LinkTyped /\ [Next]_vars => LinkTyped'
  BY LinkTypedNext
<1>. QED
  BY <1>1, <1>3, <1>4, LinkTypedInit, PTL DEF Spec, C!Spec

-----------------------------------------------------------------------------
(***************************************************************************)
(* Order.  Tokens grow on the PC and topics keep their order, so whatever  *)
(* the rover holds or remembers is not newer than what is still in         *)
(* transit, and its FIFO holds commands in the order they were issued.     *)
(***************************************************************************)
InOrder ==
  /\ Ascending(waypoints) /\ Ascending(queue)
  /\ \A t \in TokensIn(waypoints) : t <= lastToken
  /\ \A q \in TokensIn(queue) : /\ q <= lastToken
                                /\ \A t \in TokensIn(waypoints) : q <= t
  /\ \A u \in CP!ReachedTokens : /\ u <= lastToken
                                 /\ \A q \in TokensIn(queue) : u <= q
                                 /\ \A t \in TokensIn(waypoints) : u <= t

LinkSound == LinkTyped /\ CP!QueuedOnce /\ InOrder

LEMMA TokensTyped ==
  ASSUME LinkTyped
  PROVE  /\ waypoints \in Seq(Sent) /\ queue \in Seq(Sent)
         /\ TokensIn(waypoints) \subseteq Nat /\ TokensIn(queue) \subseteq Nat
         /\ CP!ReachedTokens \subseteq Nat
         /\ lastToken \in Nat
<1>1. waypoints \in Seq(Sent) /\ queue \in Seq(Sent)
  BY DEF LinkTyped, CP!TypeOK, CP!Waypoint, Sent
<1>2. ASSUME NEW topic \in Seq(Sent)
      PROVE  TokensIn(topic) \subseteq Nat
  <2>1. \A i \in 1..Len(topic) : topic[i] \in Sent
    OBVIOUS
  <2>. QED
    BY <2>1 DEF TokensIn, Sent
<1>3. CP!ReachedTokens \subseteq Nat
  <2>1. reachedOrder \in Seq(1..MaxToken)
    BY DEF LinkTyped, CP!TypeOK
  <2>2. \A i \in DOMAIN reachedOrder : reachedOrder[i] \in Nat
    <3>1. DOMAIN reachedOrder = 1..Len(reachedOrder)
      BY <2>1
    <3>2. \A i \in 1..Len(reachedOrder) : reachedOrder[i] \in 1..MaxToken
      BY <2>1, ElementOfSeq
    <3>. QED
      BY <3>1, <3>2
  <2>. QED
    BY <2>2 DEF CP!ReachedTokens
<1>. QED
  BY <1>1, <1>2, <1>3 DEF LinkTyped, PCSound, DP!TypeOK


\* Of two waypoints in the FIFO the one behind is newer, as they differ.
LEMMA HeadIsOldest ==
  ASSUME LinkSound, queue # <<>>
  PROVE  /\ Head(queue).token \in TokensIn(queue)
         /\ TokensIn(Tail(queue)) \subseteq TokensIn(queue)
         /\ Ascending(Tail(queue))
         /\ \A q \in TokensIn(Tail(queue)) : Head(queue).token < q
<1>1. queue \in Seq(Sent) /\ TokensIn(queue) \subseteq Nat
  BY TokensTyped DEF LinkSound
<1>2. /\ Head(queue).token \in TokensIn(queue)
      /\ TokensIn(Tail(queue)) \subseteq TokensIn(queue)
      /\ Ascending(Tail(queue))
      /\ \A q \in TokensIn(queue) : Head(queue).token <= q
  BY <1>1, TailOfTopic DEF LinkSound, InOrder
<1>3. ASSUME NEW i \in 1..Len(Tail(queue))
      PROVE  Tail(queue)[i].token # Head(queue).token
  <2>1. Len(queue) \in Nat \ {0} /\ Head(queue) = queue[1]
    BY <1>1
  <2>2. Len(Tail(queue)) = Len(queue) - 1 /\ Tail(queue)[i] = queue[i + 1]
    BY <1>1
  <2>3. i + 1 \in 1..Len(queue) /\ 1 \in 1..Len(queue) /\ i + 1 # 1
    BY <2>1, <2>2
  <2>. QED
    BY <2>1, <2>2, <2>3 DEF LinkSound, CP!QueuedOnce
<1>4. \A q \in TokensIn(Tail(queue)) : q # Head(queue).token
  BY <1>3 DEF TokensIn
<1>. QED
  BY <1>1, <1>2, <1>4

\* The cache after a reached waypoint: that waypoint's token, and old ones.
LEMMA Remembered ==
  ASSUME CP!TypeOK, NEW token \in 1..MaxToken, reachedOrder' = CP!Remember(token)
  PROVE  /\ token \in CP!ReachedTokens'
         /\ CP!ReachedTokens' \subseteq CP!ReachedTokens \cup {token}
<1>1. reachedOrder \in Seq(1..MaxToken) /\ ReachedCacheSize \in Nat \ {0}
  BY ControllerAssumption DEF CP!TypeOK
<1>2. CASE token \in CP!ReachedTokens
  BY <1>2 DEF CP!Remember, CP!ReachedTokens
<1>3. ASSUME NEW old \in Seq(1..MaxToken), reachedOrder' = Append(old, token),
             {old[i] : i \in 1..Len(old)} \subseteq CP!ReachedTokens
      PROVE  /\ token \in CP!ReachedTokens'
             /\ CP!ReachedTokens' \subseteq CP!ReachedTokens \cup {token}
  <2>1. /\ reachedOrder' \in Seq(1..MaxToken)
        /\ Len(reachedOrder') = Len(old) + 1 /\ Len(old) \in Nat
        /\ \A i \in 1..Len(old) : reachedOrder'[i] = old[i]
        /\ reachedOrder'[Len(old) + 1] = token
    BY <1>3
  <2>2. DOMAIN reachedOrder' = 1..Len(reachedOrder')
    BY <2>1
  <2>3. \A i \in DOMAIN reachedOrder' : i \in 1..Len(old) \/ i = Len(old) + 1
    BY <2>1, <2>2
  <2>4. Len(old) + 1 \in DOMAIN reachedOrder'
    BY <2>1, <2>2
  <2>. QED
    BY <1>3, <2>1, <2>3, <2>4 DEF CP!ReachedTokens
<1>4. CASE token \notin CP!ReachedTokens /\ Len(reachedOrder) = ReachedCacheSize
  <2>1. reachedOrder # <<>>
    BY <1>1, <1>4
  <2> DEFINE rest == Tail(reachedOrder)
  <2>2. /\ rest \in Seq(1..MaxToken) /\ Len(rest) = Len(reachedOrder) - 1
        /\ \A i \in 1..Len(rest) : rest[i] = reachedOrder[i + 1]
    BY <1>1, <2>1
  <2>3. \A i \in 1..Len(rest) : i + 1 \in DOMAIN reachedOrder
    BY <1>1, <2>2
  <2>4. reachedOrder' = Append(rest, token)
    BY <1>4 DEF CP!Remember
  <2> HIDE DEF rest
  <2>5. {rest[i] : i \in 1..Len(rest)} \subseteq CP!ReachedTokens
    BY <2>2, <2>3 DEF CP!ReachedTokens
  <2>. QED
    BY <1>3, <2>2, <2>4, <2>5
<1>5. CASE token \notin CP!ReachedTokens /\ Len(reachedOrder) # ReachedCacheSize
  <2>1. reachedOrder' = Append(reachedOrder, token)
    BY <1>5 DEF CP!Remember
  <2>2. {reachedOrder[i] : i \in 1..Len(reachedOrder)} \subseteq CP!ReachedTokens
    BY <1>1 DEF CP!ReachedTokens
  <2>. QED
    BY <1>1, <1>3, <2>1, <2>2
<1>. QED
  BY <1>2, <1>4, <1>5

LEMMA OrderPC ==
  ASSUME LinkSound, PCStep
  PROVE  InOrder'
<1>1. /\ UNCHANGED <<queue, reachedOrder>> /\ lastToken <= lastToken'
      /\ lastToken' \in Nat /\ Publishes
  BY TokensTyped DEF PCStep, rover, Keeps, Issues, Drops, LinkSound
<1>2. /\ waypoints \in Seq(Sent) /\ TokensIn(waypoints) \subseteq Nat
      /\ TokensIn(queue) \subseteq Nat /\ CP!ReachedTokens \subseteq Nat /\ lastToken \in Nat
  BY TokensTyped DEF LinkSound
<1>3. Ascending(queue)' /\ TokensIn(queue)' = TokensIn(queue) /\ CP!ReachedTokens' = CP!ReachedTokens
  BY <1>1 DEF LinkSound, InOrder, Ascending, TokensIn, CP!ReachedTokens
<1>4. Ascending(waypoints') /\ TokensIn(waypoints') \subseteq TokensIn(waypoints) \cup {lastToken'}
  <2>1. \A t \in TokensIn(waypoints) : t <= lastToken'
    BY <1>1, <1>2 DEF LinkSound, InOrder
  <2>2. ASSUME NEW message \in Sent, message.token = lastToken',
               waypoints' = Pushed(waypoints, message)
        PROVE  /\ Ascending(waypoints')
               /\ TokensIn(waypoints') \subseteq TokensIn(waypoints) \cup {lastToken'}
    BY <1>2, <2>1, <2>2, PushedTopic DEF LinkSound, InOrder
  <2>. QED
    BY <1>1, <2>2 DEF Publishes, LinkSound, InOrder
<1>. QED
  BY <1>1, <1>2, <1>3, <1>4 DEF LinkSound, InOrder

LEMMA OrderRover ==
  ASSUME LinkSound, RoverSide
  PROVE  InOrder'
<1>1. /\ waypoints \in Seq(Sent) /\ queue \in Seq(Sent) /\ TokensIn(waypoints) \subseteq Nat
      /\ TokensIn(queue) \subseteq Nat /\ CP!ReachedTokens \subseteq Nat /\ lastToken \in Nat
  BY TokensTyped DEF LinkSound
<1>2. lastToken' = lastToken
  BY DEF RoverSide, dispatcher
<1>3. ASSUME Ascending(waypoints'), TokensIn(waypoints') \subseteq TokensIn(waypoints),
             Ascending(queue'), TokensIn(queue') \subseteq TokensIn(queue),
             CP!ReachedTokens' \subseteq CP!ReachedTokens
      PROVE  InOrder'
  BY <1>1, <1>2, <1>3 DEF LinkSound, InOrder
<1>4. waypoints' = Tail(waypoints) /\ waypoints # <<>> =>
        /\ Ascending(waypoints') /\ TokensIn(waypoints') \subseteq TokensIn(waypoints)
        /\ Head(waypoints) \in Sent /\ Head(waypoints).token \in TokensIn(waypoints)
        /\ \A t \in TokensIn(waypoints) : Head(waypoints).token <= t
  BY <1>1, TailOfTopic DEF LinkSound, InOrder
<1>5. reachedOrder' = reachedOrder => CP!ReachedTokens' = CP!ReachedTokens
  BY DEF CP!ReachedTokens
<1>6. Ascending(<<>>) /\ TokensIn(<<>>) = {}
  <2>1. 1..Len(<<>>) = {}
    OBVIOUS
  <2>. QED
    BY <2>1 DEF Ascending, TokensIn
<1>7. CASE Accepts
  <2> DEFINE message == [token |-> Head(waypoints).token, point |-> Head(waypoints).point]
  <2>1. message \in Sent /\ message.token = Head(waypoints).token
    BY <1>4, <1>7 DEF Accepts, Sent
  <2> HIDE DEF message
  <2>2. queue' = Append(queue, message)
    BY <1>7 DEF Accepts, message
  <2>3. \A q \in TokensIn(queue) : q <= message.token
    BY <1>4, <1>7, <2>1 DEF Accepts, LinkSound, InOrder
  <2>4. Ascending(queue') /\ TokensIn(queue') \subseteq TokensIn(queue) \cup {message.token}
    BY <1>1, <2>1, <2>2, <2>3, AppendedMessage DEF LinkSound, InOrder
  <2>5. message.token \in TokensIn(waypoints)
    BY <1>4, <1>7, <2>1 DEF Accepts
  <2>. QED
    BY <1>1, <1>2, <1>4, <1>5, <1>7, <2>1, <2>4, <2>5 DEF Accepts, LinkSound, InOrder
<1>8. CASE Arrives
  <2>1. /\ queue # <<>> /\ queue' = Tail(queue) /\ waypoints' = waypoints
        /\ reachedOrder' = CP!Remember(Head(queue).token)
    BY <1>8 DEF Arrives
  <2>2. Head(queue).token \in 1..MaxToken
    <3>1. Head(queue) \in Sent
      BY <1>1, <2>1
    <3>. QED
      BY <3>1 DEF Sent
  <2>3. CP!ReachedTokens' \subseteq CP!ReachedTokens \cup {Head(queue).token}
    BY <2>1, <2>2, Remembered DEF LinkSound, LinkTyped
  <2>. QED
    BY <1>1, <1>2, <2>1, <2>3, HeadIsOldest DEF LinkSound, InOrder
<1>9. CASE GivesUp
  BY <1>3, <1>5, <1>9, HeadIsOldest DEF GivesUp, LinkSound, InOrder
<1>10. CASE Empties \/ Forgets
  <2>1. CP!ReachedTokens' \subseteq CP!ReachedTokens
    BY <1>5, <1>10 DEF Empties, Forgets, CP!ReachedTokens
  <2>2. queue' = <<>> /\ waypoints' \in {waypoints, <<>>}
    BY <1>10 DEF Empties, Forgets
  <2>. QED
    BY <1>3, <1>6, <2>1, <2>2 DEF LinkSound, InOrder
<1>11. CASE Loses
  BY <1>3, <1>4, <1>5, <1>11 DEF Loses, LinkSound, InOrder
<1>. QED
  BY <1>7, <1>8, <1>9, <1>10, <1>11 DEF RoverSide

-----------------------------------------------------------------------------
(***************************************************************************)
(* Accounts.  Every token the PC has issued is acknowledged, abandoned or  *)
(* in execution (until the trial is stopped).  While the onboard process   *)
(* lives, a token that was reached is remembered, or a newer one is.       *)
(***************************************************************************)
Accounted ==
  ~faulted => \A t \in 1..lastToken :
                t \in acknowledged \cup abandoned \/ (Busy /\ t = active[Rover].token)

Recalled ==
  /\ acknowledged \subseteq Nat
  /\ \A t \in acknowledged \cup TokensIn(reached) : \E u \in CP!ReachedTokens : t <= u

LEMMA AccountedNext ==
  ASSUME LinkSound, Accounted, PCStep \/ RoverSide
  PROVE  Accounted'
<1>1. CASE RoverSide
  BY <1>1 DEF RoverSide, dispatcher, history, Accounted, Busy
<1>2. CASE PCStep
  <2> SUFFICES ASSUME ~faulted', NEW t \in 1..lastToken'
               PROVE  t \in acknowledged' \cup abandoned' \/ (Busy' /\ t = active'[Rover].token)
    BY DEF Accounted
  <2>1. ~faulted /\ lastToken \in Nat
    BY <1>2, TokensTyped DEF PCStep, LinkSound
  <2>2. acknowledged \cup abandoned \subseteq acknowledged' \cup abandoned'
    BY <1>2 DEF PCStep
  <2>3. CASE Keeps
    BY <2>1, <2>2, <2>3 DEF Keeps, Accounted, Busy
  <2>4. CASE Issues /\ (Busy => Clears(active[Rover].token))
    <3>1. Busy' /\ active'[Rover].token = lastToken + 1 /\ lastToken' = lastToken + 1
      BY <2>4, DispatcherAssumption DEF Issues, Busy
    <3>2. t \in 1..lastToken \/ t = lastToken + 1
      BY <2>1, <3>1
    <3>. QED
      BY <2>1, <2>2, <2>4, <3>1, <3>2 DEF Accounted, Clears
  <2>5. CASE Drops /\ (Busy => faulted' \/ Clears(active[Rover].token))
    BY <2>1, <2>2, <2>5 DEF Drops, Accounted, Clears
  <2>. QED
    BY <1>2, <2>3, <2>4, <2>5 DEF PCStep
<1>. QED
  BY <1>1, <1>2

LEMMA RecalledNext ==
  ASSUME LinkSound, Recalled, "restart" \notin Faults, PCStep \/ RoverSide
  PROVE  Recalled'
<1>1. reached \in Seq(Sent)
  BY DEF LinkSound, LinkTyped
<1>2. reached' = reached \/ (reached # <<>> /\ reached' = Tail(reached))
        => TokensIn(reached') \subseteq TokensIn(reached)
  BY <1>1, TailOfTopic
<1>3. reachedOrder' = reachedOrder => CP!ReachedTokens' = CP!ReachedTokens
  BY DEF CP!ReachedTokens
<1>4. TokensIn(reached)' = TokensIn(reached')
  BY DEF TokensIn
<1>5. TokensIn(reached) \subseteq Nat
  <2>1. \A i \in 1..Len(reached) : reached[i] \in Sent
    BY <1>1
  <2>. QED
    BY <2>1 DEF TokensIn, Sent
<1>6. CASE PCStep
  <2>1. /\ acknowledged' \subseteq acknowledged \cup TokensIn(reached)
        /\ TokensIn(reached') \subseteq TokensIn(reached)
        /\ CP!ReachedTokens' = CP!ReachedTokens
    BY <1>2, <1>3, <1>6 DEF PCStep, rover
  <2>. QED
    BY <1>4, <1>5, <2>1 DEF Recalled
<1>7. CASE RoverSide /\ ~Arrives
  <2>1. acknowledged' = acknowledged
    BY <1>7 DEF RoverSide, history
  <2>2. /\ TokensIn(reached') \subseteq TokensIn(reached)
        /\ CP!ReachedTokens' = CP!ReachedTokens
    BY <1>2, <1>3, <1>7 DEF RoverSide, Accepts, GivesUp, Empties, Forgets, Loses
  <2>. QED
    BY <1>4, <2>1, <2>2 DEF Recalled
<1>8. CASE RoverSide /\ Arrives
  <2> DEFINE token == Head(queue).token
  <2>1. queue # <<>> /\ reachedOrder' = CP!Remember(token) /\ acknowledged' = acknowledged
    BY <1>8 DEF RoverSide, Arrives, history
  <2>2. token \in TokensIn(queue) /\ token \in 1..MaxToken
    <3>1. Head(queue) \in Sent
      BY <2>1, TokensTyped DEF LinkSound
    <3>. QED
      BY <2>1, <3>1, HeadIsOldest DEF Sent
  <2>3. token \in CP!ReachedTokens'
    BY <2>1, <2>2, Remembered DEF LinkSound, LinkTyped
  <2>4. \A u \in CP!ReachedTokens : u <= token
    BY <2>2 DEF LinkSound, InOrder
  <2>5. TokensIn(reached') \subseteq TokensIn(reached) \cup {token}
    <3>1. ASSUME NEW message \in Sent, message.token = token, reached' = Pushed(reached, message)
          PROVE  TokensIn(reached') \subseteq TokensIn(reached) \cup {token}
      BY <1>1, <3>1, PushedTopic
    <3>. QED
      BY <1>8, <3>1 DEF Arrives
  <2>6. ASSUME NEW t \in acknowledged \cup TokensIn(reached) PROVE t <= token
    <3>1. PICK u \in CP!ReachedTokens : t <= u
      BY DEF Recalled
    <3>2. t \in Nat
      BY <1>5 DEF Recalled
    <3>. QED
      BY <2>2, <2>4, <3>1, <3>2, TokensTyped DEF LinkSound
  <2>. QED
    BY <1>4, <2>1, <2>2, <2>3, <2>5, <2>6 DEF Recalled
<1>. QED
  BY <1>6, <1>7, <1>8

-----------------------------------------------------------------------------
(***************************************************************************)
(* The life of a command.  Without a restart, every step of the link is a  *)
(* step of CommandLife or none.                                            *)
(***************************************************************************)
LEMMA TokensOfTail ==
  ASSUME NEW topic \in Seq(Sent), topic # <<>>
  PROVE  TokensIn(topic) = TokensIn(Tail(topic)) \cup {Head(topic).token}
<1> DEFINE rest == Tail(topic)
<1>1. /\ Len(rest) = Len(topic) - 1 /\ Len(topic) \in Nat \ {0}
      /\ \A i \in 1..Len(rest) : rest[i] = topic[i + 1]
      /\ Head(topic) = topic[1]
  OBVIOUS
<1>2. TokensIn(rest) \cup {Head(topic).token} \subseteq TokensIn(topic)
  BY TailOfTopic
<1> HIDE DEF rest
<1>3. ASSUME NEW i \in 1..Len(topic)
      PROVE  topic[i].token \in TokensIn(rest) \cup {Head(topic).token}
  <2>1. CASE i = 1
    BY <1>1, <2>1
  <2>2. CASE i # 1
    <3>1. i - 1 \in 1..Len(rest) /\ (i - 1) + 1 = i
      BY <1>1, <2>2
    <3>2. topic[i].token = rest[i - 1].token
      BY <1>1, <3>1
    <3>. QED
      BY <3>1, <3>2 DEF TokensIn
  <2>. QED
    BY <2>1, <2>2
<1>4. TokensIn(topic) \subseteq TokensIn(rest) \cup {Head(topic).token}
  BY <1>3 DEF TokensIn
<1>. QED
  BY <1>2, <1>4 DEF rest

LEMMA TokensOfAppended ==
  ASSUME NEW topic \in Seq(Sent), NEW message \in Sent
  PROVE  TokensIn(Append(topic, message)) = TokensIn(topic) \cup {message.token}
<1> DEFINE all == Append(topic, message)
<1>1. /\ Len(all) = Len(topic) + 1 /\ Len(topic) \in Nat
      /\ \A i \in 1..Len(topic) : all[i] = topic[i]
      /\ all[Len(topic) + 1] = message
  OBVIOUS
<1>2. TokensIn(all) \subseteq TokensIn(topic) \cup {message.token}
  BY AppendedMessage
<1> HIDE DEF all
<1>3. /\ \A i \in 1..Len(topic) : i \in 1..Len(all)
      /\ Len(topic) + 1 \in 1..Len(all)
  BY <1>1
<1>4. TokensIn(topic) \subseteq TokensIn(all) /\ message.token \in TokensIn(all)
  BY <1>1, <1>3 DEF TokensIn
<1>. QED
  BY <1>2, <1>4 DEF all

\* What the rover does not do, and what the PC does not do, in those terms.
LEMMA RoverUnchanged ==
  ASSUME UNCHANGED rover
  PROVE  TokensIn(queue)' = TokensIn(queue)
BY DEF rover, TokensIn

LEMMA CycleLife ==
  ASSUME LinkSound, Cycle
  PROVE  [L!Next]_(L!vars)
<1>1. PICK near : D!Tick(near) /\ UNCHANGED <<rover, reached, failed, history>>
  BY DEF Cycle, TickCycle
<1>2. DP!Tick(near)
  BY <1>1, SameTick
<1>3. (Keeps \/ Issues) /\ (Issues => ~Busy) /\ faulted' = faulted
  BY <1>2, PCTick DEF LinkSound, LinkTyped, DP!Tick
<1>4. /\ TokensIn(queue)' = TokensIn(queue)
      /\ TokensIn(reached)' = TokensIn(reached) /\ TokensIn(failed)' = TokensIn(failed)
      /\ acknowledged' = acknowledged /\ abandoned' = abandoned
  BY <1>1, RoverUnchanged DEF TokensIn, history
<1>5. CASE Keeps
  BY <1>3, <1>4, <1>5 DEF Keeps, L!vars
<1>6. CASE Issues
  <2>1. active[Rover].token = 0
    BY <1>3, <1>6 DEF LinkSound, LinkTyped, PCSound
  <2>2. abandoned' = abandoned \cup ({active[Rover].token} \ {L!None})
    BY <1>4, <2>1 DEF L!None
  <2>3. L!Issue
    BY <1>3, <1>4, <1>6, <2>2 DEF Issues, L!Issue, L!IssueNext
  <2>. QED
    BY <2>3 DEF L!Next
<1>. QED
  BY <1>3, <1>5, <1>6

LEMMA PlanLife ==
  ASSUME LinkSound, Plan
  PROVE  [L!Next]_(L!vars)
<1>1. PICK near \in SUBSET D!Reached, point \in Points, version \in Versions :
         PlanCycle(point, version, near)
  BY DEF Plan
<1>2. /\ DP!UpdateAndTick([r \in {Rover} |-> point], version.epoch, version.rev, near)
      /\ lastToken < MaxToken
  BY <1>1, SameUpdate DEF PlanCycle, Plan
<1>3. (Keeps \/ Issues) /\ faulted' = faulted
  BY <1>2, PCPlan DEF LinkSound, LinkTyped, DP!UpdateAndTick
<1>4. /\ TokensIn(queue)' = TokensIn(queue)
      /\ TokensIn(reached)' = TokensIn(reached) /\ TokensIn(failed)' = TokensIn(failed)
      /\ acknowledged' = acknowledged
  BY <1>1, RoverUnchanged DEF TokensIn, PlanCycle
<1>5. abandoned' = IF D!Activated(Rover) /\ active[Rover].token # D!NoToken
                   THEN abandoned \cup {active[Rover].token} ELSE abandoned
  BY <1>1 DEF PlanCycle
<1>6. CASE Keeps
  <2>1. ~D!Activated(Rover)
    BY <1>6 DEF Keeps, D!Activated
  <2>. QED
    BY <1>3, <1>4, <1>5, <1>6, <2>1 DEF Keeps, L!vars
<1>7. CASE Issues
  <2>1. D!Activated(Rover)
    <3>1. lastToken \in Nat /\ active[Rover].token \in {lastToken, 0}
      BY DEF LinkSound, LinkTyped, PCSound, DP!TypeOK
    <3>. QED
      BY <1>7, <3>1 DEF Issues, D!Activated, D!NoToken
  <2>2. abandoned' = abandoned \cup ({active[Rover].token} \ {L!None})
    BY <1>5, <2>1 DEF L!None, D!NoToken
  <2>3. L!Issue
    BY <1>3, <1>4, <1>7, <2>2 DEF Issues, L!Issue, L!IssueNext
  <2>. QED
    BY <2>3 DEF L!Next
<1>. QED
  BY <1>3, <1>6, <1>7

\* A notice taken from its topic leaves it, unless there is another of its token.
LEMMA NoticeTaken ==
  ASSUME NEW topic \in Seq(Sent), topic # <<>>
  PROVE  /\ Head(topic).token \in TokensIn(topic)
         /\ TokensIn(Tail(topic)) \in {TokensIn(topic), TokensIn(topic) \ {Head(topic).token}}
<1>1. /\ TokensIn(topic) = TokensIn(Tail(topic)) \cup {Head(topic).token}
  BY TokensOfTail
<1>. QED
  BY <1>1

LEMMA AcknowledgementLife ==
  ASSUME LinkSound, Acknowledgement
  PROVE  [L!Next]_(L!vars)
<1>1. PICK measured : TakeReached(measured)
  BY DEF Acknowledgement
<1> DEFINE message == Head(reached)
<1>2. /\ reached # <<>> /\ reached' = Tail(reached)
      /\ UNCHANGED <<rover, failed, abandoned>>
  BY <1>1 DEF TakeReached
<1>3. reached \in Seq(Sent)
  BY DEF LinkSound, LinkTyped
<1>4. /\ TokensIn(queue)' = TokensIn(queue) /\ TokensIn(failed)' = TokensIn(failed)
      /\ TokensIn(reached)' = TokensIn(Tail(reached))
  BY <1>2, RoverUnchanged DEF TokensIn
<1>5. /\ message.token \in TokensIn(reached)
      /\ TokensIn(reached)' \in {TokensIn(reached), TokensIn(reached) \ {message.token}}
  BY <1>2, <1>3, <1>4, NoticeTaken
<1>6. CASE D!Matches(Rover, message.token, message.point)
  <2>1. /\ DP!Acknowledge(Rover, message.token, message.point, measured)
        /\ acknowledged' = acknowledged \cup {active[Rover].token}
        /\ message.token = active[Rover].token
    BY <1>1, <1>6, SameAcknowledge DEF TakeReached, D!Matches
  <2>2. (Drops \/ Issues) /\ faulted' = faulted
    BY <2>1, PCAcknowledge DEF LinkSound, LinkTyped, DP!Acknowledge
  <2>3. L!IssueNext \/ L!IssueNone
    BY <2>2 DEF Drops, Issues, L!IssueNext, L!IssueNone, L!None
  <2>4. L!Acknowledge
    BY <1>2, <1>4, <1>5, <2>1, <2>2, <2>3 DEF L!Acknowledge
  <2>. QED
    BY <2>4 DEF L!Next
<1>7. CASE ~D!Matches(Rover, message.token, message.point)
  <2>1. UNCHANGED <<dispatcher, acknowledged>>
    BY <1>1, <1>7 DEF TakeReached
  <2>2. L!ReportVoid
    BY <1>2, <1>4, <1>5, <2>1 DEF L!ReportVoid, L!coordinator, dispatcher
  <2>. QED
    BY <2>2 DEF L!Next
<1>. QED
  BY <1>6, <1>7

LEMMA FailureLife ==
  ASSUME LinkSound, TakeFailed
  PROVE  [L!Next]_(L!vars)
<1> DEFINE message == Head(failed)
<1>1. /\ failed # <<>> /\ failed' = Tail(failed)
      /\ UNCHANGED <<rover, waypoints, reached, acknowledged>>
  BY DEF TakeFailed
<1>2. failed \in Seq(Sent)
  BY DEF LinkSound, LinkTyped
<1>3. /\ TokensIn(queue)' = TokensIn(queue) /\ TokensIn(reached)' = TokensIn(reached)
      /\ TokensIn(failed)' = TokensIn(Tail(failed))
  BY <1>1, RoverUnchanged DEF TokensIn
<1>4. /\ message.token \in TokensIn(failed)
      /\ TokensIn(failed)' \in {TokensIn(failed), TokensIn(failed) \ {message.token}}
  BY <1>1, <1>2, <1>3, NoticeTaken
<1>5. CASE D!Matches(Rover, message.token, message.point)
  <2>1. /\ DP!Fail(Rover, message.token, message.point)
        /\ abandoned' = abandoned \cup {active[Rover].token}
        /\ message.token = active[Rover].token
    BY <1>5, SameFail DEF TakeFailed, D!Matches
  <2>2. Drops /\ faulted' = faulted
    BY <2>1, PCFail DEF LinkSound, LinkTyped, DP!Fail
  <2>3. L!Fail
    BY <1>1, <1>3, <1>4, <2>1, <2>2 DEF Drops, L!Fail, L!IssueNone, L!None
  <2>. QED
    BY <2>3 DEF L!Next
<1>6. CASE ~D!Matches(Rover, message.token, message.point)
  <2>1. UNCHANGED <<dispatcher, abandoned>>
    BY <1>6 DEF TakeFailed
  <2>2. L!ReportVoid
    BY <1>1, <1>3, <1>4, <2>1 DEF L!ReportVoid, L!coordinator, dispatcher
  <2>. QED
    BY <2>2 DEF L!Next
<1>. QED
  BY <1>5, <1>6

LEMMA ShutdownLife ==
  ASSUME LinkSound, Shutdown
  PROVE  [L!Next]_(L!vars)
<1>1. DP!StopTrial /\ UNCHANGED <<rover, reached, failed, history>>
  BY SameStop DEF Shutdown
<1>2. Drops /\ faulted' = TRUE
  BY <1>1, PCStop DEF LinkSound, LinkTyped, DP!StopTrial
<1>3. /\ TokensIn(queue)' = TokensIn(queue)
      /\ TokensIn(reached)' = TokensIn(reached) /\ TokensIn(failed)' = TokensIn(failed)
  BY <1>1, RoverUnchanged DEF TokensIn
<1>4. L!Stop
  BY <1>1, <1>2, <1>3 DEF Drops, history, L!Stop, L!IssueNone, L!None
<1>. QED
  BY <1>4 DEF L!Next

\* The two sets of queued tokens, of the properties and of the invariant.
LEMMA Queued ==
  ASSUME LinkSound
  PROVE  C!QueuedTokens = TokensIn(queue)
<1>1. DOMAIN queue = 1..Len(queue)
  BY TokensTyped DEF LinkSound
<1>. QED
  BY <1>1 DEF C!QueuedTokens, TokensIn

\* A waypoint the rover accepts is newer than all it has, has been at, or that
\* was acknowledged: an older one would be in the reached cache.
LEMMA AcceptedIsNew ==
  ASSUME LinkSound, Accounted, Recalled, waypoints # <<>>,
         ~CP!SuppressedWaypoint(Head(waypoints).token, Head(waypoints).point)
  PROVE  LET t == Head(waypoints).token
         IN  /\ t \in 1..lastToken
             /\ faulted \/ t \in {active[Rover].token} \cup abandoned
             /\ \A u \in TokensIn(queue) \cup TokensIn(reached) \cup acknowledged : u < t
<1> DEFINE t == Head(waypoints).token
<1>1. /\ waypoints \in Seq(Sent) /\ TokensIn(queue) \subseteq Nat
      /\ CP!ReachedTokens \subseteq Nat /\ lastToken \in Nat
  BY TokensTyped DEF LinkSound
<1>2. Head(waypoints) \in Sent /\ t \in TokensIn(waypoints)
  BY <1>1, TailOfTopic
<1>3. t \in 1..MaxToken
  BY <1>2 DEF Sent
<1>4. t \in Nat /\ t >= 1 /\ t <= lastToken
  BY <1>2, <1>3, DispatcherAssumption DEF LinkSound, InOrder
<1>5. t \notin CP!QueuedTokens /\ t \notin CP!ReachedTokens
  BY DEF CP!SuppressedWaypoint
<1>6. t \notin TokensIn(queue)
  BY <1>5, Queued, SameTokenSets
<1> HIDE DEF t
<1>7. ASSUME NEW u \in TokensIn(queue) PROVE u < t
  <2>1. u <= t /\ u # t /\ u \in Nat
    BY <1>1, <1>2, <1>6, <1>7 DEF LinkSound, InOrder
  <2>. QED
    BY <1>4, <2>1
<1>8. ASSUME NEW u \in acknowledged \cup TokensIn(reached) PROVE u < t
  <2>1. PICK v \in CP!ReachedTokens : u <= v
    BY DEF Recalled
  <2>2. v <= t /\ v # t /\ v \in Nat
    BY <1>1, <1>2, <1>5 DEF LinkSound, InOrder
  <2>3. u \in Nat
    <3>1. \A i \in 1..Len(reached) : reached[i] \in Sent
      BY DEF LinkSound, LinkTyped
    <3>2. TokensIn(reached) \subseteq Nat
      BY <3>1 DEF TokensIn, Sent
    <3>. QED
      BY <3>2 DEF Recalled
  <2>. QED
    BY <1>4, <2>1, <2>2, <2>3
<1>9. t \notin acknowledged
  <2>1. ~(t < t)
    BY <1>4
  <2>. QED
    BY <1>8, <2>1
<1>10. t \in 1..lastToken
  BY <1>1, <1>4
<1>11. faulted \/ t \in {active[Rover].token} \cup abandoned
  BY <1>9, <1>10 DEF Accounted
<1>. QED
  BY <1>7, <1>8, <1>10, <1>11 DEF t

LEMMA WaypointLife ==
  ASSUME LinkSound, Accounted, Recalled, TakeWaypoint
  PROVE  [L!Next]_(L!vars)
<1> DEFINE message == Head(waypoints)
           t == message.token
<1>1. /\ waypoints # <<>>
      /\ CP!WaypointCallback(message.token, message.point)
      /\ UNCHANGED <<dispatcher, reached, failed, history>>
  BY SameCallback DEF TakeWaypoint
<1>2. /\ UNCHANGED L!coordinator
      /\ TokensIn(reached)' = TokensIn(reached) /\ TokensIn(failed)' = TokensIn(failed)
  BY <1>1 DEF dispatcher, history, L!coordinator, TokensIn
<1>3. CASE CP!SuppressWaypoint(message.token, message.point)
  <2>1. TokensIn(queue)' = TokensIn(queue)
    BY <1>3 DEF CP!SuppressWaypoint, TokensIn
  <2>. QED
    BY <1>2, <2>1 DEF L!vars, L!coordinator
<1>4. CASE CP!AcceptWaypoint(message.token, message.point)
  <2> DEFINE waypoint == [token |-> message.token, point |-> message.point]
  <2>1. /\ ~CP!SuppressedWaypoint(message.token, message.point)
        /\ queue' = Append(queue, waypoint)
    BY <1>4 DEF CP!AcceptWaypoint
  <2>2. queue \in Seq(Sent) /\ waypoints \in Seq(Sent)
    BY TokensTyped DEF LinkSound
  <2>3. message \in Sent
    BY <1>1, <2>2
  <2>4. waypoint \in Sent /\ waypoint.token = t
    BY <2>3 DEF Sent
  <2>5. /\ t \in 1..lastToken
        /\ faulted \/ t \in {active[Rover].token} \cup abandoned
        /\ \A u \in TokensIn(queue) \cup TokensIn(reached) \cup acknowledged : u < t
    BY <1>1, <2>1, AcceptedIsNew
  <2> HIDE DEF waypoint, message, t
  <2>6. TokensIn(queue)' = TokensIn(queue) \cup {t}
    <3>1. TokensIn(Append(queue, waypoint)) = TokensIn(queue) \cup {t}
      BY <2>2, <2>4, TokensOfAppended
    <3>. QED
      BY <2>1, <3>1 DEF TokensIn
  <2>7. L!Accept(t)
    BY <1>2, <2>5, <2>6 DEF L!Accept
  <2>. QED
    BY <2>5, <2>7 DEF L!Next
<1>. QED
  BY <1>1, <1>3, <1>4 DEF CP!WaypointCallback

\* The head of the FIFO is the oldest, and leaves it alone.
LEMMA HeadLeaves ==
  ASSUME LinkSound, queue # <<>>, queue' = Tail(queue)
  PROVE  LET t == Head(queue).token
         IN  /\ t \in TokensIn(queue)
             /\ \A u \in TokensIn(queue) : t <= u
             /\ TokensIn(queue)' = TokensIn(queue) \ {t}
<1> DEFINE t == Head(queue).token
<1>1. queue \in Seq(Sent) /\ TokensIn(queue) \subseteq Nat
  BY TokensTyped DEF LinkSound
<1>2. /\ t \in TokensIn(queue)
      /\ \A q \in TokensIn(Tail(queue)) : t < q
      /\ TokensIn(queue) = TokensIn(Tail(queue)) \cup {t}
  BY <1>1, HeadIsOldest, TokensOfTail
<1>3. TokensIn(queue)' = TokensIn(Tail(queue))
  BY DEF TokensIn
<1> HIDE DEF t
<1>4. t \in Nat /\ ~(t < t)
  BY <1>1, <1>2
<1>5. t \notin TokensIn(Tail(queue))
  BY <1>2, <1>4
<1>6. ASSUME NEW u \in TokensIn(queue) PROVE t <= u
  <2>1. u = t \/ t < u
    BY <1>2
  <2>2. u \in Nat
    BY <1>1
  <2>. QED
    BY <1>4, <2>1, <2>2
<1>. QED
  BY <1>2, <1>3, <1>5, <1>6 DEF t

LEMMA RoverStepLife ==
  ASSUME LinkSound, RoverStep
  PROVE  [L!Next]_(L!vars)
<1> DEFINE message == [token |-> notice'.token, point |-> notice'.point]
           t == Head(queue).token
<1>1. /\ CP!LocatedStep
      /\ UNCHANGED <<dispatcher, history>>
      /\ reached' = IF notice' # NoNotice /\ notice'.kind = "reached"
                    THEN Pushed(reached, message) ELSE reached
      /\ failed' = IF notice' # NoNotice /\ notice'.kind = "failed"
                   THEN Pushed(failed, message) ELSE failed
  BY SameStep DEF RoverStep
<1>2. PICK d \in CP!Distance : CP!StepWithPose(d)
  BY <1>1 DEF CP!LocatedStep
<1>3. UNCHANGED L!coordinator
  BY <1>1 DEF dispatcher, history, L!coordinator
<1>4. ASSUME queue # <<>>
      PROVE  [token |-> Head(queue).token, point |-> Head(queue).point] \in Sent
  <2>1. Head(queue) \in Sent
    BY <1>4, TokensTyped DEF LinkSound
  <2>. QED
    BY <2>1 DEF Sent
<1>5. reached \in Seq(Sent) /\ failed \in Seq(Sent)
  BY DEF LinkSound, LinkTyped
<1>6. ASSUME NEW kind \in {"reached", "failed"},
             queue # <<>>, queue' = Tail(queue),
             notice' # NoNotice,
             notice' = [kind |-> kind, token |-> Head(queue).token, point |-> Head(queue).point]
      PROVE  [L!Next]_(L!vars)
  <2>1. message \in Sent /\ message.token = t /\ notice'.kind = kind
    BY <1>4, <1>6
  <2>2. /\ t \in TokensIn(queue)
        /\ \A u \in TokensIn(queue) : t <= u
        /\ TokensIn(queue)' = TokensIn(queue) \ {t}
    BY <1>6, HeadLeaves
  <2> HIDE DEF message, t
  <2>3. CASE kind = "reached"
    <3>1. reached' = Pushed(reached, message) /\ failed' = failed
      BY <1>1, <1>6, <2>1, <2>3
    <3>2. TokensIn(Pushed(reached, message)) \subseteq TokensIn(reached) \cup {t}
      BY <1>5, <2>1, PushedTopic
    <3>3. TokensIn(reached)' \subseteq TokensIn(reached) \cup {t}
          /\ TokensIn(failed)' = TokensIn(failed)
      BY <3>1, <3>2 DEF TokensIn
    <3>4. L!Resolve(t)
      BY <1>3, <2>2, <3>3 DEF L!Resolve
    <3>. QED
      BY <2>2, <3>4 DEF L!Next
  <2>4. CASE kind = "failed"
    <3>1. failed' = Pushed(failed, message) /\ reached' = reached
      BY <1>1, <1>6, <2>1, <2>4
    <3>2. TokensIn(Pushed(failed, message)) \subseteq TokensIn(failed) \cup {t}
      BY <1>5, <2>1, PushedTopic
    <3>3. TokensIn(failed)' \subseteq TokensIn(failed) \cup {t}
          /\ TokensIn(reached)' = TokensIn(reached)
      BY <3>1, <3>2 DEF TokensIn
    <3>4. L!Resolve(t)
      BY <1>3, <2>2, <3>3 DEF L!Resolve
    <3>. QED
      BY <2>2, <3>4 DEF L!Next
  <2>. QED
    BY <2>3, <2>4
<1>7. ASSUME queue # <<>>, NEW kind \in {"reached", "failed"},
             notice' = [kind |-> kind, token |-> Head(queue).token, point |-> Head(queue).point]
      PROVE  notice' # NoNotice
  <2>1. C!Notice = CP!Notice
    BY Zenon DEF C!Notice, CP!Notice
  <2>2. Head(queue) \in CP!Waypoint
    BY <1>7 DEF LinkSound, LinkTyped, CP!TypeOK
  <2>3. notice' \in CP!Notice
    BY <1>7, <2>2 DEF CP!Waypoint, CP!Notice
  <2>. QED
    BY <2>1, <2>3, ControllerAssumption
<1>8. CASE CP!StepReached
  BY <1>6, <1>7, <1>8 DEF CP!StepReached, CP!Pursuing, CP!Resolve
<1>9. CASE CP!StepFailed(d)
  BY <1>6, <1>7, <1>9 DEF CP!StepFailed, CP!Pursuing, CP!Resolve
<1>10. CASE CP!StepRecovering(d) \/ CP!StepNavigating(d)
  <2>1. notice' = NoNotice /\ queue' = queue
    BY <1>10 DEF CP!StepRecovering, CP!StepNavigating
  <2>2. reached' = reached /\ failed' = failed
    BY <1>1, <2>1
  <2>. QED
    BY <1>3, <2>1, <2>2 DEF L!vars, L!coordinator, TokensIn
<1>. QED
  BY <1>2, <1>8, <1>9, <1>10 DEF CP!StepWithPose

\* An end_trial message is sent when the trial is stopped.
EndMeansStopped == endTrial => faulted

LEMMA EndMeansStoppedNext ==
  ASSUME LinkSound, EndMeansStopped, [Next]_vars
  PROVE  EndMeansStopped'
<1>1. faulted => faulted'
  BY LinkStep DEF LinkSound, PCStep, RoverSide, dispatcher
<1>2. CASE Shutdown
  <2>1. faulted'
    BY <1>2, SameStop, PCStop DEF Shutdown, LinkSound, LinkTyped
  <2>. QED
    BY <2>1 DEF EndMeansStopped
<1>3. CASE TakeEndTrial \/ RestartRover
  BY <1>3 DEF TakeEndTrial, RestartRover, EndMeansStopped
<1>4. CASE Cycle \/ Plan \/ Acknowledgement \/ TakeFailed \/ TakeWaypoint \/ RoverStep
           \/ RoverIdleStep \/ RoverClock \/ LoseWaypoint \/ LoseNotice \/ UNCHANGED vars
  <2>1. endTrial' = endTrial
    BY <1>4 DEF Cycle, TickCycle, Plan, PlanCycle, Acknowledgement, TakeReached, TakeFailed,
       TakeWaypoint, RoverStep, RoverIdleStep, RoverClock, LoseWaypoint, LoseNotice, vars
  <2>. QED
    BY <1>1, <2>1 DEF EndMeansStopped
<1>. QED
  BY <1>2, <1>3, <1>4 DEF Next

LEMMA EndTrialLife ==
  ASSUME EndMeansStopped, TakeEndTrial
  PROVE  [L!Next]_(L!vars)
<1>1. /\ CP!EndTrialCallback /\ endTrial
      /\ UNCHANGED <<dispatcher, reached, failed, history>>
  BY SameEndTrial DEF TakeEndTrial
<1>2. queue' = <<>>
  BY <1>1 DEF CP!EndTrialCallback
<1>3. TokensIn(queue)' = {}
  <2>1. 1..Len(<<>>) = {}
    OBVIOUS
  <2>. QED
    BY <1>2, <2>1 DEF TokensIn
<1>4. L!Clear
  BY <1>1, <1>3 DEF EndMeansStopped, L!Clear, L!coordinator, dispatcher, history, TokensIn
<1>. QED
  BY <1>4 DEF L!Next

LEMMA RestLife ==
  ASSUME LinkSound,
         RoverIdleStep \/ RoverClock \/ LoseWaypoint \/ LoseNotice \/ UNCHANGED vars
  PROVE  [L!Next]_(L!vars)
<1>1. CASE RoverIdleStep \/ RoverClock
  <2>1. /\ \/ CP!StepTrialEnded \/ CP!StepEmptyQueue(TRUE) \/ CP!StepWithoutPose
           \/ CP!TimePasses
        /\ UNCHANGED <<dispatcher, reached, failed, history>>
    BY <1>1, SameIdleSteps DEF RoverIdleStep, RoverClock
  <2>2. queue' = queue
    BY <2>1 DEF CP!StepTrialEnded, CP!StepEmptyQueue, CP!StepWithoutPose, CP!Publish,
       CP!TimePasses
  <2>. QED
    BY <2>1, <2>2 DEF L!vars, dispatcher, history, TokensIn
<1>2. CASE LoseWaypoint \/ UNCHANGED vars
  BY <1>2 DEF LoseWaypoint, vars, L!vars, dispatcher, rover, history, TokensIn
<1>3. CASE LoseNotice
  <2>1. reached \in Seq(Sent) /\ failed \in Seq(Sent)
    BY DEF LinkSound, LinkTyped
  <2>2. /\ \/ reached # <<>> /\ reached' = Tail(reached) /\ failed' = failed
           \/ failed # <<>> /\ failed' = Tail(failed) /\ reached' = reached
        /\ UNCHANGED <<dispatcher, rover, history>>
    BY <1>3 DEF LoseNotice
  <2>3. TokensIn(reached') \subseteq TokensIn(reached) /\ TokensIn(failed') \subseteq TokensIn(failed)
    BY <2>1, <2>2, TailOfTopic
  <2>4. TokensIn(reached)' = TokensIn(reached') /\ TokensIn(failed)' = TokensIn(failed')
    BY DEF TokensIn
  <2>5. L!ReportVoid
    BY <2>2, <2>3, <2>4, RoverUnchanged DEF L!ReportVoid, L!coordinator, dispatcher, history
  <2>. QED
    BY <2>5 DEF L!Next
<1>. QED
  BY <1>1, <1>2, <1>3

LEMMA LifeNext ==
  ASSUME LinkSound, Accounted, Recalled, EndMeansStopped, "restart" \notin Faults, [Next]_vars
  PROVE  [L!Next]_(L!vars)
<1>1. ~RestartRover
  BY DEF RestartRover, Strike
<1>. QED
  BY <1>1, CycleLife, PlanLife, AcknowledgementLife, FailureLife, ShutdownLife, WaypointLife,
     EndTrialLife, RoverStepLife, RestLife DEF Next

-----------------------------------------------------------------------------
(***************************************************************************)
(* The theorems.                                                           *)
(***************************************************************************)
LEMMA SoundNext ==
  ASSUME LinkSound, Accounted, [Next]_vars
  PROVE  LinkSound' /\ Accounted'
<1>1. LinkTyped'
  BY LinkTypedNext DEF LinkSound
<1>2. CP!QueuedOnce'
  BY LinkStep, ControllerTyped DEF LinkSound, LinkTyped
<1>3. PCStep \/ RoverSide
  BY LinkStep DEF LinkSound
<1>4. InOrder'
  BY <1>3, OrderPC, OrderRover
<1>. QED
  BY <1>1, <1>2, <1>3, <1>4, AccountedNext DEF LinkSound

LEMMA SoundInit == Init => LinkSound /\ Accounted /\ Recalled
<1> SUFFICES ASSUME Init PROVE LinkSound /\ Accounted /\ Recalled
  OBVIOUS
<1>1. LinkTyped
  BY LinkTypedInit
<1>2. CP!QueuedOnce
  BY SameController, ControllerTyped DEF Init
<1>3. /\ queue = <<>> /\ waypoints = <<>> /\ reached = <<>> /\ reachedOrder = <<>>
      /\ lastToken = 0 /\ acknowledged = {}
  BY SameInit, SameController DEF Init, DP!Init, CP!Init
<1>4. 1..Len(<<>>) = {} /\ DOMAIN <<>> = {} /\ 1..0 = {}
  OBVIOUS
<1>5. InOrder
  BY <1>3, <1>4 DEF InOrder, Ascending, TokensIn, CP!ReachedTokens
<1>6. Accounted /\ Recalled
  BY <1>3, <1>4 DEF Accounted, Recalled, TokensIn
<1>. QED
  BY <1>1, <1>2, <1>5, <1>6 DEF LinkSound

LEMMA SoundAlways == Spec => [](LinkSound /\ Accounted)
<1>1. LinkSound /\ Accounted /\ [Next]_vars => (LinkSound /\ Accounted)'
  BY SoundNext
<1>. QED
  BY <1>1, SoundInit, PTL DEF Spec

\* The rover drives its commands in the order the PC issued them, whatever was
\* lost, refreshed or restarted in between: the FIFO holds growing tokens, and
\* nothing in transit is older than what the FIFO holds or the cache remembers.
THEOREM DrivenInOrder == Spec => []InOrder
<1>1. LinkSound /\ Accounted => InOrder
  BY DEF LinkSound
<1>. QED
  BY <1>1, SoundAlways, PTL

\* A reached token is not newer than the cache, and the cache is older than the
\* FIFO: so the FIFO holds no acknowledged command.
LEMMA RecalledNotQueued ==
  ASSUME LinkSound, Recalled
  PROVE  AcknowledgedNotRequeued
<1> SUFFICES ASSUME NEW t \in acknowledged, t \in TokensIn(queue) PROVE FALSE
  BY Queued DEF AcknowledgedNotRequeued
<1>1. PICK u \in CP!ReachedTokens : t <= u
  BY DEF Recalled
<1>2. u <= t /\ u \in Nat /\ t \in Nat
  BY <1>1, TokensTyped DEF LinkSound, InOrder
<1>3. u = t
  BY <1>1, <1>2
<1>4. PICK i \in 1..Len(queue) : queue[i].token = t
  BY DEF TokensIn
<1>5. PICK k \in DOMAIN reachedOrder : reachedOrder[k] = t
  BY <1>3 DEF CP!ReachedTokens
<1>6. k \in 1..Len(reachedOrder)
  BY DEF LinkSound, LinkTyped, CP!TypeOK
<1>. QED
  BY <1>4, <1>5, <1>6 DEF LinkSound, CP!QueuedOnce

\* While the onboard process lives, no refresh or late message puts a command
\* that was acknowledged back into the FIFO, for any size of the reached cache
\* and any depth of the topics.
THEOREM AcknowledgedStaysOut ==
  ASSUME "restart" \notin Faults
  PROVE  Spec => []AcknowledgedNotRequeued
<1>1. LinkSound /\ Accounted /\ Recalled /\ [Next]_vars => Recalled'
  BY RecalledNext, LinkStep DEF LinkSound
<1>2. LinkSound /\ Accounted /\ Recalled => AcknowledgedNotRequeued
  BY RecalledNotQueued
<1>. QED
  BY <1>1, <1>2, SoundInit, SoundAlways, PTL DEF Spec

\* Hence a rover whose PC waits for a command can besides drive only to commands
\* that failed or were superseded.
THEOREM OnlyAbandonedLinger ==
  ASSUME "restart" \notin Faults
  PROVE  Spec => []OnlyAbandonedCommandsLinger
<1>1. LinkSound /\ Accounted /\ AcknowledgedNotRequeued => OnlyAbandonedCommandsLinger
  <2> SUFFICES ASSUME LinkSound, Accounted, AcknowledgedNotRequeued, Busy,
                      NEW t \in C!QueuedTokens
               PROVE  t \in {active[Rover].token} \cup abandoned
    BY DEF OnlyAbandonedCommandsLinger, Busy
  <2>1. t \in TokensIn(queue)
    BY Queued
  <2>2. t \in 1..lastToken
    <3>1. PICK i \in 1..Len(queue) : queue[i].token = t
      BY <2>1 DEF TokensIn
    <3>2. queue[i] \in Sent
      BY TokensTyped DEF LinkSound
    <3>3. t \in 1..MaxToken
      BY <3>1, <3>2 DEF Sent
    <3>. QED
      BY <2>1, <3>3, TokensTyped, DispatcherAssumption DEF LinkSound, InOrder
  <2>3. ~faulted
    BY DEF LinkSound, LinkTyped, PCSound
  <2>. QED
    BY <2>2, <2>3 DEF Accounted, AcknowledgedNotRequeued
<1>. QED
  BY <1>1, AcknowledgedStaysOut, SoundAlways, PTL

\* The abstract specification is strong enough for what the link is there for: its
\* own steps keep the rover away from what it has been at, and from anything the
\* coordinator neither waits for nor gave up.
THEOREM CommandLifeKeepsPromise == L!Spec => []L!Promise
<1> DEFINE Inv == lastToken \in Nat /\ L!None \notin TokensIn(queue) /\ L!Promise
<1>1. L!Init => Inv
  BY DEF L!Init, L!Promise, L!None
<1>2. Inv /\ [L!Next]_(L!vars) => Inv'
  <2> SUFFICES ASSUME Inv, [L!Next]_(L!vars) PROVE Inv'
    OBVIOUS
  <2>1. CASE L!Issue
    BY <2>1 DEF L!Issue, L!IssueNext, L!Promise, L!None
  <2>2. CASE L!Acknowledge
    BY <2>2 DEF L!Acknowledge, L!IssueNext, L!IssueNone, L!Promise, L!None
  <2>3. CASE L!Fail
    BY <2>3 DEF L!Fail, L!IssueNone, L!Promise, L!None
  <2>4. CASE L!Stop
    BY <2>4 DEF L!Stop, L!IssueNone, L!Promise
  <2>5. ASSUME NEW t \in 1..lastToken, L!Accept(t) PROVE Inv'
    <3>1. t # L!None /\ ~(t < t)
      BY DEF L!None
    <3>. QED
      BY <2>5, <3>1 DEF L!Accept, L!coordinator, L!Promise
  <2>6. ASSUME NEW t \in TokensIn(queue), L!Resolve(t) PROVE Inv'
    BY <2>6 DEF L!Resolve, L!coordinator, L!Promise
  <2>7. CASE L!Clear
    BY <2>7 DEF L!Clear, L!coordinator, L!Promise
  <2>8. CASE L!ReportVoid
    BY <2>8 DEF L!ReportVoid, L!coordinator, L!Promise
  <2>9. CASE UNCHANGED L!vars
    BY <2>9 DEF L!vars, L!Promise
  <2>. QED
    BY <2>1, <2>2, <2>3, <2>4, <2>5, <2>6, <2>7, <2>8, <2>9 DEF L!Next
<1>. QED
  BY <1>1, <1>2, PTL DEF L!Spec

\* Whatever the topics lose, delay or repeat, and whatever is dropped from the
\* caches: while the onboard process lives, the coordinator and the rover keep
\* what CommandLife promises.
THEOREM LinkImplementsCommandLife ==
  ASSUME "restart" \notin Faults
  PROVE  Spec => ImplementsCommandLife
<1>1. Init => L!Init /\ EndMeansStopped
  <2> SUFFICES ASSUME Init PROVE L!Init /\ EndMeansStopped
    OBVIOUS
  <2>1. DP!Init /\ CP!Init
    BY SameInit, SameController DEF Init
  <2>2. 1..Len(<<>>) = {}
    OBVIOUS
  <2>3. TokensIn(queue) = {} /\ TokensIn(reached) = {} /\ TokensIn(failed) = {}
    BY <2>1, <2>2 DEF Init, CP!Init, TokensIn
  <2>4. lastToken = 0 /\ active[Rover].token = 0 /\ faulted = FALSE
    BY <2>1 DEF DP!Init, DP!NoToken
  <2>. QED
    BY <2>3, <2>4 DEF Init, L!Init, L!None, EndMeansStopped
<1>2. LinkSound /\ Accounted /\ Recalled /\ [Next]_vars => Recalled'
  BY RecalledNext, LinkStep DEF LinkSound
<1>3. LinkSound /\ EndMeansStopped /\ [Next]_vars => EndMeansStopped'
  BY EndMeansStoppedNext
<1>4. LinkSound /\ Accounted /\ Recalled /\ EndMeansStopped /\ [Next]_vars => [L!Next]_(L!vars)
  BY LifeNext
<1>. QED
  BY <1>1, <1>2, <1>3, <1>4, SoundInit, SoundAlways, PTL DEF Spec, L!Spec, ImplementsCommandLife
=============================================================================
