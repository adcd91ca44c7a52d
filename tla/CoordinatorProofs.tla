-------------------------- MODULE CoordinatorProofs --------------------------
(***************************************************************************)
(* The coordinator implements the dispatcher's specification, and what it  *)
(* activates is the newest result, for every set of robots and points and  *)
(* every bound.                                                            *)
(*                                                                         *)
(* The dispatcher's lemmas are instantiated as DP.  Coordinator's own      *)
(* instance is D, so the first lemmas say that D and DP name the same      *)
(* operations; the rest of the module speaks of DP.                        *)
(***************************************************************************)
EXTENDS Coordinator, TLAPS

DP == INSTANCE DispatcherProofs WITH Versions <- AllVersions, reactive <- Reactive

-----------------------------------------------------------------------------
(***************************************************************************)
(* The instances.                                                          *)
(***************************************************************************)
LEMMA VersionsTyped == AllVersions \subseteq [epoch : Nat, rev : Nat \X Nat]
BY LimitsAssumption DEF AllVersions

LEMMA FiniteRobots == DP!IsFiniteSet(Robots)
BY DispatcherAssumption DEF DP!IsFiniteSet, IsFiniteSet

LEMMA SameActivation ==
  ASSUME NEW act, NEW pend, NEW memo, NEW ids
  PROVE  D!ActivatePending(act, pend, memo, ids) = DP!ActivatePending(act, pend, memo, ids)
BY Zenon DEF D!ActivatePending, DP!ActivatePending, D!Publish, DP!Publish,
   D!Signature, DP!Signature, D!Eligible, DP!Eligible, D!Repairs, DP!Repairs,
   D!Proposed, DP!Proposed, D!Separated, DP!Separated, D!Endpoints, DP!Endpoints,
   D!Busy, DP!Busy, D!NoToken, DP!NoToken, D!TokenOf, DP!TokenOf,
   D!NewestTokens, DP!NewestTokens, D!Cardinality, DP!Cardinality

LEMMA SameTickFrom ==
  ASSUME NEW pend, NEW memo, NEW near
  PROVE  D!TickFrom(pend, memo, near) = DP!TickFrom(pend, memo, near)
BY Zenon, SameActivation DEF D!TickFrom, DP!TickFrom, D!TickPending, DP!TickPending,
   D!Suppressed, DP!Suppressed, D!DropIf, DP!DropIf

LEMMA SameTick ==
  ASSUME NEW near
  PROVE  D!Tick(near) = DP!Tick(near)
BY Zenon, SameTickFrom DEF D!Tick, DP!Tick

LEMMA SameUpdate ==
  ASSUME NEW setpoints, NEW epoch, NEW rev, NEW near
  PROVE  D!UpdateAndTick(setpoints, epoch, rev, near)
           = DP!UpdateAndTick(setpoints, epoch, rev, near)
BY Zenon, SameTickFrom DEF D!UpdateAndTick, DP!UpdateAndTick, D!PendingAfter,
   DP!PendingAfter, D!MemoAfter, DP!MemoAfter, D!NewestAfter, DP!NewestAfter,
   D!Accepted, DP!Accepted, D!Accepts, DP!Accepts, D!Retains, DP!Retains,
   D!Older, DP!Older

LEMMA SameAcknowledge ==
  ASSUME NEW r, NEW token, NEW point, NEW measured
  PROVE  D!Acknowledge(r, token, point, measured)
           = DP!Acknowledge(r, token, point, measured)
BY Zenon, SameActivation DEF D!Acknowledge, DP!Acknowledge, D!Matches, DP!Matches,
   D!Idle, DP!Idle, D!NoToken, DP!NoToken, D!Suppressed, DP!Suppressed,
   D!DropIf, DP!DropIf

LEMMA SameFail ==
  ASSUME NEW r, NEW token, NEW point
  PROVE  D!Fail(r, token, point) = DP!Fail(r, token, point)
BY Zenon DEF D!Fail, DP!Fail, D!Matches, DP!Matches, D!Idle, DP!Idle,
   D!NoToken, DP!NoToken, D!Suppressed, DP!Suppressed, D!DropIf, DP!DropIf

LEMMA SameStop == D!StopTrial = DP!StopTrial
BY Zenon DEF D!StopTrial, DP!StopTrial, D!Idle, DP!Idle, D!NoToken, DP!NoToken

LEMMA SameBounds == D!Reached = DP!Reached /\ D!TokenBudget = DP!TokenBudget
BY Zenon DEF D!Reached, DP!Reached, D!TokenBudget, DP!TokenBudget,
   D!Cardinality, DP!Cardinality

LEMMA SameInit == D!Init = DP!Init
BY Zenon DEF D!Init, DP!Init, D!NoToken, DP!NoToken

LEMMA SameNext == D!Next = DP!Next
BY Zenon, SameTick, SameUpdate, SameAcknowledge, SameFail, SameStop, SameBounds
   DEF D!Next, DP!Next

LEMMA SameActivated ==
  ASSUME NEW r
  PROVE  D!Activated(r) = DP!Activated(r)
BY Zenon DEF D!Activated, DP!Activated, D!NoToken, DP!NoToken

-----------------------------------------------------------------------------
(***************************************************************************)
(* The steps.  Each leaves the dispatcher alone or is one of its           *)
(* operations; each keeps the record of the computations, extends it, or   *)
(* follows a switch of the objective.                                      *)
(***************************************************************************)
RecordKept == UNCHANGED <<objective, seenObjective, revision, computes>>

RecordExtended == NoteComputation /\ UNCHANGED objective

ObjectiveSwitched ==
  /\ objective < MaxObjectives /\ objective' = objective + 1
  /\ UNCHANGED <<seenObjective, revision, computes>>

\* A result is handed over.
HandsOver(setpoints, near) ==
  /\ RecordExtended
  /\ Reactive => DP!TokenBudget
  /\ resultRevision' = CommandRevision
  /\ DP!UpdateAndTick(setpoints, objective, CommandRevision, near)

\* The dispatcher works on the requests it has.
GoesOn ==
  /\ RecordKept \/ RecordExtended
  /\ UNCHANGED resultRevision
  /\ \/ \E near \in SUBSET DP!Reached : DP!Tick(near)
     \/ /\ DP!TokenBudget
        /\ \E r \in Robots :
             \/ \E measured \in {"unknown", "near", "away"} :
                  DP!Acknowledge(r, active[r].token, active[r].point, measured)
             \/ DP!Fail(r, active[r].token, active[r].point)
     \/ DP!StopTrial

Rests ==
  /\ RecordKept \/ RecordExtended \/ ObjectiveSwitched
  /\ UNCHANGED <<dispatcher, resultRevision>>

LEMMA StepKinds ==
  ASSUME [Next]_vars
  PROVE  /\ UNCHANGED schedule
         /\ \/ Rests
            \/ GoesOn
            \/ \E near \in SUBSET DP!Reached, setpoints \in [Robots -> Points] :
                 HandsOver(setpoints, near)
<1>1. CASE SwitchObjective
  BY <1>1 DEF SwitchObjective, Rests, ObjectiveSwitched
<1>2. CASE PoseUnavailableCycle
  BY <1>2 DEF PoseUnavailableCycle, Rests, RecordKept
<1>3. CASE ControlCycle
  <2>0. UNCHANGED <<objective, schedule>>
    BY <1>3 DEF ControlCycle
  <2>1. CASE ComputeError
    BY <2>0, <2>1 DEF ComputeError, Rests, RecordExtended
  <2>2. CASE ComputeWhileFaulted
    BY <2>0, <2>2 DEF ComputeWhileFaulted, Rests, RecordExtended
  <2>3. ASSUME NEW near \in SUBSET D!Reached, ComputeHold(near)
        PROVE  Rests \/ GoesOn
    <3>1. RecordExtended /\ UNCHANGED resultRevision
      BY <2>0, <2>3 DEF ComputeHold, RecordExtended
    <3>2. D!Tick(near) \/ UNCHANGED dispatcher
      BY <2>3 DEF ComputeHold
    <3>. QED
      BY <3>1, <3>2, SameTick, SameBounds DEF Rests, GoesOn
  <2>4. ASSUME NEW near \in SUBSET D!Reached, ReuseResult(near)
        PROVE  Rests \/ GoesOn
    <3>1. RecordKept /\ UNCHANGED resultRevision
      BY <2>0, <2>4 DEF ReuseResult, RecordKept
    <3>2. D!Tick(near) \/ UNCHANGED dispatcher
      BY <2>4 DEF ReuseResult
    <3>. QED
      BY <3>1, <3>2, SameTick, SameBounds DEF Rests, GoesOn
  <2>5. ASSUME NEW near \in SUBSET D!Reached, NEW setpoints \in [Robots -> Points],
               ComputeAndDispatch(setpoints, near)
        PROVE  HandsOver(setpoints, near) /\ near \in SUBSET DP!Reached
    BY <2>0, <2>5, SameUpdate, SameBounds
       DEF ComputeAndDispatch, HandsOver, RecordExtended
  <2>. QED
    BY <1>3, <2>0, <2>1, <2>2, <2>3, <2>4, <2>5 DEF ControlCycle
<1>4. ASSUME NEW r \in Robots, NEW measured \in {"unknown", "near", "away"},
             AcknowledgementCallback(r, measured)
      PROVE  GoesOn /\ UNCHANGED schedule
  BY <1>4, SameAcknowledge, SameBounds DEF AcknowledgementCallback, GoesOn, RecordKept
<1>5. ASSUME NEW r \in Robots, FailureCallback(r)
      PROVE  GoesOn /\ UNCHANGED schedule
  BY <1>5, SameFail, SameBounds DEF FailureCallback, GoesOn, RecordKept
<1>6. CASE UnmatchedAcknowledgement
  BY <1>6 DEF UnmatchedAcknowledgement, Rests, RecordKept
<1>7. CASE Shutdown
  BY <1>7, SameStop DEF Shutdown, GoesOn, RecordKept
<1>8. CASE UNCHANGED vars
  BY <1>8 DEF vars, Rests, RecordKept
<1>. QED
  BY <1>1, <1>2, <1>3, <1>4, <1>5, <1>6, <1>7, <1>8 DEF Next

-----------------------------------------------------------------------------
(***************************************************************************)
(* The record of the computations.  It bounds the revisions the dispatcher *)
(* is given, so that every result is one its specification allows.         *)
(***************************************************************************)
RecordTyped ==
  /\ objective \in 1..MaxObjectives
  /\ seenObjective \in 0..objective
  /\ revision \in 0..seenObjective
  /\ seenObjective # 0 => revision # 0
  /\ computes \in 0..MaxComputes

\* Reactive results are numbered by the computation, the others by the
\* objective.
LatestCount == IF Reactive THEN computes ELSE revision

LEMMA RecordInit == Init => RecordTyped
BY LimitsAssumption DEF Init, RecordTyped

LEMMA RecordExtension ==
  ASSUME RecordTyped, RecordExtended, UNCHANGED schedule
  PROVE  /\ RecordTyped'
         /\ CommandRevision \in (1..MaxObjectives) \X (1..(MaxObjectives + MaxComputes))
         /\ revision' \in Nat /\ revision <= revision'
         /\ LatestCount' \in Nat /\ LatestCount <= LatestCount'
         /\ CommandRevision[1] = revision'
         /\ CommandRevision[2] = LatestCount'
<1>1. /\ objective \in Nat /\ objective >= 1 /\ objective <= MaxObjectives
      /\ seenObjective \in Nat /\ seenObjective <= objective
      /\ revision \in Nat /\ revision <= seenObjective
      /\ seenObjective # 0 => revision # 0
      /\ computes \in Nat /\ computes <= MaxComputes
      /\ MaxObjectives \in Nat /\ MaxComputes \in Nat
  BY LimitsAssumption DEF RecordTyped
<1>2. /\ seenObjective' = objective /\ objective' = objective
      /\ revision' = RevisionNow
      /\ Reactive' = Reactive
  BY DEF RecordExtended, NoteComputation, Reactive
<1>3. /\ RevisionNow \in Nat /\ RevisionNow >= 1 /\ RevisionNow <= objective
      /\ revision <= RevisionNow
  BY <1>1 DEF RevisionNow
<1>4. CASE Reactive
  <2>1. computes < MaxComputes /\ computes' = computes + 1
    BY <1>4 DEF RecordExtended, NoteComputation
  <2>2. CommandRevision = <<RevisionNow, computes + 1>>
    BY <1>4 DEF CommandRevision
  <2>3. LatestCount = computes /\ LatestCount' = computes + 1
    BY <1>2, <1>4, <2>1 DEF LatestCount
  <2>. QED
    BY <1>1, <1>2, <1>3, <2>1, <2>2, <2>3 DEF RecordTyped
<1>5. CASE ~Reactive
  <2>1. computes' = computes
    BY <1>5 DEF RecordExtended, NoteComputation
  <2>2. CommandRevision = <<RevisionNow, RevisionNow>>
    BY <1>5 DEF CommandRevision
  <2>3. LatestCount = revision /\ LatestCount' = RevisionNow
    BY <1>2, <1>5 DEF LatestCount
  <2>. QED
    BY <1>1, <1>2, <1>3, <2>1, <2>2, <2>3 DEF RecordTyped
<1>. QED
  BY <1>4, <1>5

\* A step that does not hand a result over can only move the record forward.
LEMMA RecordForward ==
  ASSUME RecordTyped, UNCHANGED schedule,
         RecordKept \/ RecordExtended \/ ObjectiveSwitched
  PROVE  /\ RecordTyped'
         /\ revision \in Nat /\ revision' \in Nat /\ revision <= revision'
         /\ LatestCount \in Nat /\ LatestCount' \in Nat /\ LatestCount <= LatestCount'
<1>0. /\ revision \in Nat /\ computes \in Nat
      /\ LatestCount \in Nat
  BY DEF RecordTyped, LatestCount
<1>1. CASE RecordKept
  BY <1>0, <1>1 DEF RecordKept, RecordTyped, LatestCount, Reactive
<1>2. CASE RecordExtended
  BY <1>0, <1>2, RecordExtension
<1>3. CASE ObjectiveSwitched
  <2>1. RecordTyped'
    BY <1>3, LimitsAssumption DEF ObjectiveSwitched, RecordTyped
  <2>. QED
    BY <1>0, <1>3, <2>1 DEF ObjectiveSwitched, LatestCount, Reactive
<1>. QED
  BY <1>1, <1>2, <1>3

-----------------------------------------------------------------------------
(***************************************************************************)
(* Refinement.  The dispatcher's types and TokensSound are needed for the  *)
(* callbacks: the token of an active command is one that was issued.       *)
(***************************************************************************)
DispatcherSound ==
  DP!TypeOK /\ DP!TokensSound(active, superseded, lastToken)

LEMMA HandOverIsOperation ==
  ASSUME RecordTyped, UNCHANGED schedule,
         NEW near \in SUBSET DP!Reached, NEW setpoints \in [Robots -> Points],
         HandsOver(setpoints, near)
  PROVE  DP!Next
<1> DEFINE version == [epoch |-> objective, rev |-> CommandRevision]
<1>1. version \in AllVersions
  BY RecordExtension DEF HandsOver, AllVersions, RecordTyped
<1>2. version.epoch = objective /\ version.rev = CommandRevision
  OBVIOUS
<1> HIDE DEF version
<1>3. DP!UpdateAndTick(setpoints, version.epoch, version.rev, near)
  BY <1>2 DEF HandsOver
<1>. QED
  BY <1>1, <1>3 DEF DP!Next, HandsOver, Reactive

LEMMA CallbackIsOperation ==
  ASSUME DispatcherSound, UNCHANGED schedule, GoesOn
  PROVE  DP!Next
<1>0. UNCHANGED Reactive
  BY DEF Reactive
<1>1. ASSUME NEW r \in Robots, active[r].point # NoPoint
      PROVE  active[r].token \in 0..lastToken /\ active[r].point \in Points
  <2>1. active[r].token \in Nat /\ active[r].point \in Points \cup {NoPoint} /\ lastToken \in Nat
    BY DEF DispatcherSound, DP!TypeOK, DP!Command, DP!Maybe
  <2>2. active[r].token <= lastToken
    BY DEF DispatcherSound, DP!TokensSound
  <2>. QED
    BY <1>1, <2>1, <2>2
<1>2. ASSUME NEW r \in Robots, NEW measured \in {"unknown", "near", "away"}, DP!TokenBudget,
             DP!Acknowledge(r, active[r].token, active[r].point, measured)
      PROVE  DP!Next
  <2>1. active[r].point # NoPoint
    BY <1>2 DEF DP!Acknowledge, DP!Matches
  <2>. QED
    BY <1>0, <1>1, <1>2, <2>1 DEF DP!Next
<1>3. ASSUME NEW r \in Robots, DP!TokenBudget,
             DP!Fail(r, active[r].token, active[r].point)
      PROVE  DP!Next
  <2>1. active[r].point # NoPoint
    BY <1>3 DEF DP!Fail, DP!Matches
  <2>. QED
    BY <1>0, <1>1, <1>3, <2>1 DEF DP!Next
<1>. QED
  BY <1>0, <1>2, <1>3 DEF GoesOn, DP!Next

LEMMA StepImplements ==
  ASSUME RecordTyped, DispatcherSound, [Next]_vars
  PROVE  [DP!Next]_(DP!vars)
<1>1. CASE Rests /\ UNCHANGED schedule
  BY <1>1 DEF Rests, dispatcher, DP!vars, Reactive
<1>. QED
  BY <1>1, StepKinds, HandOverIsOperation, CallbackIsOperation

LEMMA SoundNext ==
  ASSUME RecordTyped, DispatcherSound, [Next]_vars
  PROVE  RecordTyped' /\ DispatcherSound'
<1>1. RecordTyped'
  <2>1. ASSUME NEW near, NEW setpoints, HandsOver(setpoints, near), UNCHANGED schedule
        PROVE  RecordTyped'
    BY <2>1, RecordExtension DEF HandsOver
  <2>. QED
    BY <2>1, StepKinds, RecordForward DEF Rests, GoesOn
<1>2. DP!TypeOK'
  BY StepImplements, DP!TypeNext, VersionsTyped, FiniteRobots, DispatcherAssumption
     DEF DispatcherSound
<1>3. DP!TokensSound(active', superseded', lastToken')
  BY StepImplements, DP!TokensNext, VersionsTyped, FiniteRobots, DispatcherAssumption
     DEF DispatcherSound
<1>. QED
  BY <1>1, <1>2, <1>3 DEF DispatcherSound

LEMMA SoundInit == Init => RecordTyped /\ DispatcherSound
<1> SUFFICES ASSUME Init PROVE RecordTyped /\ DispatcherSound
  OBVIOUS
<1>1. DP!Init
  BY SameInit DEF Init
<1>. QED
  BY <1>1, RecordInit, DP!TypeInit, DP!TokensInit, VersionsTyped, FiniteRobots,
     DispatcherAssumption DEF DispatcherSound

LEMMA SoundAlways == Spec => [](RecordTyped /\ DispatcherSound)
<1>1. RecordTyped /\ DispatcherSound /\ [Next]_vars => (RecordTyped /\ DispatcherSound)'
  BY SoundNext
<1>. QED
  BY <1>1, SoundInit, PTL DEF Spec

\* Every cycle and callback of the coordinator is one operation of the
\* dispatcher, or none: what is proved of the dispatcher holds in the
\* coordinator.
THEOREM CoordinatorRefines == Spec => ImplementsDispatcher
<1>1. Init => D!Init
  BY DEF Init
<1>2. RecordTyped /\ DispatcherSound /\ [Next]_vars => [D!Next]_(D!vars)
  BY StepImplements, SameNext DEF D!vars, DP!vars
<1>. QED
  BY <1>1, <1>2, SoundAlways, PTL DEF Spec, ImplementsDispatcher, D!Spec

\* Hence the endpoints in execution are separated in the coordinator as well,
\* whichever cycles and callbacks put them there.
THEOREM CoordinatorSeparates == Spec => []D!ActiveEndpointsSeparated
<1>1. DP!Spec => []DP!ActiveEndpointsSeparated
  BY DP!SeparationCorrect, VersionsTyped, FiniteRobots, DispatcherAssumption
<1>2. DP!ActiveEndpointsSeparated => D!ActiveEndpointsSeparated
  BY Zenon DEF D!ActiveEndpointsSeparated, DP!ActiveEndpointsSeparated
<1>3. D!Spec => DP!Spec
  <2>1. D!Init => DP!Init
    BY SameInit
  <2>2. [D!Next]_(D!vars) => [DP!Next]_(DP!vars)
    BY SameNext DEF D!vars, DP!vars
  <2>. QED
    BY <2>1, <2>2, PTL DEF D!Spec, DP!Spec
<1>. QED
  BY <1>1, <1>2, <1>3, CoordinatorRefines, PTL DEF ImplementsDispatcher

-----------------------------------------------------------------------------
(***************************************************************************)
(* Freshness of results.  That a command carries the newest revision is    *)
(* not inductive: every waiting request must carry it already, and every   *)
(* result must be accepted for every rover, because no slot holds a        *)
(* revision beyond the record.                                             *)
(***************************************************************************)
WithinRecord(slots) ==
  \A r \in Robots : slots[r].rev[1] <= revision /\ slots[r].rev[2] <= LatestCount

RequestsNewest ==
  \A r \in Robots : pending[r].point # NoPoint => pending[r].rev = resultRevision

ResultsFresh == WithinRecord(active) /\ WithinRecord(pending) /\ RequestsNewest

ResultStep == \A r \in Robots : DP!Activated(r) => active'[r].rev = resultRevision'

LEMMA RevisionsTyped ==
  ASSUME DP!TypeOK, NEW r \in Robots
  PROVE  active[r].rev \in Nat \X Nat /\ pending[r].rev \in Nat \X Nat
BY DEF DP!TypeOK, DP!Command, DP!Request, DP!Revision

\* Operations that hand no result over only carry out what waits.
LEMMA GoesOnCarriesOut ==
  ASSUME DP!TypeOK, GoesOn
  PROVE  DP!CarriesOut(pending)
<1>0. DP!Requests(pending)
  BY DEF DP!TypeOK, DP!Requests
<1>1. ASSUME NEW near, DP!Tick(near)
      PROVE  DP!CarriesOut(pending)
  <2>1. DP!TickFrom(pending, failedBatch, near)
    BY <1>1 DEF DP!Tick
  <2>. QED
    BY <1>0, <2>1, DP!TickCarriesOut, VersionsTyped, FiniteRobots, DispatcherAssumption
<1>2. ASSUME NEW r \in Robots, NEW measured,
             DP!Acknowledge(r, active[r].token, active[r].point, measured)
      PROVE  DP!CarriesOut(pending)
  BY <1>2, DP!AcknowledgeCarriesOut, VersionsTyped, FiniteRobots, DispatcherAssumption
<1>3. ASSUME NEW r \in Robots, DP!Fail(r, active[r].token, active[r].point)
      PROVE  DP!CarriesOut(pending)
  BY <1>3, DP!FailCarriesOut, VersionsTyped, FiniteRobots, DispatcherAssumption
<1>4. CASE DP!StopTrial
  BY <1>4, DP!StopCarriesOut, VersionsTyped, FiniteRobots, DispatcherAssumption
<1>. QED
  BY <1>1, <1>2, <1>3, <1>4 DEF GoesOn

\* A result goes to every rover: it is older than nothing on record.
LEMMA ResultAccepted ==
  ASSUME RecordTyped, DP!TypeOK, ResultsFresh, RecordExtended, UNCHANGED schedule,
         NEW setpoints \in [Robots -> Points], NEW r \in Robots
  PROVE  DP!PendingAfter(setpoints, objective, CommandRevision)[r].rev = CommandRevision
<1>1. /\ CommandRevision[1] \in Nat /\ CommandRevision[2] \in Nat
      /\ revision \in Nat /\ LatestCount \in Nat
      /\ revision <= CommandRevision[1] /\ LatestCount <= CommandRevision[2]
  BY RecordExtension, LimitsAssumption DEF RecordTyped, LatestCount
<1>2. ASSUME NEW rev \in Nat \X Nat, rev[1] <= revision, rev[2] <= LatestCount
      PROVE  ~DP!Older(CommandRevision, rev)
  <2>1. rev[1] \in Nat /\ rev[2] \in Nat
    OBVIOUS
  <2>. QED
    BY <1>1, <1>2, <2>1 DEF DP!Older
<1>3. DP!Accepts(r, CommandRevision)
  BY <1>2, RevisionsTyped DEF DP!Accepts, ResultsFresh, WithinRecord
<1>. QED
  BY <1>3 DEF DP!PendingAfter

LEMMA HandOverFresh ==
  ASSUME RecordTyped, DP!TypeOK, ResultsFresh, UNCHANGED schedule,
         NEW near, NEW setpoints \in [Robots -> Points], HandsOver(setpoints, near)
  PROVE  ResultsFresh' /\ ResultStep
<1> DEFINE pend == DP!PendingAfter(setpoints, objective, CommandRevision)
           memo == DP!MemoAfter(CommandRevision)
<1>1. objective \in Nat /\ CommandRevision \in Nat \X Nat
  BY RecordExtension, LimitsAssumption DEF HandsOver, RecordTyped
<1>2. \A r \in Robots : pend[r].rev = CommandRevision
  BY ResultAccepted DEF HandsOver
<1>3. DP!Requests(pending)
  BY DEF DP!TypeOK, DP!Requests
<1>4. DP!Requests(pend)
  BY <1>1, <1>3, DP!PendingAfterTyped, VersionsTyped, FiniteRobots, DispatcherAssumption
<1>5. DP!TickFrom(pend, memo, near)
  BY DEF HandsOver, DP!UpdateAndTick
<1> HIDE DEF pend, memo
<1>6. DP!CarriesOut(pend)
  BY <1>4, <1>5, DP!TickCarriesOut, VersionsTyped, FiniteRobots, DispatcherAssumption
<1>7. /\ resultRevision' = CommandRevision
      /\ CommandRevision[1] = revision' /\ CommandRevision[2] = LatestCount'
      /\ revision \in Nat /\ revision' \in Nat /\ revision <= revision'
      /\ LatestCount \in Nat /\ LatestCount' \in Nat /\ LatestCount <= LatestCount'
  BY RecordExtension, RecordForward DEF HandsOver
<1>8. ASSUME NEW r \in Robots
      PROVE  /\ active[r].rev[1] \in Nat /\ active[r].rev[2] \in Nat
             /\ active[r].rev[1] <= revision /\ active[r].rev[2] <= LatestCount
  BY RevisionsTyped DEF ResultsFresh, WithinRecord
<1>9. ASSUME NEW r \in Robots
      PROVE  /\ pending'[r].rev = CommandRevision
             /\ active'[r].rev \in {active[r].rev, CommandRevision}
             /\ DP!Activated(r) => active'[r].rev = resultRevision'
  BY <1>2, <1>6, <1>7 DEF DP!CarriesOut
<1>10. WithinRecord(pending)'
  BY <1>7, <1>9 DEF WithinRecord
<1>11. WithinRecord(active)'
  <2> SUFFICES ASSUME NEW r \in Robots
               PROVE  active'[r].rev[1] <= revision' /\ active'[r].rev[2] <= LatestCount'
    BY DEF WithinRecord
  <2>1. CASE active'[r].rev = active[r].rev
    BY <1>7, <1>8, <2>1
  <2>2. CASE active'[r].rev = CommandRevision
    BY <1>7, <2>2
  <2>. QED
    BY <1>9, <2>1, <2>2
<1>12. RequestsNewest'
  BY <1>7, <1>9 DEF RequestsNewest
<1>. QED
  BY <1>9, <1>10, <1>11, <1>12 DEF ResultsFresh, ResultStep

LEMMA CarriedOutFresh ==
  ASSUME RecordTyped, DP!TypeOK, ResultsFresh, UNCHANGED schedule, UNCHANGED resultRevision,
         RecordKept \/ RecordExtended \/ ObjectiveSwitched,
         DP!CarriesOut(pending)
  PROVE  ResultsFresh' /\ ResultStep
<1>1. /\ revision \in Nat /\ revision' \in Nat /\ revision <= revision'
      /\ LatestCount \in Nat /\ LatestCount' \in Nat /\ LatestCount <= LatestCount'
  BY RecordForward
<1>2. ASSUME NEW rev \in Nat \X Nat, rev[1] <= revision, rev[2] <= LatestCount
      PROVE  rev[1] <= revision' /\ rev[2] <= LatestCount'
  <2>1. rev[1] \in Nat /\ rev[2] \in Nat
    OBVIOUS
  <2>. QED
    BY <1>1, <1>2, <2>1
<1>3. ASSUME NEW r \in Robots
      PROVE  /\ active[r].rev[1] <= revision' /\ active[r].rev[2] <= LatestCount'
             /\ pending[r].rev[1] <= revision' /\ pending[r].rev[2] <= LatestCount'
  BY <1>2, RevisionsTyped DEF ResultsFresh, WithinRecord
<1>4. WithinRecord(active)' /\ WithinRecord(pending)'
  BY <1>3 DEF WithinRecord, DP!CarriesOut
<1>5. RequestsNewest'
  BY DEF ResultsFresh, RequestsNewest, DP!CarriesOut
<1>6. ResultStep
  BY DEF ResultsFresh, RequestsNewest, ResultStep, DP!CarriesOut
<1>. QED
  BY <1>4, <1>5, <1>6 DEF ResultsFresh

LEMMA FreshResultsNext ==
  ASSUME RecordTyped, DispatcherSound, ResultsFresh, [Next]_vars
  PROVE  ResultsFresh' /\ ResultStep
<1>0. DP!TypeOK /\ UNCHANGED schedule
  BY StepKinds DEF DispatcherSound
<1>1. CASE Rests
  <2>1. DP!CarriesOut(pending)
    BY <1>1 DEF Rests, dispatcher, DP!CarriesOut, DP!Activated
  <2>. QED
    BY <1>0, <1>1, <2>1, CarriedOutFresh DEF Rests
<1>2. CASE GoesOn
  BY <1>0, <1>2, GoesOnCarriesOut, CarriedOutFresh DEF GoesOn
<1>3. ASSUME NEW near, NEW setpoints \in [Robots -> Points], HandsOver(setpoints, near)
      PROVE  ResultsFresh' /\ ResultStep
  BY <1>0, <1>3, HandOverFresh
<1>. QED
  BY <1>1, <1>2, <1>3, StepKinds

LEMMA FreshResultsInit == Init => ResultsFresh
BY DEF Init, D!Init, ResultsFresh, WithinRecord, RequestsNewest, LatestCount

\* Whatever callback, pose loss or failed computation comes between a result
\* and the activation, what goes out is the newest result handed over.
THEOREM NewestResultActivated == Spec => ActivationUsesNewestResult
<1>1. RecordTyped /\ DispatcherSound /\ ResultsFresh /\ [Next]_vars => ResultsFresh'
  BY FreshResultsNext
<1>2. RecordTyped /\ DispatcherSound /\ ResultsFresh /\ [Next]_vars
        => [\A r \in Robots : D!Activated(r) => active'[r].rev = resultRevision']_vars
  BY FreshResultsNext, SameActivated DEF ResultStep
<1>. QED
  BY <1>1, <1>2, FreshResultsInit, SoundAlways, PTL DEF Spec, ActivationUsesNewestResult
==============================================================================
