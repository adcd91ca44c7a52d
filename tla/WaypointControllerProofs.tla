---------------------- MODULE WaypointControllerProofs ----------------------
(***************************************************************************)
(* Safety of the onboard controller for every set of tokens and points and *)
(* every size of the reached-token cache.                                  *)
(***************************************************************************)
EXTENDS WaypointController, TLAPS

-----------------------------------------------------------------------------
(***************************************************************************)
(* Types.                                                                  *)
(***************************************************************************)
LEMMA EmptyTyped == <<>> \in Seq(Waypoint) /\ <<>> \in Seq(Tokens)
OBVIOUS

LEMMA ProgressAtTyped ==
  ASSUME TypeOK, Pursuing, NEW d \in Distance
  PROVE  ProgressAt(d) \in Progress
<1>1. Head(queue) \in Waypoint
  BY DEF TypeOK, Pursuing
<1>2. Head(queue).token \in Tokens
  BY <1>1 DEF Waypoint
<1>. QED
  BY <1>2 DEF ProgressAt, Progress, TypeOK

LEMMA UpdatedTyped ==
  ASSUME NEW p \in Progress, NEW d \in Distance
  PROVE  Updated(p, d) \in Progress
<1>1. CASE Verdict(p, d) = "improved"
  BY <1>1 DEF Updated, Progress
<1>2. CASE Verdict(p, d) = "resume_navigation"
  BY <1>2 DEF Updated, Progress
<1>3. CASE Verdict(p, d) = "start_recovery"
  <2>1. Updated(p, d) = [p EXCEPT !.state = "straight_escape", !.escaped = FALSE,
                                  !.attempts = p.attempts + 1]
    BY <1>3 DEF Updated
  <2>2. p.attempts + 1 \in Nat
    BY DEF Progress
  <2>. QED
    BY <2>1, <2>2 DEF Progress
<1>4. CASE Verdict(p, d) \notin {"improved", "resume_navigation", "start_recovery"}
  BY <1>4 DEF Updated
<1>. QED
  BY <1>1, <1>2, <1>3, <1>4

\* Resolving the head leaves typed slots and a typed notification.
LEMMA ResolveTyped ==
  ASSUME TypeOK, Pursuing, NEW kind \in {"reached", "failed"}, Resolve(kind)
  PROVE  /\ queue' \in Seq(Waypoint)
         /\ notice' \in Notice
         /\ progress' = NoProgress
<1>1. Head(queue) \in Waypoint /\ Tail(queue) \in Seq(Waypoint)
  BY DEF TypeOK, Pursuing
<1>2. Head(queue).token \in Tokens /\ Head(queue).point \in Points
  BY <1>1 DEF Waypoint
<1>. QED
  BY <1>1, <1>2 DEF Resolve, Notice

LEMMA RememberTyped ==
  ASSUME TypeOK, NEW token \in Tokens
  PROVE  Remember(token) \in Seq(Tokens)
<1>1. CASE Len(reachedOrder) = ReachedCacheSize
  <2>1. reachedOrder # <<>>
    BY <1>1, ControllerAssumption DEF TypeOK
  <2>2. Tail(reachedOrder) \in Seq(Tokens)
    BY <2>1 DEF TypeOK
  <2>. QED
    BY <2>2 DEF Remember, TypeOK
<1>2. CASE Len(reachedOrder) # ReachedCacheSize
  BY <1>2 DEF Remember, TypeOK
<1>. QED
  BY <1>1, <1>2

LEMMA TypeStep ==
  ASSUME TypeOK, NEW d \in Distance, StepWithPose(d)
  PROVE  TypeOK'
<1>1. CASE StepReached
  <2>1. Pursuing /\ Resolve("reached") /\ reachedOrder' = Remember(Head(queue).token)
    BY <1>1 DEF StepReached
  <2>2. Head(queue).token \in Tokens
    <3>1. Head(queue) \in Waypoint
      BY <2>1 DEF TypeOK, Pursuing
    <3>. QED
      BY <3>1 DEF Waypoint
  <2>3. reachedOrder' \in Seq(Tokens)
    BY <2>1, <2>2, RememberTyped
  <2>4. command' \in Commands
    BY <1>1 DEF StepReached, Commands
  <2>5. /\ receivedAny' \in BOOLEAN /\ loitering' \in BOOLEAN
        /\ trialEnded' \in BOOLEAN
    BY <1>1 DEF StepReached, TypeOK
  <2>. QED
    BY <2>1, <2>3, <2>4, <2>5, ResolveTyped DEF TypeOK
<1>2. CASE StepRecovering(d)
  <2>1. progress' \in Progress
    BY <1>2, ProgressAtTyped, UpdatedTyped DEF StepRecovering
  <2>. QED
    BY <1>2, <2>1 DEF StepRecovering, TypeOK, Commands
<1>3. CASE StepFailed(d)
  <2>1. Pursuing /\ Resolve("failed") /\ command' \in Commands
    BY <1>3 DEF StepFailed, Commands
  <2>2. UNCHANGED <<reachedOrder, receivedAny, loitering, trialEnded>>
    BY <1>3 DEF StepFailed
  <2>. QED
    BY <2>1, <2>2, ResolveTyped DEF TypeOK
<1>4. CASE StepNavigating(d)
  <2>1. progress' \in Progress
    BY <1>4, ProgressAtTyped, UpdatedTyped DEF StepNavigating
  <2>. QED
    BY <1>4, <2>1 DEF StepNavigating, TypeOK, Commands
<1>. QED
  BY <1>1, <1>2, <1>3, <1>4 DEF StepWithPose

LEMMA TypeNext == TypeOK /\ [Next]_vars => TypeOK'
<1> SUFFICES ASSUME TypeOK, [Next]_vars PROVE TypeOK'
  OBVIOUS
<1>1. ASSUME NEW token \in Tokens, NEW point \in Points, WaypointCallback(token, point)
      PROVE  TypeOK'
  <2>1. CASE AcceptWaypoint(token, point)
    <3>1. [token |-> token, point |-> point] \in Waypoint
      BY DEF Waypoint
    <3>2. queue' \in Seq(Waypoint)
      BY <2>1, <3>1 DEF AcceptWaypoint, TypeOK
    <3>. QED
      BY <2>1, <3>2 DEF AcceptWaypoint, TypeOK
  <2>2. CASE SuppressWaypoint(token, point)
    BY <2>2 DEF SuppressWaypoint, TypeOK
  <2>. QED
    BY <1>1, <2>1, <2>2 DEF WaypointCallback
<1>2. CASE EndTrialCallback
  BY <1>2, EmptyTyped DEF EndTrialCallback, TypeOK, Commands
<1>3. CASE StepTrialEnded
  BY <1>3 DEF StepTrialEnded, Publish, TypeOK, Commands
<1>4. ASSUME NEW located \in BOOLEAN, StepEmptyQueue(located)
      PROVE  TypeOK'
  BY <1>4 DEF StepEmptyQueue, Publish, TypeOK, Commands
<1>5. CASE StepWithoutPose
  BY <1>5 DEF StepWithoutPose, Publish, TypeOK, Commands
<1>6. CASE LocatedStep
  BY <1>6, TypeStep DEF LocatedStep
<1>7. CASE TimePasses
  <2>1. progress \in Progress
    BY <1>7 DEF TimePasses, TypeOK
  <2>2. progress' \in Progress
    BY <1>7, <2>1 DEF TimePasses, Progress
  <2>. QED
    BY <1>7, <2>2 DEF TimePasses, TypeOK
<1>8. CASE Restart
  <2>1. queue' \in Seq(Waypoint) /\ reachedOrder' \in Seq(Tokens)
    BY <1>8, EmptyTyped DEF Restart
  <2>2. /\ receivedAny' \in BOOLEAN /\ loitering' \in BOOLEAN
        /\ trialEnded' \in BOOLEAN
    BY <1>8 DEF Restart
  <2>. QED
    BY <1>8, <2>1, <2>2 DEF Restart, TypeOK, Commands
<1>9. CASE UNCHANGED vars
  BY <1>9 DEF vars, TypeOK
<1>. QED
  BY <1>1, <1>2, <1>3, <1>4, <1>5, <1>6, <1>7, <1>8, <1>9 DEF Next

\* The FIFO, the cache and the progress record keep their types.
THEOREM ControllerTypeCorrect == Spec => []TypeOK
<1>1. ASSUME Init PROVE TypeOK
  <2>1. queue \in Seq(Waypoint) /\ reachedOrder \in Seq(Tokens)
    BY <1>1, EmptyTyped DEF Init
  <2>2. /\ receivedAny \in BOOLEAN /\ loitering \in BOOLEAN
        /\ trialEnded \in BOOLEAN
    BY <1>1 DEF Init
  <2>3. /\ progress \in Progress \cup {NoProgress} /\ command \in Commands
        /\ notice \in Notice \cup {NoNotice}
    BY <1>1 DEF Init, Commands
  <2>. QED
    BY <2>1, <2>2, <2>3 DEF TypeOK
<1>. QED
  BY <1>1, TypeNext, PTL DEF Spec

-----------------------------------------------------------------------------
(***************************************************************************)
(* The end of a trial.                                                     *)
(***************************************************************************)
\* An ended trial holds no waypoint, loiter or progress and moves nothing.
THEOREM EndedTrialStaysSilent == Spec => []EndedTrialIsSilent
<1>1. Init => EndedTrialIsSilent
  BY DEF Init, EndedTrialIsSilent
<1>2. TypeOK /\ EndedTrialIsSilent /\ [Next]_vars => EndedTrialIsSilent'
  <2> SUFFICES ASSUME TypeOK, EndedTrialIsSilent, [Next]_vars
               PROVE  EndedTrialIsSilent'
    OBVIOUS
  <2>1. ASSUME NEW token \in Tokens, NEW point \in Points,
               WaypointCallback(token, point)
        PROVE  EndedTrialIsSilent'
    BY <2>1 DEF WaypointCallback, AcceptWaypoint, SuppressWaypoint,
                EndedTrialIsSilent
  <2>2. CASE EndTrialCallback
    BY <2>2 DEF EndTrialCallback, EndedTrialIsSilent
  <2>3. CASE StepTrialEnded
    BY <2>3 DEF StepTrialEnded, Publish, EndedTrialIsSilent
  <2>4. ASSUME NEW located \in BOOLEAN, StepEmptyQueue(located)
        PROVE  EndedTrialIsSilent'
    BY <2>4 DEF StepEmptyQueue, Publish, EndedTrialIsSilent
  <2>5. CASE StepWithoutPose
    BY <2>5 DEF StepWithoutPose, Pursuing, Publish, EndedTrialIsSilent
  <2>6. CASE LocatedStep
    BY <2>6 DEF LocatedStep, StepWithPose, StepReached, StepRecovering,
                StepFailed, StepNavigating, Pursuing, EndedTrialIsSilent
  <2>7. CASE TimePasses
    BY <2>7 DEF TimePasses, EndedTrialIsSilent
  <2>8. CASE Restart
    BY <2>8 DEF Restart, EndedTrialIsSilent
  <2>9. CASE UNCHANGED vars
    BY <2>9 DEF vars, EndedTrialIsSilent
  <2>. QED
    BY <2>1, <2>2, <2>3, <2>4, <2>5, <2>6, <2>7, <2>8, <2>9 DEF Next
<1>. QED
  BY <1>1, <1>2, ControllerTypeCorrect, PTL DEF Spec

-----------------------------------------------------------------------------
(***************************************************************************)
(* Failures.  The attempts of a record are counted by WaypointProgress     *)
(* only below the maximum, which is what makes a verdict of "failed" exact.*)
(***************************************************************************)
AttemptsBounded ==
  progress # NoProgress => progress.attempts <= MaximumRecoveryAttempts

LEMMA RecordBounded ==
  ASSUME TypeOK, AttemptsBounded, Pursuing, NEW d \in Distance
  PROVE  /\ ProgressAt(d).attempts <= MaximumRecoveryAttempts
         /\ Updated(ProgressAt(d), d).attempts <= MaximumRecoveryAttempts
<1> DEFINE p == ProgressAt(d)
<1>1. p \in Progress
  BY ProgressAtTyped
<1>2. p.attempts <= MaximumRecoveryAttempts
  <2>1. CASE p = progress /\ progress # NoProgress
    BY <2>1 DEF AttemptsBounded
  <2>2. CASE p.attempts = 0
    BY <2>2, ControllerAssumption
  <2>. QED
    BY <2>1, <2>2 DEF ProgressAt
<1> HIDE DEF p
<1>3. CASE Verdict(p, d) = "start_recovery"
  <2>1. p.attempts < MaximumRecoveryAttempts
    BY <1>1, <1>2, <1>3, ControllerAssumption DEF Verdict, Progress, Distance
  <2>2. Updated(p, d).attempts = p.attempts + 1
    BY <1>1, <1>3 DEF Updated, Progress
  <2>3. p.attempts \in Nat
    BY <1>1 DEF Progress
  <2>. QED
    BY <1>2, <2>1, <2>2, <2>3, ControllerAssumption DEF p
<1>4. CASE Verdict(p, d) # "start_recovery"
  <2>1. Updated(p, d).attempts = p.attempts
    BY <1>1, <1>4 DEF Updated, Progress
  <2>. QED
    BY <1>2, <2>1 DEF p
<1>. QED
  BY <1>3, <1>4

LEMMA AttemptsStep ==
  ASSUME TypeOK, AttemptsBounded, [Next]_vars
  PROVE  AttemptsBounded'
<1>1. CASE LocatedStep
  <2> PICK d \in Distance : StepWithPose(d)
    BY <1>1 DEF LocatedStep
  <2>1. CASE StepReached \/ StepFailed(d)
    BY <2>1 DEF StepReached, StepFailed, Resolve, AttemptsBounded
  <2>2. CASE StepRecovering(d) \/ StepNavigating(d)
    <3>1. Pursuing /\ progress' = Updated(ProgressAt(d), d)
      BY <2>2 DEF StepRecovering, StepNavigating
    <3>. QED
      BY <3>1, RecordBounded DEF AttemptsBounded
  <2>. QED
    BY <2>1, <2>2 DEF StepWithPose
<1>2. CASE TimePasses
  <2>1. progress \in Progress /\ progress'.attempts = progress.attempts
    BY <1>2 DEF TimePasses, TypeOK, Progress
  <2>. QED
    BY <1>2, <2>1 DEF TimePasses, AttemptsBounded
<1>3. CASE progress' = progress \/ progress' = NoProgress
  BY <1>3 DEF AttemptsBounded
<1>4. ~LocatedStep /\ ~TimePasses => progress' = progress \/ progress' = NoProgress
  BY DEF Next, vars, WaypointCallback, AcceptWaypoint, SuppressWaypoint,
         EndTrialCallback, StepTrialEnded, StepEmptyQueue, StepWithoutPose,
         Publish, Restart
<1>. QED
  BY <1>1, <1>2, <1>3, <1>4

LEMMA FailedStepEarned ==
  ASSUME TypeOK, AttemptsBounded, Next, notice' # NoNotice, notice'.kind = "failed"
  PROVE  /\ progress # NoProgress
         /\ progress.token = notice'.token
         /\ progress.stalled
         /\ progress.attempts = MaximumRecoveryAttempts
<1>1. LocatedStep
  BY DEF Next, WaypointCallback, AcceptWaypoint, SuppressWaypoint,
         EndTrialCallback, StepTrialEnded, StepEmptyQueue, StepWithoutPose,
         Publish, TimePasses, Restart
<1> PICK d \in Distance : StepWithPose(d)
  BY <1>1 DEF LocatedStep
<1> DEFINE p == ProgressAt(d)
<1>2. StepFailed(d)
  BY DEF StepWithPose, StepReached, StepRecovering, StepNavigating, Resolve
<1>3. Pursuing /\ Verdict(p, d) = "failed" /\ notice'.token = Head(queue).token
  BY <1>2 DEF StepFailed, Resolve
<1>4. p \in Progress /\ p.attempts <= MaximumRecoveryAttempts
  BY <1>3, ProgressAtTyped, RecordBounded
<1>5. p = progress \/ p.attempts = 0
  BY DEF ProgressAt
<1>6. p.token = Head(queue).token
  BY DEF ProgressAt
<1> HIDE DEF p
<1>7. p.stalled /\ p.attempts >= MaximumRecoveryAttempts
  BY <1>3, <1>4 DEF Verdict, Progress, Distance
<1>8. p.attempts # 0 /\ p.attempts = MaximumRecoveryAttempts
  BY <1>4, <1>7, ControllerAssumption DEF Progress
<1>9. progress = p
  BY <1>5, <1>8
<1>. QED
  BY <1>3, <1>4, <1>6, <1>7, <1>8, <1>9, AbsenceAssumption

\* waypoint_failed names the token whose own recoveries were all spent.
THEOREM FailuresEarned == Spec => FailuresAreEarned
<1>1. Init => AttemptsBounded
  BY DEF Init, AttemptsBounded
<1>2. TypeOK /\ AttemptsBounded /\ [Next]_vars => AttemptsBounded'
  BY AttemptsStep
<1>3. TypeOK /\ AttemptsBounded /\ [Next]_vars
        => [(notice' # NoNotice /\ notice'.kind = "failed") =>
              /\ progress # NoProgress
              /\ progress.token = notice'.token
              /\ progress.stalled
              /\ progress.attempts = MaximumRecoveryAttempts]_vars
  BY FailedStepEarned
<1>. QED
  BY <1>1, <1>2, <1>3, ControllerTypeCorrect, PTL DEF Spec, FailuresAreEarned

-----------------------------------------------------------------------------
(***************************************************************************)
(* Tokens in the FIFO and in the cache.                                    *)
(***************************************************************************)
\* Every token in the cache after a reached waypoint was there or is the head's.
LEMMA RememberElements ==
  ASSUME TypeOK, NEW token \in Tokens
  PROVE  \A k \in 1..Len(Remember(token)) :
           \/ Remember(token)[k] = token
           \/ \E j \in 1..Len(reachedOrder) : Remember(token)[k] = reachedOrder[j]
<1>1. CASE token \in ReachedTokens
  BY <1>1 DEF Remember
<1>2. CASE token \notin ReachedTokens /\ Len(reachedOrder) = ReachedCacheSize
  <2> DEFINE rest == Tail(reachedOrder)
  <2>1. reachedOrder # <<>>
    BY <1>2, ControllerAssumption DEF TypeOK
  <2>2. /\ rest \in Seq(Tokens) /\ Len(rest) = Len(reachedOrder) - 1
        /\ \A k \in 1..Len(rest) : rest[k] = reachedOrder[k + 1]
    BY <2>1 DEF TypeOK
  <2>3. Remember(token) = Append(rest, token)
    BY <1>2 DEF Remember
  <2>4. Len(reachedOrder) \in Nat
    BY DEF TypeOK
  <2> HIDE DEF rest
  <2>5. ASSUME NEW k \in 1..Len(rest)
        PROVE  Append(rest, token)[k] = reachedOrder[k + 1] /\ k + 1 \in 1..Len(reachedOrder)
    BY <2>2, <2>4
  <2>6. Append(rest, token)[Len(rest) + 1] = token /\ Len(Append(rest, token)) = Len(rest) + 1
    BY <2>2
  <2>7. ASSUME NEW k \in 1..Len(Append(rest, token))
        PROVE  k \in 1..Len(rest) \/ k = Len(rest) + 1
    BY <2>2, <2>6
  <2>. QED
    BY <2>3, <2>5, <2>6, <2>7
<1>3. CASE token \notin ReachedTokens /\ Len(reachedOrder) # ReachedCacheSize
  <2>1. Remember(token) = Append(reachedOrder, token)
    BY <1>3 DEF Remember
  <2>. QED
    BY <2>1 DEF TypeOK
<1>. QED
  BY <1>1, <1>2, <1>3

\* Dropping the head keeps tokens distinct and takes the head's token out.
LEMMA TailQueue ==
  ASSUME TypeOK, QueuedOnce, queue # <<>>
  PROVE  /\ \A i, j \in 1..Len(Tail(queue)) :
              Tail(queue)[i].token = Tail(queue)[j].token => i = j
         /\ \A i \in 1..Len(Tail(queue)) :
              /\ Tail(queue)[i].token # Head(queue).token
              /\ \A k \in 1..Len(reachedOrder) : Tail(queue)[i].token # reachedOrder[k]
<1> DEFINE rest == Tail(queue)
<1>1. Len(queue) \in Nat \ {0} /\ Head(queue) = queue[1]
  BY DEF TypeOK
<1>2. Len(rest) = Len(queue) - 1 /\ \A i \in 1..Len(rest) : rest[i] = queue[i + 1]
  BY DEF TypeOK
<1> HIDE DEF rest
<1>3. \A i \in 1..Len(rest) : i + 1 \in 1..Len(queue) /\ i + 1 # 1
  BY <1>1, <1>2
<1>4. ASSUME NEW i \in 1..Len(rest), NEW j \in 1..Len(rest), rest[i].token = rest[j].token
      PROVE  i = j
  <2>1. i + 1 = j + 1
    BY <1>2, <1>3, <1>4 DEF QueuedOnce
  <2>. QED
    BY <2>1
<1>5. ASSUME NEW i \in 1..Len(rest)
      PROVE  /\ rest[i].token # Head(queue).token
             /\ \A k \in 1..Len(reachedOrder) : rest[i].token # reachedOrder[k]
  BY <1>1, <1>2, <1>3 DEF QueuedOnce
<1>. QED
  BY <1>4, <1>5 DEF rest

LEMMA QueuedNext ==
  ASSUME TypeOK, QueuedOnce, [Next]_vars
  PROVE  QueuedOnce'
<1>1. ASSUME NEW token \in Tokens, NEW point \in Points, AcceptWaypoint(token, point)
      PROVE  QueuedOnce'
  <2> DEFINE added == [token |-> token, point |-> point]
  <2>1. /\ queue' = Append(queue, added) /\ reachedOrder' = reachedOrder
        /\ token \notin QueuedTokens /\ token \notin ReachedTokens
    BY <1>1 DEF AcceptWaypoint, SuppressedWaypoint
  <2>2. added.token = token
    OBVIOUS
  <2> HIDE DEF added
  <2>3. /\ Len(queue) \in Nat /\ Len(queue') = Len(queue) + 1
        /\ queue'[Len(queue) + 1] = added
        /\ \A i \in 1..Len(queue) : queue'[i] = queue[i]
    BY <2>1 DEF TypeOK
  <2>4. \A i \in 1..Len(queue) : queue[i].token # token
    BY <2>1 DEF QueuedTokens, TypeOK
  <2>5. \A k \in 1..Len(reachedOrder) : reachedOrder[k] # token
    BY <2>1 DEF ReachedTokens, TypeOK
  <2>6. \A i \in 1..Len(queue') : i \in 1..Len(queue) \/ i = Len(queue) + 1
    BY <2>3
  <2>. QED
    BY <2>1, <2>2, <2>3, <2>4, <2>5, <2>6 DEF QueuedOnce
<1>2. CASE StepReached
  <2>1. /\ queue # <<>> /\ queue' = Tail(queue)
        /\ reachedOrder' = Remember(Head(queue).token)
    BY <1>2 DEF StepReached, Pursuing, Resolve
  <2>2. Head(queue).token \in Tokens
    <3>1. Head(queue) \in Waypoint
      BY <2>1 DEF TypeOK
    <3>. QED
      BY <3>1 DEF Waypoint
  <2>. QED
    BY <2>1, <2>2, TailQueue, RememberElements DEF QueuedOnce
<1>3. ASSUME NEW d \in Distance, StepFailed(d)
      PROVE  QueuedOnce'
  <2>1. queue # <<>> /\ queue' = Tail(queue) /\ reachedOrder' = reachedOrder
    BY <1>3 DEF StepFailed, Pursuing, Resolve
  <2>. QED
    BY <2>1, TailQueue DEF QueuedOnce
<1>4. CASE queue' = queue /\ reachedOrder' = reachedOrder
  BY <1>4 DEF QueuedOnce
<1>5. CASE queue' = <<>>
  BY <1>5 DEF QueuedOnce
<1>6. \/ \E token \in Tokens, point \in Points : AcceptWaypoint(token, point)
      \/ StepReached
      \/ \E d \in Distance : StepFailed(d)
      \/ queue' = queue /\ reachedOrder' = reachedOrder
      \/ queue' = <<>>
  BY DEF Next, vars, WaypointCallback, SuppressWaypoint, EndTrialCallback,
         StepTrialEnded, StepEmptyQueue, StepWithoutPose, Publish, LocatedStep,
         StepWithPose, StepRecovering, StepNavigating, TimePasses, Restart
<1>. QED
  BY <1>1, <1>2, <1>3, <1>4, <1>5, <1>6

\* A refreshed command never sits twice in the FIFO, nor next to its own reached
\* token in the cache, for any cache size.
THEOREM RefreshedOnce == Spec => []QueuedOnce
<1>1. Init => QueuedOnce
  BY DEF Init, QueuedOnce
<1>2. TypeOK /\ QueuedOnce /\ [Next]_vars => QueuedOnce'
  BY QueuedNext
<1>. QED
  BY <1>1, <1>2, ControllerTypeCorrect, PTL DEF Spec
=============================================================================
