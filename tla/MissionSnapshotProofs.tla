----------------------- MODULE MissionSnapshotProofs -----------------------
(***************************************************************************)
(* What the control cycle decides from, for every set of rovers and        *)
(* targets and every value of the timeouts, periods and queue depths.      *)
(*                                                                         *)
(* The invariant behind the age of a pose says how old the message at each *)
(* place of a queue can be: a message i places from the head has Depth - i *)
(* places less to go, and every place costs at most one computation.       *)
(***************************************************************************)
EXTENDS MissionSnapshot, TLAPS

-----------------------------------------------------------------------------
(***************************************************************************)
(* Periods.                                                                *)
(***************************************************************************)
LEMMA DivBounds ==
  ASSUME NEW n \in Nat, NEW d \in Nat \ {0}
  PROVE  n \div d \in 0..n
BY SMT

LEMMA DivMonotone ==
  ASSUME NEW a \in Int, NEW b \in Int, NEW d \in Nat \ {0}, a <= b
  PROVE  a \div d <= b \div d
BY SMT

\* The next call of the timer lies ahead, by at most one period.
LEMMA NextCallAhead ==
  ASSUME now \in Nat, due \in Nat, now >= due
  PROVE  NextCall \in Nat /\ now < NextCall /\ NextCall - ControlPeriod <= now
<1>. DEFINE x == now - due
            q == x \div ControlPeriod
<1>1. x \in Nat /\ ControlPeriod \in Nat \ {0}
  BY SnapshotAssumption
<1>2. /\ q \in Int
      /\ ControlPeriod * q <= x
      /\ x < ControlPeriod * q + ControlPeriod
  BY <1>1, SMT
<1>3. ControlPeriod * (q + 1) = ControlPeriod * q + ControlPeriod
  BY <1>1, <1>2, SMT
<1>4. ControlPeriod * q \in Int
  BY <1>1, <1>2, SMT
<1>5. NextCall = due + ControlPeriod * (q + 1)
  BY DEF NextCall
<1>. HIDE DEF q
<1>. QED
  BY <1>1, <1>2, <1>3, <1>4, <1>5

\* A switch ends at a target.
LEMMA SwitchedToTyped ==
  ASSUME NEW n \in Nat, NEW t \in SwitchedTo(n)
  PROVE  t \in Targets
BY DEF SwitchedTo

-----------------------------------------------------------------------------
(***************************************************************************)
(* Queues.                                                                 *)
(***************************************************************************)
Message == [valid : BOOLEAN, at : 0..now]

\* How long a message at place i can have waited between two rounds.
Waited(i) == (Depth + 1 - i) * LongestCompute

LEMMA WaitedFacts ==
  ASSUME NEW i \in 1..Depth
  PROVE  /\ Waited(i) \in Nat /\ Waited(i + 1) \in Int
         /\ Waited(i) = Waited(i + 1) + LongestCompute
         /\ LongestCompute <= Waited(i)
         /\ Waited(i) + LongestCompute <= LongestWait
<1>1. Depth \in Nat /\ LongestCompute \in Nat
  BY SnapshotAssumption
<1>2. Depth - i \in Nat /\ Depth + 1 - i = (Depth - i) + 1 /\ i - 1 \in Nat
  BY <1>1
<1>3. (Depth + 1 - i) * LongestCompute
        = (Depth - i) * LongestCompute + LongestCompute
  BY <1>1, <1>2, SMT
<1>4. (Depth - i) * LongestCompute \in Nat
  BY <1>1, <1>2, SMT
<1>5. Depth + 1 - (i + 1) = Depth - i
  BY <1>1
<1>6. (Depth + 1) * LongestCompute
        = (Depth + 1 - i) * LongestCompute + i * LongestCompute
  BY <1>1, <1>2, SMT
<1>7. i * LongestCompute = (i - 1) * LongestCompute + LongestCompute
      /\ (i - 1) * LongestCompute \in Nat
  BY <1>1, <1>2, SMT
<1>. QED
  BY <1>1, <1>3, <1>4, <1>5, <1>6, <1>7 DEF Waited, LongestWait

\* The queue e is q a unit of time later: a message has joined at the end; the
\* others keep their place, or are one place further when the oldest was lost.
Later(q, e) ==
  /\ e \in Seq([valid : BOOLEAN, at : 0..(now + 1)])
  /\ Len(e) <= Depth
  /\ q # <<>> => e # <<>>
  /\ \A i \in 1..Len(e) :
       \/ e[i].at = now + 1
       \/ i \in 1..Len(q) /\ e[i] = q[i]
       \/ i + 1 \in 1..Len(q) /\ e[i] = q[i + 1]

LEMMA EnqueueKeeps ==
  ASSUME now \in Nat, NEW q \in Seq(Message), Len(q) <= Depth,
         NEW kind \in Arrivals
  PROVE  Later(q, Enqueue(q, kind))
<1>. DEFINE Dated == [valid : BOOLEAN, at : 0..(now + 1)]
            new == [valid |-> kind = "pose", at |-> now + 1]
            kept == IF Len(q) = Depth THEN Tail(q) ELSE q
<1>1. Depth \in Nat /\ Depth > 0
  BY SnapshotAssumption
<1>2. q \in Seq(Dated)
  <2>1. \A m \in Message : m \in Dated
    BY DEF Message
  <2>. HIDE DEF Dated
  <2>. QED
    BY <2>1
<1>3. new \in Dated
  <2>1. now + 1 \in 0..(now + 1)
    OBVIOUS
  <2>2. (kind = "pose") \in BOOLEAN
    OBVIOUS
  <2>. HIDE DEF kept
  <2>. QED
    BY <2>1, <2>2, Zenon
<1>4. CASE kind = "nothing"
  BY <1>1, <1>2, <1>4 DEF Enqueue, Later
<1>5. CASE kind # "nothing"
  <2>1. Enqueue(q, kind) = Append(kept, new)
    BY <1>5 DEF Enqueue
  <2>2. kept \in Seq(Dated) /\ Len(kept) < Depth
    BY <1>1, <1>2
  <2>3. \A i \in 1..Len(kept) :
          \/ i \in 1..Len(q) /\ kept[i] = q[i]
          \/ i + 1 \in 1..Len(q) /\ kept[i] = q[i + 1]
    BY <1>1, <1>2
  <2>4. /\ Append(kept, new) \in Seq(Dated)
        /\ Len(Append(kept, new)) = Len(kept) + 1
        /\ \A i \in 1..Len(kept) : Append(kept, new)[i] = kept[i]
        /\ Append(kept, new)[Len(kept) + 1] = new
    BY <1>3, <2>2
  <2>5. new.at = now + 1
    OBVIOUS
  <2>. HIDE DEF kept, new, Dated
  <2>6. Append(kept, new) # <<>>
    BY <2>2, <2>4
  <2>7. \A i \in 1..(Len(kept) + 1) :
          \/ Append(kept, new)[i].at = now + 1
          \/ i \in 1..Len(q) /\ Append(kept, new)[i] = q[i]
          \/ i + 1 \in 1..Len(q) /\ Append(kept, new)[i] = q[i + 1]
    <3>. TAKE i \in 1..(Len(kept) + 1)
    <3>1. CASE i = Len(kept) + 1
      BY <2>4, <2>5, <3>1
    <3>2. CASE i \in 1..Len(kept)
      BY <2>3, <2>4, <3>2
    <3>. QED
      BY <2>2, <3>1, <3>2
  <2>. QED
    BY <1>1, <2>1, <2>2, <2>4, <2>6, <2>7 DEF Dated, Later
<1>. QED
  BY <1>4, <1>5

-----------------------------------------------------------------------------
(***************************************************************************)
(* The inductive invariant.                                                *)
(***************************************************************************)
\* The time the callback that runs has taken.
Elapsed == IF stage = "compute" THEN now - snapshot.at ELSE 0

\* How old the message at place i of r's queue can be.  A subscription that was
\* empty when the round began has only what came during the computation.
Allowed(r, i) ==
  IF stage = "compute" THEN IF r \in ready THEN Waited(i) + Elapsed ELSE Elapsed
  ELSE IF stage = "take" /\ r \in ready THEN Waited(i) + LongestCompute
  ELSE Waited(i)

QueuesBounded ==
  \A r \in Robots : \A i \in 1..Len(queue[r]) :
    now - queue[r][i].at <= Allowed(r, i)

\* What was received did not wait longer than any message can.
ReceivedInTime(pose) ==
  /\ pose.at <= pose.receipt
  /\ pose.receipt - pose.at <= LongestWait

LatestBounded ==
  \A r \in Robots : latest[r] # NoPose =>
    ReceivedInTime(latest[r]) /\ latest[r].receipt <= now

\* What PoseAggregator.snapshot and TargetManager.snapshot promise together.
Sound(s) ==
  /\ \A r \in Robots :
       ReceivedInTime(s.poses[r]) /\ s.at - s.poses[r].receipt <= Timeout
  /\ \A r, q \in Robots :
       s.poses[r].receipt - s.poses[q].receipt <= MaximumSkew
  /\ s.epoch = s.at \div SwitchPeriod

ComputationSound ==
  stage = "compute" =>
    /\ snapshot \in Snapshot
    /\ Sound(snapshot)
    /\ snapshot.priority = seen
    /\ snapshot.at <= now /\ now - snapshot.at <= LongestCompute

\* Outside a computation the outcome belongs to the objective seen last.
OutcomeIsOfSeen == stage # "compute" => outcome \in {NoResult, seen}

DispatchSound ==
  Dispatched =>
    /\ dispatched.from \in Snapshot
    /\ Sound(dispatched.from)
    /\ dispatched.result \in {dispatched.from.priority, NoResult}
    /\ dispatched.at \in Nat
    /\ dispatched.from.at <= dispatched.at
    /\ dispatched.at - dispatched.from.at <= LongestCompute

\* The timer: the next call is at most a period after the last one, and at most
\* one computation is in its way.
TimerKept ==
  /\ now - due <= LongestCompute
  /\ stage = "compute" => snapshot.at < due
  /\ epoch = published.epoch
  /\ epoch <= now \div SwitchPeriod
  /\ epoch >= (due - ControlPeriod) \div SwitchPeriod

IInv ==
  /\ TypeOK
  /\ QueuesBounded
  /\ LatestBounded
  /\ ComputationSound
  /\ OutcomeIsOfSeen
  /\ DispatchSound
  /\ TimerKept

LEMMA ConstantFacts ==
  /\ Depth \in Nat \ {0} /\ ControlPeriod \in Nat \ {0} /\ SwitchPeriod \in Nat \ {0}
  /\ Timeout \in Nat /\ MaximumSkew \in Nat /\ LongestCompute \in Nat /\ Horizon \in Nat
BY SnapshotAssumption

LEMMA LongestWaitTyped == LongestWait \in Nat
BY ConstantFacts, SMT DEF LongestWait

-----------------------------------------------------------------------------
(***************************************************************************)
(* The steps.                                                              *)
(***************************************************************************)
\* When a round begins, the messages are allowed the age they have.
LEMMA RoundAllows ==
  ASSUME TypeOK, QueuesBounded, stage = "wait",
         stage' \in {"wait", "take"}, NEW r \in Robots, NEW i \in 1..Len(queue[r])
  PROVE  now - queue[r][i].at <= Allowed(r, i)'
<1>1. /\ queue[r] \in Seq(Message) /\ Len(queue[r]) \in Nat /\ Len(queue[r]) <= Depth
      /\ now \in Nat
  <2>1. queue[r] \in Seq(Message) /\ Len(queue[r]) <= Depth
    BY DEF TypeOK, Message
  <2>2. now \in Nat
    BY ConstantFacts DEF TypeOK
  <2>. QED
    BY <2>1, <2>2
<1>2. i \in 1..Depth /\ queue[r][i] \in Message
  BY <1>1, ConstantFacts
<1>3. queue[r][i].at \in Nat
  BY <1>1, <1>2 DEF Message
<1>4. now - queue[r][i].at <= Waited(i)
  BY DEF QueuesBounded, Allowed
<1>5. Waited(i) \in Nat
  BY <1>2, WaitedFacts
<1>6. Allowed(r, i)' \in {Waited(i), Waited(i) + LongestCompute}
  BY DEF Allowed
<1>. QED
  BY <1>1, <1>3, <1>4, <1>5, <1>6, ConstantFacts

LEMMA InitInv == Init => IInv
<1>. SUFFICES ASSUME Init PROVE IInv
  OBVIOUS
<1>. USE DEF Init
<1>1. TypeOK
  <2>1. \A r \in Robots : queue[r] = <<>>
    OBVIOUS
  <2>2. <<>> \in Seq(Message) /\ Len(<<>>) = 0
    OBVIOUS
  <2>3. queue \in [Robots -> Seq([valid : BOOLEAN, at : 0..now])]
    BY <2>2 DEF Message
  <2>4. \A r \in Robots : Len(queue[r]) <= Depth
    BY <2>1, <2>2, ConstantFacts
  <2>5. published \in [epoch : 0..Horizon, priority : Targets]
    BY ConstantFacts
  <2>6. now \in 0..Horizon /\ epoch \in 0..Horizon /\ due \in 1..(now + ControlPeriod)
    BY ConstantFacts
  <2>. QED
    BY <2>3, <2>4, <2>5, <2>6 DEF TypeOK
<1>2. QueuesBounded
  BY DEF QueuesBounded
<1>3. TimerKept
  <2>1. 0 \div SwitchPeriod = 0
    BY ConstantFacts, SMT
  <2>. QED
    BY <2>1, ConstantFacts DEF TimerKept
<1>. QED
  BY <1>1, <1>2, <1>3 DEF IInv, LatestBounded, ComputationSound, OutcomeIsOfSeen,
     DispatchSound, Dispatched

LEMMA PassInv ==
  ASSUME IInv, Pass
  PROVE  IInv'
<1>. USE ConstantFacts
<1>1. PICK arrived \in [Robots -> Arrivals] :
        queue' = [r \in Robots |-> Enqueue(queue[r], arrived[r])]
  BY DEF Pass
<1>2. /\ now \in Nat /\ now' = now + 1 /\ now' \in 0..Horizon
      /\ stage \in {"wait", "compute", "take"} /\ stage' = stage
      /\ ready' = ready /\ snapshot' = snapshot /\ latest' = latest
      /\ due' = due /\ due \in 1..(now + ControlPeriod)
      /\ epoch' = epoch /\ published' = published /\ priority' = priority
      /\ seen' = seen /\ outcome' = outcome /\ periodic' = periodic
      /\ dispatched' = NoSnapshot
  BY DEF Pass, IInv, TypeOK, targetVars, cycleVars
<1>3. ASSUME NEW r \in Robots
      PROVE  /\ queue[r] \in Seq(Message) /\ Len(queue[r]) <= Depth
             /\ queue'[r] = Enqueue(queue[r], arrived[r])
             /\ Later(queue[r], queue'[r])
  <2>1. queue[r] \in Seq(Message) /\ Len(queue[r]) <= Depth
    BY <1>3 DEF IInv, TypeOK, Message
  <2>2. queue'[r] = Enqueue(queue[r], arrived[r]) /\ arrived[r] \in Arrivals
    BY <1>1, <1>3
  <2>3. Later(queue[r], Enqueue(queue[r], arrived[r]))
    BY <1>2, <2>1, <2>2, EnqueueKeeps
  <2>. QED
    BY <2>1, <2>2, <2>3
<1>4. TypeOK'
  <2>1. queue' \in [Robots -> Seq([valid : BOOLEAN, at : 0..(now + 1)])]
    BY <1>1, <1>3 DEF Later
  <2>2. \A r \in Robots : Len(queue'[r]) <= Depth
    BY <1>3 DEF Later
  <2>3. ready \subseteq Waiting'
    BY <1>3 DEF IInv, TypeOK, Waiting, Later
  <2>4. due \in 1..(now + 1 + ControlPeriod)
    BY <1>2
  <2>. QED
    BY <1>2, <2>1, <2>2, <2>3, <2>4 DEF IInv, TypeOK
<1>5. QueuesBounded'
  <2>. SUFFICES ASSUME NEW r \in Robots, NEW i \in 1..Len(queue'[r])
                PROVE  now' - queue'[r][i].at <= Allowed(r, i)'
    BY DEF QueuesBounded
  <2>1. /\ queue[r] \in Seq(Message) /\ Len(queue[r]) <= Depth
        /\ Later(queue[r], queue'[r])
    BY <1>3
  <2>2. /\ Len(queue[r]) \in Nat
        /\ Len(queue'[r]) \in Nat /\ Len(queue'[r]) <= Depth
        /\ i \in 1..Depth
    BY <2>1 DEF Later
  <2>3. ASSUME NEW j \in 1..Len(queue[r])
        PROVE  queue[r][j].at \in 0..now /\ now - queue[r][j].at <= Allowed(r, j)
    <3>1. queue[r][j] \in Message
      BY <2>1, <2>2
    <3>. QED
      BY <3>1 DEF IInv, QueuesBounded, Message
  <2>4. \/ queue'[r][i].at = now + 1
        \/ i \in 1..Len(queue[r]) /\ queue'[r][i] = queue[r][i]
        \/ i + 1 \in 1..Len(queue[r]) /\ queue'[r][i] = queue[r][i + 1]
    BY <2>1 DEF Later
  <2>5. /\ Waited(i) \in Nat /\ Waited(i + 1) \in Int
        /\ Waited(i) = Waited(i + 1) + LongestCompute
    BY <2>2, WaitedFacts
  <2>6. CASE stage = "wait"
    <3>1. queue[r] = <<>>
      BY <2>6 DEF Pass, Waiting
    <3>2. queue'[r][i].at = now + 1
      BY <2>4, <3>1
    <3>3. Allowed(r, i)' = Waited(i)
      BY <1>2, <2>6 DEF Allowed
    <3>. QED
      BY <1>2, <2>5, <3>2, <3>3
  <2>7. CASE stage = "compute"
    <3>. DEFINE e == now - snapshot.at
                a == queue'[r][i].at
                w == IF r \in ready THEN Waited(i) + e ELSE e
    <3>1. e \in Nat /\ now' - snapshot.at = e + 1
      BY <1>2, <2>7 DEF IInv, ComputationSound, Snapshot
    <3>2. /\ Allowed(r, i) = w
          /\ Allowed(r, i + 1) = IF r \in ready THEN Waited(i + 1) + e ELSE e
          /\ Allowed(r, i)' = IF r \in ready THEN Waited(i) + (e + 1) ELSE e + 1
      BY <1>2, <2>7, <3>1 DEF Allowed, Elapsed
    <3>3. now' = now + 1 /\ now \in Nat
      BY <1>2
    <3>. HIDE DEF e
    <3>4. w \in Nat /\ Allowed(r, i)' = w + 1
      BY <2>5, <3>1, <3>2
    <3>5. a \in Int /\ now - a <= w
      <4>1. CASE queue'[r][i].at = now + 1
        BY <3>3, <3>4, <4>1
      <4>2. CASE i \in 1..Len(queue[r]) /\ queue'[r][i] = queue[r][i]
        BY <2>3, <3>2, <4>2
      <4>3. CASE i + 1 \in 1..Len(queue[r]) /\ queue'[r][i] = queue[r][i + 1]
        <5>1. queue[r][i + 1].at \in 0..now /\ now - queue[r][i + 1].at <= Allowed(r, i + 1)
          BY <2>3, <4>3
        <5>2. Allowed(r, i + 1) \in Int /\ Allowed(r, i + 1) <= w
          BY <2>5, <3>1, <3>2
        <5>3. queue[r][i + 1].at \in Int
          BY <3>3, <5>1
        <5>. HIDE DEF w
        <5>4. now - queue[r][i + 1].at <= w
          BY <3>3, <3>4, <5>1, <5>2, <5>3
        <5>. QED
          BY <4>3, <5>3, <5>4
      <4>. QED
        BY <2>4, <4>1, <4>2, <4>3
    <3>. HIDE DEF a, w
    <3>6. now' - a <= Allowed(r, i)'
      BY <3>3, <3>4, <3>5
    <3>. QED
      BY <3>6 DEF a
  <2>. QED
    BY <2>6, <2>7 DEF Pass
<1>6. LatestBounded'
  <2>1. \A r \in Robots : latest[r] # NoPose => latest[r] \in Pose
    BY DEF IInv, TypeOK
  <2>. QED
    BY <1>2, <2>1 DEF IInv, LatestBounded, ReceivedInTime, Pose
<1>7. ComputationSound'
  <2>1. stage = "compute" => snapshot.at \in Nat /\ now - snapshot.at < LongestCompute
    BY DEF Pass, IInv, TypeOK, Snapshot
  <2>. QED
    BY <1>2, <2>1 DEF IInv, ComputationSound, Sound, ReceivedInTime
<1>8. OutcomeIsOfSeen' /\ DispatchSound'
  BY <1>2 DEF IInv, OutcomeIsOfSeen, DispatchSound, Dispatched
<1>9. TimerKept'
  <2>1. now + 1 - due <= LongestCompute
    <3>1. CASE stage = "wait"
      BY <1>2, <3>1 DEF Pass
    <3>2. CASE stage = "compute"
      <4>1. snapshot.at < due /\ now - snapshot.at < LongestCompute /\ snapshot.at \in Nat
        BY <3>2 DEF Pass, IInv, TimerKept, TypeOK, Snapshot
      <4>. QED
        BY <1>2, <4>1
    <3>. QED
      BY <3>1, <3>2 DEF Pass
  <2>2. now \div SwitchPeriod <= (now + 1) \div SwitchPeriod
    BY <1>2, DivMonotone
  <2>3. /\ now \div SwitchPeriod \in Int /\ (now + 1) \div SwitchPeriod \in Int
        /\ epoch \in Int
    BY <1>2, SMT DEF IInv, TypeOK
  <2>. QED
    BY <1>2, <2>1, <2>2, <2>3 DEF IInv, TimerKept
<1>. QED
  BY <1>4, <1>5, <1>6, <1>7, <1>8, <1>9 DEF IInv

LEMMA TakePoseInv ==
  ASSUME IInv, NEW r \in Robots, TakePose(r)
  PROVE  IInv'
<1>. DEFINE message == Head(queue[r])
<1>1. /\ now \in Nat /\ now' = now /\ stage = "take" /\ r \in ready
      /\ ready' = ready \ {r}
      /\ stage' \in {"wait", "take"} /\ (stage' = "wait" => ready' = {})
      /\ due' = due /\ epoch' = epoch /\ published' = published /\ priority' = priority
      /\ snapshot' = snapshot /\ seen' = seen /\ outcome' = outcome
      /\ periodic' = periodic /\ dispatched' = NoSnapshot
      /\ queue' = [queue EXCEPT ![r] = Tail(@)]
  BY ConstantFacts DEF TakePose, IInv, TypeOK, targetVars, cycleVars
<1>2. /\ queue[r] \in Seq(Message) /\ Len(queue[r]) <= Depth /\ queue[r] # <<>>
      /\ queue \in [Robots -> Seq(Message)]
  BY <1>1 DEF IInv, TypeOK, Message, Waiting
<1>3. /\ Tail(queue[r]) \in Seq(Message) /\ message \in Message
      /\ Len(queue[r]) \in 1..Depth /\ message = queue[r][1]
      /\ Len(Tail(queue[r])) = Len(queue[r]) - 1
      /\ \A i \in 1..Len(Tail(queue[r])) : Tail(queue[r])[i] = queue[r][i + 1]
  BY <1>2, ConstantFacts
<1>4. message.at \in Nat /\ message.at <= now /\ now - message.at <= LongestWait
  <2>1. message.at \in 0..now
    BY <1>3 DEF Message
  <2>2. now - message.at <= Allowed(r, 1)
    BY <1>3, ConstantFacts DEF IInv, QueuesBounded
  <2>3. Allowed(r, 1) = Waited(1) + LongestCompute
    BY <1>1 DEF Allowed
  <2>4. Waited(1) \in Nat /\ Waited(1) + LongestCompute <= LongestWait
    BY ConstantFacts, WaitedFacts
  <2>. HIDE DEF message
  <2>. QED
    BY <1>1, <2>1, <2>2, <2>3, <2>4, ConstantFacts, LongestWaitTyped
<1>5. \/ latest' = latest
      \/ latest' = [latest EXCEPT ![r] = [at |-> message.at, receipt |-> now]]
  BY DEF TakePose, Receive
<1>6. latest \in [Robots -> Pose \cup {NoPose}]
  BY DEF IInv, TypeOK
<1>7. [at |-> message.at, receipt |-> now] \in Pose
  <2>. HIDE DEF message
  <2>. QED
    BY <1>4, ConstantFacts DEF IInv, TypeOK, Pose
<1>. HIDE DEF message
<1>8. TypeOK'
  <2>1. queue' \in [Robots -> Seq(Message)]
    BY <1>1, <1>2, <1>3
  <2>2. \A s \in Robots : Len(queue'[s]) <= Depth
    <3>. TAKE s \in Robots
    <3>1. CASE s = r
      BY <1>1, <1>2, <1>3, <3>1, ConstantFacts
    <3>2. CASE s # r
      BY <1>1, <1>2, <3>2 DEF IInv, TypeOK
    <3>. QED
      BY <3>1, <3>2
  <2>3. ready' \subseteq Waiting'
    BY <1>1, <1>2 DEF IInv, TypeOK, Waiting
  <2>4. latest' \in [Robots -> Pose \cup {NoPose}]
    BY <1>5, <1>6, <1>7
  <2>. QED
    BY <1>1, <2>1, <2>2, <2>3, <2>4 DEF IInv, TypeOK, Message
<1>9. QueuesBounded'
  <2>. SUFFICES ASSUME NEW s \in Robots, NEW i \in 1..Len(queue'[s])
                PROVE  now' - queue'[s][i].at <= Allowed(s, i)'
    BY DEF QueuesBounded
  <2>1. CASE s = r
    <3>1. queue'[r] = Tail(queue[r]) /\ i \in 1..Len(Tail(queue[r]))
      BY <1>1, <1>2, <2>1
    <3>2. i \in 1..Depth /\ i + 1 \in 1..Len(queue[r]) /\ queue'[r][i] = queue[r][i + 1]
      BY <1>3, <3>1, ConstantFacts
    <3>3. now - queue[r][i + 1].at <= Allowed(r, i + 1)
      BY <3>2 DEF IInv, QueuesBounded
    <3>4. Allowed(r, i + 1) = Waited(i + 1) + LongestCompute
      BY <1>1 DEF Allowed
    <3>5. Allowed(r, i)' = Waited(i)
      BY <1>1 DEF Allowed
    <3>6. Waited(i) = Waited(i + 1) + LongestCompute
      BY <3>2, WaitedFacts
    <3>. QED
      BY <1>1, <2>1, <3>2, <3>3, <3>4, <3>5, <3>6
  <2>2. CASE s # r
    <3>1. queue'[s] = queue[s]
      BY <1>1, <1>2, <2>2
    <3>2. now - queue[s][i].at <= Allowed(s, i)
      BY <3>1 DEF IInv, QueuesBounded
    <3>3. Allowed(s, i)' = Allowed(s, i)
      BY <1>1, <2>2 DEF Allowed
    <3>. QED
      BY <1>1, <3>1, <3>2, <3>3
  <2>. QED
    BY <2>1, <2>2
<1>10. LatestBounded'
  <2>. SUFFICES ASSUME NEW s \in Robots, latest'[s] # NoPose
                PROVE  ReceivedInTime(latest'[s]) /\ latest'[s].receipt <= now
    BY <1>1 DEF LatestBounded, ReceivedInTime
  <2>1. CASE latest'[s] = latest[s]
    BY <2>1 DEF IInv, LatestBounded
  <2>2. CASE latest'[s] = [at |-> message.at, receipt |-> now]
    BY <1>1, <1>4, <2>2 DEF ReceivedInTime
  <2>. QED
    BY <1>5, <1>6, <2>1, <2>2
<1>11. ComputationSound' /\ OutcomeIsOfSeen' /\ DispatchSound' /\ TimerKept'
  BY <1>1 DEF IInv, ComputationSound, OutcomeIsOfSeen, DispatchSound, Dispatched, TimerKept
<1>. QED
  BY <1>8, <1>9, <1>10, <1>11 DEF IInv

LEMMA RoundInv ==
  ASSUME IInv, Round
  PROVE  IInv'
<1>1. /\ now' = now /\ queue' = queue /\ latest' = latest /\ due' = due
      /\ epoch' = epoch /\ published' = published /\ priority' = priority
      /\ snapshot' = snapshot /\ seen' = seen /\ outcome' = outcome
      /\ periodic' = periodic /\ dispatched' = NoSnapshot
      /\ stage = "wait" /\ stage' = "take" /\ ready' = Waiting
  BY DEF Round, poseVars, targetVars, cycleVars
<1>2. TypeOK'
  BY <1>1 DEF IInv, TypeOK, Waiting
<1>3. QueuesBounded'
  <2>. SUFFICES ASSUME NEW r \in Robots, NEW i \in 1..Len(queue[r])
                PROVE  now - queue[r][i].at <= Allowed(r, i)'
    BY <1>1 DEF QueuesBounded
  <2>. QED
    BY <1>1, RoundAllows DEF IInv
<1>. QED
  BY <1>1, <1>2, <1>3 DEF IInv, LatestBounded, ReceivedInTime, ComputationSound,
     OutcomeIsOfSeen, DispatchSound, Dispatched, TimerKept

\* The targets and the timer in a control cycle.
LEMMA CycleTargets ==
  ASSUME IInv, ControlCycle
  PROVE  /\ now \in Nat /\ due' \in Nat /\ now < due' /\ due' - ControlPeriod <= now
         /\ epoch' = now \div SwitchPeriod /\ epoch' \in 0..now
         /\ priority' \in Targets
         /\ published' = [epoch |-> epoch', priority |-> priority']
<1>1. now \in Nat /\ due \in Nat /\ now >= due /\ epoch \in Nat
  BY ConstantFacts DEF IInv, TypeOK, ControlCycle
<1>2. due' = NextCall /\ epoch' = now \div SwitchPeriod
      /\ priority' \in SwitchedTo(epoch' - epoch)
      /\ published' = [epoch |-> epoch', priority |-> priority']
  BY DEF ControlCycle, Advance, PublishTargets
<1>3. epoch' \in 0..now
  BY <1>1, <1>2, DivBounds, ConstantFacts
<1>4. epoch' - epoch \in Nat
  BY <1>1, <1>2, <1>3 DEF IInv, TimerKept
<1>. QED
  BY <1>1, <1>2, <1>3, <1>4, NextCallAhead, SwitchedToTyped

\* What a usable set of poses says of the snapshot taken from it.
LEMMA TakenSound ==
  ASSUME IInv, ControlCycle, Usable
  PROVE  Taken \in Snapshot /\ Sound(Taken)
<1>1. /\ now \in 0..Horizon /\ now \in Nat
      /\ epoch' = now \div SwitchPeriod /\ epoch' \in 0..now /\ priority' \in Targets
  BY CycleTargets DEF IInv, TypeOK
<1>2. latest \in [Robots -> Pose] 
  BY DEF Usable, IInv, TypeOK
<1>3. Taken \in Snapshot
  BY <1>1, <1>2, ConstantFacts DEF Taken, Snapshot
<1>4. /\ Taken.poses = latest /\ Taken.at = now /\ Taken.epoch = epoch'
  BY DEF Taken
<1>. QED
  BY <1>1, <1>3, <1>4 DEF Sound, Usable, Fresh, IInv, LatestBounded

LEMMA ControlCycleInv ==
  ASSUME IInv, ControlCycle
  PROVE  IInv'
<1>1. /\ now' = now /\ queue' = queue /\ latest' = latest /\ periodic' = periodic
      /\ stage = "wait" /\ ready' = Waiting
      /\ stage' \in {"wait", "take", "compute"}
  BY DEF ControlCycle, PoseUnavailable, StartComputation, ReuseResult, AfterCycle,
     poseVars
<1>2. /\ now \in Nat /\ due' \in Nat /\ now < due' /\ due' - ControlPeriod <= now
      /\ epoch' = now \div SwitchPeriod /\ epoch' \in 0..now
      /\ priority' \in Targets
      /\ published' = [epoch |-> epoch', priority |-> priority']
  BY CycleTargets
<1>3. Usable => Taken \in Snapshot /\ Sound(Taken)
  BY TakenSound
<1>4. ComputationSound' /\ (stage' = "compute" => snapshot' = Taken /\ seen' = priority')
  <2>1. CASE PoseUnavailable \/ ReuseResult
    BY <2>1 DEF PoseUnavailable, ReuseResult, AfterCycle, ComputationSound
  <2>2. CASE StartComputation
    <3>1. snapshot' = Taken /\ seen' = priority' /\ Usable
      BY <2>2 DEF StartComputation
    <3>2. Taken.at = now /\ Taken.priority = priority'
      BY DEF Taken
    <3>3. Sound(snapshot)'
      BY <1>3, <3>1 DEF Sound, ReceivedInTime
    <3>. QED
      BY <1>1, <1>2, <1>3, <3>1, <3>2, <3>3, ConstantFacts DEF ComputationSound
  <2>. QED
    BY <2>1, <2>2 DEF ControlCycle
<1>5. dispatched' # NoSnapshot =>
        /\ Usable /\ ~MustCompute
        /\ dispatched' = [from |-> Taken, result |-> outcome, at |-> now]
  BY DEF ControlCycle, PoseUnavailable, StartComputation, ReuseResult, RefreshOnly,
     DispatchFrom
<1>6. TypeOK'
  <2>1. seen' \in Targets \cup {NoTarget} /\ outcome' \in Targets \cup {NoResult}
    BY <1>2 DEF ControlCycle, PoseUnavailable, StartComputation, ReuseResult, IInv,
       TypeOK, AfterDispatch
  <2>2. snapshot' \in Snapshot \cup {NoSnapshot} /\ (stage' = "compute" => snapshot' \in Snapshot)
    BY <1>3, <1>4 DEF ControlCycle, PoseUnavailable, StartComputation, ReuseResult, IInv,
       TypeOK, AfterCycle
  <2>3. dispatched' \in [from : Snapshot, result : Targets \cup {NoResult},
                         at : 0..Horizon] \cup {NoSnapshot}
    <3>1. now \in 0..Horizon /\ outcome \in Targets \cup {NoResult}
      BY DEF IInv, TypeOK
    <3>. QED
      BY <1>3, <1>5, <3>1
  <2>4. /\ now \in 0..Horizon /\ epoch' \in 0..Horizon
        /\ due' \in 1..(now + ControlPeriod)
        /\ published' \in [epoch : 0..Horizon, priority : Targets]
    <3>1. now \in 0..Horizon
      BY DEF IInv, TypeOK
    <3>2. epoch' \in 0..Horizon
      BY <1>2, <3>1, ConstantFacts
    <3>. DEFINE next == due'
    <3>3. next \in 1..(now + ControlPeriod)
      <4>1. now \in Nat /\ next \in Nat /\ now < next /\ next - ControlPeriod <= now
        BY <1>2
      <4>. HIDE DEF next
      <4>. QED
        BY <4>1, ConstantFacts
    <3>4. published' \in [epoch : 0..Horizon, priority : Targets]
      BY <1>2, <3>2, Zenon
    <3>. QED
      BY <3>1, <3>2, <3>3, <3>4
  <2>5. Waiting' = Waiting
    BY <1>1 DEF Waiting
  <2>. QED
    BY <1>1, <1>2, <2>1, <2>2, <2>3, <2>4, <2>5 DEF IInv, TypeOK
<1>7. QueuesBounded'
  <2>. SUFFICES ASSUME NEW r \in Robots, NEW i \in 1..Len(queue[r])
                PROVE  now - queue[r][i].at <= Allowed(r, i)'
    BY <1>1 DEF QueuesBounded
  <2>1. CASE stage' # "compute"
    BY <1>1, <2>1, RoundAllows DEF IInv
  <2>2. CASE stage' = "compute"
    <3>1. queue[r] # <<>>
      BY DEF IInv, TypeOK
    <3>2. r \in ready'
      BY <1>1, <3>1 DEF Waiting
    <3>3. Elapsed' = 0
      BY <1>1, <1>2, <1>4, <2>2 DEF Elapsed, Taken
    <3>4. i \in 1..Depth
      BY ConstantFacts DEF IInv, TypeOK
    <3>5. Waited(i) \in Nat
      BY <3>4, WaitedFacts
    <3>6. Allowed(r, i)' = Waited(i)
      BY <2>2, <3>2, <3>3, <3>5 DEF Allowed
    <3>7. now - queue[r][i].at <= Waited(i)
      BY <1>1 DEF IInv, QueuesBounded, Allowed
    <3>. QED
      BY <3>6, <3>7
  <2>. QED
    BY <2>1, <2>2
<1>8. LatestBounded'
  BY <1>1 DEF IInv, LatestBounded, ReceivedInTime
<1>9. OutcomeIsOfSeen'
  BY <1>1 DEF IInv, OutcomeIsOfSeen, ControlCycle, PoseUnavailable, StartComputation,
     ReuseResult, AfterDispatch
<1>10. DispatchSound'
  <2>. SUFFICES ASSUME dispatched' # NoSnapshot
                PROVE  DispatchSound'
    BY DEF DispatchSound, Dispatched
  <2>1. /\ Taken \in Snapshot /\ Sound(Taken) /\ ~MustCompute
        /\ dispatched' = [from |-> Taken, result |-> outcome, at |-> now]
    BY <1>3, <1>5
  <2>2. /\ dispatched'.from = Taken /\ dispatched'.result = outcome
        /\ dispatched'.at = now /\ Taken.at = now /\ Taken.priority = priority'
    <3>1. Taken.at = now /\ Taken.priority = priority'
      BY DEF Taken
    <3>. QED
      BY <2>1, <3>1
  <2>3. outcome \in {priority', NoResult}
    <3>1. outcome \in {NoResult, seen}
      BY <1>1 DEF IInv, OutcomeIsOfSeen
    <3>. QED
      BY <2>1, <3>1 DEF MustCompute
  <2>4. Sound(dispatched.from)'
    BY <2>1, <2>2 DEF Sound, ReceivedInTime
  <2>. QED
    <3>1. now <= now /\ now - now <= LongestCompute
      BY <1>2, ConstantFacts
    <3>. QED
      BY <1>2, <2>1, <2>2, <2>3, <2>4, <3>1 DEF DispatchSound
<1>11. TimerKept'
  <2>. DEFINE next == due'
              d == next - ControlPeriod
  <2>1. now \in Nat /\ next \in Nat /\ now < next /\ d <= now
    BY <1>2
  <2>. HIDE DEF next
  <2>2. d \div SwitchPeriod <= now \div SwitchPeriod
    BY <2>1, DivMonotone, ConstantFacts
  <2>3. now - next <= LongestCompute
    BY <2>1, ConstantFacts
  <2>4. now \div SwitchPeriod <= now \div SwitchPeriod
    BY <1>2
  <2>5. stage' = "compute" => snapshot'.at < due'
    BY <1>2, <1>4 DEF Taken
  <2>. QED
    BY <1>1, <1>2, <2>2, <2>3, <2>4, <2>5 DEF TimerKept, next
<1>. QED
  BY <1>4, <1>6, <1>7, <1>8, <1>9, <1>10, <1>11 DEF IInv

LEMMA FinishInv ==
  ASSUME IInv, ResultDispatched \/ ComputationFailed
  PROVE  IInv'
<1>1. /\ stage = "compute" /\ now' = now /\ queue' = queue /\ latest' = latest
      /\ epoch' = epoch /\ priority' = priority /\ published' = published
      /\ ready' = ready /\ due' = due /\ seen' = seen /\ periodic' = periodic
      /\ snapshot' = NoSnapshot
      /\ stage' = IF ready = {} THEN "wait" ELSE "take"
  BY DEF ResultDispatched, ComputationFailed, FinishComputation, poseVars, targetVars
<1>2. /\ snapshot \in Snapshot /\ Sound(snapshot) /\ snapshot.priority = seen
      /\ snapshot.at <= now /\ now - snapshot.at <= LongestCompute
  BY <1>1 DEF IInv, ComputationSound
<1>3. snapshot.at \in Nat /\ snapshot.priority \in Targets /\ now \in Nat /\ now \in 0..Horizon
  BY <1>2, ConstantFacts DEF Snapshot, IInv, TypeOK
<1>4. /\ outcome' \in {snapshot.priority, NoResult}
      /\ \/ dispatched' = NoSnapshot
         \/ \E result \in {snapshot.priority, NoResult} :
              dispatched' = [from |-> snapshot, result |-> result, at |-> now]
  BY DEF ResultDispatched, ComputationFailed, RefreshOnly, AfterDispatch, DispatchFrom
<1>5. TypeOK'
  <2>1. outcome' \in Targets \cup {NoResult}
    BY <1>3, <1>4
  <2>2. dispatched' \in [from : Snapshot, result : Targets \cup {NoResult},
                         at : 0..Horizon] \cup {NoSnapshot}
    BY <1>2, <1>3, <1>4
  <2>3. Waiting' = Waiting
    BY <1>1 DEF Waiting
  <2>. QED
    BY <1>1, <2>1, <2>2, <2>3 DEF IInv, TypeOK
<1>6. QueuesBounded'
  <2>. SUFFICES ASSUME NEW r \in Robots, NEW i \in 1..Len(queue[r])
                PROVE  now - queue[r][i].at <= Allowed(r, i)'
    BY <1>1 DEF QueuesBounded
  <2>. DEFINE e == now - snapshot.at
              a == queue[r][i].at
  <2>1. e \in Nat /\ e <= LongestCompute
    BY <1>2, <1>3
  <2>2. queue[r] \in Seq(Message) /\ Len(queue[r]) <= Depth
    BY DEF IInv, TypeOK, Message
  <2>3. i \in 1..Depth /\ queue[r][i] \in Message
    BY <2>2, ConstantFacts
  <2>4. a \in Nat
    BY <1>3, <2>3 DEF Message
  <2>5. now - a <= Allowed(r, i)
    BY DEF IInv, QueuesBounded
  <2>6. Waited(i) \in Nat /\ LongestCompute <= Waited(i)
    BY <2>3, WaitedFacts
  <2>7. Allowed(r, i) = IF r \in ready THEN Waited(i) + e ELSE e
    BY <1>1 DEF Allowed, Elapsed
  <2>8. Allowed(r, i)' = IF r \in ready THEN Waited(i) + LongestCompute ELSE Waited(i)
    BY <1>1 DEF Allowed
  <2>. HIDE DEF e, a
  <2>9. now - a <= Allowed(r, i)'
    BY <1>3, <2>1, <2>4, <2>5, <2>6, <2>7, <2>8, ConstantFacts
  <2>. QED
    BY <2>9 DEF a
<1>7. LatestBounded' /\ ComputationSound' /\ OutcomeIsOfSeen'
  BY <1>1, <1>2, <1>4 DEF IInv, LatestBounded, ReceivedInTime, ComputationSound,
     OutcomeIsOfSeen
<1>8. DispatchSound'
  <2>. SUFFICES ASSUME dispatched' # NoSnapshot
                PROVE  DispatchSound'
    BY DEF DispatchSound, Dispatched
  <2>1. /\ dispatched'.from = snapshot
        /\ dispatched'.result \in {snapshot.priority, NoResult}
        /\ dispatched'.at = now
    BY <1>4
  <2>2. Sound(dispatched.from)'
    BY <1>2, <2>1 DEF Sound, ReceivedInTime
  <2>. QED
    BY <1>2, <1>3, <2>1, <2>2 DEF DispatchSound
<1>9. TimerKept'
  BY <1>1 DEF IInv, TimerKept
<1>. QED
  BY <1>5, <1>6, <1>7, <1>8, <1>9 DEF IInv

LEMMA StutterInv ==
  ASSUME IInv, UNCHANGED vars
  PROVE  IInv'
<1>1. /\ now' = now /\ queue' = queue /\ latest' = latest /\ epoch' = epoch
      /\ priority' = priority /\ published' = published /\ stage' = stage
      /\ ready' = ready /\ due' = due /\ snapshot' = snapshot /\ periodic' = periodic
      /\ seen' = seen /\ outcome' = outcome /\ dispatched' = dispatched
  BY DEF vars, poseVars, targetVars, cycleVars
<1>2. TypeOK' /\ QueuesBounded' /\ LatestBounded'
  BY <1>1 DEF IInv, TypeOK, Waiting, QueuesBounded, Allowed, Elapsed, LatestBounded,
     ReceivedInTime
<1>3. ComputationSound' /\ DispatchSound'
  BY <1>1 DEF IInv, ComputationSound, DispatchSound, Dispatched, Sound, ReceivedInTime
<1>. QED
  BY <1>1, <1>2, <1>3 DEF IInv, OutcomeIsOfSeen, TimerKept

LEMMA NextInv == IInv /\ [Next]_vars => IInv'
<1>. SUFFICES ASSUME IInv, [Next]_vars
              PROVE  IInv'
  OBVIOUS
<1>1. CASE Pass
  BY <1>1, PassInv
<1>2. ASSUME NEW r \in Robots, TakePose(r)
      PROVE  IInv'
  BY <1>2, TakePoseInv
<1>3. CASE Round
  BY <1>3, RoundInv
<1>4. CASE ControlCycle
  BY <1>4, ControlCycleInv
<1>5. CASE ResultDispatched \/ ComputationFailed
  BY <1>5, FinishInv
<1>6. CASE Over \/ UNCHANGED vars
  BY <1>6, StutterInv DEF Over
<1>. QED
  BY <1>1, <1>2, <1>3, <1>4, <1>5, <1>6 DEF Next

-----------------------------------------------------------------------------
(***************************************************************************)
(* The theorems.                                                           *)
(***************************************************************************)
\* Every state satisfies the inductive invariant.
THEOREM Invariance == Spec => []IInv
BY InitInv, NextInv, PTL DEF Spec

\* The pose queues, the snapshot, the timer and the outcome stay what the code
\* takes them to be.
THEOREM TypeCorrect == Spec => []TypeOK
<1>1. IInv => TypeOK
  BY DEF IInv
<1>. QED
  BY <1>1, Invariance, PTL

LEMMA DispatchedTyped ==
  ASSUME IInv, Dispatched, NEW r \in Robots
  PROVE  /\ dispatched.from.poses[r].at \in Int
         /\ dispatched.from.poses[r].receipt \in Int
         /\ dispatched.from.at \in Int /\ dispatched.at \in Int
         /\ dispatched.from.epoch \in Int
<1>1. dispatched.from \in Snapshot /\ dispatched.at \in Nat
  BY DEF IInv, DispatchSound
<1>2. dispatched.from.poses[r] \in Pose
  BY <1>1 DEF Snapshot
<1>. QED
  BY <1>1, <1>2, ConstantFacts DEF Snapshot, Pose

\* A command never rests on a pose older than the longest wait in a queue, the
\* freshness timeout and one computation together (pose_aggregation.py dates a
\* pose when its callback runs).
THEOREM RecentPoses == Spec => []PosesAreRecent
<1>1. IInv => PosesAreRecent
  <2>. SUFFICES ASSUME IInv, Dispatched, NEW r \in Robots
                PROVE  dispatched.at - dispatched.from.poses[r].at
                         <= LongestWait + Timeout + LongestCompute
    BY DEF PosesAreRecent
  <2>1. /\ ReceivedInTime(dispatched.from.poses[r])
        /\ dispatched.from.at - dispatched.from.poses[r].receipt <= Timeout
        /\ dispatched.at - dispatched.from.at <= LongestCompute
    BY DEF IInv, DispatchSound, Sound
  <2>. QED
    BY <2>1, DispatchedTyped, ConstantFacts, LongestWaitTyped DEF ReceivedInTime
<1>. QED
  BY <1>1, Invariance, PTL

\* The poses of one decision arrived at most the skew and the longest wait
\* apart.
THEOREM TogetherPoses == Spec => []PosesBelongTogether
<1>1. IInv => PosesBelongTogether
  <2>. SUFFICES ASSUME IInv, Dispatched, NEW r \in Robots, NEW s \in Robots
                PROVE  dispatched.from.poses[r].at - dispatched.from.poses[s].at
                         <= MaximumSkew + LongestWait
    BY DEF PosesBelongTogether
  <2>1. /\ ReceivedInTime(dispatched.from.poses[r])
        /\ ReceivedInTime(dispatched.from.poses[s])
        /\ dispatched.from.poses[r].receipt - dispatched.from.poses[s].receipt
             <= MaximumSkew
    BY DEF IInv, DispatchSound, Sound
  <2>2. /\ dispatched.from.poses[r].at \in Int
        /\ dispatched.from.poses[r].receipt \in Int
        /\ dispatched.from.poses[s].at \in Int
        /\ dispatched.from.poses[s].receipt \in Int
    BY DispatchedTyped
  <2>. QED
    BY <2>1, <2>2, ConstantFacts, LongestWaitTyped DEF ReceivedInTime
<1>. QED
  BY <1>1, Invariance, PTL

\* A result, fresh or kept, is dispatched only for the target it was computed
\* for (coordinator_node.py compares signatures, not epochs).
THEOREM FittingResult == Spec => []ResultFitsTheTarget
<1>1. IInv => ResultFitsTheTarget
  BY DEF IInv, DispatchSound, ResultFitsTheTarget
<1>. QED
  BY <1>1, Invariance, PTL

\* The target a command serves had priority at most one computation ago, however
\* many periods went by while the executor was busy (target_dynamics.py).
THEOREM TimelyTarget == Spec => []TargetIsOnTime
<1>1. IInv => TargetIsOnTime
  <2>. SUFFICES ASSUME IInv, Dispatched
                PROVE  dispatched.from.epoch
                         >= (dispatched.at - LongestCompute) \div SwitchPeriod
    BY DEF TargetIsOnTime
  <2>. DEFINE early == dispatched.at - LongestCompute
              taken == dispatched.from.at
  <2>1. /\ dispatched.from.epoch = taken \div SwitchPeriod
        /\ dispatched.at - taken <= LongestCompute
    BY DEF IInv, DispatchSound, Sound
  <2>2. taken \in Int /\ dispatched.at \in Int
    BY DispatchedTyped, SnapshotAssumption
  <2>3. early \in Int /\ early <= taken
    BY <2>1, <2>2, ConstantFacts
  <2>. HIDE DEF early, taken
  <2>4. early \div SwitchPeriod <= taken \div SwitchPeriod
    BY <2>2, <2>3, DivMonotone, ConstantFacts
  <2>5. early \div SwitchPeriod \in Int /\ taken \div SwitchPeriod \in Int
    BY <2>2, <2>3, ConstantFacts, SMT
  <2>. QED
    BY <2>1, <2>4, <2>5 DEF early
<1>. QED
  BY <1>1, Invariance, PTL

\* The published target state is never older than a control period and one
\* computation, even while no usable pose arrives.
THEOREM CurrentTargetState == Spec => []TargetStateIsCurrent
<1>1. IInv => TargetStateIsCurrent
  <2>. SUFFICES ASSUME IInv
                PROVE  published.epoch
                         >= (now - ControlPeriod - LongestCompute) \div SwitchPeriod
    BY DEF TargetStateIsCurrent
  <2>. DEFINE early == now - ControlPeriod - LongestCompute
              called == due - ControlPeriod
  <2>1. now \in Int /\ due \in Int /\ published.epoch \in Int
    BY ConstantFacts DEF IInv, TypeOK
  <2>2. published.epoch >= called \div SwitchPeriod /\ now - due <= LongestCompute
    BY DEF IInv, TimerKept
  <2>3. early \in Int /\ called \in Int /\ early <= called
    BY <2>1, <2>2, ConstantFacts
  <2>. HIDE DEF early, called
  <2>4. early \div SwitchPeriod <= called \div SwitchPeriod
    BY <2>3, DivMonotone, ConstantFacts
  <2>5. early \div SwitchPeriod \in Int /\ called \div SwitchPeriod \in Int
    BY <2>3, ConstantFacts, SMT
  <2>. QED
    BY <2>1, <2>2, <2>4, <2>5 DEF early
<1>. QED
  BY <1>1, Invariance, PTL
=============================================================================
