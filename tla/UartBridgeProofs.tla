-------------------------- MODULE UartBridgeProofs --------------------------
(***************************************************************************)
(* Safety of the bridge for every control mode, every way a link may fail  *)
(* and every size of the queues.                                           *)
(*                                                                         *)
(* The invariant follows a velocity through its stations: the ids do not   *)
(* fall from the wheels to the mailbox, along the event queue, and to the  *)
(* last velocity issued.                                                   *)
(***************************************************************************)
EXTENDS UartBridge, TLAPS

WriteResult ==
  [written : BOOLEAN, open : BOOLEAN, failures : 0..MaximumReopenAttempts,
   exit : BOOLEAN, reopened : {"no", "before", "after"}]

Posts(seq, i) == seq[i].kind = "velocity"

\* The velocities of a queue do not fall, and lie between two bounds.
Rising(seq, low, high) ==
  /\ seq \in Seq(Event)
  /\ \A i \in 1..Len(seq) : Posts(seq, i) =>
       /\ seq[i].velocity \in Velocity
       /\ low <= seq[i].velocity.id /\ seq[i].velocity.id <= high
  /\ \A i, j \in 1..Len(seq) : (i <= j /\ Posts(seq, i) /\ Posts(seq, j)) =>
       seq[i].velocity.id <= seq[j].velocity.id

Mailbox ==
  flushScheduled =>
    /\ latestVelocity \in Velocity
    /\ wheel.id <= latestVelocity.id /\ latestVelocity.id <= issued.id

Floor == IF flushScheduled THEN latestVelocity.id ELSE wheel.id

IInv ==
  /\ TypeOK
  /\ wheel.id <= issued.id
  /\ Mailbox
  /\ Rising(events, Floor, issued.id)

-----------------------------------------------------------------------------
(***************************************************************************)
(* The event queue.                                                        *)
(***************************************************************************)
LEMMA VelocityId ==
  ASSUME NEW v \in Velocity
  PROVE  v.id \in 0..MaxCommands /\ v.id \in Nat /\ v.stop \in BOOLEAN
BY BridgeAssumption DEF Velocity

LEMMA CallTyped ==
  ASSUME NEW kind \in {"configure", "rate", "enable"}
  PROVE  Call(kind) \in Event /\ Call(kind).kind = kind
BY DEF Call, Event

LEMMA RisingLower ==
  ASSUME NEW seq, NEW low \in Nat, NEW high \in Nat, NEW lower \in Nat,
         lower <= low, Rising(seq, low, high)
  PROVE  Rising(seq, lower, high)
<1>1. ASSUME NEW i \in 1..Len(seq), Posts(seq, i)
      PROVE  /\ seq[i].velocity \in Velocity
             /\ lower <= seq[i].velocity.id /\ seq[i].velocity.id <= high
  <2>1. /\ seq[i].velocity \in Velocity
        /\ low <= seq[i].velocity.id /\ seq[i].velocity.id <= high
    BY <1>1 DEF Rising
  <2>2. seq[i].velocity.id \in Nat
    BY <2>1, VelocityId
  <2>. QED
    BY <2>1, <2>2
<1>. QED
  BY <1>1 DEF Rising

LEMMA RisingTail ==
  ASSUME NEW seq, NEW low, NEW high, seq # <<>>, Rising(seq, low, high)
  PROVE  /\ Rising(Tail(seq), low, high)
         /\ Posts(seq, 1) => Rising(Tail(seq), seq[1].velocity.id, high)
<1>1. /\ Tail(seq) \in Seq(Event)
      /\ Len(seq) \in Nat /\ Len(Tail(seq)) = Len(seq) - 1
      /\ \A i \in 1..Len(Tail(seq)) : Tail(seq)[i] = seq[i + 1]
      /\ 1 \in 1..Len(seq)
  BY DEF Rising
<1>2. \A i \in 1..Len(Tail(seq)) : i + 1 \in 1..Len(seq) /\ 1 <= i + 1
  BY <1>1
<1>3. \A i \in 1..Len(Tail(seq)) : Posts(Tail(seq), i) =>
        /\ Posts(seq, i + 1)
        /\ Tail(seq)[i].velocity = seq[i + 1].velocity
  BY <1>1 DEF Posts
<1>4. \A i \in 1..Len(Tail(seq)) : Posts(Tail(seq), i) =>
        /\ Tail(seq)[i].velocity \in Velocity
        /\ low <= Tail(seq)[i].velocity.id /\ Tail(seq)[i].velocity.id <= high
        /\ Posts(seq, 1) => seq[1].velocity.id <= Tail(seq)[i].velocity.id
  BY <1>1, <1>2, <1>3 DEF Rising
<1>5. \A i, j \in 1..Len(Tail(seq)) :
        (i <= j /\ Posts(Tail(seq), i) /\ Posts(Tail(seq), j)) =>
          Tail(seq)[i].velocity.id <= Tail(seq)[j].velocity.id
  <2>. SUFFICES ASSUME NEW i \in 1..Len(Tail(seq)), NEW j \in 1..Len(Tail(seq)),
                       i <= j, Posts(Tail(seq), i), Posts(Tail(seq), j)
                PROVE  Tail(seq)[i].velocity.id <= Tail(seq)[j].velocity.id
    OBVIOUS
  <2>1. i + 1 <= j + 1
    OBVIOUS
  <2>. QED
    BY <2>1, <1>2, <1>3 DEF Rising
<1>. QED
  BY <1>1, <1>4, <1>5 DEF Rising

LEMMA RisingAppend ==
  ASSUME NEW seq, NEW low, NEW high \in Nat, NEW event \in Event, NEW higher \in Nat,
         high <= higher, Rising(seq, low, high),
         event.kind = "velocity" =>
           /\ event.velocity \in Velocity
           /\ low <= event.velocity.id /\ high <= event.velocity.id
           /\ event.velocity.id <= higher
  PROVE  Rising(Append(seq, event), low, higher)
<1>. DEFINE new == Append(seq, event)
<1>1. /\ new \in Seq(Event)
      /\ Len(seq) \in Nat /\ Len(new) = Len(seq) + 1
      /\ \A i \in 1..Len(seq) : new[i] = seq[i]
      /\ new[Len(seq) + 1] = event
  BY DEF Rising
<1>2. \A i \in 1..Len(new) : i \in 1..Len(seq) \/ i = Len(seq) + 1
  BY <1>1
<1>3. \A i \in 1..Len(seq) : Posts(new, i) => Posts(seq, i)
  BY <1>1 DEF Posts
<1>4. Posts(new, Len(seq) + 1) => event.kind = "velocity"
  BY <1>1 DEF Posts
<1>. HIDE DEF new
<1>5. ASSUME NEW i \in 1..Len(new), Posts(new, i)
      PROVE  /\ new[i].velocity \in Velocity
             /\ low <= new[i].velocity.id /\ new[i].velocity.id <= higher
  <2>1. CASE i \in 1..Len(seq)
    <3>1. /\ new[i].velocity \in Velocity
          /\ low <= new[i].velocity.id /\ new[i].velocity.id <= high
      BY <1>1, <1>3, <1>5, <2>1 DEF Rising
    <3>2. new[i].velocity.id \in Nat
      BY <3>1, VelocityId
    <3>. QED
      BY <3>1, <3>2
  <2>2. CASE i = Len(seq) + 1
    BY <1>1, <1>4, <1>5, <2>2
  <2>. QED
    BY <1>2, <2>1, <2>2
<1>6. ASSUME NEW i \in 1..Len(new), NEW j \in 1..Len(new), i <= j,
             Posts(new, i), Posts(new, j)
      PROVE  new[i].velocity.id <= new[j].velocity.id
  <2>1. CASE j \in 1..Len(seq)
    <3>1. i \in 1..Len(seq)
      BY <1>1, <1>6, <2>1
    <3>. QED
      BY <1>1, <1>3, <1>6, <2>1, <3>1 DEF Rising
  <2>2. CASE j = Len(seq) + 1 /\ i \in 1..Len(seq)
    <3>1. new[i].velocity \in Velocity /\ new[i].velocity.id <= high
      BY <1>1, <1>3, <1>6, <2>2 DEF Rising
    <3>2. event.velocity \in Velocity /\ high <= event.velocity.id
      BY <1>4, <1>6, <2>2
    <3>3. new[i].velocity.id \in Nat /\ event.velocity.id \in Nat
      BY <3>1, <3>2, VelocityId
    <3>. QED
      BY <1>1, <2>2, <3>1, <3>2, <3>3
  <2>3. CASE i = Len(seq) + 1 /\ j = Len(seq) + 1
    <3>1. new[i].velocity.id \in Nat
      BY <1>5, <1>6, VelocityId
    <3>. QED
      BY <2>3, <3>1
  <2>4. ~(i = Len(seq) + 1 /\ j \in 1..Len(seq))
    BY <1>1, <1>6
  <2>. QED
    BY <1>2, <2>1, <2>2, <2>3, <2>4
<1>7. Rising(new, low, higher)
  BY <1>1, <1>5, <1>6 DEF Rising
<1>. QED
  BY <1>7 DEF new

LEMMA RisingCall ==
  ASSUME NEW seq, NEW low, NEW high \in Nat, Rising(seq, low, high),
         NEW kind \in {"configure", "rate", "enable"}
  PROVE  Rising(Append(seq, Call(kind)), low, high)
BY CallTyped, RisingAppend

LEMMA RisingVelocity ==
  ASSUME NEW seq, NEW low \in Nat, NEW high \in Nat, Rising(seq, low, high),
         NEW v \in Velocity, low <= v.id, high <= v.id
  PROVE  Rising(Append(seq, [kind |-> "velocity", velocity |-> v]), low, v.id)
<1>. DEFINE event == [kind |-> "velocity", velocity |-> v]
<1>1. event \in Event /\ event.velocity = v
  BY DEF Event
<1>2. v.id \in Nat
  BY VelocityId
<1>. HIDE DEF event
<1>3. Rising(Append(seq, event), low, v.id)
  BY <1>1, <1>2, RisingAppend
<1>. QED
  BY <1>3 DEF event

LEMMA RisingStart ==
  ASSUME NEW v \in Velocity, NEW low \in Nat, low <= v.id
  PROVE  Rising(StartupEvents(v), low, v.id)
<1>1. v.id \in Nat
  BY VelocityId
<1>2. Rising(<<>>, low, v.id)
  BY DEF Rising
<1>3. CASE Manual
  <2>1. Rising(<<>>, low, low)
    BY DEF Rising
  <2>2. Rising(Append(<<>>, [kind |-> "velocity", velocity |-> v]), low, v.id)
    BY <2>1, RisingVelocity
  <2>3. Rising(Append(Append(<<>>, [kind |-> "velocity", velocity |-> v]),
                      Call("configure")), low, v.id)
    BY <1>1, <2>2, RisingCall
  <2>4. StartupEvents(v) = Append(Append(<<>>, [kind |-> "velocity", velocity |-> v]),
                                  Call("configure"))
    BY <1>3 DEF StartupEvents
  <2>. QED
    BY <2>3, <2>4
<1>4. CASE ~Manual
  <2>1. Rising(Append(<<>>, Call("configure")), low, v.id)
    BY <1>1, <1>2, RisingCall
  <2>2. StartupEvents(v) = Append(<<>>, Call("configure"))
    BY <1>4 DEF StartupEvents
  <2>. QED
    BY <2>1, <2>2
<1>. QED
  BY <1>3, <1>4

-----------------------------------------------------------------------------
(***************************************************************************)
(* What a write leaves.                                                    *)
(***************************************************************************)
LEMMA OneMoreTyped ==
  ASSUME NEW count \in 0..MaximumReopenAttempts
  PROVE  OneMore(count) \in 0..MaximumReopenAttempts
BY BridgeAssumption DEF OneMore

LEMMA ResultTyped ==
  ASSUME NEW written \in BOOLEAN, NEW open \in BOOLEAN,
         NEW count \in 0..MaximumReopenAttempts, NEW exit \in BOOLEAN,
         NEW how \in {"no", "before", "after"}
  PROVE  /\ Result(written, open, count, exit, how) \in WriteResult
         /\ Result(written, open, count, exit, how).open = open
         /\ Result(written, open, count, exit, how).reopened = how
BY DEF Result, WriteResult

LEMMA TryWriteTyped ==
  ASSUME NEW count \in 0..MaximumReopenAttempts, NEW how \in {"no", "before"},
         NEW result \in TryWrite(count, how)
  PROVE  result \in WriteResult /\ result.reopened \in {how, "after"}
<1>1. 0 \in 0..MaximumReopenAttempts /\ OneMore(count) \in 0..MaximumReopenAttempts
  BY BridgeAssumption, OneMoreTyped
<1>2. \/ result = Result(TRUE, TRUE, 0, FALSE, how)
      \/ result = Result(FALSE, TRUE, OneMore(count), FALSE, how)
      \/ result = Result(FALSE, FALSE, OneMore(count), FALSE, how)
      \/ result = Result(FALSE, TRUE, 0, FALSE, "after")
      \/ result = Result(FALSE, FALSE, OneMore(count), TRUE, how)
  BY DEF TryWrite
<1>3. ASSUME NEW written \in BOOLEAN, NEW open \in BOOLEAN,
             NEW n \in 0..MaximumReopenAttempts, NEW exit \in BOOLEAN,
             NEW when \in {how, "after"}, result = Result(written, open, n, exit, when)
      PROVE  result \in WriteResult /\ result.reopened \in {how, "after"}
  <2>1. when \in {"no", "before", "after"}
    OBVIOUS
  <2>. QED
    BY <1>3, <2>1, ResultTyped
<1>. QED
  BY <1>1, <1>2, <1>3

\* A port that is open after a write that did not reopen it was open before.
LEMMA WriteNowTyped ==
  ASSUME TypeOK, NEW result \in WriteNow
  PROVE  /\ result \in WriteResult
         /\ (result.reopened = "no" /\ result.open) => isOpen
<1>1. /\ failures \in 0..MaximumReopenAttempts
      /\ 0 \in 0..MaximumReopenAttempts
      /\ OneMore(failures) \in 0..MaximumReopenAttempts
  BY BridgeAssumption, OneMoreTyped DEF TypeOK
<1>2. CASE isOpen
  <2>1. result \in TryWrite(failures, "no")
    BY <1>2 DEF WriteNow
  <2>. QED
    BY <1>1, <1>2, <2>1, TryWriteTyped
<1>3. CASE ~isOpen
  <2>1. \/ result \in TryWrite(0, "before")
        \/ result = Result(FALSE, FALSE, OneMore(failures),
                           OneMore(failures) = MaximumReopenAttempts, "no")
    BY <1>3 DEF WriteNow
  <2>2. CASE result \in TryWrite(0, "before")
    <3>1. result \in WriteResult /\ result.reopened \in {"before", "after"}
      BY <1>1, <2>2, TryWriteTyped
    <3>. QED
      BY <3>1
  <2>3. CASE result = Result(FALSE, FALSE, OneMore(failures),
                             OneMore(failures) = MaximumReopenAttempts, "no")
    <3>1. (OneMore(failures) = MaximumReopenAttempts) \in BOOLEAN
      OBVIOUS
    <3>. QED
      BY <1>1, <2>3, <3>1, ResultTyped
  <2>. QED
    BY <2>1, <2>2, <2>3
<1>. QED
  BY <1>2, <1>3

\* A write disturbs the queue by a call to configure at most.
LEMMA AfterWriteTyped ==
  ASSUME TypeOK, NEW result \in WriteResult, NEW item \in SUBSET {"rate", "enable"},
         NEW rest, NEW low, NEW high \in Nat, Rising(rest, low, high),
         AfterWrite(result, item, rest)
  PROVE  /\ Rising(events', low, high)
         /\ failures' \in 0..MaximumReopenAttempts
         /\ configured' \subseteq {"rate", "enable"}
         /\ isOpen' \in BOOLEAN /\ exiting' \in BOOLEAN
<1>1. /\ result.open \in BOOLEAN /\ result.exit \in BOOLEAN
      /\ result.failures \in 0..MaximumReopenAttempts
      /\ result.reopened \in {"no", "before", "after"}
  BY DEF WriteResult
<1>2. configured' \subseteq {"rate", "enable"}
  BY <1>1 DEF AfterWrite, TypeOK
<1>3. events' = rest \/ events' = Append(rest, Call("configure"))
  BY DEF AfterWrite
<1>4. Rising(events', low, high)
  BY <1>3, RisingCall
<1>5. isOpen' \in BOOLEAN /\ exiting' \in BOOLEAN
  BY <1>1 DEF AfterWrite
<1>6. failures' \in 0..MaximumReopenAttempts
  BY <1>1 DEF AfterWrite
<1>. QED
  BY <1>2, <1>4, <1>5, <1>6

-----------------------------------------------------------------------------
(***************************************************************************)
(* The invariant, action by action.                                        *)
(***************************************************************************)
LEMMA Ids ==
  ASSUME TypeOK
  PROVE  /\ issued.id \in Nat /\ issued.id \in 0..MaxCommands
         /\ wheel.id \in Nat /\ wheel.stop \in BOOLEAN
BY VelocityId DEF TypeOK

LEMMA FloorTyped ==
  ASSUME IInv
  PROVE  Floor \in Nat /\ wheel.id <= Floor /\ Floor <= issued.id
<1>1. CASE flushScheduled
  <2>1. latestVelocity \in Velocity
    BY <1>1 DEF IInv, Mailbox
  <2>. QED
    BY <1>1, <2>1, VelocityId DEF IInv, Mailbox, Floor
<1>2. CASE ~flushScheduled
  BY <1>2, Ids DEF IInv, Floor
<1>. QED
  BY <1>1, <1>2

LEMMA InitInvariant ==
  ASSUME Init
  PROVE  IInv
<1>1. wheel \in Velocity /\ issued \in Velocity /\ issued.id = 0 /\ wheel.id = 0
  BY BridgeAssumption DEF Init, Velocity
<1>2. Rising(events, 0, 0)
  BY <1>1, RisingStart DEF Init
<1>3. isOpen \in BOOLEAN
  BY BridgeAssumption DEF Init, OpenResults
<1>4. failures \in 0..MaximumReopenAttempts
  BY BridgeAssumption DEF Init
<1>5. events \in Seq(Event)
  BY <1>2 DEF Rising
<1>6. TypeOK
  BY <1>1, <1>3, <1>4, <1>5 DEF Init, TypeOK
<1>. QED
  BY <1>1, <1>2, <1>6 DEF Init, IInv, Mailbox, Floor

\* A command issued: one more velocity at the end of the queue.
LEMMA IssueStep ==
  ASSUME IInv, NEW stop \in BOOLEAN, Issue(stop),
         manualActive' \in BOOLEAN, silent' \in BOOLEAN
  PROVE  IInv'
<1>1. issued.id \in Nat /\ issued.id \in 0..MaxCommands /\ Floor \in Nat
      /\ Floor <= issued.id /\ wheel.id \in Nat
  BY Ids, FloorTyped DEF IInv
<1>2. issued' = [id |-> IF issued.id < MaxCommands THEN issued.id + 1 ELSE issued.id,
                 stop |-> stop]
  BY DEF Issue
<1>3. issued' \in Velocity /\ issued'.id \in Nat /\ issued.id <= issued'.id
  BY <1>1, <1>2, BridgeAssumption DEF Velocity
<1>4. events' = Append(events, [kind |-> "velocity", velocity |-> issued'])
  BY DEF Issue
<1>5. Floor <= issued'.id
  BY <1>1, <1>3
<1>6. Rising(events', Floor, issued'.id)
  <2>. DEFINE v == issued'
  <2>1. v \in Velocity /\ Floor <= v.id /\ issued.id <= v.id
    BY <1>3, <1>5
  <2>2. Rising(events, Floor, issued.id)
    BY DEF IInv
  <2>. HIDE DEF v
  <2>3. Rising(Append(events, [kind |-> "velocity", velocity |-> v]), Floor, v.id)
    BY <1>1, <2>1, <2>2, RisingVelocity
  <2>. QED
    BY <1>4, <2>3 DEF v
<1>7. UNCHANGED <<latestVelocity, flushScheduled, wheel>> /\ UNCHANGED port
      /\ UNCHANGED <<listening, running>> /\ UNCHANGED link
  BY DEF Issue
<1>8. events' \in Seq(Event)
  BY <1>6 DEF Rising
<1>9. TypeOK'
  BY <1>3, <1>7, <1>8 DEF IInv, TypeOK, port, link
<1>10. Floor' = Floor
  BY <1>7 DEF Floor
<1>11. Mailbox'
  <2>. SUFFICES ASSUME flushScheduled
                PROVE  /\ latestVelocity \in Velocity /\ wheel.id <= latestVelocity.id
                       /\ latestVelocity.id <= issued'.id
    BY <1>7 DEF Mailbox
  <2>1. /\ latestVelocity \in Velocity /\ wheel.id <= latestVelocity.id
        /\ latestVelocity.id <= issued.id
    BY DEF IInv, Mailbox
  <2>2. latestVelocity.id \in Nat
    BY <2>1, VelocityId
  <2>. QED
    BY <1>1, <1>3, <2>1, <2>2
<1>12. wheel'.id <= issued'.id
  BY <1>1, <1>3, <1>7 DEF IInv
<1>. QED
  BY <1>6, <1>9, <1>10, <1>11, <1>12 DEF IInv

LEMMA EnqueueVelocityStep ==
  ASSUME IInv, EnqueueVelocity
  PROVE  IInv'
<1>. DEFINE v == events[1].velocity
<1>1. /\ events # <<>> /\ events \in Seq(Event) /\ Posts(events, 1)
      /\ events' = Tail(events) /\ latestVelocity' = v /\ flushScheduled'
      /\ UNCHANGED <<ros, port, running, wheel, link>>
  BY DEF EnqueueVelocity, IInv, TypeOK, Posts
<1>2. Rising(events, Floor, issued.id) /\ 1 \in 1..Len(events)
  BY <1>1 DEF IInv
<1>3. v \in Velocity /\ Floor <= v.id /\ v.id <= issued.id
  BY <1>1, <1>2 DEF Rising
<1>4. Rising(events', v.id, issued.id)
  BY <1>1, <1>2, RisingTail
<1>5. Floor \in Nat /\ wheel.id <= Floor /\ v.id \in Nat /\ wheel.id \in Nat
  BY <1>3, FloorTyped, VelocityId, Ids DEF IInv
<1>6. wheel.id <= v.id
  BY <1>3, <1>5
<1>. HIDE DEF v
<1>7. issued' = issued /\ wheel' = wheel
  BY <1>1 DEF ros
<1>8. Mailbox' /\ Floor' = v.id
  BY <1>1, <1>3, <1>6, <1>7 DEF Mailbox, Floor
<1>9. events' \in Seq(Event)
  BY <1>4 DEF Rising
<1>10. TypeOK'
  BY <1>1, <1>3, <1>9 DEF IInv, TypeOK, ros, port, link
<1>. QED
  BY <1>4, <1>7, <1>8, <1>10 DEF IInv

LEMMA FlushStep ==
  ASSUME IInv, FlushLatestVelocity
  PROVE  IInv' /\ wheel'.id >= wheel.id
<1>1. PICK result \in WriteNow :
        /\ AfterWrite(result, {}, events)
        /\ wheel' = IF result.written THEN latestVelocity ELSE wheel
  BY DEF FlushLatestVelocity
<1>2. result \in WriteResult
  BY <1>1, WriteNowTyped DEF IInv
<1>3. /\ flushScheduled /\ latestVelocity' = NoVelocity /\ flushScheduled' = FALSE
      /\ UNCHANGED <<ros, running, linkUp>>
  BY DEF FlushLatestVelocity
<1>4. /\ latestVelocity \in Velocity /\ wheel.id <= latestVelocity.id
      /\ latestVelocity.id <= issued.id /\ Floor = latestVelocity.id
  BY <1>3 DEF IInv, Mailbox, Floor
<1>5. latestVelocity.id \in Nat /\ wheel.id \in Nat /\ issued.id \in Nat /\ wheel \in Velocity
  BY <1>4, VelocityId, Ids DEF IInv, TypeOK
<1>6. /\ wheel' \in Velocity /\ wheel'.id \in Nat
      /\ wheel.id <= wheel'.id /\ wheel'.id <= latestVelocity.id
  BY <1>1, <1>4, <1>5
<1>7. Rising(events, latestVelocity.id, issued.id)
  BY <1>4 DEF IInv
<1>8. Rising(events, wheel'.id, issued.id)
  BY <1>5, <1>6, <1>7, RisingLower
<1>9. /\ Rising(events', wheel'.id, issued.id)
      /\ failures' \in 0..MaximumReopenAttempts
      /\ configured' \subseteq {"rate", "enable"}
      /\ isOpen' \in BOOLEAN /\ exiting' \in BOOLEAN
  BY <1>1, <1>2, <1>5, <1>8, AfterWriteTyped DEF IInv
<1>10. events' \in Seq(Event)
  BY <1>9 DEF Rising
<1>11. issued' = issued /\ ~flushScheduled'
  BY <1>3 DEF ros
<1>12. TypeOK'
  BY <1>3, <1>6, <1>9, <1>10 DEF IInv, TypeOK, ros
<1>13. Mailbox' /\ Floor' = wheel'.id
  BY <1>11 DEF Mailbox, Floor
<1>14. wheel'.id <= issued.id
  BY <1>4, <1>5, <1>6
<1>. QED
  BY <1>5, <1>6, <1>9, <1>11, <1>12, <1>13, <1>14 DEF IInv

LEMMA ConfigureStep ==
  ASSUME IInv, ConfigureImuStream
  PROVE  IInv'
<1>1. /\ events # <<>> /\ UNCHANGED <<ros, latestVelocity, flushScheduled, port, running,
                                      wheel, link>>
      /\ events' = Tail(events) \o (IF EnableImuStream THEN <<Call("rate"), Call("enable")>>
                                    ELSE <<>>)
  BY DEF ConfigureImuStream
<1>2. Rising(Tail(events), Floor, issued.id) /\ issued.id \in Nat
  BY <1>1, RisingTail, Ids DEF IInv
<1>3. Tail(events) \in Seq(Event)
  BY <1>2 DEF Rising
<1>4. Rising(Append(Append(Tail(events), Call("rate")), Call("enable")), Floor, issued.id)
  <2>1. Rising(Append(Tail(events), Call("rate")), Floor, issued.id)
    BY <1>2, RisingCall
  <2>. QED
    BY <1>2, <2>1, RisingCall
<1>5. events' \in {Tail(events), Append(Append(Tail(events), Call("rate")), Call("enable"))}
  <2>1. Call("rate") \in Event /\ Call("enable") \in Event
    BY CallTyped
  <2>2. Tail(events) \o <<Call("rate"), Call("enable")>>
          = Append(Append(Tail(events), Call("rate")), Call("enable"))
    BY <1>3, <2>1
  <2>3. Tail(events) \o <<>> = Tail(events)
    BY <1>3
  <2>. QED
    BY <1>1, <2>2, <2>3
<1>6. Rising(events', Floor, issued.id)
  BY <1>2, <1>4, <1>5
<1>7. events' \in Seq(Event)
  BY <1>6 DEF Rising
<1>8. issued' = issued /\ Floor' = Floor /\ Mailbox'
  BY <1>1 DEF ros, Floor, Mailbox, IInv
<1>9. TypeOK'
  BY <1>1, <1>7 DEF IInv, TypeOK, ros, port, link
<1>. QED
  BY <1>1, <1>6, <1>8, <1>9 DEF IInv

LEMMA OrderedStep ==
  ASSUME IInv, EnqueueOrdered
  PROVE  IInv'
<1>1. PICK result \in WriteNow : AfterWrite(result, {Head(events).kind}, Tail(events))
  BY DEF EnqueueOrdered
<1>2. result \in WriteResult
  BY <1>1, WriteNowTyped DEF IInv
<1>3. /\ events # <<>> /\ Head(events).kind \in {"rate", "enable"}
      /\ UNCHANGED <<ros, latestVelocity, flushScheduled, running, wheel, linkUp>>
  BY DEF EnqueueOrdered
<1>4. Rising(Tail(events), Floor, issued.id) /\ issued.id \in Nat
  BY <1>3, RisingTail, Ids DEF IInv
<1>5. {Head(events).kind} \in SUBSET {"rate", "enable"}
  BY <1>3
<1>6. /\ Rising(events', Floor, issued.id)
      /\ failures' \in 0..MaximumReopenAttempts
      /\ configured' \subseteq {"rate", "enable"}
      /\ isOpen' \in BOOLEAN /\ exiting' \in BOOLEAN
  BY <1>1, <1>2, <1>4, <1>5, AfterWriteTyped DEF IInv
<1>7. events' \in Seq(Event)
  BY <1>6 DEF Rising
<1>8. issued' = issued /\ Floor' = Floor /\ Mailbox'
  BY <1>3 DEF ros, Floor, Mailbox, IInv
<1>9. TypeOK'
  BY <1>3, <1>6, <1>7 DEF IInv, TypeOK, ros
<1>. QED
  BY <1>3, <1>6, <1>8, <1>9 DEF IInv

LEMMA TerminateStep ==
  ASSUME IInv, Terminate
  PROVE  IInv' /\ wheel'.id = wheel.id
<1>1. /\ running' = FALSE /\ UNCHANGED <<ros, latestVelocity, flushScheduled, linkUp>>
  BY DEF Terminate
<1>2. wheel \in Velocity /\ issued.id \in Nat /\ Rising(events, Floor, issued.id)
  BY Ids DEF IInv, TypeOK
<1>3. CASE controlMode = "fixed_wing"
  <2>1. UNCHANGED <<port, wheel, events, troubles>>
    BY <1>3 DEF Terminate
  <2>2. TypeOK'
    BY <1>1, <2>1 DEF IInv, TypeOK, ros, port
  <2>3. Floor' = Floor /\ Mailbox' /\ issued' = issued
    BY <1>1, <2>1 DEF ros, Floor, Mailbox, IInv
  <2>. QED
    BY <1>2, <2>1, <2>2, <2>3 DEF IInv
<1>4. CASE controlMode # "fixed_wing"
  <2>1. PICK result \in WriteNow :
          /\ AfterWrite(result, {}, events)
          /\ wheel' = IF result.written THEN Stopped(wheel) ELSE wheel
    BY <1>4 DEF Terminate
  <2>2. result \in WriteResult
    BY <2>1, WriteNowTyped DEF IInv
  <2>3. wheel' \in Velocity /\ wheel'.id = wheel.id
    BY <1>2, <2>1 DEF Stopped, Velocity
  <2>4. /\ Rising(events', Floor, issued.id)
        /\ failures' \in 0..MaximumReopenAttempts
        /\ configured' \subseteq {"rate", "enable"}
        /\ isOpen' \in BOOLEAN /\ exiting' \in BOOLEAN
    BY <1>2, <2>1, <2>2, AfterWriteTyped DEF IInv
  <2>5. events' \in Seq(Event)
    BY <2>4 DEF Rising
  <2>6. TypeOK'
    BY <1>1, <2>3, <2>4, <2>5 DEF IInv, TypeOK, ros
  <2>7. Floor' = Floor /\ Mailbox' /\ issued' = issued
    BY <1>1, <2>3 DEF ros, Floor, Mailbox, IInv
  <2>. QED
    BY <2>3, <2>4, <2>6, <2>7 DEF IInv
<1>. QED
  BY <1>3, <1>4

LEMMA RestartStep ==
  ASSUME IInv, Restart
  PROVE  IInv'
<1>1. wheel.id \in Nat /\ issued \in Velocity /\ issued.id \in Nat /\ wheel.id <= issued.id
  BY Ids DEF IInv, TypeOK
<1>2. Stopped(issued) \in Velocity /\ Stopped(issued).id = issued.id
  BY <1>1 DEF Stopped, Velocity
<1>3. issued' \in Velocity /\ issued'.id = issued.id
  BY <1>1, <1>2 DEF Restart
<1>4. Rising(StartupEvents(Stopped(issued)), wheel.id, issued.id)
  BY <1>1, <1>2, RisingStart
<1>5. Rising(events', wheel.id, issued.id) /\ ~flushScheduled' /\ wheel' = wheel
  BY <1>4 DEF Restart
<1>6. isOpen' \in BOOLEAN
  BY BridgeAssumption DEF Restart, OpenResults
<1>7. failures' \in 0..MaximumReopenAttempts
  BY BridgeAssumption DEF Restart
<1>8. events' \in Seq(Event)
  BY <1>5 DEF Rising
<1>9. TypeOK'
  BY <1>3, <1>6, <1>7, <1>8 DEF Restart, IInv, TypeOK, link
<1>10. Mailbox' /\ Floor' = wheel.id
  BY <1>5 DEF Mailbox, Floor
<1>. QED
  BY <1>1, <1>3, <1>5, <1>9, <1>10 DEF IInv

\* Steps that touch neither the queue nor a velocity.
LEMMA AsideStep ==
  ASSUME IInv, UNCHANGED <<qt, port, wheel, issued>>,
         {listening', manualActive', silent', running', linkUp'} \subseteq BOOLEAN
  PROVE  IInv'
<1>1. UNCHANGED <<events, latestVelocity, flushScheduled, wheel, issued>>
  BY DEF qt
<1>2. TypeOK'
  BY <1>1 DEF IInv, TypeOK, port
<1>. QED
  BY <1>1, <1>2 DEF IInv, Floor, Mailbox, Rising, Posts

-----------------------------------------------------------------------------
LEMMA Booleans ==
  ASSUME TypeOK
  PROVE  {listening, manualActive, silent, flushScheduled, isOpen, exiting, running,
          linkUp} \subseteq BOOLEAN
BY DEF TypeOK

LEMMA Step ==
  ASSUME IInv, [Next]_vars
  PROVE  IInv' /\ wheel'.id >= wheel.id
<1>. USE DEF IInv
<1>1. wheel.id \in Nat
  BY Ids
<1>2. CASE UNCHANGED vars
  <2>1. UNCHANGED <<qt, port, wheel, issued>>
        /\ UNCHANGED <<listening, manualActive, silent, running, linkUp>>
    BY <1>2 DEF vars, ros, link
  <2>2. IInv'
    BY <2>1, Booleans, AsideStep
  <2>. QED
    BY <1>1, <2>1, <2>2
<1>3. ASSUME NEW stop \in BOOLEAN, SendCmdVel(stop)
      PROVE  IInv' /\ wheel'.id >= wheel.id
  <2>1. Issue(stop) /\ manualActive' = manualActive /\ silent' = silent
    BY <1>3 DEF SendCmdVel
  <2>2. wheel' = wheel
    BY <2>1 DEF Issue
  <2>. QED
    BY <1>1, <2>1, <2>2, Booleans, IssueStep
<1>4. ASSUME NEW valid \in BOOLEAN, NEW stop \in BOOLEAN,
             SendManualLeftRightCommand(valid, stop)
      PROVE  IInv' /\ wheel'.id >= wheel.id
  <2>1. Issue(stop) /\ manualActive' = valid
        /\ silent' = IF valid THEN FALSE ELSE silent
    BY <1>4 DEF SendManualLeftRightCommand
  <2>2. wheel' = wheel
    BY <2>1 DEF Issue
  <2>3. manualActive' \in BOOLEAN /\ silent' \in BOOLEAN
    BY <2>1, Booleans
  <2>4. IInv'
    BY <2>1, <2>3, IssueStep
  <2>. QED
    BY <1>1, <2>2, <2>4
<1>5. CASE CheckManualCommandTimeout
  <2>1. Issue(TRUE) /\ manualActive' = FALSE /\ silent' = silent
    BY <1>5 DEF CheckManualCommandTimeout
  <2>2. wheel' = wheel
    BY <2>1 DEF Issue
  <2>3. TRUE \in BOOLEAN /\ manualActive' \in BOOLEAN /\ silent' \in BOOLEAN
    BY <2>1, Booleans
  <2>4. IInv'
    BY <2>1, <2>3, IssueStep
  <2>. QED
    BY <1>1, <2>2, <2>4
<1>6. CASE CommandsStop \/ TerminationSignal
  <2>1. /\ UNCHANGED <<qt, port, wheel, issued, manualActive, running, linkUp>>
        /\ silent' \in {silent, TRUE} /\ listening' \in {listening, FALSE}
    BY <1>6 DEF CommandsStop, TerminationSignal, link
  <2>2. IInv'
    BY <2>1, Booleans, AsideStep
  <2>. QED
    BY <1>1, <2>1, <2>2
<1>7. CASE Kill
  <2>1. /\ UNCHANGED <<qt, port, wheel, issued, manualActive, silent, listening, linkUp>>
        /\ running' = FALSE
    BY <1>7 DEF Kill, ros, link
  <2>2. IInv'
    BY <2>1, Booleans, AsideStep
  <2>. QED
    BY <1>1, <2>1, <2>2
<1>8. CASE LinkFails \/ LinkRecovers
  <2>1. /\ UNCHANGED <<qt, port, wheel, issued, manualActive, silent, listening, running>>
        /\ linkUp' \in BOOLEAN
    BY <1>8 DEF LinkFails, LinkRecovers, ros
  <2>2. IInv'
    BY <2>1, Booleans, AsideStep
  <2>. QED
    BY <1>1, <2>1, <2>2
<1>9. CASE EnqueueVelocity
  BY <1>1, <1>9, EnqueueVelocityStep DEF EnqueueVelocity
<1>10. CASE ConfigureImuStream
  BY <1>1, <1>10, ConfigureStep DEF ConfigureImuStream
<1>11. CASE EnqueueOrdered
  <2>1. wheel' = wheel
    BY <1>11 DEF EnqueueOrdered
  <2>. QED
    BY <1>1, <1>11, <2>1, OrderedStep
<1>12. CASE FlushLatestVelocity
  BY <1>12, FlushStep
<1>13. CASE Terminate
  BY <1>1, <1>13, TerminateStep
<1>14. CASE Restart
  <2>1. wheel' = wheel
    BY <1>14 DEF Restart
  <2>. QED
    BY <1>1, <1>14, <2>1, RestartStep
<1>. QED
  BY <1>2, <1>3, <1>4, <1>5, <1>6, <1>7, <1>8, <1>9, <1>10, <1>11, <1>12, <1>13, <1>14
  DEF Next, Command, EventLoop

\* IInv is inductive: it holds in every state of the bridge.
THEOREM Invariance == Spec => []IInv
<1>1. Init => IInv
  BY InitInvariant
<1>2. IInv /\ [Next]_vars => IInv'
  BY Step
<1>. QED
  BY <1>1, <1>2, PTL DEF Spec

\* Mailbox, queue, port and history keep their types, and the failure count its
\* limit, however often the port is reopened.
THEOREM TypeCorrect == Spec => []TypeOK
<1>1. IInv => TypeOK
  BY DEF IInv
<1>. QED
  BY <1>1, Invariance, PTL

\* Through the queue, the mailbox and a port that fails, reopens or restarts the
\* process, no older velocity reaches the wheels after a newer one.
THEOREM NeverBack == Spec => VelocityNeverGoesBack
<1>1. IInv /\ [Next]_vars => [wheel'.id >= wheel.id]_vars
  BY Step
<1>. QED
  BY <1>1, Invariance, PTL DEF Spec, VelocityNeverGoesBack

-----------------------------------------------------------------------------
(***************************************************************************)
(* The configuration of the IMU stream.                                    *)
(***************************************************************************)
Awaited(seq, command) ==
  \E i \in 1..Len(seq) : seq[i].kind \in {command, "configure"}

LEMMA AwaitedAppend ==
  ASSUME NEW seq \in Seq(Event), NEW event, NEW command,
         Awaited(seq, command) \/ event.kind \in {command, "configure"}
  PROVE  Awaited(Append(seq, event), command)
<1>. DEFINE new == Append(seq, event)
<1>1. /\ Len(seq) \in Nat /\ Len(new) = Len(seq) + 1
      /\ \A i \in 1..Len(seq) : new[i] = seq[i]
      /\ new[Len(seq) + 1] = event
  OBVIOUS
<1>. HIDE DEF new
<1>2. 1..Len(seq) \subseteq 1..Len(new) /\ Len(seq) + 1 \in 1..Len(new)
  BY <1>1
<1>3. Awaited(new, command)
  BY <1>1, <1>2 DEF Awaited
<1>. QED
  BY <1>3 DEF new

LEMMA AwaitedTail ==
  ASSUME NEW seq \in Seq(Event), seq # <<>>, NEW command,
         Awaited(seq, command), Head(seq).kind \notin {command, "configure"}
  PROVE  Awaited(Tail(seq), command)
<1>1. PICK i \in 1..Len(seq) : seq[i].kind \in {command, "configure"}
  BY DEF Awaited
<1>2. i # 1
  BY <1>1
<1>3. i - 1 \in 1..Len(Tail(seq)) /\ Tail(seq)[i - 1] = seq[i]
  BY <1>2
<1>. QED
  BY <1>1, <1>3 DEF Awaited

LEMMA AfterWriteConfigured ==
  ASSUME TypeOK, NEW result \in WriteNow, NEW item, NEW rest \in Seq(Event),
         AfterWrite(result, item, rest),
         NEW command \in {"rate", "enable"},
         isOpen => (command \in configured \cup item \/ Awaited(rest, command)),
         isOpen'
  PROVE  command \in configured' \/ Awaited(events', command)
<1>1. result \in WriteResult /\ ((result.reopened = "no" /\ result.open) => isOpen)
  BY WriteNowTyped
<1>2. result.open
  BY DEF AfterWrite
<1>3. CASE result.reopened = "no"
  <2>1. isOpen /\ configured' = configured \cup item /\ events' = rest
    BY <1>1, <1>2, <1>3 DEF AfterWrite
  <2>. QED
    BY <2>1
<1>4. CASE result.reopened # "no"
  <2>1. events' = Append(rest, Call("configure"))
    BY <1>4 DEF AfterWrite
  <2>2. Call("configure").kind \in {command, "configure"}
    BY CallTyped
  <2>. QED
    BY <2>1, <2>2, AwaitedAppend
<1>. QED
  BY <1>3, <1>4

LEMMA ConfiguredStep ==
  ASSUME IInv, OpenPortGetsConfigured, [Next]_vars
  PROVE  OpenPortGetsConfigured'
<1>. SUFFICES ASSUME running', isOpen', EnableImuStream, NEW command \in {"rate", "enable"}
              PROVE  command \in configured' \/ Awaited(events', command)
  BY DEF OpenPortGetsConfigured, Awaited
<1>1. TypeOK /\ events \in Seq(Event)
  BY DEF IInv, TypeOK
<1>2. running /\ isOpen => (command \in configured \/ Awaited(events, command))
  BY DEF OpenPortGetsConfigured, Awaited
<1>3. CASE UNCHANGED <<port, running, events>>
  BY <1>2, <1>3 DEF port
<1>4. ASSUME NEW stop \in BOOLEAN, Issue(stop)
      PROVE  command \in configured' \/ Awaited(events', command)
  <2>1. /\ UNCHANGED <<port, running>>
        /\ events' = Append(events, [kind |-> "velocity", velocity |-> issued'])
    BY <1>4 DEF Issue
  <2>2. Awaited(events, command) => Awaited(events', command)
    BY <1>1, <2>1, AwaitedAppend
  <2>. QED
    BY <1>2, <2>1, <2>2 DEF port
<1>5. CASE EnqueueVelocity
  <2>1. /\ events # <<>> /\ events' = Tail(events) /\ UNCHANGED <<port, running>>
        /\ Head(events).kind \notin {command, "configure"}
    BY <1>5 DEF EnqueueVelocity
  <2>2. Awaited(events, command) => Awaited(events', command)
    BY <1>1, <2>1, AwaitedTail
  <2>. QED
    BY <1>2, <2>1, <2>2 DEF port
<1>6. CASE ConfigureImuStream
  <2>1. events # <<>> /\ events' = Tail(events) \o <<Call("rate"), Call("enable")>>
    BY <1>6 DEF ConfigureImuStream
  <2>2. Call("rate") \in Event /\ Call("enable") \in Event /\ Tail(events) \in Seq(Event)
    BY <1>1, <2>1, CallTyped
  <2>3. events' = Append(Append(Tail(events), Call("rate")), Call("enable"))
    BY <2>1, <2>2
  <2>4. Call("rate").kind = "rate" /\ Call("enable").kind = "enable"
    BY CallTyped
  <2>5. Append(Tail(events), Call("rate")) \in Seq(Event)
    BY <2>2
  <2>6. CASE command = "rate"
    <3>1. Awaited(Append(Tail(events), Call("rate")), command)
      BY <2>2, <2>4, <2>6, AwaitedAppend
    <3>. QED
      BY <2>3, <2>5, <3>1, AwaitedAppend
  <2>7. CASE command = "enable"
    BY <2>3, <2>4, <2>5, <2>7, AwaitedAppend
  <2>. QED
    BY <2>6, <2>7
<1>7. CASE EnqueueOrdered
  <2>1. PICK result \in WriteNow : AfterWrite(result, {Head(events).kind}, Tail(events))
    BY <1>7 DEF EnqueueOrdered
  <2>2. running /\ events # <<>> /\ Head(events).kind \in {"rate", "enable"}
    BY <1>7 DEF EnqueueOrdered
  <2>3. Tail(events) \in Seq(Event)
    BY <1>1, <2>2
  <2>4. isOpen => (command \in configured \cup {Head(events).kind}
                     \/ Awaited(Tail(events), command))
    <3>1. CASE Head(events).kind = command
      BY <3>1
    <3>2. CASE Head(events).kind # command
      <4>1. Head(events).kind \notin {command, "configure"}
        BY <2>2, <3>2
      <4>. QED
        BY <1>1, <1>2, <2>2, <4>1, AwaitedTail
    <3>. QED
      BY <3>1, <3>2
  <2>. QED
    BY <1>1, <2>1, <2>3, <2>4, AfterWriteConfigured
<1>8. CASE FlushLatestVelocity
  <2>1. running /\ \E result \in WriteNow : AfterWrite(result, {}, events)
    BY <1>8 DEF FlushLatestVelocity
  <2>2. isOpen => (command \in configured \cup {} \/ Awaited(events, command))
    BY <1>2, <2>1
  <2>. QED
    BY <1>1, <2>1, <2>2, AfterWriteConfigured
<1>9. ~Terminate /\ ~Kill
  BY DEF Terminate, Kill
<1>10. CASE Restart
  <2>1. events' = StartupEvents(Stopped(issued))
    BY <1>10 DEF Restart
  <2>2. Stopped(issued) \in Velocity
    BY <1>1 DEF TypeOK, Stopped, Velocity
  <2>3. Call("configure").kind = "configure" /\ Call("configure") \in Event
    BY CallTyped
  <2>4. CASE Manual
    <3>1. events' = Append(<<[kind |-> "velocity", velocity |-> Stopped(issued)]>>,
                           Call("configure"))
      BY <2>1, <2>4 DEF StartupEvents
    <3>2. <<[kind |-> "velocity", velocity |-> Stopped(issued)]>> \in Seq(Event)
      BY <2>2 DEF Event
    <3>. QED
      BY <2>3, <3>1, <3>2, AwaitedAppend
  <2>5. CASE ~Manual
    <3>1. events' = Append(<<>>, Call("configure")) /\ <<>> \in Seq(Event)
      BY <2>1, <2>5 DEF StartupEvents
    <3>. QED
      BY <2>3, <3>1, AwaitedAppend
  <2>. QED
    BY <2>4, <2>5
<1>11. CASE CommandsStop \/ TerminationSignal
  <2>1. UNCHANGED <<port, running, events>>
    BY <1>11 DEF CommandsStop, TerminationSignal, qt
  <2>. QED
    BY <1>3, <2>1
<1>12. CASE LinkFails \/ LinkRecovers
  <2>1. UNCHANGED <<port, running, events>>
    BY <1>12 DEF LinkFails, LinkRecovers, qt
  <2>. QED
    BY <1>3, <2>1
<1>13. CASE UNCHANGED vars
  <2>1. UNCHANGED <<port, running, events>>
    BY <1>13 DEF vars, qt
  <2>. QED
    BY <1>3, <2>1
<1>14. CASE \/ Command
            \/ \E valid, stop \in BOOLEAN : SendManualLeftRightCommand(valid, stop)
            \/ CheckManualCommandTimeout
  <2>1. \E stop \in BOOLEAN : Issue(stop)
    BY <1>14 DEF Command, SendCmdVel, SendManualLeftRightCommand, CheckManualCommandTimeout
  <2>. QED
    BY <1>4, <2>1
<1>. QED
  BY <1>5, <1>6, <1>7, <1>8, <1>9, <1>10, <1>11, <1>12, <1>13, <1>14 DEF Next, EventLoop

\* Whichever write reopens the port, and however that write ends, an open port
\* has been sent its IMU configuration or the calls that send it are queued.
THEOREM PortConfigured == Spec => []OpenPortGetsConfigured
<1>1. Init => OpenPortGetsConfigured
  <2>. SUFFICES ASSUME Init, NEW command \in {"rate", "enable"}
                PROVE  Awaited(events, command)
    BY DEF OpenPortGetsConfigured, Awaited
  <2>1. issued \in Velocity
    BY BridgeAssumption DEF Init, Velocity
  <2>2. Call("configure").kind = "configure" /\ Call("configure") \in Event
    BY CallTyped
  <2>3. CASE Manual
    <3>1. events = Append(<<[kind |-> "velocity", velocity |-> issued]>>, Call("configure"))
      BY <2>3 DEF Init, StartupEvents
    <3>2. <<[kind |-> "velocity", velocity |-> issued]>> \in Seq(Event)
      BY <2>1 DEF Event
    <3>. QED
      BY <2>2, <3>1, <3>2, AwaitedAppend
  <2>4. CASE ~Manual
    <3>1. events = Append(<<>>, Call("configure")) /\ <<>> \in Seq(Event)
      BY <2>4 DEF Init, StartupEvents
    <3>. QED
      BY <2>2, <3>1, AwaitedAppend
  <2>. QED
    BY <2>3, <2>4
<1>2. IInv /\ OpenPortGetsConfigured /\ [Next]_vars => OpenPortGetsConfigured'
  BY ConfiguredStep
<1>. QED
  BY <1>1, <1>2, Invariance, PTL DEF Spec
=============================================================================
