----------------------------- MODULE UartBridge -----------------------------
(***************************************************************************)
(* The ROS 2 to UART bridge (ros2waverover): the ROS executor thread turns *)
(* command messages into velocities and posts them to the Qt thread that   *)
(* owns the serial port.  There, velocities go through a latest-command    *)
(* mailbox emptied by a scheduled flush, configuration commands are        *)
(* written in order, and a failing port is reopened or ends the process.   *)
(*                                                                         *)
(* A velocity is its position in the order of issue and whether it stops   *)
(* the wheels; the mapping of a Twist to wheel speeds and the parsing of   *)
(* IMU lines are left out.  The serial link either accepts writes or fails *)
(* them in one of the ways of FailureOutcomes.                             *)
(***************************************************************************)
EXTENDS Naturals, Sequences

CONSTANTS
  ControlModes,           \* values the parameter control_mode may have
  EnableImuStream,        \* _enableImuStream
  MaximumReopenAttempts,  \* _maximumReopenAttempts
  FailureOutcomes,        \* how a write to a failed link ends: "error" (write
                          \* returns a negative count), "timeout"
  Reopenable,             \* the port of a failed link may still be opened
  NoVelocity,
  MaxCommands,            \* bound on distinct velocities (the last repeats)
  MaxEvents,              \* bound on the Qt event queue
  MaxTroubles             \* bound on link failures and, with the IMU stream,
                          \* on reopenings of the port of a failed link

ASSUME BridgeAssumption ==
  /\ ControlModes \subseteq {"twist", "fixed_wing", "manual_lr"}
  /\ FailureOutcomes \subseteq {"error", "timeout"} /\ FailureOutcomes # {}
  /\ {EnableImuStream, Reopenable} \subseteq BOOLEAN
  /\ MaximumReopenAttempts \in Nat \ {0, 1}
  /\ {MaxCommands, MaxEvents, MaxTroubles} \subseteq Nat

VARIABLES
  controlMode,      \* _controlMode, read once
  listening,        \* the ROS executor spins
  manualActive,     \* _manualCommandActive
  silent,           \* manual_lr_timeout_sec has passed since the last command
  events,           \* queued slot calls of the Qt thread
  latestVelocity,   \* _latestVelocity
  flushScheduled,   \* _velocityFlushScheduled
  isOpen,           \* _serial.isOpen()
  failures,         \* _consecutiveFailures, up to MaximumReopenAttempts
  exiting,          \* QCoreApplication::exit was called
  running,          \* the process exists
  configured,       \* history: configuration tried since the port was opened
  issued,           \* history: the last velocity issued
  wheel,            \* what the rover executes
  linkUp, troubles  \* the serial link accepts writes; bound counter

ros == <<controlMode, listening, manualActive, silent, issued>>
qt == <<events, latestVelocity, flushScheduled>>
port == <<isOpen, failures, exiting, configured>>
link == <<linkUp, troubles>>
vars == <<ros, qt, port, running, wheel, link>>

Manual == controlMode = "manual_lr"
Velocity == [id : 0..MaxCommands, stop : BOOLEAN]
Event == [kind : {"velocity", "configure", "rate", "enable"},
          velocity : Velocity \cup {NoVelocity}]
Call(kind) == [kind |-> kind, velocity |-> NoVelocity]

\* The slot calls the constructor posts: in manual mode zero wheel speeds, then
\* the configuration of the IMU stream.
StartupEvents(first) ==
  (IF Manual THEN <<[kind |-> "velocity", velocity |-> first]>> ELSE <<>>)
    \o <<Call("configure")>>

\* What an attempt to open the port may yield.  Every reopening posts two writes
\* of the IMU configuration, so that reopening a failed link has no end of its own.
OpenResults ==
  IF linkUp THEN {TRUE}
  ELSE {FALSE, Reopenable /\ (EnableImuStream => troubles < MaxTroubles)}

Stopped(velocity) == [velocity EXCEPT !.stop = TRUE]

Init ==
  /\ controlMode \in ControlModes
  /\ wheel = [id |-> 0, stop |-> TRUE]
  /\ issued = wheel
  /\ linkUp = TRUE
  /\ troubles = 0
  /\ listening = TRUE
  /\ manualActive = FALSE
  /\ silent = TRUE
  /\ events = StartupEvents(issued)
  /\ latestVelocity = NoVelocity
  /\ flushScheduled = FALSE
  /\ isOpen \in OpenResults
  /\ failures = 0
  /\ exiting = FALSE
  /\ running = TRUE
  /\ configured = {}

-----------------------------------------------------------------------------
(***************************************************************************)
(* The ROS executor thread.                                                *)
(***************************************************************************)
\* SendLeftRightVelocityCommand: the signal is queued to the Qt thread.
Issue(stop) ==
  /\ Len(events) < MaxEvents                                  \* bound
  /\ issued' = [id |-> IF issued.id < MaxCommands THEN issued.id + 1 ELSE issued.id,
                stop |-> stop]
  /\ issued.id = MaxCommands => (stop \/ ~issued.stop)       \* the last one repeats
  /\ events' = Append(events, [kind |-> "velocity", velocity |-> issued'])
  /\ UNCHANGED <<controlMode, listening, latestVelocity, flushScheduled, port, running,
                 wheel, link>>

\* SendCmdVel in the twist and fixed_wing modes.
SendCmdVel(stop) ==
  /\ running /\ listening /\ ~Manual
  /\ Issue(stop)
  /\ UNCHANGED <<manualActive, silent>>

\* SendManualLeftRightCommand: a malformed message zeroes the wheels.
SendManualLeftRightCommand(valid, stop) ==
  /\ running /\ listening /\ Manual
  /\ ~valid => stop
  /\ Issue(stop)
  /\ manualActive' = valid
  /\ silent' = IF valid THEN FALSE ELSE silent

CheckManualCommandTimeout ==
  /\ running /\ listening /\ Manual
  /\ manualActive /\ silent
  /\ Issue(TRUE)
  /\ manualActive' = FALSE
  /\ UNCHANGED silent

CommandsStop ==
  /\ running /\ ~silent
  /\ silent' = TRUE
  /\ UNCHANGED <<controlMode, listening, manualActive, issued, qt, port, running, wheel, link>>

-----------------------------------------------------------------------------
(***************************************************************************)
(* Writing to the port.  A result says whether the bytes went out, what    *)
(* became of the port and of the failure count, whether the process is     *)
(* told to exit, and when the port was reopened (which signals Reopened):  *)
(* "before" the write, "after" it, or "no".                                *)
(***************************************************************************)
Outcomes == IF linkUp THEN {"written"} ELSE FailureOutcomes

OneMore(count) == IF count < MaximumReopenAttempts THEN count + 1 ELSE count

Result(written, open, count, exit, reopened) ==
  [written |-> written, open |-> open, failures |-> count, exit |-> exit,
   reopened |-> reopened]

\* writeNow on an open port.
TryWrite(count, reopened) ==
  {Result(TRUE, TRUE, 0, FALSE, reopened) : o \in Outcomes \cap {"written"}}
  \cup {Result(FALSE, TRUE, OneMore(count), FALSE, reopened) :
          o \in Outcomes \cap {"error"}}
  \cup UNION {IF OneMore(count) < MaximumReopenAttempts
              THEN {Result(FALSE, FALSE, OneMore(count), FALSE, reopened)}
              ELSE {IF again THEN Result(FALSE, TRUE, 0, FALSE, "after")
                             ELSE Result(FALSE, FALSE, OneMore(count), TRUE, reopened) :
                      again \in OpenResults} :
                o \in Outcomes \cap {"timeout"}}

\* Slip: a port that cannot be reopened is reported, but does not end the bridge.
WriteNowWithoutExit ==
  IF isOpen
  THEN TryWrite(failures, "no")
  ELSE UNION {IF again THEN TryWrite(0, "before")
              ELSE {Result(FALSE, FALSE, OneMore(failures), FALSE, "no")} :
                again \in OpenResults}

\* writeNow: a closed port is reopened first, or the write fails.
WriteNow ==
  IF isOpen
  THEN TryWrite(failures, "no")
  ELSE UNION {IF again THEN TryWrite(0, "before")
              ELSE {Result(FALSE, FALSE, OneMore(failures),
                           OneMore(failures) = MaximumReopenAttempts, "no")} :
                again \in OpenResults}

\* Slip: only a reopening after a timeout signals Reopened.
AfterWriteUnannounced(result, item, rest) ==
  /\ isOpen' = result.open
  /\ failures' = result.failures
  /\ exiting' = (exiting \/ result.exit)
  /\ configured' = IF result.reopened = "no" THEN configured \cup item ELSE {}
  /\ events' = IF result.reopened = "after" THEN Append(rest, Call("configure")) ELSE rest
  /\ UNCHANGED troubles

\* The port after a write, and the events left; Reopened queues ConfigureImuStream.
AfterWrite(result, item, rest) ==
  /\ isOpen' = result.open
  /\ failures' = result.failures
  /\ exiting' = (exiting \/ result.exit)
  /\ configured' = CASE result.reopened = "no"     -> configured \cup item
                      [] result.reopened = "before" -> item
                      [] result.reopened = "after"  -> {}
  /\ events' = IF result.reopened = "no" THEN rest ELSE Append(rest, Call("configure"))
  /\ troubles' = IF result.reopened # "no" /\ ~linkUp /\ EnableImuStream
                 THEN troubles + 1 ELSE troubles

-----------------------------------------------------------------------------
(***************************************************************************)
(* The Qt thread.                                                          *)
(***************************************************************************)
\* Slip: a velocity that finds the flush scheduled leaves the mailbox alone.
EnqueueVelocityOnce ==
  /\ running /\ events # <<>> /\ Head(events).kind = "velocity"
  /\ events' = Tail(events)
  /\ latestVelocity' = IF flushScheduled THEN latestVelocity ELSE Head(events).velocity
  /\ flushScheduled' = TRUE
  /\ UNCHANGED <<ros, port, running, wheel, link>>

EnqueueVelocity ==
  /\ running /\ events # <<>> /\ Head(events).kind = "velocity"
  /\ events' = Tail(events)
  /\ latestVelocity' = Head(events).velocity
  /\ flushScheduled' = TRUE
  /\ UNCHANGED <<ros, port, running, wheel, link>>

\* Slip: a velocity the port refused is posted again.
FlushRetrying ==
  /\ running /\ flushScheduled
  /\ latestVelocity' = NoVelocity
  /\ flushScheduled' = FALSE
  /\ \E result \in WriteNow :
       /\ AfterWrite(result, {},
            IF result.written \/ Len(events) >= MaxEvents THEN events
            ELSE Append(events, [kind |-> "velocity", velocity |-> latestVelocity]))
       /\ wheel' = IF result.written THEN latestVelocity ELSE wheel
  /\ UNCHANGED <<ros, running, linkUp>>

FlushLatestVelocity ==
  /\ running /\ flushScheduled
  /\ latestVelocity' = NoVelocity
  /\ flushScheduled' = FALSE
  /\ \E result \in WriteNow :
       /\ AfterWrite(result, {}, events)
       /\ wheel' = IF result.written THEN latestVelocity ELSE wheel
  /\ UNCHANGED <<ros, running, linkUp>>

\* The configuration is posted as two ordered commands.
ConfigureImuStream ==
  /\ running /\ events # <<>> /\ Head(events).kind = "configure"
  /\ events' = Tail(events) \o (IF EnableImuStream THEN <<Call("rate"), Call("enable")>>
                                                 ELSE <<>>)
  /\ UNCHANGED <<ros, latestVelocity, flushScheduled, port, running, wheel, link>>

EnqueueOrdered ==
  /\ running /\ events # <<>> /\ Head(events).kind \in {"rate", "enable"}
  /\ \E result \in WriteNow : AfterWrite(result, {Head(events).kind}, Tail(events))
  /\ UNCHANGED <<ros, latestVelocity, flushScheduled, running, wheel, linkUp>>

\* The event loop ends after exit(); the destructor writes the emergency stop
\* in the twist and manual_lr modes.
Terminate ==
  /\ running /\ exiting
  /\ running' = FALSE
  /\ IF controlMode = "fixed_wing"
     THEN UNCHANGED <<port, wheel, events, troubles>>
     ELSE \E result \in WriteNow :
            /\ AfterWrite(result, {}, events)
            /\ wheel' = IF result.written THEN Stopped(wheel) ELSE wheel
  /\ UNCHANGED <<ros, latestVelocity, flushScheduled, linkUp>>

-----------------------------------------------------------------------------
(***************************************************************************)
(* The environment.                                                        *)
(***************************************************************************)
\* SIGINT or SIGTERM: the handler rclcpp::init installs ends the executor; no
\* handler tells the Qt event loop to quit.
TerminationSignal ==
  /\ running /\ listening
  /\ listening' = FALSE
  /\ UNCHANGED <<controlMode, manualActive, silent, issued, qt, port, running, wheel, link>>

\* The launch system kills a process that outlives the signals.
Kill ==
  /\ running /\ ~listening
  /\ running' = FALSE
  /\ UNCHANGED <<ros, qt, port, wheel, link>>

\* systemd starts the stack again.
Restart ==
  /\ ~running
  /\ running' = TRUE
  /\ listening' = TRUE
  /\ manualActive' = FALSE
  /\ silent' = TRUE
  /\ issued' = IF Manual THEN Stopped(issued) ELSE issued
  /\ events' = StartupEvents(Stopped(issued))
  /\ latestVelocity' = NoVelocity
  /\ flushScheduled' = FALSE
  /\ isOpen' \in OpenResults
  /\ failures' = 0
  /\ exiting' = FALSE
  /\ configured' = {}
  /\ UNCHANGED <<controlMode, wheel, link>>

LinkFails ==
  /\ linkUp
  /\ troubles < MaxTroubles                                   \* bound
  /\ linkUp' = FALSE
  /\ troubles' = troubles + 1
  /\ UNCHANGED <<ros, qt, port, running, wheel>>

LinkRecovers ==
  /\ ~linkUp
  /\ linkUp' = TRUE
  /\ UNCHANGED <<ros, qt, port, running, wheel, troubles>>

EventLoop == EnqueueVelocity \/ ConfigureImuStream \/ EnqueueOrdered
Command == \E stop \in BOOLEAN : SendCmdVel(stop)

Next ==
  \/ Command
  \/ \E valid, stop \in BOOLEAN : SendManualLeftRightCommand(valid, stop)
  \/ CheckManualCommandTimeout
  \/ CommandsStop
  \/ EventLoop \/ FlushLatestVelocity \/ Terminate
  \/ TerminationSignal \/ Kill \/ Restart
  \/ LinkFails \/ LinkRecovers

Spec == Init /\ [][Next]_vars

\* The event loop turns, the manual timer fires, and the onboard controller
\* publishes a command in every control step.
FairSpec ==
  /\ Spec
  /\ WF_vars(EventLoop) /\ WF_vars(FlushLatestVelocity) /\ WF_vars(Terminate)
  /\ WF_vars(CheckManualCommandTimeout)
  /\ WF_vars(Command)

-----------------------------------------------------------------------------
TypeOK ==
  /\ events \in Seq(Event)
  /\ latestVelocity \in Velocity \cup {NoVelocity}
  /\ issued \in Velocity /\ wheel \in Velocity
  /\ failures \in 0..MaximumReopenAttempts
  /\ configured \subseteq {"rate", "enable"}
  /\ {listening, manualActive, silent, flushScheduled, isOpen, exiting, running, linkUp}
       \subseteq BOOLEAN

\* README: velocity writes are coalesced.  A velocity never overtakes a newer
\* one on its way through the queue, the mailbox and a failing port.
VelocityNeverGoesBack == [][wheel'.id >= wheel.id]_vars

\* README: recovery reapplies the IMU configuration.  For an open port the code
\* has tried to write all of it, or the calls to do so are queued, whichever
\* write reopened the port, and whether that write went out itself or not.
OpenPortGetsConfigured ==
  (running /\ isOpen /\ EnableImuStream) =>
    \A command \in {"rate", "enable"} :
      command \in configured
        \/ \E i \in 1..Len(events) : events[i].kind \in {command, "configure"}

\* The mailbox loses no wakeup: while the link works, a velocity on its way to
\* the port is written, or a newer one is.
Underway ==
  {events[i].velocity : i \in 1..Len(events)} \cup {latestVelocity}

NewestVelocityIsWritten ==
  \A velocity \in Velocity :
    (velocity \in Underway) ~> (wheel.id >= velocity.id \/ troubles > 0 \/ ~running)

\* A port that stays closed ends the process while commands keep coming, however
\* its failures and reopenings were counted before.
ClosedPortEndsBridge ==
  (<>[](~linkUp /\ ~isOpen /\ listening /\ ~Manual)) => []<>(~running)

\* README: recovery is bounded, and its exhaustion exits the bridge.  The same
\* of a link that has failed for good, whether or not the port can be opened.
UnusablePortEndsBridge ==
  (<>[](~linkUp /\ listening /\ ~Manual)) => []<>(~running)
=============================================================================
