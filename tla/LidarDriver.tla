----------------------------- MODULE LidarDriver -----------------------------
(***************************************************************************)
(* The LiDAR driver process (ldlidar_stl_ros2).  A receiving thread parses *)
(* the serial byte stream into packets (LiPkg::AnalysisOne, Parse), cuts   *)
(* the points at the 0 degree seam into turns (AssemblePacket) and hands   *)
(* each turn over under two mutexes.  The main thread waits for the first  *)
(* packet, then polls for turns at 10 Hz and publishes them (demo.cpp).    *)
(*                                                                         *)
(* Time and angle are a count of points: point g lies in turn g \div       *)
(* PointsPerTurn.  The k-th byte sent belongs to packet k \div             *)
(* PacketLength; its value matters only where AnalysisOne looks at it, so  *)
(* it is "header" (0x54), "verlen" (0x2C) or "other".  The CRC is taken to *)
(* accept a block exactly when it is one packet, whole and unchanged.  The *)
(* motor turns at constant speed.  Distances are left out, and with them   *)
(* the filters, which drop or zero points of a turn (one whose points are  *)
(* all near and form a closed ring is emptied, and not handed over).       *)
(***************************************************************************)
EXTENDS Integers, Sequences, FiniteSets

CONSTANTS
  PacketLength,     \* bytes of a packet, sizeof(LiDARFrameTypeDef)
  PointsPerPacket,  \* POINT_PER_PACK
  PointsPerTurn,    \* measure_point_frequence_ / GetSpeed()
  Seam,             \* points of a turn below 20 degrees, and above 340
  Scenes,           \* what the bytes after the first two may look like
  Ticks,            \* by how much node->now() may differ between two messages
  MaxPackets,       \* bound on the packets sent
  MaxDamage         \* bound on the bytes lost or changed on the line

ByteValue == {"header", "verlen", "other"}

ASSUME PacketAssumption ==
  /\ PacketLength \in Nat /\ PacketLength > 2
  /\ Scenes \subseteq [1..(PacketLength - 2) -> ByteValue]
ASSUME TurnAssumption ==
  /\ PointsPerPacket \in Nat \ {0} /\ PointsPerTurn \in Nat \ {0}
  /\ Seam \in Nat \ {0}
  /\ 2 * Seam < PointsPerTurn
ASSUME StreamAssumption == MaxPackets \in Nat /\ MaxDamage \in Nat
ASSUME ClockAssumption == Ticks \subseteq Int

VARIABLES
  scene,       \* the bytes after the first two, in every packet
  received,    \* bytes that have left the line, damaged ones included
  buffer,      \* tmp of AnalysisOne; its length is count, and gives state
  stamped,     \* last_pkg_timestamp_ is set
  frameTmp,    \* frame_tmp_: points not yet assembled
  firstFrame,  \* first_frame_
  parsed,      \* the current read has bytes that were parsed, not assembled
  rx,          \* the receiving thread: "read", "store", "announce", "exited"
  assembled,   \* the turn it is handing over
  slot,        \* laser_scan_data_, guarded by mutex_lock2_
  ready,       \* is_frame_ready_, guarded by mutex_lock1_
  commNormal,  \* is_poweron_comm_normal_
  main,        \* the main thread: "connect", "poll", "reset", "copy",
               \* "stopping", "stopped", "failed"
  firstScan,   \* first_scan of ToLaserscanMessagePublish
  published,   \* the newest LaserScan message
  setBack,     \* history: the clock stood still or was set back between two
  damaged,     \* history: positions of bytes lost or changed
  accepted,    \* history: packets parsed
  stored,      \* history: scans put into the slot
  taken,       \* history: which of them was taken last
  repeats      \* history: times in a row that it was

stream == <<scene, received, damaged>>
parser == <<buffer, stamped, accepted>>
assembly == <<frameTmp, firstFrame, parsed, assembled>>
reader == <<firstScan, published, setBack, taken, repeats>>
handOver == <<slot, stored>>
vars ==
  <<stream, parser, assembly, rx, handOver, ready, commNormal, main, reader>>

Packet(position) == position \div PacketLength
Turn(g) == g \div PointsPerTurn

ByteAt(position) ==
  LET i == position % PacketLength
  IN  IF i = 0 THEN "header" ELSE IF i = 1 THEN "verlen" ELSE scene[i - 1]

\* 0 for no scan.
LastPoint(scan) == IF scan = <<>> THEN 0 ELSE scan[Len(scan)]

Init ==
  /\ scene \in Scenes
  /\ received = 0
  /\ buffer = <<>>
  /\ stamped = FALSE
  /\ frameTmp = <<>>
  /\ firstFrame = TRUE
  /\ parsed = FALSE
  /\ rx = "read"
  /\ assembled = <<>>
  /\ slot = <<>>
  /\ stored = 0
  /\ ready = FALSE
  /\ commNormal = FALSE
  /\ main = "connect"
  /\ firstScan = TRUE
  /\ published = [scan |-> <<>>, stamp |-> 0]
  /\ setBack = FALSE
  /\ damaged = {}
  /\ accepted = {}
  /\ taken = 0
  /\ repeats = 0

-----------------------------------------------------------------------------
(***************************************************************************)
(* The receiving thread.  A read hands over any number of bytes: each is   *)
(* parsed, then the callback assembles once.                               *)
(***************************************************************************)
PortOpen == main \in {"connect", "poll", "reset", "copy"}
Incoming == rx = "read" /\ PortOpen /\ received < MaxPackets * PacketLength

\* What HEADER and VER_LEN require of the byte that ends the block; DATA takes
\* any byte.
Fits(block, value) ==
  CASE Len(block) = 1 -> value = "header"
    [] Len(block) = 2 -> value = "verlen"
    [] OTHER -> TRUE

\* The CRC of a full block: the bytes after the first two, which are known, are
\* those of one packet.
Intact(block) ==
  \A i \in 3..PacketLength :
    /\ block[i].ok
    /\ block[i].at = PacketLength * Packet(block[PacketLength].at) + i - 1

\* Slip: a block whose CRC fails is not given up.
BlockAfterCrcKept(block) ==
  IF Fits(block, block[Len(block)].value)
     /\ ~(Len(block) = PacketLength /\ Intact(block)) THEN block
  ELSE <<>>

\* count and state once a byte has been added to the block.
BlockAfter(block) ==
  IF Fits(block, block[Len(block)].value) /\ Len(block) < PacketLength THEN block
  ELSE <<>>

PointsOf(packet) ==
  [i \in 1..PointsPerPacket |-> packet * PointsPerPacket + i - 1]

\* AnalysisOne of one byte, and what Parse does when it completes a packet: the
\* first packet only sets the time from which points are stamped.
ParseByte(value) ==
  LET block == Append(buffer, [at |-> received, value |-> value,
                               ok |-> value = ByteAt(received)])
  IN  /\ buffer' = BlockAfter(block)
      /\ IF Len(block) = PacketLength /\ Intact(block)
         THEN /\ commNormal' = TRUE
              /\ stamped' = TRUE
              /\ accepted' = accepted \cup {Packet(received)}
              /\ frameTmp' = IF stamped THEN frameTmp \o PointsOf(Packet(received))
                             ELSE frameTmp
         ELSE UNCHANGED <<commNormal, stamped, accepted, frameTmp>>

ReceiveByte(value) ==
  /\ Incoming
  /\ value # ByteAt(received) => Cardinality(damaged) < MaxDamage     \* bound
  /\ ParseByte(value)
  /\ received' = received + 1
  /\ damaged' = IF value = ByteAt(received) THEN damaged ELSE damaged \cup {received}
  /\ parsed' = TRUE
  /\ UNCHANGED <<scene, firstFrame, assembled, rx, handOver, ready, main, reader>>

\* A byte that overruns the serial buffer never arrives.
LoseByte ==
  /\ Incoming
  /\ Cardinality(damaged) < MaxDamage                         \* bound
  /\ received' = received + 1
  /\ damaged' = damaged \cup {received}
  /\ UNCHANGED <<scene, parser, assembly, rx, handOver, ready, commNormal, main, reader>>

Low(g) == g % PointsPerTurn < Seam
High(g) == g % PointsPerTurn >= PointsPerTurn - Seam

\* The places where AssemblePacket finds the seam between two points.
Seams(points) == {i \in 2..Len(points) : Low(points[i]) /\ High(points[i - 1])}

TooManyForTurn(count) == 5 * count > 7 * PointsPerTurn
TooManyForTwo == 2 * PointsPerTurn + 1

From(points, i) == SubSeq(points, i, Len(points))

\* Slip: the point at the seam is taken with the turn it ends.
CountWithSeam(i) == i

\* The points before the seam at i.
Count(i) == i - 1

\* The points before the first seam, at i, are a turn; the first one, which may
\* have begun anywhere, is dropped, and so is one that is too long.
CutTurn(i) ==
  /\ frameTmp' = From(frameTmp, Count(i) + 1)
  /\ firstFrame' = (firstFrame /\ TooManyForTurn(Count(i)))
  /\ IF firstFrame \/ TooManyForTurn(Count(i))
     THEN UNCHANGED <<rx, assembled>>
     ELSE rx' = "store" /\ assembled' = SubSeq(frameTmp, 1, Count(i))

\* AssemblePacket looks at one point after the other and stops at the first
\* seam, or when it has counted more than two turns.
Assemble ==
  /\ rx = "read" /\ parsed
  /\ parsed' = FALSE
  /\ LET seams == {i \in Seams(frameTmp) : i <= TooManyForTwo} IN
       \/ \E i \in seams : (\A j \in seams : i <= j) /\ CutTurn(i)
       \/ /\ seams = {}
          /\ frameTmp' = IF Len(frameTmp) < TooManyForTwo THEN frameTmp
                         ELSE From(frameTmp, TooManyForTwo + 1)
          /\ UNCHANGED <<firstFrame, rx, assembled>>
  /\ UNCHANGED <<stream, parser, handOver, ready, commNormal, main, reader>>

\* SetLaserScanData
StoreScan(from, to) ==
  /\ rx = from /\ rx' = to
  /\ slot' = assembled
  /\ stored' = stored + 1
  /\ UNCHANGED <<stream, parser, assembly, ready, commNormal, main, reader>>

\* SetFrameReady
AnnounceScan(from, to) ==
  /\ rx = from /\ rx' = to
  /\ ready' = TRUE
  /\ UNCHANGED <<stream, parser, assembly, handOver, commNormal, main, reader>>

\* Slip: the scan is announced before it is stored.
HandOverAnnouncedFirst ==
  AnnounceScan("store", "announce") \/ StoreScan("announce", "read")

\* The scan is stored, then announced: two critical sections.
HandOver == StoreScan("store", "announce") \/ AnnounceScan("announce", "read")

\* rx_thread_exit_flag_ is looked at between two reads.
ExitThread ==
  /\ rx = "read" /\ ~parsed
  /\ main = "stopping"
  /\ rx' = "exited"
  /\ UNCHANGED <<stream, parser, assembly, handOver, ready, commNormal, main, reader>>

-----------------------------------------------------------------------------
(***************************************************************************)
(* The main thread.                                                        *)
(***************************************************************************)
\* WaitLidarCommConnect: a packet in time, or the process exits.
Connect ==
  /\ main = "connect"
  /\ IF commNormal THEN commNormal' = FALSE /\ main' = "poll"
     ELSE UNCHANGED commNormal /\ main' = "failed"
  /\ UNCHANGED <<stream, parser, assembly, rx, handOver, ready, reader>>

\* IsFrameReady; without a scan the loop only reports and sleeps.
PollScan ==
  /\ main = "poll" /\ ready
  /\ main' = "reset"
  /\ UNCHANGED <<stream, parser, assembly, rx, handOver, ready, commNormal, reader>>

\* Slip: the flag is left for the next announcement to set.
SkipReset ==
  /\ main = "reset"
  /\ main' = "copy"
  /\ UNCHANGED <<stream, parser, assembly, rx, handOver, ready, commNormal, reader>>

\* ResetFrameReady
ResetReady ==
  /\ main = "reset"
  /\ ready' = FALSE
  /\ main' = "copy"
  /\ UNCHANGED <<stream, parser, assembly, rx, handOver, commNormal, reader>>

\* The copy of GetLaserScanData and ToLaserscanMessagePublish, which keeps the
\* first scan for itself and stamps the others with node->now(), the system's clock,
\* which may be set.
TakeScan ==
  /\ main = "copy"
  /\ main' = "poll"
  /\ taken' = stored
  /\ repeats' = IF taken = stored THEN repeats + 1 ELSE 1
  /\ firstScan' = FALSE
  /\ IF firstScan THEN UNCHANGED <<published, setBack>>
     ELSE \E tick \in Ticks :
            /\ published' = [scan |-> slot, stamp |-> published.stamp + tick]
            /\ setBack' = (setBack \/ tick <= 0)
  /\ UNCHANGED <<stream, parser, assembly, rx, handOver, ready, commNormal>>

\* The loop ends with rclcpp::ok(); Close raises the flag and closes the port.
Stop ==
  /\ main = "poll"
  /\ main' = "stopping"
  /\ UNCHANGED <<stream, parser, assembly, rx, handOver, ready, commNormal, reader>>

\* Close joins the receiving thread.
Join ==
  /\ main = "stopping" /\ rx = "exited"
  /\ main' = "stopped"
  /\ UNCHANGED <<stream, parser, assembly, rx, handOver, ready, commNormal, reader>>

Receive == \E value \in ByteValue : ReceiveByte(value)
RxThreadProc == Assemble \/ HandOver \/ ExitThread
MainThread == Connect \/ PollScan \/ ResetReady \/ TakeScan \/ Join

Next == Receive \/ LoseByte \/ RxThreadProc \/ MainThread \/ Stop

\* Both threads run for ever, and a read hands over finitely many bytes; nothing
\* says that bytes come, or that the process is ever told to stop.
Fairness == WF_vars(RxThreadProc) /\ WF_vars(MainThread)

Spec == Init /\ [][Next]_vars

-----------------------------------------------------------------------------
(***************************************************************************)
(* Properties.                                                             *)
(***************************************************************************)
\* The parser finds the packets again: a packet that went through whole is lost
\* only if its own bytes or those of the packet before it were damaged, as long
\* as no other byte of a packet looks like its header.
Resynchronises ==
  "header" \notin {scene[i] : i \in DOMAIN scene} =>
    \A p \in 0..(Packet(received) - 1) :
      \/ p \in accepted
      \/ \E position \in damaged : p \in {Packet(position), Packet(position) + 1}

\* A turn that is handed over without a gap never runs across the seam, and as
\* long as nothing was damaged it is the whole turn, however the reads cut the
\* stream.
ScanIsOneTurn ==
  slot # <<>> =>
    /\ (LastPoint(slot) - slot[1] + 1 = Len(slot)) => Turn(slot[1]) = Turn(LastPoint(slot))
    /\ damaged = {} => Len(slot) = PointsPerTurn

\* The flag and the scan are two critical sections on both sides, so a scan may
\* be taken again: on the announcement of the scan before it while it is already
\* stored, once more for an announcement that came between the reset and the
\* copy, and on its own announcement, but never a fourth time.
TakenAtMostThrice == repeats <= 3

Untaken == taken # stored

\* No scan is lost between the threads: what was stored is taken, unless a newer
\* one, which is then taken, takes its place.
StoredScanIsTaken ==
  Untaken ~> (~Untaken \/ main \in {"stopping", "stopped", "failed"})

=============================================================================
