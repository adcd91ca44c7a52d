----------------------------- MODULE LidarProofs -----------------------------
(***************************************************************************)
(* Safety of the LiDAR driver's hand-over, parser and turns and of the     *)
(* odometry behind them, for every turn, packet and number of faults.      *)
(***************************************************************************)
EXTENDS LidarPipeline, SequenceTheorems, TLAPS

-----------------------------------------------------------------------------
(***************************************************************************)
(* How often a scan is taken.  A scan in the slot is taken again only for  *)
(* what is still on its way to the reader: an announcement not yet made,   *)
(* the flag, and the taking that has begun.  Together with the takings     *)
(* that were these are never more than three.                              *)
(***************************************************************************)
Bit(holds) == IF holds THEN 1 ELSE 0

Takings ==
  (IF taken = stored THEN repeats ELSE 0)
  + Bit(main \in {"reset", "copy"}) + Bit(ready /\ main # "reset") + Bit(rx = "announce")

HandOverInv ==
  /\ stored \in Nat /\ taken \in Nat /\ repeats \in Nat
  /\ taken <= stored
  /\ repeats <= 3
  /\ Takings <= 3

LEMMA StoreBounded ==
  ASSUME HandOverInv, StoreScan("store", "announce")
  PROVE  HandOverInv'
<1>1. /\ stored' = stored + 1
      /\ rx' = "announce" /\ UNCHANGED <<taken, repeats, main, ready>>
  BY DEF StoreScan, reader
<1>2. taken' # stored' /\ taken' <= stored' /\ stored' \in Nat
  BY <1>1 DEF HandOverInv
<1>3. Takings' <= 3
  BY <1>2 DEF Takings, Bit
<1>. QED
  BY <1>1, <1>2, <1>3 DEF HandOverInv

LEMMA AnnounceBounded ==
  ASSUME HandOverInv, AnnounceScan("announce", "read")
  PROVE  HandOverInv'
<1>1. /\ rx = "announce" /\ rx' = "read"
      /\ UNCHANGED <<taken, repeats, main, stored>>
  BY DEF AnnounceScan, reader, handOver
<1>2. Takings' <= Takings
  BY <1>1 DEF Takings, Bit, HandOverInv
<1>3. Takings \in Nat
  BY DEF Takings, Bit, HandOverInv
<1>4. Takings' \in Nat
  BY <1>1 DEF Takings, Bit, HandOverInv
<1>. QED
  BY <1>1, <1>2, <1>3, <1>4 DEF HandOverInv

LEMMA TakeBounded ==
  ASSUME HandOverInv, TakeScan
  PROVE  HandOverInv'
<1>1. /\ main = "copy" /\ main' = "poll" /\ taken' = stored
      /\ UNCHANGED <<ready, rx, stored>>
  BY DEF TakeScan, handOver
<1>2. repeats' = (IF taken = stored THEN repeats ELSE 0) + 1
  BY DEF TakeScan, HandOverInv
<1>3. repeats' \in Nat /\ repeats' >= 1
  BY <1>2 DEF HandOverInv
<1>4. Takings = repeats' + Bit(ready) + Bit(rx = "announce")
  BY <1>1, <1>2 DEF Takings, Bit, HandOverInv
<1>5. Takings' = repeats' + Bit(ready) + Bit(rx = "announce")
  BY <1>1, <1>3 DEF Takings, Bit
<1>6. repeats' <= 3
  <2>. DEFINE flag == Bit(ready)
              announced == Bit(rx = "announce")
              again == repeats'
  <2>1. flag \in Nat /\ announced \in Nat
    BY DEF Bit
  <2>2. again \in Nat /\ again + flag + announced <= 3
    BY <1>3, <1>4 DEF HandOverInv
  <2>. HIDE DEF flag, announced, again
  <2>3. again <= 3
    BY <2>1, <2>2
  <2>. QED
    BY <2>3 DEF again
<1>. QED
  BY <1>1, <1>3, <1>4, <1>5, <1>6 DEF HandOverInv

\* What moves none of the four leaves them as they are, or takes one away.
LEMMA OthersBounded ==
  ASSUME HandOverInv, UNCHANGED <<stored, taken, repeats>>,
         Takings' <= Takings
  PROVE  HandOverInv'
<1>1. Takings \in Nat /\ Takings' \in Int
  BY DEF Takings, Bit, HandOverInv
<1>. QED
  BY <1>1 DEF HandOverInv

LEMMA DriverBounded ==
  ASSUME HandOverInv, [Next]_vars
  PROVE  HandOverInv'
<1>1. ASSUME UNCHANGED <<stored, taken, repeats, main, ready, rx>>
      PROVE  HandOverInv'
  BY <1>1 DEF HandOverInv, Takings
<1>2. CASE Receive \/ LoseByte
  BY <1>1, <1>2 DEF Receive, ReceiveByte, LoseByte, handOver, reader
<1>3. CASE Assemble
  <2>1. rx = "read" /\ rx' \in {"read", "store"} /\ UNCHANGED <<stored, taken, repeats, main, ready>>
    BY <1>3 DEF Assemble, CutTurn, handOver, reader
  <2>. QED
    BY <2>1 DEF HandOverInv, Takings
<1>4. CASE ExitThread
  <2>1. rx = "read" /\ rx' = "exited" /\ UNCHANGED <<stored, taken, repeats, main, ready>>
    BY <1>4 DEF ExitThread, handOver, reader
  <2>. QED
    BY <2>1 DEF HandOverInv, Takings
<1>5. CASE PollScan
  <2>1. /\ main = "poll" /\ main' = "reset" /\ ready
        /\ UNCHANGED <<stored, taken, repeats, ready, rx>>
    BY <1>5 DEF PollScan, handOver, reader
  <2>2. Takings' <= Takings
    BY <2>1 DEF Takings, Bit, HandOverInv
  <2>. QED
    BY <2>1, <2>2, OthersBounded
<1>6. CASE ResetReady
  <2>1. /\ main = "reset" /\ main' = "copy" /\ ready' = FALSE
        /\ UNCHANGED <<stored, taken, repeats, rx>>
    BY <1>6 DEF ResetReady, handOver, reader
  <2>2. Takings' <= Takings
    BY <2>1 DEF Takings, Bit, HandOverInv
  <2>. QED
    BY <2>1, <2>2, OthersBounded
<1>7. CASE Connect \/ Join \/ Stop
  <2>1. /\ main \in {"connect", "stopping", "poll"}
        /\ main' \in {"connect", "failed", "poll", "stopped", "stopping"}
        /\ UNCHANGED <<stored, taken, repeats, ready, rx>>
    BY <1>7 DEF Connect, Join, Stop, handOver, reader
  <2>. QED
    BY <2>1 DEF HandOverInv, Takings
<1>8. CASE UNCHANGED vars
  BY <1>1, <1>8 DEF vars, handOver, reader
<1>. QED
  BY <1>2, <1>3, <1>4, <1>5, <1>6, <1>7, <1>8, StoreBounded, AnnounceBounded, TakeBounded
  DEF Next, RxThreadProc, MainThread, HandOver

\* A scan is taken three times at most, however the two threads meet.
THEOREM ThriceAtMost == PipelineSpec => []TakenAtMostThrice
<1>1. PipelineInit => HandOverInv
  BY DEF PipelineInit, Init, HandOverInv, Takings, Bit
<1>2. HandOverInv /\ [PipelineNext]_pipelineVars => HandOverInv'
  BY DriverBounded DEF PipelineNext, DriverStep, pipelineVars
<1>3. HandOverInv => TakenAtMostThrice
  BY DEF HandOverInv, TakenAtMostThrice
<1>. QED
  BY <1>1, <1>2, <1>3, PTL DEF PipelineSpec

-----------------------------------------------------------------------------
(***************************************************************************)
(* Turns are sequences of points, from the packets to the messages.        *)
(***************************************************************************)
DriverTyped ==
  /\ received \in Nat
  /\ frameTmp \in Seq(Nat) /\ assembled \in Seq(Nat) /\ slot \in Seq(Nat)
  /\ published \in [scan : Seq(Nat), stamp : Int] /\ setBack \in BOOLEAN
  /\ firstScan \in BOOLEAN

LEMMA PointsTyped ==
  ASSUME NEW packet \in Nat
  PROVE  PointsOf(packet) \in Seq(Nat)
<1>1. PointsPerPacket \in Nat
  BY TurnAssumption
<1>2. \A i \in 1..PointsPerPacket : packet * PointsPerPacket + i - 1 \in Nat
  <2>. DEFINE first == packet * PointsPerPacket
  <2>1. first \in Nat
    BY <1>1
  <2>. HIDE DEF first
  <2>2. \A i \in 1..PointsPerPacket : first + i - 1 \in Nat
    BY <1>1, <2>1
  <2>. QED
    BY <2>2 DEF first
<1>. QED
  BY <1>1, <1>2 DEF PointsOf

LEMMA CutTyped ==
  ASSUME NEW points \in Seq(Nat), NEW i \in 1..(Len(points) + 1)
  PROVE  From(points, i) \in Seq(Nat) /\ SubSeq(points, 1, i - 1) \in Seq(Nat)
<1>1. Len(points) \in Nat /\ (\A j \in 1..Len(points) : points[j] \in Nat)
  BY ElementOfSeq, LenProperties
<1>2. (\A j \in i..Len(points) : points[j] \in Nat) /\ (\A j \in 1..(i - 1) : points[j] \in Nat)
  BY <1>1
<1>3. i \in Int /\ Len(points) \in Int /\ i - 1 \in Int /\ 1 \in Int
  BY <1>1
<1>4. SubSeq(points, i, Len(points)) \in Seq(Nat)
  BY <1>2, <1>3, SubSeqProperties
<1>5. SubSeq(points, 1, i - 1) \in Seq(Nat)
  BY <1>2, <1>3, SubSeqProperties
<1>. QED
  BY <1>4, <1>5 DEF From

LEMMA AssembleTyped ==
  ASSUME DriverTyped, Assemble
  PROVE  frameTmp' \in Seq(Nat) /\ assembled' \in Seq(Nat)
<1>1. frameTmp \in Seq(Nat) /\ assembled \in Seq(Nat) /\ Len(frameTmp) \in Nat
  BY LenProperties DEF DriverTyped
<1>2. ASSUME NEW i \in Seams(frameTmp), CutTurn(i)
      PROVE  frameTmp' \in Seq(Nat) /\ assembled' \in Seq(Nat)
  <2>1. i \in 1..(Len(frameTmp) + 1) /\ Count(i) + 1 = i /\ Count(i) = i - 1
    BY <1>1, <1>2 DEF Seams, Count
  <2>2. From(frameTmp, i) \in Seq(Nat) /\ SubSeq(frameTmp, 1, i - 1) \in Seq(Nat)
    BY <1>1, <2>1, CutTyped
  <2>3. frameTmp' = From(frameTmp, i)
    BY <1>2, <2>1 DEF CutTurn
  <2>4. assembled' = assembled \/ assembled' = SubSeq(frameTmp, 1, i - 1)
    BY <1>2, <2>1 DEF CutTurn
  <2>. QED
    BY <1>1, <2>2, <2>3, <2>4
<1>3. ASSUME frameTmp' = IF Len(frameTmp) < TooManyForTwo THEN frameTmp
                         ELSE From(frameTmp, TooManyForTwo + 1),
             assembled' = assembled
      PROVE  frameTmp' \in Seq(Nat) /\ assembled' \in Seq(Nat)
  <2>1. CASE Len(frameTmp) < TooManyForTwo
    BY <1>1, <1>3, <2>1
  <2>2. CASE ~(Len(frameTmp) < TooManyForTwo)
    <3>1. TooManyForTwo \in Nat
      BY TurnAssumption DEF TooManyForTwo
    <3>2. TooManyForTwo + 1 \in 1..(Len(frameTmp) + 1)
      BY <1>1, <2>2, <3>1
    <3>. QED
      BY <1>1, <1>3, <2>2, <3>2, CutTyped
  <2>. QED
    BY <2>1, <2>2
<1>. QED
  BY <1>2, <1>3 DEF Assemble

LEMMA DriverTypes ==
  ASSUME DriverTyped, [Next]_vars
  PROVE  DriverTyped'
<1>1. CASE Receive
  <2>1. PICK value \in ByteValue : ReceiveByte(value)
    BY <1>1 DEF Receive
  <2>2. received' = received + 1 /\ UNCHANGED <<assembled, slot, firstScan, published, setBack>>
    BY <2>1 DEF ReceiveByte, handOver, reader
  <2>3. Packet(received) \in Nat
    <3>1. PacketLength \in Nat /\ PacketLength > 0
      BY PacketAssumption
    <3>2. received \in Nat
      BY DEF DriverTyped
    <3>. QED
      BY <3>1, <3>2 DEF Packet
  <2>4. frameTmp \o PointsOf(Packet(received)) \in Seq(Nat)
    BY <2>3, PointsTyped, ConcatProperties DEF DriverTyped
  <2>5. frameTmp' \in {frameTmp, frameTmp \o PointsOf(Packet(received))}
    BY <2>1 DEF ReceiveByte, ParseByte
  <2>6. frameTmp' \in Seq(Nat)
    BY <2>4, <2>5 DEF DriverTyped
  <2>. QED
    BY <2>2, <2>6 DEF DriverTyped
<1>2. CASE LoseByte
  BY <1>2 DEF LoseByte, DriverTyped, assembly, handOver, reader
<1>3. CASE Assemble
  <2>1. UNCHANGED <<received, slot, firstScan, published, setBack>>
    BY <1>3 DEF Assemble, stream, handOver, reader
  <2>. QED
    BY <1>3, <2>1, AssembleTyped DEF DriverTyped
<1>4. CASE HandOver
  BY <1>4 DEF HandOver, StoreScan, AnnounceScan, DriverTyped, stream, assembly, handOver, reader
<1>5. CASE TakeScan
  <2>1. UNCHANGED <<received, frameTmp, assembled, slot>> /\ firstScan' \in BOOLEAN
    BY <1>5 DEF TakeScan, stream, assembly, handOver
  <2>2. CASE firstScan
    BY <1>5, <2>1, <2>2 DEF TakeScan, DriverTyped
  <2>3. CASE ~firstScan
    <3>1. PICK tick \in Ticks :
            /\ published' = [scan |-> slot, stamp |-> published.stamp + tick]
            /\ setBack' = (setBack \/ tick <= 0)
      BY <1>5, <2>3 DEF TakeScan
    <3>2. published.stamp + tick \in Int
      BY <3>1, ClockAssumption DEF DriverTyped
    <3>3. setBack' \in BOOLEAN
      BY <3>1
    <3>. QED
      BY <2>1, <3>1, <3>2, <3>3 DEF DriverTyped
  <2>. QED
    BY <2>2, <2>3
<1>6. CASE ExitThread \/ Connect \/ PollScan \/ ResetReady \/ Join \/ Stop
  <2>1. UNCHANGED <<received, frameTmp, assembled, slot, firstScan, published, setBack>>
    BY <1>6 DEF ExitThread, Connect, PollScan, ResetReady, Join, Stop, stream, assembly,
       handOver, reader
  <2>. QED
    BY <2>1 DEF DriverTyped
<1>7. CASE UNCHANGED vars
  BY <1>7 DEF vars, stream, assembly, handOver, reader, DriverTyped
<1>. QED
  BY <1>1, <1>2, <1>3, <1>4, <1>5, <1>6, <1>7 DEF Next, RxThreadProc, MainThread

\* The place a message comes from; the odometry knows scans of such places only.
Scan == [place : Nat, stamp : Int]

\* A message that is published is later than the one before, if the clock goes on.
LEMMA Published ==
  ASSUME DriverTyped, DriverTyped', Next, Publishes
  PROVE  /\ AsScan(published') \in Scan
         /\ AsScan(published').stamp = published'.stamp
         /\ ~setBack' => ~setBack /\ published'.stamp > published.stamp
<1>1. TakeScan
  BY DEF Next, RxThreadProc, MainThread, Receive, ReceiveByte, LoseByte, Assemble, HandOver,
     StoreScan, AnnounceScan, ExitThread, Connect, PollScan, ResetReady, Join, Stop, Publishes
<1>2. PICK tick \in Ticks :
        /\ published' = [scan |-> slot, stamp |-> published.stamp + tick]
        /\ setBack' = (setBack \/ tick <= 0)
  BY <1>1 DEF TakeScan, Publishes
<1>3. LastPoint(published'.scan) \in Nat
  <2>1. published'.scan \in Seq(Nat)
    BY DEF DriverTyped
  <2>2. CASE published'.scan = <<>>
    BY <2>2 DEF LastPoint
  <2>3. CASE published'.scan # <<>>
    <3>1. Len(published'.scan) \in 1..Len(published'.scan)
      BY <2>1, <2>3, EmptySeq, LenProperties
    <3>2. published'.scan[Len(published'.scan)] \in Nat
      BY <2>1, <3>1, ElementOfSeq
    <3>. QED
      BY <2>3, <3>2 DEF LastPoint
  <2>. QED
    BY <2>2, <2>3
<1>4. Turn(LastPoint(published'.scan)) \in Nat
  BY <1>3, TurnAssumption DEF Turn
<1>5. ASSUME ~setBack'
      PROVE  ~setBack /\ published'.stamp > published.stamp
  <2>1. ~setBack /\ ~(tick <= 0)
    BY <1>2, <1>5
  <2>2. published'.stamp = published.stamp + tick
    BY <1>2
  <2>. QED
    BY <2>1, <2>2, ClockAssumption DEF DriverTyped
<1>. QED
  BY <1>4, <1>5 DEF AsScan, DriverTyped, Scan

\* Nothing else touches the message or the clock.
LEMMA NotPublished ==
  ASSUME Next, ~Publishes
  PROVE  published' = published /\ setBack' = setBack
BY DEF Next, RxThreadProc, MainThread, Receive, ReceiveByte, LoseByte, Assemble, HandOver,
   StoreScan, AnnounceScan, ExitThread, Connect, PollScan, ResetReady, TakeScan, Join, Stop,
   reader, Publishes

-----------------------------------------------------------------------------
(***************************************************************************)
(* Positions in blocks of one length: bytes in packets, points in turns.   *)
(***************************************************************************)
LEMMA Division ==
  ASSUME NEW d \in Nat \ {0}, NEW n \in Nat
  PROVE  /\ n \div d \in Nat /\ n % d \in 0..(d - 1)
         /\ n = d * (n \div d) + (n % d)
OBVIOUS

LEMMA DivisionUnique ==
  ASSUME NEW d \in Nat \ {0}, NEW q \in Nat, NEW k \in 0..(d - 1)
  PROVE  (d * q + k) \div d = q /\ (d * q + k) % d = k
OBVIOUS

LEMMA Successor ==
  ASSUME NEW d \in Nat \ {0}, NEW n \in Nat
  PROVE  IF n % d = d - 1 THEN (n + 1) \div d = (n \div d) + 1 /\ (n + 1) % d = 0
         ELSE (n + 1) \div d = n \div d /\ (n + 1) % d = (n % d) + 1
<1>. DEFINE q == n \div d
            k == n % d
<1>1. q \in Nat /\ k \in 0..(d - 1) /\ n = d * q + k
  BY Division
<1>2. CASE k = d - 1
  <2>1. q + 1 \in Nat /\ 0 \in 0..(d - 1)
    BY <1>1
  <2>2. n + 1 = d * (q + 1) + 0
    <3>. HIDE DEF q, k
    <3>. QED BY <1>1, <1>2
  <2>3. (d * (q + 1) + 0) \div d = q + 1 /\ (d * (q + 1) + 0) % d = 0
    <3>. HIDE DEF q, k
    <3>. QED BY <2>1, DivisionUnique
  <2>. QED
    BY <1>2, <2>2, <2>3
<1>3. CASE k # d - 1
  <2>1. k + 1 \in 0..(d - 1)
    BY <1>1, <1>3
  <2>2. n + 1 = d * q + (k + 1)
    <3>. HIDE DEF q, k
    <3>. QED BY <1>1
  <2>3. (n + 1) \div d = q /\ (n + 1) % d = k + 1
    <3>. HIDE DEF q, k
    <3>. QED BY <1>1, <2>1, <2>2, DivisionUnique
  <2>. QED
    BY <1>3, <2>3
<1>. QED
  BY <1>2, <1>3

-----------------------------------------------------------------------------
(***************************************************************************)
(* The parser.  In step, it holds the bytes of the packet that is being    *)
(* received.  When it is not, and this packet is whole, it ends what it    *)
(* began earlier within this packet, or gives it up at the header, and     *)
(* then waits: with no other byte like a header, until the next packet.    *)
(***************************************************************************)
Offset == received % PacketLength
CurrentPacket == Packet(received)

InStep ==
  /\ Len(buffer) = Offset
  /\ \A i \in 1..Offset :
       buffer[i].ok /\ buffer[i].at = PacketLength * CurrentPacket + i - 1
Drained == buffer = <<>> /\ Offset >= 1
Draining == Len(buffer) > Offset

Whole(p) == \A position \in damaged : Packet(position) # p
Clean(p) == \A position \in damaged : p \notin {Packet(position), Packet(position) + 1}
PlainScene == "header" \notin {scene[i] : i \in DOMAIN scene}

Byte(value) == [at |-> received, value |-> value, ok |-> value = ByteAt(received)]
Block(value) == Append(buffer, Byte(value))

ParserTyped ==
  /\ received \in Nat
  /\ scene \in [1..(PacketLength - 2) -> ByteValue]
  /\ buffer \in Seq([at : Nat, value : ByteValue, ok : BOOLEAN])
  /\ Len(buffer) < PacketLength

ParserInv ==
  /\ ParserTyped
  /\ damaged = {} => InStep
  /\ PlainScene /\ Whole(CurrentPacket) => InStep \/ Drained \/ Draining
  /\ PlainScene /\ Clean(CurrentPacket) => InStep
  /\ Resynchronises

LEMMA Positions ==
  ASSUME received \in Nat
  PROVE  /\ PacketLength \in Nat \ {0} /\ PacketLength > 2
         /\ CurrentPacket \in Nat /\ Offset \in 0..(PacketLength - 1)
         /\ received = PacketLength * CurrentPacket + Offset
<1>1. PacketLength \in Nat \ {0} /\ PacketLength > 2
  BY PacketAssumption
<1>. QED
  BY <1>1, Division DEF CurrentPacket, Packet, Offset

LEMMA Advance ==
  ASSUME received \in Nat, received' = received + 1
  PROVE  IF Offset = PacketLength - 1
         THEN CurrentPacket' = CurrentPacket + 1 /\ Offset' = 0
         ELSE CurrentPacket' = CurrentPacket /\ Offset' = Offset + 1
<1>1. PacketLength \in Nat \ {0}
  BY PacketAssumption
<1>. QED
  BY <1>1, Successor DEF CurrentPacket, Packet, Offset

LEMMA BlockIs ==
  ASSUME ParserTyped, NEW value \in ByteValue
  PROVE  /\ Block(value) \in Seq([at : Nat, value : ByteValue, ok : BOOLEAN])
         /\ Len(Block(value)) = Len(buffer) + 1 /\ Len(buffer) \in Nat
         /\ \A i \in 1..Len(buffer) : Block(value)[i] = buffer[i]
         /\ Block(value)[Len(buffer) + 1] = Byte(value)
<1>1. (value = ByteAt(received)) \in BOOLEAN
  OBVIOUS
<1>2. Byte(value) \in [at : Nat, value : ByteValue, ok : BOOLEAN]
  BY <1>1 DEF Byte, ParserTyped
<1>. QED
  BY <1>2, AppendProperties, LenProperties DEF Block, ParserTyped

\* What a byte does to the block.
LEMMA BufferAfter ==
  ASSUME ParserTyped, NEW value \in ByteValue, ParseByte(value)
  PROVE  /\ buffer' \in {<<>>, Block(value)}
         /\ Len(buffer) = 0 => buffer' = IF value = "header" THEN Block(value) ELSE <<>>
         /\ Len(buffer) = 1 => buffer' = IF value = "verlen" THEN Block(value) ELSE <<>>
         /\ Len(buffer) = PacketLength - 1 => buffer' = <<>>
         /\ Len(buffer) \in 2..(PacketLength - 2) => buffer' = Block(value)
<1>1. PacketLength \in Nat \ {0} /\ PacketLength > 2
  BY PacketAssumption
<1>2. buffer' = BlockAfter(Block(value))
  BY DEF ParseByte, Block, Byte
<1>3. /\ Len(Block(value)) = Len(buffer) + 1 /\ Len(buffer) \in Nat
      /\ Block(value)[Len(buffer) + 1] = Byte(value)
  BY BlockIs
<1>4. Block(value)[Len(Block(value))].value = value
  BY <1>3 DEF Byte
<1>5. /\ Fits(Block(value), value) /\ Len(buffer) + 1 < PacketLength => buffer' = Block(value)
      /\ ~Fits(Block(value), value) => buffer' = <<>>
      /\ ~(Len(buffer) + 1 < PacketLength) => buffer' = <<>>
  BY <1>2, <1>3, <1>4 DEF BlockAfter
<1>6. buffer' \in {<<>>, Block(value)}
  BY <1>5
<1>7. Len(buffer) = PacketLength - 1 => buffer' = <<>>
  BY <1>1, <1>3, <1>5
<1>8. Len(buffer) = 0 => buffer' = IF value = "header" THEN Block(value) ELSE <<>>
  <2>. SUFFICES ASSUME Len(buffer) = 0
                PROVE  buffer' = IF value = "header" THEN Block(value) ELSE <<>>
    OBVIOUS
  <2>1. Len(Block(value)) = 1
    BY <1>3
  <2>2. Fits(Block(value), value) <=> value = "header"
    BY <2>1 DEF Fits
  <2>3. Len(buffer) + 1 < PacketLength
    BY <1>1
  <2>. QED
    BY <1>5, <2>2, <2>3
<1>9. Len(buffer) = 1 => buffer' = IF value = "verlen" THEN Block(value) ELSE <<>>
  <2>. SUFFICES ASSUME Len(buffer) = 1
                PROVE  buffer' = IF value = "verlen" THEN Block(value) ELSE <<>>
    OBVIOUS
  <2>1. Len(Block(value)) = 2
    BY <1>3
  <2>2. Fits(Block(value), value) <=> value = "verlen"
    BY <2>1 DEF Fits
  <2>3. Len(buffer) + 1 < PacketLength
    BY <1>1
  <2>. QED
    BY <1>5, <2>2, <2>3
<1>10. Len(buffer) \in 2..(PacketLength - 2) => buffer' = Block(value)
  <2>. SUFFICES ASSUME Len(buffer) \in 2..(PacketLength - 2)
                PROVE  buffer' = Block(value)
    OBVIOUS
  <2>1. Len(Block(value)) # 1 /\ Len(Block(value)) # 2
    BY <1>3
  <2>2. Fits(Block(value), value)
    BY <2>1 DEF Fits
  <2>3. Len(buffer) + 1 < PacketLength
    BY <1>1
  <2>. QED
    BY <1>5, <2>2, <2>3
<1>. QED
  BY <1>6, <1>7, <1>8, <1>9, <1>10

LEMMA TypedAfter ==
  ASSUME ParserTyped, NEW value \in ByteValue, ParseByte(value),
         received' = received + 1, scene' = scene
  PROVE  ParserTyped'
<1>1. PacketLength \in Nat \ {0} /\ PacketLength > 2
  BY PacketAssumption
<1>2. buffer' \in Seq([at : Nat, value : ByteValue, ok : BOOLEAN])
  BY BufferAfter, BlockIs, EmptySeq
<1>3. Len(buffer') < PacketLength
  <2>1. CASE buffer' = <<>>
    BY <1>1, <2>1
  <2>2. CASE buffer' = Block(value) /\ Len(buffer) # PacketLength - 1
    BY <1>1, <2>2, BlockIs DEF ParserTyped
  <2>. QED
    BY <2>1, <2>2, BufferAfter
<1>. QED
  BY <1>2, <1>3 DEF ParserTyped

LEMMA UndamagedByte ==
  ASSUME ParserTyped
  PROVE  /\ Offset = 0 => ByteAt(received) = "header"
         /\ Offset = 1 => ByteAt(received) = "verlen"
         /\ PlainScene /\ Offset >= 1 => ByteAt(received) # "header"
<1>1. received \in Nat
  BY DEF ParserTyped
<1>2. PacketLength \in Nat /\ Offset \in 0..(PacketLength - 1)
  BY <1>1, Positions
<1>3. ByteAt(received) = IF Offset = 0 THEN "header" ELSE IF Offset = 1 THEN "verlen"
                         ELSE scene[Offset - 1]
  BY DEF ByteAt, Offset
<1>4. ASSUME PlainScene, Offset >= 2
      PROVE  scene[Offset - 1] # "header"
  <2>1. Offset - 1 \in 1..(PacketLength - 2)
    BY <1>2, <1>4
  <2>2. DOMAIN scene = 1..(PacketLength - 2)
    BY DEF ParserTyped
  <2>. QED
    BY <1>4, <2>1, <2>2 DEF PlainScene
<1>. QED
  BY <1>2, <1>3, <1>4

\* In step, a byte that is not damaged carries the packet on, or ends it.
LEMMA BlockInStep ==
  ASSUME ParserTyped, InStep, ByteAt(received) \in ByteValue
  PROVE  LET block == Block(ByteAt(received)) IN
         /\ Len(block) = Offset + 1
         /\ \A i \in 1..(Offset + 1) :
              block[i].ok /\ block[i].at = PacketLength * CurrentPacket + i - 1
         /\ Offset = PacketLength - 1 => Intact(block)
<1>. DEFINE value == ByteAt(received)
<1>1. received \in Nat
  BY DEF ParserTyped
<1>2. /\ PacketLength \in Nat \ {0} /\ PacketLength > 2
      /\ CurrentPacket \in Nat /\ Offset \in 0..(PacketLength - 1)
      /\ received = PacketLength * CurrentPacket + Offset
  BY <1>1, Positions
<1>3. /\ Len(Block(value)) = Offset + 1
      /\ \A i \in 1..Offset : Block(value)[i] = buffer[i]
      /\ Block(value)[Offset + 1] = Byte(value)
  BY BlockIs DEF InStep
<1>4. Byte(value).ok /\ Byte(value).at = PacketLength * CurrentPacket + Offset
  BY <1>2 DEF Byte
<1>5. \A i \in 1..(Offset + 1) :
        Block(value)[i].ok /\ Block(value)[i].at = PacketLength * CurrentPacket + i - 1
  <2>. DEFINE first == PacketLength * CurrentPacket
  <2>1. first \in Nat
    BY <1>2
  <2>2. Byte(value).at = first + Offset
    BY <1>4
  <2>3. \A i \in 1..Offset : buffer[i].ok /\ buffer[i].at = first + i - 1
    BY DEF InStep
  <2>. HIDE DEF first, value
  <2>4. \A i \in 1..(Offset + 1) :
        Block(value)[i].ok /\ Block(value)[i].at = first + i - 1
    BY <1>2, <1>3, <1>4, <2>1, <2>2, <2>3
  <2>. QED
    BY <2>4 DEF first
<1>6. ASSUME Offset = PacketLength - 1
      PROVE  Intact(Block(value))
  <2>1. Packet(Block(value)[PacketLength].at) = CurrentPacket
    <3>1. Block(value)[PacketLength].at = received
      BY <1>2, <1>3, <1>6 DEF Byte
    <3>. QED
      BY <3>1 DEF CurrentPacket
  <2>. QED
    BY <1>2, <1>5, <1>6, <2>1 DEF Intact
<1>. QED
  BY <1>3, <1>5, <1>6

\* In step, and nothing damaged: the parser stays so, and ends the packet.
LEMMA StaysInStep ==
  ASSUME ParserTyped, InStep, ByteAt(received) \in ByteValue, ParseByte(ByteAt(received)),
         received' = received + 1
  PROVE  /\ InStep'
         /\ Offset = PacketLength - 1 => CurrentPacket \in accepted'
<1>. DEFINE value == ByteAt(received)
<1>1. received \in Nat
  BY DEF ParserTyped
<1>2. /\ PacketLength \in Nat \ {0} /\ PacketLength > 2
      /\ CurrentPacket \in Nat /\ Offset \in 0..(PacketLength - 1)
  BY <1>1, Positions
<1>3. /\ Len(Block(value)) = Offset + 1
      /\ \A i \in 1..(Offset + 1) :
           Block(value)[i].ok /\ Block(value)[i].at = PacketLength * CurrentPacket + i - 1
  BY BlockInStep
<1>4. CASE Offset = PacketLength - 1
  <2>1. buffer' = <<>> /\ Offset' = 0
    BY <1>1, <1>4, BufferAfter, Advance DEF InStep
  <2>2. InStep'
    BY <2>1 DEF InStep
  <2>3. Len(Block(value)) = PacketLength
    BY <1>2, <1>3, <1>4
  <2>4. Intact(Block(value))
    BY <1>4, BlockInStep
  <2>5. CurrentPacket \in accepted'
    BY <2>3, <2>4 DEF ParseByte, Block, Byte, CurrentPacket
  <2>. QED
    BY <2>2, <2>5
<1>5. CASE Offset # PacketLength - 1
  <2>1. CurrentPacket' = CurrentPacket /\ Offset' = Offset + 1
    BY <1>1, <1>5, Advance
  <2>2. buffer' = Block(value)
    <3>1. Len(buffer) = Offset /\ Offset \in {0, 1} \cup 2..(PacketLength - 2)
      BY <1>2, <1>5 DEF InStep
    <3>. QED
      BY <3>1, BufferAfter, UndamagedByte
  <2>. QED
    BY <1>3, <1>5, <2>1, <2>2 DEF InStep
<1>. QED
  BY <1>4, <1>5

\* A packet that was received is accounted for when it was accepted, or excused
\* by damage; neither is ever undone.
LEMMA PacketsStay ==
  ASSUME ParserInv, scene' = scene, damaged \subseteq damaged', accepted \subseteq accepted',
         received' = received + 1,
         PlainScene /\ Offset = PacketLength - 1 =>
           CurrentPacket \in accepted' \/ (\E position \in damaged' :
             CurrentPacket \in {Packet(position), Packet(position) + 1})
  PROVE  Resynchronises'
<1>. SUFFICES ASSUME PlainScene, NEW p \in 0..(Packet(received') - 1), p \notin accepted'
              PROVE  \E position \in damaged' : p \in {Packet(position), Packet(position) + 1}
  BY DEF Resynchronises, PlainScene
<1>1. received \in Nat
  BY DEF ParserInv, ParserTyped
<1>2. CurrentPacket \in Nat /\ Packet(received') = CurrentPacket'
  BY <1>1, Positions DEF CurrentPacket
<1>3. CASE p \in 0..(CurrentPacket - 1)
  <2>1. p \in accepted \/ \E position \in damaged : p \in {Packet(position), Packet(position) + 1}
    BY <1>3 DEF ParserInv, Resynchronises, PlainScene, CurrentPacket
  <2>. QED
    BY <2>1
<1>4. CASE p \notin 0..(CurrentPacket - 1)
  <2>1. Offset = PacketLength - 1 /\ p = CurrentPacket
    BY <1>1, <1>2, <1>4, Advance
  <2>. QED
    BY <2>1
<1>. QED
  BY <1>3, <1>4

\* At the start of a packet whatever the parser holds is in step or drains.
LEMMA PacketStarts ==
  ASSUME buffer' \in Seq([at : Nat, value : ByteValue, ok : BOOLEAN]), Offset' = 0
  PROVE  InStep' \/ Draining'
<1>1. Len(buffer') \in Nat
  BY LenProperties
<1>2. CASE Len(buffer') = 0
  BY <1>2 DEF InStep
<1>3. CASE Len(buffer') > 0
  BY <1>3 DEF Draining
<1>. QED
  BY <1>1, <1>2, <1>3

\* A byte that is damaged spoils its packet and the next.
LEMMA DamagedByte ==
  ASSUME ParserInv, ParserTyped', scene' = scene, received' = received + 1,
         damaged' = damaged \cup {received}, accepted \subseteq accepted'
  PROVE  ParserInv'
<1>1. received \in Nat /\ received \in damaged'
  BY DEF ParserInv, ParserTyped
<1>2. Resynchronises'
  BY <1>1, PacketsStay DEF CurrentPacket
<1>3. ~Clean(CurrentPacket)'
  <2>1. CurrentPacket' \in {Packet(received), Packet(received) + 1}
    BY <1>1, Advance DEF CurrentPacket
  <2>. QED
    BY <1>1, <2>1 DEF Clean
<1>4. Whole(CurrentPacket)' => InStep' \/ Draining'
  <2>1. CASE Offset = PacketLength - 1
    BY <1>1, <2>1, Advance, PacketStarts DEF ParserTyped
  <2>2. CASE Offset # PacketLength - 1
    <3>1. CurrentPacket' = Packet(received)
      BY <1>1, <2>2, Advance DEF CurrentPacket
    <3>. QED
      BY <1>1, <3>1 DEF Whole
  <2>. QED
    BY <2>1, <2>2
<1>. QED
  BY <1>1, <1>2, <1>3, <1>4 DEF ParserInv

\* Once drained, the parser waits for a header; what drains ends in time.
LEMMA KeepsDraining ==
  ASSUME ParserTyped, PlainScene, Drained \/ Draining,
         ByteAt(received) \in ByteValue, ParseByte(ByteAt(received)), received' = received + 1
  PROVE  IF Offset = PacketLength - 1 THEN buffer' = <<>> ELSE Drained' \/ Draining'
<1>1. received \in Nat
  BY DEF ParserTyped
<1>2. /\ PacketLength \in Nat \ {0} /\ PacketLength > 2
      /\ Offset \in 0..(PacketLength - 1)
  BY <1>1, Positions
<1>3. Offset # PacketLength - 1 => Offset' = Offset + 1
  BY <1>1, Advance
<1>4. Len(buffer) \in Nat /\ Len(buffer) < PacketLength
  BY LenProperties DEF ParserTyped
<1>5. CASE Drained
  <2>1. ByteAt(received) # "header" /\ Len(buffer) = 0
    BY <1>5, UndamagedByte DEF Drained
  <2>2. buffer' = <<>>
    BY <2>1, BufferAfter
  <2>. QED
    BY <1>2, <1>3, <2>2 DEF Drained
<1>6. CASE Draining
  <2>1. Offset # PacketLength - 1 /\ Offset' = Offset + 1
    BY <1>2, <1>3, <1>4, <1>6 DEF Draining
  <2>2. CASE buffer' = <<>>
    BY <1>2, <2>1, <2>2 DEF Drained
  <2>3. CASE buffer' = Block(ByteAt(received))
    <3>1. Len(buffer') = Len(buffer) + 1
      BY <2>3, BlockIs
    <3>. QED
      BY <1>2, <1>4, <1>6, <2>1, <3>1 DEF Draining
  <2>. QED
    BY <2>1, <2>2, <2>3, BufferAfter
<1>. QED
  BY <1>5, <1>6

LEMMA WholeByte ==
  ASSUME ParserInv, ParserTyped', scene' = scene, received' = received + 1, damaged' = damaged,
         ByteAt(received) \in ByteValue, ParseByte(ByteAt(received))
  PROVE  ParserInv'
<1>1. ParserTyped /\ received \in Nat
  BY DEF ParserInv, ParserTyped
<1>2. PlainScene' = PlainScene
  BY DEF PlainScene
<1>3. accepted \subseteq accepted'
  BY DEF ParseByte
<1>4. InStep => InStep' /\ (Offset = PacketLength - 1 => CurrentPacket \in accepted')
  BY <1>1, StaysInStep
<1>5. CASE Offset = PacketLength - 1
  <2>1. CurrentPacket' = CurrentPacket + 1 /\ Offset' = 0
    BY <1>1, <1>5, Advance
  <2>2. InStep' \/ Draining'
    BY <2>1, PacketStarts DEF ParserTyped
  <2>3. ASSUME PlainScene, Clean(CurrentPacket)'
        PROVE  InStep'
    <3>1. Whole(CurrentPacket)
      BY <2>1, <2>3 DEF Clean, Whole
    <3>2. InStep \/ Drained \/ Draining
      BY <2>3, <3>1 DEF ParserInv
    <3>3. buffer' = <<>> => InStep'
      BY <2>1 DEF InStep
    <3>. QED
      BY <1>1, <1>4, <1>5, <2>3, <3>2, <3>3, KeepsDraining
  <2>4. Resynchronises'
    <3>1. ASSUME PlainScene, CurrentPacket \notin accepted'
          PROVE  ~Clean(CurrentPacket)
      BY <1>4, <1>5, <3>1 DEF ParserInv
    <3>. QED
      BY <1>3, <3>1, PacketsStay DEF Clean
  <2>. QED
    BY <1>2, <1>4, <2>2, <2>3, <2>4 DEF ParserInv
<1>6. CASE Offset # PacketLength - 1
  <2>1. CurrentPacket' = CurrentPacket
    BY <1>1, <1>6, Advance
  <2>2. Whole(CurrentPacket)' = Whole(CurrentPacket) /\ Clean(CurrentPacket)' = Clean(CurrentPacket)
    BY <2>1 DEF Whole, Clean
  <2>3. Resynchronises'
    BY <1>3, <1>6, PacketsStay
  <2>4. PlainScene /\ Whole(CurrentPacket) => InStep' \/ Drained' \/ Draining'
    BY <1>1, <1>4, <1>6, KeepsDraining DEF ParserInv
  <2>. QED
    BY <1>2, <1>4, <2>2, <2>3, <2>4 DEF ParserInv
<1>. QED
  BY <1>5, <1>6

LEMMA ParserKept ==
  ASSUME ParserInv, [Next]_vars
  PROVE  ParserInv'
<1>1. CASE Receive
  <2>1. PICK value \in ByteValue : ReceiveByte(value)
    BY <1>1 DEF Receive
  <2>2. scene' = scene /\ received' = received + 1 /\ ParseByte(value)
    BY <2>1 DEF ReceiveByte
  <2>3. ParserTyped'
    BY <2>2, TypedAfter DEF ParserInv
  <2>4. accepted \subseteq accepted'
    BY <2>2 DEF ParseByte
  <2>5. CASE value = ByteAt(received)
    <3>1. damaged' = damaged
      BY <2>1, <2>5 DEF ReceiveByte
    <3>. QED
      BY <2>2, <2>3, <2>5, <3>1, WholeByte
  <2>6. CASE value # ByteAt(received)
    <3>1. damaged' = damaged \cup {received}
      BY <2>1, <2>6 DEF ReceiveByte
    <3>. QED
      BY <2>2, <2>3, <2>4, <3>1, DamagedByte
  <2>. QED
    BY <2>5, <2>6
<1>2. CASE LoseByte
  <2>1. /\ received' = received + 1 /\ damaged' = damaged \cup {received}
        /\ UNCHANGED <<scene, buffer, accepted>>
    BY <1>2 DEF LoseByte, parser
  <2>2. ParserTyped'
    BY <2>1 DEF ParserInv, ParserTyped
  <2>. QED
    BY <2>1, <2>2, DamagedByte
<1>3. ASSUME UNCHANGED <<scene, received, damaged, buffer, accepted>>
      PROVE  ParserInv'
  BY <1>3 DEF ParserInv, ParserTyped, InStep, Drained, Draining, Whole, Clean, PlainScene,
     Resynchronises, CurrentPacket, Offset
<1>4. CASE RxThreadProc \/ MainThread \/ Stop \/ UNCHANGED vars
  <2>1. UNCHANGED <<scene, received, damaged, buffer, accepted>>
    BY <1>4 DEF RxThreadProc, MainThread, Assemble, HandOver, StoreScan, AnnounceScan, ExitThread,
       Connect, PollScan, ResetReady, TakeScan, Join, Stop, vars, stream, parser
  <2>. QED
    BY <1>3, <2>1
<1>. QED
  BY <1>1, <1>2, <1>4 DEF Next

LEMMA ParserStarts ==
  ASSUME Init
  PROVE  ParserInv
<1>1. received = 0 /\ buffer = <<>> /\ damaged = {} /\ accepted = {} /\ scene \in Scenes
  BY DEF Init
<1>2. PacketLength \in Nat \ {0}
  BY PacketAssumption
<1>3. Offset = 0 /\ CurrentPacket = 0 /\ Packet(received) = 0
  BY <1>1, <1>2 DEF Offset, CurrentPacket, Packet
<1>4. InStep
  BY <1>1, <1>3 DEF InStep
<1>5. ParserTyped
  BY <1>1, <1>2, PacketAssumption, EmptySeq DEF ParserTyped
<1>6. Resynchronises
  BY <1>3 DEF Resynchronises
<1>. QED
  BY <1>4, <1>5, <1>6 DEF ParserInv

\* The parser finds the packets again, whatever was damaged, unless the scene
\* itself looks like a header.
THEOREM ParserFindsPackets == PipelineSpec => []Resynchronises
<1>1. PipelineInit => ParserInv
  BY ParserStarts DEF PipelineInit
<1>2. ParserInv /\ [PipelineNext]_pipelineVars => ParserInv'
  BY ParserKept DEF PipelineNext, DriverStep, pipelineVars
<1>3. ParserInv => Resynchronises
  BY DEF ParserInv
<1>. QED
  BY <1>1, <1>2, <1>3, PTL DEF PipelineSpec

-----------------------------------------------------------------------------
(***************************************************************************)
(* The turns.  Points are kept in the order in which they were measured,   *)
(* so a stretch without a gap that runs across a turn's end holds both     *)
(* points of a seam.  While nothing is damaged there is no gap at all.     *)
(***************************************************************************)
NextPoint == CurrentPacket * PointsPerPacket

Spread(points) ==
  \A i, j \in 1..Len(points) : i <= j => points[j] - points[i] >= j - i
Consecutive(points) == \A i \in 1..Len(points) : points[i] = points[1] + i - 1

\* Everything was parsed, up to the packet that is being received.
Unbroken ==
  /\ stamped <=> CurrentPacket >= 1
  /\ \A i \in 1..Len(frameTmp) : frameTmp[i] = NextPoint - Len(frameTmp) + i - 1
  /\ ~firstFrame => frameTmp # <<>> /\ frameTmp[1] % PointsPerTurn = 0

TurnInv ==
  /\ Spread(frameTmp)
  /\ \A i \in 1..Len(frameTmp) : frameTmp[i] < NextPoint
  /\ Spread(assembled) /\ Seams(assembled) = {}
  /\ Spread(slot) /\ Seams(slot) = {}
  /\ damaged = {} =>
       /\ Unbroken
       /\ rx = "store" => Len(assembled) = PointsPerTurn
       /\ slot # <<>> => Len(slot) = PointsPerTurn

LEMMA Elements ==
  ASSUME NEW points \in Seq(Nat)
  PROVE  Len(points) \in Nat /\ \A i \in 1..Len(points) : points[i] \in Nat
BY ElementOfSeq, LenProperties

LEMMA SeamAtBoundary ==
  ASSUME NEW g \in Nat
  PROVE  Low(g + 1) /\ High(g) <=> (g + 1) % PointsPerTurn = 0
<1>1. /\ PointsPerTurn \in Nat \ {0} /\ Seam \in Nat \ {0} /\ 2 * Seam < PointsPerTurn
  BY TurnAssumption
<1>. DEFINE k == g % PointsPerTurn
            next == (g + 1) % PointsPerTurn
<1>2. k \in 0..(PointsPerTurn - 1)
  BY <1>1, Division
<1>3. IF k = PointsPerTurn - 1 THEN next = 0 ELSE next = k + 1
  BY <1>1, Successor
<1>4. (Low(g + 1) <=> next < Seam) /\ (High(g) <=> k >= PointsPerTurn - Seam)
  BY DEF Low, High
<1>. HIDE DEF k, next
<1>5. Low(g + 1) /\ High(g) <=> next = 0
  BY <1>1, <1>2, <1>3, <1>4
<1>. QED
  BY <1>5 DEF next

LEMMA SpreadWithoutGap ==
  ASSUME NEW points \in Seq(Nat), points # <<>>, Spread(points),
         points[Len(points)] - points[1] + 1 = Len(points)
  PROVE  Consecutive(points)
<1>1. Len(points) \in Nat /\ Len(points) >= 1
  BY Elements, EmptySeq, LenProperties
<1>. SUFFICES ASSUME NEW i \in 1..Len(points)
              PROVE  points[i] = points[1] + i - 1
  BY DEF Consecutive
<1>2. 1 \in 1..Len(points) /\ Len(points) \in 1..Len(points)
  BY <1>1
<1>3. points[i] - points[1] >= i - 1 /\ points[Len(points)] - points[i] >= Len(points) - i
  BY <1>2 DEF Spread
<1>4. points[1] \in Nat /\ points[i] \in Nat /\ points[Len(points)] \in Nat
  BY <1>2, Elements
<1>. DEFINE first == points[1]
            point == points[i]
            final == points[Len(points)]
            count == Len(points)
<1>5. /\ first \in Nat /\ point \in Nat /\ final \in Nat /\ count \in Nat
      /\ i \in 1..count
      /\ point - first >= i - 1 /\ final - point >= count - i /\ final - first + 1 = count
  BY <1>1, <1>3, <1>4
<1>. HIDE DEF first, point, final, count
<1>6. point = first + i - 1
  BY <1>5
<1>. QED
  BY <1>6 DEF first, point

\* Where a turn ends within a stretch without a gap.
LEMMA SeamAt ==
  ASSUME NEW points \in Seq(Nat), Consecutive(points), NEW i \in 2..Len(points)
  PROVE  i \in Seams(points) <=> points[i] % PointsPerTurn = 0
<1>1. Len(points) \in Nat
  BY Elements
<1>2. i \in 1..Len(points) /\ i - 1 \in 1..Len(points) /\ 1 \in 1..Len(points)
  BY <1>1
<1>3. points[1] \in Nat /\ points[i - 1] \in Nat /\ points[i] \in Nat
  BY <1>2, Elements
<1>4. points[i] = points[1] + i - 1 /\ points[i - 1] = points[1] + (i - 1) - 1
  BY <1>2 DEF Consecutive
<1>5. points[i] = points[i - 1] + 1
  <2>. DEFINE first == points[1]
              before == points[i - 1]
  <2>1. first \in Nat /\ before = first + (i - 1) - 1 /\ points[i] = first + i - 1
    BY <1>3, <1>4
  <2>. HIDE DEF first, before
  <2>2. points[i] = before + 1
    BY <1>1, <2>1
  <2>. QED
    BY <2>2 DEF before
<1>6. Low(points[i]) /\ High(points[i - 1]) <=> points[i] % PointsPerTurn = 0
  BY <1>3, <1>5, SeamAtBoundary
<1>. QED
  BY <1>6 DEF Seams

\* A stretch longer than a turn has a seam, within a turn of its beginning.
LEMMA EndOfTurn ==
  ASSUME NEW points \in Seq(Nat), Consecutive(points), NEW i \in 2..Len(points),
         (points[1] % PointsPerTurn) + i - 1 = PointsPerTurn
  PROVE  i \in Seams(points)
<1>1. PointsPerTurn \in Nat \ {0} /\ Len(points) \in Nat
  BY TurnAssumption, Elements
<1>2. i \in 1..Len(points) /\ 1 \in 1..Len(points)
  BY <1>1
<1>3. points[1] \in Nat /\ points[i] = points[1] + i - 1
  BY <1>2, Elements DEF Consecutive
<1>. DEFINE q == points[1] \div PointsPerTurn
            k == points[1] % PointsPerTurn
<1>4. q \in Nat /\ k \in 0..(PointsPerTurn - 1) /\ points[1] = PointsPerTurn * q + k
  BY <1>1, <1>3, Division
<1>5. k + i - 1 = PointsPerTurn
  OBVIOUS
<1>6. q + 1 \in Nat /\ 0 \in 0..(PointsPerTurn - 1)
  <2>. HIDE DEF q
  <2>. QED
    BY <1>1, <1>4
<1>7. points[i] = PointsPerTurn * (q + 1) + 0
  <2>. HIDE DEF q, k
  <2>. QED
    BY <1>1, <1>3, <1>4, <1>5
<1>8. (PointsPerTurn * (q + 1) + 0) % PointsPerTurn = 0
  <2>. HIDE DEF q
  <2>. QED
    BY <1>1, <1>6, DivisionUnique
<1>9. points[i] % PointsPerTurn = 0
  BY <1>7, <1>8
<1>. QED
  BY <1>9, SeamAt

\* No seam before a whole turn has passed.
LEMMA WithinTurn ==
  ASSUME NEW points \in Seq(Nat), Consecutive(points), NEW i \in Seams(points),
         points[1] % PointsPerTurn = 0
  PROVE  i >= PointsPerTurn + 1
<1>1. PointsPerTurn \in Nat \ {0} /\ Len(points) \in Nat /\ i \in 2..Len(points)
  BY TurnAssumption, Elements DEF Seams
<1>2. i \in 1..Len(points) /\ 1 \in 1..Len(points)
  BY <1>1
<1>3. points[1] \in Nat /\ points[i] = points[1] + i - 1
  BY <1>2, Elements DEF Consecutive
<1>4. points[i] % PointsPerTurn = 0
  BY <1>1, SeamAt
<1>. DEFINE q == points[1] \div PointsPerTurn
<1>5. q \in Nat /\ points[1] = PointsPerTurn * q + 0
  BY <1>1, <1>3, Division
<1>6. ASSUME i < PointsPerTurn + 1
      PROVE  FALSE
  <2>. DEFINE k == i - 1
  <2>1. k \in 0..(PointsPerTurn - 1) /\ k # 0
    BY <1>1, <1>6
  <2>2. points[i] = PointsPerTurn * q + k
    <3>. HIDE DEF q
    <3>. QED BY <1>1, <1>3, <1>5
  <2>3. (PointsPerTurn * q + k) % PointsPerTurn = k
    <3>. HIDE DEF q, k
    <3>. QED BY <1>1, <1>5, <2>1, DivisionUnique
  <2>. QED
    BY <1>4, <2>1, <2>2, <2>3
<1>. QED
  BY <1>1, <1>6

\* A stretch without a gap and without a seam lies in one turn.
LEMMA OneTurn ==
  ASSUME NEW points \in Seq(Nat), points # <<>>, Consecutive(points), Seams(points) = {}
  PROVE  Turn(points[1]) = Turn(points[Len(points)])
<1>1. PointsPerTurn \in Nat \ {0} /\ Len(points) \in Nat /\ Len(points) >= 1
  BY TurnAssumption, Elements, EmptySeq, LenProperties
<1>2. Len(points) \in 1..Len(points) /\ 1 \in 1..Len(points)
  BY <1>1
<1>3. points[1] \in Nat /\ points[Len(points)] = points[1] + Len(points) - 1
  BY <1>2, Elements DEF Consecutive
<1>. DEFINE q == points[1] \div PointsPerTurn
            k == points[1] % PointsPerTurn
            last == k + Len(points) - 1
<1>4. q \in Nat /\ k \in 0..(PointsPerTurn - 1) /\ points[1] = PointsPerTurn * q + k
  BY <1>1, <1>3, Division
<1>5. last \in 0..(PointsPerTurn - 1)
  <2>1. last >= 0 /\ last \in Int
    <3>. HIDE DEF k
    <3>. QED BY <1>1, <1>4
  <2>2. ASSUME last >= PointsPerTurn
        PROVE  FALSE
    <3>. DEFINE i == PointsPerTurn - k + 1
    <3>1. i \in 2..Len(points) /\ k + i - 1 = PointsPerTurn
      <4>. HIDE DEF k
      <4>. QED BY <1>1, <1>4, <2>2
    <3>2. i \in Seams(points)
      <4>. HIDE DEF i
      <4>. QED BY <3>1, EndOfTurn
    <3>. QED
      BY <3>2
  <2>. QED
    BY <1>1, <2>1, <2>2
<1>6. points[Len(points)] = PointsPerTurn * q + last
  <2>. HIDE DEF q, k
  <2>. QED BY <1>1, <1>3, <1>4
<1>7. (PointsPerTurn * q + last) \div PointsPerTurn = q
  <2>. HIDE DEF q, last
  <2>. QED BY <1>1, <1>4, <1>5, DivisionUnique
<1>. QED
  BY <1>6, <1>7 DEF Turn

\* A packet that is accepted ends with the byte received, so its points come
\* after all that were kept.
LEMMA AcceptedAtEnd ==
  ASSUME ParserTyped, NEW value \in ByteValue,
         Len(Block(value)) = PacketLength, Intact(Block(value))
  PROVE  Offset = PacketLength - 1
<1>1. received \in Nat
  BY DEF ParserTyped
<1>2. /\ PacketLength \in Nat \ {0} /\ PacketLength > 2
      /\ CurrentPacket \in Nat /\ Offset \in 0..(PacketLength - 1)
      /\ received = PacketLength * CurrentPacket + Offset
  BY <1>1, Positions
<1>3. Block(value)[PacketLength] = Byte(value)
  BY BlockIs
<1>4. Block(value)[PacketLength].at = received
  BY <1>3 DEF Byte
<1>5. received = PacketLength * CurrentPacket + PacketLength - 1
  BY <1>2, <1>4 DEF Intact, CurrentPacket
<1>. DEFINE first == PacketLength * CurrentPacket
<1>6. first \in Nat /\ received = first + Offset /\ received = first + PacketLength - 1
  BY <1>2, <1>5
<1>. HIDE DEF first
<1>. QED
  BY <1>2, <1>6

LEMMA PacketPoints ==
  ASSUME NEW packet \in Nat
  PROVE  /\ PointsOf(packet) \in Seq(Nat) /\ Len(PointsOf(packet)) = PointsPerPacket
         /\ \A i \in 1..PointsPerPacket : PointsOf(packet)[i] = packet * PointsPerPacket + i - 1
         /\ packet * PointsPerPacket \in Nat
         /\ (packet + 1) * PointsPerPacket = packet * PointsPerPacket + PointsPerPacket
<1>1. PointsPerPacket \in Nat
  BY TurnAssumption
<1>2. Len(PointsOf(packet)) = PointsPerPacket
  BY <1>1, PointsTyped DEF PointsOf
<1>. QED
  BY <1>1, <1>2, PointsTyped DEF PointsOf

LEMMA SpreadAppended ==
  ASSUME NEW points \in Seq(Nat), NEW packet \in Nat, Spread(points),
         \A i \in 1..Len(points) : points[i] < packet * PointsPerPacket
  PROVE  /\ Spread(points \o PointsOf(packet))
         /\ \A i \in 1..Len(points \o PointsOf(packet)) :
              (points \o PointsOf(packet))[i] < (packet + 1) * PointsPerPacket
<1>. DEFINE first == packet * PointsPerPacket
            n == Len(points)
            all == points \o PointsOf(packet)
<1>1. /\ PointsPerPacket \in Nat \ {0} /\ first \in Nat /\ n \in Nat
      /\ (packet + 1) * PointsPerPacket = first + PointsPerPacket
      /\ \A i \in 1..n : points[i] \in Nat /\ points[i] < first
  BY TurnAssumption, PacketPoints, Elements
<1>2. /\ Len(all) = n + PointsPerPacket
      /\ \A i \in 1..n : all[i] = points[i]
      /\ \A i \in (n + 1)..(n + PointsPerPacket) : all[i] = first + (i - n) - 1
  <2>1. /\ Len(all) = n + PointsPerPacket
        /\ \A i \in 1..Len(all) : all[i] = IF i <= n THEN points[i] ELSE PointsOf(packet)[i - n]
    <3>1. PointsOf(packet) \in Seq(Nat) /\ Len(PointsOf(packet)) = PointsPerPacket
      BY PacketPoints
    <3>. HIDE DEF first
    <3>. QED
      BY <1>1, <3>1, ConcatProperties
  <2>2. \A i \in 1..PointsPerPacket : PointsOf(packet)[i] = first + i - 1
    BY PacketPoints
  <2>. HIDE DEF first, n, all
  <2>. QED
    BY <1>1, <2>1, <2>2
<1>3. \A i, j \in 1..n : i <= j => points[j] - points[i] >= j - i
  BY DEF Spread
<1>. HIDE DEF first, n, all
<1>4. \A i \in 1..Len(all) : all[i] < first + PointsPerPacket
  BY <1>1, <1>2
<1>5. ASSUME NEW i \in 1..Len(all), NEW j \in 1..Len(all), i <= j
      PROVE  all[j] - all[i] >= j - i
  <2>1. CASE j <= n
    <3>1. i \in 1..n /\ j \in 1..n
      BY <1>1, <1>2, <1>5, <2>1
    <3>. QED
      BY <1>2, <1>3, <1>5, <3>1
  <2>2. CASE i > n
    BY <1>1, <1>2, <1>5, <2>2
  <2>3. CASE i <= n /\ j > n
    <3>1. n \in 1..n /\ points[n] - points[i] >= n - i
      BY <1>1, <1>2, <1>3, <2>3
    <3>2. points[n] <= first - 1 /\ points[n] \in Nat /\ points[i] \in Nat
      BY <1>1, <2>3, <3>1
    <3>3. all[i] = points[i] /\ all[j] = first + (j - n) - 1
      BY <1>1, <1>2, <2>3
    <3>. DEFINE point == points[i]
                final == points[n]
    <3>4. /\ point \in Nat /\ final \in Nat /\ final <= first - 1 /\ final - point >= n - i
          /\ all[i] = point
      BY <3>1, <3>2, <3>3
    <3>5. n + 1 <= j /\ i \in Nat /\ j \in Nat
      BY <1>1, <1>2, <2>3
    <3>. HIDE DEF point, final
    <3>6. first + (j - n) - 1 - point >= j - i
      BY <1>1, <3>4, <3>5
    <3>. QED
      BY <1>1, <3>3, <3>4, <3>5, <3>6
  <2>. QED
    BY <1>1, <1>2, <2>1, <2>2, <2>3
<1>. QED
  BY <1>1, <1>4, <1>5 DEF Spread, all

\* The two parts of a cut.
LEMMA CutParts ==
  ASSUME NEW points \in Seq(Nat), NEW i \in 1..(Len(points) + 1)
  PROVE  /\ Len(From(points, i)) = Len(points) - i + 1
         /\ \A k \in 1..Len(From(points, i)) : From(points, i)[k] = points[i + k - 1]
         /\ Len(SubSeq(points, 1, i - 1)) = i - 1
         /\ \A k \in 1..(i - 1) : SubSeq(points, 1, i - 1)[k] = points[k]
<1>. DEFINE n == Len(points)
<1>1. n \in Nat /\ (\A k \in 1..n : points[k] \in Nat) /\ i \in 1..(n + 1)
  BY Elements
<1>2. (\A k \in i..n : points[k] \in Nat) /\ (\A k \in 1..(i - 1) : points[k] \in Nat)
  <2>. HIDE DEF n
  <2>. QED BY <1>1
<1>3. /\ Len(SubSeq(points, i, n)) = IF i <= n THEN n - i + 1 ELSE 0
      /\ \A k \in 1..(n - i + 1) : SubSeq(points, i, n)[k] = points[i + k - 1]
  BY <1>1, <1>2, SubSeqProperties
<1>4. /\ Len(SubSeq(points, 1, i - 1)) = IF 1 <= i - 1 THEN (i - 1) - 1 + 1 ELSE 0
      /\ \A k \in 1..((i - 1) - 1 + 1) : SubSeq(points, 1, i - 1)[k] = points[1 + k - 1]
  BY <1>1, <1>2, SubSeqProperties
<1>5. /\ Len(SubSeq(points, i, n)) = n - i + 1
      /\ Len(SubSeq(points, 1, i - 1)) = i - 1
  <2>. HIDE DEF n
  <2>. QED BY <1>1, <1>3, <1>4
<1>6. \A k \in 1..(i - 1) : SubSeq(points, 1, i - 1)[k] = points[k]
  <2>1. \A k \in 1..(i - 1) : k \in 1..((i - 1) - 1 + 1) /\ 1 + k - 1 = k
    OBVIOUS
  <2>. QED BY <1>4, <2>1
<1>. QED
  BY <1>3, <1>5, <1>6 DEF From

LEMMA NextPointGrows ==
  ASSUME received \in Nat, received' = received + 1
  PROVE  /\ NextPoint \in Nat /\ NextPoint' \in Nat /\ NextPoint <= NextPoint'
         /\ Offset = PacketLength - 1 => NextPoint' = NextPoint + PointsPerPacket
<1>1. CurrentPacket \in Nat /\ PointsPerPacket \in Nat
  BY Positions, TurnAssumption
<1>2. /\ CurrentPacket * PointsPerPacket \in Nat
      /\ (CurrentPacket + 1) * PointsPerPacket = CurrentPacket * PointsPerPacket + PointsPerPacket
  BY <1>1, PacketPoints
<1>3. CASE Offset = PacketLength - 1
  <2>1. NextPoint' = (CurrentPacket + 1) * PointsPerPacket
    BY <1>3, Advance DEF NextPoint
  <2>2. NextPoint' = NextPoint + PointsPerPacket /\ NextPoint \in Nat
    BY <1>2, <2>1 DEF NextPoint
  <2>. QED
    BY <1>1, <2>2
<1>4. CASE Offset # PacketLength - 1
  <2>1. NextPoint' = NextPoint /\ NextPoint \in Nat
    BY <1>2, <1>4, Advance DEF NextPoint
  <2>. QED
    BY <1>4, <2>1
<1>. QED
  BY <1>3, <1>4

\* A byte that ends no packet adds no point.
LEMMA NothingParsed ==
  ASSUME DriverTyped, TurnInv, received' = received + 1,
         UNCHANGED <<stamped, frameTmp, firstFrame, assembled, rx, slot>>,
         damaged' = {} => damaged = {} /\ Offset # PacketLength - 1
  PROVE  TurnInv'
<1>1. received \in Nat /\ frameTmp \in Seq(Nat)
  BY DEF DriverTyped
<1>2. NextPoint \in Nat /\ NextPoint' \in Nat /\ NextPoint <= NextPoint'
  BY <1>1, NextPointGrows
<1>3. \A i \in 1..Len(frameTmp) : frameTmp[i] < NextPoint'
  <2>. DEFINE next == NextPoint'
  <2>1. next \in Nat /\ NextPoint <= next
    BY <1>2
  <2>2. \A i \in 1..Len(frameTmp) : frameTmp[i] \in Nat /\ frameTmp[i] < NextPoint
    BY <1>1, Elements DEF TurnInv
  <2>. HIDE DEF next
  <2>3. \A i \in 1..Len(frameTmp) : frameTmp[i] < next
    BY <1>2, <2>1, <2>2
  <2>. QED
    BY <2>3 DEF next
<1>4. ASSUME damaged' = {}
      PROVE  /\ Unbroken'
             /\ rx' = "store" => Len(assembled') = PointsPerTurn
             /\ slot' # <<>> => Len(slot') = PointsPerTurn
  <2>1. CurrentPacket' = CurrentPacket
    BY <1>1, <1>4, Advance
  <2>2. NextPoint' = NextPoint
    BY <2>1 DEF NextPoint
  <2>. QED
    BY <1>4, <2>1, <2>2 DEF TurnInv, Unbroken
<1>. QED
  BY <1>3, <1>4 DEF TurnInv, Spread, Seams

LEMMA PacketParsed ==
  ASSUME DriverTyped, TurnInv, received' = received + 1, Offset = PacketLength - 1,
         stamped' = TRUE,
         frameTmp' = IF stamped THEN frameTmp \o PointsOf(CurrentPacket) ELSE frameTmp,
         UNCHANGED <<firstFrame, assembled, rx, slot>>,
         damaged' = {} => damaged = {}
  PROVE  TurnInv'
<1>1. received \in Nat /\ frameTmp \in Seq(Nat)
  BY DEF DriverTyped
<1>2. /\ NextPoint \in Nat /\ NextPoint' = NextPoint + PointsPerPacket
      /\ PointsPerPacket \in Nat /\ CurrentPacket \in Nat
  BY <1>1, NextPointGrows, TurnAssumption, Positions
<1>3. NextPoint' = (CurrentPacket + 1) * PointsPerPacket
  BY <1>2, PacketPoints DEF NextPoint
<1>4. CurrentPacket' = CurrentPacket + 1
  BY <1>1, Advance
<1>5. \A i \in 1..Len(frameTmp) : frameTmp[i] \in Nat /\ frameTmp[i] < NextPoint
  BY <1>1, Elements DEF TurnInv
<1>6. CASE stamped
  <2>1. frameTmp' = frameTmp \o PointsOf(CurrentPacket)
    BY <1>6
  <2>2. Spread(frameTmp') /\ \A i \in 1..Len(frameTmp') : frameTmp'[i] < NextPoint'
    BY <1>1, <1>2, <1>3, <2>1, SpreadAppended DEF TurnInv, NextPoint
  <2>3. /\ Len(frameTmp') = Len(frameTmp) + PointsPerPacket
        /\ \A i \in 1..Len(frameTmp') :
             frameTmp'[i] = IF i <= Len(frameTmp) THEN frameTmp[i]
                            ELSE NextPoint + (i - Len(frameTmp)) - 1
    <3>1. /\ PointsOf(CurrentPacket) \in Seq(Nat) /\ Len(PointsOf(CurrentPacket)) = PointsPerPacket
          /\ \A i \in 1..PointsPerPacket : PointsOf(CurrentPacket)[i] = NextPoint + i - 1
      BY <1>2, PacketPoints DEF NextPoint
    <3>2. /\ Len(frameTmp') = Len(frameTmp) + PointsPerPacket
          /\ \A i \in 1..(Len(frameTmp) + PointsPerPacket) :
               frameTmp'[i] = IF i <= Len(frameTmp) THEN frameTmp[i]
                              ELSE PointsOf(CurrentPacket)[i - Len(frameTmp)]
      <4>. DEFINE more == PointsOf(CurrentPacket)
      <4>1. more \in Seq(Nat) /\ Len(more) = PointsPerPacket /\ frameTmp' = frameTmp \o more
        BY <2>1, <3>1
      <4>. HIDE DEF more
      <4>2. /\ Len(frameTmp \o more) = Len(frameTmp) + Len(more)
            /\ \A i \in 1..(Len(frameTmp) + Len(more)) :
                 (frameTmp \o more)[i] = IF i <= Len(frameTmp) THEN frameTmp[i]
                                         ELSE more[i - Len(frameTmp)]
        BY <1>1, <4>1, ConcatProperties
      <4>. QED
        BY <4>1, <4>2 DEF more
    <3>3. ASSUME NEW i \in 1..(Len(frameTmp) + PointsPerPacket), ~(i <= Len(frameTmp))
          PROVE  PointsOf(CurrentPacket)[i - Len(frameTmp)] = NextPoint + (i - Len(frameTmp)) - 1
      <4>1. Len(frameTmp) \in Nat
        BY <1>1, Elements
      <4>2. i - Len(frameTmp) \in 1..PointsPerPacket
        BY <1>2, <3>3, <4>1
      <4>. QED
        BY <3>1, <4>2
    <3>. QED
      BY <3>2, <3>3
  <2>4. ASSUME damaged' = {}
        PROVE  /\ Unbroken'
               /\ rx' = "store" => Len(assembled') = PointsPerTurn
               /\ slot' # <<>> => Len(slot') = PointsPerTurn
    <3>1. /\ damaged = {}
          /\ \A i \in 1..Len(frameTmp) : frameTmp[i] = NextPoint - Len(frameTmp) + i - 1
          /\ ~firstFrame => frameTmp # <<>> /\ frameTmp[1] % PointsPerTurn = 0
      BY <2>4 DEF TurnInv, Unbroken
    <3>2. \A i \in 1..Len(frameTmp') : frameTmp'[i] = NextPoint' - Len(frameTmp') + i - 1
      <4>. DEFINE n == Len(frameTmp)
                  all == frameTmp'
                  next == NextPoint'
      <4>1. n \in Nat /\ next = NextPoint + PointsPerPacket /\ Len(all) = n + PointsPerPacket
        BY <1>1, <1>2, <2>3, Elements
      <4>2. /\ \A i \in 1..n : frameTmp[i] = NextPoint - n + i - 1
            /\ \A i \in 1..Len(all) : all[i] = IF i <= n THEN frameTmp[i]
                                              ELSE NextPoint + (i - n) - 1
        BY <2>3, <3>1
      <4>. HIDE DEF n, all, next
      <4>3. \A i \in 1..Len(all) : all[i] = next - Len(all) + i - 1
        BY <1>2, <4>1, <4>2
      <4>. QED
        BY <4>3 DEF all, next
    <3>3. ASSUME frameTmp # <<>>
          PROVE  frameTmp' # <<>> /\ frameTmp'[1] = frameTmp[1]
      <4>1. Len(frameTmp) \in Nat /\ Len(frameTmp) >= 1
        BY <1>1, <3>3, EmptySeq, LenProperties
      <4>2. Len(frameTmp') >= 1 /\ 1 \in 1..Len(frameTmp')
        BY <1>2, <2>3, <4>1
      <4>. QED
        BY <2>3, <4>1, <4>2
    <3>4. CurrentPacket' >= 1
      BY <1>2, <1>4
    <3>5. Unbroken'
      BY <3>1, <3>2, <3>3, <3>4 DEF Unbroken
    <3>. QED
      BY <3>1, <3>5 DEF TurnInv
  <2>. QED
    BY <2>2, <2>4 DEF TurnInv, Spread, Seams
<1>7. CASE ~stamped
  <2>1. frameTmp' = frameTmp
    BY <1>7
  <2>2. \A i \in 1..Len(frameTmp) : frameTmp[i] < NextPoint'
    <3>. DEFINE next == NextPoint'
    <3>1. next = NextPoint + PointsPerPacket
      BY <1>2
    <3>. HIDE DEF next
    <3>2. \A i \in 1..Len(frameTmp) : frameTmp[i] < next
      BY <1>2, <1>5, <3>1
    <3>. QED
      BY <3>2 DEF next
  <2>3. ASSUME damaged' = {}
        PROVE  /\ Unbroken'
               /\ rx' = "store" => Len(assembled') = PointsPerTurn
               /\ slot' # <<>> => Len(slot') = PointsPerTurn
    <3>1. damaged = {} /\ ~(CurrentPacket >= 1)
      BY <1>7, <2>3 DEF TurnInv, Unbroken
    <3>2. NextPoint = 0
      BY <1>2, <3>1 DEF NextPoint
    <3>3. frameTmp = <<>>
      <4>1. Len(frameTmp) \in Nat
        BY <1>1, Elements
      <4>2. ~(1 \in 1..Len(frameTmp))
        BY <1>5, <3>2
      <4>. QED
        BY <1>1, <4>1, <4>2, EmptySeq
    <3>4. firstFrame
      BY <3>1, <3>3 DEF TurnInv, Unbroken
    <3>5. CurrentPacket' >= 1 /\ Len(frameTmp') = 0
      BY <1>2, <1>4, <2>1, <3>3
    <3>6. Unbroken'
      BY <3>4, <3>5 DEF Unbroken
    <3>. QED
      BY <3>1, <3>6 DEF TurnInv
  <2>. QED
    BY <2>1, <2>2, <2>3 DEF TurnInv, Spread, Seams
<1>. QED
  BY <1>6, <1>7

LEMMA ReceiveTurns ==
  ASSUME DriverTyped, ParserInv, TurnInv, NEW value \in ByteValue, ReceiveByte(value)
  PROVE  TurnInv'
<1>1. /\ received' = received + 1 /\ ParseByte(value)
      /\ UNCHANGED <<firstFrame, assembled, rx, slot>>
      /\ damaged' = {} => damaged = {} /\ value = ByteAt(received)
  BY DEF ReceiveByte, handOver
<1>2. CASE Len(Block(value)) = PacketLength /\ Intact(Block(value))
  <2>1. Offset = PacketLength - 1
    BY <1>2, AcceptedAtEnd DEF ParserInv
  <2>2. /\ stamped' = TRUE
        /\ frameTmp' = IF stamped THEN frameTmp \o PointsOf(CurrentPacket) ELSE frameTmp
    BY <1>1, <1>2 DEF ParseByte, Block, Byte, CurrentPacket
  <2>. QED
    BY <1>1, <2>1, <2>2, PacketParsed
<1>3. CASE ~(Len(Block(value)) = PacketLength /\ Intact(Block(value)))
  <2>1. UNCHANGED <<stamped, frameTmp>>
    BY <1>1, <1>3 DEF ParseByte, Block, Byte
  <2>2. ASSUME damaged' = {}
        PROVE  Offset # PacketLength - 1
    <3>1. InStep /\ ParserTyped /\ value = ByteAt(received)
      BY <1>1, <2>2 DEF ParserInv
    <3>2. Len(Block(value)) = Offset + 1 /\ (Offset = PacketLength - 1 => Intact(Block(value)))
      BY <3>1, BlockInStep
    <3>3. PacketLength \in Nat
      BY PacketAssumption
    <3>. QED
      BY <1>3, <3>2, <3>3
  <2>. QED
    BY <1>1, <2>1, <2>2, NothingParsed
<1>. QED
  BY <1>2, <1>3

\* Both parts of a cut keep their order, and before the first seam there is none.
LEMMA CutSpread ==
  ASSUME NEW points \in Seq(Nat), NEW i \in 1..(Len(points) + 1), Spread(points)
  PROVE  Spread(From(points, i)) /\ Spread(SubSeq(points, 1, i - 1))
<1>. DEFINE n == Len(points)
            rest == From(points, i)
            head == SubSeq(points, 1, i - 1)
<1>1. /\ n \in Nat /\ i \in 1..(n + 1)
      /\ \A j, k \in 1..n : j <= k => points[k] - points[j] >= k - j
      /\ \A k \in 1..n : points[k] \in Nat
  BY Elements DEF Spread
<1>2. /\ Len(rest) = n - i + 1 /\ \A k \in 1..Len(rest) : rest[k] = points[i + k - 1]
      /\ Len(head) = i - 1 /\ \A k \in 1..(i - 1) : head[k] = points[k]
  BY CutParts
<1>. HIDE DEF n, rest, head
<1>3. ASSUME NEW j \in 1..Len(rest), NEW k \in 1..Len(rest), j <= k
      PROVE  rest[k] - rest[j] >= k - j
  <2>1. i + j - 1 \in 1..n /\ i + k - 1 \in 1..n /\ i + j - 1 <= i + k - 1
    BY <1>1, <1>2, <1>3
  <2>2. points[i + k - 1] - points[i + j - 1] >= (i + k - 1) - (i + j - 1)
    BY <1>1, <2>1
  <2>3. (i + k - 1) - (i + j - 1) = k - j
    BY <1>1, <1>2
  <2>. QED
    BY <1>2, <2>2, <2>3
<1>4. ASSUME NEW j \in 1..Len(head), NEW k \in 1..Len(head), j <= k
      PROVE  head[k] - head[j] >= k - j
  <2>1. j \in 1..n /\ k \in 1..n /\ j \in 1..(i - 1) /\ k \in 1..(i - 1)
    BY <1>1, <1>2
  <2>. QED
    BY <1>1, <1>2, <1>4, <2>1
<1>. QED
  BY <1>3, <1>4 DEF Spread, rest, head

LEMMA BeforeFirstSeam ==
  ASSUME NEW points \in Seq(Nat), NEW i \in Seams(points),
         \A j \in Seams(points) : j < i => FALSE
  PROVE  Seams(SubSeq(points, 1, i - 1)) = {}
<1>. DEFINE head == SubSeq(points, 1, i - 1)
<1>1. Len(points) \in Nat /\ i \in 2..Len(points)
  BY Elements DEF Seams
<1>2. i \in 1..(Len(points) + 1)
  BY <1>1
<1>3. Len(head) = i - 1 /\ \A k \in 1..(i - 1) : head[k] = points[k]
  BY <1>2, CutParts
<1>. HIDE DEF head
<1>4. ASSUME NEW j \in Seams(head)
      PROVE  FALSE
  <2>1. j \in 2..(i - 1) /\ Low(head[j]) /\ High(head[j - 1])
    BY <1>3 DEF Seams
  <2>2. j \in 1..(i - 1) /\ j - 1 \in 1..(i - 1) /\ j \in 2..Len(points) /\ j < i
    BY <1>1, <2>1
  <2>3. Low(points[j]) /\ High(points[j - 1])
    BY <1>3, <2>1, <2>2
  <2>. QED
    BY <2>2, <2>3 DEF Seams
<1>. QED
  BY <1>4 DEF head

\* What a stretch without a gap has to say of its first seam.
LEMMA UnbrokenIsConsecutive ==
  ASSUME DriverTyped, Unbroken
  PROVE  Consecutive(frameTmp)
<1>1. frameTmp \in Seq(Nat) /\ received \in Nat
  BY DEF DriverTyped
<1>2. CurrentPacket \in Nat /\ PointsPerPacket \in Nat
  BY <1>1, Positions, TurnAssumption
<1>3. NextPoint \in Nat /\ Len(frameTmp) \in Nat
  BY <1>1, <1>2, PacketPoints, Elements DEF NextPoint
<1>. DEFINE n == Len(frameTmp)
            first == frameTmp[1]
<1>4. \A i \in 1..n : frameTmp[i] = NextPoint - n + i - 1
  BY DEF Unbroken
<1>5. ASSUME NEW i \in 1..n
      PROVE  frameTmp[i] = first + i - 1
  <2>1. n \in Nat /\ 1 \in 1..n
    BY <1>3
  <2>2. first = NextPoint - n + 1 - 1
    BY <1>4, <2>1
  <2>3. frameTmp[i] = NextPoint - n + i - 1
    BY <1>4
  <2>. HIDE DEF n, first
  <2>. QED
    BY <1>3, <2>1, <2>2, <2>3
<1>. QED
  BY <1>5 DEF Consecutive

LEMMA CutTurns ==
  ASSUME DriverTyped, TurnInv, rx = "read", NEW i \in Seams(frameTmp), CutTurn(i),
         i <= TooManyForTwo,
         \A j \in Seams(frameTmp) : j <= TooManyForTwo => i <= j,
         UNCHANGED <<received, stamped, slot, damaged>>
  PROVE  TurnInv'
<1>1. frameTmp \in Seq(Nat) /\ Len(frameTmp) \in Nat /\ received \in Nat
  BY Elements DEF DriverTyped
<1>2. i \in 2..Len(frameTmp) /\ i \in 1..(Len(frameTmp) + 1)
  BY <1>1 DEF Seams
<1>3. Count(i) + 1 = i /\ Count(i) = i - 1
  BY <1>2 DEF Count
<1>4. /\ frameTmp' = From(frameTmp, i)
      /\ \/ UNCHANGED <<rx, assembled>>
         \/ ~firstFrame /\ rx' = "store" /\ assembled' = SubSeq(frameTmp, 1, i - 1)
  BY <1>3 DEF CutTurn
<1>5. Spread(frameTmp') /\ Spread(SubSeq(frameTmp, 1, i - 1))
  BY <1>1, <1>2, <1>4, CutSpread DEF TurnInv
<1>6. Seams(SubSeq(frameTmp, 1, i - 1)) = {}
  <2>1. TooManyForTwo \in Nat
    BY TurnAssumption DEF TooManyForTwo
  <2>2. ASSUME NEW j \in Seams(frameTmp), j < i
        PROVE  FALSE
    <3>1. j \in Nat
      BY <1>1 DEF Seams
    <3>2. j <= TooManyForTwo
      BY <1>2, <2>1, <2>2, <3>1
    <3>3. i <= j
      BY <3>2
    <3>. QED
      BY <1>2, <2>2, <3>1, <3>3
  <2>. QED
    BY <1>1, <2>2, BeforeFirstSeam
<1>7. /\ Len(frameTmp') = Len(frameTmp) - i + 1
      /\ \A k \in 1..Len(frameTmp') : frameTmp'[k] = frameTmp[i + k - 1]
      /\ Len(SubSeq(frameTmp, 1, i - 1)) = i - 1
  BY <1>1, <1>2, <1>4, CutParts
<1>8. CurrentPacket' = CurrentPacket /\ NextPoint' = NextPoint
  BY DEF CurrentPacket, NextPoint
<1>9. \A k \in 1..Len(frameTmp') : i + k - 1 \in 1..Len(frameTmp)
  <2>. DEFINE n == Len(frameTmp)
              m == Len(frameTmp')
  <2>1. n \in Nat /\ m = n - i + 1 /\ i \in 2..n
    BY <1>1, <1>2, <1>7
  <2>. HIDE DEF n, m
  <2>2. \A k \in 1..m : i + k - 1 \in 1..n
    BY <2>1
  <2>. QED
    BY <2>2 DEF n, m
<1>10. \A k \in 1..Len(frameTmp') : frameTmp'[k] < NextPoint'
  BY <1>7, <1>8, <1>9 DEF TurnInv
<1>11. ASSUME damaged' = {}
       PROVE  /\ Unbroken'
              /\ rx' = "store" => Len(assembled') = PointsPerTurn
              /\ slot' # <<>> => Len(slot') = PointsPerTurn
  <2>1. Unbroken /\ (slot # <<>> => Len(slot) = PointsPerTurn)
    BY <1>11 DEF TurnInv
  <2>2. Consecutive(frameTmp)
    BY <2>1, UnbrokenIsConsecutive
  <2>3. frameTmp[i] % PointsPerTurn = 0
    BY <1>1, <1>2, <2>2, SeamAt
  <2>4. frameTmp' # <<>> /\ frameTmp'[1] % PointsPerTurn = 0
    <3>1. Len(frameTmp') >= 1 /\ 1 \in 1..Len(frameTmp')
      BY <1>1, <1>2, <1>7
    <3>2. i + 1 - 1 = i
      BY <1>2
    <3>. QED
      BY <1>7, <2>3, <3>1, <3>2
  <2>5. \A k \in 1..Len(frameTmp') : frameTmp'[k] = NextPoint' - Len(frameTmp') + k - 1
    <3>. DEFINE n == Len(frameTmp)
                m == Len(frameTmp')
    <3>1. /\ n \in Nat /\ m = n - i + 1 /\ i \in 2..n /\ NextPoint' = NextPoint
          /\ \A k \in 1..n : frameTmp[k] = NextPoint - n + k - 1
      BY <1>1, <1>2, <1>7, <1>8, <2>1 DEF Unbroken
    <3>2. NextPoint \in Nat
      <4>1. CurrentPacket \in Nat
        BY <1>1, Positions
      <4>. QED
        BY <4>1, PacketPoints DEF NextPoint
    <3>3. \A k \in 1..m : frameTmp'[k] = frameTmp[i + k - 1] /\ i + k - 1 \in 1..n
      BY <1>7, <1>9
    <3>. HIDE DEF n, m
    <3>4. ASSUME NEW k \in 1..m
          PROVE  frameTmp'[k] = NextPoint - m + k - 1
      <4>1. frameTmp'[k] = NextPoint - n + (i + k - 1) - 1
        BY <3>1, <3>3
      <4>. QED
        BY <3>1, <3>2, <4>1
    <3>. QED
      BY <3>1, <3>4 DEF m
  <2>6. ASSUME rx' = "store"
        PROVE  Len(assembled') = PointsPerTurn
    <3>1. ~firstFrame /\ Len(assembled') = i - 1
      BY <1>4, <1>7, <2>6
    <3>2. frameTmp[1] % PointsPerTurn = 0
      BY <2>1, <3>1 DEF Unbroken
    <3>3. PointsPerTurn \in Nat \ {0}
      BY TurnAssumption
    <3>4. i >= PointsPerTurn + 1
      BY <1>1, <2>2, <3>2, WithinTurn
    <3>5. PointsPerTurn + 1 \in Seams(frameTmp)
      <4>. DEFINE j == PointsPerTurn + 1
      <4>1. j \in 2..Len(frameTmp) /\ (frameTmp[1] % PointsPerTurn) + j - 1 = PointsPerTurn
        BY <1>1, <1>2, <3>2, <3>3, <3>4
      <4>. HIDE DEF j
      <4>2. j \in Seams(frameTmp)
        BY <1>1, <2>2, <4>1, EndOfTurn
      <4>. QED
        BY <4>2 DEF j
    <3>6. PointsPerTurn + 1 <= TooManyForTwo
      BY <3>3 DEF TooManyForTwo
    <3>7. i = PointsPerTurn + 1
      BY <1>2, <3>3, <3>4, <3>5, <3>6
    <3>. QED
      BY <3>1, <3>3, <3>7
  <2>7. Unbroken'
    BY <1>8, <2>1, <2>4, <2>5 DEF Unbroken
  <2>. QED
    BY <2>1, <2>6, <2>7
<1>. QED
  BY <1>4, <1>5, <1>6, <1>10, <1>11 DEF TurnInv, Spread, Seams

\* Two turns without a seam are given up; without a gap there are none such.
LEMMA GiveUpTurns ==
  ASSUME DriverTyped, TurnInv, rx = "read",
         {i \in Seams(frameTmp) : i <= TooManyForTwo} = {},
         frameTmp' = IF Len(frameTmp) < TooManyForTwo THEN frameTmp
                     ELSE From(frameTmp, TooManyForTwo + 1),
         UNCHANGED <<received, stamped, slot, damaged, firstFrame, rx, assembled>>
  PROVE  TurnInv'
<1>1. frameTmp \in Seq(Nat) /\ Len(frameTmp) \in Nat
  BY Elements DEF DriverTyped
<1>2. PointsPerTurn \in Nat \ {0} /\ TooManyForTwo \in Nat /\ TooManyForTwo >= PointsPerTurn + 1
  BY TurnAssumption DEF TooManyForTwo
<1>3. CurrentPacket' = CurrentPacket /\ NextPoint' = NextPoint
  BY DEF CurrentPacket, NextPoint
<1>4. CASE frameTmp' = frameTmp
  BY <1>3, <1>4 DEF TurnInv, Spread, Seams, Unbroken
<1>5. CASE Len(frameTmp) >= TooManyForTwo /\ frameTmp' = From(frameTmp, TooManyForTwo + 1)
  <2>. DEFINE i == TooManyForTwo + 1
  <2>1. i \in 1..(Len(frameTmp) + 1) /\ frameTmp' = From(frameTmp, i) /\ i \in Nat
    BY <1>1, <1>2, <1>5
  <2>. HIDE DEF i
  <2>2. Spread(frameTmp')
    BY <1>1, <2>1, CutSpread DEF TurnInv
  <2>3. \A k \in 1..Len(frameTmp') : frameTmp'[k] < NextPoint'
    <3>1. /\ Len(frameTmp') = Len(frameTmp) - i + 1
          /\ \A k \in 1..Len(frameTmp') : frameTmp'[k] = frameTmp[i + k - 1]
      BY <1>1, <2>1, CutParts
    <3>2. \A k \in 1..Len(frameTmp') : i + k - 1 \in 1..Len(frameTmp)
      <4>. DEFINE n == Len(frameTmp)
                  m == Len(frameTmp')
      <4>1. n \in Nat /\ m = n - i + 1 /\ i \in 1..(n + 1)
        BY <1>1, <2>1, <3>1
      <4>. HIDE DEF n, m
      <4>2. \A k \in 1..m : i + k - 1 \in 1..n
        BY <4>1
      <4>. QED
        BY <4>2 DEF n, m
    <3>. QED
      BY <1>3, <3>1, <3>2 DEF TurnInv
  <2>4. ASSUME damaged' = {}
        PROVE  FALSE
    <3>1. Consecutive(frameTmp)
      BY <2>4, UnbrokenIsConsecutive DEF TurnInv
    <3>. DEFINE k == frameTmp[1] % PointsPerTurn
                j == PointsPerTurn - k + 1
    <3>2. k \in 0..(PointsPerTurn - 1)
      <4>1. 1 \in 1..Len(frameTmp)
        BY <1>1, <1>2, <1>5
      <4>2. frameTmp[1] \in Nat
        BY <1>1, <4>1, Elements
      <4>. QED
        BY <1>2, <4>2, Division
    <3>3. /\ j \in 2..Len(frameTmp) /\ j <= TooManyForTwo
          /\ k + j - 1 = PointsPerTurn
      <4>. HIDE DEF k
      <4>. QED
        BY <1>1, <1>2, <1>5, <3>2
    <3>4. j \in Seams(frameTmp)
      <4>. HIDE DEF j
      <4>. QED
        BY <1>1, <3>1, <3>3, EndOfTurn
    <3>. QED
      BY <3>3, <3>4
  <2>. QED
    BY <2>2, <2>3, <2>4 DEF TurnInv, Spread, Seams
<1>. QED
  BY <1>1, <1>2, <1>4, <1>5

LEMMA AssembleTurns ==
  ASSUME DriverTyped, TurnInv, Assemble
  PROVE  TurnInv'
<1>1. rx = "read" /\ UNCHANGED <<received, stamped, slot, damaged>>
  BY DEF Assemble, stream, parser, handOver
<1>2. ASSUME NEW i \in Seams(frameTmp), i <= TooManyForTwo, CutTurn(i),
             \A j \in {j \in Seams(frameTmp) : j <= TooManyForTwo} : i <= j
      PROVE  TurnInv'
  BY <1>1, <1>2, CutTurns
<1>3. ASSUME {i \in Seams(frameTmp) : i <= TooManyForTwo} = {},
             frameTmp' = IF Len(frameTmp) < TooManyForTwo THEN frameTmp
                         ELSE From(frameTmp, TooManyForTwo + 1),
             UNCHANGED <<firstFrame, rx, assembled>>
      PROVE  TurnInv'
  BY <1>1, <1>3, GiveUpTurns
<1>. QED
  BY <1>2, <1>3 DEF Assemble

LEMMA TurnsKept ==
  ASSUME DriverTyped, ParserInv, TurnInv, [Next]_vars
  PROVE  TurnInv'
<1>1. CASE Receive
  BY <1>1, ReceiveTurns DEF Receive
<1>2. CASE LoseByte
  <2>1. /\ received' = received + 1 /\ damaged' # {}
        /\ UNCHANGED <<stamped, frameTmp, firstFrame, assembled, rx, slot>>
    BY <1>2 DEF LoseByte, parser, assembly, handOver
  <2>. QED
    BY <2>1, NothingParsed
<1>3. CASE Assemble
  BY <1>3, AssembleTurns
<1>4. ASSUME UNCHANGED <<received, stamped, frameTmp, firstFrame, damaged, assembled>>,
             slot' = slot \/ (slot' = assembled /\ rx = "store"),
             rx' = "store" => rx = "store"
      PROVE  TurnInv'
  <2>1. CurrentPacket' = CurrentPacket /\ NextPoint' = NextPoint
    BY <1>4 DEF CurrentPacket, NextPoint
  <2>2. Unbroken => Unbroken'
    BY <1>4, <2>1 DEF Unbroken
  <2>. QED
    BY <1>4, <2>1, <2>2 DEF TurnInv, Spread, Seams
<1>5. CASE HandOver
  BY <1>4, <1>5 DEF HandOver, StoreScan, AnnounceScan, stream, parser, assembly, handOver
<1>6. CASE ExitThread \/ MainThread \/ Stop
  BY <1>4, <1>6 DEF ExitThread, MainThread, Connect, PollScan, ResetReady, TakeScan, Join, Stop,
     stream, parser, assembly, handOver
<1>7. CASE UNCHANGED vars
  BY <1>4, <1>7 DEF vars, stream, parser, assembly, handOver
<1>. QED
  BY <1>1, <1>2, <1>3, <1>5, <1>6, <1>7 DEF Next, RxThreadProc

LEMMA TurnsStart ==
  ASSUME Init
  PROVE  DriverTyped /\ TurnInv
<1>1. /\ received = 0 /\ frameTmp = <<>> /\ assembled = <<>> /\ slot = <<>> /\ damaged = {}
      /\ stamped = FALSE /\ firstFrame = TRUE /\ rx = "read"
      /\ published = [scan |-> <<>>, stamp |-> 0] /\ setBack = FALSE /\ firstScan = TRUE
  BY DEF Init
<1>2. DriverTyped
  <2>1. setBack \in BOOLEAN /\ firstScan \in BOOLEAN
    BY <1>1
  <2>2. published \in [scan : Seq(Nat), stamp : Int]
    BY <1>1, EmptySeq
  <2>. QED
    BY <1>1, <2>1, <2>2, EmptySeq DEF DriverTyped
<1>3. CurrentPacket = 0
  <2>1. PacketLength \in Nat \ {0}
    BY PacketAssumption
  <2>. QED
    BY <1>1, <2>1 DEF CurrentPacket, Packet
<1>4. Unbroken
  BY <1>1, <1>3 DEF Unbroken
<1>. QED
  BY <1>1, <1>2, <1>4 DEF TurnInv, Spread, Seams

LEMMA SlotIsOneTurn ==
  ASSUME DriverTyped, TurnInv
  PROVE  ScanIsOneTurn
<1>. SUFFICES ASSUME slot # <<>>
              PROVE  /\ (LastPoint(slot) - slot[1] + 1 = Len(slot)) =>
                          Turn(slot[1]) = Turn(LastPoint(slot))
                     /\ damaged = {} => Len(slot) = PointsPerTurn
  BY DEF ScanIsOneTurn
<1>1. slot \in Seq(Nat) /\ Spread(slot) /\ Seams(slot) = {}
  BY DEF DriverTyped, TurnInv
<1>2. LastPoint(slot) = slot[Len(slot)]
  BY DEF LastPoint
<1>3. ASSUME slot[Len(slot)] - slot[1] + 1 = Len(slot)
      PROVE  Turn(slot[1]) = Turn(slot[Len(slot)])
  BY <1>1, <1>3, SpreadWithoutGap, OneTurn
<1>. QED
  BY <1>2, <1>3 DEF TurnInv

\* A turn that is handed over without a gap lies in one turn, and as long as
\* nothing was damaged it is the whole of it, however the reads cut the stream.
THEOREM TurnsAreCutAtSeam == PipelineSpec => []ScanIsOneTurn
<1>. DEFINE Inv == DriverTyped /\ ParserInv /\ TurnInv
<1>1. PipelineInit => Inv
  BY ParserStarts, TurnsStart DEF PipelineInit
<1>2. Inv /\ [PipelineNext]_pipelineVars => Inv'
  <2>1. [PipelineNext]_pipelineVars => [Next]_vars
    BY DEF PipelineNext, DriverStep, pipelineVars
  <2>. QED
    BY <2>1, DriverTypes, ParserKept, TurnsKept
<1>3. Inv => ScanIsOneTurn
  BY SlotIsOneTurn
<1>. QED
  BY <1>1, <1>2, <1>3, PTL DEF PipelineSpec

-----------------------------------------------------------------------------
(***************************************************************************)
(* The odometry.  Unless the clock is set, times rise from the estimate to *)
(* the last scan, to the scan that waits and to the newest message.        *)
(***************************************************************************)
OdometryTyped ==
  /\ inbox \in Scan \cup {NoScan} /\ lastScan \in Scan \cup {NoScan}
  /\ reference \in Scan \cup {NoScan} /\ origin \in Scan \cup {NoScan}
  /\ available \in BOOLEAN /\ unfound \in BOOLEAN
  /\ pose \in Int /\ missed \in Int /\ lastOdomTime \in Int

TimesRise ==
  ~setBack =>
    /\ lastOdomTime <= lastScan.stamp /\ lastScan.stamp <= published.stamp
    /\ (available /\ reference # NoScan) => lastOdomTime < lastScan.stamp
    /\ inbox # NoScan => lastScan.stamp < inbox.stamp /\ inbox.stamp <= published.stamp

OdometryInv ==
  /\ DriverTyped
  /\ OdometryTyped
  /\ TimesRise
  /\ initialized => lastScan # NoScan
  /\ ~initialized => reference = NoScan
  /\ reference = NoScan => pose = 0 /\ missed = 0
  /\ PoseExplained
  /\ SpeedOverItsTime

LEMMA NoScanTyped == NoScan \notin Scan /\ NoScan.stamp = 0 /\ NoScan.place = -1
BY DEF NoScan, Scan

LEMMA Stamps ==
  ASSUME OdometryInv
  PROVE  /\ inbox.stamp \in Int /\ lastScan.stamp \in Int /\ reference.stamp \in Int
         /\ lastScan.place \in Int /\ reference.place \in Int /\ origin.place \in Int
         /\ published.stamp \in Int /\ lastOdomTime \in Int
<1>1. \A scan \in Scan \cup {NoScan} : scan.stamp \in Int /\ scan.place \in Int
  BY NoScanTyped DEF Scan
<1>. QED
  BY <1>1 DEF OdometryInv, OdometryTyped, DriverTyped

\* Whatever the driver does, and whether its message arrives or not.
LEMMA DriverKeepsOdometry ==
  ASSUME OdometryInv, DriverStep
  PROVE  OdometryInv'
<1>1. /\ UNCHANGED <<lastScan, available, initialized, reference, pose, lastOdomTime, speed,
                     origin, missed, unfound>>
      /\ DriverTyped'
  BY DriverTypes DEF DriverStep, estimate, OdometryInv
<1>2. NoScan' = NoScan /\ Scan' = Scan
  BY DEF NoScan, Scan
<1>3. ~setBack' => ~setBack /\ published'.stamp >= published.stamp
  <2>1. CASE Publishes
    BY <1>1, <2>1, Published DEF DriverStep, OdometryInv, DriverTyped
  <2>2. CASE ~Publishes
    BY <1>1, <2>2, NotPublished DEF DriverStep, OdometryInv, DriverTyped
  <2>. QED
    BY <2>1, <2>2
<1>4. /\ initialized' => lastScan' # NoScan'
      /\ ~initialized' => reference' = NoScan'
      /\ reference' = NoScan' => pose' = 0 /\ missed' = 0
      /\ PoseExplained'
  BY <1>1, <1>2 DEF OdometryInv, PoseExplained
<1>5. SpeedOverItsTime'
  BY <1>1, <1>2, <1>3 DEF OdometryInv, SpeedOverItsTime
<1>6. published'.stamp \in Int
  BY <1>1 DEF DriverTyped
<1>7. CASE inbox' = inbox
  <2>1. TimesRise'
    BY <1>1, <1>2, <1>3, <1>6, <1>7, Stamps DEF OdometryInv, TimesRise
  <2>2. OdometryTyped'
    BY <1>1, <1>2, <1>7 DEF OdometryInv, OdometryTyped
  <2>. QED
    BY <1>1, <1>4, <1>5, <2>1, <2>2 DEF OdometryInv
<1>8. CASE Publishes /\ inbox' = AsScan(published')
  <2>1. /\ inbox' \in Scan /\ inbox'.stamp = published'.stamp
        /\ ~setBack' => published'.stamp > published.stamp
    BY <1>1, <1>8, Published DEF DriverStep, OdometryInv
  <2>2. TimesRise'
    BY <1>1, <1>2, <1>3, <1>6, <2>1, Stamps DEF OdometryInv, TimesRise
  <2>3. OdometryTyped'
    BY <1>1, <1>2, <2>1 DEF OdometryInv, OdometryTyped
  <2>. QED
    BY <1>1, <1>4, <1>5, <2>2, <2>3 DEF OdometryInv
<1>. QED
  BY <1>7, <1>8 DEF DriverStep, Arrives, GetsLost

\* A scan that waits is read; only its time and its place count.
LEMMA ReadKeepsOdometry ==
  ASSUME OdometryInv, inbox # NoScan, inbox' = NoScan, lastScan' = inbox,
         available' \in BOOLEAN,
         UNCHANGED <<vars, reference, pose, speed, origin, missed, unfound>>,
         ~initialized' => reference = NoScan,
         lastOdomTime' \in Int, ~setBack => lastOdomTime' <= inbox.stamp,
         (~setBack /\ reference # NoScan) => lastOdomTime' < inbox.stamp,
         reference # NoScan => lastOdomTime' = lastOdomTime
  PROVE  OdometryInv'
<1>1. DriverTyped' /\ published' = published /\ setBack' = setBack
  BY DriverTypes DEF OdometryInv, vars, reader
<1>2. NoScan' = NoScan /\ Scan' = Scan
  BY DEF NoScan, Scan
<1>3. OdometryTyped'
  BY <1>2 DEF OdometryInv, OdometryTyped
<1>4. TimesRise'
  <2>1. ~setBack => inbox.stamp <= published.stamp
    BY DEF OdometryInv, TimesRise
  <2>. QED
    BY <1>1, <1>2, <2>1 DEF TimesRise
<1>5. /\ initialized' => lastScan' # NoScan'
      /\ ~initialized' => reference' = NoScan'
      /\ reference' = NoScan' => pose' = 0 /\ missed' = 0
      /\ PoseExplained' /\ SpeedOverItsTime'
  BY <1>1, <1>2 DEF OdometryInv, PoseExplained, SpeedOverItsTime
<1>. QED
  BY <1>1, <1>3, <1>4, <1>5 DEF OdometryInv

LEMMA InitKeepsOdometry ==
  ASSUME OdometryInv, NEW found \in BOOLEAN, LaserCallBackInit(found), UNCHANGED vars
  PROVE  OdometryInv'
<1>1. /\ inbox # NoScan /\ inbox' = NoScan /\ lastScan' = inbox /\ reference = NoScan
      /\ UNCHANGED <<reference, pose, speed, origin, missed, unfound, available>>
  BY DEF LaserCallBackInit, Spins, OdometryInv
<1>2. ~setBack => lastScan.stamp < inbox.stamp /\ lastOdomTime <= lastScan.stamp
  BY <1>1 DEF OdometryInv, TimesRise
<1>3. lastOdomTime' = inbox.stamp \/ lastOdomTime' = lastOdomTime
  BY DEF LaserCallBackInit
<1>4. lastOdomTime' \in Int /\ (~setBack => lastOdomTime' <= inbox.stamp)
  BY <1>2, <1>3, Stamps
<1>5. available' \in BOOLEAN
  BY <1>1 DEF OdometryInv, OdometryTyped
<1>. QED
  BY <1>1, <1>4, <1>5, ReadKeepsOdometry

LEMMA CallBackKeepsOdometry ==
  ASSUME OdometryInv, LaserCallBack, UNCHANGED vars
  PROVE  OdometryInv'
<1>1. /\ inbox # NoScan /\ inbox' = NoScan /\ lastScan' = inbox
      /\ available' = TRUE /\ initialized /\ initialized' = initialized
      /\ UNCHANGED <<reference, pose, speed, origin, missed, unfound, lastOdomTime>>
  BY DEF LaserCallBack, Spins, estimate
<1>2. ~setBack => lastScan.stamp < inbox.stamp /\ lastOdomTime <= lastScan.stamp
  BY <1>1 DEF OdometryInv, TimesRise
<1>3. /\ lastOdomTime' \in Int
      /\ ~setBack => lastOdomTime' < inbox.stamp /\ lastOdomTime' <= inbox.stamp
  BY <1>1, <1>2, Stamps
<1>4. available' \in BOOLEAN
  BY <1>1
<1>. QED
  BY <1>1, <1>3, <1>4, ReadKeepsOdometry

\* An estimate moves the reference, and the pose or the motion missed with it.
LEMMA ProcessKeepsOdometry ==
  ASSUME OdometryInv, NEW outcome \in {"found", "skipped", "unfound"}, Process(outcome),
         UNCHANGED vars
  PROVE  OdometryInv'
<1>1. /\ initialized /\ available /\ available' = FALSE /\ reference' = lastScan
      /\ reference = NoScan => outcome = "skipped"
      /\ missed' = IF outcome = "found" THEN missed ELSE missed + Motion
      /\ origin' = IF reference = NoScan THEN lastScan ELSE origin
      /\ UNCHANGED <<inbox, lastScan, initialized>>
  BY DEF Process, OdometryCalculation, PushFrame
<1>2. /\ DriverTyped' /\ published' = published /\ setBack' = setBack
      /\ NoScan' = NoScan /\ Scan' = Scan
  BY DriverTypes DEF OdometryInv, vars, reader, NoScan, Scan
<1>3. lastScan # NoScan
  BY <1>1 DEF OdometryInv
<1>4. Motion \in Int /\ (reference = NoScan => Motion = 0)
      /\ (reference # NoScan => Motion = lastScan.place - reference.place)
  BY Stamps DEF Motion
<1>5. /\ origin'.place \in Int /\ origin' \in Scan \cup {NoScan}
      /\ lastScan \in Scan \cup {NoScan}
  BY <1>1, Stamps DEF OdometryInv, OdometryTyped
<1>6. pose \in Int /\ missed \in Int
  BY DEF OdometryInv, OdometryTyped
<1>7. pose + missed + Motion = lastScan.place - origin'.place
  <2>1. CASE reference = NoScan
    BY <1>1, <1>4, <1>6, <2>1, Stamps DEF OdometryInv
  <2>2. CASE reference # NoScan
    <3>1. pose + missed = reference.place - origin.place
      BY <2>2 DEF OdometryInv, PoseExplained
    <3>. QED
      BY <1>1, <1>4, <1>6, <2>2, <3>1, Stamps
  <2>. QED
    BY <2>1, <2>2
<1>8. ~setBack => lastOdomTime <= lastScan.stamp /\ lastScan.stamp <= published.stamp
  BY DEF OdometryInv, TimesRise
<1>9. ASSUME pose' + missed' = pose + missed + Motion, pose' \in Int, missed' \in Int,
             lastOdomTime' = lastScan.stamp \/ (unfound' /\ lastOdomTime' = lastOdomTime),
             unfound' \in BOOLEAN, SpeedOverItsTime'
      PROVE  OdometryInv'
  <2>1. lastOdomTime' \in Int
    BY <1>9, Stamps
  <2>2. OdometryTyped'
    BY <1>1, <1>2, <1>5, <1>9, <2>1 DEF OdometryInv, OdometryTyped
  <2>3. TimesRise'
    BY <1>1, <1>2, <1>8, <1>9, Stamps DEF OdometryInv, TimesRise
  <2>4. PoseExplained'
    BY <1>1, <1>2, <1>7, <1>9 DEF PoseExplained
  <2>. QED
    BY <1>1, <1>2, <1>3, <1>9, <2>2, <2>3, <2>4 DEF OdometryInv
<1>10. ASSUME NEW motion, PoseUpdate(motion)
       PROVE  lastOdomTime' = lastScan.stamp /\ SpeedOverItsTime'
  <2>1. /\ lastOdomTime' = lastScan.stamp
        /\ speed'.time = lastScan.stamp - lastOdomTime
        /\ speed'.from = reference /\ speed'.to = lastScan /\ speed'.late = unfound
    BY <1>10 DEF PoseUpdate
  <2>2. ASSUME reference # NoScan
        PROVE  /\ ~setBack => lastOdomTime < lastScan.stamp
               /\ unfound \/ lastOdomTime = reference.stamp
    BY <1>1, <2>2 DEF OdometryInv, TimesRise, PoseExplained
  <2>3. ASSUME reference # NoScan
        PROVE  speed'.time > 0 \/ setBack
    BY <2>1, <2>2, <2>3, Stamps
  <2>. QED
    BY <1>2, <2>1, <2>2, <2>3 DEF SpeedOverItsTime
<1>11. CASE outcome = "found"
  <2>1. PoseUpdate(Motion) /\ missed' = missed /\ unfound' = FALSE
    BY <1>1, <1>11 DEF Process, OdometryCalculation
  <2>2. pose' = pose + Motion
    BY <2>1 DEF PoseUpdate
  <2>3. pose' \in Int /\ missed' \in Int /\ pose' + missed' = pose + missed + Motion
    BY <1>4, <1>6, <2>1, <2>2
  <2>. QED
    BY <1>9, <1>10, <2>1, <2>3
<1>12. CASE outcome = "skipped"
  <2>1. PoseUpdate(0) /\ missed' = missed + Motion /\ unfound' = FALSE
    BY <1>1, <1>12 DEF Process, OdometryCalculation
  <2>2. pose' = pose + 0
    BY <2>1 DEF PoseUpdate
  <2>3. pose' \in Int /\ missed' \in Int /\ pose' + missed' = pose + missed + Motion
    BY <1>4, <1>6, <2>1, <2>2
  <2>. QED
    BY <1>9, <1>10, <2>1, <2>3
<1>13. CASE outcome = "unfound"
  <2>1. KeepPose /\ missed' = missed + Motion /\ unfound' = TRUE
    BY <1>1, <1>13 DEF Process, OdometryCalculation
  <2>2. pose' = pose /\ speed' = speed /\ lastOdomTime' = lastOdomTime
    BY <2>1 DEF KeepPose
  <2>3. pose' \in Int /\ missed' \in Int /\ pose' + missed' = pose + missed + Motion
    BY <1>4, <1>6, <2>1, <2>2
  <2>4. SpeedOverItsTime'
    BY <1>2, <2>2 DEF OdometryInv, SpeedOverItsTime
  <2>. QED
    BY <1>9, <2>1, <2>2, <2>3, <2>4
<1>. QED
  BY <1>11, <1>12, <1>13

LEMMA NextKeepsOdometry ==
  ASSUME OdometryInv, [PipelineNext]_pipelineVars
  PROVE  OdometryInv'
<1>1. CASE DriverStep
  BY <1>1, DriverKeepsOdometry
<1>2. ASSUME NEW found \in BOOLEAN, LaserCallBackInit(found), UNCHANGED vars
      PROVE  OdometryInv'
  BY <1>2, InitKeepsOdometry
<1>3. CASE LaserCallBack /\ UNCHANGED vars
  BY <1>3, CallBackKeepsOdometry
<1>4. ASSUME NEW outcome \in {"found", "skipped", "unfound"}, Process(outcome), UNCHANGED vars
      PROVE  OdometryInv'
  BY <1>4, ProcessKeepsOdometry
<1>5. CASE UNCHANGED pipelineVars
  <2>1. /\ UNCHANGED <<inbox, lastScan, available, initialized, reference, pose, lastOdomTime,
                       speed, origin, missed, unfound>>
        /\ UNCHANGED vars
    BY <1>5 DEF pipelineVars, odometryVars, estimate
  <2>2. DriverTyped' /\ published' = published /\ setBack' = setBack
    BY <2>1, DriverTypes DEF OdometryInv, vars, reader
  <2>. QED
    BY <2>1, <2>2 DEF OdometryInv, OdometryTyped, TimesRise, PoseExplained, SpeedOverItsTime,
       NoScan, Scan
<1>. QED
  BY <1>1, <1>2, <1>3, <1>4, <1>5 DEF PipelineNext, OdometryStep

THEOREM OdometryInvariance == PipelineSpec => []OdometryInv
<1>1. PipelineInit => OdometryInv
  <2>. SUFFICES ASSUME PipelineInit
                PROVE  OdometryInv
    OBVIOUS
  <2>1. DriverTyped
    BY TurnsStart DEF PipelineInit
  <2>2. OdometryTyped
    <3>1. available \in BOOLEAN /\ unfound \in BOOLEAN
      BY DEF PipelineInit, OdometryInit
    <3>2. pose \in Int /\ missed \in Int /\ lastOdomTime \in Int
      BY DEF PipelineInit, OdometryInit
    <3>3. inbox = NoScan /\ lastScan = NoScan /\ reference = NoScan /\ origin = NoScan
      BY DEF PipelineInit, OdometryInit
    <3>. QED
      BY <3>1, <3>2, <3>3 DEF OdometryTyped
  <2>3. /\ lastScan.stamp = 0 /\ published.stamp = 0 /\ lastOdomTime = 0 /\ inbox = NoScan
        /\ reference = NoScan
    BY NoScanTyped DEF PipelineInit, Init, OdometryInit
  <2>4. TimesRise
    BY <2>3 DEF TimesRise
  <2>5. pose = 0 /\ missed = 0 /\ speed.from = NoScan /\ initialized = FALSE
    BY DEF PipelineInit, OdometryInit
  <2>. QED
    BY <2>1, <2>2, <2>3, <2>4, <2>5 DEF OdometryInv, PoseExplained, SpeedOverItsTime
<1>2. OdometryInv /\ [PipelineNext]_pipelineVars => OdometryInv'
  BY NextKeepsOdometry
<1>. QED
  BY <1>1, <1>2, PTL DEF PipelineSpec

\* The pose accounts for every motion between the origin and the reference but that
\* of estimates skipped or unfound, for any number of scans lost or replaced.
THEOREM PoseAccounts == PipelineSpec => []PoseExplained
<1>1. OdometryInv => PoseExplained
  BY DEF OdometryInv
<1>. QED
  BY <1>1, OdometryInvariance, PTL

\* Whatever the clock does and new_scan_available starts with, a speed is over the time
\* between the scans it was measured between, and over none only if the clock was set.
THEOREM SpeedTimed == PipelineSpec => []SpeedOverItsTime
<1>1. OdometryInv => SpeedOverItsTime
  BY DEF OdometryInv
<1>. QED
  BY <1>1, OdometryInvariance, PTL
=============================================================================
