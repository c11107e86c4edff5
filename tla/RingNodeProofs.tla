--------------------------- MODULE RingNodeProofs ---------------------------
(***************************************************************************)
(* Proofs about RingNode: either dump module, and a parser that may be     *)
(* restarted; with one DMA device, what is decoded and extracted is whole. *)
(***************************************************************************)
EXTENDS RingNode, MirrorRingProofs

-----------------------------------------------------------------------------
(* The inductive invariants.                                               *)

\* The software dump has no copies of the other in flight, and tells the
\* reader nothing; what it is copying is the latest packet it took.
SoftInv ==
  /\ rpc = "dequeue" /\ asked = 0 /\ nb_dq = 0 /\ batch = 0 /\ i = 0
  /\ jobs = [d \in Dev |-> <<>>]
  /\ already_write_index = 0 /\ read_index = 0 /\ ppc = "check"
  /\ rlap = 0 /\ extractor_read_index = 0
  /\ (spc = "poll") <=> (nb_rx = 0)
  /\ (spc \in {"head", "tail"}) <=> (copying # NoPacket)
  /\ copying # NoPacket =>
       /\ copying \in Packet /\ copying.slot = slot /\ copying.lap <= lap
       /\ pac_len[slot] = copying
  /\ spc = "tail" => headPart[slot] = copying
  /\ \A s \in Slot : (copying # NoPacket /\ s = slot) \/
       (headPart[s] = pac_len[s] /\ tailPart[s] = pac_len[s])

NodeInv ==
  /\ RingInv
  /\ NodeTypeOK
  /\ dumper = "software" => SoftInv
  /\ ppc = "write" => accepted \in Packet

-----------------------------------------------------------------------------
(* One DMA device.                                                         *)

\* How many packets the parser is through with.
Decoded == rlap * BUFFER_SIZE + read_index

\* The packets announced if already_write_index went around the ring a times,
\* and with them those counted since.
UpTo(a) == a * BUFFER_SIZE + already_write_index
Counted(a) == UpTo(a) + nb_dq

\* The device's copies in the order it has them.
Jobs == jobs[0]
InHand == done[0] + 1

JobOrder ==
  \A k \in 1 .. Len(Jobs) :
    /\ Position(Jobs[k]) < Received
    /\ \A j \in 1 .. k - 1 : Position(Jobs[j]) < Position(Jobs[k])

\* The memory holds nothing of the copies to come, and in no slot two packets
\* but in that of the copy in hand.
CopyOrder ==
  /\ \A s \in Slot : tailPart[s] # NoPacket =>
       /\ tailPart[s].slot = s /\ Position(tailPart[s]) < Received
       /\ \A k \in InHand .. Len(Jobs) : Position(tailPart[s]) < Position(Jobs[k])
  /\ \A s \in Slot : headPart[s] =
       IF half[0] /\ s = Jobs[InHand].slot THEN Jobs[InHand] ELSE tailPart[s]

\* Every slot holds at least the packet of this position or a later one.
WrittenTo(n) ==
  \A s \in Slot, l \in Nat : l * BUFFER_SIZE + s < n =>
    tailPart[s] # NoPacket /\ tailPart[s].lap >= l

\* What is counted is completed, and until a packet is refused it is what was
\* received first.
CountInv(a) ==
  /\ Counted(a) + Len(Jobs) <= Received
  /\ \A k \in 1 .. Len(Jobs) : Counted(a) + k - 1 <= Position(Jobs[k])
  /\ ~refused => /\ Counted(a) + Len(Jobs) = Received
                 /\ \A k \in 1 .. Len(Jobs) : Position(Jobs[k]) = Counted(a) + k - 1
                 /\ WrittenTo(Counted(a) + done[0])

\* The parser is behind what is announced.
BehindInv(a) ==
  /\ Decoded <= UpTo(a)
  /\ ppc # "check" => Decoded < UpTo(a)

OrderInv ==
  /\ dumper = "dma" => /\ JobOrder /\ CopyOrder
                       /\ \E a \in Nat : CountInv(a) /\ BehindInv(a)
  /\ Extracted <= Decoded

\* A parser that was restarted is behind with its round_num.
RoundInv ==
  /\ round_num <= rlap + 1
  /\ restarts = 0 => round_num = rlap + 1

\* What was decoded is still in its slot or a later packet is, and meta holds
\* the last lap of it.
DecodedInv ==
  RoundsKept =>
    /\ WrittenTo(IF ppc = "write" THEN Decoded + 1 ELSE Decoded)
    /\ ppc = "write" => dest = [lap |-> rlap, slot |-> read_index]
    /\ \A s \in Slot, l \in Nat :
         (l * BUFFER_SIZE + s < Decoded /\ Decoded <= (l + 1) * BUFFER_SIZE + s)
           => meta[s] = [lap |-> l, slot |-> s]

\* The packets answered are those received up to the one the parser is due to
\* read, and the one in hand is that packet.
PassedInv ==
  RoundsKept =>
    /\ ppc = "write" => accepted = [lap |-> rlap, slot |-> read_index]
    /\ passed = {p \in Packet : Position(p) < Decoded}

-----------------------------------------------------------------------------
(* Both dump modules and the restart.                                      *)

LEMMA RestartFact ==
  ASSUME NodeTypeOK, Restart
  PROVE  /\ UNCHANGED <<dump, dma, memory, read_index, meta, extractor>>
         /\ UNCHANGED <<soft, dumper, refused, rlap>>
         /\ restarts' = restarts + 1 /\ restarts' \in 0 .. MaxRestart
         /\ round_num' = 1 /\ ppc' = "check" /\ dest' = NoPacket
         /\ accepted' = NoPacket /\ passed' = passed
BY NodeAssumption DEF Restart, RoundOfRestart, ReadIndexOfRestart, NodeTypeOK

LEMMA RestartInv ==
  ASSUME RingInv, NodeTypeOK, Restart
  PROVE  RingInv'
<1>a. /\ CoreTypeOK /\ DeviceTypeOK /\ MemoryTypeOK /\ ReaderTypeOK
      /\ \A e \in Dev : DeviceInv(e)
      /\ BufsMatchJobs /\ CoreInv /\ TagInv
  BY DEF RingInv, TypeOK
<1>1. /\ UNCHANGED <<dump, dma, memory, read_index, meta, extractor>>
      /\ round_num' = 1 /\ ppc' = "check" /\ dest' = NoPacket
  BY RestartFact
<1>2. CoreTypeOK' /\ CoreInv'
  BY <1>a, <1>1 DEF CoreTypeOK, CoreInv, dump, dma
<1>3. DeviceTypeOK' /\ (\A d \in Dev : DeviceInv(d))' /\ BufsMatchJobs'
  BY <1>a, <1>1, DevicesKept DEF dump, dma
<1>4. MemoryTypeOK' /\ ReaderTypeOK'
  BY <1>a, <1>1 DEF MemoryTypeOK, ReaderTypeOK, dump, memory, extractor
<1>5. TagInv'
  BY <1>a, <1>1 DEF TagInv, dump, dma, memory
<1> QED
  BY <1>2, <1>3, <1>4, <1>5 DEF RingInv, TypeOK

\* What a step of the software dump leaves alone.
LEMMA SoftFrame ==
  ASSUME SoftDump
  PROVE  /\ UNCHANGED <<rpc, asked, nb_dq, batch, i, dev_id, ROUND, bufs,
                        front, rear, already_write_index>>
         /\ UNCHANGED <<dma, parser, extractor>>
BY DEF SoftDump, SoftBurst, SoftForeign, SoftTake, SoftHead, SoftTail, dump,
       memory

LEMMA SoftCount ==
  ASSUME NodeTypeOK, SoftInv, SoftDump
  PROVE  /\ nb_rx' \in 0 .. MAX_PKT_BURST
         /\ (spc' = "poll") <=> (nb_rx' = 0)
         /\ spc' \in {"poll", "take", "head", "tail"}
<1>0. nb_rx \in 0 .. MAX_PKT_BURST /\ MAX_PKT_BURST \in Nat \ {0}
      /\ ((spc = "poll") <=> (nb_rx = 0))
  BY Constants DEF NodeTypeOK, TypeOK, CoreTypeOK, SoftInv
<1>1. CASE SoftBurst
  BY <1>0, <1>1 DEF SoftBurst
<1>2. CASE SoftForeign
  BY <1>0, <1>2 DEF SoftForeign, NextOfBurst
<1>3. CASE SoftTake
  BY <1>0, <1>3 DEF SoftTake
<1>4. CASE SoftHead
  BY <1>0, <1>4 DEF SoftHead, dump
<1>5. CASE SoftTail
  BY <1>0, <1>5 DEF SoftTail, NextOfBurst
<1> QED
  BY <1>1, <1>2, <1>3, <1>4, <1>5 DEF SoftDump

\* The copy: the length first, then the data, each to the slot taken.
LEMMA SoftMemory ==
  ASSUME RingInv, NodeTypeOK, SoftInv, SoftDump
  PROVE  /\ lap' \in Nat /\ lap <= lap' /\ write_index' \in Slot
         /\ {pac_len, headPart, tailPart}' \subseteq [Slot -> Packet \cup {NoPacket}]
         /\ slot' \in Slot /\ copying' \in Packet \cup {NoPacket}
         /\ (spc' \in {"head", "tail"}) <=> (copying' # NoPacket)
         /\ copying' # NoPacket =>
              /\ copying' \in Packet /\ copying'.slot = slot'
              /\ copying'.lap <= lap' /\ pac_len'[slot'] = copying'
         /\ spc' = "tail" => headPart'[slot'] = copying'
         /\ \A s \in Slot : (copying' # NoPacket /\ s = slot') \/
              (headPart'[s] = pac_len'[s] /\ tailPart'[s] = pac_len'[s])
         /\ \A s \in Slot : headPart'[s] # headPart[s] =>
              headPart'[s] = copying /\ copying # NoPacket /\ s = copying.slot
<1> DEFINE Cells == Packet \cup {NoPacket}
<1>a. /\ lap \in Nat /\ write_index \in Slot /\ slot \in Slot
      /\ pac_len \in [Slot -> Cells] /\ headPart \in [Slot -> Cells]
      /\ tailPart \in [Slot -> Cells] /\ copying \in Cells
  BY DEF NodeTypeOK, TypeOK, CoreTypeOK, MemoryTypeOK
<1>b. /\ (spc \in {"head", "tail"}) <=> (copying # NoPacket)
      /\ copying # NoPacket =>
           /\ copying \in Packet /\ copying.slot = slot /\ copying.lap <= lap
           /\ pac_len[slot] = copying
      /\ spc = "tail" => headPart[slot] = copying
      /\ \A s \in Slot : (copying # NoPacket /\ s = slot) \/
           (headPart[s] = pac_len[s] /\ tailPart[s] = pac_len[s])
  BY DEF SoftInv
<1>1. CASE SoftBurst
  BY <1>a, <1>b, <1>1 DEF SoftBurst, memory
<1>2. CASE SoftForeign
  BY <1>a, <1>b, <1>2 DEF SoftForeign, NextOfBurst, memory
<1>3. CASE SoftTake
  <2>1. PICK p \in Packet : p = [lap |-> lap, slot |-> write_index]
    BY <1>a DEF Packet
  <2>2. /\ spc = "take" /\ spc' = "head" /\ slot' = write_index /\ copying' = p
        /\ pac_len' = [pac_len EXCEPT ![write_index] = p]
        /\ lap' = IF write_index + 1 = BUFFER_SIZE THEN lap + 1 ELSE lap
        /\ write_index' = After(write_index)
        /\ UNCHANGED <<headPart, tailPart>>
    BY <1>3, <2>1 DEF SoftTake, memory
  <2>3. After(write_index) \in Slot /\ p # NoPacket /\ copying = NoPacket
    BY <1>a, <1>b, <2>2, AfterInRing, NoPacketAssumption
  <2>4. p.slot = write_index /\ p.lap = lap
    BY <2>1
  <2>5. lap' \in Nat /\ lap <= lap' /\ write_index' \in Slot
    BY <1>a, <2>2, <2>3
  <2> QED
    BY <1>a, <1>b, <2>2, <2>3, <2>4, <2>5
<1>4. CASE SoftHead
  <2>1. /\ spc = "head" /\ spc' = "tail"
        /\ headPart' = [headPart EXCEPT ![slot] = copying]
        /\ UNCHANGED <<pac_len, tailPart, slot, copying, lap, write_index>>
    BY <1>4 DEF SoftHead, CopyTarget, dump
  <2> QED
    BY <1>a, <1>b, <2>1
<1>5. CASE SoftTail
  <2>1. /\ spc = "tail" /\ spc' \in {"poll", "take"} /\ copying' = NoPacket
        /\ tailPart' = [tailPart EXCEPT ![slot] = copying]
        /\ UNCHANGED <<pac_len, headPart, slot, lap, write_index>>
    BY <1>5 DEF SoftTail, NextOfBurst, CopyTarget
  <2> QED
    BY <1>a, <1>b, <2>1
<1> QED
  BY <1>1, <1>2, <1>3, <1>4, <1>5 DEF SoftDump

LEMMA SoftKeepsRing ==
  ASSUME RingInv, NodeTypeOK, SoftInv, SoftDump
  PROVE  RingInv'
<1>a. /\ CoreTypeOK /\ DeviceTypeOK /\ MemoryTypeOK /\ ReaderTypeOK
      /\ \A e \in Dev : DeviceInv(e)
      /\ BufsMatchJobs /\ CoreInv /\ TagInv
  BY DEF RingInv, TypeOK
<1>b. /\ UNCHANGED <<rpc, asked, nb_dq, batch, i, dev_id, ROUND, bufs, front,
                     rear, already_write_index>>
      /\ UNCHANGED <<dma, parser, extractor>>
  BY SoftFrame
<1>c. /\ lap' \in Nat /\ lap <= lap' /\ write_index' \in Slot
      /\ {pac_len, headPart, tailPart}' \subseteq [Slot -> Packet \cup {NoPacket}]
      /\ \A s \in Slot : headPart'[s] # headPart[s] =>
           headPart'[s] = copying /\ copying # NoPacket /\ s = copying.slot
  BY SoftMemory
<1>1. CoreTypeOK' /\ CoreInv'
  <2>1. batch = 0 /\ rpc = "dequeue"
    BY DEF SoftInv
  <2>2. nb_rx' \in 0 .. MAX_PKT_BURST
    BY SoftCount
  <2> QED
    BY <1>a, <1>b, <1>c, <2>1, <2>2 DEF CoreTypeOK, CoreInv, dma
<1>2. DeviceTypeOK' /\ (\A d \in Dev : DeviceInv(d))' /\ BufsMatchJobs'
  BY <1>a, <1>b, DevicesKept DEF dma
<1>3. MemoryTypeOK' /\ ReaderTypeOK'
  BY <1>a, <1>b, <1>c DEF MemoryTypeOK, ReaderTypeOK, parser, extractor
<1>4. TagInv'
  <2>1. \A d \in Dev : \A k \in 1 .. Len(jobs[d]) : jobs[d][k].lap <= lap'
    BY <1>a, <1>c, LapGrew
  <2>2. ASSUME NEW s \in Slot, headPart'[s] # NoPacket
        PROVE  headPart'[s].slot = s /\ headPart'[s].lap <= lap'
    <3>1. CASE headPart'[s] = headPart[s]
      <4>1. headPart[s].slot = s /\ headPart[s].lap <= lap'
        BY <1>a, <1>c, <2>2, <3>1, LapGrew
      <4> QED
        BY <3>1, <4>1
    <3>2. CASE headPart'[s] # headPart[s]
      <4>1. headPart'[s] = copying /\ copying # NoPacket /\ s = copying.slot
        BY <1>c, <3>2
      <4>2. copying.lap <= lap /\ copying.lap \in Nat /\ lap \in Nat
        BY <1>a, <4>1 DEF SoftInv, CoreTypeOK, Packet
      <4> QED
        BY <1>c, <4>1, <4>2
    <3> QED
      BY <3>1, <3>2
  <2> QED
    BY <1>a, <1>b, <2>1, <2>2 DEF TagInv, dma, parser
<1> QED
  BY <1>1, <1>2, <1>3, <1>4 DEF RingInv, TypeOK

LEMMA SoftKeepsSoft ==
  ASSUME RingInv, NodeTypeOK, SoftInv, SoftDump, UNCHANGED rlap
  PROVE  SoftInv'
<1>1. /\ UNCHANGED <<rpc, asked, nb_dq, batch, i, already_write_index>>
      /\ UNCHANGED <<jobs, read_index, ppc, extractor_read_index>>
  BY SoftFrame DEF dma, parser, extractor
<1>2. /\ rpc' = "dequeue" /\ asked' = 0 /\ nb_dq' = 0 /\ batch' = 0 /\ i' = 0
      /\ jobs' = [d \in Dev |-> <<>>]
      /\ already_write_index' = 0 /\ read_index' = 0 /\ ppc' = "check"
      /\ rlap' = 0 /\ extractor_read_index' = 0
  BY <1>1 DEF SoftInv
<1>3. (spc' = "poll") <=> (nb_rx' = 0)
  BY SoftCount
<1>4. /\ (spc' \in {"head", "tail"}) <=> (copying' # NoPacket)
      /\ copying' # NoPacket =>
           /\ copying' \in Packet /\ copying'.slot = slot'
           /\ copying'.lap <= lap' /\ pac_len'[slot'] = copying'
      /\ spc' = "tail" => headPart'[slot'] = copying'
      /\ \A s \in Slot : (copying' # NoPacket /\ s = slot') \/
           (headPart'[s] = pac_len'[s] /\ tailPart'[s] = pac_len'[s])
  BY SoftMemory
<1> QED
  BY <1>2, <1>3, <1>4 DEF SoftInv

\* The tag byte that dmafwd keeps is the one of its lap.
LEMMA RoundFollowsLap ==
  ASSUME RingInv, ROUND = (lap + 1) % TagValues, DmaDump
  PROVE  ROUND' = (lap' + 1) % TagValues
<1>1. CASE Accept \/ Refuse
  <2>1. TakeSlot
    BY <1>1 DEF Accept, Refuse
  <2>2. lap \in Nat /\ TagValues \in Nat \ {0}
    BY Constants DEF RingInv, TypeOK, CoreTypeOK
  <2>3. lap + 1 \in Nat
    BY <2>2
  <2>4. (((lap + 1) % TagValues) + 1) % TagValues = (lap + 1 + 1) % TagValues
    BY <2>2, <2>3, ModNext
  <2> QED
    BY <2>1, <2>4 DEF TakeSlot
<1>2. CASE ~(Accept \/ Refuse)
  <2>1. UNCHANGED <<lap, ROUND>>
    BY <1>2 DEF DmaDump, RxCore, Dequeue, Announce, EmptyBurst, Submit, Burst,
                CopyHead, CopyTail, dump
  <2> QED
    BY <2>1
<1> QED
  BY <1>1, <1>2

LEMMA DmaKeepsReaders ==
  ASSUME DmaDump
  PROVE  UNCHANGED <<parser, extractor>>
BY DEF DmaDump, RxCore, Dequeue, Announce, EmptyBurst, Submit, Burst, Accept,
       Refuse, CopyHead, CopyTail

LEMMA NodeInitInv == NodeInit => NodeInv
<1> SUFFICES ASSUME NodeInit PROVE NodeInv
  OBVIOUS
<1>1. Init /\ RingInv
  BY InitInv DEF NodeInit
<1>2. TypeOK
  BY <1>1 DEF RingInv
<1>3. 0 \in Slot
  BY Constants DEF Slot
<1>4. NodeTypeOK
  <2>1. ROUND = (lap + 1) % TagValues
    BY <1>1 DEF Init
  <2>2. restarts \in 0 .. MaxRestart
    BY NodeAssumption DEF NodeInit
  <2> QED
    BY <1>2, <1>3, <2>1, <2>2 DEF NodeInit, NodeTypeOK
<1>5. SoftInv
  <2>1. rpc = "dequeue" /\ asked = 0 /\ nb_dq = 0 /\ batch = 0 /\ i = 0
        /\ jobs = [d \in Dev |-> <<>>]
        /\ already_write_index = 0 /\ read_index = 0 /\ ppc = "check"
        /\ rlap = 0 /\ extractor_read_index = 0
    BY <1>1 DEF Init, NodeInit
  <2>2. spc = "poll" /\ nb_rx = 0 /\ copying = NoPacket
        /\ \A s \in Slot : headPart[s] = pac_len[s] /\ tailPart[s] = pac_len[s]
    BY <1>1 DEF Init, NodeInit
  <2> QED
    BY <2>1, <2>2 DEF SoftInv
<1>6. ppc = "check"
  BY <1>1 DEF Init
<1> QED
  BY <1>1, <1>4, <1>5, <1>6 DEF NodeInv

\* What the parser reads has a tag, so it is a packet.
LEMMA RecordedType ==
  ASSUME RingInv, NodeTypeOK, ppc = "write" => accepted \in Packet, Parser,
         Recorded
  PROVE  /\ accepted' \in Packet \cup {NoPacket} /\ passed' \subseteq Packet
         /\ ppc' = "write" => accepted' \in Packet
<1>1. /\ read_index \in Slot /\ headPart \in [Slot -> Packet \cup {NoPacket}]
      /\ accepted \in Packet \cup {NoPacket} /\ passed \subseteq Packet
      /\ round_num > 0
  BY DEF NodeTypeOK, TypeOK, MemoryTypeOK, ReaderTypeOK, RingInv, TagInv
<1>2. /\ accepted' = IF ppc = "spin" THEN headPart[read_index] ELSE NoPacket
      /\ passed' = IF ppc = "write" THEN passed \cup {accepted} ELSE passed
  BY DEF Recorded
<1>3. ppc' = "write" => ReadPacket
  BY DEF Parser, SeePacket, ReadPacket, WriteMeta
<1>4. ReadPacket => ppc = "spin" /\ headPart[read_index] # NoPacket
  BY <1>1 DEF ReadPacket, is_current_round, Tag
<1>5. passed' \subseteq Packet
  BY <1>1, <1>2
<1>6. accepted' \in Packet \cup {NoPacket}
  BY <1>1, <1>2
<1> QED
  BY <1>1, <1>2, <1>3, <1>4, <1>5, <1>6

LEMMA NodeStep ==
  ASSUME NodeInv, [NodeNext]_nodeVars
  PROVE  NodeInv'
<1>a. /\ RingInv /\ NodeTypeOK /\ (dumper = "software" => SoftInv)
      /\ TypeOK
  BY DEF NodeInv, RingInv
<1>b. ppc = "write" => accepted \in Packet
  BY DEF NodeInv
<1>1. CASE dumper = "dma" /\ DmaDump /\ refused' = (refused \/ Refuse)
           /\ UNCHANGED <<soft, dumper, restarts, rlap, history>>
  <2>1. RingInv'
    BY <1>a, <1>1, RingStep DEF DmaDump, Next
  <2>2. ROUND' = (lap' + 1) % TagValues
    BY <1>a, <1>1, RoundFollowsLap DEF NodeTypeOK
  <2>3. refused' \in BOOLEAN
    BY <1>1, Zenon
  <2>4. NodeTypeOK'
    BY <1>a, <1>1, <2>1, <2>2, <2>3 DEF NodeTypeOK, soft, history, RingInv
  <2>5. ppc' = "write" => accepted' \in Packet
    BY <1>b, <1>1, DmaKeepsReaders DEF parser, history
  <2> QED
    BY <1>1, <2>1, <2>4, <2>5 DEF NodeInv
<1>2. CASE dumper = "software" /\ SoftDump
           /\ UNCHANGED <<dumper, refused, restarts, rlap, history>>
  <2>1. RingInv' /\ SoftInv'
    BY <1>a, <1>2, SoftKeepsRing, SoftKeepsSoft
  <2>2. /\ spc' \in {"poll", "take", "head", "tail"}
        /\ slot' \in Slot /\ copying' \in Packet \cup {NoPacket}
    BY <1>a, <1>2, SoftCount, SoftMemory
  <2>3. NodeTypeOK'
    BY <1>a, <1>2, <2>1, <2>2 DEF NodeTypeOK, RingInv, history
  <2>4. ppc' = "write" => accepted' \in Packet
    BY <1>b, <1>2, SoftFrame DEF parser, history
  <2> QED
    BY <1>2, <2>1, <2>3, <2>4 DEF NodeInv
<1>3. CASE /\ Parser
           /\ rlap' = IF ppc = "write" /\ read_index + 1 = BUFFER_SIZE
                      THEN rlap + 1 ELSE rlap
           /\ Recorded
           /\ UNCHANGED <<soft, dumper, refused, restarts>>
  <2>1. RingInv'
    BY <1>a, <1>3, RingStep DEF Next
  <2>2. UNCHANGED <<dump, dma, memory, extractor>>
    BY <1>3 DEF Parser, SeePacket, ReadPacket, WriteMeta
  <2>5. /\ accepted' \in Packet \cup {NoPacket} /\ passed' \subseteq Packet
        /\ ppc' = "write" => accepted' \in Packet
    BY <1>a, <1>b, <1>3, RecordedType
  <2>3. NodeTypeOK'
    BY <1>a, <1>3, <2>1, <2>2, <2>5 DEF NodeTypeOK, RingInv, soft, dump
  <2>4. dumper # "software"
    BY <1>a, <1>3 DEF SoftInv, Parser, SeePacket, ReadPacket, WriteMeta,
                      Available
  <2> QED
    BY <1>3, <2>1, <2>3, <2>4, <2>5 DEF NodeInv
<1>4. CASE Extract /\ UNCHANGED <<soft, dumper, refused, restarts, rlap, history>>
  <2>1. RingInv'
    BY <1>a, <1>4, RingStep DEF Next
  <2>2. UNCHANGED <<dump, dma, memory, parser>>
    BY <1>4 DEF Extract
  <2>3. NodeTypeOK'
    BY <1>a, <1>4, <2>1, <2>2 DEF NodeTypeOK, RingInv, soft, dump, history
  <2>4. dumper # "software"
    BY <1>a, <1>4 DEF SoftInv, Extract
  <2>5. ppc' = "write" => accepted' \in Packet
    BY <1>b, <1>4, <2>2 DEF parser, history
  <2> QED
    BY <1>4, <2>1, <2>3, <2>4, <2>5 DEF NodeInv
<1>5. CASE Restart
  <2>1. /\ UNCHANGED <<dump, dma, memory, read_index, meta, extractor>>
        /\ UNCHANGED <<soft, dumper, refused, rlap>>
        /\ restarts' \in 0 .. MaxRestart /\ ppc' = "check"
        /\ accepted' = NoPacket /\ passed' = passed
    BY <1>a, <1>5, RestartFact
  <2>2. RingInv'
    BY <1>a, <1>5, RestartInv
  <2>3. NodeTypeOK'
    BY <1>a, <2>1, <2>2 DEF NodeTypeOK, RingInv, soft, dump
  <2>4. dumper = "software" => SoftInv'
    BY <1>a, <2>1 DEF SoftInv, soft, dump, dma, memory, extractor
  <2> QED
    BY <2>1, <2>2, <2>3, <2>4 DEF NodeInv
<1>6. CASE UNCHANGED nodeVars
  <2>1. UNCHANGED <<vars, soft, dumper, refused, restarts, rlap, history>>
    BY <1>6 DEF nodeVars
  <2>2. RingInv'
    BY <1>a, <2>1, RingStep
  <2>3. NodeTypeOK'
    BY <1>a, <2>1, <2>2 DEF NodeTypeOK, RingInv, soft, vars, dump, history
  <2>4. dumper = "software" => SoftInv'
    BY <1>a, <2>1 DEF SoftInv, soft, vars, dump, dma, memory, parser, extractor
  <2>5. ppc' = "write" => accepted' \in Packet
    BY <1>b, <2>1 DEF vars, parser, history
  <2> QED
    BY <2>1, <2>2, <2>3, <2>4, <2>5 DEF NodeInv
<1> QED
  BY <1>1, <1>2, <1>3, <1>4, <1>5, <1>6 DEF NodeNext

-----------------------------------------------------------------------------
(* The dump with one DMA device.                                           *)

OneDevice == TOTAL_DMA_DEV = 1 /\ dumper = "dma"

LEMMA Counters ==
  ASSUME NodeInv
  PROVE  /\ Received \in Nat /\ Extracted \in Nat /\ Decoded \in Nat
         /\ nb_dq \in Nat /\ \A a \in Nat : UpTo(a) \in Nat /\ Counted(a) \in Nat
         /\ lap \in Nat /\ write_index \in Slot /\ rlap \in Nat
         /\ read_index \in Slot /\ xlap \in Nat /\ extractor_read_index \in Slot
<1>1. /\ lap \in Nat /\ write_index \in Slot /\ rlap \in Nat /\ nb_dq \in Nat
      /\ read_index \in Slot /\ xlap \in Nat /\ extractor_read_index \in Slot
      /\ already_write_index \in Slot
  BY DEF NodeInv, NodeTypeOK, TypeOK, CoreTypeOK, MemoryTypeOK, ReaderTypeOK
<1>2. \A l \in Nat : l * BUFFER_SIZE \in Nat
  BY LapsCompare
<1>3. \A s \in Slot : s \in Nat
  BY DEF Slot
<1>4. Received \in Nat /\ Extracted \in Nat /\ Decoded \in Nat
  BY <1>1, <1>2, <1>3 DEF Received, Extracted, Decoded
<1>5. \A a \in Nat : UpTo(a) \in Nat /\ Counted(a) \in Nat
  BY <1>1, <1>2, <1>3 DEF UpTo, Counted
<1> QED
  BY <1>1, <1>4, <1>5

\* The device and the memory it writes to.
LEMMA DeviceTypes ==
  ASSUME NodeInv, OneDevice
  PROVE  /\ 0 \in Dev /\ Jobs \in Seq(Packet) /\ Len(Jobs) \in Nat
         /\ \A k \in 1 .. Len(Jobs) : Jobs[k] \in Packet /\ Position(Jobs[k]) \in Nat
         /\ done[0] \in Nat /\ done[0] <= submitted[0] /\ submitted[0] <= Len(Jobs)
         /\ half[0] \in BOOLEAN /\ submitted[0] \in Nat
         /\ half[0] => done[0] < submitted[0]
         /\ headPart \in [Slot -> Packet \cup {NoPacket}]
         /\ tailPart \in [Slot -> Packet \cup {NoPacket}]
<1>1. RingInv /\ DeviceTypeOK /\ MemoryTypeOK
  BY DEF NodeInv, RingInv, TypeOK
<1>2. 0 \in Dev
  BY DEF OneDevice, Dev
<1>3. DeviceInv(0)
  BY <1>1, <1>2 DEF RingInv
<1>4. /\ Jobs \in Seq(Packet) /\ Len(Jobs) \in Nat
      /\ \A k \in 1 .. Len(Jobs) : Jobs[k] \in Packet
      /\ submitted[0] \in Nat /\ done[0] \in Nat /\ half[0] \in BOOLEAN
  BY <1>1, <1>2, DeviceFacts DEF Jobs
<1>5. \A k \in 1 .. Len(Jobs) : Position(Jobs[k]) \in Nat
  BY <1>4, PositionType
<1> QED
  BY <1>1, <1>2, <1>3, <1>4, <1>5 DEF DeviceInv, Jobs, MemoryTypeOK

\* Steps that concern neither the device nor the indexes.
LEMMA OrderStays ==
  ASSUME JobOrder, CopyOrder, NEW a \in Nat, CountInv(a),
         UNCHANGED <<jobs, done, half, headPart, tailPart, nb_dq, lap,
                     write_index, already_write_index, refused>>
  PROVE  JobOrder' /\ CopyOrder' /\ CountInv(a)'
<1>1. JobOrder'
  BY DEF JobOrder, Jobs, Received, Position
<1>2. CopyOrder'
  BY DEF CopyOrder, Jobs, InHand, Received, Position
<1>3. CountInv(a)'
  BY DEF CountInv, Jobs, Counted, UpTo, Received, WrittenTo, Position
<1> QED
  BY <1>1, <1>2, <1>3

\* No other step refuses a packet.
LEMMA RefusedKept ==
  ASSUME NodeInv, ~Refuse, refused' = (refused \/ Refuse)
  PROVE  refused' = refused
<1>1. refused \in BOOLEAN
  BY DEF NodeInv, NodeTypeOK
<1>2. refused' = (refused \/ FALSE)
  BY Zenon
<1> QED
  BY <1>1, <1>2

LEMMA AcceptOrder ==
  ASSUME NodeInv, OneDevice, JobOrder, CopyOrder, NEW a \in Nat, CountInv(a),
         Accept, refused' = (refused \/ Refuse)
  PROVE  JobOrder' /\ CopyOrder' /\ CountInv(a)'
<1>a. /\ Jobs \in Seq(Packet) /\ Len(Jobs) \in Nat
      /\ \A k \in 1 .. Len(Jobs) : Jobs[k] \in Packet /\ Position(Jobs[k]) \in Nat
      /\ done[0] \in Nat /\ done[0] <= Len(Jobs)
      /\ half[0] => done[0] < Len(Jobs)
  BY DeviceTypes
<1>b. Received \in Nat /\ Counted(a) \in Nat
  BY Counters
<1>1. PICK p \in Packet : p = [lap |-> lap, slot |-> write_index]
  BY NextReceived DEF Accept, NodeInv
<1>2. Received' = Received + 1 /\ Position(p) = Received
  BY <1>1, NextReceived DEF Accept, NodeInv
<1>3. PICK more : more = Append(Jobs, p)
  OBVIOUS
<1>4. /\ more \in Seq(Packet) /\ Len(more) = Len(Jobs) + 1
      /\ \A k \in 1 .. Len(Jobs) : more[k] = Jobs[k]
      /\ more[Len(Jobs) + 1] = p
  BY <1>a, <1>3, AppendProperties
<1>5. jobs'[0] = more
  <2>1. dev_id = 0 /\ 0 \in Dev
    BY DEF OneDevice, Dev, NodeInv, RingInv, TypeOK, CoreTypeOK
  <2>2. jobs \in [Dev -> Seq(Packet)]
    BY DEF NodeInv, RingInv, TypeOK, DeviceTypeOK
  <2> QED
    BY <1>1, <1>3, <2>1, <2>2 DEF Accept, Jobs
<1>6. /\ UNCHANGED <<done, half, headPart, tailPart, nb_dq, already_write_index>>
  BY DEF Accept, memory
<1>7. refused' = refused
  <2>1. ~Refuse
    <3>1. Len(jobs[dev_id]) < ring_size /\ Len(jobs[dev_id]) \in Nat
      <4>1. dev_id \in Dev
        BY DEF NodeInv, RingInv, TypeOK, CoreTypeOK
      <4> QED
        BY <4>1, DeviceFacts DEF Accept, NodeInv, RingInv, TypeOK
    <3> QED
      BY <3>1, Constants DEF Refuse
  <2> QED
    BY <2>1, RefusedKept
<1>8. ASSUME NEW k \in 1 .. Len(more)
      PROVE  /\ Position(more[k]) < Received + 1
             /\ \A j \in 1 .. k - 1 : Position(more[j]) < Position(more[k])
  <2>1. \A j \in 1 .. Len(Jobs) : more[j] = Jobs[j] /\ Position(Jobs[j]) < Received
    BY <1>4 DEF JobOrder
  <2>2. CASE k = Len(Jobs) + 1
    BY <1>a, <1>b, <1>2, <1>4, <2>1, <2>2
  <2>3. CASE k \in 1 .. Len(Jobs)
    <3>1. \A j \in 1 .. k - 1 : Position(Jobs[j]) < Position(Jobs[k])
      BY <2>3 DEF JobOrder
    <3>2. \A j \in 1 .. k - 1 : j \in 1 .. Len(Jobs)
      BY <1>a, <2>3
    <3>3. Position(more[k]) < Received + 1
      BY <1>a, <1>b, <2>1, <2>3
    <3> QED
      BY <2>1, <2>3, <3>1, <3>2, <3>3
  <2> QED
    BY <1>a, <1>4, <2>2, <2>3
<1>9. JobOrder'
  BY <1>2, <1>5, <1>8 DEF JobOrder, Jobs, Position
<1>10. CopyOrder'
  <2>1. ASSUME NEW s \in Slot, tailPart[s] # NoPacket
        PROVE  /\ tailPart[s].slot = s /\ Position(tailPart[s]) < Received + 1
               /\ \A k \in InHand .. Len(more) :
                    Position(tailPart[s]) < Position(more[k])
    <3>1. /\ tailPart[s].slot = s /\ Position(tailPart[s]) < Received
          /\ \A k \in InHand .. Len(Jobs) : Position(tailPart[s]) < Position(Jobs[k])
      BY <2>1 DEF CopyOrder
    <3>2. Position(tailPart[s]) \in Nat
      BY <2>1, DeviceTypes, PositionType
    <3>3. InHand \in Nat /\ InHand >= 1
      BY <1>a DEF InHand
    <3>4. ASSUME NEW k \in InHand .. Len(more)
          PROVE  Position(tailPart[s]) < Position(more[k])
      <4>1. CASE k = Len(Jobs) + 1
        BY <1>2, <1>4, <3>1, <4>1
      <4>2. CASE k \in InHand .. Len(Jobs)
        <5>1. more[k] = Jobs[k]
          BY <1>4, <3>3, <4>2
        <5> QED
          BY <3>1, <4>2, <5>1
      <4> QED
        BY <1>a, <1>4, <3>3, <4>1, <4>2
    <3> QED
      BY <1>b, <3>1, <3>2, <3>4
  <2>2. ASSUME NEW s \in Slot
        PROVE  headPart[s] = IF half[0] /\ s = more[InHand].slot
                             THEN more[InHand] ELSE tailPart[s]
    <3>1. headPart[s] = IF half[0] /\ s = Jobs[InHand].slot
                        THEN Jobs[InHand] ELSE tailPart[s]
      BY DEF CopyOrder
    <3>2. half[0] => InHand \in 1 .. Len(Jobs)
      BY <1>a DEF InHand
    <3>3. half[0] => more[InHand] = Jobs[InHand]
      BY <1>4, <3>2
    <3> QED
      BY <3>1, <3>3
  <2>3. InHand' = InHand
    BY <1>6 DEF InHand
  <2> QED
    BY <1>2, <1>5, <1>6, <2>1, <2>2, <2>3 DEF CopyOrder, Jobs, Position
<1>11. CountInv(a)'
  <2>1. Counted(a)' = Counted(a)
    BY <1>6 DEF Counted, UpTo
  <2>2. Counted(a) + Len(more) <= Received + 1
    BY <1>a, <1>b, <1>4 DEF CountInv
  <2>3. ASSUME NEW k \in 1 .. Len(more)
        PROVE  Counted(a) + k - 1 <= Position(more[k])
    BY <1>a, <1>b, <1>2, <1>4 DEF CountInv
  <2>4. ASSUME ~refused
        PROVE  /\ Counted(a) + Len(more) = Received + 1
               /\ \A k \in 1 .. Len(more) :
                    Position(more[k]) = Counted(a) + k - 1
               /\ WrittenTo(Counted(a) + done[0])
    <3>1. /\ Counted(a) + Len(Jobs) = Received
          /\ \A k \in 1 .. Len(Jobs) : Position(Jobs[k]) = Counted(a) + k - 1
          /\ WrittenTo(Counted(a) + done[0])
      BY <2>4 DEF CountInv
    <3>2. PICK n \in Nat, l \in Nat : n = Counted(a) /\ l = Len(Jobs)
      BY <1>a, <1>b
    <3>3. n + l = Received /\ Len(more) = l + 1
      BY <1>4, <3>1, <3>2
    <3>4. ASSUME NEW k \in 1 .. Len(more)
          PROVE  Position(more[k]) = n + k - 1
      <4>1. CASE k = l + 1
        BY <1>2, <1>4, <3>2, <3>3, <4>1
      <4>2. CASE k \in 1 .. l
        <5>1. more[k] = Jobs[k]
          BY <1>4, <3>2, <4>2
        <5> QED
          BY <3>1, <3>2, <4>2, <5>1
      <4> QED
        BY <3>2, <3>3, <4>1, <4>2
    <3>5. n + Len(more) = Received + 1
      BY <1>b, <3>2, <3>3
    <3> QED
      BY <3>1, <3>2, <3>4, <3>5
  <2>5. WrittenTo(Counted(a) + done[0]) => WrittenTo(Counted(a) + done[0])'
    BY <1>6, <2>1 DEF WrittenTo
  <2> QED
    BY <1>2, <1>5, <1>6, <1>7, <2>1, <2>2, <2>3, <2>4, <2>5
    DEF CountInv, Jobs, Position
<1> QED
  BY <1>9, <1>10, <1>11

\* The slot of a refused packet stays behind; nothing is said of its data.
LEMMA RefuseOrder ==
  ASSUME NodeInv, OneDevice, JobOrder, CopyOrder, NEW a \in Nat, CountInv(a),
         Refuse, refused' = (refused \/ Refuse)
  PROVE  JobOrder' /\ CopyOrder' /\ CountInv(a)'
<1>a. /\ Len(Jobs) \in Nat
      /\ \A k \in 1 .. Len(Jobs) : Position(Jobs[k]) \in Nat
  BY DeviceTypes
<1>b. Received \in Nat /\ Counted(a) \in Nat
  BY Counters
<1>1. Received' = Received + 1
  BY NextReceived DEF Refuse, NodeInv
<1>2. /\ UNCHANGED <<jobs, done, half, headPart, tailPart, nb_dq,
                     already_write_index>>
  BY DEF Refuse, dma, memory
<1>3. refused' = TRUE
  BY Zenon
<1>4. \A k \in 1 .. Len(Jobs) :
        /\ Position(Jobs[k]) < Received + 1
        /\ \A j \in 1 .. k - 1 : Position(Jobs[j]) < Position(Jobs[k])
  BY <1>a, <1>b DEF JobOrder
<1>5. JobOrder'
  BY <1>1, <1>2, <1>4 DEF JobOrder, Jobs, Position
<1>6. \A s \in Slot : tailPart[s] # NoPacket =>
        /\ tailPart[s].slot = s /\ Position(tailPart[s]) < Received + 1
        /\ \A k \in InHand .. Len(Jobs) : Position(tailPart[s]) < Position(Jobs[k])
  <2>1. \A s \in Slot : tailPart[s] # NoPacket => Position(tailPart[s]) \in Nat
    BY DeviceTypes, PositionType
  <2> QED
    BY <1>b, <2>1 DEF CopyOrder
<1>7. InHand' = InHand
  BY <1>2 DEF InHand
<1>8. \A s \in Slot : headPart[s] =
        IF half[0] /\ s = Jobs[InHand].slot THEN Jobs[InHand] ELSE tailPart[s]
  BY DEF CopyOrder
<1>9. CopyOrder'
  BY <1>1, <1>2, <1>6, <1>7, <1>8 DEF CopyOrder, Jobs, Position
<1>10. CountInv(a)'
  <2>1. Counted(a)' = Counted(a)
    BY <1>2 DEF Counted, UpTo
  <2>2. Counted(a) + Len(Jobs) <= Received + 1
    BY <1>a, <1>b DEF CountInv
  <2>3. \A k \in 1 .. Len(Jobs) : Counted(a) + k - 1 <= Position(Jobs[k])
    BY DEF CountInv
  <2> QED
    BY <1>1, <1>2, <1>3, <2>1, <2>2, <2>3 DEF CountInv, Jobs, Position
<1> QED
  BY <1>5, <1>9, <1>10

\* What the device has completed leaves its list and is counted.
LEMMA DequeueOrder ==
  ASSUME NodeInv, OneDevice, JobOrder, CopyOrder, NEW a \in Nat, CountInv(a),
         Dequeue, refused' = refused
  PROVE  JobOrder' /\ CopyOrder' /\ CountInv(a)'
<1>a. /\ Jobs \in Seq(Packet) /\ Len(Jobs) \in Nat /\ 0 \in Dev
      /\ \A k \in 1 .. Len(Jobs) : Jobs[k] \in Packet /\ Position(Jobs[k]) \in Nat
      /\ done[0] \in Nat /\ done[0] <= Len(Jobs)
      /\ half[0] => done[0] < Len(Jobs)
  BY DeviceTypes
<1>b. Received \in Nat /\ Counted(a) \in Nat /\ nb_dq \in Nat /\ UpTo(a) \in Nat
  BY Counters
<1>c. DeviceTypeOK /\ DeviceInv(0)
  BY <1>a DEF NodeInv, RingInv, TypeOK
<1>1. PICK n \in Nat : n = Completed(0) /\ n <= done[0]
  BY <1>a, <1>c, CompletedFacts
<1>2. PICK rest : rest = SubSeq(Jobs, n + 1, Len(Jobs))
  OBVIOUS
<1>3. /\ Len(rest) = Len(Jobs) - n
      /\ \A k \in 1 .. Len(rest) :
           n + k \in 1 .. Len(Jobs) /\ rest[k] = Jobs[n + k]
  <2>1. n <= Len(jobs[0])
    BY <1>a, <1>1 DEF Jobs
  <2> QED
    BY <1>a, <1>c, <1>2, <2>1, DropFirst DEF Jobs
<1>4. /\ jobs'[0] = rest /\ done'[0] = done[0] - n /\ nb_dq' = nb_dq + n
      /\ UNCHANGED <<half, headPart, tailPart, already_write_index, lap, write_index>>
  <2>1. asked = 0
    BY DEF Dequeue, OneDevice, NodeInv, RingInv, TypeOK, CoreTypeOK
  <2>2. jobs \in [Dev -> Seq(Packet)] /\ done \in [Dev -> Nat]
    BY <1>c DEF DeviceTypeOK
  <2> QED
    BY <1>a, <1>1, <1>2, <2>1, <2>2 DEF Dequeue, Jobs, memory
<1>5. Received' = Received
  BY <1>4 DEF Received
<1>6. ASSUME NEW k \in 1 .. Len(rest)
      PROVE  /\ Position(rest[k]) < Received
             /\ \A j \in 1 .. k - 1 : Position(rest[j]) < Position(rest[k])
  <2>1. Position(Jobs[n + k]) < Received
        /\ \A j \in 1 .. (n + k) - 1 : Position(Jobs[j]) < Position(Jobs[n + k])
    BY <1>3 DEF JobOrder
  <2>2. ASSUME NEW j \in 1 .. k - 1
        PROVE  Position(rest[j]) < Position(rest[k])
    <3>1. j \in 1 .. Len(rest) /\ n + j \in 1 .. (n + k) - 1
      <4>1. n \in Nat /\ Len(rest) \in Int
        BY <1>1, <1>3, <1>a
      <4> QED
        BY ONLY <4>1, k \in 1 .. Len(rest), j \in 1 .. k - 1
    <3>2. Position(Jobs[n + j]) < Position(Jobs[n + k])
      BY <2>1, <3>1
    <3> QED
      BY <1>3, <3>1, <3>2
  <2> QED
    BY <1>3, <2>1, <2>2
<1>7. JobOrder'
  BY <1>4, <1>5, <1>6 DEF JobOrder, Jobs, Position
<1>8. /\ InHand' = InHand - n /\ InHand \in Nat /\ InHand - n \in Nat \ {0}
      /\ InHand = n + (InHand - n)
  <2>1. InHand \in Nat /\ InHand - n \in Nat \ {0} /\ InHand = n + (InHand - n)
    BY <1>a, <1>1 DEF InHand
  <2>2. (done[0] - n) + 1 = (done[0] + 1) - n
    BY <1>a, <1>1
  <2>3. InHand' = InHand - n
    BY <1>4, <2>2 DEF InHand
  <2> QED
    BY <2>1, <2>3
<1>9. CopyOrder'
  <2>1. ASSUME NEW s \in Slot, tailPart[s] # NoPacket,
               NEW k \in InHand - n .. Len(rest)
        PROVE  Position(tailPart[s]) < Position(rest[k])
    <3>1. k \in 1 .. Len(rest) /\ n + k \in InHand .. Len(Jobs)
      <4>1. PICK h \in Nat, m \in Nat \ {0} : h = InHand /\ m = InHand - n
        BY <1>8
      <4>2. h = n + m /\ k \in m .. Len(rest) /\ Len(rest) = Len(Jobs) - n
        BY <1>3, <1>8, <4>1
      <4>3. k \in 1 .. Len(rest) /\ n + k \in h .. Len(Jobs)
        BY <1>a, <1>1, <4>2
      <4> QED
        BY <4>1, <4>3
    <3>2. Position(tailPart[s]) < Position(Jobs[n + k])
      BY <2>1, <3>1 DEF CopyOrder
    <3> QED
      BY <1>3, <3>1, <3>2
  <2>2. \A s \in Slot : tailPart[s] # NoPacket =>
          tailPart[s].slot = s /\ Position(tailPart[s]) < Received
    BY DEF CopyOrder
  <2>3. ASSUME NEW s \in Slot
        PROVE  headPart[s] = IF half[0] /\ s = rest[InHand - n].slot
                             THEN rest[InHand - n] ELSE tailPart[s]
    <3>1. headPart[s] = IF half[0] /\ s = Jobs[InHand].slot
                        THEN Jobs[InHand] ELSE tailPart[s]
      BY DEF CopyOrder
    <3>2. half[0] => InHand - n \in 1 .. Len(rest)
      BY <1>a, <1>1, <1>3, <1>8 DEF InHand
    <3>3. half[0] => rest[InHand - n] = Jobs[InHand]
      BY <1>3, <1>8, <3>2
    <3> QED
      BY <3>1, <3>3
  <2> QED
    BY <1>4, <1>5, <1>8, <2>1, <2>2, <2>3 DEF CopyOrder, Jobs, Position
<1>10. CountInv(a)'
  <2>1. Counted(a)' = Counted(a) + n
    BY <1>1, <1>4, <1>b DEF Counted, UpTo
  <2>2. (Counted(a) + n) + Len(rest) <= Received
    BY <1>a, <1>b, <1>1, <1>3 DEF CountInv
  <2>3. ASSUME NEW k \in 1 .. Len(rest)
        PROVE  (Counted(a) + n) + k - 1 <= Position(rest[k])
    <3>1. Counted(a) + (n + k) - 1 <= Position(Jobs[n + k])
      BY <1>3 DEF CountInv
    <3>2. Position(rest[k]) = Position(Jobs[n + k])
      BY <1>3
    <3>3. Counted(a) + (n + k) - 1 = (Counted(a) + n) + k - 1
      BY <1>b, <1>1
    <3> QED
      BY <3>1, <3>2, <3>3
  <2>4. ASSUME ~refused
        PROVE  /\ (Counted(a) + n) + Len(rest) = Received
               /\ \A k \in 1 .. Len(rest) :
                    Position(rest[k]) = (Counted(a) + n) + k - 1
               /\ WrittenTo(Counted(a) + done[0])
    <3>1. /\ Counted(a) + Len(Jobs) = Received
          /\ \A k \in 1 .. Len(Jobs) : Position(Jobs[k]) = Counted(a) + k - 1
          /\ WrittenTo(Counted(a) + done[0])
      BY <2>4 DEF CountInv
    <3>2. ASSUME NEW k \in 1 .. Len(rest)
          PROVE  Position(rest[k]) = (Counted(a) + n) + k - 1
      <4>1. Position(rest[k]) = Counted(a) + (n + k) - 1
        BY <1>3, <3>1
      <4> QED
        BY <1>b, <1>1, <4>1
    <3> QED
      BY <1>a, <1>b, <1>1, <1>3, <3>1, <3>2
  <2>5. (Counted(a) + n) + (done[0] - n) = Counted(a) + done[0]
    BY <1>a, <1>b, <1>1
  <2>6. WrittenTo(Counted(a) + done[0]) => WrittenTo(Counted(a) + done[0])'
    <3>1. Counted(a)' + done'[0] = Counted(a) + done[0]
      BY <1>4, <2>1, <2>5
    <3> QED
      BY <1>4, <3>1 DEF WrittenTo
  <2> QED
    BY <1>4, <1>5, <2>1, <2>2, <2>3, <2>4, <2>6 DEF CountInv, Jobs, Position
<1> QED
  BY <1>7, <1>9, <1>10

\* What was counted is announced: the index went around the ring some times.
LEMMA AnnounceOrder ==
  ASSUME NodeInv, OneDevice, JobOrder, CopyOrder, NEW a \in Nat, CountInv(a),
         Announce, refused' = refused
  PROVE  /\ JobOrder' /\ CopyOrder'
         /\ \E c \in Nat : CountInv(c)' /\ UpTo(c)' = Counted(a)
<1>b. Received \in Nat /\ Counted(a) \in Nat /\ nb_dq \in Nat /\ UpTo(a) \in Nat
  BY Counters
<1>1. /\ already_write_index' = Announced /\ nb_dq' = 0
      /\ UNCHANGED <<jobs, done, half, headPart, tailPart, lap, write_index>>
  BY DEF Announce, dma, memory
<1>2. PICK x \in Nat : x = already_write_index + nb_dq
  BY <1>b DEF NodeInv, RingInv, TypeOK, MemoryTypeOK, Slot
<1>3. PICK q \in Nat, r \in Nat : /\ x = BUFFER_SIZE * q + r
                                  /\ r = x % BUFFER_SIZE
  BY Constants, DivNat, DivType
<1>4. (a + q) * BUFFER_SIZE = a * BUFFER_SIZE + q * BUFFER_SIZE
  BY Constants, ProductSum
<1>5. a * BUFFER_SIZE \in Nat /\ q * BUFFER_SIZE \in Nat
      /\ BUFFER_SIZE * q = q * BUFFER_SIZE
  BY <1>3, Constants, ProductNat
<1>6. PICK u \in Nat, v \in Nat : u = a * BUFFER_SIZE /\ v = q * BUFFER_SIZE
  BY <1>5
<1>7. already_write_index' = r
  BY <1>1, <1>2, <1>3 DEF Announced
<1>8. Counted(a) = u + already_write_index + nb_dq
  BY <1>6 DEF Counted, UpTo
<1>9. Counted(a) = u + x
  <2>1. already_write_index \in Nat
    BY DEF NodeInv, RingInv, TypeOK, MemoryTypeOK, Slot
  <2> QED
    BY <1>b, <1>2, <1>6, <1>8, <2>1
<1>10. (a + q) * BUFFER_SIZE + r = Counted(a)
  <2>1. (a + q) * BUFFER_SIZE = u + v
    BY <1>4, <1>6
  <2>2. x = v + r
    BY <1>3, <1>5, <1>6
  <2>3. (u + v) + r = u + (v + r)
    OBVIOUS
  <2> QED
    BY <1>9, <2>1, <2>2, <2>3
<1>11. a + q \in Nat
  BY <1>3
<1>12. UpTo(a + q)' = Counted(a)
  BY <1>7, <1>10 DEF UpTo
<1>13. Counted(a + q)' = Counted(a)
  BY <1>1, <1>12, <1>b DEF Counted
<1>14. JobOrder' /\ CopyOrder'
  BY <1>1 DEF JobOrder, CopyOrder, Jobs, InHand, Received, Position
<1>15. CountInv(a + q)'
  <2>1. Received' = Received /\ Jobs' = Jobs
    BY <1>1 DEF Received, Jobs
  <2>2. WrittenTo(Counted(a) + done[0]) => WrittenTo(Counted(a + q) + done[0])'
    <3>1. Counted(a + q)' + done'[0] = Counted(a) + done[0]
      BY <1>1, <1>13
    <3> QED
      BY <1>1, <3>1 DEF WrittenTo
  <2> QED
    BY <1>1, <1>13, <2>1, <2>2 DEF CountInv, Position
<1> QED
  BY <1>11, <1>12, <1>14, <1>15

\* The other steps of the receive core.
LEMMA CoreOrder ==
  ASSUME JobOrder, CopyOrder, NEW a \in Nat, CountInv(a),
         EmptyBurst \/ Burst \/ Submit, refused' = refused
  PROVE  JobOrder' /\ CopyOrder' /\ CountInv(a)'
<1>1. UNCHANGED <<jobs, done, half, headPart, tailPart, nb_dq, lap, write_index,
                  already_write_index>>
  BY DEF EmptyBurst, Burst, Submit, dma, memory
<1> QED
  BY <1>1, OrderStays

\* The device starts on a copy: the first cache line of its slot is new.
LEMMA CopyHeadOrder ==
  ASSUME NodeInv, OneDevice, JobOrder, CopyOrder, NEW a \in Nat, CountInv(a),
         CopyHead(0), refused' = refused
  PROVE  JobOrder' /\ CopyOrder' /\ CountInv(a)'
<1>a. /\ Len(Jobs) \in Nat /\ 0 \in Dev
      /\ \A k \in 1 .. Len(Jobs) : Jobs[k] \in Packet
      /\ done[0] \in Nat /\ done[0] < submitted[0] /\ submitted[0] <= Len(Jobs)
      /\ submitted[0] \in Nat
      /\ headPart \in [Slot -> Packet \cup {NoPacket}]
  BY DeviceTypes DEF CopyHead
<1>1. /\ UNCHANGED <<jobs, done, tailPart, nb_dq, lap, write_index,
                     already_write_index>>
      /\ headPart' = [headPart EXCEPT ![Jobs[InHand].slot] = Jobs[InHand]]
      /\ half' = [half EXCEPT ![0] = TRUE] /\ ~half[0]
  BY DEF CopyHead, dump, Jobs, InHand
<1>2. InHand \in 1 .. Len(Jobs)
  BY <1>a DEF InHand
<1>3. PICK p \in Packet : p = Jobs[InHand]
  BY <1>a, <1>2
<1>4. p.slot \in Slot
  BY PositionType
<1>5. half'[0] = TRUE
  BY <1>1, <1>a DEF NodeInv, RingInv, TypeOK, DeviceTypeOK
<1>6. \A s \in Slot : headPart[s] = tailPart[s]
  BY <1>1 DEF CopyOrder
<1>7. \A s \in Slot : headPart'[s] = IF s = p.slot THEN p ELSE tailPart[s]
  BY <1>a, <1>1, <1>3, <1>4, <1>6
<1>8. JobOrder'
  BY <1>1 DEF JobOrder, Jobs, Received, Position
<1>9. CopyOrder'
  <2>1. Jobs'[InHand'] = p
    BY <1>1, <1>3 DEF Jobs, InHand
  <2>2. \A s \in Slot : headPart'[s] =
          IF half'[0] /\ s = Jobs'[InHand'].slot THEN Jobs'[InHand'] ELSE tailPart'[s]
    BY <1>1, <1>5, <1>7, <2>1
  <2>3. \A s \in Slot : tailPart[s] # NoPacket =>
          /\ tailPart[s].slot = s /\ Position(tailPart[s]) < Received
          /\ \A k \in InHand .. Len(Jobs) : Position(tailPart[s]) < Position(Jobs[k])
    BY DEF CopyOrder
  <2>4. InHand' = InHand /\ Received' = Received /\ Jobs' = Jobs
    BY <1>1 DEF InHand, Received, Jobs
  <2> QED
    BY <1>1, <2>2, <2>3, <2>4 DEF CopyOrder, Position
<1>10. CountInv(a)'
  BY <1>1 DEF CountInv, Jobs, Counted, UpTo, Received, WrittenTo, Position
<1> QED
  BY <1>8, <1>9, <1>10

\* The copy a device has in hand, and what it does to the rest of the slot.
LEMMA CopyTailFacts ==
  ASSUME NodeInv, OneDevice, CopyTail(0)
  PROVE  /\ InHand \in 1 .. Len(Jobs) /\ Jobs[InHand] \in Packet
         /\ Jobs[InHand].slot \in Slot /\ Jobs[InHand] # NoPacket
         /\ UNCHANGED <<jobs, headPart, nb_dq, lap, write_index,
                        already_write_index>>
         /\ half[0] /\ half'[0] = FALSE /\ done'[0] = done[0] + 1
         /\ \A s \in Slot : tailPart'[s] = IF s = Jobs[InHand].slot
                                           THEN Jobs[InHand] ELSE tailPart[s]
<1>a. /\ Len(Jobs) \in Nat /\ 0 \in Dev
      /\ \A k \in 1 .. Len(Jobs) : Jobs[k] \in Packet
      /\ done[0] \in Nat /\ done[0] < submitted[0] /\ submitted[0] <= Len(Jobs)
      /\ submitted[0] \in Nat
      /\ tailPart \in [Slot -> Packet \cup {NoPacket}]
  BY DeviceTypes DEF CopyTail
<1>1. /\ UNCHANGED <<jobs, headPart, nb_dq, lap, write_index,
                     already_write_index>>
      /\ tailPart' = [tailPart EXCEPT ![Jobs[InHand].slot] = Jobs[InHand]]
      /\ half' = [half EXCEPT ![0] = FALSE] /\ half[0]
      /\ done' = [done EXCEPT ![0] = done[0] + 1]
  BY DEF CopyTail, dump, Jobs, InHand
<1>2. InHand \in 1 .. Len(Jobs)
  BY <1>a DEF InHand
<1>3. PICK p \in Packet : p = Jobs[InHand]
  BY <1>a, <1>2
<1>4. p.slot \in Slot /\ p # NoPacket
  BY PositionType, NoPacketAssumption
<1>5. half'[0] = FALSE /\ done'[0] = done[0] + 1
  BY <1>1, <1>a DEF NodeInv, RingInv, TypeOK, DeviceTypeOK
<1>6. \A s \in Slot : tailPart'[s] = IF s = p.slot THEN p ELSE tailPart[s]
  BY <1>a, <1>1, <1>3, <1>4
<1> QED
  BY <1>1, <1>2, <1>3, <1>4, <1>5, <1>6

\* What a slot holds is replaced by later packets only.
LEMMA TailGrows ==
  ASSUME NodeInv, OneDevice, CopyOrder, CopyTail(0), NEW n \in Nat, WrittenTo(n)
  PROVE  \A s \in Slot, l \in Nat : l * BUFFER_SIZE + s < n =>
           tailPart'[s] # NoPacket /\ tailPart'[s].lap >= l
<1> SUFFICES ASSUME NEW s \in Slot, NEW l \in Nat, l * BUFFER_SIZE + s < n
             PROVE  tailPart'[s] # NoPacket /\ tailPart'[s].lap >= l
  OBVIOUS
<1>1. tailPart[s] # NoPacket /\ tailPart[s].lap >= l
  BY DEF WrittenTo
<1>2. PICK p \in Packet : p = Jobs[InHand]
  BY CopyTailFacts
<1>3. tailPart'[s] = IF s = p.slot THEN p ELSE tailPart[s]
  BY <1>2, CopyTailFacts
<1>4. CASE s = p.slot
  <2>1. InHand \in InHand .. Len(Jobs)
    BY CopyTailFacts
  <2>2. Position(tailPart[s]) < Position(p) /\ tailPart[s].slot = s
    BY <1>1, <1>2, <2>1 DEF CopyOrder
  <2>3. tailPart[s] \in Packet
    BY <1>1, DeviceTypes
  <2>4. tailPart[s].lap < p.lap
    BY <1>4, <2>2, <2>3, LaterLap
  <2>5. tailPart[s].lap \in Nat /\ p.lap \in Nat
    BY <2>3, PositionType
  <2>6. p # NoPacket
    BY NoPacketAssumption
  <2> QED
    BY <1>1, <1>3, <1>4, <2>4, <2>5, <2>6
<1>5. CASE s # p.slot
  BY <1>1, <1>3, <1>5
<1> QED
  BY <1>4, <1>5

\* The device is done with a copy: its slot is whole.
LEMMA CopyTailOrder ==
  ASSUME NodeInv, OneDevice, JobOrder, CopyOrder, NEW a \in Nat, CountInv(a),
         CopyTail(0), refused' = refused
  PROVE  JobOrder' /\ CopyOrder' /\ CountInv(a)'
<1>a. /\ Len(Jobs) \in Nat /\ done[0] \in Nat
      /\ \A k \in 1 .. Len(Jobs) : Position(Jobs[k]) \in Nat
  BY DeviceTypes
<1>b. Received \in Nat /\ Counted(a) \in Nat
  BY Counters
<1>1. PICK p \in Packet : p = Jobs[InHand]
  BY CopyTailFacts
<1>2. /\ InHand \in 1 .. Len(Jobs) /\ p.slot \in Slot /\ p # NoPacket
      /\ UNCHANGED <<jobs, headPart, nb_dq, lap, write_index,
                     already_write_index>>
      /\ half[0] /\ half'[0] = FALSE /\ done'[0] = done[0] + 1
      /\ \A s \in Slot : tailPart'[s] = IF s = p.slot THEN p ELSE tailPart[s]
  BY <1>1, CopyTailFacts
<1>3. JobOrder'
  BY <1>2 DEF JobOrder, Jobs, Received, Position
<1>4. /\ Position(p) < Received
      /\ \A k \in InHand + 1 .. Len(Jobs) : Position(p) < Position(Jobs[k])
  <2>1. ASSUME NEW k \in InHand + 1 .. Len(Jobs)
        PROVE  Position(p) < Position(Jobs[k])
    <3>1. k \in 1 .. Len(Jobs) /\ InHand \in 1 .. k - 1
      BY <1>2, <1>a
    <3> QED
      BY <1>1, <3>1 DEF JobOrder
  <2> QED
    BY <1>1, <1>2, <2>1 DEF JobOrder
<1>5. InHand' = InHand + 1 /\ InHand = done[0] + 1
  BY <1>2, <1>a DEF InHand
<1>6. CopyOrder'
  <2>1. ASSUME NEW s \in Slot, tailPart'[s] # NoPacket
        PROVE  /\ tailPart'[s].slot = s /\ Position(tailPart'[s]) < Received
               /\ \A k \in InHand + 1 .. Len(Jobs) :
                    Position(tailPart'[s]) < Position(Jobs[k])
    <3>1. CASE s = p.slot
      BY <1>2, <1>4, <3>1
    <3>2. CASE s # p.slot
      <4>1. tailPart'[s] = tailPart[s]
        BY <1>2, <3>2
      <4>2. \A k \in InHand + 1 .. Len(Jobs) : k \in InHand .. Len(Jobs)
        BY <1>a, <1>2
      <4>3. /\ tailPart[s].slot = s /\ Position(tailPart[s]) < Received
            /\ \A k \in InHand .. Len(Jobs) :
                 Position(tailPart[s]) < Position(Jobs[k])
        BY <2>1, <4>1 DEF CopyOrder
      <4> QED
        BY <4>1, <4>2, <4>3
    <3> QED
      BY <3>1, <3>2
  <2>2. \A s \in Slot : headPart'[s] = tailPart'[s]
    BY <1>1, <1>2 DEF CopyOrder
  <2>3. Received' = Received /\ Jobs' = Jobs
    BY <1>2 DEF Received, Jobs
  <2> QED
    BY <1>2, <1>5, <2>1, <2>2, <2>3 DEF CopyOrder, Position
<1>7. CountInv(a)'
  <2>1. Counted(a)' = Counted(a) /\ Received' = Received /\ Jobs' = Jobs
    BY <1>2 DEF Counted, UpTo, Received, Jobs
  <2>2. /\ Counted(a) + Len(Jobs) <= Received
        /\ \A k \in 1 .. Len(Jobs) : Counted(a) + k - 1 <= Position(Jobs[k])
    BY DEF CountInv
  <2>3. ASSUME ~refused
        PROVE  /\ Counted(a) + Len(Jobs) = Received
               /\ \A k \in 1 .. Len(Jobs) : Position(Jobs[k]) = Counted(a) + k - 1
               /\ \A s \in Slot, l \in Nat :
                    l * BUFFER_SIZE + s < Counted(a) + (done[0] + 1) =>
                      tailPart'[s] # NoPacket /\ tailPart'[s].lap >= l
    <3>1. /\ Counted(a) + Len(Jobs) = Received
          /\ \A k \in 1 .. Len(Jobs) : Position(Jobs[k]) = Counted(a) + k - 1
          /\ WrittenTo(Counted(a) + done[0])
      BY <2>3 DEF CountInv
    <3>2. Position(p) = Counted(a) + done[0]
      <4>1. Position(p) = Counted(a) + InHand - 1
        BY <1>1, <1>2, <3>1
      <4>2. InHand = done[0] + 1
        BY <1>5
      <4> QED
        BY <1>a, <1>b, <4>1, <4>2
    <3>3. Counted(a) + done[0] \in Nat
      BY <1>a, <1>b
    <3>4. ASSUME NEW s \in Slot, NEW l \in Nat,
                 l * BUFFER_SIZE + s < Counted(a) + (done[0] + 1)
          PROVE  tailPart'[s] # NoPacket /\ tailPart'[s].lap >= l
      <4>1. CASE l * BUFFER_SIZE + s < Counted(a) + done[0]
        BY <3>1, <3>3, <4>1, TailGrows
      <4>2. CASE l * BUFFER_SIZE + s = Counted(a) + done[0]
        <5>1. p = [lap |-> l, slot |-> s]
          BY <3>2, <4>2, PositionUnique
        <5>2. p.slot = s /\ p.lap = l
          BY <5>1
        <5> QED
          BY <1>2, <5>2
      <4>3. PICK x \in Nat : x = l * BUFFER_SIZE + s
        <5>1. l * BUFFER_SIZE \in Nat /\ s \in Nat
          BY LapsCompare DEF Slot
        <5> QED
          BY <5>1
      <4>4. x < Counted(a) + (done[0] + 1)
        BY <3>4, <4>3
      <4>5. x < Counted(a) + done[0] \/ x = Counted(a) + done[0]
        <5>1. PICK c \in Nat, d \in Nat : c = Counted(a) /\ d = done[0]
          BY <1>a, <1>b
        <5>2. x < c + (d + 1)
          BY <4>4, <5>1
        <5>3. x < c + d \/ x = c + d
          BY <5>2
        <5> QED
          BY <5>1, <5>3
      <4> QED
        BY <4>1, <4>2, <4>3, <4>5
    <3> QED
      BY <3>1, <3>4
  <2>4. ~refused => WrittenTo(Counted(a) + done[0])'
    BY <1>2, <2>1, <2>3 DEF WrittenTo
  <2> QED
    BY <2>1, <2>2, <2>3, <2>4 DEF CountInv, Position
<1> QED
  BY <1>3, <1>6, <1>7

\* Every step of the dump keeps the order, and the parser behind.
LEMMA DmaOrder ==
  ASSUME NodeInv, OneDevice, JobOrder, CopyOrder,
         NEW a \in Nat, CountInv(a), BehindInv(a),
         DmaDump, refused' = (refused \/ Refuse), rlap' = rlap
  PROVE  /\ JobOrder' /\ CopyOrder'
         /\ \E c \in Nat : CountInv(c)' /\ BehindInv(c)'
<1>b. /\ Counted(a) \in Nat /\ nb_dq \in Nat /\ UpTo(a) \in Nat /\ Decoded \in Nat
  BY Counters
<1>1. read_index' = read_index /\ ppc' = ppc /\ Decoded' = Decoded
  BY DmaKeepsReaders DEF parser, Decoded
<1>2. ASSUME ~Announce, already_write_index' = already_write_index
      PROVE  BehindInv(a)'
  BY <1>1, <1>2 DEF BehindInv, UpTo
<1>3. CASE Accept
  <2>1. BehindInv(a)'
    BY <1>2, <1>3 DEF Accept, Announce
  <2> QED
    BY <1>3, <2>1, AcceptOrder
<1>4. CASE Refuse
  <2>1. BehindInv(a)'
    BY <1>2, <1>4 DEF Refuse, Announce
  <2> QED
    BY <1>4, <2>1, RefuseOrder
<1>5. ASSUME ~Refuse PROVE refused' = refused
  BY <1>5, RefusedKept
<1>6. CASE Dequeue
  <2>1. BehindInv(a)'
    <3>1. ~Announce
      BY <1>6, Constants DEF Dequeue, Announce, NodeInv, RingInv, TypeOK, CoreTypeOK
    <3> QED
      BY <1>2, <1>6, <3>1 DEF Dequeue
  <2>2. ~Refuse
    BY <1>6 DEF Dequeue, Refuse
  <2> QED
    BY <1>5, <1>6, <2>1, <2>2, DequeueOrder
<1>7. CASE Announce
  <2>1. ~Refuse
    BY <1>7 DEF Announce, Refuse
  <2>2. JobOrder' /\ CopyOrder'
    BY <1>5, <1>7, <2>1, AnnounceOrder
  <2>3. PICK c \in Nat : CountInv(c)' /\ UpTo(c)' = Counted(a)
    BY <1>5, <1>7, <2>1, AnnounceOrder
  <2>4. UpTo(a) <= Counted(a)
    BY <1>b DEF Counted
  <2>5. BehindInv(c)'
    BY <1>1, <1>b, <2>3, <2>4 DEF BehindInv
  <2> QED
    BY <2>2, <2>3, <2>5
<1>8. CASE EmptyBurst \/ Burst \/ Submit
  <2>1. BehindInv(a)'
    BY <1>2, <1>8 DEF EmptyBurst, Burst, Submit, Announce
  <2>2. ~Refuse
    BY <1>8 DEF EmptyBurst, Burst, Submit, Refuse
  <2> QED
    BY <1>5, <1>8, <2>1, <2>2, CoreOrder
<1>9. CASE CopyHead(0) \/ CopyTail(0)
  <2>1. UNCHANGED dump
    BY <1>9 DEF CopyHead, CopyTail
  <2>2. ~Refuse
    BY <2>1 DEF dump, Refuse
  <2>3. BehindInv(a)'
    BY <1>1, <2>1 DEF BehindInv, UpTo, dump
  <2> QED
    BY <1>5, <1>9, <2>2, <2>3, CopyHeadOrder, CopyTailOrder
<1>10. \A d \in Dev : d = 0
  BY DEF OneDevice, Dev
<1> QED
  BY <1>3, <1>4, <1>6, <1>7, <1>8, <1>9, <1>10 DEF DmaDump, RxCore

-----------------------------------------------------------------------------
(* The parser and the extractor behind one DMA device.                     *)

LEMMA DecodedNext ==
  ASSUME NodeInv, WriteMeta,
         rlap' = IF ppc = "write" /\ read_index + 1 = BUFFER_SIZE
                 THEN rlap + 1 ELSE rlap
  PROVE  Decoded' = Decoded + 1
<1>1. read_index \in Slot /\ rlap \in Nat
  BY Counters
<1>2. read_index + 1 = BUFFER_SIZE <=> read_index + 1 >= BUFFER_SIZE
  BY <1>1, Constants DEF Slot
<1>3. (IF read_index + 1 >= BUFFER_SIZE THEN rlap + 1 ELSE rlap) * BUFFER_SIZE
        + After(read_index) = rlap * BUFFER_SIZE + read_index + 1
  BY <1>1, NextPosition
<1>4. rlap' = (IF read_index + 1 >= BUFFER_SIZE THEN rlap + 1 ELSE rlap)
      /\ read_index' = After(read_index)
  BY <1>2 DEF WriteMeta
<1> QED
  BY <1>3, <1>4 DEF Decoded

\* The packet at hand when the parser reads a slot.
LEMMA PacketRead ==
  ASSUME NodeInv, OneDevice, CopyOrder, NEW a \in Nat, CountInv(a), BehindInv(a),
         ReadPacket
  PROVE  /\ headPart[read_index] \in Packet
         /\ headPart[read_index].slot = read_index
         /\ headPart[read_index].lap <= lap
         /\ Decoded < Counted(a) /\ Position(headPart[read_index]) \in Nat
         /\ headPart[read_index] = tailPart[read_index] \/
              /\ InHand \in 1 .. Len(Jobs)
              /\ headPart[read_index] = Jobs[InHand]
              /\ Decoded < Position(headPart[read_index])
<1>1. /\ read_index \in Slot /\ UpTo(a) \in Nat /\ nb_dq \in Nat
      /\ Counted(a) \in Nat /\ Decoded \in Nat
  BY Counters
<1>2. headPart[read_index] # NoPacket
  BY DEF ReadPacket, is_current_round, Tag, NodeInv, RingInv, TagInv, TypeOK,
         ReaderTypeOK
<1>3. headPart[read_index] \in Packet
  BY <1>1, <1>2, DeviceTypes
<1>4. headPart[read_index].slot = read_index /\ headPart[read_index].lap <= lap
  BY <1>1, <1>2 DEF NodeInv, RingInv, TagInv
<1>5. Decoded < Counted(a)
  <2>1. Decoded < UpTo(a)
    BY DEF BehindInv, ReadPacket
  <2> QED
    BY <1>1, <2>1 DEF Counted
<1>6. CASE headPart[read_index] # tailPart[read_index]
  <2>1. half[0] /\ headPart[read_index] = Jobs[InHand]
    BY <1>1, <1>6 DEF CopyOrder
  <2>2. InHand \in 1 .. Len(Jobs)
    BY <2>1, DeviceTypes DEF InHand
  <2>3. Counted(a) + InHand - 1 <= Position(Jobs[InHand])
    BY <2>2 DEF CountInv
  <2>4. Position(Jobs[InHand]) \in Nat
    BY <2>2, DeviceTypes
  <2>5. Decoded < Position(Jobs[InHand])
    BY <1>1, <1>5, <2>2, <2>3, <2>4
  <2> QED
    BY <1>3, <1>4, <1>5, <2>1, <2>2, <2>5, PositionType
<1> QED
  BY <1>3, <1>4, <1>5, <1>6, PositionType

\* Unless the ring is overrun, nothing is being copied to the slot that is read.
LEMMA WholeStep ==
  ASSUME NodeInv, OneDevice, OrderInv, ReadPacket, NotOverrun
  PROVE  tailPart[read_index] = headPart[read_index]
<1>1. /\ JobOrder /\ CopyOrder /\ Extracted <= Decoded
  BY DEF OrderInv, OneDevice
<1>2. PICK a \in Nat : CountInv(a) /\ BehindInv(a)
  BY DEF OrderInv, OneDevice
<1>3. PICK q \in Packet : q = headPart[read_index]
  BY <1>1, <1>2, PacketRead
<1>4. SUFFICES ASSUME q # tailPart[read_index] PROVE FALSE
  BY <1>3
<1>5. /\ q.slot = read_index /\ InHand \in 1 .. Len(Jobs) /\ q = Jobs[InHand]
      /\ Decoded < Position(q) /\ Position(q) \in Nat
  BY <1>1, <1>2, <1>3, <1>4, PacketRead
<1>6. Position(q) < Received
  BY <1>1, <1>5 DEF JobOrder
<1>7. Decoded + BUFFER_SIZE <= Position(q)
  BY <1>5, Counters, SlotHolds DEF Decoded
<1>8. Received - Extracted < BUFFER_SIZE
  BY DEF NotOverrun
<1>9. Received \in Nat /\ Extracted \in Nat /\ Decoded \in Nat
      /\ BUFFER_SIZE \in Nat \ {0}
  BY Counters, Constants
<1> QED
  BY <1>1, <1>5, <1>6, <1>7, <1>8, <1>9

\* The packet the parser accepts is the one it is due to decode, in all its
\* bytes.
LEMMA DueStep ==
  ASSUME NodeInv, OneDevice, OrderInv, RoundInv, ReadPacket, RoundsKept,
         lap + 1 < TagValues
  PROVE  /\ headPart[read_index] = [lap |-> rlap, slot |-> read_index]
         /\ tailPart[read_index] = [lap |-> rlap, slot |-> read_index]
<1>1. /\ JobOrder /\ CopyOrder /\ Extracted <= Decoded
  BY DEF OrderInv, OneDevice
<1>2. PICK a \in Nat : CountInv(a) /\ BehindInv(a)
  BY DEF OrderInv, OneDevice
<1>3. PICK q \in Packet : q = headPart[read_index]
  BY <1>1, <1>2, PacketRead
<1>4. /\ q.slot = read_index /\ q.lap <= lap /\ Decoded < Counted(a)
      /\ q = tailPart[read_index] \/ Decoded < Position(q)
  BY <1>1, <1>2, <1>3, PacketRead
<1>5. /\ lap \in Nat /\ rlap \in Nat /\ read_index \in Slot
      /\ Counted(a) \in Nat /\ Decoded \in Nat
      /\ q.lap \in Nat /\ round_num \in Nat
  BY PositionType, Counters DEF NodeInv, RingInv, TypeOK, ReaderTypeOK
<1>6. q.lap + 1 = round_num
  <2>1. Tag(q) = round_num /\ q # NoPacket
    BY <1>3, NoPacketAssumption DEF ReadPacket, is_current_round
  <2>2. q.lap + 1 \in 0 .. TagValues - 1
    BY <1>4, <1>5, Constants
  <2>3. (q.lap + 1) % TagValues = q.lap + 1
    BY <2>2, Constants
  <2> QED
    BY <2>1, <2>3 DEF Tag
<1>7. q.lap = rlap
  <2>1. CASE restarts = 0
    BY <1>5, <1>6, <2>1 DEF RoundInv
  <2>2. CASE restarts # 0
    <3>1. WrittenTo(Counted(a) + done[0])
      <4>1. ~refused
        BY <2>2 DEF RoundsKept
      <4> QED
        BY <1>2, <4>1 DEF CountInv
    <3>2. rlap * BUFFER_SIZE + read_index < Counted(a) + done[0]
      BY <1>4, <1>5, DeviceTypes DEF Decoded
    <3>3. tailPart[read_index].lap >= rlap
      BY <1>5, <3>1, <3>2 DEF WrittenTo
    <3>4. Decoded < Position(q) => q.lap > rlap
      BY <1>4, <1>5, SlotHolds DEF Decoded
    <3>5. q.lap >= rlap
      BY <1>4, <1>5, <3>3, <3>4
    <3>6. round_num <= rlap + 1
      BY DEF RoundInv
    <3> QED
      BY <1>5, <1>6, <3>5, <3>6
  <2> QED
    BY <2>1, <2>2
<1>8. q = [lap |-> rlap, slot |-> read_index]
  BY <1>4, <1>5, <1>7, SlotHolds
<1>9. Position(q) = Decoded
  BY <1>4, <1>7 DEF Position, Decoded
<1>10. q = tailPart[read_index]
  BY <1>4, <1>5, <1>9
<1> QED
  BY <1>3, <1>8, <1>10

\* What the extractor copies is the packet its index stands for.
LEMMA ExtractStep ==
  ASSUME NodeInv, OneDevice, OrderInv, DecodedInv, Extract, NotOverrun, RoundsKept
  PROVE  LET p == [lap |-> xlap, slot |-> extractor_read_index] IN
         {headPart[p.slot], tailPart[p.slot], meta[p.slot]} = {p}
<1> DEFINE s == extractor_read_index
           l == xlap
<1>1. JobOrder /\ CopyOrder /\ Extracted <= Decoded
  BY DEF OrderInv, OneDevice
<1>2. PICK a \in Nat : CountInv(a) /\ BehindInv(a)
  BY DEF OrderInv, OneDevice
<1>3. /\ Received \in Nat /\ Extracted \in Nat /\ Decoded \in Nat
      /\ UpTo(a) \in Nat /\ Counted(a) \in Nat /\ nb_dq \in Nat
      /\ l \in Nat /\ s \in Slot /\ BUFFER_SIZE \in Nat \ {0}
      /\ rlap \in Nat /\ read_index \in Slot
  BY Counters, Constants
<1>4. Extracted < Decoded
  <2>1. Extracted # Decoded
    BY <1>3, IndexesDiffer DEF Extract, Extracted, Decoded
  <2> QED
    BY <1>1, <1>3, <2>1
<1>5. Decoded <= Received /\ Received < Extracted + BUFFER_SIZE
  <2>1. Decoded <= UpTo(a) /\ UpTo(a) <= Counted(a)
    BY <1>2, <1>3 DEF BehindInv, Counted
  <2>2. Counted(a) + Len(Jobs) <= Received /\ Len(Jobs) \in Nat
    BY <1>2, DeviceTypes DEF CountInv
  <2>3. Received - Extracted < BUFFER_SIZE
    BY DEF NotOverrun
  <2> QED
    BY <1>3, <2>1, <2>2, <2>3
<1>6. /\ WrittenTo(IF ppc = "write" THEN Decoded + 1 ELSE Decoded)
      /\ (l * BUFFER_SIZE + s < Decoded /\ Decoded <= (l + 1) * BUFFER_SIZE + s)
           => meta[s] = [lap |-> l, slot |-> s]
  BY <1>3 DEF DecodedInv
<1>7. Extracted = l * BUFFER_SIZE + s
  BY DEF Extracted
<1>8. meta[s] = [lap |-> l, slot |-> s]
  <2>1. (l + 1) * BUFFER_SIZE = l * BUFFER_SIZE + BUFFER_SIZE
    BY <1>3, ProductNext
  <2>2. PICK u \in Nat : u = l * BUFFER_SIZE
    BY <1>3, LapsCompare
  <2>3. s \in Nat
    BY <1>3 DEF Slot
  <2>4. Decoded <= (l + 1) * BUFFER_SIZE + s
    BY <1>3, <1>5, <1>7, <2>1, <2>2, <2>3
  <2> QED
    BY <1>4, <1>6, <1>7, <2>4
<1>9. tailPart[s] # NoPacket /\ tailPart[s].lap >= l
  BY <1>3, <1>4, <1>6, <1>7 DEF WrittenTo
<1>10. PICK t \in Packet : t = tailPart[s]
  BY <1>3, <1>9, DeviceTypes
<1>11. ASSUME NEW q \in Packet, q.slot = s, q.lap >= l, Position(q) < Received
       PROVE  q = [lap |-> l, slot |-> s]
  <2>1. q.lap > l => Extracted + BUFFER_SIZE <= Position(q)
    BY <1>3, <1>7, <1>11, SlotHolds
  <2>2. Position(q) \in Nat /\ q.lap \in Nat
    BY PositionType
  <2>3. q.lap = l
    BY <1>3, <1>5, <1>11, <2>1, <2>2
  <2> QED
    BY <1>3, <1>11, <2>3, SlotHolds
<1>12. t.slot = s /\ Position(t) < Received
  BY <1>1, <1>3, <1>9, <1>10 DEF CopyOrder
<1>13. tailPart[s] = [lap |-> l, slot |-> s]
  BY <1>9, <1>10, <1>11, <1>12
<1>14. headPart[s] = [lap |-> l, slot |-> s]
  <2>1. CASE headPart[s] = tailPart[s]
    BY <1>13, <2>1
  <2>2. CASE headPart[s] # tailPart[s]
    <3>1. half[0] /\ s = Jobs[InHand].slot /\ headPart[s] = Jobs[InHand]
      BY <1>1, <1>3, <2>2 DEF CopyOrder
    <3>2. InHand \in 1 .. Len(Jobs) /\ InHand \in InHand .. Len(Jobs)
      BY <3>1, DeviceTypes DEF InHand
    <3>3. PICK q \in Packet : q = Jobs[InHand]
      BY <3>2, DeviceTypes
    <3>4. Position(t) < Position(q) /\ Position(q) < Received /\ q.slot = s
      BY <1>1, <1>3, <1>9, <1>10, <3>1, <3>2, <3>3 DEF CopyOrder, JobOrder
    <3>5. t.lap < q.lap /\ t.lap \in Nat /\ q.lap \in Nat
      BY <1>12, <3>4, LaterLap, PositionType
    <3>6. q.lap >= l
      BY <1>3, <1>9, <1>10, <3>5
    <3> QED
      BY <1>11, <3>1, <3>3, <3>4, <3>6
  <2> QED
    BY <2>1, <2>2
<1> QED
  BY <1>8, <1>13, <1>14

\* The parser moves on without overtaking what is announced.
LEMMA ParserBehind ==
  ASSUME NodeInv, NEW a \in Nat, BehindInv(a), Extracted <= Decoded, Parser,
         rlap' = IF ppc = "write" /\ read_index + 1 = BUFFER_SIZE
                 THEN rlap + 1 ELSE rlap
  PROVE  BehindInv(a)' /\ Extracted' <= Decoded'
<1>1. /\ Decoded \in Nat /\ UpTo(a) \in Nat /\ Extracted \in Nat
      /\ read_index \in Slot /\ rlap \in Nat
  BY Counters
<1>2. UpTo(a)' = UpTo(a) /\ Extracted' = Extracted
  BY DEF Parser, SeePacket, ReadPacket, WriteMeta, dump, extractor, UpTo,
         Extracted
<1>3. Decoded <= UpTo(a) /\ (ppc # "check" => Decoded < UpTo(a))
  BY DEF BehindInv
<1>4. CASE SeePacket
  <2>1. Decoded' = Decoded
    BY <1>4 DEF SeePacket, Decoded
  <2>2. Decoded # UpTo(a)
    <3>1. already_write_index \in Slot /\ read_index # already_write_index
      BY <1>4 DEF SeePacket, Available, NodeInv, RingInv, TypeOK, MemoryTypeOK
    <3> QED
      BY <1>1, <3>1, IndexesDiffer DEF Decoded, UpTo
  <2> QED
    BY <1>1, <1>2, <1>3, <2>1, <2>2 DEF BehindInv
<1>5. CASE ReadPacket
  <2>1. Decoded' = Decoded /\ ppc = "spin"
    BY <1>5 DEF ReadPacket, Decoded
  <2> QED
    BY <1>2, <1>3, <2>1 DEF BehindInv
<1>6. CASE WriteMeta
  <2>1. Decoded' = Decoded + 1
    BY <1>6, DecodedNext
  <2>2. ppc = "write" /\ ppc' = "check"
    BY <1>6 DEF WriteMeta
  <2>3. Decoded < UpTo(a)
    BY <1>3, <2>2
  <2>4. Decoded + 1 <= UpTo(a) /\ Extracted <= Decoded + 1
    BY <1>1, <2>3
  <2> QED
    BY <1>2, <2>1, <2>2, <2>4 DEF BehindInv
<1> QED
  BY <1>4, <1>5, <1>6 DEF Parser

LEMMA RoundStep ==
  ASSUME NodeInv, RoundInv, Parser,
         rlap' = IF ppc = "write" /\ read_index + 1 = BUFFER_SIZE
                 THEN rlap + 1 ELSE rlap,
         restarts' = restarts
  PROVE  RoundInv'
<1>1. /\ read_index \in Slot /\ rlap \in Nat /\ round_num \in Nat
  BY Counters DEF NodeInv, RingInv, TypeOK, ReaderTypeOK
<1>2. CASE SeePacket \/ ReadPacket
  BY <1>2 DEF SeePacket, ReadPacket, RoundInv
<1>3. CASE WriteMeta
  <2>1. read_index + 1 = BUFFER_SIZE <=> read_index + 1 >= BUFFER_SIZE
    BY <1>1, Constants DEF Slot
  <2>2. /\ round_num' = IF read_index + 1 >= BUFFER_SIZE
                        THEN round_num + 1 ELSE round_num
        /\ rlap' = IF read_index + 1 >= BUFFER_SIZE THEN rlap + 1 ELSE rlap
    BY <1>3, <2>1 DEF WriteMeta, RoundAfter
  <2> QED
    BY <1>1, <2>2 DEF RoundInv
<1> QED
  BY <1>2, <1>3 DEF Parser

\* Writing a result back: meta of the slot is that of the packet decoded.
LEMMA WriteDecoded ==
  ASSUME NodeInv, RoundsKept, DecodedInv, WriteMeta, Decoded' = Decoded + 1
  PROVE  \A s \in Slot, l \in Nat :
           (l * BUFFER_SIZE + s < Decoded + 1
              /\ Decoded + 1 <= (l + 1) * BUFFER_SIZE + s)
             => meta'[s] = [lap |-> l, slot |-> s]
<1> SUFFICES ASSUME NEW s \in Slot, NEW l \in Nat,
                    l * BUFFER_SIZE + s < Decoded + 1,
                    Decoded + 1 <= (l + 1) * BUFFER_SIZE + s
             PROVE  meta'[s] = [lap |-> l, slot |-> s]
  OBVIOUS
<1>1. /\ rlap \in Nat /\ read_index \in Slot /\ Decoded \in Nat
      /\ BUFFER_SIZE \in Nat \ {0} /\ s \in Nat /\ read_index \in Nat
      /\ meta \in [Slot -> Packet \cup {NoPacket}]
  BY Counters, Constants DEF Slot, NodeInv, RingInv, TypeOK, MemoryTypeOK
<1>2. /\ meta' = [meta EXCEPT ![read_index] = dest]
      /\ dest = [lap |-> rlap, slot |-> read_index]
  BY DEF WriteMeta, DecodedInv
<1>3. PICK u \in Nat, v \in Nat : u = l * BUFFER_SIZE /\ v = rlap * BUFFER_SIZE
  BY <1>1, LapsCompare
<1>4. (l + 1) * BUFFER_SIZE = u + BUFFER_SIZE
  BY <1>1, <1>3, ProductNext
<1>5. Decoded = v + read_index
  BY <1>3 DEF Decoded
<1>6. u + s < v + read_index + 1 /\ v + read_index + 1 <= u + BUFFER_SIZE + s
  BY <1>3, <1>4, <1>5
<1>7. CASE s = read_index
  <2>1. u < v + 1 /\ v + 1 <= u + BUFFER_SIZE
    BY <1>1, <1>3, <1>6, <1>7
  <2>2. /\ l < rlap => u + BUFFER_SIZE <= v
        /\ rlap < l => v + BUFFER_SIZE <= u
    BY <1>1, <1>3, LapsCompare
  <2>3. l = rlap
    BY <1>1, <1>3, <2>1, <2>2
  <2> QED
    BY <1>1, <1>2, <1>7, <2>3
<1>8. CASE s # read_index
  <2>1. l * BUFFER_SIZE + s # Decoded
    BY <1>1, <1>8, IndexesDiffer DEF Decoded
  <2>2. u + s # v + read_index
    BY <1>3, <1>5, <2>1
  <2>3. u + s < v + read_index /\ v + read_index <= u + BUFFER_SIZE + s
    BY <1>1, <1>3, <1>6, <2>2
  <2>4. l * BUFFER_SIZE + s < Decoded /\ Decoded <= (l + 1) * BUFFER_SIZE + s
    BY <1>3, <1>4, <1>5, <2>3
  <2>5. meta[s] = [lap |-> l, slot |-> s]
    BY <2>4 DEF DecodedInv
  <2> QED
    BY <1>1, <1>2, <1>8, <2>5
<1> QED
  BY <1>7, <1>8

LEMMA ParserDecoded ==
  ASSUME NodeInv, OneDevice, OrderInv, RoundInv, DecodedInv, Parser,
         lap + 1 < TagValues,
         rlap' = IF ppc = "write" /\ read_index + 1 = BUFFER_SIZE
                 THEN rlap + 1 ELSE rlap,
         UNCHANGED <<refused, restarts>>
  PROVE  DecodedInv'
<1> SUFFICES ASSUME RoundsKept PROVE DecodedInv'
  BY DEF DecodedInv, RoundsKept
<1>a. /\ WrittenTo(IF ppc = "write" THEN Decoded + 1 ELSE Decoded)
      /\ ppc = "write" => dest = [lap |-> rlap, slot |-> read_index]
      /\ \A s \in Slot, l \in Nat :
         (l * BUFFER_SIZE + s < Decoded /\ Decoded <= (l + 1) * BUFFER_SIZE + s)
           => meta[s] = [lap |-> l, slot |-> s]
  BY DEF DecodedInv
<1>b. tailPart' = tailPart
  BY DEF Parser, SeePacket, ReadPacket, WriteMeta, memory
<1>1. CASE SeePacket
  <2>1. ppc = "check" /\ ppc' = "spin" /\ rlap' = rlap
        /\ UNCHANGED <<dest, meta, read_index>>
    BY <1>1 DEF SeePacket
  <2>2. Decoded' = Decoded
    BY <2>1 DEF Decoded
  <2> QED
    BY <1>a, <1>b, <2>1, <2>2 DEF DecodedInv, WrittenTo
<1>2. CASE ReadPacket
  <2>1. ppc = "spin" /\ ppc' = "write" /\ rlap' = rlap
        /\ dest' = tailPart[read_index] /\ UNCHANGED <<meta, read_index>>
    BY <1>2 DEF ReadPacket
  <2>2. Decoded' = Decoded
    BY <2>1 DEF Decoded
  <2>3. tailPart[read_index] = [lap |-> rlap, slot |-> read_index]
    BY <1>2, DueStep
  <2>4. rlap \in Nat /\ read_index \in Slot /\ Decoded \in Nat
    BY Counters
  <2>5. PICK p \in Packet : p = tailPart[read_index]
    BY <2>3, <2>4 DEF Packet
  <2>6. Position(p) = Decoded /\ p # NoPacket
    BY <2>3, <2>5, NoPacketAssumption DEF Position, Decoded
  <2>7. ASSUME NEW s \in Slot, NEW l \in Nat, l * BUFFER_SIZE + s < Decoded + 1
        PROVE  tailPart[s] # NoPacket /\ tailPart[s].lap >= l
    <3>1. CASE l * BUFFER_SIZE + s < Decoded
      BY <1>a, <2>1, <3>1 DEF WrittenTo
    <3>2. CASE l * BUFFER_SIZE + s = Decoded
      <4>1. p = [lap |-> l, slot |-> s]
        BY <2>6, <3>2, PositionUnique
      <4>2. s = read_index /\ p.lap = l
        BY <2>3, <2>5, <4>1
      <4> QED
        BY <2>5, <2>6, <4>2
    <3>3. l * BUFFER_SIZE \in Nat /\ s \in Nat
      BY LapsCompare DEF Slot
    <3>4. PICK x \in Nat : x = l * BUFFER_SIZE + s
      BY <3>3
    <3>5. x < Decoded \/ x = Decoded
      BY <2>4, <2>7, <3>4
    <3> QED
      BY <3>1, <3>2, <3>4, <3>5
  <2> QED
    BY <1>a, <1>b, <2>1, <2>2, <2>3, <2>7 DEF DecodedInv, WrittenTo
<1>3. CASE WriteMeta
  <2>1. ppc = "write" /\ ppc' = "check"
    BY <1>3 DEF WriteMeta
  <2>2. Decoded' = Decoded + 1
    BY <1>3, DecodedNext
  <2>3. \A s \in Slot, l \in Nat :
          (l * BUFFER_SIZE + s < Decoded + 1
             /\ Decoded + 1 <= (l + 1) * BUFFER_SIZE + s)
            => meta'[s] = [lap |-> l, slot |-> s]
    BY <1>3, <2>2, WriteDecoded
  <2> QED
    BY <1>a, <1>b, <2>1, <2>2, <2>3 DEF DecodedInv, WrittenTo
<1> QED
  BY <1>1, <1>2, <1>3 DEF Parser

LEMMA DmaDecoded ==
  ASSUME NodeInv, OneDevice, CopyOrder, DecodedInv, DmaDump,
         refused' = (refused \/ Refuse), UNCHANGED <<restarts, rlap>>
  PROVE  DecodedInv'
<1>1. UNCHANGED <<ppc, dest, read_index, meta>>
  BY DmaKeepsReaders DEF parser
<1>2. Decoded' = Decoded
  BY <1>1 DEF Decoded
<1>3. RoundsKept' => RoundsKept
  <2>1. refused => refused'
    BY Zenon
  <2> QED
    BY <2>1 DEF RoundsKept
<1>4. CASE CopyTail(0)
  <2>1. PICK n \in Nat : n = IF ppc = "write" THEN Decoded + 1 ELSE Decoded
    BY Counters
  <2>2. WrittenTo(n) => \A s \in Slot, l \in Nat : l * BUFFER_SIZE + s < n =>
                          tailPart'[s] # NoPacket /\ tailPart'[s].lap >= l
    BY <1>4, TailGrows
  <2>3. WrittenTo(n) => WrittenTo(IF ppc = "write" THEN Decoded + 1 ELSE Decoded)'
    BY <1>1, <1>2, <2>1, <2>2 DEF WrittenTo
  <2> QED
    BY <1>1, <1>2, <1>3, <2>1, <2>3 DEF DecodedInv
<1>5. CASE ~CopyTail(0)
  <2>1. tailPart' = tailPart
    BY <1>5 DEF DmaDump, RxCore, Dequeue, Announce, EmptyBurst, Burst, Submit,
                Accept, Refuse, CopyHead, memory, OneDevice, Dev
  <2> QED
    BY <1>1, <1>2, <1>3, <2>1 DEF DecodedInv, WrittenTo
<1> QED
  BY <1>4, <1>5

LEMMA RestartDecoded ==
  ASSUME NodeInv, DecodedInv, Restart
  PROVE  DecodedInv'
<1>1. /\ UNCHANGED <<tailPart, read_index, rlap, refused, meta>>
      /\ ppc' = "check" /\ restarts' = restarts + 1 /\ restarts \in Nat
      /\ Decoded \in Nat
  BY RestartFact, Counters DEF memory, NodeInv, NodeTypeOK
<1>2. Decoded' = Decoded
  BY <1>1 DEF Decoded
<1>3. RoundsKept' => RoundsKept
  BY <1>1 DEF RoundsKept
<1>4. \A n \in {Decoded, Decoded + 1}, x \in Nat : x < Decoded => x < n
  BY <1>1
<1>5. \A s \in Slot, l \in Nat : l * BUFFER_SIZE + s \in Nat
  BY LapsCompare DEF Slot
<1>6. WrittenTo(IF ppc = "write" THEN Decoded + 1 ELSE Decoded)
        => \A s \in Slot, l \in Nat : l * BUFFER_SIZE + s < Decoded =>
             tailPart[s] # NoPacket /\ tailPart[s].lap >= l
  BY <1>4, <1>5 DEF WrittenTo
<1> QED
  BY <1>1, <1>2, <1>3, <1>6 DEF DecodedInv, WrittenTo

-----------------------------------------------------------------------------
(* The invariants of every step.                                           *)

\* Under the software dump the parser never sees a packet.
LEMMA NoReaders ==
  ASSUME NodeInv, dumper = "software"
  PROVE  ~Parser /\ ~Extract /\ Decoded = 0
<1>1. SoftInv
  BY DEF NodeInv
<1>2. ~Parser /\ ~Extract
  BY <1>1 DEF SoftInv, Parser, SeePacket, ReadPacket, WriteMeta, Available,
              Extract
<1>3. rlap = 0 /\ read_index = 0
  BY <1>1 DEF SoftInv
<1>4. 0 * BUFFER_SIZE = 0
  BY Constants
<1> QED
  BY <1>2, <1>3, <1>4 DEF Decoded

LEMMA OrderInit ==
  ASSUME NodeInit, TOTAL_DMA_DEV = 1
  PROVE  OrderInv /\ RoundInv /\ DecodedInv
<1>1. /\ lap = 0 /\ write_index = 0 /\ already_write_index = 0 /\ read_index = 0
      /\ rlap = 0 /\ nb_dq = 0 /\ xlap = 0 /\ extractor_read_index = 0
      /\ ppc = "check" /\ restarts = 0 /\ round_num = 1
      /\ tailPart = [s \in Slot |-> NoPacket]
      /\ headPart = [s \in Slot |-> NoPacket]
  BY DEF NodeInit, Init
<1>2. 0 \in Dev /\ done[0] = 0 /\ half[0] = FALSE /\ Jobs = <<>> /\ Len(Jobs) = 0
  BY EmptySeq DEF NodeInit, Init, Jobs, Dev
<1>3. 0 * BUFFER_SIZE = 0
  BY Constants
<1>4. /\ Received = 0 /\ Extracted = 0 /\ Decoded = 0
      /\ UpTo(0) = 0 /\ Counted(0) = 0
  BY <1>1, <1>3 DEF Received, Extracted, Decoded, UpTo, Counted
<1>5. \A s \in Slot, l \in Nat : ~(l * BUFFER_SIZE + s < 0)
  BY LapsCompare DEF Slot
<1>6. WrittenTo(0)
  BY <1>5 DEF WrittenTo
<1>7. JobOrder
  BY <1>2 DEF JobOrder
<1>8. CopyOrder
  BY <1>1, <1>2 DEF CopyOrder
<1>9. CountInv(0) /\ BehindInv(0)
  BY <1>1, <1>2, <1>4, <1>6 DEF CountInv, BehindInv
<1>10. OrderInv
  BY <1>4, <1>7, <1>8, <1>9 DEF OrderInv
<1>11. RoundInv
  BY <1>1 DEF RoundInv
<1>12. DecodedInv
  BY <1>1, <1>4, <1>5, <1>6 DEF DecodedInv
<1> QED
  BY <1>10, <1>11, <1>12

LEMMA ExtractOrder ==
  ASSUME NodeInv, OrderInv, Extract,
         UNCHANGED <<dumper, refused, rlap>>
  PROVE  OrderInv'
<1>1. UNCHANGED <<dump, dma, memory, parser>>
  BY DEF Extract
<1>2. Decoded' = Decoded /\ Extracted' = Extracted + 1
  BY <1>1, ExtractedStep DEF Decoded, parser, NodeInv
<1>3. /\ Received \in Nat /\ Extracted \in Nat /\ Decoded \in Nat
      /\ xlap \in Nat /\ extractor_read_index \in Slot
      /\ rlap \in Nat /\ read_index \in Slot
  BY Counters
<1>4. Extracted # Decoded
  BY <1>3, IndexesDiffer DEF Extract, Extracted, Decoded
<1>5. Extracted + 1 <= Decoded
  BY <1>3, <1>4 DEF OrderInv
<1>6. UNCHANGED <<jobs, done, half, headPart, tailPart, nb_dq, lap,
                  write_index, already_write_index, refused>>
  BY <1>1 DEF dump, dma, memory
<1>7. ASSUME dumper = "dma"
      PROVE  JobOrder' /\ CopyOrder' /\ \E a \in Nat : CountInv(a)' /\ BehindInv(a)'
  <2>1. JobOrder /\ CopyOrder
    BY <1>7 DEF OrderInv
  <2>2. PICK a \in Nat : CountInv(a) /\ BehindInv(a)
    BY <1>7 DEF OrderInv
  <2>3. BehindInv(a)'
    BY <1>1, <1>2, <2>2 DEF BehindInv, UpTo, parser, dump
  <2> QED
    BY <1>6, <2>1, <2>2, <2>3, OrderStays
<1> QED
  BY <1>2, <1>5, <1>7 DEF OrderInv

LEMMA ParserOrder ==
  ASSUME NodeInv, OrderInv, Parser, UNCHANGED <<dumper, refused>>,
         rlap' = IF ppc = "write" /\ read_index + 1 = BUFFER_SIZE
                 THEN rlap + 1 ELSE rlap
  PROVE  OrderInv'
<1>1. UNCHANGED <<dump, dma, memory, extractor>>
  BY DEF Parser, SeePacket, ReadPacket, WriteMeta
<1>2. UNCHANGED <<jobs, done, half, headPart, tailPart, nb_dq, lap,
                  write_index, already_write_index, refused>>
  BY <1>1 DEF dump, dma, memory
<1>3. dumper = "dma" /\ Extracted <= Decoded /\ JobOrder /\ CopyOrder
  BY NoReaders, NodeAssumption DEF OrderInv, NodeInv, NodeTypeOK
<1>4. PICK a \in Nat : CountInv(a) /\ BehindInv(a)
  BY <1>3 DEF OrderInv
<1>5. BehindInv(a)' /\ Extracted' <= Decoded'
  BY <1>3, <1>4, ParserBehind
<1>6. JobOrder' /\ CopyOrder' /\ CountInv(a)'
  BY <1>2, <1>3, <1>4, OrderStays
<1> QED
  BY <1>5, <1>6 DEF OrderInv

\* What the invariants say is in these variables.
LEMMA ReaderStays ==
  ASSUME UNCHANGED <<parser, extractor, rlap, restarts>>
  PROVE  /\ Decoded' = Decoded /\ Extracted' = Extracted
         /\ RoundInv => RoundInv'
BY DEF parser, extractor, Decoded, Extracted, RoundInv

LEMMA OrderStep ==
  ASSUME NodeInv, OrderInv, [NodeNext]_nodeVars, TOTAL_DMA_DEV = 1
  PROVE  OrderInv'
<1>1. CASE dumper = "dma" /\ DmaDump /\ refused' = (refused \/ Refuse)
           /\ UNCHANGED <<soft, dumper, restarts, rlap, history>>
  <2>1. OneDevice /\ JobOrder /\ CopyOrder /\ Extracted <= Decoded
    BY <1>1 DEF OneDevice, OrderInv
  <2>2. PICK a \in Nat : CountInv(a) /\ BehindInv(a)
    BY <1>1 DEF OrderInv
  <2>3. /\ JobOrder' /\ CopyOrder'
        /\ \E c \in Nat : CountInv(c)' /\ BehindInv(c)'
    BY <1>1, <2>1, <2>2, DmaOrder
  <2>4. Extracted' <= Decoded'
    BY <1>1, <2>1, DmaKeepsReaders, ReaderStays
  <2> QED
    BY <2>3, <2>4 DEF OrderInv
<1>2. CASE dumper = "software" /\ SoftDump
           /\ UNCHANGED <<dumper, refused, restarts, rlap, history>>
  <2>1. Extracted' <= Decoded'
    BY <1>2, SoftFrame, ReaderStays DEF OrderInv
  <2> QED
    BY <1>2, <2>1 DEF OrderInv
<1>3. CASE Parser /\ UNCHANGED <<soft, dumper, refused, restarts>>
           /\ rlap' = IF ppc = "write" /\ read_index + 1 = BUFFER_SIZE
                      THEN rlap + 1 ELSE rlap
  BY <1>3, ParserOrder
<1>4. CASE Extract /\ UNCHANGED <<soft, dumper, refused, restarts, rlap, history>>
  BY <1>4, ExtractOrder
<1>5. CASE Restart
  <2>1. UNCHANGED <<dump, dma, memory, read_index, extractor, dumper, refused,
                    rlap>> /\ ppc' = "check"
    BY <1>5, RestartFact DEF NodeInv
  <2>2. Decoded' = Decoded /\ Extracted' = Extracted
    BY <2>1 DEF Decoded, Extracted, extractor
  <2>3. ASSUME dumper = "dma"
        PROVE  JobOrder' /\ CopyOrder'
               /\ \E a \in Nat : CountInv(a)' /\ BehindInv(a)'
    <3>1. JobOrder /\ CopyOrder
      BY <2>3 DEF OrderInv
    <3>2. PICK a \in Nat : CountInv(a) /\ BehindInv(a)
      BY <2>3 DEF OrderInv
    <3>3. BehindInv(a)'
      BY <2>1, <2>2, <3>2 DEF BehindInv, UpTo, dump
    <3> QED
      BY <2>1, <3>1, <3>2, <3>3, OrderStays DEF dump, dma, memory
  <2> QED
    BY <2>1, <2>2, <2>3 DEF OrderInv
<1>6. CASE UNCHANGED nodeVars
  <2>1. /\ UNCHANGED <<jobs, done, half, headPart, tailPart, nb_dq, lap,
                       write_index, already_write_index, refused, dumper>>
        /\ UNCHANGED <<parser, extractor, rlap, restarts>>
    BY <1>6 DEF nodeVars, vars, dump, dma, memory
  <2>2. ASSUME dumper = "dma"
        PROVE  JobOrder' /\ CopyOrder'
               /\ \E a \in Nat : CountInv(a)' /\ BehindInv(a)'
    <3>1. JobOrder /\ CopyOrder
      BY <2>2 DEF OrderInv
    <3>2. PICK a \in Nat : CountInv(a) /\ BehindInv(a)
      BY <2>2 DEF OrderInv
    <3>3. BehindInv(a)'
      BY <2>1, <3>2, ReaderStays DEF BehindInv, UpTo, parser
    <3> QED
      BY <2>1, <3>1, <3>2, <3>3, OrderStays
  <2> QED
    BY <2>1, <2>2, ReaderStays DEF OrderInv
<1> QED
  BY <1>1, <1>2, <1>3, <1>4, <1>5, <1>6 DEF NodeNext

LEMMA DecodedStep ==
  ASSUME NodeInv, OrderInv, RoundInv, DecodedInv, [NodeNext]_nodeVars,
         TOTAL_DMA_DEV = 1, lap + 1 < TagValues
  PROVE  RoundInv' /\ DecodedInv'
<1>1. CASE dumper = "dma" /\ DmaDump /\ refused' = (refused \/ Refuse)
           /\ UNCHANGED <<soft, dumper, restarts, rlap, history>>
  <2>1. OneDevice /\ CopyOrder
    BY <1>1 DEF OneDevice, OrderInv
  <2>2. RoundInv'
    BY <1>1, DmaKeepsReaders, ReaderStays
  <2> QED
    BY <1>1, <2>1, <2>2, DmaDecoded
<1>2. CASE dumper = "software" /\ SoftDump
           /\ UNCHANGED <<dumper, refused, restarts, rlap, history>>
  <2>1. UNCHANGED <<parser, extractor, rlap, restarts>>
    BY <1>2, SoftFrame
  <2>2. RoundInv' /\ Decoded' = 0 /\ ppc' = "check"
    BY <1>2, <2>1, ReaderStays, NoReaders DEF NodeInv, SoftInv, parser
  <2>3. \A s \in Slot, l \in Nat : ~(l * BUFFER_SIZE + s < 0)
    BY LapsCompare DEF Slot
  <2> QED
    BY <2>2, <2>3 DEF DecodedInv, WrittenTo
<1>3. CASE Parser /\ UNCHANGED <<soft, dumper, refused, restarts>>
           /\ rlap' = IF ppc = "write" /\ read_index + 1 = BUFFER_SIZE
                      THEN rlap + 1 ELSE rlap
  <2>1. OneDevice
    BY <1>3, NoReaders, NodeAssumption DEF OneDevice, NodeInv, NodeTypeOK
  <2> QED
    BY <1>3, <2>1, RoundStep, ParserDecoded
<1>4. CASE Extract /\ UNCHANGED <<soft, dumper, refused, restarts, rlap, history>>
  <2>1. UNCHANGED <<memory, parser, refused, restarts, rlap>>
    BY <1>4 DEF Extract
  <2>2. Decoded' = Decoded
    BY <2>1 DEF Decoded, parser
  <2>3. RoundInv'
    BY <2>1 DEF RoundInv, parser
  <2> QED
    BY <2>1, <2>2, <2>3 DEF DecodedInv, WrittenTo, RoundsKept, memory, parser
<1>5. CASE Restart
  <2>1. /\ restarts' = restarts + 1 /\ restarts \in Nat /\ rlap \in Nat
        /\ rlap' = rlap /\ round_num' = 1
    BY <1>5, RestartFact, Counters DEF NodeInv, NodeTypeOK
  <2>2. RoundInv'
    BY <2>1 DEF RoundInv
  <2> QED
    BY <1>5, <2>2, RestartDecoded
<1>6. CASE UNCHANGED nodeVars
  <2>1. UNCHANGED <<memory, parser, extractor, refused, restarts, rlap>>
    BY <1>6 DEF nodeVars, vars
  <2> QED
    BY <2>1, ReaderStays DEF DecodedInv, WrittenTo, RoundsKept, memory, parser
<1> QED
  BY <1>1, <1>2, <1>3, <1>4, <1>5, <1>6 DEF NodeNext

-----------------------------------------------------------------------------
(* What has been answered.                                                 *)

LEMMA PassedInit ==
  ASSUME NodeInit
  PROVE  PassedInv
<1>1. rlap = 0 /\ read_index = 0 /\ ppc = "check" /\ passed = {}
  BY DEF NodeInit, Init
<1>2. 0 * BUFFER_SIZE = 0
  BY Constants
<1>3. Decoded = 0
  BY <1>1, <1>2 DEF Decoded
<1>4. \A p \in Packet : Position(p) \in Nat
  BY PositionType
<1>5. \A p \in Packet : ~(Position(p) < 0)
  BY <1>4
<1> QED
  BY <1>1, <1>3, <1>5 DEF PassedInv

\* The packet that is due, once answered, is the next in the set of those
\* received first.
LEMMA AnsweredNext ==
  ASSUME NodeInv
  PROVE  {p \in Packet : Position(p) < Decoded}
           \cup {[lap |-> rlap, slot |-> read_index]}
         = {p \in Packet : Position(p) < Decoded + 1}
<1>1. rlap \in Nat /\ read_index \in Slot /\ Decoded \in Nat
  BY Counters
<1>2. PICK q \in Packet : q = [lap |-> rlap, slot |-> read_index]
  BY <1>1 DEF Packet
<1>3. Position(q) = Decoded
  BY <1>2 DEF Position, Decoded
<1>4. ASSUME NEW p \in Packet
      PROVE  Position(p) < Decoded + 1 <=> Position(p) < Decoded \/ p = q
  <2>1. Position(p) \in Nat
    BY PositionType
  <2>2. Position(p) = Decoded => p = q
    BY <1>1, <1>2, PositionUnique DEF Decoded
  <2>3. Position(p) < Decoded + 1 <=> Position(p) < Decoded \/ Position(p) = Decoded
    BY ONLY <1>1, <2>1
  <2> QED
    BY <1>3, <2>2, <2>3
<1> QED
  BY <1>2, <1>4

LEMMA PassedStays ==
  ASSUME PassedInv, UNCHANGED <<parser, restarts, rlap, history>>,
         refused => refused'
  PROVE  PassedInv'
<1>1. /\ ppc' = ppc /\ read_index' = read_index /\ rlap' = rlap
      /\ accepted' = accepted /\ passed' = passed /\ Decoded' = Decoded
  BY DEF parser, history, Decoded
<1>2. RoundsKept' => RoundsKept
  BY DEF RoundsKept
<1> QED
  BY <1>1, <1>2 DEF PassedInv

\* A packet is accepted when it is due, and answered before the next one.
LEMMA ParserPassed ==
  ASSUME NodeInv, OneDevice, OrderInv, RoundInv, PassedInv, Parser, Recorded,
         lap + 1 < TagValues, UNCHANGED <<refused, restarts>>,
         rlap' = IF ppc = "write" /\ read_index + 1 = BUFFER_SIZE
                 THEN rlap + 1 ELSE rlap
  PROVE  PassedInv'
<1>1. SUFFICES ASSUME RoundsKept
               PROVE  /\ ppc' = "write" =>
                           accepted' = [lap |-> rlap', slot |-> read_index']
                      /\ passed' = {p \in Packet : Position(p) < Decoded'}
  BY DEF PassedInv, RoundsKept
<1>2. /\ accepted' = IF ppc = "spin" THEN headPart[read_index] ELSE NoPacket
      /\ passed' = IF ppc = "write" THEN passed \cup {accepted} ELSE passed
  BY DEF Recorded
<1>3. /\ ppc = "write" => accepted = [lap |-> rlap, slot |-> read_index]
      /\ passed = {p \in Packet : Position(p) < Decoded}
  BY <1>1 DEF PassedInv
<1>4. CASE SeePacket
  <2>1. /\ ppc = "check" /\ ppc' = "spin" /\ read_index' = read_index
        /\ rlap' = rlap
    BY <1>4 DEF SeePacket
  <2>2. Decoded' = Decoded
    BY <2>1 DEF Decoded
  <2> QED
    BY <1>2, <1>3, <2>1, <2>2
<1>5. CASE ReadPacket
  <2>1. /\ ppc = "spin" /\ ppc' = "write" /\ read_index' = read_index
        /\ rlap' = rlap
    BY <1>5 DEF ReadPacket
  <2>2. headPart[read_index] = [lap |-> rlap, slot |-> read_index]
    BY <1>1, <1>5, DueStep
  <2>3. Decoded' = Decoded
    BY <2>1 DEF Decoded
  <2> QED
    BY <1>2, <1>3, <2>1, <2>2, <2>3
<1>6. CASE WriteMeta
  <2>1. ppc = "write" /\ ppc' = "check"
    BY <1>6 DEF WriteMeta
  <2>2. Decoded' = Decoded + 1
    BY <1>6, DecodedNext
  <2>3. passed' = passed \cup {[lap |-> rlap, slot |-> read_index]}
    BY <1>2, <1>3, <2>1
  <2>4. passed' = {p \in Packet : Position(p) < Decoded + 1}
    BY <1>3, <2>3, AnsweredNext
  <2> QED
    BY <2>1, <2>2, <2>4
<1> QED
  BY <1>4, <1>5, <1>6 DEF Parser

LEMMA PassedStep ==
  ASSUME NodeInv, OrderInv, RoundInv, PassedInv, [NodeNext]_nodeVars,
         TOTAL_DMA_DEV = 1, lap + 1 < TagValues
  PROVE  PassedInv'
<1>1. CASE dumper = "dma" /\ DmaDump /\ refused' = (refused \/ Refuse)
           /\ UNCHANGED <<soft, dumper, restarts, rlap, history>>
  BY <1>1, DmaKeepsReaders, PassedStays
<1>2. CASE dumper = "software" /\ SoftDump
           /\ UNCHANGED <<dumper, refused, restarts, rlap, history>>
  BY <1>2, SoftFrame, PassedStays
<1>3. CASE Parser /\ Recorded /\ UNCHANGED <<soft, dumper, refused, restarts>>
           /\ rlap' = IF ppc = "write" /\ read_index + 1 = BUFFER_SIZE
                      THEN rlap + 1 ELSE rlap
  <2>1. OneDevice
    BY <1>3, NoReaders, NodeAssumption DEF OneDevice, NodeInv, NodeTypeOK
  <2> QED
    BY <1>3, <2>1, ParserPassed
<1>4. CASE Extract /\ UNCHANGED <<soft, dumper, refused, restarts, rlap, history>>
  <2>1. UNCHANGED parser
    BY <1>4 DEF Extract
  <2> QED
    BY <1>4, <2>1, PassedStays
<1>5. CASE Restart
  <2>1. /\ read_index' = read_index /\ rlap' = rlap /\ refused' = refused
        /\ ppc' = "check" /\ passed' = passed
        /\ restarts' = restarts + 1 /\ restarts \in Nat
    BY <1>5, RestartFact DEF NodeInv, NodeTypeOK
  <2>2. RoundsKept' => RoundsKept
    <3>1. restarts' # 0
      BY <2>1
    <3> QED
      BY <2>1, <3>1 DEF RoundsKept
  <2>3. Decoded' = Decoded
    BY <2>1 DEF Decoded
  <2> QED
    BY <2>1, <2>2, <2>3 DEF PassedInv
<1>6. CASE UNCHANGED nodeVars
  <2>1. UNCHANGED <<parser, refused, restarts, rlap, history>>
    BY <1>6 DEF nodeVars, vars
  <2> QED
    BY <2>1, PassedStays
<1> QED
  BY <1>1, <1>2, <1>3, <1>4, <1>5, <1>6 DEF NodeNext

-----------------------------------------------------------------------------
(* The results.                                                            *)

\* The inductive invariant, with either dump module and any restarts.
THEOREM NodeInvariant == NodeSpec => []NodeInv
<1>1. NodeInv /\ [NodeNext]_nodeVars => NodeInv'
  BY NodeStep
<1> QED
  BY <1>1, NodeInitInv, PTL DEF NodeSpec

\* The indexes and lists stay in their bounds, and the tag byte that dmafwd
\* increments is the one of the lap it is in.
THEOREM NodeTypeCorrect == NodeSpec => []NodeTypeOK
<1>1. NodeInv => NodeTypeOK
  BY DEF NodeInv
<1> QED
  BY <1>1, NodeInvariant, PTL

\* The software dump moves write_index on before it copies, but only one slot
\* behind the index is not whole (copy_payload_to_new_memory).
THEOREM OneInFlight == NodeSpec => []OneSlotInFlight
<1>1. NodeInv => OneSlotInFlight
  <2> SUFFICES ASSUME NodeInv, dumper = "software",
                      NEW s \in Slot, pac_len[s] # copying
               PROVE  headPart[s] = pac_len[s] /\ tailPart[s] = pac_len[s]
    BY DEF OneSlotInFlight
  <2> QED
    BY DEF NodeInv, SoftInv
<1> QED
  BY <1>1, NodeInvariant, PTL

\* With one DMA device, whether or not the ring is overrun or a packet refused,
\* the parser stays behind what was announced and copies complete in order.
THEOREM OrderInvariant ==
  ASSUME TOTAL_DMA_DEV = 1
  PROVE  NodeSpec => []OrderInv
<1>1. NodeInit => OrderInv
  BY OrderInit
<1>2. NodeInv /\ OrderInv /\ [NodeNext]_nodeVars => OrderInv'
  BY OrderStep
<1> QED
  BY <1>1, <1>2, NodeInvariant, PTL DEF NodeSpec

\* With one DMA device the parser decodes packets that are in their slot in all
\* their bytes, unless the ring is overrun: also after a refusal and a restart.
THEOREM OneDeviceDecodesWhole ==
  ASSUME TOTAL_DMA_DEV = 1
  PROVE  NodeSpec => DecodedWhole
<1>1. NodeInv /\ OrderInv =>
        [ReadPacket /\ NotOverrun =>
           tailPart[read_index] = headPart[read_index]]_vars
  <2> SUFFICES ASSUME NodeInv, OrderInv, ReadPacket, NotOverrun
               PROVE  tailPart[read_index] = headPart[read_index]
    OBVIOUS
  <2>1. OneDevice
    BY NoReaders, NodeAssumption DEF OneDevice, Parser, NodeInv, NodeTypeOK
  <2> QED
    BY <2>1, WholeStep
<1> QED
  BY <1>1, NodeInvariant, OrderInvariant, PTL DEF DecodedWhole

\* Until the tag byte comes around, what the parser wrote back is in its slot
\* for a lap, and the packet it belongs to is not replaced by an earlier one.
THEOREM DecodedInvariant ==
  ASSUME TOTAL_DMA_DEV = 1
  PROVE  NodeSpec /\ [](lap + 1 < TagValues) => [](RoundInv /\ DecodedInv)
<1>1. NodeInit => RoundInv /\ DecodedInv
  BY OrderInit
<1>2. /\ NodeInv /\ OrderInv /\ RoundInv /\ DecodedInv /\ lap + 1 < TagValues
      /\ [NodeNext]_nodeVars
      => (RoundInv /\ DecodedInv)'
  BY DecodedStep
<1> QED
  BY <1>1, <1>2, NodeInvariant, OrderInvariant, PTL DEF NodeSpec

\* Behind one DMA device and until the tag byte comes around, the packets
\* answered are, across restarts, exactly those received up to read_index.
THEOREM PassedInvariant ==
  ASSUME TOTAL_DMA_DEV = 1
  PROVE  NodeSpec /\ [](lap + 1 < TagValues) => []PassedInv
<1>1. NodeInit => PassedInv
  BY PassedInit
<1>2. /\ NodeInv /\ OrderInv /\ RoundInv /\ PassedInv /\ lap + 1 < TagValues
      /\ [NodeNext]_nodeVars
      => PassedInv'
  BY PassedStep
<1> QED
  BY <1>1, <1>2, NodeInvariant, OrderInvariant, DecodedInvariant, PTL
  DEF NodeSpec

\* A parser behind one DMA device decodes no packet that was answered, by it or
\* by one that ran before, and none before all received earlier are answered,
\* also when the dump overruns the ring.
THEOREM NothingRepeatedOrSkipped ==
  ASSUME TOTAL_DMA_DEV = 1
  PROVE  NodeSpec /\ [](lap + 1 < TagValues) => NoneRepeatedOrSkipped
<1>1. NodeInv /\ OrderInv /\ RoundInv /\ PassedInv /\ lap + 1 < TagValues =>
        [ReadPacket /\ RoundsKept =>
           LET p == headPart[read_index] IN
           p \notin passed /\ Earlier(p) \subseteq passed]_nodeVars
  <2> SUFFICES ASSUME NodeInv, OrderInv, RoundInv, PassedInv,
                      lap + 1 < TagValues, ReadPacket, RoundsKept
               PROVE  LET p == headPart[read_index] IN
                      p \notin passed /\ Earlier(p) \subseteq passed
    OBVIOUS
  <2>1. OneDevice
    BY NoReaders, NodeAssumption DEF OneDevice, Parser, NodeInv, NodeTypeOK
  <2>2. headPart[read_index] = [lap |-> rlap, slot |-> read_index]
    BY <2>1, DueStep
  <2>3. PICK p \in Packet : p = headPart[read_index]
    BY <2>2, Counters DEF Packet
  <2>4. Position(p) = Decoded /\ p.lap \in Nat
    BY <2>2, <2>3, PositionType DEF Position, Decoded
  <2>5. passed = {q \in Packet : Position(q) < Position(p)}
    BY <2>4 DEF PassedInv
  <2>6. p \notin passed
    BY <2>4, <2>5, Counters
  <2>7. Earlier(p) \subseteq Packet
    BY <2>4 DEF Earlier, Packet
  <2>8. Earlier(p) \subseteq passed
    BY <2>5, <2>7 DEF Earlier
  <2> QED
    BY <2>3, <2>6, <2>8
<1> QED
  BY <1>1, NodeInvariant, OrderInvariant, DecodedInvariant, PassedInvariant, PTL
  DEF NoneRepeatedOrSkipped

\* The extractor behind one DMA device copies, in the order they were received,
\* packets in all their bytes, each with the place computed for that packet.
THEOREM OneDeviceExtractsWhole ==
  ASSUME TOTAL_DMA_DEV = 1
  PROVE  NodeSpec /\ [](lap + 1 < TagValues) => ExtractedWhole
<1>1. NodeInv /\ OrderInv /\ DecodedInv =>
        [Extract /\ NotOverrun /\ RoundsKept =>
           LET p == [lap |-> xlap, slot |-> extractor_read_index] IN
           {headPart[p.slot], tailPart[p.slot], meta[p.slot]} = {p}]_nodeVars
  <2> SUFFICES ASSUME NodeInv, OrderInv, DecodedInv, Extract, NotOverrun,
                      RoundsKept
               PROVE  LET p == [lap |-> xlap, slot |-> extractor_read_index] IN
                      {headPart[p.slot], tailPart[p.slot], meta[p.slot]} = {p}
    OBVIOUS
  <2>1. OneDevice
    BY NoReaders, NodeAssumption DEF OneDevice, NodeInv, NodeTypeOK
  <2> QED
    BY <2>1, ExtractStep
<1> QED
  BY <1>1, NodeInvariant, OrderInvariant, DecodedInvariant, PTL
  DEF ExtractedWhole

=============================================================================
