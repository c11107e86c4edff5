----------------------------- MODULE MirrorRing -----------------------------
(***************************************************************************)
(* One mirrored stream in shared memory: the dump process (dmafwd) spreads *)
(* received packets over DMA devices that copy them into a ring of slots,  *)
(* the parser follows with read_index and writes what it decoded into the  *)
(* slot, the extractor follows the parser.  The processes share nothing    *)
(* but the ring: the dump never looks at the indexes of its readers, and   *)
(* the parser learns from a round tag inside the packet that a slot was    *)
(* rewritten.                                                              *)
(*                                                                         *)
(* A packet is named by the slot the dump gave it and by how often the     *)
(* dump had been around the ring: packets are received in the order of lap *)
(* and slot.                                                               *)
(***************************************************************************)
EXTENDS Integers, Sequences

CONSTANTS
  BUFFER_SIZE,     \* slots of the ring
  TOTAL_DMA_DEV,   \* DMA devices
  ring_size,       \* copies a device accepts before its completions are read
  MBUF_RING_SIZE,  \* length of the per-device list of mbufs being copied
  MAX_PKT_BURST,   \* packets received, and completions read, at most at once
  dma_batch_sz,    \* packets enqueued between two submits
  TagValues,       \* values of the tag byte: 256 in the code
  KeepUp,          \* BOOLEAN: traffic leaves the readers time (environment)
  MaxLap,          \* bound: laps the traffic lasts
  NoPacket         \* a slot that was never written

Dev == 0 .. TOTAL_DMA_DEV - 1
Slot == 0 .. BUFFER_SIZE - 1

ASSUME RingAssumption ==
  /\ {BUFFER_SIZE, TOTAL_DMA_DEV, MBUF_RING_SIZE, MAX_PKT_BURST,
      dma_batch_sz, TagValues} \subseteq Nat \ {0}
  /\ ring_size \in 1 .. MBUF_RING_SIZE
  /\ KeepUp \in BOOLEAN /\ MaxLap \in Nat

Packet == [lap : Nat, slot : Slot]
ASSUME NoPacketAssumption == NoPacket \notin Packet

VARIABLES
  \* the dump process
  rpc,          \* control of the receive core
  asked,        \* devices the current dma_dequeue has asked
  nb_dq,        \* completions it has counted
  nb_rx,        \* packets of the burst not yet given to dma_enqueue_packets
  batch,        \* packets of the current call of dma_enqueue_packets
  i,            \* how many of them were enqueued
  dev_id,       \* device the next one goes to
  lap,          \* times write_index went around the ring
  ROUND,        \* the tag byte
  bufs, front, rear,     \* per device: mbufs being copied, and its two ends
  \* the DMA devices
  jobs,         \* copies accepted and not yet read as completed
  submitted,    \* how many of them the device may work on
  done,         \* how many of them are finished
  half,         \* the next one has reached memory in part
  \* the shared memory
  write_index, already_write_index, read_index, extractor_read_index,
  pac_len,      \* packet whose length the slot holds
  headPart,     \* packet whose first cache line the slot holds: the tag
  tailPart,     \* packet whose other bytes it holds: opcode and payload
  meta,         \* packet whose payload_index and res_index the slot holds
  \* the parser and the extractor
  ppc, dest, round_num,
  xlap          \* times extractor_read_index went around the ring

dump == <<rpc, asked, nb_dq, nb_rx, batch, i, dev_id, lap, ROUND, bufs, front, rear,
          write_index, already_write_index, pac_len>>
dma == <<jobs, submitted, done, half>>
memory == <<headPart, tailPart>>
parser == <<ppc, dest, round_num, read_index, meta>>
extractor == <<extractor_read_index, xlap>>
vars == <<dump, dma, memory, parser, extractor>>

CoreTypeOK ==
  /\ rpc \in {"dequeue", "burst", "enqueue", "submit", "dequeue_again"}
  /\ asked \in 0 .. TOTAL_DMA_DEV /\ nb_dq \in Nat
  /\ nb_rx \in 0 .. MAX_PKT_BURST
  /\ batch \in 0 .. dma_batch_sz /\ i \in 0 .. batch
  /\ dev_id \in Dev /\ lap \in Nat /\ ROUND \in 0 .. TagValues - 1

DeviceTypeOK ==
  /\ bufs \in [Dev -> [0 .. MBUF_RING_SIZE - 1 -> Packet \cup {NoPacket}]]
  /\ front \in [Dev -> 0 .. MBUF_RING_SIZE - 1]
  /\ rear \in [Dev -> 0 .. MBUF_RING_SIZE - 1]
  /\ jobs \in [Dev -> Seq(Packet)]
  /\ submitted \in [Dev -> Nat] /\ done \in [Dev -> Nat]
  /\ half \in [Dev -> BOOLEAN]

MemoryTypeOK ==
  /\ {write_index, already_write_index, read_index, extractor_read_index}
       \subseteq Slot
  /\ {pac_len, headPart, tailPart, meta}
       \subseteq [Slot -> Packet \cup {NoPacket}]

ReaderTypeOK ==
  /\ ppc \in {"check", "spin", "write"}
  /\ dest \in Packet \cup {NoPacket}
  /\ round_num \in Nat /\ xlap \in Nat

TypeOK == CoreTypeOK /\ DeviceTypeOK /\ MemoryTypeOK /\ ReaderTypeOK

\* rxtx_main_loop zeroes the ring before anything is received.
Init ==
  /\ rpc = "dequeue" /\ asked = 0 /\ nb_dq = 0
  /\ nb_rx = 0 /\ batch = 0 /\ i = 0 /\ dev_id = 0
  /\ lap = 0 /\ ROUND = 1 % TagValues
  /\ bufs = [d \in Dev |-> [k \in 0 .. MBUF_RING_SIZE - 1 |-> NoPacket]]
  /\ front = [d \in Dev |-> 0] /\ rear = [d \in Dev |-> 0]
  /\ jobs = [d \in Dev |-> <<>>] /\ submitted = [d \in Dev |-> 0]
  /\ done = [d \in Dev |-> 0] /\ half = [d \in Dev |-> FALSE]
  /\ write_index = 0 /\ already_write_index = 0
  /\ read_index = 0 /\ extractor_read_index = 0
  /\ pac_len = [s \in Slot |-> NoPacket]
  /\ headPart = [s \in Slot |-> NoPacket]
  /\ tailPart = [s \in Slot |-> NoPacket]
  /\ meta = [s \in Slot |-> NoPacket]
  /\ ppc = "check" /\ dest = NoPacket /\ round_num = 1 /\ xlap = 0

\* Mutant: the index is not wrapped.
AfterUnwrapped(s) == s + 1

After(s) == (s + 1) % BUFFER_SIZE

\* Packets written, and packets extracted, since the start.
Received == lap * BUFFER_SIZE + write_index
Extracted == xlap * BUFFER_SIZE + extractor_read_index

\* How many packets were received before packet p.
Position(p) == p.lap * BUFFER_SIZE + p.slot

\* The tag a packet carries in byte 21; a slot never written holds zero.
Tag(p) == IF p = NoPacket THEN 0 ELSE (p.lap + 1) % TagValues

-----------------------------------------------------------------------------
(* The receive core: dma_rx_port.                                          *)

\* dma_dequeue asks one device after the other for the completions it has by
\* then, frees the mbufs of the copies completed, and in the end moves
\* already_write_index on by the total.
Completed(d) == IF done[d] <= MAX_PKT_BURST THEN done[d] ELSE MAX_PKT_BURST

Dequeue ==
  LET d == asked IN
  /\ rpc \in {"dequeue", "dequeue_again"} /\ asked < TOTAL_DMA_DEV
  /\ jobs' = [jobs EXCEPT ![d] = SubSeq(@, Completed(d) + 1, Len(@))]
  /\ submitted' = [submitted EXCEPT ![d] = @ - Completed(d)]
  /\ done' = [done EXCEPT ![d] = @ - Completed(d)]
  /\ front' = [front EXCEPT ![d] = (@ + Completed(d)) % MBUF_RING_SIZE]
  /\ nb_dq' = nb_dq + Completed(d)
  /\ asked' = asked + 1
  /\ UNCHANGED <<rpc, nb_rx, batch, i, dev_id, lap, ROUND, bufs, rear,
                 write_index, already_write_index, pac_len, half, memory,
                 parser, extractor>>

\* Mutant: the index counts a packet more than was completed.
AnnouncedOneMore == (already_write_index + nb_dq + 1) % BUFFER_SIZE

Announced == (already_write_index + nb_dq) % BUFFER_SIZE

Announce ==
  /\ rpc \in {"dequeue", "dequeue_again"} /\ asked = TOTAL_DMA_DEV
  /\ already_write_index' = Announced
  /\ asked' = 0 /\ nb_dq' = 0
  /\ rpc' = IF rpc = "dequeue" THEN "burst" ELSE "dequeue"
  /\ UNCHANGED <<nb_rx, batch, i, dev_id, lap, ROUND, bufs, front, rear,
                 write_index, pac_len, dma, memory, parser, extractor>>

\* The NIC has nothing: the core polls again.
EmptyBurst ==
  /\ rpc = "burst"
  /\ rpc' = "dequeue"
  /\ UNCHANGED <<asked, nb_dq, nb_rx, batch, i, dev_id, lap, ROUND, bufs,
                 front, rear, write_index, already_write_index, pac_len, dma,
                 memory, parser, extractor>>

\* Nothing in the code holds the dump back; with KeepUp the traffic is such
\* that the ring never has to hold more than BUFFER_SIZE - 1 packets.
RoomFor(n) == KeepUp => Received + n - Extracted <= BUFFER_SIZE - 1

\* Every batch starts at a device picked at random.
StartBatch(n) ==
  /\ nb_rx' = n
  /\ batch' = IF n <= dma_batch_sz THEN n ELSE dma_batch_sz
  /\ i' = 0
  /\ dev_id' \in Dev

Burst ==
  /\ rpc = "burst" /\ lap < MaxLap
  /\ \E n \in 1 .. MAX_PKT_BURST : RoomFor(n) /\ StartBatch(n)
  /\ rpc' = "enqueue"
  /\ UNCHANGED <<asked, nb_dq, lap, ROUND, bufs, front, rear, write_index,
                 already_write_index, pac_len, dma, memory, parser, extractor>>

\* Mutant: the length goes to the slot of the next packet.
TakeSlotLengthLate ==
  /\ pac_len' = [pac_len EXCEPT ![After(write_index)] =
                   [lap |-> lap, slot |-> write_index]]
  /\ ROUND' = IF write_index + 1 >= BUFFER_SIZE
              THEN (ROUND + 1) % TagValues ELSE ROUND
  /\ lap' = IF write_index + 1 >= BUFFER_SIZE THEN lap + 1 ELSE lap
  /\ write_index' = After(write_index)

\* The packet gets the slot at write_index, its length is written there and
\* the tag into the packet; all this before the device takes the copy.
TakeSlot ==
  /\ pac_len' = [pac_len EXCEPT ![write_index] =
                   [lap |-> lap, slot |-> write_index]]
  /\ ROUND' = IF write_index + 1 >= BUFFER_SIZE
              THEN (ROUND + 1) % TagValues ELSE ROUND
  /\ lap' = IF write_index + 1 >= BUFFER_SIZE THEN lap + 1 ELSE lap
  /\ write_index' = After(write_index)

\* rte_dma_copy succeeds: the mbuf is remembered, the next device is next.
Accept ==
  LET p == [lap |-> lap, slot |-> write_index] IN
  /\ rpc = "enqueue" /\ i < batch /\ Len(jobs[dev_id]) < ring_size
  /\ TakeSlot
  /\ jobs' = [jobs EXCEPT ![dev_id] = Append(@, p)]
  /\ bufs' = [bufs EXCEPT ![dev_id][rear[dev_id]] = p]
  /\ rear' = [rear EXCEPT ![dev_id] = (@ + 1) % MBUF_RING_SIZE]
  /\ dev_id' = (dev_id + 1) % TOTAL_DMA_DEV
  /\ i' = i + 1
  /\ rpc' = IF i + 1 = batch THEN "submit" ELSE "enqueue"
  /\ UNCHANGED <<asked, nb_dq, nb_rx, batch, front, already_write_index,
                 submitted, done, half, memory, parser, extractor>>

\* Mutant: the mbuf is remembered before the copy is known to be accepted.
RefuseRemembered ==
  /\ rpc = "enqueue" /\ i < batch /\ Len(jobs[dev_id]) >= ring_size
  /\ TakeSlot
  /\ bufs' = [bufs EXCEPT ![dev_id][rear[dev_id]] =
                [lap |-> lap, slot |-> write_index]]
  /\ rear' = [rear EXCEPT ![dev_id] = (@ + 1) % MBUF_RING_SIZE]
  /\ rpc' = "submit"
  /\ UNCHANGED <<asked, nb_dq, nb_rx, batch, i, dev_id, front,
                 already_write_index, dma, memory, parser, extractor>>

\* The device is full: the loop ends, with the slot taken and left as it was.
Refuse ==
  /\ rpc = "enqueue" /\ i < batch /\ Len(jobs[dev_id]) >= ring_size
  /\ TakeSlot
  /\ rpc' = "submit"
  /\ UNCHANGED <<asked, nb_dq, nb_rx, batch, i, dev_id, bufs, front, rear,
                 already_write_index, dma, memory, parser, extractor>>

\* Mutant: nothing is submitted when a packet of the batch was refused.
SubmittedIfWhole == IF i = batch THEN [d \in Dev |-> Len(jobs[d])] ELSE submitted

Submitted == IF i > 0 THEN [d \in Dev |-> Len(jobs[d])] ELSE submitted

\* dma_enqueue submits on all devices if anything was enqueued, and goes on
\* with the next batch unless a packet was refused; dma_rx_port frees the
\* packets that were not enqueued.
Submit ==
  /\ rpc = "submit"
  /\ submitted' = Submitted
  /\ IF i = batch /\ nb_rx > batch
     THEN StartBatch(nb_rx - batch) /\ rpc' = "enqueue"
     ELSE /\ rpc' = "dequeue_again"
          /\ nb_rx' = 0 /\ batch' = 0 /\ i' = 0
          /\ UNCHANGED dev_id
  /\ UNCHANGED <<asked, nb_dq, lap, ROUND, bufs, front, rear, write_index,
                 already_write_index, pac_len, jobs, done, half, memory,
                 parser, extractor>>

-----------------------------------------------------------------------------
(* A DMA device copies its jobs in order, and one job from the first byte  *)
(* to the last, the tag among the first; the devices know nothing of each  *)
(* other.                                                                  *)

CopyHead(d) ==
  /\ done[d] < submitted[d] /\ ~half[d]
  /\ LET p == jobs[d][done[d] + 1] IN
       headPart' = [headPart EXCEPT ![p.slot] = p]
  /\ half' = [half EXCEPT ![d] = TRUE]
  /\ UNCHANGED <<dump, jobs, submitted, done, tailPart, parser, extractor>>

CopyTail(d) ==
  /\ half[d]
  /\ LET p == jobs[d][done[d] + 1] IN
       tailPart' = [tailPart EXCEPT ![p.slot] = p]
  /\ half' = [half EXCEPT ![d] = FALSE]
  /\ done' = [done EXCEPT ![d] = @ + 1]
  /\ UNCHANGED <<dump, jobs, submitted, headPart, parser, extractor>>

-----------------------------------------------------------------------------
(* The parser: run().                                                      *)

\* Mutants: the parser looks at the other index of the dump; it trusts the
\* index alone.
AvailableAtWriteIndex == write_index # read_index
TagIgnored == TRUE

Available == already_write_index # read_index

SeePacket ==
  /\ ppc = "check" /\ Available
  /\ ppc' = "spin"
  /\ UNCHANGED <<dump, dma, memory, dest, round_num, read_index, meta,
                 extractor>>

\* is_current_round compares the tag byte with an int that never wraps.
is_current_round == Tag(headPart[read_index]) = round_num

ReadPacket ==
  /\ ppc = "spin" /\ is_current_round
  /\ dest' = tailPart[read_index]
  /\ ppc' = "write"
  /\ UNCHANGED <<dump, dma, memory, round_num, read_index, meta, extractor>>

\* Mutant: round_num moves on a packet late, when the index is back at 0.
RoundAfterLate(s) == IF s + 1 > BUFFER_SIZE THEN round_num + 1 ELSE round_num

RoundAfter(s) == IF s + 1 >= BUFFER_SIZE THEN round_num + 1 ELSE round_num

WriteMeta ==
  /\ ppc = "write"
  /\ meta' = [meta EXCEPT ![read_index] = dest]
  /\ round_num' = RoundAfter(read_index)
  /\ read_index' = After(read_index)
  /\ ppc' = "check" /\ dest' = NoPacket
  /\ UNCHANGED <<dump, dma, memory, extractor>>

-----------------------------------------------------------------------------
(* The extractor, as far as it concerns the ring: it copies the payload of *)
(* the slot to the place the parser wrote there.  That it waits between    *)
(* two iterations (main.cpp:226-266) is left out: like KeepUp, an          *)
(* assumption that what lies behind the ring keeps up with it.             *)

Extract ==
  /\ read_index # extractor_read_index
  /\ extractor_read_index' = After(extractor_read_index)
  /\ xlap' = IF extractor_read_index + 1 >= BUFFER_SIZE THEN xlap + 1 ELSE xlap
  /\ UNCHANGED <<dump, dma, memory, parser>>

-----------------------------------------------------------------------------
RxCore == Dequeue \/ Announce \/ EmptyBurst \/ Accept \/ Refuse \/ Submit
Parser == SeePacket \/ ReadPacket \/ WriteMeta

Next == \/ RxCore \/ Burst
        \/ \E d \in Dev : CopyHead(d) \/ CopyTail(d)
        \/ Parser \/ Extract

Spec == Init /\ [][Next]_vars

\* The cores poll and the devices work; that packets arrive is not assumed.
Fairness == /\ WF_vars(RxCore) /\ WF_vars(Parser) /\ WF_vars(Extract)
            /\ \A d \in Dev : WF_vars(CopyHead(d) \/ CopyTail(d))

FairSpec == Spec /\ Fairness

-----------------------------------------------------------------------------
(* Properties.                                                             *)

\* The packet whose tag the parser accepts is the one it is due to decode,
\* one per slot and lap in the order they were received, although devices
\* complete out of order, although already_write_index only counts
\* completions, and even if the dump overruns the parser (which then stops).
AcceptedInOrder ==
  [][ReadPacket => headPart[read_index] =
                     [lap |-> round_num - 1, slot |-> read_index]]_vars

\* The ring holds no more than it has room for: no slot has been taken again
\* before the extractor was done with it.
NotOverrun == Received - Extracted < BUFFER_SIZE

\* Until the ring is overrun, the packet the parser decodes is that packet in
\* all its bytes: the tag is read from one part of the slot, opcode and
\* addresses from another.
DecodedWhole ==
  [][ReadPacket /\ NotOverrun =>
       tailPart[read_index] = headPart[read_index]]_vars

\* When the parser copies a packet, the length it copies by is that packet's,
\* although the length is written long before the data.
LengthOfPacket == [][ReadPacket => pac_len[read_index] = headPart[read_index]]_vars

\* The mbufs between front and rear are those of the copies the device still
\* owes, in its order: dma_dequeue frees none that is still being read.
BufsMatchJobs ==
  \A d \in Dev : \A k \in 1 .. Len(jobs[d]) :
    bufs[d][(front[d] + k - 1) % MBUF_RING_SIZE] = jobs[d][k]

\* Whenever the receive core is done with a burst, all copies it handed to
\* the devices have been submitted, those before a refusal included.
AllSubmitted ==
  rpc \in {"dequeue", "burst", "dequeue_again"} =>
    \A d \in Dev : submitted[d] = Len(jobs[d])

\* Every packet the dump takes a slot for is decoded and reaches the
\* extractor.
EveryPacketExtracted ==
  \A n \in 1 .. MaxLap * BUFFER_SIZE : (Received >= n) ~> (Extracted >= n)

\* Every packet is extracted if no device refuses one, although the devices
\* complete out of order and already_write_index only counts completions.
Refused == rpc = "submit" /\ i < batch
ExtractedUnlessRefused == <>Refused \/ EveryPacketExtracted

-----------------------------------------------------------------------------
(* The inductive invariant.                                                *)

\* A device owes no more copies than it accepts, and bufs has room for them.
DeviceInv(d) ==
  /\ done[d] <= submitted[d] /\ submitted[d] <= Len(jobs[d])
  /\ half[d] => done[d] < submitted[d]
  /\ Len(jobs[d]) <= ring_size
  /\ rear[d] = (front[d] + Len(jobs[d])) % MBUF_RING_SIZE

\* Copies that are not submitted belong to the batch being enqueued.
CoreInv ==
  /\ batch <= nb_rx
  /\ rpc = "enqueue" => i < batch
  /\ rpc \notin {"enqueue", "submit"} \/ i = 0 =>
       \A d \in Dev : submitted[d] = Len(jobs[d])

\* A packet is copied to its own slot, and none is of a lap to come.
TagInv ==
  /\ \A d \in Dev : \A k \in 1 .. Len(jobs[d]) : jobs[d][k].lap <= lap
  /\ \A s \in Slot : headPart[s] # NoPacket =>
       headPart[s].slot = s /\ headPart[s].lap <= lap
  /\ round_num > 0

RingInv ==
  /\ TypeOK
  /\ \A d \in Dev : DeviceInv(d)
  /\ BufsMatchJobs
  /\ CoreInv
  /\ TagInv
=============================================================================
