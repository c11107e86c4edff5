-------------------------- MODULE MirrorRingProofs --------------------------
(***************************************************************************)
(* Proofs about MirrorRing for every ring, every number of devices and any *)
(* traffic: whether or not the readers keep up.                            *)
(***************************************************************************)
EXTENDS MirrorRing, NumberLemmas, SequenceTheorems, TLAPS

-----------------------------------------------------------------------------
(* The two circular structures: the ring, and the lists bufs.              *)

\* Moving the front of a list on does not move what is in it.
LEMMA ModShift ==
  ASSUME NEW m \in Nat \ {0}, NEW f \in 0 .. m - 1,
         NEW n \in 0 .. m, NEW k \in 0 .. m, n + k <= m
  PROVE  (((f + n) % m) + k) % m = (f + n + k) % m
<1> DEFINE x == f + n
           y == f + n + k
<1>1. x \in 0 .. 2 * m - 1 /\ y \in 0 .. 2 * m - 1 /\ y = x + k /\ y - m < m
  OBVIOUS
<1> HIDE DEF x, y
<1>2. x % m = IF x < m THEN x ELSE x - m
  BY <1>1, ModOnce
<1>3. ((x % m) + k) % m = y % m
  <2>1. CASE x < m
    BY <1>1, <1>2, <2>1
  <2>2. CASE ~(x < m)
    <3>1. (x % m) + k = y - m /\ y - m \in 0 .. m - 1 /\ ~(y < m)
      BY <1>1, <1>2, <2>2
    <3>2. (y - m) % m = y - m
      BY <3>1
    <3>3. y % m = y - m
      BY <1>1, <3>1, ModOnce
    <3> QED
      BY <3>1, <3>2, <3>3
  <2> QED
    BY <2>1, <2>2
<1> QED
  BY <1>3 DEF x, y

\* The place after the last of n entries is none of theirs if n < m.
LEMMA ModDistinct ==
  ASSUME NEW m \in Nat \ {0}, NEW f \in 0 .. m - 1,
         NEW n \in 0 .. m - 1, NEW k \in 0 .. m - 1, k # n
  PROVE  (f + k) % m # (f + n) % m
<1> DEFINE x == f + k
           y == f + n
<1>1. /\ x \in 0 .. 2 * m - 1 /\ y \in 0 .. 2 * m - 1
      /\ x # y /\ x - y < m /\ y - x < m
  OBVIOUS
<1> HIDE DEF x, y
<1>2. x % m = IF x < m THEN x ELSE x - m
  BY <1>1, ModOnce
<1>3. y % m = IF y < m THEN y ELSE y - m
  BY <1>1, ModOnce
<1>4. x % m # y % m
  BY <1>1, <1>2, <1>3
<1> QED
  BY <1>4 DEF x, y

LEMMA Constants ==
  /\ BUFFER_SIZE \in Nat \ {0} /\ MBUF_RING_SIZE \in Nat \ {0}
  /\ TOTAL_DMA_DEV \in Nat \ {0} /\ TagValues \in Nat \ {0}
  /\ MAX_PKT_BURST \in Nat \ {0} /\ dma_batch_sz \in Nat \ {0}
  /\ ring_size \in Nat \ {0} /\ ring_size <= MBUF_RING_SIZE
BY RingAssumption

LEMMA AfterInRing ==
  ASSUME NEW s \in Slot
  PROVE  After(s) \in Slot
BY Constants, ModRange DEF After, Slot

\* What the types of a device's variables say of one device.
LEMMA DeviceFacts ==
  ASSUME DeviceTypeOK, NEW d \in Dev
  PROVE  /\ jobs[d] \in Seq(Packet) /\ Len(jobs[d]) \in Nat
         /\ \A k \in 1 .. Len(jobs[d]) : jobs[d][k] \in Packet
         /\ submitted[d] \in Nat /\ done[d] \in Nat /\ half[d] \in BOOLEAN
         /\ front[d] \in 0 .. MBUF_RING_SIZE - 1
         /\ rear[d] \in 0 .. MBUF_RING_SIZE - 1
<1>1. jobs[d] \in Seq(Packet)
  BY DEF DeviceTypeOK
<1>2. Len(jobs[d]) \in Nat /\ \A k \in 1 .. Len(jobs[d]) : jobs[d][k] \in Packet
  BY <1>1, LenProperties, ElementOfSeq
<1> QED
  BY <1>1, <1>2 DEF DeviceTypeOK

\* What the device has completed, as far as one call reads it.
LEMMA CompletedFacts ==
  ASSUME DeviceTypeOK, NEW d \in Dev
  PROVE  Completed(d) \in Nat /\ Completed(d) <= done[d]
BY Constants, DeviceFacts DEF Completed

-----------------------------------------------------------------------------
(* The receive core.                                                       *)

LEMMA InitInv == Init => RingInv
<1> SUFFICES ASSUME Init PROVE RingInv
  OBVIOUS
<1>1. TypeOK
  <2>1. 1 % TagValues \in 0 .. TagValues - 1
    BY Constants, ModRange
  <2>2. CoreTypeOK
    BY <2>1, Constants DEF Init, CoreTypeOK, Dev
  <2>3. <<>> \in Seq(Packet)
    BY EmptySeq
  <2>4. DeviceTypeOK
    BY <2>3, Constants DEF Init, DeviceTypeOK
  <2>5. MemoryTypeOK /\ ReaderTypeOK
    BY Constants DEF Init, MemoryTypeOK, ReaderTypeOK, Slot
  <2> QED
    BY <2>2, <2>4, <2>5 DEF TypeOK
<1>2. \A d \in Dev : jobs[d] = <<>> /\ Len(jobs[d]) = 0
  BY EmptySeq DEF Init
<1>3. 0 % MBUF_RING_SIZE = 0
  BY Constants, ModOnce
<1>4. \A d \in Dev : DeviceInv(d)
  BY <1>2, <1>3, Constants DEF Init, DeviceInv
<1>5. BufsMatchJobs /\ CoreInv /\ TagInv
  BY <1>2 DEF Init, BufsMatchJobs, CoreInv, TagInv
<1> QED
  BY <1>1, <1>4, <1>5 DEF RingInv

\* A list that loses its first n entries, in bufs and in the device.
LEMMA DropFirst ==
  ASSUME DeviceTypeOK, NEW d \in Dev, DeviceInv(d),
         NEW n \in Nat, n <= Len(jobs[d])
  PROVE  LET rest == SubSeq(jobs[d], n + 1, Len(jobs[d]))
             f == (front[d] + n) % MBUF_RING_SIZE
         IN /\ rest \in Seq(Packet) /\ Len(rest) = Len(jobs[d]) - n
            /\ \A k \in 1 .. Len(rest) :
                 n + k \in 1 .. Len(jobs[d]) /\ rest[k] = jobs[d][n + k]
            /\ f \in 0 .. MBUF_RING_SIZE - 1
            /\ rear[d] = (f + Len(rest)) % MBUF_RING_SIZE
            /\ \A k \in 1 .. Len(rest) :
                 (f + k - 1) % MBUF_RING_SIZE =
                   (front[d] + (n + k) - 1) % MBUF_RING_SIZE
<1> DEFINE len == Len(jobs[d])
           rest == SubSeq(jobs[d], n + 1, len)
           m == MBUF_RING_SIZE
           f == (front[d] + n) % m
<1>1. /\ len \in Nat /\ n <= len /\ len <= m /\ m \in Nat \ {0}
      /\ front[d] \in 0 .. m - 1 /\ rear[d] = (front[d] + len) % m
  BY DeviceFacts, Constants DEF DeviceInv
<1>2. rest \in Seq(Packet) /\ Len(rest) = len - n
      /\ \A k \in 1 .. len - n : rest[k] = jobs[d][n + k]
  <2>1. \A k \in n + 1 .. len : jobs[d][k] \in Packet
    BY DeviceFacts
  <2>2. /\ rest \in Seq(Packet)
        /\ Len(rest) = IF n + 1 <= len THEN len - (n + 1) + 1 ELSE 0
        /\ \A k \in 1 .. len - (n + 1) + 1 : rest[k] = jobs[d][n + 1 + k - 1]
    <3> HIDE DEF len
    <3> QED
      BY <1>1, <2>1, SubSeqProperties DEF rest
  <2> HIDE DEF rest, len
  <2>3. \A k \in 1 .. len - n : n + 1 + k - 1 = n + k
    BY <1>1
  <2> QED
    BY <1>1, <2>2, <2>3
<1> HIDE DEF len, rest
<1>3. f \in 0 .. m - 1
  <2>1. front[d] + n \in Nat
    BY <1>1
  <2> QED
    BY <1>1, <2>1, ModRange
<1>4. ASSUME NEW k \in 0 .. len - n
      PROVE  (f + k) % m = (front[d] + n + k) % m
  <2> HIDE DEF m
  <2>1. n \in 0 .. m /\ k \in 0 .. m /\ n + k <= m
    BY <1>1
  <2> QED
    BY <1>1, <2>1, ModShift
<1> HIDE DEF f
<1>5. rear[d] = (f + Len(rest)) % m
  <2>1. len - n \in 0 .. len - n /\ front[d] + n + (len - n) = front[d] + len
    BY <1>1
  <2> QED
    BY <1>1, <1>2, <1>4, <2>1
<1>6. ASSUME NEW k \in 1 .. Len(rest)
      PROVE  (f + k - 1) % m = (front[d] + (n + k) - 1) % m
  <2>1. /\ k - 1 \in 0 .. len - n
        /\ f + (k - 1) = f + k - 1
        /\ front[d] + n + (k - 1) = front[d] + (n + k) - 1
    BY <1>1, <1>2, <1>3
  <2> QED
    BY <1>4, <2>1
<1>7. \A k \in 1 .. Len(rest) :
        n + k \in 1 .. len /\ rest[k] = jobs[d][n + k]
  BY <1>1, <1>2
<1> QED
  BY <1>2, <1>3, <1>5, <1>6, <1>7 DEF rest, f, len

\* The steps of the receive core leave the memory and its readers alone.
LEMMA OthersKept ==
  ASSUME MemoryTypeOK, ReaderTypeOK, UNCHANGED <<memory, parser, extractor>>,
         {write_index', already_write_index'} \subseteq Slot,
         pac_len' \in [Slot -> Packet \cup {NoPacket}]
  PROVE  MemoryTypeOK' /\ ReaderTypeOK'
BY DEF MemoryTypeOK, ReaderTypeOK, memory, parser, extractor

\* The list bufs loses as many entries at its front as the device completed.
LEMMA DequeueInv ==
  ASSUME RingInv, Dequeue
  PROVE  RingInv'
<1>a. /\ CoreTypeOK /\ DeviceTypeOK /\ MemoryTypeOK /\ ReaderTypeOK
      /\ \A e \in Dev : DeviceInv(e)
      /\ BufsMatchJobs /\ CoreInv /\ TagInv
  BY DEF RingInv, TypeOK
<1>1. PICK d \in Dev : d = asked
  BY <1>a, Constants DEF Dequeue, CoreTypeOK, Dev
<1>2. PICK n \in Nat : n = Completed(d) /\ n <= done[d]
  BY <1>a, <1>1, CompletedFacts
<1>3. /\ n <= submitted[d] /\ n <= Len(jobs[d])
      /\ Len(jobs[d]) \in Nat /\ done[d] \in Nat /\ submitted[d] \in Nat
  BY <1>a, <1>2, DeviceFacts DEF DeviceInv
<1>4. PICK rest : rest = SubSeq(jobs[d], n + 1, Len(jobs[d]))
  OBVIOUS
<1>5. PICK f : f = (front[d] + n) % MBUF_RING_SIZE
  OBVIOUS
<1>6. /\ rest \in Seq(Packet) /\ Len(rest) = Len(jobs[d]) - n
      /\ \A k \in 1 .. Len(rest) :
           n + k \in 1 .. Len(jobs[d]) /\ rest[k] = jobs[d][n + k]
      /\ f \in 0 .. MBUF_RING_SIZE - 1
      /\ rear[d] = (f + Len(rest)) % MBUF_RING_SIZE
      /\ \A k \in 1 .. Len(rest) :
           (f + k - 1) % MBUF_RING_SIZE =
             (front[d] + (n + k) - 1) % MBUF_RING_SIZE
  BY <1>a, <1>3, <1>4, <1>5, DropFirst
<1>7. /\ jobs' = [jobs EXCEPT ![d] = rest]
      /\ submitted' = [submitted EXCEPT ![d] = submitted[d] - n]
      /\ done' = [done EXCEPT ![d] = done[d] - n]
      /\ front' = [front EXCEPT ![d] = f]
      /\ rear' = rear /\ bufs' = bufs /\ half' = half
      /\ nb_dq' = nb_dq + n /\ asked' = asked + 1
      /\ UNCHANGED <<rpc, nb_rx, batch, i, dev_id, lap, ROUND, write_index,
                     already_write_index, pac_len>>
      /\ UNCHANGED <<memory, parser, extractor>>
  <2>1. d = asked /\ n = Completed(asked)
    BY <1>1, <1>2
  <2> QED
    BY <1>a, <1>4, <1>5, <2>1 DEF Dequeue, DeviceTypeOK
<1>8. CoreTypeOK'
  BY <1>a, <1>1, <1>7, Constants DEF CoreTypeOK, Dev
<1>9. DeviceTypeOK'
  <2>1. submitted[d] - n \in Nat /\ done[d] - n \in Nat
    BY <1>2, <1>3
  <2> QED
    BY <1>a, <1>6, <1>7, <2>1 DEF DeviceTypeOK
<1>10. MemoryTypeOK' /\ ReaderTypeOK'
  BY <1>a, <1>7, OthersKept DEF MemoryTypeOK
<1>11. /\ jobs'[d] = rest /\ submitted'[d] = submitted[d] - n
       /\ done'[d] = done[d] - n /\ front'[d] = f
       /\ \A e \in Dev \ {d} :
            /\ jobs'[e] = jobs[e] /\ submitted'[e] = submitted[e]
            /\ done'[e] = done[e] /\ front'[e] = front[e]
  BY <1>a, <1>7 DEF DeviceTypeOK
<1>12. ASSUME NEW e \in Dev PROVE DeviceInv(e)'
  <2>1. CASE e # d
    BY <1>a, <1>7, <1>11, <2>1 DEF DeviceInv
  <2>2. CASE e = d
    <3>1. half[d] => done[d] < submitted[d]
      BY <1>a DEF DeviceInv
    <3>2. done[d] <= submitted[d] /\ submitted[d] <= Len(jobs[d])
          /\ Len(jobs[d]) <= ring_size
      BY <1>a DEF DeviceInv
    <3>3. /\ done'[d] <= submitted'[d] /\ submitted'[d] <= Len(jobs'[d])
          /\ half'[d] => done'[d] < submitted'[d]
      BY <1>2, <1>3, <1>6, <1>7, <1>11, <3>1, <3>2
    <3>4. Len(jobs'[d]) <= ring_size
      BY <1>2, <1>3, <1>6, <1>11, <3>2, Constants
    <3>5. rear'[d] = (front'[d] + Len(jobs'[d])) % MBUF_RING_SIZE
      BY <1>6, <1>7, <1>11
    <3> QED
      BY <2>2, <3>3, <3>4, <3>5 DEF DeviceInv
  <2> QED
    BY <2>1, <2>2
<1>13. BufsMatchJobs'
  <2> SUFFICES ASSUME NEW e \in Dev, NEW k \in 1 .. Len(jobs'[e])
               PROVE  bufs'[e][(front'[e] + k - 1) % MBUF_RING_SIZE] = jobs'[e][k]
    BY DEF BufsMatchJobs
  <2>1. CASE e # d
    BY <1>a, <1>7, <1>11, <2>1 DEF BufsMatchJobs
  <2>2. CASE e = d
    <3>1. k \in 1 .. Len(rest) /\ n + k \in 1 .. Len(jobs[d])
      BY <1>6, <1>11, <2>2
    <3>2. bufs[d][(front[d] + (n + k) - 1) % MBUF_RING_SIZE] = jobs[d][n + k]
      BY <1>a, <3>1 DEF BufsMatchJobs
    <3>3. /\ rest[k] = jobs[d][n + k]
          /\ (f + k - 1) % MBUF_RING_SIZE =
               (front[d] + (n + k) - 1) % MBUF_RING_SIZE
      BY <1>6, <3>1
    <3>4. bufs[d][(f + k - 1) % MBUF_RING_SIZE] = rest[k]
      BY <3>2, <3>3
    <3> QED
      BY <1>7, <1>11, <2>2, <3>4
  <2> QED
    BY <2>1, <2>2
<1>14. CoreInv'
  <2>1. ASSUME NEW e \in Dev, submitted[e] = Len(jobs[e])
        PROVE  submitted'[e] = Len(jobs'[e])
    <3>1. CASE e # d
      BY <1>11, <2>1, <3>1
    <3>2. CASE e = d
      BY <1>6, <1>11, <2>1, <3>2
    <3> QED
      BY <3>1, <3>2
  <2> QED
    BY <1>a, <1>7, <2>1 DEF CoreInv
<1>15. TagInv'
  <2>1. ASSUME NEW e \in Dev, NEW k \in 1 .. Len(jobs'[e])
        PROVE  jobs'[e][k].lap <= lap
    <3>1. CASE e # d
      BY <1>a, <1>11, <2>1, <3>1 DEF TagInv
    <3>2. CASE e = d
      BY <1>a, <1>6, <1>11, <2>1, <3>2 DEF TagInv
    <3> QED
      BY <3>1, <3>2
  <2> QED
    BY <1>a, <1>7, <2>1 DEF TagInv, memory, parser
<1> QED
  BY <1>8, <1>9, <1>10, <1>12, <1>13, <1>14, <1>15 DEF RingInv, TypeOK

\* What does not touch the devices keeps what is said of them.
LEMMA DevicesKept ==
  ASSUME DeviceTypeOK, \A d \in Dev : DeviceInv(d), BufsMatchJobs,
         UNCHANGED <<bufs, front, rear, jobs, submitted, done, half>>
  PROVE  DeviceTypeOK' /\ (\A d \in Dev : DeviceInv(d))' /\ BufsMatchJobs'
BY DEF DeviceTypeOK, DeviceInv, BufsMatchJobs

LEMMA AnnounceInv ==
  ASSUME RingInv, Announce
  PROVE  RingInv'
<1>a. /\ CoreTypeOK /\ DeviceTypeOK /\ MemoryTypeOK /\ ReaderTypeOK
      /\ \A e \in Dev : DeviceInv(e)
      /\ BufsMatchJobs /\ CoreInv /\ TagInv
  BY DEF RingInv, TypeOK
<1>1. CoreTypeOK'
  BY <1>a, Constants DEF Announce, CoreTypeOK
<1>2. MemoryTypeOK' /\ ReaderTypeOK'
  <2>1. already_write_index' \in Slot
    <3>1. already_write_index + nb_dq \in Nat
      BY <1>a, Constants DEF MemoryTypeOK, CoreTypeOK, Slot
    <3>2. Announced \in Slot
      BY <3>1, Constants, ModRange DEF Announced, Slot
    <3> QED
      BY <3>2 DEF Announce
  <2> QED
    BY <1>a, <2>1, OthersKept DEF Announce, MemoryTypeOK
<1>3. DeviceTypeOK' /\ (\A d \in Dev : DeviceInv(d))' /\ BufsMatchJobs'
  BY <1>a, DevicesKept DEF Announce, dma
<1>4. CoreInv' /\ TagInv'
  BY <1>a DEF Announce, CoreInv, TagInv, dma, memory, parser
<1> QED
  BY <1>1, <1>2, <1>3, <1>4 DEF RingInv, TypeOK

\* A batch that starts is not empty and within what was received.
LEMMA BatchStarted ==
  ASSUME NEW n \in 1 .. MAX_PKT_BURST, StartBatch(n)
  PROVE  /\ nb_rx' \in 0 .. MAX_PKT_BURST /\ batch' \in 1 .. dma_batch_sz
         /\ batch' <= nb_rx' /\ i' = 0 /\ dev_id' \in Dev
BY Constants DEF StartBatch

LEMMA BurstInv ==
  ASSUME RingInv, EmptyBurst \/ Burst
  PROVE  RingInv'
<1>a. /\ CoreTypeOK /\ DeviceTypeOK /\ MemoryTypeOK /\ ReaderTypeOK
      /\ \A e \in Dev : DeviceInv(e)
      /\ BufsMatchJobs /\ CoreInv /\ TagInv
  BY DEF RingInv, TypeOK
<1>1. /\ rpc = "burst"
      /\ UNCHANGED <<asked, nb_dq, lap, ROUND, bufs, front, rear, write_index,
                     already_write_index, pac_len>>
      /\ UNCHANGED <<jobs, submitted, done, half>>
      /\ UNCHANGED <<memory, parser, extractor>>
  BY DEF EmptyBurst, Burst, dma
<1>2. MemoryTypeOK' /\ ReaderTypeOK'
  BY <1>a, <1>1, OthersKept DEF MemoryTypeOK
<1>3. DeviceTypeOK' /\ (\A d \in Dev : DeviceInv(d))' /\ BufsMatchJobs'
  BY <1>a, <1>1, DevicesKept
<1>4. TagInv'
  BY <1>a, <1>1 DEF TagInv, memory, parser
<1>5. CASE EmptyBurst
  <2>1. CoreTypeOK' /\ CoreInv'
    BY <1>a, <1>5 DEF EmptyBurst, CoreTypeOK, CoreInv, dma
  <2> QED
    BY <1>2, <1>3, <1>4, <2>1 DEF RingInv, TypeOK
<1>6. CASE Burst
  <2>1. PICK n \in 1 .. MAX_PKT_BURST : StartBatch(n)
    BY <1>6 DEF Burst
  <2>2. rpc' = "enqueue"
    BY <1>6 DEF Burst
  <2>3. CoreTypeOK'
    BY <1>a, <1>1, <2>1, <2>2, BatchStarted, Constants DEF CoreTypeOK
  <2>4. CoreInv'
    BY <1>a, <1>1, <2>1, <2>2, BatchStarted, Constants DEF CoreInv
  <2> QED
    BY <1>2, <1>3, <1>4, <2>3, <2>4 DEF RingInv, TypeOK
<1> QED
  BY <1>5, <1>6

LEMMA SubmitInv ==
  ASSUME RingInv, Submit
  PROVE  RingInv'
<1>a. /\ CoreTypeOK /\ DeviceTypeOK /\ MemoryTypeOK /\ ReaderTypeOK
      /\ \A e \in Dev : DeviceInv(e)
      /\ BufsMatchJobs /\ CoreInv /\ TagInv
  BY DEF RingInv, TypeOK
<1>1. /\ rpc = "submit"
      /\ UNCHANGED <<asked, nb_dq, lap, ROUND, bufs, front, rear, write_index,
                     already_write_index, pac_len>>
      /\ UNCHANGED <<jobs, done, half>>
      /\ UNCHANGED <<memory, parser, extractor>>
  BY DEF Submit
<1>2. MemoryTypeOK' /\ ReaderTypeOK'
  BY <1>a, <1>1, OthersKept DEF MemoryTypeOK
<1>3. \A d \in Dev : submitted'[d] = Len(jobs[d])
  <2>1. CASE i > 0
    BY <2>1 DEF Submit, Submitted
  <2>2. CASE ~(i > 0)
    <3>1. i = 0
      BY <1>a, <2>2, Constants DEF CoreTypeOK
    <3> QED
      BY <1>a, <2>2, <3>1 DEF Submit, Submitted, CoreInv
  <2> QED
    BY <2>1, <2>2
<1>4. DeviceTypeOK'
  <2>1. submitted' \in [Dev -> Nat]
    <3>1. [d \in Dev |-> Len(jobs[d])] \in [Dev -> Nat]
      BY <1>a, DeviceFacts
    <3> QED
      BY <1>a, <3>1 DEF Submit, Submitted, DeviceTypeOK
  <2> QED
    BY <1>a, <1>1, <2>1 DEF DeviceTypeOK
<1>5. ASSUME NEW d \in Dev PROVE DeviceInv(d)'
  BY <1>a, <1>1, <1>3, DeviceFacts DEF DeviceInv
<1>6. BufsMatchJobs' /\ TagInv'
  BY <1>a, <1>1 DEF BufsMatchJobs, TagInv, memory, parser
<1>7. CoreTypeOK' /\ CoreInv'
  <2>1. CASE i = batch /\ nb_rx > batch
    <3>1. nb_rx - batch \in 1 .. MAX_PKT_BURST
      BY <1>a, <2>1, Constants DEF CoreTypeOK
    <3>2. StartBatch(nb_rx - batch) /\ rpc' = "enqueue"
      BY <2>1 DEF Submit
    <3> QED
      BY <1>a, <1>1, <1>3, <3>1, <3>2, BatchStarted, Constants
      DEF CoreTypeOK, CoreInv
  <2>2. CASE ~(i = batch /\ nb_rx > batch)
    <3>1. rpc' = "dequeue_again" /\ nb_rx' = 0 /\ batch' = 0 /\ i' = 0
          /\ dev_id' = dev_id
      BY <2>2 DEF Submit
    <3> QED
      BY <1>a, <1>1, <1>3, <3>1, Constants DEF CoreTypeOK, CoreInv
  <2> QED
    BY <2>1, <2>2
<1> QED
  BY <1>2, <1>4, <1>5, <1>6, <1>7 DEF RingInv, TypeOK

\* Taking a slot.
LEMMA SlotTaken ==
  ASSUME CoreTypeOK, MemoryTypeOK, TakeSlot
  PROVE  /\ [lap |-> lap, slot |-> write_index] \in Packet
         /\ write_index' \in Slot
         /\ pac_len' \in [Slot -> Packet \cup {NoPacket}]
         /\ lap' \in Nat /\ lap <= lap' /\ ROUND' \in 0 .. TagValues - 1
<1>1. lap \in Nat /\ write_index \in Slot /\ ROUND \in 0 .. TagValues - 1
      /\ pac_len \in [Slot -> Packet \cup {NoPacket}]
  BY DEF CoreTypeOK, MemoryTypeOK
<1>2. [lap |-> lap, slot |-> write_index] \in Packet
  BY <1>1 DEF Packet
<1>3. ROUND + 1 \in Nat /\ (ROUND + 1) % TagValues \in 0 .. TagValues - 1
  <2>1. ROUND + 1 \in Nat
    BY <1>1, Constants
  <2> QED
    BY <2>1, Constants, ModRange
<1>4. write_index' \in Slot
  BY <1>1, AfterInRing DEF TakeSlot
<1>5. pac_len' \in [Slot -> Packet \cup {NoPacket}]
  BY <1>1, <1>2 DEF TakeSlot
<1>6. lap' \in Nat /\ lap <= lap' /\ ROUND' \in 0 .. TagValues - 1
  BY <1>1, <1>3 DEF TakeSlot
<1> QED
  BY <1>2, <1>4, <1>5, <1>6

\* What is not of a lap to come stays so as the laps go on.
LEMMA LapGrew ==
  ASSUME CoreTypeOK, DeviceTypeOK, MemoryTypeOK, TagInv,
         lap' \in Nat, lap <= lap'
  PROVE  /\ \A d \in Dev : \A k \in 1 .. Len(jobs[d]) : jobs[d][k].lap <= lap'
         /\ \A t \in Slot : headPart[t] # NoPacket =>
              headPart[t].slot = t /\ headPart[t].lap <= lap'
<1>1. ASSUME NEW d \in Dev, NEW k \in 1 .. Len(jobs[d])
      PROVE  jobs[d][k].lap <= lap'
  <2>1. jobs[d][k] \in Packet
    BY DeviceFacts
  <2> QED
    BY <2>1 DEF TagInv, Packet, CoreTypeOK
<1>2. ASSUME NEW t \in Slot, headPart[t] # NoPacket
      PROVE  headPart[t].slot = t /\ headPart[t].lap <= lap'
  <2>1. headPart[t] \in Packet
    BY <1>2 DEF MemoryTypeOK
  <2> QED
    BY <1>2, <2>1 DEF TagInv, Packet, CoreTypeOK
<1> QED
  BY <1>1, <1>2

LEMMA RefuseInv ==
  ASSUME RingInv, Refuse
  PROVE  RingInv'
<1>a. /\ CoreTypeOK /\ DeviceTypeOK /\ MemoryTypeOK /\ ReaderTypeOK
      /\ \A e \in Dev : DeviceInv(e)
      /\ BufsMatchJobs /\ CoreInv /\ TagInv
  BY DEF RingInv, TypeOK
<1>1. /\ rpc = "enqueue" /\ rpc' = "submit" /\ TakeSlot
      /\ UNCHANGED <<asked, nb_dq, nb_rx, batch, i, dev_id>>
      /\ UNCHANGED <<bufs, front, rear, jobs, submitted, done, half>>
      /\ already_write_index' = already_write_index
      /\ UNCHANGED <<memory, parser, extractor>>
  BY DEF Refuse, dma
<1>2. /\ write_index' \in Slot /\ pac_len' \in [Slot -> Packet \cup {NoPacket}]
      /\ lap' \in Nat /\ lap <= lap' /\ ROUND' \in 0 .. TagValues - 1
  BY <1>a, <1>1, SlotTaken
<1>3. CoreTypeOK' /\ CoreInv'
  BY <1>a, <1>1, <1>2 DEF CoreTypeOK, CoreInv
<1>4. MemoryTypeOK' /\ ReaderTypeOK'
  BY <1>a, <1>1, <1>2, OthersKept DEF MemoryTypeOK
<1>5. DeviceTypeOK' /\ (\A d \in Dev : DeviceInv(d))' /\ BufsMatchJobs'
  BY <1>a, <1>1, DevicesKept
<1>6. TagInv'
  BY <1>a, <1>1, <1>2, LapGrew DEF TagInv, memory, parser
<1> QED
  BY <1>3, <1>4, <1>5, <1>6 DEF RingInv, TypeOK

\* A device that accepts a copy has room for its mbuf in bufs.
LEMMA AcceptInv ==
  ASSUME RingInv, Accept
  PROVE  RingInv'
<1>a. /\ CoreTypeOK /\ DeviceTypeOK /\ MemoryTypeOK /\ ReaderTypeOK
      /\ \A e \in Dev : DeviceInv(e)
      /\ BufsMatchJobs /\ CoreInv /\ TagInv
  BY DEF RingInv, TypeOK
<1>1. PICK d \in Dev : d = dev_id
  BY <1>a DEF CoreTypeOK
<1>2. PICK p \in Packet : p = [lap |-> lap, slot |-> write_index]
  BY <1>a, SlotTaken DEF Accept
<1>3. PICK more : more = Append(jobs[d], p)
  OBVIOUS
<1>4. /\ more \in Seq(Packet) /\ Len(more) = Len(jobs[d]) + 1
      /\ \A k \in 1 .. Len(jobs[d]) : more[k] = jobs[d][k]
      /\ more[Len(jobs[d]) + 1] = p
  BY <1>a, <1>3, DeviceFacts, AppendProperties
<1>5. /\ Len(jobs[d]) \in Nat /\ Len(jobs[d]) < ring_size
      /\ Len(jobs[d]) \in 0 .. MBUF_RING_SIZE - 1
      /\ submitted[d] \in Nat /\ done[d] \in Nat
      /\ front[d] \in 0 .. MBUF_RING_SIZE - 1
      /\ rear[d] \in 0 .. MBUF_RING_SIZE - 1
  BY <1>a, <1>1, DeviceFacts, Constants DEF Accept
<1>6. /\ rpc = "enqueue" /\ i < batch /\ TakeSlot
      /\ jobs' = [jobs EXCEPT ![d] = more]
      /\ bufs' = [bufs EXCEPT ![d] = [bufs[d] EXCEPT ![rear[d]] = p]]
      /\ rear' = [rear EXCEPT ![d] = (rear[d] + 1) % MBUF_RING_SIZE]
      /\ dev_id' = (d + 1) % TOTAL_DMA_DEV /\ i' = i + 1
      /\ rpc' = IF i + 1 = batch THEN "submit" ELSE "enqueue"
      /\ UNCHANGED <<asked, nb_dq, nb_rx, batch, front, already_write_index,
                     submitted, done, half>>
      /\ UNCHANGED <<memory, parser, extractor>>
  BY <1>a, <1>1, <1>2, <1>3 DEF Accept, DeviceTypeOK
<1>7. /\ write_index' \in Slot /\ pac_len' \in [Slot -> Packet \cup {NoPacket}]
      /\ lap' \in Nat /\ lap <= lap' /\ ROUND' \in 0 .. TagValues - 1
  BY <1>a, <1>6, SlotTaken
<1>8. /\ jobs'[d] = more /\ bufs'[d] = [bufs[d] EXCEPT ![rear[d]] = p]
      /\ rear'[d] = (rear[d] + 1) % MBUF_RING_SIZE
      /\ \A e \in Dev \ {d} :
           jobs'[e] = jobs[e] /\ bufs'[e] = bufs[e] /\ rear'[e] = rear[e]
  BY <1>a, <1>6 DEF DeviceTypeOK
<1>9. CoreTypeOK' /\ CoreInv'
  <2>1. dev_id' \in Dev
    <3>1. d + 1 \in Nat
      BY Constants DEF Dev
    <3> QED
      BY <1>6, <3>1, Constants, ModRange DEF Dev
  <2>2. i + 1 \in 0 .. batch /\ i + 1 # 0
    BY <1>a, <1>6, Constants DEF CoreTypeOK
  <2>3. i' = i + 1 /\ (rpc' = "enqueue" => i + 1 < batch)
        /\ rpc' \in {"enqueue", "submit"}
    BY <1>a, <1>6, <2>2, Constants DEF CoreTypeOK
  <2>4. CoreTypeOK'
    BY <1>a, <1>6, <1>7, <2>1, <2>2, <2>3 DEF CoreTypeOK
  <2> QED
    BY <1>a, <1>6, <2>2, <2>3, <2>4 DEF CoreInv
<1>10. MemoryTypeOK' /\ ReaderTypeOK'
  BY <1>a, <1>6, <1>7, OthersKept DEF MemoryTypeOK
<1>11. rear'[d] = (front[d] + (Len(jobs[d]) + 1)) % MBUF_RING_SIZE
       /\ rear'[d] \in 0 .. MBUF_RING_SIZE - 1
  <2>1. /\ Len(jobs[d]) \in 0 .. MBUF_RING_SIZE /\ 1 \in 0 .. MBUF_RING_SIZE
        /\ Len(jobs[d]) + 1 <= MBUF_RING_SIZE
        /\ front[d] + Len(jobs[d]) + 1 = front[d] + (Len(jobs[d]) + 1)
        /\ rear[d] + 1 \in Nat
    <3>1. MBUF_RING_SIZE \in Nat \ {0}
      BY Constants
    <3>2. Len(jobs[d]) \in 0 .. MBUF_RING_SIZE /\ 1 \in 0 .. MBUF_RING_SIZE
      BY <1>5, <3>1
    <3>3. Len(jobs[d]) + 1 <= MBUF_RING_SIZE
      BY <1>5, <3>1
    <3>4. front[d] + Len(jobs[d]) + 1 = front[d] + (Len(jobs[d]) + 1)
      BY <1>5, <3>1
    <3>5. rear[d] + 1 \in Nat
      BY <1>5, <3>1
    <3> QED
      BY <3>2, <3>3, <3>4, <3>5
  <2>2. rear[d] = (front[d] + Len(jobs[d])) % MBUF_RING_SIZE
    BY <1>a DEF DeviceInv
  <2>3. (((front[d] + Len(jobs[d])) % MBUF_RING_SIZE) + 1) % MBUF_RING_SIZE
          = (front[d] + Len(jobs[d]) + 1) % MBUF_RING_SIZE
    BY <1>5, <2>1, Constants, ModShift
  <2>4. (rear[d] + 1) % MBUF_RING_SIZE \in 0 .. MBUF_RING_SIZE - 1
    BY <2>1, Constants, ModRange
  <2> QED
    BY <1>8, <2>1, <2>2, <2>3, <2>4
<1>12. DeviceTypeOK'
  <2>1. bufs[d] \in [0 .. MBUF_RING_SIZE - 1 -> Packet \cup {NoPacket}]
    BY <1>a DEF DeviceTypeOK
  <2>2. [bufs[d] EXCEPT ![rear[d]] = p]
          \in [0 .. MBUF_RING_SIZE - 1 -> Packet \cup {NoPacket}]
    BY <1>5, <2>1
  <2>3. bufs' \in [Dev -> [0 .. MBUF_RING_SIZE - 1 -> Packet \cup {NoPacket}]]
    BY <1>a, <1>6, <2>2 DEF DeviceTypeOK
  <2>4. rear' \in [Dev -> 0 .. MBUF_RING_SIZE - 1]
    BY <1>a, <1>6, <1>8, <1>11 DEF DeviceTypeOK
  <2>5. jobs' \in [Dev -> Seq(Packet)]
    BY <1>a, <1>4, <1>6 DEF DeviceTypeOK
  <2> QED
    BY <1>a, <1>6, <2>3, <2>4, <2>5 DEF DeviceTypeOK
<1>13. ASSUME NEW e \in Dev PROVE DeviceInv(e)'
  <2>1. CASE e # d
    BY <1>a, <1>6, <1>8, <2>1 DEF DeviceInv
  <2>2. CASE e = d
    <3>1. done[d] <= submitted[d] /\ submitted[d] <= Len(jobs[d])
          /\ (half[d] => done[d] < submitted[d])
      BY <1>a DEF DeviceInv
    <3>2. submitted[d] <= Len(more) /\ Len(more) <= ring_size
      BY <1>4, <1>5, <3>1, Constants
    <3>3. rear'[d] = (front[d] + Len(more)) % MBUF_RING_SIZE
      BY <1>4, <1>11
    <3> QED
      BY <1>6, <1>8, <2>2, <3>1, <3>2, <3>3 DEF DeviceInv
  <2> QED
    BY <2>1, <2>2
<1>14. BufsMatchJobs'
  <2> SUFFICES ASSUME NEW e \in Dev, NEW k \in 1 .. Len(jobs'[e])
               PROVE  bufs'[e][(front'[e] + k - 1) % MBUF_RING_SIZE] = jobs'[e][k]
    BY DEF BufsMatchJobs
  <2>1. CASE e # d
    BY <1>a, <1>6, <1>8, <2>1 DEF BufsMatchJobs
  <2>2. CASE e = d
    <3>1. k \in 1 .. Len(jobs[d]) + 1
      BY <1>4, <1>8, <2>2
    <3>2. PICK at : at = (front[d] + k - 1) % MBUF_RING_SIZE
      OBVIOUS
    <3>3. at \in 0 .. MBUF_RING_SIZE - 1
      <4>1. front[d] + k - 1 \in Nat
        BY <1>5, <3>1
      <4> QED
        BY <3>2, <4>1, Constants, ModRange
    <3>4. bufs[d] \in [0 .. MBUF_RING_SIZE - 1 -> Packet \cup {NoPacket}]
      BY <1>a DEF DeviceTypeOK
    <3>5. rear[d] = (front[d] + Len(jobs[d])) % MBUF_RING_SIZE
      BY <1>a DEF DeviceInv
    <3>6. CASE k = Len(jobs[d]) + 1
      <4>1. front[d] + k - 1 = front[d] + Len(jobs[d])
        BY <1>5, <3>6
      <4>2. at = rear[d]
        BY <3>2, <3>5, <4>1
      <4>3. bufs'[d][at] = p
        BY <1>8, <3>3, <3>4, <4>2
      <4>4. jobs'[d][k] = p
        BY <1>4, <1>8, <3>6
      <4> QED
        BY <1>6, <2>2, <3>2, <4>3, <4>4
    <3>7. CASE k # Len(jobs[d]) + 1
      <4>1. /\ k \in 1 .. Len(jobs[d])
            /\ k - 1 \in 0 .. MBUF_RING_SIZE - 1 /\ k - 1 # Len(jobs[d])
            /\ front[d] + (k - 1) = front[d] + k - 1
        BY <1>5, <3>1, <3>7, Constants
      <4>2. (front[d] + (k - 1)) % MBUF_RING_SIZE
              # (front[d] + Len(jobs[d])) % MBUF_RING_SIZE
        BY <1>5, <4>1, Constants, ModDistinct
      <4>3. at # rear[d]
        BY <3>2, <3>5, <4>1, <4>2
      <4>4. bufs[d][at] = jobs[d][k]
        BY <1>a, <3>2, <4>1 DEF BufsMatchJobs
      <4> QED
        BY <1>4, <1>6, <1>8, <2>2, <3>2, <3>3, <3>4, <4>1, <4>3, <4>4
    <3> QED
      BY <3>6, <3>7
  <2> QED
    BY <2>1, <2>2
<1>15. TagInv'
  <2>1. p.lap <= lap'
    BY <1>a, <1>2, <1>7 DEF CoreTypeOK
  <2>2. ASSUME NEW e \in Dev, NEW k \in 1 .. Len(jobs'[e])
        PROVE  jobs'[e][k].lap <= lap'
    <3>1. CASE e # d
      BY <1>a, <1>7, <1>8, <2>2, <3>1, LapGrew
    <3>2. CASE e = d
      <4>1. k \in 1 .. Len(jobs[d]) + 1
        BY <1>4, <1>8, <2>2, <3>2
      <4>2. CASE k = Len(jobs[d]) + 1
        BY <1>4, <1>8, <2>1, <3>2, <4>2
      <4>3. CASE k # Len(jobs[d]) + 1
        <5>1. k \in 1 .. Len(jobs[d])
          BY <1>5, <4>1, <4>3
        <5> QED
          BY <1>a, <1>4, <1>7, <1>8, <3>2, <5>1, LapGrew
      <4> QED
        BY <4>2, <4>3
    <3> QED
      BY <3>1, <3>2
  <2> QED
    BY <1>a, <1>6, <1>7, <2>2, LapGrew DEF TagInv, memory, parser
<1> QED
  BY <1>9, <1>10, <1>12, <1>13, <1>14, <1>15 DEF RingInv, TypeOK

-----------------------------------------------------------------------------
(* The devices, the parser and the extractor.                              *)

\* The copy a device is at.
LEMMA JobAtHand ==
  ASSUME DeviceTypeOK, TagInv, NEW d \in Dev, DeviceInv(d), done[d] < submitted[d]
  PROVE  /\ jobs[d][done[d] + 1] \in Packet
         /\ jobs[d][done[d] + 1].lap <= lap /\ jobs[d][done[d] + 1].slot \in Slot
<1>1. done[d] + 1 \in 1 .. Len(jobs[d])
  BY DeviceFacts DEF DeviceInv
<1>2. jobs[d][done[d] + 1] \in Packet
  BY <1>1, DeviceFacts
<1> QED
  BY <1>1, <1>2 DEF TagInv, Packet

LEMMA CopyHeadInv ==
  ASSUME RingInv, NEW d \in Dev, CopyHead(d)
  PROVE  RingInv'
<1>a. /\ CoreTypeOK /\ DeviceTypeOK /\ MemoryTypeOK /\ ReaderTypeOK
      /\ \A e \in Dev : DeviceInv(e)
      /\ BufsMatchJobs /\ CoreInv /\ TagInv
  BY DEF RingInv, TypeOK
<1>1. PICK p \in Packet : p = jobs[d][done[d] + 1]
  BY <1>a, JobAtHand DEF CopyHead
<1>2. p.lap <= lap /\ p.slot \in Slot /\ p # NoPacket
  BY <1>a, <1>1, JobAtHand, NoPacketAssumption DEF CopyHead
<1>3. /\ done[d] < submitted[d]
      /\ headPart' = [headPart EXCEPT ![p.slot] = p]
      /\ half' = [half EXCEPT ![d] = TRUE]
      /\ UNCHANGED <<rpc, asked, nb_dq, nb_rx, batch, i, dev_id, lap, ROUND>>
      /\ UNCHANGED <<bufs, front, rear, jobs, submitted, done>>
      /\ UNCHANGED <<write_index, already_write_index, pac_len, tailPart>>
      /\ UNCHANGED <<parser, extractor>>
  BY <1>1 DEF CopyHead, dump
<1>4. CoreTypeOK' /\ CoreInv'
  BY <1>a, <1>3 DEF CoreTypeOK, CoreInv
<1>5. DeviceTypeOK' /\ BufsMatchJobs'
  BY <1>a, <1>3 DEF DeviceTypeOK, BufsMatchJobs
<1>6. ASSUME NEW e \in Dev PROVE DeviceInv(e)'
  BY <1>a, <1>3 DEF DeviceInv, DeviceTypeOK
<1>7. MemoryTypeOK' /\ ReaderTypeOK'
  BY <1>a, <1>2, <1>3 DEF MemoryTypeOK, ReaderTypeOK, parser, extractor
<1>8. TagInv'
  <2>1. ASSUME NEW t \in Slot, headPart'[t] # NoPacket
        PROVE  headPart'[t].slot = t /\ headPart'[t].lap <= lap
    BY <1>a, <1>2, <1>3, <2>1 DEF TagInv, MemoryTypeOK
  <2> QED
    BY <1>a, <1>3, <2>1 DEF TagInv, parser
<1> QED
  BY <1>4, <1>5, <1>6, <1>7, <1>8 DEF RingInv, TypeOK

LEMMA CopyTailInv ==
  ASSUME RingInv, NEW d \in Dev, CopyTail(d)
  PROVE  RingInv'
<1>a. /\ CoreTypeOK /\ DeviceTypeOK /\ MemoryTypeOK /\ ReaderTypeOK
      /\ \A e \in Dev : DeviceInv(e)
      /\ BufsMatchJobs /\ CoreInv /\ TagInv
  BY DEF RingInv, TypeOK
<1>1. done[d] < submitted[d]
  BY <1>a DEF CopyTail, DeviceInv
<1>2. PICK p \in Packet : p = jobs[d][done[d] + 1]
  BY <1>a, <1>1, JobAtHand
<1>3. /\ tailPart' = [tailPart EXCEPT ![p.slot] = p]
      /\ half' = [half EXCEPT ![d] = FALSE]
      /\ done' = [done EXCEPT ![d] = done[d] + 1]
      /\ UNCHANGED <<rpc, asked, nb_dq, nb_rx, batch, i, dev_id, lap, ROUND>>
      /\ UNCHANGED <<bufs, front, rear, jobs, submitted>>
      /\ UNCHANGED <<write_index, already_write_index, pac_len, headPart>>
      /\ UNCHANGED <<parser, extractor>>
  BY <1>a, <1>2 DEF CopyTail, dump, DeviceTypeOK
<1>4. CoreTypeOK' /\ CoreInv'
  BY <1>a, <1>3 DEF CoreTypeOK, CoreInv
<1>5. done[d] \in Nat /\ submitted[d] \in Nat
  BY <1>a, DeviceFacts
<1>6. DeviceTypeOK' /\ BufsMatchJobs'
  BY <1>a, <1>3, <1>5 DEF DeviceTypeOK, BufsMatchJobs
<1>7. ASSUME NEW e \in Dev PROVE DeviceInv(e)'
  BY <1>a, <1>1, <1>3, <1>5 DEF DeviceInv, DeviceTypeOK
<1>8. MemoryTypeOK' /\ ReaderTypeOK'
  <2>1. tailPart' \in [Slot -> Packet \cup {NoPacket}]
    BY <1>a, <1>3 DEF MemoryTypeOK
  <2> QED
    BY <1>a, <1>3, <2>1 DEF MemoryTypeOK, ReaderTypeOK, parser, extractor
<1>9. TagInv'
  BY <1>a, <1>3 DEF TagInv, parser
<1> QED
  BY <1>4, <1>6, <1>7, <1>8, <1>9 DEF RingInv, TypeOK

LEMMA ParserInv ==
  ASSUME RingInv, Parser
  PROVE  RingInv'
<1>a. /\ CoreTypeOK /\ DeviceTypeOK /\ MemoryTypeOK /\ ReaderTypeOK
      /\ \A e \in Dev : DeviceInv(e)
      /\ BufsMatchJobs /\ CoreInv /\ TagInv
  BY DEF RingInv, TypeOK
<1>1. /\ UNCHANGED <<dump, dma, memory, extractor>>
  BY DEF Parser, SeePacket, ReadPacket, WriteMeta
<1>2. CoreTypeOK' /\ CoreInv'
  BY <1>a, <1>1 DEF CoreTypeOK, CoreInv, dump, dma
<1>3. DeviceTypeOK' /\ (\A d \in Dev : DeviceInv(d))' /\ BufsMatchJobs'
  BY <1>a, <1>1, DevicesKept DEF dump, dma
<1>4. /\ read_index' \in Slot /\ meta' \in [Slot -> Packet \cup {NoPacket}]
      /\ round_num' \in Nat /\ round_num' > 0
      /\ dest' \in Packet \cup {NoPacket} /\ ppc' \in {"check", "spin", "write"}
  <2>1. CASE SeePacket
    BY <1>a, <2>1 DEF SeePacket, MemoryTypeOK, ReaderTypeOK, TagInv
  <2>2. CASE ReadPacket
    BY <1>a, <2>2 DEF ReadPacket, MemoryTypeOK, ReaderTypeOK, TagInv
  <2>3. CASE WriteMeta
    <3>1. After(read_index) \in Slot
      BY <1>a, AfterInRing DEF MemoryTypeOK
    <3>2. RoundAfter(read_index) \in Nat /\ RoundAfter(read_index) > 0
      BY <1>a DEF RoundAfter, ReaderTypeOK, TagInv
    <3> QED
      BY <1>a, <2>3, <3>1, <3>2 DEF WriteMeta, MemoryTypeOK, ReaderTypeOK
  <2> QED
    BY <2>1, <2>2, <2>3 DEF Parser
<1>5. MemoryTypeOK' /\ ReaderTypeOK'
  BY <1>a, <1>1, <1>4 DEF MemoryTypeOK, ReaderTypeOK, dump, memory, extractor
<1>6. TagInv'
  BY <1>a, <1>1, <1>4 DEF TagInv, dump, dma, memory
<1> QED
  BY <1>2, <1>3, <1>5, <1>6 DEF RingInv, TypeOK

LEMMA ExtractInv ==
  ASSUME RingInv, Extract \/ UNCHANGED vars
  PROVE  RingInv'
<1>a. /\ CoreTypeOK /\ DeviceTypeOK /\ MemoryTypeOK /\ ReaderTypeOK
      /\ \A e \in Dev : DeviceInv(e)
      /\ BufsMatchJobs /\ CoreInv /\ TagInv
  BY DEF RingInv, TypeOK
<1>1. UNCHANGED <<dump, dma, memory, parser>>
  BY DEF Extract, vars
<1>2. CoreTypeOK' /\ CoreInv'
  BY <1>a, <1>1 DEF CoreTypeOK, CoreInv, dump, dma
<1>3. DeviceTypeOK' /\ (\A d \in Dev : DeviceInv(d))' /\ BufsMatchJobs'
  BY <1>a, <1>1, DevicesKept DEF dump, dma
<1>4. extractor_read_index' \in Slot /\ xlap' \in Nat
  BY <1>a, AfterInRing DEF Extract, vars, extractor, MemoryTypeOK, ReaderTypeOK
<1>5. MemoryTypeOK' /\ ReaderTypeOK'
  BY <1>a, <1>1, <1>4 DEF MemoryTypeOK, ReaderTypeOK, dump, memory, parser
<1>6. TagInv'
  BY <1>a, <1>1 DEF TagInv, dump, dma, memory, parser
<1> QED
  BY <1>2, <1>3, <1>5, <1>6 DEF RingInv, TypeOK

-----------------------------------------------------------------------------
(* Packets are received in the order of their positions: numbers with the  *)
(* lap and the slot for digits.                                            *)

\* The next slot is at the next position.
LEMMA NextPosition ==
  ASSUME NEW s \in Slot, NEW l \in Nat
  PROVE  /\ After(s) = IF s + 1 >= BUFFER_SIZE THEN 0 ELSE s + 1
         /\ (IF s + 1 >= BUFFER_SIZE THEN l + 1 ELSE l) * BUFFER_SIZE + After(s)
              = l * BUFFER_SIZE + s + 1
<1>1. s \in 0 .. BUFFER_SIZE - 1 /\ BUFFER_SIZE \in Nat \ {0}
  BY Constants DEF Slot
<1>2. After(s) = IF s + 1 >= BUFFER_SIZE THEN 0 ELSE s + 1
  <2>1. CASE s + 1 < BUFFER_SIZE
    <3>1. (s + 1) % BUFFER_SIZE = s + 1
      BY <1>1, <2>1
    <3> QED
      BY <1>1, <2>1, <3>1 DEF After
  <2>2. CASE ~(s + 1 < BUFFER_SIZE)
    <3>1. s + 1 = BUFFER_SIZE
      BY <1>1, <2>2
    <3>2. BUFFER_SIZE % BUFFER_SIZE = 0
      BY <1>1, ModOnce
    <3> QED
      BY <1>1, <3>1, <3>2 DEF After
  <2> QED
    BY <2>1, <2>2
<1>3. (l + 1) * BUFFER_SIZE = l * BUFFER_SIZE + BUFFER_SIZE
  BY <1>1, ProductNext
<1>4. PICK u \in Nat : u = l * BUFFER_SIZE
  BY <1>1, ProductNat
<1>5. CASE s + 1 >= BUFFER_SIZE
  BY <1>1, <1>2, <1>3, <1>4, <1>5
<1>6. CASE ~(s + 1 >= BUFFER_SIZE)
  BY <1>1, <1>2, <1>4, <1>6
<1> QED
  BY <1>2, <1>5, <1>6

\* Laps compare as positions do.
LEMMA LapsCompare ==
  ASSUME NEW k \in Nat, NEW l \in Nat
  PROVE  /\ k * BUFFER_SIZE \in Nat /\ l * BUFFER_SIZE \in Nat
         /\ k < l => k * BUFFER_SIZE + BUFFER_SIZE <= l * BUFFER_SIZE
         /\ l < k => l * BUFFER_SIZE + BUFFER_SIZE <= k * BUFFER_SIZE
<1>1. BUFFER_SIZE \in Nat \ {0}
  BY Constants
<1>2. k * BUFFER_SIZE \in Nat /\ l * BUFFER_SIZE \in Nat
  BY <1>1, ProductNat
<1>3. /\ (k + 1) * BUFFER_SIZE = k * BUFFER_SIZE + BUFFER_SIZE
      /\ (l + 1) * BUFFER_SIZE = l * BUFFER_SIZE + BUFFER_SIZE
  BY <1>1, ProductNext
<1>4. /\ k < l => (k + 1) * BUFFER_SIZE <= l * BUFFER_SIZE
      /\ l < k => (l + 1) * BUFFER_SIZE <= k * BUFFER_SIZE
  BY <1>1, ProductMonotonic
<1> QED
  BY <1>2, <1>3, <1>4

LEMMA PositionType ==
  ASSUME NEW p \in Packet
  PROVE  p.lap \in Nat /\ p.slot \in Slot /\ Position(p) \in Nat
<1>1. p.lap \in Nat /\ p.slot \in Slot
  BY DEF Packet
<1>2. p.lap * BUFFER_SIZE \in Nat /\ p.slot \in Nat
  BY <1>1, LapsCompare DEF Slot
<1> QED
  BY <1>1, <1>2 DEF Position

\* Packets of one slot in the order of their laps.
LEMMA LaterLap ==
  ASSUME NEW p \in Packet, NEW q \in Packet, p.slot = q.slot
  PROVE  Position(p) < Position(q) => p.lap < q.lap
<1>1. /\ p.lap \in Nat /\ q.lap \in Nat /\ p.slot \in Slot
      /\ q.lap < p.lap => q.lap * BUFFER_SIZE + BUFFER_SIZE <= p.lap * BUFFER_SIZE
      /\ p.lap * BUFFER_SIZE \in Nat /\ q.lap * BUFFER_SIZE \in Nat
  BY PositionType, LapsCompare
<1>2. p.slot \in Nat /\ BUFFER_SIZE \in Nat \ {0}
  BY <1>1, Constants DEF Slot
<1>3. q.lap < p.lap => Position(q) <= Position(p)
  BY <1>1, <1>2 DEF Position
<1>4. q.lap = p.lap => Position(q) = Position(p)
  BY DEF Position
<1>5. Position(p) \in Nat /\ Position(q) \in Nat
  BY PositionType
<1> QED
  BY <1>1, <1>3, <1>4, <1>5

\* A position has one lap and one slot.
LEMMA PositionUnique ==
  ASSUME NEW p \in Packet, NEW s \in Slot, NEW l \in Nat,
         l * BUFFER_SIZE + s = Position(p)
  PROVE  p = [lap |-> l, slot |-> s]
<1>1. p.lap \in Nat /\ p.slot \in Slot
  BY PositionType
<1>2. /\ s \in 0 .. BUFFER_SIZE - 1 /\ p.slot \in 0 .. BUFFER_SIZE - 1
      /\ BUFFER_SIZE \in Nat \ {0}
  BY <1>1, Constants DEF Slot
<1>3. s = p.slot
  <2>1. (l * BUFFER_SIZE + s) % BUFFER_SIZE = s
    BY <1>2, ModUnique
  <2>2. (p.lap * BUFFER_SIZE + p.slot) % BUFFER_SIZE = p.slot
    BY <1>1, <1>2, ModUnique
  <2> QED
    BY <2>1, <2>2 DEF Position
<1>4. l = p.lap
  <2>1. /\ l < p.lap => l * BUFFER_SIZE + BUFFER_SIZE <= p.lap * BUFFER_SIZE
        /\ p.lap < l => p.lap * BUFFER_SIZE + BUFFER_SIZE <= l * BUFFER_SIZE
        /\ l * BUFFER_SIZE \in Nat /\ p.lap * BUFFER_SIZE \in Nat
    BY <1>1, LapsCompare
  <2>2. PICK u \in Nat, v \in Nat : u = l * BUFFER_SIZE /\ v = p.lap * BUFFER_SIZE
    BY <2>1
  <2>3. u + s = v + s
    BY <1>3, <2>2 DEF Position
  <2>4. u = v
    BY <1>2, <2>3
  <2> QED
    BY <1>1, <1>2, <2>1, <2>2, <2>4
<1> QED
  BY <1>3, <1>4 DEF Packet

\* A packet of the slot, of this lap or later, and of no later one.
LEMMA SlotHolds ==
  ASSUME NEW p \in Packet, NEW s \in Slot, NEW l \in Nat, p.slot = s
  PROVE  /\ p.lap >= l => l * BUFFER_SIZE + s <= Position(p)
         /\ p.lap > l => (l * BUFFER_SIZE + s) + BUFFER_SIZE <= Position(p)
         /\ p.lap = l => p = [lap |-> l, slot |-> s]
         /\ l * BUFFER_SIZE + s < Position(p) => p.lap > l
<1>1. p.lap \in Nat /\ s \in Nat /\ BUFFER_SIZE \in Nat \ {0}
  BY PositionType, Constants DEF Slot
<1>2. /\ l < p.lap => l * BUFFER_SIZE + BUFFER_SIZE <= p.lap * BUFFER_SIZE
      /\ p.lap < l => p.lap * BUFFER_SIZE + BUFFER_SIZE <= l * BUFFER_SIZE
      /\ l * BUFFER_SIZE \in Nat /\ p.lap * BUFFER_SIZE \in Nat
  BY <1>1, LapsCompare
<1>3. PICK u \in Nat, v \in Nat : u = l * BUFFER_SIZE /\ v = p.lap * BUFFER_SIZE
  BY <1>2
<1>4. l = p.lap => u = v
  BY <1>3
<1>5. Position(p) = v + s
  BY <1>3 DEF Position
<1>6. p.lap > l => (u + s) + BUFFER_SIZE <= v + s
  BY <1>1, <1>2, <1>3
<1>7. p.lap >= l => u + s <= v + s
  BY <1>1, <1>4, <1>6
<1>8. u + s < v + s => p.lap > l
  BY <1>1, <1>2, <1>3, <1>4
<1>9. p.lap = l => p = [lap |-> l, slot |-> s]
  BY DEF Packet
<1> QED
  BY <1>3, <1>5, <1>6, <1>7, <1>8, <1>9

\* Indexes that differ stand for numbers that do.
LEMMA IndexesDiffer ==
  ASSUME NEW k \in Nat, NEW l \in Nat, NEW s \in Slot, NEW t \in Slot, s # t
  PROVE  k * BUFFER_SIZE + s # l * BUFFER_SIZE + t
<1>1. (k * BUFFER_SIZE + s) % BUFFER_SIZE = s
  BY Constants, ModUnique DEF Slot
<1>2. (l * BUFFER_SIZE + t) % BUFFER_SIZE = t
  BY Constants, ModUnique DEF Slot
<1> QED
  BY <1>1, <1>2

\* A slot is taken: its packet is the next one received.
LEMMA NextReceived ==
  ASSUME RingInv, TakeSlot
  PROVE  /\ Received' = Received + 1
         /\ [lap |-> lap, slot |-> write_index] \in Packet
         /\ Position([lap |-> lap, slot |-> write_index]) = Received
<1>1. lap \in Nat /\ write_index \in Slot
  BY DEF RingInv, TypeOK, CoreTypeOK, MemoryTypeOK
<1>2. [lap |-> lap, slot |-> write_index] \in Packet
  BY <1>1 DEF Packet
<1>3. Position([lap |-> lap, slot |-> write_index]) = Received
  BY DEF Position, Received
<1>4. (IF write_index + 1 >= BUFFER_SIZE THEN lap + 1 ELSE lap) * BUFFER_SIZE
        + After(write_index) = lap * BUFFER_SIZE + write_index + 1
  BY <1>1, NextPosition
<1>5. Received' = Received + 1
  BY <1>4 DEF TakeSlot, Received
<1> QED
  BY <1>2, <1>3, <1>5

-----------------------------------------------------------------------------
(* The lengths, if the traffic leaves the readers time.                    *)

\* How many packets the parser is through with, by its round_num.
Read == (round_num - 1) * BUFFER_SIZE + read_index

\* Packets of the burst that have no slot yet.
Owed == IF rpc = "enqueue" \/ (rpc = "submit" /\ i = batch) THEN nb_rx - i ELSE 0

\* Memory and devices hold packets that were received, and pac_len the latest
\* of every slot.
ReceivedInv ==
  /\ \A d \in Dev : \A k \in 1 .. Len(jobs[d]) : Position(jobs[d][k]) < Received
  /\ \A s \in Slot : headPart[s] # NoPacket => Position(headPart[s]) < Received
  /\ \A s \in Slot : pac_len[s] # NoPacket =>
       pac_len[s].slot = s /\ Position(pac_len[s]) < Received
  /\ \A s \in Slot, l \in Nat : l * BUFFER_SIZE + s < Received =>
       pac_len[s] # NoPacket /\ pac_len[s].lap >= l

\* The readers follow, and leave the traffic room if it leaves them time.
FollowInv ==
  /\ Extracted <= Read /\ Read <= Received
  /\ ppc = "write" => Read < Received
  /\ KeepUp => Received + Owed - Extracted <= BUFFER_SIZE - 1

LEMMA RingCounters ==
  ASSUME RingInv
  PROVE  /\ Received \in Nat /\ Extracted \in Nat /\ Read \in Nat
         /\ lap \in Nat /\ write_index \in Slot /\ xlap \in Nat
         /\ extractor_read_index \in Slot /\ read_index \in Slot
         /\ round_num \in Nat \ {0} /\ round_num - 1 \in Nat
<1>1. /\ lap \in Nat /\ write_index \in Slot /\ xlap \in Nat
      /\ extractor_read_index \in Slot /\ read_index \in Slot
      /\ round_num \in Nat /\ round_num > 0
  BY DEF RingInv, TypeOK, CoreTypeOK, MemoryTypeOK, ReaderTypeOK, TagInv
<1>2. round_num - 1 \in Nat
  BY <1>1
<1>3. /\ \A l \in Nat : l * BUFFER_SIZE \in Nat
      /\ \A s \in Slot : s \in Nat
  BY LapsCompare DEF Slot
<1> QED
  BY <1>1, <1>2, <1>3 DEF Received, Extracted, Read

\* The length goes to the slot of the packet, over that of an earlier one.
LEMMA TakeReceived ==
  ASSUME RingInv, ReceivedInv, TakeSlot,
         NEW p \in Packet, p = [lap |-> lap, slot |-> write_index]
  PROVE  /\ \A s \in Slot : pac_len'[s] # NoPacket =>
              pac_len'[s].slot = s /\ Position(pac_len'[s]) < Received + 1
         /\ \A s \in Slot, l \in Nat : l * BUFFER_SIZE + s < Received + 1 =>
              pac_len'[s] # NoPacket /\ pac_len'[s].lap >= l
<1>1. /\ Received \in Nat /\ write_index \in Slot /\ lap \in Nat
      /\ pac_len \in [Slot -> Packet \cup {NoPacket}]
  BY RingCounters DEF RingInv, TypeOK, MemoryTypeOK
<1>2. Position(p) = Received /\ p # NoPacket /\ p.slot = write_index /\ p.lap = lap
  BY NextReceived, NoPacketAssumption
<1>3. \A s \in Slot : pac_len'[s] = IF s = write_index THEN p ELSE pac_len[s]
  BY <1>1 DEF TakeSlot
<1>4. ASSUME NEW s \in Slot, pac_len'[s] # NoPacket
      PROVE  pac_len'[s].slot = s /\ Position(pac_len'[s]) < Received + 1
  <2>1. CASE s = write_index
    BY <1>1, <1>2, <1>3, <2>1
  <2>2. CASE s # write_index
    <3>1. pac_len'[s] = pac_len[s] /\ pac_len[s] \in Packet
      BY <1>1, <1>3, <1>4, <2>2
    <3>2. Position(pac_len[s]) \in Nat /\ pac_len[s].slot = s
          /\ Position(pac_len[s]) < Received
      BY <1>4, <3>1, PositionType DEF ReceivedInv
    <3> QED
      BY <1>1, <3>1, <3>2
  <2> QED
    BY <2>1, <2>2
<1>5. ASSUME NEW s \in Slot, NEW l \in Nat, l * BUFFER_SIZE + s < Received + 1
      PROVE  pac_len'[s] # NoPacket /\ pac_len'[s].lap >= l
  <2>1. PICK x \in Nat : x = l * BUFFER_SIZE + s
    BY LapsCompare DEF Slot
  <2>2. CASE x < Received
    <3>1. pac_len[s] # NoPacket /\ pac_len[s].lap >= l
      BY <2>1, <2>2 DEF ReceivedInv
    <3>2. CASE s # write_index
      BY <1>3, <3>1, <3>2
    <3>3. CASE s = write_index
      <4>1. pac_len[s] \in Packet /\ pac_len[s].slot = s
            /\ Position(pac_len[s]) < Position(p)
        BY <1>1, <1>2, <3>1 DEF ReceivedInv
      <4>2. pac_len[s].lap < p.lap
        BY <1>2, <3>3, <4>1, LaterLap
      <4>3. pac_len[s].lap \in Nat /\ p.lap \in Nat
        BY <4>1, PositionType
      <4> QED
        BY <1>2, <1>3, <3>1, <3>3, <4>2, <4>3
    <3> QED
      BY <3>2, <3>3
  <2>3. CASE x = Received
    <3>1. p = [lap |-> l, slot |-> s]
      BY <1>2, <2>1, <2>3, PositionUnique
    <3>2. s = write_index /\ l = p.lap
      BY <1>2, <3>1
    <3> QED
      BY <1>2, <1>3, <3>2
  <2> QED
    BY <1>1, <1>5, <2>1, <2>2, <2>3
<1> QED
  BY <1>4, <1>5

LEMMA ReceivedStep ==
  ASSUME RingInv, ReceivedInv, [Next]_vars
  PROVE  ReceivedInv'
<1>a. /\ \A d \in Dev : \A k \in 1 .. Len(jobs[d]) :
           Position(jobs[d][k]) < Received /\ Position(jobs[d][k]) \in Nat
      /\ \A s \in Slot : headPart[s] # NoPacket =>
           Position(headPart[s]) < Received /\ Position(headPart[s]) \in Nat
  <2>1. \A d \in Dev : \A k \in 1 .. Len(jobs[d]) : jobs[d][k] \in Packet
    BY DeviceFacts DEF RingInv, TypeOK
  <2>2. \A s \in Slot : headPart[s] # NoPacket => headPart[s] \in Packet
    BY DEF RingInv, TypeOK, MemoryTypeOK
  <2> QED
    BY <2>1, <2>2, PositionType DEF ReceivedInv
<1>b. Received \in Nat
  BY RingCounters
<1>1. CASE Accept \/ Refuse
  <2>1. TakeSlot /\ headPart' = headPart
    BY <1>1 DEF Accept, Refuse, memory
  <2>2. PICK p \in Packet : p = [lap |-> lap, slot |-> write_index]
    BY <2>1, NextReceived
  <2>3. Received' = Received + 1 /\ Position(p) = Received
    BY <2>1, <2>2, NextReceived
  <2>4. ASSUME NEW d \in Dev, NEW k \in 1 .. Len(jobs'[d])
        PROVE  Position(jobs'[d][k]) < Received + 1
    <3>1. jobs'[d] = jobs[d] \/ jobs'[d] = Append(jobs[d], p)
      BY <1>1, <2>2 DEF Accept, Refuse, dma, RingInv, TypeOK, CoreTypeOK,
                        DeviceTypeOK
    <3>2. PICK j \in Seq(Packet) : j = jobs[d]
      BY DeviceFacts DEF RingInv, TypeOK
    <3>3. CASE jobs'[d] = jobs[d]
      BY <1>a, <1>b, <3>3
    <3>4. CASE jobs'[d] = Append(j, p)
      <4>1. /\ Len(Append(j, p)) = Len(j) + 1 /\ Len(j) \in Nat
            /\ \A n \in 1 .. Len(j) : Append(j, p)[n] = j[n]
            /\ Append(j, p)[Len(j) + 1] = p
        BY AppendProperties, LenProperties
      <4>2. CASE k = Len(j) + 1
        BY <1>b, <2>3, <3>4, <4>1, <4>2
      <4>3. CASE k \in 1 .. Len(j)
        <5>1. jobs'[d][k] = jobs[d][k]
          BY <3>2, <3>4, <4>1, <4>3
        <5>2. Position(jobs[d][k]) < Received /\ Position(jobs[d][k]) \in Nat
          BY <1>a, <3>2, <4>3
        <5> QED
          BY <1>b, <5>1, <5>2
      <4> QED
        BY <3>4, <4>1, <4>2, <4>3
    <3> QED
      BY <3>1, <3>2, <3>3, <3>4
  <2>5. /\ \A s \in Slot : pac_len'[s] # NoPacket =>
             pac_len'[s].slot = s /\ Position(pac_len'[s]) < Received + 1
        /\ \A s \in Slot, l \in Nat : l * BUFFER_SIZE + s < Received + 1 =>
             pac_len'[s] # NoPacket /\ pac_len'[s].lap >= l
    BY <2>1, <2>2, TakeReceived
  <2>6. \A s \in Slot : headPart[s] # NoPacket => Position(headPart[s]) < Received + 1
    BY <1>a, <1>b
  <2> QED
    BY <2>1, <2>3, <2>4, <2>5, <2>6 DEF ReceivedInv, Position
<1>2. CASE Dequeue
  <2>1. /\ UNCHANGED <<headPart, pac_len>> /\ Received' = Received
    BY <1>2 DEF Dequeue, memory, Received
  <2>2. ASSUME NEW d \in Dev, NEW k \in 1 .. Len(jobs'[d])
        PROVE  Position(jobs'[d][k]) < Received
    <3>1. DeviceTypeOK /\ DeviceInv(d)
      BY DEF RingInv, TypeOK
    <3>2. PICK n \in Nat : n = Completed(d) /\ n <= done[d]
      BY <3>1, CompletedFacts
    <3>3. n <= Len(jobs[d])
      BY <3>1, <3>2, DeviceFacts DEF DeviceInv
    <3>4. PICK rest : rest = SubSeq(jobs[d], n + 1, Len(jobs[d]))
      OBVIOUS
    <3>5. \A j \in 1 .. Len(rest) :
            n + j \in 1 .. Len(jobs[d]) /\ rest[j] = jobs[d][n + j]
      BY <3>1, <3>3, <3>4, DropFirst
    <3>6. jobs'[d] = jobs[d] \/ jobs'[d] = rest
      BY <1>2, <3>1, <3>2, <3>4 DEF Dequeue, DeviceTypeOK
    <3> QED
      BY <1>a, <2>2, <3>5, <3>6
  <2> QED
    BY <2>1, <2>2 DEF ReceivedInv, Position
<1>3. ASSUME NEW d \in Dev, CopyHead(d)
      PROVE  ReceivedInv'
  <2>1. UNCHANGED <<jobs, pac_len>> /\ Received' = Received
    BY <1>3 DEF CopyHead, dump, Received
  <2>2. PICK p \in Packet : p = jobs[d][done[d] + 1] /\ Position(p) < Received
                           /\ p.slot \in Slot
    <3>1. done[d] + 1 \in 1 .. Len(jobs[d])
      BY <1>3, DeviceFacts DEF CopyHead, RingInv, TypeOK, DeviceInv
    <3> QED
      BY <1>3, <1>a, <3>1, JobAtHand DEF CopyHead, RingInv, TypeOK
  <2>3. headPart' = [headPart EXCEPT ![p.slot] = p]
    BY <1>3, <2>2 DEF CopyHead
  <2>4. \A s \in Slot : headPart'[s] # NoPacket => Position(headPart'[s]) < Received
    BY <1>a, <2>2, <2>3 DEF RingInv, TypeOK, MemoryTypeOK
  <2> QED
    BY <1>a, <2>1, <2>4 DEF ReceivedInv, Position
<1>4. CASE \/ Announce \/ EmptyBurst \/ Burst \/ Submit \/ Parser \/ Extract
           \/ (\E d \in Dev : CopyTail(d)) \/ UNCHANGED vars
  <2>1. UNCHANGED <<jobs, headPart, pac_len, lap, write_index>>
    BY <1>4 DEF Announce, EmptyBurst, Burst, Submit, Parser, SeePacket,
       ReadPacket, WriteMeta, Extract, CopyTail, vars, dump, dma, memory
  <2> QED
    BY <2>1 DEF ReceivedInv, Position, Received
<1> QED
  BY <1>1, <1>2, <1>3, <1>4 DEF Next, RxCore

\* Until the tag byte comes around, the tag names the lap of the packet.
LEMMA TagStep ==
  ASSUME RingInv, lap + 1 < TagValues, ReadPacket
  PROVE  headPart[read_index] = [lap |-> round_num - 1, slot |-> read_index]
<1>1. PICK p : p = headPart[read_index]
  OBVIOUS
<1>2. /\ read_index \in Slot /\ p \in Packet \cup {NoPacket}
      /\ round_num \in Nat /\ round_num > 0 /\ lap \in Nat
  BY <1>1
  DEF RingInv, TypeOK, CoreTypeOK, MemoryTypeOK, ReaderTypeOK, TagInv
<1>3. Tag(p) = round_num
  BY <1>1 DEF ReadPacket, is_current_round
<1>4. p # NoPacket /\ p \in Packet
  BY <1>2, <1>3 DEF Tag
<1>5. p.slot = read_index /\ p.lap \in Nat /\ p.lap <= lap
  BY <1>1, <1>2, <1>4 DEF RingInv, TagInv, Packet
<1>6. Tag(p) = p.lap + 1
  <2>1. p.lap + 1 \in 0 .. TagValues - 1
    BY <1>2, <1>5, Constants
  <2>2. (p.lap + 1) % TagValues = p.lap + 1
    BY <2>1, Constants
  <2> QED
    BY <1>4, <2>2 DEF Tag
<1>7. p.lap = round_num - 1
  BY <1>2, <1>3, <1>5, <1>6
<1> QED
  BY <1>1, <1>4, <1>5, <1>7 DEF Packet

\* What the steps of the readers do to the numbers.
LEMMA ReadNext ==
  ASSUME RingInv, WriteMeta
  PROVE  Read' = Read + 1
<1>1. /\ read_index \in Slot /\ round_num \in Nat \ {0} /\ round_num - 1 \in Nat
  BY RingCounters
<1>2. (IF read_index + 1 >= BUFFER_SIZE THEN (round_num - 1) + 1
       ELSE round_num - 1) * BUFFER_SIZE + After(read_index)
        = (round_num - 1) * BUFFER_SIZE + read_index + 1
  BY <1>1, NextPosition
<1>3. round_num' - 1 = IF read_index + 1 >= BUFFER_SIZE
                       THEN (round_num - 1) + 1 ELSE round_num - 1
  BY <1>1 DEF WriteMeta, RoundAfter
<1>4. read_index' = After(read_index)
  BY DEF WriteMeta
<1> QED
  BY <1>2, <1>3, <1>4 DEF Read

LEMMA ExtractedStep ==
  ASSUME RingInv, Extract
  PROVE  Extracted' = Extracted + 1 /\ Extracted # Read
<1>1. /\ extractor_read_index \in Slot /\ xlap \in Nat /\ read_index \in Slot
      /\ round_num - 1 \in Nat
  BY RingCounters
<1>2. (IF extractor_read_index + 1 >= BUFFER_SIZE THEN xlap + 1 ELSE xlap)
        * BUFFER_SIZE + After(extractor_read_index)
        = xlap * BUFFER_SIZE + extractor_read_index + 1
  BY <1>1, NextPosition
<1>3. Extracted' = Extracted + 1
  BY <1>2 DEF Extract, Extracted
<1>4. Extracted # Read
  BY <1>1, IndexesDiffer DEF Extract, Extracted, Read
<1> QED
  BY <1>3, <1>4

\* The traffic: every packet of a burst was promised room.
LEMMA RoomStep ==
  ASSUME RingInv, KeepUp, Received + Owed - Extracted <= BUFFER_SIZE - 1,
         RxCore \/ Burst
  PROVE  (Received + Owed - Extracted <= BUFFER_SIZE - 1)'
<1>1. /\ Received \in Nat /\ Extracted \in Nat /\ BUFFER_SIZE \in Nat \ {0}
      /\ nb_rx \in Nat /\ batch \in Nat /\ i \in Nat /\ i <= batch
      /\ dma_batch_sz \in Nat \ {0} /\ MAX_PKT_BURST \in Nat \ {0}
  BY RingCounters, Constants DEF RingInv, TypeOK, CoreTypeOK
<1>2. batch <= nb_rx /\ (rpc = "enqueue" => i < batch)
  BY DEF RingInv, CoreInv
<1>3. Extracted' = Extracted
  BY DEF RxCore, Dequeue, Announce, EmptyBurst, Burst, Accept, Refuse, Submit,
         extractor, Extracted
<1>4. CASE Dequeue \/ Announce \/ EmptyBurst
  <2>1. Received' = Received /\ rpc # "enqueue" /\ rpc # "submit"
        /\ rpc' # "enqueue" /\ rpc' # "submit"
    BY <1>4 DEF Dequeue, Announce, EmptyBurst, Received
  <2> QED
    BY <1>3, <2>1 DEF Owed
<1>5. CASE Burst
  <2>1. PICK n \in 1 .. MAX_PKT_BURST : RoomFor(n) /\ StartBatch(n)
    BY <1>5 DEF Burst
  <2>2. Received' = Received /\ nb_rx' = n /\ i' = 0
    BY <1>5, <2>1 DEF Burst, StartBatch, Received
  <2>3. Owed' = n
    BY <1>5, <2>1, <2>2 DEF Burst, Owed
  <2>4. Received + n - Extracted <= BUFFER_SIZE - 1
    BY <2>1 DEF RoomFor
  <2> QED
    BY <1>3, <2>2, <2>3, <2>4
<1>6. CASE Accept
  <2>1. Received' = Received + 1 /\ rpc = "enqueue" /\ i' = i + 1
        /\ UNCHANGED <<nb_rx, batch>>
        /\ rpc' = IF i + 1 = batch THEN "submit" ELSE "enqueue"
    BY <1>6, NextReceived DEF Accept
  <2>2. Owed = nb_rx - i
    BY <2>1 DEF Owed
  <2>3. Owed' = nb_rx - (i + 1)
    BY <2>1 DEF Owed
  <2> QED
    BY <1>1, <1>3, <2>1, <2>2, <2>3
<1>7. CASE Refuse
  <2>1. Received' = Received + 1 /\ rpc = "enqueue" /\ rpc' = "submit"
        /\ UNCHANGED <<nb_rx, batch, i>>
    BY <1>7, NextReceived DEF Refuse
  <2>2. Owed = nb_rx - i /\ i < batch /\ i < nb_rx
    BY <1>1, <1>2, <2>1 DEF Owed
  <2>3. Owed' = 0
    BY <1>1, <2>1, <2>2 DEF Owed
  <2> QED
    BY <1>1, <1>3, <2>1, <2>2, <2>3
<1>8. CASE Submit
  <2>1. Received' = Received /\ rpc = "submit"
    BY <1>8 DEF Submit, Received
  <2>2. CASE i = batch /\ nb_rx > batch
    <3>1. nb_rx' = nb_rx - batch /\ i' = 0 /\ rpc' = "enqueue"
      BY <1>8, <2>2 DEF Submit, StartBatch
    <3>2. Owed' = nb_rx - batch
      BY <1>1, <3>1 DEF Owed
    <3>3. Owed = nb_rx - batch
      BY <2>1, <2>2 DEF Owed
    <3> QED
      BY <1>3, <2>1, <3>2, <3>3
  <2>3. CASE ~(i = batch /\ nb_rx > batch)
    <3>1. rpc' = "dequeue_again"
      BY <1>8, <2>3 DEF Submit
    <3>2. Owed' = 0 /\ Owed \in Nat
      BY <1>1, <1>2, <2>1, <3>1 DEF Owed
    <3> QED
      BY <1>1, <1>3, <2>1, <3>2
  <2> QED
    BY <2>2, <2>3
<1> QED
  BY <1>4, <1>5, <1>6, <1>7, <1>8 DEF RxCore

LEMMA FollowStep ==
  ASSUME RingInv, ReceivedInv, FollowInv, lap + 1 < TagValues, [Next]_vars
  PROVE  FollowInv'
<1>1. /\ Received \in Nat /\ Extracted \in Nat /\ Read \in Nat
      /\ BUFFER_SIZE \in Nat \ {0}
  BY RingCounters, Constants
<1>2. /\ Extracted <= Read /\ Read <= Received
      /\ ppc = "write" => Read < Received
      /\ KeepUp => Received + Owed - Extracted <= BUFFER_SIZE - 1
  BY DEF FollowInv
<1>3. CASE RxCore \/ Burst
  <2>1. UNCHANGED <<parser, extractor>>
    BY <1>3 DEF RxCore, Dequeue, Announce, EmptyBurst, Burst, Accept, Refuse,
                Submit
  <2>2. Read' = Read /\ Extracted' = Extracted /\ ppc' = ppc
    BY <2>1 DEF Read, Extracted, parser, extractor
  <2>3. Received' = Received \/ Received' = Received + 1
    BY <1>3, NextReceived DEF RxCore, Dequeue, Announce, EmptyBurst, Burst,
       Accept, Refuse, Submit, Received
  <2>4. KeepUp => (Received + Owed - Extracted <= BUFFER_SIZE - 1)'
    BY <1>2, <1>3, RoomStep
  <2>5. Read <= Received' /\ (ppc = "write" => Read < Received')
    BY <1>1, <1>2, <2>3
  <2> QED
    BY <1>2, <2>2, <2>4, <2>5 DEF FollowInv
<1>4. CASE (\E d \in Dev : CopyHead(d) \/ CopyTail(d)) \/ UNCHANGED vars
           \/ SeePacket
  <2>1. UNCHANGED <<dump, extractor, round_num, read_index>>
        /\ (ppc' = "write" => ppc = "write")
    BY <1>4 DEF CopyHead, CopyTail, vars, SeePacket, parser
  <2>2. Read' = Read /\ Extracted' = Extracted /\ Received' = Received
        /\ Owed' = Owed
    BY <2>1 DEF Read, Extracted, Received, Owed, dump, extractor
  <2> QED
    BY <1>2, <2>1, <2>2 DEF FollowInv
<1>5. CASE ReadPacket
  <2>1. UNCHANGED <<dump, extractor, round_num, read_index>>
    BY <1>5 DEF ReadPacket
  <2>2. Read' = Read /\ Extracted' = Extracted /\ Received' = Received
        /\ Owed' = Owed
    BY <2>1 DEF Read, Extracted, Received, Owed, dump, extractor
  <2>3. headPart[read_index] = [lap |-> round_num - 1, slot |-> read_index]
    BY <1>5, TagStep
  <2>4. read_index \in Slot /\ headPart[read_index] # NoPacket
    <3>1. read_index \in Slot /\ round_num - 1 \in Nat
      BY RingCounters
    <3>2. headPart[read_index] \in Packet
      BY <2>3, <3>1 DEF Packet
    <3> QED
      BY <3>1, <3>2, NoPacketAssumption
  <2>5. Position(headPart[read_index]) < Received
    BY <2>4 DEF ReceivedInv
  <2>6. Read < Received
    BY <2>3, <2>5 DEF Position, Read
  <2> QED
    BY <1>2, <2>2, <2>6 DEF FollowInv
<1>6. CASE WriteMeta
  <2>1. Read' = Read + 1 /\ ppc = "write" /\ ppc' = "check"
    BY <1>6, ReadNext DEF WriteMeta
  <2>2. UNCHANGED <<dump, extractor>>
    BY <1>6 DEF WriteMeta
  <2>3. Extracted' = Extracted /\ Received' = Received /\ Owed' = Owed
    BY <2>2 DEF Extracted, Received, Owed, dump, extractor
  <2>4. Extracted <= Read + 1 /\ Read + 1 <= Received
    BY <1>1, <1>2, <2>1
  <2> QED
    BY <1>2, <2>1, <2>3, <2>4 DEF FollowInv
<1>7. CASE Extract
  <2>1. UNCHANGED <<dump, parser>>
    BY <1>7 DEF Extract
  <2>2. Read' = Read /\ Received' = Received /\ Owed' = Owed /\ ppc' = ppc
    BY <2>1 DEF Read, Received, Owed, dump, parser
  <2>3. Extracted' = Extracted + 1 /\ Extracted # Read
    BY <1>7, ExtractedStep
  <2>4. Owed \in Nat
    BY DEF Owed, RingInv, CoreInv, TypeOK, CoreTypeOK
  <2>5. Extracted + 1 <= Read
    BY <1>1, <1>2, <2>3
  <2>6. KeepUp => Received + Owed - (Extracted + 1) <= BUFFER_SIZE - 1
    BY <1>1, <1>2, <2>4
  <2> QED
    BY <1>2, <2>2, <2>3, <2>5, <2>6 DEF FollowInv
<1> QED
  BY <1>3, <1>4, <1>5, <1>6, <1>7 DEF Next, Parser

\* The length the parser copies by: no later packet has the slot.
LEMMA LengthStep ==
  ASSUME RingInv, ReceivedInv, FollowInv, KeepUp, lap + 1 < TagValues, ReadPacket
  PROVE  pac_len[read_index] = headPart[read_index]
<1>1. /\ Received \in Nat /\ Extracted \in Nat /\ Read \in Nat
      /\ BUFFER_SIZE \in Nat \ {0} /\ read_index \in Slot /\ round_num - 1 \in Nat
  BY RingCounters, Constants
<1>2. headPart[read_index] = [lap |-> round_num - 1, slot |-> read_index]
  BY TagStep
<1>3. headPart[read_index] \in Packet /\ headPart[read_index] # NoPacket
  BY <1>1, <1>2, NoPacketAssumption DEF Packet
<1>4. Position(headPart[read_index]) < Received
  BY <1>1, <1>3 DEF ReceivedInv
<1>5. (round_num - 1) * BUFFER_SIZE + read_index < Received
  BY <1>2, <1>4 DEF Position
<1>6. pac_len[read_index] # NoPacket /\ pac_len[read_index].lap >= round_num - 1
  BY <1>1, <1>5 DEF ReceivedInv
<1>7. PICK p \in Packet : p = pac_len[read_index]
  BY <1>1, <1>6 DEF RingInv, TypeOK, MemoryTypeOK
<1>8. p.slot = read_index /\ Position(p) < Received
  BY <1>1, <1>6, <1>7 DEF ReceivedInv
<1>9. Received < Read + BUFFER_SIZE
  <2>1. Received + Owed - Extracted <= BUFFER_SIZE - 1 /\ Extracted <= Read
    BY DEF FollowInv
  <2>2. Owed \in Nat
    BY DEF Owed, RingInv, CoreInv, TypeOK, CoreTypeOK
  <2> QED
    BY <1>1, <2>1, <2>2
<1>10. p.lap > round_num - 1 => Read + BUFFER_SIZE <= Position(p)
  BY <1>1, <1>8, SlotHolds DEF Read
<1>11. p.lap \in Nat /\ Position(p) \in Nat
  BY PositionType
<1>12. p.lap = round_num - 1
  BY <1>1, <1>6, <1>7, <1>8, <1>9, <1>10, <1>11
<1>13. p = [lap |-> round_num - 1, slot |-> read_index]
  BY <1>1, <1>8, <1>12, SlotHolds
<1> QED
  BY <1>2, <1>7, <1>13

LEMMA LengthInit ==
  ASSUME Init
  PROVE  ReceivedInv /\ FollowInv
<1>1. /\ lap = 0 /\ write_index = 0 /\ read_index = 0 /\ xlap = 0
      /\ extractor_read_index = 0 /\ round_num = 1 /\ ppc = "check"
      /\ rpc = "dequeue" /\ pac_len = [s \in Slot |-> NoPacket]
      /\ headPart = [s \in Slot |-> NoPacket]
  BY DEF Init
<1>2. \A d \in Dev : Len(jobs[d]) = 0
  BY EmptySeq DEF Init
<1>3. 0 * BUFFER_SIZE = 0 /\ BUFFER_SIZE \in Nat \ {0}
  BY Constants
<1>4. Received = 0 /\ Extracted = 0 /\ Read = 0 /\ Owed = 0
  BY <1>1, <1>3 DEF Received, Extracted, Read, Owed
<1>5. \A s \in Slot, l \in Nat : ~(l * BUFFER_SIZE + s < 0)
  BY LapsCompare DEF Slot
<1>6. ReceivedInv
  BY <1>1, <1>2, <1>4, <1>5 DEF ReceivedInv
<1>7. FollowInv
  BY <1>1, <1>3, <1>4 DEF FollowInv
<1> QED
  BY <1>6, <1>7

-----------------------------------------------------------------------------
(* The results.                                                            *)

\* Every step keeps the invariant.
LEMMA RingStep ==
  ASSUME RingInv, [Next]_vars
  PROVE  RingInv'
BY DequeueInv, AnnounceInv, BurstInv, SubmitInv, AcceptInv, RefuseInv,
   CopyHeadInv, CopyTailInv, ParserInv, ExtractInv
DEF Next, RxCore

\* The inductive invariant holds of every behaviour.
THEOREM RingInvariant == Spec => []RingInv
<1>1. RingInv /\ [Next]_vars => RingInv'
  BY RingStep
<1> QED
  BY <1>1, InitInv, PTL DEF Spec

\* The indexes stay in the ring and in the lists of mbufs, and the counters of
\* every device make sense, whatever the order in which devices complete.
THEOREM RingTypeCorrect == Spec => []TypeOK
<1>1. RingInv => TypeOK
  BY DEF RingInv
<1> QED
  BY <1>1, RingInvariant, PTL

\* dma_dequeue frees the mbufs of completed copies and no other, also after a
\* refusal (dmafwd.c, bufs, front and rear).
THEOREM BuffersMatchJobs == Spec => []BufsMatchJobs
<1>1. RingInv => BufsMatchJobs
  BY DEF RingInv
<1> QED
  BY <1>1, RingInvariant, PTL

\* No copy waits unsubmitted while the receive core polls for traffic that
\* may never come.
THEOREM EverythingSubmitted == Spec => []AllSubmitted
<1>1. RingInv => AllSubmitted
  BY DEF RingInv, CoreInv, AllSubmitted
<1> QED
  BY <1>1, RingInvariant, PTL

\* Until the tag byte comes around, the parser decodes packets in the order in
\* which they were given slots, however many devices copy them, and even when
\* the dump overruns the ring.
THEOREM OrderUntilTagWraps ==
  Spec /\ [](lap + 1 < TagValues) => AcceptedInOrder
<1>1. RingInv /\ lap + 1 < TagValues =>
        [ReadPacket => headPart[read_index] =
                         [lap |-> round_num - 1, slot |-> read_index]]_vars
  BY TagStep
<1> QED
  BY <1>1, RingInvariant, PTL DEF AcceptedInOrder

\* Until the tag byte comes around, and if the traffic leaves the readers time,
\* the parser copies every packet by that packet's length, although the length
\* is written long before the data and devices complete in any order.
THEOREM LengthIsThePackets ==
  ASSUME KeepUp
  PROVE  Spec /\ [](lap + 1 < TagValues) => LengthOfPacket
<1>1. Init => ReceivedInv /\ FollowInv
  BY LengthInit
<1>2. /\ RingInv /\ ReceivedInv /\ FollowInv /\ lap + 1 < TagValues
      /\ [Next]_vars
      => (ReceivedInv /\ FollowInv)'
  BY ReceivedStep, FollowStep
<1>3. RingInv /\ ReceivedInv /\ FollowInv /\ lap + 1 < TagValues =>
        [ReadPacket => pac_len[read_index] = headPart[read_index]]_vars
  BY LengthStep
<1> QED
  BY <1>1, <1>2, <1>3, RingInvariant, PTL DEF Spec, LengthOfPacket

=============================================================================
