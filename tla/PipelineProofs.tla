--------------------------- MODULE PipelineProofs ---------------------------
(***************************************************************************)
(* Proofs about Pipeline, from those about its parts: the two parsers      *)
(* report the streams that extractor threads and updater need, so the      *)
(* whole implements GradientAssembly, and what GradientAssembly promises   *)
(* holds of the payloads themselves.                                       *)
(***************************************************************************)
EXTENDS Pipeline, FiniteSetTheorems, TLAPS

\* The parts, with what is proved about them.
IP == INSTANCE CoverageProofs WITH
  Builds <- {Build}, LossyOps <- {}, MaxFirstLost <- 0,
  build <- Build, dir <- "inbound",
  intact <- TRUE, clean <- TRUE, behind <- 0, upset <- FALSE,
  epoch <- i_epoch, w <- i_w, t <- i_t, k <- i_k, p <- i_p,
  opening <- i_opening, due <- i_due, got <- {},
  bc_gather_num <- i_gather, cur_bc_length <- i_length, iter_num <- i_iter,
  cur_write_num <- i_write, cur_trans_num <- i_trans,
  cur_chunk_num <- i_chunk, cur_pac_num <- i_pac, chosen <- i_chosen,
  result <- i_result

OP == INSTANCE CoverageProofs WITH
  Builds <- {Build}, LossyOps <- {}, MaxFirstLost <- 0,
  build <- Build, dir <- "outbound",
  intact <- TRUE, clean <- TRUE, behind <- 0, upset <- FALSE,
  epoch <- o_epoch, w <- o_w, t <- o_t, k <- o_k, p <- o_p,
  opening <- o_opening, due <- o_due, got <- {},
  bc_gather_num <- o_gather, cur_bc_length <- o_length, iter_num <- o_iter,
  cur_write_num <- o_write, cur_trans_num <- o_trans,
  cur_chunk_num <- o_chunk, cur_pac_num <- o_pac, chosen <- o_chosen,
  result <- o_result

GP == INSTANCE GradientAssemblyProofs WITH
  Before <- [t \in {0, 1} |-> {}], RING_NUMS <- Build.ring,
  source <- carrying, left <- coming

-----------------------------------------------------------------------------
(* The names of Decode mean the same in both of its instances.             *)

LEMMA InNumbers ==
  /\ In!RING_NUMS = IP!RING_NUMS /\ In!Piece = IP!Piece /\ In!Grain = IP!Grain
  /\ In!DATA_LENGTH = IP!DATA_LENGTH /\ In!Sum3 = IP!Sum3
  /\ In!RDMA_nums = IP!RDMA_nums /\ In!Rank = IP!Rank
  /\ In!write_to_data_index = IP!write_to_data_index
  /\ \A i : In!Length(i) = IP!Length(i)
  /\ \A i : In!trans_num(i) = IP!trans_num(i)
  /\ \A i : In!last_trans_size(i) = IP!last_trans_size(i)
<1> USE DEF In!RING_NUMS, IP!RING_NUMS, In!Piece, IP!Piece, In!Grain, IP!Grain,
            In!DATA_LENGTH, IP!DATA_LENGTH, In!Length, IP!Length
<1>1. In!Sum3 = IP!Sum3 /\ In!Rank = IP!Rank
  BY DEF In!Sum3, IP!Sum3, In!Rank, IP!Rank
<1>2. In!RDMA_nums = IP!RDMA_nums
  BY DEF In!RDMA_nums, IP!RDMA_nums, In!Sum3, IP!Sum3
<1>3. In!write_to_data_index = IP!write_to_data_index
  BY DEF In!write_to_data_index, IP!write_to_data_index,
         In!RDMA_nums, IP!RDMA_nums, In!Sum3, IP!Sum3
<1>4. /\ \A i : In!trans_num(i) = IP!trans_num(i)
      /\ \A i : In!last_trans_size(i) = IP!last_trans_size(i)
  BY DEF In!trans_num, IP!trans_num, In!last_trans_size, IP!last_trans_size
<1> QED
  BY <1>1, <1>2, <1>3, <1>4

LEMMA InSizes ==
  /\ \A i : In!modal_chunk_size(i) = IP!modal_chunk_size(i)
  /\ \A i : In!Cut(i) = IP!Cut(i) /\ In!LastCut(i) = IP!LastCut(i)
  /\ \A i, n, c : In!ChunkSize(i, n, c) = IP!ChunkSize(i, n, c)
  /\ \A e, n : In!Kind(e, n) = IP!Kind(e, n)
  /\ \A e : In!Writes(e) = IP!Writes(e)
<1>1. \A i : In!modal_chunk_size(i) = IP!modal_chunk_size(i)
  BY InNumbers DEF In!modal_chunk_size, IP!modal_chunk_size,
                  In!ChunkInGrains, IP!ChunkInGrains
<1>2. \A i : In!Cut(i) = IP!Cut(i) /\ In!LastCut(i) = IP!LastCut(i)
  BY InNumbers DEF In!Cut, IP!Cut, In!LastCut, IP!LastCut
<1>3. \A i, n, c : In!ChunkSize(i, n, c) = IP!ChunkSize(i, n, c)
  BY InNumbers, <1>1, <1>2 DEF In!ChunkSize, IP!ChunkSize
<1> QED
  BY InNumbers, <1>1, <1>2, <1>3 DEF In!Kind, IP!Kind, In!Writes, IP!Writes

LEMMA InPlaces ==
  /\ \A s : In!ChunkSent(s) = IP!ChunkSent(s) /\ In!IsFinal(s) = IP!IsFinal(s)
  /\ \A e, n, tr, c : In!ChunkStart(e, n, tr, c) = IP!ChunkStart(e, n, tr, c)
  /\ \A e, c : In!ChunkPositions(e, c) = IP!ChunkPositions(e, c)
  /\ In!SizeNow = IP!SizeNow /\ In!Place = IP!Place /\ In!Op = IP!Op
  /\ In!AtStart = IP!AtStart
<1>1. \A s : In!ChunkSent(s) = IP!ChunkSent(s) /\ In!IsFinal(s) = IP!IsFinal(s)
  BY InNumbers DEF In!ChunkSent, IP!ChunkSent, In!IsFinal, IP!IsFinal
<1>2. \A e, n : In!BucketStart(e, n) = IP!BucketStart(e, n)
  BY InNumbers, InSizes DEF In!BucketStart, IP!BucketStart
<1>3. \A e, n, tr, c : In!ChunkStart(e, n, tr, c) = IP!ChunkStart(e, n, tr, c)
  BY InNumbers, InSizes, <1>2 DEF In!ChunkStart, IP!ChunkStart
<1>4. \A e, c : In!ChunkPositions(e, c) = IP!ChunkPositions(e, c)
  <2>1. \A e : In!Transfers(e) = IP!Transfers(e)
    BY InNumbers, InSizes DEF In!Transfers, IP!Transfers
  <2> QED
    BY InSizes, <1>3, <2>1
    DEF In!ChunkPositions, IP!ChunkPositions, In!Positions, IP!Positions
<1>5. In!SizeNow = IP!SizeNow /\ In!Place = IP!Place
  BY InSizes, <1>1, <1>3 DEF In!SizeNow, IP!SizeNow, In!Place, IP!Place
<1> QED
  BY <1>1, <1>3, <1>4, <1>5 DEF In!Op, IP!Op, In!AtStart, IP!AtStart

LEMMA InTransmittable == In!Transmittable = IP!Transmittable
BY InNumbers, InSizes DEF In!Transmittable, IP!Transmittable

LEMMA OutNumbers ==
  /\ Out!RING_NUMS = OP!RING_NUMS /\ Out!Piece = OP!Piece /\ Out!Grain = OP!Grain
  /\ Out!DATA_LENGTH = OP!DATA_LENGTH /\ Out!Sum3 = OP!Sum3
  /\ Out!RDMA_nums = OP!RDMA_nums /\ Out!Rank = OP!Rank
  /\ Out!write_to_data_index = OP!write_to_data_index
  /\ \A i : Out!Length(i) = OP!Length(i)
  /\ \A i : Out!trans_num(i) = OP!trans_num(i)
  /\ \A i : Out!last_trans_size(i) = OP!last_trans_size(i)
<1> USE DEF Out!RING_NUMS, OP!RING_NUMS, Out!Piece, OP!Piece, Out!Grain, OP!Grain,
            Out!DATA_LENGTH, OP!DATA_LENGTH, Out!Length, OP!Length
<1>1. Out!Sum3 = OP!Sum3 /\ Out!Rank = OP!Rank
  BY DEF Out!Sum3, OP!Sum3, Out!Rank, OP!Rank
<1>2. Out!RDMA_nums = OP!RDMA_nums
  BY DEF Out!RDMA_nums, OP!RDMA_nums, Out!Sum3, OP!Sum3
<1>3. Out!write_to_data_index = OP!write_to_data_index
  BY DEF Out!write_to_data_index, OP!write_to_data_index,
         Out!RDMA_nums, OP!RDMA_nums, Out!Sum3, OP!Sum3
<1>4. /\ \A i : Out!trans_num(i) = OP!trans_num(i)
      /\ \A i : Out!last_trans_size(i) = OP!last_trans_size(i)
  BY DEF Out!trans_num, OP!trans_num, Out!last_trans_size, OP!last_trans_size
<1> QED
  BY <1>1, <1>2, <1>3, <1>4

LEMMA OutSizes ==
  /\ \A i : Out!modal_chunk_size(i) = OP!modal_chunk_size(i)
  /\ \A i : Out!Cut(i) = OP!Cut(i) /\ Out!LastCut(i) = OP!LastCut(i)
  /\ \A i, n, c : Out!ChunkSize(i, n, c) = OP!ChunkSize(i, n, c)
  /\ \A e, n : Out!Kind(e, n) = OP!Kind(e, n)
  /\ \A e : Out!Writes(e) = OP!Writes(e)
<1>1. \A i : Out!modal_chunk_size(i) = OP!modal_chunk_size(i)
  BY OutNumbers DEF Out!modal_chunk_size, OP!modal_chunk_size,
                  Out!ChunkInGrains, OP!ChunkInGrains
<1>2. \A i : Out!Cut(i) = OP!Cut(i) /\ Out!LastCut(i) = OP!LastCut(i)
  BY OutNumbers DEF Out!Cut, OP!Cut, Out!LastCut, OP!LastCut
<1>3. \A i, n, c : Out!ChunkSize(i, n, c) = OP!ChunkSize(i, n, c)
  BY OutNumbers, <1>1, <1>2 DEF Out!ChunkSize, OP!ChunkSize
<1> QED
  BY OutNumbers, <1>1, <1>2, <1>3 DEF Out!Kind, OP!Kind, Out!Writes, OP!Writes

LEMMA OutPlaces ==
  /\ \A s : Out!ChunkSent(s) = OP!ChunkSent(s) /\ Out!IsFinal(s) = OP!IsFinal(s)
  /\ \A e, n, tr, c : Out!ChunkStart(e, n, tr, c) = OP!ChunkStart(e, n, tr, c)
  /\ \A e, c : Out!ChunkPositions(e, c) = OP!ChunkPositions(e, c)
  /\ Out!SizeNow = OP!SizeNow /\ Out!Place = OP!Place /\ Out!Op = OP!Op
  /\ Out!AtStart = OP!AtStart
<1>1. \A s : Out!ChunkSent(s) = OP!ChunkSent(s) /\ Out!IsFinal(s) = OP!IsFinal(s)
  BY OutNumbers DEF Out!ChunkSent, OP!ChunkSent, Out!IsFinal, OP!IsFinal
<1>2. \A e, n : Out!BucketStart(e, n) = OP!BucketStart(e, n)
  BY OutNumbers, OutSizes DEF Out!BucketStart, OP!BucketStart
<1>3. \A e, n, tr, c : Out!ChunkStart(e, n, tr, c) = OP!ChunkStart(e, n, tr, c)
  BY OutNumbers, OutSizes, <1>2 DEF Out!ChunkStart, OP!ChunkStart
<1>4. \A e, c : Out!ChunkPositions(e, c) = OP!ChunkPositions(e, c)
  <2>1. \A e : Out!Transfers(e) = OP!Transfers(e)
    BY OutNumbers, OutSizes DEF Out!Transfers, OP!Transfers
  <2> QED
    BY OutSizes, <1>3, <2>1
    DEF Out!ChunkPositions, OP!ChunkPositions, Out!Positions, OP!Positions
<1>5. Out!SizeNow = OP!SizeNow /\ Out!Place = OP!Place
  BY OutSizes, <1>1, <1>3 DEF Out!SizeNow, OP!SizeNow, Out!Place, OP!Place
<1> QED
  BY <1>1, <1>3, <1>4, <1>5 DEF Out!Op, OP!Op, Out!AtStart, OP!AtStart

LEMMA OutTransmittable == Out!Transmittable = OP!Transmittable
BY OutNumbers, OutSizes DEF Out!Transmittable, OP!Transmittable

LEMMA InReported == In!Reported = IP!Reported
<1>1. \A c : In!chunk_id(c) = IP!chunk_id(c) /\ In!Partial(c) = IP!Partial(c)
  BY InNumbers DEF In!chunk_id, IP!chunk_id, In!Partial, IP!Partial
<1> QED
  BY InNumbers, InSizes, <1>1 DEF In!Reported, IP!Reported

LEMMA InDecode ==
  ASSUME NEW op, NEW size
  PROVE  In!decode_hex(op, size) <=> IP!decode_hex(op, size)
<1>1. In!Gather(size) <=> IP!Gather(size)
  BY DEF In!Gather, IP!Gather
<1>2. In!SecondIteration <=> IP!SecondIteration
  BY DEF In!SecondIteration, IP!SecondIteration, In!SecondBroadcast, IP!SecondBroadcast
<1>3. In!NextWrite <=> IP!NextWrite
  BY InNumbers DEF In!NextWrite, IP!NextWrite, In!NextKind, IP!NextKind
<1>4. In!LastChunk = IP!LastChunk /\ In!PacAtFirst = IP!PacAtFirst
  BY InNumbers DEF In!LastChunk, IP!LastChunk, In!PacAtFirst, IP!PacAtFirst
<1>5. In!First <=> IP!First
  BY InNumbers, InReported, <1>2, <1>3, <1>4 DEF In!First, IP!First
<1>6. In!MiddleOrLast <=> IP!MiddleOrLast
  BY InReported DEF In!MiddleOrLast, IP!MiddleOrLast
<1> QED
  BY <1>1, <1>5, <1>6 DEF In!decode_hex, IP!decode_hex

LEMMA InPackets ==
  /\ In!Init <=> IP!Init
  /\ In!DataPacket => IP!DataPacket
  /\ In!BroadcastPacket => IP!BroadcastPacket
<1>1. In!Advance <=> IP!Advance
  BY InNumbers, InSizes, InPlaces DEF In!Advance, IP!Advance
<1>2. In!DataPacket => IP!DataPacket
  BY InPlaces, InDecode, <1>1 DEF In!DataPacket, IP!DataPacket
<1>3. UNCHANGED In!place => UNCHANGED IP!place
  BY DEF In!place, IP!place
<1>4. In!BroadcastPacket => IP!BroadcastPacket
  BY InDecode, <1>3 DEF In!BroadcastPacket, IP!BroadcastPacket
<1>5. In!Init <=> IP!Init
  BY InTransmittable DEF In!Init, IP!Init
<1> QED
  BY <1>2, <1>4, <1>5

LEMMA InTypes == IP!TypeOK <=> In!TypeOK
BY InNumbers DEF In!TypeOK, IP!TypeOK

LEMMA InEven == IP!EvenChunks <=> In!EvenChunks
BY InSizes DEF In!EvenChunks, IP!EvenChunks

LEMMA InAgree == IP!CutsAgree <=> In!CutsAgree
BY InSizes DEF In!CutsAgree, IP!CutsAgree

LEMMA OutReported == Out!Reported = OP!Reported
<1>1. \A c : Out!chunk_id(c) = OP!chunk_id(c) /\ Out!Partial(c) = OP!Partial(c)
  BY OutNumbers DEF Out!chunk_id, OP!chunk_id, Out!Partial, OP!Partial
<1> QED
  BY OutNumbers, OutSizes, <1>1 DEF Out!Reported, OP!Reported

LEMMA OutDecode ==
  ASSUME NEW op, NEW size
  PROVE  Out!decode_hex(op, size) <=> OP!decode_hex(op, size)
<1>1. Out!Gather(size) <=> OP!Gather(size)
  BY DEF Out!Gather, OP!Gather
<1>2. Out!SecondIteration <=> OP!SecondIteration
  BY DEF Out!SecondIteration, OP!SecondIteration, Out!SecondBroadcast, OP!SecondBroadcast
<1>3. Out!NextWrite <=> OP!NextWrite
  BY OutNumbers DEF Out!NextWrite, OP!NextWrite, Out!NextKind, OP!NextKind
<1>4. Out!LastChunk = OP!LastChunk /\ Out!PacAtFirst = OP!PacAtFirst
  BY OutNumbers DEF Out!LastChunk, OP!LastChunk, Out!PacAtFirst, OP!PacAtFirst
<1>5. Out!First <=> OP!First
  BY OutNumbers, OutReported, <1>2, <1>3, <1>4 DEF Out!First, OP!First
<1>6. Out!MiddleOrLast <=> OP!MiddleOrLast
  BY OutReported DEF Out!MiddleOrLast, OP!MiddleOrLast
<1> QED
  BY <1>1, <1>5, <1>6 DEF Out!decode_hex, OP!decode_hex

LEMMA OutPackets ==
  /\ Out!Init <=> OP!Init
  /\ Out!DataPacket => OP!DataPacket
  /\ Out!BroadcastPacket => OP!BroadcastPacket
<1>1. Out!Advance <=> OP!Advance
  BY OutNumbers, OutSizes, OutPlaces DEF Out!Advance, OP!Advance
<1>2. Out!DataPacket => OP!DataPacket
  BY OutPlaces, OutDecode, <1>1 DEF Out!DataPacket, OP!DataPacket
<1>3. UNCHANGED Out!place => UNCHANGED OP!place
  BY DEF Out!place, OP!place
<1>4. Out!BroadcastPacket => OP!BroadcastPacket
  BY OutDecode, <1>3 DEF Out!BroadcastPacket, OP!BroadcastPacket
<1>5. Out!Init <=> OP!Init
  BY OutTransmittable DEF Out!Init, OP!Init
<1> QED
  BY <1>2, <1>4, <1>5

LEMMA OutTypes == OP!TypeOK <=> Out!TypeOK
BY OutNumbers DEF Out!TypeOK, OP!TypeOK

LEMMA OutEven == OP!EvenChunks <=> Out!EvenChunks
BY OutSizes DEF Out!EvenChunks, OP!EvenChunks

\* Where a chunk lies does not depend on the direction it travels.
LEMMA DirectionsAlike ==
  /\ \A e, c : OP!ChunkPositions(e, c) = IP!ChunkPositions(e, c)
  /\ IP!EvenChunks <=> OP!EvenChunks
  /\ IP!CutsAgree <=> OP!CutsAgree
<1> USE DEF IP!RING_NUMS, OP!RING_NUMS, IP!Piece, OP!Piece, IP!Grain, OP!Grain,
            IP!DATA_LENGTH, OP!DATA_LENGTH, IP!Length, OP!Length
<1>1. IP!Sum3 = OP!Sum3
  BY DEF IP!Sum3, OP!Sum3
<1>2. IP!RDMA_nums = OP!RDMA_nums
  BY <1>1 DEF IP!RDMA_nums, OP!RDMA_nums
<1>3. /\ \A i : IP!trans_num(i) = OP!trans_num(i)
      /\ \A i : IP!last_trans_size(i) = OP!last_trans_size(i)
  BY DEF IP!trans_num, OP!trans_num, IP!last_trans_size, OP!last_trans_size
<1>4. \A i : IP!modal_chunk_size(i) = OP!modal_chunk_size(i)
  BY <1>3 DEF IP!modal_chunk_size, OP!modal_chunk_size,
              IP!ChunkInGrains, OP!ChunkInGrains
<1>5. \A i : IP!Cut(i) = OP!Cut(i) /\ IP!LastCut(i) = OP!LastCut(i)
  BY <1>3 DEF IP!Cut, OP!Cut, IP!LastCut, OP!LastCut
<1>6. \A i, n, c : IP!ChunkSize(i, n, c) = OP!ChunkSize(i, n, c)
  BY <1>3, <1>5 DEF IP!ChunkSize, OP!ChunkSize
<1>7. /\ \A e, n : IP!Kind(e, n) = OP!Kind(e, n)
      /\ \A e : IP!Writes(e) = OP!Writes(e)
  BY <1>2 DEF IP!Kind, OP!Kind, IP!Writes, OP!Writes
<1>8. \A e, n : IP!BucketStart(e, n) = OP!BucketStart(e, n)
  BY <1>1, <1>7 DEF IP!BucketStart, OP!BucketStart
<1>9. \A e, n, tr, c : IP!ChunkStart(e, n, tr, c) = OP!ChunkStart(e, n, tr, c)
  BY <1>6, <1>7, <1>8 DEF IP!ChunkStart, OP!ChunkStart
<1>10. \A e : IP!Transfers(e) = OP!Transfers(e)
  BY <1>3, <1>7 DEF IP!Transfers, OP!Transfers
<1>11. \A e, c : OP!ChunkPositions(e, c) = IP!ChunkPositions(e, c)
  BY <1>6, <1>7, <1>9, <1>10
  DEF IP!ChunkPositions, OP!ChunkPositions, IP!Positions, OP!Positions
<1> QED
  BY <1>4, <1>5, <1>11
  DEF IP!EvenChunks, OP!EvenChunks, IP!CutsAgree, OP!CutsAgree

\* The sizes that both parsers compute are those the senders cut.
SizesAgree == In!CutsAgree

LEMMA BothAgree ==
  ASSUME SizesAgree
  PROVE  IP!CutsAgree /\ OP!CutsAgree
BY InAgree, DirectionsAlike DEF SizesAgree

-----------------------------------------------------------------------------
(* What the parts assume of their constants.                               *)

LEMMA InAssumption == IP!BuildAssumption
BY PipelineAssumption DEF IP!BuildAssumption

LEMMA OutAssumption == OP!BuildAssumption
BY PipelineAssumption DEF OP!BuildAssumption

LEMMA StreamsAssumption == GP!StreamAssumption
<1>1. GP!IsFiniteSet(Chunks)
  <2>1. 0 \in Int /\ Build.length[0] - 1 \in Int
    BY PipelineAssumption
  <2>2. IsFiniteSet(Chunks)
    BY <2>1, FS_Interval DEF Chunks
  <2> QED
    BY <2>2 DEF IsFiniteSet, GP!IsFiniteSet
<1>2. {OwnFirst, Own} \subseteq [GP!Bound -> SUBSET Chunks]
  BY PipelineAssumption DEF GP!Bound
<1>3. [t \in {0, 1} |-> {}] \in [GP!Bound -> SUBSET (Chunks \X Chunks)]
  BY DEF GP!Bound
<1>4. NoPacket \notin Chunks /\ Invalid \notin Chunks /\ Invalid # NoPacket
  BY PipelineAssumption
<1>5. Build.ring \in Nat \ {0} /\ MaxIter \in Nat
  BY PipelineAssumption
<1> QED
  BY ONLY <1>1, <1>2, <1>3, <1>4, <1>5 DEF GP!StreamAssumption

-----------------------------------------------------------------------------
(* One stream: what its parser reports, and what is still to come.         *)

LEMMA InShares ==
  ASSUME IP!BuildOK, StreamsCut
  PROVE  /\ OwnFirst[0] = IP!Sent(0)
         /\ \A e \in Nat \ {0} : Own[0] = IP!Sent(e)
<1>1. \A e : NotSent(e, 0) = IP!ChunkPositions(e, IP!Unsent)
  BY InNumbers, InPlaces DEF NotSent, IP!Unsent
<1>2. \A e \in Nat : IP!Sent(e) = Chunks \ NotSent(e, 0)
  <2>1. Chunks = 0 .. IP!DATA_LENGTH - 1
    BY DEF Chunks, IP!DATA_LENGTH, IP!Length
  <2> QED
    BY InAssumption, <1>1, <2>1, IP!SentIsShare
<1>3. \A e \in Nat \ {0} : NotSent(e, 0) = NotSent(1, 0)
  BY InAssumption, <1>1, IP!SentAlike
<1> QED
  BY <1>2, <1>3 DEF StreamsCut

LEMMA InStart ==
  ASSUME In!Init, StreamsCut, SizesAgree
  PROVE  /\ IP!IInv /\ IP!AtStart /\ i_epoch = 0
         /\ IP!ToCome = OwnFirst[0]
<1>1. IP!Init
  BY InPackets
<1>2. IP!IInv
  BY InAssumption, BothAgree, <1>1, IP!InitInv
<1>3. IP!BuildOK /\ IP!TrafficOK /\ IP!AtStart /\ i_epoch = 0
  BY <1>1, <1>2 DEF IP!IInv, IP!Init, IP!AtStart
<1>4. IP!ToCome = IP!Sent(0)
  BY InAssumption, <1>3, IP!StartFacts
<1> QED
  BY <1>2, <1>3, <1>4, InShares

LEMMA InSame ==
  ASSUME IP!IInv, UNCHANGED inbound
  PROVE  /\ IP!IInv' /\ IP!ToCome' = IP!ToCome
         /\ IP!AtStart' = IP!AtStart /\ i_epoch' = i_epoch
<1>1. UNCHANGED <<IP!config, IP!place, i_opening, i_due, IP!accounts, IP!counters>>
      /\ i_result' = i_result
  BY DEF inbound, IP!config, IP!place, IP!accounts, IP!counters
<1>2. i_result' \in Nat \cup {-1}
  BY <1>1 DEF IP!IInv, IP!AccountsOK
<1>3. IP!IInv'
  BY InAssumption, <1>1, <1>2, IP!StutterInv
<1> QED
  BY InAssumption, <1>1, <1>3, IP!PlaceStays

LEMMA InData ==
  ASSUME IP!IInv, In!DataPacket
  PROVE  /\ IP!IInv' /\ i_epoch < MaxIter
         /\ i_result' = IF In!IsFinal(i_k) THEN In!Place ELSE -1
         /\ i_result' # -1 => i_result' \in IP!ToCome /\ i_result' \in Chunks
         /\ \/ /\ i_epoch' = i_epoch /\ ~ IP!AtStart'
               /\ IP!ToCome' = IP!ToCome \ {i_result'}
            \/ /\ i_epoch' = i_epoch + 1 /\ IP!AtStart'
               /\ IP!ToCome \subseteq {i_result'}
<1>1. IP!DataPacket /\ UNCHANGED IP!config
  BY InPackets DEF IP!config
<1>2. IP!Arrives
  BY <1>1 DEF IP!Arrives
<1>3. IP!IInv'
  BY InAssumption, <1>2, IP!ArrivesInv
<1>4. i_result' = IF IP!IsFinal(i_k) THEN IP!Place ELSE -1
  BY InAssumption, <1>2, IP!FinalsLocatedStep
<1>5. /\ IP!BuildOK /\ IP!TrafficOK /\ IP!Advance /\ i_epoch < MaxIter
      /\ i_epoch \in Nat
  BY <1>1 DEF IP!IInv, IP!DataPacket, IP!TrafficOK
<1>6. IP!ToCome \subseteq Chunks
  <2>1. Chunks = 0 .. IP!DATA_LENGTH - 1
    BY DEF Chunks, IP!DATA_LENGTH, IP!Length
  <2> QED
    BY InAssumption, <1>5, <2>1, IP!ToComeRange
<1>7. -1 \notin Chunks
  BY PipelineAssumption DEF Chunks
<1>8. IP!Due \subseteq {i_result'} /\ (i_result' # -1 => i_result' \in IP!Due)
      /\ IP!ToCome \ IP!Due = IP!ToCome \ {i_result'}
  BY <1>4, <1>6, <1>7 DEF IP!Due
<1>9. /\ \/ /\ i_epoch' = i_epoch /\ ~ IP!AtStart'
            /\ IP!ToCome' = IP!ToCome \ IP!Due
         \/ /\ i_epoch' = i_epoch + 1 /\ IP!AtStart'
            /\ IP!ToCome \subseteq IP!Due
      /\ IP!Due \subseteq IP!ToCome
  BY InAssumption, <1>1, <1>5, IP!PassedStep
<1> QED
  BY <1>3, <1>4, <1>5, <1>6, <1>8, <1>9, InPlaces

LEMMA OutShares ==
  ASSUME OP!BuildOK, StreamsCut
  PROVE  /\ OwnFirst[1] = OP!Sent(0)
         /\ \A e \in Nat \ {0} : Own[1] = OP!Sent(e)
<1>1. \A e : NotSent(e, 1) = OP!ChunkPositions(e, OP!Unsent)
  BY OutNumbers, OutPlaces DEF NotSent, OP!Unsent
<1>2. \A e \in Nat : OP!Sent(e) = Chunks \ NotSent(e, 1)
  <2>1. Chunks = 0 .. OP!DATA_LENGTH - 1
    BY DEF Chunks, OP!DATA_LENGTH, OP!Length
  <2> QED
    BY OutAssumption, <1>1, <2>1, OP!SentIsShare
<1>3. \A e \in Nat \ {0} : NotSent(e, 1) = NotSent(1, 1)
  BY OutAssumption, <1>1, OP!SentAlike
<1> QED
  BY <1>2, <1>3 DEF StreamsCut

LEMMA OutStart ==
  ASSUME Out!Init, StreamsCut, SizesAgree
  PROVE  /\ OP!IInv /\ OP!AtStart /\ o_epoch = 0
         /\ OP!ToCome = OwnFirst[1]
<1>1. OP!Init
  BY OutPackets
<1>2. OP!IInv
  BY OutAssumption, BothAgree, <1>1, OP!InitInv
<1>3. OP!BuildOK /\ OP!TrafficOK /\ OP!AtStart /\ o_epoch = 0
  BY <1>1, <1>2 DEF OP!IInv, OP!Init, OP!AtStart
<1>4. OP!ToCome = OP!Sent(0)
  BY OutAssumption, <1>3, OP!StartFacts
<1> QED
  BY <1>2, <1>3, <1>4, OutShares

LEMMA OutSame ==
  ASSUME OP!IInv, UNCHANGED outbound
  PROVE  /\ OP!IInv' /\ OP!ToCome' = OP!ToCome
         /\ OP!AtStart' = OP!AtStart /\ o_epoch' = o_epoch
<1>1. UNCHANGED <<OP!config, OP!place, o_opening, o_due, OP!accounts, OP!counters>>
      /\ o_result' = o_result
  BY DEF outbound, OP!config, OP!place, OP!accounts, OP!counters
<1>2. o_result' \in Nat \cup {-1}
  BY <1>1 DEF OP!IInv, OP!AccountsOK
<1>3. OP!IInv'
  BY OutAssumption, <1>1, <1>2, OP!StutterInv
<1> QED
  BY OutAssumption, <1>1, <1>3, OP!PlaceStays

LEMMA OutData ==
  ASSUME OP!IInv, Out!DataPacket
  PROVE  /\ OP!IInv' /\ o_epoch < MaxIter
         /\ o_result' = IF Out!IsFinal(o_k) THEN Out!Place ELSE -1
         /\ o_result' # -1 => o_result' \in OP!ToCome /\ o_result' \in Chunks
         /\ \/ /\ o_epoch' = o_epoch /\ ~ OP!AtStart'
               /\ OP!ToCome' = OP!ToCome \ {o_result'}
            \/ /\ o_epoch' = o_epoch + 1 /\ OP!AtStart'
               /\ OP!ToCome \subseteq {o_result'}
<1>1. OP!DataPacket /\ UNCHANGED OP!config
  BY OutPackets DEF OP!config
<1>2. OP!Arrives
  BY <1>1 DEF OP!Arrives
<1>3. OP!IInv'
  BY OutAssumption, <1>2, OP!ArrivesInv
<1>4. o_result' = IF OP!IsFinal(o_k) THEN OP!Place ELSE -1
  BY OutAssumption, <1>2, OP!FinalsLocatedStep
<1>5. /\ OP!BuildOK /\ OP!TrafficOK /\ OP!Advance /\ o_epoch < MaxIter
      /\ o_epoch \in Nat
  BY <1>1 DEF OP!IInv, OP!DataPacket, OP!TrafficOK
<1>6. OP!ToCome \subseteq Chunks
  <2>1. Chunks = 0 .. OP!DATA_LENGTH - 1
    BY DEF Chunks, OP!DATA_LENGTH, OP!Length
  <2> QED
    BY OutAssumption, <1>5, <2>1, OP!ToComeRange
<1>7. -1 \notin Chunks
  BY PipelineAssumption DEF Chunks
<1>8. OP!Due \subseteq {o_result'} /\ (o_result' # -1 => o_result' \in OP!Due)
      /\ OP!ToCome \ OP!Due = OP!ToCome \ {o_result'}
  BY <1>4, <1>6, <1>7 DEF OP!Due
<1>9. /\ \/ /\ o_epoch' = o_epoch /\ ~ OP!AtStart'
            /\ OP!ToCome' = OP!ToCome \ OP!Due
         \/ /\ o_epoch' = o_epoch + 1 /\ OP!AtStart'
            /\ OP!ToCome \subseteq OP!Due
      /\ OP!Due \subseteq OP!ToCome
  BY OutAssumption, <1>1, <1>5, OP!PassedStep
<1> QED
  BY <1>3, <1>4, <1>5, <1>6, <1>8, <1>9, OutPlaces

LEMMA InBroadcast ==
  ASSUME IP!IInv, In!BroadcastPacket
  PROVE  /\ IP!IInv' /\ i_result' = -1
         /\ IP!ToCome' = IP!ToCome
         /\ IP!AtStart' = IP!AtStart /\ i_epoch' = i_epoch
<1>1. IP!Broadcast /\ UNCHANGED <<IP!config, IP!place>>
  BY InPackets DEF IP!Broadcast, IP!BroadcastPacket, IP!config, IP!accounts
<1>2. IP!IInv'
  BY InAssumption, <1>1, IP!BroadcastKeepsInv
<1>3. i_result' = -1
  BY InAssumption, <1>1, IP!NotReportedStep
<1> QED
  BY InAssumption, <1>1, <1>2, <1>3, IP!PlaceStays

-----------------------------------------------------------------------------
(* The names of GradientAssembly mean the same in both of its instances.   *)

LEMMA AssemblyNames ==
  /\ G!Limit = GP!Limit /\ G!CHUNK_NUMS = GP!CHUNK_NUMS
  /\ \A j, t : G!Share(j, t) = GP!Share(j, t)
  /\ G!Ready <=> GP!Ready
  /\ G!Matched => GP!Matched
<1>1. \A S : G!Cardinality(S) = GP!Cardinality(S)
  BY DEF G!Cardinality, GP!Cardinality
<1>2. G!CHUNK_NUMS = GP!CHUNK_NUMS
  BY <1>1 DEF G!CHUNK_NUMS, GP!CHUNK_NUMS
<1>3. G!Limit = GP!Limit
  BY <1>2 DEF G!Limit, GP!Limit
<1>4. G!Matched => GP!Matched
  BY <1>1, <1>3 DEF G!Matched, GP!Matched, G!Bound, GP!Bound
<1> QED
  BY <1>2, <1>3, <1>4 DEF G!Share, GP!Share, G!Ready, GP!Ready

LEMMA AssemblySteps ==
  /\ \A t : G!Step(t) => GP!Step(t)
  /\ \A t : G!Source(t) => GP!Source(t)
  /\ G!Updater => GP!Updater
<1> USE DEF G!stream, GP!stream, G!thread, GP!thread, G!Reading, GP!Reading,
            G!Consume, GP!Consume, G!PassOver, GP!PassOver
<1>1. ASSUME NEW t PROVE G!Step(t) => GP!Step(t)
  <2>1. G!SkipInvalid(t) => GP!SkipInvalid(t)
    BY DEF G!SkipInvalid, GP!SkipInvalid
  <2>2. G!Test(t) => GP!Test(t)
    BY DEF G!Test, GP!Test, G!ToMark, GP!ToMark
  <2>3. /\ G!Mark(t) => GP!Mark(t)
        /\ G!Copy(t) => GP!Copy(t)
        /\ G!LoadCount(t) => GP!LoadCount(t)
    BY DEF G!Mark, GP!Mark, G!Copy, GP!Copy, G!LoadCount, GP!LoadCount
  <2>4. G!StoreCount(t) => GP!StoreCount(t)
    BY AssemblyNames DEF G!StoreCount, GP!StoreCount, G!LimitReached, GP!LimitReached
  <2>5. G!Wake(t) => GP!Wake(t)
    BY DEF G!Wake, GP!Wake
  <2>6. G!FillZero(t) => GP!FillZero(t)
    BY DEF G!FillZero, GP!FillZero
  <2>7. G!RaiseFlag(t) => GP!RaiseFlag(t)
    BY DEF G!RaiseFlag, GP!RaiseFlag
  <2>8. G!SpinDone(t) => GP!SpinDone(t)
    BY DEF G!SpinDone, GP!SpinDone, G!FlagUp, GP!FlagUp, G!FlagLowered, GP!FlagLowered
  <2> QED
    BY <2>1, <2>2, <2>3, <2>4, <2>5, <2>6, <2>7, <2>8 DEF G!Step, GP!Step
<1>2. ASSUME NEW t PROVE G!Source(t) => GP!Source(t)
  <2>1. G!PublishChunk(t) => GP!PublishChunk(t)
    BY DEF G!PublishChunk, GP!PublishChunk
  <2>2. G!PublishInvalid(t) => GP!PublishInvalid(t)
    BY DEF G!PublishInvalid, GP!PublishInvalid
  <2>3. G!NextSource(t) => GP!NextSource(t)
    BY AssemblyNames DEF G!NextSource, GP!NextSource
  <2> QED
    BY <2>1, <2>2, <2>3 DEF G!Source, GP!Source
<1>3. G!Updater => GP!Updater
  <2>1. G!PollReady => GP!PollReady
    BY AssemblyNames DEF G!PollReady, GP!PollReady
  <2>2. G!ClearCounts => GP!ClearCounts
    BY DEF G!ClearCounts, GP!ClearCounts, G!ClearedCounts, GP!ClearedCounts,
           G!Bound, GP!Bound
  <2>3. /\ G!BumpIter => GP!BumpIter
        /\ G!OptimizerDone => GP!OptimizerDone
    BY DEF G!BumpIter, GP!BumpIter, G!OptimizerDone, GP!OptimizerDone
  <2> QED
    BY <2>1, <2>2, <2>3 DEF G!Updater, GP!Updater
<1> QED
  BY <1>1, <1>2, <1>3

LEMMA AssemblyInit == G!Init => GP!Init
BY DEF G!Init, GP!Init, G!Bound, GP!Bound

LEMMA AssemblyNext == [G!Next]_(G!vars) => [GP!Next]_(GP!vars)
<1>1. UNCHANGED G!vars => UNCHANGED GP!vars
  BY DEF G!vars, GP!vars
<1>2. G!Next => GP!Next
  BY AssemblySteps DEF G!Next, GP!Next, G!Bound, GP!Bound
<1> QED
  BY <1>1, <1>2

-----------------------------------------------------------------------------
(* The inductive invariant: what a stream has still to carry is what its   *)
(* parser has still to report, and payloads go where they belong.          *)

InMeets ==
  \/ carrying[0] = i_epoch + 1 /\ coming[0] = IP!ToCome
  \/ carrying[0] = i_epoch /\ coming[0] = {} /\ IP!AtStart

OutMeets ==
  \/ carrying[1] = o_epoch + 1 /\ coming[1] = OP!ToCome
  \/ carrying[1] = o_epoch /\ coming[1] = {} /\ OP!AtStart

StreamsInv ==
  /\ StreamsCut
  /\ IP!IInv /\ OP!IInv
  /\ InMeets /\ OutMeets
  /\ carrying \in [{0, 1} -> 1 .. MaxIter]
  /\ GP!TypeOK

PlacedInv ==
  /\ truth \in [{0, 1} -> Chunks \cup {-1}]
  /\ placed \in [Chunks -> Chunks \cup {-1}]
  /\ \A t \in {0, 1} :
       /\ head[t] \in Chunks => truth[t] = head[t]
       /\ pc[t] \in {"mark", "copy"} => head[t] \in Chunks
  /\ \A c \in Chunks : res[c] # 0 => placed[c] = c

IInv == StreamsInv /\ PlacedInv

LEMMA InitInv ==
  ASSUME Init, SizesAgree
  PROVE  IInv
<1>1. G!Init /\ GP!Init
  BY AssemblyInit DEF Init
<1>2. StreamsCut /\ coming = OwnFirst /\ carrying = [t \in {0, 1} |-> 1]
  BY DEF Init
<1>3. IP!IInv /\ InMeets
  BY <1>2, InStart DEF Init, InMeets
<1>4. OP!IInv /\ OutMeets
  BY <1>2, OutStart DEF Init, OutMeets
<1>5. carrying \in [{0, 1} -> 1 .. MaxIter]
  BY <1>2, PipelineAssumption
<1>6. GP!TypeOK
  BY <1>1, PipelineAssumption DEF GP!Init, GP!TypeOK, GP!Bound
<1>7. PlacedInv
  <2>1. /\ truth = [t \in {0, 1} |-> -1] /\ placed = [c \in Chunks |-> -1]
        /\ head = [t \in {0, 1} |-> NoPacket]
        /\ pc = [t \in {0, 1} |-> "poll"] /\ res = [c \in Chunks |-> 0]
    BY <1>1 DEF Init, GP!Init, GP!Bound
  <2> QED
    BY <2>1, PipelineAssumption DEF PlacedInv
<1> QED
  BY <1>2, <1>3, <1>4, <1>5, <1>6, <1>7 DEF IInv, StreamsInv

-----------------------------------------------------------------------------
(* A packet is parsed.                                                     *)

\* What the assembly sees of a packet: one more chunk, or a packet to skip.
LEMMA Published ==
  ASSUME IInv, NEW t \in {0, 1}, head[t] = NoPacket,
         NEW index, index = -1 \/ index \in coming[t],
         Show(t, index, index)
  PROVE  /\ G!Source(t) /\ GP!TypeOK' /\ PlacedInv'
         /\ carrying' = carrying
         /\ coming' = [coming EXCEPT ![t] = @ \ {index}]
<1>1. /\ head' = [head EXCEPT ![t] = IF index = -1 THEN Invalid ELSE index]
      /\ truth' = [truth EXCEPT ![t] = index]
      /\ coming' = [coming EXCEPT ![t] = @ \ {index}]
      /\ UNCHANGED <<extractor, carrying, placed>>
  BY DEF Show, Shown
<1>2. /\ coming \in [{0, 1} -> SUBSET Chunks] /\ -1 \notin Chunks
      /\ DOMAIN head = {0, 1}
  <2>1. -1 \notin Chunks
    BY PipelineAssumption DEF Chunks
  <2> QED
    BY <2>1 DEF IInv, StreamsInv, GP!TypeOK, GP!Bound
<1>3. UNCHANGED <<pc, wait_for_next_iter, local_iter_num, reg, UPDATER,
                  UPDATER_FLAG, copy_num, iter_num, res, upc>>
  BY <1>1 DEF extractor
<1>4. G!Source(t)
  <2>1. CASE index = -1
    <3>1. coming' = coming
      BY <1>1, <1>2, <2>1
    <3>2. head' = [head EXCEPT ![t] = Invalid]
      BY <1>1, <2>1
    <3> QED
      BY <1>1, <1>3, <3>1, <3>2 DEF G!Source, G!PublishInvalid, G!thread
  <2>2. CASE index # -1
    <3>1. index \in coming[t]
      BY <2>2
    <3>2. head' = [head EXCEPT ![t] = index]
      BY <1>1, <2>2
    <3>3. \A b \in [u \in {0, 1} |-> {}][t] : b[2] = index => b[1] \notin coming[t]
      OBVIOUS
    <3>4. \E c \in coming[t] :
            /\ \A b \in [u \in {0, 1} |-> {}][t] : b[2] = c => b[1] \notin coming[t]
            /\ head' = [head EXCEPT ![t] = c]
            /\ coming' = [coming EXCEPT ![t] = @ \ {c}]
      BY <1>1, <3>1, <3>2, <3>3
    <3> QED
      BY <1>1, <1>3, <3>4 DEF G!Source, G!PublishChunk, G!thread
  <2> QED
    BY <2>1, <2>2
<1>5. GP!TypeOK'
  <2>1. GP!Source(t) /\ t \in GP!Bound
    BY <1>4, AssemblySteps DEF GP!Bound
  <2>2. [GP!Next]_(GP!vars)
    BY <2>1 DEF GP!Next
  <2> QED
    BY <2>2, StreamsAssumption, GP!TypesKept DEF IInv, StreamsInv
<1>6. PlacedInv'
  <2>1. index \in Chunks \cup {-1}
    BY <1>2
  <2>2. \A u \in {0, 1} : pc[u] \in {"mark", "copy"} => u # t
    BY PipelineAssumption DEF IInv, PlacedInv
  <2>3. Invalid \notin Chunks
    BY PipelineAssumption
  <2> QED
    BY <1>1, <1>2, <1>3, <2>1, <2>2, <2>3 DEF IInv, PlacedInv
<1> QED
  BY <1>1, <1>4, <1>5, <1>6

LEMMA ParseInInv ==
  ASSUME IInv, head[0] = NoPacket, carrying[0] = i_epoch + 1,
         In!DataPacket, Show(0, i_result', i_result'),
         UNCHANGED outbound
  PROVE  IInv' /\ G!Source(0)
<1>1. /\ IP!IInv' /\ i_epoch \in Nat
      /\ i_result' # -1 => i_result' \in IP!ToCome
      /\ \/ /\ i_epoch' = i_epoch
            /\ IP!ToCome' = IP!ToCome \ {i_result'}
         \/ /\ i_epoch' = i_epoch + 1 /\ IP!AtStart'
            /\ IP!ToCome \subseteq {i_result'}
  BY InData DEF IInv, StreamsInv, IP!IInv, IP!TrafficOK
<1>2. coming[0] = IP!ToCome
  BY <1>1 DEF IInv, StreamsInv, InMeets
<1>3. PICK index : index = i_result'
  OBVIOUS
<1>4. index = -1 \/ index \in coming[0]
  BY <1>1, <1>2, <1>3
<1>5. /\ G!Source(0) /\ GP!TypeOK' /\ PlacedInv'
      /\ carrying' = carrying
      /\ coming' = [coming EXCEPT ![0] = @ \ {index}]
  BY <1>3, <1>4, Published
<1>6. /\ coming'[0] = coming[0] \ {index} /\ coming'[1] = coming[1]
      /\ carrying \in [{0, 1} -> 1 .. MaxIter]
  BY <1>5 DEF IInv, StreamsInv, GP!TypeOK, GP!Bound
<1>7. InMeets'
  BY <1>1, <1>2, <1>3, <1>5, <1>6 DEF InMeets
<1>8. OP!IInv' /\ OutMeets'
  BY <1>5, <1>6, OutSame DEF IInv, StreamsInv, OutMeets
<1>9. StreamsCut'
  BY DEF IInv, StreamsInv, StreamsCut, NotSent
<1> QED
  BY <1>1, <1>5, <1>6, <1>7, <1>8, <1>9 DEF IInv, StreamsInv

LEMMA ParseOutInv ==
  ASSUME IInv, head[1] = NoPacket, carrying[1] = o_epoch + 1,
         Out!DataPacket, Show(1, o_result', o_result'),
         UNCHANGED inbound
  PROVE  IInv' /\ G!Source(1)
<1>1. /\ OP!IInv' /\ o_epoch \in Nat
      /\ o_result' # -1 => o_result' \in OP!ToCome
      /\ \/ /\ o_epoch' = o_epoch
            /\ OP!ToCome' = OP!ToCome \ {o_result'}
         \/ /\ o_epoch' = o_epoch + 1 /\ OP!AtStart'
            /\ OP!ToCome \subseteq {o_result'}
  BY OutData DEF IInv, StreamsInv, OP!IInv, OP!TrafficOK
<1>2. coming[1] = OP!ToCome
  BY <1>1 DEF IInv, StreamsInv, OutMeets
<1>3. PICK index : index = o_result'
  OBVIOUS
<1>4. index = -1 \/ index \in coming[1]
  BY <1>1, <1>2, <1>3
<1>5. /\ G!Source(1) /\ GP!TypeOK' /\ PlacedInv'
      /\ carrying' = carrying
      /\ coming' = [coming EXCEPT ![1] = @ \ {index}]
  BY <1>3, <1>4, Published
<1>6. /\ coming'[1] = coming[1] \ {index} /\ coming'[0] = coming[0]
      /\ carrying \in [{0, 1} -> 1 .. MaxIter]
  BY <1>5 DEF IInv, StreamsInv, GP!TypeOK, GP!Bound
<1>7. OutMeets'
  BY <1>1, <1>2, <1>3, <1>5, <1>6 DEF OutMeets
<1>8. IP!IInv' /\ InMeets'
  BY <1>5, <1>6, InSame DEF IInv, StreamsInv, InMeets
<1>9. StreamsCut'
  BY DEF IInv, StreamsInv, StreamsCut, NotSent
<1> QED
  BY <1>1, <1>5, <1>6, <1>7, <1>8, <1>9 DEF IInv, StreamsInv

LEMMA ParseBroadcastInv ==
  ASSUME IInv, head[0] = NoPacket, In!BroadcastPacket,
         Show(0, i_result', -1), UNCHANGED outbound
  PROVE  IInv' /\ G!Source(0)
<1>1. /\ IP!IInv' /\ IP!ToCome' = IP!ToCome
      /\ IP!AtStart' = IP!AtStart /\ i_epoch' = i_epoch /\ i_result' = -1
  BY InBroadcast DEF IInv, StreamsInv
<1>2. PICK index : index = -1
  OBVIOUS
<1>3. Show(0, index, index)
  BY <1>1, <1>2
<1>4. /\ G!Source(0) /\ GP!TypeOK' /\ PlacedInv'
      /\ carrying' = carrying
      /\ coming' = [coming EXCEPT ![0] = @ \ {index}]
  BY <1>2, <1>3, Published
<1>5. coming' = coming
  <2>1. coming \in [{0, 1} -> SUBSET Chunks]
    BY DEF IInv, StreamsInv, GP!TypeOK, GP!Bound
  <2>2. index \notin Chunks
    BY <1>2, PipelineAssumption DEF Chunks
  <2> QED
    BY <1>4, <2>1, <2>2
<1>6. InMeets'
  BY <1>1, <1>4, <1>5 DEF IInv, StreamsInv, InMeets
<1>7. OP!IInv' /\ OutMeets'
  BY <1>4, <1>5, OutSame DEF IInv, StreamsInv, OutMeets
<1>8. StreamsCut'
  BY DEF IInv, StreamsInv, StreamsCut, NotSent
<1> QED
  BY <1>1, <1>4, <1>6, <1>7, <1>8 DEF IInv, StreamsInv

LEMMA ParseInboundInv ==
  ASSUME IInv, ParseInbound
  PROVE  IInv' /\ G!Source(0)
<1>1. head[0] = NoPacket /\ UNCHANGED outbound
  BY DEF ParseInbound
<1>2. CASE /\ carrying[0] = i_epoch + 1 /\ In!DataPacket
           /\ Show(0, i_result', IF In!IsFinal(i_k) THEN In!Place ELSE -1)
  <2>1. i_result' = IF In!IsFinal(i_k) THEN In!Place ELSE -1
    BY <1>2, InData DEF IInv, StreamsInv
  <2> QED
    BY <1>1, <1>2, <2>1, ParseInInv
<1>3. CASE In!BroadcastPacket /\ Show(0, i_result', -1)
  BY <1>1, <1>3, ParseBroadcastInv
<1> QED
  BY <1>2, <1>3 DEF ParseInbound

LEMMA ParseOutboundInv ==
  ASSUME IInv, ParseOutbound
  PROVE  IInv' /\ G!Source(1)
<1>1. head[1] = NoPacket /\ UNCHANGED inbound
  BY DEF ParseOutbound
<1>2. /\ carrying[1] = o_epoch + 1 /\ Out!DataPacket
      /\ Show(1, o_result', IF Out!IsFinal(o_k) THEN Out!Place ELSE -1)
  BY DEF ParseOutbound
<1>3. o_result' = IF Out!IsFinal(o_k) THEN Out!Place ELSE -1
  BY <1>2, OutData DEF IInv, StreamsInv
<1> QED
  BY <1>1, <1>2, <1>3, ParseOutInv

-----------------------------------------------------------------------------
(* The other steps leave the parsers alone.                                *)

LEMMA ParsersSame ==
  ASSUME IInv, UNCHANGED <<inbound, outbound, coming, carrying>>, GP!TypeOK'
  PROVE  StreamsInv'
<1>1. IP!IInv' /\ InMeets'
  BY InSame DEF IInv, StreamsInv, InMeets
<1>2. OP!IInv' /\ OutMeets'
  BY OutSame DEF IInv, StreamsInv, OutMeets
<1>3. StreamsCut'
  BY DEF IInv, StreamsInv, StreamsCut, NotSent
<1> QED
  BY <1>1, <1>2, <1>3 DEF IInv, StreamsInv

\* Nothing is left of the iteration whose packets the parser has all seen.
LEMMA NextIterationInv ==
  ASSUME IInv, NEW t \in {0, 1}, NextIteration(t)
  PROVE  IInv' /\ G!Source(t)
<1>1. /\ head[t] = NoPacket /\ carrying[t] < MaxIter
      /\ carrying[t] = IF t = 0 THEN i_epoch ELSE o_epoch
      /\ carrying' = [carrying EXCEPT ![t] = @ + 1]
      /\ coming' = [coming EXCEPT ![t] = @ \cup Own[t]]
      /\ UNCHANGED <<inbound, outbound, head, extractor, truth, placed>>
  BY DEF NextIteration
<1>2. /\ carrying \in [{0, 1} -> 1 .. MaxIter] /\ MaxIter \in Nat
      /\ coming \in [{0, 1} -> SUBSET Chunks]
      /\ i_epoch \in Nat /\ o_epoch \in Nat
  BY PipelineAssumption
  DEF IInv, StreamsInv, GP!TypeOK, GP!Bound, IP!IInv, OP!IInv,
      IP!TrafficOK, OP!TrafficOK
<1>3. coming[t] = {} /\ (t = 0 => IP!AtStart) /\ (t = 1 => OP!AtStart)
  BY <1>1, <1>2 DEF IInv, StreamsInv, InMeets, OutMeets
<1>4. coming' = [coming EXCEPT ![t] = Own[t]]
  BY <1>1, <1>2, <1>3
<1>5. G!Source(t)
  <2>1. carrying[t] + 1 # 1
    BY <1>2
  <2>2. G!Share(carrying[t] + 1, t) = Own[t]
    BY <2>1 DEF G!Share
  <2>3. UNCHANGED <<pc, wait_for_next_iter, local_iter_num, reg, UPDATER,
                    UPDATER_FLAG, copy_num, iter_num, res, upc>>
    BY <1>1 DEF extractor
  <2> QED
    BY <1>1, <1>3, <1>4, <2>2, <2>3 DEF G!Source, G!NextSource, G!thread
<1>6. GP!TypeOK'
  <2>1. GP!Source(t) /\ t \in GP!Bound
    BY <1>5, AssemblySteps DEF GP!Bound
  <2>2. [GP!Next]_(GP!vars)
    BY <2>1 DEF GP!Next
  <2> QED
    BY <2>2, StreamsAssumption, GP!TypesKept DEF IInv, StreamsInv
<1>7. carrying' \in [{0, 1} -> 1 .. MaxIter]
  <2>1. carrying[t] + 1 \in 1 .. MaxIter
    BY <1>1, <1>2
  <2> QED
    BY <1>1, <1>2, <2>1
<1>8. PlacedInv'
  BY <1>1 DEF IInv, PlacedInv, extractor
<1>9. /\ IP!IInv' /\ IP!ToCome' = IP!ToCome
      /\ IP!AtStart' = IP!AtStart /\ i_epoch' = i_epoch
      /\ OP!IInv' /\ OP!ToCome' = OP!ToCome
      /\ OP!AtStart' = OP!AtStart /\ o_epoch' = o_epoch
  BY <1>1, InSame, OutSame DEF IInv, StreamsInv
<1>10. InMeets'
  <2>1. CASE t = 0
    <3>1. /\ carrying'[0] = i_epoch + 1 /\ coming'[0] = Own[0]
          /\ i_epoch \in Nat \ {0}
      BY <1>1, <1>2, <1>4, <2>1
    <3>2. IP!ToCome = Own[0]
      BY <1>3, <2>1, <3>1, InAssumption, IP!StartFacts, InShares
      DEF IInv, StreamsInv, IP!IInv
    <3> QED
      BY <1>9, <3>1, <3>2 DEF InMeets
  <2>2. CASE t = 1
    <3>1. carrying'[0] = carrying[0] /\ coming'[0] = coming[0]
      BY <1>1, <1>2, <2>2
    <3> QED
      BY <1>9, <3>1 DEF IInv, StreamsInv, InMeets
  <2> QED
    BY <2>1, <2>2
<1>11. OutMeets'
  <2>1. CASE t = 1
    <3>1. /\ carrying'[1] = o_epoch + 1 /\ coming'[1] = Own[1]
          /\ o_epoch \in Nat \ {0}
      BY <1>1, <1>2, <1>4, <2>1
    <3>2. OP!ToCome = Own[1]
      BY <1>3, <2>1, <3>1, OutAssumption, OP!StartFacts, OutShares
      DEF IInv, StreamsInv, OP!IInv
    <3> QED
      BY <1>9, <3>1, <3>2 DEF OutMeets
  <2>2. CASE t = 0
    <3>1. carrying'[1] = carrying[1] /\ coming'[1] = coming[1]
      BY <1>1, <1>2, <2>2
    <3> QED
      BY <1>9, <3>1 DEF IInv, StreamsInv, OutMeets
  <2> QED
    BY <2>1, <2>2
<1>12. StreamsCut'
  BY DEF IInv, StreamsInv, StreamsCut, NotSent
<1> QED
  BY <1>5, <1>6, <1>7, <1>8, <1>9, <1>10, <1>11, <1>12 DEF IInv, StreamsInv

\* The payload copied to a position is the one the ring shows.
LEMMA ExtractInv ==
  ASSUME IInv, NEW t \in {0, 1}, Extract(t)
  PROVE  IInv' /\ G!Step(t)
<1>1. /\ UNCHANGED <<inbound, outbound, coming, carrying, truth>>
      /\ G!Step(t)
      /\ placed' = IF pc[t] = "copy" THEN [placed EXCEPT ![head[t]] = truth[t]]
                   ELSE placed
  BY DEF Extract
<1>2. GP!TypeOK'
  <2>1. GP!Step(t) /\ t \in GP!Bound
    BY <1>1, AssemblySteps DEF GP!Bound
  <2>2. [GP!Next]_(GP!vars)
    BY <2>1 DEF GP!Next
  <2> QED
    BY <2>2, StreamsAssumption, GP!TypesKept DEF IInv, StreamsInv
<1>3. PlacedInv'
  <2>1. /\ head \in [{0, 1} -> Chunks \cup {NoPacket, Invalid}]
        /\ DOMAIN pc = {0, 1} /\ DOMAIN res = Chunks
        /\ NoPacket \notin Chunks
    BY PipelineAssumption DEF IInv, StreamsInv, GP!TypeOK, GP!Bound
  <2> USE DEF G!stream, G!thread, G!Reading
  <2>2. CASE G!SkipInvalid(t) \/ G!Test(t)
    <3>1. pc[t] = "poll" /\ res' = res
          /\ \/ head' = head /\ pc' = [pc EXCEPT ![t] = "mark"] /\ head[t] \in Chunks
             \/ head' = [head EXCEPT ![t] = NoPacket] /\ pc' = pc
      BY <2>2
      DEF G!SkipInvalid, G!Test, G!ToMark, G!PassOver, G!Consume
    <3> QED
      BY <1>1, <2>1, <3>1 DEF IInv, PlacedInv
  <2>3. CASE G!Mark(t)
    <3>1. /\ pc[t] = "mark" /\ res' = res /\ head' = head
          /\ pc' = [pc EXCEPT ![t] = "copy"]
      BY <2>3 DEF G!Mark
    <3> QED
      BY <1>1, <2>1, <3>1 DEF IInv, PlacedInv
  <2>4. CASE G!Copy(t)
    <3>1. /\ pc[t] = "copy" /\ res' = [res EXCEPT ![head[t]] = carrying[t]]
          /\ head' = head /\ pc' = [pc EXCEPT ![t] = "load"]
      BY <2>4 DEF G!Copy
    <3>2. head[t] \in Chunks /\ truth[t] = head[t]
      BY <3>1 DEF IInv, PlacedInv
    <3>3. placed' = [placed EXCEPT ![head[t]] = head[t]]
      BY <1>1, <3>1, <3>2
    <3>4. \A c \in Chunks : res'[c] # 0 => placed'[c] = c
      BY <2>1, <3>1, <3>2, <3>3 DEF IInv, PlacedInv
    <3> QED
      BY <1>1, <2>1, <3>1, <3>2, <3>3, <3>4 DEF IInv, PlacedInv
  <2>5. CASE G!LoadCount(t) \/ G!FillZero(t) \/ G!RaiseFlag(t) \/ G!SpinDone(t)
             \/ G!Wake(t)
    <3>1. /\ pc[t] # "copy" /\ res' = res /\ head' = head
          /\ \E l \in {"store", "flag", "poll", "fill", "spin"} :
               pc' = [pc EXCEPT ![t] = l]
      BY <2>5
      DEF G!LoadCount, G!FillZero, G!RaiseFlag, G!SpinDone, G!Wake
    <3> QED
      BY <1>1, <2>1, <3>1 DEF IInv, PlacedInv
  <2>6. CASE G!StoreCount(t)
    <3>1. /\ pc[t] = "store" /\ res' = res
          /\ head' = [head EXCEPT ![t] = NoPacket]
          /\ pc' = [pc EXCEPT ![t] = "poll"]
      BY <2>6 DEF G!StoreCount, G!Consume
    <3> QED
      BY <1>1, <2>1, <3>1 DEF IInv, PlacedInv
  <2> QED
    BY <1>1, <2>2, <2>3, <2>4, <2>5, <2>6 DEF G!Step
<1> QED
  BY <1>1, <1>2, <1>3, ParsersSame DEF IInv

LEMMA UpdateInv ==
  ASSUME IInv, Update
  PROVE  IInv' /\ G!Updater
<1>1. UNCHANGED <<inbound, outbound, coming, carrying, truth, placed>>
      /\ G!Updater
  BY DEF Update, aux
<1>2. UNCHANGED <<head, pc, res>>
  BY <1>1
  DEF G!Updater, G!PollReady, G!ClearCounts, G!BumpIter, G!OptimizerDone,
      G!stream, G!thread
<1>3. GP!TypeOK'
  <2>1. [GP!Next]_(GP!vars)
    BY <1>1, AssemblySteps DEF GP!Next
  <2> QED
    BY <2>1, StreamsAssumption, GP!TypesKept DEF IInv, StreamsInv
<1>4. PlacedInv'
  BY <1>1, <1>2 DEF IInv, PlacedInv
<1> QED
  BY <1>1, <1>3, <1>4, ParsersSame DEF IInv

LEMMA StutterInv ==
  ASSUME IInv, UNCHANGED vars
  PROVE  IInv' /\ UNCHANGED G!vars
<1>1. /\ UNCHANGED <<inbound, outbound, head, coming, carrying, truth, placed>>
      /\ UNCHANGED <<pc, wait_for_next_iter, local_iter_num, reg, UPDATER,
                     UPDATER_FLAG, copy_num, iter_num, res, upc>>
  BY DEF vars, extractor, aux
<1>2. UNCHANGED G!vars
  BY <1>1 DEF G!vars
<1>3. GP!TypeOK'
  BY <1>1 DEF IInv, StreamsInv, GP!TypeOK
<1>4. PlacedInv'
  BY <1>1 DEF IInv, PlacedInv
<1> QED
  BY <1>1, <1>2, <1>3, <1>4, ParsersSame DEF IInv

\* Each step keeps the invariant and is a step of GradientAssembly.
LEMMA NextInv ==
  ASSUME IInv, [Next]_vars
  PROVE  IInv' /\ [G!Next]_(G!vars)
<1>1. CASE ParseInbound
  BY <1>1, ParseInboundInv DEF G!Next, G!Bound
<1>2. CASE ParseOutbound
  BY <1>2, ParseOutboundInv DEF G!Next, G!Bound
<1>3. ASSUME NEW t \in {0, 1}, NextIteration(t)
      PROVE  IInv' /\ [G!Next]_(G!vars)
  BY <1>3, NextIterationInv DEF G!Next, G!Bound
<1>4. ASSUME NEW t \in {0, 1}, Extract(t)
      PROVE  IInv' /\ [G!Next]_(G!vars)
  BY <1>4, ExtractInv DEF G!Next, G!Bound
<1>5. CASE Update
  BY <1>5, UpdateInv DEF G!Next
<1>6. CASE UNCHANGED vars
  BY <1>6, StutterInv
<1> QED
  BY <1>1, <1>2, <1>3, <1>4, <1>5, <1>6 DEF Next

-----------------------------------------------------------------------------
(* With two nodes and even chunks the two streams share the gradient.      *)

\* The builds for which the threads get exactly what they wait for.
EvenRingOfTwo == Build.ring = 2 /\ In!EvenChunks /\ SizesAgree

\* Each position is in one chunk, so what one stream leaves out is what the
\* other carries.
LEMMA SharesDivide ==
  ASSUME IP!BuildOK, OP!BuildOK, Build.ring = 2, NEW e \in Nat
  PROVE  /\ IP!Sent(e) \cup OP!Sent(e) = Chunks
         /\ IP!Sent(e) \cap OP!Sent(e) = {}
<1>1. Chunks = 0 .. IP!DATA_LENGTH - 1 /\ Chunks = 0 .. OP!DATA_LENGTH - 1
  BY DEF Chunks, IP!DATA_LENGTH, IP!Length, OP!DATA_LENGTH, OP!Length
<1>2. IP!RING_NUMS = 2 /\ IP!Unsent = 1 /\ OP!Unsent = 0
  BY DEF IP!RING_NUMS, OP!RING_NUMS, IP!Unsent, OP!Unsent, IP!Rank, OP!Rank
<1>3. /\ IP!Sent(e) = Chunks \ IP!ChunkPositions(e, 1)
      /\ OP!Sent(e) = Chunks \ IP!ChunkPositions(e, 0)
  BY <1>1, <1>2, InAssumption, OutAssumption, IP!SentIsShare, OP!SentIsShare,
     DirectionsAlike
<1>4. ASSUME NEW x \in Chunks
      PROVE  x \in IP!ChunkPositions(e, 0) <=> x \notin IP!ChunkPositions(e, 1)
  <2>1. PICK n, tr, c, q : /\ IP!Tile(e, n, tr, c, q)
                           /\ x = IP!ChunkStart(e, n, tr, c) + q
    BY <1>1, InAssumption, IP!PlaceExists
  <2>2. c \in {0, 1}
    BY <1>2, <2>1 DEF IP!Tile
  <2>3. /\ 0 \in 0 .. IP!RING_NUMS - 1 /\ 1 \in 0 .. IP!RING_NUMS - 1
    BY <1>2
  <2>4. ASSUME NEW d \in {0, 1}
        PROVE  x \in IP!ChunkPositions(e, d) <=>
                 \E n2, t2, q2 : /\ IP!Tile(e, n2, t2, d, q2)
                                 /\ x = IP!ChunkStart(e, n2, t2, d) + q2
    BY <2>3, InAssumption, IP!PositionsOfChunk
  <2>5. x \in IP!ChunkPositions(e, c)
    BY <2>1, <2>2, <2>4
  <2>6. ASSUME NEW d \in {0, 1}, x \in IP!ChunkPositions(e, d)
        PROVE  d = c
    <3>1. PICK n2, t2, q2 : /\ IP!Tile(e, n2, t2, d, q2)
                            /\ x = IP!ChunkStart(e, n2, t2, d) + q2
      BY <2>4, <2>6
    <3> QED
      BY <2>1, <3>1, InAssumption, IP!PlaceUnique
  <2> QED
    BY <2>2, <2>5, <2>6
<1> QED
  BY <1>3, <1>4

\* What GradientAssembly asks of its streams is true of what the parsers of
\* an even build for two nodes report.
LEMMA StreamsMatch ==
  ASSUME IP!BuildOK, OP!BuildOK, StreamsCut, EvenRingOfTwo
  PROVE  GP!Matched
<1>1. /\ OwnFirst[0] = IP!Sent(0) /\ OwnFirst[1] = OP!Sent(0)
      /\ Own[0] = IP!Sent(1) /\ Own[1] = OP!Sent(1)
  BY InShares, OutShares
<1>2. /\ Build.ring = 2 /\ IP!EvenChunks /\ OP!EvenChunks
  BY InEven, DirectionsAlike DEF EvenRingOfTwo
<1>3. /\ \A S : IP!Cardinality(S) = GP!Cardinality(S)
      /\ \A S : OP!Cardinality(S) = GP!Cardinality(S)
      /\ \A S : Cardinality(S) = GP!Cardinality(S)
  BY DEF IP!Cardinality, OP!Cardinality, GP!Cardinality, Cardinality
<1>4. /\ Build.length[0] \in Nat \ {0}
      /\ GP!Cardinality(Chunks) = Build.length[0]
  <2>1. Build.length[0] \in Nat \ {0}
    BY PipelineAssumption
  <2>2. 0 \in Int /\ Build.length[0] - 1 \in Int /\ ~(0 > Build.length[0] - 1)
    BY <2>1
  <2>3. Cardinality(Chunks) = Build.length[0] - 1 - 0 + 1
    BY <2>2, FS_Interval DEF Chunks
  <2> QED
    BY <1>3, <2>1, <2>3
<1>5. GP!Limit = (Build.length[0] \div 2) * (2 - 1)
  BY <1>2, <1>4 DEF GP!Limit, GP!CHUNK_NUMS
<1>6. \A e \in Nat : /\ GP!Cardinality(IP!Sent(e)) = GP!Limit
                     /\ GP!Cardinality(OP!Sent(e)) = GP!Limit
  <2>1. \A e \in Nat : IP!Cardinality(IP!Sent(e)) =
                         (Build.length[0] \div Build.ring) * (Build.ring - 1)
    BY <1>2, InAssumption, IP!SentCount
    DEF IP!DATA_LENGTH, IP!Length, IP!RING_NUMS
  <2>2. \A e \in Nat : OP!Cardinality(OP!Sent(e)) =
                         (Build.length[0] \div Build.ring) * (Build.ring - 1)
    BY <1>2, OutAssumption, OP!SentCount
    DEF OP!DATA_LENGTH, OP!Length, OP!RING_NUMS
  <2> QED
    BY <1>2, <1>3, <1>5, <2>1, <2>2
<1>7. \A e \in Nat : /\ IP!Sent(e) \cup OP!Sent(e) = Chunks
                     /\ IP!Sent(e) \cap OP!Sent(e) = {}
  BY <1>2, SharesDivide
<1>8. GP!Limit > 0
  <2>1. GP!Limit \in Nat /\ (GP!Limit = 0 => Build.length[0] = 1)
    BY <1>4, <1>5
  <2>2. CASE GP!Limit = 0
    <3>1. Cardinality(IP!Sent(0)) = 0 /\ Cardinality(OP!Sent(0)) = 0
      BY <1>3, <1>6, <2>2
    <3>2. Chunks = {0}
      BY <2>1, <2>2 DEF Chunks
    <3>3. IsFiniteSet(Chunks)
      BY <3>2, FS_Singleton
    <3>4. IP!Sent(0) \subseteq Chunks /\ OP!Sent(0) \subseteq Chunks
      BY <1>7
    <3>5. IsFiniteSet(IP!Sent(0)) /\ IsFiniteSet(OP!Sent(0))
      BY <3>3, <3>4, FS_Subset
    <3>6. IP!Sent(0) = {} /\ OP!Sent(0) = {}
      BY <3>1, <3>5, FS_EmptySet
    <3> QED
      BY <1>7, <3>2, <3>6
  <2> QED
    BY <2>1, <2>2
<1> QED
  BY <1>1, <1>6, <1>7, <1>8 DEF GP!Matched, GP!Bound

-----------------------------------------------------------------------------
(* The theorems.                                                           *)

\* The inductive invariant holds in every reachable state, if the sizes of
\* the build are those the senders cut.
THEOREM PipelineInvariant == SizesAgree => (Spec => []IInv)
<1> SUFFICES ASSUME SizesAgree PROVE Spec => []IInv
  OBVIOUS
<1>1. Init => IInv
  BY InitInv
<1>2. IInv /\ [Next]_vars => IInv'
  BY NextInv
<1> QED
  BY <1>1, <1>2, PTL DEF Spec

\* What the two parsers report are streams as GradientAssembly has them:
\* whatever the parsers and the threads do in whatever order, each step is a
\* step of GradientAssembly or leaves all of its variables alone.
THEOREM PipelineImplementsAssembly == SizesAgree => (Spec => AssemblySpec)
<1> SUFFICES ASSUME SizesAgree PROVE Spec => AssemblySpec
  OBVIOUS
<1>1. Init => G!Init
  BY DEF Init
<1>2. IInv /\ [Next]_vars => [G!Next]_(G!vars)
  BY NextInv
<1> QED
  BY <1>1, <1>2, PipelineInvariant, PTL DEF Spec, AssemblySpec, G!Spec

\* Every variable keeps its type, those of the three parts included.
THEOREM PipelineTypeCorrect == SizesAgree => (Spec => []PipelineTypeOK)
<1> SUFFICES ASSUME SizesAgree PROVE Spec => []PipelineTypeOK
  OBVIOUS
<1>1. IInv => PipelineTypeOK
  <2> SUFFICES ASSUME IInv PROVE PipelineTypeOK
    OBVIOUS
  <2>1. In!TypeOK /\ Out!TypeOK
    BY InTypes, OutTypes, InAssumption, OutAssumption, IP!IInvTypes, OP!IInvTypes
    DEF IInv, StreamsInv
  <2>2. G!TypeOK
    BY DEF IInv, StreamsInv, GP!TypeOK, G!TypeOK, GP!Bound, G!Bound
  <2> QED
    BY <2>1, <2>2 DEF PipelineTypeOK, IInv, StreamsInv, PlacedInv
<1> QED
  BY <1>1, PipelineInvariant, PTL

LEMMA InvMatches == IInv /\ EvenRingOfTwo => GP!Matched
BY StreamsMatch DEF IInv, StreamsInv, IP!IInv, OP!IInv

\* GradientAssembly brings its own invariant along.
LEMMA AssemblyHolds == EvenRingOfTwo => (Spec => []GP!IInv)
<1> SUFFICES ASSUME EvenRingOfTwo PROVE Spec => []GP!IInv
  OBVIOUS
<1> SizesAgree
  BY DEF EvenRingOfTwo
<1>1. Init => GP!IInv
  <2> SUFFICES ASSUME Init PROVE GP!IInv
    OBVIOUS
  <2>1. GP!Init
    BY AssemblyInit DEF Init
  <2> QED
    BY <2>1, InitInv, InvMatches, StreamsAssumption, GP!InitInv
<1>2. IInv /\ GP!IInv /\ [Next]_vars => GP!IInv'
  <2> SUFFICES ASSUME IInv, GP!IInv, [Next]_vars PROVE GP!IInv'
    OBVIOUS
  <2>1. [GP!Next]_(GP!vars)
    BY NextInv, AssemblyNext
  <2> QED
    BY <2>1, InvMatches, StreamsAssumption, GP!NextInv
<1> QED
  BY <1>1, <1>2, PipelineInvariant, PTL DEF Spec

\* End to end: when a gradient is handed over, every position of the result
\* memory holds the final sum that belongs there, of the iteration handed
\* over, in whatever order the steps are taken and for every build cut evenly
\* for two nodes.
THEOREM GradientIsInPlace == EvenRingOfTwo => (Spec => []GradientInPlace)
<1> SUFFICES ASSUME EvenRingOfTwo PROVE Spec => []GradientInPlace
  OBVIOUS
<1> SizesAgree
  BY DEF EvenRingOfTwo
<1>1. IInv /\ GP!IInv => GradientInPlace
  <2> SUFFICES ASSUME IInv, GP!IInv, upc \in {"clear", "bump"},
                      NEW c \in Chunks
               PROVE  res[c] = iter_num + 1 /\ placed[c] = c
    BY DEF GradientInPlace
  <2>1. PICK t \in GP!Bound : c \in GP!Due(t)
    BY InvMatches, StreamsAssumption, GP!DueFacts
  <2>2. res[c] = iter_num + 1
    BY <2>1
    DEF GP!IInv, GP!UpdaterInv, GP!Full, GP!ThreadInv, GP!ResInv
  <2>3. iter_num \in Nat
    BY DEF IInv, StreamsInv, GP!TypeOK
  <2> QED
    BY <2>2, <2>3 DEF IInv, PlacedInv
<1> QED
  BY <1>1, PipelineInvariant, AssemblyHolds, PTL

\* When the traffic has ended and every ring is read, the last gradient has
\* been handed over or both threads are full and it is about to be.
THEOREM NothingIsStranded == EvenRingOfTwo => (Spec => []NothingStranded)
<1> SUFFICES ASSUME EvenRingOfTwo PROVE Spec => []NothingStranded
  OBVIOUS
<1> SizesAgree
  BY DEF EvenRingOfTwo
<1>1. IInv /\ GP!IInv => NothingStranded
  <2> SUFFICES ASSUME IInv, GP!IInv,
                      i_epoch = MaxIter, o_epoch = MaxIter,
                      \A t \in {0, 1} : head[t] = NoPacket /\ pc[t] = "poll",
                      upc = "poll"
               PROVE  iter_num = MaxIter \/ (iter_num = MaxIter - 1 /\ GP!Ready)
    BY AssemblyNames DEF NothingStranded
  <2>1. /\ MaxIter \in Nat /\ iter_num \in Nat
        /\ \A t \in {0, 1} : carrying[t] \in 1 .. MaxIter
        /\ \A t \in {0, 1} : local_iter_num[t] \in Nat
    BY PipelineAssumption DEF IInv, StreamsInv, GP!TypeOK, GP!Bound
  <2>2. \A t \in {0, 1} : carrying[t] = MaxIter /\ coming[t] = {}
    BY <2>1 DEF IInv, StreamsInv, InMeets, OutMeets
  <2>3. ASSUME NEW t \in {0, 1}
        PROVE  \/ iter_num = MaxIter
               \/ iter_num = MaxIter - 1 /\ GP!Full(t)
    <3>1. t \in GP!Bound /\ GP!ThreadInv(t)
      BY DEF GP!IInv, GP!Bound
    <3>2. /\ GP!Share(MaxIter, t) # {} /\ NoPacket \notin GP!Share(MaxIter, t)
      BY <3>1, InvMatches, StreamsAssumption, GP!ShareFacts
    <3>3. ~GP!AllToCome(t)
      BY <2>2, <3>2 DEF GP!AllToCome
    <3>4. CASE wait_for_next_iter[t]
      <4>1. /\ GP!Full(t) \/ GP!Stale(t)
            /\ carrying[t] = local_iter_num[t] + 1
        BY <3>1, <3>3, <3>4 DEF GP!ThreadInv, GP!WaitingInv
      <4> QED
        BY <2>1, <2>2, <4>1 DEF GP!Full, GP!Stale
    <3>5. CASE ~wait_for_next_iter[t]
      <4>1. /\ local_iter_num[t] = iter_num
            /\ carrying[t] = iter_num \/ carrying[t] = iter_num + 1
            /\ GP!Taken(t) # GP!Due(t)
        BY <3>1, <3>5 DEF GP!ThreadInv, GP!CollectingInv
      <4>2. carrying[t] # iter_num + 1
        <5> SUFFICES ASSUME carrying[t] = iter_num + 1 PROVE FALSE
          OBVIOUS
        <5>1. GP!Taken(t) = GP!Share(MaxIter, t)
          BY <2>1, <2>2, <3>2, <4>1 DEF GP!Taken
        <5>2. GP!Due(t) = GP!Share(MaxIter, t)
          BY <2>2 DEF GP!Due
        <5> QED
          BY <4>1, <5>1, <5>2
      <4> QED
        BY <2>2, <4>1, <4>2
    <3> QED
      BY <3>4, <3>5
  <2>4. CASE iter_num # MaxIter
    <3>1. iter_num = MaxIter - 1 /\ GP!Full(0) /\ GP!Full(1)
      BY <2>3, <2>4
    <3>2. copy_num[0] = GP!Limit /\ copy_num[1] = GP!Limit
      BY <3>1 DEF GP!IInv, GP!ThreadInv, GP!CountInv, GP!Bound, GP!Full
    <3>3. GP!Limit \in Nat /\ GP!CHUNK_NUMS = 2 * GP!Limit
      BY InvMatches, StreamsAssumption, GP!LimitFacts
    <3> QED
      BY <3>1, <3>2, <3>3 DEF GP!Ready
  <2> QED
    BY <2>4
<1> QED
  BY <1>1, PipelineInvariant, AssemblyHolds, PTL

\* From the packets to the abstract checkpoint: an even build for two nodes
\* assembles each iteration once, and hands it over whole and in order.
THEOREM PipelineImplementsCheckpoint ==
  EvenRingOfTwo => (Spec => GP!CheckpointSpec)
<1> SUFFICES ASSUME EvenRingOfTwo PROVE Spec => GP!CheckpointSpec
  OBVIOUS
<1> SizesAgree
  BY DEF EvenRingOfTwo
<1>1. Init => GP!Init /\ GP!Matched
  <2> SUFFICES ASSUME Init PROVE GP!Init /\ GP!Matched
    OBVIOUS
  <2>1. GP!Matched
    BY InitInv, InvMatches
  <2> QED
    BY <2>1, AssemblyInit DEF Init
<1>2. IInv /\ [Next]_vars => [GP!Next]_(GP!vars)
  BY NextInv, AssemblyNext
<1>3. GP!Matched => (GP!Spec => GP!CheckpointSpec)
  BY StreamsAssumption, GP!AssemblyImplementsCheckpoint
<1> QED
  BY <1>1, <1>2, <1>3, PipelineInvariant, PTL DEF Spec, GP!Spec

=============================================================================
