------------------------------- MODULE Decode -------------------------------
(***************************************************************************)
(* The Packet Parser's decode_hex: it counts the RDMA packets of one       *)
(* mirrored direction of a ring all-reduce and computes from the counts    *)
(* alone where in the gradient each payload belongs.  The traffic carries  *)
(* no positions: a lost or miscounted packet is never noticed.             *)
(*                                                                         *)
(* Lengths are in payloads of MTU bytes (MTU / 8 = 128 elements).  The     *)
(* traffic is external: a broadcast, a first iteration that reduces the    *)
(* whole gradient as one bucket, a second broadcast, then iterations that  *)
(* reduce RDMA_nums buckets from the last to the first.  A bucket goes in  *)
(* transfers ("trans") of RING_NUMS chunks; in each the node sends         *)
(* 2 * (RING_NUMS - 1) chunks, the first RING_NUMS - 1 partial sums, the   *)
(* others final.                                                           *)
(***************************************************************************)
EXTENDS Integers, FiniteSets

CONSTANTS
  Builds,       \* compile-time parameters of a parser, see BuildAssumption
  BC_LENGTH,    \* payload of the first broadcast, inbound
  BC_LENGTH2,   \* payload of the second one, inbound, but for its first packet
  LossyOps,     \* opcodes of data packets the mirror may lose (environment)
  MaxFirstLost, \* bound: first packets of chunks it loses
  MaxIter       \* bound: iterations of the training

\* A ring has two nodes at least; the second broadcast is announced by its
\* first packet, so there is one.  All of a build but cut is compiled into the
\* parser; cut is how the sender cuts the last transfer of a bucket.
ASSUME BuildAssumption ==
  /\ \A b \in Builds : /\ b.ring \in Nat \ {0, 1}
                       /\ b.piece \in Nat \ {0} /\ b.grain \in Nat \ {0}
                       /\ b.length \in [0 .. 4 -> Nat \ {0}]
                       /\ b.cut \in [0 .. 4 -> Nat]
  /\ BC_LENGTH \in Nat /\ BC_LENGTH2 \in Nat \ {0}

VARIABLES
  build, dir,              \* which parser this is: never change
  epoch, w, t, k, p,       \* the next data packet: iteration, bucket, trans,
                           \* step of the ring, packet of the chunk
  opening, due,            \* broadcast before it: its first packet, the rest
  intact,                  \* nothing of the current chunk was lost
  clean, got,              \* nothing of the iteration was; what was reported
  behind, upset,           \* first packets lost; one of them in an iteration
                           \* that a broadcast follows
  bc_gather_num, cur_bc_length, iter_num, cur_write_num,
  cur_trans_num, cur_chunk_num, cur_pac_num,
  chosen,                  \* 0 the whole gradient, 1..4 an RDMA_length
  result                   \* index reported for the last packet, or -1

config == <<build, dir>>
place == <<epoch, w, t, k, p>>
accounts == <<intact, clean, got, behind, upset>>
traffic == <<place, opening, due, accounts>>
counters == <<bc_gather_num, cur_bc_length, iter_num, cur_write_num,
              cur_trans_num, cur_chunk_num, cur_pac_num, chosen>>
vars == <<config, traffic, counters, result>>

-----------------------------------------------------------------------------
(* The constructor: sizes of the transfers of a bucket of kind i.          *)

RING_NUMS == build.ring
Piece == build.piece                 \* 8192 elements: 64 payloads
Grain == build.grain                 \* 8192 bytes: 8 payloads
Length(i) == build.length[i]         \* DATA_LENGTH is that of kind 0
DATA_LENGTH == Length(0)
Sum3 == Length(1) + Length(2) + Length(3)
RDMA_nums == ((DATA_LENGTH - Length(4)) \div Sum3) * 3 + 1

trans_num(i) == Length(i) \div (Piece * RING_NUMS)
last_trans_size(i) == Length(i) % (Piece * RING_NUMS)

\* The size the parser computes for the chunks of a last transfer but the
\* last one: for a short transfer in whole grains, for a longer one in one
\* more, except for the third length; "<" replaces "<=" for the whole gradient.
ChunkInGrains(i, short) ==
  (((last_trans_size(i) \div RING_NUMS) \div Grain) + IF short THEN 0 ELSE 1) * Grain

\* Mutants: one of the two spellings of the condition in all places; the
\* third length is treated as the others are.
ModalStrict(i) == ChunkInGrains(i, last_trans_size(i) < Piece \/ i = 3)
ModalThirdAlike(i) == ChunkInGrains(i, IF i = 0 THEN last_trans_size(i) < Piece
                                       ELSE last_trans_size(i) <= Piece)

modal_chunk_size(i) ==
  ChunkInGrains(i, \/ i = 3
                   \/ IF i = 0 THEN last_trans_size(i) < Piece
                      ELSE last_trans_size(i) <= Piece)

\* Bucket n of an iteration starts here: the buckets fill the gradient from
\* its end, the lengths in turn, and the last one starts at 0.
write_to_data_index[n \in 0 .. RDMA_nums - 1] ==
  IF n = RDMA_nums - 1 THEN 0
  ELSE (IF n = 0 THEN DATA_LENGTH ELSE write_to_data_index[n - 1])
       - Length((n % 3) + 1)

-----------------------------------------------------------------------------
(* The traffic (external).                                                 *)

\* How the sender cuts the last transfer of a bucket of kind i: all chunks but
\* the last have one size, the last gets the rest.  The sizes are data of the
\* job, and not computed from the formulas of the parser.
Cut(i) == build.cut[i]
LastCut(i) == last_trans_size(i) - Cut(i) * (RING_NUMS - 1)

\* The sizes the parser computes are those of the job it is compiled for.
CutsAgree == \A i \in 0 .. 4 : modal_chunk_size(i) = Cut(i)

\* Every transfer has a last part, and every chunk at least two packets: a
\* chunk of one packet would travel under another opcode.
Transmittable ==
  /\ RDMA_nums > 1
  /\ DATA_LENGTH = ((RDMA_nums - 1) \div 3) * Sum3 + Length(4)
  /\ Piece > 1
  /\ \A i \in 0 .. 4 : /\ trans_num(i) >= 1 /\ last_trans_size(i) >= Grain
                       /\ Cut(i) > 1 /\ LastCut(i) > 1

\* The mirrored node is the first of the ring where its sends are mirrored
\* inbound and the last where they are mirrored outbound.
Rank == IF dir = "inbound" THEN 0 ELSE RING_NUMS - 1

\* In step s of a ring all-reduce, node r sends chunk r - 1 - s modulo the
\* number of nodes; from step RING_NUMS - 1 on what it sends is final.
ChunkSent(s) == (Rank + 2 * RING_NUMS - 1 - s) % RING_NUMS
IsFinal(s) == s >= RING_NUMS - 1

Writes(e) == IF e = 0 THEN 1 ELSE RDMA_nums
Kind(e, n) == IF e = 0 THEN 0 ELSE IF n = RDMA_nums - 1 THEN 4 ELSE (n % 3) + 1

ChunkSize(i, n, c) ==
  IF n # trans_num(i) THEN Piece
  ELSE IF c = RING_NUMS - 1 THEN LastCut(i) ELSE Cut(i)

\* The first position of a bucket and of a chunk.
BucketStart(e, n) ==
  IF Kind(e, n) \in {0, 4} THEN 0
  ELSE DATA_LENGTH - (n \div 3) * Sum3
       - (IF n % 3 = 0 THEN Length(1)
          ELSE IF n % 3 = 1 THEN Length(1) + Length(2) ELSE Sum3)

ChunkStart(e, n, tr, c) ==
  BucketStart(e, n) + tr * Piece * RING_NUMS + c * ChunkSize(Kind(e, n), tr, 0)

\* The positions of all the chunks c of an iteration.
Transfers(e) == {x \in (0 .. Writes(e) - 1) \X (0 .. trans_num(0)) :
                   x[2] <= trans_num(Kind(e, x[1]))}
Positions(first, size) == first .. first + size - 1
ChunkPositions(e, c) ==
  UNION {Positions(ChunkStart(e, x[1], x[2], c),
                   ChunkSize(Kind(e, x[1]), x[2], c)) : x \in Transfers(e)}

SizeNow == ChunkSize(Kind(epoch, w), t, ChunkSent(k))
Place == ChunkStart(epoch, w, t, ChunkSent(k)) + p
Op == IF p = 0 THEN 6 ELSE IF p = SizeNow - 1 THEN 9 ELSE 7
AtStart == w = 0 /\ t = 0 /\ k = 0 /\ p = 0

\* On to the next packet of the traffic.
Advance ==
  LET nextP == p + 1 < SizeNow
      nextK == k + 1 < 2 * (RING_NUMS - 1)
      nextT == t + 1 <= trans_num(Kind(epoch, w))
      nextW == w + 1 < Writes(epoch)
      newIteration == ~nextP /\ ~nextK /\ ~nextT /\ ~nextW
  IN  /\ p' = IF nextP THEN p + 1 ELSE 0
      /\ k' = IF nextP THEN k ELSE IF nextK THEN k + 1 ELSE 0
      /\ t' = IF nextP \/ nextK THEN t ELSE IF nextT THEN t + 1 ELSE 0
      /\ w' = IF nextP \/ nextK \/ nextT THEN w ELSE IF nextW THEN w + 1 ELSE 0
      /\ epoch' = IF newIteration THEN epoch + 1 ELSE epoch
      /\ opening' = (newIteration /\ epoch = 0 /\ dir = "inbound")
      /\ due' = IF newIteration /\ epoch = 0 /\ dir = "inbound"
                THEN BC_LENGTH2 ELSE 0

-----------------------------------------------------------------------------
(* decode_hex.                                                             *)

\* Mutants: the second broadcast is taken to be empty; a transfer ends one
\* chunk late; the packet count goes on at a new chunk; the first final chunk
\* is taken for a partial one; two kinds of bucket are swapped.
SecondBroadcastNone == 0
LastChunkLate == 2 * RING_NUMS - 1
PacKept == cur_pac_num + 1
PartialToo(c) == c <= RING_NUMS
NextKindSwapped(n) ==
  IF n = RDMA_nums THEN 1
  ELSE IF n % 3 = 1 THEN 3
  ELSE IF n % 3 = 2 THEN 2
  ELSE IF n = RDMA_nums - 1 THEN 4 ELSE 1

SecondBroadcast == BC_LENGTH2
LastChunk == 2 * (RING_NUMS - 1)
PacAtFirst == 0
Partial(c) == c < RING_NUMS
NextKind(n) ==
  IF n = RDMA_nums THEN 1
  ELSE IF n % 3 = 1 THEN 2
  ELSE IF n % 3 = 2 THEN 3
  ELSE IF n = RDMA_nums - 1 THEN 4 ELSE 1

chunk_id(c) ==
  IF dir = "outbound" THEN (RING_NUMS - 1) - (c % RING_NUMS)
  ELSE IF c = RING_NUMS THEN 0 ELSE 2 * RING_NUMS - c

\* The index the code computes from the counters as they are afterwards.
Reported ==
  IF Partial(cur_chunk_num') THEN -1
  ELSE (IF iter_num' = 0 THEN 0 ELSE write_to_data_index[cur_write_num'])
       + cur_trans_num' * Piece * RING_NUMS
       + chunk_id(cur_chunk_num') *
           (IF cur_trans_num' # trans_num(chosen') THEN Piece
            ELSE modal_chunk_size(chosen'))
       + cur_pac_num'

\* While a broadcast is gathered every packet is only counted.
Gather(size) ==
  /\ bc_gather_num # cur_bc_length
  /\ bc_gather_num' = bc_gather_num + size
  /\ result' = -1
  /\ UNCHANGED <<cur_bc_length, iter_num, cur_write_num, cur_trans_num,
                 cur_chunk_num, cur_pac_num, chosen>>

\* The first iteration is over: only the inbound parser knows of a second
\* broadcast, the first packet of which has brought it here.
SecondIteration ==
  /\ iter_num' = 1
  /\ cur_bc_length' = IF dir = "inbound" THEN SecondBroadcast ELSE cur_bc_length
  /\ bc_gather_num' = IF dir = "inbound" THEN 0 ELSE bc_gather_num
  /\ cur_chunk_num' = IF dir = "inbound" THEN 0 ELSE 1
  /\ chosen' = 1
  /\ UNCHANGED cur_write_num

NextWrite ==
  LET over == cur_write_num + 1 = RDMA_nums IN
  /\ iter_num' = IF over THEN iter_num + 1 ELSE iter_num
  /\ cur_write_num' = IF over THEN 0 ELSE cur_write_num + 1
  /\ chosen' = NextKind(cur_write_num + 1)
  /\ cur_bc_length' = 0
  /\ bc_gather_num' = IF dir = "inbound" THEN 0 ELSE bc_gather_num
  /\ cur_chunk_num' = 1

\* Opcode 6, the first packet of a chunk.
First ==
  LET nextTrans == cur_chunk_num = LastChunk
      nextWrite == nextTrans /\ cur_trans_num + 1 = trans_num(chosen) + 1 IN
  /\ bc_gather_num = cur_bc_length
  /\ IF nextWrite
     THEN /\ cur_trans_num' = 0
          /\ IF iter_num = 0 THEN SecondIteration ELSE NextWrite
     ELSE /\ cur_trans_num' = IF nextTrans THEN cur_trans_num + 1
                                           ELSE cur_trans_num
          /\ cur_chunk_num' = IF nextTrans THEN 1 ELSE cur_chunk_num + 1
          /\ UNCHANGED <<bc_gather_num, cur_bc_length, iter_num,
                         cur_write_num, chosen>>
  /\ cur_pac_num' = PacAtFirst
  /\ result' = Reported

\* Opcodes 7 and 9.
MiddleOrLast ==
  /\ bc_gather_num = cur_bc_length
  /\ cur_pac_num' = cur_pac_num + 1
  /\ UNCHANGED <<bc_gather_num, cur_bc_length, iter_num, cur_write_num,
                 cur_trans_num, cur_chunk_num, chosen>>
  /\ result' = Reported

decode_hex(op, size) ==
  \/ Gather(size)
  \/ op = 6 /\ First
  \/ op \in {7, 9} /\ MiddleOrLast

Init ==
  /\ build \in Builds /\ dir \in {"inbound", "outbound"} /\ Transmittable
  /\ epoch = 0 /\ w = 0 /\ t = 0 /\ k = 0 /\ p = 0
  /\ opening = FALSE
  /\ due = IF dir = "inbound" THEN BC_LENGTH ELSE 0
  /\ intact = TRUE /\ clean = TRUE /\ got = {} /\ behind = 0 /\ upset = FALSE
  /\ bc_gather_num = 0 /\ cur_bc_length = due
  /\ iter_num = 0 /\ cur_write_num = 0
  /\ cur_trans_num = 0 /\ cur_chunk_num = 0 /\ cur_pac_num = 0
  /\ chosen = 0 /\ result = -1

-----------------------------------------------------------------------------
\* A packet of a broadcast; the sizes of its packets add up to its length.
BroadcastPacket ==
  /\ due > 0
  /\ IF opening
     THEN decode_hex(6, 1) /\ opening' = FALSE /\ UNCHANGED due
     ELSE \E op \in {6, 7, 9}, size \in 1 .. due :
            /\ decode_hex(op, size)
            /\ due' = due - size
            /\ UNCHANGED opening
  /\ UNCHANGED place

\* A packet with gradient data.
DataPacket ==
  /\ due = 0 /\ epoch < MaxIter
  /\ decode_hex(Op, 1)
  /\ Advance

\* Acknowledgements, single-packet messages and packets of other nodes.
OtherPacket ==
  /\ result' = -1
  /\ UNCHANGED <<place, opening, due, counters>>

\* Bookkeeping of what was lost and reported, for the properties.
Account(arrives) ==
  /\ intact' = (arrives /\ (p = 0 \/ intact))
  /\ clean' = (arrives /\ (AtStart \/ clean))
  /\ got' = IF ~clean' THEN {}
            ELSE (IF AtStart THEN {} ELSE got)
                 \cup (IF result' = -1 THEN {} ELSE {result'})
  /\ behind' = IF arrives \/ p # 0 THEN behind ELSE behind + 1
  /\ upset' = (upset \/ (~arrives /\ p = 0 /\ epoch = 0 /\ dir = "inbound"))

Broadcast ==
  /\ BroadcastPacket
  /\ UNCHANGED <<config, accounts>>

Data ==
  /\ DataPacket
  /\ Account(TRUE)
  /\ UNCHANGED config

\* Only packets with data are lost, and none is sent twice: a broadcast is
\* always of the length its parser is compiled for.
Lose ==
  /\ due = 0 /\ epoch < MaxIter
  /\ Op \in LossyOps /\ (Op = 6 => behind < MaxFirstLost)
  /\ Advance /\ Account(FALSE)
  /\ UNCHANGED <<config, counters, result>>

Other ==
  /\ OtherPacket
  /\ UNCHANGED <<config, accounts>>

Next == Broadcast \/ Data \/ Lose \/ Other

Spec == Init /\ [][Next]_vars

-----------------------------------------------------------------------------
(* Properties.                                                             *)

TypeOK ==
  /\ {epoch, w, t, k, p, due, bc_gather_num, cur_bc_length, iter_num,
      cur_pac_num, behind} \subseteq Nat
  /\ {opening, intact, clean, upset} \subseteq BOOLEAN
  /\ cur_write_num \in 0 .. RDMA_nums - 1
  /\ chosen \in 0 .. 4
  /\ cur_trans_num \in 0 .. trans_num(chosen)
  /\ cur_chunk_num \in 0 .. 2 * (RING_NUMS - 1)
  /\ result \in Nat \cup {-1} /\ got \subseteq Nat

\* Every packet with a final sum is reported at its place in the gradient and
\* no packet with a partial sum is reported, as long as no earlier packet of
\* the same chunk was lost and the first packet of every chunk has come;
\* other losses in earlier chunks leave no trace.
FinalsLocated ==
  [][Data /\ intact' /\ behind = 0 =>
       result' = IF IsFinal(k) THEN Place ELSE -1]_vars

\* After such a loss the rest of the chunk is reported at wrong places, but
\* never outside the chunk and never for a partial sum.
DamageStaysInChunk ==
  [][Data /\ result' # -1 /\ behind = 0 =>
       /\ IsFinal(k)
       /\ result' \in Place - p .. Place]_vars

\* The step before step k of this transfer: bucket, transfer and iteration
\* may be the ones before.
Earlier ==
  LET lastOf(e, n) == [e |-> e, w |-> n, t |-> trans_num(Kind(e, n)),
                       k |-> 2 * (RING_NUMS - 1) - 1]
  IN  IF k > 0 THEN [e |-> epoch, w |-> w, t |-> t, k |-> k - 1]
      ELSE IF t > 0 THEN [lastOf(epoch, w) EXCEPT !.t = t - 1]
      ELSE IF w > 0 THEN lastOf(epoch, w - 1)
      ELSE lastOf(epoch - 1, Writes(epoch - 1) - 1)

\* A lost first packet is never noticed and never made up for: from then on,
\* through all transfers, buckets and iterations, every chunk is reported as
\* the one before it, so partial sums are placed where final ones belong.
ShiftedByOneChunk ==
  [][Data /\ intact' /\ behind = 1 /\ ~upset =>
       result' = IF IsFinal(Earlier.k)
                 THEN ChunkStart(Earlier.e, Earlier.w, Earlier.t,
                                 ChunkSent(Earlier.k)) + p
                 ELSE -1]_vars

\* No payload of a broadcast, nor of a packet the filter should drop, is
\* taken for gradient, the packet that opens the second broadcast included,
\* unless a chunk before the broadcast was not counted.  The broadcast is of
\* the compiled length, without losses: the test at unpack.hpp:478 is for
\* equality, and what one packet less or more would do is not looked at.
BroadcastNotReported ==
  [][Other \/ (Broadcast /\ ~upset) => result' = -1]_vars

\* An iteration without losses reports every position but those of the one
\* chunk of each transfer that the node receives final and never sends.
IterationCovered ==
  AtStart /\ epoch > 0 /\ clean /\ behind = 0 =>
    got = (0 .. DATA_LENGTH - 1) \ ChunkPositions(epoch - 1, (Rank + 1) % RING_NUMS)

\* If all the chunks of a last transfer have one size, a stream reports per
\* iteration exactly as many positions as an extractor thread waits for.
EvenChunks == \A i \in 0 .. 4 : LastCut(i) = Cut(i)
ReportedAreAwaited ==
  AtStart /\ epoch > 0 /\ clean /\ behind = 0 /\ EvenChunks =>
    Cardinality(got) = (DATA_LENGTH \div RING_NUMS) * (RING_NUMS - 1)
=============================================================================
