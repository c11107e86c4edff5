---------------------------- MODULE DecodeProofs ----------------------------
(***************************************************************************)
(* Proofs about Decode for every build, every number of iterations and any *)
(* loss of data packets: the counters of the parser follow the traffic     *)
(* step by step.  The build is one the traffic can be cut for              *)
(* (Transmittable, part of Init), and one whose sizes the constructor      *)
(* computes as the sender cuts them (CutsAgree, a premise).                *)
(***************************************************************************)
EXTENDS Decode, NumberLemmas, TLAPS

-----------------------------------------------------------------------------
(* The sizes of a build.                                                   *)

BuildOK ==
  /\ build \in Builds /\ dir \in {"inbound", "outbound"}
  /\ Transmittable /\ CutsAgree

LEMMA BuildTypes ==
  ASSUME BuildOK
  PROVE  /\ RING_NUMS \in Nat /\ RING_NUMS >= 2
         /\ Piece \in Nat /\ Piece >= 2 /\ Grain \in Nat \ {0}
         /\ \A i \in 0 .. 4 : Length(i) \in Nat \ {0}
         /\ DATA_LENGTH \in Nat \ {0} /\ Sum3 \in Nat \ {0}
         /\ Piece * RING_NUMS \in Nat \ {0}
<1>1. /\ build.ring \in Nat \ {0, 1}
      /\ build.piece \in Nat \ {0} /\ build.grain \in Nat \ {0}
      /\ build.length \in [0 .. 4 -> Nat \ {0}]
  BY BuildAssumption DEF BuildOK
<1>2. RING_NUMS \in Nat /\ RING_NUMS >= 2
  BY <1>1 DEF RING_NUMS
<1>3. Piece \in Nat /\ Piece >= 2 /\ Grain \in Nat \ {0}
  BY <1>1 DEF BuildOK, Transmittable, Piece, Grain
<1>4. \A i \in 0 .. 4 : Length(i) \in Nat \ {0}
  BY <1>1 DEF Length
<1>5. DATA_LENGTH \in Nat \ {0} /\ Sum3 \in Nat \ {0}
  <2>1. 0 \in 0 .. 4 /\ 1 \in 0 .. 4 /\ 2 \in 0 .. 4 /\ 3 \in 0 .. 4
    OBVIOUS
  <2> QED
    BY <1>4, <2>1 DEF DATA_LENGTH, Sum3
<1>6. Piece * RING_NUMS \in Nat \ {0}
  BY <1>2, <1>3, ProductPositive
<1> QED
  BY <1>2, <1>3, <1>4, <1>5, <1>6

\* Transfers and chunks: how many there are and how large.
LEMMA ChunkTypes ==
  ASSUME BuildOK, NEW i \in 0 .. 4
  PROVE  /\ trans_num(i) \in Nat \ {0}
         /\ Cut(i) \in Nat /\ Cut(i) >= 2 /\ modal_chunk_size(i) = Cut(i)
         /\ LastCut(i) \in Nat /\ LastCut(i) >= 2
         /\ \A n \in Nat, c \in Nat : /\ ChunkSize(i, n, c) \in Nat
                                      /\ ChunkSize(i, n, c) >= 2
<1>1. trans_num(i) \in Nat /\ last_trans_size(i) \in Nat
  <2>1. Piece * RING_NUMS \in Nat \ {0} /\ Length(i) \in Nat
    BY BuildTypes
  <2>2. \A m \in Nat \ {0} : Length(i) \div m \in Nat /\ Length(i) % m \in Nat
    BY <2>1, DivType
  <2> QED
    BY <2>1, <2>2, Zenon DEF trans_num, last_trans_size
<1>2. trans_num(i) # 0
  BY <1>1 DEF BuildOK, Transmittable
<1>3. Cut(i) \in Nat /\ modal_chunk_size(i) = Cut(i)
  <2>1. build.cut \in [0 .. 4 -> Nat]
    BY BuildAssumption DEF BuildOK
  <2> QED
    BY <2>1 DEF Cut, BuildOK, CutsAgree
<1>4. Cut(i) >= 2
  BY <1>3 DEF BuildOK, Transmittable
<1>5. LastCut(i) \in Int
  BY <1>1, <1>3, BuildTypes DEF LastCut
<1>6. LastCut(i) \in Nat /\ LastCut(i) >= 2
  BY <1>5 DEF BuildOK, Transmittable
<1> QED
  BY <1>1, <1>2, <1>3, <1>4, <1>6, BuildTypes DEF ChunkSize

\* The buckets of an iteration: as many of each of the three lengths, and
\* one of the fourth.
Rounds == (DATA_LENGTH - Length(4)) \div Sum3

LEMMA BucketTypes ==
  ASSUME BuildOK
  PROVE  /\ Rounds \in Nat \ {0}
         /\ RDMA_nums = 3 * Rounds + 1
         /\ DATA_LENGTH = Rounds * Sum3 + Length(4)
<1> USE BuildTypes
<1>1. Rounds \in Int
  BY DEF Rounds
<1>2. RDMA_nums = 3 * Rounds + 1
  BY <1>1 DEF RDMA_nums, Rounds
<1>3. RDMA_nums > 1
  BY DEF BuildOK, Transmittable
<1>4. (RDMA_nums - 1) \div 3 = Rounds
  BY <1>1, <1>2
<1> QED
  BY <1>1, <1>2, <1>3, <1>4 DEF BuildOK, Transmittable

LEMMA KindTypes ==
  ASSUME BuildOK, NEW e \in Nat
  PROVE  /\ Writes(e) \in Nat \ {0}
         /\ \A n \in 0 .. Writes(e) - 1 : Kind(e, n) \in 0 .. 4
         /\ Kind(0, 0) = 0 /\ Kind(1, 0) = 1
BY BucketTypes DEF Writes, Kind

-----------------------------------------------------------------------------
(* The table of the constructor: where the buckets start.                  *)

LEMMA BucketStartFirst ==
  ASSUME BuildOK
  PROVE  BucketStart(1, 0) = DATA_LENGTH - Length(1)
<1>1. RDMA_nums - 1 # 0 /\ 0 \div 3 = 0 /\ 0 % 3 = 0
  BY BucketTypes
<1>2. 0 * Sum3 = 0 /\ DATA_LENGTH \in Nat
  BY BuildTypes
<1> QED
  BY <1>1, <1>2 DEF BucketStart, Kind

\* Every bucket starts its own length before the one that came earlier.
LEMMA BucketStartNext ==
  ASSUME BuildOK, NEW n \in 1 .. RDMA_nums - 2
  PROVE  BucketStart(1, n) = BucketStart(1, n - 1) - Length((n % 3) + 1)
<1>1. /\ n \in Nat \ {0} /\ n # RDMA_nums - 1 /\ n - 1 # RDMA_nums - 1
      /\ n - 1 \in Nat
  BY BucketTypes
<1>2. /\ Length(1) \in Nat /\ Length(2) \in Nat /\ Length(3) \in Nat
      /\ DATA_LENGTH \in Nat /\ Sum3 \in Nat
      /\ Sum3 = Length(1) + Length(2) + Length(3)
  BY BuildTypes DEF Sum3
<1> DEFINE q == n \div 3
           s == q * Sum3
<1>3. q \in Nat /\ s \in Nat
  BY <1>1, <1>2, DivType, ProductNat
<1>4. CASE n % 3 = 0
  <2>1. (n - 1) \div 3 = q - 1 /\ (n - 1) % 3 = 2
    BY <1>1, <1>4
  <2>2. (q - 1) * Sum3 = s - Sum3
    BY <1>2, <1>3, ProductNext
  <2> HIDE DEF q, s
  <2>3. /\ BucketStart(1, n) = DATA_LENGTH - s - Length(1)
        /\ BucketStart(1, n - 1) = DATA_LENGTH - (s - Sum3) - Sum3
    BY <1>1, <1>4, <2>1, <2>2 DEF BucketStart, Kind, q, s
  <2> QED
    BY <1>2, <1>3, <1>4, <2>3
<1>5. CASE n % 3 = 1
  <2>1. (n - 1) \div 3 = q /\ (n - 1) % 3 = 0
    BY <1>1, <1>5
  <2> HIDE DEF q, s
  <2>2. /\ BucketStart(1, n) = DATA_LENGTH - s - (Length(1) + Length(2))
        /\ BucketStart(1, n - 1) = DATA_LENGTH - s - Length(1)
    BY <1>1, <1>5, <2>1 DEF BucketStart, Kind, q, s
  <2> QED
    BY <1>2, <1>3, <1>5, <2>2
<1>6. CASE n % 3 = 2
  <2>1. (n - 1) \div 3 = q /\ (n - 1) % 3 = 1
    BY <1>1, <1>6
  <2> HIDE DEF q, s
  <2>2. /\ BucketStart(1, n) = DATA_LENGTH - s - Sum3
        /\ BucketStart(1, n - 1) = DATA_LENGTH - s - (Length(1) + Length(2))
    BY <1>1, <1>6, <2>1 DEF BucketStart, Kind, q, s
  <2> QED
    BY <1>2, <1>3, <1>6, <2>2
<1> QED
  BY <1>1, <1>4, <1>5, <1>6

\* None starts before the gradient does.
LEMMA BucketStartType ==
  ASSUME BuildOK, NEW e \in Nat, NEW n \in 0 .. Writes(e) - 1
  PROVE  BucketStart(e, n) \in Nat
<1>1. CASE Kind(e, n) \in {0, 4}
  BY <1>1 DEF BucketStart
<1>2. CASE Kind(e, n) \notin {0, 4}
  <2>1. n \in Nat /\ n < 3 * Rounds /\ Rounds \in Nat
    BY <1>2, KindTypes, BucketTypes DEF Kind, Writes
  <2>2. /\ Length(1) \in Nat /\ Length(2) \in Nat /\ Length(3) \in Nat
        /\ Length(4) \in Nat
        /\ DATA_LENGTH \in Nat /\ Sum3 \in Nat
        /\ Sum3 = Length(1) + Length(2) + Length(3)
    BY BuildTypes DEF Sum3
  <2> DEFINE q == n \div 3
             s == q * Sum3
             all == Rounds * Sum3
  <2>3. q \in Nat /\ q + 1 <= Rounds
    BY <2>1
  <2>4. s \in Nat /\ all \in Nat /\ s + Sum3 <= all
    <3> HIDE DEF q
    <3>1. (q + 1) * Sum3 = s + Sum3
      BY <2>2, <2>3, ProductNext
    <3>2. (q + 1) * Sum3 <= all
      BY <2>1, <2>2, <2>3, ProductMonotonic
    <3> QED
      BY <2>1, <2>2, <2>3, <3>1, <3>2, ProductNat
  <2>5. DATA_LENGTH = all + Length(4)
    BY BucketTypes
  <2>6. BucketStart(e, n) = DATA_LENGTH - s -
          (IF n % 3 = 0 THEN Length(1)
           ELSE IF n % 3 = 1 THEN Length(1) + Length(2) ELSE Sum3)
    BY <1>2 DEF BucketStart
  <2> HIDE DEF q, s, all
  <2> QED
    BY <2>2, <2>4, <2>5, <2>6
<1> QED
  BY <1>1, <1>2

\* The recursion of the constructor computes just these positions.
LEMMA WriteIndex ==
  ASSUME BuildOK, NEW n \in 0 .. RDMA_nums - 1
  PROVE  write_to_data_index[n] = BucketStart(1, n)
<1> DEFINE D == 0 .. RDMA_nums - 1
           Table(f) == [m \in D |->
             IF m = RDMA_nums - 1 THEN 0
             ELSE (IF m = 0 THEN DATA_LENGTH ELSE f[m - 1])
                  - Length((m % 3) + 1)]
           Starts == [m \in D |-> BucketStart(1, m)]
<1>1. RDMA_nums \in Nat /\ RDMA_nums > 1
  BY BucketTypes
<1>2. Table(Starts) = Starts
  <2> SUFFICES ASSUME NEW m \in D
               PROVE  Starts[m] = Table(Starts)[m]
    OBVIOUS
  <2>1. CASE m = RDMA_nums - 1
    BY <2>1, <1>1 DEF BucketStart, Kind
  <2>2. CASE m # RDMA_nums - 1 /\ m = 0
    BY <2>2, <1>1, BucketStartFirst
  <2>3. CASE m # RDMA_nums - 1 /\ m # 0
    <3>1. m \in 1 .. RDMA_nums - 2 /\ m - 1 \in D
      BY <2>3, <1>1
    <3> QED
      BY <3>1, <2>3, <1>1, BucketStartNext
  <2> QED
    BY <2>1, <2>2, <2>3
<1>3. write_to_data_index = CHOOSE f : f = Table(f)
  BY DEF write_to_data_index
<1> HIDE DEF Table, Starts
<1>4. write_to_data_index = Table(write_to_data_index)
  BY <1>2, <1>3
<1> DEFINE W == write_to_data_index
           T == {m \in Nat : m \in D => W[m] = BucketStart(1, m)}
<1>5. \A m \in D : W[m] = IF m = RDMA_nums - 1 THEN 0
             ELSE (IF m = 0 THEN DATA_LENGTH ELSE W[m - 1])
                  - Length((m % 3) + 1)
  BY <1>4 DEF Table
<1> HIDE DEF W
<1>6. 0 \in T
  BY <1>1, <1>5, BucketStartFirst
<1>7. ASSUME NEW m \in Nat, m \in T
      PROVE  m + 1 \in T
  <2> SUFFICES ASSUME m + 1 \in D
               PROVE  W[m + 1] = BucketStart(1, m + 1)
    OBVIOUS
  <2>1. m \in D /\ W[m] = BucketStart(1, m)
    BY <1>1, <1>7
  <2>2. CASE m + 1 = RDMA_nums - 1
    BY <2>2, <1>1, <1>5 DEF BucketStart, Kind
  <2>3. CASE m + 1 # RDMA_nums - 1
    <3>1. m + 1 \in 1 .. RDMA_nums - 2 /\ (m + 1) - 1 = m
      BY <2>3, <1>1
    <3>2. BucketStart(1, m + 1) = BucketStart(1, m) - Length(((m + 1) % 3) + 1)
      BY <3>1, BucketStartNext
    <3> QED
      BY <2>1, <2>3, <3>1, <3>2, <1>1, <1>5
  <2> QED
    BY <2>2, <2>3
<1> HIDE DEF T
<1>8. Nat \subseteq T
  BY <1>6, <1>7, SetInduction
<1> QED
  BY <1>8, <1>1 DEF T, W

-----------------------------------------------------------------------------
(* Nothing about the build ever changes.                                   *)

LEMMA BuildStays ==
  ASSUME UNCHANGED config
  PROVE  /\ BuildOK' = BuildOK
         /\ RING_NUMS' = RING_NUMS /\ RDMA_nums' = RDMA_nums
         /\ \A i : trans_num(i)' = trans_num(i)
         /\ \A e : Writes(e)' = Writes(e)
         /\ \A e, n : Kind(e, n)' = Kind(e, n)
         /\ \A i, n, c : ChunkSize(i, n, c)' = ChunkSize(i, n, c)
<1> USE DEF config
<1>1. /\ RING_NUMS' = RING_NUMS /\ Piece' = Piece /\ Grain' = Grain
      /\ \A i : Length(i)' = Length(i)
  BY DEF RING_NUMS, Piece, Grain, Length
<1>2. DATA_LENGTH' = DATA_LENGTH /\ Sum3' = Sum3
  BY <1>1 DEF DATA_LENGTH, Sum3
<1>3. RDMA_nums' = RDMA_nums
  BY <1>1, <1>2 DEF RDMA_nums
<1>4. /\ \A i : trans_num(i)' = trans_num(i)
      /\ \A i : last_trans_size(i)' = last_trans_size(i)
  BY <1>1 DEF trans_num, last_trans_size
<1>5. \A i : Cut(i)' = Cut(i) /\ modal_chunk_size(i)' = modal_chunk_size(i)
  BY <1>1, <1>4 DEF Cut, modal_chunk_size, ChunkInGrains
<1>6. \A i : LastCut(i)' = LastCut(i)
  BY <1>1, <1>4, <1>5 DEF LastCut
<1>7. \A i, n, c : ChunkSize(i, n, c)' = ChunkSize(i, n, c)
  BY <1>1, <1>4, <1>5, <1>6 DEF ChunkSize
<1>8. \A e : Writes(e)' = Writes(e)
  BY <1>3 DEF Writes
<1>9. \A e, n : Kind(e, n)' = Kind(e, n)
  BY <1>3 DEF Kind
<1>10. Transmittable' = Transmittable
  BY <1>1, <1>2, <1>3, <1>4, <1>5, <1>6 DEF Transmittable
<1>11. CutsAgree' = CutsAgree
  BY <1>5 DEF CutsAgree
<1>12. BuildOK' = BuildOK
  BY <1>10, <1>11 DEF BuildOK
<1> QED
  BY <1>1, <1>3, <1>4, <1>7, <1>8, <1>9, <1>12

-----------------------------------------------------------------------------
(* The place in the traffic and the place the counters stand for.          *)

\* Places are counted in chunks; the one after the last of an iteration is
\* the first of the next.
After(c) ==
  IF c.k + 1 < 2 * (RING_NUMS - 1)
  THEN [e |-> c.e, w |-> c.w, t |-> c.t, k |-> c.k + 1]
  ELSE IF c.t + 1 <= trans_num(Kind(c.e, c.w))
  THEN [e |-> c.e, w |-> c.w, t |-> c.t + 1, k |-> 0]
  ELSE IF c.w + 1 < Writes(c.e)
  THEN [e |-> c.e, w |-> c.w + 1, t |-> 0, k |-> 0]
  ELSE [e |-> c.e + 1, w |-> 0, t |-> 0, k |-> 0]

Traffic == [e |-> epoch, w |-> w, t |-> t, k |-> k]

\* The chunk counted last; -1 stands for none in this iteration yet.
Parser == [e |-> iter_num, w |-> cur_write_num, t |-> cur_trans_num,
           k |-> cur_chunk_num - 1]

TrafficOK ==
  /\ epoch \in Nat /\ w \in 0 .. Writes(epoch) - 1
  /\ t \in 0 .. trans_num(Kind(epoch, w))
  /\ k \in 0 .. 2 * (RING_NUMS - 1) - 1
  /\ p \in 0 .. SizeNow - 1

ParserOK ==
  /\ iter_num \in Nat /\ cur_write_num \in 0 .. RDMA_nums - 1
  /\ iter_num = 0 => cur_write_num = 0
  /\ chosen = Kind(iter_num, cur_write_num)
  /\ cur_trans_num \in 0 .. trans_num(chosen)
  /\ cur_chunk_num \in 0 .. 2 * (RING_NUMS - 1)
  /\ cur_pac_num \in Nat

LEMMA AfterStays ==
  ASSUME UNCHANGED config
  PROVE  \A c : After(c)' = After(c)
BY BuildStays DEF After

LEMMA SentType ==
  ASSUME BuildOK, NEW s \in 0 .. 2 * (RING_NUMS - 1) - 1
  PROVE  ChunkSent(s) \in 0 .. RING_NUMS - 1
<1>1. RING_NUMS \in Nat \ {0} /\ Rank \in Nat
  BY BuildTypes DEF Rank
<1>2. Rank + 2 * RING_NUMS - 1 - s \in Nat
  BY <1>1
<1> QED
  BY <1>1, <1>2, ModRange DEF ChunkSent

LEMMA SizeNowType ==
  ASSUME BuildOK, TrafficOK
  PROVE  SizeNow \in Nat /\ SizeNow >= 2
<1>1. ChunkSent(k) \in Nat
  BY SentType, BuildTypes DEF TrafficOK
<1>2. t \in Nat /\ Kind(epoch, w) \in 0 .. 4
  BY KindTypes, ChunkTypes DEF TrafficOK
<1> QED
  BY <1>1, <1>2, ChunkTypes DEF SizeNow

LEMMA AdvanceStep ==
  ASSUME BuildOK, TrafficOK, Advance, UNCHANGED config
  PROVE  /\ TrafficOK'
         /\ p' = IF p + 1 < SizeNow THEN p + 1 ELSE 0
         /\ p' # 0 => Traffic' = Traffic
         /\ p' = 0 => Traffic' = After(Traffic)
<1>1. SizeNow \in Nat /\ SizeNow >= 2 /\ p \in Nat
  BY SizeNowType DEF TrafficOK
<1>2. p' = IF p + 1 < SizeNow THEN p + 1 ELSE 0
  BY DEF Advance
<1>3. p' # 0 => Traffic' = Traffic
  BY <1>1 DEF Advance, Traffic
<1>4. p' = 0 => Traffic' = After(Traffic)
  BY <1>1 DEF Advance, Traffic, After
<1>5. /\ epoch' \in Nat /\ w' \in 0 .. Writes(epoch') - 1
      /\ t' \in 0 .. trans_num(Kind(epoch', w'))
      /\ k' \in 0 .. 2 * (RING_NUMS - 1) - 1
  <2>1. RING_NUMS \in Nat /\ RING_NUMS >= 2
    BY BuildTypes
  <2>2. \A e \in Nat : Writes(e) \in Nat \ {0}
    BY KindTypes
  <2>3. \A e \in Nat : \A n \in 0 .. Writes(e) - 1 : trans_num(Kind(e, n)) \in Nat
    BY KindTypes, ChunkTypes
  <2>4. CASE p + 1 < SizeNow
    BY <2>4 DEF Advance, TrafficOK
  <2>5. CASE ~ (p + 1 < SizeNow) /\ k + 1 < 2 * (RING_NUMS - 1)
    BY <2>5, <2>1 DEF Advance, TrafficOK
  <2>6. CASE /\ ~ (p + 1 < SizeNow) /\ ~ (k + 1 < 2 * (RING_NUMS - 1))
             /\ t + 1 <= trans_num(Kind(epoch, w))
    BY <2>6, <2>1, <2>3 DEF Advance, TrafficOK
  <2>7. CASE /\ ~ (p + 1 < SizeNow) /\ ~ (k + 1 < 2 * (RING_NUMS - 1))
             /\ ~ (t + 1 <= trans_num(Kind(epoch, w)))
             /\ w + 1 < Writes(epoch)
    BY <2>7, <2>1, <2>2, <2>3 DEF Advance, TrafficOK
  <2>8. CASE /\ ~ (p + 1 < SizeNow) /\ ~ (k + 1 < 2 * (RING_NUMS - 1))
             /\ ~ (t + 1 <= trans_num(Kind(epoch, w)))
             /\ ~ (w + 1 < Writes(epoch))
    BY <2>8, <2>1, <2>2, <2>3 DEF Advance, TrafficOK
  <2> QED
    BY <2>4, <2>5, <2>6, <2>7, <2>8
<1>6. p' \in 0 .. SizeNow' - 1
  <2>1. CASE p + 1 < SizeNow
    <3>1. SizeNow' = SizeNow
      BY <2>1, BuildStays DEF Advance, SizeNow, ChunkSent, Rank, config
    <3> QED
      BY <2>1, <3>1, <1>1, <1>2
  <2>2. CASE ~ (p + 1 < SizeNow)
    <3>1. SizeNow' = ChunkSize(Kind(epoch', w'), t', ChunkSent(k'))
      BY BuildStays DEF SizeNow, ChunkSent, Rank, config
    <3>2. ChunkSent(k') \in Nat
      BY <1>5, SentType, BuildTypes
    <3>3. t' \in Nat /\ Kind(epoch', w') \in 0 .. 4
      BY <1>5, KindTypes, ChunkTypes
    <3>4. SizeNow' \in Nat /\ SizeNow' >= 2
      BY <3>1, <3>2, <3>3, ChunkTypes
    <3>5. p' = 0
      BY <2>2, <1>2
    <3>6. \A s \in Nat : s >= 2 => 0 \in 0 .. s - 1
      OBVIOUS
    <3> QED
      BY <3>4, <3>5, <3>6, Zenon
  <2> QED
    BY <2>1, <2>2
<1> QED
  BY <1>2, <1>3, <1>4, <1>5, <1>6, BuildStays DEF TrafficOK

-----------------------------------------------------------------------------
(* decode_hex, one packet.                                                 *)

LEMMA ParserTypes ==
  ASSUME BuildOK, ParserOK
  PROVE  /\ cur_write_num \in 0 .. Writes(iter_num) - 1
         /\ chosen \in 0 .. 4 /\ trans_num(chosen) \in Nat \ {0}
         /\ cur_trans_num \in Nat /\ cur_chunk_num \in Nat /\ cur_write_num \in Nat
         /\ RDMA_nums \in Nat /\ RDMA_nums > 1
         /\ RING_NUMS \in Nat /\ RING_NUMS >= 2
<1>1. /\ RDMA_nums \in Nat /\ RDMA_nums > 1
      /\ RING_NUMS \in Nat /\ RING_NUMS >= 2
  BY BucketTypes, BuildTypes
<1>2. cur_write_num \in 0 .. Writes(iter_num) - 1 /\ cur_write_num \in Nat
  BY <1>1 DEF ParserOK, Writes
<1>3. chosen \in 0 .. 4
  BY <1>2, KindTypes DEF ParserOK
<1>4. trans_num(chosen) \in Nat \ {0}
  BY <1>3, ChunkTypes
<1> QED
  BY <1>1, <1>2, <1>3, <1>4 DEF ParserOK

\* The kind the code chooses for the next bucket is the one that is sent.
LEMMA NextKindIsKind ==
  ASSUME BuildOK, NEW e \in Nat \ {0}, NEW n \in 1 .. RDMA_nums
  PROVE  NextKind(n) = Kind(e, IF n = RDMA_nums THEN 0 ELSE n)
<1>1. RDMA_nums = 3 * Rounds + 1 /\ Rounds \in Nat \ {0} /\ n \in Nat /\ e # 0
  BY BucketTypes
<1>2. (RDMA_nums - 1) % 3 = 0
  BY <1>1
<1>3. CASE n = RDMA_nums
  BY <1>1, <1>3 DEF NextKind, Kind
<1>4. CASE n # RDMA_nums /\ n % 3 = 0
  BY <1>1, <1>4 DEF NextKind, Kind
<1>5. CASE n # RDMA_nums /\ n % 3 = 1
  BY <1>1, <1>2, <1>5 DEF NextKind, Kind
<1>6. CASE n # RDMA_nums /\ n % 3 = 2
  BY <1>1, <1>2, <1>6 DEF NextKind, Kind
<1> QED
  BY <1>1, <1>3, <1>4, <1>5, <1>6

\* The packet that opens the second broadcast is the first one of a chunk
\* too, but the inbound parser counts no chunk for it.
Opens == dir = "inbound" /\ iter_num = 0 /\ After(Parser).e # 0

\* The first packet of a chunk takes the counters on by one chunk.
LEMMA FirstStep ==
  ASSUME BuildOK, ParserOK, First, UNCHANGED config
  PROVE  /\ ParserOK' /\ cur_pac_num' = 0
         /\ ~ Opens => Parser' = After(Parser) /\ cur_chunk_num' > 0
         /\ Opens => /\ Parser' = [e |-> 1, w |-> 0, t |-> 0, k |-> -1]
                     /\ bc_gather_num' = 0 /\ cur_bc_length' = BC_LENGTH2
                     /\ After(Parser) = [e |-> 1, w |-> 0, t |-> 0, k |-> 0]
         /\ ~ Opens => \/ UNCHANGED <<bc_gather_num, cur_bc_length>>
                       \/ /\ bc_gather_num' = IF dir = "inbound" THEN 0 ELSE bc_gather_num
                          /\ cur_bc_length' = 0
         /\ bc_gather_num = cur_bc_length
<1> DEFINE nextTrans == cur_chunk_num = LastChunk
           nextWrite == nextTrans /\ cur_trans_num + 1 = trans_num(chosen) + 1
<1>1. /\ cur_write_num \in 0 .. Writes(iter_num) - 1
      /\ chosen \in 0 .. 4 /\ trans_num(chosen) \in Nat \ {0}
      /\ cur_trans_num \in Nat /\ cur_chunk_num \in Nat /\ cur_write_num \in Nat
      /\ RDMA_nums \in Nat /\ RDMA_nums > 1
      /\ RING_NUMS \in Nat /\ RING_NUMS >= 2
  BY ParserTypes
<1>2. /\ iter_num \in Nat
      /\ iter_num = 0 => cur_write_num = 0
      /\ cur_trans_num \in 0 .. trans_num(chosen)
      /\ cur_chunk_num \in 0 .. 2 * (RING_NUMS - 1)
      /\ chosen = Kind(iter_num, cur_write_num)
  BY DEF ParserOK
<1>3. /\ cur_pac_num' = 0 /\ bc_gather_num = cur_bc_length
  BY DEF First, PacAtFirst
<1>4. /\ Parser.e = iter_num /\ Parser.w = cur_write_num
      /\ Parser.t = cur_trans_num /\ Parser.k = cur_chunk_num - 1
      /\ Parser.k + 1 = cur_chunk_num
  BY <1>1 DEF Parser
<1>5. CASE ~ nextTrans
  <2>1. /\ cur_chunk_num' = cur_chunk_num + 1 /\ cur_trans_num' = cur_trans_num
        /\ UNCHANGED <<bc_gather_num, cur_bc_length, iter_num, cur_write_num, chosen>>
    BY <1>5 DEF First
  <2>2. cur_chunk_num + 1 \in 1 .. 2 * (RING_NUMS - 1)
    BY <1>1, <1>2, <1>5 DEF LastChunk
  <2>3. After(Parser) = [e |-> iter_num, w |-> cur_write_num,
                         t |-> cur_trans_num, k |-> cur_chunk_num]
    BY <1>1, <1>4, <2>2 DEF After
  <2>4. Parser' = After(Parser)
    BY <1>1, <2>1, <2>3 DEF Parser
  <2>5. ParserOK'
    BY <1>1, <1>2, <1>3, <2>1, <2>2, BuildStays DEF ParserOK
  <2> QED
    BY <1>1, <1>3, <2>1, <2>3, <2>4, <2>5 DEF Opens
<1>6. CASE nextTrans /\ ~ nextWrite
  <2>1. /\ cur_chunk_num' = 1 /\ cur_trans_num' = cur_trans_num + 1
        /\ UNCHANGED <<bc_gather_num, cur_bc_length, iter_num, cur_write_num, chosen>>
    BY <1>6 DEF First
  <2>2. cur_chunk_num = 2 * (RING_NUMS - 1) /\ cur_trans_num + 1 <= trans_num(chosen)
    BY <1>1, <1>2, <1>6 DEF LastChunk
  <2>3. After(Parser) = [e |-> iter_num, w |-> cur_write_num,
                         t |-> cur_trans_num + 1, k |-> 0]
    BY <1>1, <1>2, <1>4, <2>2 DEF After
  <2>4. Parser' = After(Parser)
    BY <1>1, <2>1, <2>3 DEF Parser
  <2>5. ParserOK'
    BY <1>1, <1>2, <1>3, <2>1, <2>2, BuildStays DEF ParserOK
  <2> QED
    BY <1>1, <1>3, <2>1, <2>3, <2>4, <2>5 DEF Opens
<1>7. CASE nextWrite /\ iter_num = 0
  <2>1. cur_trans_num' = 0 /\ SecondIteration
    BY <1>7 DEF First
  <2>2. /\ cur_chunk_num = 2 * (RING_NUMS - 1) /\ cur_trans_num = trans_num(chosen)
        /\ cur_write_num = 0 /\ Writes(0) = 1
    BY <1>1, <1>2, <1>7 DEF LastChunk, Writes
  <2>3. After(Parser) = [e |-> 1, w |-> 0, t |-> 0, k |-> 0]
    BY <1>1, <1>2, <1>4, <1>7, <2>2 DEF After
  <2>4. ParserOK'
    <3>1. /\ iter_num' = 1 /\ cur_write_num' = 0 /\ chosen' = 1
          /\ cur_chunk_num' \in {0, 1}
      BY <2>1, <2>2 DEF SecondIteration
    <3>2. Kind(1, 0) = 1 /\ trans_num(1) \in Nat
      <4>1. 1 \in 0 .. 4 /\ 0 \in Nat
        OBVIOUS
      <4> QED
        BY <4>1, KindTypes, ChunkTypes
    <3>3. iter_num' \in Nat /\ cur_write_num' \in 0 .. RDMA_nums - 1
      BY <1>1, <3>1
    <3>4. chosen' = Kind(iter_num', cur_write_num') /\ cur_trans_num' \in 0 .. trans_num(chosen')
      BY <2>1, <3>1, <3>2
    <3>5. cur_chunk_num' \in 0 .. 2 * (RING_NUMS - 1) /\ cur_pac_num' \in Nat
      BY <1>1, <1>3, <3>1
    <3> QED
      BY <3>1, <3>3, <3>4, <3>5, BuildStays DEF ParserOK
  <2>5. CASE dir = "inbound"
    BY <1>3, <1>7, <2>1, <2>2, <2>3, <2>4, <2>5
    DEF Opens, SecondIteration, Parser, SecondBroadcast
  <2>6. CASE dir # "inbound"
    BY <1>3, <1>7, <2>1, <2>2, <2>3, <2>4, <2>6
    DEF Opens, SecondIteration, Parser
  <2> QED
    BY <2>5, <2>6
<1>8. CASE nextWrite /\ iter_num # 0
  <2> DEFINE over == cur_write_num + 1 = RDMA_nums
  <2>1. cur_trans_num' = 0 /\ NextWrite
    BY <1>8 DEF First
  <2>2. /\ cur_chunk_num = 2 * (RING_NUMS - 1) /\ cur_trans_num = trans_num(chosen)
        /\ Writes(iter_num) = RDMA_nums /\ iter_num \in Nat \ {0}
    BY <1>1, <1>2, <1>8 DEF LastChunk, Writes
  <2>3. After(Parser) = IF over
          THEN [e |-> iter_num + 1, w |-> 0, t |-> 0, k |-> 0]
          ELSE [e |-> iter_num, w |-> cur_write_num + 1, t |-> 0, k |-> 0]
    BY <1>1, <1>2, <1>4, <2>2 DEF After
  <2>4. Parser' = After(Parser)
    BY <2>1, <2>3 DEF NextWrite, Parser
  <2>5. chosen' = Kind(iter_num', cur_write_num')
    <3>1. cur_write_num + 1 \in 1 .. RDMA_nums
      BY <1>1, <2>2
    <3>2. iter_num' \in Nat \ {0}
      BY <2>1, <2>2 DEF NextWrite
    <3>3. chosen' = NextKind(cur_write_num + 1)
      BY <2>1 DEF NextWrite
    <3>4. cur_write_num' = IF over THEN 0 ELSE cur_write_num + 1
      BY <2>1 DEF NextWrite
    <3> QED
      BY <3>1, <3>2, <3>3, <3>4, NextKindIsKind
  <2>6. /\ iter_num' \in Nat \ {0} /\ cur_write_num' \in 0 .. RDMA_nums - 1
        /\ cur_chunk_num' = 1
    BY <1>1, <2>1, <2>2 DEF NextWrite
  <2>7. chosen' \in 0 .. 4
    BY <2>5, <2>6, <2>2, KindTypes DEF Writes
  <2>8. trans_num(chosen') \in Nat
    BY <2>7, ChunkTypes
  <2>9. ParserOK'
    BY <1>1, <1>3, <2>1, <2>5, <2>6, <2>8, BuildStays DEF ParserOK
  <2> QED
    BY <1>3, <1>8, <2>1, <2>4, <2>6, <2>9 DEF Opens, NextWrite
<1> QED
  BY <1>5, <1>6, <1>7, <1>8

LEMMA ChunkStartType ==
  ASSUME BuildOK, NEW e \in Nat, NEW n \in 0 .. Writes(e) - 1,
         NEW tr \in Nat, NEW c \in Nat
  PROVE  ChunkStart(e, n, tr, c) \in Nat
<1>1. BucketStart(e, n) \in Nat
  BY BucketStartType
<1>2. tr * Piece * RING_NUMS \in Nat
  BY BuildTypes, ProductNat
<1>3. c * ChunkSize(Kind(e, n), tr, 0) \in Nat
  <2>1. Kind(e, n) \in 0 .. 4
    BY KindTypes
  <2>2. ChunkSize(Kind(e, n), tr, 0) \in Nat
    BY <2>1, ChunkTypes
  <2> QED
    BY <2>2, ProductNat
<1> QED
  BY <1>1, <1>2, <1>3 DEF ChunkStart

\* The chunk the parser takes the c-th one it counts for is the one sent.
LEMMA ChunkIdIsSent ==
  ASSUME BuildOK, NEW c \in RING_NUMS .. 2 * (RING_NUMS - 1)
  PROVE  chunk_id(c) = ChunkSent(c - 1)
<1>1. RING_NUMS \in Nat \ {0} /\ RING_NUMS >= 2 /\ c \in Nat
  BY BuildTypes
<1>2. dir \in {"inbound", "outbound"} /\ "inbound" # "outbound"
  BY DEF BuildOK
<1>3. CASE dir = "outbound"
  <2>1. c % RING_NUMS = c - RING_NUMS
    <3>1. c \in 0 .. 2 * RING_NUMS - 1 /\ ~ (c < RING_NUMS)
      BY <1>1
    <3> QED
      BY <1>1, <3>1, ModOnce
  <2>2. Rank + 2 * RING_NUMS - 1 - (c - 1) = (2 * RING_NUMS - 1 - c) + RING_NUMS
    BY <1>1, <1>3 DEF Rank
  <2>3. (2 * RING_NUMS - 1 - c) + RING_NUMS \in 0 .. 2 * RING_NUMS - 1
    BY <1>1
  <2>4. ((2 * RING_NUMS - 1 - c) + RING_NUMS) % RING_NUMS = 2 * RING_NUMS - 1 - c
    <3> DEFINE x == (2 * RING_NUMS - 1 - c) + RING_NUMS
    <3>1. x \in 0 .. 2 * RING_NUMS - 1 /\ ~ (x < RING_NUMS)
          /\ x - RING_NUMS = 2 * RING_NUMS - 1 - c
      BY <1>1
    <3> HIDE DEF x
    <3>2. x % RING_NUMS = x - RING_NUMS
      BY <1>1, <3>1, ModOnce
    <3> QED
      BY <3>1, <3>2 DEF x
  <2> QED
    BY <1>1, <1>3, <2>1, <2>2, <2>4 DEF chunk_id, ChunkSent
<1>4. CASE dir = "inbound"
  <2>1. Rank + 2 * RING_NUMS - 1 - (c - 1) = 2 * RING_NUMS - c
    BY <1>1, <1>2, <1>4 DEF Rank
  <2>2. 2 * RING_NUMS - c \in 0 .. 2 * RING_NUMS - 1
    BY <1>1
  <2>3. (2 * RING_NUMS - c) % RING_NUMS = IF c = RING_NUMS THEN 0 ELSE 2 * RING_NUMS - c
    BY <1>1, <2>2, ModOnce
  <2> QED
    BY <1>1, <1>2, <1>4, <2>1, <2>3 DEF chunk_id, ChunkSent
<1> QED
  BY <1>2, <1>3, <1>4

\* The sum the code adds up is the place of a packet of the chunk that its
\* arguments stand for.
LEMMA IndexIsPlace ==
  ASSUME BuildOK, NEW e \in Nat, NEW n \in 0 .. RDMA_nums - 1, e = 0 => n = 0,
         NEW tr \in 0 .. trans_num(Kind(e, n)),
         NEW c \in RING_NUMS .. 2 * (RING_NUMS - 1)
  PROVE  /\ c - 1 \in 0 .. 2 * (RING_NUMS - 1) - 1
         /\ ChunkStart(e, n, tr, ChunkSent(c - 1)) \in Nat
         /\ ChunkStart(e, n, tr, ChunkSent(c - 1)) =
              (IF e = 0 THEN 0 ELSE write_to_data_index[n])
              + tr * Piece * RING_NUMS
              + chunk_id(c) * (IF tr # trans_num(Kind(e, n)) THEN Piece
                               ELSE modal_chunk_size(Kind(e, n)))
<1>1. RING_NUMS \in Nat /\ RING_NUMS >= 2 /\ RDMA_nums \in Nat /\ RDMA_nums > 1
  BY BuildTypes, BucketTypes
<1>2. n \in 0 .. Writes(e) - 1
  BY <1>1 DEF Writes
<1>3. c - 1 \in 0 .. 2 * (RING_NUMS - 1) - 1
  BY <1>1
<1>4. ChunkSent(c - 1) \in Nat /\ chunk_id(c) = ChunkSent(c - 1)
  BY <1>1, <1>3, SentType, ChunkIdIsSent
<1>5. tr \in Nat
  <2>1. Kind(e, n) \in 0 .. 4
    BY <1>2, KindTypes
  <2> QED
    BY <2>1, ChunkTypes
<1>6. ChunkStart(e, n, tr, ChunkSent(c - 1)) \in Nat
  BY <1>2, <1>4, <1>5, ChunkStartType
<1>7. (IF e = 0 THEN 0 ELSE write_to_data_index[n]) = BucketStart(e, n)
  <2>1. CASE e = 0
    BY <2>1 DEF BucketStart, Kind
  <2>2. CASE e # 0
    BY <2>2, WriteIndex DEF BucketStart, Kind
  <2> QED
    BY <2>1, <2>2
<1>8. (IF tr # trans_num(Kind(e, n)) THEN Piece ELSE modal_chunk_size(Kind(e, n)))
      = ChunkSize(Kind(e, n), tr, 0)
  <2>1. modal_chunk_size(Kind(e, n)) = Cut(Kind(e, n))
    BY <1>2, KindTypes, ChunkTypes
  <2> QED
    BY <1>1, <2>1 DEF ChunkSize
<1> QED
  BY <1>3, <1>4, <1>6, <1>7, <1>8, Zenon DEF ChunkStart

\* What is reported: nothing while the chunk is one of partial sums, else a
\* place in it.
LEMMA ReportedStep ==
  ASSUME BuildOK, ParserOK', UNCHANGED config, result' = Reported
  PROVE  IF cur_chunk_num' < RING_NUMS THEN result' = -1
         ELSE LET start == ChunkStart(iter_num', cur_write_num', cur_trans_num',
                                      ChunkSent(cur_chunk_num' - 1))
              IN  start \in Nat /\ result' = start + cur_pac_num'
<1>1. RING_NUMS \in Nat /\ RING_NUMS >= 2
  BY BuildTypes
<1>2. /\ iter_num' \in Nat /\ cur_write_num' \in 0 .. RDMA_nums - 1
      /\ iter_num' = 0 => cur_write_num' = 0
      /\ chosen' = Kind(iter_num', cur_write_num')
      /\ cur_chunk_num' \in 0 .. 2 * (RING_NUMS - 1)
      /\ cur_trans_num' \in 0 .. trans_num(Kind(iter_num', cur_write_num'))
  BY BuildStays DEF ParserOK
<1>3. CASE cur_chunk_num' < RING_NUMS
  BY <1>3, Zenon DEF Reported, Partial
<1>4. CASE ~ (cur_chunk_num' < RING_NUMS)
  <2>1. \A c \in 0 .. 2 * (RING_NUMS - 1) :
          ~ (c < RING_NUMS) => c \in RING_NUMS .. 2 * (RING_NUMS - 1)
    BY <1>1
  <2>2. cur_chunk_num' \in RING_NUMS .. 2 * (RING_NUMS - 1)
    BY <1>2, <1>4, <2>1, Zenon
  <2>3. result' = (IF iter_num' = 0 THEN 0 ELSE write_to_data_index[cur_write_num'])
              + cur_trans_num' * Piece * RING_NUMS
              + chunk_id(cur_chunk_num') *
                  (IF cur_trans_num' # trans_num(chosen') THEN Piece
                   ELSE modal_chunk_size(chosen'))
              + cur_pac_num'
    BY <1>4, Zenon DEF Reported, Partial
  <2> DEFINE start == ChunkStart(iter_num', cur_write_num', cur_trans_num',
                                 ChunkSent(cur_chunk_num' - 1))
  <2>4. /\ start \in Nat
        /\ start = (IF iter_num' = 0 THEN 0 ELSE write_to_data_index[cur_write_num'])
              + cur_trans_num' * Piece * RING_NUMS
              + chunk_id(cur_chunk_num') *
                  (IF cur_trans_num' # trans_num(Kind(iter_num', cur_write_num'))
                   THEN Piece
                   ELSE modal_chunk_size(Kind(iter_num', cur_write_num')))
    BY <1>2, <2>2, IndexIsPlace, Zenon
  <2>5. result' = start + cur_pac_num'
    <3> HIDE DEF start
    <3> QED
      BY <1>2, <2>3, <2>4, Zenon
  <2> QED
    BY <1>4, <2>4, <2>5, Zenon
<1> QED
  BY <1>3, <1>4, Zenon

\* Every other packet leaves the counters at the chunk they stand for.
LEMMA GatherStep ==
  ASSUME NEW size, BuildOK, ParserOK, Gather(size), UNCHANGED config
  PROVE  /\ ParserOK' /\ Parser' = Parser /\ result' = -1
         /\ bc_gather_num # cur_bc_length /\ bc_gather_num' = bc_gather_num + size
         /\ cur_bc_length' = cur_bc_length /\ iter_num' = iter_num
BY BuildStays DEF Gather, ParserOK, Parser

LEMMA MiddleStep ==
  ASSUME BuildOK, ParserOK, MiddleOrLast, UNCHANGED config
  PROVE  /\ ParserOK' /\ Parser' = Parser
         /\ cur_pac_num' = cur_pac_num + 1
         /\ bc_gather_num = cur_bc_length
         /\ UNCHANGED <<bc_gather_num, cur_bc_length, iter_num, cur_chunk_num>>
BY BuildStays DEF MiddleOrLast, ParserOK, Parser

\* The sizes a parser keeps of the broadcasts.
GatherOK == bc_gather_num \in Nat /\ cur_bc_length \in Nat

LEMMA DecodeTypes ==
  ASSUME NEW op, NEW size \in Nat, BuildOK, ParserOK, GatherOK,
         decode_hex(op, size), UNCHANGED config
  PROVE  ParserOK' /\ GatherOK' /\ result' \in Nat \cup {-1}
<1>1. CASE Gather(size)
  BY <1>1, GatherStep DEF GatherOK
<1>2. CASE First
  <2>1. ParserOK'
    BY <1>2, FirstStep
  <2>2. GatherOK'
    BY <1>2, FirstStep, BuildAssumption DEF GatherOK
  <2>3. result' = Reported
    BY <1>2 DEF First
  <2>4. cur_pac_num' \in Nat
    BY <2>1 DEF ParserOK
  <2> QED
    BY <2>1, <2>2, <2>3, <2>4, ReportedStep
<1>3. CASE MiddleOrLast
  <2>1. ParserOK' /\ GatherOK'
    BY <1>3, MiddleStep DEF GatherOK
  <2>2. result' = Reported
    BY <1>3 DEF MiddleOrLast
  <2>3. cur_pac_num' \in Nat
    BY <2>1 DEF ParserOK
  <2> QED
    BY <2>1, <2>2, <2>3, ReportedStep
<1> QED
  BY <1>1, <1>2, <1>3 DEF decode_hex

-----------------------------------------------------------------------------
(* The invariant.                                                          *)

AccountsOK ==
  /\ due \in Nat /\ opening \in BOOLEAN
  /\ intact \in BOOLEAN /\ clean \in BOOLEAN /\ got \subseteq Nat
  /\ behind \in Nat /\ upset \in BOOLEAN
  /\ result \in Nat \cup {-1}

\* Broadcasts are gathered exactly, as long as the chunks before the second
\* one were counted.
BroadcastInv ==
  /\ due > 0 => dir = "inbound" /\ p = 0 /\ k = 0 /\ t = 0 /\ w = 0 /\ epoch <= 1
  /\ opening => due = BC_LENGTH2 /\ epoch = 1
  /\ dir = "outbound" => bc_gather_num = 0 /\ cur_bc_length = 0
  /\ upset => behind > 0 /\ dir = "inbound"
  /\ ~ upset =>
       /\ due = 0 \/ opening => bc_gather_num = cur_bc_length
       /\ due > 0 /\ ~ opening => bc_gather_num + due = cur_bc_length
       /\ dir = "inbound" /\ (due > 0 \/ epoch = 0) => behind = 0
       /\ opening => iter_num = 0
       /\ dir = "inbound" /\ epoch > 0 /\ ~ opening => iter_num > 0

\* Where the counters stand: at the chunk of the next packet or, before its
\* first packet, at the one before; one more behind if one was lost.
StepInv ==
  /\ behind = 0 => Traffic = IF p = 0 THEN After(Parser) ELSE Parser
  /\ behind = 1 /\ ~ upset =>
       Traffic = IF p = 0 THEN After(After(Parser)) ELSE After(Parser)

\* How many packets of the chunk are counted.
PacInv ==
  /\ behind = 0 /\ p > 0 => cur_pac_num < p
  /\ behind \in {0, 1} /\ ~ upset /\ p > 0 /\ intact =>
       cur_pac_num = p - 1 /\ cur_chunk_num > 0

IInv ==
  /\ BuildOK /\ TrafficOK /\ ParserOK /\ GatherOK /\ AccountsOK
  /\ BroadcastInv /\ StepInv /\ PacInv

LEMMA IInvTypes ==
  ASSUME IInv
  PROVE  TypeOK
<1>1. /\ chosen \in 0 .. 4 /\ RDMA_nums \in Nat
      /\ trans_num(Kind(epoch, w)) \in Nat
      /\ RING_NUMS \in Nat /\ RING_NUMS >= 2
      /\ SizeNow \in Nat
  <2>1. BuildOK /\ ParserOK /\ TrafficOK
    BY DEF IInv
  <2>2. Kind(epoch, w) \in 0 .. 4
    BY <2>1, KindTypes DEF TrafficOK
  <2> QED
    BY <2>1, <2>2, ParserTypes, ChunkTypes, SizeNowType
<1>2. /\ epoch \in Nat /\ w \in Nat /\ t \in Nat /\ k \in Nat /\ p \in Nat
  <2>1. Writes(epoch) \in Nat
    BY KindTypes DEF IInv, TrafficOK
  <2> QED
    BY <1>1, <2>1 DEF IInv, TrafficOK
<1>3. /\ due \in Nat /\ bc_gather_num \in Nat /\ cur_bc_length \in Nat
      /\ iter_num \in Nat /\ cur_pac_num \in Nat /\ behind \in Nat
      /\ opening \in BOOLEAN /\ intact \in BOOLEAN /\ clean \in BOOLEAN
      /\ upset \in BOOLEAN /\ got \subseteq Nat /\ result \in Nat \cup {-1}
  BY DEF IInv, AccountsOK, ParserOK, GatherOK
<1>4. /\ cur_write_num \in 0 .. RDMA_nums - 1
      /\ cur_trans_num \in 0 .. trans_num(chosen)
      /\ cur_chunk_num \in 0 .. 2 * (RING_NUMS - 1)
  BY DEF IInv, ParserOK
<1> QED
  BY <1>1, <1>2, <1>3, <1>4 DEF TypeOK

LEMMA InitInv ==
  ASSUME Init, CutsAgree
  PROVE  IInv
<1>1. BuildOK
  BY DEF Init, BuildOK
<1>2. /\ RING_NUMS \in Nat /\ RING_NUMS >= 2 /\ RDMA_nums \in Nat /\ RDMA_nums > 1
      /\ Writes(0) = 1 /\ Kind(0, 0) = 0 /\ trans_num(0) \in Nat
  <2>1. 0 \in 0 .. 4
    OBVIOUS
  <2>2. trans_num(0) \in Nat
    BY <1>1, <2>1, ChunkTypes
  <2> QED
    BY <1>1, <2>2, BuildTypes, BucketTypes DEF Writes, Kind
<1>3. TrafficOK
  <2>1. ChunkSent(0) \in Nat
    BY <1>1, <1>2, SentType
  <2>2. SizeNow \in Nat /\ SizeNow >= 2
    BY <1>1, <1>2, <2>1, ChunkTypes DEF SizeNow, Init
  <2> QED
    BY <1>2, <2>2 DEF Init, TrafficOK
<1>4. ParserOK
  BY <1>2 DEF Init, ParserOK
<1>5. GatherOK /\ AccountsOK
  BY BuildAssumption DEF Init, GatherOK, AccountsOK
<1>8. BroadcastInv
  <2>1. ~ opening /\ ~ upset /\ behind = 0 /\ epoch = 0
    BY DEF Init
  <2>2. due > 0 => dir = "inbound" /\ p = 0 /\ k = 0 /\ t = 0 /\ w = 0 /\ epoch <= 1
    BY DEF Init
  <2>3. dir = "outbound" => bc_gather_num = 0 /\ cur_bc_length = 0
    BY DEF Init
  <2>4. bc_gather_num + due = cur_bc_length /\ (due = 0 => bc_gather_num = cur_bc_length)
    BY BuildAssumption DEF Init
  <2> QED
    BY <2>1, <2>2, <2>3, <2>4 DEF BroadcastInv
<1>6. StepInv
  BY <1>2 DEF Init, StepInv, Traffic, Parser, After
<1>7. PacInv
  BY DEF Init, PacInv
<1> QED
  BY <1>1, <1>3, <1>4, <1>5, <1>6, <1>7, <1>8 DEF IInv

LEMMA AfterEpoch ==
  ASSUME NEW c, c.e \in Nat
  PROVE  After(c).e \in {c.e, c.e + 1}
BY DEF After

LEMMA OpFacts ==
  ASSUME BuildOK, TrafficOK
  PROVE  /\ p = 0 => Op = 6
         /\ p # 0 => Op \in {7, 9}
         /\ p \in Nat /\ SizeNow \in Nat /\ SizeNow >= 2
BY SizeNowType DEF Op, TrafficOK

\* What a step of the traffic does to the broadcasts that are due.
LEMMA AdvanceBroadcast ==
  ASSUME BuildOK, TrafficOK, Advance
  PROVE  /\ epoch' \in {epoch, epoch + 1}
         /\ \/ due' = 0 /\ ~ opening'
            \/ /\ due' = BC_LENGTH2 /\ opening' /\ dir = "inbound"
               /\ epoch = 0 /\ epoch' = 1 /\ p # 0
               /\ p' = 0 /\ k' = 0 /\ t' = 0 /\ w' = 0
         /\ dir = "inbound" /\ epoch = 0 /\ epoch' # 0 => opening'
         /\ due' \in Nat /\ opening' \in BOOLEAN
<1> DEFINE over == /\ ~ (p + 1 < SizeNow) /\ ~ (k + 1 < 2 * (RING_NUMS - 1))
                   /\ ~ (t + 1 <= trans_num(Kind(epoch, w)))
                   /\ ~ (w + 1 < Writes(epoch))
<1>1. p \in Nat /\ SizeNow >= 2 /\ SizeNow \in Nat /\ epoch \in Nat
  BY OpFacts DEF TrafficOK
<1>2. over => p # 0
  BY <1>1
<1>3. /\ opening' = (over /\ epoch = 0 /\ dir = "inbound")
      /\ due' = IF over /\ epoch = 0 /\ dir = "inbound" THEN BC_LENGTH2 ELSE 0
      /\ epoch' = IF over THEN epoch + 1 ELSE epoch
  BY DEF Advance
<1>4. over => p' = 0 /\ k' = 0 /\ t' = 0 /\ w' = 0
  BY DEF Advance
<1> HIDE DEF over
<1>5. CASE over /\ epoch = 0 /\ dir = "inbound"
  <2>1. opening' /\ opening' \in BOOLEAN /\ due' = BC_LENGTH2
    BY <1>3, <1>5, Zenon
  <2>2. epoch' = epoch + 1
    BY <1>3, <1>5, Zenon
  <2> QED
    BY <1>1, <1>2, <1>4, <1>5, <2>1, <2>2, BuildAssumption
<1>6. CASE ~ (over /\ epoch = 0 /\ dir = "inbound")
  <2>1. ~ opening' /\ opening' \in BOOLEAN
    BY <1>3, <1>6, Zenon
  <2>2. due' = 0
    BY <1>3, <1>6, Zenon
  <2>3. dir = "inbound" /\ epoch = 0 => epoch' = 0
    BY <1>3, <1>6, Zenon
  <2>4. epoch' \in {epoch, epoch + 1}
    BY <1>3
  <2> QED
    BY <2>1, <2>2, <2>3, <2>4
<1> QED
  BY <1>5, <1>6

\* A packet with data reaches the parser. Of the accounts only what the
\* invariant needs: they are kept for the properties, and a module that keeps
\* others can do without.
Arrives ==
  /\ DataPacket /\ UNCHANGED <<config, behind, upset>>
  /\ intact' \in BOOLEAN /\ clean' \in BOOLEAN /\ got' \subseteq Nat
  /\ intact' => p = 0 \/ intact

LEMMA DataArrives ==
  ASSUME IInv, Data
  PROVE  Arrives
<1>1. /\ BuildOK /\ ParserOK /\ GatherOK /\ AccountsOK
      /\ DataPacket /\ decode_hex(Op, 1) /\ Account(TRUE) /\ UNCHANGED config
  BY DEF IInv, Data, DataPacket
<1>2. result' \in Nat \cup {-1}
  BY <1>1, DecodeTypes
<1>3. upset' = upset /\ behind' = behind
  BY <1>1 DEF Account, AccountsOK
<1>4. intact' \in BOOLEAN /\ clean' \in BOOLEAN /\ (intact' => p = 0 \/ intact)
  BY <1>1 DEF Account, AccountsOK
<1>5. got' \subseteq Nat
  BY <1>1, <1>2 DEF Account, AccountsOK
<1> QED
  BY <1>1, <1>3, <1>4, <1>5 DEF Arrives

\* Unless a chunk before the second broadcast was not counted, a packet with
\* data is never gathered, nor is a packet of a broadcast decoded.
LEMMA DataIsDecoded ==
  ASSUME IInv, DataPacket
  PROVE  /\ ~ upset /\ p = 0 => First /\ ~ Opens
         /\ ~ upset /\ p # 0 => MiddleOrLast
<1>1. /\ BuildOK /\ TrafficOK /\ ParserOK /\ BroadcastInv /\ StepInv
      /\ due = 0 /\ decode_hex(Op, 1)
  BY DEF IInv, DataPacket
<1>2. ~ upset => bc_gather_num = cur_bc_length
  BY <1>1 DEF BroadcastInv
<1>3. ~ upset /\ p # 0 => MiddleOrLast
  BY <1>1, <1>2, OpFacts DEF decode_hex, Gather
<1>4. ~ upset /\ p = 0 => First
  BY <1>1, <1>2, OpFacts DEF decode_hex, Gather
<1>5. ASSUME ~ upset, p = 0, Opens
      PROVE  FALSE
  <2>1. ~ opening
    BY <1>1, BuildAssumption DEF BroadcastInv
  <2>2. epoch = 0 /\ behind = 0
    BY <1>1, <1>5, <2>1 DEF Opens, BroadcastInv, TrafficOK
  <2>3. Traffic = After(Parser)
    BY <1>1, <1>5, <2>2 DEF StepInv
  <2> QED
    BY <1>5, <2>2, <2>3 DEF Opens, Traffic
<1> QED
  BY <1>3, <1>4, <1>5

LEMMA ArrivesInv ==
  ASSUME IInv, Arrives
  PROVE  IInv'
<1>1. /\ BuildOK /\ TrafficOK /\ ParserOK /\ GatherOK /\ AccountsOK
      /\ BroadcastInv /\ StepInv /\ PacInv
      /\ due = 0 /\ decode_hex(Op, 1) /\ Advance
      /\ UNCHANGED config
  BY DEF IInv, Arrives, DataPacket
<1>2. BuildOK'
  BY <1>1, BuildStays
<1>3. /\ TrafficOK'
      /\ p' = IF p + 1 < SizeNow THEN p + 1 ELSE 0
      /\ p' # 0 => Traffic' = Traffic
      /\ p' = 0 => Traffic' = After(Traffic)
  BY <1>1, AdvanceStep
<1>4. ParserOK' /\ GatherOK' /\ result' \in Nat \cup {-1}
  BY <1>1, DecodeTypes
<1>5. /\ p = 0 => Op = 6
      /\ p # 0 => Op \in {7, 9}
      /\ p \in Nat /\ SizeNow \in Nat /\ SizeNow >= 2
  BY <1>1, OpFacts
<1>6. /\ ~ upset /\ p = 0 => First /\ ~ Opens
      /\ ~ upset /\ p # 0 => MiddleOrLast
      /\ upset' = upset /\ behind' = behind
  BY DataIsDecoded DEF Arrives
<1>7. /\ epoch' \in {epoch, epoch + 1}
      /\ \/ due' = 0 /\ ~ opening'
         \/ /\ due' = BC_LENGTH2 /\ opening' /\ dir = "inbound"
            /\ epoch = 0 /\ epoch' = 1 /\ p # 0
            /\ p' = 0 /\ k' = 0 /\ t' = 0 /\ w' = 0
      /\ dir = "inbound" /\ epoch = 0 /\ epoch' # 0 => opening'
      /\ due' \in Nat /\ opening' \in BOOLEAN
  BY <1>1, AdvanceBroadcast
<1>8. AccountsOK'
  BY <1>1, <1>4, <1>6, <1>7 DEF AccountsOK, Arrives
<1>9. /\ ~ upset /\ p = 0 => /\ Parser' = After(Parser) /\ cur_chunk_num' > 0
                             /\ cur_pac_num' = 0
      /\ ~ upset /\ p # 0 => /\ Parser' = Parser /\ cur_chunk_num' = cur_chunk_num
                             /\ cur_pac_num' = cur_pac_num + 1
  BY <1>1, <1>6, FirstStep, MiddleStep
<1>10. ~ upset => iter_num' \in {iter_num, iter_num + 1}
  <2>1. Parser.e = iter_num /\ Parser'.e = iter_num' /\ iter_num \in Nat
    BY <1>1 DEF Parser, ParserOK
  <2> QED
    BY <1>9, <2>1, AfterEpoch
<1>11. StepInv'
  <2>1. After(Parser)' = After(Parser') /\ After(After(Parser))' = After(After(Parser'))
    BY <1>1, AfterStays
  <2>2. ASSUME behind = 0
        PROVE  Traffic' = IF p' = 0 THEN After(Parser') ELSE Parser'
    <3>1. ~ upset
      BY <1>1, <2>2 DEF BroadcastInv
    <3>2. Traffic = IF p = 0 THEN After(Parser) ELSE Parser
      BY <1>1, <2>2 DEF StepInv
    <3> QED
      BY <1>3, <1>5, <1>9, <3>1, <3>2
  <2>3. ASSUME behind = 1, ~ upset
        PROVE  Traffic' = IF p' = 0 THEN After(After(Parser')) ELSE After(Parser')
    <3>1. Traffic = IF p = 0 THEN After(After(Parser)) ELSE After(Parser)
      BY <1>1, <2>3 DEF StepInv
    <3> QED
      BY <1>3, <1>5, <1>9, <2>3, <3>1
  <2> QED
    BY <1>6, <2>1, <2>2, <2>3 DEF StepInv
<1>12. PacInv'
  <2>1. CASE upset
    BY <1>1, <1>6, <2>1 DEF PacInv, BroadcastInv
  <2>2. CASE ~ upset
    <3>1. intact' => p = 0 \/ intact
      BY DEF Arrives
    <3> QED
      BY <1>1, <1>3, <1>5, <1>6, <1>9, <2>2, <3>1 DEF PacInv, ParserOK
  <2> QED
    BY <2>1, <2>2
<1>13. BroadcastInv'
  <2> DEFINE safe == ~ upset
  <2>1. dir' = dir /\ dir \in {"inbound", "outbound"}
    BY <1>1 DEF config, BuildOK
  <2>2. due' > 0 => /\ dir' = "inbound" /\ p' = 0 /\ k' = 0 /\ t' = 0 /\ w' = 0
                    /\ epoch' <= 1
    BY <1>7, <2>1
  <2>3. opening' => due' = BC_LENGTH2 /\ epoch' = 1
    BY <1>7
  <2>4. upset' => behind' > 0 /\ dir' = "inbound"
    BY <1>1, <1>6, <2>1 DEF BroadcastInv
  <2>5. ~ upset => /\ bc_gather_num' = cur_bc_length'
                   /\ dir = "outbound" => bc_gather_num' = 0 /\ cur_bc_length' = 0
    <3> SUFFICES ASSUME ~ upset
                 PROVE  /\ bc_gather_num' = cur_bc_length'
                        /\ dir = "outbound" => bc_gather_num' = 0 /\ cur_bc_length' = 0
      OBVIOUS
    <3>1. dir = "outbound" => bc_gather_num = 0 /\ cur_bc_length = 0
      BY <1>1 DEF BroadcastInv
    <3>2. CASE p = 0
      BY <1>1, <1>6, <2>1, <3>1, <3>2, FirstStep
    <3>3. CASE p # 0
      BY <1>1, <1>6, <3>1, <3>3, MiddleStep
    <3> QED
      BY <3>2, <3>3
  <2>6. dir = "outbound" => ~ upset
    BY <1>1 DEF BroadcastInv
  <2>7. ~ upset => (dir = "inbound" /\ (due' > 0 \/ epoch' = 0) => behind' = 0)
    BY <1>1, <1>6, <1>7 DEF BroadcastInv, TrafficOK
  <2>8. ~ upset => (opening' => iter_num' = 0)
    <3> SUFFICES ASSUME ~ upset, opening'
                 PROVE  iter_num' = 0
      OBVIOUS
    <3>1. epoch = 0 /\ p # 0 /\ dir = "inbound"
      BY <1>7
    <3>2. behind = 0
      BY <1>1, <3>1 DEF BroadcastInv
    <3>3. Traffic = Parser /\ Parser' = Parser
      BY <1>1, <1>9, <3>1, <3>2 DEF StepInv
    <3> QED
      BY <3>1, <3>3 DEF Traffic, Parser
  <2>9. ~ upset => (dir = "inbound" /\ epoch' > 0 /\ ~ opening' => iter_num' > 0)
    <3> SUFFICES ASSUME ~ upset, dir = "inbound", epoch' > 0, ~ opening'
                 PROVE  iter_num' > 0
      OBVIOUS
    <3>1. epoch > 0
      BY <1>1, <1>7 DEF TrafficOK
    <3>2. ~ opening
      BY <1>1, BuildAssumption DEF BroadcastInv
    <3>3. iter_num > 0
      BY <1>1, <3>1, <3>2 DEF BroadcastInv
    <3> QED
      BY <1>1, <1>10, <3>3 DEF ParserOK
  <2>10. ~ (due' > 0 /\ ~ opening')
    BY <1>7
  <2> QED
    BY <1>6, <2>1, <2>2, <2>3, <2>4, <2>5, <2>6, <2>7, <2>8, <2>9, <2>10
    DEF BroadcastInv
<1> QED
  BY <1>2, <1>3, <1>4, <1>8, <1>11, <1>12, <1>13 DEF IInv

LEMMA LoseInv ==
  ASSUME IInv, Lose
  PROVE  IInv'
<1>1. /\ BuildOK /\ TrafficOK /\ ParserOK /\ GatherOK /\ AccountsOK
      /\ BroadcastInv /\ StepInv /\ PacInv
      /\ due = 0 /\ Advance /\ Account(FALSE)
      /\ UNCHANGED <<config, counters, result>>
  BY DEF IInv, Lose
<1>2. BuildOK'
  BY <1>1, BuildStays
<1>3. /\ TrafficOK'
      /\ p' = IF p + 1 < SizeNow THEN p + 1 ELSE 0
      /\ p' # 0 => Traffic' = Traffic
      /\ p' = 0 => Traffic' = After(Traffic)
  BY <1>1, AdvanceStep
<1>4. /\ UNCHANGED <<bc_gather_num, cur_bc_length, iter_num, cur_write_num,
                     cur_trans_num, cur_chunk_num, cur_pac_num, chosen>>
      /\ result' = result
  BY <1>1 DEF counters
<1>5. ParserOK' /\ GatherOK' /\ Parser' = Parser
  BY <1>1, <1>4, BuildStays DEF ParserOK, GatherOK, Parser
<1>6. p \in Nat /\ SizeNow \in Nat /\ SizeNow >= 2
  BY <1>1, OpFacts
<1>7. /\ epoch' \in {epoch, epoch + 1}
      /\ \/ due' = 0 /\ ~ opening'
         \/ /\ due' = BC_LENGTH2 /\ opening' /\ dir = "inbound"
            /\ epoch = 0 /\ epoch' = 1 /\ p # 0
            /\ p' = 0 /\ k' = 0 /\ t' = 0 /\ w' = 0
      /\ dir = "inbound" /\ epoch = 0 /\ epoch' # 0 => opening'
      /\ due' \in Nat /\ opening' \in BOOLEAN
  BY <1>1, AdvanceBroadcast
<1>8. /\ behind' = IF p # 0 THEN behind ELSE behind + 1
      /\ behind \in Nat /\ behind' \in Nat
      /\ ~ intact' /\ ~ clean' /\ intact' \in BOOLEAN /\ clean' \in BOOLEAN
      /\ got' = {}
  <2>1. ~ intact' /\ ~ clean' /\ intact' \in BOOLEAN /\ clean' \in BOOLEAN
    BY <1>1, Zenon DEF Account
  <2>2. got' = {}
    BY <1>1, <2>1, Zenon DEF Account
  <2>3. behind' = IF p # 0 THEN behind ELSE behind + 1
    BY <1>1, Zenon DEF Account
  <2>4. behind \in Nat
    BY <1>1 DEF AccountsOK
  <2> QED
    BY <2>1, <2>2, <2>3, <2>4
<1>9. /\ upset' \in BOOLEAN
      /\ upset' <=> upset \/ (p = 0 /\ epoch = 0 /\ dir = "inbound")
  BY <1>1 DEF Account
<1>10. AccountsOK'
  BY <1>1, <1>4, <1>7, <1>8, <1>9 DEF AccountsOK
<1>11. StepInv'
  <2>1. After(Parser)' = After(Parser') /\ After(After(Parser))' = After(After(Parser'))
    BY <1>1, AfterStays
  <2>2. ASSUME behind' = 0
        PROVE  Traffic' = IF p' = 0 THEN After(Parser') ELSE Parser'
    <3>1. p # 0 /\ behind = 0
      BY <1>8, <2>2
    <3>2. Traffic = Parser
      BY <1>1, <3>1 DEF StepInv
    <3> QED
      BY <1>3, <1>5, <3>2
  <2>3. ASSUME behind' = 1, ~ upset'
        PROVE  Traffic' = IF p' = 0 THEN After(After(Parser')) ELSE After(Parser')
    <3>1. CASE p = 0
      <4>1. behind = 0
        BY <1>8, <2>3, <3>1
      <4>2. Traffic = After(Parser)
        BY <1>1, <3>1, <4>1 DEF StepInv
      <4> QED
        BY <1>3, <1>5, <1>6, <3>1, <4>2
    <3>2. CASE p # 0
      <4>1. behind = 1 /\ ~ upset
        BY <1>8, <1>9, <2>3, <3>2
      <4>2. Traffic = After(Parser)
        BY <1>1, <3>2, <4>1 DEF StepInv
      <4> QED
        BY <1>3, <1>5, <4>2
    <3> QED
      BY <3>1, <3>2
  <2> QED
    BY <2>1, <2>2, <2>3 DEF StepInv
<1>12. PacInv'
  <2>1. behind' = 0 /\ p' > 0 => cur_pac_num' < p'
    <3> SUFFICES ASSUME behind' = 0, p' > 0
                 PROVE  cur_pac_num' < p'
      OBVIOUS
    <3>1. behind = 0 /\ p # 0 /\ p > 0 /\ p' = p + 1
      BY <1>3, <1>6, <1>8
    <3> QED
      BY <1>1, <1>4, <1>6, <3>1 DEF PacInv, ParserOK
  <2> QED
    BY <1>8, <2>1 DEF PacInv
<1>13. BroadcastInv'
  <2>1. dir' = dir /\ dir \in {"inbound", "outbound"}
    BY <1>1 DEF config, BuildOK
  <2>2. due' > 0 => /\ dir' = "inbound" /\ p' = 0 /\ k' = 0 /\ t' = 0 /\ w' = 0
                    /\ epoch' <= 1
    BY <1>7, <2>1
  <2>3. opening' => due' = BC_LENGTH2 /\ epoch' = 1
    BY <1>7
  <2>4. upset' => behind' > 0 /\ dir' = "inbound"
    <3>1. upset => behind > 0 /\ dir = "inbound"
      BY <1>1 DEF BroadcastInv
    <3>2. CASE p = 0
      BY <1>8, <1>9, <2>1, <3>1, <3>2
    <3>3. CASE p # 0
      BY <1>8, <1>9, <2>1, <3>1, <3>3
    <3> QED
      BY <3>2, <3>3
  <2>5. ~ upset' => ~ upset
    BY <1>9
  <2>6. /\ ~ upset => bc_gather_num' = cur_bc_length'
        /\ dir = "outbound" => bc_gather_num' = 0 /\ cur_bc_length' = 0
    BY <1>1, <1>4 DEF BroadcastInv
  <2>7. ~ upset' => (dir = "inbound" /\ (due' > 0 \/ epoch' = 0) => behind' = 0)
    <3> SUFFICES ASSUME ~ upset', dir = "inbound", due' > 0 \/ epoch' = 0
                 PROVE  behind' = 0
      OBVIOUS
    <3>1. epoch = 0
      BY <1>1, <1>7 DEF TrafficOK
    <3>2. p # 0 /\ behind = 0
      BY <1>1, <1>9, <2>5, <3>1 DEF BroadcastInv
    <3> QED
      BY <1>8, <3>2
  <2>8. ~ upset' => (opening' => iter_num' = 0)
    <3> SUFFICES ASSUME ~ upset', opening'
                 PROVE  iter_num' = 0
      OBVIOUS
    <3>1. epoch = 0 /\ p # 0 /\ dir = "inbound"
      BY <1>7
    <3>2. behind = 0
      BY <1>1, <2>5, <3>1 DEF BroadcastInv
    <3>3. Traffic = Parser
      BY <1>1, <3>1, <3>2 DEF StepInv
    <3> QED
      BY <1>4, <3>1, <3>3 DEF Traffic, Parser
  <2>9. ~ upset' => (dir = "inbound" /\ epoch' > 0 /\ ~ opening' => iter_num' > 0)
    <3> SUFFICES ASSUME ~ upset', dir = "inbound", epoch' > 0, ~ opening'
                 PROVE  iter_num' > 0
      OBVIOUS
    <3>1. epoch > 0
      BY <1>1, <1>7 DEF TrafficOK
    <3>2. ~ opening
      BY <1>1, BuildAssumption DEF BroadcastInv
    <3> QED
      BY <1>1, <1>4, <2>5, <3>1, <3>2 DEF BroadcastInv
  <2>10. ~ (due' > 0 /\ ~ opening')
    BY <1>7
  <2> QED
    BY <2>1, <2>2, <2>3, <2>4, <2>5, <2>6, <2>7, <2>8, <2>9, <2>10
    DEF BroadcastInv
<1> QED
  BY <1>2, <1>3, <1>5, <1>10, <1>11, <1>12, <1>13 DEF IInv

\* The packet that opens the second broadcast finds the inbound parser at the
\* end of the first iteration.
LEMMA OpeningIsDecoded ==
  ASSUME IInv, due > 0, opening, ~ upset, decode_hex(6, 1)
  PROVE  First /\ Opens /\ Traffic = After(Parser)
<1>1. BroadcastInv /\ StepInv /\ TrafficOK
  BY DEF IInv
<1>2. /\ dir = "inbound" /\ p = 0 /\ epoch = 1 /\ iter_num = 0 /\ behind = 0
      /\ bc_gather_num = cur_bc_length
  BY <1>1 DEF BroadcastInv
<1>3. First
  BY <1>2 DEF decode_hex, Gather
<1>4. Traffic = After(Parser)
  BY <1>1, <1>2 DEF StepInv
<1>5. After(Parser).e = 1
  BY <1>2, <1>4 DEF Traffic
<1> QED
  BY <1>2, <1>3, <1>4, <1>5 DEF Opens

LEMMA BroadcastKeepsInv ==
  ASSUME IInv, Broadcast
  PROVE  IInv'
<1>1. /\ BuildOK /\ TrafficOK /\ ParserOK /\ GatherOK /\ AccountsOK
      /\ BroadcastInv /\ StepInv /\ PacInv
      /\ due > 0 /\ BroadcastPacket
      /\ UNCHANGED config /\ UNCHANGED place /\ UNCHANGED accounts
  BY DEF IInv, Broadcast, BroadcastPacket
<1>2. /\ UNCHANGED <<epoch, w, t, k, p, intact, clean, got, behind, upset>>
      /\ dir' = dir /\ Traffic' = Traffic
  BY <1>1 DEF place, accounts, config, Traffic
<1>3. BuildOK' /\ TrafficOK'
  BY <1>1, <1>2, BuildStays DEF TrafficOK, SizeNow, ChunkSent, Rank
<1>4. /\ dir = "inbound" /\ p = 0 /\ k = 0 /\ t = 0 /\ w = 0 /\ epoch <= 1
      /\ due \in Nat /\ behind \in Nat /\ p' = 0
  BY <1>1, <1>2 DEF BroadcastInv, AccountsOK
<1>5. After(Parser)' = After(Parser') /\ After(After(Parser))' = After(After(Parser'))
  BY <1>1, AfterStays
<1>6. CASE opening
  <2>1. decode_hex(6, 1) /\ ~ opening' /\ opening' \in BOOLEAN /\ due' = due
    BY <1>1, <1>6 DEF BroadcastPacket
  <2>2. ParserOK' /\ GatherOK' /\ result' \in Nat \cup {-1}
    BY <1>1, <2>1, DecodeTypes
  <2>3. AccountsOK'
    BY <1>1, <1>2, <2>1, <2>2 DEF AccountsOK
  <2>4. PacInv'
    BY <1>4 DEF PacInv
  <2>5. CASE upset
    <3>1. behind > 0
      BY <1>1, <2>5 DEF BroadcastInv
    <3>2. StepInv'
      BY <1>2, <1>4, <2>5, <3>1 DEF StepInv
    <3>3. BroadcastInv'
      BY <1>2, <1>4, <2>1, <2>5, <3>1 DEF BroadcastInv
    <3> QED
      BY <1>3, <2>2, <2>3, <2>4, <3>2, <3>3 DEF IInv
  <2>6. CASE ~ upset
    <3>1. First /\ Opens /\ Traffic = After(Parser)
      BY <1>1, <1>6, <2>1, <2>6, OpeningIsDecoded
    <3>2. /\ Parser' = [e |-> 1, w |-> 0, t |-> 0, k |-> -1]
          /\ bc_gather_num' = 0 /\ cur_bc_length' = BC_LENGTH2
          /\ Traffic = [e |-> 1, w |-> 0, t |-> 0, k |-> 0]
      BY <1>1, <3>1, FirstStep
    <3>3. behind = 0 /\ due = BC_LENGTH2
      BY <1>1, <1>4, <1>6, <2>6 DEF BroadcastInv
    <3>4. After(Parser') = [e |-> 1, w |-> 0, t |-> 0, k |-> 0]
      BY <1>1, <3>2, BuildTypes DEF After
    <3>5. StepInv'
      BY <1>2, <1>4, <1>5, <3>2, <3>3, <3>4 DEF StepInv
    <3>6. iter_num' = 1 /\ epoch = 1
      BY <3>2 DEF Parser, Traffic
    <3>7. BroadcastInv'
      BY <1>2, <1>4, <2>1, <2>6, <3>2, <3>3, <3>6, BuildAssumption DEF BroadcastInv
    <3> QED
      BY <1>3, <2>2, <2>3, <2>4, <3>5, <3>7 DEF IInv
  <2> QED
    BY <2>5, <2>6
<1>7. CASE ~ opening
  <2>1. PICK op \in {6, 7, 9}, size \in 1 .. due :
          decode_hex(op, size) /\ due' = due - size /\ opening' = opening
    BY <1>1, <1>7 DEF BroadcastPacket
  <2>2. size \in Nat /\ due' \in Nat /\ size <= due
    BY <1>4, <2>1
  <2>3. ParserOK' /\ GatherOK' /\ result' \in Nat \cup {-1}
    BY <1>1, <2>1, <2>2, DecodeTypes
  <2>4. AccountsOK'
    BY <1>1, <1>2, <2>1, <2>2, <2>3 DEF AccountsOK
  <2>5. PacInv'
    BY <1>4 DEF PacInv
  <2>6. CASE upset
    <3>1. behind > 0
      BY <1>1, <2>6 DEF BroadcastInv
    <3>2. StepInv'
      BY <1>2, <1>4, <2>6, <3>1 DEF StepInv
    <3>3. BroadcastInv'
      BY <1>2, <1>4, <1>7, <2>1, <2>6, <3>1 DEF BroadcastInv
    <3> QED
      BY <1>3, <2>3, <2>4, <2>5, <3>2, <3>3 DEF IInv
  <2>7. CASE ~ upset
    <3>1. bc_gather_num + due = cur_bc_length /\ behind = 0
      BY <1>1, <1>4, <1>7, <2>7 DEF BroadcastInv
    <3>2. bc_gather_num # cur_bc_length
      BY <1>1, <1>4, <3>1 DEF GatherOK
    <3>3. Gather(size)
      BY <2>1, <3>2 DEF decode_hex, First, MiddleOrLast
    <3>4. /\ Parser' = Parser /\ bc_gather_num' = bc_gather_num + size
          /\ cur_bc_length' = cur_bc_length /\ iter_num' = iter_num
      BY <1>1, <3>3, GatherStep
    <3>5. StepInv'
      BY <1>1, <1>2, <1>4, <1>5, <3>1, <3>4 DEF StepInv
    <3>6. bc_gather_num' + due' = cur_bc_length' /\ (due' = 0 => bc_gather_num' = cur_bc_length')
      BY <1>1, <1>4, <2>1, <2>2, <3>1, <3>4 DEF GatherOK
    <3>7. epoch > 0 => iter_num > 0
      BY <1>1, <1>4, <1>7, <2>7 DEF BroadcastInv
    <3>8. BroadcastInv'
      BY <1>2, <1>4, <1>7, <2>1, <2>7, <3>1, <3>4, <3>6, <3>7 DEF BroadcastInv
    <3> QED
      BY <1>3, <2>3, <2>4, <2>5, <3>5, <3>8 DEF IInv
  <2> QED
    BY <2>6, <2>7
<1> QED
  BY <1>6, <1>7

LEMMA StutterInv ==
  ASSUME IInv, UNCHANGED <<config, place, opening, due, accounts, counters>>,
         result' \in Nat \cup {-1}
  PROVE  IInv'
<1>1. /\ UNCHANGED config
      /\ UNCHANGED <<epoch, w, t, k, p, opening, due, intact, clean, got,
                     behind, upset, bc_gather_num, cur_bc_length, iter_num,
                     cur_write_num, cur_trans_num, cur_chunk_num, cur_pac_num,
                     chosen>>
  BY DEF place, accounts, counters
<1>2. BuildOK' /\ TrafficOK' /\ ParserOK' /\ GatherOK' /\ AccountsOK'
  BY <1>1, BuildStays
  DEF IInv, TrafficOK, ParserOK, GatherOK, AccountsOK, SizeNow, ChunkSent, Rank, config
<1>3. dir' = dir /\ Traffic' = Traffic /\ Parser' = Parser
  BY <1>1 DEF config, Traffic, Parser
<1>4. After(Parser)' = After(Parser) /\ After(After(Parser))' = After(After(Parser))
  BY <1>1, <1>3, AfterStays
<1>5. BroadcastInv' /\ PacInv'
  BY <1>1, <1>3 DEF IInv, BroadcastInv, PacInv
<1>6. StepInv'
  BY <1>1, <1>3, <1>4 DEF IInv, StepInv
<1> QED
  BY <1>2, <1>5, <1>6 DEF IInv

LEMMA NextInv ==
  ASSUME IInv, [Next]_vars
  PROVE  IInv'
<1>1. CASE Broadcast
  BY <1>1, BroadcastKeepsInv
<1>2. CASE Data
  BY <1>2, DataArrives, ArrivesInv
<1>3. CASE Lose
  BY <1>3, LoseInv
<1>4. CASE Other
  BY <1>4, StutterInv DEF Other, OtherPacket
<1>5. CASE UNCHANGED vars
  <2>1. /\ UNCHANGED <<config, place, opening, due, accounts, counters>>
        /\ result' = result
    BY <1>5 DEF vars, traffic
  <2>2. result \in Nat \cup {-1}
    BY DEF IInv, AccountsOK
  <2> QED
    BY <2>1, <2>2, StutterInv
<1> QED
  BY <1>1, <1>2, <1>3, <1>4, <1>5 DEF Next

\* The counters follow the traffic: they stand for the chunk of the packet
\* at hand, or for the one before it if one first packet was lost, provided
\* the sizes the parser computes are those the sender cuts.
THEOREM DecodeInvariant == Spec /\ CutsAgree => []IInv
<1>1. Init /\ CutsAgree => IInv
  BY InitInv
<1>2. IInv /\ [Next]_vars => IInv'
  BY NextInv
<1> QED
  BY <1>1, <1>2, PTL DEF Spec

\* The counters of decode_hex stay in their ranges, and so does the index it
\* reports, whatever was lost.
THEOREM DecodeTypeCorrect == Spec /\ CutsAgree => []TypeOK
<1>1. IInv => TypeOK
  BY IInvTypes
<1> QED
  BY <1>1, DecodeInvariant, PTL

-----------------------------------------------------------------------------
(* What is reported.                                                       *)

\* Nothing lost before: the counters stand for the chunk of this packet.
LEMMA InStep ==
  ASSUME IInv, Arrives, behind = 0
  PROVE  /\ iter_num' = epoch /\ cur_write_num' = w /\ cur_trans_num' = t
         /\ cur_chunk_num' = k + 1
         /\ cur_pac_num' \in 0 .. p /\ (intact' => cur_pac_num' = p)
         /\ result' = IF IsFinal(k) THEN Place - p + cur_pac_num' ELSE -1
         /\ Place - p \in Nat
<1>1. /\ BuildOK /\ TrafficOK /\ ParserOK /\ BroadcastInv /\ StepInv /\ PacInv
      /\ DataPacket /\ UNCHANGED config
  BY DEF IInv, Arrives
<1>2. ~ upset
  BY <1>1 DEF BroadcastInv
<1>3. /\ p = 0 => First /\ ~ Opens
      /\ p # 0 => MiddleOrLast
  BY <1>1, <1>2, DataIsDecoded
<1>4. p = 0 => Parser' = Traffic /\ cur_pac_num' = 0
  BY <1>1, <1>3, FirstStep DEF StepInv
<1>5. p # 0 => Parser' = Traffic /\ cur_pac_num' = cur_pac_num + 1
  BY <1>1, <1>3, MiddleStep DEF StepInv
<1>6. ParserOK' /\ result' = Reported
  BY <1>1, <1>3, FirstStep, MiddleStep DEF First, MiddleOrLast
<1>7. cur_chunk_num' \in Nat
  BY <1>1, <1>6, BuildStays, BuildTypes DEF ParserOK
<1>8. /\ p \in Nat /\ k \in 0 .. 2 * (RING_NUMS - 1) - 1 /\ k \in Nat
      /\ epoch \in Nat /\ w \in 0 .. Writes(epoch) - 1 /\ t \in Nat
      /\ RING_NUMS \in Nat /\ RING_NUMS >= 2
      /\ ChunkSent(k) \in Nat
  <2>1. RING_NUMS \in Nat /\ RING_NUMS >= 2
    BY <1>1, BuildTypes
  <2>2. Kind(epoch, w) \in 0 .. 4
    BY <1>1, KindTypes DEF TrafficOK
  <2>3. t \in Nat
    BY <1>1, <2>2, ChunkTypes DEF TrafficOK
  <2>4. ChunkSent(k) \in Nat
    BY <1>1, <2>1, SentType DEF TrafficOK
  <2> QED
    BY <1>1, <2>1, <2>3, <2>4, OpFacts DEF TrafficOK
<1>9. /\ iter_num' = epoch /\ cur_write_num' = w /\ cur_trans_num' = t
      /\ cur_chunk_num' = k + 1
  <2>1. Parser' = Traffic
    BY <1>4, <1>5
  <2>2. cur_chunk_num' - 1 = k
    BY <2>1 DEF Parser, Traffic
  <2> QED
    BY <2>1, <2>2, <1>7, <1>8 DEF Parser, Traffic
<1>10. cur_pac_num' \in 0 .. p /\ (intact' => cur_pac_num' = p)
  <2>1. CASE p = 0
    BY <1>4, <2>1
  <2>2. CASE p # 0
    <3>1. intact' => intact
      BY <2>2 DEF Arrives
    <3> QED
      BY <1>1, <1>2, <1>5, <1>8, <2>2, <3>1 DEF PacInv, ParserOK
  <2> QED
    BY <2>1, <2>2
<1> DEFINE start == ChunkStart(epoch, w, t, ChunkSent(k))
<1>11. start \in Nat
  BY <1>1, <1>8, ChunkStartType
<1>12. Place - p = start
  <2> HIDE DEF start
  <2>1. Place = start + p
    BY DEF Place, start
  <2> QED
    BY <1>8, <1>11, <2>1
<1>13. result' = IF IsFinal(k) THEN start + cur_pac_num' ELSE -1
  <2>1. (k + 1) - 1 = k /\ (k + 1 < RING_NUMS <=> ~ IsFinal(k))
    BY <1>8 DEF IsFinal
  <2>2. IF k + 1 < RING_NUMS THEN result' = -1
        ELSE result' = ChunkStart(epoch, w, t, ChunkSent((k + 1) - 1)) + cur_pac_num'
    BY <1>1, <1>6, <1>9, ReportedStep, Zenon
  <2> QED
    BY <2>1, <2>2, Zenon
<1> QED
  BY <1>9, <1>10, <1>11, <1>12, <1>13, Zenon

LEMMA FinalsLocatedStep ==
  ASSUME IInv, Arrives, intact', behind = 0
  PROVE  result' = IF IsFinal(k) THEN Place ELSE -1
<1>1. /\ cur_pac_num' = p /\ Place - p \in Nat
      /\ result' = IF IsFinal(k) THEN Place - p + cur_pac_num' ELSE -1
  BY InStep, Zenon
<1>2. p \in Nat /\ Place \in Int
  <2>1. p \in Nat /\ epoch \in Nat /\ w \in 0 .. Writes(epoch) - 1 /\ t \in Nat
        /\ ChunkSent(k) \in Nat /\ BuildOK
    BY OpFacts, SentType, KindTypes, ChunkTypes, BuildTypes DEF IInv, TrafficOK
  <2> QED
    BY <2>1, ChunkStartType DEF Place
<1>3. Place - p + p = Place
  BY <1>2
<1> QED
  BY <1>1, <1>3, Zenon

LEMMA DamageStep ==
  ASSUME IInv, Data, result' # -1, behind = 0
  PROVE  IsFinal(k) /\ result' \in Place - p .. Place
<1>1. /\ cur_pac_num' \in 0 .. p /\ Place - p \in Nat
      /\ result' = IF IsFinal(k) THEN Place - p + cur_pac_num' ELSE -1
  BY DataArrives, InStep, Zenon
<1>2. IsFinal(k) /\ result' = Place - p + cur_pac_num'
  BY <1>1, Zenon
<1>3. p \in Nat
  BY OpFacts DEF IInv
<1>4. Place \in Int
  <2>1. epoch \in Nat /\ w \in 0 .. Writes(epoch) - 1 /\ t \in Nat
        /\ ChunkSent(k) \in Nat /\ BuildOK
    BY SentType, KindTypes, ChunkTypes, BuildTypes DEF IInv, TrafficOK
  <2> QED
    BY <1>3, <2>1, ChunkStartType DEF Place
<1>5. \A q \in 0 .. p : Place - p + q \in Place - p .. Place
  BY <1>3, <1>4
<1> QED
  BY <1>1, <1>2, <1>5, Zenon

\* Only one chunk comes just before another.
LEMMA EarlierIsUnique ==
  ASSUME BuildOK, TrafficOK, NEW e \in Nat, NEW n \in 0 .. Writes(e) - 1,
         NEW tr \in 0 .. trans_num(Kind(e, n)),
         NEW s \in 0 .. 2 * (RING_NUMS - 1) - 1,
         Traffic = After([e |-> e, w |-> n, t |-> tr, k |-> s])
  PROVE  Earlier = [e |-> e, w |-> n, t |-> tr, k |-> s]
<1> DEFINE c == [e |-> e, w |-> n, t |-> tr, k |-> s]
           last == 2 * (RING_NUMS - 1) - 1
<1>1. /\ RING_NUMS \in Nat /\ RING_NUMS >= 2 /\ s \in Nat
      /\ Writes(e) \in Nat \ {0} /\ n \in Nat
  BY BuildTypes, KindTypes
<1>2. trans_num(Kind(e, n)) \in Nat /\ tr \in Nat
  <2>1. Kind(e, n) \in 0 .. 4
    BY KindTypes
  <2>2. trans_num(Kind(e, n)) \in Nat \ {0}
    BY <2>1, ChunkTypes, Zenon
  <2> QED
    BY <2>2
<1>3. CASE s + 1 < 2 * (RING_NUMS - 1)
  <2>1. Traffic = [e |-> e, w |-> n, t |-> tr, k |-> s + 1]
    BY <1>3 DEF After
  <2>2. epoch = e /\ w = n /\ t = tr /\ k = s + 1
    BY <2>1 DEF Traffic
  <2> QED
    BY <1>1, <2>2 DEF Earlier
<1>4. CASE ~ (s + 1 < 2 * (RING_NUMS - 1)) /\ tr + 1 <= trans_num(Kind(e, n))
  <2>1. Traffic = [e |-> e, w |-> n, t |-> tr + 1, k |-> 0]
    BY <1>4 DEF After
  <2>2. epoch = e /\ w = n /\ t = tr + 1 /\ k = 0 /\ s = last
    BY <1>1, <1>4, <2>1 DEF Traffic
  <2> QED
    BY <1>1, <1>2, <2>2 DEF Earlier
<1>5. CASE /\ ~ (s + 1 < 2 * (RING_NUMS - 1)) /\ ~ (tr + 1 <= trans_num(Kind(e, n)))
           /\ n + 1 < Writes(e)
  <2>1. Traffic = [e |-> e, w |-> n + 1, t |-> 0, k |-> 0]
    BY <1>5 DEF After
  <2>2. epoch = e /\ w = n + 1 /\ t = 0 /\ k = 0 /\ s = last /\ tr = trans_num(Kind(e, n))
    BY <1>1, <1>2, <1>5, <2>1 DEF Traffic
  <2>3. w > 0 /\ w - 1 = n
    BY <1>1, <2>2
  <2> QED
    BY <1>1, <2>2, <2>3 DEF Earlier
<1>6. CASE /\ ~ (s + 1 < 2 * (RING_NUMS - 1)) /\ ~ (tr + 1 <= trans_num(Kind(e, n)))
           /\ ~ (n + 1 < Writes(e))
  <2>1. Traffic = [e |-> e + 1, w |-> 0, t |-> 0, k |-> 0]
    BY <1>6 DEF After
  <2>2. epoch = e + 1 /\ w = 0 /\ t = 0 /\ k = 0 /\ s = last /\ tr = trans_num(Kind(e, n))
        /\ n = Writes(e) - 1
    BY <1>1, <1>2, <1>6, <2>1 DEF Traffic
  <2>3. epoch - 1 = e
    BY <2>2
  <2> QED
    BY <1>1, <2>2, <2>3 DEF Earlier
<1> QED
  BY <1>3, <1>4, <1>5, <1>6

LEMMA ShiftedStep ==
  ASSUME IInv, Data, intact', behind = 1, ~ upset
  PROVE  result' = IF IsFinal(Earlier.k)
                   THEN ChunkStart(Earlier.e, Earlier.w, Earlier.t,
                                   ChunkSent(Earlier.k)) + p
                   ELSE -1
<1>1. /\ BuildOK /\ TrafficOK /\ ParserOK /\ BroadcastInv /\ StepInv /\ PacInv
      /\ DataPacket /\ Account(TRUE) /\ UNCHANGED config
  BY DEF IInv, Data
<1>2. /\ p = 0 => First /\ ~ Opens
      /\ p # 0 => MiddleOrLast
  BY <1>1, DataIsDecoded
<1>3. /\ p = 0 => /\ Parser' = After(Parser) /\ cur_chunk_num' > 0
                  /\ cur_pac_num' = 0
      /\ p # 0 => /\ Parser' = Parser /\ cur_chunk_num' = cur_chunk_num
                  /\ cur_pac_num' = cur_pac_num + 1
  BY <1>1, <1>2, FirstStep, MiddleStep
<1>4. Traffic = After(Parser')
  BY <1>1, <1>3 DEF StepInv
<1>5. ParserOK' /\ result' = Reported
  BY <1>1, <1>2, FirstStep, MiddleStep DEF First, MiddleOrLast
<1>6. RING_NUMS \in Nat /\ RING_NUMS >= 2 /\ RDMA_nums \in Nat
  BY <1>1, BuildTypes, BucketTypes
<1>7. cur_pac_num' = p /\ cur_chunk_num' > 0
  <2>1. CASE p = 0
    BY <1>3, <2>1
  <2>2. CASE p # 0
    <3>1. intact /\ p \in Nat
      BY <1>1, <2>2, OpFacts DEF Account
    <3> QED
      BY <1>1, <1>3, <2>2, <3>1 DEF PacInv
  <2> QED
    BY <2>1, <2>2
<1>8. /\ iter_num' \in Nat /\ cur_write_num' \in 0 .. RDMA_nums - 1
      /\ iter_num' = 0 => cur_write_num' = 0
      /\ cur_trans_num' \in 0 .. trans_num(Kind(iter_num', cur_write_num'))
      /\ cur_chunk_num' \in 0 .. 2 * (RING_NUMS - 1)
  BY <1>1, <1>5, BuildStays DEF ParserOK
<1>9. cur_write_num' \in 0 .. Writes(iter_num') - 1
  BY <1>6, <1>8 DEF Writes
<1>10. cur_chunk_num' - 1 \in 0 .. 2 * (RING_NUMS - 1) - 1
  <2>1. \A c \in 0 .. 2 * (RING_NUMS - 1) : c > 0 => c - 1 \in 0 .. 2 * (RING_NUMS - 1) - 1
    BY <1>6
  <2> QED
    BY <1>7, <1>8, <2>1, Zenon
<1>11. Earlier = [e |-> iter_num', w |-> cur_write_num', t |-> cur_trans_num',
                  k |-> cur_chunk_num' - 1]
  <2>1. Parser' = [e |-> iter_num', w |-> cur_write_num', t |-> cur_trans_num',
                   k |-> cur_chunk_num' - 1]
    BY DEF Parser
  <2> QED
    BY <1>1, <1>4, <1>8, <1>9, <1>10, <2>1, EarlierIsUnique, Zenon
<1>12. /\ Earlier.e = iter_num' /\ Earlier.w = cur_write_num'
       /\ Earlier.t = cur_trans_num' /\ Earlier.k = cur_chunk_num' - 1
  BY <1>11
<1>13. cur_chunk_num' < RING_NUMS <=> ~ IsFinal(Earlier.k)
  <2>1. \A c \in 0 .. 2 * (RING_NUMS - 1) : c < RING_NUMS <=> ~ (c - 1 >= RING_NUMS - 1)
    BY <1>6
  <2> QED
    BY <1>8, <1>12, <2>1, Zenon DEF IsFinal
<1>14. IF cur_chunk_num' < RING_NUMS THEN result' = -1
       ELSE result' = ChunkStart(iter_num', cur_write_num', cur_trans_num',
                                 ChunkSent(cur_chunk_num' - 1)) + cur_pac_num'
  BY <1>1, <1>5, ReportedStep, Zenon
<1> QED
  BY <1>7, <1>12, <1>13, <1>14, Zenon

LEMMA NotReportedStep ==
  ASSUME IInv, Other \/ (Broadcast /\ ~ upset)
  PROVE  result' = -1
<1>1. CASE Other
  BY <1>1 DEF Other, OtherPacket
<1>2. CASE Broadcast /\ ~ upset
  <2>1. /\ BuildOK /\ TrafficOK /\ ParserOK /\ GatherOK /\ AccountsOK /\ BroadcastInv
        /\ due > 0 /\ BroadcastPacket /\ UNCHANGED config
    BY <1>2 DEF IInv, Broadcast, BroadcastPacket
  <2>2. CASE opening
    <3>1. decode_hex(6, 1)
      BY <2>1, <2>2 DEF BroadcastPacket
    <3>2. First /\ Opens
      BY <1>2, <2>1, <2>2, <3>1, OpeningIsDecoded
    <3>3. ParserOK' /\ Parser'.k = -1 /\ result' = Reported
      BY <2>1, <3>2, FirstStep DEF First
    <3>4. cur_chunk_num' < RING_NUMS
      <4>1. RING_NUMS \in Nat /\ RING_NUMS >= 2
        BY <2>1, BuildTypes
      <4>2. cur_chunk_num' \in 0 .. 2 * (RING_NUMS - 1) /\ cur_chunk_num' - 1 = -1
        BY <2>1, <3>3, BuildStays DEF ParserOK, Parser
      <4>3. \A c \in 0 .. 2 * (RING_NUMS - 1) : c - 1 = -1 => c < RING_NUMS
        BY <4>1
      <4> QED
        BY <4>2, <4>3, Zenon
    <3> QED
      BY <2>1, <3>3, <3>4, ReportedStep, Zenon
  <2>3. CASE ~ opening
    <3>1. PICK op \in {6, 7, 9}, size \in 1 .. due : decode_hex(op, size)
      BY <2>1, <2>3 DEF BroadcastPacket
    <3>2. bc_gather_num # cur_bc_length
      BY <1>2, <2>1, <2>3 DEF BroadcastInv, GatherOK, AccountsOK
    <3> QED
      BY <3>1, <3>2 DEF decode_hex, Gather, First, MiddleOrLast
  <2> QED
    BY <2>2, <2>3
<1> QED
  BY <1>1, <1>2

\* Every packet with a final sum is reported at its place and no packet with
\* a partial sum is reported, as long as no earlier packet of its chunk and
\* no first packet at all was lost: what the counting of decode_hex is for.
THEOREM FinalsAreLocated == Spec /\ CutsAgree => FinalsLocated
<1>1. IInv /\ [Next]_vars =>
        [Data /\ intact' /\ behind = 0 =>
           result' = IF IsFinal(k) THEN Place ELSE -1]_vars
  BY DataArrives, FinalsLocatedStep
<1> QED
  BY <1>1, DecodeInvariant, PTL DEF Spec, FinalsLocated

\* A loss inside a chunk displaces what follows it in the chunk, and nothing
\* else: the rest stays inside the chunk, and partial sums stay unreported.
THEOREM DamageIsContained == Spec /\ CutsAgree => DamageStaysInChunk
<1>1. IInv /\ [Next]_vars =>
        [Data /\ result' # -1 /\ behind = 0 =>
           /\ IsFinal(k)
           /\ result' \in Place - p .. Place]_vars
  BY DamageStep
<1> QED
  BY <1>1, DecodeInvariant, PTL DEF Spec, DamageStaysInChunk

\* A lost first packet is never made up for: for the rest of the training
\* every chunk is reported where the chunk before it belongs.
THEOREM LossShiftsByOneChunk == Spec /\ CutsAgree => ShiftedByOneChunk
<1>1. IInv /\ [Next]_vars =>
        [Data /\ intact' /\ behind = 1 /\ ~ upset =>
           result' = IF IsFinal(Earlier.k)
                     THEN ChunkStart(Earlier.e, Earlier.w, Earlier.t,
                                     ChunkSent(Earlier.k)) + p
                     ELSE -1]_vars
  BY ShiftedStep
<1> QED
  BY <1>1, DecodeInvariant, PTL DEF Spec, ShiftedByOneChunk

\* Nothing of a broadcast, and no packet the filter should drop, is taken for
\* gradient, unless a chunk before the broadcast was not counted.
THEOREM BroadcastIsNotReported == Spec /\ CutsAgree => BroadcastNotReported
<1>1. IInv /\ [Next]_vars =>
        [Other \/ (Broadcast /\ ~ upset) => result' = -1]_vars
  BY NotReportedStep
<1> QED
  BY <1>1, DecodeInvariant, PTL DEF Spec, BroadcastNotReported
=============================================================================
