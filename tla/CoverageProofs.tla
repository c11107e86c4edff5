--------------------------- MODULE CoverageProofs ---------------------------
(***************************************************************************)
(* Proofs about Decode, continued: the chunks of an iteration tile the     *)
(* gradient, so what a parser reports is every position but those of the   *)
(* chunks its node never sends, each once.                                 *)
(***************************************************************************)
EXTENDS DecodeProofs, FiniteSetTheorems, FunctionTheorems

-----------------------------------------------------------------------------
(* The tiling: bucket n, transfer tr, chunk c, packet q.                   *)

Tile(e, n, tr, c, q) ==
  /\ n \in 0 .. Writes(e) - 1 /\ tr \in 0 .. trans_num(Kind(e, n))
  /\ c \in 0 .. RING_NUMS - 1 /\ q \in 0 .. ChunkSize(Kind(e, n), tr, c) - 1

\* How much of a bucket of kind i transfer tr takes.
TransSize(i, tr) ==
  IF tr = trans_num(i) THEN last_trans_size(i) ELSE Piece * RING_NUMS

LEMMA SizeTypes ==
  ASSUME BuildOK, NEW i \in 0 .. 4
  PROVE  /\ trans_num(i) \in Nat \ {0}
         /\ last_trans_size(i) \in Nat /\ last_trans_size(i) < Piece * RING_NUMS
         /\ Length(i) = trans_num(i) * (Piece * RING_NUMS) + last_trans_size(i)
         /\ last_trans_size(i) =
              (RING_NUMS - 1) * Cut(i) + LastCut(i)
<1>1. Piece * RING_NUMS \in Nat \ {0} /\ Length(i) \in Nat /\ RING_NUMS \in Nat
      /\ RING_NUMS >= 2
  BY BuildTypes
<1>2. trans_num(i) \in Nat \ {0} /\ Cut(i) \in Nat
  BY ChunkTypes
<1> DEFINE m == Piece * RING_NUMS
<1>3. \A x \in Nat, y \in Nat \ {0} : /\ x % y \in Nat /\ x % y < y
                                      /\ x = (x \div y) * y + (x % y)
  <2> SUFFICES ASSUME NEW x \in Nat, NEW y \in Nat \ {0}
               PROVE  x % y \in Nat /\ x % y < y /\ x = (x \div y) * y + (x % y)
    OBVIOUS
  <2>1. x \div y \in Nat /\ x = y * (x \div y) + (x % y)
    BY DivNat
  <2>2. y * (x \div y) = (x \div y) * y
    BY <2>1
  <2> QED
    BY <2>1, <2>2, ModRange
<1>4. /\ Length(i) % m \in Nat /\ Length(i) % m < m
      /\ Length(i) = (Length(i) \div m) * m + (Length(i) % m)
  <2> HIDE DEF m
  <2> QED
    BY <1>1, <1>3 DEF m
<1>5. last_trans_size(i) \in Nat /\ last_trans_size(i) < m
  BY <1>4, Zenon DEF last_trans_size
<1>6. Length(i) = trans_num(i) * m + last_trans_size(i)
  BY <1>4, Zenon DEF last_trans_size, trans_num
<1>7. last_trans_size(i) = (RING_NUMS - 1) * Cut(i) + LastCut(i)
  <2>1. Cut(i) * (RING_NUMS - 1) = (RING_NUMS - 1) * Cut(i)
    BY <1>1, <1>2
  <2>2. (RING_NUMS - 1) * Cut(i) \in Nat
    BY <1>1, <1>2, ProductNat
  <2> QED
    BY <1>5, <2>1, <2>2 DEF LastCut
<1> QED
  BY <1>2, <1>5, <1>6, <1>7

\* Inside a transfer: no chunk reaches into the next one, and together they
\* fill it.
LEMMA ChunkInTransfer ==
  ASSUME BuildOK, NEW i \in 0 .. 4, NEW tr \in 0 .. trans_num(i),
         NEW c \in 0 .. RING_NUMS - 1, NEW q \in 0 .. ChunkSize(i, tr, c) - 1
  PROVE  /\ ChunkSize(i, tr, 0) \in Nat \ {0}
         /\ c < RING_NUMS - 1 => q < ChunkSize(i, tr, 0)
         /\ c * ChunkSize(i, tr, 0) \in Nat
         /\ c * ChunkSize(i, tr, 0) + q < TransSize(i, tr)
<1>1. /\ RING_NUMS \in Nat /\ RING_NUMS >= 2 /\ Piece \in Nat /\ Piece >= 2
      /\ c \in Nat /\ trans_num(i) \in Nat /\ tr \in Nat
  BY BuildTypes, SizeTypes
<1>2. /\ Cut(i) \in Nat /\ Cut(i) >= 2
      /\ LastCut(i) \in Nat /\ LastCut(i) >= 2
      /\ ChunkSize(i, tr, c) \in Nat /\ ChunkSize(i, tr, 0) \in Nat
      /\ ChunkSize(i, tr, 0) >= 2
  BY <1>1, ChunkTypes
<1> DEFINE m == ChunkSize(i, tr, 0)
           u == c * m
<1>3. u \in Nat /\ m \in Nat
  BY <1>1, <1>2, ProductNat
<1>4. (c + 1) * m = u + m
  BY <1>1, <1>2, ProductNext
<1>5. CASE tr # trans_num(i)
  <2>1. m = Piece /\ ChunkSize(i, tr, c) = Piece
    BY <1>1, <1>5 DEF ChunkSize
  <2>2. (c + 1) * m <= RING_NUMS * m
    BY <1>1, <1>2, ProductMonotonic
  <2>3. RING_NUMS * m = Piece * RING_NUMS /\ Piece * RING_NUMS \in Nat
    BY <1>1, <2>1
  <2>4. TransSize(i, tr) = Piece * RING_NUMS
    BY <1>5 DEF TransSize
  <2> HIDE DEF m, u
  <2> QED
    BY <1>1, <1>2, <1>3, <1>4, <2>1, <2>2, <2>3, <2>4 DEF m, u
<1>6. CASE tr = trans_num(i)
  <2>1. m = Cut(i)
        /\ ChunkSize(i, tr, c) = IF c = RING_NUMS - 1 THEN LastCut(i) ELSE m
    BY <1>1, <1>6 DEF ChunkSize
  <2>2. TransSize(i, tr) = (RING_NUMS - 1) * m + LastCut(i)
    BY <1>6, <2>1, SizeTypes DEF TransSize
  <2>3. c < RING_NUMS - 1 => u + m <= (RING_NUMS - 1) * m
    <3>1. c < RING_NUMS - 1 => (c + 1) * m <= (RING_NUMS - 1) * m
      BY <1>1, <1>2, ProductMonotonic
    <3> QED
      BY <1>4, <3>1
  <2>4. (RING_NUMS - 1) * m \in Nat
    BY <1>1, <1>2, ProductNat
  <2>5. c = RING_NUMS - 1 => u = (RING_NUMS - 1) * m
    OBVIOUS
  <2> HIDE DEF m, u
  <2>6. q \in Nat
    BY <1>2
  <2>7. CASE c < RING_NUMS - 1
    <3>1. q < m
      BY <1>1, <1>2, <2>1, <2>6, <2>7
    <3>2. u + q < (RING_NUMS - 1) * m + LastCut(i)
      <4> DEFINE v == (RING_NUMS - 1) * m
      <4>1. v \in Nat /\ u + m <= v
        BY <2>3, <2>4, <2>7
      <4> HIDE DEF v
      <4>2. u + q < v + LastCut(i)
        BY <1>2, <1>3, <2>6, <3>1, <4>1
      <4> QED
        BY <4>2 DEF v
    <3> QED
      BY <1>2, <1>3, <2>2, <3>1, <3>2 DEF m, u
  <2>8. CASE c = RING_NUMS - 1
    <3>1. q < LastCut(i)
      BY <1>2, <2>1, <2>6, <2>8
    <3>2. u + q < u + LastCut(i)
      BY <1>2, <1>3, <2>6, <3>1
    <3> QED
      BY <1>1, <1>2, <1>3, <2>2, <2>5, <2>8, <3>2 DEF m, u
  <2> QED
    BY <1>1, <2>7, <2>8
<1> QED
  BY <1>5, <1>6

LEMMA ChunkExists ==
  ASSUME BuildOK, NEW i \in 0 .. 4, NEW tr \in 0 .. trans_num(i),
         NEW x \in Nat, x < TransSize(i, tr)
  PROVE  \E c \in 0 .. RING_NUMS - 1 : \E q \in 0 .. ChunkSize(i, tr, c) - 1 :
           x = c * ChunkSize(i, tr, 0) + q
<1>1. /\ RING_NUMS \in Nat /\ RING_NUMS >= 2 /\ Piece \in Nat /\ Piece >= 2
      /\ trans_num(i) \in Nat /\ tr \in Nat
  BY BuildTypes, SizeTypes
<1>2. /\ Cut(i) \in Nat /\ LastCut(i) \in Nat
      /\ ChunkSize(i, tr, 0) \in Nat /\ ChunkSize(i, tr, 0) >= 2
  BY <1>1, ChunkTypes
<1> DEFINE m == ChunkSize(i, tr, 0)
           last == RING_NUMS - 1
<1>3. m \in Nat \ {0}
  BY <1>2
<1>4. PICK d \in Nat, r \in 0 .. m - 1 : x = d * m + r
  <2> HIDE DEF m
  <2> QED
    BY <1>3, StepExists
<1>5. last * m \in Nat
  BY <1>1, <1>2, ProductNat
<1>6. CASE tr # trans_num(i)
  <2>1. m = Piece /\ \A c : ChunkSize(i, tr, c) = Piece
    BY <1>1, <1>6 DEF ChunkSize
  <2>2. TransSize(i, tr) = Piece * RING_NUMS
    BY <1>6 DEF TransSize
  <2>3. d < RING_NUMS
    <3>1. RING_NUMS <= d => RING_NUMS * m <= d * m
      BY <1>1, <1>2, <1>4, ProductMonotonic
    <3>2. RING_NUMS * m = Piece * RING_NUMS /\ Piece * RING_NUMS \in Nat
      BY <1>1, <2>1
    <3>3. d * m \in Nat
      BY <1>2, <1>4, ProductNat
    <3> HIDE DEF m
    <3> QED
      BY <1>1, <1>3, <1>4, <2>2, <3>1, <3>2, <3>3
  <2>4. d \in 0 .. RING_NUMS - 1
    BY <1>1, <2>3
  <2>5. r \in 0 .. ChunkSize(i, tr, d) - 1
    BY <1>4, <2>1
  <2> QED
    BY <1>4, <2>4, <2>5
<1>7. CASE tr = trans_num(i)
  <2>1. m = Cut(i)
        /\ \A c : ChunkSize(i, tr, c) = IF c = last THEN LastCut(i) ELSE m
    BY <1>1, <1>7 DEF ChunkSize
  <2>2. TransSize(i, tr) = last * m + LastCut(i)
    BY <1>7, <2>1, SizeTypes DEF TransSize
  <2>3. d * m \in Nat
    BY <1>2, <1>4, ProductNat
  <2>4. CASE d < last
    <3>1. d \in 0 .. RING_NUMS - 1 /\ d # last
      BY <1>1, <1>4, <2>4
    <3>2. r \in 0 .. ChunkSize(i, tr, d) - 1
      BY <1>4, <2>1, <3>1
    <3> QED
      BY <1>4, <3>1, <3>2
  <2>5. CASE last <= d
    <3>1. last * m <= d * m
      BY <1>1, <1>2, <1>4, <2>5, ProductMonotonic
    <3>2. PICK q \in Int : q = x - last * m
      BY <1>5
    <3> HIDE DEF m
    <3>3. x = last * m + q /\ q \in 0 .. LastCut(i) - 1
      BY <1>2, <1>3, <1>4, <1>5, <2>2, <2>3, <3>1, <3>2
    <3>4. last \in 0 .. RING_NUMS - 1 /\ ChunkSize(i, tr, last) = LastCut(i)
      BY <1>1, <2>1
    <3> QED
      BY <3>3, <3>4 DEF m
  <2> QED
    BY <1>1, <1>4, <2>4, <2>5
<1> QED
  BY <1>6, <1>7

\* Inside a bucket: no transfer reaches into the next one, and together they
\* fill it.
LEMMA TransferInBucket ==
  ASSUME BuildOK, NEW i \in 0 .. 4, NEW tr \in 0 .. trans_num(i),
         NEW y \in Nat, y < TransSize(i, tr)
  PROVE  /\ y < Piece * RING_NUMS
         /\ tr * (Piece * RING_NUMS) \in Nat
         /\ tr * (Piece * RING_NUMS) + y < Length(i)
<1> DEFINE m == Piece * RING_NUMS
           u == tr * m
           v == trans_num(i) * m
<1>1. /\ m \in Nat \ {0} /\ trans_num(i) \in Nat /\ tr \in Nat
      /\ last_trans_size(i) \in Nat /\ last_trans_size(i) < m
      /\ Length(i) = v + last_trans_size(i)
  BY BuildTypes, SizeTypes
<1> HIDE DEF m
<1>2. u \in Nat /\ v \in Nat
  BY <1>1, ProductNat
<1>3. tr < trans_num(i) => u + m <= v
  <2>1. tr < trans_num(i) => (tr + 1) * m <= trans_num(i) * m
    BY <1>1, ProductMonotonic
  <2>2. (tr + 1) * m = u + m
    BY <1>1, ProductNext
  <2> QED
    BY <2>1, <2>2
<1>4. tr = trans_num(i) => u = v
  OBVIOUS
<1>5. y < (IF tr = trans_num(i) THEN last_trans_size(i) ELSE m)
  BY DEF TransSize, m
<1> HIDE DEF u, v
<1>6. y < m /\ u + y < Length(i)
  <2>1. CASE tr < trans_num(i)
    BY <1>1, <1>2, <1>3, <1>5, <2>1
  <2>2. CASE tr = trans_num(i)
    BY <1>1, <1>2, <1>4, <1>5, <2>2
  <2> QED
    BY <1>1, <2>1, <2>2
<1> QED
  BY <1>2, <1>6 DEF m, u

LEMMA TransferExists ==
  ASSUME BuildOK, NEW i \in 0 .. 4, NEW x \in Nat, x < Length(i)
  PROVE  \E tr \in 0 .. trans_num(i), y \in Nat :
           y < TransSize(i, tr) /\ x = tr * (Piece * RING_NUMS) + y
<1> DEFINE m == Piece * RING_NUMS
           v == trans_num(i) * m
<1>1. /\ m \in Nat \ {0} /\ trans_num(i) \in Nat
      /\ last_trans_size(i) \in Nat /\ last_trans_size(i) < m
      /\ Length(i) = v + last_trans_size(i)
  BY BuildTypes, SizeTypes
<1>2. \A tr : TransSize(i, tr) = IF tr = trans_num(i) THEN last_trans_size(i) ELSE m
  BY DEF TransSize
<1> HIDE DEF m
<1>3. PICK tr \in Nat, y \in 0 .. m - 1 : x = tr * m + y
  BY <1>1, StepExists
<1>4. tr * m \in Nat /\ v \in Nat
  BY <1>1, <1>3, ProductNat
<1>5. tr <= trans_num(i)
  <2> SUFFICES ASSUME trans_num(i) < tr PROVE FALSE
    BY <1>1, <1>3
  <2>1. (trans_num(i) + 1) * m <= tr * m
    BY <1>1, <1>3, ProductMonotonic
  <2>2. (trans_num(i) + 1) * m = v + m
    BY <1>1, ProductNext
  <2> HIDE DEF v
  <2> QED
    BY <1>1, <1>3, <1>4, <2>1, <2>2
<1>6. y < TransSize(i, tr)
  <2>1. CASE tr = trans_num(i)
    <3>1. x = v + y /\ y \in Nat
      BY <1>1, <1>3, <2>1
    <3> HIDE DEF v
    <3> QED
      BY <1>1, <1>2, <1>4, <2>1, <3>1
  <2>2. CASE tr # trans_num(i)
    BY <1>1, <1>2, <1>3, <2>2
  <2> QED
    BY <2>1, <2>2
<1>7. y \in Nat /\ tr \in 0 .. trans_num(i)
  BY <1>1, <1>3, <1>5
<1> QED
  BY <1>3, <1>6, <1>7 DEF m

\* In the gradient: every bucket ends where the one before it starts.
BucketEnd(e, n) == BucketStart(e, n) + Length(Kind(e, n))

LEMMA BucketEnds ==
  ASSUME BuildOK, NEW e \in Nat
  PROVE  /\ BucketEnd(e, 0) = DATA_LENGTH
         /\ BucketStart(e, Writes(e) - 1) = 0
         /\ \A n \in 1 .. Writes(e) - 1 : BucketEnd(e, n) = BucketStart(e, n - 1)
<1>1. /\ RDMA_nums = 3 * Rounds + 1 /\ Rounds \in Nat \ {0}
      /\ DATA_LENGTH = Rounds * Sum3 + Length(4)
  BY BucketTypes
<1>2. /\ Sum3 \in Nat /\ DATA_LENGTH \in Nat /\ \A i \in 0 .. 4 : Length(i) \in Nat
  BY BuildTypes
<1>3. /\ Length(0) \in Nat /\ Length(1) \in Nat /\ Length(2) \in Nat
      /\ Length(3) \in Nat /\ Length(4) \in Nat
  BY <1>2
<1>4. CASE e = 0
  <2>1. Writes(e) = 1 /\ Kind(e, 0) = 0 /\ BucketStart(e, 0) = 0
    BY <1>4 DEF Writes, Kind, BucketStart
  <2>2. Length(0) = DATA_LENGTH
    BY DEF DATA_LENGTH
  <2> QED
    BY <1>3, <2>1, <2>2 DEF BucketEnd
<1>5. CASE e # 0
  <2>1. \A n : BucketStart(e, n) = BucketStart(1, n) /\ Kind(e, n) = Kind(1, n)
    BY <1>5 DEF BucketStart, Kind
  <2>2. Writes(e) = RDMA_nums
    BY <1>5 DEF Writes
  <2>3. BucketEnd(e, 0) = DATA_LENGTH
    <3>1. Kind(1, 0) = 1 /\ BucketStart(1, 0) = DATA_LENGTH - Length(1)
      BY KindTypes, BucketStartFirst
    <3> QED
      BY <1>2, <1>3, <2>1, <3>1 DEF BucketEnd
  <2>4. BucketStart(e, RDMA_nums - 1) = 0
    BY <1>1, <1>5 DEF BucketStart, Kind
  <2>5. ASSUME NEW n \in 1 .. RDMA_nums - 1
        PROVE  BucketEnd(e, n) = BucketStart(e, n - 1)
    <3>1. CASE n # RDMA_nums - 1
      <4>1. n \in 1 .. RDMA_nums - 2 /\ Kind(1, n) = (n % 3) + 1
        BY <1>1, <3>1 DEF Kind
      <4>2. BucketStart(1, n) = BucketStart(1, n - 1) - Length((n % 3) + 1)
        BY <4>1, BucketStartNext
      <4>3. n - 1 \in 0 .. Writes(1) - 1
        BY <1>1, <4>1 DEF Writes
      <4>4. BucketStart(1, n - 1) \in Nat /\ Length((n % 3) + 1) \in Nat
        <5>1. (n % 3) + 1 \in 0 .. 4
          BY <4>1
        <5>2. 1 \in Nat
          OBVIOUS
        <5> QED
          BY <1>2, <4>3, <5>1, <5>2, BucketStartType
      <4> QED
        BY <2>1, <4>1, <4>2, <4>4 DEF BucketEnd
    <3>2. CASE n = RDMA_nums - 1
      <4>1. n - 1 = 3 * (Rounds - 1) + 2 /\ n - 1 # RDMA_nums - 1
        BY <1>1, <3>2
      <4>2. (n - 1) \div 3 = Rounds - 1 /\ (n - 1) % 3 = 2
        BY <1>1, <4>1
      <4>3. BucketStart(1, n - 1) = DATA_LENGTH - (Rounds - 1) * Sum3 - Sum3
        <5>1. Kind(1, n - 1) = 3
          BY <4>1, <4>2 DEF Kind
        <5> QED
          BY <4>2, <5>1 DEF BucketStart
      <4>4. (Rounds - 1) * Sum3 = Rounds * Sum3 - Sum3 /\ Rounds * Sum3 \in Nat
        <5>1. ((Rounds - 1) + 1) * Sum3 = (Rounds - 1) * Sum3 + Sum3
          BY <1>1, <1>2, ProductNext
        <5>2. (Rounds - 1) + 1 = Rounds /\ (Rounds - 1) * Sum3 \in Nat
          BY <1>1, <1>2, ProductNat
        <5> QED
          BY <1>2, <5>1, <5>2
      <4>5. BucketStart(1, n - 1) = Length(4)
        BY <1>1, <1>2, <1>3, <4>3, <4>4
      <4>6. Kind(1, n) = 4 /\ BucketStart(1, n) = 0
        BY <3>2 DEF Kind, BucketStart
      <4> QED
        BY <1>3, <2>1, <4>5, <4>6 DEF BucketEnd
    <3> QED
      BY <3>1, <3>2
  <2> QED
    BY <2>2, <2>3, <2>4, <2>5
<1> QED
  BY <1>4, <1>5

LEMMA BucketTypesAll ==
  ASSUME BuildOK, NEW e \in Nat, NEW n \in 0 .. Writes(e) - 1
  PROVE  /\ BucketStart(e, n) \in Nat /\ Kind(e, n) \in 0 .. 4
         /\ Length(Kind(e, n)) \in Nat
         /\ BucketEnd(e, n) = BucketStart(e, n) + Length(Kind(e, n))
BY BucketStartType, KindTypes, BuildTypes DEF BucketEnd

LEMMA BucketsDescend ==
  ASSUME BuildOK, NEW e \in Nat, NEW n \in 0 .. Writes(e) - 1,
         NEW m \in 0 .. Writes(e) - 1, n < m
  PROVE  BucketEnd(e, m) <= BucketStart(e, n)
<1> DEFINE T == {d \in Nat : n + d \in 0 .. Writes(e) - 1 =>
                               BucketStart(e, n + d) <= BucketStart(e, n)}
<1>1. Writes(e) \in Nat /\ n \in Nat /\ m \in Nat
  BY KindTypes
<1>2. 0 \in T
  <2>1. n + 0 = n /\ BucketStart(e, n) \in Nat
    BY <1>1, BucketTypesAll
  <2> QED
    BY <2>1
<1>3. ASSUME NEW d \in Nat, d \in T
      PROVE  d + 1 \in T
  <2> SUFFICES ASSUME n + (d + 1) \in 0 .. Writes(e) - 1
               PROVE  BucketStart(e, n + (d + 1)) <= BucketStart(e, n)
    OBVIOUS
  <2>1. n + d \in 0 .. Writes(e) - 1 /\ n + (d + 1) \in 1 .. Writes(e) - 1
        /\ (n + (d + 1)) - 1 = n + d
    BY <1>1
  <2>2. BucketStart(e, n + d) <= BucketStart(e, n)
    BY <1>3, <2>1
  <2>3. BucketEnd(e, n + (d + 1)) = BucketStart(e, n + d)
    BY <2>1, BucketEnds
  <2>4. /\ BucketStart(e, n) \in Nat /\ BucketStart(e, n + d) \in Nat
        /\ BucketStart(e, n + (d + 1)) \in Nat
        /\ Length(Kind(e, n + (d + 1))) \in Nat
        /\ BucketEnd(e, n + (d + 1)) =
             BucketStart(e, n + (d + 1)) + Length(Kind(e, n + (d + 1)))
    BY <2>1, BucketTypesAll
  <2> QED
    BY <2>2, <2>3, <2>4
<1> HIDE DEF T
<1>4. Nat \subseteq T
  BY <1>2, <1>3, SetInduction
<1>5. (m - 1) - n \in Nat /\ n + ((m - 1) - n) = m - 1
      /\ m - 1 \in 0 .. Writes(e) - 1 /\ m \in 1 .. Writes(e) - 1
  BY <1>1
<1>6. BucketStart(e, m - 1) <= BucketStart(e, n)
  BY <1>4, <1>5 DEF T
<1> QED
  BY <1>5, <1>6, BucketEnds

LEMMA BucketExists ==
  ASSUME BuildOK, NEW e \in Nat, NEW x \in 0 .. DATA_LENGTH - 1
  PROVE  \E n \in 0 .. Writes(e) - 1 :
           BucketStart(e, n) <= x /\ x < BucketEnd(e, n)
<1> DEFINE T == {n \in 0 .. Writes(e) - 1 : BucketStart(e, n) <= x}
<1>1. Writes(e) \in Nat \ {0} /\ x \in Nat /\ DATA_LENGTH \in Nat
  BY KindTypes, BuildTypes
<1>2. Writes(e) - 1 \in T
  BY <1>1, BucketEnds
<1>3. T \in SUBSET Nat /\ T # {}
  BY <1>1, <1>2
<1>4. PICK n \in T : \A m \in T : n <= m
  <2> HIDE DEF T
  <2> QED
    BY <1>3, NatLeast
<1>5. n \in 0 .. Writes(e) - 1 /\ BucketStart(e, n) <= x
  OBVIOUS
<1>6. x < BucketEnd(e, n)
  <2>1. CASE n = 0
    BY <1>1, <2>1, BucketEnds
  <2>2. CASE n # 0
    <3>1. n \in 1 .. Writes(e) - 1 /\ n - 1 \in 0 .. Writes(e) - 1 /\ ~ (n <= n - 1)
      BY <1>1, <1>5, <2>2
    <3>2. ~ (BucketStart(e, n - 1) <= x)
      BY <1>4, <3>1
    <3>3. BucketStart(e, n - 1) \in Nat
      BY <3>1, BucketTypesAll
    <3> QED
      BY <1>1, <3>1, <3>2, <3>3, BucketEnds
  <2> QED
    BY <2>1, <2>2
<1> QED
  BY <1>5, <1>6

-----------------------------------------------------------------------------
(* Every position is at one place of an iteration.                         *)

LEMMA TileTypes ==
  ASSUME BuildOK, NEW e \in Nat, NEW n, NEW tr, NEW c, NEW q, Tile(e, n, tr, c, q)
  PROVE  /\ n \in Nat /\ tr \in Nat /\ c \in Nat /\ q \in Nat
         /\ Kind(e, n) \in 0 .. 4
         /\ tr \in 0 .. trans_num(Kind(e, n)) /\ trans_num(Kind(e, n)) \in Nat
         /\ RING_NUMS \in Nat /\ RING_NUMS >= 2
         /\ ChunkSize(Kind(e, n), tr, 0) \in Nat \ {0}
         /\ c < RING_NUMS - 1 => q < ChunkSize(Kind(e, n), tr, 0)
<1>1. n \in Nat /\ tr \in Nat /\ c \in Nat /\ Kind(e, n) \in 0 .. 4
      /\ RING_NUMS \in Nat /\ RING_NUMS >= 2
      /\ trans_num(Kind(e, n)) \in Nat
      /\ tr \in 0 .. trans_num(Kind(e, n)) /\ c \in 0 .. RING_NUMS - 1
      /\ q \in 0 .. ChunkSize(Kind(e, n), tr, c) - 1
  BY KindTypes, SizeTypes, BuildTypes DEF Tile
<1>2. q \in Nat
  <2>1. ChunkSize(Kind(e, n), tr, c) \in Nat
    BY <1>1, ChunkTypes
  <2> QED
    BY <1>1, <2>1
<1> QED
  BY <1>1, <1>2, ChunkInTransfer

LEMMA TilePlace ==
  ASSUME BuildOK, NEW e \in Nat, NEW n, NEW tr, NEW c, NEW q, Tile(e, n, tr, c, q)
  PROVE  LET m == Piece * RING_NUMS
             y == c * ChunkSize(Kind(e, n), tr, 0) + q
         IN  /\ m \in Nat \ {0} /\ tr * m \in Nat
             /\ y \in Nat /\ y < m /\ y < TransSize(Kind(e, n), tr)
             /\ ChunkStart(e, n, tr, c) \in Nat
             /\ ChunkStart(e, n, tr, c) + q = BucketStart(e, n) + (tr * m + y)
             /\ BucketStart(e, n) <= ChunkStart(e, n, tr, c) + q
             /\ ChunkStart(e, n, tr, c) + q < BucketEnd(e, n)
<1> DEFINE i == Kind(e, n)
           m == Piece * RING_NUMS
           v == c * ChunkSize(i, tr, 0)
           y == v + q
           u == tr * m
<1>1. /\ n \in 0 .. Writes(e) - 1 /\ i \in 0 .. 4 /\ tr \in 0 .. trans_num(i)
      /\ c \in 0 .. RING_NUMS - 1 /\ q \in 0 .. ChunkSize(i, tr, c) - 1
      /\ tr \in Nat /\ c \in Nat /\ q \in Nat
  BY TileTypes DEF Tile
<1>2. v \in Nat /\ v + q < TransSize(i, tr)
  BY <1>1, ChunkInTransfer
<1>3. y \in Nat /\ y < TransSize(i, tr)
  BY <1>1, <1>2
<1>4. y < m /\ u \in Nat /\ u + y < Length(i)
  <2> HIDE DEF y, i
  <2>1. y < m /\ u \in Nat /\ u + y < Length(i)
    BY <1>1, <1>3, TransferInBucket
  <2> QED
    BY <2>1
<1>5. m \in Nat \ {0} /\ Piece \in Nat /\ RING_NUMS \in Nat
  BY BuildTypes
<1>6. /\ BucketStart(e, n) \in Nat /\ Length(i) \in Nat
      /\ BucketEnd(e, n) = BucketStart(e, n) + Length(i)
  BY <1>1, BucketTypesAll
<1>7. ChunkStart(e, n, tr, c) = BucketStart(e, n) + u + v
  <2>1. tr * Piece * RING_NUMS = u
    BY <1>1, <1>5, ProductAssociates
  <2> QED
    BY <2>1, Zenon DEF ChunkStart
<1>8. ChunkStart(e, n, tr, c) \in Nat
  BY <1>1, ChunkStartType
<1> HIDE DEF u, v, m
<1> QED
  BY <1>1, <1>2, <1>3, <1>4, <1>5, <1>6, <1>7, <1>8 DEF u, v, m

LEMMA PlaceUnique ==
  ASSUME BuildOK, NEW e \in Nat,
         NEW n, NEW tr, NEW c, NEW q, Tile(e, n, tr, c, q),
         NEW n2, NEW tr2, NEW c2, NEW q2, Tile(e, n2, tr2, c2, q2),
         ChunkStart(e, n, tr, c) + q = ChunkStart(e, n2, tr2, c2) + q2
  PROVE  n = n2 /\ tr = tr2 /\ c = c2 /\ q = q2
<1> DEFINE m == Piece * RING_NUMS
           y == c * ChunkSize(Kind(e, n), tr, 0) + q
           y2 == c2 * ChunkSize(Kind(e, n2), tr2, 0) + q2
           x == ChunkStart(e, n, tr, c) + q
<1>1. /\ m \in Nat \ {0} /\ tr * m \in Nat /\ y \in Nat /\ y < m
      /\ x = BucketStart(e, n) + (tr * m + y)
      /\ BucketStart(e, n) <= x /\ x < BucketEnd(e, n) /\ x \in Nat
  <2>1. q \in Nat
    BY TileTypes
  <2> QED
    BY <2>1, TilePlace
<1>2. /\ tr2 * m \in Nat /\ y2 \in Nat /\ y2 < m
      /\ x = BucketStart(e, n2) + (tr2 * m + y2)
      /\ BucketStart(e, n2) <= x /\ x < BucketEnd(e, n2)
  BY TilePlace
<1>3. /\ n \in 0 .. Writes(e) - 1 /\ n2 \in 0 .. Writes(e) - 1
      /\ n \in Nat /\ n2 \in Nat /\ tr \in Nat /\ tr2 \in Nat
      /\ c \in 0 .. RING_NUMS - 1 /\ c2 \in 0 .. RING_NUMS - 1
      /\ c \in Nat /\ c2 \in Nat /\ q \in Nat /\ q2 \in Nat
      /\ RING_NUMS \in Nat
  BY TileTypes DEF Tile
<1> HIDE DEF m, y, y2, x
<1>4. n = n2
  <2>1. /\ BucketStart(e, n) \in Nat /\ BucketStart(e, n2) \in Nat
        /\ BucketEnd(e, n) \in Nat /\ BucketEnd(e, n2) \in Nat
    BY <1>3, BucketTypesAll
  <2>2. ~ (n < n2)
    <3>1. n < n2 => BucketEnd(e, n2) <= BucketStart(e, n)
      BY <1>3, BucketsDescend
    <3> QED
      BY <1>1, <1>2, <2>1, <3>1
  <2>3. ~ (n2 < n)
    <3>1. n2 < n => BucketEnd(e, n) <= BucketStart(e, n2)
      BY <1>3, BucketsDescend
    <3> QED
      BY <1>1, <1>2, <2>1, <3>1
  <2> QED
    BY <1>3, <2>2, <2>3
<1>5. tr = tr2 /\ y = y2
  <2>1. tr * m + y = tr2 * m + y2
    <3>1. BucketStart(e, n) \in Nat
      BY <1>3, BucketTypesAll
    <3>2. PICK a \in Nat : a = tr * m + y
      BY <1>1
    <3>3. PICK b \in Nat : b = tr2 * m + y2
      BY <1>2
    <3>4. BucketStart(e, n) + a = BucketStart(e, n) + b
      BY <1>1, <1>2, <1>4, <3>2, <3>3
    <3>5. a = b
      BY <3>1, <3>4
    <3> QED
      BY <3>2, <3>3, <3>5
  <2>2. m \in Nat
    BY <1>1
  <2> QED
    BY <1>1, <1>2, <1>3, <2>1, <2>2, StepUnique
<1>6. c = c2 /\ q = q2
  <2> DEFINE s == ChunkSize(Kind(e, n), tr, 0)
  <2>1. s \in Nat /\ (c < RING_NUMS - 1 => q < s)
    BY TileTypes
  <2>2. c2 < RING_NUMS - 1 => q2 < s
    <3>1. c2 < RING_NUMS - 1 => q2 < ChunkSize(Kind(e, n2), tr2, 0)
      BY TileTypes
    <3> QED
      BY <1>4, <1>5, <3>1
  <2>3. c * s + q = c2 * s + q2
    BY <1>4, <1>5 DEF y, y2
  <2> HIDE DEF s
  <2>4. (c < c2 => q < s) /\ (c2 < c => q2 < s)
    BY <1>3, <2>1, <2>2
  <2> QED
    BY <1>3, <2>1, <2>3, <2>4, StepUnique
<1> QED
  BY <1>4, <1>5, <1>6

LEMMA PlaceExists ==
  ASSUME BuildOK, NEW e \in Nat, NEW x \in 0 .. DATA_LENGTH - 1
  PROVE  \E n, tr, c, q : /\ Tile(e, n, tr, c, q)
                          /\ x = ChunkStart(e, n, tr, c) + q
<1>1. PICK n \in 0 .. Writes(e) - 1 :
        BucketStart(e, n) <= x /\ x < BucketEnd(e, n)
  BY BucketExists
<1> DEFINE i == Kind(e, n)
           m == Piece * RING_NUMS
<1>2. /\ BucketStart(e, n) \in Nat /\ i \in 0 .. 4 /\ Length(i) \in Nat
      /\ BucketEnd(e, n) = BucketStart(e, n) + Length(i)
      /\ x \in Nat /\ Piece \in Nat /\ RING_NUMS \in Nat /\ m \in Nat
  BY BucketTypesAll, BuildTypes
<1>3. PICK z \in Nat : z < Length(i) /\ x = BucketStart(e, n) + z
  BY <1>1, <1>2
<1>4. PICK tr \in 0 .. trans_num(i), y \in Nat :
        y < TransSize(i, tr) /\ z = tr * m + y
  <2> HIDE DEF i
  <2> QED
    BY <1>2, <1>3, TransferExists
<1>5. PICK c \in 0 .. RING_NUMS - 1 : \E q \in 0 .. ChunkSize(i, tr, c) - 1 :
        y = c * ChunkSize(i, tr, 0) + q
  <2> HIDE DEF i
  <2> QED
    BY <1>2, <1>4, ChunkExists
<1>6. PICK q \in 0 .. ChunkSize(i, tr, c) - 1 : y = c * ChunkSize(i, tr, 0) + q
  BY <1>5
<1>7. Tile(e, n, tr, c, q)
  BY <1>4, <1>5, <1>6 DEF Tile
<1>8. ChunkStart(e, n, tr, c) + q = BucketStart(e, n) + (tr * m + y)
  BY <1>6, <1>7, TilePlace
<1>9. x = ChunkStart(e, n, tr, c) + q
  BY <1>3, <1>4, <1>8
<1> QED
  BY <1>7, <1>9

LEMMA PlaceRange ==
  ASSUME BuildOK, NEW e \in Nat, NEW n, NEW tr, NEW c, NEW q, Tile(e, n, tr, c, q)
  PROVE  ChunkStart(e, n, tr, c) + q \in 0 .. DATA_LENGTH - 1
<1>1. /\ ChunkStart(e, n, tr, c) \in Nat
      /\ ChunkStart(e, n, tr, c) + q < BucketEnd(e, n)
  BY TilePlace
<1>2. n \in 0 .. Writes(e) - 1 /\ q \in Nat /\ n \in Nat
  BY TileTypes DEF Tile
<1>3. Writes(e) \in Nat \ {0} /\ 0 \in 0 .. Writes(e) - 1
  BY KindTypes
<1>4. /\ BucketStart(e, 0) \in Nat /\ Length(Kind(e, 0)) \in Nat
      /\ BucketEnd(e, 0) = BucketStart(e, 0) + Length(Kind(e, 0))
      /\ BucketEnd(e, n) \in Nat
  BY <1>2, <1>3, BucketTypesAll
<1>5. BucketEnd(e, 0) = DATA_LENGTH /\ DATA_LENGTH \in Nat
  BY BucketEnds, BuildTypes
<1>6. BucketEnd(e, n) <= DATA_LENGTH
  <2>1. CASE n = 0
    BY <1>4, <1>5, <2>1
  <2>2. CASE n # 0
    <3>1. BucketEnd(e, n) <= BucketStart(e, 0)
      BY <1>2, <1>3, <2>2, BucketsDescend
    <3> QED
      BY <1>4, <1>5, <3>1
  <2> QED
    BY <2>1, <2>2
<1> QED
  BY <1>1, <1>2, <1>4, <1>5, <1>6

-----------------------------------------------------------------------------
(* The chunks of a transfer a node sends final, all but one.               *)

Unsent == (Rank + 1) % RING_NUMS

LEMMA FinalChunks ==
  ASSUME BuildOK
  PROVE  /\ Unsent \in 0 .. RING_NUMS - 1
         /\ \A s \in RING_NUMS - 1 .. 2 * (RING_NUMS - 1) - 1 :
              /\ ChunkSent(s) \in 0 .. RING_NUMS - 1
              /\ ChunkSent(s) =
                   IF dir = "inbound"
                   THEN IF s = RING_NUMS - 1 THEN 0 ELSE 2 * RING_NUMS - 1 - s
                   ELSE 2 * RING_NUMS - 2 - s
         /\ Unsent = IF dir = "inbound" THEN 1 ELSE 0
<1>1. RING_NUMS \in Nat \ {0} /\ RING_NUMS >= 2
  BY BuildTypes
<1>2. dir \in {"inbound", "outbound"} /\ "inbound" # "outbound"
  BY DEF BuildOK
<1>3. Unsent = IF dir = "inbound" THEN 1 ELSE 0
  <2>1. CASE dir = "inbound"
    <3>1. Rank + 1 = 1 /\ 1 \in 0 .. 2 * RING_NUMS - 1 /\ 1 < RING_NUMS
      BY <1>1, <2>1 DEF Rank
    <3>2. 1 % RING_NUMS = 1
      BY <1>1, <3>1, ModOnce
    <3> QED
      BY <2>1, <3>1, <3>2 DEF Unsent
  <2>2. CASE dir = "outbound"
    <3>1. Rank + 1 = RING_NUMS /\ RING_NUMS \in 0 .. 2 * RING_NUMS - 1
      BY <1>1, <1>2, <2>2 DEF Rank
    <3>2. RING_NUMS % RING_NUMS = 0
      BY <1>1, <3>1, ModOnce
    <3> QED
      BY <1>2, <2>2, <3>1, <3>2 DEF Unsent
  <2> QED
    BY <1>2, <2>1, <2>2
<1>4. ASSUME NEW s \in RING_NUMS - 1 .. 2 * (RING_NUMS - 1) - 1
      PROVE  /\ ChunkSent(s) \in 0 .. RING_NUMS - 1
             /\ ChunkSent(s) =
                  IF dir = "inbound"
                  THEN IF s = RING_NUMS - 1 THEN 0 ELSE 2 * RING_NUMS - 1 - s
                  ELSE 2 * RING_NUMS - 2 - s
  <2>1. s \in Nat
    BY <1>1
  <2>2. CASE dir = "inbound"
    <3> DEFINE x == 2 * RING_NUMS - 1 - s
    <3>1. Rank + 2 * RING_NUMS - 1 - s = x
      BY <1>1, <2>1, <2>2 DEF Rank
    <3>2. /\ x \in 0 .. 2 * RING_NUMS - 1
          /\ s = RING_NUMS - 1 => x = RING_NUMS
          /\ s # RING_NUMS - 1 => x < RING_NUMS
          /\ x <= RING_NUMS
      BY <1>1, <2>1
    <3> HIDE DEF x
    <3>3. x % RING_NUMS = IF x < RING_NUMS THEN x ELSE x - RING_NUMS
      BY <1>1, <3>2, ModOnce
    <3>4. ChunkSent(s) = IF s = RING_NUMS - 1 THEN 0 ELSE x
      BY <1>1, <3>1, <3>2, <3>3 DEF ChunkSent
    <3> QED
      BY <1>1, <2>1, <2>2, <3>2, <3>4 DEF x
  <2>3. CASE dir = "outbound"
    <3> DEFINE x == 3 * RING_NUMS - 2 - s
    <3>1. Rank + 2 * RING_NUMS - 1 - s = x
      BY <1>1, <1>2, <2>1, <2>3 DEF Rank
    <3>2. x \in 0 .. 2 * RING_NUMS - 1 /\ ~ (x < RING_NUMS) /\ x \in Nat
      BY <1>1, <2>1
    <3> HIDE DEF x
    <3>3. x % RING_NUMS = x - RING_NUMS
      BY <1>1, <3>2, ModOnce
    <3>4. ChunkSent(s) = x - RING_NUMS
      BY <3>1, <3>3 DEF ChunkSent
    <3> QED
      BY <1>1, <1>2, <2>1, <2>3, <3>2, <3>4 DEF x
  <2> QED
    BY <1>2, <2>2, <2>3
<1>5. Unsent \in 0 .. RING_NUMS - 1
  BY <1>1, <1>3
<1> QED
  BY <1>3, <1>4, <1>5

LEMMA SentOnce ==
  ASSUME BuildOK
  PROVE  /\ \A r, s \in RING_NUMS - 1 .. 2 * (RING_NUMS - 1) - 1 :
              /\ ChunkSent(r) = ChunkSent(s) => r = s
              /\ ChunkSent(s) # Unsent
         /\ \A c \in 0 .. RING_NUMS - 1 : c # Unsent =>
              \E s \in RING_NUMS - 1 .. 2 * (RING_NUMS - 1) - 1 : ChunkSent(s) = c
<1>1. RING_NUMS \in Nat \ {0} /\ RING_NUMS >= 2
  BY BuildTypes
<1>2. ASSUME NEW r \in RING_NUMS - 1 .. 2 * (RING_NUMS - 1) - 1,
             NEW s \in RING_NUMS - 1 .. 2 * (RING_NUMS - 1) - 1
      PROVE  (ChunkSent(r) = ChunkSent(s) => r = s) /\ ChunkSent(s) # Unsent
  <2>1. CASE dir = "inbound"
    BY <1>1, <2>1, FinalChunks
  <2>2. CASE dir # "inbound"
    BY <1>1, <2>2, FinalChunks
  <2> QED
    BY <2>1, <2>2
<1>3. ASSUME NEW c \in 0 .. RING_NUMS - 1, c # Unsent
      PROVE  \E s \in RING_NUMS - 1 .. 2 * (RING_NUMS - 1) - 1 : ChunkSent(s) = c
  <2>1. CASE dir = "inbound" /\ c = 0
    <3>1. RING_NUMS - 1 \in RING_NUMS - 1 .. 2 * (RING_NUMS - 1) - 1
      BY <1>1
    <3> QED
      BY <2>1, <3>1, FinalChunks
  <2>2. CASE dir = "inbound" /\ c # 0
    <3>1. c # 1 /\ c \in Nat
      BY <1>1, <1>3, <2>2, FinalChunks
    <3>2. /\ 2 * RING_NUMS - 1 - c \in RING_NUMS - 1 .. 2 * (RING_NUMS - 1) - 1
          /\ 2 * RING_NUMS - 1 - c # RING_NUMS - 1
          /\ 2 * RING_NUMS - 1 - (2 * RING_NUMS - 1 - c) = c
      BY <1>1, <2>2, <3>1
    <3>3. ChunkSent(2 * RING_NUMS - 1 - c) = c
      BY <2>2, <3>2, FinalChunks
    <3> QED
      BY <3>2, <3>3
  <2>3. CASE dir # "inbound"
    <3>1. c # 0 /\ c \in Nat
      BY <1>1, <1>3, <2>3, FinalChunks
    <3>2. /\ 2 * RING_NUMS - 2 - c \in RING_NUMS - 1 .. 2 * (RING_NUMS - 1) - 1
          /\ 2 * RING_NUMS - 2 - (2 * RING_NUMS - 2 - c) = c
      BY <1>1, <2>3, <3>1
    <3>3. ChunkSent(2 * RING_NUMS - 2 - c) = c
      BY <2>3, <3>2, FinalChunks
    <3> QED
      BY <3>2, <3>3
  <2> QED
    BY <2>1, <2>2, <2>3
<1> QED
  BY <1>2, <1>3

\* No bucket has more transfers than the whole gradient.
LEMMA MostTransfers ==
  ASSUME BuildOK, NEW i \in 0 .. 4
  PROVE  trans_num(i) <= trans_num(0)
<1>1. Length(i) <= Length(0)
  <2>1. Rounds \in Nat \ {0} /\ DATA_LENGTH = Rounds * Sum3 + Length(4)
    BY BucketTypes
  <2>2. Sum3 \in Nat /\ 1 * Sum3 <= Rounds * Sum3 /\ Rounds * Sum3 \in Nat
    BY <2>1, BuildTypes, ProductMonotonic, ProductNat
  <2>3. /\ Length(0) \in Nat /\ Length(1) \in Nat /\ Length(2) \in Nat
        /\ Length(3) \in Nat /\ Length(4) \in Nat
        /\ 0 \in 0 .. 4 /\ 1 \in 0 .. 4 /\ 2 \in 0 .. 4 /\ 3 \in 0 .. 4 /\ 4 \in 0 .. 4
    BY BuildTypes
  <2>4. Length(0) = DATA_LENGTH /\ Sum3 = Length(1) + Length(2) + Length(3)
    BY DEF DATA_LENGTH, Sum3
  <2>5. PICK all \in Nat : all = Rounds * Sum3
    BY <2>2
  <2>6. 1 * Sum3 = Sum3 /\ Sum3 <= all /\ Length(0) = all + Length(4)
    BY <2>1, <2>2, <2>4, <2>5
  <2>7. i = 0 \/ i = 1 \/ i = 2 \/ i = 3 \/ i = 4
    OBVIOUS
  <2> QED
    BY <2>2, <2>3, <2>4, <2>5, <2>6, <2>7
<1> DEFINE m == Piece * RING_NUMS
           u == trans_num(i) * m
           v == trans_num(0) * m
<1>2. /\ m \in Nat \ {0}
      /\ trans_num(i) \in Nat /\ last_trans_size(i) \in Nat
      /\ Length(i) = u + last_trans_size(i)
  BY BuildTypes, SizeTypes
<1>3. /\ trans_num(0) \in Nat /\ last_trans_size(0) \in Nat
      /\ last_trans_size(0) < m
      /\ Length(0) = v + last_trans_size(0)
  <2>1. 0 \in 0 .. 4
    OBVIOUS
  <2> QED
    BY <2>1, SizeTypes
<1> HIDE DEF m
<1>4. trans_num(0) < trans_num(i) => v + m <= u
  <2>1. trans_num(0) < trans_num(i) => (trans_num(0) + 1) * m <= u
    BY <1>2, <1>3, ProductMonotonic
  <2>2. (trans_num(0) + 1) * m = v + m
    BY <1>2, <1>3, ProductNext
  <2> QED
    BY <2>1, <2>2
<1>5. u \in Nat /\ v \in Nat
  BY <1>2, <1>3, ProductNat
<1> HIDE DEF u, v
<1> QED
  BY <1>1, <1>2, <1>3, <1>4, <1>5

LEMMA PositionsOfChunk ==
  ASSUME BuildOK, NEW e \in Nat, NEW c \in 0 .. RING_NUMS - 1, NEW x
  PROVE  x \in ChunkPositions(e, c) <=>
           \E n, tr, q : Tile(e, n, tr, c, q) /\ x = ChunkStart(e, n, tr, c) + q
<1>1. ASSUME x \in ChunkPositions(e, c)
      PROVE  \E n, tr, q : Tile(e, n, tr, c, q) /\ x = ChunkStart(e, n, tr, c) + q
  <2>1. PICK z \in Transfers(e) :
          x \in Positions(ChunkStart(e, z[1], z[2], c), ChunkSize(Kind(e, z[1]), z[2], c))
    BY <1>1 DEF ChunkPositions
  <2> DEFINE n == z[1]
             tr == z[2]
             s == ChunkSize(Kind(e, n), tr, c)
             a == ChunkStart(e, n, tr, c)
  <2>2. n \in 0 .. Writes(e) - 1 /\ tr \in 0 .. trans_num(0) /\ tr <= trans_num(Kind(e, n))
    BY DEF Transfers
  <2>3. /\ Kind(e, n) \in 0 .. 4 /\ trans_num(Kind(e, n)) \in Nat /\ tr \in Nat
        /\ 0 \in 0 .. 4 /\ trans_num(0) \in Nat /\ c \in Nat
    <3>1. 0 \in 0 .. 4
      OBVIOUS
    <3> QED
      BY <2>2, <3>1, KindTypes, SizeTypes, BuildTypes
  <2>4. a \in Nat /\ s \in Nat
    BY <2>2, <2>3, ChunkStartType, ChunkTypes
  <2>5. x \in a .. a + s - 1
    BY <2>1, Zenon DEF Positions
  <2>6. tr \in 0 .. trans_num(Kind(e, n))
    BY <2>2, <2>3
  <2> HIDE DEF a, n, tr, s
  <2>7. PICK q \in 0 .. s - 1 : x = a + q
    <3>1. x - a \in 0 .. s - 1 /\ x = a + (x - a)
      BY <2>4, <2>5
    <3> QED
      BY <3>1
  <2>8. Tile(e, n, tr, c, q)
    BY <2>2, <2>6, <2>7 DEF Tile, s
  <2> QED
    BY <2>7, <2>8 DEF a
<1>2. ASSUME NEW n, NEW tr, NEW q, Tile(e, n, tr, c, q), x = ChunkStart(e, n, tr, c) + q
      PROVE  x \in ChunkPositions(e, c)
  <2> DEFINE s == ChunkSize(Kind(e, n), tr, c)
             a == ChunkStart(e, n, tr, c)
  <2>1. n \in 0 .. Writes(e) - 1 /\ q \in 0 .. s - 1 /\ tr \in 0 .. trans_num(Kind(e, n))
    BY <1>2 DEF Tile
  <2>2. /\ Kind(e, n) \in 0 .. 4 /\ tr \in Nat /\ c \in Nat
        /\ trans_num(Kind(e, n)) \in Nat
    BY <1>2, TileTypes
  <2>3. tr \in 0 .. trans_num(0)
    <3>1. 0 \in 0 .. 4
      OBVIOUS
    <3>2. trans_num(0) \in Nat /\ trans_num(Kind(e, n)) <= trans_num(0)
      BY <2>2, <3>1, SizeTypes, MostTransfers
    <3> QED
      BY <2>1, <2>2, <3>2
  <2>4. <<n, tr>> \in Transfers(e)
    BY <2>1, <2>2, <2>3 DEF Transfers
  <2>5. a \in Nat /\ s \in Nat
    BY <2>1, <2>2, ChunkStartType, ChunkTypes
  <2> HIDE DEF a, s
  <2>6. x \in a .. a + s - 1
    BY <1>2, <2>1, <2>5 DEF a
  <2>7. x \in Positions(ChunkStart(e, <<n, tr>>[1], <<n, tr>>[2], c),
                        ChunkSize(Kind(e, <<n, tr>>[1]), <<n, tr>>[2], c))
    BY <2>6 DEF Positions, a, s
  <2> QED
    BY <2>4, <2>7 DEF ChunkPositions
<1> QED
  BY <1>1, <1>2

-----------------------------------------------------------------------------
(* The packets of an iteration with final sums, in the order they travel.  *)

Spot == [w : Nat, t : Nat, k : Nat, p : Nat]

Finals(e) ==
  {s \in Spot : /\ s.k \in RING_NUMS - 1 .. 2 * (RING_NUMS - 1) - 1
                /\ Tile(e, s.w, s.t, ChunkSent(s.k), s.p)}

At(e, s) == ChunkStart(e, s.w, s.t, ChunkSent(s.k)) + s.p

\* The positions they belong to.
Sent(e) == {At(e, s) : s \in Finals(e)}

LEMMA AtUnique ==
  ASSUME BuildOK, NEW e \in Nat, NEW a \in Finals(e), NEW b \in Finals(e),
         At(e, a) = At(e, b)
  PROVE  a = b
<1>1. /\ a \in Spot /\ b \in Spot
      /\ a.k \in RING_NUMS - 1 .. 2 * (RING_NUMS - 1) - 1
      /\ b.k \in RING_NUMS - 1 .. 2 * (RING_NUMS - 1) - 1
      /\ Tile(e, a.w, a.t, ChunkSent(a.k), a.p)
      /\ Tile(e, b.w, b.t, ChunkSent(b.k), b.p)
  BY DEF Finals
<1>2. a.w = b.w /\ a.t = b.t /\ ChunkSent(a.k) = ChunkSent(b.k) /\ a.p = b.p
  BY <1>1, PlaceUnique DEF At
<1>3. a.k = b.k
  BY <1>1, <1>2, SentOnce
<1> QED
  BY <1>1, <1>2, <1>3 DEF Spot

LEMMA AtRange ==
  ASSUME BuildOK, NEW e \in Nat, NEW s \in Finals(e)
  PROVE  At(e, s) \in 0 .. DATA_LENGTH - 1
BY PlaceRange DEF Finals, At

\* A node sends in an iteration every position but those of one chunk of each
\* transfer.
LEMMA SentIsShare ==
  ASSUME BuildOK, NEW e \in Nat
  PROVE  Sent(e) = (0 .. DATA_LENGTH - 1) \ ChunkPositions(e, Unsent)
<1>1. ASSUME NEW x \in Sent(e)
      PROVE  x \in 0 .. DATA_LENGTH - 1 /\ x \notin ChunkPositions(e, Unsent)
  <2>1. PICK s \in Finals(e) : x = At(e, s)
    BY DEF Sent
  <2>2. /\ s.k \in RING_NUMS - 1 .. 2 * (RING_NUMS - 1) - 1
        /\ Tile(e, s.w, s.t, ChunkSent(s.k), s.p)
        /\ x = ChunkStart(e, s.w, s.t, ChunkSent(s.k)) + s.p
    BY <2>1 DEF Finals, At
  <2>3. ASSUME x \in ChunkPositions(e, Unsent)
        PROVE  FALSE
    <3>1. Unsent \in 0 .. RING_NUMS - 1
      BY FinalChunks
    <3>2. PICK n, tr, q : Tile(e, n, tr, Unsent, q) /\ x = ChunkStart(e, n, tr, Unsent) + q
      BY <2>3, <3>1, PositionsOfChunk
    <3>3. ChunkSent(s.k) = Unsent
      BY <2>2, <3>2, PlaceUnique
    <3> QED
      BY <2>2, <3>3, SentOnce
  <2> QED
    BY <2>1, <2>3, AtRange
<1>2. ASSUME NEW x \in 0 .. DATA_LENGTH - 1, x \notin ChunkPositions(e, Unsent)
      PROVE  x \in Sent(e)
  <2>1. PICK n, tr, c, q : Tile(e, n, tr, c, q) /\ x = ChunkStart(e, n, tr, c) + q
    BY PlaceExists
  <2>2. c \in 0 .. RING_NUMS - 1
    BY <2>1 DEF Tile
  <2>3. c # Unsent
    BY <1>2, <2>1, <2>2, PositionsOfChunk
  <2>4. PICK k0 \in RING_NUMS - 1 .. 2 * (RING_NUMS - 1) - 1 : ChunkSent(k0) = c
    BY <2>2, <2>3, SentOnce
  <2> DEFINE s == [w |-> n, t |-> tr, k |-> k0, p |-> q]
  <2>5. n \in Nat /\ tr \in Nat /\ q \in Nat /\ k0 \in Nat
    BY <2>1, TileTypes, BuildTypes
  <2>6. s \in Finals(e)
    BY <2>1, <2>4, <2>5 DEF Finals, Spot
  <2>7. x = At(e, s)
    BY <2>1, <2>4 DEF At
  <2> QED
    BY <2>6, <2>7 DEF Sent
<1> QED
  BY <1>1, <1>2

\* All but the first iteration are divided into buckets alike.
LEMMA SentAlike ==
  ASSUME NEW e \in Nat \ {0}
  PROVE  ChunkPositions(e, Unsent) = ChunkPositions(1, Unsent)
<1>1. /\ Writes(e) = Writes(1)
      /\ \A n : Kind(e, n) = Kind(1, n) /\ BucketStart(e, n) = BucketStart(1, n)
  BY DEF Writes, Kind, BucketStart
<1>2. \A n, tr, c : ChunkStart(e, n, tr, c) = ChunkStart(1, n, tr, c)
  BY <1>1 DEF ChunkStart
<1>3. Transfers(e) = Transfers(1)
  BY <1>1 DEF Transfers
<1> QED
  BY <1>1, <1>2, <1>3 DEF ChunkPositions

Here == [w |-> w, t |-> t, k |-> k, p |-> p]

Precedes(a, b) ==
  \/ a.w < b.w
  \/ a.w = b.w /\ a.t < b.t
  \/ a.w = b.w /\ a.t = b.t /\ a.k < b.k
  \/ a.w = b.w /\ a.t = b.t /\ a.k = b.k /\ a.p < b.p

\* What the traffic has shown of the iteration it is in, and has not.
Passed == {At(epoch, s) : s \in {r \in Finals(epoch) : Precedes(r, Here)}}
ToCome == {At(epoch, s) : s \in {r \in Finals(epoch) : ~Precedes(r, Here)}}

LEMMA SpotFacts ==
  ASSUME BuildOK, NEW e \in Nat, NEW s \in Finals(e)
  PROVE  /\ s.w \in Nat /\ s.t \in Nat /\ s.k \in Nat /\ s.p \in Nat
         /\ s = [w |-> s.w, t |-> s.t, k |-> s.k, p |-> s.p]
         /\ s.w < Writes(e) /\ s.t <= trans_num(Kind(e, s.w))
         /\ s.k < 2 * (RING_NUMS - 1)
         /\ s.p < ChunkSize(Kind(e, s.w), s.t, ChunkSent(s.k))
<1>1. s \in Spot /\ Tile(e, s.w, s.t, ChunkSent(s.k), s.p)
      /\ s.k \in RING_NUMS - 1 .. 2 * (RING_NUMS - 1) - 1
  BY DEF Finals
<1>2. /\ s.w \in Nat /\ s.t \in Nat /\ s.k \in Nat /\ s.p \in Nat
      /\ s = [w |-> s.w, t |-> s.t, k |-> s.k, p |-> s.p]
  BY <1>1 DEF Spot
<1>3. RING_NUMS \in Nat /\ Writes(e) \in Nat /\ trans_num(Kind(e, s.w)) \in Nat
      /\ ChunkSent(s.k) \in Nat /\ Kind(e, s.w) \in 0 .. 4
  BY <1>1, TileTypes, KindTypes
<1>4. ChunkSize(Kind(e, s.w), s.t, ChunkSent(s.k)) \in Nat
  BY <1>2, <1>3, ChunkTypes
<1> QED
  BY <1>1, <1>2, <1>3, <1>4 DEF Tile

LEMMA HereFacts ==
  ASSUME BuildOK, TrafficOK
  PROVE  /\ epoch \in Nat /\ w \in Nat /\ t \in Nat /\ k \in Nat /\ p \in Nat
         /\ RING_NUMS \in Nat /\ RING_NUMS >= 2
         /\ Writes(epoch) \in Nat /\ trans_num(Kind(epoch, w)) \in Nat
         /\ SizeNow \in Nat /\ SizeNow >= 2
         /\ IsFinal(k) => Here \in Finals(epoch) /\ At(epoch, Here) = Place
<1>1. /\ epoch \in Nat /\ w \in 0 .. Writes(epoch) - 1
      /\ t \in 0 .. trans_num(Kind(epoch, w))
      /\ k \in 0 .. 2 * (RING_NUMS - 1) - 1
      /\ p \in 0 .. SizeNow - 1
      /\ SizeNow \in Nat /\ SizeNow >= 2
  BY SizeNowType DEF TrafficOK
<1>2. RING_NUMS \in Nat /\ RING_NUMS >= 2 /\ Writes(epoch) \in Nat
      /\ Kind(epoch, w) \in 0 .. 4 /\ trans_num(Kind(epoch, w)) \in Nat
  BY <1>1, BuildTypes, KindTypes, SizeTypes
<1>3. w \in Nat /\ t \in Nat /\ k \in Nat /\ p \in Nat
  BY <1>1, <1>2
<1>4. IsFinal(k) => Here \in Finals(epoch)
  <2> SUFFICES ASSUME IsFinal(k) PROVE Here \in Finals(epoch)
    OBVIOUS
  <2>1. k \in RING_NUMS - 1 .. 2 * (RING_NUMS - 1) - 1
    BY <1>1, <1>2 DEF IsFinal
  <2>2. ChunkSent(k) \in 0 .. RING_NUMS - 1
    BY <1>1, SentType
  <2>3. Tile(epoch, w, t, ChunkSent(k), p)
    BY <1>1, <2>2 DEF Tile, SizeNow
  <2> QED
    BY <1>3, <2>1, <2>3 DEF Here, Finals, Spot
<1>5. At(epoch, Here) = Place
  BY DEF At, Here, Place
<1> QED
  BY <1>1, <1>2, <1>3, <1>4, <1>5

\* The next place of the traffic is the one just after this.
LEMMA AdvanceOrder ==
  ASSUME BuildOK, TrafficOK, Advance
  PROVE  \/ /\ epoch' = epoch /\ ~ AtStart'
            /\ \A s \in Finals(epoch) : Precedes(s, Here') <=> Precedes(s, Here) \/ s = Here
         \/ /\ epoch' = epoch + 1 /\ AtStart'
            /\ \A s \in Finals(epoch) : Precedes(s, Here) \/ s = Here
<1> DEFINE trs == trans_num(Kind(epoch, w))
           ws == Writes(epoch)
           ks == 2 * (RING_NUMS - 1)
           same == /\ epoch' = epoch /\ ~ AtStart'
                   /\ \A s \in Finals(epoch) :
                        Precedes(s, Here') <=> Precedes(s, Here) \/ s = Here
<1>1. /\ epoch \in Nat /\ w \in Nat /\ t \in Nat /\ k \in Nat /\ p \in Nat
      /\ RING_NUMS \in Nat /\ RING_NUMS >= 2
      /\ ws \in Nat /\ trs \in Nat /\ SizeNow \in Nat
      /\ w < ws /\ t <= trs /\ k < ks /\ p < SizeNow
  BY HereFacts DEF TrafficOK
<1>2. ks \in Nat
  BY <1>1
<1>3. \A s \in Finals(epoch) :
        /\ s.w \in Nat /\ s.t \in Nat /\ s.k \in Nat /\ s.p \in Nat
        /\ s = Here <=> s.w = w /\ s.t = t /\ s.k = k /\ s.p = p
        /\ s.w < ws /\ s.k < ks
        /\ s.w = w => s.t <= trs
        /\ s.w = w /\ s.t = t /\ s.k = k => s.p < SizeNow
  <2> SUFFICES ASSUME NEW s \in Finals(epoch)
               PROVE  /\ s.w \in Nat /\ s.t \in Nat /\ s.k \in Nat /\ s.p \in Nat
                      /\ s = Here <=> s.w = w /\ s.t = t /\ s.k = k /\ s.p = p
                      /\ s.w < ws /\ s.k < ks
                      /\ s.w = w => s.t <= trs
                      /\ s.w = w /\ s.t = t /\ s.k = k => s.p < SizeNow
    OBVIOUS
  <2>1. s = Here <=> s.w = w /\ s.t = t /\ s.k = k /\ s.p = p
    BY <1>1, SpotFacts DEF Here
  <2> QED
    BY <1>1, <2>1, SpotFacts DEF SizeNow
<1>4. \A s : /\ Precedes(s, Here) <=>
                  \/ s.w < w
                  \/ s.w = w /\ s.t < t
                  \/ s.w = w /\ s.t = t /\ s.k < k
                  \/ s.w = w /\ s.t = t /\ s.k = k /\ s.p < p
             /\ Precedes(s, Here') <=>
                  \/ s.w < w'
                  \/ s.w = w' /\ s.t < t'
                  \/ s.w = w' /\ s.t = t' /\ s.k < k'
                  \/ s.w = w' /\ s.t = t' /\ s.k = k' /\ s.p < p'
  BY DEF Precedes, Here
<1>5. CASE p + 1 < SizeNow
  <2>1. p' = p + 1 /\ k' = k /\ t' = t /\ w' = w /\ epoch' = epoch
    BY <1>5 DEF Advance
  <2> QED
    BY <1>1, <1>3, <1>4, <2>1 DEF AtStart
<1>6. CASE ~ (p + 1 < SizeNow) /\ k + 1 < ks
  <2>1. p' = 0 /\ k' = k + 1 /\ t' = t /\ w' = w /\ epoch' = epoch
    BY <1>6 DEF Advance
  <2>2. p + 1 = SizeNow
    BY <1>1, <1>6
  <2> HIDE DEF ks, ws, trs
  <2> QED
    BY <1>1, <1>3, <1>4, <2>1, <2>2 DEF AtStart
<1>7. CASE ~ (p + 1 < SizeNow) /\ ~ (k + 1 < ks) /\ t + 1 <= trs
  <2>1. p' = 0 /\ k' = 0 /\ t' = t + 1 /\ w' = w /\ epoch' = epoch
    BY <1>7 DEF Advance
  <2>2. p + 1 = SizeNow /\ k + 1 = ks
    BY <1>1, <1>2, <1>7
  <2> HIDE DEF ks, ws, trs
  <2> QED
    BY <1>1, <1>2, <1>3, <1>4, <2>1, <2>2 DEF AtStart
<1>8. CASE ~ (p + 1 < SizeNow) /\ ~ (k + 1 < ks) /\ ~ (t + 1 <= trs) /\ w + 1 < ws
  <2>1. p' = 0 /\ k' = 0 /\ t' = 0 /\ w' = w + 1 /\ epoch' = epoch
    BY <1>8 DEF Advance
  <2>2. p + 1 = SizeNow /\ k + 1 = ks /\ t = trs
    BY <1>1, <1>2, <1>8
  <2> HIDE DEF ks, ws, trs
  <2> QED
    BY <1>1, <1>2, <1>3, <1>4, <2>1, <2>2 DEF AtStart
<1>9. CASE ~ (p + 1 < SizeNow) /\ ~ (k + 1 < ks) /\ ~ (t + 1 <= trs) /\ ~ (w + 1 < ws)
  <2>1. p' = 0 /\ k' = 0 /\ t' = 0 /\ w' = 0 /\ epoch' = epoch + 1
    BY <1>9 DEF Advance
  <2>2. p + 1 = SizeNow /\ k + 1 = ks /\ t = trs /\ w + 1 = ws
    BY <1>1, <1>2, <1>9
  <2> HIDE DEF ks, ws, trs
  <2>3. \A s \in Finals(epoch) : Precedes(s, Here) \/ s = Here
    BY <1>1, <1>2, <1>3, <1>4, <2>2
  <2> QED
    BY <2>1, <2>3 DEF AtStart
<1> QED
  BY <1>5, <1>6, <1>7, <1>8, <1>9

-----------------------------------------------------------------------------
(* An iteration without losses reports all that its node sends.            *)

LEMMA FinalsStay ==
  ASSUME UNCHANGED config
  PROVE  /\ \A e : Finals(e)' = Finals(e) /\ Sent(e)' = Sent(e)
         /\ \A e, s : At(e, s)' = At(e, s)
         /\ Unsent' = Unsent /\ DATA_LENGTH' = DATA_LENGTH
         /\ \A e, c : ChunkPositions(e, c)' = ChunkPositions(e, c)
<1> USE DEF config
<1>1. /\ RING_NUMS' = RING_NUMS /\ Piece' = Piece /\ Rank' = Rank
      /\ DATA_LENGTH' = DATA_LENGTH /\ Sum3' = Sum3
      /\ \A i : Length(i)' = Length(i)
  BY DEF RING_NUMS, Piece, Length, DATA_LENGTH, Sum3, Rank
<1>2. /\ \A e, n : Kind(e, n)' = Kind(e, n)
      /\ \A e : Writes(e)' = Writes(e)
      /\ \A i : trans_num(i)' = trans_num(i)
      /\ \A i, n, c : ChunkSize(i, n, c)' = ChunkSize(i, n, c)
  BY BuildStays
<1>3. \A e, n : BucketStart(e, n)' = BucketStart(e, n)
  BY <1>1, <1>2 DEF BucketStart
<1>4. \A e, n, tr, c : ChunkStart(e, n, tr, c)' = ChunkStart(e, n, tr, c)
  BY <1>1, <1>2, <1>3 DEF ChunkStart
<1>5. \A s : ChunkSent(s)' = ChunkSent(s)
  BY <1>1 DEF ChunkSent
<1>6. \A e, n, tr, c, q : Tile(e, n, tr, c, q)' <=> Tile(e, n, tr, c, q)
  BY <1>1, <1>2 DEF Tile
<1>7. \A e : Finals(e)' = Finals(e)
  BY <1>1, <1>5, <1>6 DEF Finals
<1>8. \A e, s : At(e, s)' = At(e, s)
  BY <1>4, <1>5 DEF At
<1>9. \A e : Sent(e)' = Sent(e)
  BY <1>7, <1>8 DEF Sent
<1>10. \A e, c : ChunkPositions(e, c)' = ChunkPositions(e, c)
  <2>1. \A e : Transfers(e)' = Transfers(e)
    BY <1>2 DEF Transfers
  <2> QED
    BY <1>2, <1>4, <2>1 DEF ChunkPositions
<1> QED
  BY <1>1, <1>7, <1>8, <1>9, <1>10 DEF Unsent

\* Where a packet with a final sum belongs.
Due == IF IsFinal(k) THEN {Place} ELSE {}

\* What has passed grows by just the place of the packet at hand, up to all
\* that the node sends in the iteration; what is to come shrinks by it.
LEMMA PassedStep ==
  ASSUME BuildOK, TrafficOK, Advance, UNCHANGED config
  PROVE  /\ \/ /\ epoch' = epoch /\ ~ AtStart'
               /\ Passed' = Passed \cup Due /\ ToCome' = ToCome \ Due
            \/ /\ epoch' = epoch + 1 /\ AtStart'
               /\ Sent(epoch) = Passed \cup Due /\ ToCome \subseteq Due
         /\ Due \subseteq ToCome
<1> DEFINE F == Finals(epoch)
<1>1. /\ epoch \in Nat /\ k \in 0 .. 2 * (RING_NUMS - 1) - 1
      /\ IsFinal(k) => Here \in F /\ At(epoch, Here) = Place
      /\ RING_NUMS \in Nat
  BY HereFacts DEF TrafficOK
<1>2. Here \in F => IsFinal(k)
  BY <1>1 DEF Finals, Here, IsFinal
<1>3. Due = {At(epoch, s) : s \in {r \in F : r = Here}}
  <2>1. CASE IsFinal(k)
    BY <1>1, <2>1 DEF Due
  <2>2. CASE ~ IsFinal(k)
    BY <1>2, <2>2 DEF Due
  <2> QED
    BY <2>1, <2>2
<1>4. ~ Precedes(Here, Here)
  BY HereFacts DEF Precedes, Here
<1>5. \A a, b \in F : At(epoch, a) = At(epoch, b) => a = b
  BY <1>1, AtUnique
<1>6. Due \subseteq ToCome
  BY <1>3, <1>4 DEF ToCome
<1>7. CASE /\ epoch' = epoch /\ ~ AtStart'
           /\ \A s \in F : Precedes(s, Here') <=> Precedes(s, Here) \/ s = Here
  <2>1. /\ Passed' = {At(epoch, s) : s \in {r \in F : Precedes(r, Here')}}
        /\ ToCome' = {At(epoch, s) : s \in {r \in F : ~ Precedes(r, Here')}}
    <3>1. F' = F /\ \A s : At(epoch, s)' = At(epoch, s)
      BY <1>7, FinalsStay DEF At, Finals
    <3>2. \A r : Precedes(r, Here)' <=> Precedes(r, Here')
      BY DEF Precedes
    <3> QED
      BY <1>7, <3>1, <3>2 DEF Passed, ToCome
  <2> HIDE DEF F
  <2>2. Passed' = Passed \cup Due
    BY <1>3, <1>7, <2>1 DEF Passed, F
  <2>3. ToCome' = ToCome \ Due
    BY <1>3, <1>5, <1>7, <2>1 DEF ToCome, F
  <2> QED
    BY <1>6, <1>7, <2>2, <2>3
<1>8. CASE /\ epoch' = epoch + 1 /\ AtStart'
           /\ \A s \in F : Precedes(s, Here) \/ s = Here
  <2>1. Sent(epoch) = Passed \cup Due
    BY <1>3, <1>8 DEF Sent, Passed
  <2>2. ToCome \subseteq Due
    BY <1>3, <1>8 DEF ToCome
  <2> QED
    BY <1>6, <1>8, <2>1, <2>2
<1> QED
  BY <1>7, <1>8, AdvanceOrder

LEMMA StartFacts ==
  ASSUME BuildOK, TrafficOK, AtStart
  PROVE  Passed = {} /\ ToCome = Sent(epoch)
<1>1. \A s \in Finals(epoch) : ~ Precedes(s, Here)
  <2> SUFFICES ASSUME NEW s \in Finals(epoch) PROVE ~ Precedes(s, Here)
    OBVIOUS
  <2>1. s.w \in Nat /\ s.t \in Nat /\ s.k \in Nat /\ s.p \in Nat
    BY SpotFacts DEF TrafficOK
  <2> QED
    BY <2>1 DEF AtStart, Precedes, Here
<1> QED
  BY <1>1 DEF Passed, ToCome, Sent

LEMMA PlaceStays ==
  ASSUME UNCHANGED <<config, place>>
  PROVE  /\ Passed' = Passed /\ ToCome' = ToCome
         /\ AtStart' = AtStart /\ epoch' = epoch
<1>1. UNCHANGED config /\ UNCHANGED <<epoch, w, t, k, p>>
  BY DEF place
<1>2. Finals(epoch)' = Finals(epoch) /\ \A s : At(epoch, s)' = At(epoch, s)
  BY <1>1, FinalsStay DEF Finals, At
<1>3. \A r : Precedes(r, Here)' <=> Precedes(r, Here)
  BY <1>1 DEF Precedes, Here
<1> QED
  BY <1>1, <1>2, <1>3 DEF Passed, ToCome, AtStart

LEMMA ToComeRange ==
  ASSUME BuildOK, epoch \in Nat
  PROVE  ToCome \subseteq 0 .. DATA_LENGTH - 1
BY AtRange DEF ToCome

\* What was reported of an iteration in which nothing was lost so far.
GotInv ==
  /\ clean => intact
  /\ clean /\ behind = 0 /\ ~ AtStart => got = Passed
  /\ \A e \in Nat : clean /\ behind = 0 /\ AtStart /\ epoch = e + 1 => got = Sent(e)

LEMMA DataGot ==
  ASSUME IInv, GotInv, Data
  PROVE  GotInv'
<1>1. /\ BuildOK /\ TrafficOK /\ Advance /\ UNCHANGED config /\ AccountsOK
      /\ intact' = (p = 0 \/ intact) /\ clean' = (AtStart \/ clean)
      /\ behind' = behind
      /\ got' = IF ~ clean' THEN {}
                ELSE (IF AtStart THEN {} ELSE got)
                     \cup (IF result' = -1 THEN {} ELSE {result'})
  BY DEF IInv, Data, DataPacket, Account
<1>2. clean' => intact'
  BY <1>1 DEF GotInv, AtStart
<1>3. ASSUME clean', behind = 0
      PROVE  got' = Passed \cup Due
  <2>1. result' = IF IsFinal(k) THEN Place ELSE -1
    BY <1>2, <1>3, DataArrives, FinalsLocatedStep
  <2>2. IsFinal(k) => Place \in Nat
    <3>1. epoch \in Nat
      BY <1>1 DEF TrafficOK
    <3>2. \A s \in Finals(epoch) : At(epoch, s) \in 0 .. DATA_LENGTH - 1
      BY <1>1, <3>1, AtRange
    <3>3. DATA_LENGTH \in Nat
      BY <1>1, BuildTypes
    <3> QED
      BY <1>1, <3>2, <3>3, HereFacts
  <2>3. (IF result' = -1 THEN {} ELSE {result'}) = Due
    BY <2>1, <2>2 DEF Due
  <2>4. (IF AtStart THEN {} ELSE got) = Passed
    BY <1>1, <1>3, StartFacts DEF GotInv
  <2> QED
    BY <1>1, <1>3, <2>3, <2>4
<1>4. \/ epoch' = epoch /\ ~ AtStart' /\ Passed' = Passed \cup Due
      \/ epoch' = epoch + 1 /\ AtStart' /\ Sent(epoch) = Passed \cup Due
  BY <1>1, PassedStep
<1>5. \A e : Sent(e)' = Sent(e)
  BY <1>1, FinalsStay
<1>6. \A e \in Nat : epoch' = e + 1 /\ epoch' = epoch + 1 => e = epoch
  BY <1>1 DEF TrafficOK
<1> QED
  BY <1>1, <1>2, <1>3, <1>4, <1>5, <1>6 DEF GotInv

LEMMA LoseGot ==
  ASSUME GotInv, Lose
  PROVE  GotInv'
BY DEF GotInv, Lose, Account

LEMMA StutterGot ==
  ASSUME GotInv, UNCHANGED <<config, place, accounts>>
  PROVE  GotInv'
<1>1. UNCHANGED <<intact, clean, got, behind>>
  BY DEF accounts
<1>2. UNCHANGED config /\ \A e : Sent(e)' = Sent(e)
  BY FinalsStay
<1> QED
  BY <1>1, <1>2, PlaceStays DEF GotInv

LEMMA NextGot ==
  ASSUME IInv, GotInv, [Next]_vars
  PROVE  GotInv'
<1>1. CASE Broadcast
  BY <1>1, StutterGot DEF Broadcast, BroadcastPacket
<1>2. CASE Data
  BY <1>2, DataGot
<1>3. CASE Lose
  BY <1>3, LoseGot
<1>4. CASE Other
  BY <1>4, StutterGot DEF Other, OtherPacket
<1>5. CASE UNCHANGED vars
  BY <1>5, StutterGot DEF vars, traffic
<1> QED
  BY <1>1, <1>2, <1>3, <1>4, <1>5 DEF Next

\* Up to any packet of an iteration, what was reported are the places of the
\* final sums sent so far.
THEOREM GotInvariant == Spec /\ CutsAgree => []GotInv
<1>1. Init => GotInv
  BY DEF Init, GotInv, AtStart
<1>2. IInv /\ GotInv /\ [Next]_vars => GotInv'
  BY NextGot
<1> QED
  BY <1>1, <1>2, DecodeInvariant, PTL DEF Spec

\* An iteration without losses reports every position of the gradient but
\* those of the one chunk of each transfer that the node receives final and
\* never sends: the table of bucket starts, the chunk sizes and chunk_id leave
\* no gap between buckets, transfers and chunks.
THEOREM IterationIsCovered == Spec /\ CutsAgree => []IterationCovered
<1>1. IInv /\ GotInv => IterationCovered
  <2> SUFFICES ASSUME IInv, GotInv, AtStart, epoch > 0, clean, behind = 0
               PROVE  got = (0 .. DATA_LENGTH - 1) \
                              ChunkPositions(epoch - 1, (Rank + 1) % RING_NUMS)
    BY DEF IterationCovered
  <2>1. epoch - 1 \in Nat /\ epoch = (epoch - 1) + 1 /\ BuildOK
    BY DEF IInv, TrafficOK
  <2>2. got = Sent(epoch - 1)
    BY <2>1 DEF GotInv
  <2> QED
    BY <2>1, <2>2, SentIsShare DEF Unsent
<1> QED
  BY <1>1, DecodeInvariant, GotInvariant, PTL

-----------------------------------------------------------------------------
(* How much that is, if every transfer is cut evenly.                      *)

LEMMA CountOfPairs ==
  ASSUME NEW A, NEW B, NEW T, IsFiniteSet(A), IsFiniteSet(B),
         ExistsBijection(A \X B, T)
  PROVE  Cardinality(T) = Cardinality(A) * Cardinality(B)
<1>1. IsFiniteSet(A \X B) /\ Cardinality(A \X B) = Cardinality(A) * Cardinality(B)
  BY FS_Product
<1> QED
  BY <1>1, FS_Bijection

\* The packets of one chunk of every transfer.
Share(e) == {b \in Nat \X Nat \X Nat : Tile(e, b[1], b[2], 0, b[3])}

LEMMA EvenTiles ==
  ASSUME BuildOK, EvenChunks, NEW e \in Nat, NEW n, NEW tr, NEW q,
         NEW c \in 0 .. RING_NUMS - 1
  PROVE  Tile(e, n, tr, c, q) <=> Tile(e, n, tr, 0, q)
<1>1. RING_NUMS \in Nat /\ RING_NUMS >= 2 /\ 0 # RING_NUMS - 1
      /\ 0 \in 0 .. RING_NUMS - 1
  BY BuildTypes
<1>2. n \in 0 .. Writes(e) - 1 => Kind(e, n) \in 0 .. 4
  BY KindTypes
<1>3. n \in 0 .. Writes(e) - 1 =>
        ChunkSize(Kind(e, n), tr, c) = ChunkSize(Kind(e, n), tr, 0)
  BY <1>1, <1>2 DEF EvenChunks, ChunkSize
<1> QED
  BY <1>1, <1>3 DEF Tile

LEMMA ShareIsFinite ==
  ASSUME BuildOK, NEW e \in Nat
  PROVE  IsFiniteSet(Share(e))
<1> DEFINE D == 0 .. DATA_LENGTH - 1
           g == [b \in Share(e) |-> ChunkStart(e, b[1], b[2], 0) + b[3]]
<1>1. IsFiniteSet(D)
  BY BuildTypes, FS_Interval
<1>2. g \in [Share(e) -> D]
  BY PlaceRange DEF Share
<1>3. \A a, b \in Share(e) : g[a] = g[b] => a = b
  <2> SUFFICES ASSUME NEW a \in Share(e), NEW b \in Share(e), g[a] = g[b]
               PROVE  a = b
    OBVIOUS
  <2>1. /\ Tile(e, a[1], a[2], 0, a[3]) /\ Tile(e, b[1], b[2], 0, b[3])
        /\ ChunkStart(e, a[1], a[2], 0) + a[3] = ChunkStart(e, b[1], b[2], 0) + b[3]
        /\ a \in Nat \X Nat \X Nat /\ b \in Nat \X Nat \X Nat
    BY DEF Share
  <2>2. a[1] = b[1] /\ a[2] = b[2] /\ a[3] = b[3]
    BY <2>1, PlaceUnique
  <2> QED
    BY <2>1, <2>2
<1> HIDE DEF g
<1>4. g \in Injection(Share(e), D)
  BY <1>2, <1>3, Fun_IsInj
<1> QED
  BY <1>1, <1>4, FS_Injection

\* Evenly cut, the gradient holds as many positions as chunks in a transfer
\* times those of one chunk of each.
LEMMA EvenShares ==
  ASSUME BuildOK, EvenChunks, NEW e \in Nat
  PROVE  DATA_LENGTH = RING_NUMS * Cardinality(Share(e))
<1> DEFINE A == 0 .. RING_NUMS - 1
           B == Share(e)
           D == 0 .. DATA_LENGTH - 1
           f == [x \in A \X B |-> ChunkStart(e, x[2][1], x[2][2], x[1]) + x[2][3]]
<1>1. /\ RING_NUMS \in Nat /\ RING_NUMS >= 2 /\ DATA_LENGTH \in Nat
  BY BuildTypes
<1>2. /\ IsFiniteSet(A) /\ Cardinality(A) = RING_NUMS
      /\ IsFiniteSet(D) /\ Cardinality(D) = DATA_LENGTH
  <2>1. /\ 0 \in Int /\ RING_NUMS - 1 \in Int /\ DATA_LENGTH - 1 \in Int
        /\ ~ (0 > RING_NUMS - 1) /\ RING_NUMS - 1 - 0 + 1 = RING_NUMS
        /\ ~ (0 > DATA_LENGTH - 1) /\ DATA_LENGTH - 1 - 0 + 1 = DATA_LENGTH
    BY <1>1, BuildTypes
  <2> QED
    BY <2>1, FS_Interval
<1>3. \A x \in A \X B : /\ x[1] \in A /\ x[2] \in Nat \X Nat \X Nat
                        /\ x = <<x[1], x[2]>>
                        /\ Tile(e, x[2][1], x[2][2], x[1], x[2][3])
  BY EvenTiles DEF Share
<1>4. f \in [A \X B -> D]
  BY <1>3, PlaceRange
<1>5. \A x, y \in A \X B : f[x] = f[y] => x = y
  <2> SUFFICES ASSUME NEW x \in A \X B, NEW y \in A \X B, f[x] = f[y]
               PROVE  x = y
    OBVIOUS
  <2>1. /\ Tile(e, x[2][1], x[2][2], x[1], x[2][3])
        /\ Tile(e, y[2][1], y[2][2], y[1], y[2][3])
        /\ ChunkStart(e, x[2][1], x[2][2], x[1]) + x[2][3] =
             ChunkStart(e, y[2][1], y[2][2], y[1]) + y[2][3]
    BY <1>3
  <2>2. x[2][1] = y[2][1] /\ x[2][2] = y[2][2] /\ x[2][3] = y[2][3] /\ x[1] = y[1]
    BY <2>1, PlaceUnique
  <2>3. x[2] \in Nat \X Nat \X Nat /\ y[2] \in Nat \X Nat \X Nat
        /\ x = <<x[1], x[2]>> /\ y = <<y[1], y[2]>>
    BY <1>3
  <2>4. x[2] = y[2]
    BY <2>2, <2>3
  <2> QED
    BY <2>2, <2>3, <2>4
<1>6. \A z \in D : \E u \in A \X B : f[u] = z
  <2> SUFFICES ASSUME NEW z \in D PROVE \E u \in A \X B : f[u] = z
    OBVIOUS
  <2>1. PICK n, tr, c, q : Tile(e, n, tr, c, q) /\ z = ChunkStart(e, n, tr, c) + q
    BY PlaceExists
  <2>2. c \in A /\ Tile(e, n, tr, 0, q)
    BY <2>1, EvenTiles DEF Tile
  <2>3. n \in Nat /\ tr \in Nat /\ q \in Nat
    BY <2>1, TileTypes
  <2>4. <<n, tr, q>> \in B
    BY <2>2, <2>3 DEF Share
  <2>5. <<c, <<n, tr, q>>>> \in A \X B
    BY <2>2, <2>4
  <2>6. f[<<c, <<n, tr, q>>>>] = z
    BY <2>1, <2>5
  <2> QED
    BY <2>5, <2>6
<1>7. IsFiniteSet(B)
  BY ShareIsFinite
<1> HIDE DEF f, A, B, D
<1>8. ExistsBijection(A \X B, D)
  <2>1. f \in Bijection(A \X B, D)
    BY <1>4, <1>5, <1>6, Fun_IsBij
  <2> QED
    BY <2>1, Fun_ExistsBij
<1>9. Cardinality(D) = Cardinality(A) * Cardinality(B)
  BY <1>2, <1>7, <1>8, CountOfPairs
<1> QED
  BY <1>2, <1>9 DEF B

\* And a node sends all but one of these shares.
LEMMA EvenSent ==
  ASSUME BuildOK, EvenChunks, NEW e \in Nat
  PROVE  Cardinality(Sent(e)) = (RING_NUMS - 1) * Cardinality(Share(e))
<1> DEFINE A == RING_NUMS - 1 .. 2 * (RING_NUMS - 1) - 1
           B == Share(e)
           spot(x) == [w |-> x[2][1], t |-> x[2][2], k |-> x[1], p |-> x[2][3]]
           f == [x \in A \X B |-> At(e, spot(x))]
<1>1. /\ RING_NUMS \in Nat /\ RING_NUMS >= 2
  BY BuildTypes
<1>2. IsFiniteSet(A) /\ Cardinality(A) = RING_NUMS - 1
  <2>1. 2 * (RING_NUMS - 1) - 1 - (RING_NUMS - 1) + 1 = RING_NUMS - 1
        /\ ~ (RING_NUMS - 1 > 2 * (RING_NUMS - 1) - 1)
        /\ RING_NUMS - 1 \in Int /\ 2 * (RING_NUMS - 1) - 1 \in Int
    BY <1>1
  <2> QED
    BY <2>1, FS_Interval
<1>3. \A x \in A \X B : /\ x[1] \in A /\ x[2] \in Nat \X Nat \X Nat
                        /\ x = <<x[1], x[2]>>
                        /\ spot(x) \in Finals(e)
  <2> SUFFICES ASSUME NEW x \in A \X B
               PROVE  /\ x[1] \in A /\ x[2] \in Nat \X Nat \X Nat
                      /\ x = <<x[1], x[2]>>
                      /\ spot(x) \in Finals(e)
    OBVIOUS
  <2>1. /\ x[1] \in A /\ x[2] \in Nat \X Nat \X Nat /\ x = <<x[1], x[2]>>
        /\ Tile(e, x[2][1], x[2][2], 0, x[2][3])
    BY DEF Share
  <2>2. x[1] \in 0 .. 2 * (RING_NUMS - 1) - 1
    BY <1>1, <2>1
  <2>3. Tile(e, x[2][1], x[2][2], ChunkSent(x[1]), x[2][3])
    BY <2>1, <2>2, SentType, EvenTiles
  <2>4. spot(x) \in Spot
    BY <2>1, <2>2 DEF Spot
  <2> QED
    BY <2>1, <2>3, <2>4 DEF Finals
<1>4. f \in [A \X B -> Sent(e)]
  BY <1>3 DEF Sent
<1>5. \A x, y \in A \X B : f[x] = f[y] => x = y
  <2> SUFFICES ASSUME NEW x \in A \X B, NEW y \in A \X B, f[x] = f[y]
               PROVE  x = y
    OBVIOUS
  <2>1. spot(x) = spot(y)
    BY <1>3, AtUnique
  <2>2. x[2][1] = y[2][1] /\ x[2][2] = y[2][2] /\ x[2][3] = y[2][3] /\ x[1] = y[1]
    BY <2>1
  <2>3. x[2] \in Nat \X Nat \X Nat /\ y[2] \in Nat \X Nat \X Nat
        /\ x = <<x[1], x[2]>> /\ y = <<y[1], y[2]>>
    BY <1>3
  <2>4. x[2] = y[2]
    BY <2>2, <2>3
  <2> QED
    BY <2>2, <2>3, <2>4
<1>6. \A z \in Sent(e) : \E u \in A \X B : f[u] = z
  <2> SUFFICES ASSUME NEW z \in Sent(e) PROVE \E u \in A \X B : f[u] = z
    OBVIOUS
  <2>1. PICK s \in Finals(e) : z = At(e, s)
    BY DEF Sent
  <2>2. s.k \in A /\ Tile(e, s.w, s.t, ChunkSent(s.k), s.p) /\ s \in Spot
    BY DEF Finals
  <2>3. s.w \in Nat /\ s.t \in Nat /\ s.p \in Nat
        /\ s = [w |-> s.w, t |-> s.t, k |-> s.k, p |-> s.p]
    BY SpotFacts
  <2>4. Tile(e, s.w, s.t, 0, s.p)
    <3>1. s.k \in 0 .. 2 * (RING_NUMS - 1) - 1
      BY <1>1, <2>2
    <3> QED
      BY <2>2, <3>1, SentType, EvenTiles
  <2>5. <<s.k, <<s.w, s.t, s.p>>>> \in A \X B
    BY <2>2, <2>3, <2>4 DEF Share
  <2>6. f[<<s.k, <<s.w, s.t, s.p>>>>] = z
    BY <2>1, <2>3, <2>5
  <2> QED
    BY <2>5, <2>6
<1>7. IsFiniteSet(B)
  BY ShareIsFinite
<1> HIDE DEF f, A, B
<1>8. ExistsBijection(A \X B, Sent(e))
  <2>1. f \in Bijection(A \X B, Sent(e))
    BY <1>4, <1>5, <1>6, Fun_IsBij
  <2> QED
    BY <2>1, Fun_ExistsBij
<1>9. Cardinality(Sent(e)) = Cardinality(A) * Cardinality(B)
  BY <1>2, <1>7, <1>8, CountOfPairs
<1> QED
  BY <1>2, <1>9 DEF B

LEMMA SentCount ==
  ASSUME BuildOK, EvenChunks, NEW e \in Nat
  PROVE  Cardinality(Sent(e)) = (DATA_LENGTH \div RING_NUMS) * (RING_NUMS - 1)
<1> DEFINE n == Cardinality(Share(e))
<1>1. n \in Nat
  BY ShareIsFinite, FS_CardinalityType
<1> HIDE DEF n
<1>2. /\ RING_NUMS \in Nat \ {0} /\ DATA_LENGTH \in Nat
      /\ DATA_LENGTH = RING_NUMS * n
      /\ Cardinality(Sent(e)) = (RING_NUMS - 1) * n
  BY BuildTypes, EvenShares, EvenSent DEF n
<1>3. DATA_LENGTH \div RING_NUMS = n
  BY <1>1, <1>2, DivExact
<1>4. (RING_NUMS - 1) * n = n * (RING_NUMS - 1)
  BY <1>1, <1>2
<1> QED
  BY <1>2, <1>3, <1>4

\* Cut evenly, a stream without losses reports per iteration exactly as many
\* positions as the extractor thread of its parser waits for.
THEOREM ReportsAreAwaited == Spec /\ CutsAgree => []ReportedAreAwaited
<1>1. IInv /\ GotInv => ReportedAreAwaited
  <2> SUFFICES ASSUME IInv, GotInv, AtStart, epoch > 0, clean, behind = 0, EvenChunks
               PROVE  Cardinality(got) = (DATA_LENGTH \div RING_NUMS) * (RING_NUMS - 1)
    BY DEF ReportedAreAwaited
  <2>1. epoch - 1 \in Nat /\ epoch = (epoch - 1) + 1 /\ BuildOK
    BY DEF IInv, TrafficOK
  <2>2. got = Sent(epoch - 1)
    BY <2>1 DEF GotInv
  <2> QED
    BY <2>1, <2>2, SentCount
<1> QED
  BY <1>1, DecodeInvariant, GotInvariant, PTL
=============================================================================
