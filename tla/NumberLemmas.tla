---------------------------- MODULE NumberLemmas ----------------------------
(***************************************************************************)
(* Facts about natural numbers that the proofs about the models share:     *)
(* remainders, products, quotients, and induction over a set.              *)
(***************************************************************************)
EXTENDS Integers, WellFoundedInduction, TLAPS

LEMMA ModRange ==
  ASSUME NEW m \in Nat \ {0}, NEW x \in Nat
  PROVE  x % m \in 0 .. m - 1
OBVIOUS

\* An index less than two rounds ahead wraps at most once.
LEMMA ModOnce ==
  ASSUME NEW m \in Nat \ {0}, NEW x \in 0 .. 2 * m - 1
  PROVE  x % m = IF x < m THEN x ELSE x - m
<1>1. CASE x \in 0 .. m - 1
  BY <1>1
<1>2. CASE x \in m .. 2 * m - 1
  BY <1>2
<1> QED
  BY <1>1, <1>2

LEMMA DivNat ==
  ASSUME NEW m \in Nat \ {0}, NEW x \in Nat
  PROVE  /\ x \div m \in Nat
         /\ x = m * (x \div m) + (x % m)
OBVIOUS

LEMMA DivType ==
  ASSUME NEW m \in Nat \ {0}, NEW x \in Nat
  PROVE  x \div m \in Nat /\ x % m \in Nat
OBVIOUS

LEMMA ProductNat ==
  ASSUME NEW x \in Nat, NEW y \in Nat
  PROVE  x * y \in Nat
OBVIOUS

LEMMA ProductPositive ==
  ASSUME NEW x \in Nat \ {0}, NEW y \in Nat \ {0}
  PROVE  x * y \in Nat \ {0}
OBVIOUS

\* Fewer factors, and one more of them.
LEMMA ProductMonotonic ==
  ASSUME NEW x \in Nat, NEW y \in Nat, NEW z \in Nat, x <= y
  PROVE  x * z <= y * z /\ z * x <= z * y
OBVIOUS

LEMMA ProductNext ==
  ASSUME NEW x \in Int, NEW z \in Int
  PROVE  (x + 1) * z = x * z + z
OBVIOUS

\* A number has one remainder.
LEMMA ModUnique ==
  ASSUME NEW m \in Nat \ {0}, NEW q \in Nat, NEW r \in 0 .. m - 1
  PROVE  (q * m + r) % m = r
<1> DEFINE x == q * m + r
           p == x \div m
           t == x % m
<1>1. q * m \in Nat /\ x \in Nat
  BY ProductNat
<1>2. p \in Nat /\ x = m * p + t /\ t \in 0 .. m - 1
  BY <1>1, DivNat, ModRange
<1>3. m * p = p * m
  BY <1>2
<1>4. p < q => p * m + m <= q * m
  <2>1. p < q => (p + 1) * m <= q * m
    BY <1>2, ProductMonotonic
  <2>2. (p + 1) * m = p * m + m
    BY <1>2, ProductNext
  <2> QED
    BY <2>1, <2>2
<1>5. q < p => q * m + m <= p * m
  <2>1. q < p => (q + 1) * m <= p * m
    BY <1>2, ProductMonotonic
  <2>2. (q + 1) * m = q * m + m
    BY ProductNext
  <2> QED
    BY <2>1, <2>2
<1>6. p * m \in Nat
  BY <1>2, ProductNat
<1>7. PICK u \in Nat, v \in Nat : u = q * m /\ v = p * m
  BY <1>1, <1>6
<1>8. u + r = v + t
  BY <1>2, <1>3, <1>7
<1>9. p = q
  BY <1>1, <1>2, <1>4, <1>5, <1>7, <1>8
<1>10. u = v
  BY <1>7, <1>9
<1>11. t = r
  BY <1>2, <1>7, <1>8, <1>10
<1> QED
  BY <1>11

LEMMA ProductSum ==
  ASSUME NEW x \in Nat, NEW y \in Nat, NEW z \in Nat
  PROVE  (x + y) * z = x * z + y * z
OBVIOUS

\* Steps of m: a number is reached from one of them, if what is left over at
\* a step is less than m unless it is the last one.
LEMMA StepUnique ==
  ASSUME NEW m \in Nat, NEW a \in Nat, NEW b \in Nat, NEW q \in Nat, NEW r \in Nat,
         a < b => q < m, b < a => r < m, a * m + q = b * m + r
  PROVE  a = b /\ q = r
<1> DEFINE u == a * m
           v == b * m
<1>1. u \in Nat /\ v \in Nat
  BY ProductNat
<1>2. a < b => u + m <= v
  <2>1. a < b => (a + 1) * m <= v
    BY ProductMonotonic
  <2>2. (a + 1) * m = u + m
    BY ProductNext
  <2> QED
    BY <2>1, <2>2
<1>3. b < a => v + m <= u
  <2>1. b < a => (b + 1) * m <= u
    BY ProductMonotonic
  <2>2. (b + 1) * m = v + m
    BY ProductNext
  <2> QED
    BY <2>1, <2>2
<1>4. a = b => u = v
  OBVIOUS
<1>5. u + q = v + r
  OBVIOUS
<1> HIDE DEF u, v
<1> QED
  BY <1>1, <1>2, <1>3, <1>4, <1>5

LEMMA StepExists ==
  ASSUME NEW m \in Nat \ {0}, NEW x \in Nat
  PROVE  \E q \in Nat, r \in 0 .. m - 1 : x = q * m + r
<1> DEFINE q == x \div m
           r == x % m
<1>1. q \in Nat /\ x = m * q + r /\ r \in 0 .. m - 1
  BY DivNat, ModRange
<1>2. m * q = q * m
  BY <1>1
<1> QED
  BY <1>1, <1>2

LEMMA ProductAssociates ==
  ASSUME NEW x \in Nat, NEW y \in Nat, NEW z \in Nat
  PROVE  x * y * z = x * (y * z)
OBVIOUS

LEMMA DivExact ==
  ASSUME NEW m \in Nat \ {0}, NEW q \in Nat
  PROVE  (m * q) \div m = q
OBVIOUS

\* The tag byte that is incremented is the tag of the next lap.
LEMMA ModNext ==
  ASSUME NEW m \in Nat \ {0}, NEW x \in Nat
  PROVE  ((x % m) + 1) % m = (x + 1) % m
<1> DEFINE q == x \div m
           r == x % m
<1>1. q \in Nat /\ x = m * q + r /\ r \in 0 .. m - 1
  BY DivNat, ModRange
<1>2. m * q = q * m /\ q * m \in Nat
  BY <1>1, ProductNat
<1>3. CASE r + 1 < m
  <2>1. x + 1 = q * m + (r + 1) /\ r + 1 \in 0 .. m - 1
    BY <1>1, <1>2, <1>3
  <2>2. (x + 1) % m = r + 1
    BY <1>1, <2>1, ModUnique
  <2>3. (r + 1) % m = r + 1
    BY <1>1, <2>1
  <2> QED
    BY <2>2, <2>3
<1>4. CASE r + 1 = m
  <2>1. (q + 1) * m = q * m + m
    BY <1>1, ProductNext
  <2>2. x + 1 = (q + 1) * m + 0 /\ q + 1 \in Nat /\ 0 \in 0 .. m - 1
    BY <1>1, <1>2, <1>4, <2>1
  <2>3. (x + 1) % m = 0
    BY <2>2, ModUnique
  <2>4. m % m = 0
    BY ModOnce
  <2> QED
    BY <1>4, <2>3, <2>4
<1> QED
  BY <1>1, <1>3, <1>4

\* Every set of numbers has a least one.
LEMMA NatLeast ==
  ASSUME NEW T \in SUBSET Nat, T # {}
  PROVE  \E x \in T : \A y \in T : x <= y
<1> DEFINE R == {ss \in Nat \X Nat : ss[1] < ss[2]}
<1>1. IsWellFoundedOn(OpToRel(<, Nat), Nat)
  BY NatLessThanWellFounded
<1>2. IsWellFoundedOn(R, Nat)
  BY <1>1 DEF OpToRel
<1>3. \A x, y \in Nat : x < y => <<x, y>> \in R
  OBVIOUS
<1> HIDE DEF R
<1>4. PICK x \in T : \A y \in T : ~ (<<y, x>> \in R)
  BY <1>2, WFMin
<1>5. ASSUME NEW y \in T
      PROVE  x <= y
  <2>1. x \in Nat /\ y \in Nat
    OBVIOUS
  <2>2. ~ (y < x)
    BY <2>1, <1>4, <1>3, Zenon
  <2> QED
    BY <2>1, <2>2
<1> QED
  BY <1>5

\* Induction, for a property given as the set of numbers that have it.
LEMMA SetInduction ==
  ASSUME NEW T, 0 \in T, \A n \in Nat : n \in T => n + 1 \in T
  PROVE  Nat \subseteq T
<1> DEFINE N == Nat \ T
<1> SUFFICES ASSUME N # {}
             PROVE  FALSE
  OBVIOUS
<1>1. PICK x \in N : \A y \in N : x <= y
  <2>1. N \in SUBSET Nat
    OBVIOUS
  <2> HIDE DEF N
  <2> QED
    BY <2>1, NatLeast
<1>2. x - 1 \in Nat /\ x - 1 \in T
  BY <1>1
<1> QED
  BY <1>1, <1>2
=============================================================================
