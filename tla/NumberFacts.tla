---------------------------- MODULE NumberFacts -----------------------------
(***************************************************************************)
(* What choices of the least number of a set, the alignment of addresses,  *)
(* pages and chunks, and stretches of a list rest on.                      *)
(***************************************************************************)
EXTENDS Integers, WellFoundedInduction, TLAPS

\* A set of numbers that is not empty has a least one.
LEMMA LeastOne == ASSUME NEW S \in SUBSET Nat, S # {}
                  PROVE  \E n \in S : \A m \in S : n <= m
<1> DEFINE Less == {p \in Nat \X Nat : p[1] < p[2]}
<1>1. OpToRel(<, Nat) = Less
  BY DEF OpToRel
<1>2. IsWellFoundedOn(Less, Nat)
  BY <1>1, NatLessThanWellFounded, Zenon
<1> HIDE DEF Less
<1>3. PICK n \in S : \A m \in S : <<m, n>> \notin Less
  BY <1>2, WFMin
<1>4. ASSUME NEW m \in S PROVE n <= m
  <2>1. m \in Nat /\ n \in Nat
    OBVIOUS
  <2>2. m < n => <<m, n>> \in Less
    BY <2>1 DEF Less
  <2> QED
    BY <1>3, <2>1, <2>2
<1> QED
  BY <1>4
-----------------------------------------------------------------------------
(* Multiples *)

IsMultiple(n, d) == \E k \in Nat : n = k * d

LEMMA MultipleOf == ASSUME NEW n \in Nat, NEW d \in Nat \ {0}
                    PROVE  n % d = 0 <=> IsMultiple(n, d)
<1>1. ASSUME n % d = 0 PROVE IsMultiple(n, d)
  <2>1. n = d * (n \div d) /\ n \div d \in Nat
    BY <1>1
  <2>2. d * (n \div d) = (n \div d) * d
    BY <2>1
  <2> QED
    BY <2>1, <2>2 DEF IsMultiple
<1>2. ASSUME NEW k \in Nat, n = k * d PROVE n % d = 0
  BY <1>2
<1> QED
  BY <1>1, <1>2 DEF IsMultiple

LEMMA SumOfMultiples == ASSUME NEW a \in Nat, NEW b \in Nat, NEW d \in Nat \ {0},
                               a % d = 0, b % d = 0
                        PROVE  (a + b) % d = 0
<1>1. PICK k \in Nat : a = k * d
  BY MultipleOf DEF IsMultiple
<1>2. PICK m \in Nat : b = m * d
  BY MultipleOf DEF IsMultiple
<1>3. (k + m) * d = k * d + m * d /\ k + m \in Nat
  OBVIOUS
<1> QED
  BY <1>1, <1>2, <1>3, MultipleOf DEF IsMultiple

LEMMA DifferenceOfMultiples == ASSUME NEW a \in Nat, NEW b \in Nat, NEW d \in Nat \ {0},
                                      a % d = 0, b % d = 0, b <= a
                               PROVE  (a - b) % d = 0
<1>1. PICK k \in Nat : a = k * d
  BY MultipleOf DEF IsMultiple
<1>2. PICK m \in Nat : b = m * d
  BY MultipleOf DEF IsMultiple
<1>3. m <= k
  BY <1>1, <1>2
<1>4. (k - m) * d = k * d - m * d /\ k - m \in Nat
  BY <1>3
<1> QED
  BY <1>1, <1>2, <1>4, MultipleOf DEF IsMultiple

LEMMA MultipleOfMultiple == ASSUME NEW a \in Nat, NEW b \in Nat \ {0}, NEW d \in Nat \ {0},
                                   a % b = 0, b % d = 0
                            PROVE  a % d = 0
<1>1. PICK k \in Nat : a = k * b
  BY MultipleOf DEF IsMultiple
<1>2. PICK m \in Nat : b = m * d
  BY MultipleOf DEF IsMultiple
<1>3. k * (m * d) = (k * m) * d /\ k * m \in Nat
  OBVIOUS
<1> QED
  BY <1>1, <1>2, <1>3, MultipleOf DEF IsMultiple

\* Different multiples are at least one apart.
LEMMA NextMultiple == ASSUME NEW a \in Nat, NEW b \in Nat, NEW d \in Nat \ {0},
                             a % d = 0, b % d = 0, a < b
                      PROVE  a + d <= b
<1>1. PICK k \in Nat : a = k * d
  BY MultipleOf DEF IsMultiple
<1>2. PICK m \in Nat : b = m * d
  BY MultipleOf DEF IsMultiple
<1>3. k + 1 <= m
  BY <1>1, <1>2
<1>4. (k + 1) * d <= m * d
  BY <1>3
<1>5. (k + 1) * d = k * d + d
  OBVIOUS
<1> QED
  BY <1>1, <1>2, <1>4, <1>5

-----------------------------------------------------------------------------
(* Products *)

\* Products grow with their factors.
LEMMA ProductsGrow == ASSUME NEW a \in Nat, NEW b \in Nat, NEW c \in Nat, NEW d \in Nat,
                             a <= c, b <= d
                      PROVE  a * b \in Nat /\ a * b <= c * d
<1>1. a * b \in Nat /\ c * b \in Nat /\ c * d \in Nat
  OBVIOUS
<1>2. a * b <= c * b
  <2>1. PICK k \in Nat : c = a + k
    <3>1. c - a \in Nat /\ c = a + (c - a)
      OBVIOUS
    <3> QED
      BY <3>1
  <2>2. (a + k) * b = a * b + k * b /\ k * b \in Nat
    OBVIOUS
  <2> QED
    BY <1>1, <2>1, <2>2
<1>3. c * b <= c * d
  <2>1. PICK k \in Nat : d = b + k
    <3>1. d - b \in Nat /\ d = b + (d - b)
      OBVIOUS
    <3> QED
      BY <3>1
  <2>2. c * (b + k) = c * b + c * k /\ c * k \in Nat
    OBVIOUS
  <2> QED
    BY <1>1, <2>1, <2>2
<1> QED
  BY <1>1, <1>2, <1>3

\* Stretches of the same length, one behind the other: a number is in just one.
LEMMA InOneStretch ==
    ASSUME NEW r \in Nat, NEW d \in Nat \ {0}
    PROVE  \E k \in 0 .. r : \A i \in Nat : i * d <= r /\ r < i * d + d <=> i = k
<1> DEFINE Reaching == {n \in Nat : r < n * d + d}
<1>1. r \in Reaching
  <2>1. r * 1 <= r * d /\ r * 1 = r /\ r * d \in Nat
    BY ProductsGrow
  <2> QED
    BY <2>1
<1>2. PICK k \in Reaching : \A n \in Reaching : k <= n
  <2>1. Reaching \in SUBSET Nat
    OBVIOUS
  <2> QED
    BY <1>1, <2>1, LeastOne
<1>3. k \in 0 .. r /\ k * d \in Nat /\ r < k * d + d
  BY <1>1, <1>2
<1>4. k * d <= r
  <2>1. CASE k = 0
    BY <2>1
  <2>2. CASE k # 0
    <3>1. k - 1 \in Nat /\ k - 1 \notin Reaching
      BY <1>2, <1>3, <2>2
    <3>2. (k - 1) * d + d <= r
      <4>1. (k - 1) * d \in Nat
        BY <3>1
      <4> QED
        BY <3>1, <4>1
    <3>3. (k - 1) * d + d = k * d
      BY <1>3
    <3> QED
      BY <3>2, <3>3
  <2> QED
    BY <2>1, <2>2
<1> HIDE DEF Reaching
<1>5. ASSUME NEW i \in Nat, NEW j \in Nat, i < j PROVE i * d + d <= j * d
  <2>1. (i + 1) * d <= j * d
    BY <1>5, ProductsGrow
  <2>2. (i + 1) * d = i * d + d
    OBVIOUS
  <2> QED
    BY <2>1, <2>2
<1>6. ASSUME NEW i \in Nat, i * d <= r, r < i * d + d PROVE i = k
  <2>1. i * d \in Nat /\ k \in Nat
    BY <1>3
  <2>2. i < k => i * d + d <= k * d
    BY <1>5, <2>1
  <2>3. k < i => k * d + d <= i * d
    BY <1>5, <2>1
  <2>4. ~(i < k) /\ ~(k < i)
    BY <1>3, <1>4, <1>6, <2>1, <2>2, <2>3
  <2> QED
    BY <2>1, <2>4
<1>7. \A i \in Nat : i * d <= r /\ r < i * d + d <=> i = k
  BY <1>3, <1>4, <1>6
<1> QED
  BY <1>3, <1>7
=============================================================================
