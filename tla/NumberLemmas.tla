---------------------------- MODULE NumberLemmas ----------------------------
(* What the proofs need of the natural numbers and the provers do not know.  *)
EXTENDS Naturals, WellFoundedInduction, TLAPS

(* A set of natural numbers has a least one.                                 *)
LEMMA LeastNumber ==
  ASSUME NEW S \in SUBSET Nat, S # {}
  PROVE  \E m \in S : \A n \in S : m <= n
<1> DEFINE R == OpToRel(<, Nat)
<1>1. IsWellFoundedOn(R, Nat)
  BY NatLessThanWellFounded
<1>2. \A m, n \in Nat : m < n => <<m, n>> \in R
  BY DEF OpToRel
<1> HIDE DEF R
<1>3. PICK m \in S : \A n \in S : ~(<<n, m>> \in R)
  BY <1>1, WFMin
<1>4. \A n \in S : ~(n < m)
  BY <1>2, <1>3
<1>5. m \in Nat /\ S \subseteq Nat
  OBVIOUS
<1>6. \A n \in S : m <= n
  BY <1>4, <1>5
<1> QED
  BY <1>6

(* A set of natural numbers that is bounded has a greatest one.              *)
LEMMA GreatestNumber ==
  ASSUME NEW S \in SUBSET Nat, S # {}, NEW b \in Nat, \A n \in S : n <= b
  PROVE  \E m \in S : \A n \in S : n <= m
<1> DEFINE T == {k \in Nat : b - k \in S}
<1>1. T # {}
  <2>1. PICK n \in S : TRUE
    OBVIOUS
  <2>2. b - n \in Nat /\ b - (b - n) = n
    OBVIOUS
  <2> QED
    BY <2>1, <2>2
<1>2. PICK k \in T : \A j \in T : k <= j
  <2>1. T \in SUBSET Nat
    OBVIOUS
  <2> HIDE DEF T
  <2> QED
    BY <1>1, <2>1, LeastNumber
<1>3. ASSUME NEW n \in S PROVE n <= b - k
  <2>1. n \in Nat /\ b - n \in Nat /\ b - (b - n) = n
    OBVIOUS
  <2>2. b - n \in T
    BY <2>1
  <2>3. k <= b - n /\ k \in Nat
    BY <1>2, <2>2
  <2> HIDE DEF T
  <2> QED
    BY <2>1, <2>3
<1>4. b - k \in S
  BY <1>2
<1> QED
  BY <1>3, <1>4

(* Products, a step at a time.                                               *)
LEMMA OneLess ==
  ASSUME NEW n \in Nat, NEW m \in Nat
  PROVE  /\ (n + 1) * m = n * m + m /\ n * m \in Nat
  OBVIOUS

LEMMA MoreCostsMore ==
  ASSUME NEW n \in Nat, NEW k \in Nat, n <= k, NEW m \in Nat
  PROVE  n * m <= k * m
<1>1. PICK i \in Nat : k = n + i
  BY (k - n) \in Nat, k = n + (k - n)
<1>2. (n + i) * m = n * m + i * m
  OBVIOUS
<1>3. n * m \in Nat /\ i * m \in Nat
  OBVIOUS
<1> QED
  BY <1>1, <1>2, <1>3

(* Chains of comparisons, for leaves in which much else is said.             *)
LEMMA Chains ==
  ASSUME NEW a \in Nat, NEW b \in Nat, NEW c \in Nat
  PROVE  /\ a < b /\ b < c => a < c
         /\ a < b /\ b <= c => a < c
         /\ a <= b /\ b < c => a < c
         /\ a < b => a + 1 < b + 1
         /\ a <= b => a + 1 <= b + 1
  OBVIOUS
=============================================================================
