------------------------------ MODULE Numbers ------------------------------
(***************************************************************************)
(* Facts about numbers that several proofs need and that the provers do    *)
(* not know: the least element of a set, induction with a set for the      *)
(* property, and division with remainder by a positive number, which they  *)
(* know only for numbers written out.                                      *)
(***************************************************************************)
EXTENDS Integers, FiniteSetsExt, WellFoundedInduction, TLAPS

(* A set of naturals has a least element, and Min is that element: the     *)
(* first free slot, the first zombie, the first byte of a block.           *)
LEMMA MinIsLeast ==
  ASSUME NEW S \in SUBSET Nat, S # {}
  PROVE  Min(S) \in S /\ \A y \in S : Min(S) <= y
  <1> DEFINE R == {ss \in Nat \X Nat : ss[1] < ss[2]}
  <1>1. IsWellFoundedOn(R, Nat)
    <2>1. R = OpToRel(<, Nat)
      BY DEF OpToRel
    <2> QED BY <2>1, NatLessThanWellFounded
  <1>2. PICK x \in S : \A y \in S : ~ (<< y, x >> \in R)
    <2> HIDE DEF R
    <2> QED BY <1>1, WFMin
  <1>3. ASSUME NEW y \in S PROVE x <= y
    <2>1. << y, x >> \notin R
      BY <1>2
    <2>2. x \in Nat /\ y \in Nat
      OBVIOUS
    <2>3. << y, x >>[1] = y /\ << y, x >>[2] = x
      OBVIOUS
    <2>4. ~ (y < x)
      BY <2>1, <2>2, <2>3
    <2> QED BY <2>2, <2>4
  <1> QED BY <1>3 DEF Min

LEMMA MinInSet ==
  ASSUME NEW S \in SUBSET Nat, S # {}
  PROVE  Min(S) \in S
  BY MinIsLeast

(* Min and Max of a pair, which the bounded counters of the models are.    *)
LEMMA MinOfTwo ==
  ASSUME NEW a \in Int, NEW b \in Int
  PROVE  Min({a, b}) = IF a <= b THEN a ELSE b
  <1>1. CASE a <= b
    <2>1. a \in {a, b} /\ \A y \in {a, b} : a <= y
      BY <1>1
    <2>2. \A x \in {a, b} : (\A y \in {a, b} : x <= y) => x = a
      BY <1>1
    <2> QED BY <1>1, <2>1, <2>2 DEF Min
  <1>2. CASE ~ (a <= b)
    <2>1. b \in {a, b} /\ \A y \in {a, b} : b <= y
      BY <1>2
    <2>2. \A x \in {a, b} : (\A y \in {a, b} : x <= y) => x = b
      BY <1>2
    <2> QED BY <1>2, <2>1, <2>2 DEF Min
  <1> QED BY <1>1, <1>2

LEMMA MaxOfTwo ==
  ASSUME NEW a \in Int, NEW b \in Int
  PROVE  Max({a, b}) = IF a <= b THEN b ELSE a
  <1>1. CASE a <= b
    <2>1. b \in {a, b} /\ \A y \in {a, b} : y <= b
      BY <1>1
    <2>2. \A x \in {a, b} : (\A y \in {a, b} : y <= x) => x = b
      BY <1>1
    <2> QED BY <1>1, <2>1, <2>2 DEF Max
  <1>2. CASE ~ (a <= b)
    <2>1. a \in {a, b} /\ \A y \in {a, b} : y <= a
      BY <1>2
    <2>2. \A x \in {a, b} : (\A y \in {a, b} : y <= x) => x = a
      BY <1>2
    <2> QED BY <1>2, <2>1, <2>2 DEF Max
  <1> QED BY <1>1, <1>2

(* What holds of 0 and, with a number, of the next, holds of all naturals. *)
LEMMA SetInduction ==
  ASSUME NEW S \in SUBSET Nat, 0 \in S, \A n \in S : n + 1 \in S
  PROVE  S = Nat
  <1> SUFFICES ASSUME Nat \ S # {} PROVE FALSE
    OBVIOUS
  <1> DEFINE T == Nat \ S
  <1>1. PICK m \in T : \A y \in T : m <= y
    <2>1. T \in SUBSET Nat /\ T # {}
      OBVIOUS
    <2> HIDE DEF T
    <2> QED BY <2>1, MinIsLeast
  <1>2. m # 0 /\ m \in Nat
    OBVIOUS
  <1>3. m - 1 \in Nat /\ ~ (m <= m - 1)
    BY <1>2
  <1>4. m - 1 \in S
    BY <1>1, <1>3
  <1>5. (m - 1) + 1 = m
    BY <1>2
  <1> QED BY <1>4, <1>5

---------------------------------------------------------------------------
(* Division with remainder. *)

(* The remainder of what is less than twice the divisor.                   *)
LEMMA Wrap ==
  ASSUME NEW n \in Nat \ {0}, NEW a \in 0 .. n - 1, NEW b \in 0 .. n
  PROVE  (a + b) % n = IF a + b < n THEN a + b ELSE a + b - n
  OBVIOUS

(* Multiples of d other than 0 are at least d away from 0.                 *)
LEMMA Product ==
  ASSUME NEW d \in Nat \ {0}, NEW k \in Int
  PROVE  /\ d * k \in Int
         /\ k >= 1 => d * k >= d
         /\ k <= -1 => d * k <= 0 - d
         /\ k = 0 => d * k = 0
  OBVIOUS

LEMMA Distribute ==
  ASSUME NEW d \in Int, NEW k \in Int, NEW m \in Int
  PROVE  d * k - d * m = d * (k - m) /\ d * k + d * m = d * (k + m)
  OBVIOUS

(* Quotient and remainder are what they should be.                         *)
LEMMA Divide ==
  ASSUME NEW d \in Nat \ {0}, NEW x \in Int
  PROVE  /\ x % d \in 0 .. d - 1 /\ x \div d \in Int
         /\ x = d * (x \div d) + (x % d)
  <1>1. x % d \in 0 .. d - 1 /\ x \div d \in Int
    OBVIOUS
  <1>2. x = d * (x \div d) + (x % d)
    BY Z3T(60)
  <1> QED BY <1>1, <1>2

(* Numbers that differ by less than the divisor have different remainders. *)
LEMMA Apart ==
  ASSUME NEW d \in Nat \ {0}, NEW j \in Int, NEW k \in Int,
         NEW r \in Int, NEW s \in Int,
         d * j + r = d * k + s, r - s < d, s - r < d
  PROVE  r = s /\ j = k
  <1>1. d * j \in Int /\ d * k \in Int /\ j - k \in Int
    BY Product
  <1>2. d * (j - k) = s - r
    BY <1>1, Distribute
  <1>3. j - k = 0
    BY <1>1, <1>2, Product
  <1> QED BY <1>1, <1>2, <1>3, Product

(* A remainder is told by its place below the divisor.                     *)
LEMMA Remainder ==
  ASSUME NEW d \in Nat \ {0}, NEW k \in Int, NEW r \in 0 .. d - 1
  PROVE  (d * k + r) % d = r
  <1> DEFINE x == d * k + r
             j == x \div d
             s == x % d
  <1>1. x \in Int
    BY Product
  <1> HIDE DEF x
  <1>2. s \in 0 .. d - 1 /\ j \in Int /\ x = d * j + s
    BY <1>1, Divide
  <1>3. x = d * k + r
    BY DEF x
  <1> HIDE DEF j, s
  <1>4. s \in Int /\ r \in Int /\ r - s < d /\ s - r < d
    BY <1>2
  <1>5. d * j + s = d * k + r
    BY <1>2, <1>3
  <1>6. s = r
    BY <1>2, <1>4, <1>5, Apart
  <1> QED BY <1>6 DEF s, x

(* Adding a multiple of the divisor does not change the remainder.         *)
LEMMA RemainderMoves ==
  ASSUME NEW d \in Nat \ {0}, NEW k \in Int, NEW x \in Int
  PROVE  (x + d * k) % d = x % d
  <1> DEFINE j == x \div d
             s == x % d
  <1>1. s \in 0 .. d - 1 /\ j \in Int /\ x = d * j + s
    BY Divide
  <1> HIDE DEF j, s
  <1>2. d * j \in Int /\ d * k \in Int /\ d * j + d * k = d * (j + k) /\ j + k \in Int
    BY <1>1, Product, Distribute
  <1>3. x + d * k = d * (j + k) + s
    BY <1>1, <1>2
  <1>4. (d * (j + k) + s) % d = s
    BY <1>1, <1>2, Remainder
  <1> QED BY <1>3, <1>4 DEF s

LEMMA RemaindersDiffer ==
  ASSUME NEW d \in Nat \ {0}, NEW a \in Int, NEW b \in Int, a < b, b < a + d
  PROVE  a % d # b % d
  <1> SUFFICES ASSUME a % d = b % d PROVE FALSE
    OBVIOUS
  <1> DEFINE j == a \div d
             k == b \div d
             s == a % d
  <1>1. s \in 0 .. d - 1 /\ j \in Int /\ a = d * j + s
    BY Divide
  <1>2. k \in Int /\ b = d * k + s
    BY Divide
  <1> HIDE DEF j, k, s
  <1>3. d * j \in Int /\ d * k \in Int
    BY <1>1, <1>2, Product
  <1>4. d * k - d * j = b - a
    BY <1>1, <1>2, <1>3
  <1>5. d * (k - j) = b - a /\ k - j \in Int
    BY <1>1, <1>2, <1>4, Distribute
  <1>6. k - j # 0 /\ ~ (k - j >= 1) /\ ~ (k - j <= -1)
    BY <1>5, Product
  <1> QED BY <1>5, <1>6
=============================================================================
