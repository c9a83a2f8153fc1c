---------------------------- MODULE ValueProofs ----------------------------
(***************************************************************************)
(* Proofs about the two conversions of values, JsonVals and Codec, for     *)
(* every width, every nesting, any JSON and any bytes.  The library's      *)
(* induction theorems take a predicate, which the provers cannot           *)
(* instantiate; here induction is over the set of numbers that have the    *)
(* property, from the well-foundedness of < on Nat, and a recursive        *)
(* function is shown to satisfy its definition by gluing together what it  *)
(* is on arguments of bounded depth.  First come numbers, then what the    *)
(* recursive functions are, then JsonVals, then Codec.                     *)
(***************************************************************************)
EXTENDS Codec, JsonVals, FiniteSetTheorems, SequenceTheorems, WellFoundedInduction, TLAPS

-----------------------------------------------------------------------------
(* Induction.                                                              *)

(* A set of numbers that is not empty has a least element.                 *)
LEMMA LeastNat ==
  ASSUME NEW T \in SUBSET Nat, T # {}
  PROVE  \E n \in T : \A m \in T : n <= m
<1> DEFINE R == {ss \in Nat \X Nat : ss[1] < ss[2]}
<1>1. IsWellFoundedOn(R, Nat)
  BY NatLessThanWellFounded DEF OpToRel
<1>2. PICK n \in T : \A m \in T : ~ (<<m, n>> \in R)
  <2> HIDE DEF R
  <2> QED
    BY <1>1, WFMin
<1>3. ASSUME NEW m \in T
      PROVE  n <= m
  <2>1. m \in Nat /\ n \in Nat /\ ~ (<<m, n>> \in R)
    BY <1>2
  <2>2. ~ (m < n)
    BY <2>1
  <2> QED
    BY <2>1, <2>2
<1> QED
  BY <1>3

(* From all smaller numbers to a number.                                   *)
LEMMA Induction ==
  ASSUME NEW S, \A n \in Nat : (\A m \in Nat : m < n => m \in S) => n \in S
  PROVE  \A n \in Nat : n \in S
<1> SUFFICES ASSUME {n \in Nat : n \notin S} # {}
             PROVE  FALSE
  OBVIOUS
<1>1. PICK n \in {i \in Nat : i \notin S} : \A m \in {i \in Nat : i \notin S} : n <= m
  BY LeastNat
<1>2. ASSUME NEW m \in Nat, m < n
      PROVE  m \in S
  BY <1>1, <1>2
<1> QED
  BY <1>1, <1>2

(* From a number to the next one.                                          *)
LEMMA StepInduction ==
  ASSUME NEW S, 0 \in S, \A n \in Nat : n \in S => n + 1 \in S
  PROVE  \A n \in Nat : n \in S
<1>1. ASSUME NEW n \in Nat, \A m \in Nat : m < n => m \in S
      PROVE  n \in S
  <2>1. CASE n = 0
    BY <2>1
  <2>2. CASE n # 0
    <3>1. n - 1 \in Nat /\ n - 1 < n /\ (n - 1) + 1 = n
      BY <2>2
    <3> QED
      BY <1>1, <3>1
  <2> QED
    BY <2>1, <2>2
<1> QED
  BY <1>1, Induction

-----------------------------------------------------------------------------
(* Powers of two and division.  What is known of 2^n is that a set of n    *)
(* elements has as many subsets.                                           *)

(* The powers of two are natural numbers.                                  *)
LEMMA PowNat == \A n \in Nat : 2^n \in Nat
<1> SUFFICES ASSUME NEW n \in Nat
             PROVE  2^n \in Nat
  OBVIOUS
<1>1. IsFiniteSet(1..n) /\ Cardinality(1..n) = n
  BY FS_Interval
<1>2. IsFiniteSet(SUBSET (1..n)) /\ Cardinality(SUBSET (1..n)) = 2^n
  BY <1>1, FS_SUBSET
<1> QED
  BY <1>2, FS_CardinalityType

(* Each is twice the one before.                                           *)
LEMMA PowSucc == \A n \in Nat : 2^(n + 1) = 2 * 2^n
<1> SUFFICES ASSUME NEW n \in Nat
             PROVE  2^(n + 1) = 2 * 2^n
  OBVIOUS
<1> DEFINE A == SUBSET (1..n)
           B == {X \in SUBSET (1..(n+1)) : n + 1 \in X}
<1>1. /\ IsFiniteSet(1..n) /\ Cardinality(1..n) = n
      /\ IsFiniteSet(1..(n+1)) /\ Cardinality(1..(n+1)) = n + 1
  BY FS_Interval
<1>2. /\ IsFiniteSet(A) /\ Cardinality(A) = 2^n
      /\ IsFiniteSet(SUBSET (1..(n+1))) /\ Cardinality(SUBSET (1..(n+1))) = 2^(n+1)
  BY <1>1, FS_SUBSET
<1>3. A \cup B = SUBSET (1..(n+1)) /\ A \cap B = {}
  OBVIOUS
<1>4. IsFiniteSet(B) /\ Cardinality(B) = Cardinality(A)
  <2> DEFINE f == [X \in A |-> X \cup {n + 1}]
  <2>1. f \in [A -> B]
    OBVIOUS
  <2>2. \A X, Y \in A : f[X] = f[Y] => X = Y
    OBVIOUS
  <2>3. ASSUME NEW Y \in B
        PROVE  \E X \in A : f[X] = Y
    <3>1. Y \ {n + 1} \in A /\ f[Y \ {n + 1}] = Y
      OBVIOUS
    <3> QED
      BY <3>1
  <2>4. f \in Bijection(A, B)
    <3> HIDE DEF f, A, B
    <3> QED
      BY <2>1, <2>2, <2>3 DEF Bijection, Injection, Surjection, IsInjective
  <2> HIDE DEF f, A, B
  <2>5. ExistsBijection(A, B)
    BY <2>4 DEF ExistsBijection
  <2> QED
    BY <2>5, <1>2, FS_Bijection
<1>5. Cardinality(A \cup B) = Cardinality(A) + Cardinality(B) - Cardinality(A \cap B)
  <2> HIDE DEF A, B
  <2> QED
    BY <1>2, <1>4, FS_Union
<1>6. 2^n \in Nat /\ 2^(n + 1) \in Nat /\ Cardinality({}) = 0
  BY PowNat, FS_EmptySet
<1>7. 2^(n + 1) = 2^n + 2^n - 0
  <2> HIDE DEF A, B
  <2> QED
    BY <1>2, <1>3, <1>4, <1>5, <1>6
<1> QED
  BY <1>6, <1>7

(* None is zero.                                                           *)
LEMMA PowPositive == \A n \in Nat : 2^n \in Nat /\ 2^n >= 1
<1> DEFINE S == {n \in Nat : 2^n >= 1}
<1>1. 0 \in S
  OBVIOUS
<1>2. ASSUME NEW n \in Nat, n \in S
      PROVE  n + 1 \in S
  <2>1. 2^n \in Nat /\ 2^(n + 1) = 2 * 2^n
    BY PowNat, PowSucc
  <2> QED
    BY <1>2, <2>1
<1>3. \A n \in Nat : n \in S
  <2> HIDE DEF S
  <2> QED
    BY <1>1, <1>2, StepInduction
<1> QED
  BY <1>3, PowNat

(* Exponents add up.                                                       *)
LEMMA PowAdd == \A m, n \in Nat : 2^(m + n) = 2^m * 2^n
<1> SUFFICES ASSUME NEW m \in Nat
             PROVE  \A n \in Nat : 2^(m + n) = 2^m * 2^n
  OBVIOUS
<1> DEFINE S == {n \in Nat : 2^(m + n) = 2^m * 2^n}
<1>1. 0 \in S
  <2>1. 2^m \in Nat /\ m + 0 = m /\ 2^0 = 1
    BY PowNat
  <2> QED
    BY <2>1
<1>2. ASSUME NEW n \in Nat, n \in S
      PROVE  n + 1 \in S
  <2>1. m + n \in Nat /\ m + (n + 1) = (m + n) + 1
    OBVIOUS
  <2>2. /\ 2^m \in Nat /\ 2^n \in Nat /\ 2^(m + n) \in Nat
        /\ 2^(n + 1) = 2 * 2^n /\ 2^(m + (n + 1)) = 2 * 2^(m + n)
    BY <2>1, PowNat, PowSucc
  <2>3. 2 * (2^m * 2^n) = 2^m * (2 * 2^n)
    BY <2>2
  <2> QED
    BY <1>2, <2>2, <2>3
<1>3. \A n \in Nat : n \in S
  <2> HIDE DEF S
  <2> QED
    BY <1>1, <1>2, StepInduction
<1> QED
  BY <1>3

(* A larger exponent gives no smaller power,                               *)
LEMMA PowMono == \A m, n \in Nat : m <= n => 2^m <= 2^n
<1> SUFFICES ASSUME NEW m \in Nat, NEW n \in Nat, m <= n
             PROVE  2^m <= 2^n
  OBVIOUS
<1>1. n - m \in Nat /\ n = m + (n - m)
  OBVIOUS
<1>2. 2^n = 2^m * 2^(n - m)
  BY <1>1, PowAdd
<1>3. /\ 2^m \in Nat /\ 2^(n - m) \in Nat
      /\ 2^m >= 1 /\ 2^(n - m) >= 1
  BY <1>1, PowPositive
<1>4. \A a, b \in Nat : b >= 1 => a <= a * b
  OBVIOUS
<1> QED
  BY <1>2, <1>3, <1>4

(* and a different one a larger power.                                     *)
LEMMA PowStrict == \A m, n \in Nat : m < n => 2^m < 2^n
<1> SUFFICES ASSUME NEW m \in Nat, NEW n \in Nat, m < n
             PROVE  2^m < 2^n
  OBVIOUS
<1>1. 2^(m + 1) <= 2^n /\ 2^(m + 1) = 2 * 2^m
  BY PowMono, PowSucc
<1>2. 2^m \in Nat /\ 2^m >= 1 /\ 2^n \in Nat
  BY PowPositive
<1> QED
  BY <1>1, <1>2

(* Quotient and remainder.                                                 *)
LEMMA Division ==
  ASSUME NEW a \in Int, NEW b \in Nat, b > 0
  PROVE  a = b * (a \div b) + (a % b) /\ a \div b \in Int /\ a % b \in 0..(b - 1)
  OBVIOUS

(* Quotient and remainder are the only ones.                               *)
LEMMA DivisionUnique ==
  ASSUME NEW a \in Int, NEW b \in Nat, b > 0, NEW q \in Int, NEW r \in 0..(b - 1),
         a = b * q + r
  PROVE  a % b = r /\ a \div b = q
<1> DEFINE x == a \div b
           y == a % b
<1>1. a = b * x + y /\ x \in Int /\ y \in 0..(b - 1)
  BY Division
<1> HIDE DEF x, y
<1>2. b * (x - q) = r - y
  BY <1>1
<1>3. CASE x - q >= 1
  <2>1. b * (x - q) >= b
    BY <1>1, <1>3
  <2> QED
    BY <1>1, <1>2, <2>1
<1>4. CASE x - q <= -1
  <2>1. b * (x - q) <= -b
    BY <1>1, <1>4
  <2> QED
    BY <1>1, <1>2, <2>1
<1>5. CASE x - q = 0
  BY <1>1, <1>5 DEF x, y
<1> QED
  BY <1>1, <1>3, <1>4, <1>5

-----------------------------------------------------------------------------
(* Numbers.                                                                *)

(* The bounds of an integer kind.                                          *)
LEMMA KindFacts ==
  ASSUME NEW k \in IntKinds
  PROVE  /\ Width[k] \in Nat \ {0}
         /\ 2^Width[k] \in Nat /\ 2^(Width[k] - 1) \in Nat
         /\ 2^(Width[k] - 1) >= 1 /\ 2^Width[k] = 2 * 2^(Width[k] - 1)
         /\ Low(k) \in Int /\ High(k) \in Int /\ Low(k) <= 0 /\ 0 <= High(k)
<1>1. Width[k] \in Nat \ {0}
  BY WidthAssumption
<1>2. Width[k] - 1 \in Nat /\ (Width[k] - 1) + 1 = Width[k]
  BY <1>1
<1>3. /\ 2^Width[k] \in Nat /\ 2^(Width[k] - 1) \in Nat
      /\ 2^(Width[k] - 1) >= 1 /\ 2^Width[k] = 2 * 2^(Width[k] - 1)
  BY <1>1, <1>2, PowPositive, PowSucc
<1> QED
  BY <1>1, <1>3 DEF Low, High

(* Any number is brought to the width.                                     *)
LEMMA CastFits ==
  ASSUME NEW k \in IntKinds, NEW n \in Int
  PROVE  Cast(n, k) \in Low(k)..High(k)
<1> DEFINE b == 2^Width[k]
           c == 2^(Width[k] - 1)
           m == n % b
<1>1. b \in Nat /\ c \in Nat /\ c >= 1 /\ b = 2 * c
  BY KindFacts
<1>2. m \in 0..(b - 1)
  <2> HIDE DEF b, c
  <2> QED
    BY <1>1, Division
<1>3. CASE k \in SignedKinds
  <2>1. Low(k) = -c /\ High(k) = c - 1 /\ Cast(n, k) = IF m > c - 1 THEN m - b ELSE m
    BY <1>3 DEF Low, High, Cast
  <2> HIDE DEF b, c, m
  <2> QED
    BY <1>1, <1>2, <2>1
<1>4. CASE k \notin SignedKinds
  <2>1. Low(k) = 0 /\ High(k) = b - 1 /\ Cast(n, k) = m
    BY <1>4 DEF Low, High, Cast
  <2> HIDE DEF b, c, m
  <2> QED
    BY <1>1, <1>2, <2>1
<1> QED
  BY <1>3, <1>4

(* A number that has the width stays what it is.                           *)
LEMMA CastSame ==
  ASSUME NEW k \in IntKinds, NEW n \in Low(k)..High(k)
  PROVE  Cast(n, k) = n
<1> DEFINE b == 2^Width[k]
           c == 2^(Width[k] - 1)
           m == n % b
<1>1. b \in Nat /\ c \in Nat /\ c >= 1 /\ b = 2 * c
  BY KindFacts
<1>2. n \in Int
  BY KindFacts
<1>3. CASE k \in SignedKinds
  <2>1. Low(k) = -c /\ High(k) = c - 1 /\ Cast(n, k) = IF m > c - 1 THEN m - b ELSE m
    BY <1>3 DEF Low, High, Cast
  <2>2. n \in (-c)..(c - 1)
    BY <2>1
  <2> HIDE DEF b, c
  <2>3. CASE n >= 0
    <3>1. m = n
      <4>1. n \in 0..(b - 1) /\ n = b * 0 + n
        BY <1>1, <2>2, <2>3
      <4> QED
        BY <1>1, <1>2, <4>1, DivisionUnique
    <3> HIDE DEF m
    <3> QED
      BY <1>1, <2>1, <2>2, <3>1
  <2>4. CASE n < 0
    <3>1. m = n + b
      <4>1. n + b \in 0..(b - 1) /\ n = b * (-1) + (n + b)
        BY <1>1, <2>2, <2>4
      <4> QED
        BY <1>1, <1>2, <4>1, DivisionUnique
    <3> HIDE DEF m
    <3> QED
      BY <1>1, <2>1, <2>2, <2>4, <3>1
  <2> QED
    BY <1>2, <2>3, <2>4
<1>4. CASE k \notin SignedKinds
  <2>1. Low(k) = 0 /\ High(k) = b - 1 /\ Cast(n, k) = m
    BY <1>4 DEF Low, High, Cast
  <2>2. n \in 0..(b - 1)
    BY <2>1
  <2> HIDE DEF b, c
  <2>3. n = b * 0 + n
    BY <1>1, <1>2
  <2> QED
    BY <1>1, <1>2, <2>1, <2>2, <2>3, DivisionUnique
<1> QED
  BY <1>3, <1>4

(* The spacing of the doubles around a number.                             *)
Above(a) == {k \in 0..Width["u64"] : 2^(Safe + k + 1) < a}

(* It is a power of two.                                                   *)
LEMMA SpacingFacts ==
  ASSUME NEW a
  PROVE  /\ IsFiniteSet(Above(a)) /\ Cardinality(Above(a)) \in Nat
         /\ 2^Cardinality(Above(a)) \in Nat /\ 2^Cardinality(Above(a)) >= 1
<1>1. IsFiniteSet(0..Width["u64"])
  BY FS_Interval, WidthAssumption DEF IntKinds, UnsignedKinds
<1>2. IsFiniteSet(Above(a))
  BY <1>1, FS_Subset DEF Above
<1> QED
  BY <1>2, FS_CardinalityType, PowPositive

(* What a double makes of a number is a number.                            *)
LEMMA DoubleIsInt ==
  ASSUME NEW h \in Int
  PROVE  Double(h) \in Int
<1> DEFINE a == IF h < 0 THEN -h ELSE h
           s == 2^Cardinality(Above(a))
           q == a \div (2 * s)
           up == a % (2 * s) > s \/ (a % (2 * s) = s /\ q % 2 = 1)
           r == 2 * s * (IF up THEN q + 1 ELSE q)
<1>1. Double(h) = IF s = 1 THEN h ELSE IF h < 0 THEN -r ELSE r
  BY DEF Double, Above
<1>2. a \in Nat /\ s \in Nat /\ s >= 1
  BY SpacingFacts
<1>3. q \in Int
  <2> HIDE DEF a, s
  <2> QED
    BY <1>2, Division
<1>4. r \in Int
  <2> HIDE DEF a, s, q, up
  <2> QED
    BY <1>2, <1>3
<1> HIDE DEF a, s, q, up, r
<1> QED
  BY <1>1, <1>4

(* Double without the sign.                                                *)
LEMMA DoubleOfNat ==
  ASSUME NEW a \in Int, a >= 0
  PROVE  LET s == 2^Cardinality(Above(a))
             q == a \div (2 * s)
             m == a % (2 * s)
         IN Double(a) = IF s = 1 THEN a
                        ELSE 2 * s * (IF m > s \/ (m = s /\ q % 2 = 1) THEN q + 1 ELSE q)
<1> DEFINE b == IF a < 0 THEN -a ELSE a
           s == 2^Cardinality(Above(b))
           q == b \div (2 * s)
           m == b % (2 * s)
<1>1. b = a
  OBVIOUS
<1>2. Double(a) = IF s = 1 THEN a
                  ELSE IF a < 0 THEN -(2 * s * (IF m > s \/ (m = s /\ q % 2 = 1) THEN q + 1 ELSE q))
                       ELSE 2 * s * (IF m > s \/ (m = s /\ q % 2 = 1) THEN q + 1 ELSE q)
  BY DEF Double, Above
<1> HIDE DEF b
<1> QED
  BY <1>1, <1>2

(* Half-integers up to 2^Safe are doubles.                                 *)
LEMMA DoubleExact ==
  ASSUME NEW h \in Int, -(2^(Safe + 1)) <= h, h <= 2^(Safe + 1)
  PROVE  Double(h) = h
<1> DEFINE a == IF h < 0 THEN -h ELSE h
<1>1. Safe \in Nat /\ Width["u64"] \in Nat
  BY WidthAssumption DEF IntKinds, UnsignedKinds
<1>2. a \in Nat /\ a <= 2^(Safe + 1) /\ 2^(Safe + 1) \in Nat
  BY <1>1, PowNat
<1>3. ASSUME NEW k \in Above(a)
      PROVE  FALSE
  <2>1. k \in Nat /\ 2^(Safe + k + 1) < a
    BY <1>1, <1>3 DEF Above
  <2>2. Safe + 1 \in Nat /\ Safe + k + 1 \in Nat /\ Safe + 1 <= Safe + k + 1
    BY <1>1, <2>1
  <2>3. 2^(Safe + 1) <= 2^(Safe + k + 1) /\ 2^(Safe + k + 1) \in Nat
    BY <2>2, PowMono, PowNat
  <2> HIDE DEF a
  <2> QED
    BY <1>2, <2>1, <2>3
<1>4. Above(a) = {}
  BY <1>3
<1>5. Cardinality(Above(a)) = 0
  BY <1>4, FS_EmptySet
<1>6. 2^Cardinality(Above(a)) = 1
  <2> HIDE DEF a
  <2> QED
    BY <1>5
<1> QED
  BY <1>6 DEF Double, Above

(* The last integer of a width beyond Safe goes to the power of two behind *)
(* it.                                                                     *)
LEMMA DoubleLast ==
  ASSUME NEW w \in Nat, Safe < w, w <= Width["u64"]
  PROVE  Double(2 * (2^w - 1)) = 2^(w + 1)
<1> DEFINE a == 2 * (2^w - 1)
           d == w - Safe
           s == 2^d
           p == 2^Safe
<1>1. Safe \in Nat /\ Safe >= 1 /\ Width["u64"] \in Nat /\ d \in Nat /\ d >= 1
  BY WidthAssumption DEF IntKinds, UnsignedKinds
<1>2. 2^w \in Nat /\ 2^(w + 1) \in Nat /\ 2^(w + 1) = 2 * 2^w /\ 2^w >= 4
  <2>1. w - 1 \in Nat /\ w - 2 \in Nat /\ (w - 1) + 1 = w /\ (w - 2) + 1 = w - 1
    BY <1>1
  <2>2. 2^w = 2 * 2^(w - 1) /\ 2^(w - 1) = 2 * 2^(w - 2) /\ 2^(w + 1) = 2 * 2^w
    BY <2>1, PowSucc
  <2>3. 2^(w - 2) \in Nat /\ 2^(w - 2) >= 1
    BY <2>1, PowPositive
  <2> QED
    BY <2>2, <2>3
<1>3. Above(a) = 0..(d - 1)
  <2>1. ASSUME NEW k \in 0..(d - 1)
        PROVE  k \in Above(a)
    <3>1. k \in 0..Width["u64"] /\ Safe + k + 1 \in Nat /\ Safe + k + 1 <= w
      BY <1>1, <2>1
    <3>2. 2^(Safe + k + 1) <= 2^w /\ 2^(Safe + k + 1) \in Nat
      BY <3>1, PowMono, PowNat
    <3> QED
      BY <1>2, <3>1, <3>2 DEF Above
  <2>2. ASSUME NEW k \in Above(a), k \notin 0..(d - 1)
        PROVE  FALSE
    <3>1. k \in Nat /\ 2^(Safe + k + 1) < a
      BY <1>1, <2>2 DEF Above
    <3>2. Safe + k + 1 \in Nat /\ w + 1 <= Safe + k + 1
      BY <1>1, <2>2, <3>1
    <3>3. 2^(w + 1) <= 2^(Safe + k + 1) /\ 2^(Safe + k + 1) \in Nat
      BY <3>2, PowMono, PowNat
    <3> QED
      BY <1>2, <3>1, <3>3
  <2> QED
    BY <2>1, <2>2
<1>4. Cardinality(Above(a)) = d
  BY <1>1, <1>3, FS_Interval
<1>5. s \in Nat /\ s >= 2 /\ p \in Nat /\ p >= 1 /\ p % 2 = 0
  <2>1. d - 1 \in Nat /\ Safe - 1 \in Nat /\ (d - 1) + 1 = d /\ (Safe - 1) + 1 = Safe
    BY <1>1
  <2>2. s = 2 * 2^(d - 1) /\ p = 2 * 2^(Safe - 1)
    BY <2>1, PowSucc
  <2>3. 2^(d - 1) \in Nat /\ 2^(d - 1) >= 1 /\ 2^(Safe - 1) \in Nat /\ 2^(Safe - 1) >= 1
    BY <2>1, PowPositive
  <2> QED
    BY <2>2, <2>3
<1>6. 2^(w + 1) = 2 * (p * s)
  <2>1. w = Safe + d
    BY <1>1
  <2>2. 2^w = p * s
    BY <1>1, <2>1, PowAdd
  <2> QED
    BY <1>2, <2>2
<1>7. a \in Int /\ a >= 0 /\ a = (2 * s) * (p - 1) + (2 * s - 2)
  <2>1. a = 2 * (p * s) - 2
    BY <1>2, <1>6
  <2> HIDE DEF a, s, p, d
  <2>2. 2 * (p * s) \in Int /\ (2 * s) * (p - 1) = 2 * (p * s) - 2 * s
    BY <1>5
  <2>3. a >= 0
    BY <1>2 DEF a
  <2> QED
    BY <1>5, <2>1, <2>2, <2>3
<1> DEFINE q == a \div (2 * s)
           m == a % (2 * s)
           up == m > s \/ (m = s /\ q % 2 = 1)
<1>8. q = p - 1 /\ m = 2 * s - 2
  <2> HIDE DEF a, s, p, d
  <2>1. 2 * s \in Nat /\ 2 * s > 0 /\ p - 1 \in Int /\ 2 * s - 2 \in 0..(2 * s - 1)
    BY <1>5
  <2> QED
    BY <1>7, <2>1, DivisionUnique
<1>9. up
  <2> HIDE DEF a, s, p, d, q, m
  <2>1. (p - 1) % 2 = 1
    BY <1>5
  <2>2. CASE s = 2
    BY <1>8, <2>1, <2>2
  <2>3. CASE s # 2
    BY <1>5, <1>8, <2>3
  <2> QED
    BY <2>2, <2>3
<1>10. Double(a) = 2 * s * (q + 1)
  <2>1. Double(a) = IF s = 1 THEN a ELSE 2 * s * (IF up THEN q + 1 ELSE q)
    <3> HIDE DEF a
    <3>1. a \in Int /\ a >= 0
      BY <1>7
    <3> QED
      BY <3>1, <1>4, DoubleOfNat
  <2> HIDE DEF a, s, p, d, q, m, up
  <2> QED
    BY <1>5, <1>9, <2>1
<1> HIDE DEF a, s, p, d, q, m, up
<1>11. 2 * s * (q + 1) = 2 * (p * s)
  BY <1>5, <1>8
<1> QED
  BY <1>6, <1>10, <1>11 DEF a

(* Halves are dropped towards zero.                                        *)
LEMMA TruncatedFacts ==
  /\ \A h \in Int : Truncated(h) \in Int
  /\ \A n \in Int : Truncated(2 * n) = n
<1>1. \A h \in Int : Truncated(h) \in Int
  BY DEF Truncated
<1>2. \A n \in Int : Truncated(2 * n) = n
  BY DEF Truncated
<1> QED
  BY <1>1, <1>2

(* A number of any size is brought into the 64-bit type of its sign.       *)
LEMMA AsIntegerIsInt ==
  ASSUME NEW k \in IntKinds, NEW h \in Int
  PROVE  AsInteger(h, k) \in Int
<1>1. "s64" \in IntKinds /\ "u64" \in IntKinds
  BY DEF IntKinds, SignedKinds, UnsignedKinds
<1>2. ASSUME NEW w \in IntKinds
      PROVE  Saturated(Truncated(h), w) \in Int
  BY KindFacts, TruncatedFacts DEF Saturated
<1> QED
  BY <1>1, <1>2 DEF AsInteger

(* Whatever number arrives, the guest gets one of the kind.                *)
LEMMA IntFits ==
  ASSUME NEW k \in IntKinds, NEW h \in Int
  PROVE  Cast(AsInteger(Double(h), k), k) \in Low(k)..High(k)
  BY DoubleIsInt, AsIntegerIsInt, CastFits

(* No kind is wider than the 64-bit one of its sign.                       *)
LEMMA WithinWidest ==
  ASSUME NEW k \in IntKinds
  PROVE  LET w == IF k \in SignedKinds THEN "s64" ELSE "u64"
         IN /\ w \in IntKinds /\ w \in SignedKinds <=> k \in SignedKinds
            /\ Low(w) <= Low(k) /\ High(k) <= High(w)
            /\ High(k) <= High("u64")
<1> DEFINE w == IF k \in SignedKinds THEN "s64" ELSE "u64"
<1>1. w \in IntKinds /\ (w \in SignedKinds <=> k \in SignedKinds) /\ "u64" \in IntKinds
      /\ "u64" \notin SignedKinds
  BY DEF IntKinds, SignedKinds, UnsignedKinds
<1>2. Width[k] <= Width[w] /\ Width[w] = Width["u64"]
  BY WidthAssumption DEF IntKinds, SignedKinds, UnsignedKinds
<1>3. /\ Width[k] \in Nat \ {0} /\ Width[w] \in Nat \ {0}
      /\ Width[k] - 1 \in Nat /\ Width[w] - 1 \in Nat
      /\ Width[k] - 1 <= Width[w] - 1
  <2> HIDE DEF w
  <2> QED
    BY <1>1, <1>2, KindFacts
<1>4. 2^Width[k] <= 2^Width[w] /\ 2^(Width[k] - 1) <= 2^(Width[w] - 1)
  <2> HIDE DEF w
  <2> QED
    BY <1>2, <1>3, PowMono
<1>5. /\ 2^Width[k] \in Nat /\ 2^(Width[k] - 1) \in Nat /\ 2^(Width[k] - 1) >= 1
      /\ 2^Width[k] = 2 * 2^(Width[k] - 1)
      /\ 2^Width[w] \in Nat /\ 2^(Width[w] - 1) \in Nat
  <2> HIDE DEF w
  <2> QED
    BY <1>1, KindFacts
<1>6. Low(w) <= Low(k) /\ High(k) <= High(w)
  <2>1. CASE k \in SignedKinds
    <3>1. w \in SignedKinds
      BY <1>1, <2>1
    <3> HIDE DEF w
    <3> QED
      BY <1>4, <1>5, <2>1, <3>1 DEF Low, High
  <2>2. CASE k \notin SignedKinds
    <3>1. w \notin SignedKinds
      BY <1>1, <2>2
    <3> HIDE DEF w
    <3> QED
      BY <1>4, <1>5, <2>2, <3>1 DEF Low, High
  <2> QED
    BY <2>1, <2>2
<1>7. High(k) <= High("u64")
  <2>1. High(k) <= 2^Width[k] - 1 /\ High(k) \in Int
    BY <1>5, KindFacts DEF High
  <2>2. High("u64") = 2^Width[w] - 1
    BY <1>1, <1>2 DEF High
  <2> HIDE DEF w
  <2> QED
    BY <1>4, <1>5, <2>1, <2>2
<1> QED
  BY <1>1, <1>6, <1>7

(* An integer that a double holds, and the last one of the 64-bit types,   *)
(* arrives as it was shown.                                                *)
LEMMA IntBack ==
  ASSUME NEW k \in IntKinds, NEW n \in Low(k)..High(k), Lossless(n, k)
  PROVE  Cast(AsInteger(Double(2 * n), k), k) = n
<1> DEFINE w == IF k \in SignedKinds THEN "s64" ELSE "u64"
<1>1. /\ w \in IntKinds /\ Low(w) <= Low(k) /\ High(k) <= High(w) /\ High(k) <= High("u64")
      /\ Low(w) \in Int /\ High(w) \in Int /\ Low(k) \in Int /\ High(k) \in Int
      /\ "u64" \in IntKinds /\ High("u64") \in Int
  BY WithinWidest, KindFacts DEF IntKinds, UnsignedKinds
<1>2. n \in Int /\ Low(w) <= n /\ n <= High(w) /\ n <= High("u64")
  <2> HIDE DEF w
  <2> QED
    BY <1>1
<1>3. Safe \in Nat /\ Width["u64"] \in Nat \ {0} /\ Safe < Width["u64"]
      /\ Width["s64"] = Width["u64"]
  BY WidthAssumption DEF IntKinds, UnsignedKinds
<1>4. 2^Safe \in Nat /\ 2^(Safe + 1) = 2 * 2^Safe
  BY <1>3, PowNat, PowSucc
<1>5. SUFFICES AsInteger(Double(2 * n), k) = n
  BY CastSame
<1>6. AsInteger(Double(2 * n), k) = Saturated(Truncated(Double(2 * n)), w)
  BY DEF AsInteger
<1>7. CASE n \in -(2^Safe)..2^Safe
  <2>1. 2 * n \in Int /\ -(2^(Safe + 1)) <= 2 * n /\ 2 * n <= 2^(Safe + 1)
    BY <1>2, <1>4, <1>7
  <2>2. Truncated(Double(2 * n)) = n
    BY <1>2, <2>1, DoubleExact, TruncatedFacts
  <2> HIDE DEF w
  <2> QED
    BY <1>1, <1>2, <1>6, <2>2 DEF Saturated
<1>8. ASSUME NEW x \in Nat, Safe < x, x <= Width["u64"], n = 2^x - 1, n = High(w)
      PROVE  AsInteger(Double(2 * n), k) = n
  <2>1. Double(2 * n) = 2^(x + 1)
    BY <1>8, DoubleLast
  <2>2. 2^(x + 1) = 2 * 2^x /\ 2^x \in Nat
    BY PowNat, PowSucc
  <2>3. Truncated(Double(2 * n)) = 2^x
    BY <2>1, <2>2, TruncatedFacts
  <2>4. 2^x > High(w) /\ ~ (2^x < Low(w))
    <3> HIDE DEF w
    <3> QED
      BY <1>1, <1>2, <1>8, <2>2
  <2> HIDE DEF w
  <2> QED
    BY <1>6, <1>8, <2>3, <2>4 DEF Saturated
<1>9. CASE n = High("u64")
  <2>1. n = 2^Width["u64"] - 1
    BY <1>9 DEF High, SignedKinds
  <2>2. n = High(w)
    <3>1. CASE k \in SignedKinds
      <4>1. High(w) = 2^(Width["u64"] - 1) - 1
        BY <1>3, <3>1 DEF High, SignedKinds
      <4>2. /\ 2^Width["u64"] = 2 * 2^(Width["u64"] - 1) /\ 2^(Width["u64"] - 1) \in Nat
            /\ 2^(Width["u64"] - 1) >= 1
        BY <1>1, KindFacts
      <4> HIDE DEF w
      <4> QED
        BY <1>2, <2>1, <4>1, <4>2
    <3>2. CASE k \notin SignedKinds
      BY <1>9, <3>2
    <3> QED
      BY <3>1, <3>2
  <2> HIDE DEF w
  <2> QED
    BY <1>3, <1>8, <2>1, <2>2
<1>10. CASE k \in SignedKinds /\ n = High("s64")
  <2>1. n = 2^(Width["u64"] - 1) - 1 /\ n = High(w)
    BY <1>3, <1>10 DEF High, SignedKinds
  <2>2. CASE Width["u64"] - 1 = Safe
    <3>1. n \in -(2^Safe)..2^Safe
      BY <1>4, <2>1, <2>2, PowPositive, <1>3
    <3> QED
      BY <1>7, <3>1
  <2>3. CASE Width["u64"] - 1 # Safe
    <3>1. Width["u64"] - 1 \in Nat /\ Safe < Width["u64"] - 1 /\ Width["u64"] - 1 <= Width["u64"]
      BY <1>3, <2>3
    <3> HIDE DEF w
    <3> QED
      BY <1>8, <2>1, <3>1
  <2> QED
    BY <2>2, <2>3
<1> QED
  BY <1>7, <1>9, <1>10 DEF Lossless

-----------------------------------------------------------------------------
(* The recursive functions.                                                *)

(* One level of a conversion looks only at the parts.                      *)
LEMMA LiftedLocal ==
  ASSUME NEW v \in Vals, NEW g, NEW h, \A p \in ValParts(v) : g[p] = h[p]
  PROVE  Lifted(g, v) = Lifted(h, v)
<1>1. CASE v.k \in {"list", "tuple"}
  <2>1. \A i \in DOMAIN v.v : v.v[i] \in ValParts(v)
    BY <1>1 DEF ValParts, ToSet
  <2>2. [i \in DOMAIN v.v |-> g[v.v[i]]] = [i \in DOMAIN v.v |-> h[v.v[i]]]
    BY <2>1
  <2> QED
    BY <1>1, <2>2 DEF Lifted, IntKinds, SignedKinds, UnsignedKinds, Floats
<1>2. CASE v.k = "record"
  <2> DEFINE N == {f[1] : f \in ToSet(v.v)}
             F(n) == CHOOSE f \in ToSet(v.v) : f[1] = n
  <2>1. \A f \in ToSet(v.v) : f[2] \in ValParts(v)
    BY <1>2 DEF ValParts
  <2>2. \A n \in N : F(n) \in ToSet(v.v)
    OBVIOUS
  <2>3. [n \in N |-> g[F(n)[2]]] = [n \in N |-> h[F(n)[2]]]
    <3> HIDE DEF F
    <3> QED
      BY <2>1, <2>2
  <2> QED
    BY <1>2, <2>3 DEF Lifted, IntKinds, SignedKinds, UnsignedKinds, Floats
<1>3. CASE v.k = "option" /\ v.v # <<>>
  <2>1. v.v \in Seq(Vals)
    BY <1>3, TreeAssumption, TypeAssumption
  <2>2. 1 \in DOMAIN v.v
    BY <1>3, <2>1
  <2>3. v.v[1] \in ValParts(v)
    BY <1>3, <2>2 DEF ValParts, ToSet
  <2> QED
    BY <1>3, <2>3 DEF Lifted, IntKinds, SignedKinds, UnsignedKinds, Floats
<1>4. CASE v.k = "option" /\ v.v = <<>>
  BY <1>4 DEF Lifted, IntKinds, SignedKinds, UnsignedKinds, Floats
<1>5. CASE v.k \notin {"list", "tuple", "record", "option"}
  BY <1>5 DEF Lifted
<1> QED
  BY <1>1, <1>2, <1>3, <1>4, <1>5

(* The same of the lowering.                                               *)
LEMMA LoweredLocal ==
  ASSUME NEW t \in ValTypes, NEW j, NEW g, NEW h, \A p \in TypeParts(t) : g[p] = h[p]
  PROVE  Lowered(g, t, j) = Lowered(h, t, j)
<1> USE DEF IntKinds, SignedKinds, UnsignedKinds, Floats
<1>1. CASE t.k \in {"list", "option"}
  <2>1. g[t.p] = h[t.p]
    BY <1>1 DEF TypeParts
  <2> QED
    BY <1>1, <2>1 DEF Lowered
<1>2. CASE t.k = "record"
  <2>1. \A i \in DOMAIN t.p : g[t.p[i][2]] = h[t.p[i][2]]
    BY <1>2 DEF TypeParts, ToSet
  <2>2. [i \in DOMAIN t.p |-> g[t.p[i][2]][j.v[t.p[i][1]]]]
        = [i \in DOMAIN t.p |-> h[t.p[i][2]][j.v[t.p[i][1]]]]
    BY <2>1
  <2> QED
    BY <1>2, <2>2 DEF Lowered
<1>3. CASE t.k = "tuple"
  <2>1. \A i \in DOMAIN t.p : g[t.p[i]] = h[t.p[i]]
    BY <1>3 DEF TypeParts, ToSet
  <2>2. [i \in DOMAIN t.p |-> g[t.p[i]][j.v[i]]] = [i \in DOMAIN t.p |-> h[t.p[i]][j.v[i]]]
    BY <2>1
  <2> QED
    BY <1>3, <2>2 DEF Lowered
<1>4. CASE t.k \notin {"list", "option", "record", "tuple"}
  BY <1>4 DEF Lowered
<1> QED
  BY <1>1, <1>2, <1>3, <1>4

(* The same of the values of a type.                                       *)
LEMMA ValuesOfLocal ==
  ASSUME NEW t \in ValTypes, NEW c, NEW g, NEW h, \A p \in TypeParts(t) : g[p] = h[p]
  PROVE  ValuesOf(g, t, c) = ValuesOf(h, t, c)
<1> USE DEF IntKinds, SignedKinds, UnsignedKinds, Floats
<1>1. CASE t.k \in {"list", "option"}
  <2>1. g[t.p] = h[t.p]
    BY <1>1 DEF TypeParts
  <2> QED
    BY <1>1, <2>1 DEF ValuesOf
<1>2. CASE t.k = "record"
  <2>1. \A i \in DOMAIN t.p : g[t.p[i][2]] = h[t.p[i][2]]
    BY <1>2 DEF TypeParts, ToSet
  <2>2. [i \in DOMAIN t.p |-> {t.p[i][1]} \X g[t.p[i][2]]]
        = [i \in DOMAIN t.p |-> {t.p[i][1]} \X h[t.p[i][2]]]
    BY <2>1
  <2> QED
    BY <1>2, <2>2 DEF ValuesOf
<1>3. CASE t.k = "tuple"
  <2>1. \A i \in DOMAIN t.p : g[t.p[i]] = h[t.p[i]]
    BY <1>3 DEF TypeParts, ToSet
  <2>2. [i \in DOMAIN t.p |-> g[t.p[i]]] = [i \in DOMAIN t.p |-> h[t.p[i]]]
    BY <2>1
  <2> QED
    BY <1>3, <2>2 DEF ValuesOf
<1>4. CASE t.k \notin {"list", "option", "record", "tuple"}
  BY <1>4 DEF ValuesOf
<1> QED
  BY <1>1, <1>2, <1>3, <1>4

(* One level of the codec looks only at the parts, too.                    *)
LEMMA TypedAsLocal ==
  ASSUME NEW t \in ValTypes, NEW g, NEW h, \A p \in TypeParts(t) : g[p] = h[p]
  PROVE  TypedAs(g, t) = TypedAs(h, t)
<1> DEFINE gs(ts) == [i \in DOMAIN ts |-> g[ts[i]]]
           hs(ts) == [i \in DOMAIN ts |-> h[ts[i]]]
<1>1. ASSUME NEW ts, ToSet(ts) \subseteq TypeParts(t)
      PROVE  gs(ts) = hs(ts)
  <2>1. \A i \in DOMAIN ts : g[ts[i]] = h[ts[i]]
    BY <1>1 DEF ToSet
  <2> QED
    BY <2>1
<1>2. {g[p] : p \in TypeParts(t)} = {h[p] : p \in TypeParts(t)}
  OBVIOUS
<1>3. Seq(UNION {g[p] : p \in TypeParts(t)}) = Seq(UNION {h[p] : p \in TypeParts(t)})
  BY <1>2
<1>4. CASE t.k \in {"list", "option"}
  <2>1. g[t.p] = h[t.p]
    BY <1>4 DEF TypeParts
  <2> QED
    BY <1>4, <2>1 DEF TypedAs, Unsigned, Signed
<1>5. CASE t.k = "record"
  <2>1. \A i \in DOMAIN t.p : g[t.p[i][2]] = h[t.p[i][2]]
    BY <1>5 DEF TypeParts, ToSet
  <2>2. [i \in DOMAIN t.p |-> {t.p[i][1]} \X g[t.p[i][2]]]
        = [i \in DOMAIN t.p |-> {t.p[i][1]} \X h[t.p[i][2]]]
    BY <2>1
  <2> QED
    BY <1>5, <2>2 DEF TypedAs, Unsigned, Signed
<1>6. CASE t.k = "tuple"
  <2>1. gs(t.p) = hs(t.p)
    BY <1>1, <1>6 DEF TypeParts
  <2> QED
    BY <1>6, <2>1 DEF TypedAs, Unsigned, Signed
<1>7. CASE t.k = "variant"
  <2>1. \A i \in DOMAIN t.p : gs(t.p[i][2]) = hs(t.p[i][2])
    <3>1. \A i \in DOMAIN t.p : ToSet(t.p[i][2]) \subseteq TypeParts(t)
      BY <1>7 DEF TypeParts, ToSet
    <3> HIDE DEF gs, hs
    <3> QED
      BY <1>1, <3>1
  <2> DEFINE P(w, ss) == \E i \in DOMAIN t.p : w[1] = t.p[i][1] /\ w[2] \in Product(ss[i])
  <2>2. \A w : (\E i \in DOMAIN t.p : w[1] = t.p[i][1] /\ w[2] \in Product(gs(t.p[i][2])))
               <=> (\E i \in DOMAIN t.p : w[1] = t.p[i][1] /\ w[2] \in Product(hs(t.p[i][2])))
    <3> HIDE DEF gs, hs
    <3> QED
      BY <2>1
  <2> QED
    BY <1>3, <1>7, <2>2 DEF TypedAs, Unsigned, Signed
<1>8. CASE t.k = "result"
  <2>1. \A n : SideOf(n) \in {1, 2}
    BY DEF SideOf
  <2>2. DOMAIN t.p = {1, 2}
    BY <1>8, TypeAssumption
  <2>3. \A i \in {1, 2} : gs(t.p[i]) = hs(t.p[i])
    <3>1. \A i \in {1, 2} : ToSet(t.p[i]) \subseteq TypeParts(t)
      BY <1>8, <2>2 DEF TypeParts, ToSet
    <3> HIDE DEF gs, hs
    <3> QED
      BY <1>1, <3>1
  <2>4. \A w : Product(gs(t.p[SideOf(w[1])])) = Product(hs(t.p[SideOf(w[1])]))
    <3> HIDE DEF gs, hs
    <3> QED
      BY <2>1, <2>3
  <2> QED
    BY <1>3, <1>8, <2>4 DEF TypedAs, Unsigned, Signed
<1>9. CASE t.k \notin {"list", "option", "record", "tuple", "variant", "result"}
  BY <1>9 DEF TypedAs
<1> QED
  BY <1>4, <1>5, <1>6, <1>7, <1>8, <1>9

(* A name that is there is at the place it is looked up at.                *)
LEMMA IndexFacts ==
  ASSUME NEW n \in Nat, NEW names, DOMAIN names = 1..n, NEW name \in ToSet(names)
  PROVE  IndexOf(name, names) \in 1..n /\ names[IndexOf(name, names)] = name
<1> DEFINE I == {i \in DOMAIN names : names[i] = name}
<1>1. I # {} /\ I \in SUBSET Nat
  BY DEF ToSet
<1>2. \E m \in I : \A i \in I : m <= i
  <2> HIDE DEF I
  <2> QED
    BY <1>1, LeastNat
<1>3. IndexOf(name, names) = CHOOSE m \in I : \A i \in I : m <= i
  BY DEF IndexOf, Min
<1>4. IndexOf(name, names) \in I
  <2> HIDE DEF I
  <2> QED
    BY <1>2, <1>3
<1> QED
  BY <1>4

(* What a number read is in.                                               *)
LEMMA ReadLebInRange ==
  ASSUME NEW b, NEW k, ReadLeb(b, k).st = "ok"
  PROVE  ReadLeb(b, k).val \in LebRange(k)
<1> DEFINE r == Groups(b, (Bits[k] + 6) \div 7)
           n == LebValue[r.val][(k \in Signed)]
<1>1. ReadLeb(b, k) = IF r.st = "ok" THEN Guard(InRange(n, k), Got(n, r.rest)) ELSE r
  BY DEF ReadLeb, Bind
<1> HIDE DEF r, n
<1> QED
  BY <1>1 DEF Guard, Got, Bad, InRange

(* The same of the encoder.                                                *)
LEMMA WrittenLocal ==
  ASSUME NEW t \in ValTypes, NEW v, NEW g, NEW h, \A p \in TypeParts(t) : g[p] = h[p]
  PROVE  Written(g, t, v) = Written(h, t, v)
<1>1. ASSUME NEW vs, NEW ts \in AtMostOne(ValTypes), ToSet(ts) \subseteq TypeParts(t)
      PROVE  Payload(g, vs, ts) = Payload(h, vs, ts)
  <2>1. CASE ts = <<>>
    BY <2>1 DEF Payload
  <2>2. CASE ts # <<>>
    <3>1. 1 \in DOMAIN ts
      BY <2>2 DEF AtMostOne
    <3>2. g[ts[1]] = h[ts[1]]
      BY <1>1, <3>1 DEF ToSet
    <3> QED
      BY <3>2 DEF Payload
  <2> QED
    BY <2>1, <2>2
<1>2. CASE t.k = "list"
  <2>1. g[t.p] = h[t.p]
    BY <1>2 DEF TypeParts
  <2> QED
    BY <1>2, <2>1 DEF Written, Unsigned, Signed
<1>3. CASE t.k = "option"
  <2>1. t.p \in TypeParts(t) /\ t.p \in ValTypes
    BY <1>3, TypeAssumption DEF TypeParts
  <2>2. <<t.p>> \in AtMostOne(ValTypes) /\ ToSet(<<t.p>>) \subseteq TypeParts(t)
    BY <2>1 DEF ToSet, AtMostOne
  <2>3. Payload(g, v.v, <<t.p>>) = Payload(h, v.v, <<t.p>>)
    BY <1>1, <2>2
  <2> QED
    BY <1>3, <2>3 DEF Written, Unsigned, Signed
<1>4. CASE t.k = "record"
  <2> DEFINE I == Shorter(v.v, t.p)
  <2>1. \A i \in I : g[t.p[i][2]] = h[t.p[i][2]]
    BY <1>4 DEF TypeParts, ToSet, Shorter
  <2>2. [i \in I |-> g[t.p[i][2]][v.v[i][2]]] = [i \in I |-> h[t.p[i][2]][v.v[i][2]]]
    <3> HIDE DEF I
    <3> QED
      BY <2>1
  <2> QED
    BY <1>4, <2>2 DEF Written, Unsigned, Signed
<1>5. CASE t.k = "tuple"
  <2> DEFINE I == Shorter(v.v, t.p)
  <2>1. \A i \in I : g[t.p[i]] = h[t.p[i]]
    BY <1>5 DEF TypeParts, ToSet, Shorter
  <2>2. [i \in I |-> g[t.p[i]][v.v[i]]] = [i \in I |-> h[t.p[i]][v.v[i]]]
    <3> HIDE DEF I
    <3> QED
      BY <2>1
  <2> QED
    BY <1>5, <2>2 DEF Written, Unsigned, Signed
<1>6. CASE t.k = "variant"
  <2> DEFINE i == IndexOf(v.v[1], CaseNames(t.p))
  <2>1. t.p \in Seq(STRING \X AtMostOne(ValTypes))
    BY <1>6, TypeAssumption
  <2>2. Len(t.p) \in Nat /\ DOMAIN CaseNames(t.p) = 1..Len(t.p) /\ DOMAIN t.p = 1..Len(t.p)
    BY <2>1 DEF CaseNames
  <2>3. ASSUME v.v[1] \in ToSet(CaseNames(t.p))
        PROVE  Payload(g, v.v[2], t.p[i][2]) = Payload(h, v.v[2], t.p[i][2])
    <3>1. i \in 1..Len(t.p)
      BY <2>2, <2>3, IndexFacts
    <3> HIDE DEF i
    <3>2. t.p[i][2] \in AtMostOne(ValTypes) /\ ToSet(t.p[i][2]) \subseteq TypeParts(t)
      BY <1>6, <2>1, <2>2, <3>1 DEF TypeParts, ToSet
    <3> QED
      BY <1>1, <3>2
  <2> HIDE DEF i
  <2>4. Written(g, t, v) = Written(h, t, v)
    BY <1>6, <2>3 DEF Written, Unsigned, Signed, i
  <2> QED
    BY <2>4
<1>7. CASE t.k = "result"
  <2> DEFINE side == IF v.v[1] = "ok" THEN 1 ELSE 2
  <2>1. side \in {1, 2} /\ DOMAIN t.p = {1, 2} /\ \A i \in {1, 2} : t.p[i] \in AtMostOne(ValTypes)
    BY <1>7, TypeAssumption
  <2> HIDE DEF side
  <2>2. t.p[side] \in AtMostOne(ValTypes) /\ ToSet(t.p[side]) \subseteq TypeParts(t)
    BY <1>7, <2>1 DEF TypeParts, ToSet
  <2>3. Payload(g, v.v[2], t.p[side]) = Payload(h, v.v[2], t.p[side])
    BY <1>1, <2>2
  <2> QED
    BY <1>7, <2>3 DEF Written, Unsigned, Signed, side
<1>8. CASE t.k \notin {"list", "option", "record", "tuple", "variant", "result"}
  BY <1>8 DEF Written
<1> QED
  BY <1>2, <1>3, <1>4, <1>5, <1>6, <1>7, <1>8

(* A discriminant is a number.                                             *)
LEMMA DiscriminantRead ==
  ASSUME NEW b, ReadLeb(b, "u32").st = "ok"
  PROVE  ReadLeb(b, "u32").val \in Nat /\ ReadLeb(b, "u32").val < 2^Bits["u32"]
<1>1. Bits["u32"] \in Nat
  BY WireAssumption DEF Unsigned
<1>2. ReadLeb(b, "u32").val \in 0..(2^Bits["u32"] - 1)
  BY ReadLebInRange DEF LebRange, Signed
<1>3. 2^Bits["u32"] \in Nat
  BY <1>1, PowNat
<1> QED
  BY <1>2, <1>3

(* The same of the decoder.                                                *)
LEMMA ReadAsLocal ==
  ASSUME NEW t \in ValTypes, NEW b, NEW g, NEW h, \A p \in TypeParts(t) : g[p] = h[p]
  PROVE  ReadAs(g, t, b) = ReadAs(h, t, b)
<1>1. ASSUME NEW ts, ToSet(ts) \subseteq TypeParts(t)
      PROVE  \A c : ReadTypes(g, ts, c) = ReadTypes(h, ts, c)
  <2>1. \A i \in DOMAIN ts : g[ts[i]] = h[ts[i]]
    BY <1>1 DEF ToSet
  <2>2. [i \in DOMAIN ts |-> g[ts[i]]] = [i \in DOMAIN ts |-> h[ts[i]]]
    BY <2>1
  <2> QED
    BY <2>2 DEF ReadTypes
<1>2. CASE t.k = "list"
  <2>1. g[t.p] = h[t.p]
    BY <1>2 DEF TypeParts
  <2> QED
    BY <1>2, <2>1 DEF ReadAs, Unsigned, Signed
<1>3. CASE t.k = "record"
  <2> DEFINE ts == [i \in DOMAIN t.p |-> t.p[i][2]]
  <2>1. ToSet(ts) \subseteq TypeParts(t)
    BY <1>3 DEF TypeParts, ToSet
  <2> HIDE DEF ts
  <2>2. ReadTypes(g, ts, b) = ReadTypes(h, ts, b)
    BY <1>1, <2>1
  <2> QED
    BY <1>3, <2>2 DEF ReadAs, Unsigned, Signed, ts
<1>4. CASE t.k = "tuple"
  <2>1. ReadTypes(g, t.p, b) = ReadTypes(h, t.p, b)
    BY <1>1, <1>4 DEF TypeParts
  <2> QED
    BY <1>4, <2>1 DEF ReadAs, Unsigned, Signed
<1>5. CASE t.k = "variant"
  <2> DEFINE r == ReadLeb(b, "u32")
             ts == t.p[r.val + 1][2]
  <2>1. t.p \in Seq(STRING \X AtMostOne(ValTypes))
    BY <1>5, TypeAssumption
  <2>2. ASSUME r.st = "ok", ~(r.val >= Len(t.p))
        PROVE  ReadTypes(g, ts, r.rest) = ReadTypes(h, ts, r.rest)
    <3>1. r.val \in Nat
      BY <2>2, DiscriminantRead
    <3> HIDE DEF r
    <3>2. r.val + 1 \in DOMAIN t.p
      BY <2>1, <2>2, <3>1
    <3>3. ToSet(ts) \subseteq TypeParts(t)
      BY <1>5, <3>2 DEF TypeParts, ToSet
    <3> HIDE DEF ts
    <3> QED
      BY <1>1, <3>3
  <2> DEFINE K(x) == Bind(x, LAMBDA vs, r2 : Got(Val("variant", <<t.p[r.val + 1][1], vs>>), r2))
             R(x) == IF r.st = "ok" THEN IF r.val >= Len(t.p) THEN Bad ELSE K(x) ELSE r
  <2>3. /\ ReadAs(g, t, b) = R(ReadTypes(g, ts, r.rest))
        /\ ReadAs(h, t, b) = R(ReadTypes(h, ts, r.rest))
    BY <1>5 DEF ReadAs, Bind, Unsigned, Signed
  <2> HIDE DEF r, ts, K
  <2>4. CASE r.st = "ok" /\ ~(r.val >= Len(t.p))
    <3> HIDE DEF R
    <3> QED
      BY <2>2, <2>3, <2>4
  <2>5. CASE ~(r.st = "ok" /\ ~(r.val >= Len(t.p)))
    BY <2>3, <2>5
  <2> QED
    BY <2>4, <2>5
<1>6. CASE t.k = "option"
  <2>1. ToSet(<<t.p>>) \subseteq TypeParts(t) /\ ToSet(<<>>) \subseteq TypeParts(t)
    BY <1>6 DEF TypeParts, ToSet
  <2>2. \A c, some : ReadTypes(g, IF some THEN <<t.p>> ELSE <<>>, c)
                     = ReadTypes(h, IF some THEN <<t.p>> ELSE <<>>, c)
    BY <1>1, <2>1
  <2> QED
    BY <1>6, <2>2 DEF ReadAs, Bind, Unsigned, Signed
<1>7. CASE t.k = "result"
  <2>1. DOMAIN t.p = {1, 2} /\ \A i \in {1, 2} : t.p[i] \in AtMostOne(ValTypes)
    BY <1>7, TypeAssumption
  <2>2. \A i \in {1, 2} : ToSet(t.p[i]) \subseteq TypeParts(t)
    BY <1>7, <2>1 DEF TypeParts, ToSet
  <2>3. \A c, ok : ReadTypes(g, t.p[IF ok THEN 1 ELSE 2], c) = ReadTypes(h, t.p[IF ok THEN 1 ELSE 2], c)
    BY <1>1, <2>2
  <2> QED
    BY <1>7, <2>3 DEF ReadAs, Bind, Unsigned, Signed
<1>8. CASE t.k \notin {"list", "option", "record", "tuple", "variant", "result"}
  BY <1>8 DEF ReadAs
<1> QED
  BY <1>2, <1>3, <1>4, <1>5, <1>6, <1>7, <1>8

(* The recursions as one: over what set, with what parts, less by what     *)
(* measure, and one level of it.  w.of names the recursion; w.n and w.by   *)
(* are what ReadEach and FlattenSeq are given.                             *)
Plain == {"lift", "lower", "fits", "carried", "type", "encode", "decode", "uleb", "sleb", "lebvalue"}
Recursion(of) == [of |-> of, n |-> 0, by |-> 0]
Rec(w) == w.of \in Plain \cup {"each", "flatten"} /\ w.n \in Nat
Dom(w) ==
  CASE w.of = "lift" -> Vals
    [] w.of = "uleb" -> Nat
    [] w.of = "sleb" -> Int
    [] w.of = "lebvalue" -> Stream
    [] w.of = "each" -> 0..w.n
    [] w.of = "flatten" -> 1..w.n
    [] OTHER -> ValTypes
Parts(w, x) ==
  CASE w.of = "lift" -> ValParts(x)
    [] w.of = "uleb" -> IF x < 128 THEN {} ELSE {x \div 128}
    [] w.of = "sleb" -> IF x \in -64..63 THEN {} ELSE {x \div 128}
    [] w.of = "lebvalue" -> IF Len(x) <= 1 THEN {} ELSE {Tail(x)}
    [] w.of = "each" -> IF x = 0 THEN {} ELSE {x - 1}
    [] w.of = "flatten" -> IF x = 1 THEN {} ELSE {x - 1}
    [] OTHER -> TypeParts(x)
Rank(w, x) ==
  CASE w.of \in {"uleb", "each", "flatten"} -> x
    [] w.of = "sleb" -> IF x < 0 THEN -x ELSE x
    [] w.of = "lebvalue" -> Len(x)
    [] OTHER -> Depth(x)
ReadLast(n, read, g, m, c) ==      \* the m last of n values
  IF m = 0 THEN Got(<<>>, c)
  ELSE Bind(read[n - m + 1][c], LAMBDA v, r1 :
         Bind(g[m - 1][r1], LAMBDA vs, r2 : Got(<<v>> \o vs, r2)))
Level(w, g, x) ==
  CASE w.of = "lift" -> Lifted(g, x)
    [] w.of = "lower" -> [j \in Jsons |-> Lowered(g, x, j)]
    [] w.of = "fits" -> ValuesOf(g, x, FALSE)
    [] w.of = "carried" -> ValuesOf(g, x, TRUE)
    [] w.of = "type" -> TypedAs(g, x)
    [] w.of = "encode" -> [v \in HasType[x] |-> Written(g, x, v)]
    [] w.of = "decode" -> [b \in Stream |-> ReadAs(g, x, b)]
    [] w.of = "uleb" -> IF x < 128 THEN <<x>> ELSE <<128 + (x % 128)>> \o g[x \div 128]
    [] w.of = "sleb" ->
         IF x \in -64..63 THEN <<x % 128>> ELSE <<128 + (x % 128)>> \o g[x \div 128]
    [] w.of = "lebvalue" -> [signed \in BOOLEAN |->
         IF Len(x) <= 1 THEN IF signed /\ x[1] >= 64 THEN x[1] - 128 ELSE x[1]
         ELSE (x[1] % 128) + 128 * g[Tail(x)][signed]]
    [] w.of = "each" -> [c \in Stream |-> ReadLast(w.n, w.by, g, x, c)]
    [] w.of = "flatten" -> IF x = 1 THEN w.by[x] ELSE g[x - 1] \o w.by[x]

(* One level of each of them looks only at the parts,                      *)
LEMMA LevelLocal ==
  ASSUME NEW w, Rec(w), NEW x \in Dom(w), NEW g, NEW h,
         \A p \in Parts(w, x) : g[p] = h[p]
  PROVE  Level(w, g, x) = Level(w, h, x)
<1>1. CASE w.of = "lift"
  BY <1>1, LiftedLocal DEF Dom, Parts, Level
<1>2. CASE w.of = "lower"
  <2>1. \A j \in Jsons : Lowered(g, x, j) = Lowered(h, x, j)
    BY <1>2, LoweredLocal DEF Dom, Parts
  <2> QED
    BY <1>2, <2>1 DEF Level
<1>3. CASE w.of \in {"fits", "carried"}
  BY <1>3, ValuesOfLocal DEF Dom, Parts, Level
<1>4. CASE w.of = "type"
  BY <1>4, TypedAsLocal DEF Dom, Parts, Level
<1>5. CASE w.of = "encode"
  <2>1. \A v \in HasType[x] : Written(g, x, v) = Written(h, x, v)
    BY <1>5, WrittenLocal DEF Dom, Parts
  <2> QED
    BY <1>5, <2>1 DEF Level
<1>6. CASE w.of = "decode"
  <2>1. \A b \in Stream : ReadAs(g, x, b) = ReadAs(h, x, b)
    BY <1>6, ReadAsLocal DEF Dom, Parts
  <2> QED
    BY <1>6, <2>1 DEF Level
<1>7. CASE w.of \in {"uleb", "sleb"}
  BY <1>7 DEF Parts, Level
<1>8. CASE w.of = "lebvalue"
  BY <1>8 DEF Parts, Level
<1>9. CASE w.of = "each"
  <2>1. x # 0 => g[x - 1] = h[x - 1]
    BY <1>9 DEF Parts
  <2>2. \A c : ReadLast(w.n, w.by, g, x, c) = ReadLast(w.n, w.by, h, x, c)
    <3>1. CASE x = 0
      BY <3>1 DEF ReadLast
    <3>2. CASE x # 0
      BY <2>1, <3>2 DEF ReadLast, Bind
    <3> QED
      BY <3>1, <3>2
  <2> QED
    BY <1>9, <2>2 DEF Level
<1>10. CASE w.of = "flatten"
  BY <1>10 DEF Parts, Level
<1> QED
  BY <1>1, <1>2, <1>3, <1>4, <1>5, <1>6, <1>7, <1>8, <1>9, <1>10 DEF Rec, Plain

(* which are less.                                                         *)
LEMMA PartsBelow ==
  ASSUME NEW w, Rec(w), NEW x \in Dom(w)
  PROVE  /\ Rank(w, x) \in Nat
         /\ \A p \in Parts(w, x) : p \in Dom(w) /\ Rank(w, p) \in Nat /\ Rank(w, p) < Rank(w, x)
<1>1. CASE w.of \notin {"uleb", "sleb", "lebvalue", "each", "flatten"}
  BY <1>1, TreeAssumption, TypeAssumption DEF Dom, Parts, Rank
<1>2. CASE w.of = "uleb"
  <2>1. x \in Nat
    BY <1>2 DEF Dom
  <2>2. x \in Nat /\ x >= 128 => x \div 128 \in Nat /\ x \div 128 < x
    BY <2>1
  <2> QED
    BY <1>2, <2>1, <2>2 DEF Dom, Parts, Rank
<1>3. CASE w.of = "sleb"
  <2>1. x \in Int
    BY <1>3 DEF Dom
  <2> DEFINE q == x \div 128
  <2>2. q \in Int /\ 128 * q <= x /\ x < 128 * q + 128
    BY <2>1
  <2>3. x \notin -64..63 => (IF q < 0 THEN -q ELSE q) < (IF x < 0 THEN -x ELSE x)
    <3> HIDE DEF q
    <3> QED
      BY <2>1, <2>2
  <2> HIDE DEF q
  <2> QED
    BY <1>3, <2>1, <2>2, <2>3 DEF Dom, Parts, Rank, q
<1>4. CASE w.of = "lebvalue"
  <2>1. x \in Seq(Byte)
    BY <1>4 DEF Dom, Stream
  <2>2. Len(x) \in Nat /\ (Len(x) > 1 => Tail(x) \in Seq(Byte) /\ Len(Tail(x)) = Len(x) - 1)
    BY <2>1
  <2> QED
    BY <1>4, <2>1, <2>2 DEF Dom, Parts, Rank, Stream
<1>5. CASE w.of \in {"each", "flatten"}
  BY <1>5 DEF Rec, Dom, Parts, Rank
<1> QED
  BY <1>1, <1>2, <1>3, <1>4, <1>5

(* A solution up to depth n.                                               *)
Below(w, n) == {x \in Dom(w) : Rank(w, x) < n}
Solves(w, g, n) == g = [x \in Below(w, n) |-> Level(w, g, x)]

(* Two solutions agree where both are.                                     *)
LEMMA SolutionUnique ==
  ASSUME NEW w, Rec(w), NEW m \in Nat, NEW n \in Nat, NEW g, NEW h,
         Solves(w, g, m), Solves(w, h, n),
         NEW y \in Dom(w), Rank(w, y) < m, Rank(w, y) < n
  PROVE  g[y] = h[y]
<1> DEFINE S == {d \in Nat : \A x \in Dom(w) : Rank(w, x) = d /\ d < m /\ d < n => g[x] = h[x]}
<1>1. ASSUME NEW d \in Nat, \A c \in Nat : c < d => c \in S
      PROVE  d \in S
  <2> SUFFICES ASSUME NEW x \in Dom(w), Rank(w, x) = d, d < m, d < n
               PROVE  g[x] = h[x]
    OBVIOUS
  <2>1. ASSUME NEW p \in Parts(w, x)
        PROVE  g[p] = h[p]
    <3>1. p \in Dom(w) /\ Rank(w, p) \in Nat /\ Rank(w, p) < d
      BY PartsBelow
    <3>2. Rank(w, p) \in S
      BY <1>1, <3>1
    <3> QED
      BY <3>1, <3>2
  <2>2. g[x] = Level(w, g, x) /\ h[x] = Level(w, h, x)
    BY DEF Solves, Below
  <2> QED
    BY <2>1, <2>2, LevelLocal
<1>2. \A d \in Nat : d \in S
  <2> HIDE DEF S
  <2> QED
    BY <1>1, Induction
<1> QED
  BY <1>2, PartsBelow

(* There is one up to every depth.                                         *)
LEMMA SolutionBelow ==
  ASSUME NEW w, Rec(w)
  PROVE  \A n \in Nat : \E g : Solves(w, g, n)
<1> DEFINE S == {n \in Nat : \E g : Solves(w, g, n)}
<1>1. 0 \in S
  <2>1. Below(w, 0) = {}
    BY PartsBelow DEF Below
  <2>2. \A g : [x \in Below(w, 0) |-> Level(w, g, x)] = [x \in Below(w, 0) |-> 0]
    BY <2>1
  <2>3. Solves(w, [x \in Below(w, 0) |-> 0], 0)
    BY <2>2 DEF Solves
  <2> QED
    BY <2>3
<1>2. ASSUME NEW n \in Nat, n \in S
      PROVE  n + 1 \in S
  <2>1. PICK g : Solves(w, g, n)
    BY <1>2
  <2> DEFINE h == [x \in Below(w, n + 1) |-> Level(w, g, x)]
  <2>2. ASSUME NEW x \in Below(w, n + 1)
        PROVE  h[x] = Level(w, h, x)
    <3>1. ASSUME NEW p \in Parts(w, x)
          PROVE  g[p] = h[p]
      <4>1. p \in Below(w, n) /\ p \in Below(w, n + 1)
        BY PartsBelow DEF Below
      <4>2. g[p] = Level(w, g, p)
        BY <2>1, <4>1 DEF Solves
      <4> QED
        BY <4>1, <4>2
    <3>2. x \in Dom(w) /\ h[x] = Level(w, g, x)
      BY DEF Below
    <3> HIDE DEF h
    <3> QED
      BY <3>1, <3>2, LevelLocal
  <2>3. h = [x \in Below(w, n + 1) |-> h[x]]
    OBVIOUS
  <2> HIDE DEF h
  <2>4. Solves(w, h, n + 1)
    BY <2>2, <2>3 DEF Solves
  <2> QED
    BY <2>4
<1>3. \A n \in Nat : n \in S
  <2> HIDE DEF S
  <2> QED
    BY <1>1, <1>2, StepInduction
<1> QED
  BY <1>3

(* And so there is one at all: each argument is looked up in a solution    *)
(* that is deep enough for it.                                             *)
LEMMA SolutionExists ==
  ASSUME NEW w, Rec(w)
  PROVE  \E f : f = [x \in Dom(w) |-> Level(w, f, x)]
<1> DEFINE G(n) == CHOOSE g : Solves(w, g, n)
           f == [x \in Dom(w) |-> G(Rank(w, x) + 1)[x]]
<1>1. ASSUME NEW n \in Nat
      PROVE  Solves(w, G(n), n)
  BY SolutionBelow
<1>2. ASSUME NEW x \in Dom(w)
      PROVE  f[x] = Level(w, f, x)
  <2>1. Rank(w, x) \in Nat /\ Rank(w, x) + 1 \in Nat
    BY PartsBelow
  <2> DEFINE g == G(Rank(w, x) + 1)
  <2>2. Solves(w, g, Rank(w, x) + 1)
    BY <1>1, <2>1
  <2>3. ASSUME NEW p \in Parts(w, x)
        PROVE  g[p] = f[p]
    <3>1. p \in Dom(w) /\ Rank(w, p) \in Nat /\ Rank(w, p) + 1 \in Nat /\ Rank(w, p) < Rank(w, x)
      BY PartsBelow
    <3> DEFINE h == G(Rank(w, p) + 1)
    <3>2. Solves(w, h, Rank(w, p) + 1)
      BY <1>1, <3>1
    <3>3. f[p] = h[p]
      BY <3>1
    <3> HIDE DEF G, f, g, h
    <3>4. g[p] = h[p]
      BY <2>1, <2>2, <3>1, <3>2, SolutionUnique
    <3> QED
      BY <3>3, <3>4
  <2>4. f[x] = g[x]
    OBVIOUS
  <2> HIDE DEF G, f, g
  <2>5. g[x] = Level(w, g, x)
    BY <2>1, <2>2 DEF Solves, Below
  <2> QED
    BY <2>3, <2>4, <2>5, LevelLocal
<1>3. f = [x \in Dom(w) |-> f[x]]
  OBVIOUS
<1> HIDE DEF f
<1> QED
  BY <1>2, <1>3

(* The functions of the JSON conversion are what their definitions say.    *)
LEMMA Defined ==
  /\ val_to_json = [v \in Vals |-> Lifted(val_to_json, v)]
  /\ json_to_val = [t \in ValTypes |-> [j \in Jsons |-> Lowered(json_to_val, t, j)]]
  /\ Fits = [t \in ValTypes |-> ValuesOf(Fits, t, FALSE)]
  /\ Carried = [t \in ValTypes |-> ValuesOf(Carried, t, TRUE)]
<1>1. val_to_json = [v \in Vals |-> Lifted(val_to_json, v)]
  <2>1. \E f : f = [x \in Dom(Recursion("lift")) |-> Level(Recursion("lift"), f, x)]
    BY SolutionExists DEF Rec, Recursion, Plain
  <2>2. \E f : f = [v \in Vals |-> Lifted(f, v)]
    BY <2>1 DEF Dom, Level, Recursion
  <2> QED
    BY <2>2 DEF val_to_json
<1>2. json_to_val = [t \in ValTypes |-> [j \in Jsons |-> Lowered(json_to_val, t, j)]]
  <2>1. \E f : f = [x \in Dom(Recursion("lower")) |-> Level(Recursion("lower"), f, x)]
    BY SolutionExists DEF Rec, Recursion, Plain
  <2>2. \E f : f = [t \in ValTypes |-> [j \in Jsons |-> Lowered(f, t, j)]]
    BY <2>1 DEF Dom, Level, Recursion
  <2> QED
    BY <2>2 DEF json_to_val
<1>3. Fits = [t \in ValTypes |-> ValuesOf(Fits, t, FALSE)]
  <2>1. \E f : f = [x \in Dom(Recursion("fits")) |-> Level(Recursion("fits"), f, x)]
    BY SolutionExists DEF Rec, Recursion, Plain
  <2>2. \E f : f = [t \in ValTypes |-> ValuesOf(f, t, FALSE)]
    BY <2>1, ZenonT(60) DEF Dom, Level, Recursion
  <2> QED
    BY <2>2 DEF Fits
<1>4. Carried = [t \in ValTypes |-> ValuesOf(Carried, t, TRUE)]
  <2>1. \E f : f = [x \in Dom(Recursion("carried")) |-> Level(Recursion("carried"), f, x)]
    BY SolutionExists DEF Rec, Recursion, Plain
  <2>2. \E f : f = [t \in ValTypes |-> ValuesOf(f, t, TRUE)]
    BY <2>1, ZenonT(60) DEF Dom, Level, Recursion
  <2> QED
    BY <2>2 DEF Carried
<1> QED
  BY <1>1, <1>2, <1>3, <1>4

(* The same at one argument.                                               *)
LEMMA ValUnfolded ==
  ASSUME NEW v \in Vals
  PROVE  val_to_json[v] = Lifted(val_to_json, v)
<1> DEFINE L(u) == Lifted(val_to_json, u)
<1>1. val_to_json = [u \in Vals |-> L(u)]
  BY Defined
<1> HIDE DEF L
<1>2. val_to_json[v] = L(v)
  BY <1>1
<1> QED
  BY <1>2 DEF L

(* The same for the functions over types.                                  *)
LEMMA TypeUnfolded ==
  ASSUME NEW t \in ValTypes
  PROVE  /\ \A j \in Jsons : json_to_val[t][j] = Lowered(json_to_val, t, j)
         /\ Fits[t] = ValuesOf(Fits, t, FALSE)
         /\ Carried[t] = ValuesOf(Carried, t, TRUE)
<1> DEFINE L(u) == [j \in Jsons |-> Lowered(json_to_val, u, j)]
           F(u) == ValuesOf(Fits, u, FALSE)
           C(u) == ValuesOf(Carried, u, TRUE)
<1>1. /\ json_to_val = [u \in ValTypes |-> L(u)]
      /\ Fits = [u \in ValTypes |-> F(u)]
      /\ Carried = [u \in ValTypes |-> C(u)]
  BY Defined
<1> HIDE DEF L, F, C
<1>2. json_to_val[t] = L(t) /\ Fits[t] = F(t) /\ Carried[t] = C(t)
  BY <1>1
<1> QED
  BY <1>2 DEF L, F, C

-----------------------------------------------------------------------------
(* What is lowered has its type.                                           *)

(* All is right when each is, and collects what they yield.                *)
LEMMA AllFacts ==
  ASSUME NEW k, NEW rs
  PROVE  /\ All(k, rs).ok <=> \A i \in DOMAIN rs : rs[i].ok
         /\ All(k, rs).ok => All(k, rs).v = [k |-> k, v |-> [i \in DOMAIN rs |-> rs[i].v]]
<1>1. CASE \A i \in DOMAIN rs : rs[i].ok
  BY <1>1 DEF All, Check, Ok, Err
<1>2. CASE ~ \A i \in DOMAIN rs : rs[i].ok
  BY <1>2 DEF All, Check, Ok, Err
<1> QED
  BY <1>1, <1>2

(* One level of it: the parts have the types of the parts.                 *)
LEMMA LoweredOneLevel ==
  ASSUME NEW t \in ValTypes, NEW j \in Jsons, NEW lower, NEW vals,
         \A p \in TypeParts(t), i \in Jsons : lower[p][i].ok => lower[p][i].v \in vals[p],
         Lowered(lower, t, j).ok
  PROVE  Lowered(lower, t, j).v \in ValuesOf(vals, t, FALSE)
<1> USE DEF IntKinds, SignedKinds, UnsignedKinds, Floats
<1> DEFINE r == Lowered(lower, t, j)
<1>1. CASE t.k = "bool"
  <2>1. r = Check(j.k = "bool", Ok([k |-> t.k, v |-> j.v]))
    BY <1>1 DEF Lowered
  <2>2. j.k = "bool" /\ r.v = [k |-> t.k, v |-> j.v]
    BY <2>1 DEF Check, Ok, Err
  <2>3. j.v \in BOOLEAN
    BY <2>2, JsonAssumption
  <2>4. ValuesOf(vals, t, FALSE) = [k : {t.k}, v : BOOLEAN]
    BY <1>1 DEF ValuesOf
  <2> QED
    BY <2>2, <2>3, <2>4
<1>2. CASE t.k \in IntKinds
  <2> DEFINE n == Cast(AsInteger(Double(j.v), t.k), t.k)
  <2>1. r = Check(j.k = "num", Ok([k |-> t.k, v |-> n]))
    BY <1>2 DEF Lowered
  <2>2. j.k = "num" /\ r.v = [k |-> t.k, v |-> n]
    BY <2>1 DEF Check, Ok, Err
  <2>3. n \in Low(t.k)..High(t.k)
    BY <1>2, <2>2, JsonAssumption, IntFits
  <2>4. ValuesOf(vals, t, FALSE)
        = [k : {t.k}, v : {i \in Low(t.k)..High(t.k) : FALSE => Lossless(i, t.k)}]
    BY <1>2 DEF ValuesOf
  <2> HIDE DEF n
  <2> QED
    BY <2>2, <2>3, <2>4
<1>3. CASE t.k \in Floats
  <2>1. r = Check(j.k = "num", Ok([k |-> t.k, v |-> <<Double(j.v)>>]))
    BY <1>3 DEF Lowered
  <2>2. j.k = "num" /\ r.v = [k |-> t.k, v |-> <<Double(j.v)>>]
    BY <2>1 DEF Check, Ok, Err
  <2>3. Double(j.v) \in Int
    BY <2>2, JsonAssumption, DoubleIsInt
  <2>4. <<Double(j.v)>> \in Seq(Int) /\ Len(<<Double(j.v)>>) <= 1
    BY <2>3
  <2>5. \A hs \in Seq(Int) : Len(hs) <= 1 => [k |-> t.k, v |-> hs] \in ValuesOf(vals, t, FALSE)
    BY <1>3 DEF ValuesOf
  <2> QED
    BY <2>2, <2>4, <2>5
<1>4. CASE t.k = "char"
  <2>1. r = Check(j.k = "str" /\ Len(j.v) = 1, Ok([k |-> t.k, v |-> j.v[1]]))
    BY <1>4 DEF Lowered
  <2>2. j.k = "str" /\ Len(j.v) = 1 /\ r.v = [k |-> t.k, v |-> j.v[1]]
    BY <2>1 DEF Check, Ok, Err
  <2>3. j.v[1] \in Chars
    BY <2>2, JsonAssumption
  <2>4. ValuesOf(vals, t, FALSE) = [k : {t.k}, v : Chars]
    BY <1>4 DEF ValuesOf
  <2> QED
    BY <2>2, <2>3, <2>4
<1>5. CASE t.k = "string"
  <2>1. r = Check(j.k = "str", Ok([k |-> t.k, v |-> j.v]))
    BY <1>5 DEF Lowered
  <2>2. j.k = "str" /\ r.v = [k |-> t.k, v |-> j.v]
    BY <2>1 DEF Check, Ok, Err
  <2>3. j.v \in Seq(Chars)
    BY <2>2, JsonAssumption
  <2>4. ValuesOf(vals, t, FALSE) = [k : {t.k}, v : Seq(Chars)]
    BY <1>5 DEF ValuesOf
  <2> QED
    BY <2>2, <2>3, <2>4
<1>6. CASE t.k = "list"
  <2> DEFINE rs == [i \in DOMAIN j.v |-> lower[t.p][j.v[i]]]
             vs == [i \in DOMAIN j.v |-> rs[i].v]
  <2>1. r = Check(j.k = "arr", All("list", rs))
    BY <1>6 DEF Lowered
  <2>2. j.k = "arr" /\ r = All("list", rs)
    BY <2>1 DEF Check, Err
  <2>3. j.v \in Seq(Jsons) /\ t.p \in TypeParts(t)
    BY <1>6, <2>2, JsonAssumption DEF TypeParts
  <2>4. DOMAIN rs = DOMAIN j.v
    OBVIOUS
  <2>5. r.v = [k |-> "list", v |-> vs] /\ \A i \in DOMAIN j.v : rs[i].ok
    <3> HIDE DEF rs, r
    <3> QED
      BY <2>2, <2>4, AllFacts DEF r
  <2>6. \A i \in DOMAIN j.v : vs[i] \in vals[t.p]
    <3> SUFFICES ASSUME NEW i \in DOMAIN j.v
                 PROVE  vs[i] \in vals[t.p]
      OBVIOUS
    <3>1. j.v[i] \in Jsons
      BY <2>3
    <3>2. vs[i] = lower[t.p][j.v[i]].v /\ lower[t.p][j.v[i]].ok
      BY <2>5
    <3> QED
      BY <2>3, <3>1, <3>2
  <2>7. vs \in Seq(vals[t.p])
    <3>1. DOMAIN j.v = 1..Len(j.v) /\ Len(j.v) \in Nat /\ DOMAIN vs = DOMAIN j.v
      BY <2>3
    <3>2. vs \in [1..Len(j.v) -> vals[t.p]]
      BY <2>6, <3>1
    <3> HIDE DEF vs
    <3> QED
      BY <3>1, <3>2
  <2>8. ValuesOf(vals, t, FALSE) = [k : {t.k}, v : Seq(vals[t.p])]
    BY <1>6 DEF ValuesOf
  <2> HIDE DEF vs, r
  <2> QED
    BY <1>6, <2>5, <2>7, <2>8 DEF r
<1>7. CASE t.k = "record"
  <2> DEFINE rs == [i \in DOMAIN t.p |-> lower[t.p[i][2]][j.v[t.p[i][1]]]]
             a == All("record", rs)
             vs == [i \in DOMAIN t.p |-> <<t.p[i][1], a.v.v[i]>>]
  <2>1. r = Check(j.k = "obj" /\ \A i \in DOMAIN t.p : t.p[i][1] \in DOMAIN j.v,
                  Check(a.ok, Ok([k |-> t.k, v |-> vs])))
    BY <1>7 DEF Lowered
  <2>2. /\ j.k = "obj" /\ \A i \in DOMAIN t.p : t.p[i][1] \in DOMAIN j.v
        /\ a.ok /\ r.v = [k |-> t.k, v |-> vs]
    <3> HIDE DEF vs, a
    <3> QED
      BY <2>1 DEF Check, Ok, Err
  <2>3. DOMAIN rs = DOMAIN t.p
    OBVIOUS
  <2>4. a.v.v = [i \in DOMAIN t.p |-> rs[i].v] /\ \A i \in DOMAIN t.p : rs[i].ok
    <3> HIDE DEF rs
    <3>1. /\ a.v = [k |-> "record", v |-> [i \in DOMAIN rs |-> rs[i].v]]
          /\ \A i \in DOMAIN rs : rs[i].ok
      BY <2>2, AllFacts
    <3> QED
      BY <2>3, <3>1
  <2>5. ASSUME NEW i \in DOMAIN t.p
        PROVE  vs[i] \in {t.p[i][1]} \X vals[t.p[i][2]]
    <3>1. j.v[t.p[i][1]] \in Jsons
      BY <2>2, JsonAssumption
    <3>2. t.p[i][2] \in TypeParts(t)
      BY <1>7 DEF TypeParts, ToSet
    <3>3. rs[i].v \in vals[t.p[i][2]]
      BY <2>4, <3>1, <3>2
    <3>4. vs[i] = <<t.p[i][1], rs[i].v>>
      <4> HIDE DEF rs, a
      <4> QED
        BY <2>4
    <3> HIDE DEF rs, vs
    <3> QED
      BY <3>3, <3>4
  <2> DEFINE Ss == [i \in DOMAIN t.p |-> {t.p[i][1]} \X vals[t.p[i][2]]]
  <2>6. vs \in Product(Ss)
    <3>1. DOMAIN vs = DOMAIN Ss /\ \A i \in DOMAIN Ss : vs[i] \in Ss[i]
      <4> HIDE DEF a
      <4> QED
        BY <2>5
    <3>2. vs = [i \in DOMAIN Ss |-> vs[i]]
      OBVIOUS
    <3> HIDE DEF vs, Ss
    <3> QED
      BY <3>1, <3>2 DEF Product
  <2>7. ValuesOf(vals, t, FALSE) = [k : {t.k}, v : Product(Ss)]
    BY <1>7 DEF ValuesOf
  <2> HIDE DEF vs, Ss, r
  <2> QED
    BY <2>2, <2>6, <2>7 DEF r
<1>8. CASE t.k = "tuple"
  <2> DEFINE rs == [i \in DOMAIN t.p |-> lower[t.p[i]][j.v[i]]]
             vs == [i \in DOMAIN t.p |-> rs[i].v]
  <2>1. r = Check(j.k = "arr" /\ Len(j.v) = Len(t.p), All("tuple", rs))
    BY <1>8 DEF Lowered
  <2>2. j.k = "arr" /\ Len(j.v) = Len(t.p) /\ r = All("tuple", rs)
    <3> HIDE DEF rs
    <3> QED
      BY <2>1 DEF Check, Err
  <2>3. j.v \in Seq(Jsons) /\ t.p \in Seq(ValTypes)
    BY <1>8, <2>2, JsonAssumption, TreeAssumption, TypeAssumption
  <2>4. DOMAIN rs = DOMAIN t.p
    OBVIOUS
  <2>5. r.v = [k |-> "tuple", v |-> vs] /\ \A i \in DOMAIN t.p : rs[i].ok
    <3> HIDE DEF rs, r
    <3> QED
      BY <2>2, <2>4, AllFacts DEF r
  <2> DEFINE Ss == [i \in DOMAIN t.p |-> vals[t.p[i]]]
  <2>6. \A i \in DOMAIN t.p : vs[i] \in Ss[i]
    <3> SUFFICES ASSUME NEW i \in DOMAIN t.p
                 PROVE  vs[i] \in vals[t.p[i]]
      OBVIOUS
    <3>1. j.v[i] \in Jsons
      BY <2>2, <2>3
    <3>2. t.p[i] \in TypeParts(t)
      BY <1>8 DEF TypeParts, ToSet
    <3>3. vs[i] = lower[t.p[i]][j.v[i]].v /\ lower[t.p[i]][j.v[i]].ok
      BY <2>5
    <3> QED
      BY <3>1, <3>2, <3>3
  <2>7. vs \in Product(Ss)
    <3>1. DOMAIN vs = DOMAIN Ss /\ \A i \in DOMAIN Ss : vs[i] \in Ss[i]
      BY <2>6
    <3>2. vs = [i \in DOMAIN Ss |-> vs[i]]
      OBVIOUS
    <3> HIDE DEF vs, Ss
    <3> QED
      BY <3>1, <3>2 DEF Product
  <2>8. ValuesOf(vals, t, FALSE) = [k : {t.k}, v : Product(Ss)]
    BY <1>8 DEF ValuesOf
  <2> HIDE DEF vs, Ss, r
  <2> QED
    BY <1>8, <2>5, <2>7, <2>8 DEF r
<1>9. CASE t.k = "option"
  <2> DEFINE some == {<<v>> : v \in {w \in vals[t.p] : FALSE => w # [k |-> "option", v |-> <<>>]}}
  <2>1. ValuesOf(vals, t, FALSE) = [k : {t.k}, v : {<<>>} \cup some]
    BY <1>9 DEF ValuesOf
  <2>2. CASE j.k = "null"
    <3>1. r = Ok([k |-> t.k, v |-> <<>>])
      BY <1>9, <2>2 DEF Lowered
    <3>2. r.v = [k |-> t.k, v |-> <<>>]
      BY <3>1 DEF Ok
    <3> HIDE DEF some
    <3> QED
      BY <2>1, <3>2
  <2>3. CASE j.k # "null"
    <3> DEFINE rs == <<lower[t.p][j]>>
    <3>1. r = All("option", rs)
      BY <1>9, <2>3 DEF Lowered
    <3>2. DOMAIN rs = {1} /\ rs[1] = lower[t.p][j]
      OBVIOUS
    <3>3. lower[t.p][j].ok /\ r.v = [k |-> "option", v |-> [i \in {1} |-> rs[i].v]]
      <4> HIDE DEF rs, r
      <4> QED
        BY <3>1, <3>2, AllFacts DEF r
    <3>4. [i \in {1} |-> rs[i].v] = <<lower[t.p][j].v>>
      BY <3>2
    <3>5. lower[t.p][j].v \in vals[t.p]
      BY <1>9, <3>3 DEF TypeParts
    <3>6. <<lower[t.p][j].v>> \in some
      BY <3>5
    <3> HIDE DEF some, r, rs
    <3> QED
      BY <1>9, <2>1, <3>3, <3>4, <3>6 DEF r
  <2> QED
    BY <2>2, <2>3
<1>10. CASE t.k \notin IntKinds \cup Floats
                       \cup {"bool", "char", "string", "list", "record", "tuple", "option"}
  <2>1. r = Err
    BY <1>10 DEF Lowered
  <2> QED
    BY <2>1 DEF Err
<1> QED
  BY <1>1, <1>2, <1>3, <1>4, <1>5, <1>6, <1>7, <1>8, <1>9, <1>10

(* json_to_val: whatever JSON it accepts becomes a value of the type.      *)
LEMMA LoweredHasType ==
  ASSUME NEW t \in ValTypes, NEW j \in Jsons, json_to_val[t][j].ok
  PROVE  json_to_val[t][j].v \in Fits[t]
<1> DEFINE Right(u) == \A i \in Jsons : json_to_val[u][i].ok => json_to_val[u][i].v \in Fits[u]
           S == {d \in Nat : \A u \in ValTypes : Depth(u) = d => Right(u)}
<1>1. ASSUME NEW d \in Nat, \A c \in Nat : c < d => c \in S
      PROVE  d \in S
  <2> SUFFICES ASSUME NEW u \in ValTypes, Depth(u) = d
               PROVE  Right(u)
    OBVIOUS
  <2>1. ASSUME NEW p \in TypeParts(u)
        PROVE  Right(p)
    <3>1. p \in ValTypes /\ Depth(p) \in Nat /\ Depth(p) < d
      BY TreeAssumption, TypeAssumption
    <3> HIDE DEF Right
    <3> QED
      BY <1>1, <3>1
  <2>2. ASSUME NEW i \in Jsons, json_to_val[u][i].ok
        PROVE  json_to_val[u][i].v \in Fits[u]
    <3>1. json_to_val[u][i] = Lowered(json_to_val, u, i) /\ Fits[u] = ValuesOf(Fits, u, FALSE)
      BY TypeUnfolded
    <3> QED
      BY <2>1, <2>2, <3>1, LoweredOneLevel
  <2> QED
    BY <2>2
<1>2. \A d \in Nat : d \in S
  <2> HIDE DEF S
  <2> QED
    BY <1>1, Induction
<1> QED
  BY <1>2, TreeAssumption, TypeAssumption

-----------------------------------------------------------------------------
(* What is shown and typed back arrives.                                   *)

(* If each yields its value, all yield theirs.                             *)
LEMMA AllBack ==
  ASSUME NEW k, NEW rs, NEW vs, DOMAIN rs = DOMAIN vs, vs = [i \in DOMAIN vs |-> vs[i]],
         \A i \in DOMAIN vs : rs[i] = Ok(vs[i])
  PROVE  All(k, rs) = Ok([k |-> k, v |-> vs])
<1>1. \A i \in DOMAIN rs : rs[i].ok /\ rs[i].v = vs[i]
  BY DEF Ok
<1>2. [i \in DOMAIN rs |-> rs[i].v] = [i \in DOMAIN vs |-> vs[i]]
  BY <1>1
<1>3. All(k, rs) = Ok([k |-> k, v |-> [i \in DOMAIN rs |-> rs[i].v]])
  BY <1>1 DEF All, Check
<1> QED
  BY <1>2, <1>3

(* A record of a tag and a value.                                          *)
LEMMA TaggedFacts ==
  ASSUME NEW K, NEW X, NEW v \in [k : {K}, v : X]
  PROVE  v.k = K /\ v.v \in X /\ v = [k |-> K, v |-> v.v]
  OBVIOUS

(* Sequences over the same places have the same length.                    *)
LEMMA SameLength ==
  ASSUME NEW m \in Nat, NEW n \in Nat, 1..m = 1..n
  PROVE  m = n
<1>1. CASE m < n
  <2>1. n \in 1..n /\ n \notin 1..m
    BY <1>1
  <2> QED
    BY <2>1
<1>2. CASE n < m
  <2>1. m \in 1..m /\ m \notin 1..n
    BY <1>2
  <2> QED
    BY <2>1
<1> QED
  BY <1>1, <1>2

(* The option without a value.                                             *)
None == [k |-> "option", v |-> <<>>]

(* A carried value other than none is not shown as null, which would come  *)
(* back as none.                                                           *)
LEMMA ShownNotNullOneLevel ==
  ASSUME NEW t \in ValTypes, NEW v \in Vals, NEW vals, v \in ValuesOf(vals, t, TRUE), v # None,
         \A p \in TypeParts(t), w \in Vals : w \in vals[p] /\ w # None => val_to_json[w].k # "null"
  PROVE  val_to_json[v].k # "null"
<1> USE DEF IntKinds, SignedKinds, UnsignedKinds, Floats
<1> DEFINE r == val_to_json[v]
<1>1. r = Lifted(val_to_json, v)
  BY ValUnfolded
<1>2. CASE t.k = "bool"
  <2>1. v.k = "bool"
    BY <1>2 DEF ValuesOf
  <2>2. r = Json("bool", v.v)
    BY <1>1, <2>1 DEF Lifted
  <2> QED
    BY <2>2 DEF Json
<1>3. CASE t.k \in IntKinds
  <2>1. v.k \in IntKinds
    BY <1>3 DEF ValuesOf
  <2>2. r = Json("num", 2 * v.v)
    BY <1>1, <2>1 DEF Lifted
  <2> QED
    BY <2>2 DEF Json
<1>4. CASE t.k \in Floats
  <2>1. v.k \in Floats /\ v.v # <<>>
    BY <1>4 DEF ValuesOf
  <2>2. r = Json("num", v.v[1])
    BY <1>1, <2>1 DEF Lifted
  <2> QED
    BY <2>2 DEF Json
<1>5. CASE t.k \in {"char", "string"}
  <2>1. v.k = t.k
    BY <1>5 DEF ValuesOf
  <2>2. r = Json("str", v.v) \/ r = Json("str", <<v.v>>)
    BY <1>1, <1>5, <2>1 DEF Lifted
  <2> QED
    BY <2>2 DEF Json
<1>6. CASE t.k \in {"list", "tuple"}
  <2>1. v.k = t.k
    BY <1>6 DEF ValuesOf
  <2>2. r = Json("arr", [i \in DOMAIN v.v |-> val_to_json[v.v[i]]])
    BY <1>1, <1>6, <2>1 DEF Lifted
  <2> QED
    BY <2>2 DEF Json
<1>7. CASE t.k = "record"
  <2>1. v.k = "record"
    BY <1>7 DEF ValuesOf
  <2>2. \E x : r = Json("obj", x)
    BY <1>1, <2>1 DEF Lifted, Object
  <2> QED
    BY <2>2 DEF Json
<1>8. CASE t.k = "option"
  <2>1. v.k = "option" /\ v = [k |-> "option", v |-> v.v]
        /\ (v.v = <<>> \/ \E w \in vals[t.p] : v.v = <<w>> /\ w # None)
    BY <1>8 DEF ValuesOf, None
  <2>2. v.v # <<>>
    BY <2>1 DEF None
  <2>3. PICK w \in vals[t.p] : v.v = <<w>> /\ w # None
    BY <2>1, <2>2
  <2>4. r = val_to_json[w]
    BY <1>1, <2>1, <2>2, <2>3 DEF Lifted
  <2>5. w \in ValParts(v) /\ t.p \in TypeParts(t)
    BY <1>8, <2>1, <2>3 DEF ValParts, TypeParts, ToSet
  <2>6. w \in Vals
    BY <2>5, TreeAssumption, TypeAssumption
  <2> QED
    BY <2>3, <2>4, <2>5, <2>6
<1>9. CASE t.k \notin IntKinds \cup Floats
                       \cup {"bool", "char", "string", "list", "record", "tuple", "option"}
  BY <1>9 DEF ValuesOf
<1> QED
  BY <1>2, <1>3, <1>4, <1>5, <1>6, <1>7, <1>8, <1>9

(* The same at every depth.                                                *)
LEMMA ShownNotNull ==
  ASSUME NEW t \in ValTypes, NEW v \in Vals, v \in Carried[t], v # None
  PROVE  val_to_json[v].k # "null"
<1> DEFINE Right(u) == \A w \in Vals : w \in Carried[u] /\ w # None => val_to_json[w].k # "null"
           S == {d \in Nat : \A u \in ValTypes : Depth(u) = d => Right(u)}
<1>1. ASSUME NEW d \in Nat, \A c \in Nat : c < d => c \in S
      PROVE  d \in S
  <2> SUFFICES ASSUME NEW u \in ValTypes, Depth(u) = d
               PROVE  Right(u)
    OBVIOUS
  <2>1. ASSUME NEW p \in TypeParts(u)
        PROVE  Right(p)
    <3>1. p \in ValTypes /\ Depth(p) \in Nat /\ Depth(p) < d
      BY TreeAssumption, TypeAssumption
    <3> HIDE DEF Right
    <3> QED
      BY <1>1, <3>1
  <2>2. Carried[u] = ValuesOf(Carried, u, TRUE)
    BY TypeUnfolded
  <2> QED
    BY <2>1, <2>2, ShownNotNullOneLevel
<1>2. \A d \in Nat : d \in S
  <2> HIDE DEF S
  <2> QED
    BY <1>1, Induction
<1> QED
  BY <1>2, TreeAssumption, TypeAssumption

(* One level of the way back: the parts arrive, so the whole does.         *)
LEMMA BackOneLevel ==
  ASSUME NEW t \in ValTypes, NEW v \in Vals, v \in ValuesOf(Carried, t, TRUE),
         \A p \in TypeParts(t), w \in Vals :
            w \in Carried[p] => json_to_val[p][val_to_json[w]] = Ok(w)
  PROVE  Lowered(json_to_val, t, val_to_json[v]) = Ok(v)
<1> USE DEF IntKinds, SignedKinds, UnsignedKinds, Floats
<1> DEFINE j == val_to_json[v]
           r == Lowered(json_to_val, t, j)
<1>1. j = Lifted(val_to_json, v)
  BY ValUnfolded
<1>2. CASE t.k = "bool"
  <2>1. v.k = "bool" /\ v = [k |-> "bool", v |-> v.v]
    BY <1>2 DEF ValuesOf
  <2>2. j = Json("bool", v.v)
    BY <1>1, <2>1 DEF Lifted
  <2>3. r = Check(j.k = "bool", Ok([k |-> t.k, v |-> j.v]))
    BY <1>2 DEF Lowered
  <2> QED
    BY <1>2, <2>1, <2>2, <2>3 DEF Json, Check
<1>3. CASE t.k \in IntKinds
  <2>1. v.k = t.k /\ v = [k |-> t.k, v |-> v.v] /\ v.v \in Low(t.k)..High(t.k) /\ Lossless(v.v, t.k)
    BY <1>3 DEF ValuesOf
  <2>2. j = Json("num", 2 * v.v)
    BY <1>1, <1>3, <2>1 DEF Lifted
  <2>3. r = Check(j.k = "num", Ok([k |-> t.k, v |-> Cast(AsInteger(Double(j.v), t.k), t.k)]))
    BY <1>3 DEF Lowered
  <2>4. j.k = "num" /\ j.v = 2 * v.v
    BY <2>2 DEF Json
  <2>5. Cast(AsInteger(Double(j.v), t.k), t.k) = v.v
    BY <1>3, <2>1, <2>4, IntBack
  <2> QED
    BY <2>1, <2>3, <2>4, <2>5 DEF Check
<1>4. CASE t.k \in Floats
  <2>1. /\ v.k = t.k /\ v = [k |-> t.k, v |-> v.v]
        /\ v.v \in Seq(Int) /\ Len(v.v) <= 1 /\ v.v # <<>> /\ Double(v.v[1]) = v.v[1]
    BY <1>4 DEF ValuesOf
  <2>2. j = Json("num", v.v[1])
    BY <1>1, <1>4, <2>1 DEF Lifted
  <2>3. r = Check(j.k = "num", Ok([k |-> t.k, v |-> <<Double(j.v)>>]))
    BY <1>4 DEF Lowered
  <2>4. j.k = "num" /\ j.v = v.v[1]
    BY <2>2 DEF Json
  <2>5. v.v = <<v.v[1]>>
    BY <2>1
  <2>6. <<Double(j.v)>> = v.v
    BY <2>1, <2>4, <2>5
  <2> QED
    BY <2>1, <2>3, <2>4, <2>6 DEF Check
<1>5. CASE t.k = "char"
  <2>1. v.k = "char" /\ v = [k |-> t.k, v |-> v.v]
    BY <1>5 DEF ValuesOf
  <2>2. j = Json("str", <<v.v>>)
    BY <1>1, <2>1 DEF Lifted
  <2>3. r = Check(j.k = "str" /\ Len(j.v) = 1, Ok([k |-> t.k, v |-> j.v[1]]))
    BY <1>5 DEF Lowered
  <2>4. j.k = "str" /\ Len(j.v) = 1 /\ j.v[1] = v.v
    BY <2>2 DEF Json
  <2> QED
    BY <2>1, <2>3, <2>4 DEF Check
<1>6. CASE t.k = "string"
  <2>1. v.k = "string" /\ v = [k |-> t.k, v |-> v.v]
    BY <1>6 DEF ValuesOf
  <2>2. j = Json("str", v.v)
    BY <1>1, <2>1 DEF Lifted
  <2>3. r = Check(j.k = "str", Ok([k |-> t.k, v |-> j.v]))
    BY <1>6 DEF Lowered
  <2>4. j.k = "str" /\ j.v = v.v
    BY <2>2 DEF Json
  <2> QED
    BY <2>1, <2>3, <2>4 DEF Check
<1>7. CASE t.k = "list"
  <2> DEFINE shown == [i \in DOMAIN v.v |-> val_to_json[v.v[i]]]
             rs == [i \in DOMAIN j.v |-> json_to_val[t.p][j.v[i]]]
  <2>1. v.k = "list" /\ v = [k |-> "list", v |-> v.v] /\ v.v \in Seq(Carried[t.p])
    BY <1>7 DEF ValuesOf
  <2>2. j.k = "arr" /\ j.v = shown
    <3>1. j = Json("arr", shown)
      BY <1>1, <2>1 DEF Lifted
    <3> HIDE DEF shown, j
    <3> QED
      BY <3>1 DEF Json
  <2>3. r = All("list", rs)
    <3>1. r = Check(j.k = "arr", All("list", rs))
      BY <1>7 DEF Lowered
    <3> QED
      BY <2>2, <3>1 DEF Check
  <2>4. ASSUME NEW i \in DOMAIN v.v
        PROVE  json_to_val[t.p][val_to_json[v.v[i]]] = Ok(v.v[i])
    <3>1. v.v[i] \in ValParts(v) /\ t.p \in TypeParts(t) /\ v.v[i] \in Carried[t.p]
      BY <1>7, <2>1 DEF ValParts, TypeParts, ToSet
    <3> QED
      BY <3>1, TreeAssumption, TypeAssumption
  <2>5. DOMAIN rs = DOMAIN v.v /\ \A i \in DOMAIN v.v : rs[i] = Ok(v.v[i])
    <3> HIDE DEF j
    <3> QED
      BY <2>2, <2>4
  <2>6. r = Ok([k |-> "list", v |-> v.v])
    <3> HIDE DEF rs, r, j, shown
    <3> QED
      BY <2>1, <2>3, <2>5, AllBack
  <2> QED
    BY <2>1, <2>6
<1>8. CASE t.k = "record"
  <2> DEFINE N == {f[1] : f \in ToSet(v.v)}
             F(n) == CHOOSE f \in ToSet(v.v) : f[1] = n
             shown == [n \in N |-> val_to_json[F(n)[2]]]
             Ss == [i \in DOMAIN t.p |-> {t.p[i][1]} \X Carried[t.p[i][2]]]
             rs == [i \in DOMAIN t.p |-> json_to_val[t.p[i][2]][j.v[t.p[i][1]]]]
             a == All("record", rs)
             ws == [i \in DOMAIN t.p |-> v.v[i][2]]
  <2>1. v.k = "record" /\ v = [k |-> "record", v |-> v.v] /\ v.v \in Product(Ss)
    <3>1. ValuesOf(Carried, t, TRUE) = [k : {t.k}, v : Product(Ss)]
      BY <1>8 DEF ValuesOf
    <3> HIDE DEF Ss
    <3> QED
      BY <1>8, <3>1, TaggedFacts
  <2>2. DOMAIN v.v = DOMAIN t.p /\ \A i \in DOMAIN t.p : v.v[i] \in Ss[i]
    <3>1. DOMAIN Ss = DOMAIN t.p
      OBVIOUS
    <3> HIDE DEF Ss
    <3> QED
      BY <2>1, <3>1 DEF Product
  <2>3. v.v = [i \in DOMAIN t.p |-> v.v[i]]
    <3>1. DOMAIN Ss = DOMAIN t.p
      OBVIOUS
    <3> HIDE DEF Ss
    <3> QED
      BY <2>1, <2>2, <3>1 DEF Product
  <2>4. ASSUME NEW i \in DOMAIN t.p
        PROVE  v.v[i] = <<t.p[i][1], ws[i]>> /\ ws[i] \in Carried[t.p[i][2]]
    <3>1. v.v[i] \in {t.p[i][1]} \X Carried[t.p[i][2]] /\ ws[i] = v.v[i][2]
      BY <2>2
    <3> HIDE DEF ws
    <3> QED
      BY <3>1
  <2>5. \A i, k \in DOMAIN t.p : t.p[i][1] = t.p[k][1] => i = k
    BY <1>8, TypeAssumption DEF IsInjective, CaseNames
  <2>6. ASSUME NEW i \in DOMAIN t.p
        PROVE  t.p[i][1] \in N /\ F(t.p[i][1]) = v.v[i]
    <3>1. v.v[i] \in ToSet(v.v) /\ v.v[i][1] = t.p[i][1]
      BY <2>2, <2>4 DEF ToSet
    <3>2. ASSUME NEW f \in ToSet(v.v), f[1] = t.p[i][1]
          PROVE  f = v.v[i]
      <4>1. PICK k \in DOMAIN t.p : f = v.v[k]
        BY <2>2 DEF ToSet
      <4>2. v.v[k] = <<t.p[k][1], ws[k]>>
        BY <2>4
      <4>3. t.p[k][1] = t.p[i][1]
        <5> HIDE DEF ws
        <5> QED
          BY <3>2, <4>1, <4>2
      <4> QED
        BY <2>5, <4>1, <4>3
    <3> QED
      BY <3>1, <3>2
  <2>7. j.k = "obj" /\ j.v = shown
    <3>1. j = Json("obj", shown)
      BY <1>1, <2>1 DEF Lifted, Object
    <3> HIDE DEF shown, j
    <3> QED
      BY <3>1 DEF Json
  <2>8. ASSUME NEW i \in DOMAIN t.p
        PROVE  t.p[i][1] \in DOMAIN j.v /\ rs[i] = Ok(ws[i])
    <3>1. shown[t.p[i][1]] = val_to_json[ws[i]] /\ t.p[i][1] \in DOMAIN shown
      <4> HIDE DEF F, N
      <4> QED
        BY <2>6
    <3>2. v.v[i][2] \in ValParts(v) /\ t.p[i][2] \in TypeParts(t)
      BY <1>8, <2>1, <2>2 DEF ValParts, TypeParts, ToSet
    <3>3. ws[i] \in Vals
      BY <3>2, TreeAssumption, TypeAssumption
    <3>4. json_to_val[t.p[i][2]][val_to_json[ws[i]]] = Ok(ws[i])
      BY <2>4, <3>2, <3>3
    <3> HIDE DEF shown, ws, j
    <3> QED
      BY <2>7, <3>1, <3>4
  <2>9. a = Ok([k |-> "record", v |-> ws])
    <3>1. DOMAIN rs = DOMAIN t.p /\ DOMAIN ws = DOMAIN t.p /\ ws = [i \in DOMAIN t.p |-> ws[i]]
      OBVIOUS
    <3> HIDE DEF rs, ws
    <3> QED
      BY <2>8, <3>1, AllBack
  <2>10. r = Ok([k |-> "record", v |-> [i \in DOMAIN t.p |-> <<t.p[i][1], a.v.v[i]>>]])
    <3>1. r = Check(j.k = "obj" /\ \A i \in DOMAIN t.p : t.p[i][1] \in DOMAIN j.v,
                    Check(a.ok, Ok([k |-> t.k, v |-> [i \in DOMAIN t.p |-> <<t.p[i][1], a.v.v[i]>>]])))
      BY <1>8 DEF Lowered
    <3>2. a.ok
      <4> HIDE DEF a, ws
      <4> QED
        BY <2>9 DEF Ok
    <3> HIDE DEF r, a, j
    <3> QED
      BY <1>8, <2>7, <2>8, <3>1, <3>2 DEF Check
  <2>11. a.v.v = ws
    <3> HIDE DEF a, ws
    <3> QED
      BY <2>9 DEF Ok
  <2>12. [i \in DOMAIN t.p |-> <<t.p[i][1], a.v.v[i]>>] = [i \in DOMAIN t.p |-> v.v[i]]
    <3> HIDE DEF a, ws
    <3> QED
      BY <2>4, <2>11
  <2> HIDE DEF r, a
  <2> QED
    BY <2>1, <2>3, <2>10, <2>12 DEF r
<1>9. CASE t.k = "tuple"
  <2> DEFINE shown == [i \in DOMAIN v.v |-> val_to_json[v.v[i]]]
             Ss == [i \in DOMAIN t.p |-> Carried[t.p[i]]]
             rs == [i \in DOMAIN t.p |-> json_to_val[t.p[i]][j.v[i]]]
  <2>1. v.k = "tuple" /\ v = [k |-> "tuple", v |-> v.v] /\ v.v \in Product(Ss)
    <3>1. ValuesOf(Carried, t, TRUE) = [k : {t.k}, v : Product(Ss)]
      BY <1>9 DEF ValuesOf
    <3> HIDE DEF Ss
    <3> QED
      BY <1>9, <3>1, TaggedFacts
  <2>2. /\ DOMAIN v.v = DOMAIN t.p /\ \A i \in DOMAIN t.p : v.v[i] \in Carried[t.p[i]]
        /\ v.v \in Seq(Vals) /\ t.p \in Seq(ValTypes)
    <3>1. DOMAIN Ss = DOMAIN t.p
      OBVIOUS
    <3>2. DOMAIN v.v = DOMAIN Ss /\ \A i \in DOMAIN Ss : v.v[i] \in Ss[i]
      <4> HIDE DEF Ss
      <4> QED
        BY <2>1 DEF Product
    <3> QED
      BY <1>9, <2>1, <3>1, <3>2, TreeAssumption, TypeAssumption
  <2>3. j.k = "arr" /\ j.v = shown
    <3>1. j = Json("arr", shown)
      BY <1>1, <2>1 DEF Lifted
    <3> HIDE DEF shown, j
    <3> QED
      BY <3>1 DEF Json
  <2>4. Len(j.v) = Len(t.p)
    <3>1. Len(v.v) \in Nat /\ DOMAIN v.v = 1..Len(v.v) /\ Len(t.p) \in Nat /\ DOMAIN t.p = 1..Len(t.p)
      BY <2>2
    <3>2. Len(v.v) = Len(t.p)
      BY <2>2, <3>1, SameLength
    <3>3. shown = [i \in 1..Len(v.v) |-> val_to_json[v.v[i]]]
      BY <3>1
    <3>4. Len(shown) = Len(v.v)
      <4> HIDE DEF shown
      <4> QED
        BY <3>1, <3>3
    <3> HIDE DEF shown, j
    <3> QED
      BY <2>3, <3>2, <3>4
  <2>5. r = All("tuple", rs)
    <3>1. r = Check(j.k = "arr" /\ Len(j.v) = Len(t.p), All("tuple", rs))
      BY <1>9 DEF Lowered
    <3> HIDE DEF rs, j
    <3> QED
      BY <2>3, <2>4, <3>1 DEF Check
  <2>6. ASSUME NEW i \in DOMAIN t.p
        PROVE  rs[i] = Ok(v.v[i])
    <3>1. v.v[i] \in ValParts(v) /\ t.p[i] \in TypeParts(t)
      BY <1>9, <2>1, <2>2 DEF ValParts, TypeParts, ToSet
    <3>2. json_to_val[t.p[i]][val_to_json[v.v[i]]] = Ok(v.v[i])
      BY <2>2, <3>1, TreeAssumption, TypeAssumption
    <3> HIDE DEF j
    <3> QED
      BY <2>2, <2>3, <3>2
  <2>7. r = Ok([k |-> "tuple", v |-> v.v])
    <3>1. DOMAIN rs = DOMAIN v.v /\ v.v = [i \in DOMAIN v.v |-> v.v[i]]
      BY <2>2
    <3> HIDE DEF rs, r, j
    <3> QED
      BY <2>2, <2>5, <2>6, <3>1, AllBack
  <2> QED
    BY <2>1, <2>7
<1>10. CASE t.k = "option"
  <2>1. v.k = "option" /\ v = [k |-> "option", v |-> v.v]
        /\ (v.v = <<>> \/ \E w \in Carried[t.p] : v.v = <<w>> /\ w # None)
    BY <1>10 DEF ValuesOf, None
  <2>2. CASE v.v = <<>>
    <3>1. j = Null
      BY <1>1, <2>1, <2>2 DEF Lifted
    <3>2. j.k = "null"
      BY <3>1 DEF Null, Json
    <3>3. r = Ok([k |-> t.k, v |-> <<>>])
      BY <1>10, <3>2 DEF Lowered
    <3> QED
      BY <1>10, <2>1, <2>2, <3>3
  <2>3. CASE v.v # <<>>
    <3>1. PICK w \in Carried[t.p] : v.v = <<w>> /\ w # None
      BY <2>1, <2>3
    <3>2. j = val_to_json[w]
      BY <1>1, <2>1, <2>3, <3>1 DEF Lifted
    <3>3. w \in ValParts(v) /\ t.p \in TypeParts(t)
      BY <1>10, <2>1, <3>1 DEF ValParts, TypeParts, ToSet
    <3>4. w \in Vals /\ t.p \in ValTypes
      BY <3>3, TreeAssumption, TypeAssumption
    <3>5. j.k # "null" /\ json_to_val[t.p][j] = Ok(w)
      BY <3>1, <3>2, <3>3, <3>4, ShownNotNull
    <3>6. r = All("option", <<json_to_val[t.p][j]>>)
      BY <1>10, <3>5 DEF Lowered
    <3>7. r = All("option", <<Ok(w)>>)
      BY <3>5, <3>6
    <3>8. /\ DOMAIN <<Ok(w)>> = DOMAIN <<w>>
          /\ \A i \in DOMAIN <<w>> : <<Ok(w)>>[i] = Ok(<<w>>[i])
          /\ <<w>> = [i \in DOMAIN <<w>> |-> <<w>>[i]]
      OBVIOUS
    <3>9. r = Ok([k |-> "option", v |-> <<w>>])
      BY <3>7, <3>8, AllBack
    <3> QED
      BY <2>1, <3>1, <3>9
  <2> QED
    BY <2>2, <2>3
<1>11. CASE t.k \notin IntKinds \cup Floats
                       \cup {"bool", "char", "string", "list", "record", "tuple", "option"}
  BY <1>11 DEF ValuesOf
<1> QED
  BY <1>2, <1>3, <1>4, <1>5, <1>6, <1>7, <1>8, <1>9, <1>10, <1>11

(* val_to_json and json_to_val: what JSON carries comes back the same.     *)
LEMMA Back ==
  ASSUME NEW t \in ValTypes, NEW v \in Vals, v \in Carried[t]
  PROVE  json_to_val[t][val_to_json[v]] = Ok(v)
<1> DEFINE Right(u) == \A w \in Vals : w \in Carried[u] => json_to_val[u][val_to_json[w]] = Ok(w)
           S == {d \in Nat : \A u \in ValTypes : Depth(u) = d => Right(u)}
<1>1. ASSUME NEW d \in Nat, \A c \in Nat : c < d => c \in S
      PROVE  d \in S
  <2> SUFFICES ASSUME NEW u \in ValTypes, Depth(u) = d
               PROVE  Right(u)
    OBVIOUS
  <2>1. ASSUME NEW p \in TypeParts(u)
        PROVE  Right(p)
    <3>1. p \in ValTypes /\ Depth(p) \in Nat /\ Depth(p) < d
      BY TreeAssumption, TypeAssumption
    <3> HIDE DEF Right
    <3> QED
      BY <1>1, <3>1
  <2>2. ASSUME NEW w \in Vals, w \in Carried[u]
        PROVE  json_to_val[u][val_to_json[w]] = Ok(w)
    <3>1. val_to_json[w] \in Jsons /\ w \in ValuesOf(Carried, u, TRUE)
      BY <2>2, JsonAssumption, TypeUnfolded
    <3>2. json_to_val[u][val_to_json[w]] = Lowered(json_to_val, u, val_to_json[w])
      BY <3>1, TypeUnfolded
    <3>3. Lowered(json_to_val, u, val_to_json[w]) = Ok(w)
      BY <2>1, <3>1, BackOneLevel
    <3> QED
      BY <3>2, <3>3
  <2> QED
    BY <2>2
<1>2. \A d \in Nat : d \in S
  <2> HIDE DEF S
  <2> QED
    BY <1>1, Induction
<1> QED
  BY <1>2, TreeAssumption, TypeAssumption

-----------------------------------------------------------------------------
(* The call.                                                               *)

(* handle_id: the handle of the panel is the one the runtime gave out,     *)
(* which a double holds as it is no wider than 32 bits.                    *)
LEMMA HandleArrives ==
  ASSUME NEW h \in Handles
  PROVE  h \in 0..High("u32") /\ handle_id(HandleJson(h)) = Ok(h)
<1>1. /\ "u32" \in IntKinds /\ "u32" \notin SignedKinds /\ Width["u32"] \in Nat
      /\ Width["u32"] <= Safe /\ Safe \in Nat /\ h \in 0..(2^Width["u32"] - 1)
  BY WidthAssumption DEF IntKinds, SignedKinds, UnsignedKinds
<1>2. 2^Width["u32"] \in Nat /\ 2^Safe \in Nat /\ 2^Width["u32"] <= 2^Safe /\ 2^(Safe + 1) = 2 * 2^Safe
  BY <1>1, PowNat, PowMono, PowSucc
<1>3. h \in Nat /\ h <= 2^Safe /\ h \in 0..High("u32") /\ h \in Low("u32")..High("u32")
  BY <1>1, <1>2 DEF Low, High
<1>4. Double(2 * h) = 2 * h
  BY <1>2, <1>3, DoubleExact
<1>5. (2 * h) % 2 = 0 /\ (2 * h) \div 2 = h /\ 2 * h >= 0
  BY <1>3
<1>6. Cast(h, "u32") = h
  BY <1>1, <1>3, CastSame
<1> DEFINE j == HandleJson(h)
           n == Json("num", 2 * h)
<1>7. j.k = "obj" /\ "$handle" \in DOMAIN j.v /\ j.v["$handle"] = n
  BY DEF HandleJson, Object, Json
<1>8. n.k = "num" /\ n.v = 2 * h
  BY DEF Json
<1> HIDE DEF j, n
<1>9. handle_id(j) = Ok(h)
  BY <1>4, <1>5, <1>6, <1>7, <1>8 DEF handle_id, Check
<1> QED
  BY <1>3, <1>9 DEF j

(* convert_args: a call that is made has an argument of its type for every *)
(* parameter.                                                              *)
LEMMA ConvertFits ==
  ASSUME NEW ts \in Seq(ValTypes), NEW args \in Seq(Jsons), convert_args(ts, args).ok
  PROVE  /\ DOMAIN convert_args(ts, args).v.v = DOMAIN ts
         /\ \A i \in DOMAIN ts : convert_args(ts, args).v.v[i] \in Fits[ts[i]]
<1> DEFINE rs == [i \in DOMAIN ts |-> json_to_val[ts[i]][args[i]]]
           vs == [i \in DOMAIN ts |-> rs[i].v]
           c == convert_args(ts, args)
<1>1. Len(ts) = Len(args) /\ c = All("args", rs)
  <2>1. c = Check(Len(ts) = Len(args), All("args", rs))
    BY DEF convert_args
  <2> HIDE DEF rs
  <2> QED
    BY <2>1 DEF Check, Err
<1>2. DOMAIN rs = DOMAIN ts
  OBVIOUS
<1>3. c.v = [k |-> "args", v |-> vs] /\ \A i \in DOMAIN ts : rs[i].ok
  <2> HIDE DEF rs, c
  <2> QED
    BY <1>1, <1>2, AllFacts DEF c
<1>4. ASSUME NEW i \in DOMAIN ts
      PROVE  vs[i] \in Fits[ts[i]]
  <2>1. ts[i] \in ValTypes /\ args[i] \in Jsons
    BY <1>1
  <2>2. json_to_val[ts[i]][args[i]].ok /\ vs[i] = json_to_val[ts[i]][args[i]].v
    BY <1>3
  <2> QED
    BY <2>1, <2>2, LoweredHasType
<1>5. c.v.v = vs /\ DOMAIN vs = DOMAIN ts
  <2>1. c.v.v = vs
    <3> HIDE DEF c, vs
    <3> QED
      BY <1>3
  <2> QED
    BY <2>1
<1> HIDE DEF vs, c
<1> QED
  BY <1>4, <1>5 DEF c

(* convert_args: what is shown arrives, when JSON carries it.              *)
LEMMA ConvertBack ==
  ASSUME NEW ts \in Seq(ValTypes), NEW vs \in Seq(Vals), Len(ts) = Len(vs),
         \A i \in DOMAIN ts : vs[i] \in Carried[ts[i]]
  PROVE  convert_args(ts, [i \in DOMAIN vs |-> val_to_json[vs[i]]]) = Ok([k |-> "args", v |-> vs])
<1> DEFINE shown == [i \in DOMAIN vs |-> val_to_json[vs[i]]]
           rs == [i \in DOMAIN ts |-> json_to_val[ts[i]][shown[i]]]
<1>1. DOMAIN ts = 1..Len(ts) /\ DOMAIN vs = 1..Len(ts) /\ Len(ts) \in Nat
  OBVIOUS
<1>2. Len(shown) = Len(ts)
  <2>1. shown = [i \in 1..Len(ts) |-> val_to_json[vs[i]]]
    BY <1>1
  <2> HIDE DEF shown
  <2> QED
    BY <1>1, <2>1
<1>3. ASSUME NEW i \in DOMAIN ts
      PROVE  rs[i] = Ok(vs[i])
  <2>1. ts[i] \in ValTypes /\ vs[i] \in Vals /\ shown[i] = val_to_json[vs[i]]
    BY <1>1
  <2> HIDE DEF shown
  <2> QED
    BY <2>1, Back
<1>4. convert_args(ts, shown) = All("args", rs)
  <2>1. convert_args(ts, shown) = Check(Len(ts) = Len(shown), All("args", rs))
    BY DEF convert_args
  <2> HIDE DEF shown, rs
  <2> QED
    BY <1>2, <2>1 DEF Check
<1>5. DOMAIN rs = DOMAIN vs /\ vs = [i \in DOMAIN vs |-> vs[i]]
  BY <1>1
<1> HIDE DEF shown, rs
<1>6. All("args", rs) = Ok([k |-> "args", v |-> vs])
  BY <1>1, <1>3, <1>5, AllBack
<1> QED
  BY <1>4, <1>6 DEF shown

(* A call on its way: up to its submission the first argument is the       *)
(* handle and the others are JSON, one for each parameter, and as shown    *)
(* until one is typed anew; nothing is lowered before.                     *)
FormInv ==
  /\ form = [case |-> form.case, handle |-> form.handle, at |-> form.at,
             args |-> form.args, vals |-> form.vals]
  /\ form.case \in DOMAIN Held /\ form.handle \in Handles
  /\ form.at \in {"held", "typed", "edited", "submitted", "ended"}
  /\ form.at \in {"held", "typed", "edited"} => form.vals = Err
  /\ At("typed") => form.args = <<HandleJson(form.handle)>> \o Shown
  /\ At("edited") => /\ Tail(form.args) \in Seq(Jsons) /\ Len(Tail(form.args)) = Len(ArgTypes)
                     /\ form.args = <<HandleJson(form.handle)>> \o Tail(form.args)

(* The inductive invariant: the two properties and what they rest on.      *)
CallInv == FormInv /\ LoweredFits /\ TypedBackArrives

(* Head and tail of the arguments with the handle in front.                *)
LEMMA HeadAndTail ==
  ASSUME NEW a, NEW S, NEW x \in Seq(S)
  PROVE  (<<a>> \o x)[1] = a /\ Tail(<<a>> \o x) = x
<1> DEFINE T == S \cup {a}
<1>1. x \in Seq(T) /\ <<a>> \in Seq(T)
  OBVIOUS
<1> HIDE DEF T
<1> QED
  BY <1>1

(* To edit a parameter is to edit the arguments one place on.              *)
LEMMA EditedArgs ==
  ASSUME NEW a, NEW S, NEW x \in Seq(S), NEW i \in DOMAIN x, NEW j \in S
  PROVE  [<<a>> \o x EXCEPT ![i + 1] = j] = <<a>> \o [x EXCEPT ![i] = j]
<1> DEFINE T == S \cup {a}
           u == <<a>> \o x
           y == [x EXCEPT ![i] = j]
           w == <<a>> \o y
<1>1. x \in Seq(T) /\ <<a>> \in Seq(T) /\ y \in Seq(T) /\ i \in 1..Len(x) /\ j \in T
  OBVIOUS
<1>2. Len(y) = Len(x) /\ \A n \in 1..Len(x) : y[n] = IF n = i THEN j ELSE x[n]
  OBVIOUS
<1> HIDE DEF T, y
<1>3. /\ u \in Seq(T) /\ Len(u) = Len(x) + 1 /\ u[1] = a
      /\ \A n \in 1..Len(x) : u[n + 1] = x[n]
  BY <1>1
<1>4. /\ w \in Seq(T) /\ Len(w) = Len(x) + 1 /\ w[1] = a
      /\ \A n \in 1..Len(x) : w[n + 1] = y[n]
  BY <1>1, <1>2
<1> DEFINE z == [u EXCEPT ![i + 1] = j]
<1> HIDE DEF u, w
<1>5. DOMAIN u = 1..(Len(x) + 1) /\ DOMAIN w = 1..(Len(x) + 1) /\ Len(x) \in Nat
  BY <1>1, <1>3, <1>4
<1>6. \A m \in 1..(Len(x) + 1) : z[m] = w[m]
  <2> SUFFICES ASSUME NEW m \in 1..(Len(x) + 1)
               PROVE  z[m] = w[m]
    OBVIOUS
  <2>1. CASE m = 1
    BY <1>1, <1>3, <1>4, <1>5, <2>1
  <2>2. CASE m # 1
    <3>1. m - 1 \in 1..Len(x) /\ (m - 1) + 1 = m
      BY <1>5, <2>2
    <3>2. u[m] = x[m - 1] /\ w[m] = y[m - 1]
      BY <1>3, <1>4, <3>1
    <3>3. y[m - 1] = IF m = i + 1 THEN j ELSE x[m - 1]
      BY <1>1, <1>2, <3>1
    <3>4. z[m] = IF m = i + 1 THEN j ELSE u[m]
      BY <1>5
    <3> QED
      BY <3>2, <3>3, <3>4
  <2> QED
    BY <2>1, <2>2
<1>7. z = [m \in 1..(Len(x) + 1) |-> z[m]] /\ w = [m \in 1..(Len(x) + 1) |-> w[m]]
  <2>1. z = [m \in DOMAIN u |-> z[m]] /\ w = [m \in 1..Len(w) |-> w[m]]
    BY <1>4
  <2> HIDE DEF z
  <2> QED
    BY <1>4, <1>5, <2>1
<1>8. z = w
  <2> HIDE DEF z
  <2> QED
    BY <1>6, <1>7
<1> QED
  BY <1>8 DEF u, w, y

(* What is shown is JSON, one value for each parameter.                    *)
LEMMA ShownFacts ==
  ASSUME form.case \in DOMAIN Held
  PROVE  /\ ArgTypes \in Seq(ValTypes) /\ ArgVals \in Seq(Vals) /\ Len(ArgTypes) = Len(ArgVals)
         /\ Shown \in Seq(Jsons) /\ Len(Shown) = Len(ArgTypes)
<1>1. ArgTypes \in Seq(ValTypes) /\ ArgVals \in Seq(Vals) /\ Len(ArgTypes) = Len(ArgVals)
  BY HeldAssumption DEF ArgTypes, ArgVals
<1>2. DOMAIN ArgVals = 1..Len(ArgVals) /\ Len(ArgVals) \in Nat
  BY <1>1
<1>3. \A i \in 1..Len(ArgVals) : val_to_json[ArgVals[i]] \in Jsons
  BY <1>1, JsonAssumption
<1>4. Shown = [i \in 1..Len(ArgVals) |-> val_to_json[ArgVals[i]]]
  BY <1>2 DEF Shown
<1> QED
  BY <1>1, <1>2, <1>3, <1>4

(* The invariant holds when a call starts,                                 *)
LEMMA CallInit == JInit => CallInv
<1> SUFFICES ASSUME JInit PROVE CallInv
  OBVIOUS
<1>1. PICK c \in DOMAIN Held, h \in Handles :
        form = [case |-> c, handle |-> h, at |-> "held", args |-> <<>>, vals |-> Err]
  BY DEF JInit
<1>2. form.at = "held" /\ form.vals = Err /\ form.case \in DOMAIN Held /\ form.handle \in Handles
  BY <1>1
<1>3. FormInv
  BY <1>1, <1>2 DEF FormInv, At
<1>4. LoweredFits /\ TypedBackArrives
  BY <1>2 DEF LoweredFits, TypedBackArrives, At, Err
<1> QED
  BY <1>3, <1>4 DEF CallInv

(* no step of a call breaks it,                                            *)
LEMMA CallStep == CallInv /\ [JNext]_form => CallInv'
<1> SUFFICES ASSUME CallInv, [JNext]_form PROVE CallInv'
  OBVIOUS
<1> USE DEF CallInv
<1>1. CASE TypeBack
  <2>1. /\ form.at = "held"
        /\ form' = [form EXCEPT !.at = "typed", !.args = <<HandleJson(form.handle)>> \o Shown]
    BY <1>1 DEF TypeBack, At
  <2>2. /\ form'.case = form.case /\ form'.handle = form.handle /\ form'.at = "typed"
        /\ form'.args = <<HandleJson(form.handle)>> \o Shown /\ form'.vals = Err
        /\ form' = [case |-> form'.case, handle |-> form'.handle, at |-> form'.at,
                    args |-> form'.args, vals |-> form'.vals]
    BY <2>1 DEF FormInv
  <2>3. Shown' = Shown
    BY <2>2 DEF Shown, ArgVals
  <2>4. FormInv'
    BY <2>2, <2>3 DEF FormInv, At
  <2>5. LoweredFits' /\ TypedBackArrives'
    BY <2>2 DEF LoweredFits, TypedBackArrives, At, Err
  <2> QED
    BY <2>4, <2>5
<1>2. ASSUME NEW i \in DOMAIN ArgTypes, NEW j \in Entries, TypeOther(i, j)
      PROVE  CallInv'
  <2>1. /\ form.at = "typed" /\ form.args = <<HandleJson(form.handle)>> \o Shown
        /\ form' = [form EXCEPT !.at = "edited", !.args[i + 1] = j]
    BY <1>2 DEF TypeOther, At, FormInv
  <2> DEFINE x == [Shown EXCEPT ![i] = j]
  <2>2. /\ form'.case = form.case /\ form'.handle = form.handle /\ form'.at = "edited"
        /\ form'.args = [form.args EXCEPT ![i + 1] = j] /\ form'.vals = Err
        /\ form' = [case |-> form'.case, handle |-> form'.handle, at |-> form'.at,
                    args |-> form'.args, vals |-> form'.vals]
    BY <2>1 DEF FormInv
  <2>3. Shown \in Seq(Jsons) /\ Len(Shown) = Len(ArgTypes) /\ ArgTypes \in Seq(ValTypes) /\ j \in Jsons
    BY ShownFacts, JsonAssumption DEF FormInv
  <2>4. i \in DOMAIN Shown
    BY <2>3
  <2>5. x \in Seq(Jsons) /\ Len(x) = Len(ArgTypes)
    BY <2>3, <2>4
  <2>6. form'.args = <<HandleJson(form.handle)>> \o x
    BY <2>1, <2>2, <2>3, <2>4, EditedArgs, SMTT(30)
  <2> HIDE DEF x
  <2>7. Tail(form'.args) = x
    BY <2>5, <2>6, HeadAndTail
  <2>8. ArgTypes' = ArgTypes
    BY <2>2 DEF ArgTypes
  <2>9. FormInv'
    BY <2>2, <2>5, <2>6, <2>7, <2>8 DEF FormInv, At
  <2>10. LoweredFits' /\ TypedBackArrives'
    BY <2>2 DEF LoweredFits, TypedBackArrives, At, Err
  <2> QED
    BY <2>9, <2>10
<1>3. CASE Submit
  <2> DEFINE x == Tail(form.args)
             h == handle_id(form.args[1])
             c == convert_args(ArgTypes, x)
             r == Check(h.ok, c)
             vals == Check(r.ok, Ok(<<h.v, r.v.v>>))
  <2>1. /\ form.at \in {"typed", "edited"}
        /\ form' = [form EXCEPT !.vals = vals, !.at = IF At("typed") THEN "submitted" ELSE "ended"]
    BY <1>3 DEF Submit, At
  <2>2. ArgTypes \in Seq(ValTypes) /\ ArgVals \in Seq(Vals) /\ Len(ArgTypes) = Len(ArgVals)
        /\ Shown \in Seq(Jsons) /\ Len(Shown) = Len(ArgTypes)
    BY ShownFacts DEF FormInv
  <2>3. /\ form.args[1] = HandleJson(form.handle) /\ x \in Seq(Jsons)
        /\ At("typed") => x = Shown
    <3>1. CASE At("typed")
      <4>1. form.args = <<HandleJson(form.handle)>> \o Shown
        BY <3>1 DEF FormInv
      <4> QED
        BY <2>2, <4>1, HeadAndTail
    <3>2. CASE At("edited")
      <4>1. x \in Seq(Jsons) /\ form.args = <<HandleJson(form.handle)>> \o x
        BY <3>2 DEF FormInv
      <4>2. form.args[1] = HandleJson(form.handle)
        <5> HIDE DEF x
        <5> QED
          BY <4>1, HeadAndTail
      <4> QED
        BY <3>2, <4>1, <4>2 DEF At
    <3> QED
      BY <2>1, <3>1, <3>2 DEF At
  <2> HIDE DEF x
  <2>4. form.handle \in 0..High("u32") /\ h = Ok(form.handle)
    BY <2>3, HandleArrives DEF FormInv
  <2>5. r = c /\ h.v = form.handle
    <3> HIDE DEF h, c
    <3> QED
      BY <2>4 DEF Ok, Check
  <2>6. /\ form'.case = form.case /\ form'.handle = form.handle
        /\ form'.at = IF At("typed") THEN "submitted" ELSE "ended"
        /\ form'.args = form.args /\ form'.vals = vals
        /\ form' = [case |-> form'.case, handle |-> form'.handle, at |-> form'.at,
                    args |-> form'.args, vals |-> form'.vals]
    <3> HIDE DEF vals
    <3> QED
      BY <2>1 DEF FormInv
  <2>7. ArgTypes' = ArgTypes /\ ArgVals' = ArgVals
    BY <2>6 DEF ArgTypes, ArgVals
  <2> HIDE DEF h, r, c
  <2>8. FormInv'
    <3> HIDE DEF vals
    <3> QED
      BY <2>6 DEF FormInv, At
  <2>9. LoweredFits'
    <3>1. CASE c.ok
      <4>1. vals = Ok(<<form.handle, c.v.v>>)
        BY <2>5, <3>1 DEF Check
      <4>2. DOMAIN c.v.v = DOMAIN ArgTypes /\ \A i \in DOMAIN ArgTypes : c.v.v[i] \in Fits[ArgTypes[i]]
        BY <2>2, <2>3, <3>1, ConvertFits DEF c
      <4>3. form'.vals.v[1] = form.handle /\ form'.vals.v[2] = c.v.v
        <5> HIDE DEF vals
        <5> QED
          BY <2>6, <4>1 DEF Ok
      <4> HIDE DEF vals
      <4> QED
        BY <2>4, <2>7, <4>2, <4>3 DEF LoweredFits
    <3>2. CASE ~ c.ok
      <4>1. vals = Err
        BY <2>5, <3>2 DEF Check
      <4> HIDE DEF vals
      <4> QED
        BY <2>6, <4>1 DEF LoweredFits, Err
    <3> QED
      BY <3>1, <3>2
  <2>10. TypedBackArrives'
    <3> SUFFICES ASSUME form'.at = "submitted",
                        \A i \in DOMAIN ArgTypes : ArgVals[i] \in Carried[ArgTypes[i]]
                 PROVE  form'.vals = Ok(<<form.handle, ArgVals>>)
      BY <2>6, <2>7 DEF TypedBackArrives, At
    <3>1. x = Shown
      BY <2>1, <2>3, <2>6
    <3>2. c = Ok([k |-> "args", v |-> ArgVals])
      BY <2>2, <3>1, ConvertBack DEF Shown, c
    <3>3. c.ok /\ c.v.v = ArgVals
      BY <3>2 DEF Ok
    <3>4. vals = Ok(<<form.handle, ArgVals>>)
      BY <2>5, <3>3 DEF Check
    <3> HIDE DEF vals
    <3> QED
      BY <2>6, <3>4
  <2> QED
    BY <2>8, <2>9, <2>10
<1>4. CASE UNCHANGED form
  BY <1>4 DEF FormInv, LoweredFits, TypedBackArrives, At, Shown, ArgTypes, ArgVals
<1> QED
  BY <1>1, <1>2, <1>3, <1>4 DEF JNext

(* and so it always holds.                                                 *)
LEMMA CallInvariant == JSpec => []CallInv
<1> QED
  BY CallInit, CallStep, PTL DEF JSpec

(* Whatever JSON is typed, the guest is called on a 32-bit handle with a   *)
(* value of the parameter type for every parameter, at every nesting of    *)
(* types and values and every width (json_to_val, handle_id, convert_args).*)
THEOREM GuestGetsItsTypes == JSpec => []LoweredFits
<1> QED
  BY CallInvariant, PTL DEF CallInv

(* What the page shows and the user types back arrives as the values the   *)
(* runtime holds, on the UTXO whose panel it is, whenever JSON can carry   *)
(* them: integers of up to Safe bits and the last one of the 64-bit types, *)
(* finite floats, and no Some(None) at any depth.                          *)
THEOREM ShownValuesArrive == JSpec => []TypedBackArrives
<1> QED
  BY CallInvariant, PTL DEF CallInv


-----------------------------------------------------------------------------
(* The functions of the codec.                                             *)

(* They are what their definitions say.                                    *)
LEMMA CodecDefined ==
  /\ HasType = [t \in ValTypes |-> TypedAs(HasType, t)]
  /\ Encode = [t \in ValTypes |-> [v \in HasType[t] |-> Written(Encode, t, v)]]
  /\ Decode = [t \in ValTypes |-> [b \in Stream |-> ReadAs(Decode, t, b)]]
<1>1. HasType = [t \in ValTypes |-> TypedAs(HasType, t)]
  <2>1. \E f : f = [x \in Dom(Recursion("type")) |-> Level(Recursion("type"), f, x)]
    BY SolutionExists DEF Rec, Recursion, Plain
  <2>2. \E f : f = [t \in ValTypes |-> TypedAs(f, t)]
    BY <2>1 DEF Dom, Level, Recursion
  <2> QED
    BY <2>2 DEF HasType
<1>2. Encode = [t \in ValTypes |-> [v \in HasType[t] |-> Written(Encode, t, v)]]
  <2>1. \E f : f = [x \in Dom(Recursion("encode")) |-> Level(Recursion("encode"), f, x)]
    BY SolutionExists DEF Rec, Recursion, Plain
  <2>2. \E f : f = [t \in ValTypes |-> [v \in HasType[t] |-> Written(f, t, v)]]
    BY <2>1 DEF Dom, Level, Recursion
  <2> QED
    BY <2>2 DEF Encode
<1>3. Decode = [t \in ValTypes |-> [b \in Stream |-> ReadAs(Decode, t, b)]]
  <2>1. \E f : f = [x \in Dom(Recursion("decode")) |-> Level(Recursion("decode"), f, x)]
    BY SolutionExists DEF Rec, Recursion, Plain
  <2>2. \E f : f = [t \in ValTypes |-> [b \in Stream |-> ReadAs(f, t, b)]]
    BY <2>1 DEF Dom, Level, Recursion
  <2> QED
    BY <2>2 DEF Decode
<1> QED
  BY <1>1, <1>2, <1>3

(* The same at one argument.                                               *)
LEMMA CodecUnfolded ==
  ASSUME NEW t \in ValTypes
  PROVE  /\ HasType[t] = TypedAs(HasType, t)
         /\ \A v \in HasType[t] : Encode[t][v] = Written(Encode, t, v)
         /\ \A b \in Stream : Decode[t][b] = ReadAs(Decode, t, b)
<1> DEFINE T(u) == TypedAs(HasType, u)
           E(u) == [v \in HasType[u] |-> Written(Encode, u, v)]
           D(u) == [b \in Stream |-> ReadAs(Decode, u, b)]
<1>1. /\ HasType = [u \in ValTypes |-> T(u)]
      /\ Encode = [u \in ValTypes |-> E(u)]
      /\ Decode = [u \in ValTypes |-> D(u)]
  BY CodecDefined
<1> HIDE DEF T, E, D
<1>2. HasType[t] = T(t) /\ Encode[t] = E(t) /\ Decode[t] = D(t)
  BY <1>1
<1> QED
  BY <1>2 DEF T, E, D

(* The number formats.                                                     *)
LEMMA LebUnfolded ==
  /\ \A n \in Nat : ULeb[n] = IF n < 128 THEN <<n>> ELSE <<128 + (n % 128)>> \o ULeb[n \div 128]
  /\ \A n \in Int :
       SLeb[n] = IF n \in -64..63 THEN <<n % 128>> ELSE <<128 + (n % 128)>> \o SLeb[n \div 128]
  /\ \A g \in Stream : \A signed \in BOOLEAN :
       LebValue[g][signed] = IF Len(g) <= 1 THEN IF signed /\ g[1] >= 64 THEN g[1] - 128 ELSE g[1]
                             ELSE (g[1] % 128) + 128 * LebValue[Tail(g)][signed]
<1>1. ULeb = [n \in Nat |-> IF n < 128 THEN <<n>> ELSE <<128 + (n % 128)>> \o ULeb[n \div 128]]
  <2>1. \E f : f = [x \in Dom(Recursion("uleb")) |-> Level(Recursion("uleb"), f, x)]
    BY SolutionExists DEF Rec, Recursion, Plain
  <2>2. \E f : f = [n \in Nat |-> IF n < 128 THEN <<n>> ELSE <<128 + (n % 128)>> \o f[n \div 128]]
    BY <2>1 DEF Dom, Level, Recursion
  <2> QED
    BY <2>2 DEF ULeb
<1>2. SLeb = [n \in Int |-> IF n \in -64..63 THEN <<n % 128>>
                            ELSE <<128 + (n % 128)>> \o SLeb[n \div 128]]
  <2>1. PICK f : f = [x \in Dom(Recursion("sleb")) |-> Level(Recursion("sleb"), f, x)]
    BY SolutionExists DEF Rec, Recursion, Plain
  <2>2. /\ Dom(Recursion("sleb")) = Int
        /\ \A n : Level(Recursion("sleb"), f, n)
                  = IF n \in -64..63 THEN <<n % 128>> ELSE <<128 + (n % 128)>> \o f[n \div 128]
    BY DEF Dom, Level, Recursion
  <2> DEFINE S(n) == IF n \in -64..63 THEN <<n % 128>> ELSE <<128 + (n % 128)>> \o f[n \div 128]
  <2>3. f = [n \in Int |-> S(n)]
    <3>1. Dom(Recursion("sleb")) = Int /\ \A n : Level(Recursion("sleb"), f, n) = S(n)
      BY <2>2
    <3> HIDE DEF S
    <3> QED
      BY <2>1, <3>1
  <2>4. \E h : h = [n \in Int |-> IF n \in -64..63 THEN <<n % 128>>
                                  ELSE <<128 + (n % 128)>> \o h[n \div 128]]
    BY <2>3
  <2> QED
    BY <2>4 DEF SLeb
<1>3. LebValue = [g \in Stream |-> [signed \in BOOLEAN |->
        IF Len(g) <= 1 THEN IF signed /\ g[1] >= 64 THEN g[1] - 128 ELSE g[1]
        ELSE (g[1] % 128) + 128 * LebValue[Tail(g)][signed]]]
  <2>1. \E f : f = [x \in Dom(Recursion("lebvalue")) |-> Level(Recursion("lebvalue"), f, x)]
    BY SolutionExists DEF Rec, Recursion, Plain
  <2>2. \E f : f = [g \in Stream |-> [signed \in BOOLEAN |->
          IF Len(g) <= 1 THEN IF signed /\ g[1] >= 64 THEN g[1] - 128 ELSE g[1]
          ELSE (g[1] % 128) + 128 * f[Tail(g)][signed]]]
    BY <2>1 DEF Dom, Level, Recursion
  <2> QED
    BY <2>2 DEF LebValue
<1> DEFINE U(n) == IF n < 128 THEN <<n>> ELSE <<128 + (n % 128)>> \o ULeb[n \div 128]
           S(n) == IF n \in -64..63 THEN <<n % 128>> ELSE <<128 + (n % 128)>> \o SLeb[n \div 128]
           V(g) == [signed \in BOOLEAN |->
                     IF Len(g) <= 1 THEN IF signed /\ g[1] >= 64 THEN g[1] - 128 ELSE g[1]
                     ELSE (g[1] % 128) + 128 * LebValue[Tail(g)][signed]]
<1>4. ULeb = [n \in Nat |-> U(n)] /\ SLeb = [n \in Int |-> S(n)] /\ LebValue = [g \in Stream |-> V(g)]
  BY <1>1, <1>2, <1>3
<1> HIDE DEF U, S, V
<1>5. /\ \A n \in Nat : ULeb[n] = U(n)
      /\ \A n \in Int : SLeb[n] = S(n)
      /\ \A g \in Stream : LebValue[g] = V(g)
  BY <1>4
<1>6. \A g \in Stream : \A signed \in BOOLEAN :
        V(g)[signed] = IF Len(g) <= 1 THEN IF signed /\ g[1] >= 64 THEN g[1] - 128 ELSE g[1]
                       ELSE (g[1] % 128) + 128 * LebValue[Tail(g)][signed]
  BY Zenon DEF V
<1>7. \A g \in Stream : \A signed \in BOOLEAN :
        LebValue[g][signed] = IF Len(g) <= 1 THEN IF signed /\ g[1] >= 64 THEN g[1] - 128 ELSE g[1]
                              ELSE (g[1] % 128) + 128 * LebValue[Tail(g)][signed]
  <2> HIDE DEF V
  <2> QED
    BY <1>5, <1>6
<1>8. /\ \A n \in Nat : ULeb[n] = IF n < 128 THEN <<n>> ELSE <<128 + (n % 128)>> \o ULeb[n \div 128]
      /\ \A n \in Int :
           SLeb[n] = IF n \in -64..63 THEN <<n % 128>> ELSE <<128 + (n % 128)>> \o SLeb[n \div 128]
  BY <1>5 DEF U, S
<1> QED
  BY <1>7, <1>8


(* What FlattenSeq computes.                                               *)
LEMMA FlattenDefined ==
  ASSUME NEW ss \in Seq(Stream), ss # <<>>
  PROVE  \E f : /\ f[1] = ss[1]
                /\ \A i \in 1..Len(ss) : i # 1 => f[i] = f[i - 1] \o ss[i]
                /\ FlattenSeq(ss) = f[Len(ss)]
<1> DEFINE w == [of |-> "flatten", n |-> Len(ss), by |-> ss]
           f == CHOOSE g : g = [i \in 1..Len(ss) |-> IF i = 1 THEN ss[i] ELSE g[i - 1] \o ss[i]]
<1>1. Len(ss) \in Nat \ {0}
  OBVIOUS
<1>2. \E g : g = [x \in Dom(w) |-> Level(w, g, x)]
  <2>1. Rec(w)
    BY <1>1 DEF Rec
  <2> HIDE DEF w
  <2> QED
    BY <2>1, SolutionExists
<1>3. \E g : g = [i \in 1..Len(ss) |-> IF i = 1 THEN ss[i] ELSE g[i - 1] \o ss[i]]
  <2>1. PICK g : g = [x \in Dom(w) |-> Level(w, g, x)]
    BY <1>2
  <2> DEFINE K(i) == IF i = 1 THEN ss[i] ELSE g[i - 1] \o ss[i]
  <2>2. Dom(w) = 1..Len(ss) /\ \A i : Level(w, g, i) = K(i)
    BY DEF Dom, Level
  <2>3. g = [i \in 1..Len(ss) |-> K(i)]
    <3> HIDE DEF K
    <3> QED
      BY <2>1, <2>2
  <2> QED
    BY <2>3
<1>4. f = [i \in 1..Len(ss) |-> IF i = 1 THEN ss[i] ELSE f[i - 1] \o ss[i]]
  BY <1>3
<1>5. FlattenSeq(ss) = f[Len(ss)]
  BY <1>1 DEF FlattenSeq
<1> HIDE DEF f
<1>6. \A i \in 1..Len(ss) : f[i] = IF i = 1 THEN ss[i] ELSE f[i - 1] \o ss[i]
  <2> DEFINE K(i) == IF i = 1 THEN ss[i] ELSE f[i - 1] \o ss[i]
  <2>1. f = [i \in 1..Len(ss) |-> K(i)]
    BY <1>4
  <2> HIDE DEF K
  <2>2. \A i \in 1..Len(ss) : f[i] = K(i)
    BY <2>1
  <2> QED
    BY <2>2 DEF K
<1>7. f[1] = ss[1]
  <2>1. 1 \in 1..Len(ss)
    BY <1>1
  <2> QED
    BY <1>6, <2>1
<1>8. \A i \in 1..Len(ss) : i # 1 => f[i] = f[i - 1] \o ss[i]
  BY <1>6
<1> QED
  BY <1>5, <1>7, <1>8

(* Sequences of bytes can be put together from the left.                   *)
LEMMA ConcatFacts ==
  ASSUME NEW S, NEW a \in Seq(S), NEW b \in Seq(S), NEW c \in Seq(S)
  PROVE  /\ a \o b \in Seq(S) /\ Len(a \o b) = Len(a) + Len(b)
         /\ (a \o b) \o c = a \o (b \o c)
         /\ a \o <<>> = a /\ <<>> \o a = a
         /\ \A i \in 1..Len(a) : (a \o b)[i] = a[i]
         /\ \A i \in 1..Len(b) : (a \o b)[Len(a) + i] = b[i]
  OBVIOUS

(* The same of byte strings.                                               *)
LEMMA StreamFacts ==
  \A a, b, c \in Stream :
    /\ a \o b \in Stream /\ Len(a) \in Nat /\ Len(a \o b) = Len(a) + Len(b)
    /\ (a \o b) \o c = a \o (b \o c)
    /\ a \o <<>> = a /\ <<>> \o a = a /\ <<>> \in Stream
  BY ConcatFacts DEF Stream

(* The two facts that putting byte strings together rests on.              *)
LEMMA StreamAssoc ==
  \A a, b, c \in Stream : (a \o b) \o c = a \o (b \o c) /\ a \o b \in Stream
<1> SUFFICES ASSUME NEW a \in Stream, NEW b \in Stream, NEW c \in Stream
             PROVE  (a \o b) \o c = a \o (b \o c) /\ a \o b \in Stream
  OBVIOUS
<1> QED
  BY SMTT(30) DEF Stream

(* A byte string in front of byte strings comes first.                     *)
LEMMA FlattenFacts ==
  ASSUME NEW e \in Stream, NEW ss \in Seq(Stream)
  PROVE  /\ FlattenSeq(ss) \in Stream
         /\ FlattenSeq(<<e>> \o ss) = e \o FlattenSeq(ss)
<1> DEFINE tt == <<e>> \o ss
<1>1. tt \in Seq(Stream) /\ tt # <<>> /\ tt[1] = e /\ Len(tt) = Len(ss) + 1
      /\ \A i \in 1..Len(ss) : tt[i + 1] = ss[i]
  BY DEF Stream
<1> HIDE DEF tt
<1>2. PICK g : /\ g[1] = tt[1]
               /\ \A i \in 1..Len(tt) : i # 1 => g[i] = g[i - 1] \o tt[i]
               /\ FlattenSeq(tt) = g[Len(tt)]
  BY <1>1, FlattenDefined
<1>3. \A i \in 1..Len(ss) : g[i + 1] = g[i] \o ss[i]
  <2> SUFFICES ASSUME NEW i \in 1..Len(ss)
               PROVE  g[i + 1] = g[i] \o ss[i]
    OBVIOUS
  <2>1. i + 1 \in 1..Len(tt) /\ i + 1 # 1 /\ (i + 1) - 1 = i
    BY <1>1
  <2> QED
    BY <1>1, <1>2, <2>1
<1>4. CASE ss = <<>>
  <2>1. FlattenSeq(ss) = <<>> /\ FlattenSeq(tt) = e
    BY <1>1, <1>2, <1>4 DEF FlattenSeq
  <2> QED
    BY <2>1, ConcatFacts DEF tt, Stream
<1>5. CASE ss # <<>>
  <2>1. PICK f : /\ f[1] = ss[1]
                 /\ \A i \in 1..Len(ss) : i # 1 => f[i] = f[i - 1] \o ss[i]
                 /\ FlattenSeq(ss) = f[Len(ss)]
    BY <1>5, FlattenDefined
  <2> DEFINE P == {i \in Nat : i + 1 \in 1..Len(ss) =>
                                 f[i + 1] \in Stream /\ g[i + 2] = e \o f[i + 1]}
  <2>2. 0 \in P
    <3>1. 1 \in 1..Len(ss) /\ ss[1] \in Stream
      BY <1>5
    <3>2. g[2] = g[1] \o ss[1]
      <4>1. 1 + 1 = 2
        OBVIOUS
      <4> QED
        BY <1>3, <3>1, <4>1
    <3> QED
      BY <1>1, <1>2, <2>1, <3>1, <3>2, SMTT(30)
  <2>3. ASSUME NEW i \in Nat, i \in P
        PROVE  i + 1 \in P
    <3> SUFFICES ASSUME (i + 1) + 1 \in 1..Len(ss)
                 PROVE  f[(i + 1) + 1] \in Stream /\ g[(i + 1) + 2] = e \o f[(i + 1) + 1]
      OBVIOUS
    <3> DEFINE k == i + 2
    <3>1. k \in 1..Len(ss) /\ k # 1 /\ k - 1 = i + 1 /\ k = (i + 1) + 1 /\ k + 1 = (i + 1) + 2
          /\ i + 1 \in 1..Len(ss)
      OBVIOUS
    <3>2. f[k - 1] \in Stream /\ g[k] = e \o f[k - 1]
      BY <2>3, <3>1
    <3> HIDE DEF k, P
    <3>3. ss[k] \in Stream
      BY <3>1
    <3>4. f[k] = f[k - 1] \o ss[k]
      BY <2>1, <3>1
    <3>5. g[k + 1] = g[k] \o ss[k]
      BY <1>3, <3>1
    <3>6. f[k] \in Stream /\ g[k + 1] = e \o f[k]
      <4>1. f[k - 1] \in Stream /\ ss[k] \in Stream
        BY <3>2, <3>3
      <4>2. /\ (e \o f[k - 1]) \o ss[k] = e \o (f[k - 1] \o ss[k])
            /\ f[k - 1] \o ss[k] \in Stream
        BY <4>1, StreamAssoc, ZenonT(30)
      <4> QED
        BY <3>2, <3>4, <3>5, <4>2
    <3> QED
      BY <3>1, <3>6
  <2>4. \A i \in Nat : i \in P
    <3> HIDE DEF P
    <3> QED
      BY <2>2, <2>3, StepInduction
  <2> DEFINE l == Len(ss)
  <2>5. l - 1 \in Nat /\ (l - 1) + 1 = l /\ (l - 1) + 2 = l + 1 /\ l \in 1..Len(ss)
    BY <1>5
  <2>6. f[l] \in Stream /\ g[l + 1] = e \o f[l]
    <3>1. l - 1 \in P
      BY <2>4, <2>5
    <3> HIDE DEF l
    <3>2. f[(l - 1) + 1] \in Stream /\ g[(l - 1) + 2] = e \o f[(l - 1) + 1]
      BY <2>5, <3>1
    <3> QED
      BY <2>5, <3>2
  <2> QED
    BY <1>1, <1>2, <2>1, <2>6 DEF tt
<1> QED
  BY <1>4, <1>5

(* What ReadEach computes: one value, then the others.                     *)
LastOf(n, read) ==
  CHOOSE g : g = [m \in 0..n |-> [c \in Stream |-> ReadLast(n, read, g, m, c)]]

(* ReadEach reads as the recursive function inside it says.                *)
LEMMA ReadEachDefined ==
  ASSUME NEW n \in Nat, NEW read
  PROVE  /\ \A b : ReadEach(n, read, b) = LastOf(n, read)[n][b]
         /\ \A m \in 0..n : \A c \in Stream :
              LastOf(n, read)[m][c] = ReadLast(n, read, LastOf(n, read), m, c)
<1> DEFINE w == [of |-> "each", n |-> n, by |-> read]
           f == LastOf(n, read)
           L(m) == [c \in Stream |-> ReadLast(n, read, f, m, c)]
<1>1. PICK g : g = [x \in Dom(w) |-> Level(w, g, x)]
  <2>1. Rec(w)
    BY DEF Rec
  <2> HIDE DEF w
  <2> QED
    BY <2>1, SolutionExists
<1> DEFINE K(m) == [c \in Stream |-> ReadLast(n, read, g, m, c)]
<1>2. Dom(w) = 0..n /\ \A m : Level(w, g, m) = K(m)
  BY DEF Dom, Level
<1>3. g = [m \in 0..n |-> K(m)]
  <2> HIDE DEF K
  <2> QED
    BY <1>1, <1>2
<1>4. f = [m \in 0..n |-> L(m)]
  BY <1>3 DEF LastOf
<1>5. \A b : ReadEach(n, read, b) = f[n][b]
  BY DEF ReadEach, LastOf, ReadLast, Bind
<1> HIDE DEF f
<1>6. \A m \in 0..n : f[m] = L(m)
  <2> HIDE DEF L
  <2> QED
    BY <1>4
<1>7. \A m : \A c \in Stream : L(m)[c] = ReadLast(n, read, f, m, c)
  OBVIOUS
<1> HIDE DEF L
<1>8. \A m \in 0..n : \A c \in Stream : f[m][c] = ReadLast(n, read, f, m, c)
  BY <1>6, <1>7
<1> QED
  BY <1>5, <1>8 DEF f

(* Proper prefixes: what has arrived of bytes before the last one has.     *)
Cut(e) == {b \in Stream : \E c \in Stream : c # <<>> /\ e = b \o c}

(* A proper prefix is shorter, and otherwise the same.                     *)
LEMMA CutFacts ==
  ASSUME NEW e \in Stream, NEW b \in Cut(e)
  PROVE  /\ b \in Stream /\ Len(b) \in Nat /\ Len(e) \in Nat /\ Len(b) < Len(e)
         /\ \A i \in 1..Len(b) : b[i] = e[i]
<1>1. PICK c \in Stream : c # <<>> /\ e = b \o c
  BY DEF Cut
<1>2. b \in Seq(Byte) /\ c \in Seq(Byte)
  BY DEF Cut, Stream
<1> QED
  BY <1>1, <1>2, ConcatFacts DEF Stream

(* The two pieces of a whole, by place.                                    *)
LEMMA Pieces ==
  ASSUME NEW S, NEW a \in Seq(S), NEW b \in Seq(S)
  PROVE  /\ SubSeq(a \o b, 1, Len(a)) = a
         /\ SubSeq(a \o b, Len(a) + 1, Len(a \o b)) = b
  OBVIOUS

(* Two ways to cut the same bytes in two: the one first part is an         *)
(* extension of the other, or a proper prefix.                             *)
LEMMA TwoCuts ==
  ASSUME NEW a \in Stream, NEW b \in Stream, NEW c \in Stream, NEW d \in Stream,
         a \o b = c \o d
  PROVE  (\E x \in Stream : a = c \o x /\ d = x \o b) \/ (a \in Cut(c) /\ b # <<>>)
<1> DEFINE l == Len(a)
           k == Len(c)
           s == a \o b
<1>1. /\ a \in Seq(Byte) /\ b \in Seq(Byte) /\ c \in Seq(Byte) /\ d \in Seq(Byte)
      /\ l \in Nat /\ k \in Nat /\ Len(b) \in Nat /\ Len(d) \in Nat
      /\ l + Len(b) = k + Len(d)
  BY ConcatFacts DEF Stream
<1>2. /\ s \in Seq(Byte) /\ Len(s) = l + Len(b)
      /\ a = SubSeq(s, 1, l) /\ b = SubSeq(s, l + 1, Len(s))
      /\ c = SubSeq(s, 1, k) /\ d = SubSeq(s, k + 1, Len(s))
  <2>1. SubSeq(c \o d, 1, k) = c /\ SubSeq(c \o d, k + 1, Len(c \o d)) = d
    BY <1>1, Pieces
  <2>2. SubSeq(s, 1, l) = a /\ SubSeq(s, l + 1, Len(s)) = b
    BY <1>1, Pieces
  <2> QED
    BY <1>1, <2>1, <2>2, ConcatFacts, SMTT(30)
<1> HIDE DEF s, l, k
<1>3. ASSUME NEW m \in Nat, NEW n \in Nat, m <= n, n <= Len(s)
      PROVE  /\ SubSeq(s, m + 1, n) \in Seq(Byte) /\ Len(SubSeq(s, m + 1, n)) = n - m
             /\ SubSeq(s, 1, n) = SubSeq(s, 1, m) \o SubSeq(s, m + 1, n)
             /\ SubSeq(s, m + 1, Len(s)) = SubSeq(s, m + 1, n) \o SubSeq(s, n + 1, Len(s))
  <2>1. Len(s) \in Nat
    BY <1>1, <1>2
  <2>2. \A i \in (m + 1)..n : s[i] \in Byte
    <3>1. \A i \in 1..Len(s) : s[i] \in Byte
      BY <1>2, ElementOfSeq
    <3>2. \A i \in (m + 1)..n : i \in 1..Len(s)
      BY <1>3, <2>1
    <3> QED
      BY <3>1, <3>2
  <2>3. SubSeq(s, m + 1, n) \in Seq(Byte) /\ Len(SubSeq(s, m + 1, n)) = n - m
    BY <1>3, <2>2, SubSeqProperties
  <2>4. /\ Len(s) \in Nat /\ 1 \in 1..Len(s) + 1 /\ m \in (1 - 1)..Len(s) /\ n \in m..Len(s)
        /\ m + 1 \in 1..Len(s) + 1 /\ n \in ((m + 1) - 1)..Len(s) /\ Len(s) \in n..Len(s)
    BY <1>3, <2>1
  <2>5. SubSeq(s, 1, n) = SubSeq(s, 1, m) \o SubSeq(s, m + 1, n)
    BY <1>2, <2>4, ConcatAdjacentSubSeq
  <2>6. SubSeq(s, m + 1, Len(s)) = SubSeq(s, m + 1, n) \o SubSeq(s, n + 1, Len(s))
    BY <1>2, <2>4, ConcatAdjacentSubSeq
  <2> QED
    BY <2>3, <2>5, <2>6
<1>4. CASE k <= l
  <2>1. l <= Len(s)
    BY <1>1, <1>2
  <2> DEFINE x == SubSeq(s, k + 1, l)
  <2>2. x \in Seq(Byte) /\ a = c \o x /\ d = x \o b
    BY <1>1, <1>2, <1>3, <1>4, <2>1
  <2> HIDE DEF x
  <2> QED
    BY <2>2 DEF Stream
<1>5. CASE ~(k <= l)
  <2>1. l <= k /\ k <= Len(s) /\ Len(b) # 0
    BY <1>1, <1>2, <1>5
  <2> DEFINE x == SubSeq(s, l + 1, k)
  <2>2. x \in Seq(Byte) /\ Len(x) = k - l /\ c = a \o x
    BY <1>1, <1>2, <1>3, <2>1
  <2> HIDE DEF x
  <2>3. x # <<>>
    BY <1>1, <1>5, <2>2
  <2>4. b # <<>>
    BY <2>1
  <2>5. \E y \in Stream : y # <<>> /\ c = a \o y
    BY <2>2, <2>3 DEF Stream
  <2> QED
    BY <2>4, <2>5 DEF Cut
<1> QED
  BY <1>4, <1>5

(* What is missing from two pieces is missing from the one or the other.   *)
LEMMA CutOfTwo ==
  ASSUME NEW e \in Stream, NEW f \in Stream, NEW b \in Cut(e \o f)
  PROVE  b \in Cut(e) \/ \E x \in Cut(f) : b = e \o x
<1>1. b \in Stream
  BY DEF Cut
<1>2. PICK c \in Stream : c # <<>> /\ e \o f = b \o c
  BY DEF Cut
<1>3. (\E x \in Stream : b = e \o x /\ f = x \o c) \/ b \in Cut(e)
  BY <1>1, <1>2, TwoCuts
<1> QED
  BY <1>2, <1>3 DEF Cut

(* Nothing is a proper prefix of nothing.                                  *)
LEMMA CutOfNothing == Cut(<<>>) = {}
<1>1. <<>> \in Stream /\ Len(<<>>) = 0
  BY DEF Stream
<1>2. ASSUME NEW b \in Cut(<<>>)
      PROVE  FALSE
  <2>1. Len(b) \in Nat /\ Len(b) < Len(<<>>)
    BY <1>1, CutFacts
  <2> QED
    BY <1>1, <2>1
<1> QED
  BY <1>2

(* As many bytes as are asked for.                                         *)
LEMMA TakeFacts ==
  ASSUME NEW e \in Stream
  PROVE  /\ \A c \in Stream : Take(e \o c, Len(e)) = Got(e, c)
         /\ \A b \in Cut(e) : Take(b, Len(e)) = Eof
<1>1. ASSUME NEW c \in Stream
      PROVE  Take(e \o c, Len(e)) = Got(e, c)
  <2>1. e \in Seq(Byte) /\ c \in Seq(Byte)
    BY DEF Stream
  <2>2. /\ ~(Len(e \o c) < Len(e)) /\ SubSeq(e \o c, 1, Len(e)) = e
        /\ SubSeq(e \o c, Len(e) + 1, Len(e \o c)) = c
    BY <2>1
  <2> QED
    BY <2>2 DEF Take, Drop
<1>2. \A b \in Cut(e) : Take(b, Len(e)) = Eof
  BY CutFacts DEF Take
<1> QED
  BY <1>1, <1>2

(* What is taken is bytes, and so is the rest.                             *)
LEMMA TakeTyped ==
  ASSUME NEW b \in Stream, NEW n \in Nat, Take(b, n).st = "ok"
  PROVE  /\ Take(b, n).val \in Stream /\ Len(Take(b, n).val) = n
         /\ Take(b, n).rest \in Stream
<1>1. b \in Seq(Byte)
  BY DEF Stream
<1>2. ~(Len(b) < n)
  BY DEF Take, Eof
<1>3. /\ SubSeq(b, 1, n) \in Seq(Byte) /\ Len(SubSeq(b, 1, n)) = n
      /\ SubSeq(b, n + 1, Len(b)) \in Seq(Byte)
  BY <1>1, <1>2
<1> QED
  BY <1>2, <1>3 DEF Take, Drop, Got, Stream

-----------------------------------------------------------------------------
(* LEB128.                                                                 *)

(* Groups of seven bits, of which the last one only is below 128.          *)
IsLeb(g) ==
  g \in Stream /\ g # <<>> /\ g[Len(g)] < 128 /\ \A i \in 1..(Len(g) - 1) : g[i] >= 128

(* The groups of a number are found again.                                 *)
LEMMA GroupsRead ==
  ASSUME NEW g, IsLeb(g), NEW max \in Nat, Len(g) <= max
  PROVE  /\ \A c \in Stream : Groups(g \o c, max) = Got(g, c)
         /\ \A b \in Cut(g) : Groups(b, max) = Eof
<1>1. g \in Stream /\ g \in Seq(Byte) /\ Len(g) \in Nat /\ Len(g) >= 1
  BY DEF IsLeb, Stream
<1>2. \A i \in 1..(Len(g) - 1) : g[i] \in Int /\ ~(g[i] < 128)
  <2>1. \A i \in 1..(Len(g) - 1) : i \in 1..Len(g)
    BY <1>1
  <2>2. \A i \in 1..Len(g) : g[i] \in Byte
    BY <1>1, ElementOfSeq
  <2>3. \A i \in 1..(Len(g) - 1) : g[i] \in Byte /\ g[i] >= 128
    BY <2>1, <2>2 DEF IsLeb
  <2>4. \A x \in Byte : x \in Int /\ (x >= 128 => ~(x < 128))
    BY DEF Byte
  <2> QED
    BY <2>3, <2>4
<1>3. ASSUME NEW c \in Stream
      PROVE  Groups(g \o c, max) = Got(g, c)
  <2> DEFINE s == g \o c
             E == {i \in 1..Len(s) : i <= max /\ s[i] < 128}
  <2>1. c \in Seq(Byte)
    BY DEF Stream
  <2>2. Len(s) = Len(g) + Len(c) /\ Len(c) \in Nat /\ \A i \in 1..Len(g) : s[i] = g[i]
    BY <1>1, <2>1, ConcatFacts
  <2>3. Len(g) \in E /\ \A i \in E : i \in Nat /\ Len(g) <= i
    <3>1. Len(g) \in E
      <4> HIDE DEF s
      <4>1. Len(g) \in 1..Len(s) /\ Len(g) \in 1..Len(g)
        BY <1>1, <2>2
      <4> QED
        BY <2>2, <4>1 DEF IsLeb
    <3>2. ASSUME NEW i \in 1..Len(s), s[i] < 128, i < Len(g)
          PROVE  FALSE
      <4> HIDE DEF s
      <4>1. i \in 1..Len(g) /\ i \in 1..(Len(g) - 1)
        BY <1>1, <2>2, <3>2
      <4>2. ~(g[i] < 128)
        BY <1>2, <4>1
      <4>3. s[i] = g[i]
        BY <2>2, <4>1
      <4> QED
        BY <3>2, <4>2, <4>3
    <3>3. \A i \in E : i \in 1..Len(s) /\ s[i] < 128 /\ i \in Nat
      OBVIOUS
    <3> HIDE DEF E
    <3> QED
      BY <1>1, <3>1, <3>2, <3>3
  <2>4. Min(E) = Len(g) /\ E # {}
    <3> HIDE DEF E
    <3> QED
      BY <1>1, <2>3 DEF Min
  <2>5. Groups(s, max) = Take(s, Min(E))
    BY <2>4 DEF Groups
  <2> HIDE DEF E
  <2> QED
    BY <1>1, <2>4, <2>5, TakeFacts
<1>4. ASSUME NEW b \in Cut(g)
      PROVE  Groups(b, max) = Eof
  <2>1. Len(b) \in Nat /\ Len(b) < Len(g) /\ \A i \in 1..Len(b) : b[i] = g[i]
    BY <1>1, CutFacts
  <2>2. \A i \in 1..Len(b) : b[i] >= 128 /\ b[i] \in Int
    <3> SUFFICES ASSUME NEW i \in 1..Len(b)
                 PROVE  b[i] >= 128 /\ b[i] \in Int
      OBVIOUS
    <3>1. i \in 1..(Len(g) - 1) /\ i \in 1..Len(g)
      BY <1>1, <2>1
    <3>2. g[i] \in Int /\ ~(g[i] < 128)
      BY <1>2, <3>1
    <3> QED
      BY <2>1, <3>2
  <2>3. {i \in 1..Len(b) : i <= max /\ b[i] < 128} = {}
    BY <2>1, <2>2
  <2>4. ~(Len(b) >= max)
    BY <1>1, <2>1
  <2> QED
    BY <2>3, <2>4 DEF Groups
<1> QED
  BY <1>3, <1>4

(* They are bytes, and so is what follows.                                 *)
LEMMA GroupsTyped ==
  ASSUME NEW b \in Stream, NEW max \in Nat, Groups(b, max).st = "ok"
  PROVE  Groups(b, max).rest \in Stream
<1> DEFINE E == {i \in 1..Len(b) : i <= max /\ b[i] < 128}
<1>1. E # {}
  BY DEF Groups, Bad, Eof
<1>2. E \in SUBSET Nat
  BY DEF Stream
<1>3. \E n \in E : \A m \in E : n <= m
  <2> HIDE DEF E
  <2> QED
    BY <1>1, <1>2, LeastNat
<1>4. Min(E) \in Nat
  <2> HIDE DEF E
  <2> QED
    BY <1>2, <1>3 DEF Min
<1>5. Groups(b, max) = Take(b, Min(E))
  BY <1>1 DEF Groups
<1> HIDE DEF E
<1> QED
  BY <1>4, <1>5, TakeTyped

(* One more group in front.                                                *)
LEMMA LebCons ==
  ASSUME NEW g, IsLeb(g), NEW x \in 128..255
  PROVE  /\ IsLeb(<<x>> \o g) /\ Len(g) \in Nat /\ Len(<<x>> \o g) = Len(g) + 1
         /\ \A s \in BOOLEAN : LebValue[<<x>> \o g][s] = (x - 128) + 128 * LebValue[g][s]
<1> DEFINE h == <<x>> \o g
<1>1. g \in Seq(Byte) /\ Len(g) \in Nat /\ Len(g) >= 1
  BY DEF IsLeb, Stream
<1>2. /\ h \in Seq(Byte) /\ Len(h) = Len(g) + 1 /\ h[1] = x /\ Tail(h) = g
      /\ \A i \in 1..Len(g) : h[i + 1] = g[i]
  <2>1. x \in Byte
    BY DEF Byte
  <2> QED
    BY <1>1, <2>1
<1> HIDE DEF h
<1>3. h[Len(h)] = g[Len(g)] /\ h # <<>>
  BY <1>1, <1>2
<1>4. ASSUME NEW i \in 1..(Len(h) - 1)
      PROVE  h[i] >= 128
  <2>1. CASE i = 1
    BY <1>2, <2>1
  <2>2. CASE i # 1
    <3>1. i - 1 \in 1..(Len(g) - 1) /\ i - 1 \in 1..Len(g) /\ (i - 1) + 1 = i
      BY <1>1, <1>2, <2>2
    <3>2. h[i] = g[i - 1]
      BY <1>2, <3>1
    <3> QED
      BY <3>1, <3>2 DEF IsLeb
  <2> QED
    BY <2>1, <2>2
<1>5. IsLeb(h)
  BY <1>2, <1>3, <1>4 DEF IsLeb, Stream
<1>6. ASSUME NEW s \in BOOLEAN
      PROVE  LebValue[h][s] = (x - 128) + 128 * LebValue[g][s]
  <2>1. h \in Stream /\ ~(Len(h) <= 1)
    BY <1>1, <1>2 DEF Stream
  <2>2. LebValue[h][s] = (x % 128) + 128 * LebValue[g][s]
    <3> HIDE DEF IsLeb
    <3>1. LebValue[h][s] = IF Len(h) <= 1 THEN IF s /\ h[1] >= 64 THEN h[1] - 128 ELSE h[1]
                           ELSE (h[1] % 128) + 128 * LebValue[Tail(h)][s]
      <4>1. \A w \in Stream : \A z \in BOOLEAN :
              LebValue[w][z] = IF Len(w) <= 1 THEN IF z /\ w[1] >= 64 THEN w[1] - 128 ELSE w[1]
                               ELSE (w[1] % 128) + 128 * LebValue[Tail(w)][z]
        BY LebUnfolded, Zenon
      <4>2. h \in Stream
        BY <2>1
      <4> QED
        BY <4>1, <4>2, Zenon
    <3>2. LebValue[h][s] = (h[1] % 128) + 128 * LebValue[Tail(h)][s]
      BY <2>1, <3>1, Zenon
    <3> QED
      BY <1>2, <3>2
  <2>3. x % 128 = x - 128
    OBVIOUS
  <2> QED
    BY <2>2, <2>3
<1> QED
  BY <1>1, <1>2, <1>5, <1>6 DEF h

(* The last group.                                                         *)
LEMMA LebLast ==
  ASSUME NEW x \in 0..127
  PROVE  /\ IsLeb(<<x>>) /\ Len(<<x>>) = 1
         /\ LebValue[<<x>>][FALSE] = x
         /\ LebValue[<<x>>][TRUE] = IF x >= 64 THEN x - 128 ELSE x
<1>1. <<x>> \in Seq(Byte) /\ Len(<<x>>) = 1 /\ <<x>>[1] = x
  BY DEF Byte
<1>2. IsLeb(<<x>>)
  BY <1>1 DEF IsLeb, Stream
<1>3. \A s \in BOOLEAN : LebValue[<<x>>][s] = IF s /\ x >= 64 THEN x - 128 ELSE x
  <2> SUFFICES ASSUME NEW s \in BOOLEAN
               PROVE  LebValue[<<x>>][s] = IF s /\ x >= 64 THEN x - 128 ELSE x
    OBVIOUS
  <2> DEFINE h == <<x>>
  <2>1. h \in Stream /\ Len(h) <= 1 /\ h[1] = x
    BY <1>1 DEF Stream
  <2> HIDE DEF h
  <2>2. LebValue[h][s] = IF Len(h) <= 1 THEN IF s /\ h[1] >= 64 THEN h[1] - 128 ELSE h[1]
                         ELSE (h[1] % 128) + 128 * LebValue[Tail(h)][s]
    BY <2>1, LebUnfolded
  <2>3. LebValue[h][s] = IF s /\ h[1] >= 64 THEN h[1] - 128 ELSE h[1]
    BY <2>1, <2>2, Zenon
  <2> QED
    BY <2>1, <2>3, Zenon DEF h
<1> QED
  BY <1>1, <1>2, <1>3

(* Unsigned numbers.                                                       *)
LEMMA ULebFacts ==
  \A n \in Nat :
    /\ IsLeb(ULeb[n]) /\ LebValue[ULeb[n]][FALSE] = n
    /\ \A m \in Nat : m >= 1 /\ n < 2^(7 * m) => Len(ULeb[n]) <= m
<1> DEFINE S == {n \in Nat :
                   /\ IsLeb(ULeb[n]) /\ LebValue[ULeb[n]][FALSE] = n
                   /\ \A m \in Nat : m >= 1 /\ n < 2^(7 * m) => Len(ULeb[n]) <= m}
<1>1. ASSUME NEW n \in Nat, \A i \in Nat : i < n => i \in S
      PROVE  n \in S
  <2>1. CASE n < 128
    <3>1. ULeb[n] = <<n>> /\ n \in 0..127
      <4>1. n \in 0..127
        BY <2>1
      <4>2. ULeb[n] = IF n < 128 THEN <<n>> ELSE <<128 + (n % 128)>> \o ULeb[n \div 128]
        BY LebUnfolded, Zenon
      <4> QED
        BY <2>1, <4>1, <4>2
    <3>2. IsLeb(ULeb[n]) /\ LebValue[ULeb[n]][FALSE] = n /\ Len(ULeb[n]) = 1
      BY <3>1, LebLast
    <3> QED
      BY <3>2
  <2>2. CASE ~(n < 128)
    <3> DEFINE q == n \div 128
               x == 128 + (n % 128)
    <3>1. q \in Nat /\ q < n /\ x \in 128..255 /\ n = (x - 128) + 128 * q
      BY <2>2
    <3>2. ULeb[n] = <<x>> \o ULeb[q]
      <4>1. ULeb[n] = IF n < 128 THEN <<n>> ELSE <<128 + (n % 128)>> \o ULeb[n \div 128]
        BY LebUnfolded, Zenon
      <4> QED
        BY <2>2, <4>1
    <3>3. q \in S
      BY <1>1, <3>1
    <3> HIDE DEF q, x
    <3>4. /\ IsLeb(ULeb[q]) /\ LebValue[ULeb[q]][FALSE] = q
          /\ \A m \in Nat : m >= 1 /\ q < 2^(7 * m) => Len(ULeb[q]) <= m
      BY <3>3
    <3> HIDE DEF S
    <3>5. /\ IsLeb(ULeb[n]) /\ Len(ULeb[q]) \in Nat /\ Len(ULeb[n]) = Len(ULeb[q]) + 1
          /\ LebValue[ULeb[n]][FALSE] = n
      <4> DEFINE g == ULeb[q]
      <4>1. IsLeb(g) /\ x \in 128..255
        BY <3>1, <3>4
      <4> HIDE DEF g
      <4>2. /\ IsLeb(<<x>> \o g) /\ Len(g) \in Nat /\ Len(<<x>> \o g) = Len(g) + 1
            /\ LebValue[<<x>> \o g][FALSE] = (x - 128) + 128 * LebValue[g][FALSE]
        BY <4>1, LebCons, ZenonT(60)
      <4>3. LebValue[g][FALSE] = q
        BY <3>4 DEF g
      <4>4. ULeb[n] = <<x>> \o g
        BY <3>2 DEF g
      <4> QED
        BY <3>1, <4>2, <4>3, <4>4 DEF g
    <3>6. ASSUME NEW m \in Nat, m >= 1, n < 2^(7 * m)
          PROVE  Len(ULeb[n]) <= m
      <4>1. CASE m = 1
        <5>1. 2^7 = 128
          OBVIOUS
        <5>2. 7 * m = 7
          BY <4>1
        <5>3. n < 128
          BY <3>6, <5>1, <5>2
        <5> QED
          BY <2>2, <5>3
      <4>2. CASE m # 1
        <5> DEFINE j == m - 1
        <5>1. j \in Nat /\ j >= 1 /\ 7 * j \in Nat /\ 7 * m = 7 + 7 * j
          BY <3>6, <4>2
        <5>2. 2^(7 * m) = 128 * 2^(7 * j) /\ 2^(7 * j) \in Nat
          <6> DEFINE e == 7 * j
          <6>1. e \in Nat /\ 7 * m = 7 + e
            BY <5>1
          <6> HIDE DEF e
          <6>2. 2^(7 + e) = 2^7 * 2^e /\ 2^e \in Nat
            BY <6>1, PowAdd, PowNat
          <6>3. 2^7 = 128
            OBVIOUS
          <6> QED
            BY <6>1, <6>2, <6>3 DEF e
        <5>3. q < 2^(7 * j)
          <6> DEFINE P == 2^(7 * j)
          <6>1. P \in Nat /\ n < 128 * P
            BY <3>6, <5>2
          <6> HIDE DEF P
          <6>2. q < P
            BY <3>1, <6>1
          <6> QED
            BY <6>2 DEF P
        <5> HIDE DEF j
        <5>4. Len(ULeb[q]) <= j
          BY <3>4, <5>1, <5>3
        <5>5. Len(ULeb[q]) <= m - 1
          BY <5>4 DEF j
        <5> QED
          BY <3>5, <5>5
      <4> QED
        BY <4>1, <4>2
    <3> QED
      BY <3>5, <3>6 DEF S
  <2> QED
    BY <2>1, <2>2
<1>2. \A n \in Nat : n \in S
  <2> HIDE DEF S
  <2> QED
    BY <1>1, Induction
<1> QED
  BY <1>2

(* A signed number is written in groups, no more than it needs.            *)
SignedLeb(n) ==
  /\ IsLeb(SLeb[n]) /\ LebValue[SLeb[n]][TRUE] = n
  /\ \A m \in Nat : m >= 1 /\ -(2^(7 * m - 1)) <= n /\ n < 2^(7 * m - 1) => Len(SLeb[n]) <= m

(* Every signed number is written like that.                               *)
LEMMA SLebFacts == \A n \in Int : SignedLeb(n)
<1> DEFINE S == {i \in Nat : \A n \in Int : n = i \/ n = -i => SignedLeb(n)}
<1>1. ASSUME NEW i \in Nat, \A j \in Nat : j < i => j \in S, NEW n \in Int, n = i \/ n = -i
      PROVE  SignedLeb(n)
  <2>1. CASE n \in -64..63
    <3> DEFINE x == n % 128
    <3>1. x \in 0..127 /\ n = IF x >= 64 THEN x - 128 ELSE x
      BY <2>1
    <3>2. SLeb[n] = <<x>>
      <4>1. SLeb[n] = IF n \in -64..63 THEN <<n % 128>> ELSE <<128 + (n % 128)>> \o SLeb[n \div 128]
        BY LebUnfolded, Zenon
      <4> QED
        BY <2>1, <4>1
    <3> HIDE DEF x
    <3>3. IsLeb(SLeb[n]) /\ LebValue[SLeb[n]][TRUE] = n /\ Len(SLeb[n]) = 1
      BY <3>1, <3>2, LebLast, ZenonT(60)
    <3> QED
      BY <3>3 DEF SignedLeb
  <2>2. CASE n \notin -64..63
    <3> DEFINE q == n \div 128
               x == 128 + (n % 128)
               g == SLeb[q]
    <3>1. q \in Int /\ x \in 128..255 /\ n = (x - 128) + 128 * q
      OBVIOUS
    <3>2. SLeb[n] = <<x>> \o g
      <4>1. SLeb[n] = IF n \in -64..63 THEN <<n % 128>> ELSE <<128 + (n % 128)>> \o SLeb[n \div 128]
        BY LebUnfolded, Zenon
      <4> QED
        BY <2>2, <4>1
    <3> HIDE DEF q, x
    <3>3. SignedLeb(q)
      <4> DEFINE j == IF q < 0 THEN -q ELSE q
      <4>1. j \in Nat /\ j < i /\ (q = j \/ q = -j)
        BY <1>1, <2>2, <3>1
      <4> HIDE DEF j
      <4> QED
        BY <1>1, <3>1, <4>1
    <3>4. /\ IsLeb(g) /\ LebValue[g][TRUE] = q
          /\ \A m \in Nat : m >= 1 /\ -(2^(7 * m - 1)) <= q /\ q < 2^(7 * m - 1) => Len(g) <= m
      BY <3>3 DEF SignedLeb
    <3> HIDE DEF g
    <3>5. /\ IsLeb(SLeb[n]) /\ Len(g) \in Nat /\ Len(SLeb[n]) = Len(g) + 1
          /\ LebValue[SLeb[n]][TRUE] = n
      <4>1. /\ IsLeb(<<x>> \o g) /\ Len(g) \in Nat /\ Len(<<x>> \o g) = Len(g) + 1
            /\ LebValue[<<x>> \o g][TRUE] = (x - 128) + 128 * LebValue[g][TRUE]
        BY <3>1, <3>4, LebCons, ZenonT(60)
      <4> QED
        BY <3>1, <3>2, <3>4, <4>1
    <3>6. ASSUME NEW m \in Nat, m >= 1, -(2^(7 * m - 1)) <= n, n < 2^(7 * m - 1)
          PROVE  Len(SLeb[n]) <= m
      <4>1. CASE m = 1
        <5>1. 2^6 = 64
          OBVIOUS
        <5>2. 7 * m - 1 = 6
          BY <4>1
        <5>3. -64 <= n /\ n < 64
          BY <3>6, <5>1, <5>2
        <5> QED
          BY <2>2, <5>3
      <4>2. CASE m # 1
        <5> DEFINE j == m - 1
                   e == 7 * j - 1
        <5>1. j \in Nat /\ j >= 1 /\ e \in Nat /\ 7 * m - 1 = 7 + e
          BY <3>6, <4>2
        <5> HIDE DEF e
        <5>2. 2^(7 * m - 1) = 128 * 2^e /\ 2^e \in Nat
          <6>1. 2^(7 + e) = 2^7 * 2^e /\ 2^e \in Nat
            BY <5>1, PowAdd, PowNat
          <6>2. 2^7 = 128
            OBVIOUS
          <6> QED
            BY <5>1, <6>1, <6>2
        <5>3. -(2^e) <= q /\ q < 2^e
          <6> DEFINE P == 2^e
          <6>1. P \in Nat /\ n < 128 * P /\ -(128 * P) <= n
            BY <3>6, <5>2
          <6> HIDE DEF P
          <6>2. -P <= q /\ q < P
            BY <3>1, <6>1
          <6> QED
            BY <6>2 DEF P
        <5>4. Len(g) <= j
          BY <3>4, <5>1, <5>3 DEF e
        <5> QED
          BY <3>5, <5>4
      <4> QED
        BY <4>1, <4>2
    <3> QED
      BY <3>5, <3>6 DEF SignedLeb
  <2> QED
    BY <2>1, <2>2
<1>2. \A i \in Nat : i \in S
  <2>1. ASSUME NEW i \in Nat, \A j \in Nat : j < i => j \in S
        PROVE  i \in S
    BY <1>1, <2>1
  <2> HIDE DEF S
  <2> QED
    BY <2>1, Induction
<1> SUFFICES ASSUME NEW n \in Int
             PROVE  SignedLeb(n)
  OBVIOUS
<1> DEFINE i == IF n < 0 THEN -n ELSE n
<1>3. i \in Nat /\ (n = i \/ n = -i)
  OBVIOUS
<1> HIDE DEF i
<1> QED
  BY <1>2, <1>3

(* The bytes of a number of a kind.                                        *)
LebBytes(k, n) == IF k \in Signed THEN SLeb[n] ELSE ULeb[n]

(* The number comes back, and not before the last of them.                 *)
LEMMA LebBack ==
  ASSUME NEW k \in Unsigned \cup Signed, NEW n \in LebRange(k)
  PROVE  /\ LebBytes(k, n) \in Stream
         /\ \A c \in Stream : ReadLeb(LebBytes(k, n) \o c, k) = Got(n, c)
         /\ \A b \in Cut(LebBytes(k, n)) : ReadLeb(b, k) = Eof
<1> DEFINE w == Bits[k]
           M == (w + 6) \div 7
           e == LebBytes(k, n)
<1>1. w \in Nat \ {0}
  BY WireAssumption
<1>2. M \in Nat /\ M >= 1 /\ w <= 7 * M
  BY <1>1
<1> HIDE DEF w, M
<1>3. IsLeb(e) /\ LebValue[e][(k \in Signed)] = n /\ Len(e) <= M
  <2>1. CASE k \in Signed
    <3>1. w - 1 \in Nat /\ 7 * M - 1 \in Nat /\ w - 1 <= 7 * M - 1
      BY <1>1, <1>2
    <3>2. 2^(w - 1) \in Nat /\ 2^(7 * M - 1) \in Nat /\ 2^(w - 1) <= 2^(7 * M - 1)
      BY <3>1, PowNat, PowMono
    <3>3. n \in -(2^(w - 1))..(2^(w - 1) - 1)
      BY <2>1 DEF LebRange, w
    <3>4. n \in Int /\ -(2^(7 * M - 1)) <= n /\ n < 2^(7 * M - 1)
      BY <3>2, <3>3
    <3>5. SignedLeb(n)
      BY <3>4, SLebFacts
    <3>6. IsLeb(SLeb[n]) /\ LebValue[SLeb[n]][TRUE] = n /\ Len(SLeb[n]) <= M
      BY <1>2, <3>4, <3>5 DEF SignedLeb
    <3>7. (k \in Signed) = TRUE
      BY <2>1
    <3> QED
      BY <3>6, <3>7 DEF LebBytes
  <2>2. CASE k \notin Signed
    <3>1. 2^w \in Nat /\ 7 * M \in Nat /\ 2^(7 * M) \in Nat /\ 2^w <= 2^(7 * M)
      BY <1>1, <1>2, PowNat, PowMono
    <3>2. n \in 0..(2^w - 1)
      BY <2>2 DEF LebRange, w
    <3>3. n \in Nat /\ n < 2^(7 * M)
      BY <3>1, <3>2
    <3>4. IsLeb(ULeb[n]) /\ LebValue[ULeb[n]][FALSE] = n /\ Len(ULeb[n]) <= M
      BY <1>2, <3>3, ULebFacts
    <3>5. (k \in Signed) = FALSE
      BY <2>2
    <3> QED
      BY <3>4, <3>5 DEF LebBytes
  <2> QED
    BY <2>1, <2>2
<1> HIDE DEF e
<1>4. ASSUME NEW c \in Stream
      PROVE  ReadLeb(e \o c, k) = Got(n, c)
  <2>1. Groups(e \o c, M) = Got(e, c)
    BY <1>2, <1>3, GroupsRead
  <2>2. ReadLeb(e \o c, k) = Guard(InRange(n, k), Got(n, c))
    BY <1>3, <2>1 DEF ReadLeb, Bind, Got, M, w
  <2> QED
    BY <2>2 DEF Guard, InRange
<1>5. ASSUME NEW b \in Cut(e)
      PROVE  ReadLeb(b, k) = Eof
  <2>1. Groups(b, M) = Eof
    BY <1>2, <1>3, GroupsRead
  <2> QED
    BY <2>1 DEF ReadLeb, Bind, Eof, M, w
<1> QED
  BY <1>3, <1>4, <1>5 DEF e, IsLeb

(* A number read is of its kind, and followed by bytes.                    *)
LEMMA LebTyped ==
  ASSUME NEW b \in Stream, NEW k \in Unsigned \cup Signed, ReadLeb(b, k).st = "ok"
  PROVE  ReadLeb(b, k).val \in LebRange(k) /\ ReadLeb(b, k).rest \in Stream
<1> DEFINE M == (Bits[k] + 6) \div 7
           r == Groups(b, M)
           n == LebValue[r.val][(k \in Signed)]
<1>1. M \in Nat
  <2>1. Bits[k] \in Nat
    BY WireAssumption
  <2> QED
    BY <2>1
<1>2. ReadLeb(b, k) = IF r.st = "ok" THEN Guard(InRange(n, k), Got(n, r.rest)) ELSE r
  BY DEF ReadLeb, Bind
<1> HIDE DEF n, M
<1>3. r.st = "ok" /\ ReadLeb(b, k).rest = r.rest
  <2> HIDE DEF r
  <2> QED
    BY <1>2 DEF Guard, Got, Bad
<1>4. r.rest \in Stream
  BY <1>1, <1>3, GroupsTyped
<1> QED
  BY <1>3, <1>4, ReadLebInRange

-----------------------------------------------------------------------------
(* Characters.                                                             *)

(* The bytes of a character say how many they are, and which it is.        *)
LEMMA Utf8Facts ==
  ASSUME NEW c \in Int, IsScalar(c)
  PROVE  /\ Utf8(c) \in Stream /\ Utf8(c) # <<>>
         /\ Utf8Length(Utf8(c)[1]) = Len(Utf8(c)) /\ CharOf(Utf8(c)) = c
<1>1. 0 <= c /\ c < 1114112
  BY SMT DEF IsScalar
<1>2. CASE c < 128
  <2>1. Utf8(c) = <<c>>
    BY <1>2, SMT DEF Utf8
  <2>2. <<c>> \in Seq(Byte)
    <3>1. c \in Byte
      BY <1>1, <1>2, SMT DEF Byte
    <3> QED
      BY <3>1, SMT
  <2> QED
    <3>1. CharOf(<<c>>) = c
      BY SMT DEF CharOf
    <3> QED
      BY <1>2, <2>1, <2>2, <3>1, SMT DEF Stream, Utf8Length
<1>3. CASE 128 <= c /\ c < 2048
  <2> DEFINE x == c \div 64
             y == c % 64
  <2>1. x \in Int /\ y \in Int /\ 0 <= x /\ x < 32 /\ 0 <= y /\ y < 64 /\ c = 64 * x + y
    BY <1>1, <1>3, SMT
  <2>2. Utf8(c) = <<192 + x, 128 + y>>
    <3>1. c \div 1 = c
      BY SMT
    <3> QED
      BY <1>3, <3>1, SMT DEF Utf8
  <2> HIDE DEF x, y
  <2>3. 192 + x \in Byte /\ 128 + y \in Byte
    BY <2>1, SMT DEF Byte
  <2>4. Utf8Length(192 + x) = 2
    BY <2>1, SMT DEF Utf8Length
  <2>5. CharOf(<<192 + x, 128 + y>>) = c
    BY <2>1, SMT DEF CharOf
  <2> QED
    BY <2>2, <2>3, <2>4, <2>5, SMT DEF Stream
<1>4. CASE 2048 <= c /\ c < 65536
  <2> DEFINE x == c \div 4096
             y == (c \div 64) % 64
             z == c % 64
  <2>1. /\ x \in Int /\ y \in Int /\ z \in Int
        /\ 0 <= x /\ x < 16 /\ 0 <= y /\ y < 64 /\ 0 <= z /\ z < 64
        /\ c = 4096 * x + 64 * y + z
    BY <1>1, <1>4, SMT
  <2>2. Utf8(c) = <<224 + x, 128 + y, 128 + z>>
    <3>1. c \div 1 = c
      BY SMT
    <3> QED
      BY <1>4, <3>1, SMT DEF Utf8
  <2> HIDE DEF x, y, z
  <2>3. 224 + x \in Byte /\ 128 + y \in Byte /\ 128 + z \in Byte
    BY <2>1, SMT DEF Byte
  <2>4. Utf8Length(224 + x) = 3
    BY <2>1, SMT DEF Utf8Length
  <2>5. CharOf(<<224 + x, 128 + y, 128 + z>>) = c
    BY <2>1, SMT DEF CharOf
  <2> QED
    BY <2>2, <2>3, <2>4, <2>5, SMT DEF Stream
<1>5. CASE 65536 <= c
  <2> DEFINE u == c \div 262144
             x == (c \div 4096) % 64
             y == (c \div 64) % 64
             z == c % 64
  <2>1. /\ u \in Int /\ x \in Int /\ y \in Int /\ z \in Int
        /\ 0 <= u /\ u < 5 /\ 0 <= x /\ x < 64 /\ 0 <= y /\ y < 64 /\ 0 <= z /\ z < 64
        /\ c = 262144 * u + 4096 * x + 64 * y + z
    BY <1>1, <1>5, SMT
  <2>2. Utf8(c) = <<240 + u, 128 + x, 128 + y, 128 + z>>
    <3>1. c \div 1 = c
      BY SMT
    <3> QED
      BY <1>5, <3>1, SMT DEF Utf8
  <2> HIDE DEF u, x, y, z
  <2>3. 240 + u \in Byte /\ 128 + x \in Byte /\ 128 + y \in Byte /\ 128 + z \in Byte
    BY <2>1, SMT DEF Byte
  <2>4. Utf8Length(240 + u) = 4
    BY <2>1, SMT DEF Utf8Length
  <2>5. CharOf(<<240 + u, 128 + x, 128 + y, 128 + z>>) = c
    BY <2>1, SMT DEF CharOf
  <2> QED
    BY <2>2, <2>3, <2>4, <2>5, SMT DEF Stream
<1> QED
  BY <1>1, <1>2, <1>3, <1>4, <1>5, SMT

(* A character comes back, and not before its last byte.                   *)
LEMMA CharBack ==
  ASSUME NEW c \in Int, IsScalar(c)
  PROVE  /\ \A d \in Stream : ReadChar(Utf8(c) \o d) = Got(c, d)
         /\ \A b \in Cut(Utf8(c)) : ReadChar(b) = Eof
<1> DEFINE e == Utf8(c)
<1>1. /\ e \in Stream /\ e # <<>> /\ Utf8Length(e[1]) = Len(e) /\ CharOf(e) = c
      /\ e \in Seq(Byte) /\ Len(e) \in Nat /\ Len(e) >= 1
  <2>1. e \in Stream /\ e # <<>> /\ Utf8Length(e[1]) = Len(e) /\ CharOf(e) = c
    BY Utf8Facts
  <2> HIDE DEF e
  <2> QED
    BY <2>1 DEF Stream
<1>2. e = Utf8(c)
  OBVIOUS
<1> HIDE DEF e
<1>3. ASSUME NEW d \in Stream
      PROVE  ReadChar(e \o d) = Got(c, d)
  <2>1. d \in Seq(Byte)
    BY DEF Stream
  <2>2. e \o d # <<>> /\ (e \o d)[1] = e[1]
    BY <1>1, <2>1
  <2>3. Take(e \o d, Len(e)) = Got(e, d)
    BY <1>1, TakeFacts
  <2>4. ReadChar(e \o d) = Guard(IsScalar(c) /\ Utf8(c) = e, Got(c, d))
    BY <1>1, <2>2, <2>3 DEF ReadChar, Bind, Got
  <2> QED
    BY <1>2, <2>4 DEF Guard
<1>4. ASSUME NEW b \in Cut(e)
      PROVE  ReadChar(b) = Eof
  <2>1. CASE b = <<>>
    BY <2>1 DEF ReadChar
  <2>2. CASE b # <<>>
    <3>1. Len(b) >= 1 /\ b[1] = e[1]
      <4>1. b \in Seq(Byte) /\ \A i \in 1..Len(b) : b[i] = e[i]
        BY <1>1, CutFacts DEF Stream
      <4>2. Len(b) \in Nat /\ Len(b) >= 1
        BY <2>2, <4>1
      <4> QED
        BY <4>1, <4>2
    <3>2. Take(b, Len(e)) = Eof
      BY <1>1, TakeFacts
    <3> QED
      BY <1>1, <2>2, <3>1, <3>2 DEF ReadChar, Bind, Eof
  <2> QED
    BY <2>1, <2>2
<1> QED
  BY <1>2, <1>3, <1>4

(* A character read is one, and followed by bytes.                         *)
LEMMA CharTyped ==
  ASSUME NEW b \in Stream, ReadChar(b).st = "ok"
  PROVE  /\ ReadChar(b).val \in Int /\ IsScalar(ReadChar(b).val)
         /\ ReadChar(b).rest \in Stream
<1> DEFINE n == Utf8Length(b[1])
           r == Take(b, n)
           s == r.val
           c == CharOf(s)
<1>1. b # <<>>
  BY DEF ReadChar, Eof
<1>2. n \in Nat /\ n \in {1, 2, 3, 4}
  BY DEF Utf8Length
<1>3. ReadChar(b) = IF r.st = "ok" THEN Guard(IsScalar(c) /\ Utf8(c) = s, Got(c, r.rest)) ELSE r
  BY <1>1 DEF ReadChar, Bind
<1> HIDE DEF n, r, c
<1>4. r.st = "ok" /\ IsScalar(c) /\ ReadChar(b) = Got(c, r.rest)
  BY <1>3 DEF Guard, Got, Bad
<1>5. s \in Stream /\ Len(s) = n /\ r.rest \in Stream
  BY <1>2, <1>4, TakeTyped DEF r
<1>6. c \in Int
  <2>1. s \in Seq(Byte) /\ Len(s) \in {1, 2, 3, 4}
    BY <1>2, <1>5 DEF Stream
  <2>2. \A i \in 1..Len(s) : s[i] \in Byte
    BY <2>1, ElementOfSeq
  <2>3. \A x \in Byte : x \in Int
    BY DEF Byte
  <2>4. \A i \in 1..Len(s) : s[i] \in Int
    BY <2>2, <2>3
  <2>5. CASE Len(s) = 1
    BY <2>4, <2>5, SMT DEF CharOf, c
  <2>6. CASE Len(s) = 2
    BY <2>4, <2>6, SMT DEF CharOf, c
  <2>7. CASE Len(s) = 3
    BY <2>4, <2>7, SMT DEF CharOf, c
  <2>8. CASE Len(s) = 4
    BY <2>4, <2>8, SMT DEF CharOf, c
  <2> QED
    BY <2>1, <2>5, <2>6, <2>7, <2>8
<1> QED
  BY <1>4, <1>5, <1>6 DEF Got

(* One byte: a status, or an 8-bit number.                                 *)
LEMMA ByteBack ==
  ASSUME NEW x \in Byte
  PROVE  /\ <<x>> \in Stream
         /\ \A c \in Stream : Take(<<x>> \o c, 1) = Got(<<x>>, c)
         /\ \A b \in Cut(<<x>>) : Take(b, 1) = Eof
<1>1. <<x>> \in Stream /\ Len(<<x>>) = 1
  BY DEF Stream
<1> QED
  BY <1>1, TakeFacts

(* One byte that was read is a byte.                                       *)
LEMMA ByteTyped ==
  ASSUME NEW b \in Stream, Take(b, 1).st = "ok"
  PROVE  Take(b, 1).val[1] \in Byte /\ Take(b, 1).rest \in Stream
<1> DEFINE s == Take(b, 1).val
<1>1. s \in Seq(Byte) /\ Len(s) = 1 /\ Take(b, 1).rest \in Stream
  BY TakeTyped DEF Stream
<1> HIDE DEF s
<1>2. s[1] \in Byte
  <2>1. 1 \in 1..Len(s)
    BY <1>1
  <2> QED
    BY <1>1, <2>1, ElementOfSeq
<1> QED
  BY <1>1, <1>2 DEF s

(* A status byte is read back.                                             *)
LEMMA StatusBack ==
  ASSUME NEW zero \in BOOLEAN, NEW x \in {0, 1}
  PROVE  /\ <<x>> \in Stream
         /\ \A c \in Stream : ReadStatus(<<x>> \o c, zero) = Got((x = 0) = zero, c)
         /\ \A b \in Cut(<<x>>) : ReadStatus(b, zero) = Eof
<1>1. x \in Byte /\ <<x>>[1] = x
  BY DEF Byte
<1>2. ASSUME NEW c \in Stream
      PROVE  ReadStatus(<<x>> \o c, zero) = Got((x = 0) = zero, c)
  <2> DEFINE s == <<x>>
  <2>1. Take(s \o c, 1) = Got(s, c) /\ s[1] = x
    BY <1>1, ByteBack
  <2> HIDE DEF s
  <2>2. ReadStatus(s \o c, zero) = Guard(s[1] \in {0, 1}, Got((s[1] = 0) = zero, c))
    BY <2>1 DEF ReadStatus, Bind, Got
  <2> QED
    BY <2>1, <2>2 DEF Guard, s
<1>3. ASSUME NEW b \in Cut(<<x>>)
      PROVE  ReadStatus(b, zero) = Eof
  <2>1. Take(b, 1) = Eof
    BY <1>1, ByteBack
  <2> QED
    BY <2>1 DEF ReadStatus, Bind, Eof
<1> QED
  BY <1>1, <1>2, <1>3, ByteBack

(* What is read as a status is a Boolean.                                  *)
LEMMA StatusTyped ==
  ASSUME NEW b \in Stream, NEW zero \in BOOLEAN, ReadStatus(b, zero).st = "ok"
  PROVE  ReadStatus(b, zero).val \in BOOLEAN /\ ReadStatus(b, zero).rest \in Stream
<1> DEFINE r == Take(b, 1)
<1>1. ReadStatus(b, zero)
      = IF r.st = "ok" THEN Guard(r.val[1] \in {0, 1}, Got((r.val[1] = 0) = zero, r.rest)) ELSE r
  BY DEF ReadStatus, Bind
<1> HIDE DEF r
<1>2. r.st = "ok" /\ ReadStatus(b, zero) = Got((r.val[1] = 0) = zero, r.rest)
  BY <1>1 DEF Guard, Got, Bad
<1>3. r.rest \in Stream
  BY <1>2, ByteTyped DEF r
<1>4. ReadStatus(b, zero).val = ((r.val[1] = 0) = zero) /\ ReadStatus(b, zero).rest = r.rest
  BY <1>2 DEF Got
<1> QED
  BY <1>3, <1>4

-----------------------------------------------------------------------------
(* Flags.                                                                  *)

(* A bit of a byte of flags is the one that was put there.                 *)
LEMMA FlagByteFacts ==
  ASSUME NEW bits, NEW j \in Nat
  PROVE  /\ FlagByte(bits, j) \in Byte
         /\ \A i \in 1..8 : (FlagByte(bits, j) \div Weight[i]) % 2 = 1 <=> 8 * (j - 1) + i \in bits
<1> DEFINE B(i) == IF 8 * (j - 1) + i \in bits THEN 1 ELSE 0
           x == FlagByte(bits, j)
<1>1. \A i : B(i) \in {0, 1} /\ (B(i) = 1 <=> 8 * (j - 1) + i \in bits)
  OBVIOUS
<1>2. x = B(1) + 2 * B(2) + 4 * B(3) + 8 * B(4) + 16 * B(5) + 32 * B(6) + 64 * B(7) + 128 * B(8)
  <2> DEFINE W(i) == IF 8 * (j - 1) + i \in bits THEN Weight[i] ELSE 0
  <2>1. x = W(1) + W(2) + W(3) + W(4) + W(5) + W(6) + W(7) + W(8)
    BY DEF FlagByte
  <2>2. /\ W(1) = B(1) /\ W(2) = 2 * B(2) /\ W(3) = 4 * B(3) /\ W(4) = 8 * B(4)
        /\ W(5) = 16 * B(5) /\ W(6) = 32 * B(6) /\ W(7) = 64 * B(7) /\ W(8) = 128 * B(8)
    BY DEF Weight
  <2> HIDE DEF W, B, x
  <2> QED
    BY <2>1, <2>2
<1> HIDE DEF B, x
<1>3. /\ x \in Int /\ 0 <= x /\ x < 256
      /\ (x \div 1) % 2 = B(1) /\ (x \div 2) % 2 = B(2) /\ (x \div 4) % 2 = B(3)
      /\ (x \div 8) % 2 = B(4) /\ (x \div 16) % 2 = B(5) /\ (x \div 32) % 2 = B(6)
      /\ (x \div 64) % 2 = B(7) /\ (x \div 128) % 2 = B(8)
  <2> DEFINE a == B(1)  b == B(2)  c == B(3)  d == B(4)
             e == B(5)  f == B(6)  g == B(7)  h == B(8)
  <2>1. /\ a \in {0, 1} /\ b \in {0, 1} /\ c \in {0, 1} /\ d \in {0, 1}
        /\ e \in {0, 1} /\ f \in {0, 1} /\ g \in {0, 1} /\ h \in {0, 1}
    BY <1>1
  <2>2. x = a + 2 * b + 4 * c + 8 * d + 16 * e + 32 * f + 64 * g + 128 * h
    BY <1>2
  <2> HIDE DEF a, b, c, d, e, f, g, h
  <2>3. x \in Int /\ 0 <= x /\ x < 256
    BY <2>1, <2>2
  <2>4. (x \div 1) % 2 = a
    BY <2>1, <2>2
  <2>5. (x \div 2) % 2 = b
    BY <2>1, <2>2
  <2>6. (x \div 4) % 2 = c
    BY <2>1, <2>2
  <2>7. (x \div 8) % 2 = d
    BY <2>1, <2>2
  <2>8. (x \div 16) % 2 = e
    BY <2>1, <2>2
  <2>9. (x \div 32) % 2 = f
    BY <2>1, <2>2
  <2>10. (x \div 64) % 2 = g
    BY <2>1, <2>2
  <2>11. (x \div 128) % 2 = h
    BY <2>1, <2>2
  <2> QED
    BY <2>3, <2>4, <2>5, <2>6, <2>7, <2>8, <2>9, <2>10, <2>11 DEF a, b, c, d, e, f, g, h
<1>4. \A i \in 1..8 : (x \div Weight[i]) % 2 = B(i)
  <2>1. \A i \in 1..8 : i = 1 \/ i = 2 \/ i = 3 \/ i = 4 \/ i = 5 \/ i = 6 \/ i = 7 \/ i = 8
    OBVIOUS
  <2>2. /\ Weight[1] = 1 /\ Weight[2] = 2 /\ Weight[3] = 4 /\ Weight[4] = 8
        /\ Weight[5] = 16 /\ Weight[6] = 32 /\ Weight[7] = 64 /\ Weight[8] = 128
    BY DEF Weight
  <2> QED
    BY <1>3, <2>1, <2>2
<1>5. x \in Byte
  BY <1>3 DEF Byte
<1> QED
  BY <1>1, <1>4, <1>5 DEF x

(* The bytes of flags.                                                     *)
FlagsBytes(names, flags) ==
  [j \in 1..FlagBytes(Len(names)) |-> FlagByte(FlagBits(names, flags), j)]

(* Flags come back from them.                                              *)
LEMMA FlagsBack ==
  ASSUME NEW names, names \in Seq(ToSet(names)), NEW flags \in SUBSET ToSet(names)
  PROVE  /\ FlagsBytes(names, flags) \in Stream
         /\ Len(FlagsBytes(names, flags)) = FlagsWidth(Len(names))
         /\ FlagsIn(FlagsBytes(names, flags), names) = flags
<1> DEFINE n == Len(names)
           m == FlagBytes(n)
           bits == FlagBits(names, flags)
           s == FlagsBytes(names, flags)
<1>1. n \in Nat /\ DOMAIN names = 1..n
  OBVIOUS
<1> HIDE DEF n
<1>2. m \in Nat /\ m = FlagsWidth(n) /\ \A i \in 1..n : (i - 1) \div 8 + 1 \in 1..m
  BY <1>1 DEF FlagBytes, FlagsWidth
<1> HIDE DEF m, bits
<1>3. s = [j \in 1..m |-> FlagByte(bits, j)]
  BY DEF FlagsBytes, n, m, bits
<1>4. \A j \in 1..m : FlagByte(bits, j) \in Byte
  BY <1>2, FlagByteFacts
<1>5. s \in Stream /\ Len(s) = m /\ \A j \in 1..m : s[j] = FlagByte(bits, j)
  <2> HIDE DEF s
  <2> QED
    BY <1>2, <1>3, <1>4 DEF Stream
<1> HIDE DEF s
<1>6. ASSUME NEW i \in 1..n
      PROVE  BitSet(s[(i - 1) \div 8 + 1], i - 1) <=> names[i] \in flags
  <2> DEFINE j == (i - 1) \div 8 + 1
             k == ((i - 1) % 8) + 1
  <2>1. j \in Nat /\ j \in 1..m /\ k \in 1..8 /\ 8 * (j - 1) + k = i
    BY <1>1, <1>2
  <2>2. BitSet(s[j], i - 1) <=> (s[j] \div Weight[k]) % 2 = 1
    BY DEF BitSet
  <2> HIDE DEF j, k
  <2>3. s[j] = FlagByte(bits, j)
    BY <1>5, <2>1
  <2>4. (FlagByte(bits, j) \div Weight[k]) % 2 = 1 <=> 8 * (j - 1) + k \in bits
    BY <2>1, FlagByteFacts
  <2>5. i \in bits <=> names[i] \in flags
    BY <1>1 DEF bits, FlagBits
  <2> QED
    BY <2>1, <2>2, <2>3, <2>4, <2>5 DEF j
<1>7. {i \in DOMAIN names : BitSet(s[(i - 1) \div 8 + 1], i - 1)} = {i \in 1..n : names[i] \in flags}
  BY <1>1, <1>6
<1>8. FlagsIn(s, names) = {names[i] : i \in {x \in 1..n : names[x] \in flags}}
  BY <1>7 DEF FlagsIn
<1>9. {names[i] : i \in {x \in 1..n : names[x] \in flags}} = flags
  BY <1>1 DEF ToSet
<1> QED
  BY <1>2, <1>5, <1>8, <1>9 DEF s, n

(* Reading no value.                                                       *)
LEMMA ReadLastNone ==
  ASSUME NEW n, NEW read, NEW g, NEW c
  PROVE  ReadLast(n, read, g, 0, c) = Got(<<>>, c)
  BY DEF ReadLast

(* Reading one value and then the others, when the one is there,           *)
LEMMA ReadLastNext ==
  ASSUME NEW n, NEW read, NEW g, NEW m \in Nat, m # 0, NEW c, NEW v, NEW r,
         read[n - m + 1][c] = Got(v, r)
  PROVE  ReadLast(n, read, g, m, c)
         = IF g[m - 1][r].st = "ok" THEN Got(<<v>> \o g[m - 1][r].val, g[m - 1][r].rest)
           ELSE g[m - 1][r]
<1>1. /\ read[n - m + 1][c].st = "ok" /\ read[n - m + 1][c].val = v
      /\ read[n - m + 1][c].rest = r
  BY DEF Got
<1> QED
  BY <1>1 DEF ReadLast, Bind

(* and when it is not.                                                     *)
LEMMA ReadLastStuck ==
  ASSUME NEW n, NEW read, NEW g, NEW m \in Nat, m # 0, NEW c, read[n - m + 1][c].st # "ok"
  PROVE  ReadLast(n, read, g, m, c) = read[n - m + 1][c]
  BY DEF ReadLast, Bind

(* Every place of es is read back as that of vs; what is read at every     *)
(* place belongs there.                                                    *)
EachArrives(n, read, es, vs) ==
  \A i \in 1..n : /\ \A c \in Stream : read[i][es[i] \o c] = Got(vs[i], c)
                  /\ \A b \in Cut(es[i]) : read[i][b] = Eof
EachSound(n, read, S) ==
  \A i \in 1..n : \A c \in Stream :
    read[i][c].st = "ok" => read[i][c].val \in S[i] /\ read[i][c].rest \in Stream

(* What is written one after the other is read one after the other.        *)
LEMMA EachBack ==
  ASSUME NEW n \in Nat, NEW read, NEW V, NEW vs \in Seq(V), NEW es \in Seq(Stream),
         Len(vs) = n, Len(es) = n, EachArrives(n, read, es, vs)
  PROVE  /\ FlattenSeq(es) \in Stream
         /\ \A c \in Stream : ReadEach(n, read, FlattenSeq(es) \o c) = Got(vs, c)
         /\ \A b \in Cut(FlattenSeq(es)) : ReadEach(n, read, b) = Eof
<1>1. \A i \in 1..n : /\ \A c \in Stream : read[i][es[i] \o c] = Got(vs[i], c)
                      /\ \A b \in Cut(es[i]) : read[i][b] = Eof
  BY DEF EachArrives
<1> DEFINE g == LastOf(n, read)
           F(m) == FlattenSeq(SubSeq(es, n - m + 1, n))
           W(m) == SubSeq(vs, n - m + 1, n)
           P == {m \in Nat : m <= n =>
                   /\ F(m) \in Stream
                   /\ \A c \in Stream : g[m][F(m) \o c] = Got(W(m), c)
                   /\ \A b \in Cut(F(m)) : g[m][b] = Eof}
<1>2. \A m \in 0..n : \A c \in Stream : g[m][c] = ReadLast(n, read, g, m, c)
  BY ReadEachDefined
<1> HIDE DEF g
<1>3. 0 \in P
  <2>1. SubSeq(es, n - 0 + 1, n) = <<>> /\ SubSeq(vs, n - 0 + 1, n) = <<>>
    <3>1. n - 0 + 1 \in Int /\ n < n - 0 + 1
      OBVIOUS
    <3> QED
      BY <3>1, SubSeqEmpty
  <2>2. FlattenSeq(<<>>) = <<>>
    BY DEF FlattenSeq
  <2>3. F(0) = <<>> /\ W(0) = <<>>
    BY <2>1, <2>2
  <2>4. \A c \in Stream : g[0][c] = Got(<<>>, c)
    <3>1. 0 \in 0..n
      OBVIOUS
    <3> QED
      BY <1>2, <3>1, ReadLastNone
  <2>5. <<>> \in Stream /\ \A c \in Stream : <<>> \o c = c
    BY ConcatFacts DEF Stream
  <2> HIDE DEF F, W
  <2> QED
    BY <2>3, <2>4, <2>5, CutOfNothing
<1>4. ASSUME NEW m \in Nat, m \in P
      PROVE  m + 1 \in P
  <2> SUFFICES ASSUME m + 1 <= n
               PROVE  /\ F(m + 1) \in Stream
                      /\ \A c \in Stream : g[m + 1][F(m + 1) \o c] = Got(W(m + 1), c)
                      /\ \A b \in Cut(F(m + 1)) : g[m + 1][b] = Eof
    OBVIOUS
  <2> DEFINE i == n - m
             e == es[i]
  <2>1. /\ i \in 1..n /\ n - (m + 1) + 1 = i /\ n - m + 1 = i + 1 /\ i \in 1..Len(es) /\ i \in 1..Len(vs)
        /\ n \in i..Len(es) /\ n \in i..Len(vs) /\ m \in 0..n /\ m + 1 \in 0..n
    OBVIOUS
  <2>2. SubSeq(es, i, n) = <<e>> \o SubSeq(es, i + 1, n) /\ W(m + 1) = <<vs[i]>> \o W(m)
    BY <2>1, SubSeqRecursiveFirst
  <2>3. /\ F(m) \in Stream
        /\ \A c \in Stream : g[m][F(m) \o c] = Got(W(m), c)
        /\ \A b \in Cut(F(m)) : g[m][b] = Eof
    BY <1>4, <2>1
  <2>4. F(m + 1) = e \o F(m) /\ e \in Stream
    <3>1. e \in Stream
      BY <2>1
    <3>2. SubSeq(es, i + 1, n) \in Seq(Stream)
      <4>1. \A j \in (i + 1)..n : es[j] \in Stream
        BY <2>1
      <4> QED
        BY <2>1, <4>1, SubSeqProperties
    <3> HIDE DEF e
    <3>3. FlattenSeq(<<e>> \o SubSeq(es, i + 1, n)) = e \o FlattenSeq(SubSeq(es, i + 1, n))
      BY <3>1, <3>2, FlattenFacts
    <3> QED
      BY <2>1, <2>2, <3>1, <3>3
  <2>5. /\ \A c \in Stream : read[i][e \o c] = Got(vs[i], c)
        /\ \A b \in Cut(e) : read[i][b] = Eof
    BY <1>1, <2>1
  <2> HIDE DEF F, W, P, e
  <2> DEFINE k == m + 1
             f == F(m)
             h == F(k)
             w == W(m)
  <2>6. \A c \in Stream : g[k][c] = ReadLast(n, read, g, k, c)
    BY <1>2, <2>1
  <2>7. k \in Nat /\ k # 0 /\ k - 1 = m /\ n - k + 1 = i
    OBVIOUS
  <2>8. /\ f \in Stream /\ \A c \in Stream : g[m][f \o c] = Got(w, c)
        /\ \A b \in Cut(f) : g[m][b] = Eof
        /\ h = e \o f /\ e \in Stream /\ W(k) = <<vs[i]>> \o w
    BY <2>2, <2>3, <2>4
  <2> HIDE DEF k, f, h, w, i
  <2>9. ASSUME NEW c \in Stream, NEW r, read[i][c] = Got(vs[i], r)
        PROVE  g[k][c] = IF g[m][r].st = "ok" THEN Got(<<vs[i]>> \o g[m][r].val, g[m][r].rest)
                         ELSE g[m][r]
    <3>1. read[n - k + 1][c] = Got(vs[i], r)
      BY <2>7, <2>9
    <3>2. ReadLast(n, read, g, k, c)
          = IF g[k - 1][r].st = "ok" THEN Got(<<vs[i]>> \o g[k - 1][r].val, g[k - 1][r].rest)
            ELSE g[k - 1][r]
      <4>1. /\ read[n - k + 1][c].st = "ok" /\ read[n - k + 1][c].val = vs[i]
            /\ read[n - k + 1][c].rest = r
        BY <3>1 DEF Got
      <4> QED
        BY <2>7, <4>1 DEF ReadLast, Bind
    <3> QED
      BY <2>6, <2>7, <3>2
  <2>10. ASSUME NEW c \in Stream
         PROVE  g[k][h \o c] = Got(W(k), c)
    <3>1. h \o c = e \o (f \o c) /\ f \o c \in Stream /\ e \o (f \o c) \in Stream
      <4>1. e \in Seq(Byte) /\ f \in Seq(Byte) /\ c \in Seq(Byte)
        BY <2>8 DEF Stream
      <4>2. (e \o f) \o c = e \o (f \o c) /\ f \o c \in Seq(Byte)
        BY <4>1
      <4>3. e \o (f \o c) \in Seq(Byte)
        BY <4>1, <4>2
      <4> QED
        BY <2>8, <4>2, <4>3 DEF Stream
    <3>2. read[i][h \o c] = Got(vs[i], f \o c)
      BY <2>5, <3>1
    <3>3. g[m][f \o c].st = "ok" /\ g[m][f \o c].val = w /\ g[m][f \o c].rest = c
      <4>1. g[m][f \o c] = Got(w, c)
        BY <2>8
      <4> QED
        BY <4>1 DEF Got
    <3>4. g[k][h \o c] = Got(<<vs[i]>> \o w, c)
      <4> DEFINE y == h \o c  r == f \o c
      <4>1. y \in Stream /\ read[i][y] = Got(vs[i], r)
        BY <3>1, <3>2
      <4> HIDE DEF y, r
      <4>2. g[k][y] = IF g[m][r].st = "ok" THEN Got(<<vs[i]>> \o g[m][r].val, g[m][r].rest)
                      ELSE g[m][r]
        BY <2>9, <4>1
      <4> QED
        BY <3>3, <4>2 DEF y, r
    <3> QED
      BY <2>8, <3>4
  <2>11. ASSUME NEW b \in Cut(h)
         PROVE  g[k][b] = Eof
    <3>1. b \in Stream
      BY DEF Cut
    <3>2. b \in Cut(e) \/ \E x \in Cut(f) : b = e \o x
      BY <2>8, CutOfTwo
    <3>3. CASE b \in Cut(e)
      <4>1. read[n - k + 1][b] = Eof /\ Eof.st # "ok"
        BY <2>5, <2>7, <3>3 DEF Eof
      <4>2. ReadLast(n, read, g, k, b) = Eof
        BY <2>7, <4>1, ReadLastStuck
      <4> QED
        BY <2>6, <3>1, <4>2
    <3>4. ASSUME NEW x \in Cut(f), b = e \o x
          PROVE  g[k][b] = Eof
      <4>1. read[i][b] = Got(vs[i], x)
        BY <2>5, <3>4 DEF Cut
      <4>2. g[m][x] = Eof /\ Eof.st # "ok"
        BY <2>8 DEF Eof
      <4> QED
        BY <2>9, <3>1, <4>1, <4>2
    <3> QED
      BY <3>2, <3>3, <3>4
  <2>12. h \in Stream
    BY <2>8, ConcatFacts DEF Stream
  <2> QED
    BY <2>10, <2>11, <2>12 DEF h, k
<1>5. \A m \in Nat : m \in P
  <2> HIDE DEF P
  <2> QED
    BY <1>3, <1>4, StepInduction
<1>6. SubSeq(es, n - n + 1, n) = es /\ SubSeq(vs, n - n + 1, n) = vs
  <2>1. n - n + 1 = 1
    OBVIOUS
  <2> QED
    BY <2>1, SubSeqFull
<1>7. F(n) = FlattenSeq(es) /\ W(n) = vs
  BY <1>6
<1>8. n \in P
  BY <1>5
<1>9. /\ F(n) \in Stream
      /\ \A c \in Stream : g[n][F(n) \o c] = Got(W(n), c)
      /\ \A b \in Cut(F(n)) : g[n][b] = Eof
  BY <1>8
<1>10. \A b : ReadEach(n, read, b) = g[n][b]
  BY ReadEachDefined DEF g
<1> HIDE DEF F, W, P
<1> QED
  BY <1>7, <1>9, <1>10

(* What is read one after the other has the types one after the other.     *)
LEMMA EachTyped ==
  ASSUME NEW n \in Nat, NEW read, NEW S, NEW b \in Stream,
         EachSound(n, read, S), ReadEach(n, read, b).st = "ok"
  PROVE  /\ ReadEach(n, read, b).val \in Seq(UNION {S[i] : i \in 1..n})
         /\ Len(ReadEach(n, read, b).val) = n
         /\ \A i \in 1..n : ReadEach(n, read, b).val[i] \in S[i]
         /\ ReadEach(n, read, b).rest \in Stream
<1>1. \A i \in 1..n : \A c \in Stream :
        read[i][c].st = "ok" => read[i][c].val \in S[i] /\ read[i][c].rest \in Stream
  BY DEF EachSound
<1> DEFINE g == LastOf(n, read)
           U == UNION {S[i] : i \in 1..n}
           Good(m, r) == /\ r.val \in Seq(U) /\ Len(r.val) = m
                         /\ \A j \in 1..m : r.val[j] \in S[n - m + j]
                         /\ r.rest \in Stream
           P == {m \in Nat : m <= n => \A c \in Stream : g[m][c].st = "ok" => Good(m, g[m][c])}
<1>2. \A m \in 0..n : \A c \in Stream : g[m][c] = ReadLast(n, read, g, m, c)
  BY ReadEachDefined
<1> HIDE DEF g
<1>3. 0 \in P
  <2>1. \A c \in Stream : g[0][c] = Got(<<>>, c)
    <3>1. 0 \in 0..n
      OBVIOUS
    <3> QED
      BY <1>2, <3>1, ReadLastNone
  <2>2. \A c \in Stream : Good(0, Got(<<>>, c))
    BY DEF Got
  <2> HIDE DEF Good
  <2> QED
    BY <2>1, <2>2
<1>4. ASSUME NEW m \in Nat, m \in P
      PROVE  m + 1 \in P
  <2> SUFFICES ASSUME m + 1 <= n, NEW c \in Stream, g[m + 1][c].st = "ok"
               PROVE  Good(m + 1, g[m + 1][c])
    <3> HIDE DEF Good
    <3> QED
      OBVIOUS
  <2> DEFINE i == n - m
             x == read[i][c].val
             d == read[i][c].rest
             r == g[m][d]
  <2>1. /\ i \in 1..n /\ n - (m + 1) + 1 = i /\ m \in 0..n /\ m + 1 \in 0..n
        /\ m + 1 \in Nat /\ m + 1 # 0 /\ (m + 1) - 1 = m
    OBVIOUS
  <2>2. g[m + 1][c] = ReadLast(n, read, g, m + 1, c)
    BY <1>2, <2>1
  <2>3. read[i][c].st = "ok"
    <3>1. read[i][c].st # "ok" => ReadLast(n, read, g, m + 1, c) = read[i][c]
      BY <2>1, ReadLastStuck
    <3> QED
      BY <2>2, <3>1
  <2>4. x \in S[i] /\ d \in Stream
    BY <1>1, <2>1, <2>3
  <2>5. g[m + 1][c] = IF r.st = "ok" THEN Got(<<x>> \o r.val, r.rest) ELSE r
    <3>1. ReadLast(n, read, g, m + 1, c)
          = IF r.st = "ok" THEN Got(<<x>> \o r.val, r.rest) ELSE r
      BY <2>1, <2>3 DEF ReadLast, Bind
    <3> QED
      BY <2>2, <3>1
  <2>6. r.st = "ok" /\ g[m + 1][c] = Got(<<x>> \o r.val, r.rest)
    BY <2>5
  <2>7. Good(m, r)
    <3>1. m <= n => \A y \in Stream : g[m][y].st = "ok" => Good(m, g[m][y])
      <4> HIDE DEF Good
      <4> QED
        BY <1>4
    <3>2. m <= n
      OBVIOUS
    <3> HIDE DEF Good, P, d
    <3> QED
      BY <2>4, <2>6, <3>1, <3>2
  <2> HIDE DEF r, P, x, d
  <2>8. r.val \in Seq(U) /\ Len(r.val) = m /\ r.rest \in Stream
        /\ \A j \in 1..m : r.val[j] \in S[n - m + j]
    BY <2>7
  <2>9. x \in U
    BY <2>1, <2>4
  <2> HIDE DEF U
  <2> DEFINE w == <<x>> \o r.val
  <2>10. /\ w \in Seq(U) /\ Len(w) = m + 1 /\ w[1] = x
         /\ \A j \in 1..m : w[j + 1] = r.val[j]
    BY <2>8, <2>9
  <2> HIDE DEF w
  <2>11. ASSUME NEW j \in 1..(m + 1)
         PROVE  w[j] \in S[n - (m + 1) + j]
    <3>1. CASE j = 1
      BY <2>1, <2>4, <2>10, <3>1
    <3>2. CASE j # 1
      <4>1. j - 1 \in 1..m /\ (j - 1) + 1 = j /\ n - m + (j - 1) = n - (m + 1) + j
        BY <3>2
      <4>2. w[j] = r.val[j - 1] /\ r.val[j - 1] \in S[n - m + (j - 1)]
        BY <2>8, <2>10, <4>1
      <4> QED
        BY <4>1, <4>2
    <3> QED
      BY <3>1, <3>2
  <2>12. g[m + 1][c].val = w /\ g[m + 1][c].rest = r.rest
    BY <2>6 DEF Got, w
  <2> QED
    BY <2>8, <2>10, <2>11, <2>12
<1>5. \A m \in Nat : m \in P
  <2> HIDE DEF P
  <2> QED
    BY <1>3, <1>4, StepInduction
<1>6. ReadEach(n, read, b) = g[n][b]
  BY ReadEachDefined DEF g
<1>7. g[n][b].st = "ok" => Good(n, g[n][b])
  <2>1. n <= n => \A c \in Stream : g[n][c].st = "ok" => Good(n, g[n][c])
    <3> HIDE DEF Good
    <3> QED
      BY <1>5
  <2> HIDE DEF Good, P
  <2> QED
    BY <2>1
<1>8. Good(n, ReadEach(n, read, b))
  <2> HIDE DEF Good
  <2> QED
    BY <1>6, <1>7
<1>9. \A j : n - n + j = j \/ j \notin 1..n
  OBVIOUS
<1> QED
  BY <1>8, <1>9

-----------------------------------------------------------------------------
(* What a type promises: its values are written, and read back however the *)
(* bytes arrive; and what is read is a value of it.                        *)

Arrives(read, e, v) ==
  /\ e \in Stream
  /\ \A c \in Stream : read[e \o c] = Got(v, c)
  /\ \A b \in Cut(e) : read[b] = Eof
Faithful(t) ==
  \A v \in HasType[t] : Encode[t][v].ok /\ Arrives(Decode[t], Encode[t][v].bytes, v)
Sound(t) ==
  \A b \in Stream : Decode[t][b].st = "ok" =>
    Decode[t][b].val \in HasType[t] /\ Decode[t][b].rest \in Stream

(* One reading after another.                                              *)
LEMMA InTwo ==
  ASSUME NEW q, NEW r, NEW read, NEW e, NEW f, NEW x, NEW v,
         Arrives(q, e, x), Arrives(r, f, v),
         \A b, c \in Stream : q[b] = Got(x, c) => read[b] = r[c],
         \A b \in Stream : q[b] = Eof => read[b] = Eof
  PROVE  Arrives(read, e \o f, v)
<1>1. e \in Stream /\ f \in Stream
  BY DEF Arrives
<1>2. e \o f \in Stream
  BY <1>1, ConcatFacts DEF Stream
<1>3. ASSUME NEW c \in Stream
      PROVE  read[(e \o f) \o c] = Got(v, c)
  <2>1. (e \o f) \o c = e \o (f \o c) /\ f \o c \in Stream
    BY <1>1, ConcatFacts DEF Stream
  <2> DEFINE d == f \o c
             b == e \o d
  <2>2. b \in Stream
    BY <1>1, <2>1, ConcatFacts DEF Stream
  <2>3. q[b] = Got(x, d) /\ r[d] = Got(v, c)
    BY <2>1 DEF Arrives
  <2>4. d \in Stream
    BY <2>1
  <2> HIDE DEF b, d
  <2>5. read[b] = r[d]
    BY <2>2, <2>3, <2>4
  <2> QED
    BY <2>1, <2>3, <2>5 DEF b, d
<1>4. ASSUME NEW b \in Cut(e \o f)
      PROVE  read[b] = Eof
  <2>1. b \in Stream
    BY DEF Cut
  <2>2. CASE b \in Cut(e)
    BY <2>1, <2>2 DEF Arrives
  <2>3. ASSUME NEW y \in Cut(f), b = e \o y
        PROVE  read[b] = Eof
    <3>1. y \in Stream /\ q[b] = Got(x, y) /\ r[y] = Eof
      BY <2>3 DEF Arrives, Cut
    <3> QED
      BY <2>1, <3>1
  <2> QED
    BY <1>1, <2>2, <2>3, CutOfTwo
<1> QED
  BY <1>2, <1>3, <1>4 DEF Arrives

(* A reading whose result is given another form.                           *)
LEMMA Reformed ==
  ASSUME NEW q, NEW read, NEW e, NEW x, NEW v, Arrives(q, e, x),
         \A b, c \in Stream : q[b] = Got(x, c) => read[b] = Got(v, c),
         \A b \in Stream : q[b] = Eof => read[b] = Eof
  PROVE  Arrives(read, e, v)
<1>1. ASSUME NEW c \in Stream
      PROVE  read[e \o c] = Got(v, c)
  <2>1. e \o c \in Stream
    BY ConcatFacts DEF Stream, Arrives
  <2> QED
    BY <2>1 DEF Arrives
<1>2. ASSUME NEW b \in Cut(e)
      PROVE  read[b] = Eof
  <2>1. b \in Stream
    BY DEF Cut
  <2> QED
    BY <2>1 DEF Arrives
<1> QED
  BY <1>1, <1>2 DEF Arrives

(* How a result is passed on.                                              *)
LEMMA BindFacts ==
  /\ \A v, c, w : Got(v, c) = Got(w, c) => v = w
  /\ \A v, c : Got(v, c).st = "ok" /\ Got(v, c).val = v /\ Got(v, c).rest = c
  /\ Eof.st = "eof" /\ Bad.st = "bad"
  /\ \A k, v, c : As(k, Got(v, c)) = Got(Val(k, v), c)
  /\ \A k : As(k, Eof) = Eof
  BY DEF Got, Eof, Bad, As, Bind

(* What a tagged result is, if there is one.                               *)
LEMMA AsTyped ==
  ASSUME NEW k, NEW r, As(k, r).st = "ok"
  PROVE  r.st = "ok" /\ As(k, r).val = Val(k, r.val) /\ As(k, r).rest = r.rest
<1>1. As(k, r) = IF r.st = "ok" THEN Got(Val(k, r.val), r.rest) ELSE r
  BY DEF As, Bind
<1> QED
  BY <1>1 DEF Got

(* The result is tagged with its kind.                                     *)
LEMMA TaggedBack ==
  ASSUME NEW q, NEW read, NEW e, NEW x, NEW k, Arrives(q, e, x),
         \A b \in Stream : read[b] = As(k, q[b])
  PROVE  Arrives(read, e, Val(k, x))
<1>1. \A b, c \in Stream : q[b] = Got(x, c) => read[b] = Got(Val(k, x), c)
  BY BindFacts
<1>2. \A b \in Stream : q[b] = Eof => read[b] = Eof
  BY BindFacts
<1> QED
  BY <1>1, <1>2, Reformed

(* A tagged value has its kind and its data.                               *)
LEMMA ValShape ==
  ASSUME NEW k, NEW S, NEW v \in [k : {k}, v : S]
  PROVE  v = Val(k, v.v) /\ v.k = k /\ v.v \in S
  BY DEF Val

(* Data with its tag is a tagged value.                                    *)
LEMMA ValTyped == \A k, S, x : x \in S => Val(k, x) \in [k : {k}, v : S]
  BY DEF Val

-----------------------------------------------------------------------------
(* The kinds without parts.                                                *)

(* It is enough that what is tagged is written and read.                   *)
LEMMA OneLevel ==
  ASSUME NEW t \in ValTypes, NEW k, NEW S, NEW enc, NEW q,
         HasType[t] = [k : {k}, v : S],
         \A v \in HasType[t] : v.k = k => Encode[t][v] = Bytes(enc[v.v]),
         \A b \in Stream : Decode[t][b] = As(k, q[b]),
         \A x \in S : Arrives(q, enc[x], x),
         \A b \in Stream : q[b].st = "ok" => q[b].val \in S /\ q[b].rest \in Stream
  PROVE  Faithful(t) /\ Sound(t)
<1>1. ASSUME NEW v \in HasType[t]
      PROVE  Encode[t][v].ok /\ Arrives(Decode[t], Encode[t][v].bytes, v)
  <2>1. v = Val(k, v.v) /\ v.k = k /\ v.v \in S
    BY ValShape
  <2>2. Encode[t][v].ok /\ Encode[t][v].bytes = enc[v.v]
    <3>1. Encode[t][v] = Bytes(enc[v.v])
      BY <2>1
    <3> QED
      BY <3>1 DEF Bytes
  <2>3. Arrives(Decode[t], enc[v.v], Val(k, v.v))
    BY <2>1, TaggedBack
  <2> QED
    BY <2>1, <2>2, <2>3
<1>2. ASSUME NEW b \in Stream, Decode[t][b].st = "ok"
      PROVE  Decode[t][b].val \in HasType[t] /\ Decode[t][b].rest \in Stream
  <2> DEFINE r == q[b]
  <2>1. Decode[t][b] = As(k, r)
    OBVIOUS
  <2> HIDE DEF r
  <2>2. r.st = "ok" /\ Decode[t][b].val = Val(k, r.val) /\ Decode[t][b].rest = r.rest
    BY <1>2, <2>1, AsTyped
  <2>3. r.val \in S /\ r.rest \in Stream
    BY <2>2 DEF r
  <2> QED
    BY <2>2, <2>3, ValTyped
<1> QED
  BY <1>1, <1>2 DEF Faithful, Sound

(* Booleans are one byte, 0 or 1.                                          *)
LEMMA BoolOneLevel ==
  ASSUME NEW t \in ValTypes, t.k = "bool"
  PROVE  Faithful(t) /\ Sound(t)
<1> DEFINE S == BOOLEAN
           enc == [x \in S |-> <<IF x THEN 1 ELSE 0>>]
           q == [b \in Stream |-> ReadStatus(b, FALSE)]
<1>1. TypedAs(HasType, t) = [k : {t.k}, v : S]
  BY DEF TypedAs, Unsigned, Signed
<1>2. \A v : v.k = t.k => Written(Encode, t, v) = Bytes(<<IF v.v THEN 1 ELSE 0>>)
  BY DEF Written, Unsigned, Signed
<1>3. \A b : ReadAs(Decode, t, b) = As(t.k, ReadStatus(b, FALSE))
  BY DEF ReadAs, Unsigned, Signed
<1>4. ASSUME NEW x \in S
      PROVE  Arrives(q, enc[x], x)
  <2> DEFINE y == IF x THEN 1 ELSE 0
  <2>1. y \in {0, 1} /\ ((y = 0) = FALSE) = x /\ enc[x] = <<y>>
    OBVIOUS
  <2> HIDE DEF y
  <2>2. <<y>> \in Stream /\ \A c \in Stream : <<y>> \o c \in Stream
    BY <2>1, StatusBack, ConcatFacts DEF Stream
  <2>3. \A b \in Cut(<<y>>) : b \in Stream
    BY DEF Cut
  <2>4. /\ \A c \in Stream : ReadStatus(<<y>> \o c, FALSE) = Got(x, c)
        /\ \A b \in Cut(<<y>>) : ReadStatus(b, FALSE) = Eof
    BY <2>1, StatusBack
  <2> QED
    BY <2>1, <2>2, <2>3, <2>4 DEF Arrives
<1>5. \A b \in Stream : q[b].st = "ok" => q[b].val \in S /\ q[b].rest \in Stream
  BY StatusTyped
<1>6. HasType[t] = [k : {t.k}, v : S]
  BY <1>1, CodecUnfolded
<1>7. \A v \in HasType[t] : v.k = t.k => Encode[t][v] = Bytes(enc[v.v])
  <2>1. \A v \in HasType[t] : v.v \in S
    BY <1>6
  <2>2. \A x \in S : enc[x] = <<IF x THEN 1 ELSE 0>>
    OBVIOUS
  <2> HIDE DEF S, enc
  <2> QED
    BY <1>2, <2>1, <2>2, CodecUnfolded
<1>8. \A b \in Stream : Decode[t][b] = As(t.k, q[b])
  BY <1>3, CodecUnfolded
<1> HIDE DEF enc, q, S
<1> QED
  BY <1>4, <1>5, <1>6, <1>7, <1>8, OneLevel

(* 8-bit numbers are one byte, the signed ones in two's complement.        *)
LEMMA ByteOneLevel ==
  ASSUME NEW t \in ValTypes, t.k \in {"u8", "s8"}
  PROVE  Faithful(t) /\ Sound(t)
<1> DEFINE S == IF t.k = "u8" THEN Byte ELSE -128..127
           num(x) == IF t.k = "u8" THEN x ELSE IF x > 127 THEN x - 256 ELSE x
           enc == [x \in S |-> <<x % 256>>]
           q == [b \in Stream |-> Bind(Take(b, 1), LAMBDA s, r : Got(num(s[1]), r))]
<1>1. TypedAs(HasType, t) = [k : {t.k}, v : S]
  BY DEF TypedAs, Unsigned, Signed
<1>2. \A v : v.k = t.k => Written(Encode, t, v) = Bytes(<<v.v % 256>>)
  BY DEF Written, Unsigned, Signed
<1>3. \A b : ReadAs(Decode, t, b) = As(t.k, Bind(Take(b, 1), LAMBDA s, r : Got(num(s[1]), r)))
  BY ZenonT(60) DEF ReadAs, Unsigned, Signed, As, Bind, Got
<1>4. \A x \in S : x % 256 \in Byte /\ num(x % 256) = x
  BY DEF Byte
<1>5. \A y \in Byte : num(y) \in S
  BY DEF Byte
<1> HIDE DEF num
<1>6. ASSUME NEW x \in S
      PROVE  Arrives(q, enc[x], x)
  <2> DEFINE y == x % 256
             e == <<y>>
  <2>1. y \in Byte /\ num(y) = x /\ enc[x] = e
    BY <1>4
  <2>2. e[1] = y
    OBVIOUS
  <2> HIDE DEF y
  <2>3. e \in Stream /\ \A c \in Stream : Take(e \o c, 1) = Got(e, c) /\ e \o c \in Stream
    BY <2>1, ByteBack, ConcatFacts DEF Stream
  <2>4. \A b \in Cut(e) : Take(b, 1) = Eof /\ b \in Stream
    BY <2>1, ByteBack DEF Cut
  <2> HIDE DEF e
  <2>5. ASSUME NEW c \in Stream
        PROVE  q[e \o c] = Got(x, c)
    BY <2>1, <2>2, <2>3 DEF Bind, Got
  <2>6. ASSUME NEW b \in Cut(e)
        PROVE  q[b] = Eof
    BY <2>4 DEF Bind, Eof
  <2> QED
    BY <2>1, <2>3, <2>5, <2>6 DEF Arrives
<1>7. ASSUME NEW b \in Stream, q[b].st = "ok"
      PROVE  q[b].val \in S /\ q[b].rest \in Stream
  <2> DEFINE r == Take(b, 1)
  <2>1. q[b] = IF r.st = "ok" THEN Got(num(r.val[1]), r.rest) ELSE r
    BY DEF Bind
  <2> HIDE DEF r, q
  <2>2. r.st = "ok" /\ q[b].val = num(r.val[1]) /\ q[b].rest = r.rest
    BY <1>7, <2>1 DEF Got
  <2>3. r.val[1] \in Byte /\ r.rest \in Stream
    BY <2>2, ByteTyped DEF r
  <2> QED
    BY <1>5, <2>2, <2>3
<1>8. HasType[t] = [k : {t.k}, v : S]
  BY <1>1, CodecUnfolded
<1>9. \A v \in HasType[t] : v.k = t.k => Encode[t][v] = Bytes(enc[v.v])
  <2>1. \A v \in HasType[t] : v.v \in S
    BY <1>8
  <2> HIDE DEF S
  <2> QED
    BY <1>2, <2>1, CodecUnfolded
<1>10. \A b \in Stream : Decode[t][b] = As(t.k, q[b])
  BY <1>3, CodecUnfolded
<1> HIDE DEF enc, q, S
<1> QED
  BY <1>6, <1>7, <1>8, <1>9, <1>10, OneLevel

(* Wider numbers are LEB128.                                               *)
LEMMA LebOneLevel ==
  ASSUME NEW t \in ValTypes, t.k \in Unsigned \cup Signed
  PROVE  Faithful(t) /\ Sound(t)
<1> DEFINE S == LebRange(t.k)
           enc == [x \in S |-> LebBytes(t.k, x)]
           q == [b \in Stream |-> ReadLeb(b, t.k)]
<1>1. TypedAs(HasType, t) = [k : {t.k}, v : S]
  BY DEF TypedAs, Unsigned, Signed
<1>2. \A v : v.k = t.k => Written(Encode, t, v) = Bytes(LebBytes(t.k, v.v))
  <2>1. CASE t.k \in Unsigned
    BY <2>1 DEF Written, Unsigned, Signed, LebBytes
  <2>2. CASE t.k \in Signed
    BY <2>2 DEF Written, Unsigned, Signed, LebBytes
  <2> QED
    BY <2>1, <2>2
<1>3. \A b : ReadAs(Decode, t, b) = As(t.k, ReadLeb(b, t.k))
  BY DEF ReadAs, Unsigned, Signed
<1>4. ASSUME NEW x \in S
      PROVE  Arrives(q, enc[x], x)
  <2> DEFINE e == LebBytes(t.k, x)
  <2>1. /\ e \in Stream /\ \A c \in Stream : ReadLeb(e \o c, t.k) = Got(x, c)
        /\ \A b \in Cut(e) : ReadLeb(b, t.k) = Eof
    BY LebBack
  <2>2. enc[x] = e
    OBVIOUS
  <2> HIDE DEF e
  <2>3. (\A c \in Stream : e \o c \in Stream) /\ \A b \in Cut(e) : b \in Stream
    BY <2>1, ConcatFacts DEF Stream, Cut
  <2> QED
    BY <2>1, <2>2, <2>3 DEF Arrives
<1>5. \A b \in Stream : q[b].st = "ok" => q[b].val \in S /\ q[b].rest \in Stream
  BY LebTyped
<1>6. HasType[t] = [k : {t.k}, v : S]
  BY <1>1, CodecUnfolded
<1>7. \A v \in HasType[t] : v.k = t.k => Encode[t][v] = Bytes(enc[v.v])
  <2>1. \A v \in HasType[t] : v.v \in S
    BY <1>6
  <2> HIDE DEF S
  <2> QED
    BY <1>2, <2>1, CodecUnfolded
<1>8. \A b \in Stream : Decode[t][b] = As(t.k, q[b])
  BY <1>3, CodecUnfolded
<1> HIDE DEF enc, q, S
<1> QED
  BY <1>4, <1>5, <1>6, <1>7, <1>8, OneLevel

(* Floats are their four or eight bytes.                                   *)
LEMMA FloatOneLevel ==
  ASSUME NEW t \in ValTypes, t.k \in {"f32", "f64"}
  PROVE  Faithful(t) /\ Sound(t)
<1> DEFINE n == IF t.k = "f32" THEN 4 ELSE 8
           S == [1..n -> Byte]
           enc == [x \in S |-> x]
           q == [b \in Stream |-> Take(b, n)]
<1>1. n \in Nat
  OBVIOUS
<1>2. TypedAs(HasType, t) = [k : {t.k}, v : S]
  BY DEF TypedAs, Unsigned, Signed
<1>3. \A v : v.k = t.k => Written(Encode, t, v) = Bytes(v.v)
  BY DEF Written, Unsigned, Signed
<1>4. \A b : ReadAs(Decode, t, b) = As(t.k, Take(b, n))
  BY DEF ReadAs, Unsigned, Signed
<1> HIDE DEF n
<1>5. ASSUME NEW x \in S
      PROVE  Arrives(q, enc[x], x)
  <2>1. x \in Stream /\ Len(x) = n /\ enc[x] = x
    BY <1>1 DEF Stream
  <2>2. (\A c \in Stream : x \o c \in Stream) /\ \A b \in Cut(x) : b \in Stream
    BY <2>1, ConcatFacts DEF Stream, Cut
  <2> QED
    BY <2>1, <2>2, TakeFacts DEF Arrives
<1>6. \A b \in Stream : q[b].st = "ok" => q[b].val \in S /\ q[b].rest \in Stream
  BY <1>1, TakeTyped DEF Stream
<1>7. HasType[t] = [k : {t.k}, v : S]
  BY <1>2, CodecUnfolded
<1>8. \A v \in HasType[t] : v.k = t.k => Encode[t][v] = Bytes(enc[v.v])
  <2>1. \A v \in HasType[t] : v.v \in S
    BY <1>7
  <2> HIDE DEF S
  <2> QED
    BY <1>3, <2>1, CodecUnfolded
<1>9. \A b \in Stream : Decode[t][b] = As(t.k, q[b])
  BY <1>4, CodecUnfolded
<1> HIDE DEF enc, q, S
<1> QED
  BY <1>5, <1>6, <1>7, <1>8, <1>9, OneLevel

(* Characters are UTF-8.                                                   *)
LEMMA CharOneLevel ==
  ASSUME NEW t \in ValTypes, t.k = "char"
  PROVE  Faithful(t) /\ Sound(t)
<1> DEFINE S == {c \in Int : IsScalar(c)}
           enc == [x \in S |-> Utf8(x)]
           q == [b \in Stream |-> ReadChar(b)]
<1>1. TypedAs(HasType, t) = [k : {t.k}, v : S]
  BY DEF TypedAs, Unsigned, Signed
<1>2. \A v : v.k = t.k => Written(Encode, t, v) = Bytes(Utf8(v.v))
  BY DEF Written, Unsigned, Signed
<1>3. \A b : ReadAs(Decode, t, b) = As(t.k, ReadChar(b))
  BY DEF ReadAs, Unsigned, Signed
<1>4. ASSUME NEW x \in S
      PROVE  Arrives(q, enc[x], x)
  <2> DEFINE e == Utf8(x)
  <2>1. /\ e \in Stream /\ \A c \in Stream : ReadChar(e \o c) = Got(x, c)
        /\ \A b \in Cut(e) : ReadChar(b) = Eof
    BY Utf8Facts, CharBack
  <2>2. enc[x] = e
    OBVIOUS
  <2> HIDE DEF e
  <2>3. (\A c \in Stream : e \o c \in Stream) /\ \A b \in Cut(e) : b \in Stream
    BY <2>1, ConcatFacts DEF Stream, Cut
  <2> QED
    BY <2>1, <2>2, <2>3 DEF Arrives
<1>5. \A b \in Stream : q[b].st = "ok" => q[b].val \in S /\ q[b].rest \in Stream
  BY CharTyped
<1>6. HasType[t] = [k : {t.k}, v : S]
  BY <1>1, CodecUnfolded
<1>7. \A v \in HasType[t] : v.k = t.k => Encode[t][v] = Bytes(enc[v.v])
  <2>1. \A v \in HasType[t] : v.v \in S
    BY <1>6
  <2> HIDE DEF S
  <2> QED
    BY <1>2, <2>1, CodecUnfolded
<1>8. \A b \in Stream : Decode[t][b] = As(t.k, q[b])
  BY <1>3, CodecUnfolded
<1> HIDE DEF enc, q, S
<1> QED
  BY <1>4, <1>5, <1>6, <1>7, <1>8, OneLevel

(* Flags are bits.                                                         *)
LEMMA FlagsOneLevel ==
  ASSUME NEW t \in ValTypes, t.k = "flags"
  PROVE  Faithful(t) /\ Sound(t)
<1> DEFINE S == SUBSET ToSet(t.p)
           n == FlagsWidth(Len(t.p))
           enc == [x \in S |-> FlagsBytes(t.p, x)]
           q == [b \in Stream |-> Bind(Take(b, n), LAMBDA s, r : Got(FlagsIn(s, t.p), r))]
<1>1. t.p \in Seq(ToSet(t.p))
  BY TypeAssumption
<1>2. TypedAs(HasType, t) = [k : {t.k}, v : S]
  BY DEF TypedAs, Unsigned, Signed
<1>3. \A v : v.k = t.k => Written(Encode, t, v) = Bytes(FlagsBytes(t.p, v.v))
  BY DEF Written, Unsigned, Signed, FlagsBytes
<1>4. \A b : ReadAs(Decode, t, b)
             = As(t.k, Bind(Take(b, n), LAMBDA s, r : Got(FlagsIn(s, t.p), r)))
  BY DEF ReadAs, Unsigned, Signed, As, Bind, Got
<1>5. ASSUME NEW x \in S
      PROVE  Arrives(q, enc[x], x)
  <2> DEFINE e == FlagsBytes(t.p, x)
  <2>1. e \in Stream /\ Len(e) = n /\ FlagsIn(e, t.p) = x
    BY <1>1, FlagsBack
  <2>2. enc[x] = e
    OBVIOUS
  <2> HIDE DEF e, n
  <2>3. /\ \A c \in Stream : Take(e \o c, n) = Got(e, c) /\ e \o c \in Stream
        /\ \A b \in Cut(e) : Take(b, n) = Eof /\ b \in Stream
    BY <2>1, TakeFacts, ConcatFacts DEF Stream, Cut
  <2>4. ASSUME NEW c \in Stream
        PROVE  q[e \o c] = Got(x, c)
    BY <2>1, <2>3 DEF Bind, Got
  <2>5. ASSUME NEW b \in Cut(e)
        PROVE  q[b] = Eof
    BY <2>3 DEF Bind, Eof
  <2> QED
    BY <2>1, <2>2, <2>4, <2>5 DEF Arrives
<1>6. ASSUME NEW b \in Stream, q[b].st = "ok"
      PROVE  q[b].val \in S /\ q[b].rest \in Stream
  <2> DEFINE r == Take(b, n)
  <2>1. q[b] = IF r.st = "ok" THEN Got(FlagsIn(r.val, t.p), r.rest) ELSE r
    BY DEF Bind
  <2>2. n \in Nat
    <3>1. Len(t.p) \in Nat
      BY <1>1
    <3>2. \A x \in Nat : FlagsWidth(x) \in Nat
      BY DEF FlagsWidth
    <3> QED
      BY <3>1, <3>2
  <2> HIDE DEF r, q, n
  <2>3. r.st = "ok" /\ q[b].val = FlagsIn(r.val, t.p) /\ q[b].rest = r.rest
    BY <1>6, <2>1 DEF Got
  <2>4. r.rest \in Stream
    BY <2>2, <2>3, TakeTyped DEF r
  <2>5. FlagsIn(r.val, t.p) \in S
    BY DEF FlagsIn, ToSet
  <2> QED
    BY <2>3, <2>4, <2>5
<1>7. HasType[t] = [k : {t.k}, v : S]
  BY <1>2, CodecUnfolded
<1>8. \A v \in HasType[t] : v.k = t.k => Encode[t][v] = Bytes(enc[v.v])
  <2>1. \A v \in HasType[t] : v.v \in S
    BY <1>7
  <2> HIDE DEF S
  <2> QED
    BY <1>3, <2>1, CodecUnfolded
<1>9. \A b \in Stream : Decode[t][b] = As(t.k, q[b])
  BY <1>4, CodecUnfolded
<1> HIDE DEF enc, q, S
<1> QED
  BY <1>5, <1>6, <1>7, <1>8, <1>9, OneLevel

(* Counts and discriminants.                                               *)
Count == [b \in Stream |-> ReadLeb(b, "u32")]
(* A count of 32 bits is read back however it arrives.                     *)
LEMMA CountBack ==
  ASSUME NEW n \in Nat, n < 2^Bits["u32"]
  PROVE  Arrives(Count, ULeb[n], n)
<1> DEFINE e == ULeb[n]
<1>1. 2^Bits["u32"] \in Nat
  BY WireAssumption, PowNat DEF Unsigned
<1>2. "u32" \in Unsigned \cup Signed /\ n \in LebRange("u32") /\ LebBytes("u32", n) = e
  BY <1>1 DEF LebRange, LebBytes, Signed, Unsigned
<1>3. /\ e \in Stream /\ \A c \in Stream : ReadLeb(e \o c, "u32") = Got(n, c)
      /\ \A b \in Cut(e) : ReadLeb(b, "u32") = Eof
  BY <1>2, LebBack
<1> HIDE DEF e
<1>4. (\A c \in Stream : e \o c \in Stream) /\ \A b \in Cut(e) : b \in Stream
  BY <1>3, ConcatFacts DEF Stream, Cut
<1>5. Arrives(Count, e, n)
  BY <1>3, <1>4 DEF Arrives, Count
<1> QED
  BY <1>5 DEF e

(* A count that was read is one.                                           *)
LEMMA CountTyped ==
  ASSUME NEW b \in Stream, ReadLeb(b, "u32").st = "ok"
  PROVE  /\ ReadLeb(b, "u32").val \in Nat /\ ReadLeb(b, "u32").val < 2^Bits["u32"]
         /\ ReadLeb(b, "u32").rest \in Stream
<1>1. "u32" \in Unsigned \cup Signed
  BY DEF Unsigned
<1> QED
  BY <1>1, DiscriminantRead, LebTyped

(* Strings are their length and their bytes.                               *)
LEMMA StringOneLevel ==
  ASSUME NEW t \in ValTypes, t.k = "string"
  PROVE  Faithful(t) /\ Sound(t)
<1> DEFINE S == {s \in Stream : IsText(s) /\ Len(s) < 2^Bits["u32"]}
           enc == [x \in S |-> ULeb[Len(x)] \o x]
           text(r, n) == Bind(Take(r, n), LAMBDA s, d : Guard(IsText(s), Got(s, d)))
           q == [b \in Stream |-> LET r == ReadLeb(b, "u32")
                                  IN IF r.st = "ok" THEN text(r.rest, r.val) ELSE r]
<1>1. TypedAs(HasType, t) = [k : {t.k}, v : S]
  BY DEF TypedAs, Unsigned, Signed
<1>2. \A v : v.k = t.k => Written(Encode, t, v) = IF Len(v.v) >= 2^Bits["u32"] THEN Bail
                                                  ELSE Bytes(ULeb[Len(v.v)] \o v.v)
  BY DEF Written, Unsigned, Signed
<1>3. \A b : ReadAs(Decode, t, b) = LET r == ReadLeb(b, "u32")
                                    IN IF r.st = "ok" THEN As(t.k, text(r.rest, r.val)) ELSE r
  BY DEF ReadAs, Unsigned, Signed, Bind
<1>4. ASSUME NEW x \in S
      PROVE  Arrives(q, enc[x], x)
  <2> DEFINE n == Len(x)
             body == [b \in Stream |-> text(b, n)]
  <2>1. n \in Nat /\ n < 2^Bits["u32"] /\ x \in Stream
    BY DEF Stream
  <2>2. enc[x] = ULeb[n] \o x /\ IsText(x)
    OBVIOUS
  <2>3. Arrives(body, x, x)
    <3>1. /\ \A c \in Stream : Take(x \o c, n) = Got(x, c) /\ x \o c \in Stream
          /\ \A b \in Cut(x) : Take(b, n) = Eof /\ b \in Stream
      BY <2>1, TakeFacts, ConcatFacts DEF Stream, Cut
    <3>2. \A c \in Stream : text(x \o c, n) = Got(x, c)
      BY <2>2, <3>1 DEF Bind, Got, Guard
    <3>3. \A b \in Cut(x) : text(b, n) = Eof
      BY <3>1 DEF Bind, Eof
    <3> HIDE DEF text
    <3> QED
      BY <2>1, <3>1, <3>2, <3>3 DEF Arrives
  <2>4. Arrives(Count, ULeb[n], n)
    BY <2>1, CountBack
  <2> HIDE DEF text
  <2>5. ASSUME NEW b \in Stream, NEW c \in Stream, Count[b] = Got(n, c)
        PROVE  q[b] = body[c]
    BY <2>5 DEF Count, Got
  <2>6. ASSUME NEW b \in Stream, Count[b] = Eof
        PROVE  q[b] = Eof
    BY <2>6 DEF Count, Eof
  <2> HIDE DEF q, body, n
  <2>7. Arrives(q, ULeb[n] \o x, x)
    BY <2>3, <2>4, <2>5, <2>6, InTwo
  <2> QED
    BY <2>2, <2>7
<1>5. ASSUME NEW b \in Stream, q[b].st = "ok"
      PROVE  q[b].val \in S /\ q[b].rest \in Stream
  <2> DEFINE r == ReadLeb(b, "u32")
             s == Take(r.rest, r.val)
  <2>1. q[b] = IF r.st = "ok" THEN text(r.rest, r.val) ELSE r
    OBVIOUS
  <2>2. text(r.rest, r.val) = IF s.st = "ok" THEN Guard(IsText(s.val), Got(s.val, s.rest)) ELSE s
    BY DEF Bind
  <2> HIDE DEF r, s, q, text
  <2>3. r.st = "ok" /\ s.st = "ok" /\ IsText(s.val) /\ q[b] = Got(s.val, s.rest)
    <3>1. r.st = "ok" /\ s.st = "ok" /\ q[b] = Guard(IsText(s.val), Got(s.val, s.rest))
      BY <1>5, <2>1, <2>2
    <3>2. CASE IsText(s.val)
      BY <3>1, <3>2 DEF Guard
    <3>3. CASE ~IsText(s.val)
      <4>1. q[b] = Bad
        BY <3>1, <3>3 DEF Guard
      <4> QED
        BY <1>5, <4>1 DEF Bad
    <3> QED
      BY <3>1, <3>2, <3>3
  <2>4. r.val \in Nat /\ r.val < 2^Bits["u32"] /\ r.rest \in Stream
    BY <2>3, CountTyped DEF r
  <2>5. s.val \in Stream /\ Len(s.val) = r.val /\ s.rest \in Stream
    BY <2>3, <2>4, TakeTyped DEF s
  <2> QED
    BY <2>3, <2>4, <2>5 DEF Got
<1>6. HasType[t] = [k : {t.k}, v : S]
  BY <1>1, CodecUnfolded
<1>7. \A v \in HasType[t] : v.k = t.k => Encode[t][v] = Bytes(enc[v.v])
  <2>1. \A v \in HasType[t] : v.v \in S
    BY <1>6
  <2>2. 2^Bits["u32"] \in Nat
    BY WireAssumption, PowNat DEF Unsigned
  <2>3. \A x \in S : ~(Len(x) >= 2^Bits["u32"])
    BY <2>2 DEF Stream
  <2>4. \A x \in S : enc[x] = ULeb[Len(x)] \o x
    OBVIOUS
  <2> HIDE DEF S, enc
  <2> QED
    BY <1>2, <2>1, <2>3, <2>4, CodecUnfolded
<1>8. \A b \in Stream : Decode[t][b] = As(t.k, q[b])
  <2> SUFFICES ASSUME NEW b \in Stream
               PROVE  Decode[t][b] = As(t.k, q[b])
    OBVIOUS
  <2> DEFINE r == ReadLeb(b, "u32")
  <2>1. Decode[t][b] = IF r.st = "ok" THEN As(t.k, text(r.rest, r.val)) ELSE r
    BY <1>3, CodecUnfolded
  <2>2. q[b] = IF r.st = "ok" THEN text(r.rest, r.val) ELSE r
    OBVIOUS
  <2> HIDE DEF text, q, r
  <2>3. r.st # "ok" => As(t.k, r) = r
    BY DEF As, Bind
  <2> QED
    BY <2>1, <2>2, <2>3
<1> HIDE DEF enc, q, S
<1> QED
  BY <1>4, <1>5, <1>6, <1>7, <1>8, OneLevel

(* Names of an enum are their places.                                      *)
LEMMA EnumOneLevel ==
  ASSUME NEW t \in ValTypes, t.k = "enum"
  PROVE  Faithful(t) /\ Sound(t)
<1> DEFINE S == ToSet(t.p)
           enc == [x \in S |-> ULeb[IndexOf(x, t.p) - 1]]
           name(d, r) == IF d >= Len(t.p) THEN Bad ELSE Got(t.p[d + 1], r)
           q == [b \in Stream |-> LET r == ReadLeb(b, "u32")
                                  IN IF r.st = "ok" THEN name(r.val, r.rest) ELSE r]
<1>1. /\ t.p \in Seq(ToSet(t.p)) /\ Len(t.p) \in Nat /\ DOMAIN t.p = 1..Len(t.p)
      /\ Len(t.p) < 2^Bits["u32"] /\ 2^Bits["u32"] \in Nat
  <2>1. t.p \in Seq(ToSet(t.p)) /\ Len(t.p) < 2^Bits["u32"]
    BY TypeAssumption, WireAssumption
  <2>2. 2^Bits["u32"] \in Nat
    BY WireAssumption, PowNat DEF Unsigned
  <2> QED
    BY <2>1, <2>2
<1>2. TypedAs(HasType, t) = [k : {t.k}, v : S]
  BY DEF TypedAs, Unsigned, Signed
<1>3. \A v : v.k = t.k => Written(Encode, t, v) = IF v.v \notin S THEN Bail
                                                  ELSE Bytes(ULeb[IndexOf(v.v, t.p) - 1])
  BY DEF Written, Unsigned, Signed
<1>4. \A b : ReadAs(Decode, t, b)
             = LET r == ReadLeb(b, "u32")
               IN IF r.st = "ok" THEN IF r.val >= Len(t.p) THEN Bad
                                      ELSE Got(Val("enum", t.p[r.val + 1]), r.rest)
                  ELSE r
  BY DEF ReadAs, Unsigned, Signed, Bind
<1>5. ASSUME NEW x \in S
      PROVE  Arrives(q, enc[x], x)
  <2> DEFINE n == IndexOf(x, t.p) - 1
  <2>1. n \in Nat /\ n < Len(t.p) /\ t.p[n + 1] = x
    <3>1. IndexOf(x, t.p) \in 1..Len(t.p) /\ t.p[IndexOf(x, t.p)] = x
      BY <1>1, IndexFacts
    <3> DEFINE i == IndexOf(x, t.p)
    <3>2. i \in Nat /\ i >= 1 /\ i <= Len(t.p) /\ t.p[i] = x
      BY <1>1, <3>1
    <3> HIDE DEF i
    <3>3. i - 1 \in Nat /\ i - 1 < Len(t.p) /\ t.p[(i - 1) + 1] = x
      BY <1>1, <3>2
    <3> QED
      BY <3>3 DEF i
  <2>2. enc[x] = ULeb[n]
    OBVIOUS
  <2> HIDE DEF n
  <2>3. Arrives(Count, ULeb[n], n)
    BY <1>1, <2>1, CountBack
  <2>4. \A c : name(n, c) = Got(x, c)
    BY <1>1, <2>1
  <2> HIDE DEF name
  <2>5. ASSUME NEW b \in Stream, NEW c \in Stream, Count[b] = Got(n, c)
        PROVE  q[b] = Got(x, c)
    <3>1. ReadLeb(b, "u32").st = "ok" /\ ReadLeb(b, "u32").val = n /\ ReadLeb(b, "u32").rest = c
      BY <2>5 DEF Count, Got
    <3>2. q[b] = name(n, c)
      BY <3>1
    <3> QED
      BY <2>4, <3>2
  <2>6. ASSUME NEW b \in Stream, Count[b] = Eof
        PROVE  q[b] = Eof
    BY <2>6 DEF Count, Eof
  <2> HIDE DEF q
  <2>7. Arrives(q, ULeb[n], x)
    BY <2>3, <2>5, <2>6, Reformed
  <2> QED
    BY <2>2, <2>7
<1>6. ASSUME NEW b \in Stream, q[b].st = "ok"
      PROVE  q[b].val \in S /\ q[b].rest \in Stream
  <2> DEFINE r == ReadLeb(b, "u32")
  <2>1. q[b] = IF r.st = "ok" THEN IF r.val >= Len(t.p) THEN Bad ELSE Got(t.p[r.val + 1], r.rest)
               ELSE r
    OBVIOUS
  <2> HIDE DEF r, q
  <2>2. r.st = "ok" /\ ~(r.val >= Len(t.p)) /\ q[b].val = t.p[r.val + 1] /\ q[b].rest = r.rest
    BY <1>6, <2>1 DEF Bad, Got
  <2>3. r.val \in Nat /\ r.rest \in Stream
    BY <2>2, CountTyped DEF r
  <2>4. r.val + 1 \in 1..Len(t.p)
    BY <1>1, <2>2, <2>3
  <2>5. t.p[r.val + 1] \in S
    BY <1>1, <2>4, ElementOfSeq
  <2> QED
    BY <2>2, <2>3, <2>5
<1>7. HasType[t] = [k : {t.k}, v : S]
  BY <1>2, CodecUnfolded
<1>8. \A v \in HasType[t] : v.k = t.k => Encode[t][v] = Bytes(enc[v.v])
  <2>1. \A v \in HasType[t] : v.v \in S
    BY <1>7
  <2>2. \A x \in S : enc[x] = ULeb[IndexOf(x, t.p) - 1]
    OBVIOUS
  <2> HIDE DEF S, enc
  <2> QED
    BY <1>3, <2>1, <2>2, CodecUnfolded
<1>9. \A b \in Stream : Decode[t][b] = As(t.k, q[b])
  <2> SUFFICES ASSUME NEW b \in Stream
               PROVE  Decode[t][b] = As(t.k, q[b])
    OBVIOUS
  <2> DEFINE r == ReadLeb(b, "u32")
  <2>1. Decode[t][b] = IF r.st = "ok" THEN IF r.val >= Len(t.p) THEN Bad
                                           ELSE Got(Val(t.k, t.p[r.val + 1]), r.rest)
                       ELSE r
    BY <1>4, CodecUnfolded
  <2>2. q[b] = IF r.st = "ok" THEN IF r.val >= Len(t.p) THEN Bad ELSE Got(t.p[r.val + 1], r.rest)
               ELSE r
    OBVIOUS
  <2> HIDE DEF q, r
  <2>3. (r.st # "ok" => As(t.k, r) = r) /\ As(t.k, Bad) = Bad
    BY DEF As, Bind, Bad
  <2> QED
    BY <2>1, <2>2, <2>3, BindFacts
<1> HIDE DEF enc, q, S
<1> QED
  BY <1>5, <1>6, <1>7, <1>8, <1>9, OneLevel

(* The kinds that are not supported have no values, and none is read.      *)
Known == {"bool", "u8", "s8", "u16", "s16", "u32", "s32", "u64", "s64", "f32", "f64", "char",
          "string", "list", "record", "tuple", "variant", "enum", "option", "result", "flags"}
(* A type of such a kind keeps its promise.                                *)
LEMMA UnknownOneLevel ==
  ASSUME NEW t \in ValTypes, t.k \notin Known
  PROVE  Faithful(t) /\ Sound(t)
<1>1. TypedAs(HasType, t) = {}
  BY DEF TypedAs, Unsigned, Signed, Known
<1>2. \A b : ReadAs(Decode, t, b) = Bad
  BY DEF ReadAs, Unsigned, Signed, Known
<1>3. HasType[t] = {} /\ \A b \in Stream : Decode[t][b].st # "ok"
  BY <1>1, <1>2, CodecUnfolded DEF Bad
<1> QED
  BY <1>3 DEF Faithful, Sound

-----------------------------------------------------------------------------
(* The kinds with parts.                                                   *)

Each(ts) == Product([i \in DOMAIN ts |-> HasType[ts[i]]])
Reading(ts) == [b \in Stream |-> ReadTypes(Decode, ts, b)]
Writing(ts, vs) == Cat([i \in DOMAIN ts |-> Encode[ts[i]][vs[i]]])

(* Values place by place are a sequence of them.                           *)
LEMMA EachFacts ==
  ASSUME NEW ts \in Seq(ValTypes), NEW vs
  PROVE  vs \in Each(ts) <=> /\ vs \in Seq(UNION {HasType[ts[i]] : i \in 1..Len(ts)})
                             /\ Len(vs) = Len(ts)
                             /\ \A i \in 1..Len(ts) : vs[i] \in HasType[ts[i]]
<1> DEFINE n == Len(ts)
           H == [i \in 1..n |-> HasType[ts[i]]]
           U == UNION {HasType[ts[i]] : i \in 1..n}
<1>1. n \in Nat /\ DOMAIN ts = 1..n
  OBVIOUS
<1>2. DOMAIN H = 1..n /\ \A i \in 1..n : H[i] = HasType[ts[i]]
  OBVIOUS
<1>3. UNION {H[i] : i \in 1..n} = U
  OBVIOUS
<1>4. Each(ts) = Product(H)
  BY <1>1 DEF Each
<1> HIDE DEF H, U, n
<1>5. Product(H) = {w \in [1..n -> U] : \A i \in 1..n : w[i] \in HasType[ts[i]]}
  BY <1>2, <1>3 DEF Product
<1>6. vs \in Seq(U) /\ Len(vs) = n <=> vs \in [1..n -> U]
  <2>1. vs \in Seq(U) /\ Len(vs) = n => vs \in [1..n -> U]
    BY LenProperties
  <2>2. vs \in [1..n -> U] => vs \in Seq(U) /\ Len(vs) = n
    BY <1>1
  <2> QED
    BY <2>1, <2>2
<1> QED
  BY <1>4, <1>5, <1>6 DEF n, U

(* They are written and read one after the other.                          *)
LEMMA TypesBack ==
  ASSUME NEW ts \in Seq(ValTypes), NEW vs \in Each(ts), \A i \in 1..Len(ts) : Faithful(ts[i])
  PROVE  /\ Writing(ts, vs) = [ok |-> TRUE, bytes |-> Writing(ts, vs).bytes]
         /\ Arrives(Reading(ts), Writing(ts, vs).bytes, vs)
<1> DEFINE n == Len(ts)
           rs == [i \in 1..n |-> Encode[ts[i]][vs[i]]]
           es == [i \in 1..n |-> rs[i].bytes]
           read == [i \in 1..n |-> Decode[ts[i]]]
           U == UNION {HasType[ts[i]] : i \in 1..n}
<1>1. n \in Nat /\ DOMAIN ts = 1..n
  OBVIOUS
<1>2. vs \in Seq(U) /\ Len(vs) = n /\ \A i \in 1..n : vs[i] \in HasType[ts[i]]
  BY EachFacts
<1> HIDE DEF U
<1>3. \A i \in 1..n : rs[i].ok /\ Arrives(Decode[ts[i]], rs[i].bytes, vs[i])
  BY <1>2 DEF Faithful
<1>4. Writing(ts, vs) = Cat(rs) /\ DOMAIN rs = 1..n
  BY <1>1 DEF Writing
<1>5. \A b : ReadTypes(Decode, ts, b) = ReadEach(n, read, b)
  BY <1>1 DEF ReadTypes
<1>6. \A i \in 1..n : read[i] = Decode[ts[i]] /\ es[i] = rs[i].bytes
  OBVIOUS
<1> HIDE DEF rs, read
<1>7. Cat(rs) = [ok |-> TRUE, bytes |-> FlattenSeq(es)]
  BY <1>3, <1>4 DEF Cat
<1>8. es \in Seq(Stream) /\ Len(es) = n
  <2>1. \A i \in 1..n : rs[i].bytes \in Stream
    BY <1>3 DEF Arrives
  <2> QED
    BY <1>1, <2>1
<1> HIDE DEF es, n
<1>9. EachArrives(n, read, es, vs)
  BY <1>3, <1>6 DEF Arrives, EachArrives
<1> DEFINE e == FlattenSeq(es)
<1>10. /\ e \in Stream
       /\ \A c \in Stream : ReadEach(n, read, e \o c) = Got(vs, c)
       /\ \A b \in Cut(e) : ReadEach(n, read, b) = Eof
  <2>1. /\ FlattenSeq(es) \in Stream
        /\ \A c \in Stream : ReadEach(n, read, FlattenSeq(es) \o c) = Got(vs, c)
        /\ \A b \in Cut(FlattenSeq(es)) : ReadEach(n, read, b) = Eof
    BY <1>1, <1>2, <1>8, <1>9, EachBack
  <2> QED
    BY <2>1
<1>11. Writing(ts, vs) = [ok |-> TRUE, bytes |-> e]
  BY <1>4, <1>7
<1> HIDE DEF e
<1>12. (\A c \in Stream : e \o c \in Stream) /\ \A b \in Cut(e) : b \in Stream
  BY <1>10, ConcatFacts DEF Stream, Cut
<1>13. \A b \in Stream : Reading(ts)[b] = ReadEach(n, read, b)
  BY <1>5 DEF Reading
<1>14. Arrives(Reading(ts), e, vs)
  BY <1>10, <1>12, <1>13 DEF Arrives
<1> QED
  BY <1>11, <1>14

(* What is read one after the other are values of the types.               *)
LEMMA TypesTyped ==
  ASSUME NEW ts \in Seq(ValTypes), NEW b \in Stream, \A i \in 1..Len(ts) : Sound(ts[i]),
         ReadTypes(Decode, ts, b).st = "ok"
  PROVE  /\ ReadTypes(Decode, ts, b).val \in Each(ts)
         /\ ReadTypes(Decode, ts, b).rest \in Stream
<1> DEFINE n == Len(ts)
           read == [i \in 1..n |-> Decode[ts[i]]]
           S == [i \in 1..n |-> HasType[ts[i]]]
           r == ReadEach(n, read, b)
<1>1. n \in Nat /\ DOMAIN ts = 1..n
  OBVIOUS
<1>2. ReadTypes(Decode, ts, b) = r
  BY <1>1 DEF ReadTypes
<1>3. \A i \in 1..n : read[i] = Decode[ts[i]] /\ S[i] = HasType[ts[i]]
  OBVIOUS
<1>4. UNION {S[i] : i \in 1..n} = UNION {HasType[ts[i]] : i \in 1..n}
  OBVIOUS
<1> HIDE DEF read, S
<1>5. EachSound(n, read, S)
  BY <1>3 DEF Sound, EachSound
<1>6. /\ r.val \in Seq(UNION {S[i] : i \in 1..n}) /\ Len(r.val) = n
      /\ \A i \in 1..n : r.val[i] \in S[i]
      /\ r.rest \in Stream
  <2>1. ReadEach(n, read, b).st = "ok"
    BY <1>2
  <2> HIDE DEF n
  <2>2. /\ ReadEach(n, read, b).val \in Seq(UNION {S[i] : i \in 1..n})
        /\ Len(ReadEach(n, read, b).val) = n
        /\ \A i \in 1..n : ReadEach(n, read, b).val[i] \in S[i]
        /\ ReadEach(n, read, b).rest \in Stream
    BY <1>1, <1>5, <2>1, EachTyped
  <2> QED
    BY <2>2
<1> HIDE DEF r
<1>7. /\ r.val \in Seq(UNION {HasType[ts[i]] : i \in 1..n}) /\ Len(r.val) = n
      /\ \A i \in 1..n : r.val[i] \in HasType[ts[i]]
  BY <1>3, <1>4, <1>6
<1>8. r.val \in Each(ts)
  BY <1>7, EachFacts
<1> QED
  BY <1>2, <1>6, <1>8

(* A head in front of what is written.                                     *)
LEMMA CatCons ==
  ASSUME NEW x \in Stream, NEW R, NEW rs \in Seq(R),
         \A i \in 1..Len(rs) : rs[i].ok /\ rs[i].bytes \in Stream
  PROVE  /\ Cat(<<Bytes(x)>> \o rs) = Bytes(x \o Cat(rs).bytes)
         /\ Cat(rs).bytes \in Stream
<1> DEFINE n == Len(rs)
           all == <<Bytes(x)>> \o rs
           es == [i \in 1..n |-> rs[i].bytes]
           fs == [i \in 1..(n + 1) |-> all[i].bytes]
<1>1. n \in Nat /\ DOMAIN rs = 1..n
  OBVIOUS
<1>2. /\ DOMAIN all = 1..(n + 1) /\ all[1] = Bytes(x)
      /\ \A i \in 2..(n + 1) : all[i] = rs[i - 1]
  <2>1. DOMAIN all = 1..(n + 1) /\ all[1] = Bytes(x)
    BY <1>1
  <2>2. \A i \in 1..n : all[i + 1] = rs[i]
    BY <1>1
  <2>3. ASSUME NEW i \in 2..(n + 1)
        PROVE  all[i] = rs[i - 1]
    <3>1. i - 1 \in 1..n /\ (i - 1) + 1 = i
      BY <1>1
    <3> HIDE DEF all
    <3> QED
      BY <2>2, <3>1
  <2> QED
    BY <2>1, <2>3
<1> HIDE DEF all
<1>3. Bytes(x).ok /\ Bytes(x).bytes = x
  BY DEF Bytes
<1>4. \A i \in 2..(n + 1) : i - 1 \in 1..n
  BY <1>1
<1>5. \A i \in 1..(n + 1) : all[i].ok
  <2>1. \A i \in 1..(n + 1) : i = 1 \/ i \in 2..(n + 1)
    BY <1>1
  <2> QED
    BY <1>2, <1>3, <1>4, <2>1
<1>6. es \in Seq(Stream) /\ Len(es) = n
  BY <1>1
<1>7. fs = <<x>> \o es
  <2>1. fs \in Seq(Stream) /\ Len(fs) = n + 1 /\ fs[1] = x /\ \A i \in 2..(n + 1) : fs[i] = es[i - 1]
    <3>1. \A i \in 1..(n + 1) : all[i].bytes = IF i = 1 THEN x ELSE es[i - 1]
      <4>1. \A i \in 1..(n + 1) : i = 1 \/ i \in 2..(n + 1)
        BY <1>1
      <4>2. \A i \in 1..n : es[i] = rs[i].bytes
        OBVIOUS
      <4> HIDE DEF es
      <4> QED
        BY <1>2, <1>3, <1>4, <4>1, <4>2
    <3>2. \A i \in 1..(n + 1) : all[i].bytes \in Stream
      <4>1. \A i \in 1..(n + 1) : i = 1 \/ i \in 2..(n + 1)
        BY <1>1
      <4> QED
        BY <1>2, <1>3, <1>4, <4>1
    <3>3. \A i \in 2..(n + 1) : i \in 1..(n + 1) /\ i # 1
      BY <1>1
    <3>4. n + 1 \in Nat /\ 1 \in 1..(n + 1)
      BY <1>1
    <3>5. \A i \in 1..(n + 1) : fs[i] = all[i].bytes
      OBVIOUS
    <3>6. fs \in Seq(Stream) /\ Len(fs) = n + 1
      BY <3>2, <3>4
    <3> HIDE DEF es, fs, n
    <3> QED
      BY <3>1, <3>3, <3>4, <3>5, <3>6
  <2> HIDE DEF fs, es, n
  <2>2. <<x>> \in Seq(Stream)
    OBVIOUS
  <2>3. /\ <<x>> \o es \in Seq(Stream) /\ Len(<<x>> \o es) = n + 1
        /\ \A i \in 1..(n + 1) : (<<x>> \o es)[i] = IF i = 1 THEN x ELSE es[i - 1]
    <3>1. Len(<<x>>) = 1 /\ <<x>>[1] = x
      OBVIOUS
    <3>2. /\ <<x>> \o es \in Seq(Stream) /\ Len(<<x>> \o es) = 1 + n
          /\ \A i \in 1..(1 + n) : (<<x>> \o es)[i] = IF i <= 1 THEN <<x>>[i] ELSE es[i - 1]
      BY <1>6, <2>2, <3>1, ConcatProperties
    <3> QED
      BY <1>1, <3>1, <3>2
  <2>4. \A i \in 1..(n + 1) : fs[i] = (<<x>> \o es)[i]
    <3>1. \A i \in 1..(n + 1) : i = 1 \/ i \in 2..(n + 1)
      BY <1>1
    <3>2. \A i \in 2..(n + 1) : i # 1 /\ i \in 1..(n + 1)
      BY <1>1
    <3> QED
      BY <2>1, <2>3, <3>1, <3>2
  <2> QED
    BY <2>1, <2>3, <2>4, SeqEqual
<1>8. FlattenSeq(fs) = x \o FlattenSeq(es) /\ FlattenSeq(es) \in Stream
  BY <1>6, <1>7, FlattenFacts
<1>9. Cat(all) = [ok |-> TRUE, bytes |-> FlattenSeq(fs)]
  BY <1>2, <1>5 DEF Cat
<1>10. Cat(rs).bytes = FlattenSeq(es)
  BY <1>1 DEF Cat
<1> QED
  BY <1>8, <1>9, <1>10 DEF all, Bytes

(* A head and one thing after it.                                          *)
LEMMA CatTwo ==
  ASSUME NEW x \in Stream, NEW r, r.ok, r.bytes \in Stream
  PROVE  /\ Cat(<<Bytes(x), r>>) = Bytes(x \o r.bytes)
         /\ Cat(<<r>>).bytes = r.bytes
<1>1. <<r>> \in Seq({r}) /\ Len(<<r>>) = 1 /\ <<r>>[1] = r
  OBVIOUS
<1>2. <<Bytes(x), r>> = <<Bytes(x)>> \o <<r>>
  OBVIOUS
<1>3. Cat(<<r>>).bytes = r.bytes
  <2>1. [i \in DOMAIN <<r>> |-> <<r>>[i].bytes] = <<r.bytes>>
    OBVIOUS
  <2>2. FlattenSeq(<<r.bytes>>) = r.bytes
    <3>1. <<>> \in Seq(Stream) /\ FlattenSeq(<<>>) = <<>>
      BY DEF FlattenSeq
    <3>2. FlattenSeq(<<r.bytes>> \o <<>>) = r.bytes \o <<>>
      BY <3>1, FlattenFacts
    <3>3. <<r.bytes>> \o <<>> = <<r.bytes>> /\ r.bytes \o <<>> = r.bytes
      BY DEF Stream
    <3> QED
      BY <3>2, <3>3
  <2> QED
    BY <2>1, <2>2 DEF Cat
<1>4. \A i \in 1..Len(<<r>>) : <<r>>[i].ok /\ <<r>>[i].bytes \in Stream
  BY <1>1
<1> QED
  BY <1>1, <1>2, <1>3, <1>4, CatCons

(* A payload that may be missing.                                          *)
LEMMA PayloadBack ==
  ASSUME NEW ts \in AtMostOne(ValTypes), NEW vs \in Each(ts), \A i \in 1..Len(ts) : Faithful(ts[i])
  PROVE  /\ Payload(Encode, vs, ts).ok /\ Payload(Encode, vs, ts).bytes \in Stream
         /\ Arrives(Reading(ts), Payload(Encode, vs, ts).bytes, vs)
         /\ Len(vs) = Len(ts)
<1>1. ts \in Seq(ValTypes) /\ Len(ts) \in Nat /\ Len(ts) <= 1 /\ DOMAIN ts = 1..Len(ts)
  BY DEF AtMostOne
<1>2. /\ vs \in Seq(UNION {HasType[ts[i]] : i \in 1..Len(ts)}) /\ Len(vs) = Len(ts)
      /\ \A i \in 1..Len(ts) : vs[i] \in HasType[ts[i]]
  BY <1>1, EachFacts
<1>3. Arrives(Reading(ts), Writing(ts, vs).bytes, vs)
  BY <1>1, TypesBack
<1>4. Payload(Encode, vs, ts).ok /\ Payload(Encode, vs, ts).bytes = Writing(ts, vs).bytes
  <2>1. CASE ts = <<>>
    <3>1. vs = <<>>
      BY <1>2, <2>1
    <3>2. [i \in DOMAIN ts |-> Encode[ts[i]][vs[i]].bytes] = <<>> /\ FlattenSeq(<<>>) = <<>>
      BY <2>1 DEF FlattenSeq
    <3>3. Writing(ts, vs).bytes = <<>>
      BY <2>1, <3>2 DEF Writing, Cat
    <3> QED
      BY <3>1, <3>3 DEF Payload, Bytes
  <2>2. CASE ts # <<>>
    <3> DEFINE r == Encode[ts[1]][vs[1]]
    <3>1. Len(ts) = 1 /\ DOMAIN ts = {1} /\ vs # <<>>
      BY <1>1, <1>2, <2>2
    <3>2. r.ok /\ r.bytes \in Stream
      BY <1>1, <1>2, <3>1 DEF Faithful, Arrives
    <3>3. [i \in DOMAIN ts |-> Encode[ts[i]][vs[i]]] = <<r>>
      BY <3>1
    <3>4. Payload(Encode, vs, ts) = r
      BY <2>2, <3>1 DEF Payload
    <3> HIDE DEF r
    <3>5. Writing(ts, vs).bytes = r.bytes
      <4>1. <<>> \in Stream
        BY DEF Stream
      <4> QED
        BY <3>2, <3>3, <4>1, CatTwo DEF Writing
    <3> QED
      BY <3>2, <3>4, <3>5
  <2> QED
    BY <2>1, <2>2
<1>5. Payload(Encode, vs, ts).bytes \in Stream
  BY <1>3, <1>4 DEF Arrives
<1> QED
  BY <1>2, <1>3, <1>4, <1>5

(* What the kinds with parts may assume of their parts.                    *)
PartsHold(t) == \A p \in TypeParts(t) : Faithful(p) /\ Sound(p)

(* A reading that begins as another one.                                   *)
LEMMA EachReading ==
  ASSUME NEW ts \in Seq(ValTypes), \A i \in 1..Len(ts) : Faithful(ts[i]) /\ Sound(ts[i])
  PROVE  /\ \A x \in Each(ts) : /\ Writing(ts, x) = Bytes(Writing(ts, x).bytes)
                                /\ Arrives(Reading(ts), Writing(ts, x).bytes, x)
         /\ \A b \in Stream : Reading(ts)[b].st = "ok" =>
              Reading(ts)[b].val \in Each(ts) /\ Reading(ts)[b].rest \in Stream
<1>1. ASSUME NEW x \in Each(ts)
      PROVE  /\ Writing(ts, x) = Bytes(Writing(ts, x).bytes)
             /\ Arrives(Reading(ts), Writing(ts, x).bytes, x)
  BY TypesBack DEF Bytes
<1>2. ASSUME NEW b \in Stream, Reading(ts)[b].st = "ok"
      PROVE  Reading(ts)[b].val \in Each(ts) /\ Reading(ts)[b].rest \in Stream
  <2>1. Reading(ts)[b] = ReadTypes(Decode, ts, b)
    BY DEF Reading
  <2>2. ReadTypes(Decode, ts, b).st = "ok"
    BY <1>2, <2>1
  <2>3. ReadTypes(Decode, ts, b).val \in Each(ts) /\ ReadTypes(Decode, ts, b).rest \in Stream
    BY <2>2, TypesTyped
  <2> QED
    BY <2>1, <2>3
<1> QED
  BY <1>1, <1>2

(* Tuples are their elements.                                              *)
LEMMA TupleOneLevel ==
  ASSUME NEW t \in ValTypes, t.k = "tuple", PartsHold(t)
  PROVE  Faithful(t) /\ Sound(t)
<1> DEFINE S == Each(t.p)
           enc == [x \in S |-> Writing(t.p, x).bytes]
           q == Reading(t.p)
<1>1. t.p \in Seq(ValTypes) /\ \A i \in 1..Len(t.p) : Faithful(t.p[i]) /\ Sound(t.p[i])
  <2>1. TypeParts(t) = ToSet(t.p) /\ t.p \in Seq(ValTypes)
    BY TypeAssumption DEF TypeParts
  <2> QED
    BY <2>1 DEF PartsHold, ToSet
<1>2. TypedAs(HasType, t) = [k : {t.k}, v : S]
  BY DEF TypedAs, Unsigned, Signed, Each
<1>3. \A v : v.k = t.k => Written(Encode, t, v)
                          = Cat([i \in Shorter(v.v, t.p) |-> Encode[t.p[i]][v.v[i]]])
  BY DEF Written, Unsigned, Signed
<1>4. \A b : ReadAs(Decode, t, b) = As(t.k, ReadTypes(Decode, t.p, b))
  BY DEF ReadAs, Unsigned, Signed
<1>5. \A x \in S : Arrives(q, enc[x], x)
  <2>1. \A x \in S : Arrives(Reading(t.p), Writing(t.p, x).bytes, x)
    BY <1>1, EachReading
  <2> HIDE DEF S
  <2> QED
    BY <2>1
<1>6. \A b \in Stream : q[b].st = "ok" => q[b].val \in S /\ q[b].rest \in Stream
  BY <1>1, EachReading
<1>7. HasType[t] = [k : {t.k}, v : S]
  BY <1>2, CodecUnfolded
<1>8. \A v \in HasType[t] : v.k = t.k => Encode[t][v] = Bytes(enc[v.v])
  <2>1. \A v \in HasType[t] : v.v \in S
    BY <1>7
  <2>2. ASSUME NEW x \in S
        PROVE  Cat([i \in Shorter(x, t.p) |-> Encode[t.p[i]][x[i]]]) = Bytes(enc[x])
    <3>1. Shorter(x, t.p) = DOMAIN t.p
      <4>1. Len(x) = Len(t.p) /\ \E U : x \in Seq(U)
        BY <1>1, EachFacts
      <4> QED
        BY <1>1, <4>1 DEF Shorter
    <3>2. Writing(t.p, x) = Bytes(Writing(t.p, x).bytes)
      BY <1>1, EachReading
    <3> QED
      BY <3>1, <3>2 DEF Writing
  <2> HIDE DEF S, enc
  <2> QED
    BY <1>3, <2>1, <2>2, CodecUnfolded
<1>9. \A b \in Stream : Decode[t][b] = As(t.k, q[b])
  BY <1>4, CodecUnfolded DEF Reading
<1> HIDE DEF enc, q, S
<1> QED
  BY <1>5, <1>6, <1>7, <1>8, <1>9, OneLevel

(* The members of a product, place by place.                               *)
LEMMA ProductFacts ==
  ASSUME NEW D, NEW P, DOMAIN P = D, NEW x
  PROVE  x \in Product(P) <=> /\ DOMAIN x = D /\ x = [i \in D |-> x[i]]
                              /\ \A i \in D : x[i] \in P[i]
<1> DEFINE U == UNION {P[i] : i \in D}
<1>1. Product(P) = {y \in [D -> U] : \A i \in D : y[i] \in P[i]}
  BY DEF Product
<1>2. ASSUME DOMAIN x = D, x = [i \in D |-> x[i]], \A i \in D : x[i] \in P[i]
      PROVE  x \in [D -> U]
  <2>1. \A i \in D : x[i] \in U
    BY <1>2
  <2> HIDE DEF U
  <2> QED
    BY <1>2, <2>1
<1> HIDE DEF U
<1>3. x \in [D -> U] => DOMAIN x = D /\ x = [i \in D |-> x[i]]
  OBVIOUS
<1> QED
  BY <1>1, <1>2, <1>3

(* Records are their fields.                                               *)
LEMMA RecordOneLevel ==
  ASSUME NEW t \in ValTypes, t.k = "record", PartsHold(t)
  PROVE  Faithful(t) /\ Sound(t)
<1> DEFINE S == Product([i \in DOMAIN t.p |-> {t.p[i][1]} \X HasType[t.p[i][2]]])
           ts == [i \in DOMAIN t.p |-> t.p[i][2]]
           values(x) == [i \in DOMAIN t.p |-> x[i][2]]
           named(vs) == [i \in DOMAIN t.p |-> <<t.p[i][1], vs[i]>>]
           enc == [x \in S |-> Writing(ts, values(x)).bytes]
           name(r) == IF r.st = "ok" THEN Got(named(r.val), r.rest) ELSE r
           q == [b \in Stream |-> name(ReadTypes(Decode, ts, b))]
<1> DEFINE n == Len(t.p)
<1>1. t.p \in Seq(STRING \X ValTypes) /\ n \in Nat /\ DOMAIN t.p = 1..n
  BY TypeAssumption
<1>2. ts \in Seq(ValTypes) /\ Len(ts) = n /\ \A i \in 1..n : ts[i] = t.p[i][2]
  BY <1>1
<1>3. \A i \in 1..n : Faithful(ts[i]) /\ Sound(ts[i])
  <2>1. \A i \in 1..n : ts[i] \in TypeParts(t)
    BY <1>1, <1>2 DEF TypeParts, ToSet
  <2> QED
    BY <2>1 DEF PartsHold
<1>4. \A x : x \in S <=> /\ DOMAIN x = 1..n /\ x = [i \in 1..n |-> x[i]]
                         /\ \A i \in 1..n : x[i] \in {t.p[i][1]} \X HasType[ts[i]]
  <2> DEFINE P == [i \in DOMAIN t.p |-> {t.p[i][1]} \X HasType[t.p[i][2]]]
  <2>1. DOMAIN P = 1..n /\ \A i \in 1..n : P[i] = {t.p[i][1]} \X HasType[ts[i]]
    BY <1>1, <1>2
  <2> HIDE DEF P, ts
  <2>2. S = Product(P)
    BY DEF P
  <2>3. \A x : x \in S <=> /\ DOMAIN x = 1..n /\ x = [i \in 1..n |-> x[i]]
                           /\ \A i \in 1..n : x[i] \in P[i]
    <3> HIDE DEF S
    <3> QED
      BY <2>1, <2>2, ProductFacts
  <2> HIDE DEF n, S
  <2> QED
    BY <2>1, <2>3
<1>5. \A vs : vs \in Each(ts) <=> /\ DOMAIN vs = 1..n /\ vs = [i \in 1..n |-> vs[i]]
                                  /\ \A i \in 1..n : vs[i] \in HasType[ts[i]]
  <2> DEFINE P == [i \in DOMAIN ts |-> HasType[ts[i]]]
  <2>1. DOMAIN P = 1..n /\ \A i \in 1..n : P[i] = HasType[ts[i]]
    BY <1>1, <1>2
  <2> HIDE DEF P, ts
  <2>2. Each(ts) = Product(P)
    BY DEF P, Each
  <2>3. \A x : x \in Each(ts) <=> /\ DOMAIN x = 1..n /\ x = [i \in 1..n |-> x[i]]
                                  /\ \A i \in 1..n : x[i] \in P[i]
    BY <2>1, <2>2, ProductFacts
  <2> HIDE DEF n
  <2> QED
    BY <2>1, <2>3
<1>6. TypedAs(HasType, t) = [k : {t.k}, v : S]
  BY DEF TypedAs, Unsigned, Signed
<1>7. \A v : v.k = t.k => Written(Encode, t, v)
                          = Cat([i \in Shorter(v.v, t.p) |-> Encode[t.p[i][2]][v.v[i][2]]])
  BY DEF Written, Unsigned, Signed
<1>8. \A b : ReadAs(Decode, t, b)
             = LET r == ReadTypes(Decode, ts, b)
               IN IF r.st = "ok" THEN Got(Val(t.k, named(r.val)), r.rest) ELSE r
  BY DEF ReadAs, Unsigned, Signed, Bind
<1> HIDE DEF S, n
<1>9. ASSUME NEW x \in S
      PROVE  Arrives(q, enc[x], x) /\ values(x) \in Each(ts)
  <2> DEFINE vs == values(x)
  <2>1. \A i \in 1..n : x[i] = <<t.p[i][1], vs[i]>> /\ vs[i] \in HasType[ts[i]]
    BY <1>1, <1>4
  <2>2. vs \in Each(ts)
    BY <1>1, <1>5, <2>1
  <2>3. named(vs) = x
    BY <1>1, <1>4, <2>1
  <2>4. Arrives(Reading(ts), Writing(ts, vs).bytes, vs)
    BY <1>2, <1>3, <2>2, EachReading
  <2>5. enc[x] = Writing(ts, vs).bytes
    OBVIOUS
  <2> HIDE DEF vs, ts, named, enc, n
  <2>6. \A b, c \in Stream : Reading(ts)[b] = Got(vs, c) => q[b] = Got(x, c)
    BY <2>3 DEF Reading, Got
  <2>7. \A b \in Stream : Reading(ts)[b] = Eof => q[b] = Eof
    BY DEF Reading, Eof
  <2> HIDE DEF q
  <2>8. Arrives(q, Writing(ts, vs).bytes, x)
    BY <2>4, <2>6, <2>7, Reformed
  <2> QED
    BY <2>2, <2>5, <2>8 DEF vs
<1>10. ASSUME NEW b \in Stream, q[b].st = "ok"
      PROVE  q[b].val \in S /\ q[b].rest \in Stream
  <2> DEFINE r == ReadTypes(Decode, ts, b)
  <2>1. q[b] = name(r)
    OBVIOUS
  <2> HIDE DEF r, q, named
  <2>2. r.st = "ok" /\ q[b].val = named(r.val) /\ q[b].rest = r.rest
    BY <1>10, <2>1 DEF Got
  <2>3. r.val \in Each(ts) /\ r.rest \in Stream
    <3>1. Reading(ts)[b] = r
      BY DEF Reading, r
    <3> HIDE DEF ts
    <3> QED
      BY <1>2, <1>3, <2>2, <3>1, EachReading
  <2>4. named(r.val) \in S
    <3> DEFINE w == named(r.val)
    <3>1. \A i \in 1..n : w[i] = <<t.p[i][1], r.val[i]>> /\ r.val[i] \in HasType[ts[i]]
      BY <1>1, <1>5, <2>3 DEF named
    <3>2. DOMAIN w = 1..n /\ w = [i \in 1..n |-> w[i]]
      BY <1>1 DEF named
    <3> HIDE DEF w
    <3>3. \A i \in 1..n : w[i] \in {t.p[i][1]} \X HasType[ts[i]]
      <4> HIDE DEF ts, n
      <4> QED
        BY <3>1
    <3>4. w \in S
      BY <1>4, <3>2, <3>3
    <3> QED
      BY <3>4 DEF w
  <2> QED
    BY <2>2, <2>3, <2>4
<1>11. HasType[t] = [k : {t.k}, v : S]
  BY <1>6, CodecUnfolded
<1>12. \A v \in HasType[t] : v.k = t.k => Encode[t][v] = Bytes(enc[v.v])
  <2>1. \A v \in HasType[t] : v.v \in S
    BY <1>11
  <2>2. ASSUME NEW x \in S
        PROVE  Cat([i \in Shorter(x, t.p) |-> Encode[t.p[i][2]][x[i][2]]]) = Bytes(enc[x])
    <3> DEFINE vs == values(x)
    <3>1. Shorter(x, t.p) = DOMAIN t.p /\ DOMAIN ts = DOMAIN t.p
      BY <1>1, <1>4 DEF Shorter
    <3>2. \A i \in DOMAIN t.p : Encode[t.p[i][2]][x[i][2]] = Encode[ts[i]][vs[i]]
      OBVIOUS
    <3>3. vs \in Each(ts)
      BY <1>9
    <3>4. enc[x] = Writing(ts, vs).bytes
      OBVIOUS
    <3> HIDE DEF vs, ts, enc
    <3>5. Cat([i \in Shorter(x, t.p) |-> Encode[t.p[i][2]][x[i][2]]]) = Writing(ts, vs)
      <4>1. [i \in Shorter(x, t.p) |-> Encode[t.p[i][2]][x[i][2]]]
            = [i \in DOMAIN ts |-> Encode[ts[i]][vs[i]]]
        BY <3>1, <3>2
      <4> QED
        BY <4>1 DEF Writing
    <3>6. Writing(ts, vs) = Bytes(Writing(ts, vs).bytes)
      BY <1>2, <1>3, <3>3, EachReading
    <3> QED
      BY <3>4, <3>5, <3>6
  <2> HIDE DEF enc
  <2> QED
    BY <1>7, <2>1, <2>2, CodecUnfolded
<1>13. \A b \in Stream : Decode[t][b] = As(t.k, q[b])
  <2> SUFFICES ASSUME NEW b \in Stream
               PROVE  Decode[t][b] = As(t.k, q[b])
    OBVIOUS
  <2> DEFINE r == ReadTypes(Decode, ts, b)
  <2>1. Decode[t][b] = IF r.st = "ok" THEN Got(Val(t.k, named(r.val)), r.rest) ELSE r
    BY <1>8, CodecUnfolded
  <2>2. q[b] = IF r.st = "ok" THEN Got(named(r.val), r.rest) ELSE r
    OBVIOUS
  <2> HIDE DEF q, r, named
  <2>3. r.st # "ok" => As(t.k, r) = r
    BY DEF As, Bind
  <2> QED
    BY <2>1, <2>2, <2>3, BindFacts
<1> HIDE DEF enc, q
<1> QED
  BY <1>9, <1>10, <1>11, <1>12, <1>13, OneLevel

(* Values of one type.                                                     *)
LEMMA EachSame ==
  ASSUME NEW n \in Nat, NEW ts, DOMAIN ts = 1..n, NEW H, \A i \in 1..n : HasType[ts[i]] = H, NEW x
  PROVE  x \in Each(ts) <=> x \in Seq(H) /\ Len(x) = n
<1> DEFINE P == [i \in DOMAIN ts |-> HasType[ts[i]]]
<1>1. Each(ts) = Product(P)
  BY DEF Each
<1>2. DOMAIN P = 1..n /\ \A i \in 1..n : P[i] = H
  OBVIOUS
<1> HIDE DEF P
<1>3. x \in Each(ts) <=> /\ DOMAIN x = 1..n /\ x = [i \in 1..n |-> x[i]]
                         /\ \A i \in 1..n : x[i] \in H
  BY <1>1, <1>2, ProductFacts
<1>4. x \in [1..n -> H] <=> x \in Seq(H) /\ Len(x) = n
  OBVIOUS
<1>5. x \in [1..n -> H] <=> /\ DOMAIN x = 1..n /\ x = [i \in 1..n |-> x[i]]
                            /\ \A i \in 1..n : x[i] \in H
  OBVIOUS
<1> QED
  BY <1>3, <1>4, <1>5

(* Lists are their length and their elements.                              *)
LEMMA ListOneLevel ==
  ASSUME NEW t \in ValTypes, t.k = "list", PartsHold(t)
  PROVE  Faithful(t) /\ Sound(t)
<1> DEFINE H == HasType[t.p]
           S == {vs \in Seq(H) : Len(vs) < 2^Bits["u32"]}
           same(n) == [i \in 1..n |-> t.p]
           enc == [x \in S |-> ULeb[Len(x)] \o Writing(same(Len(x)), x).bytes]
           q == [b \in Stream |-> LET r == ReadLeb(b, "u32")
                                  IN IF r.st = "ok" THEN ReadTypes(Decode, same(r.val), r.rest) ELSE r]
<1>1. t.p \in ValTypes /\ Faithful(t.p) /\ Sound(t.p)
  <2>1. TypeParts(t) = {t.p}
    BY DEF TypeParts
  <2> QED
    BY <2>1, TypeAssumption DEF PartsHold
<1>2. ASSUME NEW n \in Nat
      PROVE  /\ same(n) \in Seq(ValTypes) /\ Len(same(n)) = n
             /\ \A i \in 1..n : same(n)[i] = t.p
             /\ \A i \in 1..Len(same(n)) : Faithful(same(n)[i]) /\ Sound(same(n)[i])
  BY <1>1
<1>3. ASSUME NEW n \in Nat, NEW x
      PROVE  x \in Each(same(n)) <=> x \in Seq(H) /\ Len(x) = n
  <2>1. DOMAIN same(n) = 1..n /\ \A i \in 1..n : HasType[same(n)[i]] = H
    OBVIOUS
  <2> HIDE DEF same, H
  <2> QED
    BY <2>1, EachSame
<1>4. TypedAs(HasType, t) = [k : {t.k}, v : S]
  BY DEF TypedAs, Unsigned, Signed
<1>5. \A v : v.k = t.k => Written(Encode, t, v)
        = IF Len(v.v) >= 2^Bits["u32"] THEN Bail
          ELSE Cat(<<Bytes(ULeb[Len(v.v)])>> \o [i \in DOMAIN v.v |-> Encode[t.p][v.v[i]]])
  BY DEF Written, Unsigned, Signed
<1>6. \A b : ReadAs(Decode, t, b)
             = LET r == ReadLeb(b, "u32")
               IN IF r.st = "ok" THEN As(t.k, ReadEach(r.val, [i \in 1..r.val |-> Decode[t.p]], r.rest))
                  ELSE r
  BY DEF ReadAs, Unsigned, Signed, Bind
<1>7. \A n \in Nat : \A b : ReadEach(n, [i \in 1..n |-> Decode[t.p]], b) = ReadTypes(Decode, same(n), b)
  <2> SUFFICES ASSUME NEW n \in Nat, NEW b
               PROVE  ReadEach(n, [i \in 1..n |-> Decode[t.p]], b) = ReadTypes(Decode, same(n), b)
    OBVIOUS
  <2>1. [i \in DOMAIN same(n) |-> Decode[same(n)[i]]] = [i \in 1..n |-> Decode[t.p]]
    OBVIOUS
  <2> QED
    BY <1>2, <2>1 DEF ReadTypes
<1>8. 2^Bits["u32"] \in Nat
  BY WireAssumption, PowNat DEF Unsigned
<1> HIDE DEF same, H
<1>9. ASSUME NEW x \in S
      PROVE  Arrives(q, enc[x], x)
  <2> DEFINE n == Len(x)
             body == Reading(same(n))
             f == Writing(same(n), x).bytes
  <2>1. n \in Nat /\ n < 2^Bits["u32"] /\ x \in Seq(H)
    OBVIOUS
  <2>2. enc[x] = ULeb[n] \o f
    OBVIOUS
  <2>3. Arrives(body, f, x)
    <3>1. x \in Each(same(n))
      BY <1>3, <2>1
    <3> HIDE DEF n
    <3> QED
      BY <1>2, <2>1, <3>1, EachReading
  <2>4. Arrives(Count, ULeb[n], n)
    BY <2>1, CountBack
  <2>5. ASSUME NEW b \in Stream, NEW c \in Stream, Count[b] = Got(n, c)
        PROVE  q[b] = body[c]
    BY <2>5 DEF Count, Got, Reading
  <2>6. ASSUME NEW b \in Stream, Count[b] = Eof
        PROVE  q[b] = Eof
    BY <2>6 DEF Count, Eof
  <2> HIDE DEF q, body, n, f
  <2>7. Arrives(q, ULeb[n] \o f, x)
    BY <2>3, <2>4, <2>5, <2>6, InTwo
  <2> QED
    BY <2>2, <2>7
<1>10. ASSUME NEW b \in Stream, q[b].st = "ok"
      PROVE  q[b].val \in S /\ q[b].rest \in Stream
  <2> DEFINE r == ReadLeb(b, "u32")
             s == ReadTypes(Decode, same(r.val), r.rest)
  <2>1. q[b] = IF r.st = "ok" THEN s ELSE r
    OBVIOUS
  <2> HIDE DEF r, q
  <2>2. r.st = "ok" /\ q[b] = s /\ s.st = "ok"
    BY <1>10, <2>1
  <2>3. r.val \in Nat /\ r.val < 2^Bits["u32"] /\ r.rest \in Stream
    BY <2>2, CountTyped DEF r
  <2>4. Reading(same(r.val))[r.rest] = s
    BY <2>3 DEF Reading
  <2> HIDE DEF s
  <2>5. s.val \in Each(same(r.val)) /\ s.rest \in Stream
    BY <1>2, <2>2, <2>3, <2>4, EachReading
  <2>6. s.val \in Seq(H) /\ Len(s.val) = r.val
    BY <1>3, <2>3, <2>5
  <2> QED
    BY <2>2, <2>3, <2>5, <2>6
<1>11. HasType[t] = [k : {t.k}, v : S]
  BY <1>4, CodecUnfolded
<1>12. \A v \in HasType[t] : v.k = t.k => Encode[t][v] = Bytes(enc[v.v])
  <2>1. \A v \in HasType[t] : v.v \in S
    BY <1>11
  <2>2. \A x \in S : ~(Len(x) >= 2^Bits["u32"])
    BY <1>8
  <2>3. ASSUME NEW x \in S
        PROVE  Cat(<<Bytes(ULeb[Len(x)])>> \o [i \in DOMAIN x |-> Encode[t.p][x[i]]]) = Bytes(enc[x])
    <3> DEFINE n == Len(x)
               rs == [i \in DOMAIN x |-> Encode[t.p][x[i]]]
               R == {rs[i] : i \in 1..n}
    <3>1. n \in Nat /\ x \in Seq(H) /\ DOMAIN x = 1..n /\ n < 2^Bits["u32"]
      OBVIOUS
    <3>2. rs \in Seq(R) /\ Len(rs) = n /\ \A i \in 1..n : rs[i] = Encode[t.p][x[i]]
      BY <3>1
    <3>3. \A i \in 1..Len(rs) : rs[i].ok /\ rs[i].bytes \in Stream
      <4>1. \A i \in 1..n : x[i] \in HasType[t.p]
        BY <3>1 DEF H
      <4> HIDE DEF n, rs, R
      <4> QED
        BY <1>1, <3>2, <4>1 DEF Faithful, Arrives
    <3>4. Cat(rs) = Writing(same(n), x)
      BY <3>1 DEF Writing, same
    <3>5. ULeb[n] \in Stream
      BY <3>1, CountBack DEF Arrives
    <3>6. enc[x] = ULeb[n] \o Writing(same(n), x).bytes
      OBVIOUS
    <3> HIDE DEF n, rs, R, enc
    <3>7. Cat(<<Bytes(ULeb[n])>> \o rs) = Bytes(ULeb[n] \o Cat(rs).bytes)
      BY <3>2, <3>3, <3>5, CatCons
    <3> QED
      BY <3>4, <3>6, <3>7 DEF n, rs
  <2> HIDE DEF S, enc
  <2> QED
    BY <1>5, <2>1, <2>2, <2>3, CodecUnfolded
<1>13. \A b \in Stream : Decode[t][b] = As(t.k, q[b])
  <2> SUFFICES ASSUME NEW b \in Stream
               PROVE  Decode[t][b] = As(t.k, q[b])
    OBVIOUS
  <2> DEFINE r == ReadLeb(b, "u32")
             s == ReadTypes(Decode, same(r.val), r.rest)
             w == ReadEach(r.val, [i \in 1..r.val |-> Decode[t.p]], r.rest)
  <2>1. Decode[t][b] = IF r.st = "ok" THEN As(t.k, w) ELSE r
    BY <1>6, CodecUnfolded
  <2>2. q[b] = IF r.st = "ok" THEN s ELSE r
    OBVIOUS
  <2>3. r.st # "ok" => As(t.k, r) = r
    BY DEF As, Bind
  <2>4. r.st = "ok" => w = s
    <3>1. r.st = "ok" => r.val \in Nat
      BY CountTyped
    <3> HIDE DEF r
    <3> QED
      BY <1>7, <3>1
  <2> HIDE DEF q, r, s, w
  <2> QED
    BY <2>1, <2>2, <2>3, <2>4
<1> HIDE DEF enc, q, S
<1> QED
  BY <1>9, <1>10, <1>11, <1>12, <1>13, OneLevel

(* The byte in front of an option or a result.                             *)
Status(zero) == [b \in Stream |-> ReadStatus(b, zero)]
(* It is read back however it arrives.                                     *)
LEMMA StatusArrives ==
  ASSUME NEW zero \in BOOLEAN, NEW x \in {0, 1}, NEW y \in BOOLEAN, y = ((x = 0) = zero)
  PROVE  Arrives(Status(zero), <<x>>, y)
<1>1. <<x>> \in Stream
  BY StatusBack
<1>2. ASSUME NEW c \in Stream
      PROVE  Status(zero)[<<x>> \o c] = Got(y, c)
  <2>1. <<x>> \o c \in Stream
    BY <1>1, StreamFacts
  <2>2. ReadStatus(<<x>> \o c, zero) = Got((x = 0) = zero, c)
    BY StatusBack
  <2> QED
    BY <2>1, <2>2 DEF Status
<1>3. ASSUME NEW b \in Cut(<<x>>)
      PROVE  Status(zero)[b] = Eof
  <2>1. b \in Stream /\ ReadStatus(b, zero) = Eof
    BY StatusBack DEF Cut
  <2> QED
    BY <2>1 DEF Status
<1> QED
  BY <1>1, <1>2, <1>3 DEF Arrives

(* Sequences of at most one member.                                        *)
LEMMA AtMostOneFacts ==
  ASSUME NEW H, NEW x
  PROVE  /\ x \in AtMostOne(H) <=> x \in Seq(H) /\ (Len(x) = 0 \/ Len(x) = 1)
         /\ x \in Seq(H) /\ Len(x) = 0 => x = <<>>
<1>1. x \in Seq(H) => Len(x) \in Nat /\ (Len(x) = 0 => x = <<>>)
  OBVIOUS
<1>2. \A n \in Nat : n <= 1 <=> n = 0 \/ n = 1
  OBVIOUS
<1> QED
  BY <1>1, <1>2 DEF AtMostOne

(* Options are a status byte and at most one value.                        *)
LEMMA OptionOneLevel ==
  ASSUME NEW t \in ValTypes, t.k = "option", PartsHold(t)
  PROVE  Faithful(t) /\ Sound(t)
<1> DEFINE H == HasType[t.p]
           S == AtMostOne(H)
           ts(some) == IF some THEN <<t.p>> ELSE <<>>
           enc == [x \in S |-> <<Len(x)>> \o Payload(Encode, x, <<t.p>>).bytes]
           q == [b \in Stream |-> LET r == ReadStatus(b, FALSE)
                                  IN IF r.st = "ok" THEN ReadTypes(Decode, ts(r.val), r.rest) ELSE r]
<1>1. t.p \in ValTypes /\ Faithful(t.p) /\ Sound(t.p)
  <2>1. TypeParts(t) = {t.p}
    BY DEF TypeParts
  <2> QED
    BY <2>1, TypeAssumption DEF PartsHold
<1>2. /\ \A some \in BOOLEAN : ts(some) \in AtMostOne(ValTypes) /\ ts(some) \in Seq(ValTypes)
      /\ \A some \in BOOLEAN : \A i \in 1..Len(ts(some)) : Faithful(ts(some)[i]) /\ Sound(ts(some)[i])
      /\ ts(TRUE) = <<t.p>> /\ Len(ts(TRUE)) = 1 /\ ts(FALSE) = <<>> /\ Len(ts(FALSE)) = 0
  BY <1>1 DEF AtMostOne
<1>3. /\ \A x : x \in Each(ts(TRUE)) <=> x \in Seq(H) /\ Len(x) = 1
      /\ \A x : x \in Each(ts(FALSE)) <=> x \in Seq(H) /\ Len(x) = 0
  <2>1. /\ DOMAIN ts(TRUE) = 1..1 /\ \A i \in 1..1 : HasType[ts(TRUE)[i]] = H
        /\ DOMAIN ts(FALSE) = 1..0 /\ \A i \in 1..0 : HasType[ts(FALSE)[i]] = H
    OBVIOUS
  <2>2. 0 \in Nat /\ 1 \in Nat
    OBVIOUS
  <2> HIDE DEF ts, H
  <2> QED
    BY <2>1, <2>2, EachSame
<1>4. TypedAs(HasType, t) = [k : {t.k}, v : S]
  BY DEF TypedAs, Unsigned, Signed
<1>5. \A v : v.k = t.k => Written(Encode, t, v)
                          = Cat(<<Bytes(<<Len(v.v)>>), Payload(Encode, v.v, <<t.p>>)>>)
  BY DEF Written, Unsigned, Signed
<1>6. \A b : ReadAs(Decode, t, b)
             = LET r == ReadStatus(b, FALSE)
               IN IF r.st = "ok" THEN As(t.k, ReadTypes(Decode, ts(r.val), r.rest)) ELSE r
  BY DEF ReadAs, Unsigned, Signed, Bind
<1> HIDE DEF H
<1>7. ASSUME NEW x \in S, NEW y \in BOOLEAN, y = ((Len(x) = 0) = FALSE)
      PROVE  /\ Len(x) \in {0, 1} /\ x \in Each(ts(y))
             /\ Payload(Encode, x, <<t.p>>) = Payload(Encode, x, ts(y))
  <2>1. x \in Seq(H) /\ (Len(x) = 0 \/ Len(x) = 1)
    BY AtMostOneFacts
  <2> HIDE DEF S
  <2>2. CASE y
    <3>1. Len(x) = 1
      BY <1>7, <2>1, <2>2
    <3>2. ts(y) = <<t.p>> /\ ts(y) = ts(TRUE)
      BY <2>2
    <3> HIDE DEF ts
    <3> QED
      BY <1>3, <2>1, <3>1, <3>2
  <2>3. CASE ~y
    <3>1. Len(x) = 0 /\ x = <<>>
      <4>1. Len(x) = 0
        BY <1>7, <2>1, <2>3
      <4> QED
        BY <2>1, <4>1, AtMostOneFacts
    <3>2. ts(y) = ts(FALSE)
      BY <2>3
    <3>3. Payload(Encode, x, <<t.p>>) = Payload(Encode, x, ts(y))
      BY <3>1 DEF Payload
    <3> HIDE DEF ts
    <3> QED
      BY <1>3, <2>1, <3>1, <3>2, <3>3
  <2> QED
    BY <2>2, <2>3
<1>8. ASSUME NEW x, NEW y \in BOOLEAN, x \in Each(ts(y))
      PROVE  x \in S
  <2>1. ts(y) = ts(TRUE) \/ ts(y) = ts(FALSE)
    OBVIOUS
  <2> HIDE DEF ts
  <2>2. x \in Seq(H) /\ (Len(x) = 0 \/ Len(x) = 1)
    BY <1>3, <1>8, <2>1
  <2> QED
    BY <2>2, AtMostOneFacts
<1>9. ASSUME NEW x \in S
      PROVE  \E y \in BOOLEAN : y = ((Len(x) = 0) = FALSE)
  OBVIOUS
<1> HIDE DEF ts, S, H
<1>10. ASSUME NEW x \in S
      PROVE  Arrives(q, enc[x], x)
  <2>1. PICK y \in BOOLEAN : y = ((Len(x) = 0) = FALSE)
    BY <1>9
  <2> DEFINE body == Reading(ts(y))
             f == Payload(Encode, x, ts(y)).bytes
             e == <<Len(x)>>
  <2>2. y \in BOOLEAN /\ y = ((Len(x) = 0) = FALSE) /\ Len(x) \in {0, 1}
    BY <1>7, <2>1
  <2>3. enc[x] = e \o f
    BY <1>7, <2>1
  <2>4. x \in Each(ts(y))
    BY <1>7, <2>1
  <2>5. Arrives(body, f, x)
    BY <1>2, <2>2, <2>4, PayloadBack
  <2>6. Arrives(Status(FALSE), e, y)
    BY <2>2, StatusArrives
  <2>7. ASSUME NEW b \in Stream, NEW c \in Stream, Status(FALSE)[b] = Got(y, c)
        PROVE  q[b] = body[c]
    <3> DEFINE r == ReadStatus(b, FALSE)
    <3>1. r = Got(y, c)
      BY <2>7 DEF Status
    <3>2. q[b] = IF r.st = "ok" THEN ReadTypes(Decode, ts(r.val), r.rest) ELSE r
      OBVIOUS
    <3>3. body[c] = ReadTypes(Decode, ts(y), c)
      BY DEF Reading
    <3> HIDE DEF r, q, body
    <3> QED
      BY <3>1, <3>2, <3>3, BindFacts
  <2>8. ASSUME NEW b \in Stream, Status(FALSE)[b] = Eof
        PROVE  q[b] = Eof
    <3> DEFINE r == ReadStatus(b, FALSE)
    <3>1. r = Eof
      BY <2>8 DEF Status
    <3>2. q[b] = IF r.st = "ok" THEN ReadTypes(Decode, ts(r.val), r.rest) ELSE r
      OBVIOUS
    <3> HIDE DEF r, q
    <3> QED
      BY <3>1, <3>2, BindFacts
  <2> DEFINE z == Status(FALSE)
  <2>9. /\ Arrives(z, e, y) /\ \A b, c \in Stream : z[b] = Got(y, c) => q[b] = body[c]
        /\ \A b \in Stream : z[b] = Eof => q[b] = Eof
    BY <2>6, <2>7, <2>8
  <2> HIDE DEF q, body, e, f, z
  <2>10. Arrives(q, e \o f, x)
    BY <2>5, <2>9, InTwo
  <2> QED
    BY <2>3, <2>10
<1>11. ASSUME NEW b \in Stream, q[b].st = "ok"
      PROVE  q[b].val \in S /\ q[b].rest \in Stream
  <2> DEFINE r == ReadStatus(b, FALSE)
             s == ReadTypes(Decode, ts(r.val), r.rest)
  <2>1. q[b] = IF r.st = "ok" THEN s ELSE r
    OBVIOUS
  <2> HIDE DEF r, q
  <2>2. r.st = "ok" /\ q[b] = s /\ s.st = "ok"
    BY <1>11, <2>1
  <2>3. r.val \in BOOLEAN /\ r.rest \in Stream
    BY <2>2, StatusTyped DEF r
  <2>4. Reading(ts(r.val))[r.rest] = s
    BY <2>3 DEF Reading
  <2> DEFINE some == r.val
  <2>5. /\ ts(some) \in Seq(ValTypes)
        /\ \A i \in 1..Len(ts(some)) : Faithful(ts(some)[i]) /\ Sound(ts(some)[i])
    BY <1>2, <2>3
  <2> HIDE DEF s
  <2>6. s.val \in Each(ts(some)) /\ s.rest \in Stream
    BY <2>2, <2>3, <2>4, <2>5, EachReading
  <2> QED
    BY <1>8, <2>2, <2>3, <2>6
<1>12. HasType[t] = [k : {t.k}, v : S]
  BY <1>4, CodecUnfolded
<1>13. \A v \in HasType[t] : v.k = t.k => Encode[t][v] = Bytes(enc[v.v])
  <2>1. \A v \in HasType[t] : v.v \in S
    BY <1>12
  <2>2. ASSUME NEW x \in S
        PROVE  Cat(<<Bytes(<<Len(x)>>), Payload(Encode, x, <<t.p>>)>>) = Bytes(enc[x])
    <3>1. PICK y \in BOOLEAN : y = ((Len(x) = 0) = FALSE)
      BY <1>9
    <3> DEFINE r == Payload(Encode, x, <<t.p>>)
               e == <<Len(x)>>
    <3>2. Len(x) \in {0, 1} /\ x \in Each(ts(y)) /\ r = Payload(Encode, x, ts(y))
      BY <1>7, <3>1
    <3>3. enc[x] = e \o r.bytes
      OBVIOUS
    <3>4. e \in Stream
      BY <3>2, StatusBack
    <3> HIDE DEF r, e, enc
    <3>5. r.ok /\ r.bytes \in Stream
      BY <1>2, <3>2, PayloadBack
    <3>6. Cat(<<Bytes(e), r>>) = Bytes(e \o r.bytes)
      BY <3>4, <3>5, CatTwo
    <3> QED
      BY <3>3, <3>6 DEF r, e
  <2> HIDE DEF enc
  <2> QED
    BY <1>5, <2>1, <2>2, CodecUnfolded
<1>14. \A b \in Stream : Decode[t][b] = As(t.k, q[b])
  <2> SUFFICES ASSUME NEW b \in Stream
               PROVE  Decode[t][b] = As(t.k, q[b])
    OBVIOUS
  <2> DEFINE r == ReadStatus(b, FALSE)
             s == ReadTypes(Decode, ts(r.val), r.rest)
  <2>1. Decode[t][b] = IF r.st = "ok" THEN As(t.k, s) ELSE r
    BY <1>6, CodecUnfolded
  <2>2. q[b] = IF r.st = "ok" THEN s ELSE r
    OBVIOUS
  <2>3. r.st # "ok" => As(t.k, r) = r
    BY DEF As, Bind
  <2> HIDE DEF q, r, s
  <2> QED
    BY <2>1, <2>2, <2>3
<1> HIDE DEF enc, q
<1> QED
  BY <1>10, <1>11, <1>12, <1>13, <1>14, OneLevel

(* A choice of name and payload: which one is read first.                  *)
Named(k, name, s) == IF s.st = "ok" THEN Got(Val(k, <<name, s.val>>), s.rest) ELSE s
Chosen(k, name, ts, r) ==
  IF r.st = "ok" THEN Named(k, name[r.val], ReadTypes(Decode, ts[r.val], r.rest)) ELSE r
EachHolds(ts) == \A i \in 1..Len(ts) : Faithful(ts[i]) /\ Sound(ts[i])

(* What a type [k : {t.k}, v : S] with such a choice from K provides.      *)
HasChoices(S, K, name, ts) ==
  \A d \in K : /\ ts[d] \in AtMostOne(ValTypes) /\ EachHolds(ts[d])
               /\ \A vs \in Each(ts[d]) : <<name[d], vs>> \in S
WritesChoices(t, K, head, pre, name, ts) ==
  \A v \in HasType[t] : \E d \in K :
    /\ v.v = <<name[d], v.v[2]>> /\ v.v[2] \in Each(ts[d])
    /\ Arrives(head, pre[d], d)
    /\ Encode[t][v] = Cat(<<Bytes(pre[d]), Payload(Encode, v.v[2], ts[d])>>)
ReadsChoices(t, K, head, name, ts) ==
  \A b \in Stream : /\ head[b].st = "ok" => head[b].val \in K /\ head[b].rest \in Stream
                    /\ Decode[t][b] = Chosen(t.k, name, ts, head[b])

(* A choice is written and read if its head and its payload are.           *)
LEMMA ChoiceOneLevel ==
  ASSUME NEW t \in ValTypes, NEW S, NEW K, NEW head, NEW pre, NEW name, NEW ts,
         HasType[t] = [k : {t.k}, v : S], HasChoices(S, K, name, ts),
         WritesChoices(t, K, head, pre, name, ts), ReadsChoices(t, K, head, name, ts)
  PROVE  Faithful(t) /\ Sound(t)
<1> DEFINE k == t.k
<1>1. /\ HasType[t] = [k : {k}, v : S]
      /\ \A d \in K : ts[d] \in AtMostOne(ValTypes) /\ EachHolds(ts[d])
      /\ \A d \in K : \A vs \in Each(ts[d]) : <<name[d], vs>> \in S
      /\ \A b \in Stream : head[b].st = "ok" => head[b].val \in K /\ head[b].rest \in Stream
      /\ \A b \in Stream : Decode[t][b] = Chosen(k, name, ts, head[b])
  BY DEF HasChoices, ReadsChoices
<1> HIDE DEF k
<1>2. ASSUME NEW v \in HasType[t]
      PROVE  Encode[t][v].ok /\ Arrives(Decode[t], Encode[t][v].bytes, v)
  <2>1. PICK d \in K :
          /\ v.v = <<name[d], v.v[2]>> /\ v.v[2] \in Each(ts[d])
          /\ Arrives(head, pre[d], d)
          /\ Encode[t][v] = Cat(<<Bytes(pre[d]), Payload(Encode, v.v[2], ts[d])>>)
    BY DEF WritesChoices
  <2> DEFINE vs == v.v[2]
             us == ts[d]
             m == name[d]
             p == Payload(Encode, vs, us)
             e == pre[d]
             f == p.bytes
             body == [c \in Stream |-> Named(k, m, ReadTypes(Decode, us, c))]
             read == Decode[t]
  <2>2. v = Val(k, <<m, vs>>)
    <3>1. v = Val(k, v.v)
      BY <1>1, ValShape
    <3> QED
      BY <2>1, <3>1
  <2>3. us \in AtMostOne(ValTypes) /\ vs \in Each(us) /\ \A i \in 1..Len(us) : Faithful(us[i])
    BY <1>1, <2>1 DEF EachHolds
  <2> HIDE DEF vs, us
  <2>4. p.ok /\ f \in Stream /\ Arrives(Reading(us), f, vs)
    BY <2>3, PayloadBack
  <2>5. Arrives(head, e, d) /\ e \in Stream /\ Encode[t][v] = Cat(<<Bytes(e), p>>)
    BY <2>1 DEF Arrives, vs, us
  <2> HIDE DEF p, e, m
  <2>6. Encode[t][v].ok /\ Encode[t][v].bytes = e \o f
    <3>1. Cat(<<Bytes(e), p>>) = Bytes(e \o f)
      BY <2>4, <2>5, CatTwo
    <3>2. Encode[t][v] = Bytes(e \o f)
      BY <2>5, <3>1
    <3>3. Bytes(e \o f).ok /\ Bytes(e \o f).bytes = e \o f
      BY DEF Bytes
    <3> QED
      BY <3>2, <3>3
  <2> HIDE DEF f
  <2>7. \A b, c \in Stream : Reading(us)[b] = Got(vs, c) => body[b] = Got(v, c)
    BY <2>2, BindFacts DEF Reading, Named
  <2>8. \A b \in Stream : Reading(us)[b] = Eof => body[b] = Eof
    BY BindFacts DEF Reading, Named
  <2> HIDE DEF body
  <2>9. Arrives(body, f, v)
    BY <2>4, <2>7, <2>8, Reformed
  <2>10. ASSUME NEW b \in Stream, NEW c \in Stream, head[b] = Got(d, c)
         PROVE  read[b] = body[c]
    <3>1. head[b].st = "ok" /\ head[b].val = d /\ head[b].rest = c
      BY <2>10, BindFacts
    <3>2. read[b] = Named(k, m, ReadTypes(Decode, us, c))
      BY <1>1, <3>1 DEF Chosen, us, m
    <3> QED
      BY <3>2 DEF body
  <2>11. ASSUME NEW b \in Stream, head[b] = Eof
         PROVE  read[b] = Eof
    <3>1. read[b] = Chosen(k, name, ts, Eof)
      BY <1>1, <2>11
    <3> QED
      BY <3>1, BindFacts DEF Chosen
  <2> HIDE DEF read
  <2>12. Arrives(read, e \o f, v)
    BY <2>5, <2>9, <2>10, <2>11, InTwo
  <2> QED
    BY <2>6, <2>12 DEF read
<1>3. ASSUME NEW b \in Stream, Decode[t][b].st = "ok"
      PROVE  Decode[t][b].val \in HasType[t] /\ Decode[t][b].rest \in Stream
  <2> DEFINE r == head[b]
             s == ReadTypes(Decode, ts[r.val], r.rest)
  <2>1. Decode[t][b] = IF r.st = "ok" THEN IF s.st = "ok" THEN Got(Val(k, <<name[r.val], s.val>>), s.rest)
                                           ELSE s
                       ELSE r
    BY <1>1 DEF Chosen, Named
  <2> HIDE DEF s
  <2>2. r.st = "ok" /\ s.st = "ok" /\ Decode[t][b] = Got(Val(k, <<name[r.val], s.val>>), s.rest)
    BY <1>3, <2>1
  <2>3. r.val \in K /\ r.rest \in Stream
    BY <1>1, <2>2
  <2> HIDE DEF r
  <2> DEFINE us == ts[r.val]
  <2>4. us \in Seq(ValTypes) /\ \A i \in 1..Len(us) : Sound(us[i])
    BY <1>1, <2>3 DEF EachHolds, AtMostOne
  <2>5. s = ReadTypes(Decode, us, r.rest)
    BY DEF s
  <2> HIDE DEF us, s
  <2>6. s.val \in Each(us) /\ s.rest \in Stream
    BY <2>2, <2>3, <2>4, <2>5, TypesTyped
  <2>7. <<name[r.val], s.val>> \in S
    BY <1>1, <2>3, <2>6 DEF us
  <2> DEFINE x == <<name[r.val], s.val>>
  <2> HIDE DEF x
  <2>8. Val(k, x) \in HasType[t]
    BY <1>1, <2>7, ValTyped DEF x
  <2>9. Decode[t][b].val = Val(k, x) /\ Decode[t][b].rest = s.rest
    BY <2>2, BindFacts DEF x
  <2> QED
    BY <2>6, <2>8, <2>9
<1> QED
  BY <1>2, <1>3 DEF Faithful, Sound

(* The values of a payload are values of the parts.                        *)
LEMMA EachWithin ==
  ASSUME NEW ts \in Seq(ValTypes), NEW Ps, \A i \in 1..Len(ts) : ts[i] \in Ps, NEW vs \in Each(ts)
  PROVE  vs \in Seq(UNION {HasType[p] : p \in Ps})
<1> DEFINE n == Len(ts)
           U == UNION {HasType[p] : p \in Ps}
<1>1. vs \in Seq(UNION {HasType[ts[i]] : i \in 1..n}) /\ Len(vs) = n
      /\ \A i \in 1..n : vs[i] \in HasType[ts[i]]
  BY EachFacts
<1>2. n \in Nat /\ vs = [i \in 1..n |-> vs[i]]
  BY <1>1
<1>3. \A i \in 1..n : vs[i] \in U
  BY <1>1
<1> HIDE DEF U, n
<1>4. vs \in [1..n -> U]
  BY <1>2, <1>3
<1> QED
  BY <1>2, <1>4 DEF U

(* Variants are the place of the case and its payload.                     *)
LEMMA VariantOneLevel ==
  ASSUME NEW t \in ValTypes, t.k = "variant", PartsHold(t)
  PROVE  Faithful(t) /\ Sound(t)
<1> DEFINE n == Len(t.p)
           names == CaseNames(t.p)
           U == UNION {HasType[p] : p \in TypeParts(t)}
           S == {w \in ToSet(names) \X Seq(U) :
                   \E i \in DOMAIN t.p : w[1] = t.p[i][1] /\ w[2] \in Each(t.p[i][2])}
           K == 0..(n - 1)
           head == [b \in Stream |-> LET r == ReadLeb(b, "u32")
                                     IN IF r.st = "ok" /\ r.val >= n THEN Bad ELSE r]
           pre == [d \in K |-> ULeb[d]]
           name == [d \in K |-> t.p[d + 1][1]]
           ts == [d \in K |-> t.p[d + 1][2]]
<1>1. /\ t.p \in Seq(STRING \X AtMostOne(ValTypes)) /\ n \in Nat /\ DOMAIN t.p = 1..n
      /\ n < 2^Bits["u32"] /\ 2^Bits["u32"] \in Nat /\ IsInjective(names)
  <2>1. t.p \in Seq(STRING \X AtMostOne(ValTypes)) /\ IsInjective(names) /\ n < 2^Bits["u32"]
    BY TypeAssumption, WireAssumption
  <2>2. 2^Bits["u32"] \in Nat
    BY WireAssumption, PowNat DEF Unsigned
  <2> QED
    BY <2>1, <2>2
<1>2. DOMAIN names = 1..n /\ \A i \in 1..n : names[i] = t.p[i][1] /\ names[i] \in ToSet(names)
  BY <1>1 DEF CaseNames, ToSet
<1>3. \A i, j \in 1..n : names[i] = names[j] => i = j
  BY <1>1, <1>2 DEF IsInjective
<1>4. \A d \in K : d \in Nat /\ d < n /\ d + 1 \in 1..n /\ (d + 1) - 1 = d
  BY <1>1
<1>5. \A i \in 1..n : i - 1 \in K /\ (i - 1) + 1 = i /\ i - 1 \in Nat /\ i - 1 < 2^Bits["u32"]
  BY <1>1
<1>6. \A i \in 1..n : /\ t.p[i][2] \in AtMostOne(ValTypes)
                      /\ \A j \in 1..Len(t.p[i][2]) : t.p[i][2][j] \in TypeParts(t)
  <2>1. TypeParts(t) = UNION {ToSet(c[2]) : c \in ToSet(t.p)}
    BY DEF TypeParts
  <2>2. ASSUME NEW i \in 1..n
        PROVE  /\ t.p[i][2] \in AtMostOne(ValTypes) /\ t.p[i] \in ToSet(t.p)
               /\ \A j \in 1..Len(t.p[i][2]) : t.p[i][2][j] \in ToSet(t.p[i][2])
    <3>1. t.p[i] \in STRING \X AtMostOne(ValTypes) /\ t.p[i] \in ToSet(t.p)
      <4>1. i \in DOMAIN t.p /\ i \in 1..Len(t.p)
        BY <1>1
      <4>2. t.p[i] \in ToSet(t.p)
        BY <4>1 DEF ToSet
      <4> QED
        BY <1>1, <4>1, <4>2, ElementOfSeq
    <3>2. t.p[i][2] \in AtMostOne(ValTypes)
      BY <3>1
    <3>3. DOMAIN t.p[i][2] = 1..Len(t.p[i][2])
      BY <3>2 DEF AtMostOne
    <3> QED
      BY <3>1, <3>2, <3>3 DEF ToSet
  <2> QED
    BY <2>1, <2>2
<1>7. \A d \in K : /\ name[d] = t.p[d + 1][1] /\ ts[d] = t.p[d + 1][2] /\ pre[d] = ULeb[d]
                   /\ ts[d] \in AtMostOne(ValTypes) /\ EachHolds(ts[d])
  BY <1>4, <1>6 DEF PartsHold, EachHolds
<1>8. HasType[t] = [k : {t.k}, v : S]
  <2>1. TypedAs(HasType, t) = [k : {t.k}, v : S]
    BY DEF TypedAs, Unsigned, Signed, Each
  <2> QED
    BY <2>1, CodecUnfolded
<1>9. \A v : v.k = t.k => Written(Encode, t, v)
        = IF v.v[1] \notin ToSet(names) THEN Bail
          ELSE Cat(<<Bytes(ULeb[IndexOf(v.v[1], names) - 1]),
                     Payload(Encode, v.v[2], t.p[IndexOf(v.v[1], names)][2])>>)
  BY DEF Written, Unsigned, Signed
<1>10. \A b : ReadAs(Decode, t, b)
              = LET r == ReadLeb(b, "u32")
                IN IF r.st = "ok"
                   THEN IF r.val >= n THEN Bad
                        ELSE Named(t.k, t.p[r.val + 1][1], ReadTypes(Decode, t.p[r.val + 1][2], r.rest))
                   ELSE r
  BY DEF ReadAs, Unsigned, Signed, Bind, Named
<1> HIDE DEF n, names, K, name, ts, pre, U
<1>11. ASSUME NEW v \in HasType[t]
       PROVE  \E d \in K :
                /\ v.v = <<name[d], v.v[2]>> /\ v.v[2] \in Each(ts[d])
                /\ Arrives(head, pre[d], d)
                /\ Encode[t][v] = Cat(<<Bytes(pre[d]), Payload(Encode, v.v[2], ts[d])>>)
  <2> DEFINE w == v.v
  <2>1. w \in S /\ v.k = t.k
    <3> HIDE DEF S
    <3> QED
      BY <1>8, ValShape
  <2>2. PICK i \in DOMAIN t.p : w[1] = t.p[i][1] /\ w[2] \in Each(t.p[i][2])
    BY <2>1
  <2>3. w = <<w[1], w[2]>> /\ w[1] \in ToSet(names)
    BY <2>1
  <2>4. i \in 1..n /\ w[1] = names[i] /\ names[i] \in ToSet(names)
    BY <1>1, <1>2, <2>2
  <2>5. IndexOf(w[1], names) = i
    <3>1. IndexOf(w[1], names) \in 1..n /\ names[IndexOf(w[1], names)] = w[1]
      BY <1>1, <1>2, <2>3, IndexFacts
    <3> QED
      BY <1>3, <2>4, <3>1
  <2> DEFINE d == i - 1
  <2>6. d \in K /\ name[d] = w[1] /\ ts[d] = t.p[i][2] /\ pre[d] = ULeb[d] /\ d \in Nat
        /\ d < 2^Bits["u32"] /\ d < n
    BY <1>2, <1>4, <1>5, <1>7, <2>4
  <2>7. Encode[t][v] = Cat(<<Bytes(ULeb[d]), Payload(Encode, w[2], t.p[i][2])>>)
    <3>1. Encode[t][v] = Written(Encode, t, v)
      BY CodecUnfolded
    <3> QED
      BY <1>9, <2>1, <2>3, <2>5, <3>1
  <2> HIDE DEF d, S
  <2>8. Arrives(Count, ULeb[d], d)
    BY <2>6, CountBack
  <2>9. ASSUME NEW b \in Stream, NEW c \in Stream, Count[b] = Got(d, c)
        PROVE  head[b] = Got(d, c)
    <3> DEFINE r == ReadLeb(b, "u32")
    <3>1. r = Got(d, c)
      BY <2>9 DEF Count
    <3>2. head[b] = IF r.st = "ok" /\ r.val >= n THEN Bad ELSE r
      OBVIOUS
    <3>3. ~(d >= n)
      BY <1>1, <2>6
    <3> HIDE DEF r, head
    <3> QED
      BY <3>1, <3>2, <3>3, BindFacts
  <2>10. ASSUME NEW b \in Stream, Count[b] = Eof
         PROVE  head[b] = Eof
    <3> DEFINE r == ReadLeb(b, "u32")
    <3>1. r = Eof
      BY <2>10 DEF Count
    <3>2. head[b] = IF r.st = "ok" /\ r.val >= n THEN Bad ELSE r
      OBVIOUS
    <3> HIDE DEF r, head
    <3> QED
      BY <3>1, <3>2, BindFacts
  <2> HIDE DEF head
  <2>11. Arrives(head, ULeb[d], d)
    BY <2>8, <2>9, <2>10, Reformed
  <2>12. /\ w = <<name[d], w[2]>> /\ w[2] \in Each(ts[d])
         /\ Arrives(head, pre[d], d)
         /\ Encode[t][v] = Cat(<<Bytes(pre[d]), Payload(Encode, w[2], ts[d])>>)
    BY <2>2, <2>3, <2>6, <2>7, <2>11
  <2> QED
    BY <2>6, <2>12
<1>12. ASSUME NEW d \in K, NEW vs \in Each(ts[d])
       PROVE  <<name[d], vs>> \in S
  <2>1. d + 1 \in 1..n /\ name[d] = t.p[d + 1][1] /\ ts[d] = t.p[d + 1][2] /\ ts[d] \in Seq(ValTypes)
    BY <1>4, <1>7 DEF AtMostOne
  <2>2. name[d] \in ToSet(names)
    BY <1>2, <2>1
  <2>3. \A j \in 1..Len(ts[d]) : ts[d][j] \in TypeParts(t)
    BY <1>6, <2>1
  <2>4. vs \in Seq(U)
    BY <2>1, <2>3, EachWithin DEF U
  <2>5. d + 1 \in DOMAIN t.p
    BY <1>1, <2>1
  <2> DEFINE w == <<name[d], vs>>
  <2>6. w \in ToSet(names) \X Seq(U) /\ w[1] = name[d] /\ w[2] = vs
    BY <2>2, <2>4
  <2> HIDE DEF w
  <2>7. w \in S
    BY <2>1, <2>5, <2>6
  <2> QED
    BY <2>7 DEF w
<1>13. ASSUME NEW b \in Stream, head[b].st = "ok"
       PROVE  head[b].val \in K /\ head[b].rest \in Stream
  <2> DEFINE r == ReadLeb(b, "u32")
  <2>1. head[b] = IF r.st = "ok" /\ r.val >= n THEN Bad ELSE r
    OBVIOUS
  <2> HIDE DEF r, head
  <2>2. r.st = "ok" /\ ~(r.val >= n) /\ head[b] = r
    BY <1>13, <2>1, BindFacts
  <2>3. r.val \in Nat /\ r.rest \in Stream
    BY <2>2, CountTyped DEF r
  <2>4. r.val \in K
    BY <1>1, <2>2, <2>3 DEF K
  <2> QED
    BY <2>2, <2>3, <2>4
<1>14. \A b \in Stream : Decode[t][b] = Chosen(t.k, name, ts, head[b])
  <2> SUFFICES ASSUME NEW b \in Stream
               PROVE  Decode[t][b] = Chosen(t.k, name, ts, head[b])
    OBVIOUS
  <2> DEFINE r == ReadLeb(b, "u32")
  <2>1. Decode[t][b] = IF r.st = "ok"
                       THEN IF r.val >= n THEN Bad
                            ELSE Named(t.k, t.p[r.val + 1][1], ReadTypes(Decode, t.p[r.val + 1][2], r.rest))
                       ELSE r
    BY <1>10, CodecUnfolded
  <2>2. head[b] = IF r.st = "ok" /\ r.val >= n THEN Bad ELSE r
    OBVIOUS
  <2>3. r.st = "ok" => r.val \in Nat
    BY CountTyped
  <2> HIDE DEF r, head
  <2>4. CASE r.st = "ok" /\ ~(r.val >= n)
    <3>1. r.val \in K
      BY <1>1, <2>3, <2>4 DEF K
    <3>2. name[r.val] = t.p[r.val + 1][1] /\ ts[r.val] = t.p[r.val + 1][2]
      BY <1>7, <3>1
    <3>3. Decode[t][b] = Named(t.k, name[r.val], ReadTypes(Decode, ts[r.val], r.rest)) /\ head[b] = r
      BY <2>1, <2>2, <2>4, <3>2
    <3> QED
      BY <2>4, <3>3 DEF Chosen
  <2>5. CASE r.st = "ok" /\ r.val >= n
    BY <2>1, <2>2, <2>5, BindFacts DEF Chosen
  <2>6. CASE r.st # "ok"
    BY <2>1, <2>2, <2>6 DEF Chosen
  <2> QED
    BY <2>4, <2>5, <2>6
<1> HIDE DEF S, head
<1>15. HasChoices(S, K, name, ts)
  BY <1>7, <1>12 DEF HasChoices
<1>16. WritesChoices(t, K, head, pre, name, ts)
  BY <1>11 DEF WritesChoices
<1>17. ReadsChoices(t, K, head, name, ts)
  BY <1>13, <1>14 DEF ReadsChoices
<1> QED
  BY <1>8, <1>15, <1>16, <1>17, ChoiceOneLevel

(* Results are a status byte and the payload of the side.                  *)
LEMMA ResultOneLevel ==
  ASSUME NEW t \in ValTypes, t.k = "result", PartsHold(t)
  PROVE  Faithful(t) /\ Sound(t)
<1> DEFINE U == UNION {HasType[p] : p \in TypeParts(t)}
           S == {w \in {"ok", "err"} \X Seq(U) : w[2] \in Each(t.p[SideOf(w[1])])}
           K == BOOLEAN
           head == Status(TRUE)
           pre == [d \in K |-> IF d THEN <<0>> ELSE <<1>>]
           name == [d \in K |-> IF d THEN "ok" ELSE "err"]
           ts == [d \in K |-> t.p[IF d THEN 1 ELSE 2]]
<1>1. /\ t.p[1] \in AtMostOne(ValTypes) /\ t.p[2] \in AtMostOne(ValTypes)
      /\ t.p = <<t.p[1], t.p[2]>>
  BY TypeAssumption
<1>2. ASSUME NEW s \in {1, 2}
      PROVE  /\ t.p[s] \in AtMostOne(ValTypes) /\ EachHolds(t.p[s]) /\ t.p[s] \in Seq(ValTypes)
             /\ \A j \in 1..Len(t.p[s]) : t.p[s][j] \in TypeParts(t)
  <2>1. TypeParts(t) = UNION {ToSet(side) : side \in ToSet(t.p)}
    BY DEF TypeParts
  <2>2. t.p[s] \in ToSet(t.p)
    <3>1. DOMAIN t.p = {1, 2}
      <4>1. DOMAIN <<t.p[1], t.p[2]>> = {1, 2}
        OBVIOUS
      <4> QED
        BY <1>1, <4>1
    <3> QED
      BY <3>1 DEF ToSet
  <2>3. t.p[s] \in AtMostOne(ValTypes) /\ t.p[s] \in Seq(ValTypes)
    BY <1>1 DEF AtMostOne
  <2>4. \A j \in 1..Len(t.p[s]) : t.p[s][j] \in ToSet(t.p[s])
    BY <2>3 DEF ToSet
  <2>5. \A j \in 1..Len(t.p[s]) : t.p[s][j] \in TypeParts(t)
    BY <2>1, <2>2, <2>4
  <2> QED
    BY <2>3, <2>5 DEF PartsHold, EachHolds
<1>3. \A d \in K : /\ d => name[d] = "ok" /\ ts[d] = t.p[1] /\ pre[d] = <<0>>
                   /\ ~d => name[d] = "err" /\ ts[d] = t.p[2] /\ pre[d] = <<1>>
  OBVIOUS
<1>4. TRUE \in K /\ FALSE \in K
  OBVIOUS
<1>5. HasType[t] = [k : {t.k}, v : S]
  <2>1. TypedAs(HasType, t) = [k : {t.k}, v : S]
    BY DEF TypedAs, Unsigned, Signed, Each
  <2> QED
    BY <2>1, CodecUnfolded
<1> DEFINE side(v) == IF v.v[1] = "ok" THEN 1 ELSE 2
<1>6. \A v : v.k = t.k => Written(Encode, t, v)
        = IF Len(v.v[2]) # Len(t.p[side(v)]) THEN Bail
          ELSE Cat(<<Bytes(<<side(v) - 1>>), Payload(Encode, v.v[2], t.p[side(v)])>>)
  BY DEF Written, Unsigned, Signed
<1>7. \A b : ReadAs(Decode, t, b)
             = LET r == ReadStatus(b, TRUE)
               IN IF r.st = "ok"
                  THEN Named(t.k, IF r.val THEN "ok" ELSE "err",
                             ReadTypes(Decode, t.p[IF r.val THEN 1 ELSE 2], r.rest))
                  ELSE r
  BY DEF ReadAs, Unsigned, Signed, Bind, Named
<1> HIDE DEF K, name, ts, pre, U
<1>8. ASSUME NEW v \in HasType[t]
      PROVE  \E d \in K :
               /\ v.v = <<name[d], v.v[2]>> /\ v.v[2] \in Each(ts[d])
               /\ Arrives(head, pre[d], d)
               /\ Encode[t][v] = Cat(<<Bytes(pre[d]), Payload(Encode, v.v[2], ts[d])>>)
  <2> DEFINE w == v.v
  <2>1. w \in S /\ v.k = t.k
    <3> HIDE DEF S
    <3> QED
      BY <1>5, ValShape
  <2>2. /\ w = <<w[1], w[2]>> /\ w[1] \in {"ok", "err"}
        /\ w[2] \in Each(t.p[SideOf(w[1])])
    BY <2>1
  <2>3. Encode[t][v] = Written(Encode, t, v)
    BY CodecUnfolded
  <2> HIDE DEF S
  <2>4. CASE w[1] = "ok"
    <3>1. SideOf(w[1]) = 1 /\ side(v) = 1
      BY <2>4 DEF SideOf
    <3>2. w[2] \in Each(t.p[1]) /\ Len(w[2]) = Len(t.p[1])
      BY <1>2, <2>2, <3>1, EachFacts
    <3>3. Encode[t][v] = Cat(<<Bytes(<<0>>), Payload(Encode, w[2], t.p[1])>>)
      BY <1>6, <2>1, <2>3, <3>1, <3>2
    <3>4. Arrives(head, <<0>>, TRUE)
      BY StatusArrives
    <3>5. name[TRUE] = "ok" /\ ts[TRUE] = t.p[1] /\ pre[TRUE] = <<0>>
      BY <1>3, <1>4
    <3> QED
      BY <1>4, <2>2, <2>4, <3>2, <3>3, <3>4, <3>5
  <2>5. CASE w[1] # "ok"
    <3>1. SideOf(w[1]) = 2 /\ side(v) = 2 /\ w[1] = "err"
      BY <2>2, <2>5 DEF SideOf
    <3>2. w[2] \in Each(t.p[2]) /\ Len(w[2]) = Len(t.p[2])
      BY <1>2, <2>2, <3>1, EachFacts
    <3>3. Encode[t][v] = Cat(<<Bytes(<<1>>), Payload(Encode, w[2], t.p[2])>>)
      BY <1>6, <2>1, <2>3, <3>1, <3>2
    <3>4. Arrives(head, <<1>>, FALSE)
      <4>1. 1 \in {0, 1} /\ ~(1 = 0)
        OBVIOUS
      <4>2. FALSE = ((1 = 0) = TRUE)
        BY <4>1, Zenon
      <4> QED
        BY <4>1, <4>2, StatusArrives
    <3>5. name[FALSE] = "err" /\ ts[FALSE] = t.p[2] /\ pre[FALSE] = <<1>>
      BY <1>3, <1>4
    <3> QED
      BY <1>4, <2>2, <3>1, <3>2, <3>3, <3>4, <3>5
  <2> QED
    BY <2>4, <2>5
<1>9. ASSUME NEW d \in K
      PROVE  /\ ts[d] \in AtMostOne(ValTypes) /\ EachHolds(ts[d])
             /\ \A vs \in Each(ts[d]) : <<name[d], vs>> \in S
  <2>1. \E s \in {1, 2} : ts[d] = t.p[s] /\ SideOf(name[d]) = s /\ name[d] \in {"ok", "err"}
    BY <1>3 DEF K, SideOf
  <2>2. PICK s \in {1, 2} : ts[d] = t.p[s] /\ SideOf(name[d]) = s /\ name[d] \in {"ok", "err"}
    BY <2>1
  <2>3. ASSUME NEW vs \in Each(ts[d])
        PROVE  <<name[d], vs>> \in S
    <3>1. vs \in Seq(U)
      <4>1. ts[d] \in Seq(ValTypes) /\ \A j \in 1..Len(ts[d]) : ts[d][j] \in TypeParts(t)
        BY <1>2, <2>2
      <4> QED
        BY <4>1, EachWithin DEF U
    <3> DEFINE w == <<name[d], vs>>
    <3>2. w \in {"ok", "err"} \X Seq(U) /\ w[1] = name[d] /\ w[2] = vs
      BY <2>2, <3>1
    <3> HIDE DEF w
    <3>3. w \in S
      BY <2>2, <3>2
    <3> QED
      BY <3>3 DEF w
  <2> QED
    BY <1>2, <2>2, <2>3
<1>10. ASSUME NEW b \in Stream
       PROVE  /\ head[b].st = "ok" => head[b].val \in K /\ head[b].rest \in Stream
              /\ Decode[t][b] = Chosen(t.k, name, ts, head[b])
  <2> DEFINE r == ReadStatus(b, TRUE)
  <2>1. head[b] = r
    BY DEF Status
  <2>2. r.st = "ok" => r.val \in K /\ r.rest \in Stream
    BY StatusTyped DEF K
  <2>3. Decode[t][b] = IF r.st = "ok"
                       THEN Named(t.k, IF r.val THEN "ok" ELSE "err",
                                  ReadTypes(Decode, t.p[IF r.val THEN 1 ELSE 2], r.rest))
                       ELSE r
    BY <1>7, CodecUnfolded
  <2> HIDE DEF r, head
  <2>4. r.st = "ok" => /\ name[r.val] = IF r.val THEN "ok" ELSE "err"
                       /\ ts[r.val] = t.p[IF r.val THEN 1 ELSE 2]
    BY <1>3, <2>2
  <2> QED
    BY <2>1, <2>2, <2>3, <2>4 DEF Chosen
<1> HIDE DEF S, head
<1>11. HasChoices(S, K, name, ts)
  BY <1>9 DEF HasChoices
<1>12. WritesChoices(t, K, head, pre, name, ts)
  BY <1>8 DEF WritesChoices
<1>13. ReadsChoices(t, K, head, name, ts)
  BY <1>10 DEF ReadsChoices
<1> QED
  BY <1>5, <1>11, <1>12, <1>13, ChoiceOneLevel

-----------------------------------------------------------------------------
(* Every type.                                                             *)

(* A type keeps its promise if its parts keep theirs.                      *)
LEMMA TypeOneLevel ==
  ASSUME NEW t \in ValTypes, PartsHold(t)
  PROVE  Faithful(t) /\ Sound(t)
<1>1. CASE t.k = "bool"
  BY <1>1, BoolOneLevel
<1>2. CASE t.k \in {"u8", "s8"}
  BY <1>2, ByteOneLevel
<1>3. CASE t.k \in Unsigned \cup Signed
  BY <1>3, LebOneLevel
<1>4. CASE t.k \in {"f32", "f64"}
  BY <1>4, FloatOneLevel
<1>5. CASE t.k = "char"
  BY <1>5, CharOneLevel
<1>6. CASE t.k = "string"
  BY <1>6, StringOneLevel
<1>7. CASE t.k = "list"
  BY <1>7, ListOneLevel
<1>8. CASE t.k = "record"
  BY <1>8, RecordOneLevel
<1>9. CASE t.k = "tuple"
  BY <1>9, TupleOneLevel
<1>10. CASE t.k = "variant"
  BY <1>10, VariantOneLevel
<1>11. CASE t.k = "enum"
  BY <1>11, EnumOneLevel
<1>12. CASE t.k = "option"
  BY <1>12, OptionOneLevel
<1>13. CASE t.k = "result"
  BY <1>13, ResultOneLevel
<1>14. CASE t.k = "flags"
  BY <1>14, FlagsOneLevel
<1>15. CASE t.k \notin Known
  BY <1>15, UnknownOneLevel
<1> QED
  BY <1>1, <1>2, <1>3, <1>4, <1>5, <1>6, <1>7, <1>8, <1>9, <1>10, <1>11, <1>12, <1>13, <1>14,
     <1>15 DEF Known, Unsigned, Signed

(* So every type does, by induction on how deep it is nested.              *)
LEMMA EveryType ==
  ASSUME NEW t \in ValTypes
  PROVE  Faithful(t) /\ Sound(t)
<1> DEFINE S == {d \in Nat : \A u \in ValTypes : Depth(u) = d => Faithful(u) /\ Sound(u)}
<1>1. ASSUME NEW d \in Nat, \A c \in Nat : c < d => c \in S
      PROVE  d \in S
  <2> SUFFICES ASSUME NEW u \in ValTypes, Depth(u) = d
               PROVE  Faithful(u) /\ Sound(u)
    OBVIOUS
  <2>1. ASSUME NEW p \in TypeParts(u)
        PROVE  Faithful(p) /\ Sound(p)
    <3>1. p \in ValTypes /\ Depth(p) \in Nat /\ Depth(p) < d
      BY TypeAssumption
    <3> QED
      BY <1>1, <3>1
  <2> QED
    BY <2>1, TypeOneLevel DEF PartsHold
<1>2. \A d \in Nat : d \in S
  <2> HIDE DEF S
  <2> QED
    BY <1>1, Induction
<1> QED
  BY <1>2, TypeAssumption

-----------------------------------------------------------------------------
(* Parameters on a stream.                                                 *)

(* All values of all types.                                                *)
Anything == UNION {HasType[t] : t \in ValTypes}

(* The parameters under way are values of their types.                     *)
LEMMA CaseFacts ==
  ASSUME case \in DOMAIN Cases
  PROVE  /\ Types \in Seq(ValTypes) /\ Len(Types) \in Nat /\ DOMAIN Types = 1..Len(Types)
         /\ Values \in Seq(Anything) /\ Len(Values) = Len(Types)
         /\ \A i \in 1..Len(Types) : Types[i] \in ValTypes /\ Values[i] \in HasType[Types[i]]
<1> DEFINE n == Len(Types)
<1>1. /\ Types \in Seq(ValTypes) /\ Values = [i \in DOMAIN Types |-> Values[i]]
      /\ \A i \in DOMAIN Types : Values[i] \in HasType[Types[i]]
  BY CaseAssumption DEF Types, Values
<1>2. n \in Nat /\ DOMAIN Types = 1..n /\ \A i \in 1..n : Types[i] \in ValTypes
  BY <1>1
<1> HIDE DEF n
<1>3. \A i \in 1..n : Values[i] \in Anything
  BY <1>1, <1>2 DEF Anything
<1>4. Values \in [1..n -> Anything]
  BY <1>1, <1>2, <1>3
<1>5. Values \in Seq(Anything) /\ Len(Values) = n
  BY <1>2, <1>4
<1> QED
  BY <1>1, <1>2, <1>5 DEF n

(* What is written of them, from one on.                                   *)
LEMMA EncodedFacts ==
  ASSUME case \in DOMAIN Cases, NEW k \in Nat, k <= Len(Types)
  PROVE  /\ Encoded(k) \in Stream
         /\ k < Len(Types) =>
              Encoded(k) = Encode[Types[k + 1]][Values[k + 1]].bytes \o Encoded(k + 1)
         /\ k = Len(Types) => Encoded(k) = <<>>
<1> DEFINE n == Len(Types)
           E(i) == Encode[Types[i]][Values[i]].bytes
           es(m) == [i \in 1..(n - m) |-> E(m + i)]
<1>1. n \in Nat /\ k <= n
  BY CaseFacts
<1>2. \A i \in 1..n : E(i) \in Stream
  BY CaseFacts, EveryType DEF Faithful, Arrives
<1>3. \A m : Encoded(m) = FlattenSeq(es(m))
  BY DEF Encoded
<1> HIDE DEF n, E
<1>4. ASSUME NEW m \in Nat, m <= n
      PROVE  es(m) \in Seq(Stream) /\ Len(es(m)) = n - m /\ \A i \in 1..(n - m) : es(m)[i] = E(m + i)
  <2>1. n - m \in Nat /\ \A i \in 1..(n - m) : m + i \in 1..n
    BY <1>1, <1>4
  <2> QED
    BY <1>2, <2>1
<1> HIDE DEF es
<1>5. Encoded(k) \in Stream
  <2>1. <<>> \in Stream
    BY DEF Stream
  <2>2. es(k) \in Seq(Stream)
    BY <1>1, <1>4
  <2> QED
    BY <1>3, <2>1, <2>2, FlattenFacts
<1>6. ASSUME k < n
      PROVE  Encoded(k) = E(k + 1) \o Encoded(k + 1)
  <2>1. /\ k + 1 \in Nat /\ k + 1 <= n /\ k + 1 \in 1..n /\ n - k \in Nat /\ n - k = (n - (k + 1)) + 1
        /\ n - (k + 1) \in Nat
    BY <1>1, <1>6
  <2> DEFINE a == es(k)
             b == es(k + 1)
             x == E(k + 1)
             c == <<x>> \o b
  <2>2. /\ a \in Seq(Stream) /\ Len(a) = n - k /\ \A i \in 1..(n - k) : a[i] = E(k + i)
        /\ b \in Seq(Stream) /\ Len(b) = n - (k + 1)
        /\ \A i \in 1..(n - (k + 1)) : b[i] = E((k + 1) + i)
        /\ x \in Stream
    BY <1>1, <1>2, <1>4, <2>1
  <2> HIDE DEF a, b, x
  <2>3. /\ c \in Seq(Stream) /\ Len(c) = n - k
        /\ \A i \in 1..(n - k) : c[i] = IF i = 1 THEN x ELSE b[i - 1]
    BY <2>1, <2>2
  <2>4. \A i \in 1..(n - k) : c[i] = E(k + i)
    <3> SUFFICES ASSUME NEW i \in 1..(n - k)
                 PROVE  c[i] = E(k + i)
      OBVIOUS
    <3> HIDE DEF c
    <3>1. CASE i = 1
      BY <2>3, <3>1 DEF x
    <3>2. CASE i # 1
      <4>1. i - 1 \in 1..(n - (k + 1)) /\ (k + 1) + (i - 1) = k + i
        BY <2>1, <3>2
      <4> QED
        BY <2>2, <2>3, <3>2, <4>1
    <3> QED
      BY <3>1, <3>2
  <2> HIDE DEF c
  <2>5. a = c
    BY <2>1, <2>2, <2>3, <2>4, SeqEqual, SMTT(30)
  <2>6. FlattenSeq(c) = x \o FlattenSeq(b)
    BY <2>2, FlattenFacts DEF c
  <2> QED
    BY <1>3, <2>5, <2>6 DEF a, b, x
<1>7. ASSUME k = n
      PROVE  Encoded(k) = <<>>
  <2>1. es(k) \in Seq(Stream) /\ Len(es(k)) = 0
    BY <1>1, <1>4, <1>7
  <2>2. es(k) = <<>> /\ FlattenSeq(<<>>) = <<>>
    BY <2>1 DEF FlattenSeq
  <2> QED
    BY <1>3, <2>2
<1> QED
  BY <1>5, <1>6, <1>7 DEF n, E

(* Everything read so far is of its type; and if the bytes are the         *)
(* encoder's, what was read is what was written, and what has arrived and  *)
(* what is on its way are the rest of it.                                  *)
CodecInv ==
  /\ case \in DOMAIN Cases /\ honest \in BOOLEAN
  /\ wire \in Stream /\ buf \in Stream
  /\ done \in Seq(Anything) /\ Len(done) <= Len(Types)
  /\ \A i \in 1..Len(done) : done[i] \in HasType[Types[i]]
  /\ honest => /\ \A i \in 1..Len(done) : done[i] = Values[i]
               /\ buf \o wire = Encoded(Len(done))

(* An attempt gets the next value, or finds that bytes are missing.        *)
LEMMA AttemptFacts ==
  ASSUME CodecInv, honest, Len(done) < Len(Types)
  PROVE  \/ \E x \in Stream : /\ Attempt = Got(Values[Len(done) + 1], x)
                              /\ x \o wire = Encoded(Len(done) + 1)
         \/ Attempt = Eof /\ wire # <<>>
<1> DEFINE k == Len(done)
           t == Types[k + 1]
           v == Values[k + 1]
           e == Encode[t][v].bytes
           f == Encoded(k + 1)
<1>1. k \in Nat /\ k + 1 \in Nat /\ k + 1 <= Len(Types) /\ k < Len(Types) /\ k <= Len(Types)
      /\ case \in DOMAIN Cases /\ k + 1 \in 1..Len(Types)
  BY CaseFacts DEF CodecInv
<1>2. t \in ValTypes /\ v \in HasType[t]
  BY <1>1, CaseFacts
<1>3. Arrives(Decode[t], e, v) /\ e \in Stream
  BY <1>2, EveryType DEF Faithful, Arrives
<1>4. f \in Stream
  BY <1>1, EncodedFacts
<1>5. buf \o wire = e \o f /\ buf \in Stream /\ wire \in Stream
  BY <1>1, EncodedFacts DEF CodecInv
<1>6. Attempt = Decode[t][buf]
  BY DEF Attempt
<1> HIDE DEF t, v, e, f
<1>7. (\E x \in Stream : buf = e \o x /\ f = x \o wire) \/ (buf \in Cut(e) /\ wire # <<>>)
  <2>1. buf \in Stream /\ wire \in Stream /\ e \in Stream /\ f \in Stream
    BY <1>3, <1>4, <1>5
  <2>2. buf \o wire = e \o f
    BY <1>5
  <2> DEFINE Ahead(a, b, c, d) == \E x \in Stream : a = c \o x /\ d = x \o b
             Short(a, b, c) == a \in Cut(c) /\ b # <<>>
  <2>3. \A a, b, c, d \in Stream : a \o b = c \o d => Ahead(a, b, c, d) \/ Short(a, b, c)
    BY TwoCuts
  <2> HIDE DEF Ahead, Short
  <2>4. Ahead(buf, wire, e, f) \/ Short(buf, wire, e)
    BY <2>1, <2>2, <2>3
  <2> QED
    BY <2>4 DEF Ahead, Short
<1>8. \A x \in Stream : buf = e \o x => Attempt = Got(v, x)
  BY <1>3, <1>6 DEF Arrives
<1>9. buf \in Cut(e) => Attempt = Eof
  BY <1>3, <1>6 DEF Arrives
<1> QED
  BY <1>7, <1>8, <1>9 DEF v, f

(* Nothing is read at first.                                               *)
LEMMA CodecInit == Init => CodecInv
<1> SUFFICES ASSUME Init
             PROVE  CodecInv
  OBVIOUS
<1>1. case \in DOMAIN Cases /\ honest \in BOOLEAN /\ buf = <<>> /\ done = <<>>
      /\ wire = IF honest THEN Encoded(0) ELSE <<>>
  BY DEF Init
<1>2. Encoded(0) \in Stream /\ <<>> \in Stream
  <2>1. 0 \in Nat /\ 0 <= Len(Types)
    BY <1>1, CaseFacts
  <2> QED
    BY <1>1, <2>1, EncodedFacts, StreamFacts
<1>3. done \in Seq(Anything) /\ Len(done) = 0 /\ 0 <= Len(Types)
  BY <1>1, CaseFacts
<1>4. wire \in Stream /\ buf \in Stream
  BY <1>1, <1>2
<1>5. honest => buf \o wire = Encoded(0)
  <2>1. <<>> \o Encoded(0) = Encoded(0)
    BY <1>2, StreamFacts
  <2> QED
    BY <1>1, <2>1
<1> QED
  BY <1>1, <1>3, <1>4, <1>5 DEF CodecInv

(* One byte more, delivered or made up, is appended to what has arrived.   *)
LEMMA ArrivedFacts ==
  ASSUME NEW b \in Stream, NEW w \in Stream
  PROVE  /\ \A x \in Byte : Append(b, x) \in Stream
         /\ w # <<>> => /\ Head(w) \in Byte /\ Tail(w) \in Stream
                        /\ Append(b, Head(w)) \o Tail(w) = b \o w
<1>1. b \in Seq(Byte) /\ w \in Seq(Byte)
  BY DEF Stream
<1>2. \A x \in Byte : Append(b, x) \in Seq(Byte)
  BY <1>1
<1>3. ASSUME w # <<>>
      PROVE  /\ Head(w) \in Byte /\ Tail(w) \in Seq(Byte)
             /\ Append(b, Head(w)) \o Tail(w) = b \o w
  <2>1. Head(w) \in Byte /\ Tail(w) \in Seq(Byte) /\ w = <<Head(w)>> \o Tail(w)
    BY <1>1, <1>3
  <2> DEFINE h == Head(w)
             u == Tail(w)
  <2> HIDE DEF h, u
  <2>2. h \in Byte /\ u \in Seq(Byte) /\ w = <<h>> \o u
    BY <2>1 DEF h, u
  <2>3. Append(b, h) = b \o <<h>> /\ <<h>> \in Seq(Byte)
    BY <1>1, <2>2
  <2>4. (b \o <<h>>) \o u = b \o (<<h>> \o u)
    BY <1>1, <2>2, <2>3, ConcatFacts
  <2> QED
    BY <2>1, <2>2, <2>3, <2>4 DEF h, u
<1> QED
  BY <1>2, <1>3 DEF Stream

(* No step disturbs it.                                                    *)
LEMMA CodecStep == CodecInv /\ [Next]_vars => CodecInv'
<1> SUFFICES ASSUME CodecInv, [Next]_vars
             PROVE  CodecInv'
  OBVIOUS
<1>1. /\ case \in DOMAIN Cases /\ honest \in BOOLEAN
      /\ wire \in Stream /\ buf \in Stream
      /\ done \in Seq(Anything) /\ Len(done) <= Len(Types)
      /\ \A i \in 1..Len(done) : done[i] \in HasType[Types[i]]
      /\ honest => /\ \A i \in 1..Len(done) : done[i] = Values[i]
                   /\ buf \o wire = Encoded(Len(done))
  BY DEF CodecInv
<1>2. CASE Deliver
  <2>1. /\ wire # <<>> /\ buf' = Append(buf, Head(wire)) /\ wire' = Tail(wire)
        /\ case' = case /\ honest' = honest /\ done' = done
    BY <1>2 DEF Deliver
  <2>2. Types' = Types /\ Values' = Values /\ \A k : Encoded(k)' = Encoded(k)
    BY <2>1 DEF Types, Values, Encoded
  <2>3. buf' \in Stream /\ wire' \in Stream /\ buf' \o wire' = buf \o wire
    BY <1>1, <2>1, ArrivedFacts
  <2>4. Encoded(Len(done))' = Encoded(Len(done))
    BY <2>1 DEF Types, Values, Encoded
  <2> QED
    BY <1>1, <2>1, <2>2, <2>3, <2>4 DEF CodecInv
<1>3. ASSUME NEW b \in Alphabet, Feed(b)
      PROVE  CodecInv'
  <2>1. /\ ~honest /\ buf' = Append(buf, b)
        /\ case' = case /\ honest' = honest /\ done' = done /\ wire' = wire
    BY <1>3 DEF Feed
  <2>2. Types' = Types
    BY <2>1 DEF Types
  <2>3. buf' \in Stream
    BY <1>1, <2>1, ArrivedFacts, WireAssumption
  <2> QED
    BY <1>1, <2>1, <2>2, <2>3 DEF CodecInv
<1>4. CASE Read
  <2> DEFINE k == Len(done)
             t == Types[k + 1]
             r == Attempt
  <2>1. /\ k < Len(Types) /\ r.st = "ok" /\ done' = Append(done, r.val) /\ buf' = r.rest
        /\ case' = case /\ honest' = honest /\ wire' = wire
    BY <1>4 DEF Read
  <2>2. Types' = Types /\ Values' = Values
    BY <2>1 DEF Types, Values
  <2>3. k \in Nat /\ k + 1 \in 1..Len(Types) /\ k + 1 <= Len(Types) /\ t \in ValTypes
    BY <1>1, <2>1, CaseFacts
  <2>4. r = Decode[t][buf]
    BY DEF Attempt
  <2> HIDE DEF r, t
  <2>5. r.val \in HasType[t] /\ r.rest \in Stream
    BY <1>1, <2>1, <2>3, <2>4, EveryType DEF Sound
  <2>6. r.val \in Anything
    BY <2>3, <2>5 DEF Anything
  <2>7. /\ done' \in Seq(Anything) /\ Len(done') = k + 1 /\ done'[k + 1] = r.val
        /\ \A i \in 1..k : done'[i] = done[i]
    BY <1>1, <2>1, <2>6
  <2>8. \A i \in 1..(k + 1) : i = k + 1 \/ i \in 1..k
    BY <2>3
  <2>9. \A i \in 1..Len(done') : done'[i] \in HasType[Types[i]]
    BY <1>1, <2>5, <2>7, <2>8 DEF t
  <2>10. ASSUME honest
         PROVE  /\ \A i \in 1..Len(done') : done'[i] = Values[i]
                /\ buf' \o wire' = Encoded(k + 1)
    <3>1. PICK x \in Stream : r = Got(Values[k + 1], x) /\ x \o wire = Encoded(k + 1)
      <4>1. Eof.st # "ok"
        BY DEF Eof
      <4> QED
        BY <2>1, <2>10, <4>1, AttemptFacts DEF r
    <3>2. r.val = Values[k + 1] /\ r.rest = x
      BY <3>1, BindFacts
    <3> QED
      BY <1>1, <2>1, <2>7, <2>8, <2>10, <3>1, <3>2
  <2>11. Encoded(Len(done))' = Encoded(k + 1)
    BY <2>1, <2>7 DEF Types, Values, Encoded
  <2>12. honest' => /\ \A i \in 1..Len(done') : done'[i] = Values'[i]
                    /\ buf' \o wire' = Encoded(Len(done))'
    BY <2>1, <2>2, <2>10, <2>11
  <2> QED
    BY <1>1, <2>1, <2>2, <2>3, <2>5, <2>7, <2>9, <2>12 DEF CodecInv
<1>5. CASE UNCHANGED vars
  <2>1. /\ case' = case /\ honest' = honest /\ done' = done /\ wire' = wire /\ buf' = buf
    BY <1>5 DEF vars
  <2>2. Types' = Types /\ Values' = Values /\ Encoded(Len(done))' = Encoded(Len(done))
    BY <2>1 DEF Types, Values, Encoded
  <2> QED
    BY <1>1, <2>1, <2>2 DEF CodecInv
<1> QED
  BY <1>2, <1>3, <1>4, <1>5 DEF Next

(* CodecInv holds throughout.                                              *)
LEMMA CodecInvariant == Spec => []CodecInv
<1> QED
  BY CodecInit, CodecStep, PTL DEF Spec

(* RoundTrip: of every list of parameters, at every length and depth, what *)
(* the encoder writes is read back as it was, wherever the stream is cut,  *)
(* and no read returns early, fails or eats into the next one.             *)
THEOREM ParametersRoundTrip == Spec => []RoundTrip
<1>1. CodecInv => RoundTrip
  <2> SUFFICES ASSUME CodecInv, honest
               PROVE  RoundTrip
    BY DEF RoundTrip
  <2> DEFINE k == Len(done)
  <2>1. /\ case \in DOMAIN Cases /\ done \in Seq(Anything) /\ k <= Len(Types) /\ k \in Nat
        /\ \A i \in 1..k : done[i] = Values[i]
        /\ buf \o wire = Encoded(k)
    BY DEF CodecInv
  <2>2. /\ Values \in Seq(Anything) /\ Len(Values) = Len(Types) /\ Len(Types) \in Nat
        /\ DOMAIN Types = 1..Len(Types)
        /\ \A i \in 1..Len(Types) : Types[i] \in ValTypes /\ Values[i] \in HasType[Types[i]]
    BY <2>1, CaseFacts
  <2>3. \A i \in DOMAIN Types : Encode[Types[i]][Values[i]].ok
    BY <2>2, EveryType DEF Faithful
  <2>4. done = SubSeq(Values, 1, k)
    <3> DEFINE w == SubSeq(Values, 1, k)
               vs == Values
               n == Len(Types)
    <3>1. vs \in Seq(Anything) /\ Len(vs) = n /\ n \in Nat /\ k \in Nat /\ k <= n
      BY <2>1, <2>2
    <3> HIDE DEF vs, k, n
    <3>2. \A i \in 1..k : i \in 1..n /\ (1 + i) - 1 = i
      BY <3>1
    <3>3. SubSeq(vs, 1, k) \in Seq(Anything) /\ Len(SubSeq(vs, 1, k)) = k
          /\ \A i \in 1..k : SubSeq(vs, 1, k)[i] = vs[i]
      BY <3>1, <3>2
    <3>4. w \in Seq(Anything) /\ Len(w) = k /\ \A i \in 1..k : w[i] = Values[i]
      BY <3>3 DEF vs
    <3>5. Len(done) = k
      BY DEF k
    <3> HIDE DEF w
    <3>6. done = w
      BY <2>1, <3>4, <3>5, SeqEqual
    <3> QED
      BY <3>6 DEF w
  <2>5. k < Len(Types) => Attempt.st = "ok" \/ (Attempt.st # "bad" /\ wire # <<>>)
    <3> SUFFICES ASSUME k < Len(Types)
                 PROVE  Attempt.st = "ok" \/ (Attempt.st # "bad" /\ wire # <<>>)
      OBVIOUS
    <3>1. \/ \E x \in Stream : Attempt = Got(Values[k + 1], x)
          \/ Attempt = Eof /\ wire # <<>>
      BY AttemptFacts
    <3>2. Eof.st # "bad"
      BY DEF Eof
    <3> QED
      BY <3>1, <3>2, BindFacts
  <2> QED
    BY <2>1, <2>3, <2>4, <2>5 DEF RoundTrip
<1> QED
  BY <1>1, CodecInvariant, PTL

(* ReadIsWellTyped: whatever bytes arrive, what is read as a parameter is  *)
(* a value of its type, which can be written and read back.                *)
THEOREM ReadValuesAreTyped == Spec => []ReadIsWellTyped
<1>1. CodecInv => ReadIsWellTyped
  <2> SUFFICES ASSUME CodecInv, NEW i \in DOMAIN done
               PROVE  /\ done[i] \in HasType[Types[i]]
                      /\ LET e == Encode[Types[i]][done[i]]
                         IN e.ok /\ Decode[Types[i]][e.bytes] = Got(done[i], <<>>)
    BY DEF ReadIsWellTyped
  <2> DEFINE t == Types[i]
             v == done[i]
             e == Encode[t][v]
  <2>1. v \in HasType[t] /\ t \in ValTypes
    <3>1. /\ done \in Seq(Anything) /\ Len(done) <= Len(Types) /\ case \in DOMAIN Cases
          /\ \A j \in 1..Len(done) : done[j] \in HasType[Types[j]]
      BY DEF CodecInv
    <3>2. Len(Types) \in Nat /\ \A j \in 1..Len(Types) : Types[j] \in ValTypes
      BY <3>1, CaseFacts
    <3>3. i \in 1..Len(done) /\ i \in 1..Len(Types)
      BY <3>1, <3>2
    <3> QED
      BY <3>1, <3>2, <3>3
  <2>2. e.ok /\ Arrives(Decode[t], e.bytes, v)
    BY <2>1, EveryType DEF Faithful
  <2> HIDE DEF t, v, e
  <2>3. Decode[t][e.bytes \o <<>>] = Got(v, <<>>) /\ e.bytes \o <<>> = e.bytes
    BY <2>2, StreamFacts DEF Arrives
  <2> QED
    BY <2>1, <2>2, <2>3 DEF t, v, e
<1> QED
  BY <1>1, CodecInvariant, PTL
============================================================================
