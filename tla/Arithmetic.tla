----------------------------- MODULE Arithmetic ----------------------------
(***************************************************************************)
(* Facts about products, quotients and remainders that the proofs about    *)
(* sectors, blocks and pages need.                                         *)
(***************************************************************************)
EXTENDS Integers, TLAPS

(* Division with remainder by a positive divisor.                          *)
LEMMA DivMod ==
  ASSUME NEW a \in Nat, NEW d \in Nat \ {0}
  PROVE  /\ a \div d \in Nat /\ a % d \in 0 .. d - 1
         /\ a = (a \div d) * d + (a % d)
  OBVIOUS

(* A common positive factor can be dropped from a comparison.              *)
LEMMA ProductOrder ==
  ASSUME NEW x \in Nat, NEW y \in Nat, NEW d \in Nat \ {0}, x * d < y * d
  PROVE  x < y
<1> SUFFICES ASSUME y <= x PROVE FALSE
  OBVIOUS
<1>1. PICK z \in Nat : x = y + z
  <2>1. x - y \in Nat /\ x = y + (x - y)
    OBVIOUS
  <2> QED
    BY <2>1
<1>2. x * d = y * d + z * d
  BY <1>1
<1>3. z * d \in Nat /\ y * d \in Nat
  OBVIOUS
<1> QED
  BY <1>2, <1>3

(* A common factor keeps an order. *)
LEMMA ProductMonotonic ==
  ASSUME NEW x \in Nat, NEW y \in Nat, NEW d \in Nat, x <= y
  PROVE  x * d <= y * d
<1>1. PICK z \in Nat : y = x + z
  <2>1. y - x \in Nat /\ y = x + (y - x)
    OBVIOUS
  <2> QED
    BY <2>1
<1>2. y * d = x * d + z * d
  BY <1>1
<1>3. z * d \in Nat /\ x * d \in Nat
  OBVIOUS
<1> QED
  BY <1>2, <1>3

(* Quotient and remainder are determined by where the number lies.         *)
LEMMA QuotientUnique ==
  ASSUME NEW d \in Nat \ {0}, NEW q \in Nat, NEW r \in 0 .. d - 1
  PROVE  (q * d + r) \div d = q /\ (q * d + r) % d = r
<1> DEFINE a == q * d + r
           p == a \div d
           s == a % d
<1>1. q * d \in Nat
  OBVIOUS
<1>2. a \in Nat
  BY <1>1
<1>3. p \in Nat /\ s \in 0 .. d - 1 /\ a = p * d + s
  BY <1>2, DivMod
<1> HIDE DEF p, s
<1>4. p * d \in Nat /\ (p + 1) * d = p * d + d /\ (q + 1) * d = q * d + d
  BY <1>3
<1>5. p < q + 1
  BY <1>1, <1>3, <1>4, ProductOrder
<1>6. q < p + 1
  BY <1>1, <1>3, <1>4, ProductOrder
<1>7. p = q
  BY <1>3, <1>5, <1>6
<1>8. s = r
  BY <1>1, <1>3, <1>7
<1> QED
  BY <1>7, <1>8 DEF p, s

(* Numbers with the same quotient lie in one interval, and the other way   *)
(* round.                                                                  *)
LEMMA QuotientInterval ==
  ASSUME NEW a \in Nat, NEW d \in Nat \ {0}, NEW q \in Nat
  PROVE  a \div d = q <=> q * d <= a /\ a < q * d + d
<1>1. a \div d \in Nat /\ a = (a \div d) * d + (a % d) /\ a % d \in 0 .. d - 1
  BY DivMod
<1>2. q * d \in Nat /\ (a \div d) * d \in Nat
  BY <1>1
<1>3. a \div d = q => q * d <= a /\ a < q * d + d
  BY <1>1, <1>2
<1>4. ASSUME q * d <= a, a < q * d + d PROVE a \div d = q
  <2>1. a - q * d \in 0 .. d - 1 /\ a = q * d + (a - q * d)
    BY <1>2, <1>4
  <2> QED
    BY <2>1, QuotientUnique
<1> QED
  BY <1>3, <1>4

(* Bigger numbers have no smaller quotients. *)
LEMMA QuotientOrder ==
  ASSUME NEW a \in Nat, NEW b \in Nat, NEW d \in Nat \ {0}, a <= b
  PROVE  a \div d <= b \div d
<1> DEFINE x == a \div d
           y == b \div d
<1>1. x \in Nat /\ a = x * d + (a % d) /\ a % d \in 0 .. d - 1
  BY DivMod
<1>2. y \in Nat /\ b = y * d + (b % d) /\ b % d \in 0 .. d - 1
  BY DivMod
<1> HIDE DEF x, y
<1>3. x * d \in Nat /\ (y + 1) * d \in Nat /\ (y + 1) * d = y * d + d
  BY <1>1, <1>2
<1>4. x * d < (y + 1) * d
  BY <1>1, <1>2, <1>3
<1>5. x < y + 1
  BY <1>1, <1>2, <1>4, ProductOrder
<1> QED
  BY <1>1, <1>2, <1>5 DEF x, y

(* Zero is a multiple of everything. *)
LEMMA ZeroMultiple ==
  ASSUME NEW d \in Nat \ {0}
  PROVE  0 % d = 0
<1>1. 0 \in 0 .. d - 1 /\ 0 * d + 0 = 0
  OBVIOUS
<1>2. (0 * d + 0) % d = 0
  BY <1>1, QuotientUnique
<1> QED
  BY <1>1, <1>2

(* A multiple of a multiple of d is one of d. *)
LEMMA MultipleOfMultiple ==
  ASSUME NEW a \in Nat, NEW e \in Nat \ {0}, NEW d \in Nat \ {0}, a % e = 0, e % d = 0
  PROVE  a % d = 0
<1> DEFINE x == a \div e
           y == e \div d
<1>1. x \in Nat /\ a = x * e
  BY DivMod
<1>2. y \in Nat /\ e = y * d
  BY DivMod
<1> HIDE DEF x, y
<1>3. x * y \in Nat /\ a = (x * y) * d + 0
  BY <1>1, <1>2
<1>4. 0 \in 0 .. d - 1
  OBVIOUS
<1>5. ((x * y) * d + 0) % d = 0
  BY <1>3, <1>4, QuotientUnique
<1> QED
  BY <1>3, <1>5

(* Multiples. *)
LEMMA MultipleSum ==
  ASSUME NEW a \in Nat, NEW b \in Nat, NEW d \in Nat \ {0}, a % d = 0, b % d = 0
  PROVE  (a + b) % d = 0
<1> DEFINE x == a \div d
           y == b \div d
<1>1. x \in Nat /\ a = x * d
  BY DivMod
<1>2. y \in Nat /\ b = y * d
  BY DivMod
<1> HIDE DEF x, y
<1>3. x + y \in Nat /\ a + b = (x + y) * d
  BY <1>1, <1>2
<1>4. (x + y) * d + 0 = a + b
  BY <1>1, <1>2, <1>3
<1>5. ((x + y) * d + 0) % d = 0
  <2>1. 0 \in 0 .. d - 1
    OBVIOUS
  <2> QED
    BY <1>3, <2>1, QuotientUnique
<1> QED
  BY <1>4, <1>5

(* The next multiple.                                                      *)
LEMMA NextMultiple ==
  ASSUME NEW a \in Nat, NEW d \in Nat \ {0}, a % d = 0
  PROVE  (a + d) % d = 0
<1>1. 0 \in 0 .. d - 1 /\ 1 * d + 0 = d
  OBVIOUS
<1>2. d % d = 0
  BY <1>1, QuotientUnique
<1> QED
  BY <1>2, MultipleSum

(* Between two multiples lies a whole step. *)
LEMMA MultipleGap ==
  ASSUME NEW a \in Nat, NEW b \in Nat, NEW d \in Nat \ {0}, a % d = 0, b % d = 0, a < b
  PROVE  a + d <= b
<1> DEFINE x == a \div d
           y == b \div d
<1>1. x \in Nat /\ a = x * d
  BY DivMod
<1>2. y \in Nat /\ b = y * d
  BY DivMod
<1> HIDE DEF x, y
<1>3. x < y
  BY <1>1, <1>2, ProductOrder
<1>4. (x + 1) * d <= y * d
  <2>1. x + 1 \in Nat /\ x + 1 <= y
    BY <1>1, <1>2, <1>3
  <2> QED
    BY <1>2, <2>1, ProductMonotonic
<1>5. (x + 1) * d = x * d + d
  BY <1>1
<1> QED
  BY <1>1, <1>2, <1>4, <1>5
=============================================================================
