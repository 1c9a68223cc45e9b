------------------------------ MODULE ModLemmas ------------------------------
(***************************************************************************)
(* Facts about division and remainder of naturals, for the rings of        *)
(* buffers (ibuf = icube % ASYNC_PIPELINE_DEPTH) and for the numbering of  *)
(* the cubes (deinterleave3).                                              *)
(***************************************************************************)
EXTENDS Integers, TLAPS

(* The remainder and the quotient, and what they say of the dividend.      *)
LEMMA DivMod ==
  ASSUME NEW d \in Nat \ {0}, NEW a \in Nat
  PROVE  /\ a % d \in 0 .. d - 1
         /\ a \div d \in Nat
         /\ a = d * (a \div d) + (a % d)
OBVIOUS

(* A number below the divisor is its own remainder.                        *)
LEMMA ModSmall ==
  ASSUME NEW d \in Nat \ {0}, NEW a \in 0 .. d - 1
  PROVE  a % d = a
OBVIOUS

(* A multiple of d that is smaller than d in absolute value is 0.          *)
LEMMA SmallMultiple ==
  ASSUME NEW d \in Nat \ {0}, NEW m \in Int, -d < d * m, d * m < d
  PROVE  m = 0
<1>1. CASE m >= 1
  <2>1. d * m >= d
    BY <1>1
  <2>. QED  BY <2>1
<1>2. CASE m <= -1
  <2>1. d * m <= -d
    BY <1>2
  <2>. QED  BY <2>1
<1>. QED  BY <1>1, <1>2

(* A quotient and a remainder are the only ones of their dividend.         *)
LEMMA DivModUnique ==
  ASSUME NEW d \in Nat \ {0}, NEW q \in Nat, NEW r \in 0 .. d - 1
  PROVE  /\ (d * q + r) \div d = q
         /\ (d * q + r) % d = r
<1> DEFINE a == d * q + r
           x == a \div d
           y == a % d
<1>1. a \in Nat
  OBVIOUS
<1>2. y \in 0 .. d - 1 /\ x \in Nat /\ a = d * x + y
  BY <1>1, DivMod
<1>3. d * q + r = d * x + y
  BY <1>2
<1> HIDE DEF x, y
<1>4. d * x - d * q = d * (x - q) /\ (x - q) \in Int /\ d * x \in Int /\ d * q \in Int
  BY <1>2
<1>5. d * (x - q) = r - y
  BY <1>2, <1>3, <1>4
<1>6. x - q = 0
  <2>1. -d < d * (x - q) /\ d * (x - q) < d
    BY <1>2, <1>5
  <2>. QED  BY <2>1, <1>4, SmallMultiple
<1>7. x = q
  BY <1>6, <1>2
<1>8. y = r
  BY <1>3, <1>7, <1>4, <1>2
<1>. QED  BY <1>7, <1>8 DEF x, y

(* Two numbers less than d apart with the same remainder are equal: the    *)
(* buffers of Depth consecutive cubes are distinct.                        *)
LEMMA ModWindow ==
  ASSUME NEW d \in Nat \ {0}, NEW a \in Nat, NEW b \in Nat,
         a < b + d, b < a + d, a % d = b % d
  PROVE  a = b
<1> DEFINE x == a \div d
           y == b \div d
<1>1. a = d * x + (a % d) /\ b = d * y + (b % d) /\ x \in Int /\ y \in Int
  BY DivMod
<1>2. a - b = d * x - d * y
  BY <1>1
<1> HIDE DEF x, y
<1>3. d * x - d * y = d * (x - y) /\ (x - y) \in Int
  BY <1>1
<1>4. x - y = 0
  BY <1>2, <1>3, SmallMultiple
<1>. QED  BY <1>1, <1>4

(* Adding the divisor does not change the remainder: (ibuf + Depth) and    *)
(* ibuf are the same buffer.                                               *)
LEMMA ModShift ==
  ASSUME NEW d \in Nat \ {0}, NEW a \in Nat
  PROVE  (a + d) % d = a % d
<1> DEFINE q == a \div d
           r == a % d
<1>1. r \in 0 .. d - 1 /\ q \in Nat /\ a = d * q + r
  BY DivMod
<1> HIDE DEF q, r
<1>2. d * (q + 1) = d * q + d /\ q + 1 \in Nat
  BY <1>1
<1>3. a + d = d * (q + 1) + r
  BY <1>1, <1>2
<1>4. (d * (q + 1) + r) % d = r
  BY <1>1, <1>2, DivModUnique
<1>. QED  BY <1>3, <1>4 DEF r
=============================================================================
