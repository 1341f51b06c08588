----------------------------- MODULE PrimsProofs -----------------------------
(***************************************************************************)
(* The checked operations of prims.go are exact or stop, for every width   *)
(* of the word.                                                            *)
(***************************************************************************)
EXTENDS Prims, TLAPS

LEMMA ModOnce ==
    ASSUME NEW d \in Nat, d > 0, NEW x \in Int, x >= 0, x < d
    PROVE  x % d = x
  OBVIOUS

LEMMA ModAbove ==
    ASSUME NEW d \in Nat, d > 0, NEW x \in Int, x >= d, x < 2 * d
    PROVE  x % d = x - d
  OBVIOUS

LEMMA ModBelow ==
    ASSUME NEW d \in Nat, d > 0, NEW x \in Int, x >= -d, x < 0
    PROVE  x % d = x + d
  OBVIOUS

\* A sum or difference of two words overflows by at most one turn.
LEMMA WrapTurn ==
    ASSUME NEW x \in Int, x >= -2 * Half, x < 2 * Half
    PROVE  wrap(x) = IF x \in int64 THEN x
                     ELSE IF x > 0 THEN x - 2 * Half ELSE x + 2 * Half
<1> USE HalfAssumption
<1> DEFINE d == 2 * Half
           y == x + Half
<1>1. d \in Nat /\ d > 0 /\ y \in Int /\ wrap(x) = (y % d) - Half
  BY DEF wrap, minInt
<1>2. CASE x \in int64
  <2>1. y >= 0 /\ y < d
    BY <1>2 DEF int64, minInt, maxInt
  <2> QED BY <1>1, <1>2, <2>1, ModOnce
<1>3. CASE x \notin int64 /\ x > 0
  <2>1. y >= d /\ y < 2 * d
    BY <1>3 DEF int64, minInt, maxInt
  <2>2. y % d = y - d
    BY <1>1, <2>1, ModAbove
  <2> QED BY <1>1, <1>3, <2>2
<1>4. CASE x \notin int64 /\ ~(x > 0)
  <2>1. y >= -d /\ y < 0
    BY <1>4 DEF int64, minInt, maxInt
  <2>2. y % d = y + d
    BY <1>1, <2>1, ModBelow
  <2> QED BY <1>1, <1>4, <2>2
<1> QED BY <1>2, <1>3, <1>4

Exact(x) == IF x \in int64 THEN x ELSE Panic

\* zAdd, zSub and zOpp (prims.go:159-191): two words give the exact sum,
\* difference or opposite if it is a word, and stop the run otherwise.
THEOREM AddExact == \A a, b \in int64 : zAdd(a, b) = Exact(a + b)
<1> SUFFICES ASSUME NEW a \in int64, NEW b \in int64
             PROVE  zAdd(a, b) = Exact(a + b)
  OBVIOUS
<1> USE HalfAssumption DEF int64, minInt, maxInt
<1>1. wrap(a + b) = IF a + b \in int64 THEN a + b
                    ELSE IF a + b > 0 THEN a + b - 2 * Half ELSE a + b + 2 * Half
  BY WrapTurn
<1>2. Panic \notin {a, b}
  BY DEF Panic
<1> QED BY <1>1, <1>2 DEF zAdd, Checked, Exact

THEOREM SubExact == \A a, b \in int64 : zSub(a, b) = Exact(a - b)
<1> SUFFICES ASSUME NEW a \in int64, NEW b \in int64
             PROVE  zSub(a, b) = Exact(a - b)
  OBVIOUS
<1> USE HalfAssumption DEF int64, minInt, maxInt
<1>1. wrap(a - b) = IF a - b \in int64 THEN a - b
                    ELSE IF a - b > 0 THEN a - b - 2 * Half ELSE a - b + 2 * Half
  BY WrapTurn
<1>2. Panic \notin {a, b}
  BY DEF Panic
<1> QED BY <1>1, <1>2 DEF zSub, Checked, Exact

THEOREM OppExact == \A a \in int64 : zOpp(a) = Exact(-a)
  BY HalfAssumption DEF zOpp, Checked, Exact, Panic, int64, minInt, maxInt

LEMMA DivExact ==
    ASSUME NEW m \in Nat, NEW n \in Nat, n > 0
    PROVE  (m * n) \div n = m
  OBVIOUS
LEMMA DivRemains ==
    ASSUME NEW x \in Nat, NEW y \in Nat, y > 0
    PROVE  \E r \in 0 .. y - 1 : x \div y \in Nat /\ x = y * (x \div y) + r
<1>1. x \div y \in Nat
  OBVIOUS
<1>2. x % y \in 0 .. y - 1 /\ x = y * (x \div y) + (x % y)
  OBVIOUS
<1> QED BY <1>1, <1>2
LEMMA WrapCongruent ==
    ASSUME NEW x \in Int
    PROVE  /\ wrap(x) \in int64
           /\ \E k \in Int : wrap(x) = x - k * (2 * Half)
<1> USE HalfAssumption
<1> DEFINE d == 2 * Half
           y == x + Half
<1>1. d \in Nat /\ d > 0 /\ y \in Int /\ wrap(x) = (y % d) - Half
  BY DEF wrap, minInt
<1> HIDE DEF d, y
<1>2. y % d \in 0 .. d - 1 /\ y = d * (y \div d) + (y % d) /\ y \div d \in Int
  BY <1>1
<1>3. wrap(x) \in int64
  BY <1>1, <1>2 DEF d, int64, minInt, maxInt
<1>4. wrap(x) = x - (y \div d) * (2 * Half)
  BY <1>1, <1>2 DEF d, y
<1> QED BY <1>2, <1>3, <1>4

LEMMA MagnitudeOfProduct ==
    ASSUME NEW a \in Int, NEW b \in Int
    PROVE  magnitude(a * b) = magnitude(a) * magnitude(b)
<1>1. CASE a >= 0 /\ b >= 0
  <2>1. a * b >= 0  BY <1>1
  <2> QED BY <1>1, <2>1 DEF magnitude
<1>2. CASE a >= 0 /\ b < 0
  <2>1. a * b = -(a * (-b)) /\ a * (-b) >= 0  BY <1>2
  <2> QED BY <1>2, <2>1 DEF magnitude
<1>3. CASE a < 0 /\ b >= 0
  <2>1. a * b = -((-a) * b) /\ (-a) * b >= 0  BY <1>3
  <2> QED BY <1>3, <2>1 DEF magnitude
<1>4. CASE a < 0 /\ b < 0
  <2>1. a * b = (-a) * (-b) /\ (-a) * (-b) >= 0  BY <1>4
  <2> QED BY <1>4, <2>1 DEF magnitude
<1> QED BY <1>1, <1>2, <1>3, <1>4

LEMMA WrapWord ==
    ASSUME NEW x \in int64
    PROVE  wrap(x) = x
  BY WrapTurn, HalfAssumption DEF int64, minInt, maxInt

LEMMA QuoExact ==
    ASSUME NEW a \in int64, NEW b \in int64, b # 0
    PROVE  quo(a * b, b) = a
<1> USE HalfAssumption
<1>1. a \in Int /\ b \in Int /\ magnitude(a) \in Nat /\ magnitude(b) \in Nat /\ magnitude(b) > 0
  BY DEF int64, minInt, maxInt, magnitude
<1>2. magnitude(a * b) \div magnitude(b) = magnitude(a)
  BY <1>1, MagnitudeOfProduct, DivExact
<1>3. CASE a = 0
  <2>1. a * b = 0 /\ magnitude(a) = 0
    BY <1>1, <1>3 DEF magnitude
  <2>2. wrap(0) = 0
    BY <1>3, WrapWord
  <2> QED BY <1>2, <1>3, <2>1, <2>2 DEF quo
<1>4. CASE a > 0
  <2>1. ((a * b) < 0) = (b < 0)
    BY <1>1, <1>4
  <2>2. magnitude(a) = a
    BY <1>1, <1>4 DEF magnitude
  <2> QED BY <1>2, <2>1, <2>2, WrapWord DEF quo
<1>5. CASE a < 0
  <2>1. ((a * b) < 0) = (b > 0)
    BY <1>1, <1>5
  <2>2. (((a * b) < 0) = (b < 0)) = FALSE
    BY <1>1, <2>1
  <2>3. -magnitude(a) = a
    BY <1>1, <1>5 DEF magnitude
  <2> QED BY <1>2, <2>2, <2>3, WrapWord DEF quo
<1> QED BY <1>1, <1>3, <1>4, <1>5

LEMMA QuoNear ==
    ASSUME NEW r \in int64, NEW b \in int64, b # 0, b # -1
    PROVE  \E e \in Int : /\ r = quo(r, b) * b + e
                          /\ -magnitude(b) < e /\ e < magnitude(b)
<1> USE HalfAssumption
<1> DEFINE m == magnitude(r)
           n == magnitude(b)
           q == m \div n
<1>1. r \in Int /\ b \in Int /\ m \in Nat /\ n \in Nat /\ n > 0 /\ m <= Half
  BY DEF int64, minInt, maxInt, magnitude
<1>2. PICK e \in 0 .. n - 1 : q \in Nat /\ m = n * q + e
  <2> HIDE DEF m, n
  <2> QED BY <1>1, DivRemains DEF q
<1>3. q <= m
  <2> HIDE DEF m, n, q
  <2> QED BY <1>1, <1>2
<1>4. CASE (r < 0) = (b < 0)
  <2>1. q \in int64
    <3>1. CASE b > 0
      BY <1>1, <1>2, <1>3, <1>4, <3>1 DEF int64, minInt, maxInt, magnitude
    <3>2. CASE b < 0
      <4>1. n >= 2
        BY <1>1, <3>2 DEF magnitude
      <4>2. 2 * q <= m
        <5> HIDE DEF m, n, q
        <5> QED BY <1>1, <1>2, <4>1
      <4> HIDE DEF m, n, q
      <4> QED BY <1>1, <1>2, <4>2 DEF int64, minInt, maxInt
    <3> QED BY <1>1, <3>1, <3>2
  <2>2. quo(r, b) = q
    BY <1>4, <2>1, WrapWord DEF quo
  <2>3. CASE r >= 0 /\ b > 0
    <3>1. m = r /\ n = b
      BY <1>1, <2>3 DEF magnitude
    <3> HIDE DEF m, n, q
    <3> QED BY <1>1, <1>2, <2>2, <3>1 DEF n
  <2>4. CASE r < 0 /\ b < 0
    <3>1. m = -r /\ n = -b
      BY <1>1, <2>4 DEF magnitude
    <3> HIDE DEF m, q
    <3>2. r = q * b + (-e)
      <4> HIDE DEF n
      <4>1. n * q = -(q * b)
        BY <1>1, <1>2, <3>1
      <4> QED BY <1>1, <1>2, <3>1, <4>1
    <3> QED BY <1>1, <1>2, <2>2, <3>2
  <2> QED BY <1>1, <1>4, <2>3, <2>4
<1>5. CASE (r < 0) # (b < 0)
  <2>1. -q \in int64
    <3> HIDE DEF m, n, q
    <3> QED BY <1>1, <1>2, <1>3 DEF int64, minInt, maxInt
  <2>2. quo(r, b) = -q
    BY <1>5, <2>1, WrapWord DEF quo
  <2>3. CASE r >= 0 /\ b < 0
    <3>1. m = r /\ n = -b
      BY <1>1, <2>3 DEF magnitude
    <3> HIDE DEF m, q
    <3>2. r = (-q) * b + e
      <4> HIDE DEF n
      <4>1. n * q = (-q) * b
        BY <1>1, <1>2, <3>1
      <4> QED BY <1>1, <1>2, <3>1, <4>1
    <3> QED BY <1>1, <1>2, <2>2, <3>2
  <2>4. CASE r < 0 /\ b > 0
    <3>1. m = -r /\ n = b
      BY <1>1, <2>4 DEF magnitude
    <3> HIDE DEF m, q
    <3>2. r = (-q) * b + (-e)
      <4> HIDE DEF n
      <4>1. n * q = -((-q) * b)
        BY <1>1, <1>2, <3>1
      <4> QED BY <1>1, <1>2, <3>1, <4>1
    <3> QED BY <1>1, <1>2, <2>2, <3>2
  <2> QED BY <1>1, <1>5, <2>3, <2>4
<1> QED BY <1>4, <1>5

LEMMA WrappedProductDiffers ==
    ASSUME NEW a \in int64, NEW b \in int64, b # 0, b # -1,
           quo(wrap(a * b), b) = a
    PROVE  wrap(a * b) = a * b
<1> USE HalfAssumption
<1> DEFINE p == a * b
           r == wrap(p)
<1>1. /\ a \in Int /\ b \in Int /\ p \in Int
      /\ magnitude(b) \in 0 .. Half
  BY DEF int64, minInt, maxInt, magnitude
<1>2. PICK k \in Int : r \in int64 /\ r = p - k * (2 * Half)
  <2> HIDE DEF p
  <2> QED BY <1>1, WrapCongruent DEF r
<1>3. PICK e \in Int : /\ r = quo(r, b) * b + e
                       /\ -magnitude(b) < e /\ e < magnitude(b)
  <2> HIDE DEF r
  <2> QED BY <1>2, QuoNear
<1>4. r = p + e
  BY <1>1, <1>3
<1>5. k * (2 * Half) = -e /\ e > -Half /\ e < Half
  <2> HIDE DEF p, r
  <2> QED BY <1>1, <1>2, <1>3, <1>4 DEF int64, minInt, maxInt
<1>6. k = 0
  <2> HIDE DEF p, r
  <2>1. CASE k >= 1
    <3>1. k * (2 * Half) >= 2 * Half
      BY <2>1
    <3> QED BY <1>5, <3>1
  <2>2. CASE k <= -1
    <3>1. (-k) * (2 * Half) >= 2 * Half
      BY <2>2
    <3>2. k * (2 * Half) = -((-k) * (2 * Half))
      OBVIOUS
    <3> QED BY <1>5, <3>1, <3>2
  <2> QED BY <2>1, <2>2
<1>7. r = p
  <2> HIDE DEF p, r
  <2> QED BY <1>1, <1>2, <1>6
<1> QED BY <1>7

\* zMul (prims.go:175-184): the wrapped product is divided back to see whether
\* it is the product, and the one quotient that wraps too is tested by itself.
THEOREM MulExact == \A a, b \in int64 : zMul(a, b) = Exact(a * b)
<1> SUFFICES ASSUME NEW a \in int64, NEW b \in int64
             PROVE  zMul(a, b) = Exact(a * b)
  OBVIOUS
<1> USE HalfAssumption
<1>1. /\ a \in Int /\ b \in Int /\ a * b \in Int
      /\ Panic \notin {a, b} /\ minInt \in Int /\ maxInt \in Int
  BY DEF int64, minInt, maxInt, Panic
<1>2. CASE a = 0 \/ b = 0
  <2>1. a * b = 0 /\ 0 \in int64
    BY <1>1, <1>2 DEF int64, minInt, maxInt
  <2>2. wrap(a * b) = 0
    BY <2>1, WrapWord
  <2> QED BY <1>1, <1>2, <2>1, <2>2 DEF zMul, Checked, Exact
<1>3. CASE a # 0 /\ b # 0 /\ a * b \in int64
  <2>1. wrap(a * b) = a * b
    BY <1>3, WrapWord
  <2>2. quo(a * b, b) = a
    BY <1>3, QuoExact
  <2>3. ~(a = -1 /\ b = minInt) /\ ~(b = -1 /\ a = minInt)
    BY <1>3 DEF int64, minInt, maxInt
  <2> QED BY <1>1, <1>3, <2>1, <2>2, <2>3 DEF zMul, Checked, Exact
<1>4. CASE a # 0 /\ b # 0 /\ a * b \notin int64
  <2>1. CASE b = -1
    <3>1. a = minInt
      BY <1>1, <1>4, <2>1 DEF int64, minInt, maxInt
    <3> QED BY <1>1, <1>4, <2>1, <3>1 DEF zMul, Checked, Exact
  <2>2. CASE b # -1
    <3>1. wrap(a * b) \in int64
      BY <1>1, WrapCongruent
    <3>2. quo(wrap(a * b), b) # a
      BY <1>4, <2>2, <3>1, WrappedProductDiffers
    <3> QED BY <1>1, <1>4, <3>2 DEF zMul, Checked, Exact
  <2> QED BY <2>1, <2>2
<1> QED BY <1>1, <1>2, <1>3, <1>4

\* Successor, predecessor and the digits of a positive (prims.go:200-204) are
\* the checked sum, difference and product: exact, or the run stops.
THEOREM DigitsExact ==
    /\ \A a \in int64 : zSucc(a) = Exact(a + 1) /\ zPred(a) = Exact(a - 1)
    /\ \A p \in 1 .. maxInt : /\ posXO(p) = Exact(2 * p)
                              /\ posXI(p) = Exact(2 * p + 1)
<1> USE HalfAssumption
<1>1. 1 \in int64 /\ 2 \in int64
  BY DEF int64, minInt, maxInt
<1>2. ASSUME NEW a \in int64
      PROVE  zSucc(a) = Exact(a + 1) /\ zPred(a) = Exact(a - 1)
  BY <1>1, AddExact, SubExact DEF zSucc, zPred
<1>3. ASSUME NEW p \in 1 .. maxInt
      PROVE  posXO(p) = Exact(2 * p) /\ posXI(p) = Exact(2 * p + 1)
  <2>1. p \in int64 /\ p \in Int
    BY DEF int64, minInt, maxInt
  <2>2. zMul(2, p) = Exact(2 * p)
    BY <1>1, <2>1, MulExact
  <2>3. CASE 2 * p \in int64
    <3>1. posXI(p) = Exact(2 * p + 1)
      BY <1>1, <2>2, <2>3, AddExact DEF posXI, Exact
    <3> QED BY <2>2, <3>1 DEF posXO
  <2>4. CASE 2 * p \notin int64
    <3>1. zMul(2, p) = Panic /\ 2 * p + 1 \notin int64
      BY <2>1, <2>2, <2>4 DEF Exact, int64, minInt, maxInt
    <3>2. zAdd(Panic, 1) = Panic
      BY DEF zAdd, Checked
    <3> QED BY <2>2, <3>1, <3>2 DEF posXI, posXO, Exact
  <2> QED BY <2>3, <2>4
<1> QED BY <1>2, <1>3

\* nDiv and nModulo (prims.go:234-246) never stop: on naturals they are the
\* Euclidean quotient and remainder, and Rocq's conventions when b is 0.
THEOREM DivisionExact ==
    \A a, b \in 0 .. maxInt :
        /\ nDiv(a, b) = IF b = 0 THEN 0 ELSE a \div b
        /\ nModulo(a, b) = IF b = 0 THEN a ELSE a % b
<1> SUFFICES ASSUME NEW a \in 0 .. maxInt, NEW b \in 0 .. maxInt
             PROVE  /\ nDiv(a, b) = IF b = 0 THEN 0 ELSE a \div b
                    /\ nModulo(a, b) = IF b = 0 THEN a ELSE a % b
  OBVIOUS
<1> USE HalfAssumption
<1>1. a \in Nat /\ b \in Nat /\ Panic \notin {a, b}
  BY DEF maxInt, Panic
<1>2. CASE b = 0
  BY <1>1, <1>2 DEF nDiv, nModulo, Checked
<1>3. CASE b > 0
  <2>1. a \div b \in Nat /\ a \div b <= a /\ a = b * (a \div b) + (a % b)
    <3>1. PICK r \in 0 .. b - 1 : a \div b \in Nat /\ a = b * (a \div b) + r
      BY <1>1, <1>3, DivRemains
    <3>2. a \div b <= b * (a \div b)
      BY <1>1, <1>3, <3>1
    <3> QED BY <1>1, <1>3, <3>1, <3>2
  <2>2. a \div b \in int64
    BY <1>1, <2>1 DEF int64, minInt, maxInt
  <2>3. wrap(a \div b) = a \div b
    BY <2>2, WrapWord
  <2>4. magnitude(a) = a /\ magnitude(b) = b /\ (a < 0) = (b < 0)
    BY <1>1, <1>3 DEF magnitude
  <2>5. quo(a, b) = a \div b
    BY <2>3, <2>4 DEF quo
  <2>6. a - b * (a \div b) = a % b
    BY <1>1, <1>3, <2>1
  <2> QED BY <1>1, <1>3, <2>5, <2>6 DEF nDiv, nModulo, remainder, Checked
<1> QED BY <1>1, <1>2, <1>3
=============================================================================
