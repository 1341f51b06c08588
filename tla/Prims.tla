-------------------------------- MODULE Prims --------------------------------
(***************************************************************************)
(* The machine integers of the generated Go (gogen/prims.go): every number *)
(* of the extracted program, natural, positive or integer, is one of them, *)
(* and an operation that would leave them stops the run.  Half of the      *)
(* words are negative: 2^63 of them in the source.  Panic stands for a     *)
(* stopped run: Go evaluates arguments first, so whatever is computed from *)
(* it stops too.                                                           *)
(***************************************************************************)
EXTENDS Integers

CONSTANT Half

ASSUME HalfAssumption == Half \in Nat /\ Half > 2

maxInt == Half - 1
minInt == -Half
int64 == minInt .. maxInt

Panic == maxInt + 1

wrap(x) == ((x - minInt) % (2 * Half)) + minInt

Checked(args, overflow, r) == IF Panic \in args \/ overflow THEN Panic ELSE r

zAdd(a, b) ==
    LET r == wrap(a + b) IN
    Checked({a, b}, (a > 0 /\ b > 0 /\ r < 0) \/ (a < 0 /\ b < 0 /\ r >= 0), r)

zSub(a, b) ==
    LET r == wrap(a - b) IN
    Checked({a, b}, (b < 0 /\ r < a) \/ (b > 0 /\ r > a), r)

\* Go's / and %: towards zero, and the quotient wraps.
magnitude(a) == IF a < 0 THEN -a ELSE a
quo(a, b) ==
    wrap(IF (a < 0) = (b < 0) THEN magnitude(a) \div magnitude(b)
         ELSE -(magnitude(a) \div magnitude(b)))
remainder(a, b) == a - b * quo(a, b)

\* (Mutation: the quotient is trusted to show every overflow.)
zMulByQuotient(a, b) ==
    LET r == wrap(a * b) IN
    Checked({a, b}, a # 0 /\ b # 0 /\ quo(r, b) # a, r)

\* The quotient misses the least integer times -1, which wraps to itself.
zMul(a, b) ==
    LET r == wrap(a * b) IN
    Checked({a, b},
            /\ a # 0 /\ b # 0
            /\ \/ quo(r, b) # a
               \/ a = -1 /\ b = minInt
               \/ b = -1 /\ a = minInt,
            r)

zOpp(a) == Checked({a}, a = minInt, -a)
zAbs(a) == IF a < 0 THEN zOpp(a) ELSE a

zSucc(a) == zAdd(a, 1)
\* (Mutation: a bound where the source has none.)
zPredAboveZero(a) == IF a <= minInt + 1 THEN Panic ELSE zSub(a, 1)

zPred(a) == zSub(a, 1)
natSucc(a) == zAdd(a, 1)
posXI(p) == zAdd(zMul(2, p), 1)
posXO(p) == zMul(2, p)

natSub(a, b) == Checked({a, b}, FALSE, IF a <= b THEN 0 ELSE a - b)
posSub(a, b) == Checked({a, b}, FALSE, IF a <= b THEN 1 ELSE a - b)
posPred(a) == Checked({a}, FALSE, IF a <= 1 THEN 1 ELSE a - 1)
nPred(a) == Checked({a}, FALSE, IF a <= 0 THEN 0 ELSE a - 1)

nDiv(a, b) == Checked({a, b}, FALSE, IF b = 0 THEN 0 ELSE quo(a, b))
nModulo(a, b) == Checked({a, b}, FALSE, IF b = 0 THEN a ELSE remainder(a, b))
natDiv2(a) == Checked({a}, FALSE, quo(a, 2))

min64(a, b) == Checked({a, b}, FALSE, IF a < b THEN a ELSE b)
max64(a, b) == Checked({a, b}, FALSE, IF a > b THEN a ELSE b)

\* Eq, Lt and Gt are 0, -1 and 1; true and false are 1 and 0.
Flag(c) == IF c THEN 1 ELSE 0
eqb(a, b) == Checked({a, b}, FALSE, Flag(a = b))
ltb(a, b) == Checked({a, b}, FALSE, Flag(a < b))
leb(a, b) == Checked({a, b}, FALSE, Flag(a <= b))

compare(a, b) ==
    Checked({a, b}, FALSE, IF a = b THEN 0 ELSE IF a < b THEN -1 ELSE 1)
compareCont(c, a, b) == IF a = b THEN c ELSE compare(a, b)

(***************************************************************************)
(* What the symbols of ExtrGo.v are compiled to, by the type of the first  *)
(* operand; an operation on one operand ignores the second.                *)
(***************************************************************************)
primNat(o, x, y) ==
    CASE o = "nat_add" -> zAdd(x, y)
      [] o = "nat_sub" -> natSub(x, y)
      [] o = "nat_mul" -> zMul(x, y)
      [] o = "nat_eqb" -> eqb(x, y)
      [] o = "nat_leb" -> leb(x, y)
      [] o = "nat_ltb" -> ltb(x, y)
      [] o = "nat_compare" -> compare(x, y)
      [] o = "nat_min" -> min64(x, y)
      [] o = "nat_max" -> max64(x, y)
      [] o = "nat_div2" -> natDiv2(x)
      [] o = "nat_pred" -> nPred(x)

primPos(o, x, y) ==
    CASE o = "pos_add" -> zAdd(x, y)
      [] o = "pos_sub" -> posSub(x, y)
      [] o = "pos_mul" -> zMul(x, y)
      [] o = "pos_compare" -> compare(x, y)
      [] o = "pos_compare_cont" -> compareCont(1, x, y)
      [] o = "pos_min" -> min64(x, y)
      [] o = "pos_max" -> max64(x, y)
      [] o = "pos_succ" -> natSucc(x)
      [] o = "pos_pred" -> posPred(x)

primN(o, x, y) ==
    CASE o = "n_add" -> zAdd(x, y)
      [] o = "n_sub" -> natSub(x, y)
      [] o = "n_mul" -> zMul(x, y)
      [] o = "n_div" -> nDiv(x, y)
      [] o = "n_modulo" -> nModulo(x, y)
      [] o = "n_compare" -> compare(x, y)
      [] o = "n_min" -> min64(x, y)
      [] o = "n_max" -> max64(x, y)
      [] o = "n_succ" -> natSucc(x)
      [] o = "n_pred" -> nPred(x)
      [] o = "z_of_n" -> x

primZ(o, x, y) ==
    CASE o = "z_add" -> zAdd(x, y)
      [] o = "z_sub" -> zSub(x, y)
      [] o = "z_mul" -> zMul(x, y)
      [] o = "z_compare" -> compare(x, y)
      [] o = "z_min" -> min64(x, y)
      [] o = "z_max" -> max64(x, y)
      [] o = "z_succ" -> zSucc(x)
      [] o = "z_pred" -> zPred(x)
      [] o = "z_opp" -> zOpp(x)
      [] o \in {"z_abs", "z_abs_n"} -> zAbs(x)

prim(type, o, x, y) ==
    CASE type = "nat" -> primNat(o, x, y)
      [] type = "pos" -> primPos(o, x, y)
      [] type = "n" -> primN(o, x, y)
      [] type = "z" -> primZ(o, x, y)
=============================================================================
