----------------------------- MODULE PrimCheck ------------------------------
(***************************************************************************)
(* A program of the extracted language that calculates: it starts from a   *)
(* number and applies mapped and generated operations to what it has, as   *)
(* the checkers do.  It runs three times side by side: on the inductive    *)
(* numbers Rocq defines (rocq, package plain), on machine integers (go,    *)
(* package mapped and the generated code) and on the integers (exact).     *)
(* When an operation of go panics, the program has stopped.                *)
(* primcheck_test.go compares the first two, one mapped operation each.    *)
(***************************************************************************)
EXTENDS Prims, FiniteSets, Sequences

CONSTANTS Width,             \* the bits of a word
          MaxExponent,       \* bounds exponents and shifts
          MaxUnaryExponent   \* and exponents of unary numbers

VARIABLES type,         \* "nat", "pos", "n", "z", or "cmp" for a comparison
          rocq, go, exact,
          last          \* the operation that stopped the program and its operands
calcVars == <<type, rocq, go, exact, last>>

(***************************************************************************)
(* The numbers of package plain: digits least significant first; N and Z   *)
(* as a sign and a positive.                                               *)
(***************************************************************************)
plainXI(p) == <<1>> \o p
plainXO(p) == <<0>> \o p
plainShape(p) == IF p = <<>> THEN "XH" ELSE IF Head(p) = 1 THEN "XI" ELSE "XO"
plainRest(p) == Tail(p)
plainS(n) == n + 1
plainPos(p) == <<1, p>>
plainNeg(p) == <<-1, p>>
plainSign(z) == z[1]
plainMag(z) == z[2]
plainZero == <<0, <<>>>>
plainStop == <<2, <<>>>>

RN == INSTANCE Numbers WITH
          S <- plainS, XI <- plainXI, XO <- plainXO, XH <- <<>>,
          Shape <- plainShape, Rest <- plainRest, Zero <- plainZero,
          Pos <- plainPos, Neg <- plainNeg, Sign <- plainSign,
          Mag <- plainMag, Stop <- plainStop

plainAdd(x, y) == RN!z_add(x, y)
plainSub(x, y) == RN!z_sub(x, y)
plainMul(x, y) == RN!z_mul(x, y)
plainOpp(x) == RN!z_opp(x)
plainCompare(x, y) == RN!z_compare(x, y)

RD == INSTANCE Derived WITH
          S <- plainS, XI <- plainXI, XO <- plainXO, XH <- <<>>,
          Shape <- plainShape, Rest <- plainRest, Zero <- plainZero,
          Pos <- plainPos, Neg <- plainNeg, Sign <- plainSign,
          Mag <- plainMag, Stop <- plainStop,
          zAdd <- plainAdd, zSub <- plainSub, zMul <- plainMul,
          zOpp <- plainOpp, zCompare <- plainCompare

(***************************************************************************)
(* The mapped types: constructors are arithmetic, matches are tests.  A    *)
(* positive below 1 matches nothing.                                       *)
(***************************************************************************)
mappedShape(p) ==
    CASE p = Panic \/ p < 1 -> "stop"
      [] p = 1 -> "XH"
      [] p \in 2 .. maxInt -> IF p % 2 = 1 THEN "XI" ELSE "XO"
mappedRest(p) == quo(p, 2)
mappedPos(p) == p
mappedNeg(p) == zOpp(p)
mappedSign(z) ==
    CASE z = Panic -> 2 [] z = 0 -> 0 [] z \in 1 .. maxInt -> 1 [] z < 0 -> -1
mappedMag(z) == IF z < 0 THEN zOpp(z) ELSE z

GD == INSTANCE Derived WITH
          S <- natSucc, XI <- posXI, XO <- posXO, XH <- 1,
          Shape <- mappedShape, Rest <- mappedRest, Zero <- 0,
          Pos <- mappedPos, Neg <- mappedNeg, Sign <- mappedSign,
          Mag <- mappedMag, Stop <- Panic, zCompare <- compare

(***************************************************************************)
(* conv.go: an integer as a number of package plain, and back.             *)
(***************************************************************************)
RECURSIVE posU(_), posOf(_)
posU(p) ==
    IF p = 1 THEN <<>>
    ELSE IF p % 2 = 0 THEN plainXO(posU(p \div 2)) ELSE plainXI(posU(p \div 2))

Encode(t, i) ==
    CASE t \in {"nat", "cmp"} -> i
      [] t = "pos" -> posU(i)
      [] t \in {"n", "z"} ->
             IF i = 0 THEN plainZero
             ELSE IF i > 0 THEN plainPos(posU(i)) ELSE plainNeg(posU(-i))

posOf(p) ==
    CASE plainShape(p) = "XI" -> 2 * posOf(plainRest(p)) + 1
      [] plainShape(p) = "XO" -> 2 * posOf(plainRest(p))
      [] plainShape(p) = "XH" -> 1

Canon(t, v) ==
    CASE t \in {"nat", "cmp"} -> v
      [] t = "pos" -> posOf(v)
      [] t \in {"n", "z"} -> plainSign(v) * posOf(plainMag(v))

(***************************************************************************)
(* The operations.                                                         *)
(***************************************************************************)
Values(t) ==
    CASE t \in {"nat", "n"} -> 0 .. maxInt
      [] t = "pos" -> 1 .. maxInt
      [] t = "z" -> int64

Unary == {"nat_div2", "nat_pred", "pos_succ", "pos_pred", "n_succ", "n_pred",
          "z_succ", "z_pred", "z_opp", "z_abs", "z_abs_n", "z_of_n",
          "nat_sqrt", "nat_log2", "z_of_nat", "z_div2"}
Exponential == {"n_pow", "z_pow", "z_shiftl"}
Tests == {"nat_eqb", "nat_leb", "nat_ltb", "nat_compare", "pos_compare",
          "pos_compare_cont", "n_compare", "z_compare", "z_eqb"}

Mapped(t) ==
    CASE t = "nat" -> {"nat_add", "nat_sub", "nat_mul", "nat_eqb", "nat_leb",
                       "nat_ltb", "nat_compare", "nat_min", "nat_max",
                       "nat_div2", "nat_pred"}
      [] t = "pos" -> {"pos_add", "pos_sub", "pos_mul", "pos_compare",
                       "pos_compare_cont", "pos_min", "pos_max", "pos_succ",
                       "pos_pred"}
      [] t = "n" -> {"n_add", "n_sub", "n_mul", "n_div", "n_modulo",
                     "n_compare", "n_min", "n_max", "n_succ", "n_pred",
                     "z_of_n"}
      [] t = "z" -> {"z_add", "z_sub", "z_mul", "z_compare", "z_min", "z_max",
                     "z_succ", "z_pred", "z_opp", "z_abs", "z_abs_n"}
      [] t = "cmp" -> {}

Generated(t) ==
    CASE t = "nat" -> {"nat_div", "nat_modulo", "nat_pow", "nat_sqrt",
                       "nat_log2", "z_of_nat"}
      [] t = "pos" -> {}
      [] t = "n" -> {"n_pow", "n_land", "n_ldiff", "n_lor", "n_lxor"}
      [] t = "z" -> {"z_land", "z_lor", "z_lxor", "z_div", "z_modulo",
                     "z_quot", "z_rem", "z_eqb", "z_div2", "z_pow", "z_shiftl"}
      [] t = "cmp" -> {}

ResultType(o) ==
    CASE o \in Tests -> "cmp"
      [] o \in {"z_of_n", "z_of_nat"} -> "z"
      [] o = "z_abs_n" -> "n"
      [] OTHER -> type

Operands(o) ==
    CASE o \in Unary -> {1}
      [] o = "nat_pow" -> 0 .. MaxUnaryExponent
      [] o \in Exponential -> Values(type) \cap (-MaxExponent .. MaxExponent)
      [] OTHER -> Values(type)

(***************************************************************************)
(* What the operations mean on the integers.                               *)
(***************************************************************************)
Cmp(x, y) == IF x = y THEN 0 ELSE IF x < y THEN -1 ELSE 1
Most(x, y) == IF x > y THEN x ELSE y
Least(x, y) == IF x < y THEN x ELSE y
Abs(x) == IF x < 0 THEN -x ELSE x
Signum(x) == Cmp(x, 0)

\* Bits of two's complement, enough of them for both operands.
BitOf(x, i) == (x \div (2 ^ i)) % 2
Bitwise(x, y, c) ==
    CHOOSE z \in int64 :
        \A i \in 0 .. Width - 1 : BitOf(z, i) = c[BitOf(x, i) + 2 * BitOf(y, i)]
And == [k \in 0 .. 3 |-> IF k = 3 THEN 1 ELSE 0]
AndNot == [k \in 0 .. 3 |-> IF k = 1 THEN 1 ELSE 0]
Or == [k \in 0 .. 3 |-> IF k > 0 THEN 1 ELSE 0]
Xor == [k \in 0 .. 3 |-> IF k \in {1, 2} THEN 1 ELSE 0]

\* The quotient rounded down, also by a negative.
Floor(x, y) == IF y > 0 THEN x \div y ELSE (-x) \div (-y)
Truncated(x, y) == Signum(x) * Signum(y) * (Abs(x) \div Abs(y))

Meaning(o, x, y) ==
    CASE o \in {"nat_add", "pos_add", "n_add", "z_add"} -> x + y
      [] o \in {"nat_sub", "n_sub"} -> Most(x - y, 0)
      [] o = "pos_sub" -> Most(x - y, 1)
      [] o = "z_sub" -> x - y
      [] o \in {"nat_mul", "pos_mul", "n_mul", "z_mul"} -> x * y
      [] o \in {"nat_min", "pos_min", "n_min", "z_min"} -> Least(x, y)
      [] o \in {"nat_max", "pos_max", "n_max", "z_max"} -> Most(x, y)
      [] o \in {"nat_compare", "pos_compare", "n_compare", "z_compare"} -> Cmp(x, y)
      [] o = "pos_compare_cont" -> IF x = y THEN 1 ELSE Cmp(x, y)
      [] o \in {"nat_eqb", "z_eqb"} -> Flag(x = y)
      [] o = "nat_leb" -> Flag(x <= y)
      [] o = "nat_ltb" -> Flag(x < y)
      [] o \in {"nat_div2", "z_div2"} -> x \div 2
      [] o \in {"nat_pred", "n_pred"} -> Most(x - 1, 0)
      [] o = "pos_pred" -> Most(x - 1, 1)
      [] o \in {"pos_succ", "n_succ", "z_succ"} -> x + 1
      [] o = "z_pred" -> x - 1
      [] o = "z_opp" -> -x
      [] o \in {"z_abs", "z_abs_n"} -> Abs(x)
      [] o \in {"z_of_n", "z_of_nat"} -> x
      [] o \in {"nat_div", "n_div", "z_div"} -> IF y = 0 THEN 0 ELSE Floor(x, y)
      [] o = "nat_modulo" \/ o = "n_modulo" \/ o = "z_modulo" ->
             IF y = 0 THEN x ELSE x - y * Floor(x, y)
      [] o = "z_quot" -> IF y = 0 THEN 0 ELSE Truncated(x, y)
      [] o = "z_rem" -> IF y = 0 THEN x ELSE x - y * Truncated(x, y)
      [] o \in {"nat_pow", "n_pow", "z_pow"} ->
             IF y = 0 THEN 1 ELSE IF y < 0 THEN 0 ELSE x ^ y
      [] o = "z_shiftl" -> IF y < 0 THEN x \div (2 ^ (-y)) ELSE x * 2 ^ y
      [] o = "nat_sqrt" -> CHOOSE r \in 0 .. x : r * r <= x /\ x < (r + 1) * (r + 1)
      [] o = "nat_log2" ->
             IF x = 0 THEN 0 ELSE CHOOSE r \in 0 .. x : 2 ^ r <= x /\ x < 2 ^ (r + 1)
      [] o \in {"n_land", "z_land"} -> Bitwise(x, y, And)
      [] o = "n_ldiff" -> Bitwise(x, y, AndNot)
      [] o \in {"n_lor", "z_lor"} -> Bitwise(x, y, Or)
      [] o \in {"n_lxor", "z_lxor"} -> Bitwise(x, y, Xor)

(***************************************************************************)
(* The program.                                                            *)
(***************************************************************************)
CalcInit ==
    \E t \in {"nat", "pos", "n", "z"} : \E i \in Values(t) :
        /\ type = t
        /\ rocq = Encode(t, i)
        /\ go = i
        /\ exact = i
        /\ last = <<>>

Apply(o, y, r, g) ==
    /\ go # Panic
    /\ type' = ResultType(o)
    /\ rocq' = r
    /\ go' = g
    /\ exact' = Meaning(o, exact, y)
    /\ last' = IF g = Panic THEN <<o, go, y>> ELSE <<>>

CallMapped(o, y) ==
    Apply(o, y, RN!reference(type, o, rocq, Encode(type, y)),
          prim(type, o, go, y))

CallGenerated(o, y) ==
    Apply(o, y, RD!derived(o, rocq, Encode(type, y)), GD!derived(o, go, y))

CalcNext ==
    \/ \E o \in Mapped(type) : \E y \in Operands(o) : CallMapped(o, y)
    \/ \E o \in Generated(type) : \E y \in Operands(o) : CallGenerated(o, y)

CalcSpec == CalcInit /\ [][CalcNext]_calcVars

(***************************************************************************)
(* Properties                                                              *)
(***************************************************************************)
Fits(x) == x \in int64

\* The Rocq definitions the Go is generated from mean the integer operations,
\* with Rocq's conventions: division by 0 gives 0, modulo 0 the dividend,
\* subtraction stops at the least number of its type.
RocqIsExact == Canon(type, rocq) = exact

\* A program that has not stopped has the exact value, whatever operations it
\* ran: no result ever wrapped (prims.go: "checked" arithmetic).
ExactOrStopped == go # Panic => go = exact

\* A mapped operation stops only when its exact result leaves int64, which is
\* the only difference from Rocq that README.md allows.  A generated operation
\* may also stop at the least integer, which it cannot match as a negative
\* (matching computes its opposite) nor build from a positive.
StopsOnlyOutside ==
    go = Panic =>
        \/ ~Fits(exact)
        \/ /\ last[1] \in Generated("z")
           /\ minInt \in {last[2], last[3], exact}
=============================================================================
