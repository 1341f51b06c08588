------------------------------ MODULE Derived -------------------------------
(***************************************************************************)
(* The operations ExtrGo.v does not map: gogen compiles their Rocq         *)
(* definitions (semantics/semantics_gen.go), which build and match numbers *)
(* with the constructors and call the mapped operations.                   *)
(***************************************************************************)
EXTENDS Numbers

CONSTANTS zAdd(_, _), zSub(_, _), zMul(_, _), zOpp(_), zCompare(_, _)

(***************************************************************************)
(* nat                                                                     *)
(***************************************************************************)
\* x / (y + 1) by counting down; u counts what is left of the divisor.
RECURSIVE divmod(_, _, _, _)
divmod(x, y, q, u) ==
    IF x = 0 THEN <<q, u>>
    ELSE IF u = 0 THEN divmod(x - 1, y, S(q), y)
    ELSE divmod(x - 1, y, q, u - 1)

nat_div(x, y) == IF y = 0 THEN y ELSE divmod(x, y - 1, 0, y - 1)[1]
nat_modulo(x, y) ==
    IF y = 0 THEN x ELSE nat_sub(y - 1, divmod(x, y - 1, 0, y - 1)[2])

RECURSIVE nat_pow(_, _)
nat_pow(n, m) == IF m = 0 THEN 1 ELSE nat_mul(n, nat_pow(n, m - 1))

RECURSIVE sqrt_iter(_, _, _, _), log2_iter(_, _, _, _)
sqrt_iter(k, p, q, r) ==
    IF k = 0 THEN p
    ELSE IF r = 0 THEN sqrt_iter(k - 1, S(p), S(S(q)), S(S(q)))
    ELSE sqrt_iter(k - 1, p, q, r - 1)
log2_iter(k, p, q, r) ==
    IF k = 0 THEN p
    ELSE IF r = 0 THEN log2_iter(k - 1, S(p), S(q), q)
    ELSE log2_iter(k - 1, p, S(q), r - 1)

nat_sqrt(n) == sqrt_iter(n, 0, 0, 0)
nat_log2(n) == log2_iter(nat_pred(n), 0, 1, 0)

RECURSIVE of_succ_nat(_)
of_succ_nat(n) == IF n = 0 THEN XH ELSE pos_succ(of_succ_nat(n - 1))
z_of_nat(n) == IF n = 0 THEN Zero ELSE Pos(of_succ_nat(n - 1))

(***************************************************************************)
(* Bits of positives: a digit at a time, least significant first.          *)
(***************************************************************************)
Low(p) == Shape(p) # "XO"
Single(p, q) == "XH" \in {Shape(p), Shape(q)}

RECURSIVE pos_land(_, _), pos_ldiff(_, _), pos_lor(_, _), pos_lxor(_, _)

pos_land(p, q) ==
    CASE Single(p, q) -> IF Low(p) /\ Low(q) THEN Pos(XH) ELSE Zero
      [] ~Single(p, q) /\ Low(p) /\ Low(q) ->
             n_succ_double(pos_land(Rest(p), Rest(q)))
      [] OTHER -> n_double(pos_land(Rest(p), Rest(q)))

pos_ldiff(p, q) ==
    CASE Shape(p) = "XH" -> IF Low(q) THEN Zero ELSE Pos(XH)
      [] Shape(p) # "XH" /\ Shape(q) = "XH" ->
             IF Low(p) THEN Pos(XO(Rest(p))) ELSE Pos(p)
      [] ~Single(p, q) /\ Low(p) /\ ~Low(q) ->
             n_succ_double(pos_ldiff(Rest(p), Rest(q)))
      [] OTHER -> n_double(pos_ldiff(Rest(p), Rest(q)))

pos_lor(p, q) ==
    CASE Shape(q) = "XH" -> IF Low(p) THEN p ELSE XI(Rest(p))
      [] Shape(q) # "XH" /\ Shape(p) = "XH" ->
             IF Low(q) THEN q ELSE XI(Rest(q))
      [] ~Single(p, q) /\ (Low(p) \/ Low(q)) -> XI(pos_lor(Rest(p), Rest(q)))
      [] OTHER -> XO(pos_lor(Rest(p), Rest(q)))

\* One digit against a longer number: the number with its low digit changed.
Flip(p) ==
    CASE Shape(p) = "XI" -> Pos(XO(Rest(p)))
      [] Shape(p) = "XO" -> Pos(XI(Rest(p)))
      [] Shape(p) = "XH" -> Zero

pos_lxor(p, q) ==
    CASE Shape(q) = "XH" -> Flip(p)
      [] Shape(q) # "XH" /\ Shape(p) = "XH" -> Flip(q)
      [] ~Single(p, q) /\ Low(p) # Low(q) ->
             n_succ_double(pos_lxor(Rest(p), Rest(q)))
      [] OTHER -> n_double(pos_lxor(Rest(p), Rest(q)))

(***************************************************************************)
(* Bits of N, and of Z in two's complement: -p has the bits that p - 1     *)
(* lacks.  A stopped operand stops the operation.                          *)
(***************************************************************************)
n_land(n, m) ==
    CASE Stop \in {n, m} -> Stop
      [] Sign(n) = 0 \/ Sign(m) = 0 -> Zero
      [] OTHER -> pos_land(Mag(n), Mag(m))
n_ldiff(n, m) ==
    CASE Stop \in {n, m} -> Stop
      [] Sign(n) = 0 \/ Sign(m) = 0 -> n
      [] OTHER -> pos_ldiff(Mag(n), Mag(m))
n_lor(n, m) ==
    CASE Stop \in {n, m} -> Stop
      [] Sign(n) = 0 -> m
      [] Sign(m) = 0 -> n
      [] OTHER -> Pos(pos_lor(Mag(n), Mag(m)))
n_lxor(n, m) ==
    CASE Stop \in {n, m} -> Stop
      [] Sign(n) = 0 -> m
      [] Sign(m) = 0 -> n
      [] OTHER -> pos_lxor(Mag(n), Mag(m))

RECURSIVE pos_eqb(_, _)
pos_eqb(p, q) ==
    IF Single(p, q) THEN Shape(p) = Shape(q)
    ELSE Shape(p) = Shape(q) /\ pos_eqb(Rest(p), Rest(q))

succ_pos(n) == IF Sign(n) = 0 THEN XH ELSE pos_succ(Mag(n))
Complement(z) == pred_N(Mag(z))
Complemented(n) == Neg(succ_pos(n))

\* A match on Z computes the positive, whether or not the branch uses it.
Stops(a, b) == Stop \in {Mag(a), Mag(b)}

z_land(a, b) ==
    CASE Sign(a) = 0 -> Zero
      [] Sign(a) # 0 /\ Stops(a, b) -> Stop
      [] Sign(a) # 0 /\ Sign(b) = 0 /\ ~Stops(a, b) -> Zero
      [] Sign(a) = 1 /\ Sign(b) = 1 -> n_land(a, b)
      [] Sign(a) = 1 /\ Sign(b) = -1 -> n_ldiff(a, Complement(b))
      [] Sign(a) = -1 /\ Sign(b) = 1 -> n_ldiff(b, Complement(a))
      [] Sign(a) = -1 /\ Sign(b) = -1 ->
             Complemented(n_lor(Complement(a), Complement(b)))

z_lor(a, b) ==
    CASE Sign(a) = 0 -> b
      [] Sign(a) # 0 /\ Stops(a, b) -> Stop
      [] Sign(a) # 0 /\ Sign(b) = 0 /\ ~Stops(a, b) -> a
      [] Sign(a) = 1 /\ Sign(b) = 1 -> n_lor(a, b)
      [] Sign(a) = 1 /\ Sign(b) = -1 ->
             Complemented(n_ldiff(Complement(b), a))
      [] Sign(a) = -1 /\ Sign(b) = 1 ->
             Complemented(n_ldiff(Complement(a), b))
      [] Sign(a) = -1 /\ Sign(b) = -1 ->
             Complemented(n_land(Complement(a), Complement(b)))

z_lxor(a, b) ==
    CASE Sign(a) = 0 -> b
      [] Sign(a) # 0 /\ Stops(a, b) -> Stop
      [] Sign(a) # 0 /\ Sign(b) = 0 /\ ~Stops(a, b) -> a
      [] Sign(a) = 1 /\ Sign(b) = 1 -> n_lxor(a, b)
      [] Sign(a) = 1 /\ Sign(b) = -1 -> Complemented(n_lxor(a, Complement(b)))
      [] Sign(a) = -1 /\ Sign(b) = 1 -> Complemented(n_lxor(Complement(a), b))
      [] Sign(a) = -1 /\ Sign(b) = -1 -> n_lxor(Complement(a), Complement(b))

z_eqb(a, b) ==
    CASE Stops(a, b) -> Stop
      [] ~Stops(a, b) /\ Sign(a) = Sign(b) /\ Sign(a) # 0 ->
             Bit(pos_eqb(Mag(a), Mag(b)))
      [] OTHER -> Bit(Sign(a) = Sign(b))

(***************************************************************************)
(* Z's divisions.  div and modulo round down, quot and rem towards zero.   *)
(***************************************************************************)
One == Pos(XH)
Two == Pos(XO(XH))

RECURSIVE z_pos_div_eucl(_, _)
z_pos_div_eucl(a, b) ==
    CASE Shape(a) = "XH" ->
             IF zCompare(Two, b) # Gt THEN <<Zero, One>> ELSE <<One, Zero>>
      [] Shape(a) \in {"XI", "XO"} ->
             LET d == z_pos_div_eucl(Rest(a), b)
                 r == IF Shape(a) = "XI" THEN zAdd(zMul(Two, d[2]), One)
                      ELSE zMul(Two, d[2])
             IN  IF Stop # r /\ zCompare(r, b) = Lt
                 THEN Quotient(zMul(Two, d[1]), r)
                 ELSE Quotient(zAdd(zMul(Two, d[1]), One), zSub(r, b))
      [] OTHER -> <<Stop, Stop>>

\* (Mutation: rounds towards zero whatever the signs.)
RoundTowardsZero(d, r) == Quotient(zOpp(d[1]), d[2])

\* The quotient of operands of different signs; r is its remainder if not 0.
RoundDown(d, r) ==
    IF Sign(d[2]) = 0 THEN Quotient(zOpp(d[1]), Zero)
    ELSE Quotient(zOpp(zAdd(d[1], One)), r)

z_div_eucl(a, b) ==
    CASE Sign(a) = 0 -> <<Zero, Zero>>
      [] Sign(a) # 0 /\ Stops(a, b) -> <<Stop, Stop>>
      [] Sign(a) # 0 /\ Sign(b) = 0 /\ ~Stops(a, b) -> <<Zero, a>>
      [] Sign(a) = 1 /\ Sign(b) = 1 -> z_pos_div_eucl(Mag(a), b)
      [] Sign(a) = 1 /\ Sign(b) = -1 ->
             LET d == z_pos_div_eucl(Mag(a), Pos(Mag(b)))
             IN  RoundDown(d, zAdd(b, d[2]))
      [] Sign(a) = -1 /\ Sign(b) = 1 ->
             LET d == z_pos_div_eucl(Mag(a), b) IN RoundDown(d, zSub(b, d[2]))
      [] Sign(a) = -1 /\ Sign(b) = -1 ->
             LET d == z_pos_div_eucl(Mag(a), Pos(Mag(b)))
             IN  Quotient(d[1], zOpp(d[2]))

z_div(a, b) == z_div_eucl(a, b)[1]
z_modulo(a, b) == z_div_eucl(a, b)[2]

quotrem(a, b) ==
    CASE Sign(a) = 0 -> <<Zero, Zero>>
      [] Sign(a) # 0 /\ Stops(a, b) -> <<Stop, Stop>>
      [] Sign(a) # 0 /\ Sign(b) = 0 /\ ~Stops(a, b) -> <<Zero, a>>
      [] OTHER ->
             LET d == pos_div_eucl(Mag(a), Pos(Mag(b)))
             IN  Quotient(IF Sign(a) = Sign(b) THEN d[1] ELSE zOpp(d[1]),
                          IF Sign(a) = 1 THEN d[2] ELSE zOpp(d[2]))

z_quot(a, b) == quotrem(a, b)[1]
z_rem(a, b) == quotrem(a, b)[2]

pos_div2(p) == IF Shape(p) = "XH" THEN XH ELSE Rest(p)
pos_div2_up(p) ==
    CASE Shape(p) = "XI" -> pos_succ(Rest(p))
      [] Shape(p) = "XO" -> Rest(p)
      [] Shape(p) = "XH" -> XH
      [] OTHER -> Stop

z_div2(z) ==
    CASE Sign(z) = 0 -> Zero
      [] Sign(z) = 1 -> IF Shape(Mag(z)) = "XH" THEN Zero ELSE Pos(pos_div2(Mag(z)))
      [] Sign(z) = -1 -> Neg(pos_div2_up(Mag(z)))
      [] OTHER -> Stop

(***************************************************************************)
(* Iteration: a step done as often as a positive says.                     *)
(***************************************************************************)
step(kind, z, x) ==
    CASE kind = "times" -> zMul(z, x)
      [] kind = "double" -> zMul(Two, x)
      [] kind = "half" -> z_div2(x)

RECURSIVE iter(_, _, _, _)
iter(kind, z, x, n) ==
    CASE Shape(n) = "XI" ->
             step(kind, z, iter(kind, z, iter(kind, z, x, Rest(n)), Rest(n)))
      [] Shape(n) = "XO" -> iter(kind, z, iter(kind, z, x, Rest(n)), Rest(n))
      [] Shape(n) = "XH" -> step(kind, z, x)
      [] OTHER -> Stop

n_pow(n, p) ==
    CASE Sign(p) = 0 -> One
      [] Sign(p) # 0 /\ Sign(n) = 0 -> Zero
      [] OTHER -> iter("times", n, One, Mag(p))

z_pow(x, y) ==
    CASE Sign(y) = 0 -> One
      [] Sign(y) = 1 -> iter("times", x, One, Mag(y))
      [] Sign(y) = -1 -> IF Mag(y) = Stop THEN Stop ELSE Zero

z_shiftl(a, n) ==
    CASE Sign(n) = 0 -> a
      [] Sign(n) = 1 -> iter("double", a, a, Mag(n))
      [] Sign(n) = -1 -> iter("half", a, a, Mag(n))

(***************************************************************************)
(* The operations by name.                                                 *)
(***************************************************************************)
derived(o, x, y) ==
    CASE o = "nat_div" -> nat_div(x, y)
      [] o = "nat_modulo" -> nat_modulo(x, y)
      [] o = "nat_pow" -> nat_pow(x, y)
      [] o = "nat_sqrt" -> nat_sqrt(x)
      [] o = "nat_log2" -> nat_log2(x)
      [] o = "z_of_nat" -> z_of_nat(x)
      [] o = "n_pow" -> n_pow(x, y)
      [] o = "n_land" -> n_land(x, y)
      [] o = "n_ldiff" -> n_ldiff(x, y)
      [] o = "n_lor" -> n_lor(x, y)
      [] o = "n_lxor" -> n_lxor(x, y)
      [] o = "z_land" -> z_land(x, y)
      [] o = "z_lor" -> z_lor(x, y)
      [] o = "z_lxor" -> z_lxor(x, y)
      [] o = "z_div" -> z_div(x, y)
      [] o = "z_modulo" -> z_modulo(x, y)
      [] o = "z_quot" -> z_quot(x, y)
      [] o = "z_rem" -> z_rem(x, y)
      [] o = "z_eqb" -> z_eqb(x, y)
      [] o = "z_div2" -> z_div2(x)
      [] o = "z_pow" -> z_pow(x, y)
      [] o = "z_shiftl" -> z_shiftl(x, y)
=============================================================================
