------------------------------- MODULE Numbers -------------------------------
(***************************************************************************)
(* The Rocq definitions on numbers that gogen turns into Go, over the      *)
(* constructors of the numbers: a natural is 0 or a successor, a positive  *)
(* is 1 or a digit in front of a positive (xI p is 2p + 1, xO p is 2p), N  *)
(* is 0 or a positive, Z is 0 or a positive with a sign.                   *)
(* They are extracted twice (PrimRef.v): to the constructors themselves,   *)
(* and to machine integers, where building may stop the run.  The module   *)
(* is instantiated for each.  Stop is a stopped run.                       *)
(***************************************************************************)
EXTENDS Integers

CONSTANTS S(_),                 \* the successor of a natural
          XI(_), XO(_), XH,     \* positives
          Shape(_), Rest(_),    \* the first digit, "XI", "XO" or "XH", the others
          Zero, Pos(_), Neg(_), \* N and Z
          Sign(_), Mag(_),      \* 0, 1 or -1, and the positive
          Stop

Lt == -1
Eq == 0
Gt == 1

(***************************************************************************)
(* nat                                                                     *)
(***************************************************************************)
RECURSIVE nat_add(_, _), nat_mul(_, _), nat_sub(_, _), nat_compare(_, _)
RECURSIVE nat_max(_, _), nat_min(_, _), nat_div2(_)
nat_add(n, m) == IF n = 0 THEN m ELSE S(nat_add(n - 1, m))
nat_mul(n, m) == IF n = 0 THEN 0 ELSE nat_add(m, nat_mul(n - 1, m))
nat_sub(n, m) == IF n = 0 \/ m = 0 THEN n ELSE nat_sub(n - 1, m - 1)
nat_compare(n, m) ==
    IF n = 0 THEN IF m = 0 THEN Eq ELSE Lt
    ELSE IF m = 0 THEN Gt ELSE nat_compare(n - 1, m - 1)
nat_max(n, m) ==
    IF n = 0 THEN m ELSE IF m = 0 THEN n ELSE S(nat_max(n - 1, m - 1))
nat_min(n, m) ==
    IF n = 0 \/ m = 0 THEN 0 ELSE S(nat_min(n - 1, m - 1))
nat_div2(n) == IF n < 2 THEN 0 ELSE S(nat_div2(n - 2))
nat_pred(n) == IF n = 0 THEN n ELSE n - 1

RECURSIVE nat_eqb(_, _), nat_leb(_, _)
nat_eqb(n, m) ==
    IF n = 0 \/ m = 0 THEN n = m ELSE nat_eqb(n - 1, m - 1)
nat_leb(n, m) == n = 0 \/ (m # 0 /\ nat_leb(n - 1, m - 1))
nat_lt_dec(n, m) == nat_leb(S(n), m)

(***************************************************************************)
(* positive                                                                *)
(***************************************************************************)
RECURSIVE pos_succ(_), pred_double(_), compare_cont(_, _, _)
RECURSIVE pos_add(_, _), add_carry(_, _), pos_mul(_, _)

pos_succ(p) ==
    CASE Shape(p) = "XI" -> XO(pos_succ(Rest(p)))
      [] Shape(p) = "XO" -> XI(Rest(p))
      [] Shape(p) = "XH" -> XO(XH)
      [] OTHER -> Stop

pos_add(x, y) ==
    LET s == {Shape(x), Shape(y)} IN
    CASE s = {"XI"} -> XO(add_carry(Rest(x), Rest(y)))
      [] s = {"XI", "XO"} -> XI(pos_add(Rest(x), Rest(y)))
      [] s = {"XO"} -> XO(pos_add(Rest(x), Rest(y)))
      [] s = {"XH"} -> XO(XH)
      [] Shape(x) = "XI" /\ Shape(y) = "XH" -> XO(pos_succ(Rest(x)))
      [] Shape(x) = "XO" /\ Shape(y) = "XH" -> XI(Rest(x))
      [] Shape(x) = "XH" /\ Shape(y) = "XI" -> XO(pos_succ(Rest(y)))
      [] Shape(x) = "XH" /\ Shape(y) = "XO" -> XI(Rest(y))
      [] OTHER -> Stop

\* x + y + 1
add_carry(x, y) ==
    LET s == {Shape(x), Shape(y)} IN
    CASE s = {"XI"} -> XI(add_carry(Rest(x), Rest(y)))
      [] s = {"XI", "XO"} -> XO(add_carry(Rest(x), Rest(y)))
      [] s = {"XO"} -> XI(pos_add(Rest(x), Rest(y)))
      [] s = {"XH"} -> XI(XH)
      [] Shape(x) = "XI" /\ Shape(y) = "XH" -> XI(pos_succ(Rest(x)))
      [] Shape(x) = "XO" /\ Shape(y) = "XH" -> XO(pos_succ(Rest(x)))
      [] Shape(x) = "XH" /\ Shape(y) = "XI" -> XI(pos_succ(Rest(y)))
      [] Shape(x) = "XH" /\ Shape(y) = "XO" -> XO(pos_succ(Rest(y)))
      [] OTHER -> Stop

\* 2p - 1
pred_double(p) ==
    CASE Shape(p) = "XI" -> XI(XO(Rest(p)))
      [] Shape(p) = "XO" -> XI(pred_double(Rest(p)))
      [] Shape(p) = "XH" -> XH
      [] OTHER -> Stop

pos_pred(p) ==
    CASE Shape(p) = "XI" -> XO(Rest(p))
      [] Shape(p) = "XO" -> pred_double(Rest(p))
      [] Shape(p) = "XH" -> XH
      [] OTHER -> Stop

pos_mul(x, y) ==
    CASE Shape(x) = "XI" -> pos_add(y, XO(pos_mul(Rest(x), y)))
      [] Shape(x) = "XO" -> XO(pos_mul(Rest(x), y))
      [] Shape(x) = "XH" -> y
      [] OTHER -> Stop

\* r if x and y are equal so far; the most significant difference decides.
compare_cont(r, x, y) ==
    CASE Shape(x) = "XH" -> IF Shape(y) = "XH" THEN r ELSE Lt
      [] Shape(x) # "XH" /\ Shape(y) = "XH" -> Gt
      [] OTHER ->
             compare_cont(CASE Shape(x) = Shape(y) -> r
                            [] Shape(x) = "XI" /\ Shape(y) = "XO" -> Gt
                            [] Shape(x) = "XO" /\ Shape(y) = "XI" -> Lt,
                          Rest(x), Rest(y))

pos_compare(x, y) == compare_cont(Eq, x, y)
pos_max(x, y) == IF pos_compare(x, y) = Gt THEN x ELSE y
pos_min(x, y) == IF pos_compare(x, y) = Gt THEN y ELSE x

(***************************************************************************)
(* A difference of positives as a mask: nothing, a positive, or negative.  *)
(***************************************************************************)
IsNul == <<"nul", XH>>
IsNeg == <<"neg", XH>>
IsPos(p) == <<"pos", p>>

succ_double_mask(k) ==
    CASE k[1] = "nul" -> IsPos(XH)
      [] k[1] = "pos" -> IsPos(XI(k[2]))
      [] k[1] = "neg" -> IsNeg

double_mask(k) == IF k[1] = "pos" THEN IsPos(XO(k[2])) ELSE k

\* 2(x - 1)
double_pred_mask(x) ==
    CASE Shape(x) = "XI" -> IsPos(XO(XO(Rest(x))))
      [] Shape(x) = "XO" -> IsPos(XO(pred_double(Rest(x))))
      [] Shape(x) = "XH" -> IsNul

RECURSIVE sub_mask(_, _), sub_mask_carry(_, _)
sub_mask(x, y) ==
    CASE Shape(x) = "XH" -> IF Shape(y) = "XH" THEN IsNul ELSE IsNeg
      [] Shape(x) = "XI" /\ Shape(y) = "XH" -> IsPos(XO(Rest(x)))
      [] Shape(x) = "XO" /\ Shape(y) = "XH" -> IsPos(pred_double(Rest(x)))
      [] Shape(x) = Shape(y) /\ Shape(x) # "XH" ->
             double_mask(sub_mask(Rest(x), Rest(y)))
      [] Shape(x) = "XI" /\ Shape(y) = "XO" ->
             succ_double_mask(sub_mask(Rest(x), Rest(y)))
      [] Shape(x) = "XO" /\ Shape(y) = "XI" ->
             succ_double_mask(sub_mask_carry(Rest(x), Rest(y)))

\* x - y - 1
sub_mask_carry(x, y) ==
    CASE Shape(x) = "XH" -> IsNeg
      [] Shape(x) = "XI" /\ Shape(y) = "XH" -> IsPos(pred_double(Rest(x)))
      [] Shape(x) = "XO" /\ Shape(y) = "XH" -> double_pred_mask(Rest(x))
      [] Shape(x) = Shape(y) /\ Shape(x) # "XH" ->
             succ_double_mask(sub_mask_carry(Rest(x), Rest(y)))
      [] Shape(x) = "XI" /\ Shape(y) = "XO" ->
             double_mask(sub_mask(Rest(x), Rest(y)))
      [] Shape(x) = "XO" /\ Shape(y) = "XI" ->
             double_mask(sub_mask_carry(Rest(x), Rest(y)))

pos_sub(x, y) == LET k == sub_mask(x, y) IN IF k[1] = "pos" THEN k[2] ELSE XH

(***************************************************************************)
(* N                                                                       *)
(***************************************************************************)
n_succ(n) == IF Sign(n) = 0 THEN Pos(XH) ELSE Pos(pos_succ(Mag(n)))

pred_N(p) ==
    CASE Shape(p) = "XI" -> Pos(XO(Rest(p)))
      [] Shape(p) = "XO" -> Pos(pred_double(Rest(p)))
      [] Shape(p) = "XH" -> Zero
      [] OTHER -> Stop

n_pred(n) == IF Sign(n) = 0 THEN Zero ELSE pred_N(Mag(n))

n_add(n, m) ==
    IF Sign(n) = 0 THEN m ELSE IF Sign(m) = 0 THEN n
    ELSE Pos(pos_add(Mag(n), Mag(m)))

n_sub(n, m) ==
    IF Sign(n) = 0 \/ Sign(m) = 0 THEN n
    ELSE LET k == sub_mask(Mag(n), Mag(m)) IN
         IF k[1] = "pos" THEN Pos(k[2]) ELSE Zero

n_mul(n, m) ==
    IF Sign(n) = 0 \/ Sign(m) = 0 THEN Zero ELSE Pos(pos_mul(Mag(n), Mag(m)))

n_compare(n, m) ==
    CASE Sign(n) = 0 /\ Sign(m) = 0 -> Eq
      [] Sign(n) = 0 /\ Sign(m) = 1 -> Lt
      [] Sign(n) = 1 /\ Sign(m) = 0 -> Gt
      [] Sign(n) = 1 /\ Sign(m) = 1 -> pos_compare(Mag(n), Mag(m))

n_max(n, m) == IF n_compare(n, m) = Gt THEN n ELSE m
n_min(n, m) == IF n_compare(n, m) = Gt THEN m ELSE n

n_double(n) == IF Sign(n) = 0 THEN Zero ELSE Pos(XO(Mag(n)))
n_succ_double(n) == IF Sign(n) = 0 THEN Pos(XH) ELSE Pos(XI(Mag(n)))

n_leb(n, m) == n_compare(n, m) # Gt

Quotient(q, r) == IF Stop \in {q, r} THEN <<Stop, Stop>> ELSE <<q, r>>

\* Binary long division, most significant digit first.
RECURSIVE pos_div_eucl(_, _)
pos_div_eucl(a, b) ==
    CASE Shape(a) = "XH" ->
             IF b = Pos(XH) THEN <<Pos(XH), Zero>> ELSE <<Zero, Pos(XH)>>
      [] Shape(a) \in {"XI", "XO"} ->
             LET d == pos_div_eucl(Rest(a), b)
                 r == IF Shape(a) = "XI" THEN n_succ_double(d[2])
                      ELSE n_double(d[2])
             IN  CASE Stop \in {d[1], r} -> <<Stop, Stop>>
                   [] Stop \notin {d[1], r} /\ n_leb(b, r) ->
                          Quotient(n_succ_double(d[1]), n_sub(r, b))
                   [] OTHER -> Quotient(n_double(d[1]), r)
      [] OTHER -> <<Stop, Stop>>

n_div_eucl(a, b) ==
    CASE Sign(a) = 0 -> <<Zero, Zero>>
      [] Sign(a) # 0 /\ Sign(b) = 0 -> <<Zero, a>>
      [] OTHER -> pos_div_eucl(Mag(a), b)

n_div(a, b) == n_div_eucl(a, b)[1]
n_modulo(a, b) == n_div_eucl(a, b)[2]

(***************************************************************************)
(* Z                                                                       *)
(***************************************************************************)
z_opp(z) ==
    CASE Sign(z) = 0 -> Zero
      [] Sign(z) = 1 -> Neg(Mag(z))
      [] Sign(z) = -1 -> Pos(Mag(z))
      [] OTHER -> Stop

z_abs(z) == IF Sign(z) = -1 THEN Pos(Mag(z)) ELSE z
z_of_n(n) == IF Sign(n) = 0 THEN Zero ELSE Pos(Mag(n))
z_abs_n(z) == IF Sign(z) = 0 THEN Zero ELSE Pos(Mag(z))

z_double(z) ==
    CASE Sign(z) = 0 -> Zero
      [] Sign(z) = 1 -> Pos(XO(Mag(z)))
      [] Sign(z) = -1 -> Neg(XO(Mag(z)))
      [] OTHER -> Stop

z_succ_double(z) ==
    CASE Sign(z) = 0 -> Pos(XH)
      [] Sign(z) = 1 -> Pos(XI(Mag(z)))
      [] Sign(z) = -1 -> Neg(pred_double(Mag(z)))
      [] OTHER -> Stop

z_pred_double(z) ==
    CASE Sign(z) = 0 -> Neg(XH)
      [] Sign(z) = 1 -> Pos(pred_double(Mag(z)))
      [] Sign(z) = -1 -> Neg(XI(Mag(z)))
      [] OTHER -> Stop

\* x - y, signed
RECURSIVE z_pos_sub(_, _)
z_pos_sub(x, y) ==
    CASE Shape(x) = Shape(y) ->
             IF Shape(x) = "XH" THEN Zero
             ELSE z_double(z_pos_sub(Rest(x), Rest(y)))
      [] Shape(x) = "XI" /\ Shape(y) = "XO" ->
             z_succ_double(z_pos_sub(Rest(x), Rest(y)))
      [] Shape(x) = "XO" /\ Shape(y) = "XI" ->
             z_pred_double(z_pos_sub(Rest(x), Rest(y)))
      [] Shape(x) = "XI" /\ Shape(y) = "XH" -> Pos(XO(Rest(x)))
      [] Shape(x) = "XO" /\ Shape(y) = "XH" -> Pos(pred_double(Rest(x)))
      [] Shape(x) = "XH" /\ Shape(y) = "XI" -> Neg(XO(Rest(y)))
      [] Shape(x) = "XH" /\ Shape(y) = "XO" -> Neg(pred_double(Rest(y)))

z_add(x, y) ==
    CASE Sign(x) = 0 -> y
      [] Sign(x) # 0 /\ Sign(y) = 0 -> x
      [] Sign(x) = 1 /\ Sign(y) = 1 -> Pos(pos_add(Mag(x), Mag(y)))
      [] Sign(x) = 1 /\ Sign(y) = -1 -> z_pos_sub(Mag(x), Mag(y))
      [] Sign(x) = -1 /\ Sign(y) = 1 -> z_pos_sub(Mag(y), Mag(x))
      [] Sign(x) = -1 /\ Sign(y) = -1 -> Neg(pos_add(Mag(x), Mag(y)))
      [] OTHER -> Stop

z_succ(x) == z_add(x, Pos(XH))
z_pred(x) == z_add(x, Neg(XH))
z_sub(x, y) == z_add(x, z_opp(y))

z_mul(x, y) ==
    IF Sign(x) = 0 \/ Sign(y) = 0 THEN Zero
    ELSE IF Sign(x) = Sign(y) THEN Pos(pos_mul(Mag(x), Mag(y)))
    ELSE Neg(pos_mul(Mag(x), Mag(y)))

z_compare(x, y) ==
    CASE Sign(x) = 1 /\ Sign(y) = 1 -> pos_compare(Mag(x), Mag(y))
      [] Sign(x) = -1 /\ Sign(y) = -1 -> -pos_compare(Mag(x), Mag(y))
      [] Sign(x) = Sign(y) -> Eq
      [] Sign(x) < Sign(y) -> Lt
      [] Sign(x) > Sign(y) -> Gt

z_max(x, y) == IF z_compare(x, y) = Lt THEN y ELSE x
z_min(x, y) == IF z_compare(x, y) = Gt THEN y ELSE x

(***************************************************************************)
(* PrimRef.v's references, by the type of the first operand.  A comparison *)
(* is -1, 0 or 1, a boolean 0 or 1.                                        *)
(***************************************************************************)
Bit(c) == IF c THEN 1 ELSE 0

refNat(o, x, y) ==
    CASE o = "nat_add" -> nat_add(x, y)
      [] o = "nat_sub" -> nat_sub(x, y)
      [] o = "nat_mul" -> nat_mul(x, y)
      [] o = "nat_eqb" -> Bit(nat_eqb(x, y))
      [] o = "nat_leb" -> Bit(nat_leb(x, y))
      [] o = "nat_ltb" -> Bit(nat_lt_dec(x, y))
      [] o = "nat_compare" -> nat_compare(x, y)
      [] o = "nat_min" -> nat_min(x, y)
      [] o = "nat_max" -> nat_max(x, y)
      [] o = "nat_div2" -> nat_div2(x)
      [] o = "nat_pred" -> nat_pred(x)

refPos(o, x, y) ==
    CASE o = "pos_add" -> pos_add(x, y)
      [] o = "pos_sub" -> pos_sub(x, y)
      [] o = "pos_mul" -> pos_mul(x, y)
      [] o = "pos_compare" -> pos_compare(x, y)
      [] o = "pos_compare_cont" -> compare_cont(Gt, x, y)
      [] o = "pos_min" -> pos_min(x, y)
      [] o = "pos_max" -> pos_max(x, y)
      [] o = "pos_succ" -> pos_succ(x)
      [] o = "pos_pred" -> pos_pred(x)

refN(o, x, y) ==
    CASE o = "n_add" -> n_add(x, y)
      [] o = "n_sub" -> n_sub(x, y)
      [] o = "n_mul" -> n_mul(x, y)
      [] o = "n_div" -> n_div(x, y)
      [] o = "n_modulo" -> n_modulo(x, y)
      [] o = "n_compare" -> n_compare(x, y)
      [] o = "n_min" -> n_min(x, y)
      [] o = "n_max" -> n_max(x, y)
      [] o = "n_succ" -> n_succ(x)
      [] o = "n_pred" -> n_pred(x)
      [] o = "z_of_n" -> z_of_n(x)

refZ(o, x, y) ==
    CASE o = "z_add" -> z_add(x, y)
      [] o = "z_sub" -> z_sub(x, y)
      [] o = "z_mul" -> z_mul(x, y)
      [] o = "z_compare" -> z_compare(x, y)
      [] o = "z_min" -> z_min(x, y)
      [] o = "z_max" -> z_max(x, y)
      [] o = "z_succ" -> z_succ(x)
      [] o = "z_pred" -> z_pred(x)
      [] o = "z_opp" -> z_opp(x)
      [] o = "z_abs" -> z_abs(x)
      [] o = "z_abs_n" -> z_abs_n(x)

reference(type, o, x, y) ==
    CASE type = "nat" -> refNat(o, x, y)
      [] type = "pos" -> refPos(o, x, y)
      [] type = "n" -> refN(o, x, y)
      [] type = "z" -> refZ(o, x, y)
=============================================================================
