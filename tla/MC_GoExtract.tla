---------------------------- MODULE MC_GoExtract ----------------------------
(***************************************************************************)
(* Programs in Go: those of Semantics.v and Fixture.v that are about the   *)
(* translation, with the inputs varied, the loops of one shape with every  *)
(* small body, and extractions gogen must refuse; and calculations on      *)
(* machine integers of a few bits.  A program runs or a calculation; the   *)
(* other is over from the start.                                           *)
(***************************************************************************)
EXTENDS GoMachine

CONSTANTS Width, MaxExponent, MaxUnaryExponent

VARIABLES type, rocq, go, exact, last

ASSUME WidthAssumption == Width \in Nat \ {0} /\ Half = 2 ^ (Width - 1)
ASSUME ExponentAssumption == {MaxExponent, MaxUnaryExponent} \subseteq Nat

Calc == INSTANCE PrimCheck

calcVars == <<type, rocq, go, exact, last>>
vars == <<goVars, calcVars>>

Fun(xs, t) == [args |-> xs, body |-> t, group |-> {}]
Fix(g, xs, t) == [args |-> xs, body |-> t, group |-> {g}]
Both(gs, xs, t) == [args |-> xs, body |-> t, group |-> gs]
Program(functions, inputs) == [functions |-> functions, inputs |-> inputs]
With(main, functions, inputs) == Program(("main" :> main) @@ functions, inputs)

x == Rel("x")
y == Rel("y")
z == Rel("z")
n == Rel("n")
k == Rel("k")
f == Rel("f")
a == Rel("a")
b == Rel("b")
l == Rel("l")
t == Rel("t")
acc == Rel("acc")

RECURSIVE Num(_), ListOf(_)
Num(i) == IF i = 0 THEN O ELSE Succ(Num(i - 1))
ListOf(s) == IF s = <<>> THEN Data("nil", <<>>)
             ELSE Data("cons", <<Number(Head(s)), ListOf(Tail(s))>>)

Plus(u, v) == Call("prim_nat_add", <<u, v>>)
Times(u, v) == Call("prim_nat_mul", <<u, v>>)
Leq(u, v) == Call("prim_nat_leb", <<u, v>>)
Nil == Construct("nil", <<>>)
Cons(u, v) == Construct("cons", <<u, v>>)
Pair(u, v) == Construct("pair", <<u, v>>)
IfThen(c, u, v) == Match(c, <<Case("true", <<>>, u), Case("false", <<>>, v)>>)
OnNat(u, zero, m, succ) ==
    Match(u, <<Case("nat_0", <<>>, zero), Case("nat_succ", <<m>>, succ)>>)
OnList(u, none, h, r, some) ==
    Match(u, <<Case("nil", <<>>, none), Case("cons", <<h, r>>, some)>>)

Numbers(m) == {Number(i) : i \in 0 .. m}
Lists == {ListOf(s) : s \in {<<>>, <<2>>, <<1, 3>>, <<3, 0, 2>>, <<0, 1, 2, 3>>}}
One(S) == {<<v>> : v \in S}
Two(S, T) == S \X T

(***************************************************************************)
(* Semantics.v                                                             *)
(***************************************************************************)
map == Fix("map", <<"f", "l">>,
    OnList(l, Nil, "x", "t", Cons(App(f, <<x>>), Call("map", <<f, t>>))))

mk == Fix("mk", <<"l", "acc">>,
    OnList(l, acc, "x", "t",
        Let("y", Times(x, Num(2)),
            Call("mk", <<t, Cons(Lambda(<<"z">>, Plus(Plus(z, x), y)), acc)>>))))
t_clos == With(
    Fun(<<"l">>, Call("map", <<Lambda(<<"f">>, App(f, <<Num(5)>>)), Call("mk", <<l, Nil>>)>>)),
    ("map" :> map) @@ ("mk" :> mk), One(Lists))

swapper == Fix("swapper", <<"n", "a", "b">>,
    OnNat(n, Pair(a, b), "k", Call("swapper", <<k, b, Plus(a, Num(1))>>)))
t_swap == With(Fun(<<"n", "a">>, Call("swapper", <<n, a, Num(7)>>)),
    ("swapper" :> swapper), Two(Numbers(3), Numbers(2)))

ev == Both({"ev", "od"}, <<"n">>,
    OnNat(n, Construct("true", <<>>), "k", Call("od", <<k>>)))
od == Both({"ev", "od"}, <<"n">>,
    OnNat(n, Construct("false", <<>>), "k", Call("ev", <<k>>)))
t_mut == With(Fun(<<"n">>, Call("ev", <<n>>)), ("ev" :> ev) @@ ("od" :> od),
    One(Numbers(4)))

t_shadow == With(
    Fun(<<"x">>, Let("x", Plus(x, Num(1)),
        App(Lambda(<<"x">>, Times(x, Num(2))), <<Plus(x, Num(2))>>))),
    NoNames, One(Numbers(9)))

f3 == Fun(<<"a", "b", "c">>, Plus(Plus(Times(a, Num(3)), Times(b, Num(2))), Rel("c")))
pa == Fun(<<>>, Call("f3", <<Num(1)>>))
twice == Fun(<<"f", "x">>, App(f, <<App(f, <<x>>)>>))
t_pa == With(
    Fun(<<"x", "y">>, Plus(Call("pa", <<x, y>>), App(Call("f3", <<y, Num(1)>>), <<x>>))),
    ("f3" :> f3) @@ ("pa" :> pa), Two(Numbers(2), Numbers(2)))
t_poly == With(
    Fun(<<"n">>, Call("twice", <<Call("twice", <<Call("prim_nat_add", <<n>>)>>), n>>)),
    ("twice" :> twice), One(Numbers(7)))

bigf == Fun(<<"x">>,
    Match(x, <<Case("B", <<"a", "b", "_", "n">>, Plus(Plus(a, b), n)),
               Case("C1", <<"y">>, y), CaseAny(Num(9))>>))
t_big == With(bigf, NoNames,
    One({Data("B", <<Number(1), Number(2), Number(4), Number(8)>>),
         Data("C1", <<Number(4)>>), Data("C0", <<>>), Data("C2", <<>>)}))

allpos == Fix("allpos", <<"l">>,
    OnList(l, Construct("true", <<>>), "x", "t",
        Call("prim_andb", <<Leq(Num(1), x), Call("allpos", <<t>>)>>)))
t_and == With(
    Fun(<<"l">>, IfThen(Call("prim_andb", <<Call("allpos", <<l>>), Leq(Num(0), Num(0))>>),
                        Num(1), Num(2))),
    ("allpos" :> allpos), One(Lists))

t_rec == With(
    Fun(<<"n">>, Match(Construct("Build_R", <<Lambda(<<"x">>, Times(x, x)), n>>),
                       <<Case("Build_R", <<"f", "x">>, App(f, <<x>>))>>)),
    NoNames, One(Numbers(6)))

nth_error == Fix("nth_error", <<"l", "n">>,
    OnNat(n, OnList(l, Construct("None", <<>>), "x", "_", Construct("Some", <<x>>)),
          "k", OnList(l, Construct("None", <<>>), "_", "t", Call("nth_error", <<t, k>>))))
t_opt == With(nth_error, ("nth_error" :> nth_error), Two(Lists, Numbers(2)))

compose_n == Fix("compose_n", <<"n", "f">>,
    OnNat(n, f, "k",
        Call("compose_n", <<k, Lambda(<<"x">>, App(f, <<Plus(x, n)>>))>>)))
t_comp == With(Fun(<<"n", "x">>, Call("compose_n", <<n, Lambda(<<"y">>, Succ(y)), x>>)),
    ("compose_n" :> compose_n), Two(Numbers(3), Numbers(1)))

ins == Fix("ins", <<"x", "l">>,
    OnList(l, Cons(x, Nil), "y", "t",
        IfThen(Leq(x, y), Cons(x, l), Cons(y, Call("ins", <<x, t>>)))))
fold_right == Fix("fold_right", <<"f", "a", "l">>,
    OnList(l, a, "x", "t", App(f, <<x, Call("fold_right", <<f, a, t>>)>>)))
t_sort == With(Fun(<<"l">>, Call("fold_right", <<Global("ins"), Nil, l>>)),
    ("ins" :> ins) @@ ("fold_right" :> fold_right), One(Lists))

t_unused == With(Fun(<<"_", "_">>, Num(7)), NoNames, Two(Numbers(0), Numbers(0)))
t_exn == With(Fun(<<"l">>, Succ(OnList(l, Exception, "x", "_", x))), NoNames, One(Lists))

\* A literal that no machine integer holds.
big_literal == With(Fun(<<"n">>, Plus(n, Num(16))), NoNames, One(Numbers(1)))

(***************************************************************************)
(* Fixture.v                                                               *)
(***************************************************************************)
fx_let == With(Fun(<<"n">>, Succ(Let("y", Plus(n, n), Times(y, y)))), NoNames,
    One(Numbers(4)))
fx_nat_wild == With(
    Fun(<<"n">>, Match(n, <<Case("nat_succ", <<"k">>,
                                 Match(k, <<Case("nat_0", <<>>, Num(1)), CaseAny(O)>>)),
                            CaseVar("y", y)>>)),
    NoNames, One(Numbers(3)))
fx_over == With(
    Fun(<<"n">>, Plus(Call("pick", <<Construct("true", <<>>), n>>),
                      Call("pick", <<Construct("false", <<>>), n>>))),
    ("pick" :> Fun(<<"b">>, IfThen(b, Lambda(<<"x">>, Succ(x)), Lambda(<<"x">>, x)))),
    One(Numbers(3)))
fx_mkfs == Fix("mkfs", <<"n", "acc">>,
    OnNat(n, acc, "k", Call("mkfs", <<k, Cons(Lambda(<<"x">>, Plus(x, n)), acc)>>)))
fx_closures == With(
    Fun(<<"n">>, Call("map", <<Lambda(<<"f">>, App(f, <<O>>)), Call("mkfs", <<n, Nil>>)>>)),
    ("map" :> map) @@ ("mkfs" :> fx_mkfs), One(Numbers(3)))
fx_partial == With(
    Fun(<<"l">>, Call("map", <<Call("prim_nat_add", <<Num(2)>>), l>>)),
    ("map" :> map), One(Lists))

(***************************************************************************)
(* Loops over a number with an accumulator: every small body.              *)
(***************************************************************************)
Operand == <<k, acc, n, Succ(acc), Plus(acc, n), Num(14)>>

Bodies(u) ==
    <<Call("loop", <<k, u>>),
      Succ(Call("loop", <<k, u>>)),
      Let("acc", u, Call("loop", <<k, acc>>)),
      App(Lambda(<<"acc">>, Call("loop", <<k, acc>>)), <<u>>),
      Call("loop", <<k, Let("n", u, Plus(n, acc))>>),
      Call("loop", <<k, OnNat(u, n, "n", n)>>),
      Let("f", Lambda(<<"n">>, Plus(n, u)), Call("loop", <<k, App(f, <<n>>)>>)),
      OnNat(u, Call("loop", <<k, n>>), "a", Call("loop", <<k, a>>))>>

Loop(body) == With(
    Fun(<<"n", "acc">>, Call("loop", <<n, acc>>)),
    "loop" :> Fix("loop", <<"n", "acc">>, OnNat(n, acc, "k", body)),
    Two(Numbers(3), Numbers(1)))

Loops == [i \in 1 .. 48 |-> Loop(Bodies(Operand[((i - 1) % 6) + 1])[((i - 1) \div 6) + 1])]

(***************************************************************************)
(* To be refused: a catch-all that is not last, a name bound twice, a      *)
(* recursion on a predecessor that allow-unary.txt does not list.          *)
(***************************************************************************)
catch_all == With(
    Fun(<<"n">>, Match(n, <<CaseAny(Num(1)), Case("nat_0", <<>>, Num(2))>>)), NoNames,
    One(Numbers(1)))
bound_twice == With(
    Fun(<<"n">>, App(Lambda(<<"x", "x">>, x), <<n, Succ(n)>>)), NoNames, One(Numbers(1)))
unary == With(
    Fun(<<"n">>, Call("add", <<n, n>>)),
    "add" :> Fix("add", <<"n", "x">>, OnNat(n, x, "k", Succ(Call("add", <<k, x>>)))),
    One(Numbers(1)))

AllPrograms ==
    <<t_clos, t_swap, t_mut, t_shadow, t_pa, t_poly, t_big, t_and, t_rec, t_opt,
      t_comp, t_sort, t_unused, t_exn, big_literal, fx_let, fx_nat_wild, fx_over, fx_closures,
      fx_partial, catch_all, bound_twice, unary>> \o Loops

-----------------------------------------------------------------------------
NoProgram ==
    /\ program = NoNames /\ arguments = <<>> /\ heap = <<>> /\ stack = <<>>
    /\ result = Refused

NoCalculation ==
    /\ type = "cmp" /\ rocq = 0 /\ go = 0 /\ exact = 0 /\ last = <<>>

Init == (GoInit /\ NoCalculation) \/ (Calc!CalcInit /\ NoProgram)

Next ==
    \/ GoNext /\ UNCHANGED calcVars
    \/ Calc!CalcNext /\ UNCHANGED goVars

Spec == Init /\ [][Next]_vars

\* The Rocq definitions the Go is generated from mean the integer operations
\* (primcheck/plain/primref_gen.go, semantics/semantics_gen.go).
RocqIsExact == Calc!RocqIsExact

\* A calculation that has not stopped has the exact value: no result ever
\* wrapped (prims.go: "checked" arithmetic).
ExactOrStopped == Calc!ExactOrStopped

\* A calculation stops only where its exact result, or for a generated
\* operation on Z the least integer, is no machine integer (prims.go).
StopsOnlyOutside == Calc!StopsOnlyOutside
=============================================================================
