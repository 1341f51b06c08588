------------------------------- MODULE MiniML -------------------------------
(***************************************************************************)
(* The language that Rocq's extraction prints and gogen reads, and what    *)
(* its programs mean: call by value, the first case that matches, integers *)
(* without a bound.  Meaning tells a program that passes through a number  *)
(* no machine integer holds ("beyond"), and one that reaches an absurd     *)
(* branch ("raised").                                                      *)
(***************************************************************************)
EXTENDS Prims, Sequences, FiniteSets, TLC

\* A program: per global, its parameters and its body (none: a value).
VARIABLE program

(***************************************************************************)
(* Terms.                                                                  *)
(***************************************************************************)
Rel(x) == [what |-> "rel", name |-> x]
Global(g) == [what |-> "global", name |-> g]
Construct(c, ts) == [what |-> "constructor", name |-> c, args |-> ts]
App(f, ts) == [what |-> "apply", func |-> f, args |-> ts]
Lambda(xs, t) == [what |-> "lambda", argnames |-> xs, body |-> t]
Let(x, v, t) == [what |-> "let", name |-> x, nameval |-> v, body |-> t]
Exception == [what |-> "exception"]

\* A match, with the cases in the order of the source.
Match(t, cs) == [what |-> "case", expr |-> t, cases |-> cs]
Case(c, xs, t) == [what |-> "constructor", name |-> c, argnames |-> xs, body |-> t]
CaseVar(x, t) == [what |-> "rel", name |-> x, argnames |-> <<x>>, body |-> t]
CaseAny(t) == [what |-> "wild", name |-> "_", argnames |-> <<>>, body |-> t]

Call(g, ts) == App(Global(g), ts)
O == Construct("nat_0", <<>>)
Succ(t) == Construct("nat_succ", <<t>>)

(***************************************************************************)
(* Values.  A number is a mapped nat; booleans are data without fields.    *)
(***************************************************************************)
Number(n) == [tag |-> "nat", num |-> n]
Data(c, vs) == [tag |-> c, fields |-> vs]
Boolean(b) == Data(IF b THEN "true" ELSE "false", <<>>)
Raised == [tag |-> "raised"]
Beyond == [tag |-> "beyond"]
Failed(v) == v.tag \in {"raised", "beyond"}

Bounded(n) == IF n \in int64 THEN Number(n) ELSE Beyond

primArity == ("prim_andb" :> 2) @@ ("prim_nat_add" :> 2) @@ ("prim_nat_mul" :> 2)
          @@ ("prim_nat_sub" :> 2) @@ ("prim_nat_pred" :> 1) @@ ("prim_nat_leb" :> 2)

IsPrim(g) == g \in DOMAIN primArity
Arity(g) == IF IsPrim(g) THEN primArity[g] ELSE Len(program[g].args)

PrimMeaning(g, vs) ==
    CASE g = "prim_nat_add" -> Bounded(vs[1].num + vs[2].num)
      [] g = "prim_nat_mul" -> Bounded(vs[1].num * vs[2].num)
      [] g = "prim_nat_sub" ->
             Number(IF vs[1].num < vs[2].num THEN 0 ELSE vs[1].num - vs[2].num)
      [] g = "prim_nat_pred" -> Number(IF vs[1].num = 0 THEN 0 ELSE vs[1].num - 1)
      [] g = "prim_nat_leb" -> Boolean(vs[1].num <= vs[2].num)
      [] g = "prim_andb" -> Boolean(vs[1].tag = "true" /\ vs[2].tag = "true")

(***************************************************************************)
(* Matching.                                                               *)
(***************************************************************************)
HasShape(c, v) ==
    CASE c = "nat_0" -> v.num = 0
      [] c = "nat_succ" -> v.num > 0
      [] c \notin {"nat_0", "nat_succ"} -> v.tag = c

\* What a constructor was applied to.
Component(v, i) == IF v.tag = "nat" THEN Number(v.num - 1) ELSE v.fields[i]

Matches(p, v) == p.what # "constructor" \/ HasShape(p.name, v)

\* The environment with the names xs bound to vs, the last one innermost.
RECURSIVE BindAll(_, _, _)
BindAll(xs, vs, env) ==
    IF xs = <<>> THEN env
    ELSE BindAll(Tail(xs), Tail(vs), (Head(xs) :> Head(vs)) @@ env)

BindCase(p, v, env) ==
    IF p.what = "constructor"
    THEN BindAll(p.argnames,
                 [i \in DOMAIN p.argnames |-> Component(v, i)], env)
    ELSE BindAll(p.argnames, [i \in DOMAIN p.argnames |-> v], env)

(***************************************************************************)
(* Evaluation.                                                             *)
(***************************************************************************)
NoNames == [x \in {} |-> 0]
FirstFailed(vs) ==
    vs[CHOOSE i \in DOMAIN vs : Failed(vs[i]) /\ \A j \in 1 .. i - 1 : ~Failed(vs[j])]
AnyFailed(vs) == \E i \in DOMAIN vs : Failed(vs[i])

RECURSIVE Eval(_, _), ApplyTo(_, _)

\* f applied to vs: a function keeps what it has until it has all.
ApplyTo(f, vs) ==
    IF vs = <<>> \/ Failed(f) THEN f
    ELSE LET got == Append(f.got, Head(vs))
             all == Len(got) = f.arity
         IN  CASE ~all -> ApplyTo([f EXCEPT !.got = got], Tail(vs))
               [] all /\ f.prim # "" -> ApplyTo(PrimMeaning(f.prim, got), Tail(vs))
               [] all /\ f.prim = "" ->
                      ApplyTo(Eval(f.body, BindAll(f.names, got, f.env)), Tail(vs))

Function(g, xs, t, env, n) ==
    [tag |-> "fun", prim |-> g, names |-> xs, body |-> t, env |-> env,
     arity |-> n, got |-> <<>>]

Eval(t, env) ==
    CASE t.what = "rel" -> env[t.name]
      [] t.what = "global" ->
             IF IsPrim(t.name) THEN Function(t.name, <<>>, <<>>, NoNames, Arity(t.name))
             ELSE LET d == program[t.name] IN
                  IF d.args = <<>> THEN Eval(d.body, NoNames)
                  ELSE Function("", d.args, d.body, NoNames, Len(d.args))
      [] t.what = "constructor" ->
             LET vs == [i \in DOMAIN t.args |-> Eval(t.args[i], env)] IN
             CASE AnyFailed(vs) -> FirstFailed(vs)
               [] ~AnyFailed(vs) /\ t.name = "nat_0" -> Number(0)
               [] ~AnyFailed(vs) /\ t.name = "nat_succ" -> Bounded(vs[1].num + 1)
               [] OTHER -> Data(t.name, vs)
      [] t.what = "apply" ->
             IF t.func = Global("prim_andb") /\ Len(t.args) = 2
             THEN LET a == Eval(t.args[1], env) IN
                  IF a.tag = "true" THEN Eval(t.args[2], env) ELSE a
             ELSE LET vs == [i \in DOMAIN t.args |-> Eval(t.args[i], env)] IN
                  IF AnyFailed(vs) THEN FirstFailed(vs)
                  ELSE ApplyTo(Eval(t.func, env), vs)
      [] t.what = "lambda" ->
             Function("", t.argnames, t.body, env, Len(t.argnames))
      [] t.what = "let" ->
             LET v == Eval(t.nameval, env) IN
             IF Failed(v) THEN v ELSE Eval(t.body, BindAll(<<t.name>>, <<v>>, env))
      [] t.what = "case" ->
             LET v == Eval(t.expr, env)
                 First(i) == /\ Matches(t.cases[i], v)
                             /\ \A j \in 1 .. i - 1 : ~Matches(t.cases[j], v)
                 p == t.cases[CHOOSE i \in DOMAIN t.cases : First(i)]
             IN  IF Failed(v) THEN v ELSE Eval(p.body, BindCase(p, v, env))
      [] t.what = "exception" -> Raised

Meaning(g, vs) == ApplyTo(Eval(Global(g), NoNames), vs)
=============================================================================
