------------------------------- MODULE Gogen --------------------------------
(***************************************************************************)
(* gogen (gogen/main.go): what it refuses, and the Go it emits.  Types are *)
(* inferred there only to be written out, and a fresh Go name is unique in *)
(* its function; here a name is the place in the term that it is made for. *)
(* The Go is a sequence of statements over single names and literals.      *)
(***************************************************************************)
EXTENDS MiniML

CONSTANT AllowUnary    \* the functions of allow-unary.txt

(***************************************************************************)
(* Go: what a statement reads, and the statements.                         *)
(***************************************************************************)
Var(id) == [go |-> "var", id |-> id]
Lit(v) == [go |-> "lit", value |-> v]
PanicExpr == [go |-> "panic"]

NatSucc(a) == [go |-> "succ", args |-> <<a>>]
New(c, as) == [go |-> "new", name |-> c, args |-> as]
Field(a, i) == [go |-> "field", args |-> <<a>>, index |-> i]
Func(ids, code) == [go |-> "func", args |-> <<>>, ids |-> ids, code |-> code]
\* F_g(as...), its result applied to more one by one; and a(more...).
CallGlobal(g, as, more) == [go |-> "call", name |-> g, args |-> as, more |-> more]
CallValue(a, more) == [go |-> "app", args |-> <<a>>, more |-> more]

Define(id, e) == [stmt |-> "define", id |-> id, rhs |-> e]
Set(id, a) == [stmt |-> "set", id |-> id, of |-> a]
If(a, code) == [stmt |-> "if", of |-> a, code |-> code]
IfNot(a, code) == [stmt |-> "ifnot", of |-> a, code |-> code]
Switch(a, branches) == [stmt |-> "switch", of |-> a, branches |-> branches]
Return(a) == [stmt |-> "return", of |-> a]
Continue(as) == [stmt |-> "continue", args |-> as]
PanicStmt == [stmt |-> "panic"]

(***************************************************************************)
(* What is refused.                                                        *)
(***************************************************************************)
\* A list of binders; "_" binds nothing.
distinct(xs) == \A i, j \in DOMAIN xs : xs[i] = xs[j] /\ xs[i] # "_" => i = j

\* A Go switch takes its default last, wherever it stands.
CatchAllLast(cs) ==
    \A i \in DOMAIN cs : cs[i].what # "constructor" => i = Len(cs)

RECURSIVE wellFormed(_)
wellFormed(t) ==
    CASE t.what \in {"rel", "global", "exception"} -> TRUE
      [] t.what = "constructor" -> \A i \in DOMAIN t.args : wellFormed(t.args[i])
      [] t.what = "apply" ->
             wellFormed(t.func) /\ \A i \in DOMAIN t.args : wellFormed(t.args[i])
      [] t.what = "lambda" -> distinct(t.argnames) /\ wellFormed(t.body)
      [] t.what = "let" -> wellFormed(t.nameval) /\ wellFormed(t.body)
      [] t.what = "case" ->
             /\ wellFormed(t.expr)
             /\ CatchAllLast(t.cases)
             /\ \A i \in DOMAIN t.cases :
                   distinct(t.cases[i].argnames) /\ wellFormed(t.cases[i].body)

\* Whether t calls a function of the fixgroup on a name in preds, the
\* predecessors that patterns have bound.
RECURSIVE recursesOnPredecessor(_, _, _)
recursesOnPredecessor(t, group, preds) ==
    LET Some(ts) == \E i \in DOMAIN ts : recursesOnPredecessor(ts[i], group, preds)
        Names(xs) == {xs[i] : i \in DOMAIN xs}
    IN  CASE t.what \in {"rel", "global", "exception"} -> FALSE
          [] t.what = "constructor" -> Some(t.args)
          [] t.what = "apply" ->
                 \/ /\ t.func.what = "global" /\ t.func.name \in group
                    /\ \E i \in DOMAIN t.args :
                          t.args[i].what = "rel" /\ t.args[i].name \in preds
                 \/ Some(<<t.func>> \o t.args)
          [] t.what = "lambda" ->
                 recursesOnPredecessor(t.body, group, preds \ Names(t.argnames))
          [] t.what = "let" ->
                 \/ recursesOnPredecessor(t.nameval, group, preds)
                 \/ recursesOnPredecessor(t.body, group, preds \ {t.name})
          [] t.what = "case" ->
                 \/ recursesOnPredecessor(t.expr, group, preds)
                 \/ \E i \in DOMAIN t.cases :
                       LET c == t.cases[i]
                           bound == Names(c.argnames)
                       IN  recursesOnPredecessor(c.body, group,
                               (preds \ bound)
                                 \cup IF c.name = "nat_succ" THEN bound \ {"_"} ELSE {})

refusesUnary(g) ==
    /\ program[g].group # {}
    /\ g \notin AllowUnary
    /\ recursesOnPredecessor(program[g].body, program[g].group, {})

Accepted ==
    \A g \in DOMAIN program :
        /\ distinct(program[g].args)
        /\ wellFormed(program[g].body)
        /\ ~refusesUnary(g)

(***************************************************************************)
(* Emission.  expr gives the statements that compute a term and what then  *)
(* reads its value; tail gives statements that return it.  e has the Go    *)
(* name of each variable in scope, p is the place of the term, self the    *)
(* function whose loop the statements are in, if any.                      *)
(***************************************************************************)
Emit(code, a) == [code |-> code, val |-> a]

\* A Go expression evaluated once, into a temporary.
bind(code, e, p) == Emit(Append(code, Define(p, e)), Var(p))

\* The number that constructors build from nothing, or -1.
RECURSIVE konst(_)
konst(t) ==
    CASE t.what = "constructor" /\ t.name = "nat_0" -> 0
      [] t.what = "constructor" /\ t.name = "nat_succ" ->
             LET n == konst(t.args[1]) IN IF n >= 0 /\ n < maxInt THEN n + 1 ELSE -1
      [] OTHER -> -1

InLoop(g) == [tail |-> TRUE, self |-> g]
InClosure == [tail |-> TRUE, self |-> ""]
IntoVar == [tail |-> FALSE, self |-> ""]

ParamId(i) == <<-1, i>>

RECURSIVE expr(_, _, _), exprs(_, _, _, _), tail(_, _, _, _)

\* The terms ts from the i-th on: their statements in order, and their values.
exprs(ts, i, e, p) ==
    IF i > Len(ts) THEN [code |-> <<>>, vals |-> <<>>]
    ELSE LET v == expr(ts[i], e, Append(p, i))
             rest == exprs(ts, i + 1, e, p)
         IN  [code |-> v.code \o rest.code, vals |-> <<v.val>> \o rest.vals]

ctorExpr(t, e, p) ==
    LET vs == exprs(t.args, 1, e, p) IN
    CASE konst(t) >= 0 -> Emit(<<>>, Lit(Number(konst(t))))
      [] konst(t) < 0 /\ t.name = "nat_succ" -> bind(vs.code, NatSucc(vs.vals[1]), p)
      [] t.args = <<>> /\ t.name # "nat_0" -> Emit(<<>>, Lit(Data(t.name, <<>>)))
      [] OTHER -> bind(vs.code, New(t.name, vs.vals), p)

\* A global applied to fewer arguments than it has, to as many, or to more.
apply(g, ts, e, p) ==
    LET vs == exprs(ts, 1, e, p)
        rest == [i \in 1 .. Arity(g) - Len(ts) |-> p \o <<0, i>>]
        given == [i \in DOMAIN rest |-> Var(rest[i])]
        result == p \o <<0, 0>>
    IN  IF Len(ts) < Arity(g)
        THEN bind(vs.code,
                  Func(rest, <<Define(result, CallGlobal(g, vs.vals \o given, <<>>)),
                               Return(Var(result))>>), p)
        ELSE bind(vs.code,
                  CallGlobal(g, SubSeq(vs.vals, 1, Arity(g)),
                             SubSeq(vs.vals, Arity(g) + 1, Len(ts))), p)

\* andb is a short circuit.
andb(ts, e, p) ==
    LET a == expr(ts[1], e, Append(p, 1))
        b == expr(ts[2], e, Append(p, 2))
    IN  Emit(a.code \o <<Define(p, a.val), If(Var(p), b.code \o <<Set(p, b.val)>>)>>,
             Var(p))

lambda(t, e, p) ==
    LET ids == [i \in DOMAIN t.argnames |-> p \o <<0, i>>]
        inner == BindAll(t.argnames, ids, e)
    IN  bind(<<>>, Func(ids, tail(t.body, inner, Append(p, 1), InClosure)), p)

\* A switch.  Each branch takes the value apart and then either returns its
\* body or sets the variable p to it.
caseStmt(t, e, p, how) ==
    LET s == expr(t.expr, e, Append(p, 0))
        Part(c, i) == IF c.what = "rel" THEN s.val ELSE Field(s.val, i)
        Ids(c, k) == [i \in DOMAIN c.argnames |-> p \o <<k, -i>>]
        Inner(c, k) == BindAll(c.argnames, Ids(c, k), e)
        Body(c, k) ==
            IF how.tail THEN tail(c.body, Inner(c, k), Append(p, k), how)
            ELSE LET v == expr(c.body, Inner(c, k), Append(p, k))
                 IN  Append(v.code, Set(p, v.val))
        Branch(c, k) ==
            [test |-> IF c.what = "constructor" THEN c.name ELSE "default",
             code |-> [i \in DOMAIN c.argnames |->
                          Define(Ids(c, k)[i], Part(c, i))] \o Body(c, k)]
    IN  Append(s.code,
               Switch(s.val, [k \in DOMAIN t.cases |-> Branch(t.cases[k], k)]))

IsAndb(t) ==
    t.what = "apply" /\ t.func = Global("prim_andb") /\ Len(t.args) = 2

expr(t, e, p) ==
    CASE t.what = "rel" -> Emit(<<>>, Var(e[t.name]))
      [] t.what = "constructor" -> ctorExpr(t, e, p)
      [] t.what = "global" -> apply(t.name, <<>>, e, p)
      [] IsAndb(t) -> andb(t.args, e, p)
      [] t.what = "apply" /\ ~IsAndb(t) /\ t.func.what = "global" ->
             apply(t.func.name, t.args, e, p)
      [] t.what = "apply" /\ t.func.what # "global" ->
             LET vs == exprs(<<t.func>> \o t.args, 1, e, p)
             IN  bind(vs.code, CallValue(vs.vals[1], Tail(vs.vals)), p)
      [] t.what = "lambda" -> lambda(t, e, p)
      [] t.what = "let" ->
             LET v == expr(t.nameval, e, Append(p, 1))
                 b == expr(t.body, (t.name :> p) @@ e, Append(p, 2))
             IN  Emit(v.code \o <<Define(p, v.val)>> \o b.code, b.val)
      [] t.what = "case" ->
             Emit(<<Define(p, Lit(Data("zero", <<>>)))>> \o caseStmt(t, e, p, IntoVar),
                  Var(p))
      [] t.what = "exception" -> Emit(<<>>, PanicExpr)

\* A call of the function itself, with all its arguments.
IsSelfCall(t, self) ==
    t.what = "apply" /\ t.func = Global(self) /\ Len(t.args) = Arity(self)

\* (Mutation: andb's right operand is not in tail position.)
NoAndb(t) == FALSE

TailAndb(t) == IsAndb(t)

tail(t, e, p, how) ==
    CASE t.what = "exception" -> <<PanicStmt>>
      [] t.what = "let" ->
             LET v == expr(t.nameval, e, Append(p, 1))
             IN  v.code \o <<Define(p, v.val)>>
                   \o tail(t.body, (t.name :> p) @@ e, Append(p, 2), how)
      [] t.what = "case" -> caseStmt(t, e, p, how)
      [] TailAndb(t) ->
             LET a == expr(t.args[1], e, Append(p, 1))
             IN  a.code \o <<IfNot(a.val, <<Return(Lit(Boolean(FALSE)))>>)>>
                   \o tail(t.args[2], e, Append(p, 2), how)
      [] how.self # "" /\ IsSelfCall(t, how.self) ->
             LET vs == exprs(t.args, 1, e, p) IN Append(vs.code, Continue(vs.vals))
      [] OTHER -> LET v == expr(t, e, p) IN Append(v.code, Return(v.val))

\* (Mutation: the body reads the parameters themselves.)
ParamsThemselves(xs) == [copies |-> <<>>, ids |-> [i \in DOMAIN xs |-> ParamId(i)]]

\* A fresh copy of the parameters in every iteration.
FreshCopies(xs) ==
    [copies |-> [i \in DOMAIN xs |-> Define(<<0, i>>, Var(ParamId(i)))],
     ids |-> [i \in DOMAIN xs |-> <<0, i>>]]

\* The body of the loop that a function is.
emitGlobal(g) ==
    LET d == program[g]
        c == FreshCopies(d.args)
    IN  c.copies \o tail(d.body, BindAll(d.args, c.ids, NoNames), <<1>>, InLoop(g))
=============================================================================
