----------------------------- MODULE GoMachine ------------------------------
(***************************************************************************)
(* Running the Go that gogen emits.  A variable is a cell of the heap: a   *)
(* definition makes a new one each time it runs, a closure keeps the cells *)
(* of the variables it names, and the parameters of a function are the     *)
(* same cells in every iteration of its loop.                              *)
(***************************************************************************)
EXTENDS Gogen

CONSTANT Programs    \* a sequence; inputs are argument lists that main is called with

VARIABLES arguments,
          heap,        \* the value of each cell
          stack,       \* the calls in progress, the innermost first
          result       \* what main returned, or Panicked, Refused or Running

goVars == <<program, arguments, heap, stack, result>>

Panicked == [tag |-> "panic"]
Refused == [tag |-> "refused"]
Running == [tag |-> "running"]

Frame == Head(stack)
Statement == Head(Frame.code)

(***************************************************************************)
(* Reading.                                                                *)
(***************************************************************************)
Read(a) == IF a.go = "lit" THEN a.value ELSE heap[Frame.vars[a.id]]
ReadAll(as) == [i \in DOMAIN as |-> Read(as[i])]

IsAtom(e) == e.go \in {"var", "lit"}
IsCall(e) == e.go \in {"app", "call"}

Panics(e) ==
    \/ e.go = "panic"
    \/ ~IsAtom(e) /\ e.go # "panic" /\ \E i \in DOMAIN e.args : e.args[i].go = "panic"
    \/ IsCall(e) /\ \E i \in DOMAIN e.more : e.more[i].go = "panic"

\* A curried closure.
Closure(ids, code, cells) ==
    [tag |-> "func", ids |-> ids, code |-> code, cells |-> cells]

\* The machine integers of prims.go.
GoNumber(n) == IF n = Panic THEN Panicked ELSE Number(n)
GoPrim(g, vs) ==
    CASE g = "prim_nat_add" -> GoNumber(zAdd(vs[1].num, vs[2].num))
      [] g = "prim_nat_mul" -> GoNumber(zMul(vs[1].num, vs[2].num))
      [] g = "prim_nat_sub" -> GoNumber(natSub(vs[1].num, vs[2].num))
      [] g = "prim_nat_pred" -> GoNumber(nPred(vs[1].num))
      [] g = "prim_nat_leb" -> Boolean(leb(vs[1].num, vs[2].num) = 1)
      [] g = "prim_andb" -> Boolean(vs[1].tag = "true" /\ vs[2].tag = "true")

\* A right-hand side that needs no call.
Computed(e) ==
    CASE IsAtom(e) -> Read(e)
      [] e.go = "succ" -> GoNumber(natSucc(Read(e.args[1]).num))
      [] e.go = "new" -> Data(e.name, ReadAll(e.args))
      [] e.go = "field" -> Component(Read(e.args[1]), e.index)
      [] e.go = "func" -> Closure(e.ids, e.code, Frame.vars)
      [] e.go = "call" -> GoPrim(e.name, ReadAll(e.args))

IsPrimCall(e) == e.go = "call" /\ IsPrim(e.name) /\ e.more = <<>>

(***************************************************************************)
(* Frames.  A frame runs code; what it returns is applied to the values in *)
(* more and then becomes the variable into of the caller.                  *)
(***************************************************************************)
MakeFrame(fn, code, cells, more, into) ==
    [fn |-> fn, code |-> code, vars |-> cells, more |-> more, into |-> into]

\* A call of function g: its parameters are new cells after those of h.
CallFrame(g, h, more, into) ==
    MakeFrame(g, emitGlobal(g),
              BindAll([i \in DOMAIN program[g].args |-> ParamId(i)],
                      [i \in DOMAIN program[g].args |-> Len(h) + i], NoNames),
              more, into)

\* A frame that only returns a value.
ValueFrame(v, more, into) ==
    MakeFrame("", <<Return(Lit(v))>>, NoNames, more, into)

Code(code) == [Frame EXCEPT !.code = code]
Advanced == Code(Tail(Frame.code))
Running1(f) == <<f>> \o Tail(stack)

Stop(v) ==
    /\ result' = v
    /\ stack' = <<>>
    /\ UNCHANGED heap

\* A new cell that holds v, named id in frame f.
Allocate(f, id, v) ==
    /\ heap' = Append(heap, v)
    /\ stack' = Running1([f EXCEPT !.vars = (id :> Len(heap) + 1) @@ @])
    /\ UNCHANGED result

(***************************************************************************)
(* The statements.                                                         *)
(***************************************************************************)
Is(s) == result = Running /\ Statement.stmt = s

DoDefine ==
    /\ Is("define")
    /\ LET e == Statement.rhs IN
       /\ ~Panics(e)
       /\ ~IsCall(e) \/ IsPrimCall(e)
       /\ IF Computed(e) = Panicked THEN Stop(Panicked)
          ELSE Allocate(Advanced, Statement.id, Computed(e))

DoCall ==
    /\ Is("define")
    /\ LET e == Statement.rhs
           more == ReadAll(e.more)
       IN  /\ IsCall(e) /\ ~IsPrimCall(e) /\ ~Panics(e)
           /\ heap' = IF e.go = "call" THEN heap \o ReadAll(e.args) ELSE heap
           /\ stack' = <<IF e.go = "call" THEN CallFrame(e.name, heap, more, Statement.id)
                         ELSE ValueFrame(Read(e.args[1]), more, Statement.id)>>
                       \o Running1(Advanced)
           /\ UNCHANGED result

DoSet ==
    /\ Is("set")
    /\ Statement.of.go # "panic"
    /\ heap' = [heap EXCEPT ![Frame.vars[Statement.id]] = Read(Statement.of)]
    /\ stack' = Running1(Advanced)
    /\ UNCHANGED result

DoIf ==
    /\ Is("if") \/ Is("ifnot")
    /\ Statement.of.go # "panic"
    /\ LET taken == (Read(Statement.of).tag = "true") = (Statement.stmt = "if")
       IN  stack' = Running1(Code((IF taken THEN Statement.code ELSE <<>>)
                                    \o Tail(Frame.code)))
    /\ UNCHANGED <<heap, result>>

\* The branch with the value's constructor, else the default.
DoSwitch ==
    /\ Is("switch")
    /\ Statement.of.go # "panic"
    /\ LET v == Read(Statement.of)
           bs == Statement.branches
           Fit(i) == bs[i].test # "default" /\ HasShape(bs[i].test, v)
           Default(i) == bs[i].test = "default" /\ \A j \in DOMAIN bs : ~Fit(j)
           Taken == {i \in DOMAIN bs : Fit(i) \/ Default(i)}
       IN  IF Taken = {} THEN Stop(Panicked)
           ELSE /\ \E i \in Taken :
                      stack' = Running1(Code(bs[i].code \o Tail(Frame.code)))
                /\ UNCHANGED <<heap, result>>

\* The parameters are assigned together, and the loop starts over.
DoContinue ==
    /\ Is("continue")
    /\ \A i \in DOMAIN Statement.args : Statement.args[i].go # "panic"
    /\ LET new == [i \in DOMAIN Statement.args |-> Frame.vars[ParamId(i)]]
           vs == ReadAll(Statement.args)
       IN  heap' = [c \in DOMAIN heap |->
                       IF \E i \in DOMAIN new : new[i] = c
                       THEN vs[CHOOSE i \in DOMAIN new : new[i] = c] ELSE heap[c]]
    /\ stack' = Running1(Code(emitGlobal(Frame.fn)))
    /\ UNCHANGED result

\* A closure that a call returned and that has more arguments.
DoApply ==
    /\ Is("return")
    /\ Statement.of.go # "panic"
    /\ Frame.more # <<>>
    /\ LET c == Read(Statement.of)
           cells == (Head(c.ids) :> Len(heap) + 1) @@ c.cells
           more == Tail(Frame.more)
       IN  /\ heap' = Append(heap, Head(Frame.more))
           /\ stack' = Running1(
                 IF Len(c.ids) = 1 THEN MakeFrame("", c.code, cells, more, Frame.into)
                 ELSE ValueFrame(Closure(Tail(c.ids), c.code, cells), more, Frame.into))
    /\ UNCHANGED result

DoReturn ==
    /\ Is("return")
    /\ Statement.of.go # "panic"
    /\ Frame.more = <<>>
    /\ LET v == Read(Statement.of)
           caller == stack[2]
       IN  IF Len(stack) = 1 THEN Stop(v)
           ELSE /\ heap' = Append(heap, v)
                /\ stack' = <<[caller EXCEPT !.vars =
                                  (Frame.into :> Len(heap) + 1) @@ @]>>
                              \o SubSeq(stack, 3, Len(stack))
                /\ UNCHANGED result

DoPanic ==
    /\ result = Running
    /\ LET s == Statement IN
       \/ s.stmt = "panic"
       \/ s.stmt = "define" /\ Panics(s.rhs)
       \/ s.stmt \in {"set", "if", "ifnot", "switch", "return"} /\ s.of.go = "panic"
       \/ s.stmt = "continue" /\ \E i \in DOMAIN s.args : s.args[i].go = "panic"
    /\ Stop(Panicked)

(***************************************************************************)
(* gogen refuses the program, or main is called.                           *)
(***************************************************************************)
GoInit ==
    /\ \E i \in DOMAIN Programs :
          program = Programs[i].functions /\ arguments \in Programs[i].inputs
    /\ \/ /\ Accepted
          /\ heap = arguments
          /\ stack = <<CallFrame("main", <<>>, <<>>, <<>>)>>
          /\ result = Running
       \/ /\ ~Accepted
          /\ heap = <<>>
          /\ stack = <<>>
          /\ result = Refused

\* A run that is over, so that any other stop is a deadlock.
Over == result # Running /\ UNCHANGED <<heap, stack, result>>

GoNext ==
    /\ \/ DoDefine \/ DoCall \/ DoSet \/ DoIf \/ DoSwitch \/ DoContinue
       \/ DoApply \/ DoReturn \/ DoPanic \/ Over
    /\ UNCHANGED <<program, arguments>>

GoSpec == GoInit /\ [][GoNext]_goVars

-----------------------------------------------------------------------------
(* Properties                                                              *)

\* A program that returns, returns what the term means; one that panics
\* passes through a number beyond int64 or reaches an absurd branch, and one
\* that passes through such a number panics.
GoMatchesRocq ==
    LET m == Meaning("main", arguments) IN
    result.tag \notin {"running", "refused"} =>
        CASE m = Beyond -> result = Panicked
          [] m = Raised -> TRUE
          [] OTHER -> result = m

\* Whether g occurs in t elsewhere than in a tail call of itself.
RECURSIVE Occurs(_, _), OccursNested(_, _)
Occurs(g, t) ==
    CASE t.what = "global" -> t.name = g
      [] t.what \in {"rel", "exception"} -> FALSE
      [] t.what = "constructor" -> \E i \in DOMAIN t.args : Occurs(g, t.args[i])
      [] t.what = "apply" ->
             Occurs(g, t.func) \/ \E i \in DOMAIN t.args : Occurs(g, t.args[i])
      [] t.what = "lambda" -> Occurs(g, t.body)
      [] t.what = "let" -> Occurs(g, t.nameval) \/ Occurs(g, t.body)
      [] t.what = "case" ->
             Occurs(g, t.expr) \/ \E i \in DOMAIN t.cases : Occurs(g, t.cases[i].body)

OccursNested(g, t) ==
    CASE t.what = "let" -> Occurs(g, t.nameval) \/ OccursNested(g, t.body)
      [] t.what = "case" ->
             Occurs(g, t.expr) \/ \E i \in DOMAIN t.cases : OccursNested(g, t.cases[i].body)
      [] IsAndb(t) -> Occurs(g, t.args[1]) \/ OccursNested(g, t.args[2])
      [] IsSelfCall(t, g) -> \E i \in DOMAIN t.args : Occurs(g, t.args[i])
      [] OTHER -> Occurs(g, t)

\* A function that only calls itself last never calls itself: however long it
\* runs, its frame is not above another of its own.
TailCallsLoop ==
    \A i \in 1 .. Len(stack) - 1 :
        LET g == stack[i].fn IN
        g # "" /\ g = stack[i + 1].fn => OccursNested(g, program[g].body)
=============================================================================
