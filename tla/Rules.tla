-------------------------------- MODULE Rules --------------------------------
(***************************************************************************)
(* The rule language of a registry and the check that certifies it         *)
(* (AstChecker.v).  A machine is data: the domain size and the least value *)
(* of each variable, invariants (a predicate and a repair), events (a      *)
(* guard and an effect), and the pairs of events declared independent, if  *)
(* any are declared.  A state holds the raw offset of each variable.       *)
(*                                                                         *)
(* The field "go" says which arithmetic runs the machine: the checker's    *)
(* integers, or the runtime's machine integers and Boolean writes, which   *)
(* AstChecker.v describes and promises never to tell apart.                *)
(***************************************************************************)
EXTENDS Integers, Sequences, SequencesExt, FiniteSetsExt

CONSTANTS
    MaxAbs,     \* the largest machine integer (2147483647 in the source)
    Expr,       \* the expressions and the predicates there are, each with
    Pred,       \* all of its parts
    height(_)   \* how deep an expression or a predicate is

ASSUME MaxAbsAssumption == MaxAbs \in Nat \ {0}

\* A variable, a literal, or an operation on expressions less deep.
ASSUME ExprAssumption ==
    \A e \in Expr :
        /\ height(e) \in Nat
        /\ \/ e[1] = "var" /\ e[2] \in Nat
           \/ e[1] = "lit" /\ e[2] \in Int
           \/ /\ e[1] \in {"add", "sub"}
              /\ \A x \in {e[2], e[3]} : x \in Expr /\ height(x) < height(e)

\* A comparison, or a connective of predicates less deep.
ASSUME PredAssumption ==
    \A p \in Pred :
        /\ height(p) \in Nat
        /\ \/ p[1] \in {"le", "lt", "eq"} /\ p[2] \in Expr /\ p[3] \in Expr
           \/ /\ p[1] \in {"and", "or"}
              /\ \A i \in DOMAIN p[2] :
                    p[2][i] \in Pred /\ height(p[2][i]) < height(p)
           \/ p[1] = "not" /\ p[2] \in Pred /\ height(p[2]) < height(p)

\* What is listed at a place, or the value that stands in for it.
entry(q, i, default) == IF i \in DOMAIN q THEN q[i] ELSE default

Larger(x, y) == IF x >= y THEN x ELSE y
Smaller(x, y) == IF x <= y THEN x ELSE y

\* Two's complement: the value that is left of x in a machine integer.
Wrapped(x) == ((x + MaxAbs + 1) % (2 * (MaxAbs + 1))) - (MaxAbs + 1)

Word(m, x) == IF m.go THEN Wrapped(x) ELSE x

evalE(m, s, e) ==
    LET value[x \in Expr] ==
            IF x[1] = "var"
            THEN Word(m, entry(m.mins, x[2], 0) + entry(s, x[2], 0))
            ELSE IF x[1] = "lit" THEN x[2]
            ELSE IF x[1] = "add" THEN Word(m, value[x[2]] + value[x[3]])
            ELSE Word(m, value[x[2]] - value[x[3]])
    IN  value[e]

compare(op, x, y) ==
    IF op = "le" THEN x <= y ELSE IF op = "lt" THEN x < y ELSE x = y

evalP(m, s, p) ==
    LET holds[q \in Pred] ==
            IF q[1] \in {"le", "lt", "eq"}
            THEN compare(q[1], evalE(m, s, q[2]), evalE(m, s, q[3]))
            ELSE IF q[1] = "and" THEN \A i \in DOMAIN q[2] : holds[q[2][i]]
            ELSE IF q[1] = "or" THEN \E i \in DOMAIN q[2] : holds[q[2][i]]
            ELSE ~ holds[q[2]]
    IN  holds[p]

\* What a write of the logical value v stores.
Stored(m, i, v) ==
    IF m.go /\ i \in m.bools
    THEN IF v = 0 THEN 0 ELSE 1
    ELSE Smaller(Larger(v - entry(m.mins, i, 0), 0), entry(m.doms, i, 1) - 1)

setClamped(m, i, v, s) == [s EXCEPT ![i] = Stored(m, i, v)]

\* Assignments run in order, each reading what the earlier ones wrote.
applyT(m, t, s) ==
    FoldLeft(LAMBDA u, a : setClamped(m, a[1], evalE(m, u, a[2]), u), s, t)

Violated(m, s) == {i \in DOMAIN m.invs : ~ evalP(m, s, m.invs[i].holds)}

allValid(m, s) == Violated(m, s) = {}

\* The first violated invariant is repaired.
repair1(m, s) ==
    IF allValid(m, s) THEN s
    ELSE applyT(m, m.invs[Min(Violated(m, s))].repair, s)

\* The states: an offset below its domain size for each variable.
box(m) ==
    {s \in [DOMAIN m.doms -> UNION {0 .. d - 1 : d \in ToSet(m.doms)}] :
        \A i \in DOMAIN m.doms : s[i] < m.doms[i]}

normalizeWith(m, fuel, s) ==
    LET ended[x \in (0 .. fuel) \X box(m)] ==
            IF x[1] = 0 \/ allValid(m, x[2]) THEN x[2]
            ELSE ended[<<x[1] - 1, repair1(m, x[2])>>]
    IN  ended[<<fuel, s>>]

fuelOf(m) == FoldLeft(LAMBDA x, y : x * y, 1, m.doms)

normalize(m, s) == normalizeWith(m, fuelOf(m), s)

\* How many repairs a state is from validity.
depthF(m, fuel, s) ==
    LET steps[x \in (0 .. fuel) \X box(m)] ==
            IF x[1] = 0 \/ allValid(m, x[2]) THEN 0
            ELSE 1 + steps[<<x[1] - 1, repair1(m, x[2])>>]
    IN  steps[<<fuel, s>>]

phiA(m, s) == depthF(m, fuelOf(m), s)

\* A guarded event does nothing where its guard is false.
Fire(m, e, s) ==
    IF evalP(m, s, m.evs[e].guard) THEN applyT(m, m.evs[e].effect, s) ELSE s

stepI(m, e, s) == normalize(m, Fire(m, e, s))

(***************************************************************************)
(* The certificate.                                                        *)
(***************************************************************************)
zeroV(m) == [i \in DOMAIN m.doms |-> 0]

\* (Mutation: the zero state counts only if it is valid.)
ValidOnly(m, s) == allValid(m, s)

inDA(m, s) == allValid(m, s) \/ s = zeroV(m)

\* Without a declaration every pair of events is independent.
indepA(m, a, b) ==
    m.declared => <<a, b>> \in m.indep \/ <<b, a>> \in m.indep

Events(m) == DOMAIN m.evs

WFC(m) == \A s \in box(m) : allValid(m, normalize(m, s))

ccA(m) ==
    \A s \in box(m) : inDA(m, s) =>
        \A a, b \in Events(m) : indepA(m, a, b) =>
            stepI(m, a, stepI(m, b, s)) = stepI(m, b, stepI(m, a, s))

pairsOkA(m) == m.indep \subseteq Events(m) \X Events(m)

exprsP(p) ==
    LET compared[q \in Pred] ==
            IF q[1] \in {"le", "lt", "eq"} THEN {q[2], q[3]}
            ELSE IF q[1] = "not" THEN compared[q[2]]
            ELSE UNION {compared[q[2][i]] : i \in DOMAIN q[2]}
    IN  compared[p]

predsM(m) ==
    {inv.holds : inv \in ToSet(m.invs)} \cup {ev.guard : ev \in ToSet(m.evs)}

transformsM(m) ==
    {inv.repair : inv \in ToSet(m.invs)} \cup {ev.effect : ev \in ToSet(m.evs)}

exprsM(m) ==
    (UNION {exprsP(p) : p \in predsM(m)})
        \cup (UNION {{a[2] : a \in ToSet(t)} : t \in transformsM(m)})

Abs(x) == IF x < 0 THEN -x ELSE x

varBound(m, i) ==
    Larger(Abs(entry(m.mins, i, 0)),
           Abs(entry(m.mins, i, 0) + entry(m.doms, i, 0) - 1))

\* A bound on the absolute value of an expression in every state of the box.
bnd(m, e) ==
    LET bound[x \in Expr] ==
            IF x[1] = "var" THEN varBound(m, x[2])
            ELSE IF x[1] = "lit" THEN Abs(x[2])
            ELSE bound[x[2]] + bound[x[3]]
    IN  bound[e]

\* (Mutation: only what the predicates compare is bounded.)
ComparedBounded(m) ==
    \A e \in UNION {exprsP(p) : p \in predsM(m)} : bnd(m, e) <= MaxAbs

bounded(m) == \A e \in exprsM(m) : bnd(m, e) <= MaxAbs

\* The least and the greatest value of an expression, by intervals.
ends(m, e) ==
    LET between[x \in Expr] ==
            IF x[1] = "var"
            THEN <<entry(m.mins, x[2], 0),
                   entry(m.mins, x[2], 0) + entry(m.doms, x[2], 1) - 1>>
            ELSE IF x[1] = "lit" THEN <<x[2], x[2]>>
            ELSE IF x[1] = "add"
            THEN <<between[x[2]][1] + between[x[3]][1],
                   between[x[2]][2] + between[x[3]][2]>>
            ELSE <<between[x[2]][1] - between[x[3]][2],
                   between[x[2]][2] - between[x[3]][1]>>
    IN  between[e]

lo(m, e) == ends(m, e)[1]
hi(m, e) == ends(m, e)[2]

binaryVar(m, i) == entry(m.doms, i, 0) = 2 /\ entry(m.mins, i, 0) = 0

signSafe(m) ==
    \A t \in transformsM(m) : \A a \in ToSet(t) :
        binaryVar(m, a[1]) => lo(m, a[2]) >= 0

checkBuild(m) ==
    bounded(m) /\ signSafe(m) /\ pairsOkA(m) /\ WFC(m) /\ ccA(m)
=============================================================================
