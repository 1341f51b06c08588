----------------------------- MODULE TableOracle -----------------------------
(***************************************************************************)
(* The table oracle check_fn (TableFn.v, oracle_gen.go): n states and nE   *)
(* events, counted from 0.  The caller gives the functions that look up    *)
(* normal forms and steps.                                                 *)
(***************************************************************************)
EXTENDS TablePairs

CONSTANTS nf(_),     \* the normal form of a state
          st(_, _)   \* the state after an event at a state

\* A valid state is its own normal form.
inVf(n, x) == x < n /\ nf(x) = x

inDf(n, s) == s < n /\ (nf(s) = s \/ s = 0)

pair_okF(s, p) == st(p[1], st(p[2], s)) = st(p[2], st(p[1], s))

commF(s, rp) == \A p \in rp : pair_okF(s, p)

state_okF(n, nE, rp, s) ==
    /\ inVf(n, nf(s))
    /\ \A e \in 0 .. nE - 1 : inVf(n, st(e, s))
    /\ inDf(n, s) => commF(s, rp)

check_fn(n, nE, P) ==
    /\ pairs_okW(nE, P)
    /\ \A s \in 0 .. n - 1 : state_okF(n, nE, pairsOfT(nE, P), s)
=============================================================================
