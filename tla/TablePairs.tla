----------------------------- MODULE TablePairs ------------------------------
(***************************************************************************)
(* The declared pairs of a table oracle's events (TableCheck.v,            *)
(* oracle_gen.go): a list, or all of them.  Events count from 0.           *)
(***************************************************************************)
EXTENDS Integers, Sequences

All == [all |-> TRUE, list |-> <<>>]
Only(ps) == [all |-> FALSE, list |-> ps]

\* (Mutation: the last event is in no pair.)
LastEventMissed(nE) ==
    {p \in (0 .. nE - 2) \X (0 .. nE - 2) : p[1] < p[2]}

allPairsT(nE) == {p \in (0 .. nE - 1) \X (0 .. nE - 1) : p[1] < p[2]}

pairsOfT(nE, P) ==
    IF P.all THEN allPairsT(nE) ELSE {P.list[i] : i \in DOMAIN P.list}

pairs_okW(nE, P) == \A p \in pairsOfT(nE, P) : p[1] < nE /\ p[2] < nE
=============================================================================
