---------------------------- MODULE RuleMachines -----------------------------
(***************************************************************************)
(* Machines to check and to run.  Most are regression cases of the rule    *)
(* checker (extraction/tests/cases, ast-<name>.machine and .pairs, with    *)
(* the verdicts of cases.tsv; a literal at the limit of the source's       *)
(* integers is one at the limit of these).  atomic_not_descent is the      *)
(* counterexample of AtomicRepair.v, implications a small form of the      *)
(* machine bool10 of extraction/tests/run.sh with a second implication,    *)
(* add_remove_inc the witness of CausalReplay.v with a bounded counter.    *)
(* Variables and events count from 1.                                      *)
(***************************************************************************)
EXTENDS Rules

Var(i) == <<"var", i>>
Lit(v) == <<"lit", v>>
Add(a, b) == <<"add", a, b>>
Sub(a, b) == <<"sub", a, b>>
Set(i, e) == <<i, e>>
Always == <<"and", <<>>>>

Inv(p, t) == [holds |-> p, repair |-> t]
Ev(t) == [guard |-> Always, effect |-> t]
EvWhen(p, t) == [guard |-> p, effect |-> t]

Machine(doms, mins, bools, invs, evs) ==
    [go |-> FALSE, doms |-> doms, mins |-> mins, bools |-> bools,
     invs |-> invs, evs |-> evs, declared |-> FALSE, indep |-> {}]

Declaring(ps, ma) == [ma EXCEPT !.declared = TRUE, !.indep = ps]

AtMost(i, v) == Inv(<<"le", Var(i), Lit(v)>>, <<Set(i, Lit(v))>>)
Increment(i) == <<Set(i, Add(Var(i), Lit(1)))>>
Assign(i, v) == <<Set(i, Lit(v))>>
Implied(i, j) == Inv(<<"le", Var(i), Var(j)>>, Assign(j, 1))
SumPositive ==
    Inv(<<"le", Lit(1), Add(Var(1), Var(2))>>, Assign(1, 1))

declared_pairs ==
    Machine(<<2, 2>>, <<0, 0>>, {1, 2}, <<>>,
            <<Ev(Assign(1, 0)), Ev(Assign(1, 1)), Ev(Assign(2, 1))>>)

RegressionMachines ==
    [good |->
        Machine(<<6, 6, 2>>, <<0, 0, 0>>, {3}, <<AtMost(1, 3)>>,
                <<Ev(Increment(1)), Ev(Increment(2)), Ev(Assign(3, 1))>>),
     bad |->
        Machine(<<6, 6>>, <<0, 0>>, {}, <<AtMost(1, 3)>>,
                <<Ev(Increment(1) \o Increment(2)), Ev(Assign(2, 0))>>),
     doc_example |->
        Machine(<<4, 4, 2>>, <<0, -3, 0>>, {3}, <<AtMost(1, 3)>>,
                <<Ev(Increment(1)),
                  EvWhen(<<"lt", Var(2), Lit(3)>>, Increment(2))>>),
     binary_toggle |->
        Machine(<<2, 2>>, <<0, 0>>, {1, 2}, <<>>,
                <<Ev(<<Set(1, Sub(Lit(1), Var(1)))>>), Ev(Assign(2, 1))>>),
     bool_negative_write |->
        Machine(<<2, 2, 2>>, <<0, 1, 0>>, {1, 3}, <<>>,
                <<Ev(<<Set(3, Sub(Var(1), Var(2)))>>), Ev(Assign(1, 1))>>),
     sub_guard |->
        Machine(<<2, 2, 2>>, <<0, 0, 0>>, {1, 2, 3}, <<>>,
                <<EvWhen(<<"lt", Sub(Var(1), Var(2)), Lit(0)>>, Assign(3, 1)),
                  Ev(Assign(1, 1))>>),
     neg_literal |->
        Machine(<<2, 2, 2>>, <<0, 0, 0>>, {1, 2, 3}, <<>>,
                <<EvWhen(<<"lt", Add(Var(1), Lit(-1)), Lit(0)>>, Assign(3, 1)),
                  Ev(Assign(1, 1))>>),
     neg_min_good |->
        Machine(<<2, 2>>, <<-2, 0>>, {2}, <<>>,
                <<Ev(Increment(1)), Ev(Assign(2, 1))>>),
     overflow_bound |->
        Machine(<<2>>, <<0>>, {}, <<>>,
                <<Ev(<<Set(1, Sub(Lit(MaxAbs), Lit(-MaxAbs)))>>)>>),
     wfc_unreachable |->
        Machine(<<3>>, <<0>>, {},
                <<Inv(<<"le", Var(1), Lit(1)>>, Assign(1, 2))>>,
                <<Ev(Assign(1, 0))>>),
     zero_invalid_cc |->
        Machine(<<2, 2>>, <<0, 0>>, {1, 2}, <<SumPositive>>,
                <<Ev(Assign(1, 1)),
                  EvWhen(<<"eq", Var(1), Lit(0)>>, Assign(2, 1))>>),
     zero_guard_false |->
        Machine(<<2, 2>>, <<0, 0>>, {1, 2}, <<SumPositive>>,
                <<EvWhen(<<"eq", Var(1), Lit(1)>>, Assign(2, 1)),
                  EvWhen(<<"eq", Var(1), Lit(0)>>, Assign(2, 1))>>),
     invalid_state |->
        Machine(<<3>>, <<0>>, {}, <<AtMost(1, 1)>>,
                <<EvWhen(<<"eq", Var(1), Lit(2)>>, Assign(1, 0)),
                  EvWhen(<<"eq", Var(1), Lit(2)>>, Assign(1, 1))>>),
     undeclared_pairs |-> declared_pairs,
     declared_pairs |-> Declaring({<<1, 3>>, <<2, 3>>}, declared_pairs),
     declared_pair_fails |-> Declaring({<<1, 2>>}, declared_pairs),
     pair_range |-> Declaring({<<1, 4>>}, declared_pairs),
     second_pair_fails |-> Declaring({<<1, 3>>, <<1, 2>>}, declared_pairs),
     atomic_not_descent |->
        Machine(<<3>>, <<0>>, {},
                <<Inv(<<"le", Var(1), Lit(1)>>, Assign(1, 0))>>,
                <<Ev(Assign(1, 2)), Ev(<<Set(1, Sub(Var(1), Lit(1)))>>)>>),
     implications |->
        Machine(<<2, 2, 2>>, <<0, 0, 0>>, {1, 2, 3},
                <<Implied(1, 2), Implied(2, 3)>>,
                <<Ev(Assign(1, 1)), Ev(Assign(2, 1)), Ev(Assign(3, 1))>>),
     add_remove_inc |->
        Declaring({<<1, 3>>, <<2, 3>>},
            Machine(<<2, 4>>, <<0, 0>>, {1}, <<>>,
                    <<Ev(Assign(1, 1)), Ev(Assign(1, 0)),
                      Ev(Increment(2))>>))]

(***************************************************************************)
(* Rules with at most one operation in an expression and no connective     *)
(* but the empty conjunction: those of these machines are among them.      *)
(***************************************************************************)
Atoms ==
    {Var(i) : i \in 1 .. 3}
        \cup {Lit(v) : v \in (-1 .. 3) \cup {-MaxAbs, MaxAbs, MaxAbs + 1}}

RuleExprs == Atoms \cup ({"add", "sub"} \X Atoms \X Atoms)

RulePreds ==
    {Always} \cup ({"le", "lt", "eq"} \X RuleExprs \X Atoms)
             \cup ({"le", "lt", "eq"} \X Atoms \X RuleExprs)

depth(e) == IF e[1] \in {"add", "sub"} THEN 1 ELSE 0
=============================================================================
