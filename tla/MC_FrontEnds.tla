---------------------------- MODULE MC_FrontEnds -----------------------------
(***************************************************************************)
(* The commands on small files: rulecheck on the machines of RuleMachines, *)
(* also with forms dropped, repeated, exchanged, added or changed, and     *)
(* tablecheck on every table of two states, on tables of three, and on     *)
(* tables with a token lost, added or changed.  One command runs at a      *)
(* time; the other has no file.                                            *)
(***************************************************************************)
EXTENDS RuleMachines, RuleCheck, TableCheck, TLC

vars == <<ruleVars, tableVars>>

Without(s, i) == SubSeq(s, 1, i - 1) \o SubSeq(s, i + 1, Len(s))
Exchanged(s, i) == [s EXCEPT ![i] = s[i + 1], ![i + 1] = s[i]]

-----------------------------------------------------------------------------
FormsOf(k) ==
    LET ma == RegressionMachines[k] IN
    <<<<"doms", ma.doms>>>>
        \o (IF \E i \in DOMAIN ma.mins : ma.mins[i] # 0
            THEN <<<<"mins", ma.mins>>>> ELSE <<>>)
        \o [i \in DOMAIN ma.invs |-> <<"inv", ma.invs[i].holds, ma.invs[i].repair>>]
        \o [i \in DOMAIN ma.evs |->
               IF ma.evs[i].guard = Always THEN <<"ev", ma.evs[i].effect>>
               ELSE <<"evwhen", ma.evs[i].guard, ma.evs[i].effect>>]

\* One edit of a machine file.
Edits(fs) ==
    LET d == fs[1][2] IN
    {fs}
        \cup {Without(fs, i) : i \in DOMAIN fs}
        \cup {InsertAt(fs, i, fs[i]) : i \in DOMAIN fs}
        \cup {Exchanged(fs, i) : i \in 1 .. Len(fs) - 1}
        \cup {Append(fs, f) :
                 f \in {<<"unknown">>,
                        <<"mins", [i \in DOMAIN d |-> 0]>>,
                        <<"mins", <<>>>>,
                        <<"mins", [i \in DOMAIN d |-> MaxAbs - d[i] + 1]>>,
                        <<"mins", [i \in DOMAIN d |-> MaxAbs]>>,
                        <<"mins", [i \in DOMAIN d |-> -MaxAbs - 1]>>,
                        <<"inv", <<"le", Var(1), Lit(0)>>, <<>>>>,
                        <<"ev", Assign(1, MaxAbs + 1)>>,
                        <<"ev", Assign(Len(d) + 1, 0)>>,
                        <<"ev", <<Set(1, <<"bad">>)>>>>,
                        <<"evwhen", <<"bad">>, <<>>>>}}
        \cup {<<<<"doms", e>>>> \o Tail(fs) :
                 e \in {Tail(d), <<0>> \o Tail(d), <<MaxStates + 1>> \o Tail(d),
                        <<2>> \o Tail(d)}}

\* The declared pairs, counted from 0 in the file.
PairTokens(ps) == FlattenSeq([i \in DOMAIN ps |-> <<Num(ps[i][1]), Num(ps[i][2])>>])
PairsText(ps) == <<Key("pairs"), Num(Len(ps))>> \o PairTokens(ps)

PairFiles ==
    {<<>>, <<Key("pairs")>>, <<Key("pairs"), Key("all")>>,
     <<Key("pairs"), Num(1), Num(0)>>, <<Key("pairs"), Num(-1)>>,
     <<Key("pairs"), Num(1), Num(0), Key("all")>>,
     <<Key("pairs"), Num(0), Num(0), Num(1)>>}
        \cup {PairsText(ps) : ps \in {<<>>, <<<<0, 2>>, <<1, 2>>>>, <<<<0, 1>>>>,
                                      <<<<0, 3>>>>, <<<<0, 2>>, <<1, 0>>>>}}

SmallRuleFiles ==
    UNION {[forms : Edits(FormsOf(k)), given : {FALSE}, pairs : {<<>>}]
           \cup [forms : {FormsOf(k)}, given : {TRUE}, pairs : PairFiles] :
              k \in DOMAIN RegressionMachines}

AllExprs == RuleExprs
AllPreds == RulePreds

-----------------------------------------------------------------------------
\* What a machine file means: its forms by kind, whatever their order.
Of(heads, fs) == SelectSeq(fs, LAMBDA f : f[1] \in heads)

Denoted(fs) ==
    LET d == Of({"doms"}, fs)[1][2]
        ms == Of({"mins"}, fs) IN
    [Empty EXCEPT
        !.doms = d,
        !.mins = IF ms = <<>> THEN [i \in DOMAIN d |-> 0] ELSE ms[1][2],
        !.invs = [i \in DOMAIN Of({"inv"}, fs) |->
                     [holds |-> Of({"inv"}, fs)[i][2],
                      repair |-> Of({"inv"}, fs)[i][3]]],
        !.evs = [i \in DOMAIN Of({"ev", "evwhen"}, fs) |->
                    LET f == Of({"ev", "evwhen"}, fs)[i] IN
                    [guard |-> Guard(f), effect |-> Effect(f)]]]

\* The files that are machines: doms once and before every rule, at most one
\* mins, of the same length.
WellFormed(fs) ==
    /\ \A i \in DOMAIN fs : fs[i][1] \in RuleHeads \cup {"doms", "mins"}
    /\ Len(Of({"doms"}, fs)) = 1 /\ Len(Of({"mins"}, fs)) <= 1
    /\ \A i, j \in DOMAIN fs : fs[i][1] = "doms" /\ fs[j][1] \in RuleHeads => i < j
    /\ LET d == Of({"doms"}, fs)[1][2]
           rules == Of(RuleHeads, fs) IN
       /\ \A i \in DOMAIN d : d[i] >= 1
       /\ prodL(d) <= MaxStates
       /\ \A i \in DOMAIN Of({"mins"}, fs) : Len(Of({"mins"}, fs)[i][2]) = Len(d)
       /\ \A i \in DOMAIN rules : RuleOk(rules[i], Len(d))

\* A declaration is all the pairs or a list of pairs of events there are.
Declaration(f) ==
    IF ~ f.given \/ f.pairs = <<Key("pairs"), Key("all")>> THEN {All}
    ELSE {Only(ps) : ps \in {q \in UNION {[1 .. k -> (0 .. 3) \X (0 .. 3)] : k \in 0 .. 2} :
             /\ f.pairs = PairsText(q)
             /\ \A i \in DOMAIN q : q[i][1] < Len(Of({"ev", "evwhen"}, f.forms))
                                    /\ q[i][2] < Len(Of({"ev", "evwhen"}, f.forms))}}

\* No number of the machine leaves the runtime's int.
Fits(ma) ==
    /\ \A e \in exprsM(ma) : \A v \in LiteralsE(e) : InFragment(v)
    /\ \A i \in DOMAIN ma.doms :
          InFragment(ma.mins[i]) /\ InFragment(ma.mins[i] + ma.doms[i] - 1)

\* checkBuild as AstChecker.v writes it, the pairs in its form.
Declares(ma, P) ==
    IF P.all THEN ma
    ELSE [ma EXCEPT !.declared = TRUE,
                    !.indep = {<<p[1] + 1, p[2] + 1>> : p \in ToSet(P.list)}]

(***************************************************************************)
(* rulecheck ends with 2 exactly on the files that are no machine or no    *)
(* declaration of pairs, and otherwise with 0 exactly when the machine     *)
(* the file means fits the runtime's int and checkBuild certifies it: the  *)
(* order of reading, the defaults, and the packed tables of checkBuildC    *)
(* change no verdict (checkBuildC_eq).  The reason it prints is the one    *)
(* that holds: repair does not reach a valid state, or it always does and  *)
(* a declared pair of events does not commute.                             *)
(***************************************************************************)
VerdictIsCheckBuild ==
    /\ exit \in {"0", "1", "2"} =>
          LET D == IF WellFormed(file.forms) THEN Declaration(file) ELSE {} IN
          IF D = {} THEN exit = "2"
          ELSE LET ma == Denoted(file.forms) IN
               exit = IF Fits(ma) /\ \A P \in D : checkBuild(Declares(ma, P))
                      THEN "0" ELSE "1"
    /\ said = "repair" => ~ WFC(m)
    /\ said = "commute" => WFC(m) /\ ~ ccA(Declares(m, declared))

(***************************************************************************)
(* The oracle that lists the box agrees with the one that packs it, and on *)
(* a machine that repairs to valid states the table oracles, over the      *)
(* tables a runtime builds from it, agree with the commutation check       *)
(* (checkBuildT_eq, tables_fn_eq).                                         *)
(***************************************************************************)
Table(ma) ==
    LET bx == boxT(ma.doms) IN
    [nf |-> mapT(LAMBDA v : enc(ma.doms, normalize(ma, v)), bx),
     rows |-> [e \in DOMAIN ma.evs |->
                  mapT(LAMBDA v : enc(ma.doms, stepI(ma, e, v)), bx)]]

OraclesAgree ==
    /\ exit = "judge" /\ ~ outOfFragment =>
          checkBuildT(m, declared) = checkBuildC(m, declared)
    /\ said \in {"OK", "commute"} =>
          LET t == Table(m) IN
          check_fast(Len(t.nf), Len(m.evs), t.nf, t.rows, declared) = (said = "OK")

-----------------------------------------------------------------------------
Nums(s) == [i \in DOMAIN s |-> Num(s[i])]

Headed(k, nfs, ps, steps) ==
    <<Key("gsm-tables"), Num(2), Num(Len(nfs)), Num(k), Key("nf")>>
        \o Nums(nfs) \o ps \o Nums(steps)

Bare(k, l, steps) == <<Num(k), Num(l)>> \o Nums(steps)

AllPairsText == <<Key("pairs"), Key("all")>>

Tables2 ==
    {Headed(2, nfs, ps, steps) :
        nfs \in [1 .. 2 -> 0 .. 2], steps \in [1 .. 4 -> 0 .. 2],
        ps \in {AllPairsText, PairsText(<<>>), PairsText(<<<<1, 0>>>>)}}
    \cup {Bare(2, 2, steps) : steps \in [1 .. 4 -> 0 .. 2]}

Tables3 ==
    {Headed(2, nfs, AllPairsText, steps) :
        nfs \in {<<0, 1, 2>>, <<0, 1, 1>>, <<1, 1, 2>>},
        steps \in [1 .. 6 -> 0 .. 2]}

\* Three events, the third independent of the others.
Tables3x3 ==
    {Headed(3, <<0, 1, 2>>, PairsText(<<<<0, 2>>, <<2, 1>>>>), s1 \o s2) :
        s1 \in [1 .. 6 -> {0, 2}], s2 \in [1 .. 3 -> 0 .. 2]}

Good == Headed(2, <<0, 1, 1>>, PairsText(<<<<0, 1>>>>), <<1, 1, 1, 0, 1, 0>>)

BadTables ==
    {Without(Good, i) : i \in DOMAIN Good}
        \cup {[Good EXCEPT ![i] = t] : i \in DOMAIN Good,
                 t \in {Num(MaxNat + 1), Num(0), Num(3), Key("all")}}
        \cup {Append(Good, Num(0)), <<>>, <<Num(0), Num(0)>>, <<Num(1), Num(0)>>}

SmallTableFiles == Tables2 \cup Tables3 \cup Tables3x3 \cup BadTables

NoRuleFile == [forms |-> <<>>, given |-> FALSE, pairs |-> <<>>]

RuleIdle ==
    /\ file = NoRuleFile /\ at = 0 /\ have = {} /\ m = Empty /\ declared = All
    /\ outOfFragment = FALSE /\ exit = "none" /\ said = ""

TableIdle ==
    /\ toks = <<>> /\ pos = 0 /\ stage = "stopped" /\ v2 = FALSE /\ n = 0
    /\ ne = 0 /\ nf = <<>> /\ pairs = All /\ rows = <<>>
    /\ status = "running" /\ x = 0 /\ y = 0 /\ held = None

Init == (RuleInit /\ TableIdle) \/ (TableInit /\ RuleIdle)

Next == (RuleNext /\ UNCHANGED tableVars) \/ (TableNext /\ UNCHANGED ruleVars)

Spec == Init /\ [][Next]_vars
=============================================================================
