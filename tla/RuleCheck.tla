------------------------------ MODULE RuleCheck ------------------------------
(***************************************************************************)
(* The command rulecheck (cmd/rulecheck/main.go) from its first form to    *)
(* its exit status.  A machine file is a sequence of forms, a pairs file,  *)
(* if one is given, a sequence of tokens.  Expressions, predicates and     *)
(* assignments are those of Rules, where a file may also name a variable   *)
(* that does not exist, write a number out of range, or be malformed       *)
(* (<<"bad">>).  A word is out of the fragment if it is a number the       *)
(* runtime's int could wrap on: reading goes on, with 0.                   *)
(***************************************************************************)
EXTENDS CompactOracle, Tokens

CONSTANTS RuleFiles,   \* the files to read: forms and given pairs
          MaxStates    \* the largest box accepted (2^24 in the source)

VARIABLES file,            \* the files
          at,              \* forms read
          have,            \* which of doms and mins were given
          m,               \* the machine read so far
          declared,        \* the pairs read
          outOfFragment,
          exit,            \* the exit status
          said             \* the reason printed with it

ruleVars == <<file, at, have, m, declared, outOfFragment, exit, said>>

Forms == file.forms

Empty == [go |-> FALSE, doms |-> <<>>, mins |-> <<>>, bools |-> {},
          invs |-> <<>>, evs |-> <<>>, declared |-> FALSE, indep |-> {}]

RuleInit ==
    /\ file \in RuleFiles
    /\ at = 0 /\ have = {} /\ m = Empty /\ declared = All
    /\ outOfFragment = FALSE /\ exit = "running" /\ said = ""

RuleHeads == {"inv", "ev", "evwhen"}

InFragment(v) == Abs(v) <= MaxAbs

valueOf(v) == IF InFragment(v) THEN v ELSE 0

\* Only a variable of the doms read before.
varIndex(i, nv) == i \in 1 .. nv

RECURSIVE ExprOk(_, _), PredOk(_, _)
ExprOk(e, nv) ==
    CASE e[1] = "var" -> varIndex(e[2], nv)
      [] e[1] = "lit" -> TRUE
      [] e[1] \in {"add", "sub"} -> ExprOk(e[2], nv) /\ ExprOk(e[3], nv)
      [] OTHER -> FALSE
PredOk(p, nv) ==
    CASE p[1] \in {"le", "lt", "eq"} -> ExprOk(p[2], nv) /\ ExprOk(p[3], nv)
      [] p[1] \in {"and", "or"} -> \A i \in DOMAIN p[2] : PredOk(p[2][i], nv)
      [] p[1] = "not" -> PredOk(p[2], nv)
      [] OTHER -> FALSE

TransformOk(t, nv) ==
    \A i \in DOMAIN t : varIndex(t[i][1], nv) /\ ExprOk(t[i][2], nv)

\* The literals of an expression.
RECURSIVE LiteralsE(_)
LiteralsE(e) ==
    CASE e[1] = "lit" -> {e[2]}
      [] e[1] \in {"add", "sub"} -> LiteralsE(e[2]) \cup LiteralsE(e[3])
      [] OTHER -> {}

Literals(p, t) ==
    UNION {LiteralsE(e) : e \in exprsP(p) \cup {t[i][2] : i \in DOMAIN t}}

RECURSIVE buildExpr(_), buildPred(_)
buildExpr(e) ==
    CASE e[1] = "lit" -> <<"lit", valueOf(e[2])>>
      [] e[1] \in {"add", "sub"} -> <<e[1], buildExpr(e[2]), buildExpr(e[3])>>
      [] OTHER -> e
buildPred(p) ==
    CASE p[1] \in {"le", "lt", "eq"} -> <<p[1], buildExpr(p[2]), buildExpr(p[3])>>
      [] p[1] \in {"and", "or"} -> <<p[1], mapT(buildPred, p[2])>>
      [] p[1] = "not" -> <<"not", buildPred(p[2])>>

buildTransform(t) == mapT(LAMBDA a : <<a[1], buildExpr(a[2])>>, t)

-----------------------------------------------------------------------------
Exit(s, why) ==
    /\ exit' = s /\ said' = why
    /\ UNCHANGED <<file, at, have, m, declared, outOfFragment>>

failf == Exit("2", "parse error")

\* The next form, if its head is one of these.
Form(heads) == at < Len(Forms) /\ exit = "running" /\ Forms[at + 1][1] \in heads

ReadDoms ==
    /\ Form({"doms"})
    /\ LET ds == Forms[at + 1][2] IN
       IF /\ \A i \in DOMAIN ds : ds[i] \in 1 .. MaxNat
          /\ prodL(ds) <= MaxStates
          /\ "doms" \notin have
       THEN /\ m' = [m EXCEPT !.doms = ds] /\ have' = have \cup {"doms"}
            /\ at' = at + 1
            /\ UNCHANGED <<file, declared, outOfFragment, exit, said>>
       ELSE failf

ReadMins ==
    /\ Form({"mins"})
    /\ LET ms == Forms[at + 1][2] IN
       IF "mins" \in have THEN failf
       ELSE /\ m' = [m EXCEPT !.mins = mapT(valueOf, ms)]
            /\ have' = have \cup {"mins"} /\ at' = at + 1
            /\ outOfFragment' = (outOfFragment
                   \/ \E i \in DOMAIN ms : ~ InFragment(ms[i]))
            /\ UNCHANGED <<file, declared, exit, said>>

\* The guard of a form of rules: an event without one is always on.
Guard(f) == IF f[1] = "ev" THEN <<"and", <<>>>> ELSE f[2]
Effect(f) == f[Len(f)]

RuleOk(f, nv) == PredOk(Guard(f), nv) /\ TransformOk(Effect(f), nv)

\* An invariant or an event, after doms.
ReadRule ==
    /\ Form(RuleHeads)
    /\ LET f == Forms[at + 1] IN
       IF ~ RuleOk(f, Len(m.doms)) THEN failf
       ELSE LET p == buildPred(Guard(f))
                t == buildTransform(Effect(f)) IN
            /\ m' = IF f[1] = "inv"
                    THEN [m EXCEPT !.invs = Append(@, [holds |-> p, repair |-> t])]
                    ELSE [m EXCEPT !.evs = Append(@, [guard |-> p, effect |-> t])]
            /\ outOfFragment' = (outOfFragment
                   \/ \E v \in Literals(Guard(f), Effect(f)) : ~ InFragment(v))
            /\ at' = at + 1
            /\ UNCHANGED <<file, have, declared, exit, said>>

ReadUnknown ==
    /\ at < Len(Forms) /\ exit = "running"
    /\ ~ Form(RuleHeads \cup {"doms", "mins"})
    /\ failf

\* After the last form: the minima default to 0 and must fit the domains.
EndOfMachine ==
    /\ at = Len(Forms) /\ exit = "running"
    /\ LET mins == IF "mins" \in have THEN m.mins ELSE mapT(LAMBDA d : 0, m.doms) IN
       IF "doms" \notin have \/ Len(mins) # Len(m.doms) THEN failf
       ELSE /\ m' = [m EXCEPT !.mins = mins]
            /\ outOfFragment' = (outOfFragment
                   \/ \E i \in DOMAIN mins : ~ InFragment(mins[i] + m.doms[i] - 1))
            /\ exit' = IF file.given THEN "pairs" ELSE "judge"
            /\ UNCHANGED <<file, at, have, declared, said>>

readPairs ==
    /\ exit = "pairs"
    /\ LET t == file.pairs IN
       IF t = <<Key("pairs"), Key("all")>>
       THEN /\ exit' = "judge"
            /\ UNCHANGED <<file, at, have, m, declared, outOfFragment, said>>
       ELSE IF /\ Len(t) >= 2 /\ t[1] = Key("pairs") /\ IsNat(t[2])
               /\ Len(t) = 2 + 2 * t[2][2] /\ AreNats(t, 3, 2 * t[2][2])
               /\ PairsBelow(PairsAt(t, 3, t[2][2]), Len(m.evs))
       THEN /\ declared' = Only(PairsAt(t, 3, t[2][2])) /\ exit' = "judge"
            /\ UNCHANGED <<file, at, have, m, outOfFragment, said>>
       ELSE failf

\* The fragment, then the oracle; WFC is asked again only to name the reason.
CheckRules ==
    /\ exit = "judge"
    /\ IF outOfFragment THEN Exit("1", "literal")
       ELSE IF ~ bounded(m) THEN Exit("1", "bounded")
       ELSE IF ~ signSafe(m) THEN Exit("1", "sign")
       ELSE IF checkBuildC(m, declared) THEN Exit("0", "OK")
       ELSE IF ~ WFC(m) THEN Exit("1", "repair")
       ELSE Exit("1", "commute")

RuleNext ==
    \/ ReadDoms \/ ReadMins \/ ReadRule \/ ReadUnknown \/ EndOfMachine
    \/ readPairs \/ CheckRules

RuleSpec == RuleInit /\ [][RuleNext]_ruleVars
=============================================================================
