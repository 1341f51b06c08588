----------------------------- MODULE TableCheck ------------------------------
(***************************************************************************)
(* The command tablecheck (cmd/tablecheck/main.go) from its first token to *)
(* its exit status, and two replicas that then run the accepted tables,    *)
(* one of them some events late: what the verdict promises (TableFn.v,     *)
(* check_fn_converges).                                                    *)
(*                                                                         *)
(* A file is a sequence of tokens: an optional header, the numbers of      *)
(* states and of events, with the header the normal forms and the declared *)
(* pairs, then the steps, one row of n states for each event.              *)
(***************************************************************************)
EXTENDS FastOracle, Tokens

CONSTANT TableFiles   \* the files to read

VARIABLES toks,    \* the file
          pos,     \* tokens read
          stage,   \* what is read next
          v2,      \* the file has a header
          n, ne,   \* the numbers of states and events
          nf,      \* the normal forms
          pairs,   \* the declared pairs
          rows,    \* the steps, by event
          status,  \* the exit status
          x, y,    \* the states of the replica that is ahead and of the other
          held     \* the event the other replica is behind by, if any

parsed == <<v2, n, ne, nf, pairs, rows>>
replicas == <<x, y, held>>
tableVars == <<toks, pos, stage, parsed, status, replicas>>

None == -1

TableInit ==
    /\ toks \in TableFiles
    /\ pos = 0 /\ stage = "header" /\ v2 = FALSE /\ n = 0 /\ ne = 0
    /\ nf = <<>> /\ pairs = All /\ rows = <<>>
    /\ status = "running" /\ x = 0 /\ y = 0 /\ held = None

Stop(s) ==
    /\ status' = s /\ stage' = "stopped"
    /\ UNCHANGED <<toks, pos, parsed, replicas>>

failInput == Stop("error")

Rest == Len(toks) - pos

At(i) == toks[pos + i]

\* A file that names another version is refused, one without a header is the
\* first version.
ReadHeader ==
    /\ stage = "header"
    /\ IF Rest > 0 /\ At(1) = Key("gsm-tables")
       THEN IF Rest > 1 /\ At(2) = Num(2)
            THEN /\ v2' = TRUE /\ pos' = 2 /\ stage' = "sizes"
                 /\ UNCHANGED <<toks, n, ne, nf, pairs, rows, status, replicas>>
            ELSE failInput
       ELSE /\ stage' = "sizes"
            /\ UNCHANGED <<toks, pos, parsed, status, replicas>>

ReadSizes ==
    /\ stage = "sizes"
    /\ IF AreNats(toks, pos + 1, 2) /\ At(1)[2] >= 1
          /\ At(1)[2] * At(2)[2] <= Len(toks)
       THEN /\ n' = At(1)[2] /\ ne' = At(2)[2] /\ pos' = pos + 2
            /\ stage' = IF v2 THEN "nf" ELSE "steps"
            /\ nf' = [s \in 1 .. n' |-> IF v2 THEN 0 ELSE s - 1]
            /\ UNCHANGED <<toks, v2, pairs, rows, status, replicas>>
       ELSE failInput

ReadNF ==
    /\ stage = "nf"
    /\ IF Rest > 0 /\ At(1) = Key("nf") /\ AreNats(toks, pos + 2, n)
       THEN /\ nf' = [s \in 1 .. n |-> At(1 + s)[2]]
            /\ pos' = pos + 1 + n /\ stage' = "pairs"
            /\ UNCHANGED <<toks, v2, n, ne, pairs, rows, status, replicas>>
       ELSE failInput

ReadAllPairs ==
    /\ stage = "pairs" /\ Rest > 1
    /\ At(1) = Key("pairs") /\ At(2) = Key("all")
    /\ pos' = pos + 2 /\ stage' = "steps"
    /\ UNCHANGED <<toks, parsed, status, replicas>>

ReadPairs ==
    /\ stage = "pairs"
    /\ ~ (Rest > 1 /\ At(1) = Key("pairs") /\ At(2) = Key("all"))
    /\ IF Rest > 1 /\ At(1) = Key("pairs") /\ IsNat(At(2))
          /\ AreNats(toks, pos + 3, 2 * At(2)[2])
          /\ PairsBelow(PairsAt(toks, pos + 3, At(2)[2]), ne)
       THEN /\ pairs' = Only(PairsAt(toks, pos + 3, At(2)[2]))
            /\ pos' = pos + 2 + 2 * At(2)[2] /\ stage' = "steps"
            /\ UNCHANGED <<toks, v2, n, ne, nf, rows, status, replicas>>
       ELSE failInput

\* Exactly one entry is left for each event and state.
ReadSteps ==
    /\ stage = "steps"
    /\ IF Rest = n * ne /\ AreNats(toks, pos + 1, n * ne)
       THEN /\ rows' = [e \in 1 .. ne |->
                           [s \in 1 .. n |-> At((e - 1) * n + s)[2]]]
            /\ pos' = Len(toks) /\ stage' = "judge"
            /\ UNCHANGED <<toks, v2, n, ne, nf, pairs, status, replicas>>
       ELSE failInput

\* The accessors the oracle reads: 0 outside the tables.
nfA(s) == IF s \in 0 .. n - 1 THEN nf[s + 1] ELSE 0
stA(e, s) ==
    IF e \in 0 .. ne - 1 /\ s \in 0 .. n - 1 THEN rows[e + 1][s + 1] ELSE 0

Oracle == INSTANCE TableOracle WITH nf <- nfA, st <- stA

CheckTables ==
    /\ stage = "judge"
    /\ IF Oracle!check_fn(n, ne, pairs) THEN Stop("OK") ELSE Stop("FAIL")

(***************************************************************************)
(* The replicas start alike, at a valid state or the zero state.  An event *)
(* reaches both at once (Deliver), or the other one late (Delay), and may  *)
(* pass the late one if the two are declared independent (DeliverPast).    *)
(***************************************************************************)
Served == status = "OK" /\ stage = "serving"

indep(a, b) ==
    \/ pairs.all
    \/ <<a, b>> \in pairsOfT(ne, pairs)
    \/ <<b, a>> \in pairsOfT(ne, pairs)

Start ==
    /\ status = "OK" /\ stage = "stopped"
    /\ \E s \in 0 .. n - 1 : Oracle!inDf(n, s) /\ x' = s /\ y' = s
    /\ stage' = "serving"
    /\ UNCHANGED <<toks, pos, parsed, status, held>>

Deliver(e) ==
    /\ Served /\ held = None
    /\ x' = stA(e, x) /\ y' = stA(e, y)
    /\ UNCHANGED <<toks, pos, stage, parsed, status, held>>

Delay(e) ==
    /\ Served /\ held = None
    /\ x' = stA(e, x) /\ held' = e
    /\ UNCHANGED <<toks, pos, stage, parsed, status, y>>

DeliverPast(e) ==
    /\ Served /\ held # None /\ indep(held, e)
    /\ x' = stA(e, x) /\ y' = stA(e, y)
    /\ UNCHANGED <<toks, pos, stage, parsed, status, held>>

CatchUp ==
    /\ Served /\ held # None
    /\ y' = stA(held, y) /\ held' = None
    /\ UNCHANGED <<toks, pos, stage, parsed, status, x>>

Read ==
    \/ ReadHeader \/ ReadSizes \/ ReadNF \/ ReadAllPairs \/ ReadPairs
    \/ ReadSteps \/ CheckTables

Serve ==
    \/ Start \/ CatchUp
    \/ \E e \in 0 .. ne - 1 : Deliver(e) \/ Delay(e) \/ DeliverPast(e)

TableNext == Read \/ Serve

TableSpec == TableInit /\ [][TableNext]_tableVars

-----------------------------------------------------------------------------
Loaded == stage = "judge" \/ status \in {"OK", "FAIL"}

(***************************************************************************)
(* Types: once the sizes are read there is a normal form for each state,   *)
(* and what the oracle is given is a full table of numbers that natOf      *)
(* accepts.                                                                *)
(***************************************************************************)
TableTypeOK ==
    /\ pos \in Nat /\ v2 \in BOOLEAN
    /\ stage \in {"header", "sizes", "nf", "pairs", "steps", "judge",
                  "stopped", "serving"}
    /\ status \in {"running", "error", "OK", "FAIL"}
    /\ n \in Nat /\ ne \in Nat
    /\ x \in Nat /\ y \in Nat /\ held \in Nat \cup {None}
    /\ stage \in {"nf", "pairs", "steps"} \/ Loaded => nf \in [1 .. n -> Nat]
    /\ Loaded => rows \in [1 .. ne -> [1 .. n -> 0 .. MaxNat]]

(***************************************************************************)
(* Replicas of accepted tables that have had the same events are in the    *)
(* same state, a valid one or the zero state, whatever independent events  *)
(* one of them had earlier than the other (check_fn_converges).            *)
(***************************************************************************)
AcceptedConverges ==
    Served /\ held = None => x = y /\ Oracle!inDf(n, x)

(***************************************************************************)
(* On every table tablecheck reads, the oracle over lists, with its cells, *)
(* its blocks and its trie, answers as the one it asks (check_fast_fn).    *)
(***************************************************************************)
FastAgrees ==
    stage = "judge" =>
        (check_fast(n, ne, nf, rows, pairs) <=> Oracle!check_fn(n, ne, pairs))
=============================================================================
