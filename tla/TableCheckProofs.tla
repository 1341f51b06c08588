-------------------------- MODULE TableCheckProofs ---------------------------
(***************************************************************************)
(* For every set of files, of every size: what tablecheck accepts          *)
(* converges.  The invariant says what the late replica lacks (Behind):    *)
(* the other one is one step ahead of it.  It is preserved when an event   *)
(* passes the late one because the accepted tables commute on the states   *)
(* the late replica can be in, which are valid because every step of an    *)
(* accepted table lands on a valid state (Sound).                          *)
(***************************************************************************)
EXTENDS TableCheck, NaturalsInduction, WellFoundedInduction, TLAPS

States == 0 .. n - 1
Events == 0 .. ne - 1

Valid(s) == s \in States /\ nfA(s) = s
Domain(s) == s \in States /\ (nfA(s) = s \/ s = 0)

\* What the oracle's yes says of the tables.
Sound ==
    /\ \A e \in Events : \A s \in States : Valid(stA(e, s))
    /\ \A a, b \in Events : \A s \in States :
          indep(a, b) /\ Domain(s) => stA(a, stA(b, s)) = stA(b, stA(a, s))

Staged ==
    /\ stage \notin {"stopped", "serving"} => status = "running"
    /\ stage = "serving" => status = "OK"
    /\ stage # "serving" => held = None

Accepted == status = "OK" => Sound

Behind ==
    Served =>
        /\ Domain(y)
        /\ held = None => x = y
        /\ held # None => held \in Events /\ x = stA(held, y)

\* Every declared pair is a pair of numbers.
Numbered == \A i \in DOMAIN pairs.list : pairs.list[i] \in Nat \X Nat

IInv == TableTypeOK /\ Staged /\ Accepted /\ Behind /\ Numbered

-----------------------------------------------------------------------------
(* What the type invariant says of the tables.                             *)
LEMMA Sizes == ASSUME TableTypeOK PROVE n \in Nat /\ ne \in Nat
PROOF BY DEF TableTypeOK

LEMMA Tables ==
    ASSUME TableTypeOK, Loaded
    PROVE  nf \in [1 .. n -> Nat] /\ rows \in [1 .. ne -> [1 .. n -> 0 .. MaxNat]]
PROOF BY Zenon DEF TableTypeOK

(* The accessors return numbers, also outside the tables.                  *)
LEMMA AccessorTypes ==
    ASSUME TableTypeOK, Loaded
    PROVE  /\ \A s : nfA(s) \in Nat
           /\ \A e, s : stA(e, s) \in Nat
PROOF
<1>1. ASSUME NEW s PROVE nfA(s) \in Nat
  <2>1. CASE s \in 0 .. n - 1
    <3>1. s + 1 \in 1 .. n /\ nf \in [1 .. n -> Nat]
      BY <2>1, Sizes, Tables
    <3> QED BY <2>1, <3>1 DEF nfA
  <2> QED BY <2>1 DEF nfA
<1>2. ASSUME NEW e, NEW s PROVE stA(e, s) \in Nat
  <2>1. CASE e \in 0 .. ne - 1 /\ s \in 0 .. n - 1
    <3>1. s + 1 \in 1 .. n /\ e + 1 \in 1 .. ne
      BY <2>1, Sizes
    <3>2. rows[e + 1] \in [1 .. n -> 0 .. MaxNat]
      BY <3>1, Tables
    <3>3. rows[e + 1][s + 1] \in 0 .. MaxNat
      BY <3>1, <3>2
    <3> QED BY <2>1, <3>3, MaxNatAssumption DEF stA
  <2> QED BY <2>1 DEF stA
<1> QED BY <1>1, <1>2

(* check_fn says yes only on tables whose steps land on valid states and   *)
(* commute, for independent events, on the valid states and on 0.          *)
LEMMA CheckedIsSound ==
    ASSUME TableTypeOK, Loaded, Oracle!check_fn(n, ne, pairs)
    PROVE  Sound
PROOF
<1> USE DEF States, Events
<1>1. ASSUME NEW s \in States
      PROVE  /\ \A e \in Events : Oracle!inVf(n, stA(e, s))
             /\ Oracle!inDf(n, s) => Oracle!commF(s, Oracle!pairsOfT(ne, pairs))
  BY <1>1 DEF Oracle!check_fn, Oracle!state_okF
<1>2. ASSUME NEW e \in Events, NEW s \in States PROVE Valid(stA(e, s))
  <2>1. Oracle!inVf(n, stA(e, s))
    BY <1>1
  <2>2. stA(e, s) \in Nat
    BY AccessorTypes
  <2> QED BY <2>1, <2>2, Sizes DEF Oracle!inVf, Valid
<1>3. ASSUME NEW a \in Events, NEW b \in Events, NEW s \in States,
             indep(a, b), Domain(s)
      PROVE  stA(a, stA(b, s)) = stA(b, stA(a, s))
  <2>1. \A p \in pairsOfT(ne, pairs) :
           stA(p[1], stA(p[2], s)) = stA(p[2], stA(p[1], s))
    <3>1. Oracle!inDf(n, s)
      BY <1>3, Sizes DEF Domain, Oracle!inDf
    <3>2. Oracle!pairsOfT(ne, pairs) = pairsOfT(ne, pairs)
      BY DEF Oracle!pairsOfT, Oracle!allPairsT, pairsOfT, allPairsT
    <3> QED BY <1>1, <3>1, <3>2 DEF Oracle!commF, Oracle!pair_okF
  <2>2. \/ a = b
        \/ <<a, b>> \in pairsOfT(ne, pairs)
        \/ <<b, a>> \in pairsOfT(ne, pairs)
    <3>1. CASE pairs.all
      <4>1. a < b \/ b < a \/ a = b
        BY Sizes
      <4> QED BY <3>1, <4>1 DEF pairsOfT, allPairsT
    <3> QED BY <1>3, <3>1 DEF indep
  <2> QED BY <2>1, <2>2
<1> QED BY <1>2, <1>3 DEF Sound

(* The tables are only read once they are accepted.                        *)
LEMMA SoundKept == ASSUME Sound, UNCHANGED parsed PROVE Sound'
PROOF
<1>1. n' = n /\ ne' = ne /\ nf' = nf /\ rows' = rows /\ pairs' = pairs
  BY DEF parsed
<1>2. States' = States /\ Events' = Events
  BY <1>1 DEF States, Events
<1>3. \A s : nfA(s)' = nfA(s)
  BY <1>1 DEF nfA
<1>4. \A e, s : stA(e, s)' = stA(e, s)
  BY <1>1 DEF stA
<1>5. \A a, b : indep(a, b)' = indep(a, b)
  BY <1>1 DEF indep, pairsOfT, allPairsT
<1> QED BY <1>2, <1>3, <1>4, <1>5 DEF Sound, Valid, Domain

-----------------------------------------------------------------------------
Stages == {"header", "sizes", "nf", "pairs", "steps", "judge", "stopped", "serving"}

Scalars ==
    /\ pos \in Nat
    /\ stage \in Stages /\ status \in {"running", "error", "OK", "FAIL"}
    /\ n \in Nat /\ ne \in Nat

Version == v2 \in BOOLEAN

Replicas == x \in Nat /\ y \in Nat /\ held \in Nat \cup {None}

Arrays ==
    /\ stage \in {"nf", "pairs", "steps"} \/ Loaded => nf \in [1 .. n -> Nat]
    /\ Loaded => rows \in [1 .. ne -> [1 .. n -> 0 .. MaxNat]]

LEMMA TypeParts == TableTypeOK <=> Scalars /\ Version /\ Replicas /\ Arrays
PROOF BY Zenon DEF TableTypeOK, Scalars, Version, Replicas, Arrays, Stages

(* Stopping keeps the tables a stage before the end has.                   *)
LEMMA StopTypes ==
    ASSUME TableTypeOK, NEW s \in {"error", "OK", "FAIL"}, Stop(s),
           status = "running", s # "error" => stage = "judge"
    PROVE  TableTypeOK'
PROOF
<1>1. Scalars /\ Version /\ Replicas /\ Arrays
  BY TypeParts
<1>2. Scalars'
  BY <1>1 DEF Scalars, Stop, parsed, Stages
<1>3. Replicas'
  BY <1>1 DEF Replicas, Stop, replicas
<1>4. Arrays'
  BY <1>1 DEF Arrays, Stop, parsed, Loaded
<1>5. Version'
  BY <1>1 DEF Version, Stop, parsed
<1> QED BY <1>5, <1>2, <1>3, <1>4, TypeParts, PTL

(* What AreNats says of the entries it looks at.                           *)
LEMMA EntriesAreNats ==
    ASSUME NEW i \in Nat, NEW k \in Nat, AreNats(toks, i, k), NEW j \in i .. i + k - 1
    PROVE  toks[j][2] \in 0 .. MaxNat /\ toks[j][2] \in Nat
PROOF BY MaxNatAssumption DEF AreNats, IsNat

(* Entry s of row e lies among the n * ne entries.                         *)
LEMMA RowEntry ==
    ASSUME NEW N \in Nat, NEW M \in Nat, NEW e \in 1 .. M, NEW s \in 1 .. N
    PROVE  (e - 1) * N + s \in 1 .. N * M
PROOF
<1>1. (e - 1) * N \in Nat /\ (e - 1) * N <= (M - 1) * N
  OBVIOUS
<1>2. (M - 1) * N + N = N * M /\ N * M \in Nat
  OBVIOUS
<1> QED BY <1>1, <1>2

LEMMA TypeStep == TableTypeOK /\ Staged /\ [TableNext]_tableVars => TableTypeOK'
PROOF
<1> SUFFICES ASSUME TableTypeOK, Staged, [TableNext]_tableVars
             PROVE  TableTypeOK'
  OBVIOUS
<1>0. Scalars /\ Version /\ Replicas /\ Arrays
  BY TypeParts
<1>f. ASSUME failInput, stage \notin {"stopped", "serving"} PROVE TableTypeOK'
  BY <1>f, StopTypes DEF failInput, Staged
<1>v. Version'
  <2>1. v2' = v2 \/ v2' = TRUE
    BY DEF TableNext, Read, Serve, ReadHeader, ReadSizes, ReadNF, ReadAllPairs,
           ReadPairs, ReadSteps, CheckTables, Start, CatchUp, Deliver, Delay,
           DeliverPast, failInput, Stop, parsed, tableVars
  <2> QED BY <1>0, <2>1, Zenon DEF Version
<1>p. Scalars' /\ Replicas' /\ Arrays' => TableTypeOK'
  BY <1>v, TypeParts, PTL
<1>1. CASE ReadHeader
  <2>1. CASE failInput
    BY <2>1, <1>1, <1>f DEF ReadHeader
  <2>2. CASE ~ failInput
    <3>1. Scalars'
      BY <1>0, <1>1, <2>2 DEF ReadHeader, Scalars, Stages, parsed
    <3>2. Replicas'
      BY <1>0, <1>1, <2>2 DEF ReadHeader, Replicas, replicas
    <3>3. Arrays'
      BY <1>0, <1>1, <2>2 DEF ReadHeader, Arrays, Loaded, Staged, parsed
    <3> QED BY <3>1, <3>2, <3>3, <1>p
  <2> QED BY <2>1, <2>2
<1>2. CASE ReadSizes
  <2>1. CASE failInput
    BY <2>1, <1>2, <1>f DEF ReadSizes
  <2>2. CASE ~ failInput
    <3>0. n' \in Nat /\ ne' \in Nat
      <4>1. At(1)[2] \in Nat /\ At(2)[2] \in Nat
        <5>1. AreNats(toks, pos + 1, 2) /\ pos + 1 \in Nat
          BY <1>0, <1>2, <2>2 DEF ReadSizes, Scalars
        <5>2. pos + 1 \in pos + 1 .. pos + 1 + 2 - 1 /\ pos + 2 \in pos + 1 .. pos + 1 + 2 - 1
          BY <1>0 DEF Scalars
        <5> QED BY <5>1, <5>2, EntriesAreNats DEF At
      <4> QED BY <4>1, <1>2, <2>2 DEF ReadSizes
    <3>1. Scalars'
      BY <3>0, <1>0, <1>2, <2>2 DEF ReadSizes, Scalars, Stages
    <3>2. Replicas'
      BY <1>0, <1>2, <2>2 DEF ReadSizes, Replicas, replicas
    <3>3. Arrays'
      <4>1. nf' = [s \in 1 .. n' |-> IF v2 THEN 0 ELSE s - 1]
        BY <1>2, <2>2 DEF ReadSizes
      <4>2. nf' \in [1 .. n' -> Nat]
        BY <3>0, <4>1
      <4>3. ~ Loaded'
        BY <1>2, <2>2 DEF ReadSizes, Loaded, Staged
      <4> QED BY <4>2, <4>3 DEF Arrays
    <3> QED BY <3>1, <3>2, <3>3, <1>p
  <2> QED BY <2>1, <2>2
<1>3. CASE ReadNF
  <2>1. CASE failInput
    BY <2>1, <1>3, <1>f DEF ReadNF
  <2>2. CASE ~ failInput
    <3>1. Scalars'
      BY <1>0, <1>3, <2>2 DEF ReadNF, Scalars, Stages
    <3>2. Replicas'
      BY <1>0, <1>3, <2>2 DEF ReadNF, Replicas, replicas
    <3>3. Arrays'
      <4>1. AreNats(toks, pos + 2, n) /\ nf' = [s \in 1 .. n |-> At(1 + s)[2]]
        BY <1>3, <2>2 DEF ReadNF
      <4>2. ASSUME NEW s \in 1 .. n PROVE At(1 + s)[2] \in Nat
        <5>1. pos + (1 + s) \in pos + 2 .. pos + 2 + n - 1 /\ pos + 2 \in Nat
          BY <1>0, Sizes DEF Scalars
        <5>2. n \in Nat
          BY Sizes
        <5> QED BY <4>1, <5>1, <5>2, EntriesAreNats DEF At
      <4>3. nf' \in [1 .. n' -> Nat]
        BY <4>1, <4>2, <1>3, <2>2 DEF ReadNF
      <4>4. ~ Loaded'
        BY <1>3, <2>2 DEF ReadNF, Loaded, Staged
      <4> QED BY <4>3, <4>4 DEF Arrays
    <3> QED BY <3>1, <3>2, <3>3, <1>p
  <2> QED BY <2>1, <2>2
<1>4. CASE ReadAllPairs
  <2>1. Scalars'
    BY <1>0, <1>4 DEF ReadAllPairs, Scalars, Stages, parsed
  <2>2. Replicas'
    BY <1>0, <1>4 DEF ReadAllPairs, Replicas, replicas
  <2>3. Arrays'
    BY <1>0, <1>4 DEF ReadAllPairs, Arrays, Loaded, Staged, parsed
  <2> QED BY <2>1, <2>2, <2>3, <1>p
<1>5. CASE ReadPairs
  <2>1. CASE failInput
    BY <2>1, <1>5, <1>f DEF ReadPairs
  <2>2. CASE ~ failInput
    <3>1. Scalars'
      BY <1>0, <1>5, <2>2 DEF ReadPairs, Scalars, Stages, IsNat
    <3>2. Replicas'
      BY <1>0, <1>5, <2>2 DEF ReadPairs, Replicas, replicas
    <3>3. Arrays'
      BY <1>0, <1>5, <2>2 DEF ReadPairs, Arrays, Loaded, Staged
    <3> QED BY <3>1, <3>2, <3>3, <1>p
  <2> QED BY <2>1, <2>2
<1>6. CASE ReadSteps
  <2>1. CASE failInput
    BY <2>1, <1>6, <1>f DEF ReadSteps
  <2>2. CASE ~ failInput
    <3>1. Scalars'
      BY <1>0, <1>6, <2>2 DEF ReadSteps, Scalars, Stages, Rest
    <3>2. Replicas'
      BY <1>0, <1>6, <2>2 DEF ReadSteps, Replicas, replicas
    <3>3. Arrays'
      <4>1. /\ AreNats(toks, pos + 1, n * ne)
            /\ rows' = [e \in 1 .. ne |-> [s \in 1 .. n |-> At((e - 1) * n + s)[2]]]
        BY <1>6, <2>2 DEF ReadSteps
      <4>2. ASSUME NEW e \in 1 .. ne, NEW s \in 1 .. n
            PROVE  At((e - 1) * n + s)[2] \in 0 .. MaxNat
        <5>1. n \in Nat /\ ne \in Nat /\ pos \in Nat
          BY Sizes, <1>0 DEF Scalars
        <5>2. (e - 1) * n + s \in 1 .. n * ne
          BY <5>1, RowEntry
        <5>3. n * ne \in Nat
          BY <5>1
        <5>4. pos + ((e - 1) * n + s) \in pos + 1 .. pos + 1 + n * ne - 1
          BY <5>1, <5>2, <5>3
        <5>5. AreNats(toks, pos + 1, n * ne) /\ pos + 1 \in Nat
          BY <4>1, <5>1
        <5> DEFINE j == pos + ((e - 1) * n + s)
        <5>6. j \in pos + 1 .. pos + 1 + n * ne - 1
          BY <5>4
        <5>7. toks[j][2] \in 0 .. MaxNat
          <6> HIDE DEF j
          <6> QED BY <5>3, <5>5, <5>6, EntriesAreNats
        <5> QED BY <5>7 DEF At
      <4>3. rows' \in [1 .. ne -> [1 .. n -> 0 .. MaxNat]]
        BY <4>1, <4>2
      <4>4. n' = n /\ ne' = ne /\ nf' = nf /\ stage = "steps"
        BY <1>6, <2>2 DEF ReadSteps
      <4> QED BY <1>0, <4>3, <4>4 DEF Arrays
    <3> QED BY <3>1, <3>2, <3>3, <1>p
  <2> QED BY <2>1, <2>2
<1>7. CASE CheckTables
  BY <1>7, StopTypes DEF CheckTables, Staged
<1>8. CASE Serve
  <2>1. Loaded /\ Loaded' /\ parsed' = parsed /\ status' = status /\ pos' = pos
    BY <1>8 DEF Serve, Start, CatchUp, Deliver, Delay, DeliverPast, Served, Loaded
  <2>2. Scalars'
    BY <1>0, <1>8, <2>1
    DEF Serve, Start, CatchUp, Deliver, Delay, DeliverPast, Scalars, Stages, parsed
  <2>3. Replicas'
    <3>1. /\ \A e, s : stA(e, s) \in Nat
          /\ n \in Nat /\ ne \in Nat
      BY <2>1, AccessorTypes, Sizes
    <3> QED BY <1>0, <1>8, <3>1
        DEF Serve, Start, CatchUp, Deliver, Delay, DeliverPast, Replicas
  <2>4. Arrays'
    BY <1>0, <2>1 DEF Arrays, parsed
  <2> QED BY <2>2, <2>3, <2>4, <1>p
<1>9. CASE UNCHANGED tableVars
  <2>1. Scalars' /\ Replicas' /\ Arrays'
    BY <1>0, <1>9 DEF tableVars, parsed, replicas, Scalars, Replicas, Arrays, Loaded
  <2> QED BY <2>1, <1>p
<1> QED BY <1>1, <1>2, <1>3, <1>4, <1>5, <1>6, <1>7, <1>8, <1>9
        DEF TableNext, Read

-----------------------------------------------------------------------------
Reading ==
    ReadHeader \/ ReadSizes \/ ReadNF \/ ReadAllPairs \/ ReadPairs \/ ReadSteps

(* Reading neither accepts nor serves.                                     *)
LEMMA ReadingFrame ==
    ASSUME Staged, Reading
    PROVE  /\ status = "running" /\ status' \in {"running", "error"}
           /\ stage' # "serving" /\ held' = held /\ held = None
           /\ status' = "error" => stage' = "stopped"
           /\ status' = "running" => stage' # "stopped"
PROOF
<1> USE DEF Staged, replicas
<1>0. ASSUME failInput, stage \notin {"stopped", "serving"}
      PROVE  status' = "error" /\ stage' = "stopped" /\ held' = held
  BY <1>0 DEF failInput, Stop
<1>1. CASE ReadHeader
  BY <1>0, <1>1 DEF ReadHeader
<1>2. CASE ReadSizes
  BY <1>0, <1>2 DEF ReadSizes
<1>3. CASE ReadNF
  BY <1>0, <1>3 DEF ReadNF
<1>4. CASE ReadAllPairs
  BY <1>4 DEF ReadAllPairs
<1>5. CASE ReadPairs
  BY <1>0, <1>5 DEF ReadPairs
<1>6. CASE ReadSteps
  BY <1>0, <1>6 DEF ReadSteps
<1> QED BY <1>1, <1>2, <1>3, <1>4, <1>5, <1>6 DEF Reading

LEMMA StagedStep == Staged /\ [TableNext]_tableVars => Staged'
PROOF
<1> SUFFICES ASSUME Staged, [TableNext]_tableVars PROVE Staged'
  OBVIOUS
<1>1. CASE Reading
  BY <1>1, ReadingFrame DEF Staged
<1>2. CASE CheckTables
  BY <1>2 DEF CheckTables, Stop, Staged, replicas
<1>3. CASE Serve
  BY <1>3 DEF Serve, Start, CatchUp, Deliver, Delay, DeliverPast, Served, Staged
<1>4. CASE UNCHANGED tableVars
  BY <1>4 DEF tableVars, replicas, Staged
<1> QED BY <1>1, <1>2, <1>3, <1>4 DEF TableNext, Read, Reading

LEMMA AcceptedStep ==
    TableTypeOK /\ Staged /\ Accepted /\ [TableNext]_tableVars => Accepted'
PROOF
<1> SUFFICES ASSUME TableTypeOK, Staged, Accepted, [TableNext]_tableVars,
                    status' = "OK"
             PROVE  Sound'
  BY DEF Accepted
<1>1. CASE Reading
  BY <1>1, ReadingFrame
<1>2. CASE CheckTables
  <2>1. Oracle!check_fn(n, ne, pairs) /\ UNCHANGED parsed /\ Loaded
    BY <1>2 DEF CheckTables, Stop, Loaded
  <2> QED BY <2>1, CheckedIsSound, SoundKept
<1>3. CASE Serve
  <2>1. UNCHANGED parsed /\ status = "OK"
    BY <1>3 DEF Serve, Start, CatchUp, Deliver, Delay, DeliverPast, Served
  <2> QED BY <2>1, SoundKept DEF Accepted
<1>4. CASE UNCHANGED tableVars
  <2>1. UNCHANGED parsed /\ status = "OK"
    BY <1>4 DEF tableVars
  <2> QED BY <2>1, SoundKept DEF Accepted
<1> QED BY <1>1, <1>2, <1>3, <1>4 DEF TableNext, Read, Reading

(* A step of sound tables from a state of the domain stays in it.          *)
LEMMA StepInDomain ==
    ASSUME Sound, NEW e \in Events, NEW s, Domain(s)
    PROVE  Domain(stA(e, s))
PROOF BY DEF Sound, Domain, Valid

(* A pass keeps the late replica one step behind.                          *)
LEMMA BehindStep ==
    Staged /\ Accepted /\ Behind /\ [TableNext]_tableVars => Behind'
PROOF
<1> SUFFICES ASSUME Staged, Accepted, Behind, [TableNext]_tableVars, Served'
             PROVE  /\ Domain(y)'
                    /\ held' = None => x' = y'
                    /\ held' # None => held' \in Events' /\ x' = stA(held, y)'
  BY DEF Behind
<1>k. ASSUME UNCHANGED parsed
      PROVE  /\ Events' = Events /\ States' = States
             /\ (Domain(y)' <=> y' \in States /\ (nfA(y') = y' \/ y' = 0))
             /\ stA(held, y)' = stA(held', y')
  BY <1>k DEF parsed, Events, States, Domain, nfA, stA
<1>1. CASE Start
  <2>1. PICK s \in States : Oracle!inDf(n, s) /\ x' = s /\ y' = s
    BY <1>1 DEF Start, States
  <2>2. UNCHANGED parsed /\ held' = None
    BY <1>1 DEF Start, Staged
  <2> QED BY <1>k, <2>1, <2>2 DEF Oracle!inDf
<1>2. CASE CatchUp
  <2>1. Served /\ held # None /\ y' = stA(held, y) /\ held' = None /\ x' = x /\ UNCHANGED parsed
    BY <1>2 DEF CatchUp
  <2>2. Sound
    BY <2>1 DEF Served, Accepted
  <2>3. held \in Events /\ Domain(y) /\ x = stA(held, y)
    BY <2>1 DEF Behind
  <2>4. Domain(y')
    BY <2>1, <2>2, <2>3, StepInDomain
  <2> QED BY <1>k, <2>1, <2>3, <2>4 DEF Domain
<1>3. ASSUME NEW e \in 0 .. ne - 1, Deliver(e) \/ Delay(e) \/ DeliverPast(e)
      PROVE  /\ Domain(y)'
             /\ held' = None => x' = y'
             /\ held' # None => held' \in Events' /\ x' = stA(held, y)'
  <2>0. e \in Events /\ UNCHANGED parsed /\ Served
    BY <1>3 DEF Deliver, Delay, DeliverPast, Events
  <2>1. Sound /\ Domain(y)
    BY <2>0 DEF Served, Accepted, Behind
  <2>2. CASE Deliver(e)
    <3>1. held = None /\ held' = None /\ x' = stA(e, x) /\ y' = stA(e, y)
      BY <2>2 DEF Deliver
    <3>2. Domain(y') /\ x = y
      BY <2>0, <2>1, <3>1, StepInDomain DEF Behind
    <3> QED BY <1>k, <2>0, <3>1, <3>2 DEF Domain
  <2>3. CASE Delay(e)
    <3>1. held = None /\ held' = e /\ x' = stA(e, x) /\ y' = y /\ x = y
      BY <2>0, <2>3 DEF Delay, Behind
    <3>2. e # None
      BY <1>3 DEF None
    <3> QED BY <1>k, <2>0, <2>1, <3>1, <3>2 DEF Domain
  <2>4. CASE DeliverPast(e)
    <3>1. /\ held # None /\ held' = held /\ indep(held, e)
          /\ x' = stA(e, x) /\ y' = stA(e, y)
      BY <2>4 DEF DeliverPast
    <3>2. held \in Events /\ x = stA(held, y)
      BY <2>0, <3>1 DEF Behind
    <3>3. Domain(y')
      BY <2>0, <2>1, <3>1, StepInDomain
    <3>4. stA(held, stA(e, y)) = stA(e, stA(held, y))
      BY <2>0, <2>1, <3>1, <3>2 DEF Sound, Domain
    <3> QED BY <1>k, <2>0, <3>1, <3>2, <3>3, <3>4 DEF Domain
  <2> QED BY <1>3, <2>2, <2>3, <2>4
<1>4. CASE UNCHANGED tableVars
  <2>1. /\ UNCHANGED parsed /\ x' = x /\ y' = y /\ held' = held /\ Served
    BY <1>4 DEF tableVars, replicas, Served
  <2> QED BY <1>k, <2>1 DEF Behind, Domain
<1>5. CASE Read
  <2>1. (status = "running" /\ stage' # "serving") \/ stage' = "stopped"
    BY <1>5, ReadingFrame DEF Read, Reading, CheckTables, Stop
  <2> QED BY <2>1 DEF Served
<1> QED BY <1>1, <1>2, <1>3, <1>4, <1>5 DEF TableNext, Serve

-----------------------------------------------------------------------------
(* natOf accepts only numbers, so declared pairs are pairs of numbers.     *)
LEMMA NumberedStep == TableTypeOK /\ Numbered /\ [TableNext]_tableVars => Numbered'
PROOF
<1> SUFFICES ASSUME TableTypeOK, Numbered, [TableNext]_tableVars PROVE Numbered'
  OBVIOUS
<1>1. CASE ReadPairs
  <2> DEFINE k == At(2)[2]
             ps == PairsAt(toks, pos + 3, k)
  <2>1. CASE pairs' = pairs
    BY <2>1 DEF Numbered
  <2>2. CASE pairs' # pairs
    <3>1. /\ IsNat(At(2)) /\ AreNats(toks, pos + 3, 2 * k)
          /\ pairs' = Only(ps)
      BY <1>1, <2>2, Zenon DEF ReadPairs, failInput, Stop, parsed
    <3>2. k \in Nat
      BY <3>1, MaxNatAssumption DEF IsNat
    <3> HIDE DEF k
    <3>3. ASSUME NEW j \in 1 .. k
          PROVE  /\ toks[(pos + 3) + 2 * j - 2][2] \in Nat
                 /\ toks[(pos + 3) + 2 * j - 1][2] \in Nat
      <4>1. pos + 3 \in Nat /\ 2 * k \in Nat
        BY <3>2 DEF TableTypeOK
      <4>2. /\ (pos + 3) + 2 * j - 2 \in pos + 3 .. (pos + 3) + 2 * k - 1
            /\ (pos + 3) + 2 * j - 1 \in pos + 3 .. (pos + 3) + 2 * k - 1
        BY <3>2, <4>1
      <4>3. QED
        BY <3>1, <4>1, <4>2, EntriesAreNats
    <3>4. QED
      BY <3>1, <3>3 DEF Numbered, Only, PairsAt
  <2>3. QED
    BY <2>1, <2>2
<1>2. CASE ~ ReadPairs
  <2>1. pairs' = pairs
    BY <1>2, Zenon DEF TableNext, Read, Serve, ReadHeader, ReadSizes, ReadNF, ReadAllPairs,
       ReadSteps, CheckTables, Start, CatchUp, Deliver, Delay, DeliverPast,
       failInput, Stop, tableVars, parsed, replicas
  <2>2. QED
    BY <2>1 DEF Numbered
<1>3. QED
  BY <1>1, <1>2

LEMMA Initial == TableInit => IInv
PROOF
<1> SUFFICES ASSUME TableInit PROVE IInv
  OBVIOUS
<1>1. Scalars /\ Replicas /\ Arrays
  BY DEF TableInit, Scalars, Stages, Replicas, Arrays, Loaded
<1>2. Version
  BY Zenon DEF TableInit, Version
<1>3. Staged /\ Accepted /\ Behind /\ Numbered
  BY DEF TableInit, Staged, Accepted, Behind, Served, Numbered, All
<1> QED BY <1>1, <1>2, <1>3, TypeParts DEF IInv

LEMMA Inductive == IInv /\ [TableNext]_tableVars => IInv'
PROOF BY TypeStep, StagedStep, AcceptedStep, BehindStep, NumberedStep DEF IInv

LEMMA Invariance == TableSpec => []IInv
PROOF BY Initial, Inductive, PTL DEF TableSpec

(***************************************************************************)
(* The command hands its oracle a full table of numbers.                   *)
(***************************************************************************)
THEOREM TableTypeCorrect == TableSpec => []TableTypeOK
PROOF
<1>1. IInv => TableTypeOK
  BY DEF IInv
<1> QED BY <1>1, Invariance, PTL

(***************************************************************************)
(* Replicas of tables tablecheck accepted that have had the same events,   *)
(* independent ones in different orders, are in the same state.            *)
(***************************************************************************)
THEOREM AcceptedTablesConverge == TableSpec => []AcceptedConverges
PROOF
<1>1. IInv => AcceptedConverges
  <2> SUFFICES ASSUME IInv, Served, held = None
               PROVE  x = y /\ Oracle!inDf(n, x)
    BY DEF AcceptedConverges
  <2>1. x = y /\ Domain(y)
    BY DEF IInv, Behind
  <2> QED BY <2>1, Sizes DEF IInv, Domain, States, Oracle!inDf
<1> QED BY <1>1, Invariance, PTL

-----------------------------------------------------------------------------
(***************************************************************************)
(* The oracle over lists answers as check_fn on every table.  Both say     *)
(* the same of a state once the trie over the cells is known to answer     *)
(* with the cell asked for (TrieIsList), which is an induction along the   *)
(* way down: at depth e the trie reached holds entry k (Reached, Below).   *)
(***************************************************************************)
(* Quotient and remainder.                                                 *)
LEMMA Divided ==
    ASSUME NEW a \in Nat, NEW b \in Nat, b > 0
    PROVE  /\ a \div b \in Nat /\ a % b \in 0 .. b - 1
           /\ a = b * (a \div b) + (a % b)
PROOF
<1>1. a \div b \in Nat
  OBVIOUS
<1>2. a % b \in 0 .. b - 1 /\ a = b * (a \div b) + (a % b)
  OBVIOUS
<1>3. QED
  BY <1>1, <1>2

(* Division undoes multiplication.                                         *)
LEMMA DividedBy ==
    ASSUME NEW q \in Nat, NEW b \in Nat \ {0}, NEW r \in 0 .. b - 1
    PROVE  (q * b + r) \div b = q /\ (q * b + r) % b = r
PROOF OBVIOUS

(* Blocks of B entries, as many as m entries need.                         *)
LEMMA Enough ==
    ASSUME NEW m \in Nat, NEW g \in Nat
    PROVE  g < (m + B - 1) \div B <=> g * B < m
PROOF
<1>1. B \in Nat \ {0} /\ B > 0
  BY BAssumption
<1> DEFINE q == (m + B - 1) \div B
           r == (m + B - 1) % B
<1>2. m + B - 1 \in Nat
  BY <1>1
<1>3. q \in Nat /\ r \in 0 .. B - 1 /\ m + B - 1 = B * q + r
  BY <1>1, <1>2, Divided
<1> HIDE DEF q, r
<1>4. CASE g < q
  <2>1. g + 1 <= q
    BY <1>3, <1>4
  <2>2. B * (g + 1) <= B * q
    BY <1>1, <1>3, <2>1
  <2>3. B * (g + 1) = g * B + B
    BY <1>1
  <2>4. g * B < m
    BY <1>1, <1>3, <2>2, <2>3
  <2>5. QED
    BY <1>4, <2>4 DEF q
<1>5. CASE q <= g
  <2>1. B * q <= B * g
    BY <1>1, <1>3, <1>5
  <2>2. B * g = g * B
    BY <1>1
  <2>3. m <= g * B
    BY <1>1, <1>3, <2>1, <2>2
  <2>4. ~ (g < q) /\ ~ (g * B < m)
    BY <1>1, <1>3, <1>5, <2>3
  <2>5. QED
    BY <2>4 DEF q
<1>6. QED
  BY <1>3, <1>4, <1>5

(* A function on 1 .. m is a list of length m.                             *)
LEMMA ListOf ==
    ASSUME NEW m \in Nat, NEW X, NEW f \in [1 .. m -> X]
    PROVE  f \in Seq(X) /\ Len(f) = m /\ DOMAIN f = 1 .. m
PROOF OBVIOUS

\* B entries of a list continued with z, from entry b on.
Block(l, z, b) == [i \in 1 .. B |-> nth(b + i - 1, l, z)]

Blank(z) == [i \in 1 .. B |-> z]

(* A list's blocks are a list.                                             *)
LEMMA Chunked ==
    ASSUME NEW X, NEW z \in X, NEW l \in Seq(X)
    PROVE  /\ chunk(z, l) \in Seq([1 .. B -> X])
           /\ Len(chunk(z, l)) = (Len(l) + B - 1) \div B
           /\ Len(chunk(z, l)) \in Nat
PROOF
<1>1. B \in Nat \ {0} /\ B > 0 /\ Len(l) \in Nat
  BY BAssumption
<1> DEFINE m == (Len(l) + B - 1) \div B
           c == chunk(z, l)
<1>2. m \in Nat
  <2>1. Len(l) + B - 1 \in Nat
    BY <1>1
  <2>2. QED
    BY <1>1, <2>1, Divided
<1>3. \A j \in Nat : nth(j, l, z) \in X
  BY DEF nth
<1>4. \A g \in 1 .. m : \A i \in 1 .. B : (g - 1) * B + i - 1 \in Nat
  BY <1>1, <1>2
<1>5. c = [g \in 1 .. m |-> [i \in 1 .. B |-> nth((g - 1) * B + i - 1, l, z)]]
  BY DEF chunk
<1> HIDE DEF m, c
<1>6. c \in [1 .. m -> [1 .. B -> X]]
  BY <1>3, <1>4, <1>5
<1>7. c \in Seq([1 .. B -> X]) /\ Len(c) = m
  BY <1>2, <1>6, ListOf
<1>8. QED
  BY <1>2, <1>7 DEF m, c

(* Block g of a list holds its entries from g * B on, and blanks beyond    *)
(* its end.                                                                *)
LEMMA BlockAt ==
    ASSUME NEW X, NEW z \in X, NEW l \in Seq(X), NEW g \in Nat
    PROVE  nth(g, chunk(z, l), Blank(z)) = Block(l, z, g * B)
PROOF
<1>1. B \in Nat \ {0} /\ B > 0 /\ Len(l) \in Nat
  BY BAssumption
<1> DEFINE m == (Len(l) + B - 1) \div B
           c == chunk(z, l)
<1>2. m \in Nat /\ Len(c) = m
  BY Chunked
<1>3. c = [j \in 1 .. m |-> [i \in 1 .. B |-> nth((j - 1) * B + i - 1, l, z)]]
  BY DEF chunk
<1>4. g < m <=> g * B < Len(l)
  BY <1>1, Enough
<1> HIDE DEF m, c
<1>5. CASE g < m
  <2>1. nth(g, c, [i \in 1 .. B |-> z]) = c[g + 1] /\ g + 1 \in 1 .. m /\ (g + 1) - 1 = g
    BY <1>2, <1>5 DEF nth
  <2>2. QED
    BY <1>3, <2>1 DEF c, Block, Blank
<1>6. CASE ~ (g < m)
  <2>1. nth(g, c, [i \in 1 .. B |-> z]) = [i \in 1 .. B |-> z]
    BY <1>2, <1>6 DEF nth
  <2>2. ASSUME NEW i \in 1 .. B PROVE nth(g * B + i - 1, l, z) = z
    <3>1. g * B \in Nat /\ g * B >= Len(l)
      BY <1>1, <1>4, <1>6
    <3>2. ~ (g * B + i - 1 < Len(l))
      BY <1>1, <3>1
    <3>3. QED
      BY <3>2 DEF nth
  <2>3. QED
    BY <2>1, <2>2 DEF c, Block, Blank
<1>7. QED
  BY <1>5, <1>6

(* A set of numbers has a least one.                                       *)
LEMMA LeastElement ==
    ASSUME NEW T, T \subseteq Nat, T # {}
    PROVE  \E a \in T : \A b \in T : a <= b
PROOF
<1>1. OpToRel(<, Nat) = {p \in Nat \X Nat : p[1] < p[2]}
  BY DEF OpToRel
<1>2. PICK a \in T : \A b \in T : ~ (<<b, a>> \in OpToRel(<, Nat))
  BY WFMin, NatLessThanWellFounded
<1>3. \A b \in T : ~ (<<b, a>> \in {p \in Nat \X Nat : p[1] < p[2]})
  BY <1>1, <1>2, Zenon
<1>4. ASSUME NEW b \in T PROVE ~ (b < a)
  <2>1. ~ (<<b, a>> \in {p \in Nat \X Nat : p[1] < p[2]})
    BY <1>3
  <2>2. <<b, a>> \in Nat \X Nat /\ <<b, a>>[1] = b /\ <<b, a>>[2] = a
    OBVIOUS
  <2>3. QED
    BY <2>1, <2>2
<1>5. ASSUME NEW b \in T PROVE a <= b
  BY <1>4
<1>6. QED
  BY <1>5

(* What holds of 0, and of i + 1 where it holds of i, holds of every       *)
(* number.                                                                 *)
LEMMA Upwards ==
    ASSUME NEW T, 0 \in T, \A i \in Nat : i \in T => i + 1 \in T
    PROVE  \A i \in Nat : i \in T
PROOF
<1> SUFFICES ASSUME Nat \ T # {} PROVE FALSE
  OBVIOUS
<1>1. PICK i \in Nat \ T : \A j \in Nat \ T : i <= j
  <2>1. Nat \ T \subseteq Nat
    OBVIOUS
  <2>2. QED
    BY <2>1, LeastElement
<1>2. i \in Nat \ {0} /\ i - 1 \in Nat /\ ~ (i <= i - 1)
  BY <1>1
<1>3. i - 1 \in T /\ (i - 1) + 1 = i
  BY <1>1, <1>2
<1>4. QED
  BY <1>2, <1>3

\* f repeats a step from a, d times.
Repeats(V, G, a, d, f) ==
    /\ f \in [0 .. d -> V] /\ f[0] = a
    /\ \A i \in 0 .. d : i # 0 => f[i] = G[f[i - 1]]

(* A function of a set into itself can be repeated any number of times.    *)
LEMMA Repetition ==
    ASSUME NEW V, NEW G \in [V -> V], NEW a \in V
    PROVE  \A d \in Nat : \E f : Repeats(V, G, a, d, f)
PROOF
<1> DEFINE T == {d \in Nat : \E f : Repeats(V, G, a, d, f)}
<1>1. 0 \in T
  <2>1. Repeats(V, G, a, 0, [i \in 0 .. 0 |-> a])
    BY DEF Repeats
  <2>2. QED
    BY <2>1
<1>2. ASSUME NEW d \in Nat, d \in T PROVE d + 1 \in T
  <2>1. PICK f : Repeats(V, G, a, d, f)
    BY <1>2
  <2> DEFINE g == [i \in 0 .. d + 1 |-> IF i <= d THEN f[i] ELSE G[f[d]]]
  <2>2. g \in [0 .. d + 1 -> V]
    BY <2>1 DEF Repeats
  <2>3. g[0] = a
    BY <2>1 DEF Repeats
  <2>4. ASSUME NEW i \in 0 .. d + 1, i # 0 PROVE g[i] = G[g[i - 1]]
    <3>1. i - 1 \in 0 .. d /\ i - 1 \in 0 .. d + 1 /\ g[i - 1] = f[i - 1]
      BY <2>4
    <3>2. CASE i <= d
      BY <2>1, <2>4, <3>1, <3>2 DEF Repeats
    <3>3. CASE i = d + 1
      BY <2>1, <3>1, <3>3
    <3>4. QED
      BY <3>2, <3>3
  <2> HIDE DEF g
  <2>5. Repeats(V, G, a, d + 1, g)
    BY <2>2, <2>3, <2>4 DEF Repeats
  <2>6. QED
    BY <2>5
<1> HIDE DEF T
<1>3. \A d \in Nat : d \in T
  BY <1>1, <1>2, Upwards
<1>4. QED
  BY <1>3 DEF T

\* f is the function ztV defines.
Empties(d, f, z) ==
    f = [i \in 0 .. d |->
            IF i = 0 THEN VL([j \in 1 .. B |-> z])
            ELSE VN([j \in 1 .. B |-> f[i - 1]])]

(* The recursive function in ztV exists.                                   *)
LEMMA EmptiesExists ==
    ASSUME NEW z
    PROVE  \A d \in Nat : \E f : Empties(d, f, z)
PROOF
<1> DEFINE T == {d \in Nat : \E f : Empties(d, f, z)}
<1>1. 0 \in T
  <2>1. Empties(0, [i \in 0 .. 0 |-> VL([j \in 1 .. B |-> z])], z)
    BY DEF Empties
  <2>2. QED
    BY <2>1
<1>2. ASSUME NEW d \in Nat, d \in T PROVE d + 1 \in T
  <2>1. PICK f : Empties(d, f, z)
    BY <1>2
  <2> DEFINE g == [i \in 0 .. d + 1 |->
                     IF i <= d THEN f[i] ELSE VN([j \in 1 .. B |-> f[d]])]
  <2>2. ASSUME NEW i \in 0 .. d + 1
        PROVE  g[i] = IF i = 0 THEN VL([j \in 1 .. B |-> z])
                      ELSE VN([j \in 1 .. B |-> g[i - 1]])
    <3>1. i # 0 => i - 1 \in 0 .. d /\ i - 1 \in 0 .. d + 1
      OBVIOUS
    <3>2. i # 0 => g[i - 1] = f[i - 1]
      BY <3>1
    <3>3. CASE i <= d
      <4>1. i \in 0 .. d /\ g[i] = f[i]
        BY <3>3
      <4> HIDE DEF g
      <4>2. QED
        BY <2>1, <3>2, <4>1 DEF Empties
    <3>4. CASE i = d + 1
      <4>1. i # 0 /\ i - 1 = d /\ g[i] = VN([j \in 1 .. B |-> f[d]])
        BY <3>4
      <4> HIDE DEF g
      <4>2. QED
        BY <3>2, <4>1
    <3>5. QED
      BY <3>3, <3>4
  <2>3. g = [i \in 0 .. d + 1 |->
                IF i = 0 THEN VL([j \in 1 .. B |-> z])
                ELSE VN([j \in 1 .. B |-> g[i - 1]])]
    BY <2>2
  <2> HIDE DEF g
  <2>4. Empties(d + 1, g, z)
    BY <2>3 DEF Empties
  <2>5. QED
    BY <2>4
<1> HIDE DEF T
<1>3. \A d \in Nat : d \in T
  BY <1>1, <1>2, Upwards
<1>4. QED
  BY <1>3 DEF T

(* It does not depend on how far it is defined.                            *)
LEMMA EmptiesAgree ==
    ASSUME NEW z, NEW d \in Nat, NEW f, NEW g,
           Empties(d, f, z), Empties(d + 1, g, z)
    PROVE  \A i \in 0 .. d : f[i] = g[i]
PROOF
<1> DEFINE T == {i \in Nat : i <= d => f[i] = g[i]}
<1>1. 0 \in T
  BY DEF Empties
<1>2. ASSUME NEW i \in Nat, i \in T PROVE i + 1 \in T
  <2> SUFFICES ASSUME i + 1 <= d PROVE f[i + 1] = g[i + 1]
    OBVIOUS
  <2>1. /\ i + 1 \in 0 .. d /\ i + 1 \in 0 .. d + 1
        /\ i + 1 # 0 /\ (i + 1) - 1 = i
    OBVIOUS
  <2>2. f[i] = g[i]
    BY <1>2
  <2>3. /\ f[i + 1] = VN([j \in 1 .. B |-> f[i]])
        /\ g[i + 1] = VN([j \in 1 .. B |-> g[i]])
    BY <2>1 DEF Empties
  <2>4. QED
    BY <2>2, <2>3
<1> HIDE DEF T
<1>3. \A i \in Nat : i \in T
  BY <1>1, <1>2, Upwards
<1>4. QED
  BY <1>3 DEF T

\* f is the function levelsV defines.
Levels(d, f, z, l) ==
    f = [i \in 0 .. d |->
            IF i = 0 THEN mapT(VL, chunk(z, l))
            ELSE mapT(VN, chunk(ztV(z, i - 1), f[i - 1]))]

(* The recursive function in levelsV exists.                               *)
LEMMA LevelsExists ==
    ASSUME NEW z, NEW l
    PROVE  \A d \in Nat : \E f : Levels(d, f, z, l)
PROOF
<1> DEFINE T == {d \in Nat : \E f : Levels(d, f, z, l)}
<1>1. 0 \in T
  <2>1. Levels(0, [i \in 0 .. 0 |-> mapT(VL, chunk(z, l))], z, l)
    BY DEF Levels
  <2>2. QED
    BY <2>1
<1>2. ASSUME NEW d \in Nat, d \in T PROVE d + 1 \in T
  <2>1. PICK f : Levels(d, f, z, l)
    BY <1>2
  <2> DEFINE g == [i \in 0 .. d + 1 |->
                     IF i <= d THEN f[i] ELSE mapT(VN, chunk(ztV(z, i - 1), f[d]))]
  <2>2. ASSUME NEW i \in 0 .. d + 1
        PROVE  g[i] = IF i = 0 THEN mapT(VL, chunk(z, l))
                      ELSE mapT(VN, chunk(ztV(z, i - 1), g[i - 1]))
    <3>1. i # 0 => i - 1 \in 0 .. d /\ i - 1 \in 0 .. d + 1
      OBVIOUS
    <3>2. i # 0 => g[i - 1] = f[i - 1]
      BY <3>1
    <3>3. CASE i <= d
      <4>1. i \in 0 .. d /\ g[i] = f[i]
        BY <3>3
      <4> HIDE DEF g
      <4>2. QED
        BY <2>1, <3>2, <4>1 DEF Levels
    <3>4. CASE i = d + 1
      <4>1. i # 0 /\ i - 1 = d /\ g[i] = mapT(VN, chunk(ztV(z, i - 1), f[d]))
        BY <3>4
      <4> HIDE DEF g
      <4>2. QED
        BY <3>2, <4>1
    <3>5. QED
      BY <3>3, <3>4
  <2>3. g = [i \in 0 .. d + 1 |->
                IF i = 0 THEN mapT(VL, chunk(z, l))
                ELSE mapT(VN, chunk(ztV(z, i - 1), g[i - 1]))]
    BY <2>2
  <2> HIDE DEF g
  <2>4. Levels(d + 1, g, z, l)
    BY <2>3 DEF Levels
  <2>5. QED
    BY <2>4
<1> HIDE DEF T
<1>3. \A d \in Nat : d \in T
  BY <1>1, <1>2, Upwards
<1>4. QED
  BY <1>3 DEF T

(* It does not depend on how far it is defined.                            *)
LEMMA LevelsAgree ==
    ASSUME NEW z, NEW l, NEW d \in Nat, NEW f, NEW g,
           Levels(d, f, z, l), Levels(d + 1, g, z, l)
    PROVE  \A i \in 0 .. d : f[i] = g[i]
PROOF
<1> DEFINE T == {i \in Nat : i <= d => f[i] = g[i]}
<1>1. 0 \in T
  BY DEF Levels
<1>2. ASSUME NEW i \in Nat, i \in T PROVE i + 1 \in T
  <2> SUFFICES ASSUME i + 1 <= d PROVE f[i + 1] = g[i + 1]
    OBVIOUS
  <2>1. /\ i + 1 \in 0 .. d /\ i + 1 \in 0 .. d + 1
        /\ i + 1 # 0 /\ (i + 1) - 1 = i
    OBVIOUS
  <2>2. f[i] = g[i]
    BY <1>2
  <2>3. /\ f[i + 1] = mapT(VN, chunk(ztV(z, (i + 1) - 1), f[i]))
        /\ g[i + 1] = mapT(VN, chunk(ztV(z, (i + 1) - 1), g[i]))
    BY <2>1 DEF Levels
  <2>4. QED
    BY <2>2, <2>3
<1> HIDE DEF T
<1>3. \A i \in Nat : i \in T
  BY <1>1, <1>2, Upwards
<1>4. QED
  BY <1>3 DEF T

\* f is the tries vget passes through from u.
Descends(d, f, u, k) ==
    f = [i \in 0 .. d |->
            IF i = 0 THEN u
            ELSE below(f[i - 1], k)]

(* The recursive function in vget exists.                                  *)
LEMMA DescendsExists ==
    ASSUME NEW u, NEW k
    PROVE  \A d \in Nat : \E f : Descends(d, f, u, k)
PROOF
<1> DEFINE T == {d \in Nat : \E f : Descends(d, f, u, k)}
<1>1. 0 \in T
  <2>1. Descends(0, [i \in 0 .. 0 |-> u], u, k)
    BY DEF Descends
  <2>2. QED
    BY <2>1
<1>2. ASSUME NEW d \in Nat, d \in T PROVE d + 1 \in T
  <2>1. PICK f : Descends(d, f, u, k)
    BY <1>2
  <2> DEFINE g == [i \in 0 .. d + 1 |-> IF i <= d THEN f[i] ELSE below(f[d], k)]
  <2>2. ASSUME NEW i \in 0 .. d + 1
        PROVE  g[i] = IF i = 0 THEN u
                      ELSE below(g[i - 1], k)
    <3>1. i # 0 => i - 1 \in 0 .. d /\ i - 1 \in 0 .. d + 1
      OBVIOUS
    <3>2. i # 0 => g[i - 1] = f[i - 1]
      BY <3>1
    <3>3. CASE i <= d
      <4>1. i \in 0 .. d /\ g[i] = f[i]
        BY <3>3
      <4> HIDE DEF g
      <4>2. QED
        BY <2>1, <3>2, <4>1 DEF Descends
    <3>4. CASE i = d + 1
      <4>1. i # 0 /\ i - 1 = d /\ g[i] = below(f[d], k)
        BY <3>4
      <4> HIDE DEF g
      <4>2. QED
        BY <3>2, <4>1
    <3>5. QED
      BY <3>3, <3>4
  <2>3. g = [i \in 0 .. d + 1 |->
                IF i = 0 THEN u
                ELSE below(g[i - 1], k)]
    BY <2>2
  <2> HIDE DEF g
  <2>4. Descends(d + 1, g, u, k)
    BY <2>3 DEF Descends
  <2>5. QED
    BY <2>4
<1> HIDE DEF T
<1>3. \A d \in Nat : d \in T
  BY <1>1, <1>2, Upwards
<1>4. QED
  BY <1>3 DEF T

(* What ztV computes.                                                      *)
LEMMA EmptyTries ==
    ASSUME NEW z
    PROVE  /\ ztV(z, 0) = VL([j \in 1 .. B |-> z])
           /\ \A d \in Nat : ztV(z, d + 1) = VN([j \in 1 .. B |-> ztV(z, d)])
PROOF
<1> DEFINE e(d) == CHOOSE f : Empties(d, f, z)
<1>1. ASSUME NEW d \in Nat PROVE Empties(d, e(d), z) /\ ztV(z, d) = e(d)[d]
  <2>1. Empties(d, e(d), z)
    BY EmptiesExists
  <2>2. ztV(z, d) = e(d)[d]
    BY DEF ztV, Empties
  <2>3. QED
    BY <2>1, <2>2
<1> HIDE DEF e
<1>2. ztV(z, 0) = VL([j \in 1 .. B |-> z])
  <2>1. Empties(0, e(0), z) /\ ztV(z, 0) = e(0)[0] /\ 0 \in 0 .. 0
    BY <1>1
  <2>2. QED
    BY <2>1 DEF Empties
<1>3. ASSUME NEW d \in Nat PROVE ztV(z, d + 1) = VN([j \in 1 .. B |-> ztV(z, d)])
  <2>1. /\ d + 1 \in 0 .. d + 1 /\ d + 1 # 0 /\ (d + 1) - 1 = d
        /\ d \in 0 .. d /\ d + 1 \in Nat
    OBVIOUS
  <2>2. /\ Empties(d, e(d), z) /\ ztV(z, d) = e(d)[d]
        /\ Empties(d + 1, e(d + 1), z) /\ ztV(z, d + 1) = e(d + 1)[d + 1]
    BY <1>1, <2>1
  <2>3. e(d)[d] = e(d + 1)[d]
    BY <2>1, <2>2, EmptiesAgree
  <2>4. e(d + 1)[d + 1] = VN([j \in 1 .. B |-> e(d + 1)[d]])
    BY <2>1, <2>2 DEF Empties
  <2>5. QED
    BY <2>2, <2>3, <2>4
<1>4. QED
  BY <1>2, <1>3

(* What levelsV computes.                                                  *)
LEMMA TrieLevels ==
    ASSUME NEW z, NEW l
    PROVE  /\ levelsV(z, l, 0) = mapT(VL, chunk(z, l))
           /\ \A d \in Nat :
                 levelsV(z, l, d + 1) = mapT(VN, chunk(ztV(z, d), levelsV(z, l, d)))
PROOF
<1> DEFINE e(d) == CHOOSE f : Levels(d, f, z, l)
<1>1. ASSUME NEW d \in Nat PROVE Levels(d, e(d), z, l) /\ levelsV(z, l, d) = e(d)[d]
  <2>1. Levels(d, e(d), z, l)
    BY LevelsExists
  <2>2. levelsV(z, l, d) = e(d)[d]
    BY DEF levelsV, Levels
  <2>3. QED
    BY <2>1, <2>2
<1> HIDE DEF e
<1>2. levelsV(z, l, 0) = mapT(VL, chunk(z, l))
  <2>1. Levels(0, e(0), z, l) /\ levelsV(z, l, 0) = e(0)[0] /\ 0 \in 0 .. 0
    BY <1>1
  <2>2. QED
    BY <2>1 DEF Levels
<1>3. ASSUME NEW d \in Nat
      PROVE  levelsV(z, l, d + 1) = mapT(VN, chunk(ztV(z, d), levelsV(z, l, d)))
  <2>1. /\ d + 1 \in 0 .. d + 1 /\ d + 1 # 0 /\ (d + 1) - 1 = d
        /\ d \in 0 .. d /\ d + 1 \in Nat
    OBVIOUS
  <2>2. /\ Levels(d, e(d), z, l) /\ levelsV(z, l, d) = e(d)[d]
        /\ Levels(d + 1, e(d + 1), z, l) /\ levelsV(z, l, d + 1) = e(d + 1)[d + 1]
    BY <1>1, <2>1
  <2>3. e(d)[d] = e(d + 1)[d]
    BY <2>1, <2>2, LevelsAgree
  <2>4. e(d + 1)[d + 1] = mapT(VN, chunk(ztV(z, d), e(d + 1)[d]))
    BY <2>1, <2>2 DEF Levels
  <2>5. QED
    BY <2>2, <2>3, <2>4
<1>4. QED
  BY <1>2, <1>3

\* Trie g of depth d over the list l, the empty one beyond the last.
TrieAt(z, l, d, g) == nth(g, levelsV(z, l, d), ztV(z, d))

\* r is c with H applied to each entry.
Maps(X, Y, H, c, r) ==
    /\ H \in [X -> Y] /\ c \in Seq(X)
    /\ r = [i \in 1 .. Len(c) |-> H[c[i]]]

(* A mapped list is a list as long.                                        *)
LEMMA Mapped ==
    ASSUME NEW X, NEW Y, NEW H, NEW c, NEW r, Maps(X, Y, H, c, r)
    PROVE  r \in Seq(Y) /\ Len(r) = Len(c)
PROOF
<1>1. r \in [1 .. Len(c) -> Y] /\ Len(c) \in Nat
  BY DEF Maps
<1>2. QED
  BY <1>1, ListOf

(* Mapping a list maps each entry, the one it is continued with included.  *)
LEMMA MappedAt ==
    ASSUME NEW X, NEW Y, NEW H, NEW c, NEW r, Maps(X, Y, H, c, r),
           NEW blank \in X, NEW g \in Nat
    PROVE  nth(g, r, H[blank]) = H[nth(g, c, blank)]
PROOF
<1>2. r \in Seq(Y) /\ Len(r) = Len(c)
  BY Mapped
<1>1. c \in Seq(X) /\ Len(c) \in Nat
  BY DEF Maps
<1>3. CASE g < Len(c)
  <2>1. g + 1 \in 1 .. Len(c)
    BY <1>1, <1>3
  <2>2. r[g + 1] = H[c[g + 1]]
    BY <2>1 DEF Maps
  <2>3. QED
    BY <1>2, <1>3, <2>2 DEF nth
<1>4. CASE ~ (g < Len(c))
  BY <1>2, <1>4 DEF nth
<1>5. QED
  BY <1>3, <1>4

\* The tries of depth d are a list over X.
IsTrieLevel(z, l, d, X) == ztV(z, d) \in X /\ levelsV(z, l, d) \in Seq(X)

(* Leaf g of the lowest level holds the entries from g * B on.             *)
LEMMA TrieLevel0 ==
    ASSUME NEW X, NEW z \in X, NEW l \in Seq(X)
    PROVE  /\ \E Y : IsTrieLevel(z, l, 0, Y)
           /\ \A g \in Nat :
                 TrieAt(z, l, 0, g) = VL(Block(l, z, g * B))
PROOF
<1> DEFINE c == chunk(z, l)
           S == [1 .. B -> X]
           H == [b \in S |-> VL(b)]
           Y == {VL(b) : b \in S}
           blank == Blank(z)
           r == mapT(VL, c)
<1>1. c \in Seq(S) /\ blank \in S
  BY Chunked DEF Blank
<1>2. H \in [S -> Y] /\ H[blank] = VL(blank) /\ \A b \in S : H[b] = VL(b)
  BY <1>1
<1>3. Maps(S, Y, H, c, r)
  <2>1. DOMAIN c = 1 .. Len(c) /\ \A i \in 1 .. Len(c) : c[i] \in S
    BY <1>1
  <2>2. r = [i \in DOMAIN c |-> VL(c[i])]
    BY DEF mapT
  <2> HIDE DEF r, c, H, S, Y
  <2>3. QED
    BY <1>1, <1>2, <2>1, <2>2 DEF Maps
<1>4. \A g \in Nat : nth(g, c, blank) = Block(l, z, g * B) /\ nth(g, c, blank) \in S
  <2>1. ASSUME NEW g \in Nat PROVE nth(g, c, blank) \in S
    <3> HIDE DEF S, blank, c
    <3>1. g < Len(c) => g + 1 \in 1 .. Len(c)
      BY <1>1
    <3>2. QED
      BY <1>1, <3>1 DEF nth
  <2>2. ASSUME NEW g \in Nat
        PROVE  nth(g, c, blank) = Block(l, z, g * B)
    BY BlockAt
  <2>3. QED
    BY <2>1, <2>2
<1>5. ztV(z, 0) = VL(blank) /\ levelsV(z, l, 0) = r
  BY EmptyTries, TrieLevels DEF Blank
<1> HIDE DEF c, S, H, Y, blank, r
<1>6. r \in Seq(Y) /\ \A g \in Nat : nth(g, r, H[blank]) = H[nth(g, c, blank)]
  <2>1. r \in Seq(Y)
    BY <1>1, <1>2, <1>3, Mapped
  <2>2. ASSUME NEW g \in Nat PROVE nth(g, r, H[blank]) = H[nth(g, c, blank)]
    BY <1>1, <1>2, <1>3, MappedAt
  <2>3. QED
    BY <2>1, <2>2
<1>7. VL(blank) \in Y
  BY <1>1, <1>2
<1>8. IsTrieLevel(z, l, 0, Y)
  BY <1>5, <1>6, <1>7 DEF IsTrieLevel
<1>9. \A g \in Nat : TrieAt(z, l, 0, g) = VL(Block(l, z, g * B))
  BY <1>2, <1>4, <1>5, <1>6 DEF TrieAt
<1>10. QED
  BY <1>8, <1>9

(* Child i of node g is trie g * B + i - 1 of the level below.             *)
LEMMA TrieLevelNext ==
    ASSUME NEW z, NEW l, NEW d \in Nat, NEW X, IsTrieLevel(z, l, d, X)
    PROVE  /\ \E Y : IsTrieLevel(z, l, d + 1, Y)
           /\ \A g \in Nat :
                 TrieAt(z, l, d + 1, g)
                     = VN([i \in 1 .. B |-> TrieAt(z, l, d, g * B + i - 1)])
PROOF
<1> DEFINE e == ztV(z, d)
           v == levelsV(z, l, d)
           c == chunk(e, v)
           S == [1 .. B -> X]
           H == [b \in S |-> VN(b)]
           Y == {VN(b) : b \in S}
           blank == Blank(e)
           r == mapT(VN, c)
<1>0. e \in X /\ v \in Seq(X)
  BY DEF IsTrieLevel
<1>5. ztV(z, d + 1) = VN(blank) /\ levelsV(z, l, d + 1) = r
  BY EmptyTries, TrieLevels DEF Blank
<1>9. \A g \in Nat : TrieAt(z, l, d, g) = nth(g, v, e)
  BY DEF TrieAt
<1> HIDE DEF e, v
<1>1. c \in Seq(S) /\ blank \in S
  BY <1>0, Chunked DEF Blank
<1>2. H \in [S -> Y] /\ H[blank] = VN(blank) /\ \A b \in S : H[b] = VN(b)
  BY <1>1
<1>3. Maps(S, Y, H, c, r)
  <2>1. DOMAIN c = 1 .. Len(c) /\ \A i \in 1 .. Len(c) : c[i] \in S
    BY <1>1
  <2>2. r = [i \in DOMAIN c |-> VN(c[i])]
    BY DEF mapT
  <2> HIDE DEF r, c, H, S, Y
  <2>3. QED
    BY <1>1, <1>2, <2>1, <2>2 DEF Maps
<1>4. ASSUME NEW g \in Nat
      PROVE  /\ nth(g, c, blank) = [i \in 1 .. B |-> TrieAt(z, l, d, g * B + i - 1)]
             /\ nth(g, c, blank) \in S
  <2>1. nth(g, c, blank) \in S
    <3> HIDE DEF S, blank, c
    <3>1. g < Len(c) => g + 1 \in 1 .. Len(c)
      BY <1>1
    <3>2. QED
      BY <1>1, <3>1 DEF nth
  <2>2. nth(g, c, blank) = Block(v, e, g * B)
    BY <1>0, BlockAt
  <2>3. \A i \in 1 .. B : g * B + i - 1 \in Nat
    BY BAssumption
  <2> HIDE DEF c, S, H, Y, blank, r
  <2>4. QED
    BY <1>9, <2>1, <2>2, <2>3 DEF Block
<1> HIDE DEF c, S, H, Y, blank, r
<1>6. r \in Seq(Y) /\ \A g \in Nat : nth(g, r, H[blank]) = H[nth(g, c, blank)]
  <2>1. r \in Seq(Y)
    BY <1>1, <1>2, <1>3, Mapped
  <2>2. ASSUME NEW g \in Nat PROVE nth(g, r, H[blank]) = H[nth(g, c, blank)]
    BY <1>1, <1>2, <1>3, MappedAt
  <2>3. QED
    BY <2>1, <2>2
<1>7. VN(blank) \in Y
  BY <1>1, <1>2
<1>8. IsTrieLevel(z, l, d + 1, Y)
  BY <1>5, <1>6, <1>7 DEF IsTrieLevel
<1>10. ASSUME NEW g \in Nat
       PROVE  TrieAt(z, l, d + 1, g) = VN([i \in 1 .. B |-> TrieAt(z, l, d, g * B + i - 1)])
  <2>1. TrieAt(z, l, d + 1, g) = nth(g, r, H[blank])
    BY <1>2, <1>5 DEF TrieAt
  <2>2. nth(g, r, H[blank]) = VN(nth(g, c, blank))
    BY <1>2, <1>4, <1>6
  <2>3. QED
    BY <1>4, <2>1, <2>2
<1>11. QED
  BY <1>8, <1>10

(* Both, at every depth.                                                   *)
LEMMA TrieEquations ==
    ASSUME NEW X, NEW z \in X, NEW l \in Seq(X)
    PROVE  \A d, g \in Nat :
              /\ TrieAt(z, l, 0, g) = VL(Block(l, z, g * B))
              /\ TrieAt(z, l, d + 1, g)
                     = VN([i \in 1 .. B |-> TrieAt(z, l, d, g * B + i - 1)])
PROOF
<1> DEFINE T == {d \in Nat : \E Y : IsTrieLevel(z, l, d, Y)}
<1>1. 0 \in T
  BY TrieLevel0
<1>2. ASSUME NEW d \in Nat, d \in T PROVE d + 1 \in T
  <2>1. PICK Y : IsTrieLevel(z, l, d, Y)
    BY <1>2
  <2>2. \E W : IsTrieLevel(z, l, d + 1, W)
    BY <2>1, TrieLevelNext
  <2>3. QED
    BY <2>2
<1> HIDE DEF T
<1>3. \A d \in Nat : d \in T
  BY <1>1, <1>2, Upwards
<1>4. \A d \in Nat : \E Y : IsTrieLevel(z, l, d, Y)
  BY <1>3 DEF T
<1>5. ASSUME NEW d \in Nat, NEW g \in Nat
      PROVE  /\ TrieAt(z, l, 0, g) = VL(Block(l, z, g * B))
             /\ TrieAt(z, l, d + 1, g)
                    = VN([i \in 1 .. B |-> TrieAt(z, l, d, g * B + i - 1)])
  <2>1. PICK Y : IsTrieLevel(z, l, d, Y)
    BY <1>4
  <2>2. TrieAt(z, l, 0, g) = VL(Block(l, z, g * B))
    BY TrieLevel0
  <2>3. TrieAt(z, l, d + 1, g) = VN([i \in 1 .. B |-> TrieAt(z, l, d, g * B + i - 1)])
    BY <2>1, TrieLevelNext
  <2>4. QED
    BY <2>2, <2>3
<1>6. QED
  BY <1>5

\* w is the powers of B up to the m-th.
Powers(m, w) == Repeats(Nat, [p \in Nat |-> B * p], 1, m, w)

(* The powers exist.                                                       *)
LEMMA PowersExist ==
    ASSUME NEW m \in Nat
    PROVE  \E w : Powers(m, w)
PROOF
<1> DEFINE G == [p \in Nat |-> B * p]
<1>1. G \in [Nat -> Nat] /\ 1 \in Nat
  BY BAssumption
<1> HIDE DEF G
<1>2. \E w : Repeats(Nat, G, 1, m, w)
  BY <1>1, Repetition
<1>3. QED
  BY <1>2 DEF Powers, G

(* Each power is B times the one before and larger than its exponent.      *)
LEMMA PowersGrow ==
    ASSUME NEW m \in Nat, NEW w, Powers(m, w)
    PROVE  /\ w[0] = 1 /\ \A i \in 0 .. m : w[i] \in Nat
           /\ \A i \in 0 .. m : i # 0 => w[i] = B * w[i - 1]
           /\ \A i \in 0 .. m : w[i] > i
PROOF
<1>1. w[0] = 1 /\ \A i \in 0 .. m : w[i] \in Nat
  BY DEF Powers, Repeats
<1>2. ASSUME NEW i \in 0 .. m, i # 0 PROVE w[i] = B * w[i - 1]
  <2>1. i - 1 \in 0 .. m
    BY <1>2
  <2>2. w[i - 1] \in Nat
    BY <1>1, <2>1
  <2>3. w[i] = [p \in Nat |-> B * p][w[i - 1]]
    BY <1>2 DEF Powers, Repeats
  <2>4. QED
    BY <2>2, <2>3
<1> DEFINE T == {i \in Nat : i <= m => w[i] > i}
<1>3. 0 \in T
  BY <1>1
<1>4. ASSUME NEW i \in Nat, i \in T PROVE i + 1 \in T
  <2> SUFFICES ASSUME i + 1 <= m PROVE w[i + 1] > i + 1
    OBVIOUS
  <2>1. i \in 0 .. m /\ i + 1 \in 0 .. m /\ i + 1 # 0 /\ (i + 1) - 1 = i
    OBVIOUS
  <2>2. w[i + 1] = B * w[i] /\ w[i] \in Nat /\ w[i] > i
    BY <1>1, <1>2, <1>4, <2>1
  <2>3. B * w[i] >= 2 * w[i]
    BY <2>2, BAssumption
  <2>4. QED
    BY <2>2, <2>3, BAssumption
<1> HIDE DEF T
<1>5. \A i \in Nat : i \in T
  BY <1>3, <1>4, Upwards
<1>6. QED
  BY <1>1, <1>2, <1>5 DEF T

(* depthV finds a depth: a power of B whose multiple by B is at least m is  *)
(* among the first m, whatever B is.                                       *)
LEMMA Depth ==
    ASSUME NEW m \in Nat, NEW w, Powers(m, w)
    PROVE  /\ depthV(m).d \in 0 .. m
           /\ depthV(m).p = w[depthV(m).d] /\ B * depthV(m).p >= m
PROOF
<1> DEFINE c == CHOOSE f : f = [d \in 0 .. m |-> IF d = 0 THEN 1 ELSE B * f[d - 1]]
           Good(d) == spans(c[d], m) /\ \A e \in 0 .. d - 1 : ~ spans(c[e], m)
           g == CHOOSE d \in 0 .. m : Good(d)
<1>1. depthV(m) = [d |-> g, p |-> c[g]]
  BY DEF depthV
<1>2. c = [d \in 0 .. m |-> IF d = 0 THEN 1 ELSE B * c[d - 1]]
  <2>1. w = [d \in 0 .. m |-> IF d = 0 THEN 1 ELSE B * w[d - 1]]
    <3>1. w \in [0 .. m -> Nat]
      BY DEF Powers, Repeats
    <3>2. \A d \in 0 .. m : w[d] = IF d = 0 THEN 1 ELSE B * w[d - 1]
      BY PowersGrow
    <3>3. QED
      BY <3>1, <3>2
  <2>2. QED
    BY <2>1
<1> HIDE DEF c
<1>3. ASSUME NEW d \in 0 .. m PROVE c[d] = w[d]
  <2> DEFINE T == {i \in Nat : i <= m => c[i] = w[i]}
  <2>1. 0 \in T
    BY <1>2, PowersGrow
  <2>2. ASSUME NEW i \in Nat, i \in T PROVE i + 1 \in T
    <3> SUFFICES ASSUME i + 1 <= m PROVE c[i + 1] = w[i + 1]
      OBVIOUS
    <3>1. i + 1 \in 0 .. m /\ i + 1 # 0 /\ (i + 1) - 1 = i
      OBVIOUS
    <3>2. c[i + 1] = B * c[i]
      BY <1>2, <3>1
    <3>3. w[i + 1] = B * w[i]
      BY <3>1, PowersGrow
    <3>4. QED
      BY <2>2, <3>2, <3>3
  <2> HIDE DEF T
  <2>3. \A i \in Nat : i \in T
    BY <2>1, <2>2, Upwards
  <2>4. QED
    BY <2>3 DEF T
<1>4. B * w[m] >= m
  <2>1. w[m] \in Nat /\ w[m] > m
    BY PowersGrow
  <2>2. B * w[m] \in Nat /\ B * w[m] >= w[m]
    BY <2>1, BAssumption
  <2>3. QED
    BY <2>1, <2>2
<1>5. \E d \in 0 .. m : Good(d)
  <2> DEFINE T == {d \in 0 .. m : spans(c[d], m)}
  <2>1. m \in T
    BY <1>3, <1>4 DEF spans
  <2>2. T \subseteq Nat /\ T # {}
    BY <2>1
  <2> HIDE DEF T
  <2>3. PICK d \in T : \A e \in T : d <= e
    BY <2>2, LeastElement
  <2>4. d \in 0 .. m /\ spans(c[d], m)
    BY DEF T
  <2>5. ASSUME NEW e \in 0 .. d - 1 PROVE ~ spans(c[e], m)
    <3>1. e \in 0 .. m /\ ~ (d <= e)
      BY <2>4
    <3>2. QED
      BY <2>3, <3>1 DEF T
  <2>6. QED
    BY <2>4, <2>5
<1>6. g \in 0 .. m /\ spans(c[g], m)
  <2> HIDE DEF Good
  <2>1. g \in 0 .. m /\ Good(g)
    BY <1>5
  <2>2. QED
    BY <2>1 DEF Good
<1> HIDE DEF g
<1>7. QED
  BY <1>1, <1>3, <1>6 DEF spans

\* u is the trie of depth e that holds entry k of the list l.
Reached(z, l, w, k, e, u) ==
    \E c \in Nat :
        /\ u = [p |-> w[e], b |-> c * (B * w[e]), t |-> TrieAt(z, l, e, c)]
        /\ c * (B * w[e]) <= k /\ k < c * (B * w[e]) + B * w[e]

(* One step of vget goes from the trie of depth e that holds entry k to    *)
(* the one of depth e - 1: the digit is in range, and the first entry and  *)
(* the span stay exact.                                                    *)
LEMMA Below ==
    ASSUME NEW X, NEW z \in X, NEW l \in Seq(X), NEW k \in Nat,
           NEW m \in Nat, NEW w, Powers(m, w), NEW e \in 0 .. m, e # 0,
           NEW u, Reached(z, l, w, k, e, u)
    PROVE  Reached(z, l, w, k, e - 1, below(u, k))
PROOF
<1>1. PICK c \in Nat :
          /\ u = [p |-> w[e], b |-> c * (B * w[e]), t |-> TrieAt(z, l, e, c)]
          /\ c * (B * w[e]) <= k /\ k < c * (B * w[e]) + B * w[e]
  BY DEF Reached
<1>2. e - 1 \in 0 .. m /\ e - 1 \in Nat /\ (e - 1) + 1 = e
  OBVIOUS
<1> DEFINE p == w[e]
           o == w[e - 1]
           q == (k - c * (B * p)) \div p
           r == (k - c * (B * p)) % p
           t == [i \in 1 .. B |-> TrieAt(z, l, e - 1, c * B + i - 1)]
<1>3. B \in Nat /\ B > 1 /\ p \in Nat /\ p > 0 /\ o \in Nat /\ o > 0 /\ p = B * o
  BY <1>2, PowersGrow, BAssumption
<1>4. TrieAt(z, l, e, c) = VN(t)
  BY <1>2, TrieEquations
<1> HIDE DEF p, o
<1>5. c * (B * p) \in Nat /\ k - c * (B * p) \in Nat /\ k - c * (B * p) < B * p
  BY <1>1, <1>3 DEF p
<1>6. q \in Nat /\ r \in 0 .. p - 1 /\ k - c * (B * p) = p * q + r
  BY <1>3, <1>5, Divided
<1> HIDE DEF q, r
<1>7. q < B
  <2> SUFFICES ASSUME q >= B PROVE FALSE
    BY <1>3, <1>6
  <2>1. p * q >= p * B
    BY <1>3, <1>6
  <2>2. p * B = B * p /\ p * q \in Nat
    BY <1>3, <1>6
  <2>3. QED
    BY <1>3, <1>5, <1>6, <2>1, <2>2
<1>8. Digit(q) = q + 1
  BY <1>3, <1>6, <1>7 DEF Digit
<1>9. hi16(p) = o
  <2>1. (o * B + 0) \div B = o
    BY <1>3, DividedBy
  <2>2. p = o * B + 0
    BY <1>3
  <2>3. QED
    BY <2>1, <2>2 DEF hi16
<1>10. below(u, k) = [p |-> o, b |-> c * (B * p) + q * p, t |-> t[q + 1]]
  <2>1. u.p = p /\ u.b = c * (B * p) /\ u.t = VN(t)
    BY <1>1, <1>4 DEF p
  <2>2. ~ u.t.leaf /\ u.t.of = t
    BY <2>1 DEF VN
  <2>3. Digit((k - u.b) \div u.p) = q + 1
    BY <1>8, <2>1 DEF q
  <2>4. below(u, k) = [p |-> hi16(u.p), b |-> u.b + ((q + 1) - 1) * u.p,
                       t |-> u.t.of[q + 1]]
    BY <2>2, <2>3 DEF below
  <2>5. (q + 1) - 1 = q
    BY <1>6
  <2>6. QED
    BY <1>9, <2>1, <2>2, <2>4, <2>5
<1> DEFINE d == c * B + q
<1>11. d \in Nat
  BY <1>3, <1>6
<1>12. t[q + 1] = TrieAt(z, l, e - 1, d)
  <2>1. q + 1 \in 1 .. B /\ c * B + (q + 1) - 1 = d
    BY <1>3, <1>6, <1>7
  <2>2. QED
    BY <2>1
<1> HIDE DEF t
<1>13. c * (B * p) + q * p = d * (B * o)
  <2>1. c * (B * p) = (c * B) * p
    BY <1>3
  <2>2. (c * B) * p + q * p = d * p
    BY <1>3, <1>6
  <2>3. QED
    BY <1>3, <2>1, <2>2
<1>14. d * (B * o) <= k /\ k < d * (B * o) + B * o
  <2>1. q * p = p * q /\ p * q \in Nat
    BY <1>3, <1>6
  <2>2. QED
    BY <1>3, <1>5, <1>6, <1>13, <2>1
<1> HIDE DEF d
<1>15. below(u, k) = [p |-> o, b |-> d * (B * o), t |-> TrieAt(z, l, e - 1, d)]
  BY <1>10, <1>12, <1>13
<1>16. QED
  BY <1>11, <1>14, <1>15 DEF Reached, o

(***************************************************************************)
(* The trie of a list is the list: of_listV and vlook give entry k, and    *)
(* the blank beyond the end, for every list and every k.                   *)
(***************************************************************************)
THEOREM TrieIsList ==
    ASSUME NEW X, NEW z \in X, NEW l \in Seq(X), NEW k \in Nat
    PROVE  vlook(z, of_listV(z, l), k) = nth(k, l, z)
PROOF
<1> DEFINE m == Len(l)
           g == depthV(m)
           v == of_listV(z, l)
           u == [p |-> v.vp, b |-> 0, t |-> v.vroot]
           c == CHOOSE f : Descends(v.vp, f, u, k)
           h == CHOOSE i \in 0 .. v.vp : c[i].t.leaf
<1>1. m \in Nat
  OBVIOUS
<1>2. PICK w : Powers(m, w)
  BY <1>1, PowersExist
<1>3. g.d \in 0 .. m /\ g.p = w[g.d] /\ B * g.p >= m
  <2> HIDE DEF m
  <2>1. QED
    BY <1>1, <1>2, Depth
<1>4. v.vp = w[g.d] /\ v.vlim = B * w[g.d] /\ v.vroot = TrieAt(z, l, g.d, 0)
  BY <1>3 DEF of_listV, TrieAt
<1> HIDE DEF m, g, v
<1>5. w[g.d] \in Nat /\ w[g.d] > g.d /\ w[0] = 1
  BY <1>1, <1>2, <1>3, PowersGrow
<1>6. B \in Nat /\ B > 1 /\ B * w[g.d] \in Nat
  BY <1>5, BAssumption
<1>7. CASE ~ (k < v.vlim)
  <2>1. vlook(z, v, k) = z
    BY <1>7 DEF vlook
  <2>2. ~ (k < Len(l))
    BY <1>1, <1>3, <1>4, <1>6, <1>7 DEF m
  <2>3. QED
    BY <2>1, <2>2 DEF nth, v
<1>8. CASE k < v.vlim
  <2>1. Descends(v.vp, c, u, k)
    BY <1>4, <1>5, DescendsExists
  <2>2. vlook(z, v, k) = dsel(k - c[h].b, c[h].t.of)
    BY <1>8 DEF vlook, vget, Descends
  <2> HIDE DEF c, h
  <2> DEFINE E(i) == IF i <= g.d THEN g.d - i ELSE 0
             T == {i \in Nat : i <= v.vp => Reached(z, l, w, k, E(i), c[i])}
  <2>3. 0 \in T
    <3>1. c[0] = u
      BY <1>4, <1>5, <2>1 DEF Descends
    <3>2. u = [p |-> w[g.d], b |-> 0 * (B * w[g.d]), t |-> TrieAt(z, l, g.d, 0)]
      BY <1>4, <1>6
    <3>3. 0 * (B * w[g.d]) <= k /\ k < 0 * (B * w[g.d]) + B * w[g.d]
      BY <1>4, <1>6, <1>8
    <3>4. E(0) = g.d
      BY <1>1, <1>3
    <3>5. Reached(z, l, w, k, g.d, c[0])
      BY <3>1, <3>2, <3>3 DEF Reached
    <3>6. QED
      BY <3>4, <3>5
  <2>4. ASSUME NEW i \in Nat, i \in T PROVE i + 1 \in T
    <3> SUFFICES ASSUME i + 1 <= v.vp PROVE Reached(z, l, w, k, E(i + 1), c[i + 1])
      OBVIOUS
    <3>1. v.vp \in Nat /\ g.d \in Nat /\ m \in Nat
      BY <1>1, <1>3, <1>4, <1>5
    <3>2. i + 1 \in 0 .. v.vp /\ i + 1 # 0 /\ (i + 1) - 1 = i /\ i <= v.vp
      BY <3>1
    <3>3. c[i + 1] = below(c[i], k)
      BY <2>1, <3>2 DEF Descends
    <3>4. Reached(z, l, w, k, E(i), c[i])
      BY <2>4, <3>2
    <3>5. CASE i + 1 <= g.d
      <4>1. E(i) \in 0 .. m /\ E(i) # 0 /\ E(i) - 1 = E(i + 1)
        BY <1>3, <3>1, <3>5
      <4> HIDE DEF E
      <4>2. Reached(z, l, w, k, E(i) - 1, below(c[i], k))
        BY <1>1, <1>2, <3>4, <4>1, Below
      <4>3. QED
        BY <3>3, <4>1, <4>2
    <3>6. CASE ~ (i + 1 <= g.d)
      <4>1. E(i) = 0 /\ E(i + 1) = 0
        BY <3>1, <3>6
      <4>2. PICK a \in Nat : c[i].t = TrieAt(z, l, 0, a)
        BY <3>4, <4>1 DEF Reached
      <4>3. c[i].t.leaf
        <5>1. TrieAt(z, l, 0, a) = VL(Block(l, z, a * B))
          BY TrieLevel0
        <5>2. QED
          BY <4>2, <5>1 DEF VL
      <4>4. below(c[i], k) = c[i]
        BY <4>3 DEF below
      <4>5. QED
        BY <3>3, <3>4, <4>1, <4>4
    <3>7. QED
      BY <3>5, <3>6
  <2> HIDE DEF T
  <2>5. \A i \in Nat : i \in T
    BY <2>3, <2>4, Upwards
  <2>6. Reached(z, l, w, k, 0, c[h])
    <3>1. \A i \in 0 .. v.vp : Reached(z, l, w, k, E(i), c[i])
      BY <1>4, <1>5, <2>5 DEF T
    <3>2. ASSUME NEW a \in Nat PROVE TrieAt(z, l, 0, a).leaf
      <4>1. TrieAt(z, l, 0, a) = VL(Block(l, z, a * B))
        BY TrieLevel0
      <4>2. QED
        BY <4>1 DEF VL
    <3>3. h \in 0 .. v.vp /\ c[h].t.leaf
      <4>1. v.vp \in 0 .. v.vp /\ E(v.vp) = 0
        BY <1>1, <1>3, <1>4, <1>5
      <4> HIDE DEF E
      <4>2. Reached(z, l, w, k, 0, c[v.vp])
        BY <3>1, <4>1
      <4>3. PICK a \in Nat : c[v.vp].t = TrieAt(z, l, 0, a)
        BY <4>2 DEF Reached
      <4>4. c[v.vp].t.leaf
        BY <3>2, <4>3
      <4>5. QED
        BY <4>1, <4>4 DEF h
    <3>4. E(h) \in Nat
      BY <1>1, <1>3, <3>3
    <3>5. CASE E(h) # 0
      <4>1. E(h) - 1 \in Nat /\ (E(h) - 1) + 1 = E(h)
        BY <3>4, <3>5
      <4> DEFINE d == E(h) - 1
      <4> HIDE DEF d, E
      <4>2. PICK a \in Nat : c[h].t = TrieAt(z, l, d + 1, a)
        <5>1. Reached(z, l, w, k, d + 1, c[h])
          BY <3>1, <3>3, <4>1 DEF d
        <5>2. QED
          BY <5>1 DEF Reached
      <4>3. TrieAt(z, l, d + 1, a)
                = VN([i \in 1 .. B |-> TrieAt(z, l, d, a * B + i - 1)])
        BY <4>1, TrieEquations DEF d
      <4>4. QED
        BY <3>3, <4>2, <4>3 DEF VN
    <3>6. QED
      BY <3>1, <3>3, <3>5
  <2>7. PICK a \in Nat :
            /\ c[h] = [p |-> w[0], b |-> a * (B * w[0]), t |-> TrieAt(z, l, 0, a)]
            /\ a * (B * w[0]) <= k /\ k < a * (B * w[0]) + B * w[0]
    BY <2>6 DEF Reached
  <2>8. /\ a * B \in Nat /\ a * B <= k /\ k < a * B + B
        /\ c[h].b = a * B /\ c[h].t = TrieAt(z, l, 0, a)
    BY <1>5, <1>6, <2>7
  <2>9. c[h].t.of = Block(l, z, a * B)
    <3>1. TrieAt(z, l, 0, a) = VL(Block(l, z, a * B))
      BY TrieLevel0
    <3>2. QED
      BY <2>8, <3>1 DEF VL
  <2>10. Digit(k - a * B) = (k - a * B) + 1 /\ (k - a * B) + 1 \in 1 .. B
    BY <1>6, <2>8 DEF Digit
  <2>11. vlook(z, v, k) = Block(l, z, a * B)[(k - a * B) + 1]
    BY <2>2, <2>8, <2>9, <2>10 DEF dsel
  <2>12. a * B + ((k - a * B) + 1) - 1 = k
    BY <2>8
  <2>13. QED
    BY <2>10, <2>11, <2>12 DEF Block, v
<1>9. QED
  BY <1>7, <1>8

\* The blocks a column has, and the cells of the tables.
BlockCount == (ne + B - 1) \div B
Column(s) ==
    [g \in 1 .. BlockCount |-> [j \in 1 .. B |-> stA((g - 1) * B + j - 1, s)]]
TheCells == cells(nf, rows)
Outside == zcell(n)

(* The cell of a state: its column, cut from blocks of B states at a       *)
(* time, holds the steps of all the events at it.                          *)
LEMMA CellAt ==
    ASSUME TableTypeOK, Loaded, NEW i \in 1 .. n
    PROVE  TheCells[i] = [lk |-> i - 1, lnf |-> nfA(i - 1), lcol |-> Column(i - 1)]
PROOF
<1> DEFINE s == i - 1
           g == s \div B
           o == s % B
           rowsB == mapT(LAMBDA row : chunk(0, row), rows)
           R == mapT(LAMBDA r : nth(g, r, zb), rowsB)
           h == chunk(zb, R)
           col == mapT(LAMBDA t : bmap(LAMBDA u : dsel(o, u), t), h)
<1>1. /\ n \in Nat /\ ne \in Nat /\ nf \in [1 .. n -> Nat]
      /\ rows \in [1 .. ne -> [1 .. n -> 0 .. MaxNat]]
      /\ B \in Nat /\ B > 1 /\ B > 0 /\ s \in 0 .. n - 1 /\ s \in Nat /\ s + 1 = i
      /\ BlockCount \in Nat
  <2>1. n \in Nat /\ ne \in Nat /\ B \in Nat /\ B > 1
    BY Sizes, BAssumption
  <2>2. ne + B - 1 \in Nat /\ B > 0
    BY <2>1
  <2>3. BlockCount \in Nat
    BY <2>1, <2>2, Divided DEF BlockCount
  <2>4. QED
    BY <2>1, <2>2, <2>3, Tables
<1>2. g \in Nat /\ o \in 0 .. B - 1 /\ s = B * g + o
  BY <1>1, Divided
<1>3. TheCells[i] = [lk |-> s, lnf |-> nf[i], lcol |-> col]
  <2>1. DOMAIN nf = 1 .. n
    BY <1>1
  <2> HIDE DEF rowsB
  <2>2. TheCells = cellsB(nf, rowsB)
    BY DEF TheCells, cells, rowsB
  <2>3. QED
    BY <1>1, <2>1, <2>2 DEF cellsB, hgroup, hi16
<1>4. rowsB = [e \in 1 .. ne |-> chunk(0, rows[e])]
  <2>1. DOMAIN rows = 1 .. ne
    BY <1>1
  <2>2. QED
    BY <2>1 DEF mapT
<1>5. R = [e \in 1 .. ne |-> Block(rows[e], 0, g * B)]
  <2>1. R = [e \in 1 .. ne |-> nth(g, rowsB[e], zb)]
    <3> HIDE DEF g
    <3>1. DOMAIN rowsB = 1 .. ne
      BY <1>4
    <3> HIDE DEF rowsB
    <3>2. QED
      BY <3>1 DEF mapT
  <2>2. ASSUME NEW e \in 1 .. ne
        PROVE  nth(g, rowsB[e], zb) = Block(rows[e], 0, g * B)
    <3>1. rows[e] \in Seq(Nat)
      <4>1. rows[e] \in [1 .. n -> Nat]
        BY <1>1, MaxNatAssumption
      <4>2. QED
        BY <1>1, <4>1, ListOf
    <3>2. rowsB[e] = chunk(0, rows[e]) /\ zb = Blank(0)
      BY <1>4 DEF zb, Blank
    <3> HIDE DEF g, rowsB
    <3>3. 0 \in Nat
      OBVIOUS
    <3>4. nth(g, chunk(0, rows[e]), Blank(0)) = Block(rows[e], 0, g * B)
      BY <1>2, <3>1, <3>3, BlockAt
    <3>5. QED
      BY <3>2, <3>4
  <2> HIDE DEF R, rowsB, g
  <2>3. QED
    BY <2>1, <2>2
<1>6. h = [q \in 1 .. BlockCount |-> [j \in 1 .. B |-> nth((q - 1) * B + j - 1, R, zb)]]
  <2>1. Len(R) = ne
    <3> HIDE DEF R
    <3>1. R \in [1 .. ne -> {Block(rows[e], 0, g * B) : e \in 1 .. ne}]
      BY <1>5
    <3>2. QED
      BY <1>1, <3>1, ListOf
  <2> HIDE DEF R
  <2>2. QED
    BY <2>1 DEF chunk, BlockCount
<1> HIDE DEF s, g, o, rowsB
<1>7. ASSUME NEW e \in Nat PROVE dsel(o, nth(e, R, zb)) = stA(e, s)
  <2>1. Digit(o) = o + 1 /\ o + 1 \in 1 .. B
    BY <1>1, <1>2 DEF Digit
  <2> HIDE DEF R
  <2>2. Len(R) = ne
    <3>1. R \in [1 .. ne -> {Block(rows[a], 0, g * B) : a \in 1 .. ne}]
      BY <1>5
    <3>2. QED
      BY <1>1, <3>1, ListOf
  <2>3. CASE e < ne
    <3>1. e + 1 \in 1 .. ne /\ e \in 0 .. ne - 1
      BY <1>1, <2>3
    <3>2. nth(e, R, zb) = Block(rows[e + 1], 0, g * B)
      BY <1>5, <2>2, <2>3, <3>1 DEF nth
    <3>3. Block(rows[e + 1], 0, g * B)[o + 1] = nth(g * B + (o + 1) - 1, rows[e + 1], 0)
      BY <2>1 DEF Block
    <3>4. g * B + (o + 1) - 1 = s
      BY <1>1, <1>2
    <3>5. Len(rows[e + 1]) = n
      <4>1. rows[e + 1] \in [1 .. n -> 0 .. MaxNat]
        BY <1>1, <3>1
      <4>2. QED
        BY <1>1, <4>1, ListOf
    <3>6. nth(s, rows[e + 1], 0) = rows[e + 1][s + 1]
      BY <1>1, <3>5 DEF nth
    <3>7. stA(e, s) = rows[e + 1][s + 1]
      BY <1>1, <3>1 DEF stA
    <3>8. QED
      BY <2>1, <3>2, <3>3, <3>4, <3>6, <3>7 DEF dsel
  <2>4. CASE ~ (e < ne)
    <3>1. nth(e, R, zb) = zb
      BY <2>2, <2>4 DEF nth
    <3>2. e \notin 0 .. ne - 1
      BY <1>1, <2>4
    <3>3. QED
      BY <2>1, <3>1, <3>2 DEF dsel, zb, stA
  <2>5. QED
    BY <2>3, <2>4
<1>8. col = Column(s)
  <2>1. col = [q \in 1 .. BlockCount |->
                  [j \in 1 .. B |-> dsel(o, nth((q - 1) * B + j - 1, R, zb))]]
    <3>1. DOMAIN h = 1 .. BlockCount
      BY <1>6
    <3> HIDE DEF h
    <3>2. col = [q \in 1 .. BlockCount |-> [j \in 1 .. B |-> dsel(o, h[q][j])]]
      BY <3>1 DEF mapT, bmap
    <3> HIDE DEF R, col
    <3>3. QED
      BY <1>6, <3>2
  <2>2. ASSUME NEW q \in 1 .. BlockCount, NEW j \in 1 .. B
        PROVE  (q - 1) * B + j - 1 \in Nat
    <3>1. q - 1 \in Nat /\ j - 1 \in Nat
      BY <1>1
    <3>2. (q - 1) * B \in Nat
      BY <1>1, <3>1
    <3>3. QED
      BY <3>1, <3>2
  <2> HIDE DEF col, R
  <2>3. QED
    BY <1>7, <2>1, <2>2 DEF Column
<1>9. nf[i] = nfA(s)
  BY <1>1 DEF nfA
<1>10. QED
  BY <1>3, <1>8, <1>9 DEF s

\* The cell of a state, or the outside one.
Look(k) == nth(k, TheCells, Outside)
\* The trie over the cells.
Trie == of_listV(Outside, TheCells)
\* The cells of the steps at a state, in blocks.
Targets(s) ==
    [g \in 1 .. BlockCount |->
        [j \in 1 .. B |-> Look(stA((g - 1) * B + j - 1, s))]]

(* The trie over the cells answers with the cell of a state below n and    *)
(* with the outside one otherwise.                                         *)
LEMMA TrieAnswers ==
    ASSUME TableTypeOK, Loaded
    PROVE  /\ Len(TheCells) = n /\ DOMAIN TheCells = 1 .. n
           /\ \A k \in Nat : vlook(Outside, Trie, k) = Look(k)
           /\ \A k \in 0 .. n - 1 :
                 Look(k) = [lk |-> k, lnf |-> nfA(k), lcol |-> Column(k)]
           /\ \A k \in Nat : ~ (k < n) => Look(k) = Outside
PROOF
<1>1. n \in Nat /\ nf \in [1 .. n -> Nat]
  BY Sizes, Tables
<1> DEFINE X == {Outside} \cup {TheCells[i] : i \in 1 .. n}
<1>2. TheCells \in [1 .. n -> X]
  <2> DEFINE rowsB == mapT(LAMBDA row : chunk(0, row), rows)
             f(i) == [lk |-> i - 1, lnf |-> nf[i],
                      lcol |-> mapT(LAMBDA t : bmap(LAMBDA u : dsel((i - 1) % B, u), t),
                                    hgroup(hi16(i - 1), rowsB))]
  <2> HIDE DEF rowsB
  <2>1. TheCells = cellsB(nf, rowsB)
    BY DEF TheCells, cells, rowsB
  <2>2. TheCells = [i \in DOMAIN nf |-> f(i)]
    BY <2>1 DEF cellsB
  <2> HIDE DEF f
  <2>3. TheCells = [i \in 1 .. n |-> f(i)]
    BY <1>1, <2>2
  <2>4. QED
    BY <2>3
<1>3. Outside \in X
  OBVIOUS
<1> HIDE DEF X
<1>4. TheCells \in Seq(X) /\ Len(TheCells) = n /\ DOMAIN TheCells = 1 .. n
  BY <1>1, <1>2, ListOf
<1>5. ASSUME NEW k \in Nat PROVE vlook(Outside, Trie, k) = Look(k)
  BY <1>3, <1>4, TrieIsList DEF Trie, Look
<1>6. ASSUME NEW k \in 0 .. n - 1
      PROVE  Look(k) = [lk |-> k, lnf |-> nfA(k), lcol |-> Column(k)]
  <2>1. k + 1 \in 1 .. n /\ (k + 1) - 1 = k /\ k < n
    BY <1>1
  <2>2. TheCells[k + 1] = [lk |-> (k + 1) - 1, lnf |-> nfA((k + 1) - 1),
                           lcol |-> Column((k + 1) - 1)]
    BY <2>1, CellAt
  <2>3. Look(k) = TheCells[k + 1]
    BY <1>4, <2>1 DEF Look, nth
  <2>4. QED
    BY <2>1, <2>2, <2>3
<1>7. ASSUME NEW k \in Nat, ~ (k < n) PROVE Look(k) = Outside
  BY <1>4, <1>7 DEF Look, nth
<1>8. QED
  BY <1>4, <1>5, <1>6, <1>7

(* cell_ok says of a target what inVf says.                                *)
LEMMA CellIsValid ==
    ASSUME TableTypeOK, Loaded, NEW k \in Nat
    PROVE  cell_ok(n, Look(k)) <=> Oracle!inVf(n, k)
PROOF
<1>1. n \in Nat
  BY Sizes
<1>2. CASE k < n
  <2>1. k \in 0 .. n - 1
    BY <1>1, <1>2
  <2>2. Look(k) = [lk |-> k, lnf |-> nfA(k), lcol |-> Column(k)]
    BY <2>1, TrieAnswers
  <2>3. QED
    BY <2>2 DEF cell_ok, Oracle!inVf
<1>3. CASE ~ (k < n)
  <2>1. Look(k).lk = n
    BY <1>3, TrieAnswers DEF Outside, zcell
  <2>2. QED
    BY <1>1, <1>3, <2>1 DEF cell_ok, Oracle!inVf
<1>4. QED
  BY <1>2, <1>3

(* An event's block number and digit are a place of a column.              *)
LEMMA Position ==
    ASSUME TableTypeOK, NEW a \in Nat, a < ne
    PROVE  /\ a \div B \in Nat /\ a % B \in 0 .. B - 1 /\ a \div B < BlockCount
           /\ (a \div B) + 1 \in 1 .. BlockCount
           /\ Digit(a % B) = (a % B) + 1 /\ (a % B) + 1 \in 1 .. B
           /\ (((a \div B) + 1) - 1) * B + ((a % B) + 1) - 1 = a
PROOF
<1> DEFINE q == a \div B
           r == a % B
<1>1. ne \in Nat /\ B \in Nat /\ B > 1 /\ B > 0
  BY Sizes, BAssumption
<1>2. q \in Nat /\ r \in 0 .. B - 1 /\ a = B * q + r
  BY <1>1, Divided
<1>3. ne + B - 1 \in Nat
  BY <1>1
<1>4. BlockCount \in Nat
  BY <1>1, <1>3, Divided DEF BlockCount
<1> HIDE DEF q, r
<1>5. q * B < ne
  BY <1>1, <1>2
<1>6. q < BlockCount
  BY <1>1, <1>2, <1>5, Enough DEF BlockCount
<1>7. q + 1 \in 1 .. BlockCount /\ (q + 1) - 1 = q
  BY <1>2, <1>4, <1>6
<1>8. Digit(r) = r + 1 /\ r + 1 \in 1 .. B
  BY <1>1, <1>2 DEF Digit
<1>9. q * B + (r + 1) - 1 = a
  BY <1>1, <1>2
<1>10. QED
  BY <1>2, <1>6, <1>7, <1>8, <1>9 DEF q, r

(* What a pair's block number and digit find: the cell of the step         *)
(* target, and in a cell's column the step from there. (Outside the        *)
(* tables both read 0.)                                                    *)
LEMMA Entries ==
    ASSUME TableTypeOK, Loaded, NEW a \in Nat, a < ne, NEW s \in Nat
    PROVE  /\ qget(Outside, Targets(s), a \div B, a % B) = Look(stA(a, s))
           /\ qget(0, Look(s).lcol, a \div B, a % B) = stA(a, s)
PROOF
<1> DEFINE q == a \div B
           r == a % B
<1>1. /\ q \in Nat /\ q < BlockCount /\ q + 1 \in 1 .. BlockCount
      /\ Digit(r) = r + 1 /\ r + 1 \in 1 .. B
      /\ ((q + 1) - 1) * B + (r + 1) - 1 = a
  BY Position
<1> HIDE DEF q, r
<1>2. n \in Nat /\ ne \in Nat
  BY Sizes
<1>3. BlockCount \in Nat
  <2>1. B \in Nat /\ B > 0 /\ ne + B - 1 \in Nat
    BY <1>2, BAssumption
  <2>2. QED
    BY <2>1, Divided DEF BlockCount
<1>4. qget(Outside, Targets(s), q, r) = Look(stA(a, s))
  <2>1. Targets(s) \in [1 .. BlockCount -> {Targets(s)[g] : g \in 1 .. BlockCount}]
    BY DEF Targets
  <2>2. Len(Targets(s)) = BlockCount
    BY <1>3, <2>1, ListOf
  <2>3. Targets(s)[q + 1][r + 1] = Look(stA(((q + 1) - 1) * B + (r + 1) - 1, s))
    BY <1>1 DEF Targets
  <2>4. QED
    BY <1>1, <2>2, <2>3 DEF qget, dsel
<1>5. qget(0, Look(s).lcol, q, r) = stA(a, s)
  <2>1. CASE s < n
    <3>1. s \in 0 .. n - 1
      BY <1>2, <2>1
    <3>2. Look(s).lcol = Column(s)
      BY <3>1, TrieAnswers
    <3>3. Column(s) \in [1 .. BlockCount -> {Column(s)[g] : g \in 1 .. BlockCount}]
      BY DEF Column
    <3>4. Len(Column(s)) = BlockCount
      BY <1>3, <3>3, ListOf
    <3>5. Column(s)[q + 1][r + 1] = stA(((q + 1) - 1) * B + (r + 1) - 1, s)
      BY <1>1 DEF Column
    <3>6. QED
      BY <1>1, <3>2, <3>4, <3>5 DEF qget, dsel
  <2>2. CASE ~ (s < n)
    <3>1. Look(s).lcol = <<>>
      BY <2>2, TrieAnswers DEF Outside, zcell
    <3>2. qget(0, <<>>, q, r) = 0
      BY <1>1 DEF qget
    <3>3. stA(a, s) = 0
      BY <1>2, <2>2 DEF stA
    <3>4. QED
      BY <3>1, <3>2, <3>3
  <2>3. QED
    BY <2>1, <2>2
<1>6. QED
  BY <1>4, <1>5 DEF q, r

(* pair_okI on cells is pair_okF on states, also where a target is no      *)
(* state.                                                                  *)
LEMMA PairAgrees ==
    ASSUME TableTypeOK, Loaded, NEW p \in Nat \X Nat, p[1] < ne, p[2] < ne,
           NEW s \in Nat
    PROVE  pair_okI(Outside, Targets(s), rpairOf(p)) <=> Oracle!pair_okF(s, p)
PROOF
<1> DEFINE a == p[1]
           b == p[2]
<1>1. a \in Nat /\ b \in Nat /\ a < ne /\ b < ne
  OBVIOUS
<1>2. stA(a, s) \in Nat /\ stA(b, s) \in Nat
  BY AccessorTypes
<1>3. /\ rpairOf(p).qa = a \div B /\ rpairOf(p).da = a % B
      /\ rpairOf(p).qb = b \div B /\ rpairOf(p).db = b % B
  BY DEF rpairOf, hi16
<1>6. Oracle!pair_okF(s, p) <=> stA(a, stA(b, s)) = stA(b, stA(a, s))
  BY DEF Oracle!pair_okF
<1> HIDE DEF a, b
<1>4. /\ qget(Outside, Targets(s), a \div B, a % B) = Look(stA(a, s))
      /\ qget(Outside, Targets(s), b \div B, b % B) = Look(stA(b, s))
  BY <1>1, Entries
<1>5. /\ qget(0, Look(stA(b, s)).lcol, a \div B, a % B) = stA(a, stA(b, s))
      /\ qget(0, Look(stA(a, s)).lcol, b \div B, b % B) = stA(b, stA(a, s))
  BY <1>1, <1>2, Entries
<1>7. QED
  BY <1>3, <1>4, <1>5, <1>6 DEF pair_okI

(* Looking up a whole column gives the cells of all step targets.          *)
LEMMA CellTargets ==
    ASSUME TableTypeOK, Loaded, NEW s \in Nat
    PROVE  mapT(LAMBDA t : bmap(LAMBDA k : vlook(Outside, Trie, k), t), Column(s))
               = Targets(s)
PROOF
<1>1. ASSUME NEW g \in 1 .. BlockCount, NEW j \in 1 .. B
      PROVE  vlook(Outside, Trie, Column(s)[g][j]) = Look(stA((g - 1) * B + j - 1, s))
  <2>1. Column(s)[g][j] = stA((g - 1) * B + j - 1, s)
    BY DEF Column
  <2>2. stA((g - 1) * B + j - 1, s) \in Nat
    BY AccessorTypes
  <2>3. QED
    BY <2>1, <2>2, TrieAnswers
<1>2. DOMAIN Column(s) = 1 .. BlockCount
  BY DEF Column
<1>3. mapT(LAMBDA t : bmap(LAMBDA k : vlook(Outside, Trie, k), t), Column(s))
          = [g \in 1 .. BlockCount |->
                [j \in 1 .. B |-> vlook(Outside, Trie, Column(s)[g][j])]]
  BY <1>2 DEF mapT, bmap
<1>4. QED
  BY <1>1, <1>3 DEF Targets

(* The places of a column below ne are all the events.                     *)
LEMMA EveryEvent ==
    ASSUME TableTypeOK, NEW S
    PROVE  (\A g \in 1 .. BlockCount : \A j \in 1 .. B :
               (g - 1) * B + j - 1 < ne => (g - 1) * B + j - 1 \in S)
           <=> 0 .. ne - 1 \subseteq S
PROOF
<1>1. ne \in Nat /\ B \in Nat /\ B > 1 /\ ne + B - 1 \in Nat /\ B > 0
  BY Sizes, BAssumption
<1>2. BlockCount \in Nat
  BY <1>1, Divided DEF BlockCount
<1>3. ASSUME \A g \in 1 .. BlockCount : \A j \in 1 .. B :
               (g - 1) * B + j - 1 < ne => (g - 1) * B + j - 1 \in S,
             NEW e \in 0 .. ne - 1
      PROVE  e \in S
  <2>1. e \in Nat /\ e < ne
    BY <1>1
  <2>2. /\ (e \div B) + 1 \in 1 .. BlockCount /\ (e % B) + 1 \in 1 .. B
        /\ (((e \div B) + 1) - 1) * B + ((e % B) + 1) - 1 = e
    BY <2>1, Position
  <2>3. QED
    BY <1>3, <2>1, <2>2
<1>4. ASSUME 0 .. ne - 1 \subseteq S, NEW g \in 1 .. BlockCount, NEW j \in 1 .. B,
             (g - 1) * B + j - 1 < ne
      PROVE  (g - 1) * B + j - 1 \in S
  <2>1. g - 1 \in Nat /\ j - 1 \in Nat
    BY <1>1, <1>2
  <2>2. (g - 1) * B \in Nat
    BY <1>1, <2>1
  <2>3. (g - 1) * B + j - 1 \in 0 .. ne - 1
    BY <1>1, <1>4, <2>1, <2>2
  <2>4. QED
    BY <1>4, <2>3
<1>5. QED
  BY <1>3, <1>4

(* What the pass checks of a state's cell is what check_fn checks of the   *)
(* state.                                                                  *)
LEMMA StateAgrees ==
    ASSUME TableTypeOK, Loaded, NEW P,
           \A p \in P : p \in Nat \X Nat /\ p[1] < ne /\ p[2] < ne,
           NEW s \in 0 .. n - 1
    PROVE  state_okI(n, ne, Trie, {rpairOf(p) : p \in P}, s, TheCells[s + 1])
               <=> Oracle!state_okF(n, ne, P, s)
PROOF
<1> DEFINE c == TheCells[s + 1]
           ls == mapT(LAMBDA t : bmap(LAMBDA k : vlook(Outside, Trie, k), t), c.lcol)
           rp == {rpairOf(p) : p \in P}
<1>1. n \in Nat /\ ne \in Nat /\ s \in Nat /\ s < n /\ s + 1 \in 1 .. n /\ (s + 1) - 1 = s
  BY Sizes
<1>2. c.lnf = nfA(s) /\ c.lcol = Column(s)
  <2>1. c = [lk |-> (s + 1) - 1, lnf |-> nfA((s + 1) - 1), lcol |-> Column((s + 1) - 1)]
    BY <1>1, CellAt
  <2>2. QED
    BY <1>1, <2>1
<1>3. ls = Targets(s)
  <2> HIDE DEF c
  <2>1. QED
    BY <1>1, <1>2, CellTargets
<1>4. state_okI(n, ne, Trie, rp, s, c)
          <=> /\ cell_ok(n, vlook(Outside, Trie, c.lnf))
              /\ bfaL(LAMBDA d : cell_ok(n, d), ne, 0, ls)
              /\ s < n /\ (c.lnf = s \/ s = 0) => commI(Outside, ls, rp)
  <2> HIDE DEF c, rp
  <2>1. QED
    BY DEF state_okI, Outside
<1> HIDE DEF c, ls, rp
<1>5. cell_ok(n, vlook(Outside, Trie, c.lnf)) <=> Oracle!inVf(n, nfA(s))
  <2>1. nfA(s) \in Nat
    BY AccessorTypes
  <2>2. QED
    BY <1>2, <2>1, TrieAnswers, CellIsValid
<1>6. bfaL(LAMBDA d : cell_ok(n, d), ne, 0, ls)
          <=> \A e \in 0 .. ne - 1 : Oracle!inVf(n, stA(e, s))
  <2> DEFINE S == {e \in Int : Oracle!inVf(n, stA(e, s))}
  <2>1. bfaL(LAMBDA d : cell_ok(n, d), ne, 0, ls)
            <=> \A g \in 1 .. BlockCount : \A j \in 1 .. B :
                   (g - 1) * B + j - 1 < ne => cell_ok(n, ls[g][j])
    <3>1. DOMAIN ls = 1 .. BlockCount
      BY <1>3 DEF Targets
    <3>2. \A g \in 1 .. BlockCount : \A j \in 1 .. B :
             0 + (g - 1) * B + j - 1 = (g - 1) * B + j - 1
      <4>1. B \in Nat /\ B > 0 /\ ne + B - 1 \in Nat
        BY <1>1, BAssumption
      <4>2. BlockCount \in Nat
        BY <4>1, Divided DEF BlockCount
      <4>3. \A g \in 1 .. BlockCount : (g - 1) * B \in Int
        BY <4>1, <4>2
      <4>4. QED
        BY <4>3
    <3>3. QED
      BY <3>1, <3>2 DEF bfaL, bfa1
  <2>2. ASSUME NEW g \in 1 .. BlockCount, NEW j \in 1 .. B
        PROVE  cell_ok(n, ls[g][j]) <=> (g - 1) * B + j - 1 \in S
    <3>1. ls[g][j] = Look(stA((g - 1) * B + j - 1, s))
      BY <1>3 DEF Targets
    <3>2. stA((g - 1) * B + j - 1, s) \in Nat
      BY AccessorTypes
    <3>3. (g - 1) * B + j - 1 \in Int
      BY BAssumption
    <3>4. QED
      BY <3>1, <3>2, <3>3, CellIsValid
  <2>3. \A e \in 0 .. ne - 1 : e \in Int
    BY <1>1
  <2> HIDE DEF S
  <2>4. (\A g \in 1 .. BlockCount : \A j \in 1 .. B :
            (g - 1) * B + j - 1 < ne => (g - 1) * B + j - 1 \in S)
        <=> 0 .. ne - 1 \subseteq S
    BY EveryEvent
  <2>5. 0 .. ne - 1 \subseteq S <=> \A e \in 0 .. ne - 1 : Oracle!inVf(n, stA(e, s))
    BY <2>3 DEF S
  <2>6. QED
    BY <2>1, <2>2, <2>4, <2>5
<1>7. (s < n /\ (c.lnf = s \/ s = 0)) <=> Oracle!inDf(n, s)
  BY <1>2 DEF Oracle!inDf
<1>8. commI(Outside, ls, rp) <=> Oracle!commF(s, P)
  <2>1. ASSUME NEW p \in P
        PROVE  pair_okI(Outside, ls, rpairOf(p)) <=> Oracle!pair_okF(s, p)
    BY <1>1, <1>3, PairAgrees
  <2>2. QED
    BY <2>1 DEF commI, rp, Oracle!commF
<1>9. Oracle!state_okF(n, ne, P, s)
          <=> /\ Oracle!inVf(n, nfA(s))
              /\ \A e \in 0 .. ne - 1 : Oracle!inVf(n, stA(e, s))
              /\ Oracle!inDf(n, s) => Oracle!commF(s, P)
  BY DEF Oracle!state_okF
<1>10. QED
  BY <1>4, <1>5, <1>6, <1>7, <1>8, <1>9 DEF c, rp

(* The two oracles on tables of numbers and declared pairs of numbers.     *)
LEMMA VerdictsAgree ==
    ASSUME TableTypeOK, Loaded, Numbered
    PROVE  check_fast(n, ne, nf, rows, pairs) <=> Oracle!check_fn(n, ne, pairs)
PROOF
<1> DEFINE P == pairsOfT(ne, pairs)
<1>1. n \in Nat /\ ne \in Nat
  BY Sizes
<1>2. P \subseteq Nat \X Nat
  <2>1. allPairsT(ne) \subseteq Nat \X Nat
    BY <1>1 DEF allPairsT
  <2>2. QED
    BY <2>1 DEF pairsOfT, Numbered
<1>3. Oracle!pairsOfT(ne, pairs) = P
  BY DEF Oracle!pairsOfT, Oracle!allPairsT, pairsOfT, allPairsT
<1>4. Oracle!pairs_okW(ne, pairs) <=> pairs_okW(ne, pairs)
  BY <1>3 DEF Oracle!pairs_okW, pairs_okW
<1>5. ASSUME pairs_okW(ne, pairs)
      PROVE  scanI(n, ne, Trie, {rpairOf(p) : p \in P}, TheCells)
                 <=> \A s \in 0 .. n - 1 : Oracle!state_okF(n, ne, P, s)
  <2>1. \A p \in P : p \in Nat \X Nat /\ p[1] < ne /\ p[2] < ne
    BY <1>2, <1>5 DEF pairs_okW
  <2> HIDE DEF P
  <2>2. ASSUME NEW s \in 0 .. n - 1
        PROVE  state_okI(n, ne, Trie, {rpairOf(p) : p \in P}, s, TheCells[s + 1])
                   <=> Oracle!state_okF(n, ne, P, s)
    BY <2>1, StateAgrees
  <2>3. DOMAIN TheCells = 1 .. n
    BY TrieAnswers
  <2>4. /\ \A i \in 1 .. n : i - 1 \in 0 .. n - 1 /\ (i - 1) + 1 = i
        /\ \A s \in 0 .. n - 1 : s + 1 \in 1 .. n /\ (s + 1) - 1 = s
    BY <1>1
  <2>5. scanI(n, ne, Trie, {rpairOf(p) : p \in P}, TheCells)
            <=> \A i \in 1 .. n :
                   state_okI(n, ne, Trie, {rpairOf(p) : p \in P}, i - 1, TheCells[i])
    BY <2>3 DEF scanI
  <2>6. QED
    BY <2>2, <2>4, <2>5
<1>6. check_fast(n, ne, nf, rows, pairs)
          <=> /\ pairs_okW(ne, pairs)
              /\ scanI(n, ne, Trie, {rpairOf(p) : p \in P}, TheCells)
  BY DEF check_fast, TheCells, Trie, Outside
<1>7. Oracle!check_fn(n, ne, pairs)
          <=> /\ pairs_okW(ne, pairs)
              /\ \A s \in 0 .. n - 1 : Oracle!state_okF(n, ne, P, s)
  BY <1>3, <1>4 DEF Oracle!check_fn
<1>8. QED
  BY <1>5, <1>6, <1>7

(***************************************************************************)
(* On every table the command reads, whatever the block size, the one      *)
(* pass over cells, blocks and trie gives the verdict of check_fn.         *)
(***************************************************************************)
THEOREM FastOracleAgrees == TableSpec => []FastAgrees
PROOF
<1>1. IInv => FastAgrees
  BY VerdictsAgree DEF IInv, FastAgrees, Loaded
<1> QED BY <1>1, Invariance, PTL
=============================================================================
