--------------------------- MODULE ChannelsProofs ---------------------------
(***************************************************************************)
(* Proofs about Federation, Propagation and Channels, for every federation *)
(* that meets the conditions of Federation.                                *)
(*                                                                         *)
(* Part 1: what a repair pass computes, and what lists of events come to.  *)
(*                                                                         *)
(* Part 2: with no condition across events the channels bring every        *)
(* registry to agree with its sources.  Versions in flight to a target     *)
(* never exceed the last one sent (VInv), so the final projection is newer *)
(* than all of them and, once it is applied, they are refused              *)
(* (StaleRefused).  A served target therefore stands still, and so do its  *)
(* sources, which the topological order puts before it: what it took from  *)
(* them stays true (ServedSettled).                                        *)
(*                                                                         *)
(* Part 3: the federated machine is implemented, under XU, and runs        *)
(* converge, under XU and C2; the same for the propagation of current      *)
(* values, where only reachable states count.                              *)
(***************************************************************************)
EXTENDS Channels, FiniteSetTheorems, SequenceTheorems,
        WellFoundedInduction, TLAPS

-----------------------------------------------------------------------------
(* Part 1.                                                                 *)

(***************************************************************************)
(* Least elements stand in for induction over the natural numbers.         *)
(***************************************************************************)
LEMMA LeastElement ==
    ASSUME NEW T, T \subseteq Nat, T # {}
    PROVE  \E x \in T : \A y \in T : x <= y
<1>1. OpToRel(<, Nat) = {p \in Nat \X Nat : p[1] < p[2]}
  BY DEF OpToRel
<1>2. PICK x \in T : \A y \in T : ~ (<<y, x>> \in OpToRel(<, Nat))
  BY WFMin, NatLessThanWellFounded
<1>3. \A y \in T : ~ (<<y, x>> \in {p \in Nat \X Nat : p[1] < p[2]})
  BY <1>1, <1>2, Zenon
<1>4. ASSUME NEW y \in T PROVE ~ (y < x)
  <2>1. ~ (<<y, x>> \in {p \in Nat \X Nat : p[1] < p[2]})
    BY <1>3
  <2>2. <<y, x>> \in Nat \X Nat /\ <<y, x>>[1] = y /\ <<y, x>>[2] = x
    OBVIOUS
  <2>3. QED
    BY <2>1, <2>2
<1>5. QED
  BY <1>4

-----------------------------------------------------------------------------
(* The order of the registries.                                            *)

\* Every registry of the order has a place, and the places have registries.
LEMMA Places ==
    /\ DOMAIN Order = 1..Len(Order)
    /\ Len(Order) \in Nat
    /\ \A i \in 1..Len(Order) : Order[i] \in Registry
    /\ \A j \in Registry : \E i \in 1..Len(Order) : Order[i] = j
BY c_topo DEF Registry

\* The sources of a registry come before it.
LEMMA SourcesBefore ==
    ASSUME NEW i \in 1..Len(Order), NEW k \in Sources[Order[i]]
    PROVE  /\ \E h \in 1..(i - 1) : Order[h] = k
           /\ k \in Registry
           /\ k # Order[i]
<1>1. PICK h \in 1..(i - 1) : Order[h] = k
  BY c_topo, Places
<1>2. h \in 1..Len(Order) /\ h # i
  BY Places
<1>3. QED
  BY <1>1, <1>2, c_topo, Places

LEMMA SourcesType ==
    ASSUME NEW j \in Registry
    PROVE  Sources[j] \subseteq Registry /\ j \notin Sources[j]
BY Places, SourcesBefore

-----------------------------------------------------------------------------
(* States and projections.                                                 *)

LEMMA StateAt ==
    ASSUME NEW t \in States, NEW k \in Registry
    PROVE  t[k] \in Valid[k]
BY DEF States, StatesOf

LEMMA StateWith ==
    ASSUME NEW t \in States, NEW j \in Registry, NEW x \in Valid[j],
           NEW u, u = [t EXCEPT ![j] = x]
    PROVE  /\ u \in States
           /\ u[j] = x
           /\ \A k \in Registry : k # j => u[k] = t[k]
BY DEF States, StatesOf

LEMMA ProjectType ==
    ASSUME NEW t \in States, NEW j \in Registry
    PROVE  Project(j, t) \in StatesOf(Sources[j])
<1>1. \A k \in Sources[j] : t[k] \in Valid[k]
  BY SourcesType, StateAt
<1>2. QED
  BY <1>1 DEF Project, StatesOf

\* A repair reads nothing but the sources of its registry.
LEMMA RepairReadsSources ==
    ASSUME NEW t \in States, NEW u \in States, NEW j \in Registry,
           NEW x \in Valid[j], \A k \in Sources[j] : t[k] = u[k]
    PROVE  f(j, t, x) = f(j, u, x)
<1>1. Project(j, t) = Project(j, u)
  BY DEF Project
<1>2. QED
  BY <1>1, c_local

-----------------------------------------------------------------------------
(* The pass.                                                               *)

Pass(t, n, g) ==
    g = [i \in 0 .. n |-> IF i = 0 THEN t ELSE fstep(g[i - 1], Order[i])]

LEMMA PassStarts ==
    ASSUME NEW t
    PROVE  \E g : Pass(t, 0, g)
<1> DEFINE g == [i \in 0 .. 0 |-> t]
<1>1. Pass(t, 0, g)
  BY DEF Pass
<1>2. QED
  BY <1>1

LEMMA PassGrows ==
    ASSUME NEW t, NEW n \in Nat, n > 0, NEW g, Pass(t, n - 1, g)
    PROVE  \E h : Pass(t, n, h)
<1> DEFINE h == [i \in 0 .. n |->
                    IF i = n THEN fstep(g[n - 1], Order[n]) ELSE g[i]]
<1>1. ASSUME NEW i \in 0 .. n
      PROVE  h[i] = IF i = 0 THEN t ELSE fstep(h[i - 1], Order[i])
  <2>1. CASE i = n
    BY <2>1
  <2>2. CASE i # n
    <3>1. i \in 0 .. (n - 1) /\ (i # 0 => i - 1 \in 0 .. (n - 1))
      BY <2>2
    <3>2. g[i] = IF i = 0 THEN t ELSE fstep(g[i - 1], Order[i])
      BY <3>1 DEF Pass
    <3>3. h[i] = g[i] /\ (i # 0 => h[i - 1] = g[i - 1])
      BY <2>2, <3>1
    <3>4. QED
      BY <3>2, <3>3
  <2>3. QED
    BY <2>1, <2>2
<1>2. h = [i \in 0 .. n |-> h[i]]
  OBVIOUS
<1>3. Pass(t, n, h)
  BY <1>1, <1>2 DEF Pass
<1>4. QED
  BY <1>3

\* A pass of any length can be made.
LEMMA PassExists ==
    ASSUME NEW t, NEW n \in Nat
    PROVE  \E g : Pass(t, n, g)
<1> DEFINE Bad == {m \in Nat : ~ \E g : Pass(t, m, g)}
<1>1. SUFFICES ASSUME Bad # {} PROVE FALSE
  OBVIOUS
<1>2. PICK m \in Bad : \A k \in Bad : m <= k
  BY <1>1, LeastElement
<1>3. m # 0
  BY PassStarts
<1>4. m - 1 \in Nat /\ m - 1 \notin Bad
  BY <1>2, <1>3
<1>5. QED
  BY <1>3, <1>4, PassGrows

LEMMA PassRuns ==
    ASSUME NEW t
    PROVE  \E g : Pass(t, Len(Order), g) /\ frun(t) = g[Len(Order)]
<1>1. \E g : Pass(t, Len(Order), g)
  BY PassExists, Places
<1>2. QED
  BY <1>1 DEF frun, Pass

\* Only what comes after a registry reads it.
LEMMA ReadLater ==
    ASSUME NEW i \in 1..Len(Order), NEW h \in 1..i
    PROVE  Order[i] \notin Sources[Order[h]]
<1>1. SUFFICES ASSUME Order[i] \in Sources[Order[h]] PROVE FALSE
  OBVIOUS
<1>2. h \in 1..Len(Order)
  BY Places
<1>3. PICK k \in 1..(h - 1) : Order[k] = Order[i]
  BY <1>1, <1>2, SourcesBefore
<1>4. k \in 1..Len(Order) /\ k # i
  BY <1>2, <1>3, Places
<1>5. QED
  BY <1>3, <1>4, c_topo, Places

\* A registry of the order and another place of it differ.
LEMMA Apart ==
    ASSUME NEW i \in 1..Len(Order), NEW h \in 1..Len(Order), i # h
    PROVE  Order[i] # Order[h]
BY c_topo, Places

LEMMA RepairType ==
    ASSUME NEW z \in States, NEW j \in Registry, NEW x \in Valid[j]
    PROVE  f(j, z, x) \in Valid[j]
<1>1. f(j, z, x) = f(j, Project(j, z), x)
  BY c_local
<1>2. QED
  BY <1>1, ProjectType, c_m1

\* After i steps of a pass over t the first i registries are repaired and the
\* others are as they were.
Repaired(t, u, i) ==
    /\ u \in States
    /\ \A h \in 1..Len(Order) :
          u[Order[h]] = IF h <= i THEN f(Order[h], u, t[Order[h]]) ELSE t[Order[h]]

LEMMA PassStep ==
    ASSUME NEW t \in States, NEW u, NEW i \in 1..Len(Order), Repaired(t, u, i - 1)
    PROVE  Repaired(t, fstep(u, Order[i]), i)
<1> DEFINE j == Order[i]
           x == f(j, u, t[j])
           w == fstep(u, j)
<1>1. u \in States /\ j \in Registry /\ t[j] \in Valid[j] /\ i \in Nat
  BY Places, StateAt DEF Repaired
<1>2. u[j] = t[j]
  BY <1>1 DEF Repaired
<1>3. x \in Valid[j]
  BY <1>1, RepairType
<1>4. w = [u EXCEPT ![j] = x]
  BY <1>2 DEF fstep
<1>5. w \in States /\ w[j] = x /\ \A k \in Registry : k # j => w[k] = u[k]
  <2> HIDE DEF w, x, j
  <2>1. QED
    BY <1>1, <1>3, <1>4 DEF States, StatesOf
<1>6. ASSUME NEW h \in 1..Len(Order)
      PROVE  w[Order[h]] =
               IF h <= i THEN f(Order[h], w, t[Order[h]]) ELSE t[Order[h]]
  <2>1. Order[h] \in Registry /\ t[Order[h]] \in Valid[Order[h]] /\ h \in Nat
    BY Places, StateAt
  <2>2. CASE h = i
    <3>1. j \notin Sources[j] /\ Sources[j] \subseteq Registry
      BY <1>1, SourcesType
    <3>2. \A k \in Sources[j] : u[k] = w[k]
      BY <1>5, <3>1
    <3>3. x = f(j, w, t[j])
      BY <1>1, <1>5, <3>2, RepairReadsSources
    <3>4. QED
      BY <1>5, <2>2, <3>3
  <2>3. CASE h < i
    <3>1. j \notin Sources[Order[h]] /\ Sources[Order[h]] \subseteq Registry
      BY <2>1, <2>3, ReadLater, SourcesType
    <3>2. \A k \in Sources[Order[h]] : u[k] = w[k]
      BY <1>5, <3>1
    <3>3. f(Order[h], u, t[Order[h]]) = f(Order[h], w, t[Order[h]])
      BY <1>1, <1>5, <2>1, <3>2, RepairReadsSources
    <3>4. w[Order[h]] = u[Order[h]]
      BY <1>5, <2>1, <2>3, Apart
    <3>5. u[Order[h]] = f(Order[h], u, t[Order[h]])
      BY <1>1, <2>1, <2>3 DEF Repaired
    <3>6. QED
      BY <2>1, <2>3, <3>3, <3>4, <3>5
  <2>4. CASE h > i
    <3>1. w[Order[h]] = u[Order[h]]
      BY <1>5, <2>1, <2>4, Apart
    <3>2. u[Order[h]] = t[Order[h]]
      BY <1>1, <2>1, <2>4 DEF Repaired
    <3>3. QED
      BY <1>1, <2>1, <2>4, <3>1, <3>2
  <2>5. QED
    BY <1>1, <2>1, <2>2, <2>3, <2>4
<1>7. QED
  BY <1>5, <1>6 DEF Repaired

LEMMA Passed ==
    ASSUME NEW t \in States, NEW g, Pass(t, Len(Order), g)
    PROVE  Repaired(t, g[Len(Order)], Len(Order))
<1> DEFINE L == Len(Order)
           Bad == {i \in 0 .. L : ~ Repaired(t, g[i], i)}
<1>1. L \in Nat
  BY Places
<1>2. \A i \in 0 .. L : g[i] = IF i = 0 THEN t ELSE fstep(g[i - 1], Order[i])
  BY DEF Pass
<1>3. Bad = {}
  <2>1. SUFFICES ASSUME Bad # {} PROVE FALSE
    OBVIOUS
  <2>2. Bad \subseteq Nat
    BY <1>1
  <2>3. PICK m \in Bad : \A k \in Bad : m <= k
    <3> HIDE DEF Bad
    <3>1. QED
      BY <2>1, <2>2, LeastElement
  <2>4. m \in 0 .. L /\ ~ Repaired(t, g[m], m)
    BY <2>3
  <2>5. m # 0
    <3>1. Repaired(t, t, 0)
      BY Places DEF Repaired
    <3>2. g[0] = t
      BY <1>1, <1>2
    <3>3. QED
      BY <2>4, <3>1, <3>2
  <2>6. m - 1 \in 0 .. L /\ m - 1 \notin Bad
    BY <1>1, <2>3, <2>4, <2>5
  <2>7. Repaired(t, g[m - 1], m - 1)
    BY <2>6
  <2>8. g[m] = fstep(g[m - 1], Order[m]) /\ m \in 1 .. L
    BY <1>1, <1>2, <2>4, <2>5
  <2>9. QED
    BY <2>4, <2>7, <2>8, PassStep
<1>4. L \in 0 .. L
  BY <1>1
<1>5. QED
  BY <1>3, <1>4

-----------------------------------------------------------------------------
(* Normal forms.                                                           *)

\* u is t with every shared part the image of u's own sources.
Settled(t, u) ==
    /\ u \in States
    /\ \A j \in Registry : u[j] = f(j, u, t[j])

LEMMA NormalForm ==
    ASSUME NEW t \in States
    PROVE  Settled(t, N(t))
<1>1. [k \in Registry |-> rho(k, t[k])] = t
  <2>1. \A k \in Registry : rho(k, t[k]) = t[k]
    BY StateAt, c_rho
  <2>2. t = [k \in Registry |-> t[k]]
    BY DEF States, StatesOf
  <2>3. QED
    BY <2>1, <2>2
<1>2. N(t) = frun(t)
  BY <1>1 DEF N
<1>3. PICK g : Pass(t, Len(Order), g) /\ frun(t) = g[Len(Order)]
  BY PassRuns
<1>4. Repaired(t, N(t), Len(Order))
  BY <1>2, <1>3, Passed
<1>5. ASSUME NEW j \in Registry PROVE N(t)[j] = f(j, N(t), t[j])
  <2>1. PICK h \in 1..Len(Order) : Order[h] = j
    BY Places
  <2>2. h <= Len(Order)
    BY Places
  <2>3. QED
    BY <1>4, <2>1, <2>2 DEF Repaired
<1>6. QED
  BY <1>4, <1>5 DEF Settled, Repaired

\* Two settled states agree up to a place of the order if the states they
\* came from look the same to the repairs up to it.
LEMMA Agree ==
    ASSUME NEW t \in States, NEW s \in States, NEW u, NEW w,
           Settled(t, u), Settled(s, w), NEW m \in 0..Len(Order),
           \A h \in 1..m : f(Order[h], u, t[Order[h]]) = f(Order[h], u, s[Order[h]])
    PROVE  \A h \in 1..m : u[Order[h]] = w[Order[h]]
<1> DEFINE Bad == {h \in 1..m : u[Order[h]] # w[Order[h]]}
<1>1. SUFFICES ASSUME Bad # {} PROVE FALSE
  OBVIOUS
<1>2. m \in Nat /\ m <= Len(Order) /\ Bad \subseteq Nat
  BY Places
<1>3. PICK i \in Bad : \A h \in Bad : i <= h
  <2> HIDE DEF Bad
  <2>1. QED
    BY <1>1, <1>2, LeastElement
<1>4. i \in 1..m /\ i \in 1..Len(Order) /\ u[Order[i]] # w[Order[i]]
  BY <1>2, <1>3, Places
<1>5. /\ Order[i] \in Registry /\ s[Order[i]] \in Valid[Order[i]]
      /\ u \in States /\ w \in States
  BY <1>4, Places, StateAt DEF Settled
<1>6. ASSUME NEW k \in Sources[Order[i]] PROVE u[k] = w[k]
  <2>1. PICK h \in 1..(i - 1) : Order[h] = k
    BY <1>4, SourcesBefore
  <2>2. h \in 1..m /\ ~ (i <= h)
    BY <1>2, <1>4
  <2>3. h \notin Bad
    BY <1>3, <2>2
  <2>4. QED
    BY <2>1, <2>2, <2>3
<1>7. f(Order[i], u, s[Order[i]]) = f(Order[i], w, s[Order[i]])
  BY <1>5, <1>6, RepairReadsSources
<1>8. u[Order[i]] = f(Order[i], u, t[Order[i]])
  BY <1>5 DEF Settled
<1>9. w[Order[i]] = f(Order[i], w, s[Order[i]])
  BY <1>5 DEF Settled
<1>10. QED
  BY <1>4, <1>7, <1>8, <1>9

\* So two states that look the same to every repair have one normal form.
LEMMA SameNormalForm ==
    ASSUME NEW t \in States, NEW s \in States,
           \A j \in Registry : f(j, N(t), t[j]) = f(j, N(t), s[j])
    PROVE  N(t) = N(s)
<1>1. Settled(t, N(t)) /\ Settled(s, N(s))
  BY NormalForm
<1>2. /\ Len(Order) \in 0..Len(Order)
      /\ \A h \in 1..Len(Order) :
            f(Order[h], N(t), t[Order[h]]) = f(Order[h], N(t), s[Order[h]])
  BY Places
<1>3. \A h \in 1..Len(Order) : N(t)[Order[h]] = N(s)[Order[h]]
  BY <1>1, <1>2, Agree
<1>4. \A j \in Registry : N(t)[j] = N(s)[j]
  BY <1>3, Places
<1>5. N(t) \in [Registry -> UNION {Valid[k] : k \in Registry}]
      /\ N(s) \in [Registry -> UNION {Valid[k] : k \in Registry}]
  BY <1>1 DEF Settled, States, StatesOf
<1>6. QED
  BY <1>4, <1>5

\* A settled state is the normal form of what it came from.
LEMMA SettledOnce ==
    ASSUME NEW t \in States, NEW u, Settled(t, u)
    PROVE  u = N(t)
<1>1. Settled(t, N(t)) /\ Len(Order) \in 0..Len(Order)
  BY NormalForm, Places
<1>2. \A h \in 1..Len(Order) : u[Order[h]] = N(t)[Order[h]]
  BY <1>1, Agree
<1>3. \A j \in Registry : u[j] = N(t)[j]
  BY <1>2, Places
<1>4. u \in [Registry -> UNION {Valid[k] : k \in Registry}]
      /\ N(t) \in [Registry -> UNION {Valid[k] : k \in Registry}]
  BY <1>1 DEF Settled, States, StatesOf
<1>5. QED
  BY <1>3, <1>4

-----------------------------------------------------------------------------
(* What can be seen of a step in the normal form.                          *)

\* The repairs of a registry from two states: the last one wins.
LEMMA RepairAbsorbs ==
    ASSUME NEW j \in Registry, NEW z \in States,
           NEW y \in StatesOf(Sources[j]), NEW x \in Valid[j]
    PROVE  f(j, z, f(j, y, x)) = f(j, z, x)
<1>1. Project(j, z) \in StatesOf(Sources[j]) /\ f(j, y, x) \in Valid[j]
  BY ProjectType, c_m1
<1>2. f(j, z, f(j, y, x)) = f(j, Project(j, z), f(j, y, x))
  BY <1>1, c_local
<1>3. f(j, z, x) = f(j, Project(j, z), x)
  BY c_local
<1>4. f(j, Project(j, z), f(j, y, x)) = f(j, Project(j, z), x)
  BY <1>1, c_absorb
<1>5. QED
  BY <1>2, <1>3, <1>4

\* Merging a projection, of whatever age, leaves the normal form.
LEMMA MergeInvisible ==
    ASSUME NEW t \in States, NEW j \in Registry, NEW y \in StatesOf(Sources[j]),
           NEW s, s = [t EXCEPT ![j] = f(j, y, t[j])]
    PROVE  s \in States /\ N(s) = N(t)
<1>1. t[j] \in Valid[j] /\ f(j, y, t[j]) \in Valid[j]
  BY StateAt, c_m1
<1>2. /\ s \in States /\ s[j] = f(j, y, t[j])
      /\ \A k \in Registry : k # j => s[k] = t[k]
  BY <1>1 DEF States, StatesOf
<1>3. N(t) \in States
  BY NormalForm DEF Settled
<1>4. f(j, N(t), s[j]) = f(j, N(t), t[j])
  BY <1>1, <1>2, <1>3, RepairAbsorbs
<1>5. \A k \in Registry : f(k, N(t), t[k]) = f(k, N(t), s[k])
  BY <1>2, <1>4
<1>6. QED
  BY <1>2, <1>5, SameNormalForm

\* An event that commutes with the repair of its registry at t shows in the
\* normal form as one step of the federated machine.
LEMMA EventVisible ==
    ASSUME NEW t \in States, NEW e \in Event, XUat(t, e)
    PROVE  evstep(e, t) \in States /\ N(evstep(e, t)) = applyF(e, N(t))
<1> DEFINE j == reg(e)
           z == N(t)
           t1 == evstep(e, t)
           z1 == evstep(e, z)
           u == N(t1)
<1>1. j \in Registry /\ t[j] \in Valid[j]
  BY c_reg, StateAt
<1>2. z \in States /\ \A k \in Registry : z[k] = f(k, z, t[k])
  BY NormalForm DEF Settled
<1>3. /\ t1 \in States /\ t1[j] = sig(e, t[j])
      /\ \A k \in Registry : k # j => t1[k] = t[k]
  BY <1>1, c_sig, StateWith DEF evstep
<1>4. /\ z1 \in States /\ z1[j] = sig(e, z[j])
      /\ \A k \in Registry : k # j => z1[k] = z[k]
  <2>1. z[j] \in Valid[j]
    BY <1>1, <1>2, StateAt
  <2>2. sig(e, z[j]) \in Valid[j]
    BY <2>1, c_sig
  <2>3. z1 = [z EXCEPT ![j] = sig(e, z[j])]
    BY DEF evstep
  <2>4. QED
    <3> HIDE DEF z, z1, j
    <3>1. QED
      BY <1>1, <1>2, <2>2, <2>3 DEF States, StatesOf
<1>5. u \in States /\ Settled(t1, u)
  BY <1>3, NormalForm DEF Settled
<1>6. \A k \in Sources[j] : z[k] = u[k]
  <2>1. PICK p \in 1..Len(Order) : Order[p] = j
    BY <1>1, Places
  <2>2. p - 1 \in 0..Len(Order) /\ \A h \in 1..(p - 1) : h \in 1..Len(Order) /\ h # p
    BY Places
  <2>3. \A h \in 1..(p - 1) : Order[h] \in Registry /\ Order[h] # j
    BY <2>1, <2>2, Places, Apart
  <2>4. \A h \in 1..(p - 1) : t[Order[h]] = t1[Order[h]]
    BY <1>3, <2>3
  <2>5. Settled(t, z)
    BY NormalForm
  <2>6. \A h \in 1..(p - 1) : z[Order[h]] = u[Order[h]]
    <3> HIDE DEF z, u, t1, j
    <3>1. QED
      BY <1>3, <1>5, <2>2, <2>4, <2>5, Agree
  <2>7. ASSUME NEW k \in Sources[j] PROVE z[k] = u[k]
    <3>1. PICK h \in 1..(p - 1) : Order[h] = k
      BY <2>1, SourcesBefore
    <3> HIDE DEF z, u, j
    <3>2. QED
      BY <2>6, <3>1
  <2>8. QED
    BY <2>7
<1>7. f(j, u, t1[j]) = f(j, u, z1[j])
  <2>1. z[j] \in Valid[j] /\ sig(e, z[j]) \in Valid[j] /\ sig(e, t[j]) \in Valid[j]
    BY <1>1, <1>2, StateAt, c_sig
  <2>2. f(j, z, sig(e, z[j])) = f(j, z, sig(e, t[j]))
    BY <1>1, <1>2 DEF XUat
  <2>3. /\ f(j, z, sig(e, z[j])) = f(j, u, sig(e, z[j]))
        /\ f(j, z, sig(e, t[j])) = f(j, u, sig(e, t[j]))
    <3> HIDE DEF z, u, j
    <3>1. QED
      BY <1>1, <1>2, <1>5, <1>6, <2>1, RepairReadsSources
  <2>4. QED
    BY <1>3, <1>4, <2>2, <2>3
<1>8. ASSUME NEW k \in Registry, k # j
      PROVE  f(k, u, t1[k]) = f(k, u, z1[k])
  <2>1. t[k] \in Valid[k] /\ Project(k, z) \in StatesOf(Sources[k])
    BY <1>2, StateAt, ProjectType
  <2>2. z[k] = f(k, Project(k, z), t[k])
    BY <1>2, <2>1, c_local
  <2>3. f(k, u, z[k]) = f(k, u, t[k])
    BY <1>5, <2>1, <2>2, RepairAbsorbs
  <2>4. QED
    BY <1>3, <1>4, <1>8, <2>3
<1>9. \A k \in Registry : f(k, u, t1[k]) = f(k, u, z1[k])
  BY <1>7, <1>8
<1>10. N(t1) = N(z1)
  <2> HIDE DEF z1, t1
  <2>1. QED
    BY <1>3, <1>4, <1>9, SameNormalForm
<1>11. QED
  BY <1>3, <1>10 DEF applyF

\* Commuting from every valid state is more than commuting at one.
LEMMA XUEverywhere ==
    ASSUME XU, NEW t \in States, NEW e \in Event
    PROVE  XUat(t, e)
<1>1. N(t) \in States /\ t[reg(e)] \in Valid[reg(e)]
  BY NormalForm, StateAt, c_reg DEF Settled
<1>2. QED
  BY <1>1 DEF XU, XUat

-----------------------------------------------------------------------------
(* Two events in the other order: a step of the federated machine each,    *)
(* under the conditions across registries.                                 *)

\* Changing a registry changes no normal form before it in the order.
LEMMA EarlierUnmoved ==
    ASSUME NEW t \in States, NEW u \in States, NEW j \in Registry,
           \A k \in Registry : k # j => t[k] = u[k]
    PROVE  \A k \in Sources[j] : N(t)[k] = N(u)[k]
<1>1. PICK i \in 1..Len(Order) : Order[i] = j
  BY Places
<1>2. Len(Order) \in Nat /\ i - 1 \in 0..Len(Order)
  BY Places
<1>3. \A h \in 1..(i - 1) : t[Order[h]] = u[Order[h]]
  <2>1. SUFFICES ASSUME NEW h \in 1..(i - 1) PROVE t[Order[h]] = u[Order[h]]
    OBVIOUS
  <2>2. h \in 1..Len(Order) /\ h # i
    BY <1>2
  <2>3. QED
    BY <1>1, <2>2, Apart, Places
<1>4. Settled(t, N(t)) /\ Settled(u, N(u))
  BY NormalForm
<1>5. \A h \in 1..(i - 1) : N(t)[Order[h]] = N(u)[Order[h]]
  BY <1>2, <1>3, <1>4, Agree
<1>6. SUFFICES ASSUME NEW k \in Sources[j] PROVE N(t)[k] = N(u)[k]
  OBVIOUS
<1>7. PICK h \in 1..(i - 1) : Order[h] = k
  BY <1>1, SourcesBefore
<1>8. QED
  BY <1>5, <1>7

LEMMA EventType ==
    ASSUME NEW t \in States, NEW e \in Event
    PROVE  /\ reg(e) \in Registry
           /\ sig(e, t[reg(e)]) \in Valid[reg(e)]
           /\ evstep(e, t) \in States
           /\ evstep(e, t)[reg(e)] = sig(e, t[reg(e)])
           /\ \A k \in Registry : k # reg(e) => evstep(e, t)[k] = t[k]
<1> DEFINE j == reg(e)
           x == sig(e, t[j])
           u == evstep(e, t)
<1>1. j \in Registry /\ x \in Valid[j]
  BY c_reg, c_sig, StateAt
<1>2. u = [t EXCEPT ![j] = x]
  BY DEF evstep
<1>3. /\ u \in States /\ u[j] = x
      /\ \A k \in Registry : k # j => u[k] = t[k]
  <2> HIDE DEF j, x, u
  <2> QED
    BY <1>1, <1>2 DEF States, StatesOf
<1> QED
  BY <1>1, <1>3

\* Two events of one registry: by C2, read through the repair of a stale part.
LEMMA SameRegistry ==
    ASSUME C2, NEW t \in States, NEW d \in Event, NEW e \in Event,
           reg(d) = reg(e), XUat(t, d), XUat(evstep(d, t), e),
           NEW z \in States, \A k \in Sources[reg(e)] : z[k] = N(t)[k],
           NEW b, b = f(reg(e), z, t[reg(e)])
    PROVE  f(reg(e), z, sig(e, sig(d, t[reg(e)])))
             = f(reg(e), z, sig(e, f(reg(e), z, sig(d, b))))
<1> DEFINE j == reg(e)
           a == t[j]
           x == sig(d, a)
           t1 == evstep(d, t)
<1>1. /\ j \in Registry /\ a \in Valid[j] /\ x \in Valid[j] /\ t1 \in States
      /\ t1[j] = x /\ \A k \in Registry : k # j => t1[k] = t[k]
  BY EventType, StateAt
<1>2. sig(e, x) \in Valid[j] /\ b \in Valid[j] /\ sig(d, b) \in Valid[j]
  BY <1>1, RepairType, c_sig
<1>3. N(t) \in States /\ N(t1) \in States
  BY <1>1, NormalForm DEF Settled
<1>4. \A k \in Sources[j] : N(t)[k] = z[k] /\ N(t1)[k] = z[k]
  BY <1>1, EarlierUnmoved
<1>5. \A y \in Valid[j] : f(j, N(t), y) = f(j, z, y) /\ f(j, N(t1), y) = f(j, z, y)
  BY <1>1, <1>3, <1>4, RepairReadsSources
<1>6. f(j, z, sig(d, b)) = f(j, z, x)
  BY <1>1, <1>2, <1>5 DEF XUat
<1>7. f(j, z, x) \in Valid[j]
  BY <1>1, RepairType
<1>8. sig(e, f(j, z, x)) \in Valid[j]
  BY <1>7, c_sig
<1>9. f(j, z, sig(e, f(j, z, x))) = f(j, z, sig(e, x))
  BY <1>1, <1>2, <1>5, <1>8 DEF XUat
<1> QED
  BY <1>6, <1>9

\* Two events at two registries do not meet at all.
LEMMA ApartCommute ==
    ASSUME NEW t \in States, NEW d \in Event, NEW e \in Event, reg(d) # reg(e)
    PROVE  evstep(e, evstep(d, t)) = evstep(d, evstep(e, t))
<1> DEFINE u == evstep(e, evstep(d, t))
           w == evstep(d, evstep(e, t))
<1>1. u \in States /\ w \in States
  BY EventType
<1>2. \A k \in Registry : u[k] = w[k]
  <2>1. SUFFICES ASSUME NEW k \in Registry PROVE u[k] = w[k]
    OBVIOUS
  <2>2. CASE k = reg(d)
    BY <2>2, EventType
  <2>3. CASE k = reg(e)
    BY <2>3, EventType
  <2>4. CASE k # reg(d) /\ k # reg(e)
    BY <2>4, EventType
  <2>5. QED
    BY <2>2, <2>3, <2>4
<1>3. QED
  BY <1>1, <1>2 DEF States, StatesOf

\* Whichever of two events comes first, completing the repairs after both
\* gives one state.
LEMMA OrderForgotten ==
    ASSUME C2, NEW t \in States, NEW d \in Event, NEW e \in Event,
           XUat(t, d), XUat(t, e), XUat(evstep(d, t), e), XUat(evstep(e, t), d)
    PROVE  N(evstep(e, evstep(d, t))) = N(evstep(d, evstep(e, t)))
<1>1. CASE reg(d) # reg(e)
  BY <1>1, ApartCommute
<1>2. CASE reg(d) = reg(e)
  <2> DEFINE j == reg(e)
             u == evstep(e, evstep(d, t))
             w == evstep(d, evstep(e, t))
             z == N(u)
             b == f(j, z, t[j])
  <2>1. u \in States /\ w \in States /\ j \in Registry /\ t[j] \in Valid[j]
    BY EventType, StateAt
  <2>2. /\ u[j] = sig(e, sig(d, t[j])) /\ w[j] = sig(d, sig(e, t[j]))
        /\ \A k \in Registry : k # j => u[k] = t[k] /\ w[k] = t[k]
    BY <1>2, EventType
  <2>3. z \in States
    BY <2>1, NormalForm DEF Settled
  <2>4. \A k \in Sources[j] : z[k] = N(t)[k]
    BY <2>1, <2>2, EarlierUnmoved
  <2>5. b \in Valid[j] /\ b = f(j, z, b)
    BY <2>1, <2>3, RepairType, ProjectType, RepairAbsorbs, c_local
  <2>6. f(j, z, u[j]) = f(j, z, sig(e, f(j, z, sig(d, b))))
    <3> HIDE DEF z
    <3> QED
      BY <1>2, <2>2, <2>3, <2>4, SameRegistry
  <2>7. f(j, z, w[j]) = f(j, z, sig(d, f(j, z, sig(e, b))))
    <3> HIDE DEF z
    <3> QED
      BY <1>2, <2>2, <2>3, <2>4, SameRegistry
  <2>8. f(j, z, u[j]) = f(j, z, w[j])
    <3> HIDE DEF z, b, u, w
    <3> QED
      BY <1>2, <2>3, <2>5, <2>6, <2>7 DEF C2
  <2>9. \A k \in Registry : f(k, z, u[k]) = f(k, z, w[k])
    <3> HIDE DEF z, u, w
    <3> QED
      BY <2>2, <2>8
  <2> QED
    BY <2>1, <2>9, SameNormalForm
<1> QED
  BY <1>1, <1>2

-----------------------------------------------------------------------------
(* Lists of events.                                                        *)

\* A recursion along 1..n with values in S has a solution.
Solves(S, b, G, m, h) ==
    /\ h \in [0..m -> S] /\ h[0] = b
    /\ \A i \in 1..m : h[i] = G[<<i, h[i - 1]>>]

Stepper(S, n, G) == G \in [(1..n) \X S -> S]

LEMMA Recursion ==
    ASSUME NEW S, NEW n \in Nat, NEW b \in S, NEW G, Stepper(S, n, G)
    PROVE  \E h : Solves(S, b, G, n, h)
<1> DEFINE Bad == {m \in 0..n : ~ \E h : Solves(S, b, G, m, h)}
<1>1. SUFFICES Bad = {}
  <2>1. n \in 0..n
    OBVIOUS
  <2> QED
    BY <2>1
<1>2. SUFFICES ASSUME Bad # {} PROVE FALSE
  OBVIOUS
<1>3. PICK m \in Bad : \A k \in Bad : m <= k
  <2>1. Bad \subseteq Nat
    OBVIOUS
  <2> HIDE DEF Bad
  <2> QED
    BY <1>2, <2>1, LeastElement
<1>4. m # 0
  <2>1. Solves(S, b, G, 0, [i \in 0..0 |-> b])
    BY DEF Solves
  <2> QED
    BY <2>1
<1>5. m - 1 \in 0..n /\ m - 1 \notin Bad
  BY <1>3, <1>4
<1>6. PICK g : Solves(S, b, G, m - 1, g)
  BY <1>5
<1> DEFINE h == [i \in 0..m |-> IF i = m THEN G[<<m, g[m - 1]>>] ELSE g[i]]
<1>7. m \in 1..n /\ g[m - 1] \in S /\ G[<<m, g[m - 1]>>] \in S
  BY <1>3, <1>4, <1>6 DEF Solves, Stepper
<1>8. h \in [0..m -> S] /\ h[0] = b
  BY <1>6, <1>7 DEF Solves
<1>9. ASSUME NEW i \in 1..m PROVE h[i] = G[<<i, h[i - 1]>>]
  <2>1. CASE i = m
    <3>1. m \in Nat /\ m \in 0..m /\ m - 1 \in 0..m /\ m - 1 # m
      BY <1>7
    <3>2. h[m] = G[<<m, g[m - 1]>>] /\ h[m - 1] = g[m - 1]
      BY <3>1
    <3> HIDE DEF h
    <3> QED
      BY <2>1, <3>2
  <2>2. CASE i # m
    BY <1>6, <1>7, <2>2 DEF Solves
  <2> QED
    BY <2>1, <2>2
<1>10. Solves(S, b, G, m, h)
  <2> HIDE DEF h
  <2> QED
    BY <1>8, <1>9 DEF Solves
<1> QED
  BY <1>3, <1>10

LEMMA SeqLength ==
    ASSUME NEW es \in Seq(Event)
    PROVE  Len(es) \in Nat /\ \A i \in 1..Len(es) : es[i] \in Event
OBVIOUS

\* h holds the states of the machine after each prefix of es.
RunOf(es, t, h) ==
    h = [i \in 0 .. Len(es) |-> IF i = 0 THEN t ELSE applyF(es[i], h[i - 1])]

LEMMA RunSteps ==
    ASSUME NEW es \in Seq(Event), NEW t, NEW h, RunOf(es, t, h)
    PROVE  h[0] = t /\ \A i \in 1..Len(es) : h[i] = applyF(es[i], h[i - 1])
<1>1. PICK n \in Nat : n = Len(es)
  BY SeqLength
<1>2. \A i \in 0..n : h[i] = IF i = 0 THEN t ELSE applyF(es[i], h[i - 1])
  BY <1>1 DEF RunOf
<1>3. h[0] = t /\ \A i \in 1..n : h[i] = applyF(es[i], h[i - 1])
  BY <1>2
<1> QED
  BY <1>1, <1>3

\* A set of states that events stay in, and in which their order is free.
Commuting(Q) ==
    /\ Q \subseteq States
    /\ \A t \in Q : \A e \in Event : applyF(e, t) \in Q
    /\ \A t \in Q : \A d, e \in Event :
          applyF(e, applyF(d, t)) = applyF(d, applyF(e, t))

LEMMA RunExists ==
    ASSUME NEW Q, Commuting(Q), NEW t \in Q, NEW es \in Seq(Event)
    PROVE  \E h : RunOf(es, t, h) /\ runF(es, t) = h[Len(es)]
<1> DEFINE n == Len(es)
           G == [p \in (1..n) \X Q |-> applyF(es[p[1]], p[2])]
<1>1. n \in Nat /\ \A i \in 1..n : es[i] \in Event
  OBVIOUS
<1>2. Stepper(Q, n, G)
  BY <1>1 DEF Commuting, Stepper
<1>3. PICK h : Solves(Q, t, G, n, h)
  <2> HIDE DEF G, n
  <2> QED
    BY <1>1, <1>2, Recursion
<1>4. \A i \in 1..n : h[i] = applyF(es[i], h[i - 1])
  <2> SUFFICES ASSUME NEW i \in 1..n PROVE h[i] = applyF(es[i], h[i - 1])
    OBVIOUS
  <2>1. <<i, h[i - 1]>> \in (1..n) \X Q /\ h[i] = G[<<i, h[i - 1]>>]
    <3> HIDE DEF n, G
    <3> QED
      BY <1>1, <1>3 DEF Solves
  <2> QED
    BY <2>1
<1>5. \A i \in 0..n : h[i] = IF i = 0 THEN t ELSE applyF(es[i], h[i - 1])
  BY <1>1, <1>3, <1>4 DEF Solves
<1>6. RunOf(es, t, h)
  BY <1>3, <1>5 DEF RunOf, Solves
<1> QED
  BY <1>6 DEF runF, RunOf

\* l is k with e put in after the first p members.
Inserted(k, l, p, e) ==
    /\ p \in 0..Len(k)
    /\ Len(l) = Len(k) + 1
    /\ \A i \in 1..p : l[i] = k[i]
    /\ l[p + 1] = e
    /\ \A i \in (p + 1)..Len(k) : l[i + 1] = k[i]

\* An event put in anywhere comes to the same as one applied at the end.
LEMMA RunInserted ==
    ASSUME NEW Q, Commuting(Q), NEW t \in Q, NEW k \in Seq(Event),
           NEW l \in Seq(Event), NEW p, NEW e \in Event, Inserted(k, l, p, e)
    PROVE  runF(k, t) \in Q /\ runF(l, t) = applyF(e, runF(k, t))
<1>1. PICK g : RunOf(k, t, g) /\ runF(k, t) = g[Len(k)]
  BY RunExists
<1>2. PICK h : RunOf(l, t, h) /\ runF(l, t) = h[Len(l)]
  BY RunExists
<1> DEFINE n == Len(k)
<1>3. n \in Nat /\ Len(l) = n + 1 /\ p \in 0..n
  <2>1. Len(k) \in Nat
    BY Zenon, SeqLength
  <2> QED
    BY <2>1 DEF Inserted
<1>4. g[0] = t /\ \A i \in 1..n : g[i] = applyF(k[i], g[i - 1])
  BY <1>1, RunSteps
<1>5. h[0] = t /\ \A i \in 1..(n + 1) : h[i] = applyF(l[i], h[i - 1])
  BY <1>2, <1>3, RunSteps
<1> DEFINE Right(i) == /\ g[i] \in Q
                       /\ i <= p => h[i] = g[i]
                       /\ i >= p => h[i + 1] = applyF(e, g[i])
           Bad == {i \in 0..n : ~ Right(i)}
<1>6. Bad = {}
  <2>1. SUFFICES ASSUME Bad # {} PROVE FALSE
    OBVIOUS
  <2>2. Bad \subseteq Nat
    BY <1>3
  <2>3. PICK i \in Bad : \A j \in Bad : i <= j
    <3> HIDE DEF Bad
    <3> QED
      BY <2>1, <2>2, LeastElement
  <2>4. i \in 0..n /\ ~ Right(i)
    OBVIOUS
  <2>5. CASE i = 0
    <3>1. g[i] \in Q /\ h[i] = g[i]
      BY <1>4, <1>5, <2>5
    <3>2. ASSUME i >= p PROVE h[i + 1] = applyF(e, g[i])
      <4>1. p = 0 /\ l[1] = e /\ 1 \in 1..(n + 1)
        BY <1>3, <2>5, <3>2 DEF Inserted
      <4>2. h[1] = applyF(l[1], h[1 - 1])
        BY <1>5, <4>1
      <4> QED
        BY <1>4, <1>5, <2>5, <4>1, <4>2
    <3> QED
      BY <2>4, <3>1, <3>2
  <2>6. CASE i > 0
    <3>1. i \in 1..n /\ i - 1 \in 0..n /\ i - 1 \notin Bad
      BY <1>3, <2>3, <2>4, <2>6
    <3>2. Right(i - 1)
      BY <3>1
    <3>3. k[i] \in Event /\ g[i] = applyF(k[i], g[i - 1]) /\ g[i - 1] \in Q
      BY <1>4, <3>1, <3>2
    <3>4. g[i] \in Q
      BY <3>3 DEF Commuting
    <3>5. ASSUME i <= p PROVE h[i] = g[i]
      <4>1. l[i] = k[i] /\ h[i - 1] = g[i - 1]
        BY <3>1, <3>2, <3>5 DEF Inserted
      <4>2. h[i] = applyF(l[i], h[i - 1])
        BY <1>3, <1>5, <3>1
      <4> QED
        BY <3>3, <4>1, <4>2
    <3>6. ASSUME i >= p PROVE h[i + 1] = applyF(e, g[i])
      <4>1. h[i + 1] = applyF(l[i + 1], h[i])
        BY <1>3, <1>5, <3>1
      <4>2. CASE i = p
        <5>1. l[i + 1] = e
          BY <4>2 DEF Inserted
        <5> QED
          BY <3>5, <4>1, <4>2, <5>1, <1>3, <3>1
      <4>3. CASE i > p
        <5>1. i \in (p + 1)..n
          BY <1>3, <3>1, <4>3
        <5>2. l[i + 1] = k[i]
          BY <5>1 DEF Inserted
        <5>3. h[i] = applyF(e, g[i - 1])
          <6>1. i - 1 >= p /\ (i - 1) + 1 = i
            BY <1>3, <3>1, <4>3
          <6> QED
            BY <3>2, <6>1
        <5>4. applyF(k[i], applyF(e, g[i - 1])) = applyF(e, applyF(k[i], g[i - 1]))
          BY <3>3 DEF Commuting
        <5> QED
          BY <3>3, <4>1, <5>2, <5>3, <5>4
      <4> QED
        BY <1>3, <3>1, <3>6, <4>2, <4>3
    <3> QED
      BY <2>4, <3>4, <3>5, <3>6
  <2> QED
    BY <1>3, <2>4, <2>5, <2>6
<1>7. n \in 0..n /\ Right(n)
  BY <1>3, <1>6
<1> QED
  BY <1>1, <1>2, <1>3, <1>7

\* The fixed order of the events leaves none out.
LEMMA EveryEventListed ==
    ASSUME IsFiniteSet(Event)
    PROVE  /\ SetToSeq(Event) \in Seq(Event)
           /\ \A i, k \in 1..Len(SetToSeq(Event)) :
                 SetToSeq(Event)[i] = SetToSeq(Event)[k] => i = k
           /\ \A e \in Event : \E i \in 1..Len(SetToSeq(Event)) : SetToSeq(Event)[i] = e
<1> DEFINE n == Cardinality(Event)
           s == SetToSeq(Event)
<1>1. n \in Nat /\ ExistsBijection(1..n, Event)
  BY FS_CardinalityType
<1>2. \E g \in [1..n -> Event] : IsInjective(g)
  BY <1>1 DEF ExistsBijection, Bijection, Injection
<1>3. s \in [1..n -> Event] /\ IsInjective(s)
  BY <1>2 DEF SetToSeq
<1>4. s \in Injection(1..n, Event)
  BY <1>3 DEF Injection
<1>5. IsFiniteSet(1..n) /\ Cardinality(1..n) = n
  BY <1>1, FS_Interval
<1>6. s \in Surjection(1..n, Event)
  BY <1>4, <1>5, FS_Injection
<1>7. \A e \in Event : \E i \in 1..n : s[i] = e
  BY <1>6 DEF Surjection
<1>8. s \in Seq(Event) /\ Len(s) = n
  BY <1>1, <1>3
<1>9. \A i, k \in 1..n : s[i] = s[k] => i = k
  BY <1>3 DEF IsInjective
<1> QED
  BY <1>7, <1>8, <1>9

Repeated(e, n) == [i \in 1..n |-> e]

Grown(s, e, n) == s \o Repeated(e, n)

LEMMA RepeatedType ==
    ASSUME NEW e \in Event, NEW n \in Nat
    PROVE  Repeated(e, n) \in Seq(Event) /\ Len(Repeated(e, n)) = n
BY DEF Repeated

LEMMA GrownType ==
    ASSUME NEW s \in Seq(Event), NEW e \in Event, NEW n \in Nat
    PROVE  Grown(s, e, n) \in Seq(Event)
BY RepeatedType DEF Grown

\* l holds the list after each event of es.
ListOf(es, count, l) ==
    l = [i \in 0 .. Len(es) |->
            IF i = 0 THEN <<>> ELSE Grown(l[i - 1], es[i], count[es[i]])]

LEMMA ListExists ==
    ASSUME IsFiniteSet(Event), NEW count \in [Event -> Nat]
    PROVE  \E l : /\ ListOf(SetToSeq(Event), count, l)
                  /\ Listing(count) = l[Len(SetToSeq(Event))]
<1> DEFINE es == SetToSeq(Event)
           n == Len(es)
           S == Seq(Event)
           G == [p \in (1..n) \X S |-> Grown(p[2], es[p[1]], count[es[p[1]]])]
<1>1. n \in Nat /\ \A i \in 1..n : es[i] \in Event
  BY EveryEventListed, SeqLength
<1>3. Stepper(S, n, G)
  <2> SUFFICES ASSUME NEW i \in 1..n, NEW q \in S
               PROVE  Grown(q, es[i], count[es[i]]) \in S
    BY DEF Stepper
  <2>1. es[i] \in Event /\ count[es[i]] \in Nat
    BY <1>1
  <2> QED
    BY <2>1, GrownType
<1>4. <<>> \in S
  OBVIOUS
<1>5. PICK l : Solves(S, <<>>, G, n, l)
  <2> HIDE DEF G, n, S
  <2> QED
    BY <1>1, <1>3, <1>4, Recursion
<1>6. \A i \in 1..n : l[i] = Grown(l[i - 1], es[i], count[es[i]])
  <2> SUFFICES ASSUME NEW i \in 1..n
               PROVE  l[i] = Grown(l[i - 1], es[i], count[es[i]])
    OBVIOUS
  <2>1. <<i, l[i - 1]>> \in (1..n) \X S /\ l[i] = G[<<i, l[i - 1]>>]
    <3> HIDE DEF n, G, S
    <3> QED
      BY <1>1, <1>5 DEF Solves
  <2> HIDE DEF n, S
  <2> QED
    BY <2>1
<1>7. ListOf(es, count, l)
  <2>1. \A i \in 0..n : l[i] = IF i = 0 THEN <<>>
                               ELSE Grown(l[i - 1], es[i], count[es[i]])
    <3> HIDE DEF n, G, S
    <3> QED
      BY <1>1, <1>5, <1>6 DEF Solves
  <2>2. l = [i \in 0..n |-> l[i]]
    <3> HIDE DEF n, G, S
    <3> QED
      BY <1>5 DEF Solves
  <2> HIDE DEF G, S
  <2> QED
    BY <2>1, <2>2 DEF ListOf
<1> HIDE DEF G, S
<1> QED
  BY <1>7 DEF Listing, ListOf, Grown, Repeated

LEMMA ListSteps ==
    ASSUME IsFiniteSet(Event), NEW count \in [Event -> Nat], NEW l,
           NEW es, es = SetToSeq(Event), ListOf(es, count, l)
    PROVE  /\ Len(es) \in Nat
           /\ l[0] = <<>>
           /\ \A i \in 1..Len(es) : l[i] = Grown(l[i - 1], es[i], count[es[i]])
           /\ \A i \in 0..Len(es) : l[i] \in Seq(Event)
<1>1. PICK n \in Nat : n = Len(es) /\ \A i \in 1..n : es[i] \in Event
  BY EveryEventListed, SeqLength
<1>2. \A i \in 0..n : l[i] = IF i = 0 THEN <<>>
                             ELSE Grown(l[i - 1], es[i], count[es[i]])
  BY <1>1 DEF ListOf
<1>3. l[0] = <<>>
  BY <1>2
<1>4. \A i \in 1..n : l[i] = Grown(l[i - 1], es[i], count[es[i]])
  BY <1>2
<1> DEFINE Bad == {i \in 0..n : l[i] \notin Seq(Event)}
<1>5. Bad = {}
  <2>1. SUFFICES ASSUME Bad # {} PROVE FALSE
    OBVIOUS
  <2>2. PICK i \in Bad : \A k \in Bad : i <= k
    <3>1. Bad \subseteq Nat
      OBVIOUS
    <3> HIDE DEF Bad
    <3> QED
      BY <2>1, <3>1, LeastElement
  <2>3. i # 0
    <3>1. <<>> \in Seq(Event)
      OBVIOUS
    <3> QED
      BY <1>3, <2>2, <3>1
  <2>4. i \in 1..n /\ i - 1 \in 0..n /\ i - 1 \notin Bad
    BY <2>2, <2>3
  <2>5. l[i - 1] \in Seq(Event) /\ es[i] \in Event /\ count[es[i]] \in Nat
    BY <1>1, <2>4
  <2>6. l[i] \in Seq(Event)
    BY <1>4, <2>4, <2>5, GrownType
  <2> QED
    BY <2>6
<1> QED
  BY <1>1, <1>3, <1>4, <1>5

Grows(es, count, l) ==
    /\ l[0] = <<>>
    /\ \A i \in 1..Len(es) : l[i] = Grown(l[i - 1], es[i], count[es[i]])
    /\ \A i \in 0..Len(es) : l[i] \in Seq(Event)

LEMMA ListingGrows ==
    ASSUME IsFiniteSet(Event), NEW count \in [Event -> Nat],
           NEW es, es = SetToSeq(Event)
    PROVE  \E l : Grows(es, count, l) /\ Listing(count) = l[Len(es)]
<1>1. PICK l : ListOf(es, count, l) /\ Listing(count) = l[Len(es)]
  BY ListExists
<1>2. Grows(es, count, l)
  BY <1>1, ListSteps DEF Grows
<1> QED
  BY <1>1, <1>2

\* No event yet: nothing is listed.
LEMMA NothingListed ==
    ASSUME IsFiniteSet(Event), NEW count, count = [e \in Event |-> 0]
    PROVE  Listing(count) = <<>>
<1> DEFINE es == SetToSeq(Event)
<1>1. count \in [Event -> Nat]
  OBVIOUS
<1>2. PICK l : ListOf(es, count, l) /\ Listing(count) = l[Len(es)]
  BY <1>1, ListExists
<1>3. /\ Len(es) \in Nat /\ l[0] = <<>>
      /\ \A i \in 1..Len(es) : l[i] = Grown(l[i - 1], es[i], count[es[i]])
  BY <1>1, <1>2, ListSteps
<1>4. \A i \in 1..Len(es) : es[i] \in Event
  BY EveryEventListed, SeqLength
<1>5. PICK n \in Nat : n = Len(es)
  BY <1>3
<1> DEFINE Bad == {i \in 0..n : l[i] # <<>>}
<1>6. Bad = {}
  <2>1. SUFFICES ASSUME Bad # {} PROVE FALSE
    OBVIOUS
  <2>2. PICK i \in Bad : \A k \in Bad : i <= k
    <3>1. Bad \subseteq Nat
      OBVIOUS
    <3> HIDE DEF Bad
    <3> QED
      BY <2>1, <3>1, LeastElement
  <2>3. i # 0
    BY <1>3
  <2>4. i \in 1..n /\ i - 1 \in 0..n /\ i - 1 \notin Bad
    BY <2>2, <2>3
  <2>5. l[i - 1] = <<>> /\ count[es[i]] = 0
    BY <1>4, <1>5, <2>4
  <2>6. l[i] = Grown(<<>>, es[i], 0)
    BY <1>3, <1>5, <2>4, <2>5
  <2>7. Grown(<<>>, es[i], 0) = <<>>
    BY DEF Grown, Repeated
  <2> QED
    BY <2>6, <2>7
<1> QED
  BY <1>2, <1>5, <1>6

LEMMA InsertedBefore ==
    ASSUME NEW k \in Seq(Event), NEW l \in Seq(Event), NEW p, NEW e,
           Inserted(k, l, p, e), NEW d \in Event, NEW n \in Nat
    PROVE  Inserted(Grown(k, d, n), Grown(l, d, n), p, e)
<1> DEFINE s == Repeated(d, n)
           u == k \o s
           w == l \o s
<1>1. s \in Seq(Event) /\ Len(s) = n
  BY RepeatedType
<1>2. /\ Len(k) \in Nat /\ Len(l) = Len(k) + 1 /\ p \in 0..Len(k)
      /\ \A i \in 1..p : l[i] = k[i]
      /\ l[p + 1] = e
      /\ \A i \in (p + 1)..Len(k) : l[i + 1] = k[i]
  BY SeqLength DEF Inserted
<1>3. Len(u) = Len(k) + n /\ Len(w) = Len(l) + n
  BY <1>1, ConcatProperties
<1>4. /\ \A i \in 1..(Len(k) + n) : u[i] = IF i <= Len(k) THEN k[i] ELSE s[i - Len(k)]
      /\ \A i \in 1..(Len(l) + n) : w[i] = IF i <= Len(l) THEN l[i] ELSE s[i - Len(l)]
  BY <1>1, ConcatProperties
<1>5. Inserted(u, w, p, e)
  <2> HIDE DEF u, w, s
  <2>1. PICK m \in Nat : m = Len(k)
    BY <1>2
  <2>2. Len(l) = m + 1 /\ Len(u) = m + n /\ Len(w) = m + 1 + n /\ p \in 0..m
    BY <1>2, <1>3, <2>1
  <2>3. \A i \in 1..p : w[i] = u[i]
    BY <1>2, <1>4, <2>1, <2>2
  <2>4. w[p + 1] = e
    BY <1>2, <1>4, <2>1, <2>2
  <2>5. ASSUME NEW i \in (p + 1)..(m + n) PROVE w[i + 1] = u[i]
    <3>1. CASE i <= m
      BY <1>2, <1>4, <2>1, <2>2, <3>1
    <3>2. CASE ~ (i <= m)
      <4>1. i + 1 \in 1..(m + 1 + n) /\ ~ (i + 1 <= m + 1)
            /\ (i + 1) - (m + 1) = i - m
        BY <2>2, <3>2
      <4>2. w[i + 1] = s[i - m]
        BY <1>4, <2>2, <4>1
      <4>3. QED
        BY <1>4, <2>1, <2>2, <3>2, <4>2
    <3>3. QED
      BY <3>1, <3>2
  <2>6. p \in 0..Len(u) /\ Len(w) = Len(u) + 1
    BY <2>2
  <2>7. \A i \in (p + 1)..Len(u) : w[i + 1] = u[i]
    BY <2>2, <2>5
  <2> QED
    BY <2>3, <2>4, <2>6, <2>7 DEF Inserted
<1> QED
  BY <1>5 DEF Grown

LEMMA InsertedLast ==
    ASSUME NEW k \in Seq(Event), NEW e \in Event, NEW n \in Nat
    PROVE  Inserted(Grown(k, e, n), Grown(k, e, n + 1), Len(k), e)
<1> DEFINE s == Repeated(e, n)
           r == Repeated(e, n + 1)
           u == k \o s
           w == k \o r
<1>1. /\ s \in Seq(Event) /\ Len(s) = n /\ r \in Seq(Event) /\ Len(r) = n + 1
      /\ \A i \in 1..n : s[i] = e
      /\ \A i \in 1..(n + 1) : r[i] = e
  BY RepeatedType DEF Repeated
<1>2. PICK m \in Nat : m = Len(k)
  BY SeqLength
<1>3. /\ Len(u) = m + n
      /\ \A i \in 1..(m + n) : u[i] = IF i <= m THEN k[i] ELSE s[i - m]
  <2> HIDE DEF s
  <2> QED
    BY <1>1, <1>2, ConcatProperties
<1>4. /\ Len(w) = m + (n + 1)
      /\ \A i \in 1..(m + (n + 1)) : w[i] = IF i <= m THEN k[i] ELSE r[i - m]
  <2>1. /\ Len(w) = Len(k) + Len(r)
        /\ \A i \in 1..(Len(k) + Len(r)) :
              w[i] = IF i <= Len(k) THEN k[i] ELSE r[i - Len(k)]
    <3> HIDE DEF s, r
    <3> QED
      BY <1>1, ConcatProperties
  <2> HIDE DEF s, r, w
  <2> QED
    BY <1>1, <1>2, <2>1
<1>5. Inserted(u, w, m, e)
  <2> HIDE DEF u, w, s, r
  <2>1. \A i \in 1..m : w[i] = u[i]
    BY <1>3, <1>4
  <2>2. w[m + 1] = e
    BY <1>1, <1>4
  <2>3. ASSUME NEW i \in (m + 1)..(m + n) PROVE w[i + 1] = u[i]
    <3>1. i - m \in 1..n /\ (i + 1) - m \in 1..(n + 1)
      OBVIOUS
    <3>2. u[i] = s[i - m] /\ w[i + 1] = r[(i + 1) - m]
      BY <1>3, <1>4
    <3> QED
      BY <1>1, <3>1, <3>2
  <2> QED
    BY <1>3, <1>4, <2>1, <2>2, <2>3 DEF Inserted
<1> QED
  BY <1>2, <1>5 DEF Grown

\* Once more an event: the list has it once more.
LEMMA ListingInserted ==
    ASSUME IsFiniteSet(Event), NEW count \in [Event -> Nat], NEW e \in Event,
           NEW more, more = [count EXCEPT ![e] = @ + 1]
    PROVE  /\ Listing(count) \in Seq(Event) /\ Listing(more) \in Seq(Event)
           /\ \E p : Inserted(Listing(count), Listing(more), p, e)
<1> DEFINE es == SetToSeq(Event)
<1>1. /\ more \in [Event -> Nat] /\ more[e] = count[e] + 1
      /\ \A d \in Event : d # e => more[d] = count[d]
  OBVIOUS
<1>2. PICK k : Grows(es, count, k) /\ Listing(count) = k[Len(es)]
  BY ListingGrows
<1>3. PICK l : Grows(es, more, l) /\ Listing(more) = l[Len(es)]
  <2> HIDE DEF es
  <2>1. more \in [Event -> Nat]
    BY <1>1
  <2>2. \A c \in [Event -> Nat] :
           \E m : Grows(SetToSeq(Event), c, m) /\ Listing(c) = m[Len(SetToSeq(Event))]
    BY ListingGrows
  <2> QED
    BY <2>1, <2>2 DEF es
<1>4. PICK n \in Nat : n = Len(es)
  BY EveryEventListed, SeqLength
<1>5. /\ k[0] = <<>>
      /\ \A i \in 1..n : k[i] = Grown(k[i - 1], es[i], count[es[i]])
      /\ \A i \in 0..n : k[i] \in Seq(Event)
  BY <1>2, <1>4 DEF Grows
<1>6. /\ l[0] = <<>>
      /\ \A i \in 1..n : l[i] = Grown(l[i - 1], es[i], more[es[i]])
      /\ \A i \in 0..n : l[i] \in Seq(Event)
  BY <1>3, <1>4 DEF Grows
<1>7. /\ \A i \in 1..n : es[i] \in Event
      /\ \A i, j \in 1..n : es[i] = es[j] => i = j
  BY <1>4, EveryEventListed, SeqLength
<1>8. PICK j \in 1..n : es[j] = e
  BY <1>4, EveryEventListed
<1> DEFINE p == Len(k[j - 1])
           Right(i) == IF i < j THEN l[i] = k[i] ELSE Inserted(k[i], l[i], p, e)
           Bad == {i \in 0..n : ~ Right(i)}
<1>9. Bad = {}
  <2>1. SUFFICES ASSUME Bad # {} PROVE FALSE
    OBVIOUS
  <2>2. PICK i \in Bad : \A m \in Bad : i <= m
    <3>1. Bad \subseteq Nat
      OBVIOUS
    <3> HIDE DEF Bad
    <3> QED
      BY <2>1, <3>1, LeastElement
  <2>3. i \in 0..n /\ ~ Right(i)
    OBVIOUS
  <2>4. i # 0
    BY <1>5, <1>6, <2>3
  <2>5. i \in 1..n /\ i - 1 \in 0..n /\ Right(i - 1) /\ es[i] \in Event
    <3>1. i \in 1..n /\ i - 1 \in 0..n /\ i - 1 \notin Bad
      BY <2>2, <2>3, <2>4
    <3> QED
      BY <1>7, <3>1
  <2>6. CASE i < j
    <3>1. l[i - 1] = k[i - 1] /\ es[i] # e
      BY <1>7, <1>8, <2>5, <2>6
    <3>2. l[i] = k[i]
      BY <1>1, <1>5, <1>6, <2>5, <3>1
    <3> QED
      BY <2>3, <2>6, <3>2
  <2>7. CASE i = j
    <3>1. l[i - 1] = k[i - 1] /\ k[i - 1] \in Seq(Event)
      BY <1>5, <2>5, <2>7
    <3>2. k[i] = Grown(k[i - 1], e, count[e])
      BY <1>5, <1>8, <2>5, <2>7
    <3>3. l[i] = Grown(k[i - 1], e, count[e] + 1)
      BY <1>1, <1>6, <1>8, <2>5, <2>7, <3>1
    <3>4. Inserted(k[i], l[i], p, e)
      BY <2>7, <3>1, <3>2, <3>3, InsertedLast
    <3> HIDE DEF p
    <3> QED
      BY <2>3, <2>7, <3>4
  <2>8. CASE i > j
    <3>1. Inserted(k[i - 1], l[i - 1], p, e) /\ es[i] # e
      <4> HIDE DEF p
      <4> QED
        BY <1>7, <1>8, <2>5, <2>8
    <3>2. /\ k[i - 1] \in Seq(Event) /\ l[i - 1] \in Seq(Event)
          /\ count[es[i]] \in Nat
      BY <1>5, <1>6, <2>5
    <3>3. /\ k[i] = Grown(k[i - 1], es[i], count[es[i]])
          /\ l[i] = Grown(l[i - 1], es[i], count[es[i]])
      BY <1>1, <1>5, <1>6, <2>5, <3>1
    <3>4. Inserted(k[i], l[i], p, e)
      <4> HIDE DEF p
      <4> QED
        BY <2>5, <3>1, <3>2, <3>3, InsertedBefore
    <3> HIDE DEF p
    <3> QED
      BY <2>3, <2>8, <3>4
  <2> QED
    BY <2>3, <2>6, <2>7, <2>8
<1>10. n \in 0..n /\ Inserted(k[n], l[n], p, e)
  <2> HIDE DEF p
  <2> QED
    BY <1>8, <1>9
<1> QED
  BY <1>2, <1>3, <1>4, <1>5, <1>6, <1>10

-----------------------------------------------------------------------------
(* The machine from the normal form of a start: its state depends on how   *)
(* often each event has happened, and on nothing else.                     *)

\* States that events stay in and at which they commute with the repairs.
EventsFree(R) ==
    /\ R \subseteq States
    /\ \A t \in R : \A e \in Event : evstep(e, t) \in R /\ XUat(t, e)

LEMMA FreeCommutes ==
    ASSUME C2, NEW R, EventsFree(R)
    PROVE  Commuting({N(t) : t \in R})
<1> DEFINE Q == {N(t) : t \in R}
<1>1. \A t \in R : t \in States /\ N(t) \in States
  BY NormalForm DEF EventsFree, Settled
<1>2. \A t \in R : \A e \in Event :
         evstep(e, t) \in R /\ applyF(e, N(t)) = N(evstep(e, t))
  BY EventVisible DEF EventsFree
<1>3. \A t \in R : \A d, e \in Event :
         applyF(e, applyF(d, N(t))) = N(evstep(e, evstep(d, t)))
  BY <1>2
<1>4. \A t \in R : \A d, e \in Event :
         N(evstep(e, evstep(d, t))) = N(evstep(d, evstep(e, t)))
  BY <1>1, <1>2, OrderForgotten DEF EventsFree
<1>5. \A t \in R : \A d, e \in Event :
         applyF(e, applyF(d, N(t))) = applyF(d, applyF(e, N(t)))
  BY <1>3, <1>4
<1> QED
  BY <1>1, <1>2, <1>5 DEF Commuting

LEMMA CountedOnce ==
    ASSUME IsFiniteSet(Event), C2, NEW R, EventsFree(R), NEW s \in R,
           NEW count \in [Event -> Nat], NEW e \in Event,
           NEW more, more = [count EXCEPT ![e] = @ + 1]
    PROVE  runF(Listing(more), N(s)) = applyF(e, runF(Listing(count), N(s)))
<1> DEFINE Q == {N(t) : t \in R}
<1>1. Commuting(Q) /\ N(s) \in Q
  BY FreeCommutes
<1>2. Listing(count) \in Seq(Event) /\ Listing(more) \in Seq(Event)
  BY ListingInserted
<1>3. PICK p : Inserted(Listing(count), Listing(more), p, e)
  BY ListingInserted
<1> HIDE DEF Q
<1> QED
  BY <1>1, <1>2, <1>3, RunInserted

LEMMA NothingCounted ==
    ASSUME IsFiniteSet(Event), C2, NEW R, EventsFree(R), NEW s \in R
    PROVE  runF(Listing([e \in Event |-> 0]), N(s)) = N(s)
<1> DEFINE Q == {N(t) : t \in R}
<1>1. Commuting(Q) /\ N(s) \in Q
  BY FreeCommutes
<1>2. Listing([e \in Event |-> 0]) = <<>> /\ <<>> \in Seq(Event)
  BY NothingListed
<1>3. PICK h : RunOf(<<>>, N(s), h) /\ runF(<<>>, N(s)) = h[Len(<<>>)]
  <2> HIDE DEF Q
  <2> QED
    BY <1>1, <1>2, RunExists
<1>4. h[0] = N(s)
  BY <1>2, <1>3, RunSteps
<1> QED
  BY <1>2, <1>3, <1>4

-----------------------------------------------------------------------------
(* Part 2.  Merging a projection.                                          *)

LEMMA MergeStep ==
    ASSUME TypeOK, NEW j \in Registry, NEW m \in Messages(j), Merge(j, m)
    PROVE  /\ cs' \in States
           /\ cl' \in [Registry -> Nat]
           /\ \A k \in Registry : k # j => cs'[k] = cs[k] /\ cl'[k] = cl[k]
           /\ ~ Applies(j, m) => cs' = cs /\ cl' = cl
           /\ Applies(j, m) => cs'[j] = f(j, m.snapshot, cs[j])
           /\ versioned /\ Applies(j, m) =>
                 cl'[j] = m.version /\ cl[j] < m.version
<1>1. cs \in States /\ cl \in [Registry -> Nat]
  BY DEF TypeOK
<1>2. m.version \in Nat /\ m.snapshot \in StatesOf(Sources[j])
  BY DEF Messages
<1>3. f(j, m.snapshot, cs[j]) \in Valid[j]
  BY <1>1, <1>2, StateAt, c_m1
<1>4. CASE Applies(j, m)
  <2>1. cs' = [cs EXCEPT ![j] = f(j, m.snapshot, @)] /\ Recorded(j, m.version)
    BY <1>4 DEF Merge
  <2>2. /\ cs' \in States
        /\ cs'[j] = f(j, m.snapshot, cs[j])
        /\ \A k \in Registry : k # j => cs'[k] = cs[k]
    <3> DEFINE x == f(j, m.snapshot, cs[j])
    <3>1. cs' = [cs EXCEPT ![j] = x] /\ x \in Valid[j]
      BY <1>3, <2>1
    <3>2. cs' \in States /\ cs'[j] = x /\ \A k \in Registry : k # j => cs'[k] = cs[k]
      <4> HIDE DEF x
      <4>1. cs \in States
        BY <1>1
      <4>2. QED
        BY <3>1, <4>1 DEF States, StatesOf
    <3>3. QED
      BY <3>2
  <2>3. /\ cl' \in [Registry -> Nat]
        /\ \A k \in Registry : k # j => cl'[k] = cl[k]
        /\ versioned => cl'[j] = m.version
    BY <1>1, <1>2, <2>1, TypeOK DEF Recorded
  <2>4. versioned => cl[j] < m.version
    BY <1>1, <1>2, <1>4 DEF Applies
  <2>5. QED
    BY <1>4, <2>2, <2>3, <2>4
<1>5. CASE ~ Applies(j, m)
  BY <1>1, <1>5 DEF Merge
<1>6. QED
  BY <1>4, <1>5

\* The projection that the final round delivers.
Final(j) == [version |-> FreshVersion(j), snapshot |-> Project(j, cs)]

LEMMA FinalStep ==
    ASSUME TypeOK, FinalRound
    PROVE  LET j == Order[round + 1]
           IN  /\ round + 1 \in 1..Len(Order)
               /\ j \in Registry
               /\ Final(j) \in Messages(j)
               /\ Merge(j, Final(j))
               /\ cv' = [cv EXCEPT ![j] = cv[j] + 1]
               /\ round' = round + 1
               /\ cb' = cb
<1> DEFINE j == Order[round + 1]
<1>1. round + 1 \in 1..Len(Order)
  BY Places DEF FinalRound, TypeOK
<1>2. j \in Registry
  BY <1>1, Places
<1>3. cs \in States /\ cv[j] \in Nat
  BY <1>2 DEF TypeOK
<1>4. Final(j) \in Messages(j)
  BY <1>2, <1>3, ProjectType DEF Final, FreshVersion, Messages
<1>5. QED
  BY <1>1, <1>2, <1>4 DEF FinalRound, Final, FreshVersion

-----------------------------------------------------------------------------
(* Types.                                                                  *)

LEMMA TypeInit == Init => TypeOK
BY StartIsValid, Places DEF Init, DistInit, TypeOK

LEMMA TypePerform ==
    ASSUME TypeOK, NEW e \in Event, Perform(e)
    PROVE  TypeOK'
<1>1. reg(e) \in Registry
  BY c_reg
<1>2. sig(e, cs[reg(e)]) \in Valid[reg(e)]
  BY <1>1, StateAt, c_sig DEF TypeOK
<1>3. cs' \in States
  BY <1>1, <1>2, StateWith DEF Perform, LocalEvent, evstep, TypeOK
<1>4. performed' \in [Event -> Nat]
  BY DEF Perform, LocalEvent, TypeOK
<1>5. QED
  BY <1>3, <1>4 DEF Perform, LocalEvent, TypeOK, Messages

LEMMA TypeSend ==
    ASSUME TypeOK, NEW j \in Registry, Send(j)
    PROVE  TypeOK'
<1>1. PICK v \in NextVersions(j) :
         /\ cb' = [cb EXCEPT ![j] = @ \cup
                      {[version |-> v, snapshot |-> Project(j, cs)]}]
         /\ cv' = [cv EXCEPT ![j] = v]
  BY DEF Send
<1>2. v \in Nat
  BY MaxVersionType DEF NextVersions, TypeOK
<1>3. [version |-> v, snapshot |-> Project(j, cs)] \in Messages(j)
  BY <1>2, ProjectType DEF Messages, TypeOK
<1>4. DOMAIN cb' = Registry /\ \A k \in Registry : cb'[k] \subseteq Messages(k)
  BY <1>1, <1>3 DEF TypeOK
<1>5. cv' \in [Registry -> Nat]
  BY <1>1, <1>2 DEF TypeOK
<1>6. QED
  BY <1>4, <1>5 DEF Send, TypeOK, Messages

LEMMA TypeDeliver ==
    ASSUME TypeOK, NEW j \in Registry, NEW m \in cb[j],
           Deliver(j, m) \/ Duplicate(j, m)
    PROVE  TypeOK'
<1>1. m \in Messages(j) /\ Merge(j, m)
  BY DEF TypeOK, Deliver, Duplicate
<1>2. cs' \in States /\ cl' \in [Registry -> Nat]
  BY <1>1, MergeStep
<1>3. DOMAIN cb' = Registry /\ \A k \in Registry : cb'[k] \subseteq Messages(k)
  BY DEF TypeOK, Deliver, Duplicate
<1>4. QED
  BY <1>2, <1>3 DEF Deliver, Duplicate, TypeOK, Messages

LEMMA TypeFinalRound == TypeOK /\ FinalRound => TypeOK'
<1> SUFFICES ASSUME TypeOK, FinalRound
             PROVE  TypeOK'
  OBVIOUS
<1> DEFINE j == Order[round + 1]
<1>1. j \in Registry /\ Final(j) \in Messages(j) /\ Merge(j, Final(j))
  BY FinalStep
<1>2. cs' \in States /\ cl' \in [Registry -> Nat]
  BY <1>1, MergeStep
<1>3. cv' \in [Registry -> Nat]
  <2>1. cv' = [cv EXCEPT ![j] = cv[j] + 1]
    BY FinalStep
  <2>2. cv \in [Registry -> Nat]
    BY DEF TypeOK
  <2>3. QED
    <3> HIDE DEF j
    <3>1. QED
      BY <1>1, <2>1, <2>2
<1>4. round' \in 0..Len(Order)
  BY FinalStep, Places
<1>5. versioned' = versioned /\ cb' = cb /\ performed' = performed
  BY DEF FinalRound
<1>6. QED
  BY <1>2, <1>3, <1>4, <1>5 DEF TypeOK, Messages

LEMMA TypeStep == TypeOK /\ [Next]_vars => TypeOK'
<1> SUFFICES ASSUME TypeOK, [Next]_vars
             PROVE  TypeOK'
  OBVIOUS
<1>1. CASE \E e \in Event : Perform(e)
  BY <1>1, TypePerform
<1>2. CASE \E j \in Registry : Send(j)
  BY <1>2, TypeSend
<1>3. CASE \E j \in Registry : \E m \in cb[j] : Deliver(j, m) \/ Duplicate(j, m)
  BY <1>3, TypeDeliver
<1>4. CASE FinalRound
  BY <1>4, TypeFinalRound
<1>5. CASE UNCHANGED vars
  BY <1>5 DEF vars, TypeOK, Messages
<1>6. QED
  BY <1>1, <1>2, <1>3, <1>4, <1>5 DEF Next

\* Every reachable state has its types: states stay valid under events and
\* merges, in either merge mode.
THEOREM TypeCorrect == Spec => []TypeOK
BY TypeInit, TypeStep, PTL DEF Spec

-----------------------------------------------------------------------------
(* Versions.                                                               *)

LEMMA VInit == Init => VInv
BY DEF Init, DistInit, VInv

LEMMA VSend ==
    ASSUME TypeOK, VInv, NEW j \in Registry, Send(j)
    PROVE  VInv'
<1>1. PICK v \in NextVersions(j) :
         /\ cb' = [cb EXCEPT ![j] = @ \cup
                      {[version |-> v, snapshot |-> Project(j, cs)]}]
         /\ cv' = [cv EXCEPT ![j] = v]
  BY DEF Send
<1>2. v \in Nat /\ cv[j] < v
  BY MaxVersionType DEF NextVersions, TypeOK
<1>3. SUFFICES ASSUME NEW k \in Registry
               PROVE  cl[k] <= cv'[k] /\ \A m \in cb'[k] : m.version <= cv'[k]
  BY DEF VInv, Send
<1>4. /\ cl[k] \in Nat /\ cv[k] \in Nat /\ cl[k] <= cv[k]
      /\ \A m \in cb[k] : m.version \in Nat /\ m.version <= cv[k]
  BY DEF VInv, TypeOK, Messages
<1>5. CASE k = j
  <2>1. cv'[k] = v
    BY <1>1, <1>5 DEF TypeOK
  <2>2. \A m \in cb'[k] : m \in cb[k] \/ m.version = v
    BY <1>1, <1>5 DEF TypeOK
  <2>3. QED
    BY <1>2, <1>4, <1>5, <2>1, <2>2
<1>6. CASE k # j
  BY <1>1, <1>4, <1>6 DEF TypeOK
<1>7. QED
  BY <1>5, <1>6

LEMMA VDeliver ==
    ASSUME TypeOK, VInv, NEW j \in Registry, NEW m \in cb[j],
           Deliver(j, m) \/ Duplicate(j, m)
    PROVE  VInv'
<1>1. m \in Messages(j) /\ Merge(j, m) /\ cv' = cv
  BY DEF TypeOK, Deliver, Duplicate
<1>2. \A k \in Registry : cb'[k] \subseteq cb[k]
  BY DEF TypeOK, Deliver, Duplicate
<1>3. \A k \in Registry : cl'[k] = cl[k] \/ (k = j /\ cl'[k] = m.version)
  <2>1. CASE versioned /\ Applies(j, m)
    BY <1>1, <2>1, MergeStep
  <2>2. CASE ~ versioned \/ ~ Applies(j, m)
    BY <1>1, <2>2, MergeStep DEF Merge, Recorded
  <2>3. QED
    BY <2>1, <2>2
<1>4. QED
  BY <1>1, <1>2, <1>3 DEF VInv

LEMMA VFinalRound == TypeOK /\ VInv /\ FinalRound => VInv'
<1> SUFFICES ASSUME TypeOK, VInv, FinalRound
             PROVE  VInv'
  OBVIOUS
<1> DEFINE j == Order[round + 1]
<1>1. /\ j \in Registry /\ Final(j) \in Messages(j) /\ Merge(j, Final(j))
      /\ cv' = [cv EXCEPT ![j] = cv[j] + 1] /\ cb' = cb
  BY FinalStep
<1>2. \A k \in Registry : cl'[k] = cl[k] \/ (k = j /\ cl'[k] = cv[k] + 1)
  <2>1. Final(j).version = cv[j] + 1
    BY DEF Final, FreshVersion
  <2>2. CASE versioned /\ Applies(j, Final(j))
    <3>1. \A k \in Registry : k # j => cl'[k] = cl[k]
      BY <1>1, MergeStep
    <3>2. cl'[j] = Final(j).version
      BY <1>1, <2>2, MergeStep
    <3>3. QED
      BY <2>1, <3>1, <3>2
  <2>3. CASE ~ versioned \/ ~ Applies(j, Final(j))
    <3>1. cl' = cl
      BY <1>1, <2>3 DEF Merge, Recorded
    <3>2. QED
      BY <3>1
  <2>4. QED
    BY <2>2, <2>3
<1>3. SUFFICES ASSUME NEW k \in Registry
               PROVE  cl'[k] <= cv'[k] /\ \A m \in cb[k] : m.version <= cv'[k]
  BY <1>1 DEF VInv
<1>4. /\ cl[k] \in Nat /\ cv[k] \in Nat /\ cl[k] <= cv[k]
      /\ \A m \in cb[k] : m.version \in Nat /\ m.version <= cv[k]
  BY DEF VInv, TypeOK, Messages
<1>5. cv'[k] = IF k = j THEN cv[k] + 1 ELSE cv[k]
  BY <1>1 DEF TypeOK
<1>6. cl'[k] = cl[k] \/ (k = j /\ cl'[k] = cv[k] + 1)
  BY <1>2
<1>7. QED
  <2> HIDE DEF j
  <2>1. QED
    BY <1>4, <1>5, <1>6

LEMMA VStep == TypeOK /\ VInv /\ [Next]_vars => VInv'
<1> SUFFICES ASSUME TypeOK, VInv, [Next]_vars
             PROVE  VInv'
  OBVIOUS
<1>1. CASE \E e \in Event : Perform(e)
  BY <1>1 DEF Perform, LocalEvent, VInv
<1>2. CASE \E j \in Registry : Send(j)
  BY <1>2, VSend
<1>3. CASE \E j \in Registry : \E m \in cb[j] : Deliver(j, m) \/ Duplicate(j, m)
  BY <1>3, VDeliver
<1>4. CASE FinalRound
  BY <1>4, VFinalRound
<1>5. CASE UNCHANGED vars
  BY <1>5 DEF vars, VInv
<1>6. QED
  BY <1>1, <1>2, <1>3, <1>4, <1>5 DEF Next

\* No version applied or in flight is above the last one sent, whatever is
\* delivered late, twice or out of order.
THEOREM VersionsBounded == Spec => []VInv
BY TypeCorrect, VInit, VStep, PTL DEF Spec

-----------------------------------------------------------------------------
(* Targets that the final round has served.                                *)

\* A target served has its sources served before it.
LEMMA ServedFirst ==
    ASSUME TypeOK
    PROVE  /\ \A j \in Served : j \in Registry /\ Sources[j] \subseteq Served
           /\ round = 0 => Served = {}
<1>1. round \in Nat /\ round <= Len(Order)
  BY Places DEF TypeOK
<1>2. ASSUME NEW i \in 1..round
      PROVE  Order[i] \in Registry /\ Sources[Order[i]] \subseteq Served
  <2>1. i \in 1..Len(Order)
    BY <1>1, Places
  <2>2. ASSUME NEW k \in Sources[Order[i]]
        PROVE  k \in Served
    <3>1. PICK h \in 1..(i - 1) : Order[h] = k
      BY <2>1, SourcesBefore
    <3>2. h \in 1..round
      BY <1>1
    <3>3. QED
      BY <3>1, <3>2 DEF Served
  <2>3. QED
    BY <2>1, <2>2, Places
<1>3. \A j \in Served : j \in Registry /\ Sources[j] \subseteq Served
  <2>1. TAKE j \in Served
  <2>2. PICK i \in 1..round : j = Order[i]
    BY DEF Served
  <2>3. QED
    BY <1>2, <2>2
<1>4. ASSUME round = 0
      PROVE  Served = {}
  BY <1>4 DEF Served
<1>5. QED
  BY <1>3, <1>4

\* The final round adds one target to those served.
LEMMA ServedGrows ==
    ASSUME TypeOK, FinalRound
    PROVE  /\ Served' = Served \cup {Order[round + 1]}
           /\ Order[round + 1] \notin Served
           /\ Sources[Order[round + 1]] \subseteq Served
<1>1. /\ round \in Nat /\ round + 1 \in 1..Len(Order) /\ round' = round + 1
  BY FinalStep DEF TypeOK
<1>2. 1..(round + 1) = 1..round \cup {round + 1}
  BY <1>1
<1>3. Served' = Served \cup {Order[round + 1]}
  BY <1>1, <1>2 DEF Served
<1>4. \A i \in 1..round : i \in DOMAIN Order /\ i # round + 1
  BY <1>1, Places
<1>5. Order[round + 1] \notin Served
  BY <1>1, <1>4, c_topo, Places DEF Served
<1>6. ASSUME NEW k \in Sources[Order[round + 1]]
      PROVE  k \in Served
  <2>1. PICK h \in 1..((round + 1) - 1) : Order[h] = k
    BY <1>1, SourcesBefore
  <2>2. h \in 1..round
    BY <1>1
  <2>3. QED
    BY <2>1, <2>2 DEF Served
<1>7. QED
  BY <1>3, <1>5, <1>6

LEMMA RefusedDeliver ==
    ASSUME TypeOK, StaleRefused, NEW j \in Registry, NEW m \in cb[j],
           Deliver(j, m) \/ Duplicate(j, m)
    PROVE  StaleRefused'
<1>1. m \in Messages(j) /\ Merge(j, m) /\ Served' = Served /\ versioned' = versioned
  BY DEF TypeOK, Deliver, Duplicate, Served
<1>2. \A k \in Registry : cb'[k] \subseteq cb[k]
  BY DEF TypeOK, Deliver, Duplicate
<1>3. SUFFICES ASSUME versioned, NEW k \in Served, NEW n \in cb[k]
               PROVE  ~ n.version > cl'[k]
  BY <1>1, <1>2, ServedFirst DEF StaleRefused, Applies
<1>4. k \in Registry /\ ~ n.version > cl[k]
  BY <1>3, ServedFirst DEF StaleRefused, Applies
<1>5. CASE k = j
  \* The target has been served: it refuses what is delivered.
  BY <1>1, <1>3, <1>4, <1>5, MergeStep DEF StaleRefused
<1>6. CASE k # j
  BY <1>1, <1>4, <1>6, MergeStep
<1>7. QED
  BY <1>5, <1>6

LEMMA RefusedFinalRound == TypeOK /\ VInv /\ StaleRefused /\ FinalRound => StaleRefused'
<1> SUFFICES ASSUME TypeOK, VInv, StaleRefused, FinalRound
             PROVE  StaleRefused'
  OBVIOUS
<1> DEFINE j == Order[round + 1]
<1>1. /\ j \in Registry /\ Final(j) \in Messages(j) /\ Merge(j, Final(j))
      /\ cb' = cb /\ versioned' = versioned
  BY FinalStep DEF FinalRound
<1>2. SUFFICES ASSUME versioned, NEW k \in Served \cup {j}, NEW n \in cb[k]
               PROVE  ~ n.version > cl'[k]
  BY <1>1, ServedGrows DEF StaleRefused, Applies
<1>3. CASE k = j
  <2>1. Final(j).version = cv[j] + 1 /\ cl[j] <= cv[j] /\ n.version <= cv[j]
    BY <1>1, <1>3 DEF Final, FreshVersion, VInv
  <2>2. cl[j] \in Nat /\ cv[j] \in Nat /\ n.version \in Nat
    BY <1>1, <1>3 DEF TypeOK, Messages
  <2>3. Applies(j, Final(j))
    <3> HIDE DEF j
    <3>1. cv[j] + 1 > cl[j]
      BY <2>1, <2>2
    <3>2. QED
      BY <2>1, <3>1 DEF Applies
  <2>4. cl'[j] = cv[j] + 1
    BY <1>1, <1>2, <2>1, <2>3, MergeStep
  <2>5. QED
    BY <1>3, <2>1, <2>2, <2>4
<1>4. CASE k \in Served /\ k # j
  <2>1. k \in Registry /\ ~ n.version > cl[k]
    BY <1>2, <1>4, ServedFirst DEF StaleRefused, Applies
  <2>2. cl'[k] = cl[k]
    BY <1>1, <1>4, <2>1, MergeStep
  <2>3. QED
    BY <2>1, <2>2
<1>5. QED
  BY <1>2, <1>3, <1>4

LEMMA RefusedInit == Init => StaleRefused
BY DEF Init, DistInit, StaleRefused, Served

LEMMA RefusedStep == TypeOK /\ VInv /\ StaleRefused /\ [Next]_vars => StaleRefused'
<1> SUFFICES ASSUME TypeOK, VInv, StaleRefused, [Next]_vars
             PROVE  StaleRefused'
  OBVIOUS
<1>1. CASE \E e \in Event : Perform(e)
  BY <1>1 DEF Perform, LocalEvent, StaleRefused, Served, Applies
<1>2. CASE \E j \in Registry : Send(j)
  <2>1. round = 0 /\ Served' = Served
    BY <1>2 DEF Send, Served
  <2>2. QED
    BY <2>1, ServedFirst DEF StaleRefused
<1>3. CASE \E j \in Registry : \E m \in cb[j] : Deliver(j, m) \/ Duplicate(j, m)
  BY <1>3, RefusedDeliver
<1>4. CASE FinalRound
  BY <1>4, RefusedFinalRound
<1>5. CASE UNCHANGED vars
  BY <1>5 DEF vars, StaleRefused, Served, Applies
<1>6. QED
  BY <1>1, <1>2, <1>3, <1>4, <1>5 DEF Next

\* Whatever is in flight to a target that the final round has served is
\* refused.
THEOREM ServedRefuseStale == Spec => []StaleRefused
BY TypeCorrect, VersionsBounded, RefusedInit, RefusedStep, PTL DEF Spec

-----------------------------------------------------------------------------
(* Agreement.                                                              *)

\* A served target that a step leaves alone, with all that is served, still
\* agrees with its sources.
LEMMA AgreementStands ==
    ASSUME TypeOK, TypeOK', NEW k \in Served, cs[k] = f(k, cs, cs[k]),
           \A h \in Served : cs'[h] = cs[h]
    PROVE  cs'[k] = f(k, cs', cs'[k])
<1>1. k \in Registry /\ Sources[k] \subseteq Served
  BY ServedFirst
<1>2. cs \in States /\ cs' \in States /\ cs[k] \in Valid[k]
  BY <1>1, StateAt DEF TypeOK
<1>3. \A h \in Sources[k] : cs'[h] = cs[h]
  BY <1>1
<1>4. f(k, cs', cs[k]) = f(k, cs, cs[k])
  BY <1>1, <1>2, <1>3, RepairReadsSources
<1>5. QED
  BY <1>4

LEMMA SettledDeliver ==
    ASSUME TypeOK, TypeOK', StaleRefused, ServedSettled,
           NEW j \in Registry, NEW m \in cb[j],
           Deliver(j, m) \/ Duplicate(j, m)
    PROVE  ServedSettled'
<1>1. m \in Messages(j) /\ Merge(j, m) /\ Served' = Served /\ versioned' = versioned
  BY DEF TypeOK, Deliver, Duplicate, Served
<1>2. SUFFICES ASSUME versioned, NEW k \in Served
               PROVE  cs'[k] = f(k, cs', cs'[k])
  BY <1>1 DEF ServedSettled
<1>3. \A h \in Served : cs'[h] = cs[h]
  <2>1. j \in Served => ~ Applies(j, m)
    BY <1>2 DEF StaleRefused
  <2>2. QED
    BY <1>1, <2>1, MergeStep, ServedFirst
<1>4. QED
  BY <1>2, <1>3, AgreementStands DEF ServedSettled

\* The target being served takes its sources as they are, and they stay.
LEMMA FinalAgreement ==
    ASSUME TypeOK, TypeOK', VInv, versioned, FinalRound
    PROVE  LET j == Order[round + 1]
           IN  /\ cs'[j] = f(j, cs', cs'[j])
               /\ \A h \in Registry : h # j => cs'[h] = cs[h]
<1> DEFINE j == Order[round + 1]
           z == Project(j, cs)
           x == f(j, z, cs[j])
<1>1. j \in Registry /\ Final(j) \in Messages(j) /\ Merge(j, Final(j))
  BY FinalStep
<1>2. Final(j).version = cv[j] + 1 /\ Final(j).snapshot = z
  BY DEF Final, FreshVersion
<1>3. Applies(j, Final(j))
  <2>1. cl[j] \in Nat /\ cv[j] \in Nat /\ cl[j] <= cv[j]
    BY <1>1 DEF TypeOK, VInv
  <2>2. QED
    <3> HIDE DEF j, z
    <3>1. cv[j] + 1 > cl[j]
      BY <2>1
    <3>2. QED
      BY <1>2, <3>1 DEF Applies
<1>4. cs'[j] = x /\ \A h \in Registry : h # j => cs'[h] = cs[h]
  BY <1>1, <1>2, <1>3, MergeStep
<1>5. z \in StatesOf(Sources[j]) /\ cs[j] \in Valid[j] /\ x \in Valid[j]
  <2>1. z \in StatesOf(Sources[j]) /\ cs[j] \in Valid[j]
    BY <1>1, ProjectType, StateAt DEF TypeOK
  <2>2. QED
    BY <1>1, <2>1, c_m1
<1>6. Project(j, cs') = z
  <2>1. \A h \in Sources[j] : cs'[h] = cs[h]
    BY <1>1, <1>4, SourcesType
  <2>2. QED
    BY <2>1 DEF Project
<1>7. f(j, cs', x) = f(j, z, x)
  <2>1. f(j, cs', x) = f(j, Project(j, cs'), x)
    BY <1>1, <1>5, c_local DEF TypeOK
  <2>2. QED
    BY <1>6, <2>1
<1>8. f(j, z, x) = x
  BY <1>1, <1>5, c_absorb
<1>9. QED
  BY <1>4, <1>7, <1>8

LEMMA SettledFinalRound ==
    TypeOK /\ TypeOK' /\ VInv /\ ServedSettled /\ FinalRound => ServedSettled'
<1> SUFFICES ASSUME TypeOK, TypeOK', VInv, ServedSettled, FinalRound, versioned,
                    NEW k \in Served'
             PROVE  cs'[k] = f(k, cs', cs'[k])
  BY DEF ServedSettled, FinalRound
<1> DEFINE j == Order[round + 1]
<1>1. CASE k = j
  BY <1>1, FinalAgreement
<1>2. CASE k # j
  <2>1. k \in Served /\ j \notin Served
    BY <1>2, ServedGrows
  <2>2. \A h \in Served : cs'[h] = cs[h]
    BY <2>1, FinalAgreement, ServedFirst
  <2>3. QED
    BY <2>1, <2>2, AgreementStands DEF ServedSettled
<1>3. QED
  BY <1>1, <1>2

LEMMA SettledInit == Init => ServedSettled
BY DEF Init, DistInit, ServedSettled, Served

LEMMA SettledStep ==
    TypeOK /\ TypeOK' /\ VInv /\ StaleRefused /\ ServedSettled /\ [Next]_vars
        => ServedSettled'
<1> SUFFICES ASSUME TypeOK, TypeOK', VInv, StaleRefused, ServedSettled, [Next]_vars
             PROVE  ServedSettled'
  OBVIOUS
<1>1. CASE \E e \in Event : Perform(e)
  <2>1. round = 0 /\ Served' = Served
    BY <1>1 DEF Perform, LocalEvent, Served
  <2>2. QED
    BY <2>1, ServedFirst DEF ServedSettled
<1>2. CASE \E j \in Registry : Send(j)
  <2>1. round = 0 /\ Served' = Served
    BY <1>2 DEF Send, Served
  <2>2. QED
    BY <2>1, ServedFirst DEF ServedSettled
<1>3. CASE \E j \in Registry : \E m \in cb[j] : Deliver(j, m) \/ Duplicate(j, m)
  BY <1>3, SettledDeliver
<1>4. CASE FinalRound
  BY <1>4, SettledFinalRound
<1>5. CASE UNCHANGED vars
  BY <1>5 DEF vars, ServedSettled, Served
<1>6. QED
  BY <1>1, <1>2, <1>3, <1>4, <1>5 DEF Next

\* A target that the final round has served agrees with its sources from
\* then on, however late, often or out of order projections arrive.
THEOREM ServedTargetsSettle == Spec => []ServedSettled
BY TypeCorrect, VersionsBounded, ServedRefuseStale, SettledInit, SettledStep, PTL
   DEF Spec

\* After the final round the whole federation is consistent, with the
\* versioned merge: nothing has to be completed from outside.
THEOREM FinalRoundSettles ==
    Spec => [](versioned /\ round = Len(Order) => Consistent(cs))
<1>1. ServedSettled => (versioned /\ round = Len(Order) => Consistent(cs))
  BY Places DEF ServedSettled, Served, Consistent
<1>2. QED
  BY <1>1, ServedTargetsSettle, PTL

\* What the registries hold then is the state of the federated machine.
THEOREM FinalRoundShowsFed ==
    Spec => [](versioned /\ round = Len(Order) => cs = N(cs))
<1>1. TypeOK /\ (versioned /\ round = Len(Order) => Consistent(cs))
        => (versioned /\ round = Len(Order) => cs = N(cs))
  <2>1. SUFFICES ASSUME cs \in States, Consistent(cs)
                 PROVE  cs = N(cs)
    BY DEF TypeOK
  <2>2. Settled(cs, cs)
    BY <2>1 DEF Settled, Consistent
  <2>3. QED
    BY <2>1, <2>2, SettledOnce
<1>2. QED
  BY <1>1, TypeCorrect, FinalRoundSettles, PTL

-----------------------------------------------------------------------------
(* The federated machine.                                                  *)

\* The operators the two machines share.
LEMMA SharedOperators ==
    /\ \A t : Fed!N(t) = N(t)
    /\ \A e, t : Fed!applyF(e, t) = applyF(e, t)
<1>1. \A t : Fed!frun(t) = frun(t)
  BY DEF Fed!frun, Fed!fstep, frun, fstep
<1>2. \A t : Fed!N(t) = N(t)
  BY <1>1 DEF Fed!N, Fed!Registry, N, Registry
<1>3. \A e, t : Fed!evstep(e, t) = evstep(e, t)
  BY DEF Fed!evstep, evstep
<1>4. QED
  BY <1>2, <1>3 DEF Fed!applyF, applyF

\* A delivery, of whatever age and however often, is no step of it.
LEMMA MergeStutters ==
    ASSUME TypeOK, NEW j \in Registry, NEW m \in Messages(j), Merge(j, m)
    PROVE  N(cs)' = N(cs)
<1>1. CASE Applies(j, m)
  <2>1. m.snapshot \in StatesOf(Sources[j]) /\ cs \in States
    BY DEF Messages, TypeOK
  <2>2. cs' = [cs EXCEPT ![j] = f(j, m.snapshot, cs[j])]
    BY <1>1 DEF Merge
  <2>3. N(cs') = N(cs)
    BY <2>1, <2>2, MergeInvisible
  <2>4. QED
    BY <2>3
<1>2. CASE ~ Applies(j, m)
  <2>1. cs' = cs
    BY <1>2 DEF Merge
  <2>2. QED
    BY <2>1
<1>3. QED
  BY <1>1, <1>2

\* No step but an event is one of its steps.
LEMMA QuietStep ==
    ASSUME TypeOK, [Next]_vars, ~ \E e \in Event : Perform(e)
    PROVE  N(cs)' = N(cs) /\ performed' = performed
<1>1. ASSUME NEW j \in Registry, Send(j)
      PROVE  N(cs)' = N(cs) /\ performed' = performed
  BY <1>1 DEF Send
<1>2. ASSUME NEW j \in Registry, NEW m \in cb[j], Deliver(j, m) \/ Duplicate(j, m)
      PROVE  N(cs)' = N(cs) /\ performed' = performed
  <2>1. m \in Messages(j) /\ Merge(j, m) /\ performed' = performed
    BY <1>2 DEF TypeOK, Deliver, Duplicate
  <2>2. QED
    BY <2>1, MergeStutters
<1>3. ASSUME FinalRound PROVE N(cs)' = N(cs) /\ performed' = performed
  <2> DEFINE j == Order[round + 1]
  <2>1. j \in Registry /\ Final(j) \in Messages(j) /\ Merge(j, Final(j))
    BY <1>3, FinalStep
  <2>2. performed' = performed
    BY <1>3 DEF FinalRound
  <2>3. QED
    <3> HIDE DEF j
    <3>1. QED
      BY <2>1, <2>2, MergeStutters
<1>4. ASSUME UNCHANGED vars PROVE N(cs)' = N(cs) /\ performed' = performed
  BY <1>4 DEF vars
<1>5. QED
  BY <1>1, <1>2, <1>3, <1>4 DEF Next

\* The events commute with the repairs where the run is.
EventsCommute == \A e \in Event : XUat(cs, e)

LEMMA FedStep == TypeOK /\ EventsCommute /\ [Next]_vars => [Fed!Next]_(N(cs))
<1> SUFFICES ASSUME TypeOK, EventsCommute, [Next]_vars
             PROVE  Fed!Next \/ N(cs)' = N(cs)
  OBVIOUS
<1>1. ASSUME NEW e \in Event, Perform(e) PROVE Fed!Next
  <2>1. cs \in States /\ XUat(cs, e) /\ cs' = evstep(e, cs)
    BY <1>1 DEF TypeOK, EventsCommute, Perform, LocalEvent
  <2>2. N(cs') = applyF(e, N(cs))
    BY <2>1, EventVisible
  <2>3. Fed!Apply(e)
    BY <2>2, SharedOperators DEF Fed!Apply
  <2>4. QED
    BY <2>3 DEF Fed!Next
<1>2. QED
  BY <1>1, QuietStep

\* A run whose events commute with the repairs wherever they happen
\* implements the federated machine, in either merge mode.
THEOREM CommutingRunsImplementFed == Spec /\ []EventsCommute => ImplementsFed
<1>1. Init => Fed!Init
  BY SharedOperators DEF Init, DistInit, Fed!Init
<1>2. QED
  BY <1>1, FedStep, TypeCorrect, PTL DEF Spec, ImplementsFed, Fed!Spec

\* So does every run of a federation that meets the static condition XU; no
\* two events have to commute (C2 is not used).
THEOREM ImplementsFederated ==
    ASSUME XU
    PROVE  Spec => ImplementsFed
<1>1. TypeOK => EventsCommute
  BY XUEverywhere DEF TypeOK, EventsCommute
<1>2. QED
  BY <1>1, TypeCorrect, CommutingRunsImplementFed, PTL

-----------------------------------------------------------------------------
(* Convergence.  What the registries come to when propagation is completed *)
(* is a function of how often each event has happened.                     *)

LEMMA EverywhereFree ==
    ASSUME XU
    PROVE  EventsFree(States)
BY XUEverywhere, EventType DEF EventsFree

LEMMA ConvStep ==
    ASSUME XU, C2, IsFiniteSet(Event), TypeOK, DistConv, [Next]_vars
    PROVE  DistConv'
<1>1. ASSUME NEW e \in Event, Perform(e) PROVE DistConv'
  <2>1. /\ cs \in States /\ cs' = evstep(e, cs) /\ XUat(cs, e)
        /\ performed \in [Event -> Nat]
        /\ performed' = [performed EXCEPT ![e] = @ + 1]
    BY <1>1, XUEverywhere DEF TypeOK, Perform, LocalEvent
  <2>2. N(cs') = applyF(e, N(cs))
    BY <2>1, EventVisible
  <2>3. runF(Listing(performed'), N(Start)) = applyF(e, runF(Listing(performed), N(Start)))
    BY <2>1, CountedOnce, EverywhereFree, StartIsValid
  <2>4. QED
    BY <2>2, <2>3 DEF DistConv
<1>2. CASE ~ \E e \in Event : Perform(e)
  BY <1>2, QuietStep DEF DistConv
<1>3. QED
  BY <1>1, <1>2

\* Runs with the same events, sent, delivered, overtaken and repeated in any
\* way, come to one state when propagation is completed: the versioned merge
\* and the plain one alike.
THEOREM RunsConverge ==
    ASSUME XU, C2, IsFiniteSet(Event)
    PROVE  Spec => []DistConv
<1>1. Init => DistConv
  <2>1. SUFFICES ASSUME cs = Start, performed = [e \in Event |-> 0]
                 PROVE  DistConv
    BY DEF Init, DistInit
  <2>2. QED
    BY <2>1, NothingCounted, EverywhereFree, StartIsValid DEF DistConv
<1>2. TypeOK /\ DistConv /\ [Next]_vars => DistConv'
  BY ConvStep
<1>3. QED
  BY <1>1, <1>2, TypeCorrect, PTL DEF Spec

\* With the versioned merge they are in that state after the final round,
\* whatever still arrives.
THEOREM FinalRoundConverges ==
    ASSUME XU, C2, IsFiniteSet(Event)
    PROVE  Spec => []SettleConv
<1>1. DistConv /\ (versioned /\ round = Len(Order) => cs = N(cs)) => SettleConv
  BY DEF DistConv, SettleConv
<1>2. QED
  BY <1>1, RunsConverge, FinalRoundShowsFed, PTL

-----------------------------------------------------------------------------
(* Propagation of current values.                                          *)

LEMMA PropagateStep ==
    ASSUME cs \in States, NEW j \in Registry, cs' = fstep(cs, j)
    PROVE  cs' \in States /\ N(cs') = N(cs)
<1> DEFINE y == Project(j, cs)
<1>1. y \in StatesOf(Sources[j]) /\ f(j, cs, cs[j]) = f(j, y, cs[j])
  BY ProjectType, StateAt, c_local
<1>2. cs' = [cs EXCEPT ![j] = f(j, y, cs[j])]
  BY <1>1 DEF fstep
<1>3. QED
  <2> HIDE DEF y
  <2>1. QED
    BY <1>1, <1>2, MergeInvisible

LEMMA PerformType ==
    ASSUME cs \in States, NEW e \in Event, cs' = evstep(e, cs)
    PROVE  cs' \in States
<1>1. reg(e) \in Registry /\ sig(e, cs[reg(e)]) \in Valid[reg(e)]
  BY c_reg, c_sig, StateAt
<1>2. QED
  BY <1>1, StateWith DEF evstep

ValidStates == cs \in States

LEMMA DistType == DistSpec => []ValidStates
<1>1. DistInit => ValidStates
  BY StartIsValid DEF DistInit, ValidStates
<1>2. ValidStates /\ [DistNext]_distVars => ValidStates'
  <2>1. SUFFICES ASSUME cs \in States, [DistNext]_distVars
                 PROVE  cs' \in States
    BY DEF ValidStates
  <2>2. ASSUME NEW e \in Event, LocalEvent(e) PROVE cs' \in States
    BY <2>1, <2>2, PerformType DEF LocalEvent
  <2>3. ASSUME NEW j \in Registry, Propagate(j) PROVE cs' \in States
    BY <2>1, <2>3, PropagateStep DEF Propagate
  <2>4. CASE UNCHANGED distVars
    BY <2>1, <2>4 DEF distVars
  <2>5. QED
    BY <2>1, <2>2, <2>3, <2>4 DEF DistNext
<1>3. QED
  BY <1>1, <1>2, PTL DEF DistSpec

LEMMA DistImplStep ==
    ValidStates /\ XUR /\ [DistNext]_distVars
        => [Fed!Next]_(N(cs))
<1> SUFFICES ASSUME cs \in States, XUR, [DistNext]_distVars
             PROVE  Fed!Next \/ N(cs)' = N(cs)
  BY DEF ValidStates
<1>1. ASSUME NEW e \in Event, LocalEvent(e) PROVE Fed!Next
  <2>1. XUat(cs, e)
    BY DEF XUR
  <2>2. cs' = evstep(e, cs)
    BY <1>1 DEF LocalEvent
  <2>3. N(cs') = applyF(e, N(cs))
    BY <2>1, <2>2, EventVisible
  <2>4. Fed!Apply(e)
    BY <2>3, SharedOperators DEF Fed!Apply
  <2>5. QED
    BY <2>4 DEF Fed!Next
<1>2. ASSUME NEW j \in Registry, Propagate(j)
      PROVE  N(cs)' = N(cs)
  BY <1>2, PropagateStep DEF Propagate
<1>3. ASSUME UNCHANGED distVars PROVE N(cs)' = N(cs)
  BY <1>3 DEF distVars
<1>4. QED
  BY <1>1, <1>2, <1>3 DEF DistNext

\* A run of propagation whose events commute with the repairs at the states
\* it reaches (XUR, which can hold where XU fails) implements the federated
\* machine.
THEOREM PropagationImplementsFed ==
    DistSpec /\ []XUR => ImplementsFed
<1>1. DistInit => Fed!Init
  BY SharedOperators DEF DistInit, Fed!Init
<1>2. QED
  BY <1>1, DistImplStep, DistType, PTL
     DEF DistSpec, ImplementsFed, Fed!Spec

-----------------------------------------------------------------------------
(* The same for the propagation of current values, where only the states   *)
(* that can be reached count.                                              *)

\* Events and propagation lead from R into R.
Enclosed(R) ==
    \A t \in R : /\ \A e \in Event : evstep(e, t) \in R
                 /\ \A j \in Registry : fstep(t, j) \in R

Reachable ==
    {t \in States : \A R \in SUBSET States : Start \in R /\ Enclosed(R) => t \in R}

\* The condition XUR of the runs, of all reachable states at once.
ReachableXU == \A t \in Reachable : \A e \in Event : XUat(t, e)

LEMMA FstepType ==
    ASSUME NEW t \in States, NEW j \in Registry
    PROVE  fstep(t, j) \in States /\ N(fstep(t, j)) = N(t)
<1> DEFINE y == Project(j, t)
           s == fstep(t, j)
<1>1. y \in StatesOf(Sources[j]) /\ f(j, t, t[j]) = f(j, y, t[j])
  BY ProjectType, StateAt, c_local
<1>2. s = [t EXCEPT ![j] = f(j, y, t[j])]
  BY <1>1 DEF fstep
<1>3. s \in States /\ N(s) = N(t)
  <2> HIDE DEF y, s
  <2>1. QED
    BY <1>1, <1>2, MergeInvisible
<1>4. QED
  BY <1>3

LEMMA ReachableEnclosed ==
    Reachable \subseteq States /\ Start \in Reachable /\ Enclosed(Reachable)
<1>1. Reachable \subseteq States /\ Start \in Reachable
  BY StartIsValid DEF Reachable
<1>2. ASSUME NEW t \in Reachable, NEW e \in Event PROVE evstep(e, t) \in Reachable
  <2>1. evstep(e, t) \in States
    BY <1>1, EventType
  <2>2. ASSUME NEW R \in SUBSET States, Start \in R, Enclosed(R)
        PROVE  evstep(e, t) \in R
    BY <2>2 DEF Reachable, Enclosed
  <2>3. QED
    BY <2>1, <2>2 DEF Reachable
<1>3. ASSUME NEW t \in Reachable, NEW j \in Registry PROVE fstep(t, j) \in Reachable
  <2>1. fstep(t, j) \in States
    BY <1>1, FstepType
  <2>2. ASSUME NEW R \in SUBSET States, Start \in R, Enclosed(R)
        PROVE  fstep(t, j) \in R
    BY <2>2 DEF Reachable, Enclosed
  <2>3. QED
    BY <2>1, <2>2 DEF Reachable
<1>4. QED
  BY <1>1, <1>2, <1>3 DEF Enclosed

DistInv == /\ cs \in Reachable
              /\ performed \in [Event -> Nat]
              /\ N(cs) = runF(Listing(performed), N(Start))

LEMMA DistConvStep ==
    ASSUME ReachableXU, C2, IsFiniteSet(Event), DistInv,
           [DistNext]_distVars
    PROVE  DistInv'
<1>1. EventsFree(Reachable) /\ cs \in States
  BY ReachableEnclosed DEF EventsFree, ReachableXU, Enclosed, DistInv
<1>2. ASSUME NEW e \in Event, LocalEvent(e) PROVE DistInv'
  <2>1. /\ cs' = evstep(e, cs)
        /\ performed' = [performed EXCEPT ![e] = @ + 1]
    BY <1>2 DEF LocalEvent
  <2>2. cs' \in Reachable /\ N(cs') = applyF(e, N(cs))
    BY <1>1, <2>1, EventVisible DEF EventsFree, DistInv
  <2>3. runF(Listing(performed'), N(Start)) = applyF(e, runF(Listing(performed), N(Start)))
    BY <1>1, <2>1, CountedOnce, ReachableEnclosed DEF DistInv
  <2>4. performed' \in [Event -> Nat]
    BY <2>1 DEF DistInv
  <2>5. QED
    BY <2>2, <2>3, <2>4 DEF DistInv
<1>3. ASSUME NEW j \in Registry, Propagate(j) PROVE DistInv'
  <2>1. cs' = fstep(cs, j) /\ performed' = performed
    BY <1>3 DEF Propagate
  <2>2. cs' \in Reachable /\ N(cs') = N(cs)
    BY <1>1, <2>1, FstepType, ReachableEnclosed DEF Enclosed, DistInv
  <2>3. QED
    BY <2>1, <2>2 DEF DistInv
<1>4. CASE UNCHANGED distVars
  BY <1>4 DEF distVars, DistInv
<1>5. QED
  BY <1>2, <1>3, <1>4 DEF DistNext

\* However events and the propagation of current values interleave,
\* completing the propagation gives one state for the same events, if events
\* commute with the repairs at the states that can be reached.
THEOREM PropagationConverges ==
    ASSUME ReachableXU, C2, IsFiniteSet(Event)
    PROVE  DistSpec => []DistConv
<1>1. DistInit => DistInv
  <2>1. SUFFICES ASSUME cs = Start, performed = [e \in Event |-> 0]
                 PROVE  DistInv
    BY DEF DistInit
  <2>2. EventsFree(Reachable) /\ Start \in Reachable
    BY ReachableEnclosed DEF EventsFree, ReachableXU, Enclosed
  <2>3. runF(Listing(performed), N(Start)) = N(Start)
    BY <2>1, <2>2, NothingCounted
  <2>4. QED
    BY <2>1, <2>2, <2>3 DEF DistInv
<1>2. DistInv /\ [DistNext]_distVars => DistInv'
  BY DistConvStep
<1>3. DistInv => DistConv
  BY DEF DistInv, DistConv
<1>4. QED
  BY <1>1, <1>2, <1>3, PTL DEF DistSpec
=============================================================================
