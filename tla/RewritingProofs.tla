--------------------------- MODULE RewritingProofs ---------------------------
(***************************************************************************)
(* What a certified registry of rules promises of atomic and of            *)
(* interleaved repair, before any run: the modules AtomicRepairProofs and  *)
(* GovernanceProofs carry it to the runs of the two machines.              *)
(*                                                                         *)
(* Part 1, rewriting: confluence of atomic repair as a fact about          *)
(* configurations, for every registry that meets the conditions. Two       *)
(* deliveries that are possible together close a diamond (CC1), and every  *)
(* delivery shortens the buffer; a configuration with two different ends   *)
(* and a buffer as short as possible cannot exist.                         *)
(*                                                                         *)
(* Part 2, recursion: a recursive function exists and is unique.           *)
(*                                                                         *)
(* Part 3, the rule language: on every machine that passes the arithmetic  *)
(* checks of the certificate the runtime, in machine words, does what the  *)
(* checker does in integers.                                               *)
(*                                                                         *)
(* Part 4, certified registries: the governed events of a certified        *)
(* machine commute where the buffer lets both be delivered, and            *)
(* compensation draws a machine nearer to its normal form.                 *)
(***************************************************************************)
EXTENDS Rewriting, Registry, SequenceTheorems, FiniteSetTheorems,
        WellFoundedInduction, TLAPS

(***************************************************************************)
(* Least elements stand in for induction over the natural numbers.         *)
(***************************************************************************)
LEMMA LeastElement ==
    ASSUME NEW T, T \subseteq Nat, T # {}
    PROVE  \E x \in T : \A y \in T : x <= y
<1>1. OpToRel(<, Nat) = {p \in Nat \X Nat : p[1] < p[2]}
  BY DEF OpToRel
<1>2. PICK x \in T : \A y \in T : ~ (<<y, x>> \in OpToRel(<, Nat))
  BY WFMin, NatLessThanWellFounded
<1>3. \A y \in T : ~ (<<y, x>> \in {p \in Nat \X Nat : p[1] < p[2]})
  BY <1>1, <1>2, Zenon
<1>4. ASSUME NEW y \in T PROVE ~ (y < x)
  <2>1. ~ (<<y, x>> \in {p \in Nat \X Nat : p[1] < p[2]})
    BY <1>3
  <2>2. <<y, x>> \in Nat \X Nat /\ <<y, x>>[1] = y /\ <<y, x>>[2] = x
    OBVIOUS
  <2>3. QED
    BY <2>1, <2>2
<1>5. QED
  BY <1>4

(***************************************************************************)
(* remove1 takes out the first occurrence and closes the gap.              *)
(***************************************************************************)
IsRemoval(B, e, k, D) ==
    /\ k \in 1 .. Len(B)
    /\ B[k] = e
    /\ \A j \in 1 .. k - 1 : B[j] # e
    /\ D \in Seq(Event)
    /\ Len(D) = Len(B) - 1
    /\ \A i \in 1 .. Len(B) - 1 : D[i] = IF i < k THEN B[i] ELSE B[i + 1]

LEMMA RemovesFirst ==
    ASSUME NEW B \in Seq(Event), NEW e \in ToSet(B)
    PROVE  \E k : IsRemoval(B, e, k, remove1(e, B))
<1> DEFINE I == {i \in 1 .. Len(B) : B[i] = e}
<1>1. I # {} /\ I \subseteq Nat
  BY DEF ToSet
<1>2. \E x \in I : \A y \in I : x <= y
  BY <1>1, LeastElement
<1> DEFINE k == Min(I)
<1>3. k \in I /\ \A y \in I : k <= y
  <2> HIDE DEF I
  <2>1. QED BY <1>2 DEF Min
<1>4. remove1(e, B) = SubSeq(B, 1, k - 1) \o SubSeq(B, k + 1, Len(B))
  BY <1>1 DEF remove1, RemoveFirst, RemoveAt, SelectInSeq
<1> HIDE DEF k
<1> DEFINE L == SubSeq(B, 1, k - 1)
           R == SubSeq(B, k + 1, Len(B))
<1>5. /\ L \in Seq(Event) /\ Len(L) = k - 1
      /\ \A i \in 1 .. k - 1 : L[i] = B[i]
  BY <1>3
<1>6. /\ R \in Seq(Event) /\ Len(R) = Len(B) - k
      /\ \A i \in 1 .. Len(B) - k : R[i] = B[k + i]
  BY <1>3
<1> HIDE DEF L, R
<1>7. /\ L \o R \in Seq(Event) /\ Len(L \o R) = Len(B) - 1
      /\ \A i \in 1 .. Len(B) - 1 :
            (L \o R)[i] = IF i < k THEN B[i] ELSE B[i + 1]
  <2>1. k \in Nat /\ Len(B) \in Nat /\ 1 <= k /\ k <= Len(B)
    BY <1>3
  <2>2. /\ L \o R \in Seq(Event) /\ Len(L \o R) = Len(B) - 1
        /\ \A i \in 1 .. Len(B) - 1 :
              (L \o R)[i] = IF i <= Len(L) THEN L[i] ELSE R[i - Len(L)]
    <3>1. /\ L \o R \in Seq(Event) /\ Len(L \o R) = Len(L) + Len(R)
          /\ \A i \in 1 .. Len(L) + Len(R) :
                (L \o R)[i] = IF i <= Len(L) THEN L[i] ELSE R[i - Len(L)]
      BY <1>5, <1>6, ConcatProperties
    <3>2. Len(L) + Len(R) = Len(B) - 1
      BY <1>5, <1>6, <2>1
    <3>3. QED
      BY <3>1, <3>2
  <2>3. ASSUME NEW i \in 1 .. Len(B) - 1
        PROVE  (L \o R)[i] = IF i < k THEN B[i] ELSE B[i + 1]
    <3>1. CASE i < k
      BY <1>5, <2>1, <2>2, <3>1
    <3>2. CASE ~ (i < k)
      <4>1. i - (k - 1) \in 1 .. Len(B) - k /\ k + (i - (k - 1)) = i + 1
        BY <2>1, <3>2
      <4>2. R[i - (k - 1)] = B[i + 1]
        BY <4>1, <1>6
      <4>3. QED
        BY <4>2, <1>5, <2>1, <2>2, <3>2
    <3>3. QED
      BY <3>1, <3>2
  <2>4. QED
    BY <2>2, <2>3
<1>8. remove1(e, B) = L \o R
  BY <1>4 DEF L, R
<1>9. IsRemoval(B, e, k, remove1(e, B))
  <2>1. k \in 1 .. Len(B) /\ B[k] = e /\ \A j \in 1 .. k - 1 : B[j] # e
    BY <1>3
  <2>2. QED
    BY <2>1, <1>7, <1>8 DEF IsRemoval
<1>10. QED
  BY <1>9

LEMMA RemovedIsSeq ==
    ASSUME NEW B \in Seq(Event), NEW e \in ToSet(B)
    PROVE  /\ remove1(e, B) \in Seq(Event)
           /\ Len(B) \in Nat
           /\ Len(remove1(e, B)) \in Nat
           /\ Len(remove1(e, B)) < Len(B)
BY RemovesFirst DEF IsRemoval

(***************************************************************************)
(* Two removals of different events can be swapped.                        *)
(***************************************************************************)
LEMMA RemovalsCommuteInOrder ==
    ASSUME NEW B \in Seq(Event), NEW a, NEW b, a # b,
           NEW k, NEW l, NEW C, NEW D, NEW CB, NEW DA, NEW m, NEW n,
           IsRemoval(B, a, k, C), IsRemoval(B, b, l, D), k < l,
           IsRemoval(C, b, m, CB), IsRemoval(D, a, n, DA)
    PROVE  CB = DA
<1>0. /\ Len(B) \in Nat /\ k \in 1 .. Len(B) /\ l \in 1 .. Len(B)
      /\ Len(C) = Len(B) - 1 /\ Len(D) = Len(B) - 1
      /\ m \in 1 .. Len(C) /\ n \in 1 .. Len(D)
  BY DEF IsRemoval
<1>1. m = l - 1
  <2>1. C[l - 1] = b
    <3>1. l - 1 \in 1 .. Len(B) - 1 /\ ~ (l - 1 < k)
      BY <1>0
    <3>2. C[l - 1] = B[(l - 1) + 1] /\ (l - 1) + 1 = l
      BY <1>0, <3>1 DEF IsRemoval
    <3>3. QED
      BY <3>2 DEF IsRemoval
  <2>2. ~ (l - 1 < m)
    BY <2>1, <1>0 DEF IsRemoval
  <2>3. ASSUME m < l - 1 PROVE FALSE
    <3>1. C[m] = b /\ m \in 1 .. Len(B) - 1
      BY <1>0 DEF IsRemoval
    <3>2. B[m] # b /\ B[m + 1] # b
      BY <1>0, <2>3 DEF IsRemoval
    <3>3. C[m] = IF m < k THEN B[m] ELSE B[m + 1]
      BY <3>1 DEF IsRemoval
    <3>4. QED
      BY <3>1, <3>2, <3>3
  <2>4. QED
    BY <2>2, <2>3, <1>0
<1>2. n = k
  <2>1. ASSUME NEW i \in 1 .. k PROVE D[i] = B[i]
    <3>1. i \in 1 .. Len(B) - 1 /\ i < l
      BY <1>0
    <3>2. D[i] = IF i < l THEN B[i] ELSE B[i + 1]
      BY <3>1 DEF IsRemoval
    <3>3. QED
      BY <3>1, <3>2
  <2>2. D[k] = a
    BY <1>0, <2>1 DEF IsRemoval
  <2>3. ~ (k < n)
    BY <2>2, <1>0 DEF IsRemoval
  <2>4. ASSUME n < k PROVE FALSE
    <3>1. D[n] = a /\ D[n] = B[n] /\ B[n] # a
      BY <1>0, <2>1, <2>4 DEF IsRemoval
    <3>2. QED
      BY <3>1
  <2>5. QED
    BY <2>3, <2>4, <1>0
<1>3. /\ Len(CB) = Len(B) - 2 /\ Len(DA) = Len(B) - 2
      /\ CB \in Seq(Event) /\ DA \in Seq(Event)
  BY <1>0 DEF IsRemoval
<1>4. ASSUME NEW i \in 1 .. Len(B) - 2 PROVE CB[i] = DA[i]
  <2>1. CB[i] = IF i < l - 1 THEN C[i] ELSE C[i + 1]
    BY <1>0, <1>1 DEF IsRemoval
  <2>2. DA[i] = IF i < k THEN D[i] ELSE D[i + 1]
    <3>1. i \in 1 .. Len(D) - 1
      BY <1>0
    <3>2. DA[i] = IF i < n THEN D[i] ELSE D[i + 1]
      BY <3>1 DEF IsRemoval
    <3>3. QED
      BY <3>2, <1>2
  <2>3. /\ C[i] = IF i < k THEN B[i] ELSE B[i + 1]
        /\ C[i + 1] = IF i + 1 < k THEN B[i + 1] ELSE B[i + 2]
    <3>1. \A j \in 1 .. Len(B) - 1 : C[j] = IF j < k THEN B[j] ELSE B[j + 1]
      BY DEF IsRemoval
    <3>2. /\ i \in 1 .. Len(B) - 1 /\ i + 1 \in 1 .. Len(B) - 1
          /\ (i + 1) + 1 = i + 2
      BY <1>0
    <3>3. QED
      BY <3>1, <3>2
  <2>4. /\ D[i] = IF i < l THEN B[i] ELSE B[i + 1]
        /\ D[i + 1] = IF i + 1 < l THEN B[i + 1] ELSE B[i + 2]
    <3>1. \A j \in 1 .. Len(B) - 1 : D[j] = IF j < l THEN B[j] ELSE B[j + 1]
      BY DEF IsRemoval
    <3>2. /\ i \in 1 .. Len(B) - 1 /\ i + 1 \in 1 .. Len(B) - 1
          /\ (i + 1) + 1 = i + 2
      BY <1>0
    <3>3. QED
      BY <3>1, <3>2
  <2>5. QED
    BY <2>1, <2>2, <2>3, <2>4, <1>0
<1>5. QED
  BY <1>3, <1>4

LEMMA RemovalsCommute ==
    ASSUME NEW B \in Seq(Event), NEW a \in ToSet(B), NEW b \in ToSet(B),
           a # b, b \in ToSet(remove1(a, B)), a \in ToSet(remove1(b, B))
    PROVE  remove1(b, remove1(a, B)) = remove1(a, remove1(b, B))
<1> DEFINE C == remove1(a, B)
           D == remove1(b, B)
<1>1. PICK k : IsRemoval(B, a, k, C)
  BY RemovesFirst
<1>2. PICK l : IsRemoval(B, b, l, D)
  BY RemovesFirst
<1>3. C \in Seq(Event) /\ D \in Seq(Event)
  BY <1>1, <1>2 DEF IsRemoval
<1>4. PICK m : IsRemoval(C, b, m, remove1(b, C))
  BY <1>3, RemovesFirst
<1>5. PICK n : IsRemoval(D, a, n, remove1(a, D))
  BY <1>3, RemovesFirst
<1>6. k \in Int /\ l \in Int /\ k # l
  BY <1>1, <1>2 DEF IsRemoval
<1> HIDE DEF C, D
<1>7. CASE k < l
  BY <1>1, <1>2, <1>4, <1>5, <1>7, RemovalsCommuteInOrder DEF C, D
<1>8. CASE l < k
  BY <1>1, <1>2, <1>4, <1>5, <1>8, RemovalsCommuteInOrder DEF C, D
<1>9. QED
  BY <1>6, <1>7, <1>8

(***************************************************************************)
(* Atomic steps, and the configurations they lead to: the members of every *)
(* set that holds the first one and is closed under the steps.             *)
(***************************************************************************)
astep(c, d) == \E e \in Deliverable(c) : d = as_deliver(e, c)

Closed(S) == \A x \in S : \A y \in Config : astep(x, y) => y \in S

Reach(c) ==
    {d \in Config : \A S \in SUBSET Config : c \in S /\ Closed(S) => d \in S}

Stuck(c) == Deliverable(c) = {}

LEMMA StepStays ==
    ASSUME AtomicConditions(Config), NEW c \in Config, NEW d, astep(c, d)
    PROVE  d \in Config /\ Len(c.B) \in Nat /\ Len(d.B) \in Nat
           /\ Len(d.B) < Len(c.B)
<1>1. PICK e \in Deliverable(c) : d = as_deliver(e, c)
  BY DEF astep
<1>2. e \in ToSet(c.B) /\ c.sigma \in State /\ c.B \in Buffer
  BY DEF Deliverable, Config
<1>3. gov(e, c.sigma) \in State /\ remove1(e, c.B) \in Buffer
  BY <1>2 DEF AtomicConditions, BuffersShrink, GovernedClosed
<1>4. c.B \in Seq(Event)
  BY DEF AtomicConditions, BuffersShrink
<1>5. d = [sigma |-> gov(e, c.sigma), B |-> remove1(e, c.B)]
  BY <1>1 DEF as_deliver
<1>6. QED
  BY <1>2, <1>3, <1>4, <1>5, RemovedIsSeq DEF Config

LEMMA ReachSelf ==
    ASSUME NEW c \in Config PROVE c \in Reach(c)
BY DEF Reach

LEMMA ReachStep ==
    ASSUME AtomicConditions(Config), NEW c \in Config,
           NEW d \in Reach(c), NEW e, astep(d, e)
    PROVE  e \in Reach(c)
<1>1. d \in Config /\ e \in Config
  BY StepStays DEF Reach
<1>2. ASSUME NEW S \in SUBSET Config, c \in S, Closed(S) PROVE e \in S
  <2>1. d \in S
    BY <1>2 DEF Reach
  <2>2. QED
    BY <2>1, <1>1, <1>2 DEF Closed
<1>3. QED
  BY <1>1, <1>2 DEF Reach

LEMMA ReachFurther ==
    ASSUME AtomicConditions(Config), NEW c \in Config,
           NEW d \in Reach(c), NEW e \in Reach(d)
    PROVE  e \in Reach(c)
<1>1. d \in Config /\ e \in Config
  BY DEF Reach
<1>2. ASSUME NEW S \in SUBSET Config, c \in S, Closed(S) PROVE e \in S
  BY <1>2, <1>1 DEF Reach
<1>3. QED
  BY <1>1, <1>2 DEF Reach

LEMMA ReachAfter ==
    ASSUME AtomicConditions(Config), NEW c \in Config, NEW d, astep(c, d)
    PROVE  d \in Config /\ Reach(d) \subseteq Reach(c)
BY ReachSelf, ReachStep, ReachFurther, StepStays

(***************************************************************************)
(* What is reached from c is c, or is reached from a successor of c.       *)
(***************************************************************************)
LEMMA ReachBegins ==
    ASSUME AtomicConditions(Config), NEW c \in Config,
           NEW d \in Reach(c), d # c
    PROVE  \E b \in Config : astep(c, b) /\ d \in Reach(b)
<1> DEFINE S == {c} \cup {x \in Config :
                            \E b \in Config : astep(c, b) /\ x \in Reach(b)}
<1>1. S \in SUBSET Config /\ c \in S
  OBVIOUS
<1>2. ASSUME NEW x \in S, NEW y \in Config, astep(x, y) PROVE y \in S
  <2>1. CASE x = c
    BY <2>1, <1>2, ReachSelf
  <2>2. CASE x # c
    <3>1. PICK b \in Config : astep(c, b) /\ x \in Reach(b)
      BY <2>2
    <3>2. y \in Reach(b)
      BY <3>1, <1>2, ReachStep
    <3>3. QED
      BY <3>1, <3>2
  <2>3. QED
    BY <2>1, <2>2
<1>3. Closed(S)
  BY <1>2 DEF Closed
<1>4. d \in S
  <2> HIDE DEF S
  <2>1. QED
    BY <1>1, <1>3 DEF Reach
<1>5. QED
  BY <1>4

(***************************************************************************)
(* Two events that can be delivered can be delivered in either order.      *)
(***************************************************************************)
LEMMA Exchange ==
    ASSUME AtomicConditions(Config), NEW c \in Config,
           NEW e1 \in Deliverable(c), NEW e2 \in Deliverable(c), e1 # e2
    PROVE  /\ e2 \in Deliverable(as_deliver(e1, c))
           /\ e1 \in Deliverable(as_deliver(e2, c))
           /\ as_deliver(e2, as_deliver(e1, c)) = as_deliver(e1, as_deliver(e2, c))
<1> DEFINE a == as_deliver(e1, c)
           b == as_deliver(e2, c)
<1>1. e2 \in Deliverable(a) /\ e1 \in Deliverable(b)
  BY DEF AtomicConditions, enabled_after_remove
<1>2. /\ a.sigma = gov(e1, c.sigma) /\ a.B = remove1(e1, c.B)
      /\ b.sigma = gov(e2, c.sigma) /\ b.B = remove1(e2, c.B)
  BY DEF as_deliver
<1> HIDE DEF a, b
<1>3. gov(e2, a.sigma) = gov(e1, b.sigma)
  BY <1>2 DEF AtomicConditions, cc1_coenabled
<1>4. remove1(e2, a.B) = remove1(e1, b.B)
  <2>1. c.B \in Seq(Event)
    BY DEF AtomicConditions, BuffersShrink
  <2>2. /\ e1 \in ToSet(c.B) /\ e2 \in ToSet(c.B)
        /\ e2 \in ToSet(remove1(e1, c.B)) /\ e1 \in ToSet(remove1(e2, c.B))
    BY <1>1, <1>2 DEF Deliverable
  <2>3. QED
    BY <2>1, <2>2, <1>2, RemovalsCommute
<1>5. as_deliver(e2, a) = as_deliver(e1, b)
  BY <1>3, <1>4 DEF as_deliver
<1>6. QED
  BY <1>1, <1>5 DEF a, b

(***************************************************************************)
(* Two steps from one configuration meet again, one step later.            *)
(***************************************************************************)
LEMMA Diamond ==
    ASSUME AtomicConditions(Config), NEW c \in Config,
           NEW a, NEW b, astep(c, a), astep(c, b), a # b
    PROVE  \E d \in Config : astep(a, d) /\ astep(b, d)
<1>1. PICK e1 \in Deliverable(c) : a = as_deliver(e1, c)
  BY DEF astep
<1>2. PICK e2 \in Deliverable(c) : b = as_deliver(e2, c)
  BY DEF astep
<1>3. e2 \in Deliverable(a) /\ e1 \in Deliverable(b)
      /\ as_deliver(e2, a) = as_deliver(e1, b)
  BY <1>1, <1>2, Exchange
<1>4. astep(a, as_deliver(e2, a)) /\ astep(b, as_deliver(e2, a))
  BY <1>3 DEF astep
<1>5. a \in Config
  BY <1>1, StepStays DEF astep
<1>6. as_deliver(e2, a) \in Config
  BY <1>4, <1>5, StepStays
<1>7. QED
  BY <1>4, <1>6

(***************************************************************************)
(* Deliveries come to an end (a_SN).                                       *)
(***************************************************************************)
LEMMA SomeEnd ==
    ASSUME AtomicConditions(Config), NEW c \in Config
    PROVE  \E d \in Reach(c) : Stuck(d)
<1> DEFINE Bad == {x \in Config : ~ \E d \in Reach(x) : Stuck(d)}
           Sizes == {Len(x.B) : x \in Bad}
<1>1. SUFFICES ASSUME Bad # {} PROVE FALSE
  OBVIOUS
<1>2. \A x \in Config : Len(x.B) \in Nat
  BY DEF AtomicConditions, BuffersShrink
<1>3. Sizes \subseteq Nat /\ Sizes # {}
  BY <1>1, <1>2
<1>4. PICK n \in Sizes : \A k \in Sizes : n <= k
  BY <1>3, LeastElement
<1>5. PICK x \in Bad : Len(x.B) = n
  BY <1>4
<1>6. ~ Stuck(x)
  BY <1>5, ReachSelf
<1>7. PICK e \in Deliverable(x) : TRUE
  BY <1>6 DEF Stuck
<1>8. astep(x, as_deliver(e, x))
  BY <1>7 DEF astep
<1>9. /\ as_deliver(e, x) \in Config
      /\ Len(as_deliver(e, x).B) < n
      /\ Len(as_deliver(e, x).B) \in Nat /\ n \in Nat
  BY <1>5, <1>8, StepStays
<1>10. as_deliver(e, x) \notin Bad
  BY <1>4, <1>9
<1>11. QED
  BY <1>5, <1>8, <1>9, <1>10, ReachAfter

(***************************************************************************)
(* ... always at the same end.                                             *)
(***************************************************************************)
LEMMA OneEnd ==
    ASSUME AtomicConditions(Config), NEW c \in Config,
           NEW p \in Reach(c), NEW q \in Reach(c), Stuck(p), Stuck(q)
    PROVE  p = q
<1> DEFINE Bad == {x \in Config : \E y, z \in Reach(x) :
                                    Stuck(y) /\ Stuck(z) /\ y # z}
           Sizes == {Len(x.B) : x \in Bad}
<1>1. SUFFICES ASSUME Bad # {} PROVE FALSE
  OBVIOUS
<1>2. \A x \in Config : Len(x.B) \in Nat
  BY DEF AtomicConditions, BuffersShrink
<1>3. Sizes \subseteq Nat /\ Sizes # {}
  BY <1>1, <1>2
<1>4. PICK n \in Sizes : \A k \in Sizes : n <= k
  BY <1>3, LeastElement
<1>5. PICK x \in Bad : Len(x.B) = n
  BY <1>4
<1>6. PICK y, z \in Reach(x) : Stuck(y) /\ Stuck(z) /\ y # z
  BY <1>5
<1>7. \A w \in Config : ~ (Stuck(x) /\ astep(x, w))
  BY DEF Stuck, astep
<1>8. y # x /\ z # x
  BY <1>5, <1>6, <1>7, ReachBegins
<1>9. PICK a \in Config : astep(x, a) /\ y \in Reach(a)
  BY <1>5, <1>6, <1>8, ReachBegins
<1>10. PICK b \in Config : astep(x, b) /\ z \in Reach(b)
  BY <1>5, <1>6, <1>8, ReachBegins
<1>11. a \notin Bad /\ b \notin Bad
  BY <1>4, <1>5, <1>9, <1>10, StepStays
<1>12. CASE a = b
  BY <1>6, <1>9, <1>10, <1>11, <1>12
<1>13. CASE a # b
  <2>1. PICK d \in Config : astep(a, d) /\ astep(b, d)
    BY <1>5, <1>9, <1>10, <1>13, Diamond
  <2>2. PICK e \in Reach(d) : Stuck(e)
    BY SomeEnd
  <2>3. e \in Reach(a) /\ e \in Reach(b)
    BY <2>1, <2>2, ReachAfter
  <2>4. QED
    BY <1>6, <1>9, <1>10, <1>11, <2>2, <2>3
<1>14. QED
  BY <1>12, <1>13

(***************************************************************************)
(* Long before the end.  How often an event is waiting tells how often it  *)
(* has been delivered.                                                     *)
(***************************************************************************)
Places(B, g) == {i \in 1 .. Len(B) : B[i] = g}

Count(B, g) == Cardinality(Places(B, g))

LEMMA PlacesFinite ==
    ASSUME NEW B \in Seq(Event), NEW g
    PROVE  IsFiniteSet(Places(B, g)) /\ Count(B, g) \in Nat
<1>1. Len(B) \in Nat
  OBVIOUS
<1>2. IsFiniteSet(1 .. Len(B))
  BY <1>1, FS_Interval
<1>3. IsFiniteSet(Places(B, g))
  BY <1>2, FS_Subset DEF Places
<1>4. QED
  BY <1>3, FS_CardinalityType DEF Count

LEMMA RemovalCounts ==
    ASSUME NEW B \in Seq(Event), NEW e \in ToSet(B), NEW g
    PROVE  /\ Count(B, g) \in Nat
           /\ Count(remove1(e, B), g) = IF g = e THEN Count(B, g) - 1 ELSE Count(B, g)
<1>1. PICK k : IsRemoval(B, e, k, remove1(e, B))
  BY RemovesFirst
<1> DEFINE C == remove1(e, B)
           P == Places(B, g)
           Q == Places(C, g)
           h == [i \in Q |-> IF i < k THEN i ELSE i + 1]
<1>2. PICK n \in Nat : n = Len(B)
  OBVIOUS
<1>3. /\ C \in Seq(Event) /\ Len(C) = n - 1 /\ k \in 1 .. n /\ B[k] = e
      /\ \A i \in 1 .. n - 1 : C[i] = IF i < k THEN B[i] ELSE B[i + 1]
  BY <1>1, <1>2 DEF IsRemoval
<1>4. IsFiniteSet(P) /\ IsFiniteSet(Q) /\ Count(B, g) \in Nat
  BY <1>3, PlacesFinite
<1>5. /\ P = {i \in 1 .. n : B[i] = g}
      /\ Q = {i \in 1 .. n - 1 : C[i] = g}
  BY <1>2, <1>3 DEF Places
<1>6. Cardinality(P \ {k}) = Cardinality(Q)
  <2> HIDE DEF C, P, Q
  <2>1. \A i \in Q : h[i] \in P \ {k}
    BY <1>3, <1>5
  <2>2. \A i, j \in Q : h[i] = h[j] => i = j
    BY <1>3, <1>5
  <2>3. ASSUME NEW j \in P \ {k} PROVE \E i \in Q : h[i] = j
    <3>1. CASE j < k
      <4>1. j \in Q
        BY <1>3, <1>5, <2>3, <3>1
      <4> QED
        BY <3>1, <4>1
    <3>2. CASE j > k
      <4>1. j - 1 \in 1 .. n - 1 /\ ~ (j - 1 < k) /\ (j - 1) + 1 = j
        BY <1>3, <1>5, <2>3, <3>2
      <4>2. j - 1 \in Q
        BY <1>3, <1>5, <2>3, <4>1
      <4> QED
        BY <4>1, <4>2
    <3>3. j \in 1 .. n /\ j # k /\ k \in 1 .. n
      BY <1>3, <1>5, <2>3
    <3>4. j < k \/ j > k
      BY <3>3
    <3> QED
      BY <3>1, <3>2, <3>4
  <2>4. h \in [Q -> P \ {k}]
    BY <2>1
  <2> HIDE DEF h
  <2>5. h \in Injection(Q, P \ {k}) /\ h \in Surjection(Q, P \ {k})
    BY <2>2, <2>3, <2>4 DEF Injection, IsInjective, Surjection
  <2>6. ExistsBijection(Q, P \ {k})
    BY <2>5 DEF ExistsBijection, Bijection
  <2>7. QED
    BY <1>4, <2>6, FS_Bijection
<1>7. CASE g = e
  <2>1. k \in P
    BY <1>3, <1>5, <1>7
  <2>2. Cardinality(P \ {k}) = Cardinality(P) - 1
    BY <1>4, <2>1, FS_RemoveElement
  <2>3. QED
    BY <1>4, <1>6, <1>7, <2>2 DEF Count
<1>8. CASE g # e
  <2>1. k \notin P
    BY <1>3, <1>5, <1>8
  <2>2. P \ {k} = P
    BY <2>1
  <2>3. QED
    BY <1>4, <1>6, <1>8, <2>2 DEF Count
<1>9. QED
  BY <1>7, <1>8

LEMMA DeliveryCounts ==
    ASSUME AtomicConditions(Config), NEW c \in Config, NEW e \in Deliverable(c), NEW g
    PROVE  /\ as_deliver(e, c) \in Config
           /\ astep(c, as_deliver(e, c))
           /\ Count(c.B, g) \in Nat
           /\ Count(as_deliver(e, c).B, g) =
                 IF g = e THEN Count(c.B, g) - 1 ELSE Count(c.B, g)
<1>1. c.B \in Seq(Event) /\ e \in ToSet(c.B)
  BY DEF AtomicConditions, BuffersShrink, Deliverable
<1>2. as_deliver(e, c).B = remove1(e, c.B)
  BY DEF as_deliver
<1>3. astep(c, as_deliver(e, c))
  BY DEF astep
<1>4. QED
  BY <1>1, <1>2, <1>3, RemovalCounts, StepStays

LEMMA CountType ==
    ASSUME AtomicConditions(Config), NEW c \in Config, NEW g
    PROVE  Count(c.B, g) \in Nat /\ Len(c.B) \in Nat
<1>1. c.B \in Seq(Event)
  BY DEF AtomicConditions, BuffersShrink
<1>2. QED
  BY <1>1, PlacesFinite

(***************************************************************************)
(* Nothing comes back to a buffer.                                         *)
(***************************************************************************)
LEMMA CountsFall ==
    ASSUME AtomicConditions(Config), NEW c \in Config, NEW d \in Reach(c), NEW g
    PROVE  d \in Config /\ Count(d.B, g) <= Count(c.B, g)
<1> DEFINE S == {x \in Config : Count(x.B, g) <= Count(c.B, g)}
<1>1. c \in S
  BY CountType
<1>2. ASSUME NEW x \in S, NEW y \in Config, astep(x, y) PROVE y \in S
  <2>1. PICK e \in Deliverable(x) : y = as_deliver(e, x)
    BY <1>2 DEF astep
  <2>2. Count(y.B, g) = IF g = e THEN Count(x.B, g) - 1 ELSE Count(x.B, g)
    BY <1>2, <2>1, DeliveryCounts
  <2>3. QED
    BY <1>2, <2>2, CountType
<1>3. Closed(S) /\ S \in SUBSET Config
  BY <1>2 DEF Closed
<1>4. d \in S
  <2> HIDE DEF S
  <2>1. QED
    BY <1>1, <1>3 DEF Reach
<1>5. QED
  BY <1>4

(***************************************************************************)
(* An event that is delivered on the way could have been delivered first.  *)
(***************************************************************************)
LEMMA DeliveredFirst ==
    ASSUME AtomicConditions(Config), NEW c \in Config, NEW d \in Reach(c),
           NEW e \in Deliverable(c), Count(d.B, e) < Count(c.B, e)
    PROVE  d \in Reach(as_deliver(e, c))
<1> DEFINE Bad == {x \in Config :
                      \E y \in Reach(x) : /\ e \in Deliverable(x)
                                          /\ Count(y.B, e) < Count(x.B, e)
                                          /\ y \notin Reach(as_deliver(e, x))}
           Sizes == {Len(x.B) : x \in Bad}
<1>1. SUFFICES ASSUME Bad # {} PROVE FALSE
  OBVIOUS
<1>2. \A x \in Config : Len(x.B) \in Nat
  BY CountType
<1>3. Sizes \subseteq Nat /\ Sizes # {}
  BY <1>1, <1>2
<1>4. PICK n \in Sizes : \A k \in Sizes : n <= k
  BY <1>3, LeastElement
<1>5. PICK x \in Bad : Len(x.B) = n
  BY <1>4
<1>6. PICK y \in Reach(x) : /\ e \in Deliverable(x)
                            /\ Count(y.B, e) < Count(x.B, e)
                            /\ y \notin Reach(as_deliver(e, x))
  BY <1>5
<1>7. y # x
  BY <1>5, <1>6, CountType
<1>8. PICK b \in Config : astep(x, b) /\ y \in Reach(b)
  BY <1>5, <1>6, <1>7, ReachBegins
<1>9. PICK g \in Deliverable(x) : b = as_deliver(g, x)
  BY <1>8 DEF astep
<1>10. g # e
  BY <1>6, <1>8, <1>9
<1>11. b \notin Bad
  BY <1>4, <1>5, <1>8, StepStays
<1>12. e \in Deliverable(b) /\ as_deliver(e, b) = as_deliver(g, as_deliver(e, x))
       /\ g \in Deliverable(as_deliver(e, x))
  BY <1>5, <1>6, <1>9, <1>10, Exchange
<1>13. Count(b.B, e) = Count(x.B, e)
  BY <1>5, <1>9, <1>10, DeliveryCounts
<1>14. y \in Reach(as_deliver(e, b))
  BY <1>6, <1>8, <1>11, <1>12, <1>13
<1>15. as_deliver(e, x) \in Config /\ astep(as_deliver(e, x), as_deliver(e, b))
  BY <1>5, <1>6, <1>12, DeliveryCounts DEF astep
<1>16. y \in Reach(as_deliver(e, x))
  BY <1>14, <1>15, ReachAfter
<1>17. QED
  BY <1>6, <1>16

(***************************************************************************)
(* Two ways from one configuration that have delivered the same events,    *)
(* each as often, have come to the same configuration.                     *)
(***************************************************************************)
LEMMA SameEventsOneConfig ==
    ASSUME AtomicConditions(Config), NEW c \in Config,
           NEW p \in Reach(c), NEW q \in Reach(c),
           \A g : Count(p.B, g) = Count(q.B, g)
    PROVE  p = q
<1> DEFINE Bad == {x \in Config :
                      \E y, z \in Reach(x) : /\ \A g : Count(y.B, g) = Count(z.B, g)
                                             /\ y # z}
           Sizes == {Len(x.B) : x \in Bad}
<1>1. SUFFICES ASSUME Bad # {} PROVE FALSE
  OBVIOUS
<1>2. \A x \in Config : Len(x.B) \in Nat
  BY CountType
<1>3. Sizes \subseteq Nat /\ Sizes # {}
  BY <1>1, <1>2
<1>4. PICK n \in Sizes : \A k \in Sizes : n <= k
  BY <1>3, LeastElement
<1>5. PICK x \in Bad : Len(x.B) = n
  BY <1>4
<1>6. PICK y, z \in Reach(x) : (\A g : Count(y.B, g) = Count(z.B, g)) /\ y # z
  BY <1>5
<1>7. ASSUME NEW w \in Reach(x), w # x
      PROVE  \E e \in Deliverable(x) : /\ w \in Reach(as_deliver(e, x))
                                       /\ Count(w.B, e) < Count(x.B, e)
  <2>1. PICK b \in Config : astep(x, b) /\ w \in Reach(b)
    BY <1>5, <1>7, ReachBegins
  <2>2. PICK e \in Deliverable(x) : b = as_deliver(e, x)
    BY <2>1 DEF astep
  <2>3. Count(b.B, e) = Count(x.B, e) - 1 /\ Count(x.B, e) \in Nat
    BY <1>5, <2>2, DeliveryCounts
  <2>4. w \in Config /\ Count(w.B, e) <= Count(b.B, e)
    BY <2>1, CountsFall
  <2>5. Count(w.B, e) \in Nat
    BY <2>4, CountType
  <2>6. \A i, j, k \in Nat : (k = i - 1 /\ j <= k) => j < i
    OBVIOUS
  <2>7. Count(b.B, e) \in Nat
    BY <2>1, CountType
  <2>8. Count(w.B, e) < Count(x.B, e)
    BY <2>3, <2>4, <2>5, <2>6, <2>7
  <2>9. QED
    BY <2>1, <2>2, <2>8
<1>8. \E e \in Deliverable(x) : /\ y \in Reach(as_deliver(e, x))
                                /\ z \in Reach(as_deliver(e, x))
  <2>1. CASE y # x
    <3>1. PICK e \in Deliverable(x) : /\ y \in Reach(as_deliver(e, x))
                                      /\ Count(y.B, e) < Count(x.B, e)
      BY <1>6, <1>7, <2>1
    <3>2. z \in Reach(as_deliver(e, x))
      BY <1>5, <1>6, <3>1, DeliveredFirst
    <3>3. QED
      BY <3>1, <3>2
  <2>2. CASE z # x
    <3>1. PICK e \in Deliverable(x) : /\ z \in Reach(as_deliver(e, x))
                                      /\ Count(z.B, e) < Count(x.B, e)
      BY <1>6, <1>7, <2>2
    <3>2. y \in Reach(as_deliver(e, x))
      BY <1>5, <1>6, <3>1, DeliveredFirst
    <3>3. QED
      BY <3>1, <3>2
  <2>3. QED
    BY <1>6, <2>1, <2>2
<1>9. PICK e \in Deliverable(x) : /\ y \in Reach(as_deliver(e, x))
                                  /\ z \in Reach(as_deliver(e, x))
  BY <1>8
<1>10. as_deliver(e, x) \in Bad
  BY <1>5, <1>6, <1>9, DeliveryCounts
<1>11. Len(as_deliver(e, x).B) < n /\ Len(as_deliver(e, x).B) \in Nat /\ n \in Nat
  BY <1>5, <1>9, DeliveryCounts, StepStays
<1>12. QED
  BY <1>4, <1>10, <1>11

-----------------------------------------------------------------------------
(***************************************************************************)
(* Part 2: recursion. A function whose value at x depends on its values at *)
(* what is lower than x exists, whatever it computes, and there is only    *)
(* one.                                                                    *)
(***************************************************************************)

Unfolds(S, h, V, G) ==
    /\ h \in [S -> Nat] /\ V # {} /\ G \in [S \X [S -> V] -> V]
    /\ \A x \in S : \A f, g \in [S -> V] :
          (\A y \in S : h[y] < h[x] => f[y] = g[y]) => G[<<x, f>>] = G[<<x, g>>]

SolvesBelow(S, h, V, G, n, f) ==
    /\ f \in [S -> V]
    /\ \A x \in S : h[x] < n => f[x] = G[<<x, f>>]

(***************************************************************************)
(* Two functions that both unfold the definition below some height are     *)
(* equal there.                                                            *)
(***************************************************************************)
LEMMA SolutionsAgree ==
    ASSUME NEW S, NEW h, NEW V, NEW G, Unfolds(S, h, V, G),
           NEW n \in Nat, NEW k \in Nat, n <= k,
           NEW f, NEW g, SolvesBelow(S, h, V, G, n, f), SolvesBelow(S, h, V, G, k, g),
           NEW x \in S, h[x] < n
    PROVE  f[x] = g[x]
<1> DEFINE T == {h[y] : y \in {z \in S : h[z] < n /\ f[z] # g[z]}}
<1>1. SUFFICES ASSUME f[x] # g[x] PROVE FALSE
  OBVIOUS
<1>2. T \subseteq Nat /\ T # {}
  BY <1>1 DEF Unfolds
<1>3. PICK l \in T : \A i \in T : l <= i
  <2> HIDE DEF T
  <2> QED BY <1>2, LeastElement
<1>4. PICK y \in S : h[y] < n /\ f[y] # g[y] /\ h[y] = l
  BY <1>3
<1>5. f \in [S -> V] /\ g \in [S -> V] /\ h \in [S -> Nat]
  BY DEF SolvesBelow, Unfolds
<1>6. ASSUME NEW z \in S, h[z] < h[y] PROVE f[z] = g[z]
  <2>1. h[z] \in Nat /\ h[y] \in Nat /\ h[z] < n
    BY <1>4, <1>5, <1>6
  <2>2. h[z] \in T => l <= h[z]
    BY <1>3
  <2>3. QED
    BY <1>4, <1>6, <2>1, <2>2
<1>7. G[<<y, f>>] = G[<<y, g>>]
  BY <1>5, <1>6 DEF Unfolds
<1>8. f[y] = G[<<y, f>>] /\ g[y] = G[<<y, g>>]
  <2>1. h[y] < k
    BY <1>4, <1>5
  <2>2. QED
    BY <1>4, <2>1 DEF SolvesBelow
<1>9. QED
  BY <1>4, <1>7, <1>8

(***************************************************************************)
(* The definition can be solved below every height.                        *)
(***************************************************************************)
LEMMA SolutionBelow ==
    ASSUME NEW S, NEW h, NEW V, NEW G, Unfolds(S, h, V, G), NEW n \in Nat
    PROVE  \E f : SolvesBelow(S, h, V, G, n, f)
<1> DEFINE Bad == {k \in Nat : ~ \E f : SolvesBelow(S, h, V, G, k, f)}
<1>1. SUFFICES ASSUME Bad # {} PROVE FALSE
  OBVIOUS
<1>2. PICK k \in Bad : \A i \in Bad : k <= i
  <2>1. Bad \subseteq Nat
    OBVIOUS
  <2> HIDE DEF Bad
  <2> QED BY <1>1, <2>1, LeastElement
<1>3. h \in [S -> Nat] /\ G \in [S \X [S -> V] -> V]
  BY DEF Unfolds
<1>4. k # 0
  <2>1. PICK v \in V : TRUE
    BY DEF Unfolds
  <2> DEFINE f == [x \in S |-> v]
  <2>2. f \in [S -> V] /\ \A x \in S : ~ (h[x] < 0)
    BY <1>3
  <2>3. SolvesBelow(S, h, V, G, 0, f)
    <3> HIDE DEF f
    <3> QED BY <2>2 DEF SolvesBelow
  <2>4. QED
    BY <2>3
<1>5. k - 1 \in Nat /\ k - 1 \notin Bad
  BY <1>2, <1>4
<1>6. PICK f : SolvesBelow(S, h, V, G, k - 1, f)
  BY <1>5
<1> DEFINE g == [x \in S |-> G[<<x, f>>]]
<1>7. f \in [S -> V] /\ g \in [S -> V]
  BY <1>3, <1>6 DEF SolvesBelow
<1>8. \A x \in S : h[x] < k - 1 => f[x] = g[x]
  BY <1>6 DEF SolvesBelow
<1>9. ASSUME NEW x \in S, h[x] < k PROVE g[x] = G[<<x, g>>]
  <2>1. g[x] = G[<<x, f>>]
    OBVIOUS
  <2> HIDE DEF g
  <2>2. \A y \in S : h[y] < h[x] => f[y] = g[y]
    BY <1>3, <1>5, <1>8, <1>9
  <2>3. G[<<x, f>>] = G[<<x, g>>]
    BY <1>7, <2>2 DEF Unfolds
  <2>4. QED
    BY <2>1, <2>3
<1>10. SolvesBelow(S, h, V, G, k, g)
  <2> HIDE DEF g
  <2> QED BY <1>7, <1>9 DEF SolvesBelow
<1>11. QED
  BY <1>10

LEMMA RecursiveFunction ==
    ASSUME NEW S, NEW h, NEW V, NEW G, Unfolds(S, h, V, G)
    PROVE  \E f \in [S -> V] : \A x \in S : f[x] = G[<<x, f>>]
<1> DEFINE part(n) == CHOOSE f : SolvesBelow(S, h, V, G, n, f)
           f == [x \in S |-> part(h[x] + 1)[x]]
<1>1. \A n \in Nat : SolvesBelow(S, h, V, G, n, part(n))
  BY SolutionBelow
<1> HIDE DEF part
<1>2. h \in [S -> Nat]
  BY DEF Unfolds
<1>3. f \in [S -> V]
  BY <1>1, <1>2 DEF SolvesBelow
<1>4. ASSUME NEW x \in S PROVE f[x] = G[<<x, f>>]
  <2> DEFINE g == part(h[x] + 1)
  <2>1. h[x] + 1 \in Nat /\ SolvesBelow(S, h, V, G, h[x] + 1, g) /\ h[x] < h[x] + 1
    BY <1>1, <1>2
  <2>2. g \in [S -> V] /\ g[x] = G[<<x, g>>] /\ f[x] = g[x]
    BY <2>1 DEF SolvesBelow
  <2>3. ASSUME NEW y \in S, h[y] < h[x] PROVE f[y] = g[y]
    <3>1. /\ h[y] + 1 \in Nat /\ h[y] + 1 <= h[x] + 1 /\ h[y] < h[y] + 1
          /\ SolvesBelow(S, h, V, G, h[y] + 1, part(h[y] + 1))
      BY <1>1, <1>2, <2>3
    <3> HIDE DEF g
    <3>2. part(h[y] + 1)[y] = g[y]
      BY <2>1, <3>1, SolutionsAgree
    <3>3. QED
      BY <3>2
  <2> HIDE DEF f, g
  <2>4. G[<<x, f>>] = G[<<x, g>>]
    BY <1>3, <2>2, <2>3 DEF Unfolds
  <2>5. QED
    BY <2>2, <2>4
<1>5. QED
  <2> HIDE DEF f
  <2> QED BY <1>3, <1>4

(***************************************************************************)
(* Two solutions of one definition are equal: they cannot differ first.    *)
(***************************************************************************)
AgreeUpwards(S, h, f, g) ==
    /\ h \in [S -> Nat]
    /\ \A x \in S : (\A y \in S : h[y] < h[x] => f[y] = g[y]) => f[x] = g[x]

LEMMA OneSolution ==
    ASSUME NEW S, NEW h, NEW f, NEW g, AgreeUpwards(S, h, f, g)
    PROVE  \A x \in S : f[x] = g[x]
<1> USE DEF AgreeUpwards
<1> DEFINE T == {h[y] : y \in {z \in S : f[z] # g[z]}}
<1>1. SUFFICES ASSUME NEW x \in S, f[x] # g[x] PROVE FALSE
  OBVIOUS
<1>2. T \subseteq Nat /\ T # {}
  BY <1>1
<1>3. PICK l \in T : \A i \in T : l <= i
  <2> HIDE DEF T
  <2> QED BY <1>2, LeastElement
<1>4. PICK y \in S : f[y] # g[y] /\ h[y] = l
  BY <1>3
<1>5. ASSUME NEW z \in S, h[z] < h[y] PROVE f[z] = g[z]
  <2>1. h[z] \in Nat /\ h[y] \in Nat
    OBVIOUS
  <2>2. h[z] \in T => l <= h[z]
    BY <1>3
  <2>3. QED
    BY <1>4, <1>5, <2>1, <2>2
<1>6. QED
  BY <1>4, <1>5

-----------------------------------------------------------------------------
(***************************************************************************)
(* Part 3: the rule language. Machines, expressions, predicates,           *)
(* transforms and repair in the integers of the checker and in the machine *)
(* words of the runtime.                                                   *)
(***************************************************************************)

(***************************************************************************)
(* A machine of the registry in either arithmetic, and the same machine in *)
(* the machine words of the Go runtime.                                    *)
(***************************************************************************)
AnyMachine(m) ==
    /\ m \in [go : BOOLEAN, doms : Seq(Nat \ {0}), mins : Seq(Int),
              bools : SUBSET Nat,
              invs : Seq([holds : Pred, repair : Transform]),
              evs : Seq([guard : Pred, effect : Transform]),
              declared : BOOLEAN, indep : SUBSET (Nat \X Nat)]
    /\ Len(m.mins) = Len(m.doms)
    /\ \A i \in m.bools : binaryVar(m, i)

InGo(m) == [m EXCEPT !.go = TRUE]

(***************************************************************************)
(* Machine words: always an integer, and the number itself when it fits.   *)
(***************************************************************************)
LEMMA WordIsInt ==
    ASSUME NEW m, m.go \in BOOLEAN, NEW x \in Int
    PROVE  Word(m, x) \in Int
<1>1. Wrapped(x) \in Int
  BY MaxAbsAssumption DEF Wrapped
<1>2. QED
  BY <1>1 DEF Word

LEMMA WordIsExact ==
    ASSUME NEW m, NEW x \in Int, -MaxAbs <= x, x <= MaxAbs
    PROVE  Word(m, x) = x
<1>1. Wrapped(x) = x
  <2> DEFINE k == 2 * (MaxAbs + 1)   y == x + MaxAbs + 1
  <2>1. k \in Nat /\ k > 0 /\ y \in Nat /\ y < k
    BY MaxAbsAssumption
  <2>2. y % k = y
    <3> HIDE DEF k, y
    <3> QED BY <2>1
  <2>3. QED
    <3>1. Wrapped(x) = (y % k) - (MaxAbs + 1)
      BY DEF Wrapped
    <3>2. QED BY <3>1, <2>2, MaxAbsAssumption
<1>2. QED
  BY <1>1 DEF Word

(***************************************************************************)
(* The encoded states of a machine: one offset below each domain.          *)
(***************************************************************************)
LEMMA BoxIs ==
    ASSUME NEW m, AnyMachine(m), NEW s
    PROVE  s \in box(m) <=> /\ s \in [DOMAIN m.doms -> Nat]
                            /\ \A i \in DOMAIN m.doms : s[i] < m.doms[i]
<1>1. m.doms \in Seq(Nat \ {0})
  BY DEF AnyMachine
<1>2. ToSet(m.doms) = {m.doms[i] : i \in DOMAIN m.doms}
  BY DEF ToSet
<1> DEFINE U == UNION {0 .. d - 1 : d \in ToSet(m.doms)}
<1>3. U \subseteq Nat
  OBVIOUS
<1>4. ASSUME NEW i \in DOMAIN m.doms, NEW x \in Nat, x < m.doms[i] PROVE x \in U
  <2>1. m.doms[i] \in ToSet(m.doms) /\ m.doms[i] \in Nat
    BY <1>1, <1>2
  <2>2. x \in 0 .. m.doms[i] - 1
    BY <1>4, <2>1
  <2>3. QED
    BY <2>1, <2>2
<1>5. box(m) = {t \in [DOMAIN m.doms -> U] : \A i \in DOMAIN m.doms : t[i] < m.doms[i]}
  BY DEF box
<1> HIDE DEF U
<1>6. QED
  BY <1>3, <1>4, <1>5

LEMMA EntryIsInt ==
    ASSUME NEW m, AnyMachine(m), NEW s \in box(m), NEW i
    PROVE  entry(m.mins, i, 0) \in Int /\ entry(s, i, 0) \in Int
<1>1. s \in [DOMAIN m.doms -> Nat] /\ m.mins \in Seq(Int)
  BY BoxIs DEF AnyMachine
<1>2. QED
  BY <1>1 DEF entry

(***************************************************************************)
(* evalE satisfies the equations of its recursive definition.              *)
(***************************************************************************)
ValueOf(m, s, x, f) ==
    IF x[1] = "var"
    THEN Word(m, entry(m.mins, x[2], 0) + entry(s, x[2], 0))
    ELSE IF x[1] = "lit" THEN x[2]
    ELSE IF x[1] = "add" THEN Word(m, f[x[2]] + f[x[3]])
    ELSE Word(m, f[x[2]] - f[x[3]])

LEMMA Values ==
    ASSUME NEW m, AnyMachine(m), NEW s \in box(m)
    PROVE  /\ \A e \in Expr : evalE(m, s, e) \in Int
           /\ \A e \in Expr : evalE(m, s, e) = ValueOf(m, s, e, [x \in Expr |-> evalE(m, s, x)])
<1> DEFINE Is(f) == f = [x \in Expr |-> ValueOf(m, s, x, f)]
           g == CHOOSE f : Is(f)
           h == [x \in Expr |-> height(x)]
           G == [p \in Expr \X [Expr -> Int] |-> ValueOf(m, s, p[1], p[2])]
<1>1. \A e : evalE(m, s, e) = g[e]
  BY DEF evalE, ValueOf
<1>2. ASSUME NEW x \in Expr, NEW f \in [Expr -> Int]
      PROVE  ValueOf(m, s, x, f) \in Int
  <2>1. m.go \in BOOLEAN
    BY DEF AnyMachine
  <2>2. entry(m.mins, x[2], 0) \in Int /\ entry(s, x[2], 0) \in Int
    BY EntryIsInt
  <2>3. QED
    BY <2>1, <2>2, WordIsInt, ExprAssumption DEF ValueOf
<1>3. ASSUME NEW x \in Expr, NEW f \in [Expr -> Int], NEW k \in [Expr -> Int],
             \A y \in Expr : height(y) < height(x) => f[y] = k[y]
      PROVE  ValueOf(m, s, x, f) = ValueOf(m, s, x, k)
  BY <1>3, ExprAssumption DEF ValueOf
<1>4. Unfolds(Expr, h, Int, G)
  <2>1. h \in [Expr -> Nat]
    BY ExprAssumption
  <2>2. G \in [Expr \X [Expr -> Int] -> Int]
    BY <1>2
  <2>3. \A x \in Expr : \A f, k \in [Expr -> Int] :
           (\A y \in Expr : h[y] < h[x] => f[y] = k[y]) => G[<<x, f>>] = G[<<x, k>>]
    BY <1>3
  <2> HIDE DEF h, G
  <2>4. Int # {}
    OBVIOUS
  <2> QED BY <2>1, <2>2, <2>3, <2>4, Zenon DEF Unfolds
<1>5. PICK f \in [Expr -> Int] : \A x \in Expr : f[x] = G[<<x, f>>]
  <2> HIDE DEF h, G
  <2> QED BY <1>4, RecursiveFunction
<1>6. Is(f)
  BY <1>5
<1>7. Is(g)
  <2> HIDE DEF Is
  <2> QED BY <1>6
<1>8. g = [x \in Expr |-> ValueOf(m, s, x, g)]
  BY <1>7
<1> HIDE DEF g
<1>9. \A x \in Expr : g[x] = f[x]
  <2>1. ASSUME NEW x \in Expr, \A y \in Expr : h[y] < h[x] => g[y] = f[y]
        PROVE  g[x] = f[x]
    <3>1. ValueOf(m, s, x, g) = ValueOf(m, s, x, f)
      BY <2>1, ExprAssumption DEF ValueOf
    <3>2. f[x] = ValueOf(m, s, x, f) /\ g[x] = ValueOf(m, s, x, g)
      BY <1>5, <1>8
    <3>3. QED
      BY <3>1, <3>2
  <2>2. h \in [Expr -> Nat]
    BY ExprAssumption
  <2> HIDE DEF h
  <2>3. AgreeUpwards(Expr, h, g, f)
    BY <2>1, <2>2 DEF AgreeUpwards
  <2>4. QED
    BY <2>3, OneSolution
<1>10. \A e \in Expr : evalE(m, s, e) = f[e]
  BY <1>1, <1>9
<1>11. \A e \in Expr : f[e] \in Int /\ f[e] = ValueOf(m, s, e, f)
  BY <1>5
<1>12. f = [x \in Expr |-> evalE(m, s, x)]
  BY <1>5, <1>10
<1>13. QED
  BY <1>10, <1>11, <1>12

(***************************************************************************)
(* evalP satisfies the equations of its recursive definition.              *)
(***************************************************************************)
TruthOf(m, s, q, f) ==
    IF q[1] \in {"le", "lt", "eq"}
    THEN compare(q[1], evalE(m, s, q[2]), evalE(m, s, q[3]))
    ELSE IF q[1] = "and" THEN \A i \in DOMAIN q[2] : f[q[2][i]]
    ELSE IF q[1] = "or" THEN \E i \in DOMAIN q[2] : f[q[2][i]]
    ELSE ~ f[q[2]]

LEMMA Truths ==
    ASSUME NEW m, AnyMachine(m), NEW s \in box(m)
    PROVE  /\ \A p \in Pred : evalP(m, s, p) \in BOOLEAN
           /\ \A p \in Pred : evalP(m, s, p) = TruthOf(m, s, p, [x \in Pred |-> evalP(m, s, x)])
<1> DEFINE Is(f) == f = [x \in Pred |-> TruthOf(m, s, x, f)]
           g == CHOOSE f : Is(f)
           h == [x \in Pred |-> height(x)]
           G == [p \in Pred \X [Pred -> BOOLEAN] |-> TruthOf(m, s, p[1], p[2])]
<1>1. \A p : evalP(m, s, p) = g[p]
  BY DEF evalP, TruthOf
<1>2. ASSUME NEW x \in Pred, NEW f \in [Pred -> BOOLEAN]
      PROVE  TruthOf(m, s, x, f) \in BOOLEAN
  <2>1. CASE x[1] = "le"
    BY <2>1 DEF TruthOf, compare
  <2>2. CASE x[1] = "lt"
    BY <2>2 DEF TruthOf, compare
  <2>3. CASE x[1] = "eq"
    BY <2>3 DEF TruthOf, compare
  <2>4. CASE x[1] = "and"
    BY <2>4 DEF TruthOf
  <2>5. CASE x[1] = "or"
    BY <2>5 DEF TruthOf
  <2>6. CASE x[1] = "not"
    BY <2>6 DEF TruthOf
  <2>7. QED
    BY <2>1, <2>2, <2>3, <2>4, <2>5, <2>6, PredAssumption
<1>3. ASSUME NEW x \in Pred, NEW f, NEW k,
             \A y \in Pred : height(y) < height(x) => f[y] = k[y]
      PROVE  TruthOf(m, s, x, f) = TruthOf(m, s, x, k)
  BY <1>3, PredAssumption DEF TruthOf
<1>4. Unfolds(Pred, h, BOOLEAN, G)
  <2>1. h \in [Pred -> Nat]
    BY PredAssumption
  <2>2. G \in [Pred \X [Pred -> BOOLEAN] -> BOOLEAN]
    BY <1>2
  <2>3. \A x \in Pred : \A f, k \in [Pred -> BOOLEAN] :
           (\A y \in Pred : h[y] < h[x] => f[y] = k[y]) => G[<<x, f>>] = G[<<x, k>>]
    BY <1>3
  <2>4. BOOLEAN # {}
    OBVIOUS
  <2> HIDE DEF h, G
  <2> QED BY <2>1, <2>2, <2>3, <2>4, Zenon DEF Unfolds
<1>5. PICK f \in [Pred -> BOOLEAN] : \A x \in Pred : f[x] = G[<<x, f>>]
  <2> HIDE DEF h, G
  <2> QED BY <1>4, RecursiveFunction
<1>6. Is(f)
  BY <1>5
<1>7. Is(g)
  <2> HIDE DEF Is
  <2> QED BY <1>6
<1> HIDE DEF g
<1>8. \A x \in Pred : g[x] = f[x]
  <2>1. ASSUME NEW x \in Pred, \A y \in Pred : h[y] < h[x] => g[y] = f[y]
        PROVE  g[x] = f[x]
    <3>1. TruthOf(m, s, x, g) = TruthOf(m, s, x, f)
      BY <2>1, <1>3
    <3>2. f[x] = TruthOf(m, s, x, f) /\ g[x] = TruthOf(m, s, x, g)
      BY <1>5, <1>7
    <3>3. QED
      BY <3>1, <3>2
  <2>2. h \in [Pred -> Nat]
    BY PredAssumption
  <2> HIDE DEF h
  <2>3. \A x \in Pred : (\A y \in Pred : h[y] < h[x] => g[y] = f[y]) => g[x] = f[x]
    BY <2>1
  <2>4. AgreeUpwards(Pred, h, g, f)
    BY <2>2, <2>3 DEF AgreeUpwards
  <2>5. QED
    BY <2>4, OneSolution
<1>9. \A p \in Pred : evalP(m, s, p) = f[p]
  BY <1>1, <1>8
<1>10. \A p \in Pred : f[p] \in BOOLEAN /\ f[p] = TruthOf(m, s, p, f)
  BY <1>5
<1>11. f = [x \in Pred |-> evalP(m, s, x)]
  BY <1>5, <1>9
<1>12. QED
  BY <1>9, <1>10, <1>11

(***************************************************************************)
(* exprsP collects every expression that a predicate compares.             *)
(***************************************************************************)
ComparedIn(q, f) ==
    IF q[1] \in {"le", "lt", "eq"} THEN {q[2], q[3]}
    ELSE IF q[1] = "not" THEN f[q[2]]
    ELSE UNION {f[q[2][i]] : i \in DOMAIN q[2]}

LEMMA Compared ==
    /\ \A p \in Pred : exprsP(p) \in SUBSET Expr
    /\ \A p \in Pred : exprsP(p) = ComparedIn(p, [x \in Pred |-> exprsP(x)])
<1> DEFINE Is(f) == f = [x \in Pred |-> ComparedIn(x, f)]
           g == CHOOSE f : Is(f)
           h == [x \in Pred |-> height(x)]
           G == [p \in Pred \X [Pred -> SUBSET Expr] |-> ComparedIn(p[1], p[2])]
<1>1. \A p : exprsP(p) = g[p]
  BY DEF exprsP, ComparedIn
<1>2. ASSUME NEW x \in Pred, NEW f \in [Pred -> SUBSET Expr]
      PROVE  ComparedIn(x, f) \in SUBSET Expr
  BY <1>2, PredAssumption DEF ComparedIn
<1>3. ASSUME NEW x \in Pred, NEW f, NEW k,
             \A y \in Pred : height(y) < height(x) => f[y] = k[y]
      PROVE  ComparedIn(x, f) = ComparedIn(x, k)
  <2>1. CASE x[1] \in {"le", "lt", "eq"}
    BY <2>1 DEF ComparedIn
  <2>2. CASE x[1] = "not"
    BY <2>2, <1>3, PredAssumption DEF ComparedIn
  <2>3. CASE x[1] \in {"and", "or"}
    <3>1. \A i \in DOMAIN x[2] : f[x[2][i]] = k[x[2][i]]
      BY <2>3, <1>3, PredAssumption
    <3>2. {f[x[2][i]] : i \in DOMAIN x[2]} = {k[x[2][i]] : i \in DOMAIN x[2]}
      BY <3>1
    <3>3. QED
      BY <2>3, <3>2 DEF ComparedIn
  <2>4. QED
    BY <2>1, <2>2, <2>3, PredAssumption
<1>4. Unfolds(Pred, h, SUBSET Expr, G)
  <2>1. h \in [Pred -> Nat]
    BY PredAssumption
  <2>2. G \in [Pred \X [Pred -> SUBSET Expr] -> SUBSET Expr]
    BY <1>2
  <2>3. \A x \in Pred : \A f, k \in [Pred -> SUBSET Expr] :
           (\A y \in Pred : h[y] < h[x] => f[y] = k[y]) => G[<<x, f>>] = G[<<x, k>>]
    BY <1>3
  <2>4. SUBSET Expr # {}
    OBVIOUS
  <2> HIDE DEF h, G
  <2> QED BY <2>1, <2>2, <2>3, <2>4, Zenon DEF Unfolds
<1>5. PICK f \in [Pred -> SUBSET Expr] : \A x \in Pred : f[x] = G[<<x, f>>]
  <2> HIDE DEF h, G
  <2> QED BY <1>4, RecursiveFunction
<1>6. Is(f)
  BY <1>5
<1>7. Is(g)
  <2> HIDE DEF Is
  <2> QED BY <1>6
<1> HIDE DEF g
<1>8. \A x \in Pred : g[x] = f[x]
  <2>1. ASSUME NEW x \in Pred, \A y \in Pred : h[y] < h[x] => g[y] = f[y]
        PROVE  g[x] = f[x]
    <3>1. ComparedIn(x, g) = ComparedIn(x, f)
      BY <2>1, <1>3
    <3>2. f[x] = ComparedIn(x, f) /\ g[x] = ComparedIn(x, g)
      BY <1>5, <1>7
    <3>3. QED
      BY <3>1, <3>2
  <2>2. h \in [Pred -> Nat]
    BY PredAssumption
  <2> HIDE DEF h
  <2>3. \A x \in Pred : (\A y \in Pred : h[y] < h[x] => g[y] = f[y]) => g[x] = f[x]
    BY <2>1
  <2>4. AgreeUpwards(Pred, h, g, f)
    BY <2>2, <2>3 DEF AgreeUpwards
  <2>5. QED
    BY <2>4, OneSolution
<1>9. \A p \in Pred : exprsP(p) = f[p]
  BY <1>1, <1>8
<1>10. \A p \in Pred : f[p] \in SUBSET Expr /\ f[p] = ComparedIn(p, f)
  BY <1>5
<1>11. f = [x \in Pred |-> exprsP(x)]
  BY <1>5, <1>9
<1>12. QED
  BY <1>9, <1>10, <1>11

(***************************************************************************)
(* bnd satisfies the equations of its recursive definition.                *)
(***************************************************************************)
BoundOf(m, x, f) ==
    IF x[1] = "var" THEN varBound(m, x[2])
    ELSE IF x[1] = "lit" THEN Abs(x[2])
    ELSE f[x[2]] + f[x[3]]

LEMMA VarBoundType ==
    ASSUME NEW m, AnyMachine(m), NEW i
    PROVE  varBound(m, i) \in Nat
<1>1. entry(m.mins, i, 0) \in Int /\ entry(m.doms, i, 0) \in Int
  BY DEF AnyMachine, entry
<1>2. QED
  BY <1>1 DEF varBound, Larger, Abs

LEMMA Bounds ==
    ASSUME NEW m, AnyMachine(m)
    PROVE  /\ \A e \in Expr : bnd(m, e) \in Nat
           /\ \A e \in Expr : bnd(m, e) = BoundOf(m, e, [x \in Expr |-> bnd(m, x)])
<1> DEFINE Is(f) == f = [x \in Expr |-> BoundOf(m, x, f)]
           g == CHOOSE f : Is(f)
           h == [x \in Expr |-> height(x)]
           G == [p \in Expr \X [Expr -> Nat] |-> BoundOf(m, p[1], p[2])]
<1>1. \A e : bnd(m, e) = g[e]
  BY DEF bnd, BoundOf
<1>2. ASSUME NEW x \in Expr, NEW f \in [Expr -> Nat] PROVE BoundOf(m, x, f) \in Nat
  <2>1. \A i : varBound(m, i) \in Nat
    BY VarBoundType
  <2>2. QED
    BY <2>1, <1>2, ExprAssumption DEF BoundOf, Abs
<1>3. ASSUME NEW x \in Expr, NEW f, NEW k,
             \A y \in Expr : height(y) < height(x) => f[y] = k[y]
      PROVE  BoundOf(m, x, f) = BoundOf(m, x, k)
  BY <1>3, ExprAssumption DEF BoundOf
<1>4. Unfolds(Expr, h, Nat, G)
  <2>1. h \in [Expr -> Nat]
    BY ExprAssumption
  <2>2. G \in [Expr \X [Expr -> Nat] -> Nat]
    BY <1>2
  <2>3. \A x \in Expr : \A f, k \in [Expr -> Nat] :
           (\A y \in Expr : h[y] < h[x] => f[y] = k[y]) => G[<<x, f>>] = G[<<x, k>>]
    BY <1>3
  <2>4. Nat # {}
    OBVIOUS
  <2> HIDE DEF h, G
  <2> QED BY <2>1, <2>2, <2>3, <2>4, Zenon DEF Unfolds
<1>5. PICK f \in [Expr -> Nat] : \A x \in Expr : f[x] = G[<<x, f>>]
  <2> HIDE DEF h, G
  <2> QED BY <1>4, RecursiveFunction
<1>6. Is(f)
  BY <1>5
<1>7. Is(g)
  <2> HIDE DEF Is
  <2> QED BY <1>6
<1> HIDE DEF g
<1>8. \A x \in Expr : g[x] = f[x]
  <2>1. ASSUME NEW x \in Expr, \A y \in Expr : h[y] < h[x] => g[y] = f[y]
        PROVE  g[x] = f[x]
    <3>1. BoundOf(m, x, g) = BoundOf(m, x, f)
      BY <2>1, <1>3
    <3>2. f[x] = BoundOf(m, x, f) /\ g[x] = BoundOf(m, x, g)
      BY <1>5, <1>7
    <3>3. QED
      BY <3>1, <3>2
  <2>2. h \in [Expr -> Nat]
    BY ExprAssumption
  <2> HIDE DEF h
  <2>3. \A x \in Expr : (\A y \in Expr : h[y] < h[x] => g[y] = f[y]) => g[x] = f[x]
    BY <2>1
  <2>4. AgreeUpwards(Expr, h, g, f)
    BY <2>2, <2>3 DEF AgreeUpwards
  <2>5. QED
    BY <2>4, OneSolution
<1>9. \A e \in Expr : bnd(m, e) = f[e]
  BY <1>1, <1>8
<1>10. \A e \in Expr : f[e] \in Nat /\ f[e] = BoundOf(m, e, f)
  BY <1>5
<1>11. f = [x \in Expr |-> bnd(m, x)]
  BY <1>5, <1>9
<1>12. QED
  BY <1>9, <1>10, <1>11

(***************************************************************************)
(* lo and hi satisfy the equations of their recursive definition.          *)
(***************************************************************************)
EndsOf(m, x, f) ==
    IF x[1] = "var"
    THEN <<entry(m.mins, x[2], 0),
           entry(m.mins, x[2], 0) + entry(m.doms, x[2], 1) - 1>>
    ELSE IF x[1] = "lit" THEN <<x[2], x[2]>>
    ELSE IF x[1] = "add"
    THEN <<f[x[2]][1] + f[x[3]][1], f[x[2]][2] + f[x[3]][2]>>
    ELSE <<f[x[2]][1] - f[x[3]][2], f[x[2]][2] - f[x[3]][1]>>

LEMMA Ends ==
    ASSUME NEW m, AnyMachine(m)
    PROVE  /\ \A e \in Expr : ends(m, e) \in (Int \X Int)
           /\ \A e \in Expr : ends(m, e) = EndsOf(m, e, [x \in Expr |-> ends(m, x)])
<1> DEFINE Is(f) == f = [x \in Expr |-> EndsOf(m, x, f)]
           g == CHOOSE f : Is(f)
           h == [x \in Expr |-> height(x)]
           G == [p \in Expr \X [Expr -> (Int \X Int)] |-> EndsOf(m, p[1], p[2])]
<1>1. \A e : ends(m, e) = g[e]
  BY DEF ends, EndsOf
<1>2. ASSUME NEW x \in Expr, NEW f \in [Expr -> (Int \X Int)]
      PROVE  EndsOf(m, x, f) \in (Int \X Int)
  <2>1. \A i : entry(m.mins, i, 0) \in Int /\ entry(m.doms, i, 1) \in Int
    BY DEF AnyMachine, entry
  <2>2. QED
    BY <2>1, <1>2, ExprAssumption DEF EndsOf
<1>3. ASSUME NEW x \in Expr, NEW f, NEW k,
             \A y \in Expr : height(y) < height(x) => f[y] = k[y]
      PROVE  EndsOf(m, x, f) = EndsOf(m, x, k)
  BY <1>3, ExprAssumption DEF EndsOf
<1>4. Unfolds(Expr, h, (Int \X Int), G)
  <2>1. h \in [Expr -> Nat]
    BY ExprAssumption
  <2>2. G \in [Expr \X [Expr -> (Int \X Int)] -> (Int \X Int)]
    BY <1>2
  <2>3. \A x \in Expr : \A f, k \in [Expr -> (Int \X Int)] :
           (\A y \in Expr : h[y] < h[x] => f[y] = k[y]) => G[<<x, f>>] = G[<<x, k>>]
    BY <1>3
  <2>4. (Int \X Int) # {}
    BY <<0, 0>> \in Int \X Int
  <2> HIDE DEF h, G
  <2> QED BY <2>1, <2>2, <2>3, <2>4, Zenon DEF Unfolds
<1>5. PICK f \in [Expr -> (Int \X Int)] : \A x \in Expr : f[x] = G[<<x, f>>]
  <2> HIDE DEF h, G
  <2> QED BY <1>4, RecursiveFunction
<1>6. Is(f)
  BY <1>5
<1>7. Is(g)
  <2> HIDE DEF Is
  <2> QED BY <1>6
<1> HIDE DEF g
<1>8. \A x \in Expr : g[x] = f[x]
  <2>1. ASSUME NEW x \in Expr, \A y \in Expr : h[y] < h[x] => g[y] = f[y]
        PROVE  g[x] = f[x]
    <3>1. EndsOf(m, x, g) = EndsOf(m, x, f)
      BY <2>1, <1>3
    <3>2. f[x] = EndsOf(m, x, f) /\ g[x] = EndsOf(m, x, g)
      BY <1>5, <1>7
    <3>3. QED
      BY <3>1, <3>2
  <2>2. h \in [Expr -> Nat]
    BY ExprAssumption
  <2> HIDE DEF h
  <2>3. \A x \in Expr : (\A y \in Expr : h[y] < h[x] => g[y] = f[y]) => g[x] = f[x]
    BY <2>1
  <2>4. AgreeUpwards(Expr, h, g, f)
    BY <2>2, <2>3 DEF AgreeUpwards
  <2>5. QED
    BY <2>4, OneSolution
<1>9. \A e \in Expr : ends(m, e) = f[e]
  BY <1>1, <1>8
<1>10. \A e \in Expr : f[e] \in (Int \X Int) /\ f[e] = EndsOf(m, e, f)
  BY <1>5
<1>11. f = [x \in Expr |-> ends(m, x)]
  BY <1>5, <1>9
<1>12. QED
  BY <1>9, <1>10, <1>11

(***************************************************************************)
(* A set of expressions or of predicates has a member with no part in the  *)
(* set: least counterexamples take the place of structural induction.      *)
(***************************************************************************)
LEMMA Shallowest ==
    ASSUME NEW S, NEW h \in [S -> Nat], NEW T, T \subseteq S, T # {}
    PROVE  \E x \in T : \A y \in T : h[x] <= h[y]
<1> DEFINE N == {h[y] : y \in T}
<1>1. N \subseteq Nat /\ N # {}
  OBVIOUS
<1>2. PICK l \in N : \A i \in N : l <= i
  <2> HIDE DEF N
  <2> QED BY <1>1, LeastElement
<1>3. QED
  BY <1>2

LEMMA ShallowestExpr ==
    ASSUME NEW T, T \subseteq Expr, T # {}
    PROVE  \E e \in T : \A d \in Expr : height(d) < height(e) => d \notin T
<1> DEFINE h == [x \in Expr |-> height(x)]
<1>1. h \in [Expr -> Nat]
  BY ExprAssumption
<1>2. PICK e \in T : \A d \in T : h[e] <= h[d]
  <2> HIDE DEF h
  <2> QED BY <1>1, Shallowest
<1>3. \A d \in T : height(e) <= height(d) /\ height(e) \in Nat /\ height(d) \in Nat
  BY <1>2, ExprAssumption
<1>4. QED
  BY <1>3

LEMMA ShallowestPred ==
    ASSUME NEW T, T \subseteq Pred, T # {}
    PROVE  \E e \in T : \A d \in Pred : height(d) < height(e) => d \notin T
<1> DEFINE h == [x \in Pred |-> height(x)]
<1>1. h \in [Pred -> Nat]
  BY PredAssumption
<1>2. PICK e \in T : \A d \in T : h[e] <= h[d]
  <2> HIDE DEF h
  <2> QED BY <1>1, Shallowest
<1>3. \A d \in T : height(e) <= height(d) /\ height(e) \in Nat /\ height(d) \in Nat
  BY <1>2, PredAssumption
<1>4. QED
  BY <1>3

(***************************************************************************)
(* Only the arithmetic differs between the runtime and the checker.        *)
(***************************************************************************)
LEMMA GoIsMachine ==
    ASSUME NEW m, AnyMachine(m)
    PROVE  /\ AnyMachine(InGo(m))
           /\ InGo(m).go = TRUE
           /\ InGo(m).doms = m.doms /\ InGo(m).mins = m.mins
           /\ InGo(m).bools = m.bools
           /\ InGo(m).invs = m.invs /\ InGo(m).evs = m.evs
           /\ InGo(m).declared = m.declared /\ InGo(m).indep = m.indep
           /\ box(InGo(m)) = box(m)
<1>1. /\ InGo(m).go = TRUE
      /\ InGo(m).doms = m.doms /\ InGo(m).mins = m.mins
      /\ InGo(m).bools = m.bools
      /\ InGo(m).invs = m.invs /\ InGo(m).evs = m.evs
      /\ InGo(m).declared = m.declared /\ InGo(m).indep = m.indep
      /\ InGo(m) \in [go : BOOLEAN, doms : Seq(Nat \ {0}), mins : Seq(Int),
              bools : SUBSET Nat,
              invs : Seq([holds : Pred, repair : Transform]),
              evs : Seq([guard : Pred, effect : Transform]),
              declared : BOOLEAN, indep : SUBSET (Nat \X Nat)]
  BY DEF AnyMachine, InGo
<1>2. box(InGo(m)) = box(m)
  BY <1>1, Zenon DEF box
<1>3. AnyMachine(InGo(m))
  BY <1>1 DEF AnyMachine, binaryVar
<1>4. QED
  BY <1>1, <1>2, <1>3

(***************************************************************************)
(* What an expression evaluates to, is bounded by and lies between, by its *)
(* head.                                                                   *)
(***************************************************************************)
LEMMA ValueOfPart ==
    ASSUME NEW m, AnyMachine(m), NEW s \in box(m), NEW e \in Expr
    PROVE  /\ e[1] = "var" => evalE(m, s, e) = Word(m, entry(m.mins, e[2], 0) + entry(s, e[2], 0))
           /\ e[1] = "lit" => evalE(m, s, e) = e[2]
           /\ e[1] = "add" => evalE(m, s, e) = Word(m, evalE(m, s, e[2]) + evalE(m, s, e[3]))
           /\ e[1] = "sub" => evalE(m, s, e) = Word(m, evalE(m, s, e[2]) - evalE(m, s, e[3]))
<1>1. evalE(m, s, e) = ValueOf(m, s, e, [x \in Expr |-> evalE(m, s, x)])
  BY Values
<1>2. QED
  BY <1>1, ExprAssumption DEF ValueOf

LEMMA BoundOfPart ==
    ASSUME NEW m, AnyMachine(m), NEW e \in Expr
    PROVE  /\ e[1] = "var" => bnd(m, e) = varBound(m, e[2])
           /\ e[1] = "lit" => bnd(m, e) = Abs(e[2])
           /\ e[1] \in {"add", "sub"} => bnd(m, e) = bnd(m, e[2]) + bnd(m, e[3])
<1>1. bnd(m, e) = BoundOf(m, e, [x \in Expr |-> bnd(m, x)])
  BY Bounds
<1>2. QED
  BY <1>1, ExprAssumption DEF BoundOf

LEMMA EndsOfPart ==
    ASSUME NEW m, AnyMachine(m), NEW e \in Expr
    PROVE  /\ lo(m, e) \in Int /\ hi(m, e) \in Int
           /\ e[1] = "var" =>
                /\ lo(m, e) = entry(m.mins, e[2], 0)
                /\ hi(m, e) = entry(m.mins, e[2], 0) + entry(m.doms, e[2], 1) - 1
           /\ e[1] = "lit" => lo(m, e) = e[2] /\ hi(m, e) = e[2]
           /\ e[1] = "add" => /\ lo(m, e) = lo(m, e[2]) + lo(m, e[3])
                              /\ hi(m, e) = hi(m, e[2]) + hi(m, e[3])
           /\ e[1] = "sub" => /\ lo(m, e) = lo(m, e[2]) - hi(m, e[3])
                              /\ hi(m, e) = hi(m, e[2]) - lo(m, e[3])
<1>1. ends(m, e) = EndsOf(m, e, [x \in Expr |-> ends(m, x)])
  BY Ends
<1>2. ends(m, e) \in Int \X Int
  BY Ends
<1>3. QED
  BY <1>1, <1>2, ExprAssumption DEF EndsOf, lo, hi

(***************************************************************************)
(* A variable holds a value between the ends of its range, and varBound    *)
(* bounds them both.                                                       *)
(***************************************************************************)
LEMMA VarValue ==
    ASSUME NEW m, AnyMachine(m), NEW s \in box(m), NEW i
    PROVE  LET v == entry(m.mins, i, 0) + entry(s, i, 0) IN
           /\ v \in Int
           /\ entry(m.mins, i, 0) <= v
           /\ v <= entry(m.mins, i, 0) + entry(m.doms, i, 1) - 1
           /\ -varBound(m, i) <= v /\ v <= varBound(m, i)
<1>1. entry(m.mins, i, 0) \in Int /\ entry(s, i, 0) \in Int /\ varBound(m, i) \in Nat
  BY EntryIsInt, VarBoundType
<1>2. CASE i \in DOMAIN m.doms
  <2>1. /\ s[i] \in Nat /\ m.doms[i] \in Nat /\ s[i] < m.doms[i] /\ DOMAIN s = DOMAIN m.doms
    <3>1. s \in [DOMAIN m.doms -> Nat] /\ \A j \in DOMAIN m.doms : s[j] < m.doms[j]
      BY BoxIs
    <3>2. m.doms \in Seq(Nat \ {0})
      BY DEF AnyMachine
    <3>3. QED
      BY <1>2, <3>1, <3>2
  <2>2. entry(s, i, 0) = s[i] /\ entry(m.doms, i, 0) = m.doms[i] /\ entry(m.doms, i, 1) = m.doms[i]
    BY <1>2, <2>1 DEF entry
  <2>3. QED
    BY <1>1, <2>1, <2>2 DEF varBound, Larger, Abs
<1>3. CASE i \notin DOMAIN m.doms
  <2>1. DOMAIN s = DOMAIN m.doms
    BY BoxIs
  <2>2. entry(s, i, 0) = 0 /\ entry(m.doms, i, 0) = 0 /\ entry(m.doms, i, 1) = 1
    BY <1>3, <2>1 DEF entry
  <2>3. QED
    BY <1>1, <2>2 DEF varBound, Larger, Abs
<1>4. QED
  BY <1>2, <1>3

(***************************************************************************)
(* The interval analysis of the certificate is sound: a value computed     *)
(* without overflow is at most bnd in magnitude and lies between lo and    *)
(* hi, for every expression and every state (evalE_bound and               *)
(* evalE_interval of AstChecker.v).                                        *)
(***************************************************************************)
THEOREM ValueBounded ==
    ASSUME NEW m, AnyMachine(m), ~ m.go, NEW s \in box(m), NEW e \in Expr
    PROVE  /\ -bnd(m, e) <= evalE(m, s, e) /\ evalE(m, s, e) <= bnd(m, e)
           /\ lo(m, e) <= evalE(m, s, e) /\ evalE(m, s, e) <= hi(m, e)
<1> DEFINE Within(x) ==
             /\ -bnd(m, x) <= evalE(m, s, x) /\ evalE(m, s, x) <= bnd(m, x)
             /\ lo(m, x) <= evalE(m, s, x) /\ evalE(m, s, x) <= hi(m, x)
           T == {x \in Expr : ~ Within(x)}
<1>1. SUFFICES ASSUME T # {} PROVE FALSE
  OBVIOUS
<1>2. PICK x \in T : \A d \in Expr : height(d) < height(x) => d \notin T
  <2>1. T \subseteq Expr
    OBVIOUS
  <2> HIDE DEF T
  <2> QED BY <1>1, <2>1, ShallowestExpr
<1>3. \A d \in Expr : evalE(m, s, d) \in Int /\ bnd(m, d) \in Nat /\ lo(m, d) \in Int /\ hi(m, d) \in Int
  BY Values, Bounds, EndsOfPart
<1>4. \A v : Word(m, v) = v
  BY DEF Word
<1>5. CASE x[1] = "var"
  BY <1>4, <1>5, ValueOfPart, BoundOfPart, EndsOfPart, VarValue
<1>6. CASE x[1] = "lit"
  <2>1. x[2] \in Int
    BY <1>6, ExprAssumption
  <2>2. QED
    BY <1>4, <1>6, <2>1, ValueOfPart, BoundOfPart, EndsOfPart DEF Abs
<1>7. CASE x[1] \in {"add", "sub"}
  <2>1. /\ x[2] \in Expr /\ x[3] \in Expr
        /\ height(x[2]) < height(x) /\ height(x[3]) < height(x)
    BY <1>7, ExprAssumption
  <2>2. Within(x[2]) /\ Within(x[3])
    BY <1>2, <2>1
  <2>3. x \in Expr /\ bnd(m, x) = bnd(m, x[2]) + bnd(m, x[3])
    BY <1>7, <1>2, BoundOfPart DEF T
  <2> HIDE DEF T
  <2>4. CASE x[1] = "add"
    <3>1. /\ evalE(m, s, x) = evalE(m, s, x[2]) + evalE(m, s, x[3])
          /\ lo(m, x) = lo(m, x[2]) + lo(m, x[3])
          /\ hi(m, x) = hi(m, x[2]) + hi(m, x[3])
      BY <1>4, <2>4, ValueOfPart, EndsOfPart DEF T
    <3>2. Within(x)
      BY <1>3, <2>1, <2>2, <2>3, <3>1
    <3>3. QED
      BY <3>2 DEF T
  <2>5. CASE x[1] = "sub"
    <3>1. /\ evalE(m, s, x) = evalE(m, s, x[2]) - evalE(m, s, x[3])
          /\ lo(m, x) = lo(m, x[2]) - hi(m, x[3])
          /\ hi(m, x) = hi(m, x[2]) - lo(m, x[3])
      BY <1>4, <2>5, ValueOfPart, EndsOfPart DEF T
    <3>2. Within(x)
      BY <1>3, <2>1, <2>2, <2>3, <3>1
    <3>3. QED
      BY <3>2 DEF T
  <2>6. QED
    BY <1>7, <2>4, <2>5
<1>8. QED
  BY <1>2, <1>5, <1>6, <1>7, ExprAssumption

(***************************************************************************)
(* An expression whose bound fits a machine word has the same value in     *)
(* machine words (evalE_go_exact of AstChecker.v): no sum on the way to it *)
(* wraps.                                                                  *)
(***************************************************************************)
THEOREM SameValue ==
    ASSUME NEW m, AnyMachine(m), ~ m.go, NEW s \in box(m),
           NEW e \in Expr, bnd(m, e) <= MaxAbs
    PROVE  evalE(InGo(m), s, e) = evalE(m, s, e)
<1> DEFINE T == {x \in Expr : bnd(m, x) <= MaxAbs /\ evalE(InGo(m), s, x) # evalE(m, s, x)}
<1>1. SUFFICES ASSUME T # {} PROVE FALSE
  OBVIOUS
<1>2. PICK x \in T : \A d \in Expr : height(d) < height(x) => d \notin T
  <2>1. T \subseteq Expr
    OBVIOUS
  <2> HIDE DEF T
  <2> QED BY <1>1, <2>1, ShallowestExpr
<1>3. \A d \in Expr : evalE(m, s, d) \in Int /\ bnd(m, d) \in Nat
  BY Values, Bounds
<1>4. \A v : Word(m, v) = v
  BY DEF Word
<1>5. /\ AnyMachine(InGo(m)) /\ s \in box(InGo(m)) /\ InGo(m).mins = m.mins
  BY GoIsMachine
<1>6. /\ bnd(m, x) <= MaxAbs /\ evalE(m, s, x) <= bnd(m, x) /\ -bnd(m, x) <= evalE(m, s, x)
      /\ evalE(m, s, x) \in Int /\ bnd(m, x) \in Nat /\ MaxAbs \in Nat
  BY <1>3, ValueBounded, MaxAbsAssumption
<1>7. Word(InGo(m), evalE(m, s, x)) = evalE(m, s, x)
  <2>1. -MaxAbs <= evalE(m, s, x) /\ evalE(m, s, x) <= MaxAbs
    BY <1>6
  <2>2. QED
    BY <1>6, <2>1, WordIsExact
<1>8. CASE x[1] = "var"
  BY <1>4, <1>5, <1>7, <1>8, ValueOfPart
<1>9. CASE x[1] = "lit"
  BY <1>4, <1>5, <1>9, ValueOfPart
<1>10. CASE x[1] \in {"add", "sub"}
  <2>1. /\ x[2] \in Expr /\ x[3] \in Expr
        /\ height(x[2]) < height(x) /\ height(x[3]) < height(x)
    BY <1>10, ExprAssumption
  <2>2. bnd(m, x) = bnd(m, x[2]) + bnd(m, x[3])
    BY <1>10, BoundOfPart
  <2>3. bnd(m, x[2]) <= MaxAbs /\ bnd(m, x[3]) <= MaxAbs
    BY <1>3, <1>6, <2>1, <2>2
  <2>4. evalE(InGo(m), s, x[2]) = evalE(m, s, x[2]) /\ evalE(InGo(m), s, x[3]) = evalE(m, s, x[3])
    BY <1>2, <2>1, <2>3
  <2>5. QED
    BY <1>4, <1>5, <1>7, <1>10, <2>4, ValueOfPart
<1>11. QED
  BY <1>8, <1>9, <1>10, ExprAssumption

(***************************************************************************)
(* What a predicate says, by its head; and its truth is the same in        *)
(* machine words when all it compares fits (evalP_go_exact).               *)
(***************************************************************************)
LEMMA TruthOfPart ==
    ASSUME NEW m, AnyMachine(m), NEW s \in box(m), NEW p \in Pred
    PROVE  /\ p[1] = "le" => (evalP(m, s, p) <=> evalE(m, s, p[2]) <= evalE(m, s, p[3]))
           /\ p[1] = "lt" => (evalP(m, s, p) <=> evalE(m, s, p[2]) < evalE(m, s, p[3]))
           /\ p[1] = "eq" => (evalP(m, s, p) <=> evalE(m, s, p[2]) = evalE(m, s, p[3]))
           /\ p[1] = "and" => (evalP(m, s, p) <=> \A i \in DOMAIN p[2] : evalP(m, s, p[2][i]))
           /\ p[1] = "or" => (evalP(m, s, p) <=> \E i \in DOMAIN p[2] : evalP(m, s, p[2][i]))
           /\ p[1] = "not" => (evalP(m, s, p) <=> ~ evalP(m, s, p[2]))
<1>1. evalP(m, s, p) = TruthOf(m, s, p, [x \in Pred |-> evalP(m, s, x)])
  BY Truths
<1>2. QED
  BY <1>1, PredAssumption DEF TruthOf, compare

LEMMA SameTruth ==
    ASSUME NEW m, AnyMachine(m), ~ m.go, NEW s \in box(m),
           NEW p \in Pred, \A e \in exprsP(p) : bnd(m, e) <= MaxAbs
    PROVE  evalP(InGo(m), s, p) <=> evalP(m, s, p)
<1> DEFINE Bounded(q) == \A e \in exprsP(q) : bnd(m, e) <= MaxAbs
           Same(q) == evalP(InGo(m), s, q) <=> evalP(m, s, q)
           T == {q \in Pred : Bounded(q) /\ ~ Same(q)}
<1>1. SUFFICES ASSUME T # {} PROVE FALSE
  OBVIOUS
<1>2. PICK q \in T : \A d \in Pred : height(d) < height(q) => d \notin T
  <2>1. T \subseteq Pred
    OBVIOUS
  <2> HIDE DEF T
  <2> QED BY <1>1, <2>1, ShallowestPred
<1>3. /\ AnyMachine(InGo(m)) /\ s \in box(InGo(m))
  BY GoIsMachine
<1>4. exprsP(q) = ComparedIn(q, [x \in Pred |-> exprsP(x)])
  BY Compared
<1>5. CASE q[1] \in {"le", "lt", "eq"}
  <2>1. exprsP(q) = {q[2], q[3]} /\ q[2] \in Expr /\ q[3] \in Expr
    BY <1>4, <1>5, PredAssumption DEF ComparedIn
  <2>2. evalE(InGo(m), s, q[2]) = evalE(m, s, q[2]) /\ evalE(InGo(m), s, q[3]) = evalE(m, s, q[3])
    BY <2>1, SameValue
  <2>3. QED
    BY <1>3, <1>5, <2>2, TruthOfPart
<1>6. CASE q[1] = "not"
  <2>1. q[2] \in Pred /\ height(q[2]) < height(q)
    BY <1>6, PredAssumption
  <2>2. exprsP(q) = exprsP(q[2])
    BY <1>4, <1>6, <2>1 DEF ComparedIn
  <2>3. Same(q[2])
    BY <1>2, <2>1, <2>2
  <2>4. QED
    BY <1>3, <1>6, <2>3, TruthOfPart
<1>7. CASE q[1] \in {"and", "or"}
  <2>1. \A i \in DOMAIN q[2] : q[2][i] \in Pred /\ height(q[2][i]) < height(q)
    BY <1>7, PredAssumption
  <2>2. \A i \in DOMAIN q[2] : exprsP(q[2][i]) \subseteq exprsP(q)
    BY <1>4, <1>7, <2>1 DEF ComparedIn
  <2>3. \A i \in DOMAIN q[2] : Same(q[2][i])
    BY <1>2, <2>1, <2>2
  <2>4. QED
    BY <1>3, <1>7, <2>3, TruthOfPart
<1>8. QED
  BY <1>5, <1>6, <1>7, PredAssumption

(***************************************************************************)
(* A transform is a fold over the positions of its assignments, and        *)
(* MapThenFoldSet takes the largest position last: the lemmas up to        *)
(* FoldExists say that such a fold goes through the positions in order.    *)
(***************************************************************************)
LEMMA MaxOf ==
    ASSUME NEW n \in Nat, NEW S, S \subseteq 1 .. n, S # {}
    PROVE  Max(S) \in S /\ \A y \in S : Max(S) >= y
<1> DEFINE T == {n - x : x \in S}
<1>1. T \subseteq Nat /\ T # {}
  OBVIOUS
<1>2. PICK l \in T : \A i \in T : l <= i
  <2> HIDE DEF T
  <2> QED BY <1>1, LeastElement
<1>3. PICK x \in S : l = n - x
  BY <1>2
<1>4. \A y \in S : x >= y
  <2>1. ASSUME NEW y \in S PROVE x >= y
    <3>1. l <= n - y
      BY <1>2
    <3>2. QED
      BY <1>3, <3>1
  <2>2. QED
    BY <2>1
<1>5. QED
  <2>1. \E z \in S : \A y \in S : z >= y
    BY <1>4
  <2>2. QED
    BY <2>1 DEF Max

LEMMA SmallerSets ==
    ASSUME NEW n \in Nat, NEW S, S \subseteq 1 .. n
    PROVE  /\ Cardinality(S) \in Nat
           /\ \A x \in S : Cardinality(S \ {x}) < Cardinality(S)
<1>1. IsFiniteSet(S)
  <2>1. IsFiniteSet(1 .. n)
    BY FS_Interval
  <2>2. QED
    BY <2>1, FS_Subset
<1>2. Cardinality(S) \in Nat
  BY <1>1, FS_CardinalityType
<1>3. ASSUME NEW x \in S PROVE Cardinality(S \ {x}) = Cardinality(S) - 1
  BY <1>1, FS_RemoveElement
<1>4. QED
  BY <1>2, <1>3

Foldable(n, V, base, F) == n \in Nat /\ base \in V /\ F \in [(1 .. n) \X V -> V]

FoldedBy(n, V, base, F, g) ==
    \A S \in SUBSET (1 .. n) :
        /\ S = {} => g[S] = base
        /\ S # {} /\ g[S \ {Max(S)}] \in V
               => g[S] = F[<<Max(S), g[S \ {Max(S)}]>>]

LEMMA FoldReaches ==
    ASSUME NEW n, NEW V, NEW base, NEW F, Foldable(n, V, base, F),
           NEW g, FoldedBy(n, V, base, F, g)
    PROVE  /\ g[1 .. 0] = base
           /\ \A k \in 1 .. n : g[1 .. k] = F[<<k, g[1 .. k - 1]>>]
           /\ \A k \in 0 .. n : g[1 .. k] \in V
<1> USE DEF Foldable, FoldedBy
<1>1. g[1 .. 0] = base
  <2>1. 1 .. 0 = {} /\ 1 .. 0 \in SUBSET (1 .. n)
    OBVIOUS
  <2>2. QED
    BY <2>1
<1>2. ASSUME NEW k \in 1 .. n, g[1 .. k - 1] \in V
      PROVE  g[1 .. k] = F[<<k, g[1 .. k - 1]>>] /\ g[1 .. k] \in V
  <2> DEFINE S == 1 .. k
  <2>1. S \in SUBSET (1 .. n) /\ S # {} /\ k \in S
    OBVIOUS
  <2>2. Max(S) = k
    <3>1. Max(S) \in S /\ Max(S) >= k
      BY <2>1, MaxOf
    <3>2. QED
      BY <3>1
  <2>3. S \ {k} = 1 .. k - 1
    OBVIOUS
  <2> HIDE DEF S
  <2>4. g[S] = F[<<k, g[1 .. k - 1]>>]
    BY <1>2, <2>1, <2>2, <2>3
  <2>5. QED
    BY <1>2, <2>4 DEF S
<1> DEFINE T == {k \in 0 .. n : g[1 .. k] \notin V}
<1>3. T = {}
  <2>1. SUFFICES ASSUME T # {} PROVE FALSE
    OBVIOUS
  <2>2. PICK l \in T : \A i \in T : l <= i
    <3>1. T \subseteq Nat
      OBVIOUS
    <3> HIDE DEF T
    <3> QED BY <2>1, <3>1, LeastElement
  <2>3. CASE l = 0
    BY <1>1, <2>2, <2>3
  <2>4. CASE l # 0
    <3>1. l \in 1 .. n /\ l - 1 \in 0 .. n /\ l - 1 \notin T
      BY <2>2, <2>4
    <3>2. QED
      BY <1>2, <2>2, <3>1
  <2>5. QED
    BY <2>3, <2>4
<1>4. \A k \in 0 .. n : g[1 .. k] \in V
  BY <1>3
<1>5. ASSUME NEW k \in 1 .. n PROVE g[1 .. k] = F[<<k, g[1 .. k - 1]>>]
  <2>1. k - 1 \in 0 .. n
    OBVIOUS
  <2>2. QED
    BY <1>2, <1>4, <2>1
<1>6. QED
  BY <1>1, <1>4, <1>5

FoldOf(n, V, base, F, f) ==
    /\ f \in [SUBSET (1 .. n) -> V]
    /\ \A S \in SUBSET (1 .. n) :
          f[S] = IF S = {} THEN base ELSE F[<<Max(S), f[S \ {Max(S)}]>>]

LEMMA FoldExists ==
    ASSUME NEW n, NEW V, NEW base, NEW F, Foldable(n, V, base, F)
    PROVE  \E f : FoldOf(n, V, base, F, f)
<1> USE DEF Foldable
<1> DEFINE P == SUBSET (1 .. n)
           body(S, f) == IF S = {} THEN base ELSE F[<<Max(S), f[S \ {Max(S)}]>>]
           h == [S \in P |-> Cardinality(S)]
           G == [p \in P \X [P -> V] |-> body(p[1], p[2])]
<1>1. h \in [P -> Nat]
  BY SmallerSets
<1>2. \A S \in P : S # {} => Max(S) \in 1 .. n /\ S \ {Max(S)} \in P /\ h[S \ {Max(S)}] < h[S]
  BY MaxOf, SmallerSets
<1>3. ASSUME NEW S \in P, NEW f \in [P -> V] PROVE body(S, f) \in V
  <2> HIDE DEF P
  <2> QED BY <1>2
<1>4. ASSUME NEW S \in P, NEW f \in [P -> V], NEW k \in [P -> V],
             \A y \in P : h[y] < h[S] => f[y] = k[y]
      PROVE  body(S, f) = body(S, k)
  <2> HIDE DEF h, P
  <2> QED BY <1>2, <1>4
<1>5. G \in [P \X [P -> V] -> V]
  <2> HIDE DEF P, body
  <2> QED BY <1>3
<1>6. \A x \in P : \A f, g \in [P -> V] :
         (\A y \in P : h[y] < h[x] => f[y] = g[y]) => G[<<x, f>>] = G[<<x, g>>]
  <2> HIDE DEF P, h, body
  <2> QED BY <1>4
<1>7. Unfolds(P, h, V, G)
  <2> HIDE DEF P, h, G
  <2> QED BY <1>1, <1>5, <1>6, Zenon DEF Unfolds
<1>8. PICK f \in [P -> V] : \A x \in P : f[x] = G[<<x, f>>]
  <2> HIDE DEF P, h, G
  <2> QED BY <1>7, RecursiveFunction
<1>9. \A S \in P : f[S] = body(S, f)
  <2> HIDE DEF P, body
  <2> QED BY <1>8
<1>10. FoldOf(n, V, base, F, f)
  <2> HIDE DEF body
  <2> QED BY <1>9 DEF FoldOf, body
<1>11. QED
  BY <1>10

(***************************************************************************)
(* setClamped stores a value of the domain, whatever it is given.          *)
(***************************************************************************)
LEMMA StoredInside ==
    ASSUME NEW m, AnyMachine(m), NEW i \in DOMAIN m.doms, NEW v \in Int
    PROVE  Stored(m, i, v) \in Nat /\ Stored(m, i, v) < m.doms[i]
<1>1. m.doms[i] \in Nat \ {0} /\ entry(m.doms, i, 1) = m.doms[i] /\ entry(m.doms, i, 0) = m.doms[i]
  BY DEF AnyMachine, entry
<1>2. entry(m.mins, i, 0) \in Int
  BY DEF AnyMachine, entry
<1>3. i \in m.bools => m.doms[i] = 2
  BY <1>1 DEF AnyMachine, binaryVar
<1>4. QED
  BY <1>1, <1>2, <1>3 DEF Stored, Smaller, Larger

LEMMA SetStays ==
    ASSUME NEW m, AnyMachine(m), NEW i, NEW v \in Int, NEW s \in box(m)
    PROVE  setClamped(m, i, v, s) \in box(m)
<1>1. s \in [DOMAIN m.doms -> Nat] /\ \A j \in DOMAIN m.doms : s[j] < m.doms[j]
  BY BoxIs
<1>2. CASE i \in DOMAIN m.doms
  <2>1. Stored(m, i, v) \in Nat /\ Stored(m, i, v) < m.doms[i]
    BY <1>2, StoredInside
  <2> DEFINE u == [s EXCEPT ![i] = Stored(m, i, v)]
  <2>2. u \in [DOMAIN m.doms -> Nat] /\ \A j \in DOMAIN m.doms : u[j] < m.doms[j]
    BY <1>1, <1>2, <2>1
  <2> HIDE DEF u
  <2>3. u \in box(m)
    BY <2>2, BoxIs
  <2>4. QED
    BY <2>3 DEF u, setClamped
<1>3. CASE i \notin DOMAIN m.doms
  <2>1. setClamped(m, i, v, s) = s
    BY <1>1, <1>3 DEF setClamped
  <2>2. QED
    BY <2>1
<1>4. QED
  BY <1>2, <1>3

(***************************************************************************)
(* A binary variable is given a value that is not negative, so the         *)
(* runtime's comparison with zero stores what the checker stores           *)
(* (checkBuild_binary_writes_exact).                                       *)
(***************************************************************************)
LEMMA SameStored ==
    ASSUME NEW m, AnyMachine(m), ~ m.go, NEW i, NEW v \in Int,
           binaryVar(m, i) => v >= 0
    PROVE  Stored(InGo(m), i, v) = Stored(m, i, v)
<1>1. /\ InGo(m).go = TRUE /\ InGo(m).bools = m.bools
      /\ InGo(m).mins = m.mins /\ InGo(m).doms = m.doms
  BY GoIsMachine
<1>2. CASE i \in m.bools
  <2>1. binaryVar(m, i)
    BY <1>2 DEF AnyMachine
  <2>2. entry(m.mins, i, 0) = 0 /\ entry(m.doms, i, 1) = 2
    BY <2>1 DEF binaryVar, entry
  <2>3. Stored(m, i, v) = Smaller(Larger(v, 0), 1)
    BY <2>2 DEF Stored
  <2>4. Stored(InGo(m), i, v) = IF v = 0 THEN 0 ELSE 1
    BY <1>1, <1>2 DEF Stored
  <2>5. QED
    BY <2>1, <2>3, <2>4 DEF Smaller, Larger
<1>3. CASE i \notin m.bools
  BY <1>1, <1>3 DEF Stored
<1>4. QED
  BY <1>2, <1>3

(***************************************************************************)
(* A transform is its assignments one after the other, from the first.     *)
(***************************************************************************)
WriteOf(m, t, k, u) == setClamped(m, t[k][1], evalE(m, u, t[k][2]), u)

LEMMA Assigns ==
    ASSUME NEW m, AnyMachine(m), NEW t \in Transform, NEW s \in box(m)
    PROVE  \E after \in [0 .. Len(t) -> box(m)] :
              /\ after[0] = s
              /\ \A k \in 1 .. Len(t) : after[k] = WriteOf(m, t, k, after[k - 1])
              /\ applyT(m, t, s) = after[Len(t)]
<1> DEFINE n == Len(t)
           F == [p \in (1 .. n) \X box(m) |-> WriteOf(m, t, p[1], p[2])]
           body(S, f) == IF S = {} THEN s ELSE WriteOf(m, t, Max(S), f[S \ {Max(S)}])
           Is(f) == f = [S \in SUBSET (1 .. n) |-> body(S, f)]
           g == CHOOSE f : Is(f)
<1>1. n \in Nat /\ DOMAIN t = 1 .. n /\ \A k \in 1 .. n : t[k][1] \in Nat /\ t[k][2] \in Expr
  BY DEF Transform
<1>2. applyT(m, t, s) = g[1 .. n]
  <2>1. applyT(m, t, s) = (CHOOSE f : f = [S \in SUBSET DOMAIN t |-> body(S, f)])[DOMAIN t]
    BY DEF applyT, FoldLeft, MapThenFoldSet, WriteOf
  <2>2. QED
    BY <1>1, <2>1
<1>3. F \in [(1 .. n) \X box(m) -> box(m)]
  <2>1. ASSUME NEW k \in 1 .. n, NEW u \in box(m)
        PROVE  WriteOf(m, t, k, u) \in box(m)
    <3>1. evalE(m, u, t[k][2]) \in Int
      BY <1>1, Values
    <3>2. QED
      BY <3>1, SetStays DEF WriteOf
  <2> HIDE DEF n
  <2>2. QED
    BY <2>1
<1> HIDE DEF n
<1>4. PICK f : FoldOf(n, box(m), s, F, f)
  <2> HIDE DEF F
  <2>1. Foldable(n, box(m), s, F)
    BY <1>1, <1>3 DEF Foldable
  <2>2. QED
    BY <2>1, FoldExists
<1>5. \A S \in SUBSET (1 .. n) : S # {} => Max(S) \in 1 .. n /\ S \ {Max(S)} \in SUBSET (1 .. n)
  BY <1>1, MaxOf
<1>6. \A k \in 1 .. n : \A u \in box(m) : F[<<k, u>>] = WriteOf(m, t, k, u)
  OBVIOUS
<1> HIDE DEF F
<1>7. f \in [SUBSET (1 .. n) -> box(m)] /\ \A S \in SUBSET (1 .. n) : f[S] = body(S, f)
  BY <1>4, <1>5, <1>6 DEF FoldOf
<1>8. Is(f)
  <2> HIDE DEF body
  <2> QED BY <1>7
<1>9. Is(g)
  <2> HIDE DEF Is
  <2> QED BY <1>8
<1> HIDE DEF g
<1>10. \A S \in SUBSET (1 .. n) :
          /\ S = {} => g[S] = s
          /\ S # {} /\ g[S \ {Max(S)}] \in box(m)
                 => g[S] = F[<<Max(S), g[S \ {Max(S)}]>>]
  BY <1>9, <1>5, <1>6
<1>11. /\ g[1 .. 0] = s
       /\ \A k \in 1 .. n : g[1 .. k] = F[<<k, g[1 .. k - 1]>>]
       /\ \A k \in 0 .. n : g[1 .. k] \in box(m)
  <2> HIDE DEF Is
  <2>1. Foldable(n, box(m), s, F) /\ FoldedBy(n, box(m), s, F, g)
    BY <1>1, <1>3, <1>10 DEF Foldable, FoldedBy
  <2>2. QED
    BY <2>1, FoldReaches
<1> DEFINE after == [k \in 0 .. n |-> g[1 .. k]]
<1>12. after \in [0 .. n -> box(m)] /\ after[0] = s /\ after[n] = applyT(m, t, s)
  BY <1>1, <1>2, <1>11
<1>13. ASSUME NEW k \in 1 .. n PROVE after[k] = WriteOf(m, t, k, after[k - 1])
  <2>1. k \in 0 .. n /\ k - 1 \in 0 .. n
    BY <1>1
  <2>2. QED
    BY <1>6, <1>11, <2>1
<1>14. QED
  <2> HIDE DEF after
  <2> QED BY <1>12, <1>13 DEF n

(***************************************************************************)
(* No transform leaves the encoded states.                                 *)
(***************************************************************************)
LEMMA ApplyStays ==
    ASSUME NEW m, AnyMachine(m), NEW t \in Transform, NEW s \in box(m)
    PROVE  applyT(m, t, s) \in box(m)
<1>1. PICK after \in [0 .. Len(t) -> box(m)] : applyT(m, t, s) = after[Len(t)]
  BY Assigns
<1>2. Len(t) \in 0 .. Len(t)
  BY DEF Transform
<1>3. QED
  BY <1>1, <1>2

(***************************************************************************)
(* What the certificate asks of a transform, and what it buys: the         *)
(* runtime's transform is the checker's.                                   *)
(***************************************************************************)
SafeTransform(m, t) ==
    /\ t \in Transform
    /\ \A k \in 1 .. Len(t) : /\ bnd(m, t[k][2]) <= MaxAbs
                              /\ binaryVar(m, t[k][1]) => lo(m, t[k][2]) >= 0

LEMMA SameWrite ==
    ASSUME NEW m, AnyMachine(m), ~ m.go, NEW t, SafeTransform(m, t),
           NEW k \in 1 .. Len(t), NEW s \in box(m)
    PROVE  WriteOf(InGo(m), t, k, s) = WriteOf(m, t, k, s)
<1>1. t[k][1] \in Nat /\ t[k][2] \in Expr
  BY DEF SafeTransform, Transform
<1> DEFINE e == t[k][2]  i == t[k][1]
<1>2. bnd(m, e) <= MaxAbs /\ (binaryVar(m, i) => lo(m, e) >= 0)
  BY DEF SafeTransform
<1>3. e \in Expr
  BY <1>1
<1> HIDE DEF e, i
<1>4. evalE(InGo(m), s, e) = evalE(m, s, e)
  BY <1>2, <1>3, SameValue
<1>5. evalE(m, s, e) \in Int /\ lo(m, e) \in Int /\ lo(m, e) <= evalE(m, s, e)
  BY <1>3, Values, EndsOfPart, ValueBounded
<1>6. binaryVar(m, i) => evalE(m, s, e) >= 0
  BY <1>2, <1>5
<1>7. Stored(InGo(m), i, evalE(m, s, e)) = Stored(m, i, evalE(m, s, e))
  BY <1>5, <1>6, SameStored
<1>8. QED
  BY <1>4, <1>7, Zenon DEF WriteOf, setClamped, e, i

LEMMA SameApply ==
    ASSUME NEW m, AnyMachine(m), ~ m.go, NEW t, SafeTransform(m, t), NEW s \in box(m)
    PROVE  applyT(InGo(m), t, s) = applyT(m, t, s)
<1> DEFINE n == Len(t)
<1>1. t \in Transform /\ n \in Nat
  BY DEF SafeTransform, Transform
<1>2. AnyMachine(InGo(m)) /\ box(InGo(m)) = box(m)
  BY GoIsMachine
<1>3. PICK f \in [0 .. n -> box(m)] :
         /\ f[0] = s
         /\ \A k \in 1 .. n : f[k] = WriteOf(m, t, k, f[k - 1])
         /\ applyT(m, t, s) = f[n]
  BY <1>1, Assigns
<1>4. PICK g \in [0 .. n -> box(m)] :
         /\ g[0] = s
         /\ \A k \in 1 .. n : g[k] = WriteOf(InGo(m), t, k, g[k - 1])
         /\ applyT(InGo(m), t, s) = g[n]
  <2>1. s \in box(InGo(m))
    BY <1>2
  <2>2. QED
    BY <1>1, <1>2, <2>1, Assigns
<1> DEFINE T == {k \in 0 .. n : f[k] # g[k]}
<1> HIDE DEF n
<1>5. T = {}
  <2>1. SUFFICES ASSUME T # {} PROVE FALSE
    OBVIOUS
  <2>2. PICK l \in T : \A i \in T : l <= i
    <3>1. T \subseteq Nat
      OBVIOUS
    <3> HIDE DEF T
    <3> QED BY <2>1, <3>1, LeastElement
  <2>3. l # 0
    BY <1>3, <1>4, <2>2
  <2>4. l \in 1 .. n /\ l - 1 \in 0 .. n /\ l - 1 \notin T
    BY <1>1, <2>2, <2>3
  <2>5. f[l - 1] = g[l - 1] /\ f[l - 1] \in box(m)
    BY <2>4
  <2>6. WriteOf(InGo(m), t, l, f[l - 1]) = WriteOf(m, t, l, f[l - 1])
    <3>1. l \in 1 .. Len(t)
      BY <2>4 DEF n
    <3>2. QED
      BY <2>5, <3>1, SameWrite
  <2>7. f[l] = g[l]
    BY <1>3, <1>4, <2>4, <2>5, <2>6
  <2>8. QED
    BY <2>2, <2>7
<1>6. QED
  BY <1>1, <1>3, <1>4, <1>5

(***************************************************************************)
(* The first violated invariant is an invariant of the machine.            *)
(***************************************************************************)
LEMMA MinOf ==
    ASSUME NEW S, S \subseteq Nat, S # {}
    PROVE  Min(S) \in S /\ \A y \in S : Min(S) <= y
BY LeastElement DEF Min

LEMMA Parts ==
    ASSUME NEW m, AnyMachine(m)
    PROVE  /\ \A i \in DOMAIN m.invs : m.invs[i].holds \in Pred /\ m.invs[i].repair \in Transform
           /\ \A i \in DOMAIN m.evs : m.evs[i].guard \in Pred /\ m.evs[i].effect \in Transform
           /\ DOMAIN m.invs \subseteq Nat /\ DOMAIN m.evs \subseteq Nat
<1>1. /\ m.invs \in Seq([holds : Pred, repair : Transform])
      /\ m.evs \in Seq([guard : Pred, effect : Transform])
  BY DEF AnyMachine
<1>2. /\ DOMAIN m.invs = 1 .. Len(m.invs) /\ Len(m.invs) \in Nat
      /\ DOMAIN m.evs = 1 .. Len(m.evs) /\ Len(m.evs) \in Nat
  BY <1>1
<1>3. \A i \in DOMAIN m.invs : m.invs[i] \in [holds : Pred, repair : Transform]
  BY <1>1, <1>2, ElementOfSeq
<1>4. \A i \in DOMAIN m.evs : m.evs[i] \in [guard : Pred, effect : Transform]
  BY <1>1, <1>2, ElementOfSeq
<1>5. QED
  BY <1>2, <1>3, <1>4

LEMMA FirstViolated ==
    ASSUME NEW m, AnyMachine(m), NEW s \in box(m), ~ allValid(m, s)
    PROVE  Min(Violated(m, s)) \in DOMAIN m.invs
<1>1. Violated(m, s) # {} /\ Violated(m, s) \subseteq DOMAIN m.invs
  BY DEF allValid, Violated
<1>2. Violated(m, s) \subseteq Nat
  BY <1>1, Parts
<1>3. QED
  BY <1>1, <1>2, MinOf

(***************************************************************************)
(* Neither a repair nor an event leaves the encoded states.                *)
(***************************************************************************)
LEMMA RepairStays ==
    ASSUME NEW m, AnyMachine(m), NEW s \in box(m)
    PROVE  repair1(m, s) \in box(m)
<1>1. CASE allValid(m, s)
  BY <1>1 DEF repair1
<1>2. CASE ~ allValid(m, s)
  <2>1. m.invs[Min(Violated(m, s))].repair \in Transform
    BY <1>2, FirstViolated, Parts
  <2>2. QED
    BY <1>2, <2>1, ApplyStays DEF repair1
<1>3. QED
  BY <1>1, <1>2

LEMMA FireStays ==
    ASSUME NEW m, AnyMachine(m), NEW e \in Events(m), NEW s \in box(m)
    PROVE  Fire(m, e, s) \in box(m)
<1>1. m.evs[e].effect \in Transform
  BY Parts DEF Events
<1>2. QED
  BY <1>1, ApplyStays DEF Fire

(***************************************************************************)
(* What the two arithmetic checks of the certificate ask of a machine:     *)
(* every bound fits a machine word, and no binary variable is assigned a   *)
(* value that may be negative.                                             *)
(***************************************************************************)
Sound(m) == AnyMachine(m) /\ ~ m.go /\ bounded(m) /\ signSafe(m)

LEMMA SoundParts ==
    ASSUME NEW m, Sound(m)
    PROVE  /\ \A i \in DOMAIN m.invs : /\ \A e \in exprsP(m.invs[i].holds) : bnd(m, e) <= MaxAbs
                                       /\ SafeTransform(m, m.invs[i].repair)
           /\ \A i \in DOMAIN m.evs : /\ \A e \in exprsP(m.evs[i].guard) : bnd(m, e) <= MaxAbs
                                      /\ SafeTransform(m, m.evs[i].effect)
<1>1. ASSUME NEW t \in transformsM(m), t \in Transform PROVE SafeTransform(m, t)
  <2>1. ASSUME NEW k \in 1 .. Len(t)
        PROVE  bnd(m, t[k][2]) <= MaxAbs /\ (binaryVar(m, t[k][1]) => lo(m, t[k][2]) >= 0)
    <3>1. t[k] \in ToSet(t)
      BY <1>1, <2>1 DEF ToSet, Transform
    <3>2. t[k][2] \in exprsM(m)
      <4>1. t[k][2] \in {a[2] : a \in ToSet(t)}
        BY <3>1
      <4> DEFINE A == UNION {exprsP(p) : p \in predsM(m)}
                 B == UNION {{a[2] : a \in ToSet(u)} : u \in transformsM(m)}
      <4>2. t[k][2] \in B
        BY <4>1
      <4>3. exprsM(m) = A \cup B
        BY DEF exprsM
      <4> HIDE DEF A, B
      <4>4. QED
        BY <4>2, <4>3
    <3>3. QED
      BY <3>1, <3>2 DEF Sound, bounded, signSafe
  <2>2. QED
    BY <1>1, <2>1 DEF SafeTransform
<1>2. ASSUME NEW p \in predsM(m), NEW e \in exprsP(p) PROVE bnd(m, e) <= MaxAbs
  <2>1. e \in exprsM(m)
    BY <1>2 DEF exprsM
  <2>2. QED
    BY <2>1 DEF Sound, bounded
<1>3. ASSUME NEW i \in DOMAIN m.invs
      PROVE  m.invs[i].holds \in predsM(m) /\ m.invs[i].repair \in transformsM(m)
  <2>1. m.invs[i] \in ToSet(m.invs)
    BY DEF ToSet
  <2>2. QED
    BY <2>1 DEF predsM, transformsM
<1>4. ASSUME NEW i \in DOMAIN m.evs
      PROVE  m.evs[i].guard \in predsM(m) /\ m.evs[i].effect \in transformsM(m)
  <2>1. m.evs[i] \in ToSet(m.evs)
    BY DEF ToSet
  <2>2. QED
    BY <2>1 DEF predsM, transformsM
<1>5. QED
  BY <1>1, <1>2, <1>3, <1>4, Parts DEF Sound

(***************************************************************************)
(* Then the runtime sees the violations that the checker sees, makes its   *)
(* repair, and fires its events.                                           *)
(***************************************************************************)
LEMMA SameViolated ==
    ASSUME NEW m, Sound(m), NEW s \in box(m)
    PROVE  Violated(InGo(m), s) = Violated(m, s)
<1>1. InGo(m).invs = m.invs
  BY GoIsMachine DEF Sound
<1>2. \A i \in DOMAIN m.invs : evalP(InGo(m), s, m.invs[i].holds) <=> evalP(m, s, m.invs[i].holds)
  BY SoundParts, Parts, SameTruth DEF Sound
<1>3. QED
  BY <1>1, <1>2 DEF Violated

LEMMA SameValid ==
    ASSUME NEW m, Sound(m), NEW s \in box(m)
    PROVE  allValid(InGo(m), s) <=> allValid(m, s)
BY SameViolated DEF allValid

LEMMA SameRepair ==
    ASSUME NEW m, Sound(m), NEW s \in box(m)
    PROVE  repair1(InGo(m), s) = repair1(m, s)
<1>1. InGo(m).invs = m.invs
  BY GoIsMachine DEF Sound
<1>2. CASE allValid(m, s)
  BY <1>2, SameValid DEF repair1
<1>3. CASE ~ allValid(m, s)
  <2> DEFINE t == m.invs[Min(Violated(m, s))].repair
  <2>1. SafeTransform(m, t)
    BY <1>3, FirstViolated, SoundParts DEF Sound
  <2>2. repair1(m, s) = applyT(m, t, s) /\ repair1(InGo(m), s) = applyT(InGo(m), t, s)
    BY <1>1, <1>3, SameValid, SameViolated DEF repair1
  <2> HIDE DEF t
  <2>3. QED
    BY <2>1, <2>2, SameApply DEF Sound
<1>4. QED
  BY <1>2, <1>3

LEMMA SameFire ==
    ASSUME NEW m, Sound(m), NEW e \in Events(m), NEW s \in box(m)
    PROVE  Fire(InGo(m), e, s) = Fire(m, e, s)
<1>1. InGo(m).evs = m.evs
  BY GoIsMachine DEF Sound
<1>2. evalP(InGo(m), s, m.evs[e].guard) <=> evalP(m, s, m.evs[e].guard)
  BY SoundParts, Parts, SameTruth DEF Sound, Events
<1>3. applyT(InGo(m), m.evs[e].effect, s) = applyT(m, m.evs[e].effect, s)
  BY SoundParts, SameApply DEF Sound, Events
<1>4. QED
  BY <1>1, <1>2, <1>3 DEF Fire

(***************************************************************************)
(* The checker normalizes with as much fuel as there are encoded states.   *)
(***************************************************************************)
LEMMA FuelIsPositive ==
    ASSUME NEW m, AnyMachine(m)
    PROVE  fuelOf(m) \in Nat \ {0}
<1> DEFINE n == Len(m.doms)
           V == Nat \ {0}
           F == [p \in (1 .. n) \X V |-> p[2] * m.doms[p[1]]]
           body(S, f) == IF S = {} THEN 1 ELSE f[S \ {Max(S)}] * m.doms[Max(S)]
           Is(f) == f = [S \in SUBSET (1 .. n) |-> body(S, f)]
           g == CHOOSE f : Is(f)
<1>1. n \in Nat /\ DOMAIN m.doms = 1 .. n /\ \A k \in 1 .. n : m.doms[k] \in V
  BY DEF AnyMachine
<1>2. fuelOf(m) = g[1 .. n]
  <2>1. fuelOf(m) = (CHOOSE f : f = [S \in SUBSET DOMAIN m.doms |-> body(S, f)])[DOMAIN m.doms]
    BY DEF fuelOf, FoldLeft, MapThenFoldSet
  <2>2. QED
    BY <1>1, <2>1
<1>3. F \in [(1 .. n) \X V -> V]
  <2>1. ASSUME NEW k \in 1 .. n, NEW u \in V PROVE u * m.doms[k] \in V
    <3>1. \A x, y \in V : x * y \in V
      OBVIOUS
    <3>2. QED
      BY <1>1, <3>1
  <2> HIDE DEF n, V
  <2>2. QED
    BY <2>1
<1> HIDE DEF n
<1>4. Foldable(n, V, 1, F)
  BY <1>1, <1>3 DEF Foldable
<1>5. PICK f : FoldOf(n, V, 1, F, f)
  <2> HIDE DEF F, V
  <2> QED BY <1>4, FoldExists
<1>6. \A S \in SUBSET (1 .. n) : S # {} => Max(S) \in 1 .. n /\ S \ {Max(S)} \in SUBSET (1 .. n)
  BY <1>1, MaxOf
<1>7. \A k \in 1 .. n : \A u \in V : F[<<k, u>>] = u * m.doms[k]
  OBVIOUS
<1> HIDE DEF F, V
<1>8. f \in [SUBSET (1 .. n) -> V] /\ \A S \in SUBSET (1 .. n) : f[S] = body(S, f)
  BY <1>5, <1>6, <1>7 DEF FoldOf
<1>9. Is(f)
  <2> HIDE DEF body
  <2> QED BY <1>8
<1>10. Is(g)
  <2> HIDE DEF Is
  <2> QED BY <1>9
<1> HIDE DEF g
<1>11. FoldedBy(n, V, 1, F, g)
  BY <1>10, <1>6, <1>7 DEF FoldedBy
<1>12. \A k \in 0 .. n : g[1 .. k] \in V
  <2> HIDE DEF Is
  <2> QED BY <1>4, <1>11, FoldReaches
<1>13. QED
  BY <1>1, <1>2, <1>12 DEF V

(***************************************************************************)
(* normalizeWith repairs until it is valid or the fuel is spent.           *)
(***************************************************************************)
EndedOf(m, x, f) ==
    IF x[1] = 0 \/ allValid(m, x[2]) THEN x[2]
    ELSE f[<<x[1] - 1, repair1(m, x[2])>>]

(***************************************************************************)
(* A repair spends a unit of fuel.                                         *)
(***************************************************************************)
LEMMA PairsBelow ==
    ASSUME NEW m, AnyMachine(m), NEW fuel \in Nat,
           NEW x \in (0 .. fuel) \X box(m), x[1] # 0
    PROVE  /\ <<x[1] - 1, repair1(m, x[2])>> \in (0 .. fuel) \X box(m)
           /\ x[1] - 1 < x[1] /\ x[1] \in Nat
<1>1. repair1(m, x[2]) \in box(m)
  BY RepairStays
<1>2. QED
  BY <1>1

(***************************************************************************)
(* The recursive function over fuel and states that computes it exists.    *)
(***************************************************************************)
LEMMA Ended ==
    ASSUME NEW m, AnyMachine(m), NEW fuel \in Nat
    PROVE  \E f : /\ f \in [(0 .. fuel) \X box(m) -> box(m)]
                  /\ \A x \in (0 .. fuel) \X box(m) : f[x] = EndedOf(m, x, f)
                  /\ \A u \in box(m) : normalizeWith(m, fuel, u) = f[<<fuel, u>>]
<1> DEFINE S == (0 .. fuel) \X box(m)
           V == box(m)
           Is(f) == f = [x \in S |-> EndedOf(m, x, f)]
           g == CHOOSE f : Is(f)
           h == [x \in S |-> x[1]]
           G == [p \in S \X [S -> V] |-> EndedOf(m, p[1], p[2])]
<1>1. \A u : normalizeWith(m, fuel, u) = g[<<fuel, u>>]
  BY DEF normalizeWith, EndedOf
<1>2. \A x \in S : x[1] # 0 => /\ <<x[1] - 1, repair1(m, x[2])>> \in S
                              /\ h[<<x[1] - 1, repair1(m, x[2])>>] < h[x]
  BY PairsBelow
<1>3. \A x \in S : x[2] \in V /\ x[1] \in 0 .. fuel
  OBVIOUS
<1>4. h \in [S -> Nat]
  BY <1>3
<1>5. CASE V = {}
  <2>1. S = {}
    BY <1>5
  <2> DEFINE f == [x \in S |-> EndedOf(m, x, x)]
  <2>2. f \in [S -> V] /\ \A x \in S : f[x] = EndedOf(m, x, f)
    BY <2>1
  <2>3. QED
    BY <1>5, <2>1, <2>2
<1>6. CASE V # {}
  <2>1. ASSUME NEW x \in S, NEW f \in [S -> V] PROVE EndedOf(m, x, f) \in V
    <3> HIDE DEF S, V, h
    <3> QED BY <1>2, <1>3 DEF EndedOf
  <2>2. ASSUME NEW x \in S, NEW f, NEW k, \A y \in S : h[y] < h[x] => f[y] = k[y]
        PROVE  EndedOf(m, x, f) = EndedOf(m, x, k)
    <3> HIDE DEF S, V, h
    <3> QED BY <1>2, <2>2 DEF EndedOf
  <2>3. G \in [S \X [S -> V] -> V]
    <3> HIDE DEF S, V
    <3> QED BY <2>1
  <2>4. \A x \in S : \A f, k \in [S -> V] :
           (\A y \in S : h[y] < h[x] => f[y] = k[y]) => G[<<x, f>>] = G[<<x, k>>]
    <3> HIDE DEF S, V, h
    <3> QED BY <2>2
  <2>5. Unfolds(S, h, V, G)
    <3> HIDE DEF S, V, h, G
    <3> QED BY <1>4, <1>6, <2>3, <2>4, Zenon DEF Unfolds
  <2>6. PICK f \in [S -> V] : \A x \in S : f[x] = G[<<x, f>>]
    <3> HIDE DEF S, V, h, G
    <3> QED BY <2>5, RecursiveFunction
  <2>7. \A x \in S : f[x] = EndedOf(m, x, f)
    <3> HIDE DEF S, V
    <3> QED BY <2>6
  <2>8. Is(f)
    <3> HIDE DEF S, V
    <3> QED BY <2>6, <2>7
  <2>9. Is(g)
    <3> HIDE DEF Is
    <3> QED BY <2>8
  <2>10. \A x \in S : g[x] = EndedOf(m, x, g)
    <3> HIDE DEF S, V, g
    <3> QED BY <2>9
  <2> HIDE DEF g, Is
  <2>11. AgreeUpwards(S, h, g, f)
    <3> HIDE DEF S, V, h
    <3> QED BY <1>4, <2>2, <2>7, <2>10 DEF AgreeUpwards
  <2>12. \A x \in S : g[x] = f[x]
    <3> HIDE DEF S, V, h
    <3> QED BY <2>11, OneSolution
  <2>13. \A u \in box(m) : normalizeWith(m, fuel, u) = f[<<fuel, u>>]
    BY <1>1, <2>12
  <2>14. QED
    BY <2>6, <2>7, <2>13
<1>7. QED
  BY <1>5, <1>6

(***************************************************************************)
(* normalizeWith, one repair at a time.                                    *)
(***************************************************************************)
LEMMA NormalizeStep ==
    ASSUME NEW m, AnyMachine(m), NEW n \in Nat, NEW u \in box(m)
    PROVE  /\ normalizeWith(m, n, u) \in box(m)
           /\ n = 0 \/ allValid(m, u) => normalizeWith(m, n, u) = u
           /\ n # 0 /\ ~ allValid(m, u)
                 => normalizeWith(m, n, u) = normalizeWith(m, n - 1, repair1(m, u))
<1>1. PICK f : /\ f \in [(0 .. n) \X box(m) -> box(m)]
               /\ \A x \in (0 .. n) \X box(m) : f[x] = EndedOf(m, x, f)
               /\ \A v \in box(m) : normalizeWith(m, n, v) = f[<<n, v>>]
  BY Ended
<1>2. normalizeWith(m, n, u) \in box(m)
  <2>1. <<n, u>> \in (0 .. n) \X box(m)
    OBVIOUS
  <2>2. QED
    BY <1>1, <2>1
<1>3. f[<<n, u>>] = EndedOf(m, <<n, u>>, f)
  BY <1>1
<1>4. n = 0 \/ allValid(m, u) => normalizeWith(m, n, u) = u
  BY <1>1, <1>3 DEF EndedOf
<1>5. ASSUME n # 0, ~ allValid(m, u)
      PROVE  normalizeWith(m, n, u) = normalizeWith(m, n - 1, repair1(m, u))
  <2> DEFINE S == (0 .. n - 1) \X box(m)
             h == [x \in S |-> x[1]]
  <2>1. n - 1 \in Nat /\ repair1(m, u) \in box(m)
    BY <1>5, RepairStays
  <2>2. PICK g : /\ g \in [S -> box(m)]
                 /\ \A x \in S : g[x] = EndedOf(m, x, g)
                 /\ \A v \in box(m) : normalizeWith(m, n - 1, v) = g[<<n - 1, v>>]
    BY <2>1, Ended
  <2>3. h \in [S -> Nat]
    OBVIOUS
  <2>4. \A x \in S : x[1] # 0 => /\ <<x[1] - 1, repair1(m, x[2])>> \in S
                                /\ h[<<x[1] - 1, repair1(m, x[2])>>] < h[x]
    BY <2>1, PairsBelow
  <2>5. \A x \in S : x \in (0 .. n) \X box(m)
    OBVIOUS
  <2>6. \A x \in S : f[x] = EndedOf(m, x, f)
    BY <1>1, <2>5
  <2>7. AgreeUpwards(S, h, f, g)
    <3>1. ASSUME NEW x \in S, \A y \in S : h[y] < h[x] => f[y] = g[y]
          PROVE  EndedOf(m, x, f) = EndedOf(m, x, g)
      <4> HIDE DEF S, h
      <4> QED BY <2>4, <3>1 DEF EndedOf
    <3>2. \A x \in S : f[x] = EndedOf(m, x, f) /\ g[x] = EndedOf(m, x, g)
      BY <2>2, <2>6
    <3> HIDE DEF S, h
    <3>3. QED
      BY <2>3, <3>1, <3>2 DEF AgreeUpwards
  <2>8. \A x \in S : f[x] = g[x]
    <3> HIDE DEF S, h
    <3> QED BY <2>7, OneSolution
  <2>9. f[<<n, u>>] = f[<<n - 1, repair1(m, u)>>]
    BY <1>3, <1>5 DEF EndedOf
  <2>10. <<n - 1, repair1(m, u)>> \in S
    BY <2>1
  <2>11. QED
    BY <1>1, <2>1, <2>2, <2>8, <2>9, <2>10
<1>6. QED
  BY <1>2, <1>4, <1>5

(***************************************************************************)
(* The runtime normalizes as the checker does.                             *)
(***************************************************************************)
LEMMA SameNormalize ==
    ASSUME NEW m, Sound(m), NEW n \in Nat, NEW u \in box(m)
    PROVE  normalizeWith(InGo(m), n, u) = normalizeWith(m, n, u)
<1> DEFINE Same(k) == \A v \in box(m) : normalizeWith(InGo(m), k, v) = normalizeWith(m, k, v)
           T == {k \in Nat : ~ Same(k)}
<1>1. AnyMachine(m) /\ AnyMachine(InGo(m)) /\ box(InGo(m)) = box(m)
  BY GoIsMachine DEF Sound
<1>2. SUFFICES ASSUME T # {} PROVE FALSE
  BY <1>2
<1>3. PICK l \in T : \A i \in T : l <= i
  <2>1. T \subseteq Nat
    OBVIOUS
  <2> HIDE DEF T
  <2> QED BY <1>2, <2>1, LeastElement
<1>4. PICK v \in box(m) : normalizeWith(InGo(m), l, v) # normalizeWith(m, l, v)
  BY <1>3
<1>5. l \in Nat
  BY <1>3
<1>6. CASE l = 0 \/ allValid(m, v)
  BY <1>1, <1>4, <1>5, <1>6, NormalizeStep, SameValid
<1>7. CASE l # 0 /\ ~ allValid(m, v)
  <2>1. l - 1 \in Nat /\ l - 1 \notin T
    BY <1>3, <1>5, <1>7
  <2>2. Same(l - 1)
    BY <2>1
  <2>3. repair1(m, v) \in box(m) /\ repair1(InGo(m), v) = repair1(m, v)
    BY <1>1, RepairStays, SameRepair
  <2>4. normalizeWith(m, l, v) = normalizeWith(m, l - 1, repair1(m, v))
    BY <1>1, <1>5, <1>7, NormalizeStep
  <2>5. normalizeWith(InGo(m), l, v) = normalizeWith(InGo(m), l - 1, repair1(m, v))
    BY <1>1, <1>5, <1>7, <2>3, NormalizeStep, SameValid
  <2>6. QED
    BY <1>4, <2>2, <2>3, <2>4, <2>5
<1>8. QED
  BY <1>6, <1>7

LEMMA NormalizeStays ==
    ASSUME NEW m, AnyMachine(m), NEW u \in box(m)
    PROVE  normalize(m, u) \in box(m)
BY NormalizeStep, FuelIsPositive DEF normalize

LEMMA SameNormalForm ==
    ASSUME NEW m, Sound(m), NEW u \in box(m)
    PROVE  normalize(InGo(m), u) = normalize(m, u)
<1>1. fuelOf(InGo(m)) = fuelOf(m)
  BY GoIsMachine, Zenon DEF Sound, fuelOf
<1>2. fuelOf(m) \in Nat
  BY FuelIsPositive DEF Sound
<1>3. QED
  BY <1>1, <1>2, SameNormalize DEF normalize

(***************************************************************************)
(* The runtime is the model: an event followed by the repair of what it    *)
(* broke leads to the same state in machine words as in the integers of    *)
(* the checker, for every machine that passes bounded and signSafe         *)
(* (checkBuild_no_overflow and checkBuild_binary_writes_exact of           *)
(* AstChecker.v).                                                          *)
(***************************************************************************)
THEOREM SameStep ==
    ASSUME NEW m, Sound(m), NEW e \in Events(m), NEW s \in box(m)
    PROVE  stepI(InGo(m), e, s) = stepI(m, e, s) /\ stepI(m, e, s) \in box(m)
<1>1. Fire(m, e, s) \in box(m) /\ Fire(InGo(m), e, s) = Fire(m, e, s)
  BY FireStays, SameFire DEF Sound
<1>2. QED
  BY <1>1, SameNormalForm, NormalizeStays DEF stepI, Sound

-----------------------------------------------------------------------------
(***************************************************************************)
(* Part 4: certified registries.                                           *)
(***************************************************************************)

(***************************************************************************)
(* The machines of the registry, and those that the certificate accepts.   *)
(***************************************************************************)
LEMMA RuntimeIs ==
    ASSUME NEW k \in DOMAIN Machines
    PROVE  AnyMachine(Machines[k]) /\ ~ Machines[k].go /\ Runtime(k) = InGo(Machines[k])
<1>1. IsMachine(Machines[k])
  BY MachinesAssumption
<1> DEFINE m == Machines[k]
<1>2. AnyMachine(m) /\ ~ m.go
  <2> HIDE DEF m
  <2> QED BY <1>1 DEF IsMachine, AnyMachine, m
<1>3. QED
  BY <1>2 DEF Runtime, InGo

LEMMA CertifiedIs ==
    ASSUME NEW k \in Certified
    PROVE  /\ k \in DOMAIN Machines /\ Sound(Machines[k])
           /\ WFC(Machines[k]) /\ ccA(Machines[k])
BY RuntimeIs DEF Certified, checkBuild, Sound

(***************************************************************************)
(* A state of the registry is a machine and an encoded state of it; so is  *)
(* an event. An event belongs to one machine.                              *)
(***************************************************************************)
LEMMA StatesAre ==
    ASSUME NEW K, NEW s
    PROVE  s \in StatesOf(K) <=> \E k \in K : \E t \in box(Machines[k]) : s = <<k, t>>
BY DEF StatesOf

LEMMA EventsAre ==
    ASSUME NEW K, NEW e
    PROVE  e \in EventsOf(K) <=> \E k \in K : \E a \in Events(Machines[k]) : e = <<k, a>>
BY DEF EventsOf

LEMMA ZeroInBox ==
    ASSUME NEW m, AnyMachine(m)
    PROVE  zeroV(m) \in box(m)
<1>1. \A i \in DOMAIN m.doms : m.doms[i] \in Nat \ {0}
  BY DEF AnyMachine
<1>2. zeroV(m) \in [DOMAIN m.doms -> Nat] /\ \A i \in DOMAIN m.doms : zeroV(m)[i] < m.doms[i]
  BY <1>1 DEF zeroV
<1>3. QED
  BY <1>2, BoxIs

(***************************************************************************)
(* The domain on which the certificate checks commutation: all that        *)
(* repairs lead to, in a machine that always becomes valid.                *)
(***************************************************************************)
LEMMA DomainIs ==
    ASSUME NEW k \in Certified, NEW t \in box(Machines[k])
    PROVE  <<k, t>> \in DomainOf(Certified) <=> inDA(Machines[k], t)
<1>1. Runtime(k) = InGo(Machines[k]) /\ Sound(Machines[k])
  BY CertifiedIs, RuntimeIs
<1>2. m_valid(<<k, t>>) <=> allValid(Machines[k], t)
  BY <1>1, SameValid DEF m_valid
<1>3. <<k, t>> \in StatesOf(Certified)
  BY StatesAre
<1>4. <<k, t>>[1] = k /\ <<k, t>>[2] = t
  OBVIOUS
<1>5. QED
  BY <1>2, <1>3, <1>4 DEF DomainOf, inDA

LEMMA DomainPick ==
    ASSUME NEW s \in DomainOf(Certified)
    PROVE  \E k \in Certified : \E t \in box(Machines[k]) : s = <<k, t>> /\ inDA(Machines[k], t)
<1>1. s \in StatesOf(Certified)
  BY DEF DomainOf
<1>2. PICK k \in Certified : \E t \in box(Machines[k]) : s = <<k, t>>
  BY <1>1, StatesAre
<1>3. PICK t \in box(Machines[k]) : s = <<k, t>>
  BY <1>2
<1>4. inDA(Machines[k], t)
  BY <1>3, DomainIs
<1>5. QED
  BY <1>3, <1>4

(***************************************************************************)
(* Repair leads into the domain.                                           *)
(***************************************************************************)
LEMMA StepIsValid ==
    ASSUME NEW k \in Certified, NEW t \in box(Machines[k])
    PROVE  /\ normalize(Machines[k], t) \in box(Machines[k])
           /\ inDA(Machines[k], normalize(Machines[k], t))
<1>1. AnyMachine(Machines[k]) /\ WFC(Machines[k])
  BY CertifiedIs DEF Sound
<1>2. QED
  BY <1>1, NormalizeStays DEF WFC, inDA

(***************************************************************************)
(* The runtime's repair is the repair of the checker.                      *)
(***************************************************************************)
LEMMA NormalFormIs ==
    ASSUME NEW k \in Certified, NEW t \in box(Machines[k])
    PROVE  m_rho_star(<<k, t>>) = <<k, normalize(Machines[k], t)>>
<1>1. k \in DOMAIN Machines /\ Sound(Machines[k]) /\ Runtime(k) = InGo(Machines[k])
  BY CertifiedIs, RuntimeIs
<1>2. NormalForms[k][t] = normalize(Runtime(k), t)
  BY <1>1 DEF NormalForms
<1>3. m_rho_star(<<k, t>>) = <<k, NormalForms[k][t]>>
  BY DEF m_rho_star
<1>4. QED
  BY <1>1, <1>2, <1>3, SameNormalForm

(***************************************************************************)
(* The governed step of the runtime is the step of the checker.            *)
(***************************************************************************)
LEMMA GovernedIs ==
    ASSUME NEW k \in Certified, NEW t \in box(Machines[k]), NEW a \in Events(Machines[k])
    PROVE  m_rho_star(m_apply(<<k, a>>, <<k, t>>)) = <<k, stepI(Machines[k], a, t)>>
<1>1. k \in DOMAIN Machines /\ Sound(Machines[k]) /\ Runtime(k) = InGo(Machines[k])
  BY CertifiedIs, RuntimeIs
<1>2. m_apply(<<k, a>>, <<k, t>>) = <<k, Fire(Machines[k], a, t)>>
  BY <1>1, SameFire DEF m_apply
<1>3. Fire(Machines[k], a, t) \in box(Machines[k])
  BY <1>1, FireStays DEF Sound
<1>4. QED
  BY <1>2, <1>3, NormalFormIs DEF stepI

(***************************************************************************)
(* A governed step stays in the domain, on the same machine.               *)
(***************************************************************************)
LEMMA GovernedStays ==
    ASSUME NEW s \in DomainOf(Certified), NEW e \in EventsOf(Certified)
    PROVE  /\ m_rho_star(m_apply(e, s)) \in DomainOf(Certified)
           /\ m_rho_star(m_apply(e, s))[1] = s[1]
<1>1. PICK k \in Certified : \E t \in box(Machines[k]) : s = <<k, t>> /\ inDA(Machines[k], t)
  BY DomainPick
<1>2. PICK t \in box(Machines[k]) : s = <<k, t>>
  BY <1>1
<1>3. PICK l \in Certified : \E a \in Events(Machines[l]) : e = <<l, a>>
  BY EventsAre
<1>4. PICK a \in Events(Machines[l]) : e = <<l, a>>
  BY <1>3
<1>5. CASE l = k
  <2>1. m_rho_star(m_apply(e, s)) = <<k, stepI(Machines[k], a, t)>>
    BY <1>2, <1>4, <1>5, GovernedIs
  <2>2. Fire(Machines[k], a, t) \in box(Machines[k])
    BY <1>4, <1>5, CertifiedIs, FireStays DEF Sound
  <2>3. stepI(Machines[k], a, t) \in box(Machines[k]) /\ inDA(Machines[k], stepI(Machines[k], a, t))
    BY <2>2, StepIsValid DEF stepI
  <2>4. QED
    BY <1>2, <2>1, <2>3, DomainIs
<1>6. CASE l # k
  <2>1. m_apply(e, s) = s
    BY <1>2, <1>4, <1>6 DEF m_apply
  <2>2. m_rho_star(m_apply(e, s)) = <<k, normalize(Machines[k], t)>>
    BY <1>2, <2>1, NormalFormIs
  <2>3. QED
    BY <1>2, <2>2, StepIsValid, DomainIs
<1>7. QED
  BY <1>5, <1>6

(***************************************************************************)
(* A buffer holds events of one machine, and one that has given up an      *)
(* event is a shorter buffer.                                              *)
(***************************************************************************)
LEMMA BuffersAre ==
    ASSUME NEW K, NEW B
    PROVE  B \in BuffersOf(K) <=>
              \E k \in K : \E n \in 0 .. Depth : B \in [1 .. n -> {k} \X Events(Machines[k])]
BY DEF BuffersOf, Buffers

LEMMA BufferIsSeq ==
    ASSUME NEW K, NEW B \in BuffersOf(K)
    PROVE  /\ B \in Seq(EventsOf(K)) /\ Len(B) \in 0 .. Depth
           /\ \A e \in ToSet(B) : e \in EventsOf(K)
<1>1. PICK k \in K : \E n \in 0 .. Depth : B \in [1 .. n -> {k} \X Events(Machines[k])]
  BY BuffersAre
<1>2. PICK n \in 0 .. Depth : B \in [1 .. n -> {k} \X Events(Machines[k])]
  BY <1>1
<1>3. {k} \X Events(Machines[k]) \subseteq EventsOf(K)
  BY DEF EventsOf
<1>4. B \in [1 .. n -> EventsOf(K)] /\ n \in Nat
  BY <1>2, <1>3, DepthAssumption
<1>5. B \in Seq(EventsOf(K)) /\ Len(B) = n /\ DOMAIN B = 1 .. n
  BY <1>4
<1>6. QED
  BY <1>4, <1>5 DEF ToSet

LEMMA RestIsBuffer ==
    ASSUME NEW K, Event = EventsOf(K), NEW B \in BuffersOf(K), NEW e \in ToSet(B)
    PROVE  remove1(e, B) \in BuffersOf(K)
<1>1. PICK k \in K : \E n \in 0 .. Depth : B \in [1 .. n -> {k} \X Events(Machines[k])]
  BY BuffersAre
<1>2. PICK n \in 0 .. Depth : B \in [1 .. n -> {k} \X Events(Machines[k])]
  BY <1>1
<1> DEFINE D == remove1(e, B)
<1>3. B \in Seq(Event)
  BY BufferIsSeq
<1>4. PICK i : IsRemoval(B, e, i, D)
  BY <1>3, RemovesFirst
<1>5. n \in Nat /\ Len(B) = n /\ n \in 1 .. Depth /\ n - 1 \in 0 .. Depth
  <2>1. Len(B) = n /\ n \in Nat
    BY <1>2, DepthAssumption
  <2>2. i \in 1 .. Len(B)
    BY <1>4 DEF IsRemoval
  <2>3. QED
    BY <1>2, <2>1, <2>2, DepthAssumption
<1>6. D \in Seq(Event) /\ Len(D) = n - 1 /\ DOMAIN D = 1 .. n - 1
  BY <1>4, <1>5 DEF IsRemoval
<1>7. \A j \in 1 .. n - 1 : D[j] \in {k} \X Events(Machines[k])
  <2>1. ASSUME NEW j \in 1 .. n - 1 PROVE D[j] \in {k} \X Events(Machines[k])
    <3>1. D[j] = B[j] \/ D[j] = B[j + 1]
      BY <1>4, <1>5 DEF IsRemoval
    <3>2. j \in 1 .. n /\ j + 1 \in 1 .. n
      BY <1>5
    <3>3. QED
      BY <1>2, <3>1, <3>2
  <2>2. QED
    BY <2>1
<1>8. D \in [1 .. n - 1 -> {k} \X Events(Machines[k])]
  <2> HIDE DEF D
  <2> QED BY <1>6, <1>7
<1>9. QED
  <2> HIDE DEF D
  <2>1. D \in BuffersOf(K)
    BY <1>5, <1>8, BuffersAre
  <2>2. QED
    BY <2>1 DEF D

(***************************************************************************)
(* An event that could be delivered still can after another was: what      *)
(* stood before it still is independent of it.                             *)
(***************************************************************************)
LEMMA StillEnabled ==
    ASSUME NEW B \in Seq(Event), NEW e1 \in ToSet(B), NEW e2, e1 # e2,
           NEW s, NEW t, t[1] = s[1], m_enabled(e2, s, B)
    PROVE  e2 \in ToSet(remove1(e1, B)) /\ m_enabled(e2, t, remove1(e1, B))
<1> DEFINE D == remove1(e1, B)
           ind(x) == indepA(Machines[s[1]], x[2], e2[2])
<1>1. PICK k : IsRemoval(B, e1, k, D)
  BY RemovesFirst
<1>2. PICK i \in DOMAIN B : B[i] = e2 /\ \A j \in 1 .. i - 1 : B[j] # e2 /\ ind(B[j])
  BY DEF m_enabled
<1>3. /\ DOMAIN B = 1 .. Len(B) /\ Len(B) \in Nat /\ i \in 1 .. Len(B)
      /\ k \in 1 .. Len(B) /\ k # i
      /\ D \in Seq(Event) /\ Len(D) = Len(B) - 1 /\ DOMAIN D = 1 .. Len(B) - 1
      /\ \A j \in 1 .. Len(B) - 1 : D[j] = IF j < k THEN B[j] ELSE B[j + 1]
  BY <1>1, <1>2 DEF IsRemoval
<1> HIDE DEF D, ind
<1>4. \E l \in DOMAIN D : D[l] = e2 /\ \A j \in 1 .. l - 1 : D[j] # e2 /\ ind(D[j])
  <2>1. CASE i < k
    <3>1. i \in DOMAIN D /\ D[i] = e2
      BY <1>2, <1>3, <2>1
    <3>2. \A j \in 1 .. i - 1 : D[j] = B[j]
      BY <1>3, <2>1
    <3>3. QED
      BY <1>2, <3>1, <3>2
  <2>2. CASE k < i
    <3>1. i - 1 \in DOMAIN D /\ D[i - 1] = e2
      BY <1>2, <1>3, <2>2
    <3>2. ASSUME NEW j \in 1 .. (i - 1) - 1 PROVE D[j] # e2 /\ ind(D[j])
      <4>1. /\ j \in 1 .. Len(B) - 1 /\ j \in 1 .. i - 1 /\ j + 1 \in 1 .. i - 1
        BY <1>3
      <4>2. QED
        BY <1>2, <1>3, <4>1
    <3>3. QED
      BY <3>1, <3>2
  <2>3. k \in Int /\ i \in Int /\ k # i
    BY <1>3
  <2>4. i < k \/ k < i
    BY <2>3
  <2>5. QED
    BY <2>1, <2>2, <2>4
<1>5. e2 \in ToSet(D)
  BY <1>4 DEF ToSet
<1>6. m_enabled(e2, t, D)
  <2>1. e2[1] = t[1]
    BY DEF m_enabled
  <2>2. QED
    BY <1>4, <2>1 DEF m_enabled, ind
<1>7. QED
  BY <1>5, <1>6 DEF D

(***************************************************************************)
(* Independence does not depend on the order; two events that can be       *)
(* delivered are independent.                                              *)
(***************************************************************************)
LEMMA IndependentSym ==
    ASSUME NEW m, NEW a, NEW b, indepA(m, a, b)
    PROVE  indepA(m, b, a)
BY DEF indepA

LEMMA CoEnabled ==
    ASSUME NEW B \in Seq(Event), NEW s, NEW e1, NEW e2, e1 # e2,
           m_enabled(e1, s, B), m_enabled(e2, s, B)
    PROVE  /\ e1[1] = s[1] /\ e2[1] = s[1]
           /\ indepA(Machines[s[1]], e1[2], e2[2])
<1> DEFINE ind(x, y) == indepA(Machines[s[1]], x[2], y[2])
<1>1. PICK i \in DOMAIN B : B[i] = e1 /\ \A j \in 1 .. i - 1 : ind(B[j], e1)
  BY DEF m_enabled
<1>2. PICK k \in DOMAIN B : B[k] = e2 /\ \A j \in 1 .. k - 1 : ind(B[j], e2)
  BY DEF m_enabled
<1>3. i \in Nat /\ k \in Nat /\ i # k /\ 1 <= i /\ 1 <= k
  BY <1>1, <1>2
<1>4. ind(e1, e2) \/ ind(e2, e1)
  <2> HIDE DEF ind
  <2>1. CASE i < k
    <3>1. i \in 1 .. k - 1
      BY <1>3, <2>1
    <3>2. QED
      BY <1>1, <1>2, <3>1
  <2>2. CASE k < i
    <3>1. k \in 1 .. i - 1
      BY <1>3, <2>2
    <3>2. QED
      BY <1>1, <1>2, <3>1
  <2>3. QED
    BY <1>3, <2>1, <2>2
<1>5. indepA(Machines[s[1]], e1[2], e2[2])
  BY <1>4, IndependentSym
<1>6. QED
  BY <1>5 DEF m_enabled

(***************************************************************************)
(* Two independent events of a certified machine commute on its domain.    *)
(***************************************************************************)
THEOREM GovernedCommute ==
    ASSUME NEW s \in DomainOf(Certified),
           NEW e1 \in EventsOf(Certified), NEW e2 \in EventsOf(Certified),
           e1[1] = s[1], e2[1] = s[1], indepA(Machines[s[1]], e1[2], e2[2])
    PROVE  m_rho_star(m_apply(e2, m_rho_star(m_apply(e1, s))))
               = m_rho_star(m_apply(e1, m_rho_star(m_apply(e2, s))))
<1>1. PICK k \in Certified : \E t \in box(Machines[k]) : s = <<k, t>> /\ inDA(Machines[k], t)
  BY DomainPick
<1>2. PICK t \in box(Machines[k]) : s = <<k, t>> /\ inDA(Machines[k], t)
  BY <1>1
<1>3. \E a \in Events(Machines[k]) : e1 = <<k, a>>
  BY <1>2, EventsAre
<1>4. \E b \in Events(Machines[k]) : e2 = <<k, b>>
  BY <1>2, EventsAre
<1>5. PICK a \in Events(Machines[k]) : e1 = <<k, a>>
  BY <1>3
<1>6. PICK b \in Events(Machines[k]) : e2 = <<k, b>>
  BY <1>4
<1> DEFINE m == Machines[k]
<1>7. stepI(m, a, t) \in box(m) /\ stepI(m, b, t) \in box(m)
  BY CertifiedIs, SameStep
<1>8. /\ m_rho_star(m_apply(e1, s)) = <<k, stepI(m, a, t)>>
      /\ m_rho_star(m_apply(e2, s)) = <<k, stepI(m, b, t)>>
  BY <1>2, <1>5, <1>6, GovernedIs
<1>9. /\ m_rho_star(m_apply(e2, <<k, stepI(m, a, t)>>)) = <<k, stepI(m, b, stepI(m, a, t))>>
      /\ m_rho_star(m_apply(e1, <<k, stepI(m, b, t)>>)) = <<k, stepI(m, a, stepI(m, b, t))>>
  BY <1>5, <1>6, <1>7, GovernedIs
<1>10. indepA(m, a, b)
  BY <1>2, <1>5, <1>6
<1>11. stepI(m, a, stepI(m, b, t)) = stepI(m, b, stepI(m, a, t))
  BY <1>2, <1>10, CertifiedIs DEF ccA
<1>12. QED
  BY <1>8, <1>9, <1>11

(***************************************************************************)
(* depthF counts the repairs that normalizeWith makes.                     *)
(***************************************************************************)
StepsOf(m, x, f) ==
    IF x[1] = 0 \/ allValid(m, x[2]) THEN 0
    ELSE 1 + f[<<x[1] - 1, repair1(m, x[2])>>]

LEMMA Stepped ==
    ASSUME NEW m, AnyMachine(m), NEW fuel \in Nat
    PROVE  \E f : /\ f \in [(0 .. fuel) \X box(m) -> Nat]
                  /\ \A x \in (0 .. fuel) \X box(m) : f[x] = StepsOf(m, x, f)
                  /\ \A u \in box(m) : depthF(m, fuel, u) = f[<<fuel, u>>]
<1> DEFINE S == (0 .. fuel) \X box(m)
           Is(f) == f = [x \in S |-> StepsOf(m, x, f)]
           g == CHOOSE f : Is(f)
           h == [x \in S |-> x[1]]
           G == [p \in S \X [S -> Nat] |-> StepsOf(m, p[1], p[2])]
<1>1. \A u : depthF(m, fuel, u) = g[<<fuel, u>>]
  BY DEF depthF, StepsOf
<1>2. \A x \in S : x[1] # 0 => /\ <<x[1] - 1, repair1(m, x[2])>> \in S
                              /\ h[<<x[1] - 1, repair1(m, x[2])>>] < h[x]
  BY PairsBelow
<1>3. \A x \in S : x[1] \in 0 .. fuel
  OBVIOUS
<1>4. h \in [S -> Nat]
  BY <1>3
<1>5. ASSUME NEW x \in S, NEW f \in [S -> Nat] PROVE StepsOf(m, x, f) \in Nat
  <2> HIDE DEF S, h
  <2> QED BY <1>2, <1>3 DEF StepsOf
<1>6. ASSUME NEW x \in S, NEW f, NEW k, \A y \in S : h[y] < h[x] => f[y] = k[y]
      PROVE  StepsOf(m, x, f) = StepsOf(m, x, k)
  <2> HIDE DEF S, h
  <2> QED BY <1>2, <1>6 DEF StepsOf
<1>7. G \in [S \X [S -> Nat] -> Nat]
  <2> HIDE DEF S
  <2> QED BY <1>5
<1>8. \A x \in S : \A f, k \in [S -> Nat] :
         (\A y \in S : h[y] < h[x] => f[y] = k[y]) => G[<<x, f>>] = G[<<x, k>>]
  <2> HIDE DEF S, h
  <2> QED BY <1>6
<1>9. Unfolds(S, h, Nat, G)
  <2>1. Nat # {}
    OBVIOUS
  <2> HIDE DEF S, h, G
  <2> QED BY <1>4, <1>7, <1>8, <2>1, Zenon DEF Unfolds
<1>10. PICK f \in [S -> Nat] : \A x \in S : f[x] = G[<<x, f>>]
  <2> HIDE DEF S, h, G
  <2> QED BY <1>9, RecursiveFunction
<1>11. \A x \in S : f[x] = StepsOf(m, x, f)
  <2> HIDE DEF S
  <2> QED BY <1>10
<1>12. Is(f)
  <2> HIDE DEF S
  <2> QED BY <1>10, <1>11
<1>13. Is(g)
  <2> HIDE DEF Is
  <2> QED BY <1>12
<1>14. \A x \in S : g[x] = StepsOf(m, x, g)
  <2> HIDE DEF S, g
  <2> QED BY <1>13
<1> HIDE DEF g, Is
<1>15. AgreeUpwards(S, h, g, f)
  <2> HIDE DEF S, h
  <2> QED BY <1>4, <1>6, <1>11, <1>14 DEF AgreeUpwards
<1>16. \A x \in S : g[x] = f[x]
  <2> HIDE DEF S, h
  <2> QED BY <1>15, OneSolution
<1>17. \A u \in box(m) : depthF(m, fuel, u) = f[<<fuel, u>>]
  BY <1>1, <1>16
<1>18. QED
  BY <1>10, <1>11, <1>17

LEMMA DepthStep ==
    ASSUME NEW m, AnyMachine(m), NEW n \in Nat, NEW u \in box(m)
    PROVE  /\ depthF(m, n, u) \in Nat
           /\ n = 0 \/ allValid(m, u) => depthF(m, n, u) = 0
           /\ n # 0 /\ ~ allValid(m, u)
                 => depthF(m, n, u) = 1 + depthF(m, n - 1, repair1(m, u))
<1>1. PICK f : /\ f \in [(0 .. n) \X box(m) -> Nat]
               /\ \A x \in (0 .. n) \X box(m) : f[x] = StepsOf(m, x, f)
               /\ \A v \in box(m) : depthF(m, n, v) = f[<<n, v>>]
  BY Stepped
<1>2. depthF(m, n, u) \in Nat
  <2>1. <<n, u>> \in (0 .. n) \X box(m)
    OBVIOUS
  <2>2. QED
    BY <1>1, <2>1
<1>3. f[<<n, u>>] = StepsOf(m, <<n, u>>, f)
  BY <1>1
<1>4. n = 0 \/ allValid(m, u) => depthF(m, n, u) = 0
  BY <1>1, <1>3 DEF StepsOf
<1>5. ASSUME n # 0, ~ allValid(m, u)
      PROVE  depthF(m, n, u) = 1 + depthF(m, n - 1, repair1(m, u))
  <2> DEFINE S == (0 .. n - 1) \X box(m)
             h == [x \in S |-> x[1]]
  <2>1. n - 1 \in Nat /\ repair1(m, u) \in box(m)
    BY <1>5, RepairStays
  <2>2. PICK g : /\ g \in [S -> Nat]
                 /\ \A x \in S : g[x] = StepsOf(m, x, g)
                 /\ \A v \in box(m) : depthF(m, n - 1, v) = g[<<n - 1, v>>]
    BY <2>1, Stepped
  <2>3. h \in [S -> Nat]
    OBVIOUS
  <2>4. \A x \in S : x[1] # 0 => /\ <<x[1] - 1, repair1(m, x[2])>> \in S
                                /\ h[<<x[1] - 1, repair1(m, x[2])>>] < h[x]
    BY <2>1, PairsBelow
  <2>5. \A x \in S : x \in (0 .. n) \X box(m)
    OBVIOUS
  <2>6. \A x \in S : f[x] = StepsOf(m, x, f)
    BY <1>1, <2>5
  <2>7. AgreeUpwards(S, h, f, g)
    <3>1. ASSUME NEW x \in S, \A y \in S : h[y] < h[x] => f[y] = g[y]
          PROVE  StepsOf(m, x, f) = StepsOf(m, x, g)
      <4> HIDE DEF S, h
      <4> QED BY <2>4, <3>1 DEF StepsOf
    <3>2. \A x \in S : f[x] = StepsOf(m, x, f) /\ g[x] = StepsOf(m, x, g)
      BY <2>2, <2>6
    <3> HIDE DEF S, h
    <3>3. QED
      BY <2>3, <3>1, <3>2 DEF AgreeUpwards
  <2>8. \A x \in S : f[x] = g[x]
    <3> HIDE DEF S, h
    <3> QED BY <2>7, OneSolution
  <2>9. f[<<n, u>>] = 1 + f[<<n - 1, repair1(m, u)>>]
    BY <1>3, <1>5 DEF StepsOf
  <2>10. <<n - 1, repair1(m, u)>> \in S
    BY <2>1
  <2>11. QED
    BY <1>1, <2>1, <2>2, <2>8, <2>9, <2>10
<1>6. QED
  BY <1>2, <1>4, <1>5

(***************************************************************************)
(* More fuel changes nothing once there is enough.                         *)
(***************************************************************************)
LEMMA EnoughFuel ==
    ASSUME NEW m, AnyMachine(m), NEW n \in Nat, NEW u \in box(m),
           allValid(m, normalizeWith(m, n, u))
    PROVE  /\ normalizeWith(m, n + 1, u) = normalizeWith(m, n, u)
           /\ depthF(m, n + 1, u) = depthF(m, n, u)
<1> DEFINE Stable(k, v) == /\ normalizeWith(m, k + 1, v) = normalizeWith(m, k, v)
                           /\ depthF(m, k + 1, v) = depthF(m, k, v)
           T == {k \in Nat : \E v \in box(m) :
                    allValid(m, normalizeWith(m, k, v)) /\ ~ Stable(k, v)}
<1>1. SUFFICES ASSUME T # {} PROVE FALSE
  OBVIOUS
<1>2. PICK l \in T : \A i \in T : l <= i
  <2>1. T \subseteq Nat
    OBVIOUS
  <2> HIDE DEF T
  <2> QED BY <1>1, <2>1, LeastElement
<1>3. PICK v \in box(m) : allValid(m, normalizeWith(m, l, v)) /\ ~ Stable(l, v)
  BY <1>2
<1>4. l \in Nat /\ l + 1 \in Nat /\ l + 1 # 0 /\ (l + 1) - 1 = l
  BY <1>2
<1>5. CASE allValid(m, v)
  <2>1. normalizeWith(m, l + 1, v) = v /\ normalizeWith(m, l, v) = v
    BY <1>4, <1>5, NormalizeStep
  <2>2. depthF(m, l + 1, v) = 0 /\ depthF(m, l, v) = 0
    BY <1>4, <1>5, DepthStep
  <2>3. QED
    BY <1>3, <2>1, <2>2
<1>6. CASE ~ allValid(m, v)
  <2>1. l # 0
    BY <1>3, <1>4, <1>6, NormalizeStep
  <2> DEFINE w == repair1(m, v)
  <2>2. w \in box(m)
    BY RepairStays
  <2>3. l - 1 \in Nat /\ l - 1 \notin T /\ (l - 1) + 1 = l
    BY <1>2, <1>4, <2>1
  <2>4. normalizeWith(m, l, v) = normalizeWith(m, l - 1, w)
    BY <1>4, <1>6, <2>1, NormalizeStep
  <2>5. normalizeWith(m, l + 1, v) = normalizeWith(m, l, w)
    BY <1>4, <1>6, NormalizeStep
  <2>6. depthF(m, l, v) = 1 + depthF(m, l - 1, w)
    BY <1>4, <1>6, <2>1, DepthStep
  <2>7. depthF(m, l + 1, v) = 1 + depthF(m, l, w)
    BY <1>4, <1>6, DepthStep
  <2> HIDE DEF w
  <2>8. Stable(l - 1, w)
    BY <1>3, <2>2, <2>3, <2>4
  <2>9. Stable(l, v)
    BY <2>3, <2>4, <2>5, <2>6, <2>7, <2>8
  <2>10. QED
    BY <1>3, <2>9
<1>7. QED
  BY <1>5, <1>6

(***************************************************************************)
(* A machine that always becomes valid is nearer to it after a repair:     *)
(* phiA falls, and the normal form stays what it was (the well-founded     *)
(* measure that compensation needs, for every machine that passes WFC).    *)
(***************************************************************************)
THEOREM RepairIsNearer ==
    ASSUME NEW m, AnyMachine(m), WFC(m), NEW s \in box(m)
    PROVE  /\ phiA(m, s) \in Nat
           /\ allValid(m, s) => normalize(m, s) = s
           /\ ~ allValid(m, s) => /\ phiA(m, repair1(m, s)) < phiA(m, s)
                                 /\ normalize(m, s) = normalize(m, repair1(m, s))
<1> DEFINE n == fuelOf(m)
           u == repair1(m, s)
<1>1. n \in Nat /\ n # 0 /\ n - 1 \in Nat /\ (n - 1) + 1 = n
  BY FuelIsPositive
<1>2. u \in box(m)
  BY RepairStays
<1> HIDE DEF n
<1>3. phiA(m, s) \in Nat
  BY <1>1, DepthStep DEF phiA, n
<1>4. allValid(m, s) => normalize(m, s) = s
  BY <1>1, NormalizeStep DEF normalize, n
<1>5. ASSUME ~ allValid(m, s)
      PROVE  phiA(m, u) < phiA(m, s) /\ normalize(m, s) = normalize(m, u)
  <2>1. /\ normalizeWith(m, n, s) = normalizeWith(m, n - 1, u)
        /\ depthF(m, n, s) = 1 + depthF(m, n - 1, u)
    BY <1>1, <1>5, NormalizeStep, DepthStep
  <2>2. allValid(m, normalizeWith(m, n - 1, u))
    BY <2>1 DEF WFC, normalize, n
  <2>3. /\ normalizeWith(m, n, u) = normalizeWith(m, n - 1, u)
        /\ depthF(m, n, u) = depthF(m, n - 1, u)
    <3> HIDE DEF u
    <3> QED BY <1>1, <1>2, <2>2, EnoughFuel
  <2>4. depthF(m, n - 1, u) \in Nat
    <3> HIDE DEF u
    <3> QED BY <1>1, <1>2, DepthStep
  <2>5. QED
    BY <2>1, <2>3, <2>4 DEF phiA, normalize, n
<1>6. QED
  BY <1>3, <1>4, <1>5

(***************************************************************************)
(* The machines whose repair may be interleaved with their events.         *)
(***************************************************************************)
LEMMA InterleavableIs ==
    ASSUME NEW k \in Interleavable
    PROVE  /\ k \in Certified /\ k \in DOMAIN Machines /\ Sound(Machines[k])
           /\ WFC(Machines[k]) /\ cc1(Machines[k]) /\ absorbs(Machines[k])
           /\ Runtime(k) = InGo(Machines[k])
           /\ AnyMachine(Runtime(k)) /\ box(Runtime(k)) = box(Machines[k])
<1>1. k \in Certified /\ cc1(Machines[k]) /\ absorbs(Machines[k])
  BY DEF Interleavable
<1>2. k \in DOMAIN Machines /\ Sound(Machines[k]) /\ WFC(Machines[k])
  BY <1>1, CertifiedIs
<1>3. Runtime(k) = InGo(Machines[k]) /\ AnyMachine(Machines[k])
  BY <1>2, RuntimeIs
<1>4. AnyMachine(Runtime(k)) /\ box(Runtime(k)) = box(Machines[k])
  BY <1>3, GoIsMachine
<1>5. QED
  BY <1>1, <1>2, <1>3, <1>4

(***************************************************************************)
(* The runtime's machine always becomes valid, as the checker's does.      *)
(***************************************************************************)
LEMMA RuntimeBecomesValid ==
    ASSUME NEW k \in Interleavable
    PROVE  WFC(Runtime(k))
<1>1. ASSUME NEW s \in box(Machines[k])
      PROVE  allValid(Runtime(k), normalize(Runtime(k), s))
  <2>1. /\ normalize(Runtime(k), s) = normalize(Machines[k], s)
        /\ normalize(Machines[k], s) \in box(Machines[k])
        /\ allValid(Machines[k], normalize(Machines[k], s))
    BY InterleavableIs, SameNormalForm, NormalizeStays DEF WFC, Sound
  <2>2. QED
    BY <2>1, InterleavableIs, SameValid
<1>2. QED
  BY <1>1, InterleavableIs DEF WFC

(***************************************************************************)
(* One compensation step, or the whole repair, of a state of a machine.    *)
(***************************************************************************)
LEMMA RepairOf ==
    ASSUME NEW k \in Interleavable, NEW t \in box(Machines[k])
    PROVE  /\ m_rho(<<k, t>>) = <<k, repair1(Runtime(k), t)>>
           /\ repair1(Runtime(k), t) = repair1(Machines[k], t)
           /\ repair1(Runtime(k), t) \in box(Machines[k])
           /\ m_rho_star(<<k, t>>) = <<k, normalize(Runtime(k), t)>>
           /\ normalize(Runtime(k), t) \in box(Machines[k])
           /\ m_valid(<<k, t>>) <=> allValid(Runtime(k), t)
           /\ m_valid(<<k, t>>) <=> allValid(Machines[k], t)
           /\ m_Phi(<<k, t>>) = phiA(Runtime(k), t)
<1>1. repair1(Runtime(k), t) = repair1(Machines[k], t) /\ repair1(Runtime(k), t) \in box(Machines[k])
  BY InterleavableIs, SameRepair, RepairStays
<1>2. normalize(Runtime(k), t) \in box(Machines[k])
  BY InterleavableIs, NormalizeStays
<1>3. m_rho_star(<<k, t>>) = <<k, normalize(Runtime(k), t)>>
  BY InterleavableIs DEF m_rho_star, NormalForms
<1>4. m_valid(<<k, t>>) <=> allValid(Machines[k], t)
  BY InterleavableIs, SameValid DEF m_valid
<1>5. m_rho(<<k, t>>) = <<k, repair1(Runtime(k), t)>> /\ m_Phi(<<k, t>>) = phiA(Runtime(k), t)
  BY DEF m_rho, m_Phi
<1>6. m_valid(<<k, t>>) <=> allValid(Runtime(k), t)
  BY DEF m_valid
<1>7. QED
  BY <1>1, <1>2, <1>3, <1>4, <1>5, <1>6

(***************************************************************************)
(* What Governance.v asks of one compensation step.                        *)
(***************************************************************************)
LEMMA StatePick ==
    ASSUME NEW s \in StatesOf(Interleavable)
    PROVE  \E k \in Interleavable : \E t \in box(Machines[k]) : s = <<k, t>>
BY StatesAre

LEMMA RepairFacts ==
    ASSUME NEW s \in StatesOf(Interleavable)
    PROVE  /\ m_rho(s) \in StatesOf(Interleavable) /\ m_rho(s)[1] = s[1]
           /\ m_rho_star(s) \in StatesOf(Interleavable) /\ m_rho_star(s)[1] = s[1]
           /\ m_Phi(s) \in Nat
           /\ m_valid(s) => m_rho_star(s) = s
           /\ ~ m_valid(s) => /\ m_Phi(m_rho(s)) < m_Phi(s)
                              /\ m_rho_star(s) = m_rho_star(m_rho(s))
<1>1. PICK k \in Interleavable : \E t \in box(Machines[k]) : s = <<k, t>>
  BY StatePick
<1>2. PICK t \in box(Machines[k]) : s = <<k, t>>
  BY <1>1
<1> DEFINE r == Runtime(k)
<1>3. AnyMachine(r) /\ WFC(r) /\ t \in box(r)
  BY InterleavableIs, RuntimeBecomesValid
<1>4. /\ phiA(r, t) \in Nat
      /\ allValid(r, t) => normalize(r, t) = t
      /\ ~ allValid(r, t) => /\ phiA(r, repair1(r, t)) < phiA(r, t)
                             /\ normalize(r, t) = normalize(r, repair1(r, t))
  <2> HIDE DEF r
  <2> QED BY <1>3, RepairIsNearer
<1>5. /\ m_rho(s) = <<k, repair1(r, t)>> /\ repair1(r, t) \in box(Machines[k])
      /\ m_rho_star(s) = <<k, normalize(r, t)>> /\ normalize(r, t) \in box(Machines[k])
      /\ m_valid(s) <=> allValid(r, t)
      /\ m_Phi(s) = phiA(r, t)
  BY <1>2, RepairOf
<1>6. /\ m_rho_star(m_rho(s)) = <<k, normalize(r, repair1(r, t))>>
      /\ m_Phi(m_rho(s)) = phiA(r, repair1(r, t))
  BY <1>5, RepairOf
<1>7. m_rho(s) \in StatesOf(Interleavable) /\ m_rho_star(s) \in StatesOf(Interleavable)
  BY <1>5, StatesAre
<1> HIDE DEF r
<1>8. m_rho(s)[1] = s[1] /\ m_rho_star(s)[1] = s[1]
  BY <1>2, <1>5
<1>9. QED
  BY <1>2, <1>4, <1>5, <1>6, <1>7, <1>8

(***************************************************************************)
(* Events stay on their machine; independent ones commute on every state,  *)
(* valid or not; and an event absorbs a repair that was due.               *)
(***************************************************************************)
LEMMA AppliedStays ==
    ASSUME NEW s \in StatesOf(Interleavable), NEW e \in EventsOf(Interleavable)
    PROVE  m_apply(e, s) \in StatesOf(Interleavable) /\ m_apply(e, s)[1] = s[1]
<1>1. PICK k \in Interleavable : \E t \in box(Machines[k]) : s = <<k, t>>
  BY StatePick
<1>2. PICK t \in box(Machines[k]) : s = <<k, t>>
  BY <1>1
<1>3. PICK l \in Interleavable : \E a \in Events(Machines[l]) : e = <<l, a>>
  BY EventsAre
<1>4. PICK a \in Events(Machines[l]) : e = <<l, a>>
  BY <1>3
<1>5. CASE l = k
  <2>1. Fire(Runtime(k), a, t) \in box(Machines[k])
    BY <1>4, <1>5, InterleavableIs, SameFire, FireStays DEF Sound
  <2>2. m_apply(e, s) = <<k, Fire(Runtime(k), a, t)>>
    BY <1>2, <1>4, <1>5 DEF m_apply
  <2>3. QED
    BY <1>2, <2>1, <2>2, StatesAre
<1>6. CASE l # k
  BY <1>2, <1>4, <1>6 DEF m_apply
<1>7. QED
  BY <1>5, <1>6

LEMMA EitherOrder ==
    ASSUME NEW s \in StatesOf(Interleavable),
           NEW e1 \in EventsOf(Interleavable), NEW e2 \in EventsOf(Interleavable),
           e1[1] = s[1], e2[1] = s[1], indepA(Machines[s[1]], e1[2], e2[2])
    PROVE  m_rho_star(m_apply(e2, m_rho_star(m_apply(e1, s))))
               = m_rho_star(m_apply(e1, m_rho_star(m_apply(e2, s))))
<1>1. PICK k \in Interleavable : \E t \in box(Machines[k]) : s = <<k, t>>
  BY StatePick
<1>2. PICK t \in box(Machines[k]) : s = <<k, t>>
  BY <1>1
<1>3. \E a \in Events(Machines[k]) : e1 = <<k, a>>
  BY <1>2, EventsAre
<1>4. \E b \in Events(Machines[k]) : e2 = <<k, b>>
  BY <1>2, EventsAre
<1>5. PICK a \in Events(Machines[k]) : e1 = <<k, a>>
  BY <1>3
<1>6. PICK b \in Events(Machines[k]) : e2 = <<k, b>>
  BY <1>4
<1> DEFINE m == Machines[k]
<1>7. stepI(m, a, t) \in box(m) /\ stepI(m, b, t) \in box(m)
  BY InterleavableIs, SameStep
<1>8. /\ m_rho_star(m_apply(e1, s)) = <<k, stepI(m, a, t)>>
      /\ m_rho_star(m_apply(e2, s)) = <<k, stepI(m, b, t)>>
  BY <1>2, <1>5, <1>6, InterleavableIs, GovernedIs
<1>9. /\ m_rho_star(m_apply(e2, <<k, stepI(m, a, t)>>)) = <<k, stepI(m, b, stepI(m, a, t))>>
      /\ m_rho_star(m_apply(e1, <<k, stepI(m, b, t)>>)) = <<k, stepI(m, a, stepI(m, b, t))>>
  BY <1>5, <1>6, <1>7, InterleavableIs, GovernedIs
<1>10. indepA(m, a, b)
  BY <1>2, <1>5, <1>6
<1>11. stepI(m, a, stepI(m, b, t)) = stepI(m, b, stepI(m, a, t))
  BY <1>2, <1>10, InterleavableIs DEF cc1
<1>12. QED
  BY <1>8, <1>9, <1>11

LEMMA AbsorbsRepair ==
    ASSUME NEW s \in StatesOf(Interleavable), NEW e \in EventsOf(Interleavable),
           e[1] = s[1], ~ m_valid(s)
    PROVE  m_rho_star(m_apply(e, s)) = m_rho_star(m_apply(e, m_rho(s)))
<1>1. PICK k \in Interleavable : \E t \in box(Machines[k]) : s = <<k, t>>
  BY StatePick
<1>2. PICK t \in box(Machines[k]) : s = <<k, t>>
  BY <1>1
<1>3. \E a \in Events(Machines[k]) : e = <<k, a>>
  BY <1>2, EventsAre
<1>4. PICK a \in Events(Machines[k]) : e = <<k, a>>
  BY <1>3
<1> DEFINE m == Machines[k]
<1>5. m_rho(s) = <<k, repair1(m, t)>> /\ repair1(m, t) \in box(m) /\ ~ allValid(m, t)
  BY <1>2, RepairOf
<1>6. stepI(m, a, t) = stepI(m, a, repair1(m, t))
  BY <1>5, InterleavableIs DEF absorbs
<1>7. /\ m_rho_star(m_apply(e, s)) = <<k, stepI(m, a, t)>>
      /\ m_rho_star(m_apply(e, m_rho(s))) = <<k, stepI(m, a, repair1(m, t))>>
  BY <1>2, <1>4, <1>5, InterleavableIs, GovernedIs
<1>8. QED
  BY <1>6, <1>7

=============================================================================
