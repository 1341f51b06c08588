------------------------- MODULE AtomicRepairProofs --------------------------
(***************************************************************************)
(* Unique normal forms of atomic repair, for any number of runs.           *)
(*                                                                         *)
(* First for every registry whose governed transitions commute where both  *)
(* are enabled (CC1) and do not disable one another; then for every        *)
(* registry of machines that the certificate accepts, whatever their       *)
(* rules: the certificate implies those conditions, and in machine words   *)
(* the runtime does what the certificate computed.                         *)
(***************************************************************************)
EXTENDS MC_AtomicRepair, RewritingProofs

(***************************************************************************)
(* Every run is somewhere its start leads to.                              *)
(***************************************************************************)
RunInv ==
    /\ start \in Config
    /\ cfg \in [Run -> Config]
    /\ \A r \in Run : cfg[r] \in Reach(start)

LEMMA RunInvHolds ==
    ASSUME AtomicConditions(Config), Start \subseteq Config
    PROVE  Spec => []RunInv
<1>1. Init => RunInv
  BY ReachSelf DEF Init, RunInv
<1>2. RunInv /\ [Next]_vars => RunInv'
  <2>1. SUFFICES ASSUME RunInv, [Next]_vars PROVE RunInv'
    OBVIOUS
  <2>2. CASE UNCHANGED vars
    BY <2>1, <2>2 DEF RunInv, vars
  <2>3. ASSUME NEW r \in Run, NEW e \in Deliverable(cfg[r]), Deliver(r, e)
        PROVE  RunInv'
    <3>1. cfg[r] \in Config /\ cfg[r] \in Reach(start) /\ start \in Config
      BY <2>1 DEF RunInv
    <3>2. astep(cfg[r], as_deliver(e, cfg[r]))
      BY <2>3 DEF astep
    <3>3. as_deliver(e, cfg[r]) \in Config
      BY <3>1, <3>2, StepStays
    <3>4. as_deliver(e, cfg[r]) \in Reach(start)
      BY <3>1, <3>2, ReachStep
    <3>5. /\ start' = start
          /\ cfg' = [cfg EXCEPT ![r] = as_deliver(e, cfg[r])]
      BY <2>3 DEF Deliver
    <3>6. QED
      BY <2>1, <3>3, <3>4, <3>5 DEF RunInv
  <2>4. QED
    BY <2>1, <2>2, <2>3 DEF Next
<1>3. QED
  BY <1>1, <1>2, PTL DEF Spec

(***************************************************************************)
(* Every configuration a run passes through is a state of the registry and *)
(* a buffer that it can hold.                                              *)
(***************************************************************************)
THEOREM TypeCorrect ==
    ASSUME AtomicConditions(Config), Start \subseteq Config
    PROVE  Spec => []TypeOK
<1>1. RunInv => TypeOK
  BY DEF RunInv, TypeOK
<1>2. QED
  BY <1>1, RunInvHolds, PTL

(***************************************************************************)
(* Unique normal forms: two runs of one start that have both delivered all *)
(* they can have ended in the same configuration (atomic_exact of          *)
(* AtomicRepair.v).                                                        *)
(***************************************************************************)
THEOREM UniqueNormalForms ==
    ASSUME AtomicConditions(Config), Start \subseteq Config
    PROVE  Spec => []Converged
<1>1. RunInv => Converged
  <2>1. SUFFICES ASSUME RunInv, NEW r \in Run, NEW q \in Run,
                        NormalForm(cfg[r]), NormalForm(cfg[q])
                 PROVE  cfg[r] = cfg[q]
    BY DEF Converged
  <2>2. Stuck(cfg[r]) /\ Stuck(cfg[q])
    BY <2>1 DEF NormalForm, Stuck
  <2>3. start \in Config /\ cfg[r] \in Reach(start) /\ cfg[q] \in Reach(start)
    BY <2>1 DEF RunInv
  <2>4. QED
    BY <2>2, <2>3, OneEnd
<1>2. QED
  BY <1>1, RunInvHolds, PTL

(***************************************************************************)
(* Two runs with the same events left agree, long before the end.  Their   *)
(* orders may differ, and so may the events still enabled on the way.      *)
(***************************************************************************)
THEOREM SameEventsAgree ==
    ASSUME AtomicConditions(Config), Start \subseteq Config
    PROVE  Spec => []SameEventsSameState
<1>1. RunInv => SameEventsSameState
  <2>1. SUFFICES ASSUME RunInv, NEW r \in Run, NEW q \in Run, cfg[r].B = cfg[q].B
                 PROVE  cfg[r].sigma = cfg[q].sigma
    BY DEF SameEventsSameState
  <2>2. cfg[r] = cfg[q]
    BY <2>1, SameEventsOneConfig DEF RunInv
  <2>3. QED
    BY <2>2
<1>2. QED
  BY <1>1, RunInvHolds, PTL

-----------------------------------------------------------------------------
(***************************************************************************)
(* Certified registries.                                                   *)
(***************************************************************************)

(***************************************************************************)
(* The constants of the machine are those of the certified registry.       *)
(***************************************************************************)
LEMMA RegistryIs ==
    /\ State = DomainOf(Certified) /\ Event = EventsOf(Certified)
    /\ Buffer = BuffersOf(Certified) /\ Start = DomainStart(Certified)
    /\ \A s \in State : \A e \in Event : gov(e, s) = m_rho_star(m_apply(e, s))
    /\ \A s \in State : \A B \in Buffer : \A e \in ToSet(B) :
          enabled(e, s, B) = m_enabled(e, s, B)
BY RegistryAssumption DEF AllStates, AllEvents, AllBuffers, AllStarts

(***************************************************************************)
(* A configuration is a state of the certified domain and a buffer of its  *)
(* events.                                                                 *)
(***************************************************************************)
LEMMA ConfigIs ==
    ASSUME NEW c \in Config
    PROVE  /\ c.sigma \in DomainOf(Certified) /\ c.B \in BuffersOf(Certified)
           /\ c.B \in Seq(Event)
           /\ \A e \in ToSet(c.B) :
                 /\ e \in EventsOf(Certified)
                 /\ gov(e, c.sigma) = m_rho_star(m_apply(e, c.sigma))
                 /\ enabled(e, c.sigma, c.B) <=> m_enabled(e, c.sigma, c.B)
<1>1. c.sigma \in State /\ c.B \in Buffer
  BY DEF Config
<1>2. c.B \in BuffersOf(Certified) /\ c.sigma \in DomainOf(Certified)
  BY <1>1, RegistryIs
<1>3. \A e \in ToSet(c.B) : e \in EventsOf(Certified)
  BY <1>2, BufferIsSeq
<1>4. c.B \in Seq(Event)
  BY <1>2, BufferIsSeq, RegistryIs
<1>5. \A e \in ToSet(c.B) : enabled(e, c.sigma, c.B) = m_enabled(e, c.sigma, c.B)
  BY <1>1, RegistryIs
<1>6. \A e \in ToSet(c.B) : gov(e, c.sigma) = m_rho_star(m_apply(e, c.sigma))
  BY <1>1, <1>3, RegistryIs
<1>7. QED
  BY <1>2, <1>3, <1>4, <1>5, <1>6

(***************************************************************************)
(* A delivery leads to a configuration, on the same machine.               *)
(***************************************************************************)
LEMMA DeliveredIs ==
    ASSUME NEW c \in Config, NEW e \in ToSet(c.B)
    PROVE  /\ as_deliver(e, c) \in Config
           /\ as_deliver(e, c).sigma = m_rho_star(m_apply(e, c.sigma))
           /\ as_deliver(e, c).sigma[1] = c.sigma[1]
           /\ as_deliver(e, c).B = remove1(e, c.B)
<1>1. gov(e, c.sigma) = m_rho_star(m_apply(e, c.sigma))
  BY ConfigIs
<1>2. gov(e, c.sigma) \in DomainOf(Certified) /\ gov(e, c.sigma)[1] = c.sigma[1]
  BY <1>1, ConfigIs, GovernedStays
<1>3. remove1(e, c.B) \in BuffersOf(Certified)
  BY ConfigIs, RestIsBuffer, RegistryIs
<1>4. QED
  BY <1>1, <1>2, <1>3, RegistryIs DEF as_deliver, Config

(***************************************************************************)
(* What the certificate checks is what confluence asks                     *)
(* (checkBuild_convergence of AstChecker.v): a registry of certified       *)
(* machines is closed under its governed events, its buffers under what is *)
(* delivered, and two events that can both be delivered commute on the     *)
(* domain of the certificate and do not disable one another.               *)
(***************************************************************************)
THEOREM CertificateSuffices ==
    AtomicConditions(Config)
<1>1. BuffersShrink(Config)
  BY ConfigIs, RestIsBuffer, RegistryIs DEF BuffersShrink
<1>2. GovernedClosed(Config)
  BY ConfigIs, GovernedStays, RegistryIs DEF GovernedClosed
<1>3. ASSUME NEW c \in Config, NEW e \in Deliverable(c)
      PROVE  e \in ToSet(c.B) /\ e \in EventsOf(Certified) /\ m_enabled(e, c.sigma, c.B)
  BY <1>3, ConfigIs DEF Deliverable
<1>4. ASSUME NEW c \in Config, NEW e1 \in Deliverable(c), NEW e2 \in Deliverable(c)
      PROVE  gov(e2, gov(e1, c.sigma)) = gov(e1, gov(e2, c.sigma))
  <2>1. CASE e1 = e2
    BY <2>1
  <2>2. CASE e1 # e2
    <3> DEFINE s == c.sigma
    <3>1. /\ e1[1] = s[1] /\ e2[1] = s[1] /\ indepA(Machines[s[1]], e1[2], e2[2])
      BY <1>3, <2>2, ConfigIs, CoEnabled
    <3>2. /\ gov(e1, s) = m_rho_star(m_apply(e1, s)) /\ gov(e1, s) \in State
          /\ gov(e2, s) = m_rho_star(m_apply(e2, s)) /\ gov(e2, s) \in State
      BY <1>2, <1>3, ConfigIs DEF GovernedClosed
    <3>3. /\ gov(e2, gov(e1, s)) = m_rho_star(m_apply(e2, gov(e1, s)))
          /\ gov(e1, gov(e2, s)) = m_rho_star(m_apply(e1, gov(e2, s)))
      BY <1>3, <3>2, RegistryIs
    <3>4. QED
      BY <1>3, <3>1, <3>2, <3>3, ConfigIs, GovernedCommute
  <2>3. QED
    BY <2>1, <2>2
<1>5. ASSUME NEW c \in Config, NEW e1 \in Deliverable(c), NEW e2 \in Deliverable(c), e1 # e2
      PROVE  e2 \in Deliverable(as_deliver(e1, c))
  <2> DEFINE d == as_deliver(e1, c)
  <2>1. /\ d \in Config /\ d.sigma[1] = c.sigma[1] /\ d.B = remove1(e1, c.B)
    BY <1>3, DeliveredIs
  <2> HIDE DEF d
  <2>2. e2 \in ToSet(d.B) /\ m_enabled(e2, d.sigma, d.B)
    BY <1>3, <1>5, <2>1, ConfigIs, StillEnabled
  <2>3. e2 \in Deliverable(d)
    BY <2>1, <2>2, ConfigIs DEF Deliverable
  <2>4. QED
    BY <2>3 DEF d
<1>6. QED
  BY <1>1, <1>2, <1>4, <1>5
     DEF AtomicConditions, cc1_coenabled, enabled_after_remove

(***************************************************************************)
(* A run starts in a configuration that holds the events of one machine.   *)
(***************************************************************************)
LEMMA StartsAre ==
    /\ Start \subseteq Config
    /\ \A c \in Start : \A e \in ToSet(c.B) : e[1] = c.sigma[1]
<1>1. ASSUME NEW c \in Start
      PROVE  c \in Config /\ \A e \in ToSet(c.B) : e[1] = c.sigma[1]
  <2>1. c \in AnyStart(Certified) /\ c.sigma \in DomainOf(Certified)
    BY RegistryIs DEF DomainStart
  <2>2. PICK k \in Certified : c \in [sigma : {k} \X box(Machines[k]), B : Buffers(k, Depth)]
    BY <2>1 DEF AnyStart
  <2>3. c.B \in [1 .. Depth -> {k} \X Events(Machines[k])] /\ c.sigma[1] = k
    BY <2>2 DEF Buffers
  <2>4. Depth \in 0 .. Depth
    BY DepthAssumption
  <2>5. c.B \in BuffersOf(Certified)
    BY <2>3, <2>4, BuffersAre
  <2>6. \A e \in ToSet(c.B) : e[1] = k
    <3>1. \A i \in DOMAIN c.B : c.B[i] \in {k} \X Events(Machines[k])
      BY <2>3
    <3>2. \A x \in {k} \X Events(Machines[k]) : x[1] = k
      OBVIOUS
    <3>3. QED
      BY <3>1, <3>2 DEF ToSet
  <2>7. c = [sigma |-> c.sigma, B |-> c.B]
    BY <2>2
  <2>8. c \in Config
    BY <2>1, <2>5, <2>7, RegistryIs DEF Config
  <2>9. QED
    BY <2>3, <2>6, <2>8
<1>2. QED
  BY <1>1

(***************************************************************************)
(* Certified registries converge: whatever machines the certificate        *)
(* accepts, with whatever rules, two runs that have delivered all they can *)
(* have ended in the same configuration. No hypothesis on the governed     *)
(* events is left: the certificate, which decides it from the rules, is    *)
(* all that is asked.                                                      *)
(***************************************************************************)
THEOREM CertifiedConverge ==
    Spec => []Converged
BY CertificateSuffices, StartsAre, UniqueNormalForms

(***************************************************************************)
(* Two runs of a certified registry that have delivered the same events,   *)
(* in whatever orders the buffer allowed, are in the same state.           *)
(***************************************************************************)
THEOREM CertifiedAgree ==
    Spec => []SameEventsSameState
BY CertificateSuffices, StartsAre, SameEventsAgree

(***************************************************************************)
(* A buffer only ever holds events of the machine whose state it is        *)
(* beside.                                                                 *)
(***************************************************************************)
OneMachine == \A r \in Run : \A e \in ToSet(cfg[r].B) : e[1] = cfg[r].sigma[1]

LEMMA RemovedStays ==
    ASSUME NEW B \in Seq(Event), NEW e \in ToSet(B)
    PROVE  ToSet(remove1(e, B)) \subseteq ToSet(B)
<1> DEFINE D == remove1(e, B)
<1>1. PICK k : IsRemoval(B, e, k, D)
  BY RemovesFirst
<1>2. /\ Len(D) = Len(B) - 1 /\ DOMAIN D = 1 .. Len(B) - 1 /\ DOMAIN B = 1 .. Len(B)
      /\ \A j \in 1 .. Len(B) - 1 : D[j] = B[j] \/ D[j] = B[j + 1]
  BY <1>1 DEF IsRemoval
<1> HIDE DEF D
<1>3. ASSUME NEW x \in ToSet(D) PROVE x \in ToSet(B)
  <2>1. PICK j \in 1 .. Len(B) - 1 : x = D[j]
    BY <1>2 DEF ToSet
  <2>2. Len(B) \in Nat /\ j \in 1 .. Len(B) /\ j + 1 \in 1 .. Len(B)
    BY <2>1
  <2>3. QED
    BY <1>2, <2>1, <2>2 DEF ToSet
<1>4. QED
  BY <1>3 DEF D

(***************************************************************************)
(* Wherever a run of a certified registry gets, the runtime computes in    *)
(* machine words the step that the checker computed in integers: no sum    *)
(* wraps and no binary variable stores another value than the clamp does   *)
(* (checkBuild_no_overflow and checkBuild_binary_writes_exact of           *)
(* AstChecker.v).                                                          *)
(***************************************************************************)
THEOREM RuntimeComputesModel ==
    Spec => []RuntimeIsModel
<1>1. Init => OneMachine
  BY StartsAre DEF Init, OneMachine
<1>2. TypeOK /\ OneMachine /\ [Next]_vars => OneMachine'
  <2>1. SUFFICES ASSUME TypeOK, OneMachine, [Next]_vars PROVE OneMachine'
    OBVIOUS
  <2>2. CASE UNCHANGED vars
    BY <2>1, <2>2 DEF OneMachine, vars
  <2>3. ASSUME NEW r \in Run, NEW e \in Deliverable(cfg[r]), Deliver(r, e)
        PROVE  OneMachine'
    <3> DEFINE c == cfg[r]
    <3>1. c \in Config /\ e \in ToSet(c.B)
      BY <2>1 DEF TypeOK, Deliverable
    <3>2. cfg' = [cfg EXCEPT ![r] = as_deliver(e, c)] /\ cfg \in [Run -> Config]
      BY <2>1, <2>3 DEF Deliver, TypeOK
    <3>3. /\ as_deliver(e, c).sigma[1] = c.sigma[1]
          /\ ToSet(as_deliver(e, c).B) \subseteq ToSet(c.B)
      BY <3>1, DeliveredIs, ConfigIs, RemovedStays
    <3>4. ASSUME NEW q \in Run, NEW x \in ToSet(cfg'[q].B)
          PROVE  x[1] = cfg'[q].sigma[1]
      <4>1. CASE q = r
        <5>1. cfg'[q] = as_deliver(e, c)
          BY <3>2, <4>1
        <5>2. x \in ToSet(c.B) /\ cfg'[q].sigma[1] = c.sigma[1]
          BY <3>3, <5>1
        <5>3. QED
          BY <2>1, <5>2 DEF OneMachine
      <4>2. CASE q # r
        <5>1. cfg'[q] = cfg[q]
          BY <3>2, <4>2
        <5>2. QED
          BY <2>1, <5>1 DEF OneMachine
      <4>3. QED
        BY <4>1, <4>2
    <3>5. QED
      BY <3>4 DEF OneMachine
  <2>4. QED
    BY <2>1, <2>2, <2>3 DEF Next
<1>3. TypeOK /\ OneMachine => RuntimeIsModel
  <2>1. SUFFICES ASSUME TypeOK, OneMachine, NEW r \in Run, NEW e \in ToSet(cfg[r].B)
                 PROVE  gov(e, cfg[r].sigma)
                            = <<e[1], stepI(Machines[e[1]], e[2], cfg[r].sigma[2])>>
    BY DEF RuntimeIsModel
  <2> DEFINE c == cfg[r]
  <2>2. c \in Config /\ e[1] = c.sigma[1]
    BY <2>1 DEF TypeOK, OneMachine
  <2>3. /\ gov(e, c.sigma) = m_rho_star(m_apply(e, c.sigma))
        /\ e \in EventsOf(Certified) /\ c.sigma \in DomainOf(Certified)
    BY <2>1, <2>2, ConfigIs
  <2>4. PICK k \in Certified : \E t \in box(Machines[k]) : c.sigma = <<k, t>> /\ inDA(Machines[k], t)
    BY <2>3, DomainPick
  <2>5. PICK t \in box(Machines[k]) : c.sigma = <<k, t>>
    BY <2>4
  <2>6. \E a \in Events(Machines[k]) : e = <<k, a>>
    BY <2>2, <2>3, <2>5, EventsAre
  <2>7. PICK a \in Events(Machines[k]) : e = <<k, a>>
    BY <2>6
  <2>8. gov(e, c.sigma) = <<k, stepI(Machines[k], a, t)>>
    BY <2>3, <2>5, <2>7, GovernedIs
  <2>9. QED
    BY <2>5, <2>7, <2>8
<1>4. Spec => []TypeOK
  BY CertificateSuffices, StartsAre, TypeCorrect
<1>5. QED
  BY <1>1, <1>2, <1>3, <1>4, PTL DEF Spec

=============================================================================
