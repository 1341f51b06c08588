-------------------------- MODULE GovernanceProofs ---------------------------
(***************************************************************************)
(* Interleaved repair, for any number of runs: each step lowers the        *)
(* measure, each step is a step of atomic repair or none at all once the   *)
(* states are read through the repair they still owe, and so runs that     *)
(* come to rest have come to rest in one place.                            *)
(*                                                                         *)
(* First for every registry that meets the hypotheses of Governance.v;     *)
(* then for every registry of machines that the certificate, CC1 and CC2   *)
(* accept, whatever their rules.                                           *)
(***************************************************************************)
EXTENDS MC_Governance, RewritingProofs

Conditions ==
    /\ AtomicConditions(Config)
    /\ InterleavedConditions(Config)
    /\ Start \subseteq Config

(***************************************************************************)
(* The two rules stay inside the registry.                                 *)
(***************************************************************************)
compensated(c) == [c EXCEPT !.sigma = rho(@)]

LEMMA StepsStay ==
    ASSUME Conditions, NEW c \in Config
    PROVE  /\ compensated(c) \in Config
           /\ Repaired(c) \in Config
           /\ \A e \in Deliverable(c) : st_apply(e, c) \in Config
<1>1. /\ rho(c.sigma) \in State /\ rho_star(c.sigma) \in State
      /\ \A e \in ToSet(c.B) : /\ apply(e, c.sigma) \in State
                               /\ remove1(e, c.B) \in Buffer
  BY DEF Conditions, AtomicConditions, InterleavedConditions,
         StatesClosed, BuffersShrink
<1>2. compensated(c) \in Config /\ Repaired(c) \in Config
  BY <1>1 DEF compensated, Repaired, Config
<1>3. ASSUME NEW e \in Deliverable(c) PROVE st_apply(e, c) \in Config
  BY <1>1 DEF Deliverable, st_apply, Config
<1>4. QED
  BY <1>2, <1>3

(***************************************************************************)
(* Finishing the repair first makes no difference: it ends in a valid      *)
(* state, an event that could be delivered still can, and leads to the     *)
(* same governed state (rho_star_absorb).  By induction on the potential.  *)
(***************************************************************************)
Owed(c) ==
    /\ valid(rho_star(c.sigma))
    /\ \A e \in Deliverable(c) :
          /\ e \in Deliverable(Repaired(c))
          /\ gov(e, c.sigma) = gov(e, rho_star(c.sigma))

LEMMA OwedOneStep ==
    ASSUME Conditions, NEW c \in Config, ~ valid(c.sigma), Owed(compensated(c))
    PROVE  Owed(c)
<1> DEFINE d == compensated(c)
<1>1. d.sigma = rho(c.sigma) /\ d.B = c.B
  BY DEF compensated, Config
<1>2. rho_star(c.sigma) = rho_star(d.sigma)
  BY <1>1 DEF Conditions, InterleavedConditions, rho_star_iterates
<1>3. Repaired(c) = Repaired(d)
  BY <1>1, <1>2 DEF Repaired, compensated, Config
<1>4. ASSUME NEW e \in Deliverable(c)
      PROVE  e \in Deliverable(d) /\ gov(e, c.sigma) = gov(e, d.sigma)
  <2>1. e \in Deliverable(d)
    BY DEF Conditions, InterleavedConditions, enabled_after_comp, compensated
  <2>2. gov(e, c.sigma) = gov(e, rho(c.sigma))
    BY DEF Conditions, InterleavedConditions, cc2
  <2>3. QED
    BY <2>1, <2>2, <1>1
<1>5. QED
  BY <1>2, <1>3, <1>4 DEF Owed

LEMMA RepairCommutes ==
    ASSUME Conditions, NEW c \in Config
    PROVE  Owed(c)
<1> DEFINE Bad == {x \in Config : ~ Owed(x)}
           Potentials == {Phi(x.sigma) : x \in Bad}
<1>1. SUFFICES ASSUME Bad # {} PROVE FALSE
  OBVIOUS
<1>2. \A x \in Config : /\ Phi(x.sigma) \in Nat
                        /\ ~ valid(x.sigma) => Phi(rho(x.sigma)) < Phi(x.sigma)
  BY DEF Conditions, InterleavedConditions, wfc
<1>3. Potentials \subseteq Nat /\ Potentials # {}
  BY <1>1, <1>2
<1>4. PICK n \in Potentials : \A k \in Potentials : n <= k
  BY <1>3, LeastElement
<1>5. PICK x \in Bad : Phi(x.sigma) = n
  BY <1>4
<1>6. CASE valid(x.sigma)
  <2>1. rho_star(x.sigma) = x.sigma
    BY <1>5, <1>6 DEF Conditions, InterleavedConditions, rho_star_iterates
  <2>2. Repaired(x) = x
    BY <1>5, <2>1 DEF Repaired, Config
  <2>3. Owed(x)
    BY <1>6, <2>1, <2>2 DEF Owed
  <2>4. QED
    BY <1>5, <2>3
<1>7. CASE ~ valid(x.sigma)
  <2> DEFINE y == compensated(x)
  <2>1. y \in Config /\ y.sigma = rho(x.sigma)
    BY <1>5, StepsStay DEF compensated, Config
  <2>2. Phi(y.sigma) < n /\ Phi(y.sigma) \in Nat /\ n \in Nat
    BY <1>2, <1>5, <1>7, <2>1
  <2>3. Owed(y)
    BY <1>4, <2>1, <2>2
  <2>4. QED
    BY <1>5, <1>7, <2>3, OwedOneStep
<1>8. QED
  BY <1>6, <1>7

(***************************************************************************)
(* The two rules, read through the repair that is owed: applying an event  *)
(* is an atomic delivery, and a compensation step is nothing at all.       *)
(***************************************************************************)
LEMMA ApplyDelivers ==
    ASSUME Conditions, NEW c \in Config, NEW e \in Deliverable(c)
    PROVE  /\ e \in Deliverable(Repaired(c))
           /\ Repaired(st_apply(e, c)) = as_deliver(e, Repaired(c))
<1>1. Owed(c)
  BY RepairCommutes
<1>2. Repaired(c) = [sigma |-> rho_star(c.sigma), B |-> c.B]
  BY DEF Repaired, Config
<1>3. Repaired(st_apply(e, c)) = [sigma |-> gov(e, c.sigma), B |-> remove1(e, c.B)]
  BY DEF Repaired, st_apply, gov
<1>4. QED
  BY <1>1, <1>2, <1>3 DEF Owed, as_deliver

LEMMA CompensateStutters ==
    ASSUME Conditions, NEW c \in Config, ~ valid(c.sigma)
    PROVE  Repaired(compensated(c)) = Repaired(c)
<1>1. rho_star(c.sigma) = rho_star(rho(c.sigma))
  BY DEF Conditions, InterleavedConditions, rho_star_iterates
<1>2. QED
  BY <1>1 DEF Repaired, compensated, Config

LEMMA RestIsStuck ==
    ASSUME Conditions, NEW c \in Config, NormalForm(c)
    PROVE  Repaired(c) = c /\ Stuck(c)
<1>1. rho_star(c.sigma) = c.sigma
  BY DEF NormalForm, Conditions, InterleavedConditions, rho_star_iterates
<1>2. QED
  BY <1>1 DEF NormalForm, Stuck, Repaired, Config

(***************************************************************************)
(* The invariant: read through its owed repair, every run is somewhere     *)
(* that atomic repair can get to from the repaired start.                  *)
(***************************************************************************)
RunInv ==
    /\ TypeOK
    /\ \A r \in Run : Repaired(cfg[r]) \in Reach(Repaired(start))

LEMMA StepForms ==
    ASSUME Conditions, TypeOK, NEW r \in Run, Step(r)
    PROVE  /\ start' = start
           /\ \/ \E e \in Deliverable(cfg[r]) :
                    cfg' = [cfg EXCEPT ![r] = st_apply(e, cfg[r])]
              \/ /\ ~ valid(cfg[r].sigma)
                 /\ cfg' = [cfg EXCEPT ![r] = compensated(cfg[r])]
<1>1. CASE Apply(r)
  BY <1>1 DEF Apply
<1>2. CASE Compensate(r)
  BY <1>2 DEF Compensate, compensated, TypeOK
<1>3. QED
  BY <1>1, <1>2 DEF Step

LEMMA RunInvHolds ==
    ASSUME Conditions
    PROVE  Spec => []RunInv
<1>1. Init => RunInv
  BY ReachSelf, StepsStay DEF Init, RunInv, TypeOK, Conditions
<1>2. RunInv /\ [Next]_vars => RunInv'
  <2>1. SUFFICES ASSUME RunInv, [Next]_vars PROVE RunInv'
    OBVIOUS
  <2>2. CASE UNCHANGED vars
    BY <2>1, <2>2 DEF RunInv, TypeOK, vars
  <2>3. ASSUME NEW r \in Run, Step(r) PROVE RunInv'
    <3> DEFINE c == cfg[r]
    <3>1. /\ c \in Config /\ start \in Config
          /\ Repaired(c) \in Reach(Repaired(start))
          /\ Repaired(start) \in Config /\ Repaired(c) \in Config
      BY <2>1, StepsStay DEF RunInv, TypeOK
    <3>2. SUFFICES ASSUME NEW d \in Config,
                          start' = start, cfg' = [cfg EXCEPT ![r] = d],
                          Repaired(d) \in Reach(Repaired(start))
                   PROVE  RunInv'
      <4>1. CASE \E e \in Deliverable(c) :
                    cfg' = [cfg EXCEPT ![r] = st_apply(e, c)]
        <5>1. PICK e \in Deliverable(c) :
                    cfg' = [cfg EXCEPT ![r] = st_apply(e, c)]
          BY <4>1
        <5>2. astep(Repaired(c), Repaired(st_apply(e, c)))
          BY <3>1, ApplyDelivers DEF astep
        <5>3. Repaired(st_apply(e, c)) \in Reach(Repaired(start))
          BY <3>1, <5>2, ReachStep DEF Conditions
        <5>4. st_apply(e, c) \in Config
          BY <3>1, StepsStay
        <5>5. QED
          BY <2>1, <2>3, <3>2, <5>1, <5>3, <5>4, StepForms DEF RunInv
      <4>2. CASE /\ ~ valid(c.sigma)
                 /\ cfg' = [cfg EXCEPT ![r] = compensated(c)]
        <5>1. /\ compensated(c) \in Config
              /\ Repaired(compensated(c)) \in Reach(Repaired(start))
          BY <3>1, <4>2, StepsStay, CompensateStutters
        <5>2. QED
          BY <2>1, <2>3, <3>2, <4>2, <5>1, StepForms DEF RunInv
      <4>3. QED
        BY <2>1, <2>3, <4>1, <4>2, StepForms DEF RunInv
    <3>3. QED
      BY <2>1, <3>1, <3>2 DEF RunInv, TypeOK
  <2>4. QED
    BY <2>1, <2>2, <2>3 DEF Next
<1>3. QED
  BY <1>1, <1>2, PTL DEF Spec

(***************************************************************************)
(* Every configuration a run passes through is a state of the registry,    *)
(* perhaps an invalid one, and a buffer that it can hold.                  *)
(***************************************************************************)
THEOREM TypeCorrect ==
    ASSUME Conditions
    PROVE  Spec => []TypeOK
<1>1. RunInv => TypeOK
  BY DEF RunInv
<1>2. QED
  BY <1>1, RunInvHolds, PTL

(***************************************************************************)
(* Unique normal forms: two runs of one start that have come to rest are   *)
(* in the same configuration, wherever in a repair each event arrived      *)
(* (governance_unique_normal_forms of Governance.v).                       *)
(***************************************************************************)
THEOREM UniqueNormalForms ==
    ASSUME Conditions
    PROVE  Spec => []Converged
<1>1. RunInv => Converged
  <2>1. SUFFICES ASSUME RunInv, NEW r \in Run, NEW q \in Run,
                        NormalForm(cfg[r]), NormalForm(cfg[q])
                 PROVE  cfg[r] = cfg[q]
    BY DEF Converged
  <2>2. cfg[r] \in Config /\ cfg[q] \in Config /\ start \in Config
    BY <2>1 DEF RunInv, TypeOK
  <2>3. /\ Repaired(cfg[r]) = cfg[r] /\ Stuck(cfg[r])
        /\ Repaired(cfg[q]) = cfg[q] /\ Stuck(cfg[q])
    BY <2>1, <2>2, RestIsStuck
  <2>4. /\ Repaired(start) \in Config
        /\ cfg[r] \in Reach(Repaired(start))
        /\ cfg[q] \in Reach(Repaired(start))
    BY <2>1, <2>2, <2>3, StepsStay DEF RunInv
  <2>5. QED
    BY <2>3, <2>4, OneEnd DEF Conditions
<1>2. QED
  BY <1>1, RunInvHolds, PTL

(***************************************************************************)
(* Termination: every step takes an event out of the buffer or, leaving    *)
(* the buffer alone, lowers the potential (step_decreases).                *)
(***************************************************************************)
THEOREM EveryStepDecreases ==
    ASSUME Conditions
    PROVE  Spec => StepDecreases
<1>1. TypeOK /\ [Next]_vars => [\E r \in Run : Below(cfg'[r], cfg[r])]_vars
  <2>1. SUFFICES ASSUME TypeOK, NEW r \in Run, Step(r)
                 PROVE  Below(cfg'[r], cfg[r])
    BY DEF Next
  <2> DEFINE c == cfg[r]
  <2>2. c \in Config /\ cfg \in [Run -> Config]
    BY <2>1 DEF TypeOK
  <2>3. ASSUME NEW e \in Deliverable(c),
               cfg' = [cfg EXCEPT ![r] = st_apply(e, c)]
        PROVE  Below(cfg'[r], c)
    <3>1. c.B \in Seq(Event) /\ e \in ToSet(c.B)
      BY <2>2 DEF Conditions, AtomicConditions, BuffersShrink, Deliverable
    <3>2. cfg'[r].B = remove1(e, c.B)
      BY <2>2, <2>3 DEF st_apply
    <3>3. QED
      BY <3>1, <3>2, RemovedIsSeq DEF Below
  <2>4. ASSUME ~ valid(c.sigma), cfg' = [cfg EXCEPT ![r] = compensated(c)]
        PROVE  Below(cfg'[r], c)
    <3>1. cfg'[r].B = c.B /\ cfg'[r].sigma = rho(c.sigma)
      BY <2>2, <2>4 DEF compensated, Config
    <3>2. Phi(rho(c.sigma)) < Phi(c.sigma)
      BY <2>2, <2>4 DEF Conditions, InterleavedConditions, wfc
    <3>3. QED
      BY <3>1, <3>2 DEF Below
  <2>5. QED
    BY <2>1, <2>3, <2>4, StepForms
<1>2. QED
  BY <1>1, TypeCorrect, PTL DEF Spec, StepDecreases

(***************************************************************************)
(* The operators the two machines share.                                   *)
(***************************************************************************)
LEMMA SharedOperators ==
    /\ \A c : Atomic!Deliverable(c) = Deliverable(c)
    /\ \A e, c : Atomic!as_deliver(e, c) = as_deliver(e, c)
<1>1. \A e, B : Atomic!remove1(e, B) = remove1(e, B)
  BY DEF Atomic!remove1, Atomic!RemoveFirst, Atomic!RemoveAt,
         Atomic!SelectInSeq, Atomic!Min, remove1, RemoveFirst, RemoveAt,
         SelectInSeq, Min
<1>2. \A c : Atomic!Deliverable(c) = Deliverable(c)
  BY DEF Atomic!Deliverable, Atomic!ToSet, Deliverable, ToSet
<1>3. \A e, c : Atomic!as_deliver(e, c) = as_deliver(e, c)
  BY <1>1 DEF Atomic!as_deliver, Atomic!gov, as_deliver, gov
<1>4. QED
  BY <1>2, <1>3

(***************************************************************************)
(* Interleaved repair implements atomic repair (atomic_split).             *)
(***************************************************************************)
THEOREM ImplementsAtomicRepair ==
    ASSUME Conditions
    PROVE  Spec => ImplementsAtomic
<1>1. Init => Atomic!Init
  BY DEF Init, Atomic!Init, RepairedStart
<1>2. TypeOK /\ [Next]_vars => [Atomic!Next]_(Atomic!vars)
  <2>1. SUFFICES ASSUME TypeOK, [Next]_vars
                 PROVE  [Atomic!Next]_(Atomic!vars)
    OBVIOUS
  <2>2. CASE UNCHANGED vars
    BY <2>2 DEF vars, Atomic!vars
  <2>3. ASSUME NEW r \in Run, Step(r)
        PROVE  [Atomic!Next]_(Atomic!vars)
    <3> DEFINE c == cfg[r]
               all == [q \in Run |-> Repaired(cfg[q])]
    <3>1. c \in Config /\ cfg \in [Run -> Config]
      BY <2>1 DEF TypeOK
    <3>2. ASSUME NEW e \in Deliverable(c),
                 cfg' = [cfg EXCEPT ![r] = st_apply(e, c)], start' = start
          PROVE  Atomic!Next
      <4>1. e \in Deliverable(all[r])
        BY <3>1, ApplyDelivers
      <4>2. all' = [all EXCEPT ![r] = as_deliver(e, @)]
        BY <3>1, <3>2, ApplyDelivers
      <4>3. Atomic!Deliver(r, e)
        BY <3>2, <4>2, SharedOperators DEF Atomic!Deliver
      <4>4. QED
        BY <4>1, <4>3, SharedOperators DEF Atomic!Next
    <3>3. ASSUME ~ valid(c.sigma), start' = start,
                 cfg' = [cfg EXCEPT ![r] = compensated(c)]
          PROVE  UNCHANGED Atomic!vars
      <4>1. all' = all
        BY <3>1, <3>3, CompensateStutters
      <4>2. QED
        BY <3>3, <4>1 DEF Atomic!vars
    <3>4. QED
      BY <2>1, <2>3, <3>2, <3>3, StepForms
  <2>4. QED
    BY <2>1, <2>2, <2>3 DEF Next
<1>3. QED
  BY <1>1, <1>2, TypeCorrect, PTL DEF Spec, ImplementsAtomic, Atomic!Spec

-----------------------------------------------------------------------------
(***************************************************************************)
(* Registries of machines whose repair may be interleaved.                 *)
(***************************************************************************)

(***************************************************************************)
(* The constants of the machine are those of the registry of machines      *)
(* whose repair may be interleaved.                                        *)
(***************************************************************************)
LEMMA RegistryIs ==
    /\ State = StatesOf(Interleavable) /\ Event = EventsOf(Interleavable)
    /\ Buffer = BuffersOf(Interleavable) /\ Start = AllStarts
    /\ \A s \in State :
          /\ rho(s) = m_rho(s) /\ rho_star(s) = m_rho_star(s)
          /\ valid(s) = m_valid(s) /\ Phi(s) = m_Phi(s)
          /\ \A e \in Event : apply(e, s) = m_apply(e, s)
          /\ \A B \in Buffer : \A e \in ToSet(B) :
                enabled(e, s, B) = m_enabled(e, s, B)
BY RegistryAssumption DEF AllStates, AllEvents, AllBuffers

(***************************************************************************)
(* A configuration is a state of one of those machines and a buffer of     *)
(* events.                                                                 *)
(***************************************************************************)
LEMMA ConfigIs ==
    ASSUME NEW c \in Config
    PROVE  /\ c.sigma \in State /\ c.B \in Buffer /\ c.B \in Seq(Event)
           /\ \A e \in ToSet(c.B) : e \in Event
<1>1. c.sigma \in State /\ c.B \in Buffer
  BY DEF Config
<1>2. QED
  BY <1>1, RegistryIs, BufferIsSeq

(***************************************************************************)
(* A governed event is the event and then the whole repair.                *)
(***************************************************************************)
LEMMA GovIs ==
    ASSUME NEW s \in State, NEW e \in Event
    PROVE  /\ gov(e, s) = m_rho_star(m_apply(e, s))
           /\ gov(e, s) \in State /\ gov(e, s)[1] = s[1]
<1>1. apply(e, s) = m_apply(e, s) /\ m_apply(e, s) \in State /\ m_apply(e, s)[1] = s[1]
  BY RegistryIs, AppliedStays
<1>2. rho_star(m_apply(e, s)) = m_rho_star(m_apply(e, s))
  BY <1>1, RegistryIs
<1>3. /\ m_rho_star(m_apply(e, s)) \in State
      /\ m_rho_star(m_apply(e, s))[1] = m_apply(e, s)[1]
  BY <1>1, RegistryIs, RepairFacts
<1>4. QED
  BY <1>1, <1>2, <1>3 DEF gov

(***************************************************************************)
(* What can be delivered is what the registry's independence lets past.    *)
(***************************************************************************)
LEMMA DeliverableIs ==
    ASSUME NEW c \in Config, NEW e
    PROVE  e \in Deliverable(c) <=> e \in ToSet(c.B) /\ m_enabled(e, c.sigma, c.B)
<1>1. \A x \in ToSet(c.B) : enabled(x, c.sigma, c.B) = m_enabled(x, c.sigma, c.B)
  BY ConfigIs, RegistryIs
<1>2. QED
  BY <1>1 DEF Deliverable

(***************************************************************************)
(* What the certificate, CC1 and CC2 say of the encoded states of a        *)
(* machine, valid or not, is all that the theorems of Governance.v ask of  *)
(* a registry (interleaved_convergence): compensation is well founded and  *)
(* iterates to the normal form, a governed event absorbs a compensation    *)
(* that was due, and independent events commute.                           *)
(***************************************************************************)
THEOREM InterleavableSuffices ==
    AtomicConditions(Config) /\ InterleavedConditions(Config)
<1>1. BuffersShrink(Config)
  BY ConfigIs, RestIsBuffer, RegistryIs DEF BuffersShrink
<1>2. GovernedClosed(Config)
  BY ConfigIs, GovIs DEF GovernedClosed
<1>3. ASSUME NEW c \in Config, NEW e1 \in Deliverable(c), NEW e2 \in Deliverable(c)
      PROVE  gov(e2, gov(e1, c.sigma)) = gov(e1, gov(e2, c.sigma))
  <2> DEFINE s == c.sigma
  <2>1. e1 \in Event /\ e2 \in Event /\ s \in State
    BY DeliverableIs, ConfigIs
  <2>2. CASE e1 = e2
    BY <2>2
  <2>3. CASE e1 # e2
    <3>1. e1[1] = s[1] /\ e2[1] = s[1] /\ indepA(Machines[s[1]], e1[2], e2[2])
      BY <2>3, DeliverableIs, ConfigIs, CoEnabled
    <3>2. /\ gov(e1, s) = m_rho_star(m_apply(e1, s)) /\ gov(e1, s) \in State
          /\ gov(e2, s) = m_rho_star(m_apply(e2, s)) /\ gov(e2, s) \in State
      BY <2>1, GovIs
    <3>3. /\ gov(e2, gov(e1, s)) = m_rho_star(m_apply(e2, gov(e1, s)))
          /\ gov(e1, gov(e2, s)) = m_rho_star(m_apply(e1, gov(e2, s)))
      BY <2>1, <3>2, GovIs
    <3>4. QED
      BY <2>1, <3>1, <3>2, <3>3, RegistryIs, EitherOrder
  <2>4. QED
    BY <2>2, <2>3
<1>4. ASSUME NEW c \in Config, NEW e1 \in Deliverable(c), NEW e2 \in Deliverable(c), e1 # e2
      PROVE  e2 \in Deliverable(as_deliver(e1, c))
  <2> DEFINE d == as_deliver(e1, c)
  <2>1. /\ e1 \in ToSet(c.B) /\ m_enabled(e2, c.sigma, c.B) /\ e1 \in Event
    BY DeliverableIs, ConfigIs
  <2>2. d.sigma = gov(e1, c.sigma) /\ d.B = remove1(e1, c.B)
    BY DEF as_deliver
  <2>3. d.sigma \in State /\ d.B \in Buffer /\ d.sigma[1] = c.sigma[1]
    <3>1. c.sigma \in State /\ remove1(e1, c.B) \in Buffer
      BY <1>1, <2>1, ConfigIs DEF BuffersShrink
    <3>2. gov(e1, c.sigma) \in State /\ gov(e1, c.sigma)[1] = c.sigma[1]
      BY <2>1, <3>1, GovIs
    <3> HIDE DEF d
    <3>3. QED
      BY <2>2, <3>1, <3>2
  <2>4. d \in Config
    BY <2>2, <2>3 DEF as_deliver, Config
  <2> HIDE DEF d
  <2>5. e2 \in ToSet(d.B) /\ m_enabled(e2, d.sigma, d.B)
    BY <1>4, <2>1, <2>2, <2>3, ConfigIs, StillEnabled
  <2>6. e2 \in Deliverable(d)
    BY <2>4, <2>5, DeliverableIs
  <2>7. QED
    BY <2>6 DEF d
<1>5. ASSUME NEW c \in Config
      PROVE  /\ rho(c.sigma) = m_rho(c.sigma) /\ rho_star(c.sigma) = m_rho_star(c.sigma)
             /\ valid(c.sigma) = m_valid(c.sigma) /\ Phi(c.sigma) = m_Phi(c.sigma)
             /\ rho(c.sigma) \in State /\ rho_star(c.sigma) \in State
             /\ rho(c.sigma)[1] = c.sigma[1]
             /\ Phi(rho(c.sigma)) = m_Phi(m_rho(c.sigma))
             /\ rho_star(rho(c.sigma)) = m_rho_star(m_rho(c.sigma))
  <2>1. c.sigma \in State
    BY ConfigIs
  <2>2. /\ rho(c.sigma) = m_rho(c.sigma) /\ rho_star(c.sigma) = m_rho_star(c.sigma)
        /\ valid(c.sigma) = m_valid(c.sigma) /\ Phi(c.sigma) = m_Phi(c.sigma)
    BY <2>1, RegistryIs
  <2>3. /\ rho(c.sigma) \in State /\ rho_star(c.sigma) \in State
        /\ rho(c.sigma)[1] = c.sigma[1]
    BY <2>1, <2>2, RegistryIs, RepairFacts
  <2>4. /\ Phi(rho(c.sigma)) = m_Phi(rho(c.sigma))
        /\ rho_star(rho(c.sigma)) = m_rho_star(rho(c.sigma))
    BY <2>3, RegistryIs
  <2>5. QED
    BY <2>2, <2>3, <2>4
<1>6. StatesClosed(Config)
  <2>1. ASSUME NEW c \in Config, NEW e \in ToSet(c.B)
        PROVE  apply(e, c.sigma) \in State
    BY ConfigIs, RegistryIs, AppliedStays
  <2>2. QED
    BY <1>5, <2>1 DEF StatesClosed
<1>7. wfc(Config) /\ rho_star_iterates(Config)
  <2>1. ASSUME NEW c \in Config
        PROVE  /\ Phi(c.sigma) \in Nat
               /\ ~ valid(c.sigma) => Phi(rho(c.sigma)) < Phi(c.sigma)
               /\ rho_star(c.sigma) = IF valid(c.sigma) THEN c.sigma
                                      ELSE rho_star(rho(c.sigma))
    <3>1. c.sigma \in StatesOf(Interleavable)
      BY ConfigIs, RegistryIs
    <3>2. QED
      BY <1>5, <3>1, RepairFacts
  <2>2. QED
    BY <2>1 DEF wfc, rho_star_iterates
<1>8. cc2(Config)
  <2>1. ASSUME NEW c \in Config, ~ valid(c.sigma), NEW e \in Deliverable(c)
        PROVE  gov(e, c.sigma) = gov(e, rho(c.sigma))
    <3> DEFINE s == c.sigma
    <3>1. s \in State /\ e \in Event /\ e[1] = s[1]
      BY ConfigIs, DeliverableIs DEF m_enabled
    <3>2. ~ m_valid(s) /\ rho(s) = m_rho(s) /\ rho(s) \in State
      BY <1>5, <2>1
    <3>3. gov(e, s) = m_rho_star(m_apply(e, s)) /\ gov(e, rho(s)) = m_rho_star(m_apply(e, m_rho(s)))
      BY <3>1, <3>2, GovIs
    <3>4. QED
      BY <3>1, <3>2, <3>3, RegistryIs, AbsorbsRepair
  <2>2. QED
    BY <2>1 DEF cc2
<1>9. enabled_after_comp(Config)
  <2>1. ASSUME NEW c \in Config, NEW e \in Deliverable(c)
        PROVE  e \in Deliverable([c EXCEPT !.sigma = rho(@)])
    <3> DEFINE d == [c EXCEPT !.sigma = rho(@)]
    <3>1. d.sigma = rho(c.sigma) /\ d.B = c.B /\ d \in Config
      BY <1>5, ConfigIs DEF Config
    <3>2. rho(c.sigma)[1] = c.sigma[1]
      BY <1>5
    <3>3. e \in ToSet(d.B) /\ m_enabled(e, c.sigma, d.B)
      BY <3>1, DeliverableIs
    <3> HIDE DEF d
    <3>4. m_enabled(e, d.sigma, d.B)
      BY <3>1, <3>2, <3>3 DEF m_enabled
    <3>5. e \in Deliverable(d)
      BY <3>1, <3>3, <3>4, DeliverableIs
    <3>6. QED
      BY <3>5 DEF d
  <2>2. QED
    BY <2>1 DEF enabled_after_comp
<1>10. QED
  BY <1>1, <1>2, <1>3, <1>4, <1>6, <1>7, <1>8, <1>9
     DEF AtomicConditions, InterleavedConditions, cc1_coenabled, enabled_after_remove

(***************************************************************************)
(* A run starts in a configuration.                                        *)
(***************************************************************************)
LEMMA StartsAre ==
    Start \subseteq Config
<1>1. ASSUME NEW c \in Start PROVE c \in Config
  <2>1. c \in AnyStart(Interleavable)
    BY RegistryIs DEF AllStarts
  <2>2. PICK k \in Interleavable : c \in [sigma : {k} \X box(Machines[k]), B : Buffers(k, Depth)]
    BY <2>1 DEF AnyStart
  <2>3. c.B \in [1 .. Depth -> {k} \X Events(Machines[k])]
    BY <2>2 DEF Buffers
  <2>4. Depth \in 0 .. Depth
    BY DepthAssumption
  <2>5. c.B \in Buffer
    BY <2>3, <2>4, BuffersAre, RegistryIs
  <2>6. c.sigma \in State
    BY <2>2, RegistryIs DEF StatesOf
  <2>7. c = [sigma |-> c.sigma, B |-> c.B]
    BY <2>2
  <2>8. QED
    BY <2>5, <2>6, <2>7 DEF Config
<1>2. QED
  BY <1>1

(***************************************************************************)
(* The hypotheses of the theorems above hold of every such registry.       *)
(***************************************************************************)
LEMMA ConditionsHold ==
    Conditions
BY InterleavableSuffices, StartsAre DEF Conditions

(***************************************************************************)
(* The hypotheses hold wherever a run gets, for every registry of such     *)
(* machines.                                                               *)
(***************************************************************************)
THEOREM HypothesesHold ==
    Spec => []MeetsHypotheses
<1>1. TypeOK => MeetsHypotheses
  <2>1. SUFFICES ASSUME TypeOK PROVE MeetsHypotheses
    OBVIOUS
  <2> DEFINE c == cfg[CHOOSE r \in Run : TRUE]
  <2>2. c \in Config
    <3>1. (CHOOSE r \in Run : TRUE) \in Run
      BY RunAssumption
    <3>2. QED
      BY <2>1, <3>1 DEF TypeOK
  <2> HIDE DEF c
  <2>3. AtomicConditions({c})
    BY <2>2, InterleavableSuffices
       DEF AtomicConditions, BuffersShrink, GovernedClosed, cc1_coenabled, enabled_after_remove
  <2>4. InterleavedConditions({c})
    BY <2>2, InterleavableSuffices
       DEF InterleavedConditions, StatesClosed, wfc, rho_star_iterates, cc2, enabled_after_comp
  <2>5. QED
    BY <2>3, <2>4 DEF MeetsHypotheses, c
<1>2. QED
  BY <1>1, ConditionsHold, TypeCorrect, PTL

(***************************************************************************)
(* Interleaved repair of such machines converges: runs that have come to   *)
(* rest have come to rest in one place.                                    *)
(***************************************************************************)
THEOREM InterleavableConverge ==
    Spec => []Converged
BY ConditionsHold, UniqueNormalForms

(***************************************************************************)
(* Every step of such a registry lowers the measure, a delivery or a       *)
(* compensation.                                                           *)
(***************************************************************************)
THEOREM InterleavableDecreases ==
    Spec => StepDecreases
BY ConditionsHold, EveryStepDecreases

(***************************************************************************)
(* Interleaved repair of such a registry implements atomic repair.         *)
(***************************************************************************)
THEOREM InterleavableImplements ==
    Spec => ImplementsAtomic
BY ConditionsHold, ImplementsAtomicRepair

=============================================================================
