----------------------------- MODULE Governance -----------------------------
(***************************************************************************)
(* Interleaved repair (the step relation of Governance.v): a buffered      *)
(* event may be applied at any state, one in the middle of its repair      *)
(* included, and repair goes one step at a time.                           *)
(***************************************************************************)
EXTENDS Rewriting

VARIABLES start, cfg   \* the common start; the configuration of each run

vars == <<start, cfg>>

Init ==
    /\ start \in Start
    /\ cfg = [r \in Run |-> start]

Apply(r) ==
    \E e \in Deliverable(cfg[r]) :
        /\ cfg' = [cfg EXCEPT ![r] = st_apply(e, @)]
        /\ UNCHANGED start

Compensate(r) ==
    /\ ~ valid(cfg[r].sigma)
    /\ cfg' = [cfg EXCEPT ![r].sigma = rho(@)]
    /\ UNCHANGED start

Step(r) == Apply(r) \/ Compensate(r)

Next == \E r \in Run : Step(r)

Spec == Init /\ [][Next]_vars

\* A run in which some rule can be used goes on.
FairSpec == Spec /\ \A r \in Run : WF_vars(Step(r))

NormalForm(c) == valid(c.sigma) /\ Deliverable(c) = {}

TypeOK == start \in Config /\ cfg \in [Run -> Config]

(***************************************************************************)
(* Unique normal forms (governance_unique_normal_forms): runs that can go  *)
(* no further have ended in the same state, whatever the order of their    *)
(* events and wherever in a repair each event arrived.                     *)
(***************************************************************************)
Converged ==
    \A r, q \in Run :
        NormalForm(cfg[r]) /\ NormalForm(cfg[q]) => cfg[r] = cfg[q]

\* The measure of the termination proof (step_decreases): buffer, potential.
Below(c, d) ==
    \/ Len(c.B) < Len(d.B)
    \/ Len(c.B) = Len(d.B) /\ Phi(c.sigma) < Phi(d.sigma)

\* Every step lowers the measure of the run that took it.
StepDecreases == [][\E r \in Run : Below(cfg'[r], cfg[r])]_vars

\* Every run comes to rest (terminating).
Terminates == <>[](\A r \in Run : NormalForm(cfg[r]))

(***************************************************************************)
(* Interleaved repair implements atomic repair: read every state through   *)
(* the repair that is still owed to it (atomic_split).                     *)
(***************************************************************************)
Repaired(c) == [c EXCEPT !.sigma = rho_star(@)]

RepairedStart == {Repaired(c) : c \in Start}

Atomic == INSTANCE AtomicRepair WITH
    Start <- RepairedStart,
    start <- Repaired(start),
    cfg <- [r \in Run |-> Repaired(cfg[r])]

ImplementsAtomic == Atomic!Spec
=============================================================================
