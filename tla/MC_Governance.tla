---------------------------- MODULE MC_Governance ---------------------------
(* Interleaved repair of the machines that allow it, from every state of   *)
(* the small ones and, in the others, the upper half of the first variable *)
(* (the one whose invariant can be violated).                              *)
EXTENDS RuleMachines, Governance, Registry

AllMachines == RegressionMachines
AllExprs == RuleExprs
AllPreds == RulePreds
AllStates == StatesOf(Interleavable)
AllEvents == EventsOf(Interleavable)
AllBuffers == BuffersOf(Interleavable)
AllStarts ==
    {c \in AnyStart(Interleavable) :
        LET m == Machines[c.sigma[1]]
            s == c.sigma[2]
        IN  \/ fuelOf(m) <= 8
            \/ /\ 2 * s[1] >= m.doms[1]
               /\ \A i \in DOMAIN m.doms : i > 1 => s[i] = 0}

\* The registry that is run is the one of those machines.
ASSUME RegistryAssumption ==
    /\ State = AllStates /\ Event = AllEvents
    /\ Buffer = AllBuffers /\ Start = AllStarts
    /\ \A s \in State :
          /\ rho(s) = m_rho(s) /\ rho_star(s) = m_rho_star(s)
          /\ valid(s) = m_valid(s) /\ Phi(s) = m_Phi(s)
          /\ \A e \in Event : apply(e, s) = m_apply(e, s)
          /\ \A B \in Buffer : \A e \in ToSet(B) :
                enabled(e, s, B) = m_enabled(e, s, B)

ASSUME RunAssumption == Run # {}

(***************************************************************************)
(* What the certificate and CC2 say of a machine's states amounts to the   *)
(* hypotheses of the convergence theorems, wherever a run gets: a run that *)
(* is alone gets there too, and every run moves alike.                     *)
(***************************************************************************)
MeetsHypotheses ==
    LET r == CHOOSE q \in Run : TRUE IN
    (\A q \in Run \ {r} : cfg[q] = start) =>
        AtomicConditions({cfg[r]}) /\ InterleavedConditions({cfg[r]})
=============================================================================
