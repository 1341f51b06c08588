-------------------------- MODULE MC_AtomicRepair --------------------------
(* Atomic repair of every certified machine, from the states its           *)
(* certificate covers.                                                     *)
EXTENDS RuleMachines, AtomicRepair, Registry

AllMachines == RegressionMachines
AllExprs == RuleExprs
AllPreds == RulePreds
AllStates == DomainOf(Certified)
AllEvents == EventsOf(Certified)
AllBuffers == BuffersOf(Certified)
AllStarts == DomainStart(Certified)

\* The registry that is run is the one of the certified machines.
ASSUME RegistryAssumption ==
    /\ State = AllStates /\ Event = AllEvents
    /\ Buffer = AllBuffers /\ Start = AllStarts
    /\ \A s \in State :
          /\ rho_star(s) = m_rho_star(s)
          /\ \A e \in Event : gov(e, s) = m_rho_star(m_apply(e, s))
          /\ \A B \in Buffer : \A e \in ToSet(B) :
                enabled(e, s, B) = m_enabled(e, s, B)

(***************************************************************************)
(* The runtime computes what the checker computed: no machine integer      *)
(* wraps and no Boolean write stores another value than the clamp does     *)
(* (checkBuild_no_overflow, checkBuild_binary_writes_exact).               *)
(***************************************************************************)
RuntimeIsModel ==
    \A r \in Run : \A e \in ToSet(cfg[r].B) :
        LET k == e[1] IN
        gov(e, cfg[r].sigma) = <<k, stepI(Machines[k], e[2], cfg[r].sigma[2])>>
=============================================================================
