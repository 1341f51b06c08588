--------------------------- MODULE MC_Propagation ---------------------------
(* Instances of Propagation on the federations of the Coq development.     *)
EXTENDS Propagation, FedInstances

\* XU fails here, and XUR is an invariant of the run; C2 holds.
ASSUME StaticConditions == C2 /\ ~ XU
=============================================================================
