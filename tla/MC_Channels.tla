---------------------------- MODULE MC_Channels ----------------------------
(* Instances of Channels on the federations of the Coq development.        *)
EXTENDS Channels, FedInstances

\* The instances meet the conditions that the convergence results assume.
ASSUME StaticConditions == XU /\ C2
=============================================================================
