----------------------------- MODULE FedMachine -----------------------------
(***************************************************************************)
(* What a federation promises: one machine that applies an event and       *)
(* repairs every registry in a single step (applyF).  Propagation and its  *)
(* channels are invisible.                                                 *)
(***************************************************************************)
EXTENDS Federation

CONSTANT Start    \* where the registries start

VARIABLE fed

Init == fed = N(Start)

Apply(e) == fed' = applyF(e, fed)

Next == \E e \in Event : Apply(e)

Spec == Init /\ [][Next]_fed
=============================================================================
