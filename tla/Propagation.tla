----------------------------- MODULE Propagation ----------------------------
(***************************************************************************)
(* The distributed model with current values (FederationEvents.v): a local *)
(* event changes its registry alone, and in a step of its own a registry   *)
(* merges what its sources hold at that moment.                            *)
(***************************************************************************)
EXTENDS Federation

CONSTANTS
    Start,
    MaxPerformed    \* bound: how often each event happens

ASSUME StartIsValid == Start \in States
ASSUME MaxPerformedType == MaxPerformed \in Nat

VARIABLES
    cs,           \* per registry, its state
    performed     \* how often each event has happened

distVars == <<cs, performed>>

LocalEvent(e) ==
    /\ performed[e] < MaxPerformed
    /\ cs' = evstep(e, cs)
    /\ performed' = [performed EXCEPT ![e] = @ + 1]

Propagate(j) ==
    /\ cs' = fstep(cs, j)
    /\ UNCHANGED performed

DistInit ==
    /\ cs = Start
    /\ performed = [e \in Event |-> 0]

DistNext ==
    \/ \E e \in Event : LocalEvent(e)
    \/ \E j \in Registry : Propagate(j)

DistSpec == DistInit /\ [][DistNext]_distVars

-----------------------------------------------------------------------------
\* At every state that propagation reaches, stale parts included, an event
\* commutes with the repair of its registry.
XUR == \A e \in Event : XUat(cs, e)

\* However events and propagation interleaved, completing the propagation
\* gives the state that the federated machine reaches with the same events.
DistConv == N(cs) = runF(Listing(performed), N(Start))

\* And it does so step by step: an event is one step of that machine, and a
\* propagation is none.
Fed == INSTANCE FedMachine WITH fed <- N(cs)

ImplementsFed == Fed!Spec
=============================================================================
