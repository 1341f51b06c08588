------------------------------ MODULE Rewriting ------------------------------
(***************************************************************************)
(* A single registry as a rewrite system (Governance.v).  A configuration  *)
(* is a state and a buffer of undelivered events; delivering an event may  *)
(* break the registry's invariants, and compensation (rho) repairs the     *)
(* state one step at a time.  The registry is given by the operators that  *)
(* Governance.v leaves abstract.                                           *)
(***************************************************************************)
EXTENDS Integers, Sequences, SequencesExt

CONSTANTS
    Run,              \* the reductions of one start that are compared
    State, Event,
    Buffer,           \* the lists of events that can be waiting
    Start,            \* the configurations to start from
    apply(_, _),      \* apply(e, sigma): the raw transition of an event
    rho(_),           \* one compensation step
    rho_star(_),      \* compensation iterated to validity
    valid(_),
    Phi(_),           \* the potential that compensation lowers
    enabled(_, _, _)  \* enabled(e, sigma, B)

Config == [sigma : State, B : Buffer]

\* (Mutation: a delivered event stays in the buffer.)
Kept(e, B) == B

remove1(e, B) == RemoveFirst(B, e)

\* The governed step: apply, then repair to completion.
gov(e, s) == rho_star(apply(e, s))

\* (Mutation: whatever is in the buffer can be delivered.)
Buffered(c) == ToSet(c.B)

Deliverable(c) == {e \in ToSet(c.B) : enabled(e, c.sigma, c.B)}

st_apply(e, c) == [sigma |-> apply(e, c.sigma), B |-> remove1(e, c.B)]

as_deliver(e, c) == [sigma |-> gov(e, c.sigma), B |-> remove1(e, c.B)]

(***************************************************************************)
(* The hypotheses under which the source proves unique normal forms, at    *)
(* the configurations of a set C.                                          *)
(***************************************************************************)
\* Undelivered events are a list, and what is left of it after a delivery.
BuffersShrink(C) ==
    \A c \in C : /\ c.B \in Seq(Event)
                 /\ \A e \in ToSet(c.B) : remove1(e, c.B) \in Buffer

StatesClosed(C) ==
    \A c \in C : /\ rho(c.sigma) \in State
                 /\ rho_star(c.sigma) \in State
                 /\ \A e \in ToSet(c.B) : apply(e, c.sigma) \in State

GovernedClosed(C) ==
    \A c \in C : \A e \in ToSet(c.B) : gov(e, c.sigma) \in State

wfc(C) ==
    \A c \in C : /\ Phi(c.sigma) \in Nat
                 /\ ~ valid(c.sigma) => Phi(rho(c.sigma)) < Phi(c.sigma)

\* Iterated compensation stops at a valid state and nowhere else.
rho_star_iterates(C) ==
    \A c \in C : rho_star(c.sigma) = IF valid(c.sigma) THEN c.sigma
                                     ELSE rho_star(rho(c.sigma))

\* Two events that can be delivered now can be delivered in either order.
cc1_coenabled(C) ==
    \A c \in C : \A e1, e2 \in Deliverable(c) :
        gov(e2, gov(e1, c.sigma)) = gov(e1, gov(e2, c.sigma))

\* An event absorbs a pending compensation step.
cc2(C) ==
    \A c \in C : ~ valid(c.sigma) =>
        \A e \in Deliverable(c) : gov(e, c.sigma) = gov(e, rho(c.sigma))

enabled_after_remove(C) ==
    \A c \in C : \A e1, e2 \in Deliverable(c) :
        e1 # e2 => e2 \in Deliverable(as_deliver(e1, c))

enabled_after_comp(C) ==
    \A c \in C : ~ valid(c.sigma) =>
        Deliverable(c) \subseteq Deliverable([c EXCEPT !.sigma = rho(@)])

\* What atomic repair needs; what interleaved repair needs on top of it.
AtomicConditions(C) ==
    /\ BuffersShrink(C) /\ GovernedClosed(C)
    /\ cc1_coenabled(C) /\ enabled_after_remove(C)

InterleavedConditions(C) ==
    /\ StatesClosed(C) /\ wfc(C) /\ rho_star_iterates(C)
    /\ cc2(C) /\ enabled_after_comp(C)
=============================================================================
