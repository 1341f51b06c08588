---------------------------- MODULE AtomicRepair ----------------------------
(***************************************************************************)
(* Atomic repair (AtomicRepair.v): a delivery is followed by repair to     *)
(* completion before anything else happens.  Which buffered events can be  *)
(* delivered is up to enabled, as in GovernanceCausal.v; AtomicRepair.v    *)
(* has the case in which all of them can.  Several runs reduce the same    *)
(* start, each in an order of its own.                                     *)
(***************************************************************************)
EXTENDS Rewriting

VARIABLES start, cfg   \* the common start; the configuration of each run

vars == <<start, cfg>>

Init ==
    /\ start \in Start
    /\ cfg = [r \in Run |-> start]

Deliver(r, e) ==
    /\ cfg' = [cfg EXCEPT ![r] = as_deliver(e, @)]
    /\ UNCHANGED start

Next == \E r \in Run : \E e \in Deliverable(cfg[r]) : Deliver(r, e)

Spec == Init /\ [][Next]_vars

NormalForm(c) == Deliverable(c) = {}

TypeOK == start \in Config /\ cfg \in [Run -> Config]

(***************************************************************************)
(* Unique normal forms (atomic_exact): runs that can go no further from    *)
(* one start have ended in the same state, whatever orders they took.      *)
(***************************************************************************)
Converged ==
    \A r, q \in Run :
        NormalForm(cfg[r]) /\ NormalForm(cfg[q]) => cfg[r] = cfg[q]

(***************************************************************************)
(* Long before the end: two runs that have the same events left agree.     *)
(***************************************************************************)
SameEventsSameState ==
    \A r, q \in Run : cfg[r].B = cfg[q].B => cfg[r].sigma = cfg[q].sigma
=============================================================================
