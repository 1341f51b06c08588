----------------------------- MODULE Federation -----------------------------
(***************************************************************************)
(* A federation of governed registries (FederationEvents.v): registries in *)
(* a topological order, each with a part that is the image of the states   *)
(* of its sources.  Applying an event to one registry may break that       *)
(* agreement; repairing every registry in order restores it.               *)
(***************************************************************************)
EXTENDS Integers, SequencesExt

CONSTANTS
    Order,         \* the registries, every one after its sources
    Sources,       \* per registry, the registries it reads
    Valid,         \* per registry, its valid states
    Event,
    reg(_),        \* the registry of an event
    sig(_, _),     \* the local step of an event
    rho(_, _),     \* the local repair of a registry
    f(_, _, _)     \* f(j, z, x): x with its shared part set from z

Registry == {Order[i] : i \in DOMAIN Order}

\* A state of some registries, each valid.
StatesOf(R) == {t \in [R -> UNION {Valid[k] : k \in R}] :
                    \A k \in R : t[k] \in Valid[k]}

States == StatesOf(Registry)

\* What a projection carries: the states of the sources of j.
Project(j, t) == [k \in Sources[j] |-> t[k]]

(***************************************************************************)
(* The conditions that each registry meets on its own (record Common).     *)
(***************************************************************************)
ASSUME c_topo ==
    /\ Order \in Seq(Registry)
    /\ \A i, h \in DOMAIN Order : Order[i] = Order[h] => i = h
    /\ \A i \in DOMAIN Order : \A k \in Sources[Order[i]] :
          \E h \in 1..(i - 1) : Order[h] = k

ASSUME c_reg == \A e \in Event : reg(e) \in Registry

ASSUME c_local == \A j \in Registry : \A z \in States : \A x \in Valid[j] :
                     f(j, z, x) = f(j, Project(j, z), x)

ASSUME c_m1 == \A j \in Registry : \A z \in StatesOf(Sources[j]) :
                  \A x \in Valid[j] : f(j, z, x) \in Valid[j]

ASSUME c_absorb == \A j \in Registry : \A z, y \in StatesOf(Sources[j]) :
                      \A x \in Valid[j] : f(j, z, f(j, y, x)) = f(j, z, x)

ASSUME c_rho == \A j \in Registry : \A x \in Valid[j] : rho(j, x) = x

ASSUME c_sig == \A e \in Event : \A x \in Valid[reg(e)] :
                   sig(e, x) \in Valid[reg(e)]

-----------------------------------------------------------------------------
(* Events and repair.                                                      *)

\* (Mutation: the event lands on a registry that is repaired first.)
RepairThenEvent(e, t) ==
    [t EXCEPT ![reg(e)] = sig(e, f(reg(e), t, t[reg(e)]))]

evstep(e, t) == [t EXCEPT ![reg(e)] = sig(e, t[reg(e)])]

fstep(t, j) == [t EXCEPT ![j] = f(j, t, t[j])]

\* (Mutation: targets are repaired before their sources.)
LastFirst(t) == FoldLeft(fstep, t, Reverse(Order))

\* One pass in topological order.
frun(t) ==
    LET pass[i \in 0 .. Len(Order)] ==
            IF i = 0 THEN t ELSE fstep(pass[i - 1], Order[i])
    IN  pass[Len(Order)]

\* The normal form: local repair everywhere, then the pass.
N(t) == frun([k \in Registry |-> rho(k, t[k])])

applyF(e, t) == N(evstep(e, t))

runF(es, t) ==
    LET run[i \in 0 .. Len(es)] ==
            IF i = 0 THEN t ELSE applyF(es[i], run[i - 1])
    IN  run[Len(es)]

\* A list of events, each as often as count says, in an order that has
\* nothing to do with a run.
Listing(count) ==
    LET events == SetToSeq(Event)
        list[i \in 0 .. Len(events)] ==
            IF i = 0 THEN <<>>
            ELSE list[i - 1] \o [n \in 1..count[events[i]] |-> events[i]]
    IN  list[Len(events)]

\* Every registry's shared part is the image of its sources.
Consistent(t) == \A j \in Registry : t[j] = f(j, t, t[j])

(***************************************************************************)
(* Conditions across registries.  XU: an event commutes with the repair of *)
(* its registry, up to a repair, from every valid state.  C2: so do two    *)
(* events of one registry.                                                 *)
(***************************************************************************)
XU == \A e \in Event : \A z \in States : \A b \in Valid[reg(e)] :
         f(reg(e), z, sig(e, f(reg(e), z, b))) = f(reg(e), z, sig(e, b))

C2 == \A d, e \in Event : \A z \in States : \A b \in Valid[reg(e)] :
         reg(d) = reg(e) /\ b = f(reg(e), z, b) =>
            f(reg(e), z, sig(e, f(reg(e), z, sig(d, b))))
              = f(reg(e), z, sig(d, f(reg(e), z, sig(e, b))))

\* XU at one state, for the image of the repaired sources.
XUat(t, e) ==
    LET z == N(t)
        j == reg(e)
    IN  f(j, z, sig(e, f(j, z, t[j]))) = f(j, z, sig(e, t[j]))
=============================================================================
